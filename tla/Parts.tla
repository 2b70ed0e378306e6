-------------------------------- MODULE Parts ---------------------------------
(***************************************************************************)
(* The parts of the program that share no state with one another: the      *)
(* decider, the NER service with its clients, the stream filter, the       *)
(* masking of a text and the walk over a request.  Since a step of one     *)
(* leaves the others' variables and guards alone, their interleavings tell *)
(* nothing that a behaviour of one of them does not: a behaviour here is   *)
(* that of one part, chosen at the start.                                  *)
(***************************************************************************)
EXTENDS CoreParts

CONSTANTS
  Requests, MaxDepth    \* Payload

VARIABLES
  part,
  request, api, walking

P == INSTANCE Payload WITH pc <- walking

walk == <<request, api, walking>>
allVars == <<part, vars, ner, stream, masks, walk>>

PartsInit ==
  /\ part \in {"decider", "ner", "stream", "spans", "payload"}
  /\ IF part = "decider" THEN Init ELSE Init /\ configured = Backends
  /\ N!Init
  /\ IF part = "stream" THEN F!Init
     ELSE reply = <<>> /\ arrived = 0 /\ buf = <<>> /\ shown = <<>> /\ mode = FALSE
          /\ steady = FALSE /\ failed = 0 /\ flips = 0 /\ ended = FALSE
  /\ IF part = "spans" THEN S!Init
     ELSE primary = None /\ secondary = None /\ known = None /\ spans = None
          /\ kept = None /\ end = None /\ detected = None /\ text = None /\ masking = None
  /\ IF part = "payload" THEN P!Init ELSE request = None /\ api = None /\ walking = None

PartsNext ==
  \/ part = "decider" /\ Next /\ UNCHANGED <<part, ner, stream, masks, walk>>
  \/ part = "ner" /\ N!Next /\ UNCHANGED <<part, vars, stream, masks, walk>>
  \/ part = "stream" /\ F!Next /\ UNCHANGED <<part, vars, ner, masks, walk>>
  \/ part = "spans" /\ S!Next /\ UNCHANGED <<part, vars, ner, stream, walk>>
  \/ part = "payload" /\ P!Next /\ UNCHANGED <<part, vars, ner, stream, masks>>

PartsSpec == PartsInit /\ [][PartsNext]_allVars /\ Fairness /\ N!Fairness
=============================================================================
