------------------------------ MODULE NerService ------------------------------
(***************************************************************************)
(* The NER service and its clients: src/hermescloak/service/auth.py (the   *)
(* token both sides read), service/ner_service.py (the holder of the one   *)
(* model) and adapter/ner_client.py (the client with its breaker).  A text *)
(* is asked about by a client thread; the service answers in a thread of   *)
(* its own, which is the same actor here since the client waits for it.    *)
(***************************************************************************)
EXTENDS Integers

CONSTANTS
  Clients,    \* threads that recognize with one client object
  Starters,   \* processes that start the service
  Cooldown,   \* the pause of the breaker, in ticks; positive
  None

VARIABLES
  file,     \* the token file: who made the token, or None
  start,    \* where each starter is, and the token it has
  service,  \* the token of the service that answers on the port, or None
  control,  \* the control file does not say off
  timely,   \* the service answers within the timeout, and without an error
  open,     \* what is left of the breaker's pause
  up,       \* _up: what was last reported
  client,   \* where each client is, and the token it has read
  rec,      \* the holder's model is loaded
  hand      \* the model a recognition took from the holder

vars == <<file, start, service, control, timely, open, up, client, rec, hand>>
serving == <<file, start, service>>
asking == <<control, timely, open, up, client>>
model == <<rec, hand>>

Off == [at |-> "off", tok |-> None]
Idle == [at |-> "idle", tok |-> None]

Init ==
  /\ file = None /\ service = None
  /\ start = [x \in Starters |-> Off]
  /\ control = TRUE /\ timely = TRUE /\ open = 0 /\ up = TRUE
  /\ client = [c \in Clients |-> Idle]
  /\ rec = FALSE /\ hand = [c \in Clients |-> FALSE]

-----------------------------------------------------------------------------
(* ensure_token and serve.                                                 *)

\* The file is there: its token is used.  Else a new token is written beside it.
ReadFirst(x) ==
  /\ start[x].at = "off"
  /\ start' = [start EXCEPT ![x] = IF file # None THEN [at |-> "bind", tok |-> file]
                                   ELSE [at |-> "link", tok |-> x]]
  /\ UNCHANGED <<file, service, asking, model>>

\* Mutant of Linked: the new file replaces what is there.
Replaced(x) == x

\* os.link never replaces a token that another start wrote.
Linked(x) == IF file = None THEN x ELSE file

Link(x) ==
  /\ start[x].at = "link"
  /\ file' = Linked(x)
  /\ start' = [start EXCEPT ![x].at = "reread"]
  /\ UNCHANGED <<service, asking, model>>

Reread(x) ==
  /\ start[x].at = "reread"
  /\ start' = [start EXCEPT ![x] = [at |-> "bind", tok |-> file]]
  /\ UNCHANGED <<file, service, asking, model>>

\* The port takes one server; a second one does not start.
Bind(x) ==
  /\ start[x].at = "bind"
  /\ IF service = None
     THEN service' = start[x].tok /\ start' = [start EXCEPT ![x].at = "serving"]
     ELSE start' = [start EXCEPT ![x] = Off] /\ UNCHANGED service
  /\ UNCHANGED <<file, asking, model>>

\* A starter or the service ends, at any point; its model goes with it, and the requests it
\* was answering fail.
Stop(x) ==
  /\ start[x].at # "off"
  /\ start' = [start EXCEPT ![x] = Off]
  /\ IF start[x].at = "serving"
     THEN /\ service' = None /\ rec' = FALSE /\ hand' = [c \in Clients |-> FALSE]
          /\ client' = [c \in Clients |->
               IF client[c].at = "run" THEN [client[c] EXCEPT !.at = "failed"] ELSE client[c]]
     ELSE UNCHANGED <<service, client, model>>
  /\ UNCHANGED <<file, control, timely, open, up>>

-----------------------------------------------------------------------------
(* NerServiceRecognizer.recognize.                                         *)

At(c, place) == client' = [client EXCEPT ![c].at = place]

\* Mutant of AfterSkip: a skipped call starts the pause anew.
RenewedBySkip == Cooldown

\* A call that meets the open breaker leaves the pause as it is.
AfterSkip == open

\* Switched off, or the breaker is open: no spans.
Skip(c) ==
  /\ client[c].at = "idle" /\ control /\ open > 0
  /\ open' = AfterSkip
  /\ UNCHANGED <<serving, control, timely, up, client, model>>

Begin(c) ==
  /\ client[c].at = "idle" /\ control /\ open = 0
  /\ client' = [client EXCEPT ![c] = IF file = None THEN [at |-> "failed", tok |-> None]
                                     ELSE [at |-> "hello", tok |-> file]]
  /\ UNCHANGED <<serving, control, timely, open, up, model>>

\* The service must prove that it knows the token before it gets the text.
Hello(c) ==
  /\ client[c].at = "hello"
  /\ At(c, IF service = client[c].tok THEN "ask" ELSE "failed")
  /\ UNCHANGED <<serving, control, timely, open, up, model>>

\* Mutant of Taken: the model is taken before the lock, as it was before it is loaded.
TakenEarly == rec

\* Under the holder's lock the model is loaded, if need be, and taken.
Taken == TRUE

Recognize(c) ==
  /\ client[c].at = "ask"
  /\ IF service = client[c].tok
     THEN At(c, "run") /\ rec' = TRUE /\ hand' = [hand EXCEPT ![c] = Taken]
     ELSE At(c, "failed") /\ UNCHANGED model
  /\ UNCHANGED <<serving, control, timely, open, up>>

Spans(c) ==
  /\ client[c].at = "run"
  /\ client' = [client EXCEPT ![c] = Idle] /\ hand' = [hand EXCEPT ![c] = FALSE]
  /\ up' = TRUE
  /\ UNCHANGED <<serving, control, timely, open, rec>>

\* A service that is there does not answer in time, or with an error: at either request, and
\* while it recognizes too; what it finds then is read by nobody.
Late(c) ==
  /\ ~timely /\ client[c].at \in {"hello", "ask", "run"}
  /\ At(c, "failed") /\ hand' = [hand EXCEPT ![c] = FALSE]
  /\ UNCHANGED <<serving, control, timely, open, up, rec>>

Trip(c) ==
  /\ client[c].at = "failed"
  /\ open' = Cooldown
  /\ At(c, "down")
  /\ UNCHANGED <<serving, control, timely, up, model>>

Down(c) ==
  /\ client[c].at = "down"
  /\ up' = FALSE
  /\ client' = [client EXCEPT ![c] = Idle]
  /\ UNCHANGED <<serving, control, timely, open, model>>

-----------------------------------------------------------------------------
(* The surroundings.                                                       *)

Tick == open > 0 /\ open' = open - 1 /\ UNCHANGED <<serving, control, timely, up, client, model>>
Switch == control' = ~control /\ UNCHANGED <<serving, timely, open, up, client, model>>

\* The service hangs, loads its model or raises; and it recovers.
Falter == timely' = ~timely /\ UNCHANGED <<serving, control, open, up, client, model>>

\* The requests /load and /unload.
Load == service # None /\ ~rec /\ rec' = TRUE /\ UNCHANGED <<serving, asking, hand>>
Unload == rec /\ rec' = FALSE /\ UNCHANGED <<serving, asking, hand>>

StartStep(x) == ReadFirst(x) \/ Link(x) \/ Reread(x) \/ Bind(x)
ClientStep(c) == Hello(c) \/ Recognize(c) \/ Spans(c) \/ Late(c) \/ Trip(c) \/ Down(c)

Next ==
  \/ \E x \in Starters : StartStep(x) \/ Stop(x)
  \/ \E c \in Clients : ClientStep(c) \/ Begin(c) \/ Skip(c)
  \/ Tick \/ Switch \/ Falter \/ Load \/ Unload

\* Time passes, and a call under way goes on: its connections have timeouts.
Fairness == WF_vars(Tick) /\ \A c \in Clients : WF_vars(ClientStep(c))

Spec == Init /\ [][Next]_vars /\ Fairness

-----------------------------------------------------------------------------
(* Properties.                                                             *)

\* However many starts race for the first token, all that have theirs, the service that
\* answers and the clients agree with the file (auth.py:31-50).
OneToken ==
  /\ \A x \in Starters : start[x].at \in {"bind", "serving"} => start[x].tok = file
  /\ service \in {None, file}
  /\ \A c \in Clients : client[c].at \in {"hello", "ask", "run"} => client[c].tok = file

\* A recognition under way keeps its model although the holder is told to unload
\* (ner_service.py:53-59).
ModelInHand == \A c \in Clients : client[c].at = "run" => hand[c]

\* Once the service is there, answers in time and goes on so, the breaker closes for good:
\* NER comes back without a restart after any outage, slow spell or error, however often it
\* is asked meanwhile (ner_client.py:28-29).
ComesBack == <>[](service # None /\ timely) => <>[](open = 0)
=============================================================================
