----------------------------- MODULE Registration -----------------------------
(***************************************************************************)
(* The plugin takes its places in the host:                                *)
(* src/hermescloak/hermes_plugin/__init__.py 105-303.  Every call of       *)
(* register wraps the transports, the stream and the auxiliary client if   *)
(* they are not wrapped yet, and notes what it could not wrap; a transport *)
(* that the host registers later is wrapped on its way.                    *)
(***************************************************************************)
EXTENDS Integers, Sequences

CONSTANTS
  Threads,   \* those that call register
  Classes,   \* the host's transport classes
  Mro,       \* where the attributes of each one are looked for, itself first
  Defines,   \* those that define normalize_response themselves
  Early,     \* those registered from the start
  MaxCalls   \* bound: calls of register

VARIABLES
  host,      \* the targets that this version of the host has
  registry,  \* agent.transports._REGISTRY
  layers,    \* how often a class's own normalize_response restores; 0 as the host made it
  hook,      \* register_transport is wrapped
  stream, aux,  \* how often the stream and the auxiliary client are wrapped
  status,    \* _STATUS: the targets found wanting
  degraded,  \* _DEGRADED
  at,        \* where each thread is in register
  left,      \* the classes it has still to wrap
  found,     \* what it found wanting
  missed,    \* history: registered while a thread was between its list and its hook
  calls

vars == <<host, registry, layers, hook, stream, aux, status, degraded, at, left, found, missed, calls>>
wraps == <<layers, hook, stream, aux>>

Targets == {"inbound", "streaming", "auxiliary"}

Init ==
  /\ host \in SUBSET Targets
  /\ registry = Early
  /\ layers = [c \in Classes |-> 0] /\ hook = FALSE
  /\ stream = 0 /\ aux = 0
  /\ status = {} /\ degraded = {}
  /\ at = [th \in Threads |-> "idle"]
  /\ left = [th \in Threads |-> {}] /\ found = [th \in Threads |-> {}]
  /\ missed = {} /\ calls = 0

-----------------------------------------------------------------------------
(* Transports.                                                             *)

\* A class with a method of its own; it stays one when the method is wrapped.
Has(c) == c \in Defines \/ layers[c] > 0

\* getattr: where in its Mro the method of a class is found, if there is one.
Owner(c) ==
  {i \in DOMAIN Mro[c] : Has(Mro[c][i]) /\ \A j \in 1 .. i - 1 : ~Has(Mro[c][j])}

\* How often that method restores; -1 for no method.
Restores(c) == IF Owner(c) = {} THEN -1 ELSE layers[Mro[c][CHOOSE i \in Owner(c) : TRUE]]

\* Mutant of Marked: the class itself is asked, not what it inherits.
MarkedItself(c) == layers[c] > 0

\* The method is ours already, or the class inherits one that is.
Marked(c) == Restores(c) > 0

\* _wrap_normalize
Wrapped(c) ==
  IF Restores(c) = -1 \/ Marked(c) THEN layers
  ELSE [layers EXCEPT ![c] = Restores(c) + 1]

\* The host registers a class; the hook wraps it first.
Late(c) ==
  /\ c \notin registry /\ registry' = registry \cup {c}
  /\ layers' = IF hook THEN Wrapped(c) ELSE layers
  /\ missed' = IF ~hook /\ \E th \in Threads : at[th] = "wrap" THEN missed \cup {c} ELSE missed
  /\ UNCHANGED <<host, hook, stream, aux, status, degraded, at, left, found, calls>>

-----------------------------------------------------------------------------
(* register.                                                               *)

Go(th, where) == at' = [at EXCEPT ![th] = where]

\* The request middleware takes its place before anything else.
Register(th) ==
  /\ at[th] = "idle" /\ calls < MaxCalls /\ calls' = calls + 1
  /\ Go(th, "lock")
  /\ UNCHANGED <<host, registry, wraps, status, degraded, left, found, missed>>

\* _PATCH_LOCK
LockFree == \A th \in Threads : at[th] \notin {"wrap", "stream", "aux"}

\* _patch_transports: the list of what is there.
List(th) ==
  /\ at[th] = "lock" /\ LockFree
  /\ IF "inbound" \in host /\ registry # {}
     THEN Go(th, "wrap") /\ left' = [left EXCEPT ![th] = registry] /\ UNCHANGED status
     ELSE Go(th, "stream") /\ status' = status \cup {"inbound"} /\ UNCHANGED left
  /\ UNCHANGED <<host, registry, wraps, degraded, found, missed, calls>>

Wrap(th) ==
  /\ at[th] = "wrap"
  /\ \E c \in left[th] :
       layers' = Wrapped(c) /\ left' = [left EXCEPT ![th] = @ \ {c}]
  /\ UNCHANGED <<host, registry, hook, stream, aux, status, degraded, at, found, missed, calls>>

Hook(th) ==
  /\ at[th] = "wrap" /\ left[th] = {}
  /\ hook' = TRUE /\ status' = status \ {"inbound"} /\ Go(th, "stream")
  /\ UNCHANGED <<host, registry, layers, stream, aux, degraded, left, found, missed, calls>>

\* A target that is there is wrapped, once.
Once(target, n) == IF target \in host /\ n = 0 THEN 1 ELSE n
Noted(target) == IF target \in host THEN status \ {target} ELSE status \cup {target}

\* _patch_streaming
Stream(th) ==
  /\ at[th] = "stream" /\ Go(th, "aux")
  /\ stream' = Once("streaming", stream) /\ status' = Noted("streaming")
  /\ UNCHANGED <<host, registry, layers, hook, aux, degraded, left, found, missed, calls>>

\* _patch_auxiliary; the status is copied and the lock is free.
Auxiliary(th) ==
  /\ at[th] = "aux" /\ Go(th, "test")
  /\ aux' = Once("auxiliary", aux) /\ status' = Noted("auxiliary")
  /\ found' = [found EXCEPT ![th] = Noted("auxiliary")]
  /\ UNCHANGED <<host, registry, layers, hook, stream, degraded, left, missed, calls>>

\* self_test may fail for reasons of its own.
SelfTest(th) ==
  /\ at[th] = "test" /\ Go(th, "clear")
  /\ \E failed \in SUBSET {"self_test"} : found' = [found EXCEPT ![th] = @ \cup failed]
  /\ UNCHANGED <<host, registry, wraps, status, degraded, left, missed, calls>>

\* What main turns are withheld for.
Grave == {"self_test", "auxiliary"}

\* _DEGRADED.clear, and then update.
Clear(th) ==
  /\ at[th] = "clear" /\ Go(th, "update")
  /\ degraded' = {}
  /\ UNCHANGED <<host, registry, wraps, status, left, found, missed, calls>>

Update(th) ==
  /\ at[th] = "update" /\ Go(th, "idle")
  /\ degraded' = degraded \cup (found[th] \cap Grave)
  /\ UNCHANGED <<host, registry, wraps, status, left, found, missed, calls>>

Next ==
  \/ \E c \in Classes : Late(c)
  \/ \E th \in Threads :
       \/ Register(th) \/ List(th) \/ Wrap(th) \/ Hook(th) \/ Stream(th) \/ Auxiliary(th)
       \/ SelfTest(th) \/ Clear(th) \/ Update(th)

Spec == Init /\ [][Next]_vars

-----------------------------------------------------------------------------
(* Properties.                                                             *)

Settled == calls > 0 /\ \A th \in Threads : at[th] = "idle"

\* Once every call of register has returned, a reply is restored exactly once, whichever
\* transport it comes with, whatever that inherits and however often the plugin was
\* registered ("idempotent", line 258; lines 128-138), and so are streams and auxiliary
\* calls; and a host without its auxiliary funnel has its main turns withheld (lines 25-27).
RestoredOnce ==
  /\ \A c \in Classes : Restores(c) <= 1
  /\ stream <= 1 /\ aux <= 1
  /\ Settled => /\ hook => \A c \in registry \ missed : Restores(c) \in {-1, 1}
                /\ degraded \cap {"auxiliary"} = {} => aux = 1
=============================================================================
