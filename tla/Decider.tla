------------------------------- MODULE Decider --------------------------------
(***************************************************************************)
(* The door to the decision models: src/hermescloak/decide.py.  Callers    *)
(* ask one of two backends and may fall back to the other one; a breaker   *)
(* per backend, a number of slots and a daily cap limit the calls; a       *)
(* background thread may ask the other backend in shadow.                  *)
(*                                                                         *)
(* One action per piece of _one that runs without giving up the lock: other *)
(* calls come between any two of them.                                     *)
(***************************************************************************)
EXTENDS Integers, FiniteSets

CONSTANTS
  Callers,      \* threads of the agent
  Shadow,       \* the background thread of a shadow call
  Asks,         \* what callers ask for: backend, fallback (or Default), shadow, and the
                \* number of options they want a choice from
  Default,      \* fallback: not given
  Configurations,   \* which backends may have a key or a url
  Concurrency, BreakerFails, DailyCap,
  MaxChoice, LocalMaxChoice,   \* how many options a vendor and a local model take
  MaxDays, MaxCalls,   \* bounds: days, calls of decide
  None

Backends == {"jev", "local"}
Actors == Callers \cup {Shadow}

ASSUME ConstantsAssumption ==
  /\ IsFiniteSet(Callers) /\ Shadow \notin Callers
  /\ Asks \subseteq [backend : Backends, fallback : BOOLEAN \cup {Default}, shadow : BOOLEAN,
                   options : Nat]
  /\ Configurations \subseteq SUBSET Backends
  /\ {Concurrency, BreakerFails, DailyCap, MaxChoice, LocalMaxChoice, MaxDays} \subseteq Nat \ {0} /\ MaxCalls \in Nat

VARIABLES
  configured,   \* the backends that have a key or a url
  breaker,   \* of each backend: consecutive failures, and whether it is open
  today,     \* the calendar
  day,       \* _day: the day counted, calls, whether the cap has been announced
  free,      \* free slots
  shadowed,  \* the slot of the shadow call is taken
  call,      \* where each actor is
  told,      \* history: how often the cap was announced on each day
  calls

vars == <<configured, breaker, today, day, free, shadowed, call, told, calls>>

Reasons == {"ok", "breaker", "no-key", "invalid", "daily-cap", "busy", "error"}

\* An actor: where it is, what was asked, which backend it tries now, what the first
\* attempt gave (None while it is the first), and the result.
Idle == [at |-> "idle", ask |-> None, backend |-> None, first |-> None, out |-> None]

Init ==
  /\ configured \in Configurations
  /\ breaker = [b \in Backends |-> [fails |-> 0, open |-> FALSE]]
  /\ today = 1 /\ day = [d |-> 0, n |-> 0, announced |-> FALSE]
  /\ free = Concurrency /\ shadowed = FALSE
  /\ call = [p \in Actors |-> Idle]
  /\ told = [d \in 0 .. MaxDays |-> 0]
  /\ calls = 0

Other(b) == IF b = "jev" THEN "local" ELSE "jev"

\* By default only a vendor falls back.
MayFallBack(ask) == IF ask.fallback = Default THEN ask.backend # "local" ELSE ask.fallback

-----------------------------------------------------------------------------
(* What follows an attempt.                                                *)

\* Mutant of TriesOther: a failed second attempt goes back to the first backend.
TriesAgain(c, out) ==
  /\ out \notin {"ok", "invalid", "daily-cap"} /\ MayFallBack(c.ask)
  /\ Other(c.backend) \in configured

\* The other backend is tried once, when the first one gave no answer.
TriesOther(c, out) ==
  /\ c.first = None /\ out \notin {"ok", "invalid", "daily-cap"} /\ MayFallBack(c.ask)
  /\ Other(c.backend) \in configured

\* The primary's answer goes into the shadow, when the one place there is free.
StartsShadow(c, out) ==
  /\ c.ask.shadow /\ out = "ok" /\ c.first = None
  /\ Other(c.backend) \in configured /\ ~shadowed

\* Mutant of ShadowEnded: the slot is given back after an answer only.
ShadowEndedOk(out) == shadowed' = (out # "ok")

\* finally: the slot of the shadow call is given back.
ShadowEnded(out) == shadowed' = FALSE

\* The attempt of p ends with out.
End(p, out) ==
  LET c == call[p] IN
  IF p = Shadow THEN /\ call' = [call EXCEPT ![p] = Idle] /\ ShadowEnded(out)
  ELSE IF TriesOther(c, out)
  THEN /\ call' = [call EXCEPT ![p].at = "breaker", ![p].backend = Other(@), ![p].first = out]
       /\ UNCHANGED shadowed
  ELSE LET result == IF c.first # None /\ out # "ok" THEN c.first ELSE out
           ended == [call EXCEPT ![p].at = "done", ![p].out = result]
       IN  IF StartsShadow(c, out)
           THEN /\ shadowed' = TRUE
                /\ call' = [ended EXCEPT ![Shadow] =
                     [Idle EXCEPT !.at = "breaker", !.ask = c.ask, !.backend = Other(c.backend)]]
           ELSE call' = ended /\ UNCHANGED shadowed

-----------------------------------------------------------------------------
(* decide and _one.                                                        *)

\* validate
Valid(ask, most) == 2 <= ask.options /\ ask.options <= most

\* No backend is asked.
Invalid(p, ask) ==
  /\ call[p].at \in {"idle", "done"} /\ calls < MaxCalls /\ ~Valid(ask, MaxChoice)
  /\ call' = [call EXCEPT ![p] = [Idle EXCEPT !.at = "done", !.ask = ask, !.out = "invalid"]]
  /\ calls' = calls + 1
  /\ UNCHANGED <<configured, breaker, today, day, free, shadowed, told>>

Ask(p, ask) ==
  /\ call[p].at \in {"idle", "done"} /\ calls < MaxCalls /\ Valid(ask, MaxChoice)
  /\ call' = [call EXCEPT ![p] = [Idle EXCEPT !.at = "breaker", !.ask = ask, !.backend = ask.backend]]
  /\ calls' = calls + 1
  /\ UNCHANGED <<configured, breaker, today, day, free, shadowed, told>>

\* A local model takes fewer options.
Takes(b, ask) == b # "local" \/ Valid(ask, LocalMaxChoice)

CheckBreaker(p) ==
  LET c == call[p]
      asked == ~breaker[c.backend].open /\ c.backend \in configured
  IN
  /\ c.at = "breaker"
  /\ \/ breaker[c.backend].open /\ End(p, "breaker")
     \/ ~breaker[c.backend].open /\ c.backend \notin configured /\ End(p, "no-key")
     \/ asked /\ ~Takes(c.backend, c.ask) /\ End(p, "invalid")
     \/ /\ asked /\ Takes(c.backend, c.ask)
        /\ call' = [call EXCEPT ![p].at = "count"] /\ UNCHANGED shadowed
  /\ UNCHANGED <<configured, breaker, today, day, free, told, calls>>

\* Mutant of Turned: every refusal clears the flag.
TurnedAlways ==
  IF day.d = today THEN [day EXCEPT !.announced = FALSE]
  ELSE [d |-> today, n |-> 0, announced |-> FALSE]

\* The count starts anew with the day.
Turned == IF day.d = today THEN day ELSE [d |-> today, n |-> 0, announced |-> FALSE]

\* _count_ok
Count(p) ==
  /\ call[p].at = "count"
  /\ IF Turned.n >= DailyCap
     THEN day' = Turned /\ call' = [call EXCEPT ![p].at = "cap"]
     ELSE day' = [Turned EXCEPT !.n = @ + 1] /\ call' = [call EXCEPT ![p].at = "wait"]
  /\ UNCHANGED <<configured, breaker, today, free, shadowed, told, calls>>

\* _cap_result
Announce(p) ==
  /\ call[p].at = "cap"
  /\ day' = [day EXCEPT !.announced = TRUE]
  /\ told' = IF day.announced THEN told ELSE [told EXCEPT ![day.d] = @ + 1]
  /\ End(p, "daily-cap")
  /\ UNCHANGED <<configured, breaker, today, free, calls>>

\* A slot is free: the text goes to the backend.
Post(p) ==
  LET c == call[p] IN
  /\ c.at = "wait" /\ free > 0
  /\ free' = free - 1
  /\ call' = [call EXCEPT ![p].at = "post"]
  /\ UNCHANGED <<configured, breaker, today, day, shadowed, told, calls>>

\* None became free within the call's own deadline.
Busy(p) ==
  /\ call[p].at = "wait" /\ free = 0
  /\ End(p, "busy")
  /\ UNCHANGED <<configured, breaker, today, day, free, told, calls>>

\* Mutant of FreeAfter: an error leaves the slot taken.
FreeAfterOk(out) == IF out = "ok" THEN free + 1 ELSE free

\* finally: the slot is released.
FreeAfter(out) == free + 1

\* An answer, an error or the timeout.
Answer(p, out) ==
  /\ call[p].at = "post"
  /\ free' = FreeAfter(out)
  /\ call' = [call EXCEPT ![p].at = "record", ![p].out = out]
  /\ UNCHANGED <<configured, breaker, today, day, shadowed, told, calls>>

\* Mutant of Recorded: the breaker opens one failure too late.
RecordedLate(b, out) ==
  IF out = "ok" THEN [b EXCEPT !.fails = 0]
  ELSE IF b.fails + 1 > BreakerFails THEN [fails |-> 0, open |-> TRUE]
  ELSE [b EXCEPT !.fails = @ + 1]

\* The breaker after an attempt.
Recorded(b, out) ==
  IF out = "ok" THEN [b EXCEPT !.fails = 0]
  ELSE IF b.fails + 1 >= BreakerFails THEN [fails |-> 0, open |-> TRUE]
  ELSE [b EXCEPT !.fails = @ + 1]

Record(p) ==
  LET c == call[p] IN
  /\ c.at = "record"
  /\ breaker' = [breaker EXCEPT ![c.backend] = Recorded(@, c.out)]
  /\ End(p, c.out)
  /\ UNCHANGED <<configured, today, day, free, told, calls>>

Step(p) ==
  \/ CheckBreaker(p) \/ Count(p) \/ Announce(p) \/ Post(p) \/ Busy(p)
  \/ \E out \in {"ok", "error"} : Answer(p, out)
  \/ Record(p)

-----------------------------------------------------------------------------
(* Time.                                                                   *)

Cool(b) ==
  /\ breaker[b].open
  /\ breaker' = [breaker EXCEPT ![b].open = FALSE]
  /\ UNCHANGED <<configured, today, day, free, shadowed, call, told, calls>>

Midnight ==
  /\ today < MaxDays /\ today' = today + 1
  /\ UNCHANGED <<configured, breaker, day, free, shadowed, call, told, calls>>

Next ==
  \/ \E p \in Callers, ask \in Asks : Invalid(p, ask) \/ Ask(p, ask)
  \/ \E p \in Actors : Step(p)
  \/ \E b \in Backends : Cool(b)
  \/ Midnight

\* Threads are scheduled, and a request ends with an answer, an error or its timeout.
Fairness == \A p \in Actors : WF_vars(Step(p))

Spec == Init /\ [][Next]_vars /\ Fairness

Places == {"idle", "breaker", "count", "cap", "wait", "post", "record", "done"}

TypeOK ==
  /\ configured \subseteq Backends
  /\ breaker \in [Backends -> [fails : 0 .. BreakerFails - 1, open : BOOLEAN]]
  /\ today \in 1 .. MaxDays
  /\ day \in [d : 0 .. MaxDays, n : 0 .. DailyCap, announced : BOOLEAN]
  /\ free \in 0 .. Concurrency
  /\ shadowed \in BOOLEAN
  /\ call \in [Actors -> [at : Places, ask : Asks \cup {None}, backend : Backends \cup {None},
                          first : Reasons \cup {None}, out : Reasons \cup {None}]]
  /\ told \in [0 .. MaxDays -> Nat]
  /\ calls \in 0 .. MaxCalls

-----------------------------------------------------------------------------
(* Properties.                                                             *)

\* Slots are neither lost nor made: each is free or with the one call that is at its
\* backend, however calls end.  The shadow's own slot is taken as long as it runs.
SlotsConserved ==
  /\ free + Cardinality({p \in Actors : call[p].at = "post"}) = Concurrency
  /\ shadowed = (call[Shadow].at # "idle")

\* The cap is announced at most once a day, whichever calls meet it, also at midnight
\* (hermes_live.py:443, INTEGRATION.md:170).
AnnouncedOnce == \A d \in 0 .. MaxDays : told[d] <= 1

\* Every call of decide returns: a breaker, a cap, a wait for a slot or a second backend
\* never keeps the caller; and the place in the shadow becomes free again, whatever the other
\* backend does.
EveryDecideReturns ==
  /\ \A p \in Callers : call[p].at \notin {"idle", "done"} ~> call[p].at = "done"
  /\ shadowed ~> ~shadowed
=============================================================================
