--------------------------- MODULE CorePartsProofs ---------------------------
(***************************************************************************)
(* The decider's slots are conserved and its cap is announced once a day,  *)
(* for any number of callers, slots, days and calls.  The token of the NER *)
(* service is one and the model of a recognition stays, for any number of  *)
(* starters and clients.  Every value that is settled on is masked and the *)
(* text around it stays, for texts of any length and any finds in them.  A *)
(* streamed reply is the restored beginning of the reply, for replies of   *)
(* any length and any cuts of them.                                        *)
(***************************************************************************)
EXTENDS CoreParts, FiniteSetTheorems, SequenceTheorems, WellFoundedInduction, TLAPS

-----------------------------------------------------------------------------
(* The decider.                                                            *)

CallType == [at : Places, ask : Asks \cup {None}, backend : Backends \cup {None},
             first : Reasons \cup {None}, out : Reasons \cup {None}]

\* Those that are at their backend.
Posting == {p \in Actors : call[p].at = "post"}

\* What a call has recorded is a reason.
Recording == \A p \in Actors : call[p].at = "record" => call[p].out \in Reasons

\* What was announced was announced on a day that has been counted, and the flag tells of
\* the one that is being counted.
Flagged ==
  /\ day.d <= today
  /\ \A d \in 0 .. MaxDays :
       told[d] = 0 \/ (told[d] = 1 /\ d <= day.d /\ (d = day.d => day.announced))

IInv == TypeOK /\ Recording /\ SlotsConserved /\ Flagged

-----------------------------------------------------------------------------

LEMMA ActorsFinite == IsFiniteSet(Actors)
BY FS_Singleton, FS_Union, ConstantsAssumption DEF Actors

LEMMA ConstantsTyped ==
  /\ {Concurrency, BreakerFails, DailyCap, MaxDays} \subseteq Nat \ {0} /\ MaxCalls \in Nat
  /\ Concurrency \in Nat \ {0} /\ BreakerFails \in Nat \ {0}
  /\ DailyCap \in Nat \ {0} /\ MaxDays \in Nat \ {0}
BY ConstantsAssumption DEF ConstantsAssumption

LEMMA InitInv == Init => IInv
<1> SUFFICES ASSUME Init PROVE IInv
  OBVIOUS
<1>1. TypeOK
  <2>1. configured \subseteq Backends
    BY ConstantsAssumption DEF Init, ConstantsAssumption
  <2>2. breaker \in [Backends -> [fails : 0 .. BreakerFails - 1, open : BOOLEAN]]
    <3>1. 0 \in 0 .. BreakerFails - 1
      BY ConstantsTyped
    <3> QED
      BY <3>1 DEF Init
  <2>3. today \in 1 .. MaxDays /\ day \in [d : 0 .. MaxDays, n : 0 .. DailyCap, announced : BOOLEAN]
    BY ConstantsTyped DEF Init
  <2>4. free \in 0 .. Concurrency /\ shadowed \in BOOLEAN
    <3>1. Concurrency \in 0 .. Concurrency
      BY ConstantsTyped
    <3> QED
      BY <3>1 DEF Init
  <2>5. call \in [Actors -> CallType]
    <3>1. Idle \in CallType
      BY DEF Idle, CallType, Places
    <3> QED
      BY <3>1 DEF Init
  <2>6. told \in [0 .. MaxDays -> Nat] /\ calls \in 0 .. MaxCalls
    BY ConstantsTyped DEF Init
  <2> QED
    BY <2>1, <2>2, <2>3, <2>4, <2>5, <2>6 DEF TypeOK, CallType
<1>2. Recording
  BY DEF Init, Recording, Idle
<1>3. Posting = {}
  BY DEF Init, Posting, Idle
<1>4. SlotsConserved
  <2>1. Cardinality(Posting) = 0
    BY <1>3, FS_EmptySet
  <2>2. free + Cardinality(Posting) = Concurrency
    BY <2>1, ConstantsTyped DEF Init
  <2>3. shadowed = (call[Shadow].at # "idle")
    BY DEF Init, Idle, Actors
  <2> QED
    BY <2>2, <2>3 DEF SlotsConserved, Posting
<1>5. Flagged
  BY ConstantsTyped DEF Init, Flagged
<1> QED
  BY <1>1, <1>2, <1>4, <1>5 DEF IInv

\* The end of an attempt moves nobody to a backend, and the shadow's place is taken exactly
\* when the shadow is on its way.
LEMMA EndKeeps ==
  ASSUME IInv, NEW p \in Actors, NEW out \in Reasons, End(p, out), call[p].at # "post"
  PROVE  /\ call' \in [Actors -> CallType] /\ shadowed' \in BOOLEAN
         /\ \A q \in Actors : call'[q].at = "record" => call'[q].out \in Reasons
         /\ Posting' = Posting
         /\ shadowed' = (call'[Shadow].at # "idle")
<1>1. call \in [Actors -> CallType] /\ shadowed \in BOOLEAN /\ Recording
      /\ shadowed = (call[Shadow].at # "idle") /\ Shadow \in Actors
  BY DEF IInv, TypeOK, SlotsConserved, Actors, CallType
<1>2. CASE p = Shadow
  <2>1. call' = [call EXCEPT ![p] = Idle] /\ shadowed' = FALSE
    BY <1>2 DEF End, ShadowEnded
  <2>2. Idle \in CallType /\ Idle.at = "idle"
    BY DEF Idle, CallType, Places
  <2> QED
    BY <1>1, <1>2, <2>1, <2>2 DEF Posting, Recording
<1>3. CASE p # Shadow /\ TriesOther(call[p], out)
  <2> DEFINE c == [call[p] EXCEPT !.at = "breaker", !.backend = Other(@), !.first = out]
  <2>1. call' = [call EXCEPT ![p] = c] /\ UNCHANGED shadowed
    BY <1>1, <1>3 DEF End, CallType
  <2>2. c \in CallType /\ c.at = "breaker"
    BY <1>1 DEF CallType, Places, Other, Backends
  <2> HIDE DEF c
  <2> QED
    BY <1>1, <1>3, <2>1, <2>2 DEF Posting, Recording
<1>4. CASE p # Shadow /\ ~TriesOther(call[p], out)
  <2> DEFINE result == IF call[p].first # None /\ out # "ok" THEN call[p].first ELSE out
             c == [call[p] EXCEPT !.at = "done", !.out = result]
             s == [Idle EXCEPT !.at = "breaker", !.ask = call[p].ask, !.backend = Other(call[p].backend)]
  <2>1. c \in CallType /\ c.at = "done"
    BY <1>1 DEF CallType, Places
  <2>2. s \in CallType /\ s.at = "breaker"
    BY <1>1 DEF CallType, Places, Idle, Other, Backends
  <2>3. [call EXCEPT ![p].at = "done", ![p].out = result] = [call EXCEPT ![p] = c]
    BY <1>1 DEF CallType
  <2>4. CASE StartsShadow(call[p], out)
    <3>1. shadowed' = TRUE /\ call' = [[call EXCEPT ![p] = c] EXCEPT ![Shadow] = s]
      BY <1>4, <2>3, <2>4 DEF End
    <3>2. call[Shadow].at = "idle"
      BY <1>1, <2>4 DEF StartsShadow
    <3> HIDE DEF c, s
    <3> QED
      BY <1>1, <1>4, <2>1, <2>2, <3>1, <3>2 DEF Posting, Recording
  <2>5. CASE ~StartsShadow(call[p], out)
    <3>1. call' = [call EXCEPT ![p] = c] /\ UNCHANGED shadowed
      BY <1>4, <2>3, <2>5 DEF End
    <3> HIDE DEF c
    <3> QED
      BY <1>1, <1>4, <2>1, <3>1 DEF Posting, Recording
  <2> QED
    BY <2>4, <2>5
<1> QED
  BY <1>2, <1>3, <1>4

\* One actor goes on without an end: to the backend or from it, or elsewhere.
LEMMA MoveKeeps ==
  ASSUME IInv, NEW p \in Actors, NEW c \in CallType, call' = [call EXCEPT ![p] = c],
         c.at # "idle", c.at = "record" => c.out \in Reasons,
         p = Shadow => call[p].at # "idle"
  PROVE  /\ call' \in [Actors -> CallType]
         /\ \A q \in Actors : call'[q].at = "record" => call'[q].out \in Reasons
         /\ (call'[Shadow].at # "idle") = (call[Shadow].at # "idle")
         /\ Posting' = IF c.at = "post" THEN Posting \cup {p} ELSE Posting \ {p}
BY DEF IInv, TypeOK, CallType, Recording, Posting, Actors
-----------------------------------------------------------------------------
(* One lemma per action.                                                   *)

\* What a step must show when neither the count of the day nor the announcements change.
LEMMA Untold == ASSUME Flagged, UNCHANGED <<today, day, told>> PROVE Flagged'
BY DEF Flagged

\* ... and when nobody gets to a backend or comes from it.
LEMMA SlotsStay ==
  ASSUME SlotsConserved, UNCHANGED free, Posting' = Posting, shadowed' = (call'[Shadow].at # "idle")
  PROVE  SlotsConserved'
BY DEF SlotsConserved, Posting

LEMMA InvalidInv == ASSUME IInv, NEW p \in Callers, NEW ask \in Asks, Invalid(p, ask) PROVE IInv'
<1> DEFINE c == [Idle EXCEPT !.at = "done", !.ask = ask, !.out = "invalid"]
<1>1. c \in CallType /\ c.at = "done"
  BY DEF Idle, CallType, Places, Reasons
<1>2. call' = [call EXCEPT ![p] = c] /\ p \in Actors /\ p # Shadow
  BY ConstantsAssumption DEF Invalid, Actors, ConstantsAssumption
<1> HIDE DEF c
<1>3. /\ call' \in [Actors -> CallType]
      /\ \A q \in Actors : call'[q].at = "record" => call'[q].out \in Reasons
      /\ (call'[Shadow].at # "idle") = (call[Shadow].at # "idle")
      /\ Posting' = Posting \ {p}
  BY <1>1, <1>2, MoveKeeps
<1>4. p \notin Posting
  BY DEF Invalid, Posting
<1>5. SlotsConserved'
  BY <1>3, <1>4, SlotsStay DEF Invalid, IInv, SlotsConserved
<1>6. calls' \in 0 .. MaxCalls
  BY ConstantsTyped DEF Invalid, IInv, TypeOK
<1>7. TypeOK'
  BY <1>3, <1>6 DEF Invalid, IInv, TypeOK, CallType
<1> QED
  BY <1>3, <1>5, <1>7, Untold DEF Invalid, IInv, Recording

LEMMA AskInv == ASSUME IInv, NEW p \in Callers, NEW ask \in Asks, Ask(p, ask) PROVE IInv'
<1> DEFINE c == [Idle EXCEPT !.at = "breaker", !.ask = ask, !.backend = ask.backend]
<1>1. c \in CallType /\ c.at = "breaker"
  BY ConstantsAssumption DEF Idle, CallType, Places, ConstantsAssumption
<1>2. call' = [call EXCEPT ![p] = c] /\ p \in Actors /\ p # Shadow
  BY ConstantsAssumption DEF Ask, Actors, ConstantsAssumption
<1> HIDE DEF c
<1>3. /\ call' \in [Actors -> CallType]
      /\ \A q \in Actors : call'[q].at = "record" => call'[q].out \in Reasons
      /\ (call'[Shadow].at # "idle") = (call[Shadow].at # "idle")
      /\ Posting' = Posting \ {p}
  BY <1>1, <1>2, MoveKeeps
<1>4. p \notin Posting
  BY DEF Ask, Posting
<1>5. SlotsConserved'
  BY <1>3, <1>4, SlotsStay DEF Ask, IInv, SlotsConserved
<1>6. calls' \in 0 .. MaxCalls
  BY ConstantsTyped DEF Ask, IInv, TypeOK
<1>7. TypeOK'
  BY <1>3, <1>6 DEF Ask, IInv, TypeOK, CallType
<1> QED
  BY <1>3, <1>5, <1>7, Untold DEF Ask, IInv, Recording

LEMMA CheckBreakerInv == ASSUME IInv, NEW p \in Actors, CheckBreaker(p) PROVE IInv'
<1>1. \/ \E out \in Reasons : End(p, out) /\ call[p].at # "post"
      \/ call' = [call EXCEPT ![p].at = "count"] /\ UNCHANGED shadowed
  BY DEF CheckBreaker, Reasons
<1>2. CASE \E out \in Reasons : End(p, out) /\ call[p].at # "post"
  <2>1. PICK out \in Reasons : End(p, out) /\ call[p].at # "post"
    BY <1>2
  <2>2. /\ call' \in [Actors -> CallType] /\ shadowed' \in BOOLEAN
        /\ \A q \in Actors : call'[q].at = "record" => call'[q].out \in Reasons
        /\ Posting' = Posting
        /\ shadowed' = (call'[Shadow].at # "idle")
    BY <2>1, EndKeeps
  <2>3. SlotsConserved'
    BY <2>2, SlotsStay DEF CheckBreaker, IInv
  <2>4. TypeOK'
    BY <2>2 DEF CheckBreaker, IInv, TypeOK, CallType
  <2> QED
    BY <2>2, <2>3, <2>4, Untold DEF CheckBreaker, IInv, Recording
<1>3. CASE call' = [call EXCEPT ![p].at = "count"] /\ UNCHANGED shadowed
  <2> DEFINE c == [call[p] EXCEPT !.at = "count"]
  <2>1. c \in CallType /\ c.at = "count" /\ call' = [call EXCEPT ![p] = c] /\ call[p].at = "breaker"
    BY <1>3 DEF CheckBreaker, IInv, TypeOK, CallType, Places
  <2> HIDE DEF c
  <2>2. /\ call' \in [Actors -> CallType]
        /\ \A q \in Actors : call'[q].at = "record" => call'[q].out \in Reasons
        /\ (call'[Shadow].at # "idle") = (call[Shadow].at # "idle")
        /\ Posting' = Posting \ {p}
    BY <2>1, MoveKeeps
  <2>3. SlotsConserved'
    BY <1>3, <2>1, <2>2, SlotsStay DEF CheckBreaker, IInv, SlotsConserved, Posting
  <2>4. TypeOK'
    BY <1>3, <2>2 DEF CheckBreaker, IInv, TypeOK, CallType
  <2> QED
    BY <2>2, <2>3, <2>4, Untold DEF CheckBreaker, IInv, Recording
<1> QED
  BY <1>1, <1>2, <1>3

\* The count starts anew only for a day on which nothing was announced.
LEMMA TurnedKeeps ==
  ASSUME IInv
  PROVE  /\ Turned \in [d : 0 .. MaxDays, n : 0 .. DailyCap, announced : BOOLEAN]
         /\ Turned.d = today
         /\ \A d \in 0 .. MaxDays :
              told[d] = 0 \/ (told[d] = 1 /\ d <= today /\ (d = today => Turned.announced))
<1>1. /\ day \in [d : 0 .. MaxDays, n : 0 .. DailyCap, announced : BOOLEAN]
      /\ today \in 1 .. MaxDays /\ day.d <= today
      /\ \A d \in 0 .. MaxDays :
           told[d] = 0 \/ (told[d] = 1 /\ d <= day.d /\ (d = day.d => day.announced))
  BY DEF IInv, TypeOK, Flagged
<1>2. CASE day.d = today
  BY <1>1, <1>2 DEF Turned
<1>3. CASE day.d # today
  <2>1. Turned = [d |-> today, n |-> 0, announced |-> FALSE]
    BY <1>3 DEF Turned
  <2>2. 0 \in 0 .. DailyCap /\ today \in 0 .. MaxDays
    BY <1>1, ConstantsTyped
  <2>3. \A d \in 0 .. MaxDays : told[d] = 0 \/ (told[d] = 1 /\ d <= today /\ d # today)
    BY <1>1, <1>3, ConstantsTyped
  <2> QED
    BY <2>1, <2>2, <2>3
<1> QED
  BY <1>2, <1>3

LEMMA CountInv == ASSUME IInv, NEW p \in Actors, Count(p) PROVE IInv'
<1> DEFINE c == [call[p] EXCEPT !.at = IF Turned.n >= DailyCap THEN "cap" ELSE "wait"]
<1>1. /\ c \in CallType /\ c.at \in {"cap", "wait"}
      /\ call' = [call EXCEPT ![p] = c] /\ call[p].at = "count"
  BY ZenonT(60) DEF Count, IInv, TypeOK, CallType, Places
<1> HIDE DEF c
<1>2. /\ call' \in [Actors -> CallType]
      /\ \A q \in Actors : call'[q].at = "record" => call'[q].out \in Reasons
      /\ (call'[Shadow].at # "idle") = (call[Shadow].at # "idle")
      /\ Posting' = Posting \ {p}
  BY <1>1, MoveKeeps
<1>3. SlotsConserved'
  BY <1>1, <1>2, SlotsStay DEF Count, IInv, SlotsConserved, Posting
<1>4. /\ day' \in [d : 0 .. MaxDays, n : 0 .. DailyCap, announced : BOOLEAN]
      /\ day'.d = today /\ day'.announced = Turned.announced
  <2>1. CASE Turned.n >= DailyCap
    BY <2>1, TurnedKeeps DEF Count
  <2>2. CASE ~(Turned.n >= DailyCap)
    <3>1. Turned.n + 1 \in 0 .. DailyCap
      BY <2>2, TurnedKeeps, ConstantsTyped
    <3> QED
      BY <2>2, <3>1, TurnedKeeps DEF Count
  <2> QED
    BY <2>1, <2>2
<1>5. Flagged'
  BY <1>4, TurnedKeeps DEF Count, Flagged, IInv, TypeOK
<1>6. TypeOK'
  BY <1>2, <1>4 DEF Count, IInv, TypeOK, CallType
<1> QED
  BY <1>2, <1>3, <1>5, <1>6 DEF IInv, Recording

LEMMA AnnounceInv == ASSUME IInv, NEW p \in Actors, Announce(p) PROVE IInv'
<1>1. End(p, "daily-cap") /\ "daily-cap" \in Reasons /\ call[p].at # "post"
  BY DEF Announce, Reasons
<1>2. /\ call' \in [Actors -> CallType] /\ shadowed' \in BOOLEAN
      /\ \A q \in Actors : call'[q].at = "record" => call'[q].out \in Reasons
      /\ Posting' = Posting
      /\ shadowed' = (call'[Shadow].at # "idle")
  BY <1>1, EndKeeps
<1>3. SlotsConserved'
  BY <1>2, SlotsStay DEF Announce, IInv
<1>4. /\ day' \in [d : 0 .. MaxDays, n : 0 .. DailyCap, announced : BOOLEAN]
      /\ day'.d = day.d /\ day'.announced = TRUE
  BY DEF Announce, IInv, TypeOK
<1>5. /\ told \in [0 .. MaxDays -> Nat] /\ told' \in [0 .. MaxDays -> Nat]
      /\ \A d \in 0 .. MaxDays :
           told'[d] = IF d = day.d /\ ~day.announced THEN told[d] + 1 ELSE told[d]
  BY DEF Announce, IInv, TypeOK
<1>6. Flagged'
  <2>1. \A d \in 0 .. MaxDays : told'[d] = 0 \/ (told'[d] = 1 /\ d <= day.d)
    BY <1>5 DEF IInv, Flagged, TypeOK
  <2> QED
    BY <1>4, <2>1 DEF Announce, IInv, Flagged
<1>7. TypeOK'
  BY <1>2, <1>4, <1>5 DEF Announce, IInv, TypeOK, CallType
<1> QED
  BY <1>2, <1>3, <1>6, <1>7 DEF IInv, Recording

LEMMA PostingFinite == IsFiniteSet(Posting)
BY ActorsFinite, FS_Subset DEF Posting

\* A slot that is taken goes to the one who posts,
LEMMA PostInv == ASSUME IInv, NEW p \in Actors, Post(p) PROVE IInv'
<1> DEFINE c == [call[p] EXCEPT !.at = "post"]
<1>1. /\ c \in CallType /\ c.at = "post"
      /\ call' = [call EXCEPT ![p] = c] /\ call[p].at = "wait"
  BY DEF Post, IInv, TypeOK, CallType, Places
<1> HIDE DEF c
<1>2. /\ call' \in [Actors -> CallType]
      /\ \A q \in Actors : call'[q].at = "record" => call'[q].out \in Reasons
      /\ (call'[Shadow].at # "idle") = (call[Shadow].at # "idle")
      /\ Posting' = Posting \cup {p}
  BY <1>1, MoveKeeps
<1>3. Cardinality(Posting') = Cardinality(Posting) + 1
  <2>1. p \notin Posting
    BY <1>1 DEF Posting
  <2> QED
    BY <1>2, <2>1, PostingFinite, FS_AddElement
<1>4. free' = free - 1 /\ free \in 0 .. Concurrency /\ free > 0
  BY DEF Post, IInv, TypeOK
<1>5. SlotsConserved'
  <2>1. Cardinality(Posting) \in Nat /\ free + Cardinality(Posting) = Concurrency
    BY PostingFinite, FS_CardinalityType DEF IInv, SlotsConserved, Posting
  <2>2. free' + Cardinality(Posting') = Concurrency
    BY <1>3, <1>4, <2>1, ConstantsTyped
  <2> QED
    BY <1>2, <2>2 DEF Post, IInv, SlotsConserved, Posting
<1>6. free' \in 0 .. Concurrency
  BY <1>4, ConstantsTyped
<1>7. TypeOK'
  BY <1>2, <1>6 DEF Post, IInv, TypeOK, CallType
<1> QED
  BY <1>2, <1>5, <1>7, Untold DEF Post, IInv, Recording

LEMMA BusyInv == ASSUME IInv, NEW p \in Actors, Busy(p) PROVE IInv'
<1>1. End(p, "busy") /\ "busy" \in Reasons /\ call[p].at # "post"
  BY DEF Busy, Reasons
<1>2. /\ call' \in [Actors -> CallType] /\ shadowed' \in BOOLEAN
      /\ \A q \in Actors : call'[q].at = "record" => call'[q].out \in Reasons
      /\ Posting' = Posting
      /\ shadowed' = (call'[Shadow].at # "idle")
  BY <1>1, EndKeeps
<1>3. SlotsConserved'
  BY <1>2, SlotsStay DEF Busy, IInv
<1>4. TypeOK'
  BY <1>2 DEF Busy, IInv, TypeOK, CallType
<1> QED
  BY <1>2, <1>3, <1>4, Untold DEF Busy, IInv, Recording

\* and comes back from it, whatever the answer.
LEMMA AnswerInv ==
  ASSUME IInv, NEW p \in Actors, NEW out \in {"ok", "error"}, Answer(p, out) PROVE IInv'
<1> DEFINE c == [call[p] EXCEPT !.at = "record", !.out = out]
<1>1. /\ c \in CallType /\ c.at = "record" /\ c.out \in Reasons
      /\ call' = [call EXCEPT ![p] = c] /\ call[p].at = "post"
  BY DEF Answer, IInv, TypeOK, CallType, Places, Reasons
<1> HIDE DEF c
<1>2. /\ call' \in [Actors -> CallType]
      /\ \A q \in Actors : call'[q].at = "record" => call'[q].out \in Reasons
      /\ (call'[Shadow].at # "idle") = (call[Shadow].at # "idle")
      /\ Posting' = Posting \ {p}
  BY <1>1, MoveKeeps
<1>3. Cardinality(Posting') = Cardinality(Posting) - 1
  <2>1. p \in Posting
    BY <1>1 DEF Posting
  <2> QED
    BY <1>2, <2>1, PostingFinite, FS_RemoveElement
<1>4. free' = free + 1 /\ free \in 0 .. Concurrency
  BY DEF Answer, FreeAfter, IInv, TypeOK
<1>5. Cardinality(Posting) \in Nat /\ Cardinality(Posting') \in Nat
      /\ free + Cardinality(Posting) = Concurrency
  <2>1. IsFiniteSet(Posting')
    BY <1>2, PostingFinite, FS_RemoveElement
  <2> QED
    BY <2>1, PostingFinite, FS_CardinalityType DEF IInv, SlotsConserved, Posting
<1>6. free' + Cardinality(Posting') = Concurrency /\ free' \in 0 .. Concurrency
  BY <1>3, <1>4, <1>5, ConstantsTyped
<1>7. SlotsConserved'
  BY <1>2, <1>6 DEF Answer, IInv, SlotsConserved, Posting
<1>8. TypeOK'
  BY <1>2, <1>6 DEF Answer, IInv, TypeOK, CallType
<1> QED
  BY <1>2, <1>7, <1>8, Untold DEF Answer, IInv, Recording

LEMMA RecordInv == ASSUME IInv, NEW p \in Actors, Record(p) PROVE IInv'
<1>1. End(p, call[p].out) /\ call[p].out \in Reasons /\ call[p].at # "post"
  BY DEF Record, IInv, Recording
<1>2. /\ call' \in [Actors -> CallType] /\ shadowed' \in BOOLEAN
      /\ \A q \in Actors : call'[q].at = "record" => call'[q].out \in Reasons
      /\ Posting' = Posting
      /\ shadowed' = (call'[Shadow].at # "idle")
  BY <1>1, EndKeeps
<1>3. SlotsConserved'
  BY <1>2, SlotsStay DEF Record, IInv
<1>4. breaker' \in [Backends -> [fails : 0 .. BreakerFails - 1, open : BOOLEAN]]
  <2> DEFINE R == [fails : 0 .. BreakerFails - 1, open : BOOLEAN]
  <2>1. ASSUME NEW b \in R, NEW out PROVE Recorded(b, out) \in R
    <3>1. 0 \in 0 .. BreakerFails - 1
      BY ConstantsTyped
    <3>2. CASE out = "ok"
      BY <3>1, <3>2 DEF Recorded
    <3>3. CASE out # "ok" /\ b.fails + 1 >= BreakerFails
      BY <3>1, <3>3 DEF Recorded
    <3>4. CASE out # "ok" /\ ~(b.fails + 1 >= BreakerFails)
      <4>1. b.fails + 1 \in 0 .. BreakerFails - 1
        BY <3>4, ConstantsTyped
      <4> QED
        BY <3>4, <4>1 DEF Recorded
    <3> QED
      BY <3>2, <3>3, <3>4
  <2>2. breaker \in [Backends -> R]
    BY DEF IInv, TypeOK
  <2> HIDE DEF R
  <2>3. breaker' \in [Backends -> R]
    BY <2>1, <2>2 DEF Record
  <2> QED
    BY <2>3 DEF R
<1>5. TypeOK'
  BY <1>2, <1>4 DEF Record, IInv, TypeOK, CallType
<1> QED
  BY <1>2, <1>3, <1>5, Untold DEF Record, IInv, Recording

LEMMA TimeInv ==
  ASSUME IInv, Midnight \/ \E b \in Backends : Cool(b)
  PROVE  IInv'
<1>1. CASE Midnight
  <2>1. today' \in 1 .. MaxDays
    BY <1>1, ConstantsTyped DEF Midnight, IInv, TypeOK
  <2>2. TypeOK' /\ Recording' /\ SlotsConserved'
    BY <1>1, <2>1 DEF Midnight, IInv, TypeOK, Recording, SlotsConserved
  <2>3. Flagged'
    BY <1>1, ConstantsTyped DEF Midnight, IInv, TypeOK, Flagged
  <2> QED
    BY <2>2, <2>3 DEF IInv
<1>2. ASSUME NEW b \in Backends, Cool(b) PROVE IInv'
  <2>1. breaker' \in [Backends -> [fails : 0 .. BreakerFails - 1, open : BOOLEAN]]
    BY <1>2, ZenonT(60) DEF Cool, IInv, TypeOK
  <2>2. TypeOK' /\ Recording' /\ SlotsConserved'
    BY <1>2, <2>1 DEF Cool, IInv, TypeOK, Recording, SlotsConserved
  <2> QED
    BY <1>2, <2>2, Untold DEF Cool, IInv
<1> QED
  BY <1>1, <1>2

LEMMA StutterInv == ASSUME IInv, UNCHANGED vars PROVE IInv'
BY DEF vars, IInv, TypeOK, Recording, SlotsConserved, Flagged

LEMMA NextInv == IInv /\ [Next]_vars => IInv'
<1> SUFFICES ASSUME IInv, [Next]_vars PROVE IInv'
  OBVIOUS
<1>1. ASSUME NEW p \in Callers, NEW ask \in Asks, Invalid(p, ask) \/ Ask(p, ask) PROVE IInv'
  BY <1>1, InvalidInv, AskInv
<1>2. ASSUME NEW p \in Actors, Step(p) PROVE IInv'
  BY <1>2, CheckBreakerInv, CountInv, AnnounceInv, PostInv, BusyInv, AnswerInv, RecordInv DEF Step
<1> QED
  BY <1>1, <1>2, TimeInv, StutterInv DEF Next

-----------------------------------------------------------------------------

\* The breakers, the count of the day, the slots and the calls keep their form through every
\* call, answer, error and midnight (decide.py).
THEOREM DeciderTypeCorrect == Spec => []TypeOK
<1>1. IInv => TypeOK
  BY DEF IInv
<1> QED
  BY <1>1, InitInv, NextInv, PTL DEF Spec

\* No path out of a call loses a slot or gives one back twice, the one of the shadow call
\* included (decide.py:348, 411).
THEOREM SlotsAreConserved == Spec => []SlotsConserved
<1>1. IInv => SlotsConserved
  BY DEF IInv
<1> QED
  BY <1>1, InitInv, NextInv, PTL DEF Spec

\* However many calls meet the cap, and whenever midnight comes, the cap is announced at most
\* once a day (decide.py:290).
THEOREM CapAnnouncedOnce == Spec => []AnnouncedOnce
<1>1. IInv => AnnouncedOnce
  BY DEF IInv, Flagged, AnnouncedOnce
<1> QED
  BY <1>1, InitInv, NextInv, PTL DEF Spec

-----------------------------------------------------------------------------
(* The NER service.                                                        *)

Starting == {"off", "link", "reread", "bind", "serving"}
Asking == {"idle", "hello", "ask", "run", "failed", "down"}

\* The form of what the argument is about.
Formed ==
  /\ start \in [Starters -> [at : Starting, tok : Starters \cup {None}]]
  /\ client \in [Clients -> [at : Asking, tok : Starters \cup {None}]]
  /\ file \in Starters \cup {None}
  /\ hand \in [Clients -> BOOLEAN]

\* A token that is in use is one: nobody goes on with an empty file.
Tokened ==
  /\ \A x \in Starters : start[x].at \in {"reread", "bind", "serving"} => file # None
  /\ \A x \in Starters : start[x].at = "link" => start[x].tok = x
  /\ \A c \in Clients : client[c].at \in {"hello", "ask", "run"} => file # None

NerInv == Formed /\ Tokened /\ N!OneToken /\ N!ModelInHand

-----------------------------------------------------------------------------

LEMMA NerInitInv == N!Init => NerInv
BY StartersAssumption DEF N!Init, NerInv, Formed, Tokened, N!OneToken, N!ModelInHand, N!Off, N!Idle, Starting, Asking

\* The file is written once: whoever reads it reads the same token.
LEMMA StartInv ==
  ASSUME NerInv, NEW x \in Starters, N!StartStep(x)
  PROVE  NerInv'
<1>1. CASE N!ReadFirst(x)
  BY <1>1, StartersAssumption DEF N!ReadFirst, NerInv, Formed, Tokened, N!OneToken, N!ModelInHand, Starting, N!asking, N!model
<1>2. CASE N!Link(x)
  BY <1>2, StartersAssumption DEF N!Link, N!Linked, NerInv, Formed, Tokened, N!OneToken, N!ModelInHand, Starting, N!asking, N!model
<1>3. CASE N!Reread(x)
  BY <1>3, StartersAssumption DEF N!Reread, NerInv, Formed, Tokened, N!OneToken, N!ModelInHand, Starting, N!asking, N!model
<1>4. CASE N!Bind(x)
  BY <1>4, StartersAssumption DEF N!Bind, NerInv, Formed, Tokened, N!OneToken, N!ModelInHand, Starting, N!Off, N!asking, N!model
<1> QED
  BY <1>1, <1>2, <1>3, <1>4 DEF N!StartStep

\* The service takes its model along when it ends, and with it the requests that use it.
LEMMA StopInv == ASSUME NerInv, NEW x \in Starters, N!Stop(x) PROVE NerInv'
<1>1. CASE start[x].at = "serving"
  <2>1. /\ client' \in [Clients -> [at : Asking, tok : Starters \cup {None}]]
        /\ \A c \in Clients : client'[c].at \notin {"run"} /\ client'[c].tok = client[c].tok
        /\ \A c \in Clients : client'[c].at \in {"hello", "ask"} => client[c].at \in {"hello", "ask"}
    BY <1>1 DEF N!Stop, NerInv, Formed, Asking
  <2> QED
    BY <1>1, <2>1 DEF N!Stop, NerInv, Formed, Tokened, N!OneToken, N!ModelInHand, N!Off, Starting
<1>2. CASE start[x].at # "serving"
  BY <1>2 DEF N!Stop, NerInv, Formed, Tokened, N!OneToken, N!ModelInHand, N!Off, Starting, N!model
<1> QED
  BY <1>1, <1>2

LEMMA ClientInv ==
  ASSUME NerInv, NEW c \in Clients, N!ClientStep(c) \/ N!Begin(c) \/ N!Skip(c)
  PROVE  NerInv'
<1> USE DEF NerInv, Formed, Tokened, N!OneToken, N!ModelInHand, Asking, N!At
<1>1. CASE N!Hello(c)
  BY <1>1 DEF N!Hello, N!serving, N!model
<1>2. CASE N!Recognize(c)
  <2>1. CASE service = client[c].tok
    <3>1. /\ client' = [client EXCEPT ![c].at = "run"] /\ client[c].at = "ask"
          /\ hand' = [hand EXCEPT ![c] = TRUE] /\ UNCHANGED <<file, start, service>>
      BY <1>2, <2>1 DEF N!Recognize, N!Taken, N!serving
    <3>2. Formed' /\ N!ModelInHand'
      BY <3>1
    <3>3. Tokened' /\ N!OneToken'
      BY <3>1
    <3> QED
      BY <3>2, <3>3
  <2>2. CASE service # client[c].tok
    <3>1. /\ client' = [client EXCEPT ![c].at = "failed"] /\ hand' = hand
          /\ UNCHANGED <<file, start, service>>
      BY <1>2, <2>2 DEF N!Recognize, N!serving, N!model
    <3> QED
      BY <3>1
  <2> QED
    BY <2>1, <2>2
<1>3. CASE N!Spans(c)
  <2>1. /\ client' = [client EXCEPT ![c] = N!Idle] /\ hand' = [hand EXCEPT ![c] = FALSE]
        /\ UNCHANGED <<file, start, service>>
    BY <1>3 DEF N!Spans, N!serving
  <2>2. Formed' /\ N!ModelInHand'
    BY <2>1 DEF N!Idle
  <2>3. Tokened' /\ N!OneToken'
    BY <2>1 DEF N!Idle
  <2> QED
    BY <2>2, <2>3
<1>4. CASE N!Trip(c) \/ N!Down(c) \/ N!Skip(c)
  <2>1. CASE N!Trip(c)
    BY <2>1 DEF N!Trip, N!serving, N!model
  <2>2. CASE N!Down(c)
    BY <2>2 DEF N!Down, N!Idle, N!serving, N!model
  <2>3. CASE N!Skip(c)
    BY <2>3 DEF N!Skip, N!serving, N!model
  <2> QED
    BY <1>4, <2>1, <2>2, <2>3
<1>5. CASE N!Begin(c)
  BY <1>5 DEF N!Begin, N!serving, N!model
<1>6. CASE N!Late(c)
  <2>1. /\ client' = [client EXCEPT ![c].at = "failed"] /\ hand' = [hand EXCEPT ![c] = FALSE]
        /\ UNCHANGED <<file, start, service>>
    BY <1>6 DEF N!Late, N!serving
  <2>2. Formed' /\ N!ModelInHand'
    BY <2>1
  <2>3. Tokened' /\ N!OneToken'
    BY <2>1
  <2> QED
    BY <2>2, <2>3
<1> QED
  BY <1>1, <1>2, <1>3, <1>4, <1>5, <1>6 DEF N!ClientStep

LEMMA NerNextInv == NerInv /\ [N!Next]_(N!vars) => NerInv'
<1> SUFFICES ASSUME NerInv, [N!Next]_(N!vars) PROVE NerInv'
  OBVIOUS
<1>1. CASE N!Tick \/ N!Switch \/ N!Falter \/ N!Load \/ N!Unload
  BY <1>1 DEF N!Tick, N!Switch, N!Falter, N!Load, N!Unload, NerInv, Formed, Tokened, N!OneToken, N!ModelInHand,
              N!serving, N!asking, N!model
<1>2. CASE UNCHANGED N!vars
  BY <1>2 DEF N!vars, NerInv, Formed, Tokened, N!OneToken, N!ModelInHand
<1> QED
  BY <1>1, <1>2, StartInv, StopInv, ClientInv DEF N!Next

-----------------------------------------------------------------------------

\* However many starts race for the first token, and whenever they are killed, all agree on
\* it (auth.py:31-50).
THEOREM TokenIsOne == N!Spec => []OneToken
<1>1. NerInv => OneToken
  BY DEF NerInv, OneToken
<1> QED
  BY <1>1, NerInitInv, NerNextInv, PTL DEF N!Spec

\* No order of unloads, deaths and recognitions takes the model from one that is under way
\* (ner_service.py:53-59).
THEOREM ModelStaysInHand == N!Spec => []ModelInHand
<1>1. NerInv => ModelInHand
  BY DEF NerInv, ModelInHand
<1> QED
  BY <1>1, NerInitInv, NerNextInv, PTL DEF N!Spec

-----------------------------------------------------------------------------
(* The masking of a text.                                                  *)

Passes == {"primary", "secondary", "known"}

\* All that was found.
Found == primary \cup secondary \cup known

\* What a pass is given.
Given(at) ==
  CASE at = "primary" -> primary
    [] at = "secondary" -> secondary
    [] OTHER -> detected \cup known

\* Every position of x that is in a span of ks.
Met(x, ks) == \E k \in ks : S!Overlaps(x, k)

MaskTyped ==
  /\ primary \subseteq S!Span /\ secondary \subseteq S!Span /\ known \subseteq S!Span
  /\ masking \in Passes \cup {"replace", "done"}
  /\ detected \subseteq primary \cup secondary
  /\ end \in Int
  /\ spans \cup kept \subseteq Given(masking)
  /\ text \in Seq(0 .. TextLength)

\* Those kept do not overlap.
Apart == \A a, b \in kept : a # b => ~S!Overlaps(a, b)

\* A pass goes from left to right, and the last one kept is the one that ends last: a span
\* that is dropped overlaps with it.
PassInv ==
  masking \in Passes =>
    /\ text = S!Original
    /\ \A k \in kept : k.stop <= end
    /\ (kept = {} /\ end = -1) \/ \E k \in kept : k.stop = end
    /\ \A k \in kept, s \in spans : k.start <= s.start

\* Nothing that was settled on is forgotten.
SettledInv ==
  /\ masking = "known" => \A x \in detected \cup known : x \in spans \/ Met(x, kept)
  /\ masking \in {"replace", "done"} =>
       \A x \in detected \cup known : S!Broken(x) \/ Met(x, kept)

\* Up to the end of every span still to be replaced the text is the one that was given.
TextInv ==
  /\ \A k \in kept : masking = "replace" =>
       k.stop <= Len(text) /\ \A i \in 1 .. k.stop : text[i] = i
  /\ \A i, j \in DOMAIN text :
       i < j /\ text[i] # S!Token /\ text[j] # S!Token => text[i] < text[j]
  /\ \A i \in 1 .. TextLength :
       i \notin UNION {S!Positions(s) : s \in Found} => \E j \in DOMAIN text : text[j] = i

MaskInv ==
  /\ MaskTyped /\ Apart /\ PassInv /\ SettledInv /\ TextInv
  /\ masking = "done" => kept = {}

-----------------------------------------------------------------------------

LEMMA TextTyped == TextLength \in Nat /\ MinSpan \in Nat \ {0}
BY TextAssumption DEF TextAssumption

LEMMA SpanTyped ==
  ASSUME NEW s \in S!Span
  PROVE  s.start \in 0 .. TextLength /\ s.stop \in 0 .. TextLength /\ s.start < s.stop
BY TextTyped DEF S!Span

LEMMA OriginalInv ==
  /\ S!Original \in Seq(0 .. TextLength) /\ DOMAIN S!Original = 1 .. TextLength
  /\ Len(S!Original) = TextLength
  /\ \A i \in 1 .. TextLength : S!Original[i] = i
BY TextTyped DEF S!Original

\* The text with a token in the place of s.
Spliced(t, s) == SubSeq(t, 1, s.start) \o <<S!Token>> \o SubSeq(t, s.stop + 1, Len(t))

LEMMA SplicedText ==
  ASSUME NEW t \in Seq(0 .. TextLength), NEW s \in S!Span, s.stop <= Len(t)
  PROVE  /\ Spliced(t, s) \in Seq(0 .. TextLength)
         /\ Len(Spliced(t, s)) = Len(t) - (s.stop - s.start) + 1
         /\ \A j \in 1 .. s.start : Spliced(t, s)[j] = t[j]
         /\ Spliced(t, s)[s.start + 1] = 0
         /\ \A j \in s.start + 2 .. Len(Spliced(t, s)) :
              Spliced(t, s)[j] = t[j + (s.stop - s.start) - 1]
<1> DEFINE D == 0 .. TextLength
           n == Len(t)
           a == SubSeq(t, 1, s.start)
           b == SubSeq(t, s.stop + 1, n)
           c == a \o <<0>>
<1>1. /\ s.start \in Nat /\ s.stop \in Nat /\ s.start < s.stop /\ 0 \in D /\ n \in Nat
      /\ s.stop <= n /\ \A i \in 1 .. n : t[i] \in D
  BY SpanTyped, TextTyped
<1>2. Spliced(t, s) = c \o b
  BY DEF Spliced, S!Token
<1> HIDE DEF D, n
<1>3. a \in Seq(D) /\ Len(a) = s.start /\ \A j \in 1 .. s.start : a[j] = t[j]
  <2>1. \A i \in 1 .. s.start : t[i] \in D
    BY <1>1
  <2>2. /\ a \in Seq(D) /\ Len(a) = IF 1 <= s.start THEN s.start - 1 + 1 ELSE 0
        /\ \A i \in 1 .. s.start - 1 + 1 : a[i] = t[1 + i - 1]
    BY <1>1, <2>1, SubSeqProperties
  <2> HIDE DEF a
  <2> QED BY <1>1, <2>2
<1>4. b \in Seq(D) /\ Len(b) = n - s.stop /\ \A j \in 1 .. n - s.stop : b[j] = t[j + s.stop]
  <2>1. \A i \in s.stop + 1 .. n : t[i] \in D
    BY <1>1
  <2>2. /\ b \in Seq(D) /\ Len(b) = IF s.stop + 1 <= n THEN n - (s.stop + 1) + 1 ELSE 0
        /\ \A i \in 1 .. n - (s.stop + 1) + 1 : b[i] = t[(s.stop + 1) + i - 1]
    BY <1>1, <2>1, SubSeqProperties
  <2> HIDE DEF b
  <2>3. b \in Seq(D) /\ Len(b) = n - s.stop
    BY <1>1, <2>2
  <2>4. ASSUME NEW j \in 1 .. n - s.stop PROVE b[j] = t[j + s.stop]
    <3>1. j \in 1 .. n - (s.stop + 1) + 1 /\ (s.stop + 1) + j - 1 = j + s.stop
      BY <1>1
    <3> QED BY <2>2, <3>1
  <2> QED BY <2>3, <2>4
<1> HIDE DEF a, b
<1>5. c \in Seq(D) /\ Len(c) = s.start + 1 /\ c[s.start + 1] = 0
      /\ \A j \in 1 .. s.start : c[j] = t[j]
  <2>1. <<0>> \in Seq(D) /\ Len(<<0>>) = 1 /\ <<0>>[1] = 0
    BY <1>1
  <2> DEFINE z == <<0>>
  <2> HIDE DEF z
  <2>2. /\ a \o z \in Seq(D) /\ Len(a \o z) = Len(a) + Len(z)
        /\ \A i \in 1 .. Len(a) + Len(z) : (a \o z)[i] = IF i <= Len(a) THEN a[i] ELSE z[i - Len(a)]
    BY <1>3, <2>1, ConcatProperties DEF z
  <2>3. c = a \o z
    BY DEF z
  <2>4. Len(z) = 1 /\ z[1] = 0
    BY <2>1 DEF z
  <2> HIDE DEF c
  <2> QED BY <1>1, <1>3, <2>2, <2>3, <2>4
<1> HIDE DEF c
<1>6. /\ c \o b \in Seq(D) /\ Len(c \o b) = Len(c) + Len(b)
      /\ \A i \in 1 .. Len(c) + Len(b) : (c \o b)[i] = IF i <= Len(c) THEN c[i] ELSE b[i - Len(c)]
  BY <1>4, <1>5, ConcatProperties
<1> DEFINE new == c \o b
<1> HIDE DEF new
<1>7. /\ new \in Seq(D) /\ Len(new) = n - (s.stop - s.start) + 1
      /\ \A j \in 1 .. s.start : new[j] = t[j]
      /\ new[s.start + 1] = 0
      /\ \A j \in s.start + 2 .. Len(new) : new[j] = t[j + (s.stop - s.start) - 1]
  <2>1. new \in Seq(D) /\ Len(new) = s.start + 1 + (n - s.stop)
        /\ \A i \in 1 .. s.start + 1 + (n - s.stop) :
             new[i] = IF i <= s.start + 1 THEN c[i] ELSE b[i - (s.start + 1)]
    BY <1>4, <1>5, <1>6 DEF new
  <2>2. \A j \in 1 .. s.start : new[j] = t[j]
    BY <1>1, <1>5, <2>1
  <2>3. new[s.start + 1] = 0
    BY <1>1, <1>5, <2>1
  <2>4. ASSUME NEW j \in s.start + 2 .. Len(new)
        PROVE  new[j] = t[j + (s.stop - s.start) - 1]
    <3>1. j - (s.start + 1) \in 1 .. n - s.stop /\ new[j] = b[j - (s.start + 1)]
      BY <1>1, <2>1
    <3>2. b[j - (s.start + 1)] = t[(j - (s.start + 1)) + s.stop]
      BY <1>4, <3>1
    <3>3. (j - (s.start + 1)) + s.stop = j + (s.stop - s.start) - 1
      BY <1>1, <2>1
    <3> QED BY <3>1, <3>2, <3>3
  <2> QED BY <1>1, <2>1, <2>2, <2>3, <2>4
<1> QED
  BY <1>2, <1>7 DEF new, D, n

\* Where the parts of the text stand after the replacement.
LEMMA SplicedFrom ==
  ASSUME NEW t \in Seq(0 .. TextLength), NEW s \in S!Span, s.stop <= Len(t),
         NEW j \in DOMAIN Spliced(t, s)
  PROVE  \/ j <= s.start /\ Spliced(t, s)[j] = t[j] /\ j \in DOMAIN t
         \/ j = s.start + 1 /\ Spliced(t, s)[j] = 0
         \/ /\ j > s.start + 1 /\ j + (s.stop - s.start) - 1 \in DOMAIN t
            /\ j + (s.stop - s.start) - 1 > s.stop
            /\ Spliced(t, s)[j] = t[j + (s.stop - s.start) - 1]
<1> DEFINE new == Spliced(t, s)
           n == Len(t)
<1>1. /\ new \in Seq(0 .. TextLength) /\ Len(new) = n - (s.stop - s.start) + 1
      /\ \A i \in 1 .. s.start : new[i] = t[i]
      /\ new[s.start + 1] = 0
      /\ \A i \in s.start + 2 .. Len(new) : new[i] = t[i + (s.stop - s.start) - 1]
  BY SplicedText
<1>2. s.start \in Nat /\ s.stop \in Nat /\ s.start < s.stop /\ s.stop <= n /\ n \in Nat
      /\ DOMAIN t = 1 .. n
  BY SpanTyped, TextTyped
<1> HIDE DEF new, n
<1>3. DOMAIN new = 1 .. Len(new)
  BY <1>1
<1>4. j \in 1 .. n - (s.stop - s.start) + 1
  BY <1>1, <1>3 DEF new
<1>5. CASE j <= s.start
  BY <1>1, <1>2, <1>4, <1>5 DEF new
<1>6. CASE j = s.start + 1
  BY <1>1, <1>2, <1>6 DEF new
<1>7. CASE j > s.start + 1
  <2>1. Len(new) = n - (s.stop - s.start) + 1
    BY <1>1
  <2>2. j + (s.stop - s.start) - 1 \in 1 .. n /\ j + (s.stop - s.start) - 1 > s.stop
    BY <1>2, <1>4, <1>7
  <2>3. j \in s.start + 2 .. Len(new)
    BY <1>2, <1>4, <1>7, <2>1
  <2> QED BY <1>1, <1>2, <1>7, <2>2, <2>3 DEF new
<1> QED BY <1>2, <1>4, <1>5, <1>6, <1>7

LEMMA MaskInitInv == S!Init => MaskInv
<1> SUFFICES ASSUME S!Init PROVE MaskInv
  OBVIOUS
<1>1. MaskTyped
  BY OriginalInv DEF S!Init, S!Finds, MaskTyped, Passes, Given
<1>2. Apart /\ PassInv /\ SettledInv
  BY DEF S!Init, Apart, PassInv, SettledInv, Passes
<1>3. TextInv
  BY OriginalInv, TextTyped DEF S!Init, TextInv
<1> QED
  BY <1>1, <1>2, <1>3 DEF MaskInv, S!Init

LEMMA LookInv == ASSUME MaskInv, NEW s \in spans, S!LookAt(s) PROVE MaskInv'
<1> USE DEF MaskInv
<1>1. /\ masking \in Passes /\ masking' = masking /\ text' = text /\ detected' = detected
      /\ UNCHANGED <<primary, secondary, known>>
      /\ spans' = spans \ {s} /\ kept' \subseteq kept \cup {s} /\ kept \subseteq kept'
  BY DEF S!LookAt, S!finds, Passes
<1>2. s \in S!Span /\ \A k \in kept : k \in S!Span
  BY <1>1 DEF MaskTyped, Given, Passes
<1>3. s.start \in Int /\ s.stop \in Int /\ s.start < s.stop /\ s.start >= 0
  BY <1>2, SpanTyped, TextTyped
<1>4. \A k \in kept : k.start \in Int /\ k.stop \in Int /\ k.start < k.stop /\ k.start <= s.start
                      /\ k.stop <= end
  BY <1>1, <1>2, SpanTyped, TextTyped DEF PassInv
<1>5. end \in Int
  BY DEF MaskTyped
<1>6. \A x \in spans : s.start <= x.start
  <2>1. \A x \in spans : x \in S!Span
    BY <1>1 DEF MaskTyped, Given, Passes
  <2> QED BY <1>3, <2>1, SpanTyped, TextTyped DEF S!LookAt, S!Before
<1>7. MaskTyped'
  BY <1>1, <1>3, <1>5 DEF MaskTyped, Given, S!LookAt
<1>8. CASE s.start >= end
  <2>1. kept' = kept \cup {s} /\ end' = s.stop
    BY <1>8 DEF S!LookAt, S!Keeps
  <2>2. \A k \in kept : ~S!Overlaps(s, k) /\ ~S!Overlaps(k, s)
    BY <1>3, <1>4, <1>5, <1>8 DEF S!Overlaps
  <2>3. Apart'
    BY <2>1, <2>2 DEF Apart
  <2>4. PassInv'
    BY <1>1, <1>3, <1>4, <1>5, <1>6, <1>8, <2>1 DEF PassInv
  <2>5. S!Overlaps(s, s)
    BY <1>3 DEF S!Overlaps
  <2>6. SettledInv'
    BY <1>1, <2>1, <2>5 DEF SettledInv, Met, Passes
  <2> QED
    BY <1>1, <1>7, <2>3, <2>4, <2>6 DEF TextInv, Found, Passes
<1>9. CASE s.start < end
  <2>1. kept' = kept /\ end' = end
    BY <1>3, <1>5, <1>9 DEF S!LookAt, S!Keeps
  <2>2. PICK k \in kept : k.stop = end
    BY <1>1, <1>3, <1>9 DEF PassInv
  <2>3. S!Overlaps(s, k)
    BY <1>3, <1>4, <1>9, <2>2 DEF S!Overlaps
  <2>4. SettledInv'
    BY <1>1, <2>1, <2>3 DEF SettledInv, Met, Passes
  <2>5. Apart' /\ PassInv'
    BY <1>1, <2>1 DEF Apart, PassInv
  <2> QED
    BY <1>1, <1>7, <2>1, <2>4, <2>5 DEF TextInv, Found, Passes
<1> QED
  BY <1>3, <1>5, <1>8, <1>9

\* A pass begins with nothing kept.
LEMMA PassBegins ==
  ASSUME MaskInv, NEW next \in Passes, NEW more, S!Resolve(next, more), masking \in Passes,
         detected' \subseteq primary \cup secondary, more \subseteq Given(next)',
         next = "known" => detected' \cup known \subseteq more
  PROVE  MaskInv'
<1>1. /\ masking' = next /\ spans' = more /\ kept' = {} /\ end' = -1 /\ text' = text
      /\ UNCHANGED <<primary, secondary, known>>
  BY DEF S!Resolve, S!finds
<1>2. MaskTyped'
  BY <1>1 DEF MaskInv, MaskTyped, Passes
<1>3. Apart' /\ PassInv' /\ SettledInv'
  BY <1>1 DEF MaskInv, Apart, PassInv, SettledInv, Passes
<1>4. TextInv'
  BY <1>1 DEF MaskInv, TextInv, Found
<1> QED
  BY <1>1, <1>2, <1>3, <1>4 DEF MaskInv, Passes

LEMMA DetectInv == ASSUME MaskInv, S!DetectPrimary \/ S!DetectSecondary PROVE MaskInv'
<1>1. CASE S!DetectPrimary
  <2>1. kept \subseteq primary
    BY <1>1 DEF S!DetectPrimary, MaskInv, MaskTyped, Given
  <2> QED
    BY <1>1, <2>1, PassBegins DEF S!DetectPrimary, S!Resolve, S!finds, Passes, Given
<1>2. CASE S!DetectSecondary
  <2>1. kept \subseteq secondary /\ detected \subseteq primary \cup secondary
    BY <1>2 DEF S!DetectSecondary, MaskInv, MaskTyped, Given
  <2> QED
    BY <1>2, <2>1, PassBegins DEF S!DetectSecondary, S!Resolve, S!finds, Passes, Given
<1> QED
  BY <1>1, <1>2

LEMMA SettleInv == ASSUME MaskInv, S!Settle PROVE MaskInv'
<1>1. /\ masking = "known" /\ masking' = "replace" /\ spans = {}
      /\ UNCHANGED <<primary, secondary, known, spans, kept, end, detected, text>>
  BY DEF S!Settle, S!finds
<1>2. MaskTyped' /\ Apart' /\ PassInv'
  BY <1>1 DEF MaskInv, MaskTyped, Apart, PassInv, Given, Passes
<1>3. SettledInv'
  BY <1>1 DEF MaskInv, SettledInv
<1>4. \A k \in kept : k.stop \in 0 .. TextLength
  BY <1>1, SpanTyped DEF MaskInv, MaskTyped, Given
<1>5. text = S!Original
  BY <1>1 DEF MaskInv, PassInv, Passes
<1>6. \A k \in kept : k.stop <= Len(text) /\ \A i \in 1 .. k.stop : text[i] = i
  BY <1>4, <1>5, OriginalInv, TextTyped
<1>7. TextInv'
  BY <1>1, <1>6 DEF MaskInv, TextInv, Found
<1> QED
  BY <1>1, <1>2, <1>3, <1>7 DEF MaskInv

LEMMA ReplaceInv == ASSUME MaskInv, NEW s \in kept, S!Replace(s) PROVE MaskInv'
<1>1. /\ masking = "replace" /\ masking' = "replace" /\ kept' = kept \ {s}
      /\ text' = Spliced(text, s)
      /\ UNCHANGED <<primary, secondary, known, spans, end, detected>>
  BY DEF S!Replace, S!finds, Spliced
<1>2. /\ s \in S!Span /\ s \in Found /\ \A k \in kept : k \in S!Span
      /\ text \in Seq(0 .. TextLength)
      /\ \A x \in detected \cup known : x \in S!Span
  BY <1>1 DEF MaskInv, MaskTyped, Given, Found
<1>3. s.stop <= Len(text) /\ \A i \in 1 .. s.stop : text[i] = i
  BY <1>1 DEF MaskInv, TextInv
<1>4. s.start \in Nat /\ s.stop \in Nat /\ s.start < s.stop /\ Len(text) \in Nat
      /\ DOMAIN text = 1 .. Len(text)
  BY <1>2, SpanTyped, TextTyped
<1>5. \A k \in kept \ {s} : k.stop \in Nat /\ k.start \in Nat /\ k.stop <= s.start
  <2> SUFFICES ASSUME NEW k \in kept \ {s}
               PROVE  k.stop \in Nat /\ k.start \in Nat /\ k.stop <= s.start
    OBVIOUS
  <2>1. k.start \in Nat /\ k.stop \in Nat /\ k.start < k.stop
    BY <1>2, SpanTyped, TextTyped
  <2>2. k.start <= s.start
    BY <1>4, <2>1 DEF S!Replace, S!Turn
  <2>3. ~S!Overlaps(s, k)
    BY DEF MaskInv, Apart
  <2> QED
    BY <1>4, <2>1, <2>2, <2>3 DEF S!Overlaps
<1>6. \A i, j \in DOMAIN text :
        i < j /\ text[i] # 0 /\ text[j] # 0 => text[i] < text[j]
  BY DEF MaskInv, TextInv, S!Token
<1> DEFINE new == Spliced(text, s)
<1>7. /\ new \in Seq(0 .. TextLength) /\ Len(new) = Len(text) - (s.stop - s.start) + 1
      /\ DOMAIN new = 1 .. Len(new)
      /\ \A j \in 1 .. s.start : new[j] = text[j]
      /\ \A j \in s.start + 2 .. Len(new) : new[j] = text[j + (s.stop - s.start) - 1]
  BY <1>2, <1>3, SplicedText
<1>8. \A j \in DOMAIN new :
        \/ j <= s.start /\ new[j] = text[j] /\ j \in DOMAIN text
        \/ j = s.start + 1 /\ new[j] = 0
        \/ /\ j > s.start + 1 /\ j + (s.stop - s.start) - 1 \in DOMAIN text
           /\ j + (s.stop - s.start) - 1 > s.stop
           /\ new[j] = text[j + (s.stop - s.start) - 1]
  BY <1>2, <1>3, SplicedFrom
<1> HIDE DEF new
<1>9. MaskTyped'
  BY <1>1, <1>7 DEF MaskInv, MaskTyped, Given, new
<1>10. Apart' /\ PassInv'
  BY <1>1 DEF MaskInv, Apart, PassInv, Passes
<1>11. \A k \in kept' : k.stop <= Len(new) /\ \A i \in 1 .. k.stop : new[i] = i
  <2> SUFFICES ASSUME NEW k \in kept \ {s}
               PROVE  k.stop <= Len(new) /\ \A i \in 1 .. k.stop : new[i] = i
    BY <1>1
  <2> QED
    BY <1>3, <1>4, <1>5, <1>7
<1>12. \A i, j \in DOMAIN new : i < j /\ new[i] # 0 /\ new[j] # 0 => new[i] < new[j]
  <2> SUFFICES ASSUME NEW i \in DOMAIN new, NEW j \in DOMAIN new, i < j, new[i] # 0, new[j] # 0
               PROVE  new[i] < new[j]
    OBVIOUS
  <2>0. i \in Nat /\ j \in Nat
    BY <1>7
  <2>1. CASE j <= s.start
    <3>1. new[i] = text[i] /\ i \in DOMAIN text /\ new[j] = text[j] /\ j \in DOMAIN text
      BY <1>4, <1>8, <2>0, <2>1
    <3> QED BY <1>6, <3>1
  <2>2. CASE i <= s.start /\ j > s.start + 1
    <3> DEFINE l == j + (s.stop - s.start) - 1
    <3>1. new[i] = text[i] /\ i \in DOMAIN text /\ new[j] = text[l] /\ l \in DOMAIN text
          /\ l > s.stop
      BY <1>4, <1>8, <2>0, <2>2
    <3>2. i < l
      BY <1>4, <2>0, <2>2, <3>1
    <3> HIDE DEF l
    <3> QED BY <1>6, <3>1, <3>2
  <2>3. CASE i > s.start + 1
    <3> DEFINE l == j + (s.stop - s.start) - 1
               h == i + (s.stop - s.start) - 1
    <3>1. new[i] = text[h] /\ h \in DOMAIN text /\ new[j] = text[l] /\ l \in DOMAIN text
      BY <1>4, <1>8, <2>0, <2>3
    <3>2. h < l
      BY <1>4, <2>0
    <3> HIDE DEF l, h
    <3> QED BY <1>6, <3>1, <3>2
  <2>4. i # s.start + 1 /\ j # s.start + 1
    BY <1>4, <1>8
  <2> QED
    BY <1>4, <2>0, <2>1, <2>2, <2>3, <2>4
<1>13. \A i \in 1 .. TextLength :
         i \notin S!Positions(s) /\ (\E j \in DOMAIN text : text[j] = i)
           => \E j \in DOMAIN new : new[j] = i
  <2> SUFFICES ASSUME NEW i \in 1 .. TextLength, i \notin S!Positions(s),
                      NEW j \in DOMAIN text, text[j] = i
               PROVE  \E h \in DOMAIN new : new[h] = i
    OBVIOUS
  <2>1. j <= s.start \/ j > s.stop
    BY <1>3, <1>4 DEF S!Positions
  <2>2. CASE j <= s.start
    BY <1>3, <1>4, <1>7, <2>2
  <2>3. CASE j > s.stop
    <3> DEFINE h == j - (s.stop - s.start) + 1
    <3>1. h \in s.start + 2 .. Len(new) /\ h \in DOMAIN new
      BY <1>4, <1>7, <2>3
    <3>2. h + (s.stop - s.start) - 1 = j
      BY <1>4
    <3>3. new[h] = text[h + (s.stop - s.start) - 1]
      BY <1>7, <3>1
    <3> HIDE DEF h
    <3> QED BY <3>1, <3>2, <3>3
  <2> QED
    BY <2>1, <2>2, <2>3
<1>14. \A i \in S!Positions(s), j \in DOMAIN new : new[j] # i
  <2> SUFFICES ASSUME NEW i \in S!Positions(s), NEW j \in DOMAIN new, new[j] = i
               PROVE  FALSE
    OBVIOUS
  <2>0. i \in s.start + 1 .. s.stop /\ i # 0 /\ i \in Nat /\ text[i] = i /\ text[s.stop] = s.stop
        /\ s.stop \in DOMAIN text /\ s.stop # 0
    BY <1>3, <1>4 DEF S!Positions
  <2>1. CASE j <= s.start
    <3>1. new[j] = j
      BY <1>3, <1>4, <1>7, <2>1
    <3> QED BY <1>4, <2>0, <2>1, <3>1
  <2>2. CASE j > s.start + 1
    <3> DEFINE l == j + (s.stop - s.start) - 1
    <3>1. new[j] = text[l] /\ l \in DOMAIN text /\ l > s.stop
      <4>1. ~(j <= s.start) /\ j # s.start + 1
        BY <1>4, <1>7, <2>2
      <4> QED BY <1>8, <4>1
    <3> HIDE DEF l
    <3>2. text[s.stop] < text[l]
      BY <1>6, <2>0, <3>1
    <3> QED BY <1>4, <2>0, <3>1, <3>2
  <2>3. j # s.start + 1
    BY <1>4, <1>8, <2>0
  <2> QED
    BY <1>4, <1>7, <2>1, <2>2, <2>3
<1>15. TextInv'
  <2>1. \A i \in 1 .. TextLength :
          i \notin UNION {S!Positions(f) : f \in Found} => \E j \in DOMAIN new : new[j] = i
    BY <1>2, <1>13 DEF MaskInv, TextInv
  <2>2. Found' = Found /\ text' = new
    BY <1>1 DEF Found, new
  <2> QED
    BY <1>11, <1>12, <2>1, <2>2 DEF TextInv, S!Token
<1>16. \A x \in detected \cup known : S!Broken(x) => S!Broken(x)'
  <2> SUFFICES ASSUME NEW x \in detected \cup known, S!Broken(x) PROVE S!Broken(x)'
    OBVIOUS
  <2>1. PICK i \in S!Positions(x) : i \notin S!Range(text)
    BY DEF S!Broken
  <2>2. i \in Nat \ {0}
    BY <1>2, SpanTyped, TextTyped DEF S!Positions
  <2>3. \A j \in DOMAIN text : text[j] # i
    BY <2>1 DEF S!Range
  <2>4. \A j \in DOMAIN new : new[j] # i
    BY <1>8, <2>2, <2>3
  <2>5. text' = new
    BY <1>1 DEF new
  <2> QED
    BY <2>1, <2>4, <2>5 DEF S!Broken, S!Range
<1>17. \A x \in detected \cup known : S!Overlaps(x, s) => S!Broken(x)'
  <2> SUFFICES ASSUME NEW x \in detected \cup known, S!Overlaps(x, s) PROVE S!Broken(x)'
    OBVIOUS
  <2>1. x.start \in Nat /\ x.stop \in Nat /\ x.start < x.stop
    BY <1>2, SpanTyped, TextTyped
  <2>2. PICK i \in Nat : i \in S!Positions(x) /\ i \in S!Positions(s)
    <3>1. CASE x.start <= s.start
      <4>1. s.start + 1 \in S!Positions(x) /\ s.start + 1 \in S!Positions(s)
        BY <1>4, <2>1, <3>1 DEF S!Overlaps, S!Positions
      <4> QED BY <1>4, <4>1
    <3>2. CASE s.start <= x.start
      <4>1. x.start + 1 \in S!Positions(x) /\ x.start + 1 \in S!Positions(s)
        BY <1>4, <2>1, <3>2 DEF S!Overlaps, S!Positions
      <4> QED BY <2>1, <4>1
    <3> QED BY <1>4, <2>1, <3>1, <3>2
  <2>3. text' = new
    BY <1>1 DEF new
  <2> QED
    BY <1>14, <2>2, <2>3 DEF S!Broken, S!Range
<1>18. SettledInv'
  BY <1>1, <1>16, <1>17 DEF MaskInv, SettledInv, Met
<1> QED
  BY <1>1, <1>9, <1>10, <1>15, <1>18 DEF MaskInv

LEMMA DoneInv == ASSUME MaskInv, S!Done PROVE MaskInv'
BY DEF S!Done, S!finds, MaskInv, MaskTyped, Apart, PassInv, SettledInv, TextInv, Given, Passes, Found,
       S!Broken, Met

LEMMA MaskNextInv == MaskInv /\ [S!Next]_(S!vars) => MaskInv'
<1>1. ASSUME MaskInv, UNCHANGED S!vars PROVE MaskInv'
  BY <1>1 DEF S!vars, MaskInv, MaskTyped, Apart, PassInv, SettledInv, TextInv, Given, Passes, Found,
              S!Broken, Met
<1> QED
  BY <1>1, LookInv, DetectInv, SettleInv, ReplaceInv, DoneInv DEF S!Next

\* However many values are found, wherever they overlap: none of those that detection
\* settled on, and no occurrence of a known one, is sent whole (pseudonymizer.py:24-35).
THEOREM SettledAreBroken == S!Spec => []SettledBroken
<1>1. MaskInv => SettledBroken
  BY DEF MaskInv, SettledInv, SettledBroken, S!SettledBroken, Met
<1> QED
  BY <1>1, MaskInitInv, MaskNextInv, PTL DEF S!Spec

\* The replacement of the values moves, repeats and loses nothing of the text around them.
THEOREM OthersStayUntouched == S!Spec => []OthersUntouched
<1>1. MaskInv => OthersUntouched
  BY DEF MaskInv, TextInv, OthersUntouched, S!OthersUntouched, S!Range, Found
<1> QED
  BY <1>1, MaskInitInv, MaskNextInv, PTL DEF S!Spec

-----------------------------------------------------------------------------
(* Induction over numbers.                                                 *)

LEMMA LeastNumber ==
  ASSUME NEW H \in SUBSET Nat, H # {}
  PROVE  \E n \in H : \A m \in H : n <= m
<1> DEFINE Less == {x \in Nat \X Nat : x[1] < x[2]}
<1>1. IsWellFoundedOn(Less, Nat)
  BY NatLessThanWellFounded DEF OpToRel
<1> HIDE DEF Less
<1>2. PICK n \in H : \A m \in H : <<m, n>> \notin Less
  BY <1>1, WFMin
<1>3. ASSUME NEW m \in H PROVE n <= m
  <2>1. n \in Nat /\ m \in Nat
    OBVIOUS
  <2>2. ~ m < n
    BY <1>2, <2>1 DEF Less
  <2> QED
    BY <2>1, <2>2
<1> QED
  BY <1>3

LEMMA GreatestNumber ==
  ASSUME NEW n \in Nat, NEW H \in SUBSET (0 .. n), H # {}
  PROVE  \E m \in H : \A k \in H : m >= k
<1> DEFINE Gap == {g \in Nat : g <= n /\ n - g \in H}
<1>1. PICK h \in H : h \in 0 .. n
  OBVIOUS
<1>2. n - h \in Nat /\ n - h <= n /\ n - (n - h) = h
  BY <1>1
<1>3. Gap \in SUBSET Nat /\ n - h \in Gap
  BY <1>2
<1>4. PICK g \in Gap : \A l \in Gap : g <= l
  <2> HIDE DEF Gap
  <2> QED
    BY <1>3, LeastNumber
<1>5. g \in Nat /\ n - g \in H
  OBVIOUS
<1>6. ASSUME NEW k \in H PROVE n - g >= k
  <2>1. k \in 0 .. n
    OBVIOUS
  <2>2. n - k \in Nat /\ n - k <= n /\ n - (n - k) = k
    BY <2>1
  <2>3. n - k \in Gap
    BY <2>2
  <2>4. g <= n - k
    BY <1>4, <2>3
  <2> QED
    BY <1>5, <2>1, <2>4
<1> QED
  BY <1>5, <1>6

\* A set of numbers that has 0 and with each number the next one has all numbers.
LEMMA NumberInduction ==
  ASSUME NEW H \in SUBSET Nat, 0 \in H, \A n \in H : n + 1 \in H
  PROVE  H = Nat
<1>1. ASSUME Nat \ H # {} PROVE FALSE
  <2>1. Nat \ H \in SUBSET Nat
    OBVIOUS
  <2>2. PICK n \in Nat \ H : \A m \in Nat \ H : n <= m
    BY <1>1, <2>1, LeastNumber
  <2>3. n # 0 /\ n - 1 \in Nat /\ (n - 1) + 1 = n
    BY <2>2
  <2>4. n - 1 \in H
    BY <2>2, <2>3
  <2> QED
    BY <2>3, <2>4
<1>2. \A n \in Nat : n \in H
  BY <1>1
<1>3. \A n \in H : n \in Nat
  OBVIOUS
<1> QED
  BY <1>2, <1>3

LEMMA Beginning ==
  ASSUME NEW X, NEW s \in Seq(X), NEW n \in Nat, n <= Len(s)
  PROVE  /\ SubSeq(s, 1, n) \in Seq(X) /\ Len(SubSeq(s, 1, n)) = n
         /\ \A i \in 1 .. n : SubSeq(s, 1, n)[i] = s[i]
<1>1. SubSeq(s, 1, n) \in Seq(X)
  OBVIOUS
<1>2. Len(SubSeq(s, 1, n)) = n
  OBVIOUS
<1>3. \A i \in 1 .. n : SubSeq(s, 1, n)[i] = s[i]
  OBVIOUS
<1> QED
  BY <1>1, <1>2, <1>3

LEMMA LastApart ==
  ASSUME NEW X, NEW s \in Seq(X), NEW n \in Nat, Len(s) = n + 1
  PROVE  /\ SubSeq(s, 1, n) \in Seq(X) /\ Len(SubSeq(s, 1, n)) = n /\ s[n + 1] \in X
         /\ s = Append(SubSeq(s, 1, n), s[n + 1])
<1> DEFINE r == SubSeq(s, 1, n)
           c == s[n + 1]
<1>1. r \in Seq(X) /\ Len(r) = n /\ c \in X
  OBVIOUS
<1>2. \A i \in 1 .. n : r[i] = s[i]
  OBVIOUS
<1> HIDE DEF r
<1>3. /\ Append(r, c) \in Seq(X) /\ Len(Append(r, c)) = n + 1
      /\ Append(r, c)[n + 1] = c
      /\ \A i \in 1 .. n : Append(r, c)[i] = r[i]
  BY <1>1
<1>4. \A i \in 1 .. n + 1 : i \in 1 .. n \/ i = n + 1
  OBVIOUS
<1>5. \A i \in 1 .. n + 1 : Append(r, c)[i] = s[i]
  BY <1>2, <1>3, <1>4
<1>6. Append(r, c) = s
  BY <1>3, <1>5, SeqEqual
<1> QED
  BY <1>1, <1>6

\* H has with each sequence those with one more element of X.
Grows(H, X) == \A s \in H, c \in X : Append(s, c) \in H

\* So has a set of sequences that has the empty one and each one made longer all sequences.
LEMMA SequencesFrom ==
  ASSUME NEW X, NEW H \in SUBSET Seq(X), <<>> \in H, Grows(H, X)
  PROVE  H = Seq(X)
<1> DEFINE K == {n \in Nat : \A s \in Seq(X) : Len(s) = n => s \in H}
<1>1. 0 \in K
  <2>1. \A s \in Seq(X) : Len(s) = 0 => s = <<>>
    BY EmptySeq
  <2> QED
    BY <2>1
<1>2. ASSUME NEW n \in K PROVE n + 1 \in K
  <2> SUFFICES ASSUME NEW s \in Seq(X), Len(s) = n + 1 PROVE s \in H
    OBVIOUS
  <2>1. /\ SubSeq(s, 1, n) \in Seq(X) /\ Len(SubSeq(s, 1, n)) = n /\ s[n + 1] \in X
        /\ s = Append(SubSeq(s, 1, n), s[n + 1])
    BY LastApart
  <2>2. SubSeq(s, 1, n) \in H
    BY <2>1
  <2>3. Append(SubSeq(s, 1, n), s[n + 1]) \in H
    BY <2>1, <2>2 DEF Grows
  <2> QED
    BY <2>1, <2>3
<1> HIDE DEF K
<1>3. K = Nat
  BY <1>1, <1>2, NumberInduction DEF K
<1>4. ASSUME NEW s \in Seq(X) PROVE s \in H
  <2>1. Len(s) \in K
    BY <1>3, LenProperties
  <2> QED
    BY <2>1 DEF K
<1> QED
  BY <1>4

-----------------------------------------------------------------------------
(* The stream.                                                             *)

Chars == {F!O, F!C, F!T}
Shown == Chars \cup {F!R}

\* f restores the first n characters of s one by one.
Stages(s, n, f) ==
  /\ f = [i \in 0 .. n |-> f[i]]
  /\ \A i \in 0 .. n : f[i] = IF i = 0 THEN <<>> ELSE F!Put(f[i - 1], s[i])

LEMMA StagesExist ==
  ASSUME NEW s, NEW n \in Nat
  PROVE  \E f : Stages(s, n, f)
<1> DEFINE H == {k \in Nat : \E f : Stages(s, k, f)}
<1>1. 0 \in H
  <2>1. Stages(s, 0, [i \in 0 .. 0 |-> <<>>])
    BY DEF Stages
  <2> QED
    BY <2>1
<1>2. ASSUME NEW k \in H PROVE k + 1 \in H
  <2>1. PICK f : Stages(s, k, f)
    OBVIOUS
  <2> DEFINE g == [i \in 0 .. k + 1 |-> IF i = k + 1 THEN F!Put(f[k], s[k + 1]) ELSE f[i]]
  <2>2. g = [i \in 0 .. k + 1 |-> g[i]]
    OBVIOUS
  <2>3. \A i \in 0 .. k + 1 : g[i] = IF i = 0 THEN <<>> ELSE F!Put(g[i - 1], s[i])
    BY <2>1 DEF Stages
  <2>4. Stages(s, k + 1, g)
    BY <2>2, <2>3 DEF Stages
  <2> QED
    BY <2>4
<1> HIDE DEF H
<1>3. H = Nat
  BY <1>1, <1>2, NumberInduction DEF H
<1> QED
  BY <1>3 DEF H

\* The definition by recursion defines something.
LEMMA RestoringStages ==
  ASSUME NEW s, Len(s) \in Nat
  PROVE  Stages(s, Len(s), F!Restoring(s))
<1> DEFINE E(f) == f = [i \in 0 .. Len(s) |-> IF i = 0 THEN <<>> ELSE F!Put(f[i - 1], s[i])]
<1>1. PICK f : Stages(s, Len(s), f)
  BY StagesExist
<1>2. E(f)
  BY <1>1 DEF Stages
<1>3. F!Restoring(s) = CHOOSE g : E(g)
  BY DEF F!Restoring
<1>4. E(F!Restoring(s))
  BY <1>2, <1>3
<1> QED
  BY <1>4 DEF Stages

\* What is restored of the beginning does not depend on what follows.
LEMMA StagesAgree ==
  ASSUME NEW s, NEW t, NEW f, NEW g, NEW n \in Nat, NEW m \in Nat,
         Stages(s, n, f), Stages(t, m, g), NEW l \in Nat, l <= n, l <= m,
         \A i \in 1 .. l : s[i] = t[i]
  PROVE  f[l] = g[l]
<1> DEFINE H == {k \in Nat : k <= l => f[k] = g[k]}
<1>1. 0 \in H
  BY DEF Stages
<1>2. ASSUME NEW k \in H PROVE k + 1 \in H
  <2> SUFFICES ASSUME k + 1 <= l PROVE f[k + 1] = g[k + 1]
    OBVIOUS
  <2>1. k + 1 \in 0 .. n /\ k + 1 \in 0 .. m /\ k + 1 # 0 /\ (k + 1) - 1 = k /\ k + 1 \in 1 .. l
    OBVIOUS
  <2>2. f[k + 1] = F!Put(f[k], s[k + 1])
    BY <2>1 DEF Stages
  <2>3. g[k + 1] = F!Put(g[k], t[k + 1])
    BY <2>1 DEF Stages
  <2> QED
    BY <2>1, <2>2, <2>3
<1> HIDE DEF H
<1>3. H = Nat
  BY <1>1, <1>2, NumberInduction DEF H
<1> QED
  BY <1>3 DEF H

LEMMA RestoredEmpty == F!Restored(<<>>) = <<>>
BY RestoringStages DEF Stages, F!Restored

LEMMA RestoredAppend ==
  ASSUME NEW s \in Seq(Shown), NEW c \in Shown
  PROVE  F!Restored(Append(s, c)) = F!Put(F!Restored(s), c)
<1> DEFINE t == Append(s, c)
<1>1. t \in Seq(Shown) /\ Len(s) \in Nat /\ Len(t) = Len(s) + 1 /\ t[Len(t)] = c /\ \A i \in 1 .. Len(s) : t[i] = s[i]
  OBVIOUS
<1> HIDE DEF t
<1>2. Stages(s, Len(s), F!Restoring(s)) /\ Stages(t, Len(t), F!Restoring(t))
  BY <1>1, RestoringStages
<1>3. F!Restoring(t)[Len(s)] = F!Restoring(s)[Len(s)]
  BY <1>1, <1>2, StagesAgree
<1>4. F!Restoring(t)[Len(t)] = F!Put(F!Restoring(t)[Len(s)], c)
  BY <1>1, <1>2 DEF Stages
<1> QED
  BY <1>3, <1>4 DEF F!Restored, t

LEMMA PutTyped ==
  ASSUME NEW s \in Seq(Shown), NEW c \in Shown
  PROVE  F!Put(s, c) \in Seq(Shown) /\ F!Put(s, c) # <<>>
<1>1. CASE c = F!C /\ F!EndsOpen(s)
  <2>1. Len(s) - 2 \in 0 .. Len(s)
    BY <1>1 DEF F!EndsOpen
  <2>2. SubSeq(s, 1, Len(s) - 2) \in Seq(Shown)
    BY <2>1
  <2>3. F!R \in Shown
    BY DEF Shown
  <2> HIDE DEF Shown
  <2>4. Append(SubSeq(s, 1, Len(s) - 2), F!R) \in Seq(Shown)
        /\ Append(SubSeq(s, 1, Len(s) - 2), F!R) # <<>>
    BY <2>2, <2>3, AppendProperties
  <2> QED
    BY <1>1, <2>4 DEF F!Put
<1>2. CASE ~(c = F!C /\ F!EndsOpen(s))
  <2>1. Append(s, c) \in Seq(Shown) /\ Append(s, c) # <<>>
    BY AppendProperties
  <2> QED
    BY <1>2, <2>1 DEF F!Put
<1> QED
  BY <1>1, <1>2

LEMMA RestoredTyped ==
  ASSUME NEW s \in Seq(Chars)
  PROVE  F!Restored(s) \in Seq(Shown) /\ (s # <<>> => F!Restored(s) # <<>>)
<1> DEFINE Fine(r) == F!Restored(r) \in Seq(Shown) /\ (r # <<>> => F!Restored(r) # <<>>)
           H == {r \in Seq(Chars) : Fine(r)}
<1>1. <<>> \in H
  BY RestoredEmpty, EmptySeq
<1>2. ASSUME NEW r \in H, NEW c \in Chars PROVE Append(r, c) \in H
  <2>1. r \in Seq(Shown) /\ c \in Shown
    BY DEF Shown
  <2> QED
    BY <2>1, RestoredAppend, PutTyped
<1> HIDE DEF H
<1>3. H = Seq(Chars)
  BY <1>1, <1>2, SequencesFrom DEF H, Grows
<1> QED
  BY <1>3 DEF H

\* A text after which a new character makes nothing of what was before.
Loose(s) == ~F!EndsOpen(s) /\ ~(s # <<>> /\ s[Len(s)] = F!O)

LEMMA PutApart ==
  ASSUME NEW a \in Seq(Shown), NEW x \in Seq(Shown), NEW c \in Chars,
         x = <<>> /\ c = F!C => Loose(a),
         Len(x) = 1 => Loose(a) \/ x[1] \in {F!O, F!R}
  PROVE  F!Put(a \o x, c) = a \o F!Put(x, c)
<1> DEFINE ax == a \o x
<1>1. ax \in Seq(Shown) /\ Len(ax) = Len(a) + Len(x) /\ Len(a) \in Nat /\ Len(x) \in Nat
  OBVIOUS
<1>2. /\ \A i \in 1 .. Len(a) : ax[i] = a[i]
      /\ \A i \in 1 .. Len(x) : ax[Len(a) + i] = x[i]
  OBVIOUS
<1>3. Append(ax, c) = a \o Append(x, c)
  OBVIOUS
<1> HIDE DEF ax
<1>4. CASE c # F!C
  BY <1>3, <1>4 DEF F!Put, ax
<1>5. CASE c = F!C
  <2>1. F!EndsOpen(ax) <=> F!EndsOpen(x)
    <3>1. CASE x = <<>>
      <4>1. Len(x) = 0 /\ Len(ax) = Len(a)
        BY <1>1, <3>1
      <4>2. ~F!EndsOpen(x)
        BY <4>1 DEF F!EndsOpen
      <4>3. ~F!EndsOpen(a)
        BY <1>5, <3>1 DEF Loose
      <4> QED
        BY <1>1, <1>2, <4>1, <4>2, <4>3 DEF F!EndsOpen
    <3>2. CASE Len(x) = 1
      <4>1. ~F!EndsOpen(x)
        BY <3>2 DEF F!EndsOpen
      <4>2. Len(ax) = Len(a) + 1 /\ ax[Len(a) + 1] = x[1]
        BY <1>1, <1>2, <3>2
      <4>3. CASE x[1] \in {F!O, F!R}
        BY <1>1, <4>1, <4>2, <4>3 DEF F!EndsOpen, F!O, F!R, F!T
      <4>4. CASE Loose(a)
        <5>1. CASE Len(a) = 0
          <6>1. Len(ax) = 1
            BY <4>2, <5>1
          <6> QED
            BY <4>1, <6>1 DEF F!EndsOpen
        <5>2. CASE Len(a) # 0
          <6>1. a # <<>> /\ a[Len(a)] # F!O /\ ax[Len(a)] = a[Len(a)]
            BY <1>1, <1>2, <4>4, <5>2 DEF Loose
          <6>2. Len(ax) - 1 = Len(a) /\ ax[Len(ax) - 1] # F!O
            BY <1>1, <4>2, <6>1
          <6> QED
            BY <4>1, <6>2 DEF F!EndsOpen
        <5> QED BY <5>1, <5>2
      <4> QED BY <3>2, <4>3, <4>4
    <3>3. CASE Len(x) > 1
      <4>1. /\ Len(ax) > 1
            /\ ax[Len(ax)] = x[Len(x)] /\ ax[Len(ax) - 1] = x[Len(x) - 1]
        <5>1. Len(x) \in 1 .. Len(x) /\ Len(x) - 1 \in 1 .. Len(x)
          BY <1>1, <3>3
        <5>2. Len(ax) = Len(a) + Len(x) /\ Len(ax) - 1 = Len(a) + (Len(x) - 1)
          BY <1>1
        <5>3. ax[Len(ax)] = x[Len(x)]
          BY <1>2, <5>1, <5>2
        <5>4. ax[Len(ax) - 1] = x[Len(x) - 1]
          BY <1>2, <5>1, <5>2
        <5> QED
          BY <1>1, <3>3, <5>3, <5>4
      <4> QED
        BY <3>3, <4>1 DEF F!EndsOpen
    <3>4. x = <<>> \/ Len(x) = 1 \/ Len(x) > 1
      <4> SUFFICES ASSUME x # <<>> PROVE Len(x) = 1 \/ Len(x) > 1
        OBVIOUS
      <4>1. \A l \in Nat \ {0} : l = 1 \/ l > 1
        OBVIOUS
      <4> QED
        BY <4>1, EmptySeq
    <3> QED
      BY <3>1, <3>2, <3>3, <3>4
  <2>2. CASE ~F!EndsOpen(x)
    BY <1>3, <2>1, <2>2 DEF F!Put, ax
  <2>3. CASE F!EndsOpen(x)
    <3> DEFINE k == Len(x) - 2
               y == SubSeq(x, 1, k)
    <3>1. k \in 0 .. Len(x) /\ Len(ax) - 2 = Len(a) + k
      BY <1>1, <2>3 DEF F!EndsOpen
    <3>2. y \in Seq(Shown) /\ Len(y) = k /\ \A i \in 1 .. k : y[i] = x[i]
      <4>1. k \in Nat /\ 1 \in Int /\ k \in Int /\ k - 1 + 1 = k
        BY <3>1
      <4>2. \A i \in 1 .. k : x[i] \in Shown /\ 1 + i - 1 = i
        BY <1>1, <3>1
      <4> HIDE DEF k
      <4>3. y \in Seq(Shown) /\ Len(y) = (IF 1 <= k THEN k - 1 + 1 ELSE 0)
            /\ \A i \in 1 .. k - 1 + 1 : y[i] = x[1 + i - 1]
        BY <4>1, <4>2, SubSeqProperties
      <4>4. Len(y) = k
        BY <4>1, <4>3
      <4> QED
        BY <4>1, <4>2, <4>3, <4>4
    <3> HIDE DEF k, y
    <3>3. SubSeq(ax, 1, Len(a) + k) = a \o y
      <4> DEFINE l == SubSeq(ax, 1, Len(a) + k)
      <4>1. l \in Seq(Shown) /\ Len(l) = Len(a) + k /\ \A i \in 1 .. Len(a) + k : l[i] = ax[i]
        BY <1>1, <3>1
      <4>2. /\ a \o y \in Seq(Shown) /\ Len(a \o y) = Len(a) + k
            /\ \A i \in 1 .. Len(a) + k : (a \o y)[i] = IF i <= Len(a) THEN a[i] ELSE y[i - Len(a)]
        BY <3>2, ConcatProperties
      <4>3. ASSUME NEW i \in 1 .. Len(a) + k PROVE l[i] = (a \o y)[i]
        <5>1. CASE i <= Len(a)
          BY <1>1, <1>2, <4>1, <4>2, <5>1
        <5>2. CASE ~(i <= Len(a))
          <6>1. i - Len(a) \in 1 .. k /\ i - Len(a) \in 1 .. Len(x) /\ i = Len(a) + (i - Len(a))
            BY <1>1, <3>1, <5>2
          <6>2. ax[i] = x[i - Len(a)]
            BY <1>2, <6>1
          <6> QED
            BY <3>2, <4>1, <4>2, <5>2, <6>1, <6>2
        <5> QED BY <5>1, <5>2
      <4> HIDE DEF l
      <4> QED
        BY <4>1, <4>2, <4>3, SeqEqual
    <3>4. Append(a \o y, F!R) = a \o Append(y, F!R)
      BY <3>2 DEF Shown
    <3> QED
      BY <1>5, <2>1, <2>3, <3>1, <3>3, <3>4 DEF F!Put, ax, y, k
  <2> QED BY <2>2, <2>3
<1> QED BY <1>4, <1>5

LEMMA Restores ==
  ASSUME NEW s \in Seq(Chars), NEW c \in Chars
  PROVE  /\ Append(s, c) \in Seq(Chars)
         /\ F!Restored(s) \in Seq(Shown)
         /\ F!Restored(Append(s, c)) = F!Put(F!Restored(s), c)
<1>1. s \in Seq(Shown) /\ c \in Shown
  BY DEF Shown
<1> QED
  BY <1>1, RestoredAppend, RestoredTyped

\* What an open bracket begins, begins with it or with a value.
LEMMA FirstStays ==
  ASSUME NEW s \in Seq(Chars), s # <<>>, s[1] = F!O
  PROVE  F!Restored(s) # <<>> /\ F!Restored(s)[1] \in {F!O, F!R}
<1> DEFINE Begun(r) == r # <<>> /\ r[1] = F!O => F!Restored(r)[1] \in {F!O, F!R}
           H == {r \in Seq(Chars) : Begun(r)}
<1>1. <<>> \in H
  BY EmptySeq
<1>2. ASSUME NEW r \in H, NEW c \in Chars PROVE Append(r, c) \in H
  <2>1. /\ Append(r, c) \in Seq(Chars) /\ F!Restored(r) \in Seq(Shown)
        /\ F!Restored(Append(r, c)) = F!Put(F!Restored(r), c)
    BY Restores
  <2>2. CASE r = <<>>
    <3>1. Append(r, c)[1] = c /\ F!Restored(r) = <<>>
      BY <2>2, RestoredEmpty
    <3>2. F!Put(<<>>, c) = <<c>>
      BY DEF F!Put, F!EndsOpen
    <3>3. F!Restored(Append(r, c)) = <<c>> /\ <<c>>[1] = c
      BY <2>1, <3>1, <3>2
    <3>4. c = F!O => F!Restored(Append(r, c))[1] \in {F!O, F!R}
      BY <3>3
    <3> QED
      BY <2>1, <3>1, <3>4
  <2>3. CASE r # <<>>
    <3> SUFFICES ASSUME Append(r, c)[1] = F!O PROVE F!Restored(Append(r, c))[1] \in {F!O, F!R}
      BY <2>1
    <3> DEFINE x == F!Restored(r)
    <3>1. Append(r, c)[1] = r[1]
      BY <2>3, EmptySeq, AppendProperties
    <3>2. x \in Seq(Shown) /\ x # <<>> /\ x[1] \in {F!O, F!R}
      BY <2>3, <3>1, RestoredTyped
    <3> HIDE DEF x
    <3>3. Len(x) \in Nat \ {0}
      BY <3>2, EmptySeq
    <3>4. c \in Shown /\ F!R \in Shown
      BY DEF Shown
    <3>5. CASE c = F!C /\ F!EndsOpen(x)
      <4> DEFINE y == SubSeq(x, 1, Len(x) - 2)
      <4>1. Len(x) - 2 \in Nat /\ Len(x) - 2 <= Len(x)
        BY <3>3, <3>5 DEF F!EndsOpen
      <4>2. y \in Seq(Shown) /\ Len(y) = Len(x) - 2
        BY <3>2, <4>1, Beginning
      <4>3. Len(x) - 2 > 0 => y[1] = x[1]
        <5>1. \A i \in 1 .. Len(x) - 2 : y[i] = x[i]
          BY <3>2, <4>1, Beginning
        <5> QED
          BY <4>1, <5>1
      <4> HIDE DEF y
      <4>4. Len(y) > 0 => Append(y, F!R)[1] = y[1]
        BY <3>4, <4>1, <4>2, AppendProperties
      <4>5. Len(y) = 0 => Append(y, F!R)[1] = F!R
        BY <3>4, <4>1, <4>2, AppendProperties
      <4>6. Append(y, F!R)[1] \in {F!O, F!R}
        BY <3>2, <4>1, <4>2, <4>3, <4>4, <4>5
      <4> QED
        BY <2>1, <3>5, <4>6 DEF F!Put, x, y
    <3>6. CASE ~(c = F!C /\ F!EndsOpen(x))
      <4>1. Append(x, c)[1] = x[1]
        BY <3>2, <3>3, <3>4, AppendProperties
      <4> QED
        BY <2>1, <3>2, <3>6, <4>1 DEF F!Put, x
    <3> QED BY <3>5, <3>6
  <2> QED BY <2>2, <2>3
<1> HIDE DEF H
<1>3. H = Seq(Chars)
  BY <1>1, <1>2, SequencesFrom DEF H, Grows
<1>4. Begun(s)
  BY <1>3 DEF H
<1> QED
  BY <1>4, RestoredTyped

LEMMA AppendFirst ==
  ASSUME NEW r \in Seq(Chars), NEW c \in Chars
  PROVE  /\ Append(r, c) # <<>> /\ (r = <<>> => Append(r, c)[1] = c)
         /\ r # <<>> => Append(r, c)[1] = r[1]
<1>1. r # <<>> => Len(r) \in Nat \ {0}
  BY EmptySeq
<1> QED
  BY <1>1, AppendProperties

LEMMA Regrouped == \A a, b, c \in Seq(Chars) : (a \o b) \o c = a \o (b \o c)
BY ConcatAssociative

\* A text may be restored in two parts if the cut is in no token.
LEMMA RestoredConcat ==
  ASSUME NEW a \in Seq(Chars), NEW b \in Seq(Chars),
         b = <<>> \/ b[1] = F!O \/ Loose(F!Restored(a))
  PROVE  F!Restored(a \o b) = F!Restored(a) \o F!Restored(b)
<1> DEFINE Beyond(r) == r = <<>> \/ r[1] = F!O \/ Loose(F!Restored(a))
           Same(r) == F!Restored(a \o r) = F!Restored(a) \o F!Restored(r)
           H == {r \in Seq(Chars) : Beyond(r) => Same(r)}
<1>1. F!Restored(a) \in Seq(Shown)
  BY RestoredTyped
<1>2. <<>> \in H
  <2>1. a \o <<>> = a /\ F!Restored(a) \o <<>> = F!Restored(a)
    BY <1>1, ConcatEmptySeq
  <2> QED
    BY <2>1, RestoredEmpty, EmptySeq
<1>3. ASSUME NEW r \in H, NEW c \in Chars PROVE Append(r, c) \in H
  <2> DEFINE x == F!Restored(r)
  <2>1. r \in Seq(Chars) /\ Append(r, c) \in Seq(Chars) /\ x \in Seq(Shown)
        /\ F!Restored(Append(r, c)) = F!Put(x, c)
    BY Restores
  <2> SUFFICES ASSUME Beyond(Append(r, c)) PROVE Same(Append(r, c))
    BY <2>1
  <2>2. a \o Append(r, c) = Append(a \o r, c) /\ a \o r \in Seq(Chars)
    BY <2>1
  <2>3. F!Restored(Append(a \o r, c)) = F!Put(F!Restored(a \o r), c)
    BY <2>2, Restores
  <2>4. r # <<>> => Append(r, c)[1] = r[1]
    BY <2>1, AppendFirst
  <2>5. Append(r, c) # <<>> /\ (r = <<>> => Append(r, c)[1] = c)
    BY <2>1, AppendFirst
  <2>6. Beyond(r)
    BY <2>4, <2>5
  <2>7. Same(r)
    BY <2>6
  <2>8. x = <<>> /\ c = F!C => Loose(F!Restored(a))
    <3>1. x = <<>> => r = <<>>
      BY <2>1, RestoredTyped
    <3> QED
      BY <2>5, <3>1 DEF F!C, F!O
  <2>9. Len(x) = 1 => Loose(F!Restored(a)) \/ x[1] \in {F!O, F!R}
    <3> SUFFICES ASSUME Len(x) = 1, ~Loose(F!Restored(a)) PROVE x[1] \in {F!O, F!R}
      OBVIOUS
    <3>1. r # <<>>
      <4>1. r = <<>> => x = <<>>
        BY RestoredEmpty
      <4>2. x # <<>>
        <5> HIDE DEF x
        <5>1. x = <<>> => Len(x) = 0
          OBVIOUS
        <5> QED
          BY <5>1
      <4> QED
        BY <4>1, <4>2
    <3>2. r[1] = F!O
      BY <2>6, <3>1
    <3> QED
      BY <2>1, <3>1, <3>2, FirstStays
  <2> HIDE DEF x
  <2>10. F!Put(F!Restored(a) \o x, c) = F!Restored(a) \o F!Put(x, c)
    BY <1>1, <2>1, <2>8, <2>9, PutApart
  <2> QED
    BY <2>1, <2>2, <2>3, <2>7, <2>10 DEF x
<1> HIDE DEF H
<1>4. H = Seq(Chars)
  BY <1>2, <1>3, SequencesFrom DEF H, Grows
<1> QED
  BY <1>4 DEF H

EndsIn(s, c) == s # <<>> /\ s[Len(s)] = c

\* How a restored text ends.
LEMMA LastRestored ==
  ASSUME NEW s \in Seq(Chars), NEW d \in Chars, EndsIn(F!Restored(s), d)
  PROVE  \E q \in Seq(Chars) : s = Append(q, d) /\ F!Restored(s) = Append(F!Restored(q), d)
<1>1. s # <<>>
  BY RestoredEmpty DEF EndsIn
<1>2. Len(s) - 1 \in Nat /\ Len(s) = (Len(s) - 1) + 1
  BY <1>1, EmptySeq
<1> DEFINE q == SubSeq(s, 1, Len(s) - 1)
           c == s[(Len(s) - 1) + 1]
<1>3. q \in Seq(Chars) /\ c \in Chars /\ s = Append(q, c)
  BY <1>2, LastApart
<1> HIDE DEF q, c
<1> DEFINE x == F!Restored(q)
<1>4. x \in Seq(Shown) /\ F!Restored(s) = F!Put(x, c)
  BY <1>3, Restores
<1> HIDE DEF x
<1>5. c \in Shown /\ F!R \in Shown /\ d # F!R
  BY <1>3 DEF Shown, Chars, F!R, F!O, F!C, F!T
<1>6. ~(c = F!C /\ F!EndsOpen(x))
  <2> SUFFICES ASSUME c = F!C, F!EndsOpen(x) PROVE FALSE
    OBVIOUS
  <2> DEFINE y == SubSeq(x, 1, Len(x) - 2)
  <2>1. Len(x) - 2 \in Nat /\ Len(x) - 2 <= Len(x)
    BY <1>4 DEF F!EndsOpen
  <2>2. y \in Seq(Shown)
    BY <1>4, <2>1
  <2> HIDE DEF y
  <2>3. Len(Append(y, F!R)) = Len(y) + 1 /\ Append(y, F!R)[Len(y) + 1] = F!R
    BY <1>5, <2>2, AppendProperties
  <2>4. F!Restored(s) = Append(y, F!R)
    BY <1>4 DEF F!Put, y
  <2> QED
    BY <1>5, <2>3, <2>4 DEF EndsIn
<1>7. F!Restored(s) = Append(x, c)
  BY <1>4, <1>6 DEF F!Put
<1>8. c = d
  <2>1. Len(Append(x, c)) = Len(x) + 1 /\ Append(x, c)[Len(x) + 1] = c
    BY <1>4, <1>5, AppendProperties
  <2> QED
    BY <1>7, <2>1 DEF EndsIn
<1> QED
  BY <1>3, <1>7, <1>8 DEF x

\* Restoring leaves no open end where there was none.
LEMMA LooseRestored ==
  ASSUME NEW s \in Seq(Chars), Loose(s)
  PROVE  Loose(F!Restored(s))
<1> DEFINE x == F!Restored(s)
<1>1. x \in Seq(Shown) /\ F!O \in Chars /\ F!T \in Chars
  BY RestoredTyped DEF Chars
<1>2. ASSUME NEW q \in Seq(Chars), NEW c \in Chars
      PROVE  /\ Append(q, c) # <<>> /\ Len(Append(q, c)) = Len(q) + 1 /\ Append(q, c)[Len(q) + 1] = c
             /\ q # <<>> => Len(q) \in Nat \ {0} /\ Append(q, c)[Len(q)] = q[Len(q)]
  BY AppendProperties, EmptySeq
<1>3. ~EndsIn(s, F!O)
  BY DEF Loose, EndsIn
<1>4. ~EndsIn(x, F!O)
  <2> SUFFICES ASSUME EndsIn(x, F!O) PROVE FALSE
    OBVIOUS
  <2>1. PICK q \in Seq(Chars) : s = Append(q, F!O)
    BY <1>1, LastRestored
  <2>2. EndsIn(s, F!O)
    BY <1>1, <1>2, <2>1 DEF EndsIn
  <2> QED
    BY <1>3, <2>2
<1>5. ~F!EndsOpen(x)
  <2> SUFFICES ASSUME F!EndsOpen(x) PROVE FALSE
    OBVIOUS
  <2>1. EndsIn(x, F!T)
    BY <1>1 DEF EndsIn, F!EndsOpen
  <2>2. PICK q \in Seq(Chars) : s = Append(q, F!T) /\ x = Append(F!Restored(q), F!T)
    BY <1>1, <2>1, LastRestored
  <2> DEFINE z == F!Restored(q)
  <2>3. z \in Seq(Shown) /\ F!T \in Shown
    BY RestoredTyped DEF Shown, Chars
  <2> HIDE DEF z
  <2>4. Len(x) = Len(z) + 1 /\ (\A i \in 1 .. Len(z) : x[i] = z[i]) /\ Len(z) \in Nat
    BY <2>2, <2>3, AppendProperties DEF z
  <2>5. Len(z) \in 1 .. Len(z) /\ z[Len(z)] = F!O
    BY <2>4 DEF F!EndsOpen
  <2>6. EndsIn(z, F!O)
    BY <2>5, EmptySeq DEF EndsIn
  <2>7. PICK r \in Seq(Chars) : q = Append(r, F!O)
    BY <1>1, <2>6, LastRestored DEF z
  <2>8. q # <<>> /\ q[Len(q)] = F!O
    BY <1>1, <1>2, <2>7
  <2>9. F!EndsOpen(s)
    BY <1>1, <1>2, <2>2, <2>8 DEF F!EndsOpen
  <2> QED
    BY <2>9 DEF Loose
<1> QED
  BY <1>4, <1>5 DEF Loose, EndsIn

OneIf(e, c) == IF e = c THEN 1 ELSE 0

LEMMA CountAppend ==
  ASSUME NEW s \in Seq(Shown), NEW e \in Shown, NEW c
  PROVE  F!Count(s, c) \in Nat /\ F!Count(Append(s, e), c) = F!Count(s, c) + OneIf(e, c)
<1> DEFINE H(r) == {i \in DOMAIN r : r[i] = c}
           n == Len(s)
           t == Append(s, e)
<1>1. /\ n \in Nat /\ DOMAIN s = 1 .. n /\ DOMAIN t = 1 .. n + 1
      /\ t[n + 1] = e /\ \A i \in 1 .. n : t[i] = s[i]
  BY AppendProperties, LenProperties
<1>2. IsFiniteSet(H(s)) /\ Cardinality(H(s)) \in Nat
  <2>1. H(s) \subseteq 1 .. n
    BY <1>1
  <2>2. IsFiniteSet(1 .. n)
    BY <1>1, FS_Interval
  <2> HIDE DEF H, n
  <2> QED
    BY <2>1, <2>2, FS_Subset, FS_CardinalityType
<1> HIDE DEF n, t
<1>3. H(t) = H(s) \cup (IF e = c THEN {n + 1} ELSE {})
  <2>1. \A i \in 1 .. n + 1 : i \in 1 .. n \/ i = n + 1
    BY <1>1
  <2>2. \A i \in 1 .. n : i \in 1 .. n + 1 /\ i # n + 1
    BY <1>1
  <2>3. n + 1 \in 1 .. n + 1
    BY <1>1
  <2> QED
    BY <1>1, <2>1, <2>2, <2>3
<1>4. n + 1 \notin H(s)
  BY <1>1
<1>5. Cardinality(H(t)) = Cardinality(H(s)) + OneIf(e, c)
  <2> HIDE DEF H
  <2>1. CASE e = c
    <3>1. H(t) = H(s) \cup {n + 1}
      BY <1>3, <2>1
    <3>2. Cardinality(H(t)) = Cardinality(H(s)) + 1
      BY <1>2, <1>4, <3>1, FS_AddElement
    <3> QED
      BY <2>1, <3>2 DEF OneIf
  <2>2. CASE e # c
    BY <1>2, <1>3, <2>2 DEF OneIf
  <2> QED BY <2>1, <2>2
<1>6. F!Count(s, c) = Cardinality(H(s)) /\ F!Count(t, c) = Cardinality(H(t))
  BY DEF F!Count, F!Cardinality, Cardinality
<1> HIDE DEF H
<1> QED
  BY <1>2, <1>5, <1>6 DEF t

LEMMA CountEmpty == \A c : F!Count(<<>>, c) = 0
<1> SUFFICES ASSUME NEW c PROVE F!Count(<<>>, c) = 0
  OBVIOUS
<1> DEFINE H == {i \in DOMAIN <<>> : <<>>[i] = c}
<1>1. H = {}
  OBVIOUS
<1>2. Cardinality(H) = 0
  BY <1>1, FS_EmptySet
<1> QED
  BY <1>2 DEF F!Count, F!Cardinality, Cardinality

LEMMA CountConcat ==
  ASSUME NEW a \in Seq(Shown), NEW b \in Seq(Shown), NEW c
  PROVE  F!Count(a \o b, c) = F!Count(a, c) + F!Count(b, c) /\ F!Count(a, c) \in Nat
<1> DEFINE H == {r \in Seq(Shown) : F!Count(a \o r, c) = F!Count(a, c) + F!Count(r, c)}
<1>1. F!R \in Shown
  BY DEF Shown
<1>2. \A r \in Seq(Shown) : F!Count(r, c) \in Nat
  BY <1>1, CountAppend
<1>3. <<>> \in H
  <2>1. a \o <<>> = a /\ <<>> \in Seq(Shown)
    BY ConcatEmptySeq, EmptySeq
  <2> QED
    BY <1>2, <2>1, CountEmpty
<1>4. ASSUME NEW r \in H, NEW e \in Shown PROVE Append(r, e) \in H
  <2>1. /\ a \o r \in Seq(Shown) /\ r \in Seq(Shown) /\ Append(r, e) \in Seq(Shown)
        /\ a \o Append(r, e) = Append(a \o r, e)
    OBVIOUS
  <2>2. F!Count(Append(a \o r, e), c) = F!Count(a \o r, c) + OneIf(e, c)
    BY <2>1, CountAppend
  <2>3. F!Count(Append(r, e), c) = F!Count(r, c) + OneIf(e, c)
    BY <2>1, CountAppend
  <2>4. F!Count(a \o r, c) = F!Count(a, c) + F!Count(r, c)
    OBVIOUS
  <2>5. F!Count(a, c) \in Nat /\ F!Count(r, c) \in Nat /\ OneIf(e, c) \in Nat
    BY <1>2, <2>1 DEF OneIf
  <2>6. F!Count(a \o Append(r, e), c) = F!Count(a, c) + F!Count(Append(r, e), c)
    BY <2>1, <2>2, <2>3, <2>4, <2>5
  <2> QED
    BY <2>1, <2>6
<1> HIDE DEF H
<1>5. H = Seq(Shown)
  BY <1>3, <1>4, SequencesFrom DEF H, Grows
<1> QED
  BY <1>2, <1>5 DEF H

\* Three characters become one, which counts for each of them.
LEMMA CountPut ==
  ASSUME NEW x \in Seq(Shown), NEW e \in Chars, NEW c \in Chars
  PROVE  F!Count(F!Put(x, e), c) + F!Count(F!Put(x, e), F!R)
           = F!Count(x, c) + F!Count(x, F!R) + OneIf(e, c)
<1>1. e \in Shown /\ F!R \in Shown /\ F!O \in Shown /\ F!T \in Shown /\ e # F!R /\ c # F!R
  BY DEF Shown, Chars, F!R, F!O, F!C, F!T
<1>2. \A r \in Seq(Shown) : \A d : F!Count(r, d) \in Nat
  BY <1>1, CountAppend
<1>3. CASE e = F!C /\ F!EndsOpen(x)
  <2> DEFINE n == Len(x)
             z == SubSeq(x, 1, n - 1)
             y == SubSeq(z, 1, n - 2)
  <2>1. n - 1 \in Nat /\ n - 2 \in Nat /\ n = (n - 1) + 1 /\ n - 1 = (n - 2) + 1
    BY <1>3 DEF F!EndsOpen
  <2>2. z \in Seq(Shown) /\ Len(z) = n - 1 /\ x = Append(z, x[(n - 1) + 1])
    BY <2>1, LastApart
  <2>3. y \in Seq(Shown) /\ Len(y) = n - 2 /\ z = Append(y, z[(n - 2) + 1])
    <3>1. Len(z) = (n - 2) + 1
      BY <2>1, <2>2
    <3> HIDE DEF z, n
    <3> QED
      BY <2>1, <2>2, <3>1, LastApart
  <2>4. z[(n - 2) + 1] = F!O /\ x[(n - 1) + 1] = F!T
    <3>1. z[n - 1] = x[n - 1]
      BY <2>1
    <3> QED
      BY <1>3, <2>1, <3>1 DEF F!EndsOpen
  <2>5. y = SubSeq(x, 1, n - 2)
    BY <2>1
  <2> HIDE DEF y, z
  <2>6. x = Append(z, F!T) /\ z = Append(y, F!O)
    BY <2>2, <2>3, <2>4
  <2>7. F!Put(x, e) = Append(y, F!R)
    BY <1>3, <2>5 DEF F!Put
  <2>8. \A d : F!Count(x, d) = F!Count(y, d) + OneIf(F!O, d) + OneIf(F!T, d)
    <3>1. \A d : F!Count(x, d) = F!Count(z, d) + OneIf(F!T, d)
      BY <1>1, <2>2, <2>6, CountAppend
    <3>2. \A d : F!Count(z, d) = F!Count(y, d) + OneIf(F!O, d)
      BY <1>1, <2>3, <2>6, CountAppend
    <3> QED
      BY <3>1, <3>2
  <2>9. \A d : F!Count(Append(y, F!R), d) = F!Count(y, d) + OneIf(F!R, d)
    BY <1>1, <2>3, CountAppend
  <2>10. /\ OneIf(F!O, c) + OneIf(F!T, c) + OneIf(e, c) = 1 /\ OneIf(F!R, c) = 0
         /\ OneIf(F!O, F!R) = 0 /\ OneIf(F!T, F!R) = 0 /\ OneIf(F!R, F!R) = 1
         /\ OneIf(F!O, c) \in Nat /\ OneIf(F!T, c) \in Nat /\ OneIf(e, c) \in Nat
    BY <1>3 DEF OneIf, Chars, F!O, F!C, F!T, F!R
  <2> QED
    BY <1>2, <2>3, <2>7, <2>8, <2>9, <2>10
<1>4. CASE ~(e = F!C /\ F!EndsOpen(x))
  <2>1. F!Put(x, e) = Append(x, e)
    BY <1>4 DEF F!Put
  <2>2. F!Count(Append(x, e), c) = F!Count(x, c) + OneIf(e, c)
    BY <1>1, CountAppend
  <2>3. F!Count(Append(x, e), F!R) = F!Count(x, F!R) + OneIf(e, F!R)
    BY <1>1, CountAppend
  <2>4. OneIf(e, F!R) = 0 /\ OneIf(e, c) \in Nat
    BY <1>1 DEF OneIf
  <2> QED
    BY <1>2, <2>1, <2>2, <2>3, <2>4
<1> QED BY <1>3, <1>4

LEMMA CountRestored ==
  ASSUME NEW s \in Seq(Chars), NEW c \in Chars
  PROVE  F!Count(F!Restored(s), c) + F!Count(F!Restored(s), F!R) = F!Count(s, c)
<1> DEFINE Held(r) == F!Count(F!Restored(r), c) + F!Count(F!Restored(r), F!R) = F!Count(r, c)
           H == {r \in Seq(Chars) : Held(r)}
<1>1. <<>> \in H
  BY RestoredEmpty, CountEmpty, EmptySeq
<1>2. ASSUME NEW r \in H, NEW e \in Chars PROVE Append(r, e) \in H
  <2>1. /\ Append(r, e) \in Seq(Chars) /\ F!Restored(r) \in Seq(Shown)
        /\ F!Restored(Append(r, e)) = F!Put(F!Restored(r), e)
    BY Restores
  <2>2. r \in Seq(Shown) /\ e \in Shown
    BY DEF Shown
  <2>3. F!Count(Append(r, e), c) = F!Count(r, c) + OneIf(e, c)
    BY <2>2, CountAppend
  <2>4. F!Count(F!Put(F!Restored(r), e), c) + F!Count(F!Put(F!Restored(r), e), F!R)
          = F!Count(F!Restored(r), c) + F!Count(F!Restored(r), F!R) + OneIf(e, c)
    BY <2>1, CountPut
  <2>5. Held(r)
    OBVIOUS
  <2> QED
    BY <2>1, <2>3, <2>4, <2>5
<1> HIDE DEF H
<1>3. H = Seq(Chars)
  BY <1>1, <1>2, SequencesFrom DEF H, Grows
<1> QED
  BY <1>3 DEF H

\* A text holds no character more often than it is long.
LEMMA CountBounded ==
  ASSUME NEW s \in Seq(Shown), NEW c
  PROVE  F!Count(s, c) <= Len(s)
<1> DEFINE H == {r \in Seq(Shown) : F!Count(r, c) <= Len(r)}
<1>1. <<>> \in H
  <2>1. <<>> \in Seq(Shown) /\ Len(<<>>) = 0 /\ F!Count(<<>>, c) = 0
    BY EmptySeq, CountEmpty
  <2> QED
    BY <2>1
<1>2. ASSUME NEW r \in H, NEW e \in Shown PROVE Append(r, e) \in H
  <2>1. /\ r \in Seq(Shown) /\ Append(r, e) \in Seq(Shown)
        /\ Len(Append(r, e)) = Len(r) + 1 /\ Len(r) \in Nat /\ F!Count(r, c) <= Len(r)
    OBVIOUS
  <2>2. F!Count(r, c) \in Nat /\ F!Count(Append(r, e), c) = F!Count(r, c) + OneIf(e, c)
    BY <2>1, CountAppend
  <2>3. OneIf(e, c) \in {0, 1}
    BY DEF OneIf
  <2>4. F!Count(Append(r, e), c) <= Len(Append(r, e))
    BY <2>1, <2>2, <2>3
  <2> QED
    BY <2>1, <2>4
<1> HIDE DEF H
<1>3. H = Seq(Shown)
  BY <1>1, <1>2, SequencesFrom DEF H, Grows
<1> QED
  BY <1>3 DEF H

LEMMA NoneReal == ASSUME NEW s \in Seq(Chars) PROVE F!Count(s, F!R) = 0
<1> DEFINE H == {i \in DOMAIN s : s[i] = F!R}
<1>1. \A i \in DOMAIN s : s[i] # F!R
  BY DEF Chars, F!R, F!O, F!C, F!T
<1>2. H = {}
  BY <1>1
<1>3. Cardinality(H) = 0
  BY <1>2, FS_EmptySet
<1> QED
  BY <1>3 DEF F!Count, F!Cardinality, Cardinality

-----------------------------------------------------------------------------
(* What is held back.                                                      *)

LEMMA LastOpenFound ==
  ASSUME NEW s \in Seq(Chars)
  PROVE  LET i == F!LastOpen(s) IN
         /\ i \in 0 .. Len(s) /\ (i > 0 => s[i] = F!O)
         /\ \A j \in 1 .. Len(s) : s[j] = F!O => j <= i
<1> DEFINE Opens == {0} \cup {i \in DOMAIN s : s[i] = F!O}
           n == Len(s)
<1>1. n \in Nat /\ DOMAIN s = 1 .. n
  BY LenProperties
<1>2. Opens \in SUBSET (0 .. n) /\ Opens # {}
  BY <1>1
<1>3. F!LastOpen(s) = CHOOSE x \in Opens : \A y \in Opens : x >= y
  BY DEF F!LastOpen, F!Max
<1>4. F!LastOpen(s) \in Opens /\ \A y \in Opens : F!LastOpen(s) >= y
  <2> HIDE DEF Opens, n
  <2>1. \E x \in Opens : \A y \in Opens : x >= y
    BY <1>1, <1>2, GreatestNumber
  <2> QED
    BY <1>3, <2>1
<1>5. \A j \in 1 .. n : s[j] = F!O => j \in Opens
  BY <1>1
<1>6. F!LastOpen(s) > 0 => s[F!LastOpen(s)] = F!O
  BY <1>4
<1>7. F!LastOpen(s) \in 0 .. n
  BY <1>2, <1>4
<1>8. ASSUME NEW j \in 1 .. n, s[j] = F!O PROVE j <= F!LastOpen(s)
  <2>1. F!LastOpen(s) >= j
    BY <1>4, <1>5, <1>8
  <2> QED
    BY <1>7, <2>1
<1> QED
  BY <1>6, <1>7, <1>8 DEF n

Emitted(s) == SubSeq(s, 1, Len(s) - Len(F!Held(s)))

\* The tail that is held back begins with its bracket, and if there is none the text is over;
\* it is no longer than the bound.
LEMMA HeldApart ==
  ASSUME NEW s \in Seq(Chars), s # <<>>
  PROVE  /\ F!Held(s) \in Seq(Chars) /\ Emitted(s) \in Seq(Chars)
         /\ s = Emitted(s) \o F!Held(s)
         /\ F!Held(s) # <<>> => F!Held(s)[1] = F!O
         /\ F!Held(s) = <<>> => Emitted(s) = s /\ Loose(s)
         /\ Emitted(s) # <<>> => Emitted(s)[1] = s[1]
         /\ Len(F!Held(s)) <= MaxHold
<1> DEFINE i == F!LastOpen(s)
           n == Len(s)
           passes == i = 0 \/ n - i + 1 > MaxHold \/ \E j \in i .. n : s[j] = F!C
<1>1. n \in Nat \ {0} /\ i \in 0 .. n /\ (i > 0 => s[i] = F!O) /\ \A j \in 1 .. n : s[j] = F!O => j <= i
  BY LastOpenFound, EmptySeq
<1>2. F!Held(s) = IF passes THEN <<>> ELSE SubSeq(s, i, n)
  BY DEF F!Held
<1>3. \A j \in 1 .. n : s[j] \in Chars
  OBVIOUS
<1> HIDE DEF i
<1>4. CASE passes
  <2>1. F!Held(s) = <<>> /\ Len(F!Held(s)) = 0
    BY <1>2, <1>4
  <2>2. Emitted(s) = s
    BY <1>1, <2>1, SubSeqFull DEF Emitted
  <2>3. s[n] # F!O
    <3> SUFFICES ASSUME s[n] = F!O PROVE FALSE
      OBVIOUS
    <3>1. i = n
      BY <1>1
    <3>2. n - i + 1 = 1
      BY <1>1, <3>1
    <3>3. \A j \in i .. n : j = n
      BY <1>1, <3>1
    <3> QED
      BY <1>1, <1>4, <3>1, <3>2, <3>3, StreamAssumption DEF F!O, F!C
  <2>4. ~F!EndsOpen(s)
    <3> SUFFICES ASSUME F!EndsOpen(s) PROVE FALSE
      OBVIOUS
    <3>1. n > 1 /\ s[n - 1] = F!O /\ s[n] = F!T
      BY DEF F!EndsOpen
    <3>2. n - 1 \in 1 .. n
      BY <1>1, <3>1
    <3>3. i = n - 1
      <4>1. i # n
        BY <1>1, <3>1 DEF F!O, F!T
      <4>2. n - 1 <= i
        BY <1>1, <3>1, <3>2
      <4> QED
        BY <1>1, <4>1, <4>2
    <3>4. n - i + 1 = 2
      BY <1>1, <3>3
    <3>5. \A j \in i .. n : j = n - 1 \/ j = n
      BY <1>1, <3>3
    <3> QED
      BY <1>1, <1>4, <3>1, <3>3, <3>4, <3>5, StreamAssumption DEF F!O, F!C, F!T
  <2>5. s = s \o <<>> /\ <<>> \in Seq(Chars)
    BY ConcatEmptySeq, EmptySeq
  <2>6. Len(F!Held(s)) <= MaxHold
    BY <2>1, StreamAssumption
  <2> QED
    BY <2>1, <2>2, <2>3, <2>4, <2>5, <2>6 DEF Loose
<1>5. CASE ~passes
  <2> DEFINE h == SubSeq(s, i, n)
             e == SubSeq(s, 1, i - 1)
  <2>1. i \in 1 .. n /\ i - 1 \in Nat /\ i - 1 <= n
    BY <1>1, <1>5
  <2>2. h \in Seq(Chars) /\ Len(h) = n - i + 1
    BY <1>1, <2>1
  <2>3. \A j \in 1 .. n - i + 1 : h[j] = s[i + j - 1]
    BY <1>1, <2>1
  <2>4. h # <<>> /\ h[1] = F!O
    <3>1. 1 \in 1 .. n - i + 1 /\ i + 1 - 1 = i
      BY <1>1, <2>1
    <3>2. h[1] = s[i] /\ i > 0
      BY <2>1, <2>3, <3>1
    <3> HIDE DEF h
    <3>3. Len(h) # 0
      BY <2>2, <3>1
    <3> QED
      BY <1>1, <3>2, <3>3
  <2>5. e \in Seq(Chars) /\ Len(e) = i - 1 /\ \A j \in 1 .. i - 1 : e[j] = s[j]
    BY <2>1, Beginning
  <2>6. F!Held(s) = h
    BY <1>2, <1>5
  <2>7. Emitted(s) = e
    <3>1. Len(s) - Len(F!Held(s)) = i - 1
      BY <1>1, <2>1, <2>2, <2>6
    <3> QED
      BY <3>1 DEF Emitted
  <2> HIDE DEF h, e
  <2>8. s = e \o h
    <3>1. /\ e \o h \in Seq(Chars) /\ Len(e \o h) = Len(e) + Len(h)
          /\ \A j \in 1 .. Len(e) + Len(h) : (e \o h)[j] = IF j <= Len(e) THEN e[j] ELSE h[j - Len(e)]
      BY <2>2, <2>5, ConcatProperties
    <3>2. Len(e) + Len(h) = n
      BY <1>1, <2>1, <2>2, <2>5
    <3>3. ASSUME NEW j \in 1 .. n PROVE (e \o h)[j] = s[j]
      <4>1. CASE j <= i - 1
        BY <1>1, <2>1, <2>5, <3>1, <3>2, <4>1
      <4>2. CASE ~(j <= i - 1)
        <5>1. j - (i - 1) \in 1 .. n - i + 1 /\ i + (j - (i - 1)) - 1 = j
          BY <1>1, <2>1, <4>2
        <5>2. (e \o h)[j] = h[j - (i - 1)]
          BY <2>5, <3>1, <3>2, <4>2
        <5> QED
          BY <2>3, <5>1, <5>2
      <4> QED BY <4>1, <4>2
    <3> QED
      BY <3>1, <3>2, <3>3, SeqEqual
  <2>9. e # <<>> => e[1] = s[1]
    <3>1. e # <<>> => i - 1 \in Nat \ {0}
      BY <2>5, EmptySeq
    <3> QED
      BY <2>5, <3>1
  <2>10. Len(h) <= MaxHold
    BY <1>1, <1>5, <2>2, StreamAssumption
  <2> QED
    BY <2>2, <2>4, <2>5, <2>6, <2>7, <2>8, <2>9, <2>10
<1> QED BY <1>4, <1>5

LEMMA LooseConcat ==
  ASSUME NEW a \in Seq(Chars), NEW b \in Seq(Chars), b # <<>>, Loose(b),
         Len(b) = 1 => Loose(a)
  PROVE  Loose(a \o b)
<1> DEFINE ab == a \o b
<1>1. /\ ab \in Seq(Chars) /\ Len(ab) = Len(a) + Len(b)
      /\ Len(a) \in Nat /\ Len(b) \in Nat \ {0}
  BY ConcatProperties, LenProperties, EmptySeq
<1>2. /\ \A i \in 1 .. Len(a) : ab[i] = a[i]
      /\ \A i \in 1 .. Len(b) : ab[Len(a) + i] = b[i]
  OBVIOUS
<1> HIDE DEF ab
<1>3. ab[Len(ab)] = b[Len(b)] /\ b[Len(b)] # F!O
  <2>1. Len(b) \in 1 .. Len(b)
    BY <1>1
  <2> QED
    BY <1>1, <1>2, <2>1 DEF Loose
<1>4. ~F!EndsOpen(ab)
  <2>1. CASE Len(b) = 1
    <3> SUFFICES ASSUME F!EndsOpen(ab) PROVE FALSE
      OBVIOUS
    <3>1. Len(ab) = Len(a) + 1 /\ Len(a) \in 1 .. Len(a) /\ Len(ab) - 1 = Len(a)
      BY <1>1, <2>1 DEF F!EndsOpen
    <3>2. a[Len(a)] = F!O
      BY <1>2, <3>1 DEF F!EndsOpen
    <3>3. a # <<>>
      BY <3>1, EmptySeq
    <3> QED
      BY <2>1, <3>2, <3>3 DEF Loose
  <2>2. CASE Len(b) # 1
    <3> DEFINE k == Len(b)
               l == Len(a)
    <3>0. k \in Nat \ {0} /\ l \in Nat /\ k # 1 /\ Len(ab) = l + k
      BY <1>1, <2>2
    <3>1. k > 1 /\ k - 1 \in 1 .. k /\ Len(ab) - 1 = l + (k - 1)
      <4> HIDE DEF k, l
      <4> QED
        BY <3>0
    <3>2. ab[Len(ab) - 1] = b[Len(b) - 1]
      BY <1>2, <3>1
    <3> QED
      BY <1>3, <3>1, <3>2 DEF Loose, F!EndsOpen
  <2> QED BY <2>1, <2>2
<1> QED
  BY <1>3, <1>4 DEF Loose, ab

-----------------------------------------------------------------------------
(* The filter.                                                             *)

StreamTyped ==
  /\ reply \in Seq(Chars) /\ Len(reply) = StreamLength /\ arrived \in 0 .. StreamLength
  /\ buf \in Seq(Chars) /\ shown \in Seq(Shown)
  /\ mode \in BOOLEAN /\ steady \in BOOLEAN /\ ended \in BOOLEAN /\ failed \in Nat

Arrived == SubSeq(reply, 1, arrived)

\* What is held back begins with a bracket and is short, and nothing is held back at the end.
BufInv ==
  /\ Len(buf) <= MaxHold
  /\ buf # <<>> => buf[1] = F!O
  /\ ended => buf = <<>> /\ arrived = StreamLength

\* What was sent is restored, and it stops at no place where a token is cut.
SentOf(sent) ==
  /\ Arrived = sent \o buf
  /\ shown = F!Restored(sent)
  /\ buf = <<>> /\ ~ended => Loose(sent)

SteadyInv == steady => mode /\ \E sent \in Seq(Chars) : SentOf(sent)

\* What a character of the reply has come to: sent, alone or in a value, or held back.
Told(c) == F!Count(shown, c) + F!Count(shown, F!R) + F!Count(buf, c)
Came(c) == F!Count(Arrived, c)

\* Two numbers differ by no more than k.
Near(x, y, k) == y - k <= x /\ x <= y + k

\* What the restores that raised can have lost or repeated.
Slack == failed * MaxHold

\* Every character that arrived was sent or is held back, but for that.
CharsKept == \A c \in Chars : Near(Told(c), Came(c), Slack)

StreamInv == StreamTyped /\ BufInv /\ SteadyInv /\ CharsKept

\* What is sent and held grows with what arrives.
LEMMA NearMoves ==
  ASSUME NEW x \in Int, NEW y \in Int, NEW u \in Int, NEW v \in Int, NEW k \in Int,
         Near(x, y, k), u - x = v - y
  PROVE  Near(u, v, k)
BY DEF Near

\* A restore that raises adds a tail to the difference.
LEMMA NearWidens ==
  ASSUME NEW x \in Int, NEW y \in Int, NEW u \in Int, NEW v \in Int, NEW k \in Int, NEW d \in Int,
         Near(x, y, k), -MaxHold <= d, d <= MaxHold, u - x = (v - y) + d
  PROVE  Near(u, v, k + MaxHold)
BY StreamAssumption DEF Near

LEMMA EmptyFacts ==
  /\ <<>> \in Seq(Chars) /\ <<>> \in Seq(Shown) /\ Loose(<<>>)
  /\ <<>> \o <<>> = <<>> /\ F!Restored(<<>>) = <<>> /\ \A s : SubSeq(s, 1, 0) = <<>>
<1>1. <<>> \in Seq(Chars) /\ <<>> \in Seq(Shown)
  BY EmptySeq
<1>2. Loose(<<>>)
  BY DEF Loose, F!EndsOpen
<1>3. \A s : SubSeq(s, 1, 0) = <<>>
  BY SubSeqEmpty
<1>4. <<>> \o <<>> = <<>>
  BY <1>1, ConcatEmptySeq
<1> QED
  BY <1>1, <1>2, <1>3, <1>4, RestoredEmpty

LEMMA Counted ==
  ASSUME NEW s \in Seq(Shown), NEW c
  PROVE  F!Count(s, c) \in Nat
<1>1. F!R \in Shown
  BY DEF Shown
<1> QED
  BY <1>1, CountAppend

LEMMA CharsAreShown == ASSUME NEW s \in Seq(Chars) PROVE s \in Seq(Shown)
BY DEF Shown

LEMMA ToldType ==
  ASSUME StreamTyped, NEW c \in Chars
  PROVE  Told(c) \in Int /\ Came(c) \in Int /\ Slack \in Int
<1>1. shown \in Seq(Shown) /\ buf \in Seq(Shown) /\ Arrived \in Seq(Shown)
  <2>1. Arrived \in Seq(Chars)
    BY StreamAssumption, Beginning DEF StreamTyped, Arrived
  <2> QED
    BY <2>1, CharsAreShown DEF StreamTyped
<1>2. Slack \in Int
  BY StreamAssumption DEF StreamTyped, Slack
<1> QED
  BY <1>1, <1>2, Counted DEF Told, Came

LEMMA ToldTypeNext ==
  ASSUME StreamTyped', NEW c \in Chars
  PROVE  Told(c)' \in Int /\ Came(c)' \in Int
<1>1. shown' \in Seq(Shown) /\ buf' \in Seq(Shown) /\ Arrived' \in Seq(Shown)
  <2>1. Arrived' \in Seq(Chars)
    BY StreamAssumption, Beginning DEF StreamTyped, Arrived
  <2> QED
    BY <2>1, CharsAreShown DEF StreamTyped
<1> QED
  BY <1>1, Counted DEF Told, Came

LEMMA SlackGrows ==
  ASSUME StreamTyped, failed' = failed + 1
  PROVE  Slack' = Slack + MaxHold
<1>1. failed \in Nat /\ MaxHold \in Nat
  BY StreamAssumption DEF StreamTyped
<1>2. (failed + 1) * MaxHold = failed * MaxHold + MaxHold
  BY <1>1
<1> QED
  BY <1>2 DEF Slack

\* A step that raises nothing, and one that does.
LEMMA ToldMoves ==
  ASSUME StreamTyped, StreamTyped', CharsKept, Slack' = Slack, NEW c \in Chars,
         Told(c)' - Told(c) = Came(c)' - Came(c)
  PROVE  Near(Told(c)', Came(c)', Slack')
<1>1. Told(c) \in Int /\ Came(c) \in Int /\ Slack \in Int
  BY ToldType
<1>2. Told(c)' \in Int /\ Came(c)' \in Int
  BY ToldTypeNext
<1>3. Near(Told(c), Came(c), Slack)
  BY DEF CharsKept
<1> QED
  BY <1>1, <1>2, <1>3, NearMoves

LEMMA ToldWidens ==
  ASSUME StreamTyped, StreamTyped', CharsKept, failed' = failed + 1, NEW c \in Chars,
         NEW d \in Int, -MaxHold <= d, d <= MaxHold,
         Told(c)' - Told(c) = (Came(c)' - Came(c)) + d
  PROVE  Near(Told(c)', Came(c)', Slack')
<1>1. Told(c) \in Int /\ Came(c) \in Int /\ Slack \in Int
  BY ToldType
<1>2. Told(c)' \in Int /\ Came(c)' \in Int
  BY ToldTypeNext
<1>3. Near(Told(c), Came(c), Slack)
  BY DEF CharsKept
<1>4. Slack' = Slack + MaxHold
  BY SlackGrows
<1> QED
  BY <1>1, <1>2, <1>3, <1>4, NearWidens

\* The beginning of an attempt.
LEMMA NothingYet ==
  ASSUME arrived' = 0, buf' = <<>>, shown' = <<>>, reply' = reply, reply \in Seq(Chars),
         steady' => mode', ended' => FALSE, failed' = 0
  PROVE  BufInv' /\ SteadyInv' /\ CharsKept'
<1>1. Arrived' = <<>>
  BY EmptyFacts DEF Arrived
<1>2. SentOf(<<>>)'
  BY <1>1, EmptyFacts DEF SentOf
<1>3. BufInv'
  BY StreamAssumption DEF BufInv
<1>4. SteadyInv'
  BY <1>2, EmptyFacts DEF SteadyInv
<1>5. CharsKept'
  <2>1. Slack' = 0
    BY StreamAssumption DEF Slack
  <2> QED
    BY <1>1, <2>1, CountEmpty DEF CharsKept, Near, Told, Came
<1> QED
  BY <1>3, <1>4, <1>5

LEMMA StreamInitInv == F!Init => StreamInv
<1> SUFFICES ASSUME F!Init PROVE StreamInv
  OBVIOUS
<1>1. reply \in Seq(Chars) /\ Len(reply) = StreamLength
  BY StreamAssumption DEF F!Init, Chars
<1>2. StreamTyped
  <2>1. 0 \in 0 .. StreamLength
    BY StreamAssumption
  <2>2. arrived \in 0 .. StreamLength /\ buf \in Seq(Chars) /\ shown \in Seq(Shown)
    BY <2>1, EmptyFacts DEF F!Init
  <2>3. mode \in BOOLEAN /\ steady \in BOOLEAN /\ ended \in BOOLEAN /\ failed \in Nat
    BY DEF F!Init
  <2> QED
    BY <1>1, <2>2, <2>3 DEF StreamTyped
<1>3. Arrived = <<>>
  BY EmptyFacts DEF Arrived, F!Init
<1>4. SentOf(<<>>) /\ buf = <<>> /\ shown = <<>>
  BY <1>3, EmptyFacts DEF SentOf, F!Init
<1>5. CharsKept
  <2>1. Slack = 0
    BY StreamAssumption DEF Slack, F!Init
  <2> QED
    BY <1>3, <1>4, <2>1, CountEmpty DEF CharsKept, Near, Told, Came
<1>6. BufInv
  BY <1>4, StreamAssumption DEF BufInv, F!Init
<1>7. SteadyInv
  BY <1>4, EmptyFacts DEF SteadyInv, F!Init
<1> QED
  BY <1>2, <1>5, <1>6, <1>7 DEF StreamInv

LEMMA ResetStream == ASSUME StreamInv, F!Reset PROVE StreamInv'
<1>1. StreamTyped'
  BY EmptyFacts, StreamAssumption DEF StreamInv, StreamTyped, F!Reset
<1>2. BufInv' /\ SteadyInv' /\ CharsKept'
  BY NothingYet DEF StreamInv, StreamTyped, F!Reset
<1> QED
  BY <1>1, <1>2 DEF StreamInv

LEMMA FlipStream == ASSUME StreamInv, F!Flip PROVE StreamInv'
BY DEF StreamInv, StreamTyped, BufInv, SteadyInv, CharsKept, Told, Came, Slack, Arrived, F!Flip

\* What has arrived after the next n characters.
LEMMA MoreArrived ==
  ASSUME StreamTyped, NEW n \in 1 .. StreamLength, arrived + n <= StreamLength
  PROVE  LET new == SubSeq(reply, arrived + 1, arrived + n) IN
         /\ new \in Seq(Chars) /\ new # <<>> /\ Len(new) = n
         /\ Arrived \in Seq(Chars) /\ SubSeq(reply, 1, arrived + n) = Arrived \o new
<1> DEFINE new == SubSeq(reply, arrived + 1, arrived + n)
           all == SubSeq(reply, 1, arrived + n)
           m == arrived
<1>1. m \in Nat /\ n \in Nat /\ n > 0 /\ m + n \in Nat /\ m + n <= Len(reply) /\ m <= Len(reply)
  BY StreamAssumption DEF StreamTyped
<1>2. Arrived \in Seq(Chars) /\ Len(Arrived) = m /\ \A i \in 1 .. m : Arrived[i] = reply[i]
  BY <1>1, Beginning DEF StreamTyped, Arrived
<1>3. all \in Seq(Chars) /\ Len(all) = m + n /\ \A i \in 1 .. m + n : all[i] = reply[i]
  BY <1>1, Beginning DEF StreamTyped
<1>4. new \in Seq(Chars) /\ Len(new) = n /\ \A i \in 1 .. n : new[i] = reply[m + i]
  <2>1. \A i \in m + 1 .. m + n : reply[i] \in Chars
    BY <1>1 DEF StreamTyped
  <2>2. m + 1 \in Int /\ m + n \in Int /\ m + 1 <= m + n /\ (m + n) - (m + 1) + 1 = n
    BY <1>1
  <2>3. /\ new \in Seq(Chars) /\ Len(new) = (m + n) - (m + 1) + 1
        /\ \A i \in 1 .. (m + n) - (m + 1) + 1 : new[i] = reply[(m + 1) + i - 1]
    BY <2>1, <2>2, SubSeqProperties
  <2>4. \A i \in 1 .. n : (m + 1) + i - 1 = m + i
    BY <1>1
  <2> QED
    BY <2>2, <2>3, <2>4
<1> HIDE DEF new, all, m
<1>5. new # <<>>
  BY <1>1, <1>4
<1>6. all = Arrived \o new
  <2>1. /\ Arrived \o new \in Seq(Chars) /\ Len(Arrived \o new) = m + n
        /\ \A i \in 1 .. m + n : (Arrived \o new)[i] = IF i <= m THEN Arrived[i] ELSE new[i - m]
    BY <1>2, <1>4, ConcatProperties, ZenonT(60)
  <2>2. ASSUME NEW i \in 1 .. m + n PROVE (Arrived \o new)[i] = all[i]
    <3>1. CASE i <= m
      <4>1. i \in 1 .. m
        BY <1>1, <3>1
      <4>2. all[i] = reply[i] /\ Arrived[i] = reply[i] /\ (Arrived \o new)[i] = Arrived[i]
        BY <1>2, <1>3, <2>1, <3>1, <4>1
      <4> QED
        BY <4>2
    <3>2. CASE ~(i <= m)
      <4>1. i - m \in 1 .. n /\ m + (i - m) = i
        BY <1>1, <3>2
      <4> QED
        BY <1>3, <1>4, <2>1, <3>2, <4>1
    <3> QED BY <3>1, <3>2
  <2> QED
    BY <1>3, <2>1, <2>2, SeqEqual
<1> QED
  BY <1>2, <1>4, <1>5, <1>6 DEF new, all, m

\* What was held and what comes next, with their characters.
LEMMA MoreInHand ==
  ASSUME StreamTyped, NEW n \in 1 .. StreamLength, NEW new \in Seq(Chars), Len(new) = n
  PROVE  LET all == buf \o new IN
         /\ all \in Seq(Chars) /\ all # <<>> /\ Len(all) = Len(buf) + n
         /\ buf # <<>> => all[1] = buf[1]
         /\ \A c : /\ F!Count(all, c) = F!Count(buf, c) + F!Count(new, c)
                    /\ F!Count(buf, c) \in Nat /\ F!Count(new, c) \in Nat
                    /\ F!Count(shown, c) \in Nat
<1> DEFINE all == buf \o new
<1>1. buf \in Seq(Chars) /\ shown \in Seq(Shown) /\ Len(buf) \in Nat /\ n \in Nat /\ n > 0
  BY LenProperties, StreamAssumption DEF StreamTyped
<1>2. /\ all \in Seq(Chars) /\ Len(all) = Len(buf) + n
      /\ \A i \in 1 .. Len(buf) + n : all[i] = IF i <= Len(buf) THEN buf[i] ELSE new[i - Len(buf)]
  BY <1>1, ConcatProperties
<1>3. all # <<>>
  <2> HIDE DEF all
  <2> QED
    BY <1>1, <1>2
<1>4. buf # <<>> => all[1] = buf[1]
  <2>1. buf # <<>> => Len(buf) \in Nat \ {0}
    BY <1>1, EmptySeq
  <2> QED
    BY <1>1, <1>2, <2>1
<1>5. buf \in Seq(Shown) /\ new \in Seq(Shown)
  BY <1>1, CharsAreShown
<1> QED
  BY <1>1, <1>2, <1>3, <1>4, <1>5, CountConcat, Counted

LEMMA DeltaStream ==
  ASSUME StreamInv, NEW n \in 1 .. StreamLength, F!Delta(n)
  PROVE  StreamInv'
<1> DEFINE new == SubSeq(reply, arrived + 1, arrived + n)
           all == buf \o new
<1>1. StreamTyped /\ BufInv /\ SteadyInv /\ CharsKept /\ arrived + n <= StreamLength /\ ~ended
  BY DEF StreamInv, F!Delta
<1>2. /\ new \in Seq(Chars) /\ new # <<>> /\ Len(new) = n
      /\ Arrived \in Seq(Chars) /\ SubSeq(reply, 1, arrived + n) = Arrived \o new
  BY <1>1, MoreArrived
<1>3. /\ arrived' = arrived + n /\ UNCHANGED <<reply, mode, steady, failed, flips, ended>>
      /\ mode => buf' = F!Held(all) /\ shown' = shown \o F!Restored(Emitted(all))
      /\ ~mode => buf' = buf /\ shown' = shown \o new
  BY DEF F!Delta, Emitted
<1> HIDE DEF new
<1>4. Arrived' = Arrived \o new
  BY <1>2, <1>3 DEF Arrived
<1>5. /\ all \in Seq(Chars) /\ all # <<>> /\ Len(all) = Len(buf) + n
      /\ (buf # <<>> => all[1] = buf[1]) /\ buf \in Seq(Chars) /\ shown \in Seq(Shown)
  BY <1>1, <1>2, MoreInHand DEF StreamTyped
<1>6. \A c : /\ F!Count(all, c) = F!Count(buf, c) + F!Count(new, c)
             /\ F!Count(Arrived \o new, c) = F!Count(Arrived, c) + F!Count(new, c)
             /\ F!Count(buf, c) \in Nat /\ F!Count(new, c) \in Nat /\ F!Count(Arrived, c) \in Nat
             /\ F!Count(shown, c) \in Nat
  <2>1. new \in Seq(Shown) /\ Arrived \in Seq(Shown)
    BY <1>2, CharsAreShown
  <2> QED
    BY <1>1, <1>2, <2>1, MoreInHand, CountConcat, Counted
<1> HIDE DEF all
<1>7. CASE ~mode
  <2>1. shown \o new \in Seq(Shown)
    BY <1>2, <1>5, CharsAreShown, ConcatProperties
  <2>2. StreamTyped'
    <3>1. arrived' \in 0 .. StreamLength
      BY <1>1, <1>3, StreamAssumption DEF StreamTyped
    <3> QED
      BY <1>1, <1>3, <1>7, <2>1, <3>1 DEF StreamTyped
  <2>3. BufInv' /\ SteadyInv'
    BY <1>1, <1>3, <1>7 DEF BufInv, SteadyInv
  <2>4. ASSUME NEW c \in Chars PROVE Near(Told(c)', Came(c)', Slack')
    <3>1. /\ F!Count(shown \o new, c) = F!Count(shown, c) + F!Count(new, c)
          /\ F!Count(shown \o new, F!R) = F!Count(shown, F!R) + F!Count(new, F!R)
      BY <1>2, <1>5, CharsAreShown, CountConcat
    <3>2. F!Count(new, F!R) = 0
      BY <1>2, NoneReal
    <3>3. /\ Told(c)' = F!Count(shown \o new, c) + F!Count(shown \o new, F!R) + F!Count(buf, c)
          /\ Came(c)' = F!Count(Arrived \o new, c) /\ Slack' = Slack
      BY <1>3, <1>4, <1>7 DEF Told, Came, Slack
    <3>4. Told(c)' - Told(c) = Came(c)' - Came(c)
      BY <1>6, <3>1, <3>2, <3>3 DEF Told, Came
    <3> QED
      BY <1>1, <2>2, <3>3, <3>4, ToldMoves
  <2> QED
    BY <2>2, <2>3, <2>4 DEF StreamInv, CharsKept
<1>8. CASE mode
  <2> DEFINE e == Emitted(all)
             h == F!Held(all)
  <2>1. /\ h \in Seq(Chars) /\ e \in Seq(Chars) /\ all = e \o h
        /\ (h # <<>> => h[1] = F!O) /\ (h = <<>> => e = all /\ Loose(all))
        /\ (e # <<>> => e[1] = all[1]) /\ Len(h) <= MaxHold
    BY <1>5, HeldApart
  <2> HIDE DEF e, h
  <2>2. buf' = h /\ shown' = shown \o F!Restored(e) /\ F!Restored(e) \in Seq(Shown)
    BY <1>3, <1>8, <2>1, RestoredTyped DEF e, h
  <2>3. StreamTyped'
    <3>1. shown' \in Seq(Shown)
      BY <1>5, <2>2, ConcatProperties
    <3> QED
      BY <1>1, <1>3, <2>1, <2>2, <3>1, StreamAssumption DEF StreamTyped
  <2>4. BufInv'
    BY <1>1, <1>3, <2>1, <2>2 DEF BufInv
  <2>5. SteadyInv'
    <3> SUFFICES ASSUME steady PROVE (\E sent \in Seq(Chars) : SentOf(sent))'
      BY <1>3, <1>8 DEF SteadyInv
    <3>1. PICK sent \in Seq(Chars) : SentOf(sent)
      BY <1>1 DEF SteadyInv
    <3>2. e = <<>> \/ e[1] = F!O \/ Loose(F!Restored(sent))
      <4>1. CASE buf = <<>>
        BY <1>1, <3>1, <4>1, LooseRestored DEF SentOf
      <4>2. CASE buf # <<>>
        BY <1>1, <1>5, <2>1, <4>2 DEF BufInv
      <4> QED BY <4>1, <4>2
    <3>3. shown' = F!Restored(sent \o e)
      BY <2>1, <2>2, <3>1, <3>2, RestoredConcat DEF SentOf
    <3>4. Arrived' = (sent \o e) \o h
      <4>1. Arrived' = (sent \o buf) \o new
        BY <1>4, <3>1 DEF SentOf
      <4>2. (sent \o buf) \o new = sent \o all
        <5>1. (sent \o buf) \o new = sent \o (buf \o new)
          <6>1. sent \in Seq(Chars) /\ buf \in Seq(Chars) /\ new \in Seq(Chars)
            BY <1>2, <1>5
          <6> QED
            BY <6>1, Regrouped, SMTT(60)
        <5>2. all = buf \o new
          BY DEF all
        <5> QED
          BY <5>1, <5>2
      <4>3. sent \o (e \o h) = (sent \o e) \o h
        <5>1. sent \in Seq(Chars) /\ e \in Seq(Chars) /\ h \in Seq(Chars)
          BY <2>1
        <5> QED
          BY <5>1, Regrouped, SMTT(60)
      <4> QED
        BY <2>1, <4>1, <4>2, <4>3
    <3>5. h = <<>> => Loose(sent \o e)
      <4> SUFFICES ASSUME h = <<>> PROVE Loose(sent \o all)
        BY <2>1
      <4>1. Len(all) = 1 => Loose(sent)
        <5> SUFFICES ASSUME Len(all) = 1 PROVE Loose(sent)
          OBVIOUS
        <5>1. Len(buf) = 0
          <6>1. Len(buf) \in Nat /\ Len(buf) + n = 1
            BY <1>5, LenProperties
          <6>2. n \in Nat /\ n > 0
            BY StreamAssumption
          <6> QED
            BY <6>1, <6>2
        <5>2. buf = <<>>
          BY <1>5, <5>1, EmptySeq
        <5> QED
          BY <1>1, <3>1, <5>2 DEF SentOf
      <4> QED
        BY <1>5, <2>1, <4>1, LooseConcat
    <3>6. sent \o e \in Seq(Chars)
      BY <2>1, ConcatProperties
    <3>7. PICK now \in Seq(Chars) : now = sent \o e
      BY <3>6
    <3>8. SentOf(now)'
      BY <2>2, <3>3, <3>4, <3>5, <3>7 DEF SentOf
    <3> QED
      BY <3>8
  <2>6. ASSUME NEW c \in Chars PROVE Near(Told(c)', Came(c)', Slack')
    <3> DEFINE r == F!Restored(e)
    <3>1. \A d : F!Count(shown \o r, d) = F!Count(shown, d) + F!Count(r, d) /\ F!Count(r, d) \in Nat
      BY <1>5, <2>2, CountConcat, Counted
    <3>2. F!Count(r, c) + F!Count(r, F!R) = F!Count(e, c)
      BY <2>1, CountRestored
    <3>3. F!Count(all, c) = F!Count(e, c) + F!Count(h, c) /\ F!Count(e, c) \in Nat /\ F!Count(h, c) \in Nat
      BY <2>1, CharsAreShown, CountConcat, Counted
    <3>4. /\ Told(c)' = F!Count(shown \o r, c) + F!Count(shown \o r, F!R) + F!Count(h, c)
          /\ Came(c)' = F!Count(Arrived \o new, c) /\ Slack' = Slack
      BY <1>3, <1>4, <2>2 DEF Told, Came, Slack
    <3> HIDE DEF r
    <3>5. Told(c)' - Told(c) = Came(c)' - Came(c)
      BY <1>6, <3>1, <3>2, <3>3, <3>4 DEF Told, Came
    <3> QED
      BY <1>1, <2>3, <3>4, <3>5, ToldMoves
  <2> QED
    BY <2>3, <2>4, <2>5, <2>6 DEF StreamInv, CharsKept
<1> QED BY <1>7, <1>8

LEMMA EndStream == ASSUME StreamInv, F!End PROVE StreamInv'
<1>1. /\ StreamTyped /\ BufInv /\ SteadyInv /\ CharsKept /\ ~ended /\ arrived = StreamLength
      /\ shown' = shown \o F!Flushed(buf) /\ buf' = <<>> /\ ended' = TRUE
      /\ UNCHANGED <<reply, arrived, mode, steady, failed, flips>>
  BY DEF StreamInv, F!End
<1>2. buf \in Seq(Chars) /\ shown \in Seq(Shown) /\ F!Restored(buf) \in Seq(Shown) /\ buf \in Seq(Shown)
  BY <1>1, RestoredTyped, CharsAreShown DEF StreamTyped
<1> DEFINE f == F!Flushed(buf)
<1>3. f \in Seq(Shown) /\ f = IF mode THEN F!Restored(buf) ELSE buf
  BY <1>2 DEF F!Flushed
<1> HIDE DEF f
<1>4. Arrived' = Arrived
  BY <1>1 DEF Arrived
<1>5. StreamTyped'
  <2>1. shown \o f \in Seq(Shown)
    BY <1>2, <1>3, ConcatProperties
  <2> QED
    BY <1>1, <2>1, EmptyFacts DEF StreamTyped, f
<1>6. BufInv'
  BY <1>1, StreamAssumption DEF BufInv
<1>7. SteadyInv'
  <2> SUFFICES ASSUME steady PROVE mode /\ (\E sent \in Seq(Chars) : SentOf(sent))'
    BY <1>1 DEF SteadyInv
  <2>1. PICK sent \in Seq(Chars) : SentOf(sent)
    BY <1>1 DEF SteadyInv
  <2>2. mode
    BY <1>1 DEF SteadyInv
  <2>3. buf = <<>> \/ buf[1] = F!O
    BY <1>1 DEF BufInv
  <2>4. F!Restored(sent \o buf) = F!Restored(sent) \o F!Restored(buf)
    BY <1>2, <2>3, RestoredConcat
  <2>5. shown' = F!Restored(sent \o buf)
    BY <1>1, <1>3, <2>1, <2>2, <2>4 DEF SentOf, f
  <2>6. sent \o buf \in Seq(Chars) /\ (sent \o buf) \o <<>> = sent \o buf
    BY <1>2, ConcatProperties, ConcatEmptySeq
  <2>7. PICK now \in Seq(Chars) : now = sent \o buf
    BY <2>6
  <2>8. SentOf(now)'
    BY <1>1, <1>4, <2>1, <2>5, <2>6, <2>7 DEF SentOf
  <2> QED
    BY <2>2, <2>8
<1>8. ASSUME NEW c \in Chars PROVE Near(Told(c)', Came(c)', Slack')
  <2>1. \A d : F!Count(shown \o f, d) = F!Count(shown, d) + F!Count(f, d)
    BY <1>2, <1>3, CountConcat
  <2>2. F!Count(f, c) + F!Count(f, F!R) = F!Count(buf, c)
    <3>1. CASE mode
      BY <1>2, <1>3, <3>1, CountRestored
    <3>2. CASE ~mode
      BY <1>2, <1>3, <3>2, NoneReal, Counted
    <3> QED BY <3>1, <3>2
  <2>3. /\ Told(c)' = F!Count(shown \o f, c) + F!Count(shown \o f, F!R) + F!Count(<<>>, c)
        /\ Came(c)' = Came(c) /\ Slack' = Slack
    BY <1>1, <1>4 DEF Told, Came, Slack, f
  <2>4. /\ F!Count(shown, c) \in Nat /\ F!Count(shown, F!R) \in Nat /\ F!Count(buf, c) \in Nat
        /\ F!Count(f, c) \in Nat /\ F!Count(f, F!R) \in Nat /\ F!Count(<<>>, c) = 0
    BY <1>2, <1>3, Counted, CountEmpty
  <2>5. Told(c)' - Told(c) = Came(c)' - Came(c)
    <3>1. Came(c) \in Int
      BY <1>1, ToldType
    <3> QED
      BY <2>1, <2>2, <2>3, <2>4, <3>1 DEF Told
  <2> QED
    BY <1>1, <1>5, <2>3, <2>5, ToldMoves
<1> QED
  BY <1>5, <1>6, <1>7, <1>8 DEF StreamInv, CharsKept

\* Nothing of what was held was sent, and what is held now was.
LEMMA DeltaRaisesStream ==
  ASSUME StreamInv, NEW n \in 1 .. StreamLength, F!DeltaRaises(n)
  PROVE  StreamInv'
<1> DEFINE new == SubSeq(reply, arrived + 1, arrived + n)
           all == buf \o new
           h == F!Held(all)
<1>1. StreamTyped /\ BufInv /\ CharsKept /\ arrived + n <= StreamLength /\ ~ended
  BY DEF StreamInv, F!DeltaRaises
<1>2. /\ new \in Seq(Chars) /\ new # <<>> /\ Len(new) = n
      /\ Arrived \in Seq(Chars) /\ SubSeq(reply, 1, arrived + n) = Arrived \o new
  BY <1>1, MoreArrived
<1>3. /\ arrived' = arrived + n /\ UNCHANGED <<reply, mode, ended>>
      /\ failed' = failed + 1 /\ steady' = FALSE
      /\ buf' = h /\ shown' = shown \o new
  BY DEF F!DeltaRaises, F!Raises
<1> HIDE DEF new
<1>4. Arrived' = Arrived \o new
  BY <1>2, <1>3 DEF Arrived
<1>5. /\ all \in Seq(Chars) /\ all # <<>>
      /\ \A c : F!Count(buf, c) \in Nat /\ F!Count(new, c) \in Nat /\ F!Count(shown, c) \in Nat
  BY <1>1, <1>2, MoreInHand
<1> HIDE DEF all
<1>6. h \in Seq(Chars) /\ (h # <<>> => h[1] = F!O) /\ Len(h) <= MaxHold
  BY <1>5, HeldApart
<1> HIDE DEF h
<1>7. StreamTyped'
  <2>1. shown \o new \in Seq(Shown)
    BY <1>1, <1>2, CharsAreShown, ConcatProperties DEF StreamTyped
  <2>2. arrived' \in 0 .. StreamLength
    BY <1>1, <1>3, StreamAssumption DEF StreamTyped
  <2>3. failed' \in Nat
    BY <1>1, <1>3 DEF StreamTyped
  <2> QED
    BY <1>1, <1>3, <1>6, <2>1, <2>2, <2>3 DEF StreamTyped
<1>8. BufInv' /\ SteadyInv'
  BY <1>1, <1>3, <1>6 DEF BufInv, SteadyInv
<1>9. ASSUME NEW c \in Chars PROVE Near(Told(c)', Came(c)', Slack')
  <2> DEFINE d == F!Count(h, c) - F!Count(buf, c)
  <2>1. /\ F!Count(shown \o new, c) = F!Count(shown, c) + F!Count(new, c)
        /\ F!Count(shown \o new, F!R) = F!Count(shown, F!R) + F!Count(new, F!R)
    BY <1>1, <1>2, CharsAreShown, CountConcat DEF StreamTyped
  <2>2. F!Count(new, F!R) = 0
    BY <1>2, NoneReal
  <2>3. /\ F!Count(Arrived \o new, c) = F!Count(Arrived, c) + F!Count(new, c)
        /\ F!Count(Arrived, c) \in Nat
    BY <1>2, CharsAreShown, CountConcat
  <2>4. /\ F!Count(h, c) \in Nat /\ F!Count(h, c) <= MaxHold
        /\ F!Count(buf, c) \in Nat /\ F!Count(buf, c) <= MaxHold
    <3>1. h \in Seq(Shown) /\ buf \in Seq(Shown) /\ Len(h) \in Nat /\ Len(buf) \in Nat
      BY <1>1, <1>6, CharsAreShown, LenProperties DEF StreamTyped
    <3>2. F!Count(h, c) <= Len(h) /\ F!Count(buf, c) <= Len(buf)
      BY <3>1, CountBounded
    <3>3. F!Count(h, c) \in Nat /\ F!Count(buf, c) \in Nat
      BY <3>1, Counted
    <3> QED
      BY <1>1, <1>6, <3>1, <3>2, <3>3, StreamAssumption DEF BufInv
  <2>5. /\ Told(c)' = F!Count(shown \o new, c) + F!Count(shown \o new, F!R) + F!Count(h, c)
        /\ Came(c)' = F!Count(Arrived \o new, c)
    BY <1>3, <1>4 DEF Told, Came
  <2>6. Told(c)' - Told(c) = (Came(c)' - Came(c)) + d
    BY <1>5, <2>1, <2>2, <2>3, <2>4, <2>5 DEF Told, Came
  <2>7. d \in Int /\ -MaxHold <= d /\ d <= MaxHold
    BY <2>4, StreamAssumption
  <2> HIDE DEF d
  <2> QED
    BY <1>1, <1>3, <1>7, <2>6, <2>7, ToldWidens
<1> QED
  BY <1>7, <1>8, <1>9 DEF StreamInv, CharsKept

\* The tail that was held is lost.
LEMMA EndRaisesStream == ASSUME StreamInv, F!EndRaises PROVE StreamInv'
<1>1. /\ StreamTyped /\ BufInv /\ CharsKept /\ arrived = StreamLength
      /\ buf' = <<>> /\ ended' = TRUE /\ failed' = failed + 1 /\ steady' = FALSE
      /\ UNCHANGED <<reply, arrived, shown, mode>>
  BY DEF StreamInv, F!EndRaises, F!Raises
<1>2. StreamTyped'
  <2>1. failed' \in Nat
    BY <1>1 DEF StreamTyped
  <2> QED
    BY <1>1, <2>1, EmptyFacts DEF StreamTyped
<1>3. BufInv' /\ SteadyInv'
  BY <1>1, StreamAssumption DEF BufInv, SteadyInv
<1>4. ASSUME NEW c \in Chars PROVE Near(Told(c)', Came(c)', Slack')
  <2> DEFINE d == -F!Count(buf, c)
  <2>1. F!Count(buf, c) \in Nat /\ F!Count(buf, c) <= MaxHold
    <3>1. buf \in Seq(Shown) /\ Len(buf) \in Nat
      BY <1>1, CharsAreShown, LenProperties DEF StreamTyped
    <3>2. F!Count(buf, c) <= Len(buf) /\ F!Count(buf, c) \in Nat
      BY <3>1, CountBounded, Counted
    <3> QED
      BY <1>1, <3>1, <3>2, StreamAssumption DEF BufInv
  <2>2. /\ Told(c)' = F!Count(shown, c) + F!Count(shown, F!R) + F!Count(<<>>, c)
        /\ Came(c)' = Came(c)
    BY <1>1 DEF Told, Came, Arrived
  <2>3. /\ F!Count(shown, c) \in Nat /\ F!Count(shown, F!R) \in Nat /\ F!Count(<<>>, c) = 0
        /\ Came(c) \in Int
    BY <1>1, Counted, CountEmpty, ToldType DEF StreamTyped
  <2>4. Told(c)' - Told(c) = (Came(c)' - Came(c)) + d
    BY <2>1, <2>2, <2>3 DEF Told
  <2>5. d \in Int /\ -MaxHold <= d /\ d <= MaxHold
    BY <2>1, StreamAssumption
  <2> HIDE DEF d
  <2> QED
    BY <1>1, <1>2, <2>4, <2>5, ToldWidens
<1> QED
  BY <1>2, <1>3, <1>4 DEF StreamInv, CharsKept

LEMMA StreamNextInv == StreamInv /\ [F!Next]_(F!vars) => StreamInv'
<1>1. ASSUME StreamInv, UNCHANGED F!vars PROVE StreamInv'
  BY <1>1 DEF F!vars, StreamInv, StreamTyped, BufInv, SteadyInv, SentOf, CharsKept, Told, Came, Slack,
              Arrived
<1> QED
  BY <1>1, DeltaStream, DeltaRaisesStream, EndStream, EndRaisesStream, ResetStream, FlipStream DEF F!Next

LEMMA StreamInvWhole == StreamInv => StreamsWhole
<1> SUFFICES ASSUME StreamInv PROVE F!StreamsWhole
  BY DEF StreamsWhole
<1>1. StreamTyped /\ BufInv /\ SteadyInv /\ CharsKept
  BY DEF StreamInv
<1>2. ended => Arrived = reply /\ buf = <<>>
  BY <1>1, SubSeqFull DEF StreamTyped, BufInv, Arrived
<1>3. ASSUME steady
      PROVE  shown \o F!Restored(buf) = F!Restored(Arrived) /\ (ended => shown = F!Restored(reply))
  <2>1. PICK sent \in Seq(Chars) : SentOf(sent)
    BY <1>1, <1>3 DEF SteadyInv
  <2>2. shown \o F!Restored(buf) = F!Restored(Arrived)
    BY <1>1, <2>1, RestoredConcat DEF SentOf, BufInv, StreamTyped
  <2>3. ended => sent = reply
    <3>1. sent \o <<>> = sent
      BY ConcatEmptySeq
    <3> QED
      BY <1>2, <2>1, <3>1 DEF SentOf
  <2> QED
    BY <2>1, <2>2, <2>3 DEF SentOf
<1>4. ASSUME ended, NEW c \in Chars
      PROVE  F!Count(shown, c) + F!Count(shown, F!R) \in
               (F!Count(reply, c) - failed * MaxHold) .. (F!Count(reply, c) + failed * MaxHold)
  <2>1. F!Count(shown, c) \in Nat /\ F!Count(shown, F!R) \in Nat
    BY <1>1, Counted DEF StreamTyped
  <2>2. Told(c) = F!Count(shown, c) + F!Count(shown, F!R) /\ Came(c) = F!Count(reply, c)
    BY <1>2, <1>4, <2>1, CountEmpty DEF Told, Came
  <2>3. Near(Told(c), Came(c), Slack) /\ Told(c) \in Int /\ Came(c) \in Int /\ Slack \in Int
    BY <1>1, ToldType DEF CharsKept
  <2>4. Told(c) \in (Came(c) - Slack) .. (Came(c) + Slack)
    BY <2>3 DEF Near
  <2> QED
    BY <2>2, <2>4 DEF Slack
<1> QED
  BY <1>3, <1>4 DEF F!StreamsWhole, Arrived, Chars

\* However a reply of any length is cut: as long as MODE is on and no restore raises, what was
\* streamed is its restored beginning but for a held tail, and at the end the whole; no edit of
\* MODE loses or repeats a character, and a restore that raises no more than one held tail
\* (hermes_live.py:742-783).
THEOREM StreamsComeWhole == F!Spec => []StreamsWhole
BY StreamInvWhole, StreamInitInv, StreamNextInv, PTL DEF F!Spec
=============================================================================
