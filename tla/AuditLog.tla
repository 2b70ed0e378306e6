------------------------------- MODULE AuditLog -------------------------------
(***************************************************************************)
(* The audit log: _audit in hermes_live.py 94-118 over fsutil.py 19-30.    *)
(* Threads of any process append lines without a lock; the one that finds  *)
(* the log too long moves the files up by one name, under a lock file that *)
(* it waits for no longer than two seconds.                                *)
(***************************************************************************)
EXTENDS Integers, FiniteSets

CONSTANTS
  Threads,   \* those that write events
  Limit,     \* _AUDIT_MAX_BYTES, in lines
  Keep,      \* _AUDIT_KEEP
  MaxLines,  \* bound: events
  MaxKills,  \* bound: processes killed
  MaxLate,   \* bound: rotators that do not wait any longer
  None

Names == 0 .. Keep

VARIABLES
  log,      \* log[0] is audit.log, log[i] is audit.log.i: a set of lines, None for no file
  writer,   \* of each thread: where it is, the next file to move, the file it has open, its line
  opened,   \* lines are numbered in the order in which audit.log was opened for them
  written,  \* history: those written
  killed, late

vars == <<log, writer, opened, written, killed, late>>

\* The file that is open is known by its name now.
Gone == Keep + 1

Idle == [at |-> "idle", move |-> 0, fd |-> Gone, line |-> 0]

Init ==
  /\ log = [i \in Names |-> None]
  /\ writer = [th \in Threads |-> Idle]
  /\ opened = 0 /\ written = {} /\ killed = 0 /\ late = 0

-----------------------------------------------------------------------------

\* getsize; no file is not too long.
TooLong == log[0] # None /\ Cardinality(log[0]) > Limit

Audit(th) ==
  /\ writer[th].at = "idle"
  /\ writer' = [writer EXCEPT ![th].at = IF TooLong THEN "lock" ELSE "open"]
  /\ UNCHANGED <<log, opened, written, killed, late>>

\* Mutant of StillTooLong: whoever has found it too long rotates.
AsFound == TRUE

\* Another one may have rotated it while this one waited.
StillTooLong == TooLong

\* One rotator at a time,
LockFree == \A o \in Threads : writer[o].at # "rotate"

\* or one more after two seconds (_filelock.py 41-42).
Lock(th) ==
  /\ writer[th].at = "lock"
  /\ IF LockFree THEN UNCHANGED late ELSE late < MaxLate /\ late' = late + 1
  /\ writer' = [writer EXCEPT ![th] =
       IF StillTooLong
       THEN [@ EXCEPT !.at = IF LockFree THEN "rotate" ELSE "unlocked", !.move = Keep - 1]
       ELSE [@ EXCEPT !.at = "open"]]
  /\ UNCHANGED <<log, opened, written, killed>>

\* os.replace: those that have a file open go on with it.
Replaced(i) ==
  IF log[i] = None THEN UNCHANGED log ELSE log' = [log EXCEPT ![i + 1] = log[i], ![i] = None]

Named(fd, i) ==
  IF log[i] = None THEN fd ELSE IF fd = i THEN i + 1 ELSE IF fd = i + 1 THEN Gone ELSE fd

\* From the oldest to audit.log itself, which ends the rotation.
Moved(w, mine, i) ==
  LET v == [w EXCEPT !.fd = Named(@, i)] IN
  IF ~mine THEN v ELSE IF i = 0 THEN [v EXCEPT !.at = "open"] ELSE [v EXCEPT !.move = i - 1]

Move(th) ==
  /\ writer[th].at \in {"rotate", "unlocked"}
  /\ Replaced(writer[th].move)
  /\ writer' = [o \in Threads |-> Moved(writer[o], o = th, writer[th].move)]
  /\ UNCHANGED <<opened, written, killed, late>>

\* append_private: the file is opened, or made,
Open(th) ==
  /\ writer[th].at = "open" /\ opened < MaxLines
  /\ log' = [log EXCEPT ![0] = IF @ = None THEN {} ELSE @]
  /\ opened' = opened + 1
  /\ writer' = [writer EXCEPT ![th].at = "write", ![th].fd = 0, ![th].line = opened + 1]
  /\ UNCHANGED <<written, killed, late>>

\* and the line written to it, whatever it is called by now.
Write(th) ==
  LET w == writer[th] IN
  /\ w.at = "write"
  /\ log' = IF w.fd = Gone THEN log ELSE [log EXCEPT ![w.fd] = @ \cup {w.line}]
  /\ written' = written \cup {w.line}
  /\ writer' = [writer EXCEPT ![th] = Idle]
  /\ UNCHANGED <<opened, killed, late>>

Kill(th) ==
  /\ writer[th].at # "idle" /\ killed < MaxKills /\ killed' = killed + 1
  /\ writer' = [writer EXCEPT ![th] = Idle]
  /\ UNCHANGED <<log, opened, written, late>>

Next ==
  \E th \in Threads : Audit(th) \/ Lock(th) \/ Move(th) \/ Open(th) \/ Write(th) \/ Kill(th)

Spec == Init /\ [][Next]_vars

-----------------------------------------------------------------------------
(* Properties.                                                             *)

Lost == {line \in written : \A i \in Names : log[i] = None \/ line \notin log[i]}

\* "Rotates at 5 MB, keeps 3 old files" (hermes_live.py:95): however many threads find the
\* log too long at once, an old file is never a short one, and a line that is gone is older
\* than Keep full files, less one for each process that was killed, perhaps between two moves.
\* A rotator that did not wait any longer may spoil both.
AuditKept == late = 0 =>
  /\ \A i \in Names \ {0} : log[i] # None => Cardinality(log[i]) > Limit
  /\ \A line \in Lost : Cardinality({l \in written : l > line}) >= (Keep - killed) * (Limit + 1)
=============================================================================
