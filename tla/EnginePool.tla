------------------------------ MODULE EnginePool ------------------------------
(***************************************************************************)
(* The engines and the configuration they are built from:                  *)
(* hermes_live.py 132-198, 280-306.  The operator edits the files of the   *)
(* cloak directory at any time; a request takes their signature, and under *)
(* the lock it finds an engine of that signature or builds one.  A file    *)
(* that does not load is replaced by its last good content.                *)
(***************************************************************************)
EXTENDS Integers, Sequences, SequencesExt

CONSTANTS
  Files,       \* of "profile", "gazetteer" and "ner_url", in the order they are read
  Threads,
  Sessions,
  MaxEngines,  \* _MAX_ENGINES
  MaxEdits,    \* bound: edits of the files
  None

\* The files whose last good content is kept.
KeepsGood == Range(Files) \ {"ner_url"}

VARIABLES
  config,   \* the files: when each was edited, and whether it loads
  edits,
  good,     \* _LAST_GOOD: the last edit that loaded, 0 for none
  pool,     \* _ENGINES: the sessions, the least recently used one first
  engine,   \* the engine of each session in the pool, and _ENGINE_SIG
  work,     \* what each thread is doing
  came      \* history: files that were made between a thread's look at them and its reading

vars == <<config, edits, good, pool, engine, work, came>>

Absent == [edit |-> 0, loads |-> FALSE]

\* A thread: its session, the signature and the contents read so far (0 for the defaults that
\* stand in for a broken file, None for a file that is not there), how many edits there had
\* been when it began, and the engine it was given.
Idle == [at |-> "idle", session |-> None, sig |-> <<>>, from |-> <<>>, since |-> 0, given |-> None]

\* A directory that has been set up, or one that has not.
Init ==
  /\ \E c \in {Absent, [edit |-> 1, loads |-> TRUE]} : config = [f \in Range(Files) |-> c]
  /\ edits = 1 /\ came = {}
  /\ good = [f \in KeepsGood |-> 0]
  /\ pool = <<>>
  /\ engine = [s \in Sessions |-> None]
  /\ work = [th \in Threads |-> Idle]

-----------------------------------------------------------------------------
(* _engine_for_session.                                                    *)

Given(t, eng) == [Idle EXCEPT !.at = "given", !.since = t.since, !.given = eng]

Begin(th, s) ==
  /\ work[th].at \in {"idle", "given"}
  /\ work' = [work EXCEPT ![th] = [Idle EXCEPT !.at = "sig", !.session = s, !.since = edits]]
  /\ UNCHANGED <<config, edits, good, pool, engine, came>>

\* _sig: one file after the other.
Stat(th) ==
  LET t == work[th] IN
  /\ t.at = "sig" /\ Len(t.sig) < Len(Files)
  /\ work' = [work EXCEPT ![th].sig = Append(@, config[Files[Len(@) + 1]].edit)]
  /\ UNCHANGED <<config, edits, good, pool, engine, came>>

\* _LOCK
Locked == \E th \in Threads : work[th].at = "build"

Ready(th) == work[th].at = "sig" /\ Len(work[th].sig) = Len(Files) /\ ~Locked

InForce(t) == engine[t.session] # None /\ engine[t.session].sig = t.sig

Found(th) ==
  LET t == work[th] IN
  /\ Ready(th) /\ InForce(t)
  /\ pool' = Append(Remove(pool, t.session), t.session)
  /\ work' = [work EXCEPT ![th] = Given(t, engine[t.session])]
  /\ UNCHANGED <<config, edits, good, engine, came>>

Miss(th) ==
  /\ Ready(th) /\ ~InForce(work[th])
  /\ work' = [work EXCEPT ![th].at = "build"]
  /\ UNCHANGED <<config, edits, good, pool, engine, came>>

\* Mutant of Loaded: a broken file is as good as none.
LoadedOrDefault(f) ==
  IF config[f] = Absent THEN None ELSE IF config[f].loads THEN config[f].edit ELSE 0

\* _load_profile, _load_gazetteer, and the url in _build_engine.
Loaded(f) ==
  IF config[f] = Absent THEN None
  ELSE IF config[f].loads THEN config[f].edit
  ELSE IF f \in KeepsGood THEN good[f] ELSE 0

GoodAfter(f) ==
  IF f \in KeepsGood /\ config[f].loads THEN [good EXCEPT ![f] = config[f].edit] ELSE good

\* _build_engine: one file after the other.
Load(th) ==
  LET t == work[th]
      f == Files[Len(t.from) + 1]
  IN
  /\ t.at = "build" /\ Len(t.from) < Len(Files)
  /\ work' = [work EXCEPT ![th].from = Append(@, Loaded(f))]
  /\ good' = GoodAfter(f)
  /\ UNCHANGED <<config, edits, pool, engine, came>>

\* Mutant of SigOf: the signature is taken when the engine is stored.
SigAfter(t) == [i \in DOMAIN Files |-> config[Files[i]].edit]

\* The signature that an engine is stored under.
SigOf(t) == t.sig

\* The new engine replaces the session's old one; the least recently used one makes room.
Store(th) ==
  LET t == work[th]
      new == [sig |-> SigOf(t), from |-> t.from]
      all == IF Contains(pool, t.session) THEN pool ELSE Append(pool, t.session)
      over == Len(all) - MaxEngines
      kept == IF over > 0 THEN SubSeq(all, over + 1, Len(all)) ELSE all
  IN
  /\ t.at = "build" /\ Len(t.from) = Len(Files)
  /\ pool' = kept
  /\ engine' = [s \in Sessions |-> IF ~Contains(kept, s) THEN None
                                   ELSE IF s = t.session THEN new ELSE engine[s]]
  /\ work' = [work EXCEPT ![th] = Given(t, new)]
  /\ UNCHANGED <<config, edits, good, came>>

-----------------------------------------------------------------------------

\* _fail_closed loads the profile without the lock, and what loaded is noted a moment later.
Peek(th) ==
  /\ work[th].at \in {"idle", "given"} /\ config["profile"].loads
  /\ work' = [work EXCEPT ![th] = [Idle EXCEPT !.at = "note", !.from = <<config["profile"].edit>>]]
  /\ UNCHANGED <<config, edits, good, pool, engine, came>>

Note(th) ==
  /\ work[th].at = "note"
  /\ good' = [good EXCEPT !["profile"] = work[th].from[1]]
  /\ work' = [work EXCEPT ![th] = Idle]
  /\ UNCHANGED <<config, edits, pool, engine, came>>

\* Somebody has looked at the file and will yet read it.
BetweenLooks(f) ==
  \E th \in Threads, i \in DOMAIN Files :
    Files[i] = f /\ i \in DOMAIN work[th].sig \ DOMAIN work[th].from

\* The operator writes, breaks or deletes a file.
Edit(f) ==
  /\ edits < MaxEdits /\ edits' = edits + 1
  /\ config' \in {[config EXCEPT ![f] = c] :
                    c \in {Absent} \cup [edit : {edits + 1}, loads : BOOLEAN]}
  /\ came' = IF config[f] = Absent /\ BetweenLooks(f) THEN came \cup {f} ELSE came
  /\ UNCHANGED <<good, pool, engine, work>>

Next ==
  \/ \E th \in Threads :
       \/ \E s \in Sessions : Begin(th, s)
       \/ Stat(th) \/ Found(th) \/ Miss(th) \/ Load(th) \/ Store(th) \/ Peek(th) \/ Note(th)
  \/ \E f \in Range(Files) : Edit(f)

Spec == Init /\ [][Next]_vars

-----------------------------------------------------------------------------
(* Properties.                                                             *)

\* A request that began after the last edit is given an engine of the files as they are,
\* whichever thread built it and whatever was edited while it was built: "picks up edits
\* live" (hermes_live.py:286).  A file that comes and goes while an engine is built leaves no
\* trace in the signature, and the engine that has read it stays.
ConfigInForce ==
  \A th \in Threads :
    LET t == work[th] IN
    t.at = "given" /\ t.since = edits =>
      \A i \in DOMAIN Files :
        LET c == config[Files[i]] IN
        IF c = Absent THEN t.given.from[i] = None \/ Files[i] \in came
        ELSE IF c.loads THEN t.given.from[i] = c.edit ELSE t.given.from[i] # None

\* A session whose engine was built from the profile and the list of names does not lose
\* either to an edit that does not load, in whatever order its threads build.
KeepsProtection ==
  [][\A s \in Sessions, i \in DOMAIN Files :
       /\ Files[i] \in KeepsGood
       /\ engine[s] # None /\ engine'[s] # None
       /\ engine[s].from[i] \notin {0, None}
       => engine'[s].from[i] # 0]_vars
=============================================================================
