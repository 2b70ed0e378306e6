---------------------------- MODULE DurableVault ----------------------------
(***************************************************************************)
(* The durable vault: src/hermescloak/durable_vault.py over vault.py and   *)
(* _filelock.py.  Several processes share one vault file; each process has *)
(* one DurableVault object used by its threads.  A vault maps real values  *)
(* to tokens and back.  It lives in memory, in a snapshot, in the          *)
(* snapshot's backup, and in a journal of the mappings minted since the    *)
(* snapshot.  Minting happens under a file lock; a value that already has  *)
(* a token is answered from memory without it.                             *)
(*                                                                         *)
(* A handler that touches the disk is cut where a crash, another thread or *)
(* (after a lock timeout) another process can see the difference.          *)
(***************************************************************************)
EXTENDS VaultData

Files == {"main", "bak", "journal"}
PCs == {"idle", "sweep", "load", "sync", "mint", "append", "compact", "bak", "main",
        "uncleared", "truncate", "return", "unlink", "tombstone", "clear"}
Kinds == {"none", "boot", "expire", "tokenize", "restore", "save", "clear"}

\* What a thread carries from one step of its handler to the next.
Job ==
  [ kind : Kinds, val : Values \cup {None}, typ : Types \cup {None},
    tok : Tokens \cup {None}, gen : Gens \cup {None, Blank}, todo : Seq(Files) ]

NoJob == [kind |-> "none", val |-> None, typ |-> None, tok |-> None, gen |-> None,
          todo |-> <<>>]

VARIABLES
  mem,      \* the vault object of each process
  up,       \* the life of each process
  pc,       \* where each thread is in its handler
  job,      \* what it carries
  raw,      \* the payload a thread's compaction is writing
  holder,   \* the thread that holds the file lock
  disk,     \* the vault's files
  issued,   \* history: the tokens handed out, with value and generation
  dropped,  \* history: the lifetime that the last drop of the vault ended
  upsets    \* history: how often each upset has happened

vars == <<mem, up, pc, job, raw, holder, disk, issued, dropped, upsets>>

-----------------------------------------------------------------------------
(* Steps.                                                                  *)

Init ==
  /\ mem = [p \in Procs |-> NewMemory]
  /\ up = [p \in Procs |-> "down"]
  /\ pc = [th \in Threads |-> "idle"]
  /\ job = [th \in Threads |-> NoJob]
  /\ raw = [th \in Threads |-> None]
  /\ holder = None
  /\ disk = [main |-> None, bak |-> None, journal |-> <<>>, torn |-> None,
             cleared |-> None, idle |-> FALSE]
  /\ issued = {}
  /\ dropped = None
  /\ upsets = [f \in UpsetKinds |-> 0]

\* A random id nothing carries yet.
UsedGens ==
  {mem[p].gen : p \in Procs} \cup {job[th].gen : th \in Threads}
    \cup {r.gen : r \in issued} \cup {disk.cleared, dropped}
    \cup {disk.journal[i].gen : i \in DOMAIN disk.journal}
    \cup {s.gen : s \in {x \in {disk.main, disk.bak} \cup {raw[th] : th \in Threads} :
                           IsFile(x)}}
    \cup (IF disk.torn = None THEN {} ELSE {disk.torn.gen})

HasFreshGen == \E g \in Gens : g \notin UsedGens
FreshGen == CHOOSE g \in Gens : g \notin UsedGens

Upset(f) == upsets[f] < Budget[f] /\ upsets' = [upsets EXCEPT ![f] = @ + 1]

\* FileLock.__enter__: the lock is free, or ten seconds pass and the caller goes on
\* without it.
Enter(th) ==
  \/ holder = None /\ holder' = th /\ UNCHANGED upsets
  \/ holder \notin {None, th} /\ Upset("timeout") /\ UNCHANGED holder

\* The same for a handler that also releases the lock in this step.
Pass(th) ==
  /\ UNCHANGED holder
  /\ \/ holder = None /\ UNCHANGED upsets
     \/ holder \notin {None, th} /\ Upset("timeout")

\* Mutant of Leave: the lock is not released.
LeaveLocked(th) == holder' = holder

\* FileLock.__exit__.
Leave(th) == holder' = IF holder = th THEN None ELSE holder

Goto(th, next) == pc' = [pc EXCEPT ![th] = next]
SetMem(p, m) == mem' = [mem EXCEPT ![p] = m]

\* The handler is over: nothing is carried on.
Rest(th) ==
  /\ Goto(th, "idle")
  /\ job' = [job EXCEPT ![th] = NoJob]

\* What os.stat says of the snapshot is no longer what m remembers.
Restat(m) == [m EXCEPT !.seen = IF @ = "fresh" THEN "stale" ELSE @]

\* Process p has m; the snapshot changed under everyone else.
SetMemRestat(p, m) == mem' = [q \in Procs |-> IF q = p THEN m ELSE Restat(mem[q])]

-----------------------------------------------------------------------------
(* A process starts: sweep_expired over the directory, then __init__.      *)

Start(th) ==
  /\ up[ProcOf[th]] = "down"
  /\ up' = [up EXCEPT ![ProcOf[th]] = "boot"]
  /\ Goto(th, "sweep")
  /\ job' = [job EXCEPT ![th] = [NoJob EXCEPT !.kind = "boot"]]
  /\ UNCHANGED <<mem, raw, holder, disk, issued, dropped, upsets>>

\* The lifetime that is on disk, whoever can read it.
Lifetime(d) ==
  IF IsFile(d.main) THEN d.main.gen ELSE IF IsFile(d.bak) THEN d.bak.gen ELSE None

\* sweep_expired finds a snapshot whose last change is past the TTL, and got the lock.
SweepExpired(th) ==
  /\ pc[th] = "sweep"
  /\ disk.main # None /\ disk.idle
  /\ holder = None
  /\ holder' = th
  /\ Goto(th, "unlink")
  /\ job' = [job EXCEPT ![th].gen = Blank, ![th].todo = <<"main", "journal", "bak">>]
  /\ dropped' = Lifetime(disk)
  /\ UNCHANGED <<mem, up, raw, disk, issued, upsets>>

\* ... or there is nothing to sweep, or no lock to be had in time.
SweepNothing(th) ==
  /\ pc[th] = "sweep"
  /\ \/ (disk.main = None \/ ~disk.idle) /\ UNCHANGED upsets
     \/ disk.main # None /\ disk.idle /\ holder # None /\ Upset("timeout")
  /\ Goto(th, "load")
  /\ UNCHANGED <<mem, up, job, raw, holder, disk, issued, dropped>>

Expired(d) == d.idle /\ (d.main # None \/ d.journal # <<>> \/ d.torn # None)

\* __init__ takes the lock unless the key is invalid.
EnterLoad(th) ==
  IF KeyOf[ProcOf[th]] = BadKey THEN UNCHANGED <<holder, upsets>> ELSE Enter(th)

\* The same for a _load that ends in this step.
PassLoad(th) ==
  IF KeyOf[ProcOf[th]] = BadKey THEN UNCHANGED <<holder, upsets>> ELSE Pass(th)

\* _load, lines 228-235: the files expired.
LoadExpired(th) ==
  /\ pc[th] = "load"
  /\ Expired(disk)
  /\ EnterLoad(th)
  /\ Goto(th, "unlink")
  /\ job' = [job EXCEPT ![th].kind = "expire",
                        ![th].gen = IF Readable(ProcOf[th], disk.main)
                                    THEN disk.main.gen ELSE Blank,
                        ![th].todo = <<"main", "bak", "journal">>]
  /\ dropped' = Lifetime(disk)
  /\ UNCHANGED <<mem, up, raw, disk, issued>>

\* _load and the end of __init__; a vault restored from the backup is compacted first.
Load(th) ==
  LET p == ProcOf[th]
      m == Loaded(p, disk, FreshGen)
  IN
  /\ pc[th] = "load"
  /\ ~Expired(disk)
  /\ HasFreshGen
  /\ disk' = IF Quarantines(p, disk) THEN [disk EXCEPT !.main = None] ELSE disk
  /\ IF Quarantines(p, disk) THEN SetMemRestat(p, m) ELSE SetMem(p, m)
  /\ IF RestoresBackup(p, disk) /\ ~m.memOnly
     THEN EnterLoad(th) /\ Goto(th, "compact") /\ UNCHANGED <<up, job>>
     ELSE PassLoad(th) /\ up' = [up EXCEPT ![p] = "up"] /\ Rest(th)
  /\ UNCHANGED <<raw, issued, dropped>>

-----------------------------------------------------------------------------
(* tokenize, restore_token, save: what they do before they need the lock.  *)

Ready(th) == up[ProcOf[th]] = "up" /\ pc[th] = "idle"

Begin(th, j) ==
  /\ Goto(th, "sync")
  /\ job' = [job EXCEPT ![th] = j]
  /\ UNCHANGED <<mem, up, raw, holder, disk, issued, dropped, upsets>>

\* _touch: refresh the file's time, unless that was done less than five minutes ago.
Touch(p) ==
  \/ /\ mem[p].memOnly \/ disk.main = None \/ ~disk.idle
     /\ UNCHANGED <<mem, disk>>
  \/ /\ ~mem[p].memOnly /\ disk.main # None
     /\ mem' = [q \in Procs |-> Restat(mem[q])]
     /\ disk' = [disk EXCEPT !.idle = FALSE]

Issue(t, v, g) == issued' = issued \cup {[tok |-> t, val |-> v, gen |-> g]}

\* tokenize of a value that has a token: no lock, no look at the disk.
Reuse(th, v) ==
  LET p == ProcOf[th] IN
  /\ Ready(th)
  /\ mem[p].r2t[v] # None
  /\ Issue(mem[p].r2t[v], v, mem[p].gen)
  /\ Touch(p)
  /\ UNCHANGED <<up, pc, job, raw, holder, dropped, upsets>>

\* tokenize of a new value in a memory-only vault.
TokenizeFar(th, v, k) ==
  LET p == ProcOf[th]
      m == Minted(mem[p], v, k, FarBase)
  IN
  /\ Ready(th)
  /\ mem[p].memOnly /\ mem[p].r2t[v] = None
  /\ HasNumber(mem[p], k, FarBase)
  /\ SetMem(p, m)
  /\ Issue(m.r2t[v], v, m.gen)
  /\ UNCHANGED <<up, pc, job, raw, holder, disk, dropped, upsets>>

\* tokenize of a new value: wait for the lock.
TokenizeNew(th, v, k) ==
  /\ Ready(th)
  /\ ~mem[ProcOf[th]].memOnly /\ mem[ProcOf[th]].r2t[v] = None
  /\ Begin(th, [NoJob EXCEPT !.kind = "tokenize", !.val = v, !.typ = k])

\* restore_token of a token we hold.
RestoreHit(th) ==
  /\ Ready(th)
  /\ mem[ProcOf[th]].t2r # NoTokens
  /\ Touch(ProcOf[th])
  /\ UNCHANGED <<up, pc, job, raw, holder, issued, dropped, upsets>>

\* restore_token of a token we do not hold: look at the disk, at most twice a second.
RestoreMiss(th) ==
  /\ Ready(th)
  /\ ~mem[ProcOf[th]].memOnly
  /\ \E t \in Tokens : mem[ProcOf[th]].t2r[t] = None
  /\ Begin(th, [NoJob EXCEPT !.kind = "restore"])

\* save after a failed write.
Save(th) ==
  /\ Ready(th)
  /\ mem[ProcOf[th]].dirty /\ ~mem[ProcOf[th]].memOnly
  /\ Begin(th, [NoJob EXCEPT !.kind = "save"])

-----------------------------------------------------------------------------
(* Under the lock.                                                         *)

\* Take the lock and run _sync_locked.
Sync(th) ==
  LET p == ProcOf[th]
      rewrites == Resurrects(mem[p], disk) /\ ~mem[p].memOnly
  IN
  /\ pc[th] = "sync"
  /\ HasFreshGen
  /\ SetMem(p, Synced(p, mem[p], disk, FreshGen))
  /\ CASE rewrites \/ job[th].kind = "save" ->
            Enter(th) /\ Goto(th, "compact") /\ UNCHANGED job
       [] ~rewrites /\ job[th].kind = "tokenize" ->
            Enter(th) /\ Goto(th, "mint") /\ UNCHANGED job
       [] OTHER -> Pass(th) /\ Rest(th)
  /\ UNCHANGED <<up, raw, disk, issued, dropped>>

\* The sync found data it cannot read: mint in memory, without the far base.
MintLockedOut(th) ==
  LET p == ProcOf[th]
      v == job[th].val
      m == IF mem[p].r2t[v] # None THEN mem[p] ELSE Minted(mem[p], v, job[th].typ, 0)
  IN
  /\ pc[th] = "mint"
  /\ mem[p].memOnly
  /\ HasNumber(mem[p], job[th].typ, 0)
  /\ SetMem(p, m)
  /\ Issue(m.r2t[v], v, m.gen)
  /\ Rest(th) /\ Leave(th)
  /\ UNCHANGED <<up, raw, disk, dropped, upsets>>

\* The sync found the value: another process had minted it.
MintFound(th) ==
  LET m == mem[ProcOf[th]] IN
  /\ pc[th] = "mint"
  /\ ~m.memOnly /\ m.r2t[job[th].val] # None
  /\ Issue(m.r2t[job[th].val], job[th].val, m.gen)
  /\ Rest(th) /\ Leave(th)
  /\ UNCHANGED <<mem, up, raw, disk, dropped, upsets>>

\* Vault.tokenize: from here on every thread of the process sees the mapping.
MintNew(th) ==
  LET p == ProcOf[th]
      v == job[th].val
      m == Minted(mem[p], v, job[th].typ, 0)
  IN
  /\ pc[th] = "mint"
  /\ ~mem[p].memOnly /\ mem[p].r2t[v] = None
  /\ HasNumber(mem[p], job[th].typ, 0)
  /\ SetMem(p, m)
  /\ job' = [job EXCEPT ![th].tok = m.r2t[v], ![th].gen = m.gen]
  /\ Goto(th, "append")
  /\ UNCHANGED <<up, raw, holder, disk, issued, dropped, upsets>>

\* The journal with a torn tail terminated.
Lines(d) == IF d.torn = None THEN d.journal ELSE Append(d.journal, d.torn)

LineOf(th) ==
  [tok |-> job[th].tok, val |-> job[th].val, gen |-> mem[ProcOf[th]].gen,
   key |-> KeyOf[ProcOf[th]]]

\* _append up to the decision to compact.
AppendLine(th) ==
  LET p == ProcOf[th]
      m == [mem[p] EXCEPT
              !.joff = (IF disk.torn = None THEN @ ELSE Larger(@, Len(Lines(disk)))) + 1,
              !.jlines = Saturated(@ + 1), !.joined = TRUE]
  IN
  /\ pc[th] = "append"
  /\ SetMem(p, m)
  /\ disk' = [disk EXCEPT !.journal = Append(Lines(disk), LineOf(th)),
                          !.torn = None, !.idle = FALSE]
  /\ Goto(th, IF m.jlines >= CompactEvery \/ disk.main = None THEN "compact" ELSE "return")
  /\ UNCHANGED <<up, job, raw, holder, issued, dropped, upsets>>

\* Something raises: at once, after a torn tail was terminated, or (fsync) after the whole
\* line was written.  The mapping stays in memory, and its token is returned.
AppendFails(th) ==
  LET ended == [disk EXCEPT !.journal = Lines(disk), !.torn = None, !.idle = FALSE]
      written == [ended EXCEPT !.journal = Append(@, LineOf(th))]
  IN
  /\ pc[th] = "append"
  /\ Upset("write")
  /\ disk' \in {disk, written} \cup (IF disk.torn = None THEN {} ELSE {ended})
  /\ SetMem(ProcOf[th],
            [mem[ProcOf[th]] EXCEPT
               !.dirty = TRUE,
               !.joff = IF disk'.torn = disk.torn THEN @ ELSE Larger(@, Len(Lines(disk)))])
  /\ Goto(th, "return")
  /\ UNCHANGED <<up, job, raw, holder, issued, dropped>>

\* tokenize hands the token out.
Return(th) ==
  /\ pc[th] = "return"
  /\ Issue(job[th].tok, job[th].val, job[th].gen)
  /\ Rest(th) /\ Leave(th)
  /\ UNCHANGED <<mem, up, raw, disk, dropped, upsets>>

-----------------------------------------------------------------------------
(* _compact.                                                               *)

\* Where the caller of a compaction goes on.
AfterCompact(th) ==
  LET k == job[th].kind IN
  \/ /\ k = "tokenize"
     /\ Goto(th, IF job[th].tok = None THEN "mint" ELSE "return")
     /\ UNCHANGED <<up, job, holder>>
  \/ /\ k # "tokenize"
     /\ up' = [up EXCEPT ![ProcOf[th]] = "up"]
     /\ Rest(th) /\ Leave(th)

\* A process that has just gone memory-only does not compact.
CompactNothing(th) ==
  /\ pc[th] = "compact"
  /\ mem[ProcOf[th]].memOnly
  /\ AfterCompact(th)
  /\ UNCHANGED <<mem, raw, disk, issued, dropped, upsets>>

\* _payload_bytes: the snapshot to write, taken from memory at once.
Payload(th) ==
  LET m == mem[ProcOf[th]] IN
  /\ pc[th] = "compact"
  /\ ~m.memOnly
  /\ raw' = [raw EXCEPT ![th] = [gen |-> m.gen, t2r |-> m.t2r, ctr |-> m.ctr,
                                 key |-> KeyOf[ProcOf[th]]]]
  /\ SetMem(ProcOf[th], [m EXCEPT !.dirty = FALSE])
  /\ Goto(th, "bak")
  /\ UNCHANGED <<up, job, holder, disk, issued, dropped, upsets>>

WriteBak(th) ==
  /\ pc[th] = "bak"
  /\ disk' = [disk EXCEPT !.bak = raw[th]]
  /\ Goto(th, "main")
  /\ UNCHANGED <<mem, up, job, raw, holder, issued, dropped, upsets>>

WriteMain(th) ==
  /\ pc[th] = "main"
  /\ disk' = [disk EXCEPT !.main = raw[th], !.idle = FALSE]
  /\ SetMemRestat(ProcOf[th], [mem[ProcOf[th]] EXCEPT !.seen = "fresh", !.joined = TRUE])
  /\ Goto(th, "uncleared")
  /\ UNCHANGED <<up, job, raw, holder, issued, dropped, upsets>>

RemoveTombstone(th) ==
  /\ pc[th] = "uncleared"
  /\ disk' = [disk EXCEPT !.cleared = None]
  /\ Goto(th, "truncate")
  /\ UNCHANGED <<mem, up, job, raw, holder, issued, dropped, upsets>>

\* The snapshot holds everything now: empty the journal.
Truncate(th) ==
  /\ pc[th] = "truncate"
  /\ disk' = [disk EXCEPT !.journal = <<>>, !.torn = None]
  /\ SetMem(ProcOf[th], [mem[ProcOf[th]] EXCEPT !.joff = 0, !.jlines = 0])
  /\ raw' = [raw EXCEPT ![th] = None]
  /\ AfterCompact(th)
  /\ UNCHANGED <<issued, dropped, upsets>>

\* Mutant of CompactFails: the mappings count as written (line 464 left out).
CompactFailsForgets(th) ==
  /\ pc[th] \in {"bak", "main", "truncate"}
  /\ Upset("write")
  /\ raw' = [raw EXCEPT ![th] = None]
  /\ AfterCompact(th)
  /\ UNCHANGED <<mem, disk, issued, dropped>>

\* One of the writes raises.
CompactFails(th) ==
  /\ pc[th] \in {"bak", "main", "truncate"}
  /\ Upset("write")
  /\ SetMem(ProcOf[th], [mem[ProcOf[th]] EXCEPT !.dirty = TRUE])
  /\ raw' = [raw EXCEPT ![th] = None]
  /\ AfterCompact(th)
  /\ UNCHANGED <<disk, issued, dropped>>

-----------------------------------------------------------------------------
(* clear, and the deletions that sweep_expired, _load and clear share.     *)

\* clear resets the memory before it waits for the lock.
Clear(th) ==
  LET p == ProcOf[th] IN
  /\ Ready(th)
  /\ Upset("clear")
  /\ mem[p].t2r # NoTokens
  /\ HasFreshGen
  /\ SetMem(p, [NewMemory EXCEPT !.gen = FreshGen, !.joined = mem[p].joined,
                                 !.memOnly = mem[p].memOnly])
  /\ IF mem[p].memOnly
     THEN UNCHANGED <<pc, job>>
     ELSE /\ Goto(th, "clear")
          /\ job' = [job EXCEPT ![th].kind = "clear", ![th].gen = mem[p].gen]
  /\ UNCHANGED <<up, raw, holder, disk, issued, dropped>>

ClearFiles(th) ==
  /\ pc[th] = "clear"
  /\ Enter(th)
  /\ job' = [job EXCEPT ![th].todo = <<"main", "bak", "journal">>]
  /\ Goto(th, "unlink")
  /\ dropped' = job[th].gen
  /\ UNCHANGED <<mem, up, raw, disk, issued>>

Without(d, f) ==
  CASE f = "main"    -> [d EXCEPT !.main = None]
    [] f = "bak"     -> [d EXCEPT !.bak = None]
    [] f = "journal" -> [d EXCEPT !.journal = <<>>, !.torn = None]

Unlink(th) ==
  LET todo == job[th].todo IN
  /\ pc[th] = "unlink"
  /\ disk' = Without(disk, Head(todo))
  /\ mem' = [p \in Procs |-> IF Head(todo) = "main" THEN Restat(mem[p]) ELSE mem[p]]
  /\ job' = [job EXCEPT ![th].todo = Tail(todo)]
  /\ Goto(th, IF Len(todo) = 1 THEN "tombstone" ELSE "unlink")
  /\ UNCHANGED <<up, raw, holder, issued, dropped, upsets>>

\* _tombstone, and where its caller goes on.
Tombstone(th) ==
  LET p == ProcOf[th] IN
  /\ pc[th] = "tombstone"
  /\ disk' = [disk EXCEPT !.cleared = job[th].gen]
  /\ CASE job[th].kind = "boot" ->       \* the sweep; _load is next
            /\ Goto(th, "load")
            /\ job' = [job EXCEPT ![th].gen = None]
            /\ UNCHANGED <<mem, up>>
       [] job[th].kind = "expire" ->     \* _load; __init__ invents a generation
            /\ HasFreshGen
            /\ SetMem(p, Loaded(p, [disk EXCEPT !.main = None, !.bak = None,
                                                !.journal = <<>>], FreshGen))
            /\ up' = [up EXCEPT ![p] = "up"]
            /\ Rest(th)
       [] OTHER -> Rest(th) /\ UNCHANGED <<mem, up>>
  /\ Leave(th)
  /\ UNCHANGED <<raw, issued, dropped, upsets>>

-----------------------------------------------------------------------------
(* The environment.                                                        *)

\* What a process that dies leaves of the variables.
Dies(p) ==
  /\ mem' = [mem EXCEPT ![p] = NewMemory]
  /\ up' = [up EXCEPT ![p] = "down"]
  /\ pc' = [th \in Threads |-> IF ProcOf[th] = p THEN "idle" ELSE pc[th]]
  /\ job' = [th \in Threads |-> IF ProcOf[th] = p THEN NoJob ELSE job[th]]
  /\ raw' = [th \in Threads |-> IF ProcOf[th] = p THEN None ELSE raw[th]]
  /\ holder' = IF holder # None /\ ProcOf[holder] = p THEN None ELSE holder

\* A process is killed anywhere ("crash"), or exits between two calls ("stop").
Crash(p) ==
  /\ up[p] # "down"
  /\ \/ Upset("crash")
     \/ up[p] = "up" /\ Upset("stop") /\ \A th \in Threads : ProcOf[th] = p => pc[th] = "idle"
  /\ Dies(p)
  /\ UNCHANGED <<disk, issued, dropped>>

\* A crash in the middle of a journal write: part of the line, or ("torn_whole") all of
\* it but the newline, is on disk.
CrashTorn(th) ==
  LET line == LineOf(th)
      part == [tok |-> None, val |-> None, gen |-> None, key |-> line.key]
  IN
  /\ pc[th] = "append"
  /\ \E t \in {part, line} :
       /\ Upset(IF t = part THEN "torn" ELSE "torn_whole")
       /\ disk' = [disk EXCEPT !.journal = Lines(disk), !.torn = t, !.idle = FALSE]
  /\ Dies(ProcOf[th])
  /\ UNCHANGED <<issued, dropped>>

\* The TTL passes while nobody uses the vault, or just before a process that has swept loads.
Age ==
  /\ Upset("age")
  /\ ~disk.idle /\ (disk.main # None \/ disk.journal # <<>>)
  /\ \A th \in Threads : pc[th] \in {"idle", "load"}
  /\ disk' = [disk EXCEPT !.idle = TRUE]
  /\ UNCHANGED <<mem, up, pc, job, raw, holder, issued, dropped>>

Intact(s) == IsFile(s) /\ s.key # None

\* Files are harmed while processes run ("damage"), or only while none does ("cold"); one
\* of the two copies at a time, as _compact expects (lines 429-431).
Harm(f) ==
  /\ Intact(disk[f]) /\ Intact(disk[IF f = "main" THEN "bak" ELSE "main"])
  /\ Upset("damage") \/ (Upset("cold") /\ \A p \in Procs : up[p] = "down")
  /\ mem' = [p \in Procs |-> IF f = "main" THEN Restat(mem[p]) ELSE mem[p]]
  /\ UNCHANGED <<up, pc, job, raw, holder, issued, dropped>>

\* A plaintext file no longer parses, an encrypted one no longer decrypts under any key.
Damage(f) ==
  /\ Harm(f)
  /\ disk' = [disk EXCEPT ![f] = IF @.key = NoKey THEN Corrupt ELSE [@ EXCEPT !.key = None]]

\* The snapshot is lost, or deleted by hand.
LoseMain == Harm("main") /\ disk' = [disk EXCEPT !.main = None]

-----------------------------------------------------------------------------
Operation(th) ==
  \/ Start(th)
  \/ \E v \in Values : Reuse(th, v)
  \/ \E v \in Values, k \in Types : TokenizeFar(th, v, k)
  \/ \E v \in Values, k \in Types : TokenizeNew(th, v, k)
  \/ RestoreHit(th)
  \/ RestoreMiss(th)
  \/ Save(th)
  \/ Clear(th)

Step(th) ==
  \/ SweepExpired(th) \/ SweepNothing(th) \/ LoadExpired(th) \/ Load(th)
  \/ Sync(th)
  \/ MintLockedOut(th) \/ MintFound(th) \/ MintNew(th)
  \/ AppendLine(th) \/ Return(th)
  \/ CompactNothing(th) \/ Payload(th) \/ WriteBak(th) \/ WriteMain(th)
  \/ RemoveTombstone(th) \/ Truncate(th)
  \/ ClearFiles(th) \/ Unlink(th) \/ Tombstone(th)

Environment ==
  \/ \E th \in Threads : AppendFails(th) \/ CompactFails(th) \/ CrashTorn(th)
  \/ \E p \in Procs : Crash(p)
  \/ \E f \in {"main", "bak"} : Damage(f)
  \/ LoseMain
  \/ Age

Next == (\E th \in Threads : Operation(th) \/ Step(th)) \/ Environment

Spec == Init /\ [][Next]_vars

\* Threads are scheduled, and a lock holder keeps the lock for milliseconds while a waiter
\* polls it for ten seconds: a thread that can go on time and again does go on.
Fairness == \A th \in Threads : SF_vars(Step(th))

FairSpec == Spec /\ Fairness

TypeOK ==
  /\ mem \in [Procs -> Memory]
  /\ up \in [Procs -> {"down", "boot", "up"}]
  /\ pc \in [Threads -> PCs]
  /\ job \in [Threads -> Job]
  /\ raw \in [Threads -> Snapshot \cup {None}]
  /\ holder \in Threads \cup {None}
  /\ disk \in Disk
  /\ issued \subseteq [tok : Tokens, val : Values, gen : Gens]
  /\ dropped \in Gens \cup {None}
  /\ upsets \in [UpsetKinds -> Nat]

-----------------------------------------------------------------------------
(* Properties.                                                             *)

\* The journal is written before a token is returned: whatever has crashed, a process
\* that starts now (and gets the lock to load) with a key that opens the vault restores
\* every token of the lifetime it joins.
Durable ==
  \A p \in Procs, r \in issued :
    LET m == Loaded(p, disk, None) IN
    holder = None /\ ~m.memOnly /\ m.gen = r.gen => m.t2r[r.tok] = r.val

\* In memory a value's token restores to that value, after any merge or swap.
Coherent ==
  \A p \in Procs, v \in Values :
    mem[p].r2t[v] # None => mem[p].t2r[mem[p].r2t[v]] = v

\* A live process that shares a lifetime with an issued token never restores it to
\* another value.
RestoresFaithfully ==
  \A p \in Procs, r \in issued :
    mem[p].gen = r.gen => mem[p].t2r[r.tok] \in {None, r.val}

\* A process that has read the current snapshot, has nothing unwritten and is not in the
\* middle of a clear, is in the snapshot's lifetime: processes started in any order on an empty directory converge.
SharedLifetime ==
  \A p \in Procs :
    LET current == mem[p].seen = "fresh" /\ IsFile(disk.main) /\ ~mem[p].memOnly
        settled == ~mem[p].dirty /\ \A th \in Threads : ProcOf[th] = p => job[th].kind # "clear"
    IN  current /\ settled => mem[p].gen = disk.main.gen

\* Picked up on demand: a restore that had to look at the disk knows, when it is done,
\* every token that was handed out before.
RestoreFindsIssued ==
  [][\A th \in Threads :
       pc[th] = "sync" /\ job[th].kind = "restore" /\ pc'[th] = "idle" /\ up'[ProcOf[th]] = "up"
         => \A r \in issued : mem'[ProcOf[th]].gen = r.gen
                                => mem'[ProcOf[th]].t2r[r.tok] = r.val]_vars

\* A process never overwrites, moves or empties what it cannot read for want of the key:
\* neither the snapshot nor the journal (lines 16-18, 279-283).
NeverTouchesLocked ==
  [][\A th \in Threads :
       LET p == ProcOf[th]
           foreign(s) == IsFile(s) /\ s.key \notin {NoKey, None, KeyOf[p]}
           acts == /\ pc[th] \in {"load", "sync", "append", "bak", "main", "truncate"}
                   /\ pc'[th] # pc[th] /\ up'[p] # "down"
       IN  acts => /\ foreign(disk.main) => disk'.main = disk.main
                   /\ (\E i \in DOMAIN disk.journal : LineLocked(p, disk.journal[i]))
                        => disk'.journal # <<>>]_vars

\* A memory-only process's generation is its own: nothing keyed to generations (the
\* replay cache) mixes its tokens with the vault's.
LockedOutIsPrivate ==
  \A p \in Procs :
    mem[p].memOnly =>
      /\ \A q \in Procs \ {p} : mem[q].gen # mem[p].gen
      /\ IsFile(disk.main) => disk.main.gen # mem[p].gen
      /\ \A i \in DOMAIN disk.journal : disk.journal[i].gen # mem[p].gen

\* Whoever has the key gets in: no process with the vault's key is ever memory-only.
KeyHolderGetsIn == \A p \in Procs : ~mem[p].memOnly

\* Every call returns: no wait on the lock, no deletion and no compaction hangs a thread,
\* whoever else starts, stops, clears or compacts.
EveryCallReturns == \A th \in Threads : pc[th] # "idle" ~> pc[th] = "idle"

\* A lifetime that was dropped on purpose, by clear or because it expired, is not written
\* back by a process that still has it in memory (lines 337-345, 505-506): the next snapshot
\* next to a tombstone is not of the lifetime that the tombstone stands for.
DroppedStaysDropped ==
  [][disk.main = None /\ disk.cleared # None /\ IsFile(disk'.main)
       => disk'.main.gen # dropped]_vars

\* A failed write is not forgotten (lines 463-465, 492-494): as long as every lock was had,
\* a process that has a token the files would not give back to it knows that it has
\* something to write.
KnowsUnwritten ==
  \A p \in Procs, r \in issued :
    LET calm == holder = None /\ upsets["timeout"] = 0
        clean == up[p] = "up" /\ ~mem[p].memOnly /\ ~mem[p].dirty
    IN  calm /\ clean /\ mem[p].gen = r.gen /\ mem[p].t2r[r.tok] = r.val
          => Loaded(p, disk, None).t2r[r.tok] = r.val

\* What a process can restore of the tokens handed out in its lifetime.
Restorable ==
  [p \in Procs |-> {r \in issued : r.gen = mem[p].gen /\ mem[p].t2r[r.tok] = r.val}]

Store == INSTANCE TokenStore WITH life <- [p \in Procs |-> mem[p].gen], known <- Restorable

\* The vault keeps its promise: one token per value and one value per token, nothing taken
\* back, and no process unlearns a token it could restore while it stays in the lifetime.
ImplementsStore == Store!Spec
=============================================================================
