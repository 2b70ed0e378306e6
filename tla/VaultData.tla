------------------------------ MODULE VaultData ------------------------------
(***************************************************************************)
(* What one process knows of the vault, and what it makes of the files:    *)
(* the data of src/hermescloak/durable_vault.py and vault.py, and the      *)
(* functions of their methods that do not depend on who runs when.         *)
(* DurableVault is the state machine that uses them.                       *)
(***************************************************************************)
EXTENDS Integers, Sequences, FiniteSetsExt

CONSTANTS
  Procs,          \* processes sharing one HERMES_HOME
  Threads,        \* threads of all processes
  ProcOf,         \* the process of each thread
  Values,         \* real values
  Types,          \* entity types
  MaxN,           \* bound: token numbers run over 1 .. MaxN
  FarBase,        \* the number a memory-only process counts on from
  CompactEvery,   \* journal entries that trigger a compaction
  Gens,           \* bound: vault lifetimes (random ids in the code)
  KeyOf,          \* the key each process is configured with
  NoKey,          \* "no encryption configured"
  BadKey,         \* a key string that is not a Fernet key (e.g. "!unreadable")
  Budget,         \* bound: how often each upset (a fault, a drop of the vault) happens
  None,           \* no value, token, file, generation, key, thread
  Corrupt,        \* a file that does not parse
  Blank           \* the content of the tombstone a TTL sweep leaves

\* "crash": killed anywhere; "stop": exits between two calls; "torn", "torn_whole": killed
\* in the middle of a journal write; "write": a write raises; "timeout": the lock is not
\* had in time; "damage", "cold": a file goes bad while processes run, or while none does;
\* "clear": clear is called; "age": the TTL passes.
UpsetKinds ==
  {"crash", "stop", "torn", "torn_whole", "write", "timeout", "damage", "cold",
   "clear", "age"}

ASSUME ConstantsAssumption ==
  /\ ProcOf \in [Threads -> Procs]
  /\ MaxN \in Nat /\ FarBase \in 0 .. MaxN /\ CompactEvery \in Nat \ {0}
  /\ Budget \in [UpsetKinds -> Nat]
  /\ None \notin Values \cup Gens \cup Threads \cup (Types \X (1 .. MaxN))
  /\ BadKey # NoKey /\ None # NoKey

\* A generation is a random hexadecimal id: no emptiness in the tombstone passes for one.
ASSUME BlankAssumption == Blank \notin Gens

Numbers == 1 .. MaxN
Tokens == Types \X Numbers
Keys == {KeyOf[p] : p \in Procs} \cup {NoKey}

\* The token -> real map and the counters, as every copy of the vault holds them.
TokenMap == [Tokens -> Values \cup {None}]
Counters == [Types -> 0 .. MaxN]
NoTokens == [t \in Tokens |-> None]
NoCounts == [k \in Types |-> 0]

\* key = None: encrypted bytes that no key decrypts any more.
Snapshot == [gen : Gens, t2r : TokenMap, ctr : Counters, key : Keys \cup {None}]
\* A journal line; tok = None is a line that does not decode (a torn one, terminated).
Entry == [tok : Tokens, val : Values, gen : Gens, key : Keys]
           \cup [tok : {None}, val : {None}, gen : {None}, key : Keys]

\* A file that is missing or does not parse is no snapshot, and the one is not the other.
ASSUME NoSnapshotAssumption == None # Corrupt /\ {None, Corrupt} \cap Snapshot = {}

\* One DurableVault object (without its key, which KeyOf gives).
Memory ==
  [ t2r     : TokenMap,                           \* _token_to_real
    r2t     : [Values -> Tokens \cup {None}],     \* _real_to_token
    ctr     : Counters,                           \* _counters; 0 is "no entry"
    gen     : Gens \cup {None},                   \* generation
    dirty   : BOOLEAN,                            \* _dirty
    seen    : {"none", "stale", "fresh"},         \* _seen against the file's stat
    joff    : Nat,                                \* _joff, in lines
    jlines  : 0 .. CompactEvery,                  \* _jlines, saturated
    joined  : BOOLEAN,                            \* _gen_persisted
    memOnly : BOOLEAN ]                           \* memory_only

NewMemory ==
  [ t2r |-> NoTokens, r2t |-> [v \in Values |-> None], ctr |-> NoCounts,
    gen |-> None, dirty |-> FALSE, seen |-> "none", joff |-> 0, jlines |-> 0,
    joined |-> FALSE, memOnly |-> FALSE ]

Disk ==
  [ main    : Snapshot \cup {None, Corrupt},      \* <file>
    bak     : Snapshot \cup {None, Corrupt},      \* <file>.bak
    journal : Seq(Entry),                         \* <file>.journal, complete lines
    torn    : Entry \cup {None},                  \* its tail without a newline
    cleared : Gens \cup {None, Blank},            \* <file>.cleared
    idle    : BOOLEAN ]                           \* last change older than the TTL

-----------------------------------------------------------------------------
(* Reading the files.                                                      *)

IsFile(s) == s \notin {None, Corrupt}

\* read_payload: a plaintext file is readable under any key.
Readable(p, s) == IsFile(s) /\ s.key \in {NoKey, KeyOf[p]}

\* Mutant of Locked: a wrong key is taken for a corrupt file.
NeverLocked(p, s) == FALSE

\* read_payload raises VaultLocked: encrypted, and no key or another key.
Locked(p, s) == IsFile(s) /\ s.key \notin {NoKey, KeyOf[p]} /\ KeyOf[p] # BadKey

\* read_payload raises anything else; an invalid key raises ValueError, not VaultLocked.
Unreadable(p, s) == s # None /\ ~Readable(p, s) /\ ~Locked(p, s)

\* _decrypt_line accepts the line: with a key set, a plaintext line is a bad line.
Legible(p, e) == e.tok # None /\ e.key = KeyOf[p]

\* _decrypt_line raises VaultLocked: an encrypted line that this key does not decrypt.
LineLocked(p, e) == e.key # NoKey /\ (e.tok = None \/ e.key # KeyOf[p])

-----------------------------------------------------------------------------
(* The in-memory vault.                                                    *)

\* Some token of S; which one only matters once a value has got two tokens.
AnyOf(S) == IF S = {} THEN None ELSE CHOOSE t \in S : TRUE

Larger(a, b) == IF a < b THEN b ELSE a

\* Mutant of Merge: the reverse map is not filled (line 302 left out).
MergeForwardOnly(m, t2r, ctr) ==
  [m EXCEPT !.t2r = [t \in Tokens |-> IF @[t] # None THEN @[t] ELSE t2r[t]],
            !.ctr = [k \in Types |-> Larger(@[k], ctr[k])]]

\* _merge: adopt a writer's mappings and counters, never breaking our own.
Merge(m, t2r, ctr) ==
  [m EXCEPT
     !.t2r = [t \in Tokens |-> IF @[t] # None THEN @[t] ELSE t2r[t]],
     !.r2t = [v \in Values |->
                IF @[v] # None THEN @[v]
                ELSE AnyOf({t \in Tokens : m.t2r[t] = None /\ t2r[t] = v})],
     !.ctr = [k \in Types |-> Larger(@[k], ctr[k])]]

\* Mutant of SwapIn: the emptied vault keeps its generation (line 529 left out).
SwapInKeepsGen(m, t2r, ctr, gen, joined) ==
  [m EXCEPT !.t2r = t2r, !.r2t = [v \in Values |-> AnyOf({t \in Tokens : t2r[t] = v})],
            !.ctr = ctr, !.joined = joined, !.dirty = FALSE, !.joff = 0, !.jlines = 0]

\* _swap_in: replace the map by another lifetime's.
SwapIn(m, t2r, ctr, gen, joined) ==
  [m EXCEPT
     !.t2r = t2r,
     !.r2t = [v \in Values |-> AnyOf({t \in Tokens : t2r[t] = v})],
     !.ctr = ctr, !.gen = gen, !.joined = joined,
     !.dirty = FALSE, !.joff = 0, !.jlines = 0]

\* Mutant of GoMemoryOnly: the shared generation is kept (line 293 left out).
GoMemoryOnlyShared(m, g) ==
  [m EXCEPT !.memOnly = TRUE, !.gen = IF @ = None THEN g ELSE @,
            !.ctr = [k \in Types |-> IF @[k] = 0 THEN 0 ELSE Larger(@[k], FarBase)]]

\* _go_memory_only: never write again, count on from far away, private generation.
GoMemoryOnly(m, g) ==
  [m EXCEPT
     !.memOnly = TRUE, !.gen = g,
     !.ctr = [k \in Types |-> IF @[k] = 0 THEN 0 ELSE Larger(@[k], FarBase)]]

\* ... which it does once: the process keeps what it has become.
LockOut(m, g) == IF m.memOnly THEN m ELSE GoMemoryOnly(m, g)

\* Mutant of NextNumber: every value starts the numbering again (line 26 ignores the counter,
\* line 28 is left out).
NextNumberRestarts(m, k, base) == base + 1

\* Vault.tokenize for a value that has no token: the first free number from `base` on.
NextNumber(m, k, base) ==
  Min({n \in Numbers : n > Larger(m.ctr[k], base) /\ m.t2r[<<k, n>>] = None})

HasNumber(m, k, base) ==
  \E n \in Numbers : n > Larger(m.ctr[k], base) /\ m.t2r[<<k, n>>] = None

Minted(m, v, k, base) ==
  LET n == NextNumber(m, k, base) IN
  [m EXCEPT !.t2r[<<k, n>>] = v, !.r2t[v] = <<k, n>>, !.ctr[k] = n]

-----------------------------------------------------------------------------
(* sync and load: what a process knows after reading the files.            *)

\* The journal lines from offset `from` on, as a merge sees them: first line wins.
LinesFrom(p, d, from) == {i \in from + 1 .. Len(d.journal) : Legible(p, d.journal[i])}

JournalTokens(p, d, from) ==
  [t \in Tokens |->
     LET lines == {i \in LinesFrom(p, d, from) : d.journal[i].tok = t}
     IN  IF lines = {} THEN None ELSE d.journal[Min(lines)].val]

JournalCounts(p, d, from) ==
  [k \in Types |->
     Max({0} \cup {d.journal[i].tok[2] :
                     i \in {j \in LinesFrom(p, d, from) : d.journal[j].tok[1] = k}})]

JournalGen(p, d, from) ==
  LET lines == LinesFrom(p, d, from)
  IN  IF lines = {} THEN None ELSE d.journal[Min(lines)].gen

Saturated(n) == IF n > CompactEvery THEN CompactEvery ELSE n

\* _read_journal: from our offset, or from 0 if the journal has been truncated; one
\* line under a foreign key sends the process memory-only before anything is merged.
ReadJournal(p, m, d, g) ==
  LET from == IF m.joff > Len(d.journal) THEN 0 ELSE m.joff
  IN  IF \E i \in from + 1 .. Len(d.journal) : LineLocked(p, d.journal[i])
      THEN LockOut([m EXCEPT !.joff = from], g)
      ELSE [Merge(m, JournalTokens(p, d, from), JournalCounts(p, d, from)) EXCEPT
              !.gen = IF @ # None THEN @ ELSE JournalGen(p, d, from),
              !.joff = Len(d.journal),
              !.jlines = Saturated(@ + Cardinality(LinesFrom(p, d, from)))]

\* Mutant of AdoptSnapshot: the mappings are merged, the generation is not looked at.
AdoptKeepingGen(m, s) == [Merge(m, s.t2r, s.ctr) EXCEPT !.seen = "fresh"]

\* Mutant of AdoptSnapshot: a new lifetime's map is merged into ours instead of replacing it.
AdoptMixing(m, s) == [Merge(m, s.t2r, s.ctr) EXCEPT !.seen = "fresh", !.gen = s.gen]

\* _sync_locked, lines 359-373: the snapshot changed and is readable.
AdoptSnapshot(m, s) ==
  LET conv == IF s.gen # m.gen /\ ~m.joined
              THEN [m EXCEPT !.gen = s.gen, !.joined = TRUE] ELSE m
      next == IF s.gen # conv.gen /\ ~conv.dirty
              THEN SwapIn(conv, s.t2r, s.ctr, s.gen, TRUE)
              ELSE Merge(conv, s.t2r, s.ctr)
  IN  [next EXCEPT !.seen = "fresh"]

\* The snapshot we had merged is gone while we hold mappings.
Vanished(m, d) == d.main = None /\ m.seen # "none" /\ m.t2r # NoTokens

\* Mutant of DroppedElsewhere: the empty tombstone of a sweep is not heeded (line 337 without "").
DroppedUnlessSwept(m, d) ==
  Vanished(m, d) /\ d.cleared = m.gen /\ ~m.dirty

\* ... and a tombstone says our lifetime was dropped on purpose, and nothing is unwritten.
DroppedElsewhere(m, d) ==
  Vanished(m, d) /\ d.cleared \in {Blank, m.gen} /\ ~m.dirty

\* ... and nothing says so: the process writes it back.
Resurrects(m, d) == Vanished(m, d) /\ ~DroppedElsewhere(m, d)

SnapshotChanged(m, d) == d.main # None /\ m.seen # "fresh"

\* Mutant of Synced: the journal is read at start only.
SyncedSnapshotOnly(p, m, d, g) ==
  CASE DroppedElsewhere(m, d) ->
         [SwapIn(m, NoTokens, NoCounts, g, FALSE) EXCEPT !.seen = "none"]
    [] Resurrects(m, d) -> [m EXCEPT !.dirty = TRUE]
    [] SnapshotChanged(m, d) /\ Locked(p, d.main) -> LockOut(m, g)
    [] SnapshotChanged(m, d) /\ Readable(p, d.main) -> AdoptSnapshot(m, d.main)
    [] OTHER -> m

\* _sync_locked, without the compaction a resurrection runs.
Synced(p, m, d, g) ==
  LET m0 == IF SnapshotChanged(m, d) THEN [m EXCEPT !.joff = 0] ELSE m IN
  CASE DroppedElsewhere(m, d) ->
         [SwapIn(m, NoTokens, NoCounts, g, FALSE) EXCEPT !.seen = "none"]
    [] Resurrects(m, d) -> [m EXCEPT !.dirty = TRUE]
    [] SnapshotChanged(m, d) /\ Locked(p, d.main) -> LockOut(m0, g)
    [] SnapshotChanged(m, d) /\ Readable(p, d.main) ->
         ReadJournal(p, AdoptSnapshot(m0, d.main), d, g)
    [] OTHER -> ReadJournal(p, m0, d, g)

\* _load asks the backup: the snapshot is missing, does not parse, or does not decrypt.
AsksBackup(p, d) ==
  \/ d.main = None
  \/ Unreadable(p, d.main)
  \/ Locked(p, d.main) /\ KeyOf[p] # NoKey /\ d.bak # None

\* Mutant of RestoresBackup: an unreadable snapshot starts an empty vault.
NeverRestores(p, d) == FALSE

RestoresBackup(p, d) == AsksBackup(p, d) /\ Readable(p, d.bak)

\* _load gives up on the files: neither copy it asked decrypts.
LockedOut(p, d) ==
  \/ Locked(p, d.main) /\ ~RestoresBackup(p, d)
  \/ AsksBackup(p, d) /\ Locked(p, d.bak)

\* _load moves the snapshot to <file>.corrupt-<ts>.
Quarantines(p, d) ==
  \/ Unreadable(p, d.main)
  \/ Locked(p, d.main) /\ RestoresBackup(p, d)

\* Mutant of Loaded: a locked-out or fresh vault gets no generation (lines 200-201 left out).
LoadedWithoutGen(p, d, g) ==
  LET copy == IF Readable(p, d.main)
              THEN [Merge(NewMemory, d.main.t2r, d.main.ctr) EXCEPT
                      !.gen = d.main.gen, !.seen = "fresh"]
              ELSE NewMemory
  IN  ReadJournal(p, copy, d, g)

\* The rest of _load and __init__ once the files have not expired, up to the compaction
\* that follows a restore from the backup.
Loaded(p, d, g) ==
  LET start == [NewMemory EXCEPT !.memOnly = (KeyOf[p] = BadKey)]
      adopt(s, seen) == [Merge(start, s.t2r, s.ctr) EXCEPT !.gen = s.gen, !.seen = seen]
      copy == CASE Readable(p, d.main)   -> adopt(d.main, "fresh")
                [] RestoresBackup(p, d)  -> adopt(d.bak, "none")
                [] OTHER                 -> start
      read == IF LockedOut(p, d) THEN GoMemoryOnly(start, g) ELSE ReadJournal(p, copy, d, g)
      last == IF KeyOf[p] = BadKey THEN GoMemoryOnly(read, g) ELSE read
  IN  IF last.gen = None THEN [last EXCEPT !.gen = g] ELSE [last EXCEPT !.joined = TRUE]
=============================================================================
