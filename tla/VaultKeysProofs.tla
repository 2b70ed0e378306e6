---------------------------- MODULE VaultKeysProofs ----------------------------
(***************************************************************************)
(* What processes must leave alone.  Those that cannot read the vault, for *)
(* want of the key or because theirs is another one, mint what is nobody   *)
(* else's and do not touch what they cannot read; those that can read it   *)
(* do not write back a lifetime that was dropped on purpose.               *)
(***************************************************************************)
EXTENDS DurableVaultProofs

-----------------------------------------------------------------------------
(* A locked-out process keeps to itself: the invariant.                    *)

\* The generations that the files, and the payloads on their way there, name.
GensOf(d, r) ==
  {s.gen : s \in {x \in {d.main, d.bak} \cup {r[th] : th \in Threads} : IsFile(x)}}
    \cup {d.journal[i].gen : i \in DOMAIN d.journal}
    \cup (IF d.torn = None THEN {} ELSE {d.torn.gen})

\* A locked-out process's generation is nowhere else.
Private(p) ==
  mem[p].memOnly =>
    /\ mem[p].gen \in Gens \ GensOf(disk, raw)
    /\ \A q \in Procs \ {p} : mem[q].gen # mem[p].gen

\* Where a thread is about to read the files or to write.
Writing == {"sync", "append", "bak", "main", "uncleared", "truncate"}
Stopped(th) == mem[ProcOf[th]].memOnly => pc[th] \notin Writing

PrivInv == (\A p \in Procs : Private(p)) /\ (\A th \in Threads : Stopped(th))

-----------------------------------------------------------------------------
(* What a step may do to the generations.                                  *)

\* What process a's handlers write, and what it may turn into.
Lent(a) == IF mem[a].memOnly THEN {None} ELSE {None, mem[a].gen}

Takes(a) ==
  \/ mem'[a].gen = mem[a].gen /\ (mem'[a].memOnly => mem[a].memOnly)
  \/ mem'[a].gen \in Gens \ UsedGens
  \/ ~mem'[a].memOnly /\ mem'[a].gen \in GensOf(disk, raw) \cup {None}

LEMMA Used ==
  /\ GensOf(disk, raw) \subseteq UsedGens
  /\ \A p \in Procs : mem[p].gen \in UsedGens
  /\ HasFreshGen => FreshGen \in Gens \ UsedGens
BY DEF GensOf, UsedGens, HasFreshGen, FreshGen

\* A step in which one process writes and takes generations like that keeps the others'
\* generations theirs.
LEMMA PrivateStep ==
  ASSUME \A p \in Procs : Private(p), NEW a \in Procs, Takes(a),
         GensOf(disk, raw)' \subseteq GensOf(disk, raw) \cup Lent(a),
         \A q \in Procs \ {a} : mem'[q].gen = mem[q].gen /\ mem'[q].memOnly = mem[q].memOnly
  PROVE  \A p \in Procs : Private(p)'
<1> SUFFICES ASSUME NEW p \in Procs, mem'[p].memOnly
             PROVE  /\ mem'[p].gen \in Gens \ GensOf(disk, raw)'
                    /\ \A q \in Procs \ {p} : mem'[q].gen # mem'[p].gen
  BY DEF Private
<1>1. None \notin Gens
  BY ConstantsAssumption
<1>2. CASE p # a
  <2>1. /\ mem[p].memOnly /\ mem'[p].gen = mem[p].gen
        /\ mem[p].gen \in Gens \ GensOf(disk, raw) /\ mem[p].gen # mem[a].gen
        /\ \A q \in Procs \ {p} : mem[q].gen # mem[p].gen
    BY <1>2 DEF Private
  <2>2. mem'[a].gen # mem[p].gen
    BY <1>1, <2>1, Used DEF Takes
  <2> QED BY <1>1, <2>1, <2>2 DEF Lent
<1>3. CASE p = a
  <2>1. CASE mem'[a].gen = mem[a].gen /\ mem[a].memOnly
    BY <1>1, <1>3, <2>1 DEF Private, Lent
  <2>2. CASE mem'[a].gen \in Gens \ UsedGens
    <3>1. GensOf(disk, raw)' \subseteq UsedGens \cup {None}
      BY Used DEF Lent
    <3> QED BY <1>1, <1>3, <2>2, <3>1, Used
  <2> QED BY <1>3, <2>1, <2>2 DEF Takes
<1> QED BY <1>2, <1>3

\* A step of one thread that has a process to itself.
LEMMA StoppedStep ==
  ASSUME OneCallEach, PrivInv, pc \in [Threads -> PCs], NEW th \in Threads,
         \A x \in Threads \ {th} : pc'[x] = pc[x],
         \A q \in Procs \ {ProcOf[th]} : mem'[q].memOnly = mem[q].memOnly,
         mem'[ProcOf[th]].memOnly => pc'[th] \notin Writing
  PROVE  \A x \in Threads : Stopped(x)'
BY OwnerType DEF OneCallEach, PrivInv, Stopped

\* Fewer files and payloads name fewer generations.
LEMMA GensIn ==
  ASSUME NEW S, NEW d, NEW r,
         \A s \in {d.main, d.bak} \cup {r[th] : th \in Threads} : IsFile(s) => s.gen \in S,
         \A i \in DOMAIN d.journal : d.journal[i].gen \in S,
         d.torn # None => d.torn.gen \in S
  PROVE  GensOf(d, r) \subseteq S
BY DEF GensOf

LEMMA InGens ==
  ASSUME NEW d, NEW r
  PROVE  /\ \A s \in {d.main, d.bak} \cup {r[th] : th \in Threads} :
              IsFile(s) => s.gen \in GensOf(d, r)
         /\ \A i \in DOMAIN d.journal : d.journal[i].gen \in GensOf(d, r)
         /\ d.torn # None => d.torn.gen \in GensOf(d, r)
BY DEF GensOf

-----------------------------------------------------------------------------
(* Every step keeps it: those that take no generation.                     *)

LEMMA SameGens ==
  ASSUME OneCallEach, PrivInv, IInv, NEW th \in Threads,
         \A q \in Procs : mem'[q].gen = mem[q].gen /\ mem'[q].memOnly = mem[q].memOnly,
         GensOf(disk, raw)' \subseteq GensOf(disk, raw) \cup Lent(ProcOf[th]),
         \A x \in Threads \ {th} : pc'[x] = pc[x],
         mem[ProcOf[th]].memOnly => pc'[th] \notin Writing
  PROVE  PrivInv'
<1>1. ProcOf[th] \in Procs /\ Takes(ProcOf[th])
  BY OwnerType DEF Takes
<1>2. \A p \in Procs : Private(p)'
  BY <1>1, PrivateStep DEF PrivInv
<1>3. \A x \in Threads : Stopped(x)'
  BY <1>1, StoppedStep DEF IInv, ControlInv
<1> QED BY <1>2, <1>3 DEF PrivInv

\* The files but for the tombstone and the time are as they were.
SameFiles ==
  /\ disk'.main = disk.main /\ disk'.bak = disk.bak
  /\ disk'.journal = disk.journal /\ disk'.torn = disk.torn

LEMMA SameFilesGens ==
  ASSUME SameFiles, UNCHANGED raw PROVE GensOf(disk, raw)' = GensOf(disk, raw)
BY DEF SameFiles, GensOf

LEMMA MintedKeeps ==
  ASSUME NEW m \in Memory, NEW v, NEW k, NEW base
  PROVE  /\ Minted(m, v, k, base).gen = m.gen /\ Minted(m, v, k, base).memOnly = m.memOnly
         /\ Minted(m, v, k, base).seen = m.seen /\ Minted(m, v, k, base).joff = m.joff
BY DEF Minted, Memory

LEMMA RestatKeeps ==
  ASSUME NEW m \in Memory
  PROVE  Restat(m).gen = m.gen /\ Restat(m).memOnly = m.memOnly /\ Restat(m).joff = m.joff
BY DEF Restat, Memory

\* A call is made, or a start goes on to its load.
LEMMA CallsPriv ==
  ASSUME OneCallEach, PrivInv, IInv, NEW th \in Threads,
         \/ Start(th) \/ SweepExpired(th) \/ SweepNothing(th) \/ LoadExpired(th)
         \/ \E v \in Values, k \in Types : TokenizeNew(th, v, k)
         \/ RestoreMiss(th) \/ Save(th) \/ ClearFiles(th)
  PROVE  PrivInv'
<1>1. UNCHANGED <<mem, raw, disk>>
  BY DEF Start, SweepExpired, SweepNothing, LoadExpired, TokenizeNew, RestoreMiss, Save,
         ClearFiles, Begin
<1>2. \A x \in Threads \ {th} : pc'[x] = pc[x]
  BY DEF Start, SweepExpired, SweepNothing, LoadExpired, TokenizeNew, RestoreMiss, Save,
         ClearFiles, Begin, Goto, IInv, ControlInv
<1>3. mem[ProcOf[th]].memOnly => pc'[th] \notin Writing
  BY DEF Start, SweepExpired, SweepNothing, LoadExpired, TokenizeNew, RestoreMiss, Save,
         ClearFiles, Begin, Goto, IInv, ControlInv, Writing
<1>4. GensOf(disk, raw)' = GensOf(disk, raw)
  BY <1>1, SameFilesGens DEF SameFiles
<1> QED BY <1>1, <1>2, <1>3, <1>4, SameGens

\* A call is answered from memory.
LEMMA AnswersPriv ==
  ASSUME OneCallEach, PrivInv, IInv, NEW th \in Threads,
         \/ \E v \in Values : Reuse(th, v)
         \/ \E v \in Values, k \in Types : TokenizeFar(th, v, k)
         \/ RestoreHit(th)
  PROVE  PrivInv'
<1>1. mem \in [Procs -> Memory] /\ disk \in Disk /\ ProcOf[th] \in Procs
  BY OwnerType DEF IInv, MemoryInv, FilesInv
<1>2. UNCHANGED <<pc, raw>> /\ pc[th] = "idle"
  BY DEF Reuse, TokenizeFar, RestoreHit, Ready
<1>3. \A q \in Procs : mem'[q].gen = mem[q].gen /\ mem'[q].memOnly = mem[q].memOnly
  BY <1>1, RestatKeeps, MintedKeeps DEF Reuse, TokenizeFar, RestoreHit, Touch, SetMem
<1>4. SameFiles
  BY <1>1 DEF Reuse, TokenizeFar, RestoreHit, Touch, SameFiles, Disk
<1> QED BY <1>2, <1>3, <1>4, SameFilesGens, SameGens DEF Writing

\* A handler ends, or goes on under the lock, with what it knows.
LEMMA MintsPriv ==
  ASSUME OneCallEach, PrivInv, IInv, NEW th \in Threads,
         \/ MintLockedOut(th) \/ MintFound(th) \/ MintNew(th)
         \/ Return(th) \/ CompactNothing(th) \/ RemoveTombstone(th)
  PROVE  PrivInv'
<1>1. mem \in [Procs -> Memory] /\ disk \in Disk /\ ProcOf[th] \in Procs
  BY OwnerType DEF IInv, MemoryInv, FilesInv
<1>2. UNCHANGED raw /\ SameFiles
  BY <1>1 DEF MintLockedOut, MintFound, MintNew, Return, CompactNothing, RemoveTombstone,
              SameFiles, Disk
<1>3. \A q \in Procs : mem'[q].gen = mem[q].gen /\ mem'[q].memOnly = mem[q].memOnly
  BY <1>1, MintedKeeps
     DEF MintLockedOut, MintFound, MintNew, Return, CompactNothing, RemoveTombstone, SetMem
<1>4. \A x \in Threads \ {th} : pc'[x] = pc[x]
  BY DEF MintLockedOut, MintFound, MintNew, Return, CompactNothing, RemoveTombstone,
         AfterCompact, Rest, Goto, IInv, ControlInv
<1>5. mem[ProcOf[th]].memOnly => pc'[th] \notin Writing
  BY DEF PrivInv, Stopped, Writing, MintLockedOut, MintFound, MintNew, Return, CompactNothing,
         RemoveTombstone, AfterCompact, Rest, Goto, IInv, ControlInv
<1> QED BY <1>2, <1>3, <1>4, <1>5, SameFilesGens, SameGens

-----------------------------------------------------------------------------
(* Every step keeps it: those that write files.                            *)

\* The line is written, or the write raises and leaves any part of it.
LEMMA AppendPriv ==
  ASSUME OneCallEach, PrivInv, IInv, NEW th \in Threads, AppendLine(th) \/ AppendFails(th)
  PROVE  PrivInv'
<1> DEFINE p == ProcOf[th]
           S == GensOf(disk, raw) \cup {mem[p].gen}
<1>1. mem \in [Procs -> Memory] /\ disk \in Disk /\ p \in Procs
  BY OwnerType DEF IInv, MemoryInv, FilesInv
<1>2. ~mem[p].memOnly
  BY DEF PrivInv, Stopped, Writing, AppendLine, AppendFails
<1>3. \A q \in Procs : mem'[q].gen = mem[q].gen /\ mem'[q].memOnly = mem[q].memOnly
  <2>1. CASE AppendLine(th)
    BY <1>1, <2>1 DEF AppendLine, SetMem, Memory
  <2>2. CASE AppendFails(th)
    BY <1>1, <2>2 DEF AppendFails, SetMem, Memory
  <2> QED BY <2>1, <2>2
<1>4. GensOf(disk, raw)' \subseteq S
  <2>1. /\ disk'.main = disk.main /\ disk'.bak = disk.bak /\ raw' = raw
        /\ disk'.torn \in {disk.torn, None}
        /\ disk'.journal \in {disk.journal, Lines(disk), Append(Lines(disk), LineOf(th))}
    BY <1>1 DEF AppendLine, AppendFails, Disk
  <2>2. Lines(disk) \in Seq(Entry) /\ LineOf(th) \in Entry /\ LineOf(th).gen = mem[p].gen
    BY <1>1, LinesType, LineOfType DEF AppendLine, AppendFails, LineOf
  <2>3. \A i \in DOMAIN Lines(disk) : Lines(disk)[i].gen \in S
    <3>1. CASE disk.torn = None
      BY <3>1, InGens DEF Lines
    <3>2. CASE disk.torn # None
      <4>1. disk.torn \in Entry /\ disk.torn.gen \in S
        BY <1>1, <3>2, InGens DEF Disk
      <4>2. Lines(disk) = Append(disk.journal, disk.torn) /\ disk.journal \in Seq(Entry)
        BY <1>1, <3>2 DEF Lines, Disk
      <4>3. \A i \in DOMAIN disk.journal : disk.journal[i].gen \in S
        BY InGens
      <4> HIDE DEF S
      <4> QED BY <4>1, <4>2, <4>3
    <3> QED BY <3>1, <3>2
  <2>4. \A i \in DOMAIN disk'.journal : disk'.journal[i].gen \in S
    <3> HIDE DEF S
    <3>1. mem[p].gen \in S
      BY DEF S
    <3>2. \A i \in DOMAIN disk.journal : disk.journal[i].gen \in S
      BY InGens DEF S
    <3>3. CASE disk'.journal = Append(Lines(disk), LineOf(th))
      BY <2>2, <2>3, <3>1, <3>3
    <3> QED BY <2>1, <2>3, <3>2, <3>3
  <2>5. \A s \in {disk'.main, disk'.bak} \cup {raw'[x] : x \in Threads} : IsFile(s) => s.gen \in S
    BY <2>1, InGens
  <2>6. disk'.torn # None => disk'.torn.gen \in S
    BY <2>1, InGens
  <2> HIDE DEF S
  <2> QED BY <2>4, <2>5, <2>6, GensIn
<1>5. \A x \in Threads \ {th} : pc'[x] = pc[x]
  BY DEF AppendLine, AppendFails, Goto, IInv, ControlInv
<1> QED BY <1>2, <1>3, <1>4, <1>5, SameGens DEF Lent

\* Each file and each payload is one that was there, or names the writer's generation.
LEMMA CompactPriv ==
  ASSUME OneCallEach, PrivInv, IInv, NEW th \in Threads,
         Payload(th) \/ WriteBak(th) \/ WriteMain(th) \/ Truncate(th) \/ CompactFails(th)
  PROVE  PrivInv'
<1> DEFINE p == ProcOf[th]
           S == GensOf(disk, raw) \cup {mem[p].gen}
<1>1. /\ mem \in [Procs -> Memory] /\ disk \in Disk /\ p \in Procs
      /\ raw \in [Threads -> Snapshot \cup {None}] /\ None \notin Gens
  BY OwnerType, ConstantsAssumption DEF IInv, MemoryInv, FilesInv
<1>2. ~mem[p].memOnly
  BY DEF PrivInv, Stopped, Writing, Payload, WriteBak, WriteMain, Truncate, CompactFails
<1>3. \A q \in Procs : mem'[q].gen = mem[q].gen /\ mem'[q].memOnly = mem[q].memOnly
  <2>1. CASE Payload(th) \/ CompactFails(th)
    BY <1>1, <2>1 DEF Payload, CompactFails, SetMem, Memory
  <2>2. CASE WriteBak(th)
    BY <2>2 DEF WriteBak
  <2>3. CASE WriteMain(th)
    BY <1>1, <2>3, RestatKeeps DEF WriteMain, SetMemRestat, Memory
  <2>4. CASE Truncate(th)
    BY <1>1, <2>4 DEF Truncate, SetMem, Memory
  <2> QED BY <2>1, <2>2, <2>3, <2>4
<1>4. GensOf(disk, raw)' \subseteq S
  <2>1. \A x \in Threads : raw'[x] \in {raw[x], None} \/ raw'[x].gen \in S
    BY <1>1 DEF Payload, WriteBak, WriteMain, Truncate, CompactFails
  <2>2. /\ disk'.main \in {disk.main, raw[th]} /\ disk'.bak \in {disk.bak, raw[th]}
        /\ \/ disk'.journal = disk.journal /\ disk'.torn = disk.torn
           \/ disk'.journal = <<>> /\ disk'.torn = None
    BY <1>1 DEF Payload, WriteBak, WriteMain, Truncate, CompactFails, Disk
  <2>3. /\ \A s \in {disk.main, disk.bak} \cup {raw[x] : x \in Threads} : IsFile(s) => s.gen \in S
        /\ \A i \in DOMAIN disk.journal : disk.journal[i].gen \in S
        /\ disk.torn # None => disk.torn.gen \in S
    BY InGens
  <2> HIDE DEF S
  <2>4. \A s \in {disk'.main, disk'.bak} \cup {raw'[x] : x \in Threads} : IsFile(s) => s.gen \in S
    BY <2>1, <2>2, <2>3 DEF IsFile
  <2>5. /\ \A i \in DOMAIN disk'.journal : disk'.journal[i].gen \in S
        /\ disk'.torn # None => disk'.torn.gen \in S
    BY <2>2, <2>3
  <2> QED BY <2>4, <2>5, GensIn
<1>5. \A x \in Threads \ {th} : pc'[x] = pc[x]
  BY DEF Payload, WriteBak, WriteMain, Truncate, CompactFails, AfterCompact, Rest, Goto, IInv,
         ControlInv
<1> QED BY <1>2, <1>3, <1>4, <1>5, SameGens DEF Lent

\* A file is deleted.
LEMMA UnlinkPriv ==
  ASSUME OneCallEach, PrivInv, IInv, NEW th \in Threads, Unlink(th) PROVE PrivInv'
<1>1. mem \in [Procs -> Memory] /\ disk \in Disk
  BY DEF IInv, MemoryInv, FilesInv
<1>2. Head(job[th].todo) \in {"main", "bak", "journal"}
  <2>1. job[th].todo \in Seq(Files) /\ job[th].todo # <<>>
    BY DEF Unlink, IInv, ControlInv, Carrying, Job
  <2> HIDE DEF Files
  <2>2. Head(job[th].todo) \in Files
    BY <2>1
  <2> QED BY <2>2 DEF Files
<1>3. /\ disk'.main \in {disk.main, None} /\ disk'.bak \in {disk.bak, None}
      /\ \/ disk'.journal = disk.journal /\ disk'.torn = disk.torn
         \/ disk'.journal = <<>> /\ disk'.torn = None
      /\ raw' = raw
  BY <1>1, <1>2 DEF Unlink, Without, Disk
<1>4. GensOf(disk, raw)' \subseteq GensOf(disk, raw)
  <2> DEFINE S == GensOf(disk, raw)
  <2>1. /\ \A s \in {disk.main, disk.bak} \cup {raw[x] : x \in Threads} : IsFile(s) => s.gen \in S
        /\ \A i \in DOMAIN disk.journal : disk.journal[i].gen \in S
        /\ disk.torn # None => disk.torn.gen \in S
    BY InGens
  <2> HIDE DEF S
  <2>2. \A s \in {disk'.main, disk'.bak} \cup {raw'[x] : x \in Threads} : IsFile(s) => s.gen \in S
    BY <1>3, <2>1 DEF IsFile
  <2>3. /\ \A i \in DOMAIN disk'.journal : disk'.journal[i].gen \in S
        /\ disk'.torn # None => disk'.torn.gen \in S
    BY <1>3, <2>1
  <2>4. GensOf(disk, raw)' \subseteq S
    BY <2>2, <2>3, GensIn
  <2> QED BY <2>4 DEF S
<1>5. \A q \in Procs : mem'[q].gen = mem[q].gen /\ mem'[q].memOnly = mem[q].memOnly
  BY <1>1, RestatKeeps DEF Unlink
<1>6. \A x \in Threads \ {th} : pc'[x] = pc[x]
  BY DEF Unlink, Goto, IInv, ControlInv
<1>7. pc'[th] \notin Writing
  BY DEF Unlink, Goto, IInv, ControlInv, Writing
<1> QED BY <1>4, <1>5, <1>6, <1>7, SameGens

-----------------------------------------------------------------------------
(* Every step keeps it: those that take a generation.                      *)

\* A reading of the journal keeps the generation, takes one of a line, or locks out.
LEMMA ReadJournalGen ==
  ASSUME NEW p \in Procs, NEW m \in Memory, ~m.memOnly, NEW d, d.journal \in Seq(Entry),
         NEW r, NEW g
  PROVE  LET n == ReadJournal(p, m, d, g) IN
           \/ n.gen = g
           \/ ~n.memOnly /\ (n.gen = m.gen \/ (m.gen = None /\ n.gen \in GensOf(d, r) \cup {None}))
<1> DEFINE from == IF m.joff > Len(d.journal) THEN 0 ELSE m.joff
           locked == \E i \in from + 1 .. Len(d.journal) : LineLocked(p, d.journal[i])
           n == ReadJournal(p, m, d, g)
           moved == [m EXCEPT !.joff = from]
           merged == Merge(m, JournalTokens(p, d, from), JournalCounts(p, d, from))
<1>1. from \in Nat
  BY DEF Memory
<1>2. CASE locked
  <2>1. moved.gen = m.gen /\ ~moved.memOnly /\ moved \in Memory
    BY <1>1 DEF Memory
  <2>2. n = LockOut(moved, g)
    BY <1>2 DEF ReadJournal
  <2> HIDE DEF moved, n
  <2>3. n.gen = g
    BY <2>1, <2>2 DEF LockOut, GoMemoryOnly, Memory
  <2> QED BY <2>3 DEF n
<1>3. CASE ~locked
  <2>1. merged.gen = m.gen /\ ~merged.memOnly /\ DOMAIN merged = DOMAIN m
    BY DEF Merge, Memory
  <2>2. /\ n.gen = IF merged.gen # None THEN merged.gen ELSE JournalGen(p, d, from)
        /\ n.memOnly = merged.memOnly
    <3>1. n = [merged EXCEPT
                 !.gen = IF @ # None THEN @ ELSE JournalGen(p, d, from),
                 !.joff = Len(d.journal),
                 !.jlines = Saturated(@ + Cardinality(LinesFrom(p, d, from)))]
      BY <1>3 DEF ReadJournal
    <3> HIDE DEF merged, n
    <3> QED BY <2>1, <3>1 DEF Memory
  <2>3. JournalGen(p, d, from) \in GensOf(d, r) \cup {None}
    <3> DEFINE lines == LinesFrom(p, d, from)
    <3>1. CASE lines = {}
      BY <3>1 DEF JournalGen
    <3>2. CASE lines # {}
      <4>1. lines \subseteq Nat /\ lines \subseteq DOMAIN d.journal
        BY <1>1 DEF LinesFrom
      <4> HIDE DEF lines
      <4>2. Min(lines) \in lines
        BY <3>2, <4>1, MinOfNats
      <4>3. JournalGen(p, d, from) = d.journal[Min(lines)].gen
        BY <3>2 DEF JournalGen, lines
      <4> QED BY <4>1, <4>2, <4>3, InGens
    <3> QED BY <3>1, <3>2
  <2> HIDE DEF merged, n
  <2>4. ~n.memOnly /\ (n.gen = m.gen \/ (m.gen = None /\ n.gen \in GensOf(d, r) \cup {None}))
    BY <2>1, <2>2, <2>3
  <2> QED BY <2>4 DEF n
<1> QED BY <1>2, <1>3

\* A reader is locked out with a fresh generation, or in one that the files name, or its own.
Joins(n, gen, g, gens) == n.gen = g \/ (~n.memOnly /\ n.gen \in gens \cup {None, gen})

\* The object with which the journal is read, from its start if the snapshot has changed.
From(m, d) == IF SnapshotChanged(m, d) THEN [m EXCEPT !.joff = 0] ELSE m

\* _sync_locked takes one of five ways.
Ways(p, m, d, g, n) ==
  LET plain == ~DroppedElsewhere(m, d) /\ ~Resurrects(m, d)
      locked == SnapshotChanged(m, d) /\ Locked(p, d.main)
      readable == SnapshotChanged(m, d) /\ Readable(p, d.main)
  IN  \/ /\ DroppedElsewhere(m, d)
         /\ n = [SwapIn(m, NoTokens, NoCounts, g, FALSE) EXCEPT !.seen = "none"]
      \/ Resurrects(m, d) /\ n = [m EXCEPT !.dirty = TRUE]
      \/ plain /\ locked /\ n = LockOut(From(m, d), g)
      \/ plain /\ readable /\ n = ReadJournal(p, AdoptSnapshot(From(m, d), d.main), d, g)
      \/ plain /\ ~locked /\ ~readable /\ n = ReadJournal(p, From(m, d), d, g)

LEMMA SyncedWays ==
  ASSUME NEW p \in Procs, NEW m, NEW d, NEW g PROVE Ways(p, m, d, g, Synced(p, m, d, g))
<1> DEFINE elsewhere == DroppedElsewhere(m, d)
           rewrites == Resurrects(m, d)
           locked == SnapshotChanged(m, d) /\ Locked(p, d.main)
           readable == SnapshotChanged(m, d) /\ Readable(p, d.main)
           n == Synced(p, m, d, g)
<1>1. /\ elsewhere => ~rewrites /\ ~locked /\ ~readable
      /\ rewrites => ~locked /\ ~readable
      /\ locked => ~readable
  BY DEF DroppedElsewhere, Resurrects, Vanished, SnapshotChanged, Locked, Readable
<1>2. elsewhere => n = [SwapIn(m, NoTokens, NoCounts, g, FALSE) EXCEPT !.seen = "none"]
  BY <1>1 DEF Synced
<1>3. rewrites => n = [m EXCEPT !.dirty = TRUE]
  BY <1>1 DEF Synced
<1>4. ~elsewhere /\ ~rewrites /\ locked => n = LockOut(From(m, d), g)
  BY <1>1 DEF Synced, From
<1>5. ~elsewhere /\ ~rewrites /\ readable
        => n = ReadJournal(p, AdoptSnapshot(From(m, d), d.main), d, g)
  BY <1>1 DEF Synced, From
<1>6. ~elsewhere /\ ~rewrites /\ ~locked /\ ~readable => n = ReadJournal(p, From(m, d), d, g)
  BY DEF Synced, From
<1> QED BY <1>2, <1>3, <1>4, <1>5, <1>6 DEF Ways

LEMMA SyncedGen ==
  ASSUME NEW p \in Procs, NEW m \in Memory, ~m.memOnly, NEW d \in Disk, NEW r, NEW g
  PROVE  Joins(Synced(p, m, d, g), m.gen, g, GensOf(d, r))
<1> DEFINE n == Synced(p, m, d, g)
           m0 == From(m, d)
           plain == ~DroppedElsewhere(m, d) /\ ~Resurrects(m, d)
           locked == SnapshotChanged(m, d) /\ Locked(p, d.main)
           readable == SnapshotChanged(m, d) /\ Readable(p, d.main)
<1>1. m0 \in Memory /\ m0.gen = m.gen /\ ~m0.memOnly
  BY DEF Memory, From
<1>2. d.journal \in Seq(Entry)
  BY DEF Disk
<1>0. Ways(p, m, d, g, n)
  BY SyncedWays
<1> SUFFICES Joins(n, m.gen, g, GensOf(d, r))
  OBVIOUS
<1> HIDE DEF n, m0
<1>3. CASE n = [SwapIn(m, NoTokens, NoCounts, g, FALSE) EXCEPT !.seen = "none"]
  BY <1>3 DEF Joins, SwapIn, Memory
<1>4. CASE n = [m EXCEPT !.dirty = TRUE]
  BY <1>4 DEF Joins, Memory
<1>5. CASE n = LockOut(m0, g)
  BY <1>1, <1>5 DEF Joins, LockOut, GoMemoryOnly, Memory
<1>6. CASE readable /\ n = ReadJournal(p, AdoptSnapshot(m0, d.main), d, g)
  <2> DEFINE a == AdoptSnapshot(m0, d.main)
  <2>1. d.main \in Snapshot /\ d.main.gen \in GensOf(d, r)
    BY <1>6, InGens DEF Readable, IsFile, Disk
  <2>2. a \in Memory
    BY <1>1, <2>1, AdoptSnapshotGood
  <2>3. ~a.memOnly /\ a.gen \in {m.gen, d.main.gen}
    BY <1>1 DEF AdoptSnapshot, SwapIn, Merge, Memory
  <2>4. n = ReadJournal(p, a, d, g)
    BY <1>6
  <2> HIDE DEF a
  <2>5. n.gen = g \/ (~n.memOnly /\ n.gen \in GensOf(d, r) \cup {None, a.gen})
    BY <1>2, <2>2, <2>3, <2>4, ReadJournalGen
  <2> QED BY <2>1, <2>3, <2>5 DEF Joins
<1>7. CASE n = ReadJournal(p, m0, d, g)
  <2>1. n.gen = g \/ (~n.memOnly /\ n.gen \in GensOf(d, r) \cup {None, m0.gen})
    BY <1>1, <1>2, <1>7, ReadJournalGen
  <2> QED BY <1>1, <2>1 DEF Joins
<1> QED BY <1>3, <1>4, <1>5, <1>6, <1>7, <1>0 DEF Ways, m0

LEMMA LoadedGen ==
  ASSUME NEW p \in Procs, NEW d, d.journal \in Seq(Entry),
         {d.main, d.bak} \subseteq Snapshot \cup {None, Corrupt}, NEW r, NEW g \in Gens
  PROVE  Joins(Loaded(p, d, g), None, g, GensOf(d, r))
<1> DEFINE bad == KeyOf[p] = BadKey
           start == [NewMemory EXCEPT !.memOnly = bad]
           adopt(s, seen) == [Merge(start, s.t2r, s.ctr) EXCEPT !.gen = s.gen, !.seen = seen]
           copy == CASE Readable(p, d.main)   -> adopt(d.main, "fresh")
                     [] RestoresBackup(p, d)  -> adopt(d.bak, "none")
                     [] OTHER                 -> start
           read == IF LockedOut(p, d) THEN GoMemoryOnly(start, g) ELSE ReadJournal(p, copy, d, g)
           last == IF bad THEN GoMemoryOnly(read, g) ELSE read
           n == Loaded(p, d, g)
<1>0. n = IF last.gen = None THEN [last EXCEPT !.gen = g] ELSE [last EXCEPT !.joined = TRUE]
  BY DEF Loaded
<1>1. g # None
  BY ConstantsAssumption
<1>2. start \in Memory /\ start.gen = None /\ start.memOnly = bad
  BY NewMemoryGood DEF NewMemory, Memory
<1>3. copy \in Memory /\ copy.memOnly = bad /\ copy.gen \in GensOf(d, r) \cup {None}
  <2>1. ASSUME NEW s \in Snapshot, NEW seen \in {"fresh", "none"}
        PROVE  adopt(s, seen) \in Memory /\ adopt(s, seen).memOnly = bad /\ adopt(s, seen).gen = s.gen
    <3> DEFINE a == Merge(start, s.t2r, s.ctr)
    <3>1. a \in Memory /\ a.memOnly = bad
      <4>1. s.t2r \in TokenMap /\ s.ctr \in Counters
        BY DEF Snapshot
      <4>2. start.memOnly = bad /\ start \in Memory /\ CoherentMemory(start)
        BY <1>2 DEF CoherentMemory, NewMemory
      <4> HIDE DEF start
      <4>3. a \in Memory
        BY <4>1, <4>2, MergeGood
      <4>4. a.memOnly = bad
        BY <4>2 DEF Merge, Memory
      <4> QED BY <4>3, <4>4
    <3> HIDE DEF a, bad
    <3>2. [a EXCEPT !.gen = s.gen, !.seen = seen] \in Memory
      BY <3>1 DEF Memory, Snapshot
    <3>3. [a EXCEPT !.gen = s.gen, !.seen = seen].memOnly = bad
      BY <3>1 DEF Memory
    <3>4. [a EXCEPT !.gen = s.gen, !.seen = seen].gen = s.gen
      BY <3>1 DEF Memory
    <3> QED BY <3>2, <3>3, <3>4 DEF a
  <2> HIDE DEF adopt, start
  <2>0. RestoresBackup(p, d) => ~Readable(p, d.main)
    BY DEF RestoresBackup, AsksBackup, Unreadable, Locked, Readable, IsFile
  <2>2. CASE Readable(p, d.main)
    <3>1. d.main \in Snapshot /\ d.main.gen \in GensOf(d, r)
      BY <2>2, InGens DEF Readable, IsFile
    <3> QED BY <2>0, <2>1, <2>2, <3>1
  <2>3. CASE ~Readable(p, d.main) /\ RestoresBackup(p, d)
    <3>1. d.bak \in Snapshot /\ d.bak.gen \in GensOf(d, r)
      BY <2>3, InGens DEF RestoresBackup, Readable, IsFile
    <3> QED BY <2>1, <2>3, <3>1
  <2>4. CASE ~Readable(p, d.main) /\ ~RestoresBackup(p, d)
    BY <1>2, <2>4
  <2> QED BY <2>2, <2>3, <2>4
<1> HIDE DEF start, copy
<1>4. CASE bad
  <2>1. last = [read EXCEPT !.memOnly = TRUE, !.gen = g,
                  !.ctr = [k \in Types |-> IF @[k] = 0 THEN 0 ELSE Larger(@[k], FarBase)]]
    BY <1>4 DEF GoMemoryOnly
  <2>2. read \in Memory
    <3>1. GoodFiles(d) /\ CoherentMemory(start)
      BY DEF GoodFiles, start, CoherentMemory, NewMemory
    <3> QED BY <1>2, <1>3, <3>1, ReadJournalGood, GoMemoryOnlyGood
  <2> HIDE DEF read, last
  <2>3. last.gen = g /\ DOMAIN last = DOMAIN read
    BY <2>1, <2>2 DEF Memory
  <2> HIDE DEF n
  <2>4. n.gen = g
    BY <1>0, <1>1, <2>2, <2>3 DEF Memory
  <2> QED BY <2>4 DEF n, Joins
<1>5. CASE ~bad
  <2>1. read \in Memory
    <3>1. GoodFiles(d) /\ CoherentMemory(start)
      BY DEF GoodFiles, start, CoherentMemory, NewMemory
    <3> QED BY <1>2, <1>3, <3>1, ReadJournalGood, GoMemoryOnlyGood
  <2>2. read.gen = g \/ (~read.memOnly /\ read.gen \in GensOf(d, r) \cup {None})
    <3>1. CASE LockedOut(p, d)
      BY <1>2, <3>1 DEF GoMemoryOnly, Memory
    <3>2. CASE ~LockedOut(p, d)
      <4>1. read = ReadJournal(p, copy, d, g)
        BY <3>2
      <4> HIDE DEF read
      <4> QED BY <1>3, <1>5, <4>1, ReadJournalGen
    <3> QED BY <3>1, <3>2
  <2>3. last = read
    BY <1>5
  <2> HIDE DEF read, last, n
  <2>4. n.gen = g \/ (~n.memOnly /\ n.gen \in GensOf(d, r) \cup {None})
    BY <1>0, <1>1, <2>1, <2>2, <2>3 DEF Memory
  <2> QED BY <2>4 DEF n, Joins
<1> QED BY <1>4, <1>5

\* One thread takes its process on.
LEMMA TakeStep ==
  ASSUME OneCallEach, PrivInv, IInv, NEW th \in Threads, Takes(ProcOf[th]),
         GensOf(disk, raw)' \subseteq GensOf(disk, raw) \cup Lent(ProcOf[th]),
         \A q \in Procs \ {ProcOf[th]} :
           mem'[q].gen = mem[q].gen /\ mem'[q].memOnly = mem[q].memOnly,
         \A x \in Threads \ {th} : pc'[x] = pc[x],
         mem'[ProcOf[th]].memOnly => pc'[th] \notin Writing
  PROVE  PrivInv'
<1>1. ProcOf[th] \in Procs
  BY OwnerType
<1>2. \A p \in Procs : Private(p)'
  BY <1>1, PrivateStep DEF PrivInv
<1>3. \A x \in Threads : Stopped(x)'
  BY <1>1, StoppedStep DEF IInv, ControlInv
<1> QED BY <1>2, <1>3 DEF PrivInv

LEMMA LoadPriv ==
  ASSUME OneCallEach, PrivInv, IInv, NEW th \in Threads, Load(th) PROVE PrivInv'
<1> DEFINE p == ProcOf[th]
           m == Loaded(p, disk, FreshGen)
<1>1. mem \in [Procs -> Memory] /\ disk \in Disk /\ p \in Procs /\ FreshGen \in Gens \ UsedGens
  BY OwnerType, Used DEF Load, IInv, MemoryInv, FilesInv
<1>2. Joins(m, None, FreshGen, GensOf(disk, raw))
  BY <1>1, LoadedGen DEF Disk
<1> HIDE DEF m
<1>3. mem'[p] = m /\ \A q \in Procs \ {p} : mem'[q] \in {mem[q], Restat(mem[q])}
  BY <1>1 DEF Load, SetMem, SetMemRestat, m
<1>4. Takes(p)
  BY <1>1, <1>2, <1>3 DEF Takes, Joins
<1>5. GensOf(disk, raw)' \subseteq GensOf(disk, raw)
  <2>1. /\ disk'.main \in {disk.main, None} /\ disk'.bak = disk.bak /\ raw' = raw
        /\ disk'.journal = disk.journal /\ disk'.torn = disk.torn
    BY <1>1 DEF Load, Disk
  <2> QED BY <2>1 DEF GensOf, IsFile
<1>6. \A x \in Threads \ {th} : pc'[x] = pc[x]
  BY DEF Load, Rest, Goto, IInv, ControlInv
<1>7. pc'[th] \notin Writing
  BY DEF Load, Rest, Goto, IInv, ControlInv, Writing
<1> QED BY <1>1, <1>3, <1>4, <1>5, <1>6, <1>7, RestatKeeps, TakeStep

LEMMA SyncPriv ==
  ASSUME OneCallEach, PrivInv, IInv, NEW th \in Threads, Sync(th) PROVE PrivInv'
<1> DEFINE p == ProcOf[th]
           m == Synced(p, mem[p], disk, FreshGen)
<1>1. /\ mem \in [Procs -> Memory] /\ disk \in Disk /\ p \in Procs
      /\ FreshGen \in Gens \ UsedGens /\ ~mem[p].memOnly
  BY OwnerType, Used DEF Sync, IInv, MemoryInv, FilesInv, PrivInv, Stopped, Writing
<1>2. Joins(m, mem[p].gen, FreshGen, GensOf(disk, raw))
  BY <1>1, SyncedGen
<1> HIDE DEF m
<1>3. mem'[p] = m /\ \A q \in Procs \ {p} : mem'[q] = mem[q]
  BY <1>1 DEF Sync, SetMem, m
<1>4. Takes(p)
  BY <1>1, <1>2, <1>3 DEF Takes, Joins
<1>5. GensOf(disk, raw)' = GensOf(disk, raw)
  BY SameFilesGens DEF Sync, SameFiles
<1>6. \A x \in Threads \ {th} : pc'[x] = pc[x]
  BY DEF Sync, Rest, Goto, IInv, ControlInv
<1>7. pc'[th] \notin Writing
  BY DEF Sync, Rest, Goto, IInv, ControlInv, Writing
<1> QED BY <1>3, <1>4, <1>5, <1>6, <1>7, TakeStep

LEMMA ClearPriv ==
  ASSUME OneCallEach, PrivInv, IInv, NEW th \in Threads, Clear(th) PROVE PrivInv'
<1> DEFINE p == ProcOf[th]
<1>1. mem \in [Procs -> Memory] /\ p \in Procs /\ FreshGen \in Gens \ UsedGens
  BY OwnerType, Used DEF Clear, IInv, MemoryInv
<1>2. mem'[p].gen = FreshGen /\ \A q \in Procs \ {p} : mem'[q] = mem[q]
  BY <1>1 DEF Clear, SetMem, NewMemory
<1>3. Takes(p)
  BY <1>1, <1>2 DEF Takes
<1>4. GensOf(disk, raw)' = GensOf(disk, raw)
  BY SameFilesGens DEF Clear, SameFiles
<1>5. \A x \in Threads \ {th} : pc'[x] = pc[x]
  BY DEF Clear, Goto, IInv, ControlInv
<1>6. pc'[th] \notin Writing
  BY DEF Clear, Ready, Goto, IInv, ControlInv, Writing
<1> QED BY <1>2, <1>3, <1>4, <1>5, <1>6, TakeStep

LEMMA TombstonePriv ==
  ASSUME OneCallEach, PrivInv, IInv, NEW th \in Threads, Tombstone(th) PROVE PrivInv'
<1> DEFINE p == ProcOf[th]
           d == [disk EXCEPT !.main = None, !.bak = None, !.journal = <<>>]
           m == Loaded(p, d, FreshGen)
<1>1. mem \in [Procs -> Memory] /\ disk \in Disk /\ p \in Procs
  BY OwnerType DEF IInv, MemoryInv, FilesInv
<1>2. GensOf(disk, raw)' = GensOf(disk, raw)
  <2>1. SameFiles /\ UNCHANGED raw
    BY <1>1 DEF Tombstone, SameFiles, Disk
  <2> QED BY <2>1, SameFilesGens
<1>3. \A x \in Threads \ {th} : pc'[x] = pc[x]
  BY DEF Tombstone, Rest, Goto, IInv, ControlInv
<1>4. pc'[th] \notin Writing
  BY DEF Tombstone, Rest, Goto, IInv, ControlInv, Writing
<1>5. CASE job[th].kind = "expire"
  <2>1. HasFreshGen /\ SetMem(p, m)
    BY <1>5 DEF Tombstone
  <2>2. FreshGen \in Gens \ UsedGens
    BY <2>1, Used
  <2>3. Joins(m, None, FreshGen, GensOf(d, raw))
    <3>1. d.journal \in Seq(Entry) /\ {d.main, d.bak} \subseteq Snapshot \cup {None, Corrupt}
      BY <1>1 DEF Disk
    <3> HIDE DEF d
    <3> QED BY <1>1, <2>2, <3>1, LoadedGen
  <2>4. GensOf(d, raw) \subseteq GensOf(disk, raw)
    <3>1. d.main = None /\ d.bak = None /\ d.journal = <<>> /\ d.torn = disk.torn
      BY <1>1 DEF Disk
    <3> HIDE DEF d
    <3> QED BY <3>1 DEF GensOf, IsFile
  <2> HIDE DEF m, d
  <2>5. mem'[p] = m /\ \A q \in Procs \ {p} : mem'[q] = mem[q]
    BY <1>1, <2>1 DEF SetMem
  <2>6. Takes(p)
    BY <2>2, <2>3, <2>4, <2>5 DEF Takes, Joins
  <2> QED BY <1>2, <1>3, <1>4, <2>5, <2>6, TakeStep
<1>6. CASE job[th].kind # "expire"
  <2>1. mem' = mem
    BY <1>6 DEF Tombstone
  <2> QED BY <1>2, <1>3, <1>4, <2>1, SameGens
<1> QED BY <1>5, <1>6

-----------------------------------------------------------------------------
(* Every step keeps it: the environment.                                   *)

\* A process dies, with what its own handler leaves on the disk.
LEMMA DiesPriv ==
  ASSUME OneCallEach, PrivInv, IInv, NEW p \in Procs, Dies(p),
         GensOf(disk', raw) \subseteq GensOf(disk, raw) \cup Lent(p)
  PROVE  PrivInv'
<1>1. /\ mem \in [Procs -> Memory] /\ pc \in [Threads -> PCs]
      /\ raw \in [Threads -> Snapshot \cup {None}]
  BY DEF IInv, MemoryInv, ControlInv, FilesInv
<1>2. mem'[p] = NewMemory /\ \A q \in Procs \ {p} : mem'[q] = mem[q]
  BY <1>1 DEF Dies
<1>3. Takes(p)
  BY <1>2 DEF Takes, NewMemory
<1>4. GensOf(disk, raw)' \subseteq GensOf(disk', raw)
  <2>1. \A x \in Threads : raw'[x] \in {raw[x], None}
    BY <1>1 DEF Dies
  <2> QED BY <2>1 DEF GensOf, IsFile
<1>5. \A q \in Procs : Private(q)'
  BY <1>2, <1>3, <1>4, PrivateStep DEF PrivInv
<1>6. \A x \in Threads : Stopped(x)'
  BY <1>1, <1>2, OwnerType DEF Dies, PrivInv, Stopped, NewMemory
<1> QED BY <1>5, <1>6 DEF PrivInv

LEMMA CrashPriv ==
  ASSUME OneCallEach, PrivInv, IInv, NEW p \in Procs, Crash(p) PROVE PrivInv'
BY DiesPriv DEF Crash

LEMMA CrashTornPriv ==
  ASSUME OneCallEach, PrivInv, IInv, NEW th \in Threads, CrashTorn(th) PROVE PrivInv'
<1> DEFINE p == ProcOf[th]
           S == GensOf(disk, raw) \cup Lent(p)
           line == LineOf(th)
           part == [tok |-> None, val |-> None, gen |-> None, key |-> line.key]
<1>1. disk \in Disk /\ p \in Procs /\ ~mem[p].memOnly
  BY OwnerType DEF IInv, FilesInv, CrashTorn, PrivInv, Stopped, Writing
<1>2. PICK t \in {part, line} :
        disk' = [disk EXCEPT !.journal = Lines(disk), !.torn = t, !.idle = FALSE]
  BY DEF CrashTorn
<1>3. t.gen \in S
  BY <1>1, <1>2 DEF LineOf, Lent
<1> HIDE DEF line, part
<1>4. /\ disk'.main = disk.main /\ disk'.bak = disk.bak /\ disk'.torn = t
      /\ disk'.journal = Lines(disk)
  BY <1>1, <1>2 DEF Disk
<1>5. \A i \in DOMAIN Lines(disk) : Lines(disk)[i].gen \in S
  <2>1. CASE disk.torn = None
    BY <2>1, InGens DEF Lines
  <2>2. CASE disk.torn # None
    <3>1. disk.torn \in Entry /\ disk.torn.gen \in S
      BY <1>1, <2>2, InGens DEF Disk
    <3>2. Lines(disk) = Append(disk.journal, disk.torn) /\ disk.journal \in Seq(Entry)
      BY <1>1, <2>2 DEF Lines, Disk
    <3>3. \A i \in DOMAIN disk.journal : disk.journal[i].gen \in S
      BY InGens
    <3> HIDE DEF S
    <3> QED BY <3>1, <3>2, <3>3
  <2> QED BY <2>1, <2>2
<1>6. \A s \in {disk'.main, disk'.bak} \cup {raw[x] : x \in Threads} : IsFile(s) => s.gen \in S
  BY <1>4, InGens
<1> HIDE DEF S
<1>7. GensOf(disk', raw) \subseteq S
  BY <1>3, <1>4, <1>5, <1>6, GensIn
<1> QED BY <1>1, <1>7, DiesPriv DEF CrashTorn, S

\* Nobody moves, and the files name no more than they did.
LEMMA Unmoved ==
  ASSUME PrivInv, UNCHANGED pc, GensOf(disk, raw)' \subseteq GensOf(disk, raw),
         \A q \in Procs : mem'[q].gen = mem[q].gen /\ mem'[q].memOnly = mem[q].memOnly
  PROVE  PrivInv'
BY OwnerType DEF PrivInv, Private, Stopped

LEMMA HarmPriv ==
  ASSUME PrivInv, IInv, NEW f \in {"main", "bak"}, Damage(f) \/ LoseMain PROVE PrivInv'
<1>1. mem \in [Procs -> Memory] /\ disk \in Disk
  BY DEF IInv, MemoryInv, FilesInv
<1>2. UNCHANGED <<pc, raw>>
  BY DEF Damage, LoseMain, Harm
<1>3. \A q \in Procs : mem'[q].gen = mem[q].gen /\ mem'[q].memOnly = mem[q].memOnly
  BY <1>1, RestatKeeps DEF Damage, LoseMain, Harm
<1>4. /\ disk'.journal = disk.journal /\ disk'.torn = disk.torn
      /\ IsFile(disk'.main) => IsFile(disk.main) /\ disk'.main.gen = disk.main.gen
      /\ IsFile(disk'.bak) => IsFile(disk.bak) /\ disk'.bak.gen = disk.bak.gen
  <2>1. CASE LoseMain
    BY <1>1, <2>1 DEF LoseMain, IsFile, Disk
  <2>2. CASE Damage(f)
    <3> DEFINE bad == IF disk[f].key = NoKey THEN Corrupt ELSE [disk[f] EXCEPT !.key = None]
    <3>1. disk[f] \in Snapshot /\ IsFile(disk[f])
      BY <1>1, <2>2 DEF Damage, Harm, Intact, IsFile, Disk
    <3>2. IsFile(bad) => bad.gen = disk[f].gen
      BY <3>1 DEF IsFile, Snapshot
    <3>3. disk' = [disk EXCEPT ![f] = bad]
      BY <1>1, <2>2 DEF Damage, Disk
    <3> HIDE DEF bad
    <3> QED BY <1>1, <3>1, <3>2, <3>3 DEF Disk
  <2> QED BY <2>1, <2>2
<1>5. GensOf(disk, raw)' \subseteq GensOf(disk, raw)
  <2> DEFINE S == GensOf(disk, raw)
  <2>1. /\ \A s \in {disk.main, disk.bak} \cup {raw[x] : x \in Threads} : IsFile(s) => s.gen \in S
        /\ \A i \in DOMAIN disk.journal : disk.journal[i].gen \in S
        /\ disk.torn # None => disk.torn.gen \in S
    BY InGens
  <2> HIDE DEF S
  <2>2. \A s \in {disk'.main, disk'.bak} \cup {raw'[x] : x \in Threads} : IsFile(s) => s.gen \in S
    BY <1>2, <1>4, <2>1
  <2>3. GensOf(disk, raw)' \subseteq S
    BY <1>4, <2>1, <2>2, GensIn
  <2> QED BY <2>3 DEF S
<1> QED BY <1>2, <1>3, <1>5, Unmoved

LEMMA AgePriv == ASSUME PrivInv, IInv, Age PROVE PrivInv'
<1>1. SameFiles /\ UNCHANGED <<raw, mem, pc>>
  BY DEF Age, SameFiles, IInv, FilesInv, Disk
<1> QED BY <1>1, SameFilesGens, Unmoved

-----------------------------------------------------------------------------
(* The theorem.                                                            *)

LEMMA InitPriv == Init => PrivInv
BY OwnerType DEF Init, PrivInv, Private, Stopped, NewMemory

LEMMA NextPriv == OneCallEach /\ IInv /\ PrivInv /\ [Next]_vars => PrivInv'
<1> SUFFICES ASSUME OneCallEach, IInv, PrivInv, [Next]_vars PROVE PrivInv'
  OBVIOUS
<1>1. ASSUME NEW th \in Threads, Operation(th) PROVE PrivInv'
  BY <1>1, CallsPriv, AnswersPriv, ClearPriv DEF Operation
<1>2. ASSUME NEW th \in Threads, Step(th) PROVE PrivInv'
  BY <1>2, CallsPriv, LoadPriv, SyncPriv, MintsPriv, AppendPriv, CompactPriv, UnlinkPriv,
     TombstonePriv DEF Step
<1>3. CASE Environment
  BY <1>3, AppendPriv, CompactPriv, CrashPriv, CrashTornPriv, HarmPriv, AgePriv DEF Environment
<1>4. CASE UNCHANGED vars
  <2>1. SameFiles /\ UNCHANGED <<raw, mem, pc>>
    BY <1>4 DEF vars, SameFiles
  <2> QED BY <2>1, SameFilesGens, Unmoved
<1> QED BY <1>1, <1>2, <1>3, <1>4 DEF Next

LEMMA PrivInvariance == OneCallEach => (Spec => []PrivInv)
<1> SUFFICES ASSUME OneCallEach PROVE Spec => []PrivInv
  OBVIOUS
<1>1. IInv /\ PrivInv /\ [Next]_vars => PrivInv'
  BY NextPriv
<1> QED BY <1>1, InitPriv, Invariance, PTL DEF Spec

\* Whatever else happens (kills, torn and failed writes, lost locks, harmed files, drops), the
\* generation of a locked-out process names no other process, no snapshot and no line
\* (durable_vault.py:279-293), as long as a process makes one call at a time.
THEOREM LockedOutStaysPrivate == OneCallEach => (Spec => []LockedOutIsPrivate)
<1>1. PrivInv => LockedOutIsPrivate
  <2> SUFFICES ASSUME PrivInv, NEW p \in Procs, mem[p].memOnly
               PROVE  /\ \A q \in Procs \ {p} : mem[q].gen # mem[p].gen
                      /\ IsFile(disk.main) => disk.main.gen # mem[p].gen
                      /\ \A i \in DOMAIN disk.journal : disk.journal[i].gen # mem[p].gen
    BY DEF LockedOutIsPrivate
  <2> QED BY InGens DEF PrivInv, Private
<1> QED BY <1>1, PrivInvariance, PTL

-----------------------------------------------------------------------------
(* Nobody writes over what it cannot read: the invariant.                  *)

\* What the theorem below assumes.  The lock is waited for and had: after ten seconds its
\* seeker goes on without it and writes over whatever was written meanwhile.  Files are
\* harmed only while no process runs, and nothing deletes them: a process goes by what it
\* has read.  No line is torn: the next writer terminates it without reading it.  An invalid
\* key takes no lock and moves away what it cannot decrypt.
Undisturbed ==
  /\ OneCallEach
  /\ \A p \in Procs : KeyOf[p] \notin {BadKey, None}
  /\ \A f \in {"torn", "torn_whole", "timeout", "damage", "clear", "age"} : Budget[f] = 0

\* A snapshot under another key.
Foreign(p, s) == IsFile(s) /\ s.key \notin {NoKey, None, KeyOf[p]}

\* None of the first n lines of the journal is locked.
OpenTo(p, d, n) == \A i \in 1 .. n : ~LineLocked(p, d.journal[i])

\* All of the journal that m has read is open, and so is the snapshot.
ReadOpen(p, m, d) == ~Foreign(p, d.main) /\ m.joff <= Len(d.journal) /\ OpenTo(p, d, m.joff)

\* The files are p's to write.
Opened(p, m, d) == ReadOpen(p, m, d) /\ OpenTo(p, d, Len(d.journal))

\* Who has seen a snapshot finds one, and who knows the files as they are can read them.
Acquainted(p, m, d) ==
  /\ m.seen # "none" => Intact(d.main)
  /\ ~m.memOnly /\ (m.seen = "fresh" \/ ~Intact(d.main)) => ReadOpen(p, m, d)

Deleting == {"unlink", "tombstone", "clear"}
Locking == {"mint", "append", "return", "compact", "bak", "main", "uncleared", "truncate"}

\* A writer has the lock, may write what it writes, and has the others read it again before
\* it empties the journal.
Careful(th) ==
  LET p == ProcOf[th] IN
  /\ pc[th] \notin Deleting
  /\ pc[th] \in Locking => holder = th /\ (~mem[p].memOnly => Opened(p, mem[p], disk))
  /\ pc[th] \in {"bak", "main", "uncleared", "truncate"} =>
       IsFile(raw[th]) /\ raw[th].key = KeyOf[p]
  /\ pc[th] = "main" => disk.bak = raw[th]
  /\ pc[th] \in {"uncleared", "truncate"} =>
       Intact(disk.main) /\ \A q \in Procs \ {p} : mem[q].seen # "fresh"

DownInv ==
  \A p \in Procs : up[p] = "down" =>
    mem[p] = NewMemory /\ \A th \in Threads : ProcOf[th] = p => pc[th] = "idle"

\* The two copies are never under two keys: whoever is shut out of one is shut out of both.
CopiesAgree == \A p \in Procs : Foreign(p, disk.main) => ~Readable(p, disk.bak)

KeysInv ==
  /\ ~disk.idle /\ disk.torn = None
  /\ CopiesAgree
  /\ \A p \in Procs : Acquainted(p, mem[p], disk)
  /\ \A th \in Threads : Careful(th)
  /\ DownInv

-----------------------------------------------------------------------------
(* What a reader may write afterwards.                                     *)

LEMMA KeyFacts ==
  ASSUME Undisturbed, NEW p \in Procs, NEW s
  PROVE  /\ IsFile(s) => Readable(p, s) \/ Locked(p, s)
         /\ Unreadable(p, s) => ~IsFile(s)
         /\ Readable(p, s) => Intact(s) /\ ~Foreign(p, s)
         /\ ~Intact(s) => ~Foreign(p, s) /\ ~Readable(p, s)
         /\ Locked(p, s) /\ ~Foreign(p, s) => ~Intact(s)
         /\ Foreign(p, s) => Locked(p, s)
BY ConstantsAssumption
   DEF Undisturbed, IsFile, Readable, Locked, Unreadable, Intact, Foreign

\* A reading of the journal from an offset up to which it is open.
LEMMA ReadJournalOpen ==
  ASSUME NEW p \in Procs, NEW m \in Memory, NEW d, d.journal \in Seq(Entry), NEW g,
         m.joff <= Len(d.journal), OpenTo(p, d, m.joff)
  PROVE  LET n == ReadJournal(p, m, d, g) IN
           /\ n.seen = m.seen
           /\ ~n.memOnly => n.joff = Len(d.journal) /\ OpenTo(p, d, Len(d.journal))
<1> DEFINE from == IF m.joff > Len(d.journal) THEN 0 ELSE m.joff
           locked == \E i \in from + 1 .. Len(d.journal) : LineLocked(p, d.journal[i])
           n == ReadJournal(p, m, d, g)
           moved == [m EXCEPT !.joff = from]
           merged == Merge(m, JournalTokens(p, d, from), JournalCounts(p, d, from))
<1>1. from = m.joff /\ m.joff \in Nat
  BY DEF Memory
<1>2. CASE locked
  <2>1. n = LockOut(moved, g)
    BY <1>2 DEF ReadJournal
  <2>2. moved.seen = m.seen /\ moved \in Memory
    BY <1>1 DEF Memory
  <2> HIDE DEF moved, n
  <2>3. n.seen = m.seen /\ n.memOnly
    BY <2>1, <2>2 DEF LockOut, GoMemoryOnly, Memory
  <2> QED BY <2>3 DEF n
<1>3. CASE ~locked
  <2>1. merged.seen = m.seen /\ DOMAIN merged = DOMAIN m
    BY DEF Merge, Memory
  <2>2. n = [merged EXCEPT
               !.gen = IF @ # None THEN @ ELSE JournalGen(p, d, from),
               !.joff = Len(d.journal),
               !.jlines = Saturated(@ + Cardinality(LinesFrom(p, d, from)))]
    BY <1>3 DEF ReadJournal
  <2>3. OpenTo(p, d, Len(d.journal))
    <3>1. \A i \in m.joff + 1 .. Len(d.journal) : ~LineLocked(p, d.journal[i])
      BY <1>1, <1>3
    <3>2. \A i \in 1 .. m.joff : ~LineLocked(p, d.journal[i])
      BY DEF OpenTo
    <3> QED BY <1>1, <3>1, <3>2 DEF OpenTo
  <2> HIDE DEF merged, n
  <2>4. n.seen = m.seen /\ n.joff = Len(d.journal)
    BY <2>1, <2>2 DEF Memory
  <2> QED BY <2>3, <2>4 DEF n
<1> QED BY <1>2, <1>3

\* Afterwards the process knows a snapshot that is there, and has read all it may write over.
Admitted(p, n, d) == (n.seen # "none" => Intact(d.main)) /\ (~n.memOnly => Opened(p, n, d))

LEMMA SyncedAdmits ==
  ASSUME Undisturbed, NEW p \in Procs, NEW m \in Memory, ~m.memOnly, NEW d \in Disk, NEW g,
         Acquainted(p, m, d)
  PROVE  Admitted(p, Synced(p, m, d, g), d)
<1> DEFINE n == Synced(p, m, d, g)
           m0 == From(m, d)
           plain == ~DroppedElsewhere(m, d) /\ ~Resurrects(m, d)
           locked == SnapshotChanged(m, d) /\ Locked(p, d.main)
           readable == SnapshotChanged(m, d) /\ Readable(p, d.main)
<1>1. m0 \in Memory /\ m0.seen = m.seen /\ ~m0.memOnly /\ m0.joff \in Nat
  BY DEF Memory, From
<1>2. d.journal \in Seq(Entry) /\ Len(d.journal) \in Nat
  BY DEF Disk
<1>3. (m0.joff <= Len(d.journal) /\ OpenTo(p, d, m0.joff)) \/ locked
  <2>1. CASE SnapshotChanged(m, d)
    <3>1. m0.joff = 0
      BY <2>1 DEF From, Memory
    <3> QED BY <1>2, <3>1 DEF OpenTo
  <2>2. CASE ~SnapshotChanged(m, d)
    <3>1. m0 = m
      BY <2>2 DEF From
    <3>2. m.seen = "fresh" \/ ~Intact(d.main)
      BY <2>2 DEF SnapshotChanged, Intact, IsFile
    <3> QED BY <3>1, <3>2 DEF Acquainted, ReadOpen
  <2> QED BY <2>1, <2>2
<1>4. ~DroppedElsewhere(m, d) /\ ~Resurrects(m, d)
  BY DEF DroppedElsewhere, Resurrects, Vanished, Acquainted, Intact, IsFile
<1>0. Ways(p, m, d, g, n)
  BY SyncedWays
<1> SUFFICES Admitted(p, n, d)
  OBVIOUS
<1> HIDE DEF n, m0
<1>5. CASE locked
  <2>1. n = LockOut(m0, g)
    BY <1>0, <1>4, <1>5, KeyFacts DEF Ways, m0, Readable, Locked
  <2>2. n.memOnly /\ n.seen = m.seen
    BY <1>1, <2>1 DEF LockOut, GoMemoryOnly, Memory
  <2> QED BY <2>2 DEF Admitted, Acquainted
<1>6. CASE readable
  <2> DEFINE a == AdoptSnapshot(m0, d.main)
  <2>1. d.main \in Snapshot
    BY <1>6 DEF Readable, IsFile, Disk
  <2>2. a \in Memory
    BY <1>1, <2>1, AdoptSnapshotGood
  <2>3. a.joff \in {0, m0.joff} /\ a.seen = "fresh"
    BY <1>1 DEF AdoptSnapshot, SwapIn, Merge, Memory
  <2>4. n = ReadJournal(p, a, d, g)
    BY <1>0, <1>4, <1>6 DEF Ways, m0, Readable, Locked
  <2>5. a.joff <= Len(d.journal) /\ OpenTo(p, d, a.joff)
    <3>1. ~locked
      BY <1>6 DEF Readable, Locked
    <3> QED BY <1>2, <1>3, <2>3, <3>1 DEF OpenTo
  <2> HIDE DEF a
  <2>6. ~n.memOnly => n.joff = Len(d.journal) /\ OpenTo(p, d, Len(d.journal))
    BY <1>2, <2>2, <2>4, <2>5, ReadJournalOpen
  <2>7. Intact(d.main) /\ ~Foreign(p, d.main)
    BY <1>6, KeyFacts
  <2> QED BY <1>2, <2>6, <2>7 DEF Admitted, Opened, ReadOpen
<1>7. CASE ~locked /\ ~readable
  <2>1. n = ReadJournal(p, m0, d, g)
    BY <1>0, <1>4, <1>7 DEF Ways, m0
  <2>2. n.seen = m.seen /\ (~n.memOnly => n.joff = Len(d.journal) /\ OpenTo(p, d, Len(d.journal)))
    BY <1>1, <1>2, <1>3, <1>7, <2>1, ReadJournalOpen
  <2>3. ~Foreign(p, d.main)
    <3>1. CASE SnapshotChanged(m, d)
      BY <1>7, <3>1, KeyFacts
    <3>2. CASE ~SnapshotChanged(m, d)
      <4>1. m.seen = "fresh" \/ ~Intact(d.main)
        BY <3>2 DEF SnapshotChanged, Intact, IsFile
      <4> QED BY <4>1 DEF Acquainted, ReadOpen
    <3> QED BY <3>1, <3>2
  <2> QED BY <1>2, <2>2, <2>3 DEF Admitted, Acquainted, Opened, ReadOpen
<1> QED BY <1>5, <1>6, <1>7

\* What a load makes of the files as it found them.
Informed(p, n, d) ==
  /\ n.seen # "none" => n.seen = "fresh" /\ Readable(p, d.main)
  /\ ~n.memOnly => n.joff = Len(d.journal) /\ OpenTo(p, d, Len(d.journal))

LEMMA LoadedInforms ==
  ASSUME Undisturbed, NEW p \in Procs, NEW d \in Disk, NEW g \in Gens
  PROVE  Informed(p, Loaded(p, d, g), d)
<1> DEFINE start == [NewMemory EXCEPT !.memOnly = (KeyOf[p] = BadKey)]
           adopt(s, seen) == [Merge(start, s.t2r, s.ctr) EXCEPT !.gen = s.gen, !.seen = seen]
           copy == CASE Readable(p, d.main)  -> adopt(d.main, "fresh")
                     [] RestoresBackup(p, d) -> adopt(d.bak, "none")
                     [] OTHER                -> start
           read == IF LockedOut(p, d) THEN GoMemoryOnly(start, g) ELSE ReadJournal(p, copy, d, g)
           last == IF KeyOf[p] = BadKey THEN GoMemoryOnly(read, g) ELSE read
           n == Loaded(p, d, g)
<1>0. n = IF last.gen = None THEN [last EXCEPT !.gen = g] ELSE [last EXCEPT !.joined = TRUE]
  BY DEF Loaded
<1>1. last = read
  BY DEF Undisturbed
<1>2. start \in Memory /\ start.seen = "none" /\ start.joff = 0 /\ CoherentMemory(start)
  <2>1. start \in Memory /\ start.t2r = NewMemory.t2r /\ start.r2t = NewMemory.r2t
    BY NewMemoryGood DEF Memory
  <2> QED BY <2>1, NewMemoryGood DEF CoherentMemory, NewMemory
<1> HIDE DEF start
<1>3. ASSUME NEW s \in Snapshot, NEW seen \in {"fresh", "none"}
      PROVE  /\ adopt(s, seen) \in Memory
             /\ adopt(s, seen).seen = seen /\ adopt(s, seen).joff = 0
  <2> DEFINE a == Merge(start, s.t2r, s.ctr)
  <2>1. s.t2r \in TokenMap /\ s.ctr \in Counters /\ s.gen \in Gens
    BY DEF Snapshot
  <2>2. a \in Memory
    BY <1>2, <2>1, MergeGood
  <2>3. a.joff = 0
    BY <1>2 DEF Merge, Memory
  <2> HIDE DEF a
  <2>4. /\ [a EXCEPT !.gen = s.gen, !.seen = seen] \in Memory
        /\ [a EXCEPT !.gen = s.gen, !.seen = seen].seen = seen
        /\ [a EXCEPT !.gen = s.gen, !.seen = seen].joff = 0
    BY <2>1, <2>2, <2>3 DEF Memory
  <2> QED BY <2>4 DEF a
<1> HIDE DEF adopt
<1>4. /\ copy \in Memory /\ copy.joff = 0
      /\ copy.seen # "none" => copy.seen = "fresh" /\ Readable(p, d.main)
  <2>0. RestoresBackup(p, d) => ~Readable(p, d.main)
    BY DEF RestoresBackup, AsksBackup, Unreadable, Locked, Readable, IsFile
  <2>1. CASE Readable(p, d.main)
    <3>1. d.main \in Snapshot
      BY <2>1 DEF Readable, IsFile, Disk
    <3> QED BY <1>3, <2>0, <2>1, <3>1
  <2>2. CASE ~Readable(p, d.main) /\ RestoresBackup(p, d)
    <3>1. d.bak \in Snapshot
      BY <2>2 DEF RestoresBackup, Readable, IsFile, Disk
    <3> QED BY <1>3, <2>2, <3>1
  <2>3. CASE ~Readable(p, d.main) /\ ~RestoresBackup(p, d)
    BY <1>2, <2>3
  <2> QED BY <2>1, <2>2, <2>3
<1>5. d.journal \in Seq(Entry) /\ Len(d.journal) \in Nat
  BY DEF Disk
<1> HIDE DEF copy
<1>6. read \in Memory /\ Informed(p, read, d)
  <2>1. CASE LockedOut(p, d)
    <3>1. read = GoMemoryOnly(start, g)
      BY <2>1
    <3>2. read \in Memory
      BY <1>2, <3>1, GoMemoryOnlyGood
    <3> HIDE DEF read
    <3>3. read.memOnly /\ read.seen = "none"
      BY <1>2, <3>1 DEF GoMemoryOnly, Memory
    <3> QED BY <3>2, <3>3 DEF Informed
  <2>2. CASE ~LockedOut(p, d)
    <3>1. read = ReadJournal(p, copy, d, g)
      BY <2>2
    <3>2. read \in Memory
      <4>1. GoodFiles(d)
        BY DEF GoodFiles, Disk
      <4> QED BY <1>4, <3>1, <4>1, ReadJournalGood
    <3>3. copy.joff <= Len(d.journal) /\ OpenTo(p, d, copy.joff)
      BY <1>4, <1>5 DEF OpenTo
    <3> HIDE DEF read
    <3>4. /\ read.seen = copy.seen
          /\ ~read.memOnly => read.joff = Len(d.journal) /\ OpenTo(p, d, Len(d.journal))
      BY <1>4, <1>5, <3>1, <3>3, ReadJournalOpen
    <3> QED BY <1>4, <3>2, <3>4 DEF Informed
  <2> QED BY <2>1, <2>2
<1> HIDE DEF read, n
<1>7. n.seen = read.seen /\ n.memOnly = read.memOnly /\ n.joff = read.joff
  BY <1>0, <1>1, <1>6 DEF Memory
<1>8. Informed(p, n, d)
  BY <1>6, <1>7 DEF Informed
<1> QED BY <1>8 DEF n

-----------------------------------------------------------------------------
(* The steps of one thread.                                                *)

LEMMA Unupset ==
  ASSUME Undisturbed, IInv
  PROVE  \A f \in {"torn", "torn_whole", "timeout", "damage", "clear", "age"} : ~Upset(f)
<1>1. \A f \in {"torn", "torn_whole", "timeout", "damage", "clear", "age"} :
        f \in UpsetKinds /\ Budget[f] = 0
  BY DEF Undisturbed, UpsetKinds
<1> QED BY <1>1 DEF IInv, HistoryInv, Upset

\* Nobody goes on without the lock.
LEMMA Locks ==
  ASSUME Undisturbed, IInv, NEW th \in Threads
  PROVE  /\ Enter(th) \/ EnterLoad(th) => holder = None /\ holder' = th
         /\ Pass(th) \/ PassLoad(th) => holder = None /\ holder' = None
<1>1. ~Upset("timeout")
  BY Unupset
<1>2. KeyOf[ProcOf[th]] # BadKey
  BY OwnerType DEF Undisturbed
<1> QED BY <1>1, <1>2 DEF Enter, Pass, EnterLoad, PassLoad

\* n may have forgotten that the snapshot is unchanged; it stands where m stood.
Alike(n, m) ==
  /\ n.joff = m.joff /\ n.memOnly = m.memOnly
  /\ n.seen = m.seen \/ (m.seen = "fresh" /\ n.seen = "stale")

LEMMA AlikeKeeps ==
  ASSUME NEW p, NEW m, NEW n, NEW d, NEW e, Alike(n, m),
         e.main = d.main, e.journal = d.journal
  PROVE  /\ Acquainted(p, m, d) => Acquainted(p, n, e)
         /\ Opened(p, m, d) => Opened(p, n, e)
BY DEF Alike, Acquainted, Opened, ReadOpen, OpenTo

LEMMA RestatAlike ==
  ASSUME NEW m \in Memory
  PROVE  /\ Alike(m, m) /\ Alike(Restat(m), m)
         /\ Restat(m).seen # "fresh" /\ (m = NewMemory => Restat(m) = NewMemory)
<1> DEFINE n == Restat(m)
<1>1. n = [m EXCEPT !.seen = IF @ = "fresh" THEN "stale" ELSE @]
  BY DEF Restat
<1>2. m = NewMemory => n = m
  <2>1. m.seen = "none" => n = m
    BY <1>1 DEF Memory
  <2> QED BY <2>1 DEF NewMemory
<1> HIDE DEF n
<1>3. Alike(n, m) /\ n.seen # "fresh"
  BY <1>1 DEF Alike, Memory
<1> QED BY <1>2, <1>3 DEF Alike, n

\* Nobody else is where the lock is needed.
LEMMA AloneInside ==
  ASSUME KeysInv, NEW th \in Threads, holder \in {None, th}
  PROVE  \A x \in Threads \ {th} : pc[x] \notin Locking
BY ConstantsAssumption DEF KeysInv, Careful

\* What a step of th leaves of the other processes.
Leaves(th) ==
  /\ \A x \in Threads \ {th} : pc'[x] = pc[x] /\ raw'[x] = raw[x]
  /\ \A q \in Procs \ {ProcOf[th]} :
       /\ up'[q] = up[q]
       /\ mem'[q] = mem[q] \/ mem'[q] = Restat(mem[q])
  /\ up'[ProcOf[th]] # "down"

\* Either nobody else is inside, or the lock, the files and what th's process has seen stay.
Apart(th) ==
  \/ holder \in {None, th}
  \/ SameFiles /\ holder' = holder /\ (mem'[ProcOf[th]].seen = "fresh" => mem[ProcOf[th]].seen = "fresh")

LEMMA OthersCareful ==
  ASSUME Undisturbed, IInv, KeysInv, NEW th \in Threads, Leaves(th), Apart(th)
  PROVE  \A x \in Threads \ {th} : Careful(x)'
<1> SUFFICES ASSUME NEW x \in Threads \ {th} PROVE Careful(x)'
  OBVIOUS
<1>1. pc'[x] = pc[x] /\ raw'[x] = raw[x] /\ Careful(x)
  BY DEF Leaves, KeysInv
<1>2. CASE holder \in {None, th}
  <2>1. pc[x] \notin Locking
    BY <1>2, AloneInside
  <2> QED BY <1>1, <2>1 DEF Careful, Locking
<1>3. CASE /\ SameFiles /\ holder' = holder
           /\ mem'[ProcOf[th]].seen = "fresh" => mem[ProcOf[th]].seen = "fresh"
  <2> DEFINE p == ProcOf[x]
  <2>1. p \in Procs \ {ProcOf[th]} /\ mem \in [Procs -> Memory]
    BY OwnerType DEF Undisturbed, OneCallEach, IInv, MemoryInv
  <2>2. Alike(mem'[p], mem[p])
    BY <2>1, RestatAlike DEF Leaves
  <2>3. \A q \in Procs \ {p} : mem[q].seen # "fresh" => mem'[q].seen # "fresh"
    BY <1>3, <2>1, RestatAlike DEF Leaves
  <2>4. Opened(p, mem[p], disk) => Opened(p, mem'[p], disk')
    BY <1>3, <2>2, AlikeKeeps DEF SameFiles
  <2> QED BY <1>1, <1>3, <2>2, <2>3, <2>4 DEF Careful, SameFiles, Alike
<1> QED BY <1>2, <1>3 DEF Apart

LEMMA StaysDown ==
  ASSUME IInv, DownInv, NEW th \in Threads, Leaves(th) PROVE DownInv'
<1> SUFFICES ASSUME NEW q \in Procs, up'[q] = "down"
             PROVE  mem'[q] = NewMemory /\ \A x \in Threads : ProcOf[x] = q => pc'[x] = "idle"
  BY DEF DownInv
<1>1. q # ProcOf[th] /\ up[q] = "down" /\ mem[q] \in Memory
  BY DEF Leaves, IInv, MemoryInv
<1> QED BY <1>1, RestatAlike DEF Leaves, DownInv

LEMMA KeysStep ==
  ASSUME Undisturbed, IInv, KeysInv, NEW th \in Threads, Leaves(th), Apart(th),
         ~disk'.idle, disk'.torn = None, CopiesAgree',
         \A p \in Procs : Acquainted(p, mem'[p], disk'), Careful(th)'
  PROVE  KeysInv'
BY OthersCareful, StaysDown DEF KeysInv

\* A step that changes neither what the files hold nor how far anybody has read them.
LEMMA BriefStep ==
  ASSUME Undisturbed, IInv, KeysInv, NEW th \in Threads, Leaves(th), SameFiles,
         disk'.idle => disk.idle, \A q \in Procs : Alike(mem'[q], mem[q]),
         holder' = holder \/ holder \in {None, th}, Careful(th)'
  PROVE  KeysInv'
<1>1. Apart(th)
  BY OwnerType DEF Apart, Alike
<1>2. \A p \in Procs : Acquainted(p, mem'[p], disk')
  BY AlikeKeeps DEF KeysInv, SameFiles
<1>3. CopiesAgree'
  BY DEF KeysInv, CopiesAgree, SameFiles
<1> QED BY <1>1, <1>2, <1>3, KeysStep DEF KeysInv, SameFiles

LEMMA Alive ==
  ASSUME KeysInv, NEW th \in Threads, pc[th] # "idle" PROVE up[ProcOf[th]] # "down"
BY OwnerType DEF KeysInv, DownInv

LEMMA CarefulOutside ==
  ASSUME NEW th \in Threads, pc'[th] \in {"idle", "sweep", "load", "sync"} PROVE Careful(th)'
BY DEF Careful, Locking, Deleting

LEMMA CarefulInside ==
  ASSUME KeysInv, NEW th \in Threads, pc[th] \in Locking,
         pc'[th] \in {"mint", "append", "return", "compact"}, holder' = holder, SameFiles,
         Alike(mem'[ProcOf[th]], mem[ProcOf[th]])
  PROVE  Careful(th)'
<1>1. Opened(ProcOf[th], mem[ProcOf[th]], disk) => Opened(ProcOf[th], mem'[ProcOf[th]], disk')
  BY AlikeKeeps DEF SameFiles
<1> QED BY <1>1 DEF KeysInv, Careful, Locking, Deleting, Alike

\* Nothing expires or is dropped, and no line is torn.
LEMMA Barred ==
  ASSUME Undisturbed, IInv, KeysInv, NEW th \in Threads
  PROVE  /\ ~SweepExpired(th) /\ ~LoadExpired(th)
         /\ ~Clear(th) /\ ~ClearFiles(th) /\ ~Unlink(th) /\ ~Tombstone(th)
         /\ ~CrashTorn(th) /\ ~Age
<1>1. ~Upset("clear") /\ ~Upset("torn") /\ ~Upset("torn_whole") /\ ~Upset("age")
  BY Unupset
<1>2. Careful(th) /\ ~disk.idle
  BY DEF KeysInv
<1> QED BY <1>1, <1>2
   DEF SweepExpired, LoadExpired, Expired, Clear, ClearFiles, Unlink, Tombstone, CrashTorn, Age,
       Careful, Deleting

LEMMA CallsKeys ==
  ASSUME Undisturbed, IInv, KeysInv, NEW th \in Threads,
         \/ Start(th) \/ SweepNothing(th)
         \/ \E v \in Values, k \in Types : TokenizeNew(th, v, k)
         \/ RestoreMiss(th) \/ Save(th)
  PROVE  KeysInv'
<1>1. UNCHANGED <<mem, raw, disk, holder>> /\ mem \in [Procs -> Memory]
  BY DEF Start, SweepNothing, TokenizeNew, RestoreMiss, Save, Begin, IInv, MemoryInv
<1>2. pc'[th] \in {"sweep", "load", "sync"} /\ \A x \in Threads \ {th} : pc'[x] = pc[x]
  BY DEF Start, SweepNothing, TokenizeNew, RestoreMiss, Save, Begin, Goto, IInv, ControlInv
<1>3. up'[ProcOf[th]] # "down" /\ \A q \in Procs \ {ProcOf[th]} : up'[q] = up[q]
  <2>1. CASE Start(th)
    BY <2>1, OwnerType DEF Start, IInv, ControlInv
  <2>2. CASE SweepNothing(th)
    BY <2>2, Alive DEF SweepNothing
  <2>3. CASE ~Start(th) /\ ~SweepNothing(th)
    BY <2>3 DEF TokenizeNew, RestoreMiss, Save, Begin, Ready
  <2> QED BY <2>1, <2>2, <2>3
<1>4. Leaves(th) /\ SameFiles /\ \A q \in Procs : Alike(mem'[q], mem[q])
  BY <1>1, <1>2, <1>3, RestatAlike DEF Leaves, SameFiles
<1>5. Careful(th)'
  BY <1>2, CarefulOutside
<1> QED BY <1>1, <1>4, <1>5, BriefStep

LEMMA AnswersKeys ==
  ASSUME Undisturbed, IInv, KeysInv, NEW th \in Threads,
         \/ \E v \in Values : Reuse(th, v)
         \/ \E v \in Values, k \in Types : TokenizeFar(th, v, k)
         \/ RestoreHit(th)
  PROVE  KeysInv'
<1>1. mem \in [Procs -> Memory] /\ disk \in Disk /\ ProcOf[th] \in Procs
  BY OwnerType DEF IInv, MemoryInv, FilesInv
<1>2. UNCHANGED <<up, pc, raw, holder>> /\ up[ProcOf[th]] = "up" /\ pc[th] = "idle"
  BY DEF Reuse, TokenizeFar, RestoreHit, Ready
<1>3. \A q \in Procs : Alike(mem'[q], mem[q])
  <2>1. CASE \E v \in Values, k \in Types : TokenizeFar(th, v, k)
    <3>1. PICK v \in Values, k \in Types : TokenizeFar(th, v, k)
      BY <2>1
    <3> DEFINE n == Minted(mem[ProcOf[th]], v, k, FarBase)
    <3>2. Alike(n, mem[ProcOf[th]])
      BY <1>1, MintedKeeps DEF Alike
    <3>3. mem' = [mem EXCEPT ![ProcOf[th]] = n]
      BY <3>1 DEF TokenizeFar, SetMem
    <3> HIDE DEF n
    <3> QED BY <1>1, <3>2, <3>3, RestatAlike
  <2>2. CASE (\E v \in Values : Reuse(th, v)) \/ RestoreHit(th)
    BY <1>1, <2>2, RestatAlike DEF Reuse, RestoreHit, Touch
  <2> QED BY <2>1, <2>2
<1>4. \A q \in Procs \ {ProcOf[th]} : mem'[q] = mem[q] \/ mem'[q] = Restat(mem[q])
  BY <1>1 DEF Reuse, TokenizeFar, RestoreHit, Touch, SetMem
<1>5. SameFiles /\ (disk'.idle => disk.idle)
  BY <1>1 DEF Reuse, TokenizeFar, RestoreHit, Touch, SameFiles, Disk
<1>6. Leaves(th)
  BY <1>2, <1>4 DEF Leaves
<1>7. Careful(th)'
  BY <1>2, CarefulOutside
<1> QED BY <1>2, <1>3, <1>5, <1>6, <1>7, BriefStep

LEMMA MintsKeys ==
  ASSUME Undisturbed, IInv, KeysInv, NEW th \in Threads,
         \/ MintLockedOut(th) \/ MintFound(th) \/ MintNew(th)
         \/ Return(th) \/ CompactNothing(th)
  PROVE  KeysInv'
<1> DEFINE p == ProcOf[th]
<1>1. mem \in [Procs -> Memory] /\ p \in Procs
  BY OwnerType DEF IInv, MemoryInv
<1>2. pc[th] \in Locking /\ UNCHANGED <<raw, disk>>
  BY DEF Locking, MintLockedOut, MintFound, MintNew, Return, CompactNothing
<1>3. Alike(mem'[p], mem[p]) /\ \A q \in Procs \ {p} : mem'[q] = mem[q]
  <2>1. ASSUME NEW v, NEW k, mem' = [mem EXCEPT ![p] = Minted(mem[p], v, k, 0)]
        PROVE  Alike(mem'[p], mem[p]) /\ \A q \in Procs \ {p} : mem'[q] = mem[q]
    <3> DEFINE n == Minted(mem[p], v, k, 0)
    <3>1. Alike(n, mem[p])
      BY <1>1, MintedKeeps DEF Alike
    <3>2. mem' = [mem EXCEPT ![p] = n]
      BY <2>1
    <3> HIDE DEF n
    <3> QED BY <1>1, <3>1, <3>2
  <2>2. CASE mem' = mem
    BY <1>1, <2>2, RestatAlike
  <2>3. CASE MintLockedOut(th) \/ MintNew(th)
    BY <1>1, <2>1, <2>2, <2>3 DEF MintLockedOut, MintNew, SetMem
  <2>4. CASE MintFound(th) \/ Return(th) \/ CompactNothing(th)
    BY <2>2, <2>4 DEF MintFound, Return, CompactNothing
  <2> QED BY <2>3, <2>4
<1>4. up[p] # "down" /\ up'[p] # "down" /\ \A q \in Procs \ {p} : up'[q] = up[q]
  <2>1. up[p] # "down"
    BY <1>2, Alive DEF Locking
  <2> QED BY <1>1, <2>1 DEF MintLockedOut, MintFound, MintNew, Return, CompactNothing,
          AfterCompact, IInv, ControlInv
<1>5. /\ \A x \in Threads \ {th} : pc'[x] = pc[x]
      /\ pc'[th] = "idle" \/ (pc'[th] \in {"mint", "append", "return", "compact"} /\ holder' = holder)
  BY DEF MintLockedOut, MintFound, MintNew, Return, CompactNothing, AfterCompact,
         Rest, Goto, IInv, ControlInv
<1>6. Leaves(th) /\ SameFiles
  BY <1>2, <1>3, <1>4, <1>5 DEF Leaves, SameFiles
<1>7. Careful(th)'
  BY <1>2, <1>3, <1>5, <1>6, CarefulOutside, CarefulInside
<1>8. holder = th
  BY <1>2 DEF KeysInv, Careful
<1>9. \A q \in Procs : Alike(mem'[q], mem[q])
  BY <1>1, <1>3, RestatAlike
<1> QED BY <1>2, <1>6, <1>7, <1>8, <1>9, BriefStep

-----------------------------------------------------------------------------
(* The steps that compact.                                                 *)

\* A compaction in progress: what its thread may rely on.
LEMMA Compacting ==
  ASSUME PrivInv, IInv, KeysInv, NEW th \in Threads,
         pc[th] \in {"append", "bak", "main", "uncleared", "truncate"}
  PROVE  /\ mem \in [Procs -> Memory] /\ disk \in Disk /\ raw \in [Threads -> Snapshot \cup {None}]
         /\ ProcOf[th] \in Procs /\ up[ProcOf[th]] # "down" /\ holder = th
         /\ ~mem[ProcOf[th]].memOnly /\ Opened(ProcOf[th], mem[ProcOf[th]], disk)
<1>1. /\ mem \in [Procs -> Memory] /\ disk \in Disk /\ raw \in [Threads -> Snapshot \cup {None}]
      /\ ProcOf[th] \in Procs
  BY OwnerType DEF IInv, MemoryInv, FilesInv
<1>2. ~mem[ProcOf[th]].memOnly /\ holder = th
  BY DEF PrivInv, Stopped, Writing, KeysInv, Careful, Locking
<1>3. Opened(ProcOf[th], mem[ProcOf[th]], disk)
  BY <1>2 DEF KeysInv, Careful, Locking
<1> QED BY <1>1, <1>2, <1>3, Alive

LEMMA PayloadKeys ==
  ASSUME Undisturbed, IInv, KeysInv, NEW th \in Threads, Payload(th) PROVE KeysInv'
<1> DEFINE p == ProcOf[th]
           m == mem[p]
           n == [m EXCEPT !.dirty = FALSE]
           snap == [gen |-> m.gen, t2r |-> m.t2r, ctr |-> m.ctr, key |-> KeyOf[p]]
<1>1. /\ mem \in [Procs -> Memory] /\ raw \in [Threads -> Snapshot \cup {None}]
      /\ p \in Procs /\ m \in Memory /\ m.gen \in Gens
  BY OwnerType DEF IInv, MemoryInv, FilesInv, InLifetime, Working, Payload
<1>2. holder = th /\ (~m.memOnly => Opened(p, m, disk)) /\ up[p] # "down"
  BY Alive DEF Payload, KeysInv, Careful, Locking
<1>3. IsFile(snap) /\ snap.key = KeyOf[p]
  <2>1. snap \in Snapshot
    BY <1>1 DEF Memory, Snapshot, Keys
  <2> QED BY <2>1, NoSnapshotAssumption DEF IsFile
<1>4. Alike(n, m)
  BY <1>1 DEF Alike, Memory
<1> HIDE DEF n, snap
<1>5. raw'[th] = snap /\ \A x \in Threads \ {th} : raw'[x] = raw[x]
  BY <1>1 DEF Payload, snap
<1>6. mem'[p] = n /\ \A q \in Procs \ {p} : mem'[q] = mem[q]
  BY <1>1 DEF Payload, SetMem, n
<1>7. /\ pc'[th] = "bak" /\ \A x \in Threads \ {th} : pc'[x] = pc[x]
      /\ UNCHANGED <<up, disk, holder>>
  BY DEF Payload, Goto, IInv, ControlInv
<1>8. Leaves(th) /\ SameFiles /\ \A q \in Procs : Alike(mem'[q], mem[q])
  BY <1>1, <1>2, <1>4, <1>5, <1>6, <1>7, RestatAlike DEF Leaves, SameFiles
<1>9. Careful(th)'
  <2>1. ~mem'[p].memOnly => Opened(p, mem'[p], disk')
    BY <1>2, <1>4, <1>6, <1>7, AlikeKeeps DEF Alike
  <2> QED BY <1>2, <1>3, <1>5, <1>7, <2>1 DEF Careful, Locking, Deleting
<1> QED BY <1>7, <1>8, <1>9, BriefStep

LEMMA RemoveTombstoneKeys ==
  ASSUME Undisturbed, PrivInv, IInv, KeysInv, NEW th \in Threads, RemoveTombstone(th)
  PROVE  KeysInv'
<1>1. /\ mem \in [Procs -> Memory] /\ disk \in Disk /\ ProcOf[th] \in Procs
      /\ up[ProcOf[th]] # "down" /\ holder = th
  BY Compacting DEF RemoveTombstone
<1>2. /\ pc'[th] = "truncate" /\ \A x \in Threads \ {th} : pc'[x] = pc[x]
      /\ UNCHANGED <<up, mem, raw, holder>>
      /\ SameFiles /\ disk'.idle = disk.idle
  BY <1>1 DEF RemoveTombstone, Goto, SameFiles, Disk, IInv, ControlInv
<1>3. Leaves(th) /\ \A q \in Procs : Alike(mem'[q], mem[q])
  BY <1>1, <1>2, RestatAlike DEF Leaves
<1>4. Careful(th)'
  <2>1. Opened(ProcOf[th], mem[ProcOf[th]], disk) => Opened(ProcOf[th], mem[ProcOf[th]], disk')
    BY <1>1, <1>2, RestatAlike, AlikeKeeps DEF SameFiles
  <2>2. pc[th] = "uncleared" /\ Careful(th)
    BY DEF RemoveTombstone, KeysInv
  <2> QED BY <1>1, <1>2, <2>1, <2>2 DEF Careful, Locking, Deleting, SameFiles
<1> QED BY <1>2, <1>3, <1>4, BriefStep

\* A line of one's own is not locked.
LEMMA OwnLineOpen ==
  ASSUME IInv, NEW th \in Threads, pc[th] = "append"
  PROVE  LineOf(th) \in Entry /\ ~LineLocked(ProcOf[th], LineOf(th))
<1>1. LineOf(th) \in Entry
  BY LineOfType
<1>2. job[th].tok # None
  BY DEF IInv, ControlInv, Carrying
<1> QED BY <1>1, <1>2 DEF LineLocked, LineOf

\* The line is written, whether or not the write then raises.
LEMMA WrittenKeys ==
  ASSUME Undisturbed, PrivInv, IInv, KeysInv, NEW th \in Threads,
         AppendLine(th) \/ (AppendFails(th) /\ disk' # disk)
  PROVE  KeysInv'
<1> DEFINE p == ProcOf[th]
           m == mem[p]
           n == mem'[p]
           line == LineOf(th)
<1>1. /\ mem \in [Procs -> Memory] /\ disk \in Disk /\ p \in Procs /\ m \in Memory
      /\ up[p] # "down" /\ holder = th /\ ~m.memOnly /\ Opened(p, m, disk)
  BY Compacting DEF AppendLine, AppendFails
<1>2. disk.torn = None /\ Lines(disk) = disk.journal
  BY DEF KeysInv, Lines
<1>3. n.joff \in {m.joff, m.joff + 1} /\ n.memOnly = m.memOnly /\ n.seen = m.seen
  <2>1. CASE AppendLine(th)
    BY <1>1, <1>2, <2>1 DEF AppendLine, SetMem, Memory
  <2>2. CASE AppendFails(th) /\ disk' # disk
    <3>1. disk'.torn = disk.torn
      BY <1>1, <1>2, <2>2 DEF AppendFails, Disk
    <3> QED BY <1>1, <2>2, <3>1 DEF AppendFails, SetMem, Memory
  <2> QED BY <2>1, <2>2
<1>4. line \in Entry /\ ~LineLocked(p, line)
  BY OwnLineOpen DEF AppendLine, AppendFails
<1>5. \A q \in Procs \ {p} : mem'[q] = mem[q]
  BY <1>1 DEF AppendLine, AppendFails, SetMem
<1>6. disk.journal \in Seq(Entry) /\ m.joff \in Nat
  BY <1>1 DEF Disk, Memory
<1>7. /\ disk'.main = disk.main /\ disk'.bak = disk.bak /\ disk'.torn = None /\ ~disk'.idle
      /\ disk'.journal = Append(disk.journal, line)
  <2>1. CASE AppendLine(th)
    BY <1>1, <1>2, <2>1 DEF AppendLine, Disk
  <2>2. CASE AppendFails(th) /\ disk' # disk
    <3> DEFINE ended == [disk EXCEPT !.journal = disk.journal, !.torn = None, !.idle = FALSE]
    <3>1. disk' = [ended EXCEPT !.journal = Append(ended.journal, line)]
      BY <1>2, <2>2 DEF AppendFails
    <3> HIDE DEF line
    <3> QED BY <1>1, <3>1 DEF Disk
  <2> QED BY <2>1, <2>2
<1>8. /\ pc'[th] \in {"compact", "return"} /\ \A x \in Threads \ {th} : pc'[x] = pc[x]
      /\ UNCHANGED <<up, raw, holder>>
  BY DEF AppendLine, AppendFails, Goto, IInv, ControlInv
<1> HIDE DEF n, line
<1>9. /\ Len(disk'.journal) = Len(disk.journal) + 1
      /\ \A i \in 1 .. Len(disk.journal) : disk'.journal[i] = disk.journal[i]
      /\ disk'.journal[Len(disk.journal) + 1] = line
  BY <1>4, <1>6, <1>7
<1>10. Opened(p, n, disk')
  <2>1. OpenTo(p, disk', Len(disk'.journal))
    BY <1>1, <1>4, <1>6, <1>9 DEF Opened, OpenTo
  <2>2. n.joff <= Len(disk'.journal) /\ OpenTo(p, disk', n.joff)
    BY <1>1, <1>3, <1>6, <1>9, <2>1 DEF Opened, ReadOpen, OpenTo
  <2> QED BY <1>1, <1>7, <2>1, <2>2 DEF Opened, ReadOpen, Foreign
<1>11. \A q \in Procs : Acquainted(q, mem'[q], disk')
  <2>1. ASSUME NEW q \in Procs \ {p} PROVE Acquainted(q, mem'[q], disk')
    <3>1. mem[q].joff \in Nat
      BY <1>1 DEF Memory
    <3>2. ReadOpen(q, mem[q], disk) => ReadOpen(q, mem[q], disk')
      BY <1>6, <1>7, <1>9, <3>1 DEF ReadOpen, OpenTo, Foreign
    <3> QED BY <1>5, <1>7, <2>1, <3>2 DEF KeysInv, Acquainted
  <2>2. Acquainted(p, mem'[p], disk')
    BY <1>1, <1>3, <1>7, <1>10 DEF KeysInv, Acquainted, Opened, n
  <2> QED BY <2>1, <2>2
<1>12. Careful(th)'
  BY <1>1, <1>8, <1>10 DEF Careful, Locking, Deleting, n
<1>13. CopiesAgree'
  BY <1>7 DEF KeysInv, CopiesAgree
<1>14. Leaves(th) /\ Apart(th)
  BY <1>1, <1>5, <1>8 DEF Leaves, Apart
<1> QED BY <1>7, <1>11, <1>12, <1>13, <1>14, KeysStep

\* The write raises at once: there is no torn line to terminate.
LEMMA AppendFailsKeys ==
  ASSUME Undisturbed, PrivInv, IInv, KeysInv, NEW th \in Threads, AppendFails(th)
  PROVE  KeysInv'
<1>1. CASE disk' # disk
  BY <1>1, WrittenKeys
<1>2. CASE disk' = disk
  <2> DEFINE p == ProcOf[th]
  <2>1. mem \in [Procs -> Memory] /\ p \in Procs /\ up[p] # "down" /\ holder = th
    BY Compacting DEF AppendFails
  <2>2. Alike(mem'[p], mem[p]) /\ \A q \in Procs \ {p} : mem'[q] = mem[q]
    BY <1>2, <2>1 DEF AppendFails, SetMem, Alike, Memory
  <2>3. /\ pc[th] \in Locking /\ pc'[th] = "return" /\ \A x \in Threads \ {th} : pc'[x] = pc[x]
        /\ UNCHANGED <<up, raw, holder>>
    BY DEF AppendFails, Goto, IInv, ControlInv, Locking
  <2>4. Leaves(th) /\ SameFiles /\ \A q \in Procs : Alike(mem'[q], mem[q])
    BY <1>2, <2>1, <2>2, <2>3, RestatAlike DEF Leaves, SameFiles
  <2>5. Careful(th)'
    BY <2>2, <2>3, <2>4, CarefulInside
  <2> QED BY <1>2, <2>1, <2>3, <2>4, <2>5, BriefStep
<1> QED BY <1>1, <1>2

LEMMA WriteBakKeys ==
  ASSUME Undisturbed, PrivInv, IInv, KeysInv, NEW th \in Threads, WriteBak(th)
  PROVE  KeysInv'
<1> DEFINE p == ProcOf[th]
<1>1. /\ mem \in [Procs -> Memory] /\ disk \in Disk /\ p \in Procs
      /\ up[p] # "down" /\ holder = th /\ ~mem[p].memOnly /\ Opened(p, mem[p], disk)
  BY Compacting DEF WriteBak
<1>2. IsFile(raw[th]) /\ raw[th].key = KeyOf[p]
  BY DEF WriteBak, KeysInv, Careful
<1>3. /\ disk'.main = disk.main /\ disk'.bak = raw[th] /\ disk'.torn = disk.torn
      /\ disk'.idle = disk.idle /\ disk'.journal = disk.journal
  BY <1>1 DEF WriteBak, Disk
<1>4. /\ pc'[th] = "main" /\ \A x \in Threads \ {th} : pc'[x] = pc[x]
      /\ UNCHANGED <<up, mem, raw, holder>>
  BY DEF WriteBak, Goto, IInv, ControlInv
<1>5. CopiesAgree'
  <2> SUFFICES ASSUME NEW q \in Procs, Foreign(q, disk.main) PROVE ~Readable(q, raw[th])
    BY <1>3 DEF CopiesAgree
  <2>1. disk.main.key = KeyOf[p] /\ disk.main.key \notin {NoKey, KeyOf[q]}
    BY <1>1 DEF Opened, ReadOpen, Foreign
  <2> QED BY <1>2, <2>1 DEF Readable
<1>6. \A q \in Procs : Acquainted(q, mem'[q], disk')
  BY <1>1, <1>3, <1>4, RestatAlike, AlikeKeeps DEF KeysInv
<1>7. Careful(th)'
  <2>1. Opened(p, mem'[p], disk')
    BY <1>1, <1>3, <1>4, RestatAlike, AlikeKeeps
  <2> QED BY <1>1, <1>2, <1>3, <1>4, <2>1 DEF Careful, Locking, Deleting
<1>8. Leaves(th) /\ Apart(th)
  BY <1>1, <1>4 DEF Leaves, Apart
<1> QED BY <1>3, <1>5, <1>6, <1>7, <1>8, KeysStep DEF KeysInv

LEMMA WriteMainKeys ==
  ASSUME Undisturbed, PrivInv, IInv, KeysInv, NEW th \in Threads, WriteMain(th)
  PROVE  KeysInv'
<1> DEFINE p == ProcOf[th]
           n == [mem[p] EXCEPT !.seen = "fresh", !.joined = TRUE]
<1>1. /\ mem \in [Procs -> Memory] /\ disk \in Disk /\ p \in Procs /\ mem[p] \in Memory
      /\ up[p] # "down" /\ holder = th /\ ~mem[p].memOnly /\ Opened(p, mem[p], disk)
  BY Compacting DEF WriteMain
<1>2. IsFile(raw[th]) /\ raw[th].key = KeyOf[p] /\ disk.bak = raw[th]
  BY DEF WriteMain, KeysInv, Careful
<1>3. Intact(raw[th]) /\ ~Foreign(p, raw[th])
  BY <1>1, <1>2 DEF Intact, Foreign, Undisturbed
<1>4. /\ disk'.main = raw[th] /\ disk'.bak = disk.bak /\ disk'.torn = disk.torn
      /\ ~disk'.idle /\ disk'.journal = disk.journal
  BY <1>1 DEF WriteMain, Disk
<1>5. n.joff = mem[p].joff /\ n.memOnly = mem[p].memOnly
  BY <1>1 DEF Memory
<1>6. mem'[p] = n /\ \A q \in Procs \ {p} : mem'[q] = Restat(mem[q])
  BY <1>1 DEF WriteMain, SetMemRestat
<1> HIDE DEF n
<1>7. /\ pc'[th] = "uncleared" /\ \A x \in Threads \ {th} : pc'[x] = pc[x]
      /\ UNCHANGED <<up, raw, holder>>
  BY DEF WriteMain, Goto, IInv, ControlInv
<1>8. Opened(p, n, disk')
  BY <1>1, <1>3, <1>4, <1>5 DEF Opened, ReadOpen, OpenTo
<1>9. CopiesAgree'
  BY <1>2, <1>4 DEF CopiesAgree, Foreign, Readable
<1>10. \A q \in Procs \ {p} : mem'[q].seen # "fresh"
  BY <1>1, <1>6, RestatAlike
<1>11. \A q \in Procs : Acquainted(q, mem'[q], disk')
  <2>1. Acquainted(p, mem'[p], disk')
    BY <1>3, <1>4, <1>6, <1>8 DEF Acquainted, Opened
  <2> QED BY <1>3, <1>4, <1>10, <2>1 DEF Acquainted
<1>12. Careful(th)'
  BY <1>1, <1>2, <1>3, <1>4, <1>6, <1>7, <1>8, <1>10 DEF Careful, Locking, Deleting
<1>13. Leaves(th) /\ Apart(th)
  BY <1>1, <1>6, <1>7 DEF Leaves, Apart
<1> QED BY <1>4, <1>9, <1>11, <1>12, <1>13, KeysStep DEF KeysInv

LEMMA TruncateKeys ==
  ASSUME Undisturbed, PrivInv, IInv, KeysInv, NEW th \in Threads, Truncate(th)
  PROVE  KeysInv'
<1> DEFINE p == ProcOf[th]
           n == [mem[p] EXCEPT !.joff = 0, !.jlines = 0]
<1>1. /\ mem \in [Procs -> Memory] /\ disk \in Disk /\ p \in Procs /\ mem[p] \in Memory
      /\ up[p] # "down" /\ holder = th /\ ~mem[p].memOnly /\ Opened(p, mem[p], disk)
      /\ raw \in [Threads -> Snapshot \cup {None}]
  BY Compacting DEF Truncate
<1>2. Intact(disk.main) /\ \A q \in Procs \ {p} : mem[q].seen # "fresh"
  BY DEF Truncate, KeysInv, Careful
<1>3. /\ disk'.main = disk.main /\ disk'.bak = disk.bak /\ disk'.torn = None
      /\ disk'.idle = disk.idle /\ disk'.journal = <<>>
  BY <1>1 DEF Truncate, Disk
<1>4. n.joff = 0 /\ n.memOnly = mem[p].memOnly /\ n.seen = mem[p].seen
  BY <1>1 DEF Memory
<1>5. mem'[p] = n /\ \A q \in Procs \ {p} : mem'[q] = mem[q]
  BY <1>1 DEF Truncate, SetMem
<1> HIDE DEF n
<1>6. /\ \A x \in Threads \ {th} : pc'[x] = pc[x] /\ raw'[x] = raw[x]
      /\ pc'[th] = "idle" \/ (pc'[th] \in {"mint", "return"} /\ holder' = holder)
      /\ up'[p] # "down" /\ \A q \in Procs \ {p} : up'[q] = up[q]
  BY <1>1 DEF Truncate, AfterCompact, Rest, Goto, IInv, ControlInv
<1>7. Opened(p, n, disk')
  BY <1>1, <1>3, <1>4 DEF Opened, ReadOpen, OpenTo
<1>8. CopiesAgree'
  BY <1>3 DEF KeysInv, CopiesAgree
<1>9. \A q \in Procs : Acquainted(q, mem'[q], disk')
  <2>1. Acquainted(p, mem'[p], disk')
    BY <1>2, <1>3, <1>5, <1>7 DEF Acquainted, Opened
  <2> QED BY <1>2, <1>3, <1>5, <2>1 DEF Acquainted
<1>10. Careful(th)'
  BY <1>1, <1>5, <1>6, <1>7 DEF Careful, Locking, Deleting
<1>11. Leaves(th) /\ Apart(th)
  BY <1>1, <1>5, <1>6 DEF Leaves, Apart
<1> QED BY <1>3, <1>8, <1>9, <1>10, <1>11, KeysStep DEF KeysInv

LEMMA CompactFailsKeys ==
  ASSUME Undisturbed, PrivInv, IInv, KeysInv, NEW th \in Threads, CompactFails(th)
  PROVE  KeysInv'
<1> DEFINE p == ProcOf[th]
<1>1. /\ mem \in [Procs -> Memory] /\ p \in Procs /\ mem[p] \in Memory
      /\ up[p] # "down" /\ holder = th /\ raw \in [Threads -> Snapshot \cup {None}]
  BY Compacting DEF CompactFails
<1>2. Alike(mem'[p], mem[p]) /\ \A q \in Procs \ {p} : mem'[q] = mem[q]
  BY <1>1 DEF CompactFails, SetMem, Alike, Memory
<1>3. /\ \A x \in Threads \ {th} : pc'[x] = pc[x] /\ raw'[x] = raw[x]
      /\ pc'[th] = "idle" \/ (pc'[th] \in {"mint", "return"} /\ holder' = holder)
      /\ up'[p] # "down" /\ \A q \in Procs \ {p} : up'[q] = up[q]
      /\ disk' = disk /\ pc[th] \in Locking
  BY <1>1 DEF CompactFails, AfterCompact, Rest, Goto, IInv, ControlInv, Locking
<1>4. Leaves(th) /\ SameFiles /\ \A q \in Procs : Alike(mem'[q], mem[q])
  BY <1>1, <1>2, <1>3, RestatAlike DEF Leaves, SameFiles
<1>5. Careful(th)'
  BY <1>2, <1>3, <1>4, CarefulOutside, CarefulInside
<1> QED BY <1>1, <1>3, <1>4, <1>5, BriefStep

-----------------------------------------------------------------------------
(* The steps that read the files.                                          *)

LEMMA SyncKeys ==
  ASSUME Undisturbed, PrivInv, IInv, KeysInv, NEW th \in Threads, Sync(th) PROVE KeysInv'
<1> DEFINE p == ProcOf[th]
           n == Synced(p, mem[p], disk, FreshGen)
<1>1. /\ mem \in [Procs -> Memory] /\ disk \in Disk /\ p \in Procs /\ mem[p] \in Memory
      /\ ~mem[p].memOnly /\ up[p] # "down" /\ Acquainted(p, mem[p], disk)
  BY OwnerType, Alive DEF Sync, IInv, MemoryInv, FilesInv, PrivInv, Stopped, Writing, KeysInv
<1>2. Admitted(p, n, disk)
  BY <1>1, SyncedAdmits
<1> HIDE DEF n
<1>3. mem'[p] = n /\ \A q \in Procs \ {p} : mem'[q] = mem[q]
  BY <1>1 DEF Sync, SetMem, n
<1>4. /\ \A x \in Threads \ {th} : pc'[x] = pc[x]
      /\ UNCHANGED <<up, raw, disk>>
      /\ holder = None
      /\ pc'[th] = "idle" \/ (pc'[th] \in {"mint", "compact"} /\ holder' = th)
  BY Locks DEF Sync, Rest, Goto, IInv, ControlInv
<1>5. \A q \in Procs : Acquainted(q, mem'[q], disk')
  <2>1. Acquainted(p, n, disk)
    BY <1>2 DEF Admitted, Acquainted, Opened
  <2> QED BY <1>3, <1>4, <2>1 DEF KeysInv
<1>6. Careful(th)'
  BY <1>2, <1>3, <1>4 DEF Careful, Locking, Deleting, Admitted
<1>7. Leaves(th) /\ Apart(th)
  BY <1>1, <1>3, <1>4 DEF Leaves, Apart
<1> QED BY <1>4, <1>5, <1>6, <1>7, KeysStep DEF KeysInv, CopiesAgree

\* What a load moves away was no snapshot to anybody.
LEMMA QuarantinesHarmed ==
  ASSUME Undisturbed, KeysInv, NEW p \in Procs, Quarantines(p, disk)
  PROVE  ~Intact(disk.main)
<1>1. CASE Unreadable(p, disk.main)
  BY <1>1, KeyFacts DEF Intact
<1>2. CASE Locked(p, disk.main) /\ RestoresBackup(p, disk)
  <2>1. ~Foreign(p, disk.main)
    BY <1>2 DEF KeysInv, CopiesAgree, RestoresBackup
  <2> QED BY <1>2, <2>1, KeyFacts
<1> QED BY <1>1, <1>2 DEF Quarantines

LEMMA LoadKeys ==
  ASSUME Undisturbed, IInv, KeysInv, NEW th \in Threads, Load(th) PROVE KeysInv'
<1> DEFINE p == ProcOf[th]
           n == Loaded(p, disk, FreshGen)
<1>1. /\ mem \in [Procs -> Memory] /\ disk \in Disk /\ p \in Procs /\ FreshGen \in Gens
      /\ up[p] # "down" /\ up \in [Procs -> {"down", "boot", "up"}]
  BY OwnerType, Alive, Fresh DEF Load, IInv, MemoryInv, FilesInv, ControlInv
<1>2. Informed(p, n, disk)
  BY <1>1, LoadedInforms
<1> HIDE DEF n
<1>3. mem'[p] = n /\ \A q \in Procs \ {p} : mem'[q] \in {mem[q], Restat(mem[q])}
  BY <1>1 DEF Load, SetMem, SetMemRestat, n
<1>4. /\ \A x \in Threads \ {th} : pc'[x] = pc[x] /\ raw'[x] = raw[x]
      /\ holder = None
      /\ \/ pc'[th] = "idle"
         \/ pc'[th] = "compact" /\ holder' = th /\ RestoresBackup(p, disk)
      /\ up'[p] # "down" /\ \A q \in Procs \ {p} : up'[q] = up[q]
  BY <1>1, Locks DEF Load, Rest, Goto, IInv, ControlInv
<1>5. /\ disk'.bak = disk.bak /\ disk'.journal = disk.journal
      /\ disk'.torn = disk.torn /\ disk'.idle = disk.idle
      /\ \/ disk'.main = disk.main /\ ~Quarantines(p, disk)
         \/ disk'.main = None /\ ~Intact(disk.main)
  BY <1>1, QuarantinesHarmed DEF Load, Disk
<1>6. /\ Intact(disk'.main) <=> Intact(disk.main)
      /\ \A q \in Procs : Foreign(q, disk'.main) => Foreign(q, disk.main)
  BY <1>5 DEF Intact, Foreign, IsFile
<1>7. CopiesAgree'
  BY <1>5, <1>6 DEF KeysInv, CopiesAgree
<1>8. \A q \in Procs \ {p} : Acquainted(q, mem'[q], disk')
  <2> SUFFICES ASSUME NEW q \in Procs \ {p} PROVE Acquainted(q, mem'[q], disk')
    OBVIOUS
  <2>1. Acquainted(q, mem'[q], disk)
    BY <1>1, <1>3, RestatAlike, AlikeKeeps DEF KeysInv
  <2> QED BY <1>5, <1>6, <2>1 DEF Acquainted, ReadOpen, OpenTo
<1>9. Len(disk.journal) \in Nat
  BY <1>1 DEF Disk
<1>10. ~n.memOnly /\ ~Foreign(p, disk'.main) => Opened(p, n, disk')
  BY <1>2, <1>5, <1>9 DEF Informed, Opened, ReadOpen, OpenTo
<1>11. Acquainted(p, n, disk')
  <2>1. n.seen # "none" => Intact(disk.main) /\ ~Foreign(p, disk.main)
    BY <1>1, <1>2, KeyFacts DEF Informed
  <2>2. ~Intact(disk'.main) => ~Foreign(p, disk'.main)
    BY <1>1, KeyFacts
  <2> QED BY <1>1, <1>6, <1>10, <2>1, <2>2 DEF Acquainted, Opened
<1>12. Careful(th)'
  <2>1. CASE pc'[th] = "idle"
    BY <2>1, CarefulOutside
  <2>2. CASE pc'[th] = "compact" /\ holder' = th /\ RestoresBackup(p, disk)
    <3>1. disk.main = None \/ Quarantines(p, disk)
      BY <2>2 DEF RestoresBackup, AsksBackup, Quarantines
    <3>2. ~Foreign(p, disk'.main)
      BY <1>5, <3>1 DEF Foreign, IsFile
    <3> QED BY <1>3, <1>10, <2>2, <3>2 DEF Careful, Locking, Deleting
  <2> QED BY <1>4, <2>1, <2>2
<1>13. Leaves(th) /\ Apart(th)
  BY <1>3, <1>4 DEF Leaves, Apart
<1> QED BY <1>3, <1>5, <1>7, <1>8, <1>11, <1>12, <1>13, KeysStep DEF KeysInv

-----------------------------------------------------------------------------
(* The environment.                                                        *)

LEMMA NewAcquainted ==
  ASSUME Undisturbed, NEW p \in Procs, NEW d \in Disk PROVE Acquainted(p, NewMemory, d)
BY KeyFacts DEF Acquainted, NewMemory, ReadOpen, OpenTo, Disk

LEMMA CrashKeys ==
  ASSUME Undisturbed, IInv, KeysInv, NEW p \in Procs, Crash(p) PROVE KeysInv'
<1>1. /\ mem \in [Procs -> Memory] /\ disk \in Disk /\ disk' = disk
      /\ pc \in [Threads -> PCs] /\ up \in [Procs -> {"down", "boot", "up"}]
      /\ raw \in [Threads -> Snapshot \cup {None}]
  BY DEF IInv, MemoryInv, FilesInv, ControlInv, Crash
<1>2. mem'[p] = NewMemory /\ \A q \in Procs \ {p} : mem'[q] = mem[q] /\ up'[q] = up[q]
  BY <1>1 DEF Crash, Dies
<1>3. \A q \in Procs : Acquainted(q, mem'[q], disk')
  BY <1>1, <1>2, NewAcquainted DEF KeysInv
<1>4. ASSUME NEW th \in Threads PROVE Careful(th)'
  <2>1. CASE ProcOf[th] = p
    <3>1. pc'[th] = "idle"
      BY <2>1 DEF Crash, Dies
    <3> QED BY <3>1, CarefulOutside
  <2>2. CASE ProcOf[th] # p
    <3>1. pc'[th] = pc[th] /\ raw'[th] = raw[th] /\ (holder = th => holder' = th)
      BY <1>1, <2>2 DEF Crash, Dies
    <3>2. mem'[ProcOf[th]] = mem[ProcOf[th]]
      BY <1>2, <2>2, OwnerType
    <3>3. \A q \in Procs : mem[q].seen # "fresh" => mem'[q].seen # "fresh"
      BY <1>2 DEF NewMemory
    <3> QED BY <1>1, <3>1, <3>2, <3>3 DEF KeysInv, Careful
  <2> QED BY <2>1, <2>2
<1>5. DownInv'
  BY <1>2 DEF KeysInv, DownInv, Crash, Dies
<1> QED BY <1>1, <1>3, <1>4, <1>5 DEF KeysInv, CopiesAgree

\* Files are harmed while nobody runs, and stay no more readable than they were.
LEMMA HarmKeys ==
  ASSUME Undisturbed, IInv, KeysInv, NEW f \in {"main", "bak"}, Damage(f) \/ LoseMain
  PROVE  KeysInv'
<1>1. mem \in [Procs -> Memory] /\ disk \in Disk /\ disk' \in Disk
  BY DamageInv, LoseMainInv DEF IInv, MemoryInv, FilesInv
<1>2. \A q \in Procs : up[q] = "down"
  BY Unupset DEF Damage, LoseMain, Harm
<1>3. UNCHANGED <<up, pc>> /\ \A q \in Procs : mem'[q] = mem[q] \/ mem'[q] = Restat(mem[q])
  BY <1>1 DEF Damage, LoseMain, Harm
<1>4. \A q \in Procs : mem'[q] = NewMemory
  BY <1>1, <1>2, <1>3, RestatAlike DEF KeysInv, DownInv
<1>5. \A th \in Threads : pc'[th] = "idle"
  BY <1>2, <1>3, OwnerType DEF KeysInv, DownInv
<1>6. /\ disk'.torn = disk.torn /\ disk'.idle = disk.idle
      /\ disk'.main = disk.main \/ ~Intact(disk'.main)
      /\ disk'.bak = disk.bak \/ ~Intact(disk'.bak)
  <2>1. CASE LoseMain
    BY <1>1, <2>1 DEF LoseMain, Intact, IsFile, Disk
  <2>2. CASE Damage(f)
    <3> DEFINE bad == IF disk[f].key = NoKey THEN Corrupt ELSE [disk[f] EXCEPT !.key = None]
    <3>1. disk[f] \in Snapshot
      BY <1>1, <2>2 DEF Damage, Harm, Intact, IsFile, Disk
    <3>2. ~Intact(bad)
      BY <3>1 DEF Intact, IsFile, Snapshot
    <3>3. disk' = [disk EXCEPT ![f] = bad]
      BY <1>1, <2>2 DEF Damage, Disk
    <3> HIDE DEF bad
    <3> QED BY <1>1, <3>2, <3>3 DEF Disk
  <2> QED BY <2>1, <2>2
<1>7. CopiesAgree'
  BY <1>6, KeyFacts DEF KeysInv, CopiesAgree
<1>8. \A q \in Procs : Acquainted(q, mem'[q], disk')
  BY <1>1, <1>4, NewAcquainted
<1>9. \A th \in Threads : Careful(th)'
  BY <1>5, CarefulOutside
<1>10. DownInv'
  BY <1>4, <1>5 DEF DownInv
<1> QED BY <1>6, <1>7, <1>8, <1>9, <1>10 DEF KeysInv

LEMMA InitKeys == Undisturbed /\ Init => KeysInv
<1> SUFFICES ASSUME Undisturbed, Init PROVE KeysInv
  OBVIOUS
<1>1. disk \in Disk
  BY InitInv DEF IInv, FilesInv
<1>2. \A p \in Procs : Acquainted(p, mem[p], disk)
  BY <1>1, NewAcquainted DEF Init
<1>3. \A th \in Threads : Careful(th)
  BY DEF Init, Careful, Locking, Deleting
<1>4. CopiesAgree /\ DownInv
  BY DEF Init, CopiesAgree, Foreign, IsFile, DownInv
<1> QED BY <1>2, <1>3, <1>4 DEF Init, KeysInv

LEMMA NextKeys == Undisturbed /\ IInv /\ PrivInv /\ KeysInv /\ [Next]_vars => KeysInv'
<1> SUFFICES ASSUME Undisturbed, IInv, PrivInv, KeysInv, [Next]_vars PROVE KeysInv'
  OBVIOUS
<1>1. ASSUME NEW th \in Threads, Operation(th) PROVE KeysInv'
  BY <1>1, CallsKeys, AnswersKeys, Barred DEF Operation
<1>2. ASSUME NEW th \in Threads, Step(th) PROVE KeysInv'
  BY <1>2, CallsKeys, LoadKeys, SyncKeys, MintsKeys, WrittenKeys, PayloadKeys, WriteBakKeys,
     WriteMainKeys, RemoveTombstoneKeys, TruncateKeys, Barred DEF Step
<1>3. CASE Environment
  <2>1. CASE Age
    <3>1. ~Upset("age")
      BY Unupset
    <3> QED BY <2>1, <3>1 DEF Age
  <2>2. ASSUME NEW th \in Threads, AppendFails(th) \/ CompactFails(th) \/ CrashTorn(th)
        PROVE  KeysInv'
    BY <2>2, AppendFailsKeys, CompactFailsKeys, Barred
  <2> QED BY <1>3, <2>1, <2>2, CrashKeys, HarmKeys DEF Environment
<1>4. CASE UNCHANGED vars
  BY <1>4 DEF vars, KeysInv, CopiesAgree, Careful, DownInv
<1> QED BY <1>1, <1>2, <1>3, <1>4 DEF Next

LEMMA KeysInvariance == Undisturbed => (Spec => []KeysInv)
<1> SUFFICES ASSUME Undisturbed PROVE Spec => []KeysInv
  OBVIOUS
<1>1. IInv /\ PrivInv /\ KeysInv /\ [Next]_vars => KeysInv'
  BY NextKeys
<1>2. Init => KeysInv
  BY InitKeys
<1>3. Spec => []PrivInv
  BY PrivInvariance DEF Undisturbed
<1> QED BY <1>1, <1>2, <1>3, Invariance, PTL DEF Spec

-----------------------------------------------------------------------------
(* The theorem.                                                            *)

Acting == {"load", "sync", "append", "bak", "main", "truncate"}

\* A thread that acts on the files, and is not killed, takes a step of its own.
LEMMA ActsItself ==
  ASSUME Undisturbed, IInv, KeysInv, [Next]_vars, NEW th \in Threads, pc[th] \in Acting,
         pc'[th] # pc[th], up'[ProcOf[th]] # "down"
  PROVE  \/ Load(th) \/ Sync(th) \/ AppendLine(th) \/ AppendFails(th) \/ WriteBak(th)
         \/ WriteMain(th) \/ Truncate(th) \/ CompactFails(th)
<1> DEFINE Own == \/ Load(th) \/ Sync(th) \/ AppendLine(th) \/ AppendFails(th) \/ WriteBak(th)
                  \/ WriteMain(th) \/ Truncate(th) \/ CompactFails(th)
<1>1. pc \in [Threads -> PCs] /\ up \in [Procs -> {"down", "boot", "up"}]
  BY DEF IInv, ControlInv
<1>2. ASSUME NEW x \in Threads, Operation(x) \/ Step(x) \/ AppendFails(x) \/ CompactFails(x)
      PROVE  Own
  <2>1. x = th
    <3>1. \A y \in Threads \ {x} : pc'[y] = pc[y]
      <4>1. CASE Operation(x)
        BY <1>1, <4>1 DEF Operation, Start, Reuse, TokenizeFar, TokenizeNew, RestoreHit,
           RestoreMiss, Save, Clear, Begin, Goto
      <4>2. CASE SweepNothing(x) \/ Load(x) \/ Sync(x)
        BY <1>1, <4>2 DEF SweepNothing, Load, Sync, Rest, Goto
      <4>3. CASE \/ MintLockedOut(x) \/ MintFound(x) \/ MintNew(x) \/ AppendLine(x)
                 \/ AppendFails(x) \/ Return(x)
        BY <1>1, <4>3
           DEF MintLockedOut, MintFound, MintNew, AppendLine, AppendFails, Return, Rest, Goto
      <4>4. CASE \/ CompactNothing(x) \/ Payload(x) \/ WriteBak(x) \/ WriteMain(x)
                 \/ RemoveTombstone(x) \/ Truncate(x) \/ CompactFails(x)
        BY <1>1, <4>4
           DEF CompactNothing, Payload, WriteBak, WriteMain, RemoveTombstone, Truncate,
               CompactFails, AfterCompact, Rest, Goto
      <4>5. CASE Step(x)
        BY <4>2, <4>3, <4>4, <4>5, Barred DEF Step
      <4> QED BY <1>2, <4>1, <4>3, <4>4, <4>5
    <3> QED BY <3>1
  <2>2. ~Operation(th)
    <3>1. up[ProcOf[th]] # "down"
      BY Alive DEF Acting
    <3> QED BY <3>1 DEF Operation, Start, Reuse, TokenizeFar, TokenizeNew, RestoreHit,
            RestoreMiss, Save, Clear, Ready, Acting
  <2>3. Step(th) => Own
    BY Barred DEF Step, SweepNothing, MintLockedOut, MintFound, MintNew, Return, CompactNothing,
       Payload, RemoveTombstone, Acting
  <2> QED BY <1>2, <2>1, <2>2, <2>3
<1>3. ASSUME NEW p \in Procs, Dies(p) PROVE FALSE
  BY <1>1, <1>3, OwnerType DEF Dies
<1>4. \A x \in Threads : ~CrashTorn(x) /\ ~Age
  BY Barred
<1>5. Environment => Own
  BY <1>2, <1>3, <1>4 DEF Environment, Crash, Damage, LoseMain, Harm
<1>6. ~UNCHANGED vars
  BY DEF vars
<1> QED BY <1>2, <1>5, <1>6 DEF Next

\* A process that has another key, or none, writes over no snapshot, moves none away and
\* empties no journal that it cannot read (durable_vault.py:16-18, 279-283): kills at any
\* point, failed writes and files harmed while nothing runs included.
THEOREM LockedIsUntouched == Undisturbed => (Spec => NeverTouchesLocked)
<1> SUFFICES ASSUME Undisturbed PROVE Spec => NeverTouchesLocked
  OBVIOUS
<1>1. ASSUME IInv, PrivInv, KeysInv, [Next]_vars, NEW th \in Threads, pc[th] \in Acting,
             pc'[th] # pc[th], up'[ProcOf[th]] # "down"
      PROVE  /\ Foreign(ProcOf[th], disk.main) => disk'.main = disk.main
             /\ (\E i \in DOMAIN disk.journal : LineLocked(ProcOf[th], disk.journal[i]))
                  => disk'.journal # <<>>
  <2> DEFINE p == ProcOf[th]
             Shut == \E i \in DOMAIN disk.journal : LineLocked(p, disk.journal[i])
  <2>1. disk \in Disk /\ p \in Procs
    BY <1>1, OwnerType DEF IInv, FilesInv
  <2>2. Shut => disk.journal # <<>>
    BY <2>1 DEF Disk
  <2>3. CASE Sync(th) \/ CompactFails(th)
    BY <2>2, <2>3 DEF Sync, CompactFails
  <2>4. CASE Load(th)
    <3>1. Foreign(p, disk.main) => ~Quarantines(p, disk)
      BY <1>1, <2>1, QuarantinesHarmed, KeyFacts
    <3> QED BY <2>1, <2>2, <2>4, <3>1 DEF Load, Disk
  <2>5. CASE AppendLine(th) \/ AppendFails(th)
    <3>1. disk'.main = disk.main /\ (disk' = disk \/ disk'.journal = Append(Lines(disk), LineOf(th)))
      BY <1>1, <2>1, <2>5 DEF AppendLine, AppendFails, Disk, KeysInv
    <3>2. Lines(disk) \in Seq(Entry) /\ LineOf(th) \in Entry
      BY <1>1, <2>1, <2>5, LinesType, OwnLineOpen DEF AppendLine, AppendFails
    <3> QED BY <2>2, <3>1, <3>2
  <2>6. CASE WriteBak(th)
    BY <2>1, <2>2, <2>6 DEF WriteBak, Disk
  <2>7. CASE WriteMain(th)
    <3>1. Opened(p, mem[p], disk)
      BY <1>1, <2>7, Compacting DEF WriteMain
    <3> QED BY <2>1, <2>2, <2>7, <3>1 DEF WriteMain, Disk, Opened, ReadOpen
  <2>8. CASE Truncate(th)
    <3>1. Opened(p, mem[p], disk)
      BY <1>1, <2>8, Compacting DEF Truncate
    <3>2. ~Shut
      BY <2>1, <3>1 DEF Opened, OpenTo, Disk
    <3> QED BY <2>1, <2>8, <3>2 DEF Truncate, Disk
  <2> QED BY <1>1, <2>3, <2>4, <2>5, <2>6, <2>7, <2>8, ActsItself
<1>2. IInv /\ PrivInv /\ KeysInv /\ [Next]_vars =>
        \A th \in Threads :
          LET p == ProcOf[th]
              foreign(s) == IsFile(s) /\ s.key \notin {NoKey, None, KeyOf[p]}
              acts == /\ pc[th] \in {"load", "sync", "append", "bak", "main", "truncate"}
                      /\ pc'[th] # pc[th] /\ up'[p] # "down"
          IN  acts => /\ foreign(disk.main) => disk'.main = disk.main
                      /\ (\E i \in DOMAIN disk.journal : LineLocked(p, disk.journal[i]))
                           => disk'.journal # <<>>
  BY <1>1 DEF Acting, Foreign
<1>3. Spec => []PrivInv
  BY PrivInvariance DEF Undisturbed
<1>4. Spec => []KeysInv
  BY KeysInvariance
<1> QED BY <1>2, <1>3, <1>4, Invariance, PTL DEF Spec, NeverTouchesLocked

-----------------------------------------------------------------------------
(* What was dropped on purpose stays dropped: the invariant.               *)

\* What the theorem below assumes.  The lock is had, no write raises, nobody is killed, no
\* line is torn, and files are harmed only while no process runs.  clear, the TTL, exits
\* and that harm happen as often as they like.
Dropping ==
  /\ OneCallEach
  /\ \A p, q \in Procs : KeyOf[p] = KeyOf[q]
  /\ \A p \in Procs : KeyOf[p] \notin {BadKey, None}
  /\ \A f \in {"crash", "torn", "torn_whole", "write", "timeout", "damage"} : Budget[f] = 0

\* A copy that everybody reads, with something in it; and one that is harmed.
Whole(s) == IsFile(s) /\ s.t2r # NoTokens /\ \A p \in Procs : s.key = KeyOf[p]
Spoilt(s) == s = Corrupt \/ (IsFile(s) /\ s.key = None /\ \A p \in Procs : KeyOf[p] # NoKey)

Nothing == disk.main = None /\ disk.bak = None /\ disk.journal = <<>>

\* The snapshot was harmed while nobody ran, and nobody has loaded since.
Harmed ==
  /\ disk.main = None \/ Spoilt(disk.main)
  /\ disk.cleared = None /\ Whole(disk.bak)
  /\ \A p \in Procs : mem[p].gen = None
  /\ \A th \in Threads : job[th].gen = None

BeingWritten == disk.main = None /\ \E th \in Threads : pc[th] \in {"compact", "bak", "main"}

BeingDropped ==
  (disk.main = None \/ Spoilt(disk.main)) /\ \E th \in Threads : pc[th] = "unlink"

\* There is a whole snapshot, or a reason why there is none; and a tombstone next to a
\* snapshot is about to go.
FilesKept ==
  /\ disk.torn = None
  /\ \A i \in DOMAIN disk.journal, p \in Procs : Legible(p, disk.journal[i])
  /\ Intact(disk.bak) => Whole(disk.bak)
  /\ Whole(disk.main) \/ Nothing \/ Harmed \/ BeingWritten \/ BeingDropped
  /\ disk.main # None /\ disk.cleared # None => \E th \in Threads : pc[th] = "uncleared"

\* A drop is under way, or has left its tombstone.
Drops == {"unlink", "tombstone"}
Standing == disk.cleared # None \/ \E th \in Threads : pc[th] \in Drops

\* A tombstone names the lifetime that was dropped last, or none.
Named == disk.cleared \in {None, Blank, dropped} \/ \E th \in Threads : pc[th] \in Drops

\* Who has seen a snapshot has what was in it.
Lasting(p) == ~mem[p].memOnly /\ (mem[p].seen # "none" => mem[p].t2r # NoTokens)

\* The lifetime of a process that has seen no snapshot is its own: a drop is not its.
Unshared(p) ==
  mem[p].seen = "none" /\ mem[p].gen # None =>
    /\ \A q \in Procs \ {p} : mem[q].gen # mem[p].gen
    /\ IsFile(disk.main) => disk.main.gen # mem[p].gen
    /\ disk.cleared # mem[p].gen
    /\ Standing => dropped # mem[p].gen
    /\ \A th \in Threads : ProcOf[th] # p \/ job[th].kind # "tokenize" => job[th].gen # mem[p].gen

\* What a deletion has still to do, the snapshot first.
LeftToDelete(todo) ==
  \/ todo \in {<<"main", "bak", "journal">>, <<"main", "journal", "bak">>}
  \/ /\ disk.main = None
     /\ \/ todo \in {<<"bak", "journal">>, <<"journal", "bak">>}
        \/ todo = <<"journal">> /\ disk.bak = None
        \/ todo = <<"bak">> /\ disk.journal = <<>>

Inner == Locking \cup {"unlink", "tombstone"}

\* A writer has the lock, and writes no lifetime that a tombstone stands for.
Heeding(th) ==
  LET m == mem[ProcOf[th]] IN
  /\ pc[th] \in Inner => holder = th
  /\ pc[th] # "compact" => ~m.dirty
  /\ pc[th] \in {"mint", "append", "compact", "bak", "main"} /\ disk.main = None
       /\ disk.cleared # None => m.gen # dropped
  /\ pc[th] \in {"append", "compact", "bak", "main"} => m.t2r # NoTokens
  /\ pc[th] \in {"bak", "main"} => Whole(raw[th]) /\ raw[th].gen = m.gen
  /\ pc[th] \in {"uncleared", "truncate"} => Whole(disk.main)
  /\ pc[th] \in {"clear", "unlink", "tombstone"} => job[th].kind # "tokenize"
  /\ pc[th] = "unlink" => LeftToDelete(job[th].todo)
  /\ pc[th] = "tombstone" => Nothing
  /\ pc[th] \in Drops => job[th].gen \in {Blank, dropped}
  /\ pc[th] = "idle" => job[th].gen = None
  /\ job[th].kind # "save"

DropInv ==
  /\ DownInv /\ FilesKept /\ Named
  /\ \A p \in Procs : Lasting(p) /\ Unshared(p)
  /\ \A th \in Threads : Heeding(th)

-----------------------------------------------------------------------------
(* What a process that can read the files makes of them.                   *)

LEMMA HoldsSome ==
  ASSUME NEW f \in TokenMap
  PROVE  f # NoTokens <=> \E t \in Tokens : f[t] # None
BY DEF TokenMap, NoTokens

LEMMA MergeHolds ==
  ASSUME NEW m \in Memory, NEW t2r \in TokenMap, NEW ctr \in Counters,
         m.t2r # NoTokens \/ t2r # NoTokens
  PROVE  Merge(m, t2r, ctr).t2r # NoTokens
<1>1. PICK t \in Tokens : m.t2r[t] # None \/ t2r[t] # None
  BY HoldsSome DEF Memory
<1>2. Merge(m, t2r, ctr).t2r[t] # None
  BY <1>1 DEF Merge, Memory
<1>3. Merge(m, t2r, ctr).t2r \in TokenMap
  BY MergeGood DEF Memory
<1> QED BY <1>1, <1>2, <1>3, HoldsSome

\* A legible line is not locked.
LEMMA LegibleOpen ==
  ASSUME NEW p \in Procs, NEW e, Legible(p, e) PROVE ~LineLocked(p, e)
BY DEF Legible, LineLocked

\* n is what m becomes when it reads a journal it can read.
ReadsOn(n, m, d) ==
  /\ n.seen = m.seen /\ n.dirty = m.dirty /\ n.memOnly = m.memOnly
  /\ m.t2r # NoTokens => n.t2r # NoTokens
  /\ m.gen # None \/ d.journal = <<>> => n.gen = m.gen

LEMMA ReadJournalOn ==
  ASSUME NEW p \in Procs, NEW m \in Memory, NEW d, GoodFiles(d), NEW g,
         \A i \in DOMAIN d.journal : Legible(p, d.journal[i])
  PROVE  ReadsOn(ReadJournal(p, m, d, g), m, d)
<1> DEFINE from == IF m.joff > Len(d.journal) THEN 0 ELSE m.joff
           merged == Merge(m, JournalTokens(p, d, from), JournalCounts(p, d, from))
           n == ReadJournal(p, m, d, g)
<1>1. from \in Nat /\ d.journal \in Seq(Entry)
  BY DEF Memory, GoodFiles
<1>2. \A i \in from + 1 .. Len(d.journal) : ~LineLocked(p, d.journal[i])
  <2> SUFFICES ASSUME NEW i \in from + 1 .. Len(d.journal) PROVE ~LineLocked(p, d.journal[i])
    OBVIOUS
  <2>1. i \in DOMAIN d.journal
    BY <1>1
  <2> QED BY <2>1, LegibleOpen
<1>3. n = [merged EXCEPT
             !.gen = IF @ # None THEN @ ELSE JournalGen(p, d, from),
             !.joff = Len(d.journal),
             !.jlines = Saturated(@ + Cardinality(LinesFrom(p, d, from)))]
  BY <1>2 DEF ReadJournal
<1>4. JournalTokens(p, d, from) \in TokenMap /\ JournalCounts(p, d, from) \in Counters
  BY <1>1, JournalTokensType, JournalCountsType
<1>5. /\ merged \in Memory /\ merged.gen = m.gen /\ merged.seen = m.seen
      /\ merged.dirty = m.dirty /\ merged.memOnly = m.memOnly
  <2>1. merged \in Memory
    BY <1>4, MergeGood
  <2> QED BY <2>1 DEF Merge, Memory
<1>6. m.t2r # NoTokens => merged.t2r # NoTokens
  BY <1>4, MergeHolds
<1>7. d.journal = <<>> => JournalGen(p, d, from) = None
  BY <1>1 DEF JournalGen, LinesFrom
<1> HIDE DEF merged, from, n
<1>8. /\ n.seen = merged.seen /\ n.dirty = merged.dirty /\ n.memOnly = merged.memOnly
      /\ n.t2r = merged.t2r
      /\ n.gen = IF merged.gen # None THEN merged.gen ELSE JournalGen(p, d, from)
  BY <1>3, <1>5 DEF Memory
<1>9. ReadsOn(n, m, d)
  BY <1>5, <1>6, <1>7, <1>8 DEF ReadsOn
<1> QED BY <1>9 DEF n

LEMMA AdoptWhole ==
  ASSUME NEW m \in Memory, NEW s \in Snapshot, s.t2r # NoTokens
  PROVE  LET n == AdoptSnapshot(m, s) IN
           /\ n \in Memory /\ n.seen = "fresh" /\ n.memOnly = m.memOnly /\ n.t2r # NoTokens
           /\ n.gen \in {m.gen, s.gen} /\ (~m.dirty => ~n.dirty)
<1> DEFINE conv == IF s.gen # m.gen /\ ~m.joined
                   THEN [m EXCEPT !.gen = s.gen, !.joined = TRUE] ELSE m
           swapped == SwapIn(conv, s.t2r, s.ctr, s.gen, TRUE)
           merged == Merge(conv, s.t2r, s.ctr)
           next == IF s.gen # conv.gen /\ ~conv.dirty THEN swapped ELSE merged
           n == AdoptSnapshot(m, s)
<1>1. s.t2r \in TokenMap /\ s.ctr \in Counters /\ s.gen \in Gens
  BY DEF Snapshot
<1>2. /\ conv \in Memory /\ conv.memOnly = m.memOnly /\ conv.dirty = m.dirty
      /\ conv.gen \in {m.gen, s.gen}
  BY <1>1 DEF Memory
<1> HIDE DEF conv
<1>3. /\ swapped \in Memory /\ swapped.t2r = s.t2r /\ swapped.gen = s.gen
      /\ swapped.memOnly = m.memOnly /\ ~swapped.dirty
  <2>1. swapped \in Memory
    BY <1>1, <1>2, SwapInGood
  <2> QED BY <1>2, <2>1 DEF SwapIn, Memory
<1>4. /\ merged \in Memory /\ merged.t2r # NoTokens /\ merged.gen = conv.gen
      /\ merged.memOnly = m.memOnly /\ merged.dirty = m.dirty
  <2>1. merged \in Memory /\ merged.t2r # NoTokens
    BY <1>1, <1>2, MergeGood, MergeHolds
  <2> QED BY <1>2, <2>1 DEF Merge, Memory
<1> HIDE DEF swapped, merged
<1>5. /\ next \in Memory /\ next.t2r # NoTokens /\ next.gen \in {m.gen, s.gen}
      /\ next.memOnly = m.memOnly /\ (~m.dirty => ~next.dirty)
  BY <1>2, <1>3, <1>4
<1>6. n = [next EXCEPT !.seen = "fresh"]
  BY DEF AdoptSnapshot, conv, swapped, merged
<1> HIDE DEF next, n
<1>7. /\ n \in Memory /\ n.seen = "fresh" /\ n.memOnly = m.memOnly /\ n.t2r # NoTokens
      /\ n.gen \in {m.gen, s.gen} /\ (~m.dirty => ~n.dirty)
  BY <1>5, <1>6 DEF Memory
<1> QED BY <1>7 DEF n

LEMMA WholeReadable ==
  ASSUME Dropping, NEW p \in Procs, NEW s, Whole(s)
  PROVE  Readable(p, s) /\ ~Locked(p, s) /\ ~Unreadable(p, s) /\ s # None /\ Intact(s)
BY ConstantsAssumption DEF Dropping, Whole, Readable, Locked, Unreadable, IsFile, Intact

\* What a sync makes of m: the snapshot's reader; emptied by a drop; about to write its map
\* back, which no tombstone forbids; or as it was, next to files that are not there.
Outcome(m, d, g, n) ==
  /\ ~n.memOnly /\ (n.seen # "none" => n.t2r # NoTokens)
  /\ IF d.main # None
     THEN n.seen = "fresh" /\ ~n.dirty /\ n.gen \in {m.gen, d.main.gen} /\ ~Resurrects(m, d)
     ELSE \/ n.seen = "none" /\ n.gen = g /\ ~n.dirty /\ ~Resurrects(m, d)
          \/ /\ n.gen = m.gen /\ n.seen = m.seen /\ n.t2r # NoTokens
             /\ d.cleared \notin {Blank, m.gen} /\ Resurrects(m, d)
          \/ n.gen = m.gen /\ n.seen = "none" /\ m.seen = "none" /\ ~n.dirty /\ ~Resurrects(m, d)

LEMMA SyncedOutcome ==
  ASSUME Dropping, NEW p \in Procs, NEW m \in Memory, NEW d \in Disk, NEW g,
         ~m.memOnly, ~m.dirty, m.seen # "none" => m.t2r # NoTokens, m.gen \in Gens,
         \A i \in DOMAIN d.journal : Legible(p, d.journal[i]),
         Whole(d.main) \/ (d.main = None /\ d.bak = None /\ d.journal = <<>>)
  PROVE  Outcome(m, d, g, Synced(p, m, d, g))
<1> DEFINE n == Synced(p, m, d, g)
           m0 == From(m, d)
           locked == SnapshotChanged(m, d) /\ Locked(p, d.main)
           readable == SnapshotChanged(m, d) /\ Readable(p, d.main)
<1>1. /\ m0 \in Memory /\ m0.gen = m.gen /\ m0.seen = m.seen /\ ~m0.memOnly /\ ~m0.dirty
      /\ m0.t2r = m.t2r
  BY DEF Memory, From
<1>2. GoodFiles(d) /\ None \notin Gens
  BY DiskGood, ConstantsAssumption DEF Disk, GoodFiles
<1>3. Ways(p, m, d, g, n)
  BY SyncedWays
<1> SUFFICES Outcome(m, d, g, n)
  OBVIOUS
<1> HIDE DEF n, m0
<1>4. CASE Whole(d.main)
  <2>1. /\ d.main # None /\ Readable(p, d.main) /\ ~Locked(p, d.main) /\ d.main.t2r # NoTokens
        /\ d.main \in Snapshot
    <3>1. d.main.t2r # NoTokens /\ IsFile(d.main)
      BY <1>4 DEF Whole
    <3> QED BY <1>4, <3>1, WholeReadable DEF IsFile, Disk
  <2>2. ~DroppedElsewhere(m, d) /\ ~Resurrects(m, d)
    BY <2>1 DEF DroppedElsewhere, Resurrects, Vanished
  <2>3. CASE readable
    <3> DEFINE a == AdoptSnapshot(m0, d.main)
    <3>1. n = ReadJournal(p, a, d, g)
      BY <1>3, <2>1, <2>2, <2>3 DEF Ways, m0
    <3>2. /\ a \in Memory /\ a.seen = "fresh" /\ ~a.memOnly /\ a.t2r # NoTokens
          /\ a.gen \in {m.gen, d.main.gen} /\ ~a.dirty
      BY <1>1, <2>1, AdoptWhole
    <3> HIDE DEF a
    <3>3. ReadsOn(n, a, d)
      BY <1>2, <3>1, <3>2, ReadJournalOn
    <3>4. a.gen # None
      BY <1>2, <2>1, <3>2 DEF Snapshot
    <3> QED BY <2>1, <2>2, <3>2, <3>3, <3>4 DEF Outcome, ReadsOn
  <2>4. CASE ~readable
    <3>1. m.seen = "fresh" /\ m0 = m
      BY <2>1, <2>4 DEF SnapshotChanged, From, m0
    <3>2. n = ReadJournal(p, m, d, g)
      BY <1>3, <2>1, <2>2, <2>4, <3>1 DEF Ways, m0
    <3>3. ReadsOn(n, m, d)
      BY <1>2, <3>2, ReadJournalOn
    <3> QED BY <1>2, <2>1, <2>2, <3>1, <3>3 DEF Outcome, ReadsOn
  <2> QED BY <2>3, <2>4
<1>5. CASE ~Whole(d.main)
  <2>1. d.main = None /\ d.bak = None /\ d.journal = <<>>
    BY <1>5
  <2>2. CASE DroppedElsewhere(m, d)
    <3>1. n = [SwapIn(m, NoTokens, NoCounts, g, FALSE) EXCEPT !.seen = "none"] /\ ~Resurrects(m, d)
      BY <1>3, <2>2 DEF Ways, Resurrects
    <3>2. n.seen = "none" /\ n.gen = g /\ ~n.dirty /\ ~n.memOnly
      BY <3>1 DEF SwapIn, Memory
    <3> QED BY <2>1, <3>1, <3>2 DEF Outcome
  <2>3. CASE Resurrects(m, d)
    <3>1. n = [m EXCEPT !.dirty = TRUE]
      BY <1>3, <2>3 DEF Ways, Resurrects
    <3>2. n.seen = m.seen /\ n.gen = m.gen /\ n.t2r = m.t2r /\ ~n.memOnly
      BY <3>1 DEF Memory
    <3>3. m.t2r # NoTokens /\ d.cleared \notin {Blank, m.gen}
      BY <2>3 DEF Resurrects, DroppedElsewhere, Vanished
    <3> QED BY <2>1, <2>3, <3>2, <3>3 DEF Outcome
  <2>4. CASE ~DroppedElsewhere(m, d) /\ ~Resurrects(m, d)
    <3>1. m.seen = "none"
      BY <2>1, <2>4 DEF Resurrects, Vanished
    <3>2. n = ReadJournal(p, m0, d, g)
      BY <1>3, <2>1, <2>4 DEF Ways, m0, SnapshotChanged
    <3>3. ReadsOn(n, m0, d)
      BY <1>1, <1>2, <3>2, ReadJournalOn
    <3> QED BY <1>1, <1>2, <2>1, <2>4, <3>1, <3>3 DEF Outcome, ReadsOn
  <2> QED BY <2>2, <2>3, <2>4
<1> QED BY <1>4, <1>5

\* What a load makes of the files: the snapshot's reader; its backup's restorer; or the
\* founder of a new lifetime.
Arrival(p, d, g, n) ==
  /\ ~n.memOnly /\ (n.seen # "none" => n.t2r # NoTokens) /\ ~n.dirty
  /\ Whole(d.main) =>
       n.seen = "fresh" /\ n.gen = d.main.gen /\ ~Quarantines(p, d) /\ ~RestoresBackup(p, d)
  /\ (d.main = None \/ Spoilt(d.main)) /\ Whole(d.bak) =>
       /\ n.seen = "none" /\ n.gen = d.bak.gen /\ n.t2r # NoTokens
       /\ RestoresBackup(p, d) /\ (d.main # None => Quarantines(p, d))
  /\ d.main = None /\ d.bak = None /\ d.journal = <<>> =>
       n.seen = "none" /\ n.gen = g /\ ~Quarantines(p, d) /\ ~RestoresBackup(p, d)

LEMMA SpoiltAsks ==
  ASSUME Dropping, NEW p \in Procs, NEW d,
         d.main = None \/ Spoilt(d.main), Whole(d.bak)
  PROVE  /\ AsksBackup(p, d) /\ RestoresBackup(p, d) /\ ~Readable(p, d.main)
         /\ ~LockedOut(p, d) /\ (d.main # None => Quarantines(p, d))
<1>1. KeyOf[p] # BadKey /\ KeyOf[p] # None
  BY DEF Dropping
<1>2. Readable(p, d.bak) /\ ~Locked(p, d.bak) /\ d.bak # None
  BY WholeReadable
<1>3. CASE d.main = None
  BY <1>2, <1>3 DEF AsksBackup, RestoresBackup, LockedOut, Quarantines, Locked, Readable, IsFile
<1>4. CASE d.main = Corrupt
  <2>1. Unreadable(p, d.main) /\ ~Locked(p, d.main)
    BY <1>4, NoSnapshotAssumption DEF Unreadable, Readable, Locked, IsFile
  <2> QED BY <1>2, <1>4, <2>1 DEF AsksBackup, RestoresBackup, LockedOut, Quarantines, Readable, IsFile
<1>5. CASE IsFile(d.main) /\ d.main.key = None /\ KeyOf[p] # NoKey
  <2>1. Locked(p, d.main) /\ ~Readable(p, d.main)
    BY <1>1, <1>5, ConstantsAssumption DEF Locked, Readable
  <2> QED BY <1>2, <1>5, <2>1 DEF AsksBackup, RestoresBackup, LockedOut, Quarantines
<1> QED BY <1>3, <1>4, <1>5 DEF Spoilt

LEMMA LoadedArrival ==
  ASSUME Dropping, NEW p \in Procs, NEW d, GoodFiles(d), NEW g \in Gens,
         \A i \in DOMAIN d.journal : Legible(p, d.journal[i]),
         \/ Whole(d.main)
         \/ (d.main = None \/ Spoilt(d.main)) /\ Whole(d.bak)
         \/ d.main = None /\ d.bak = None /\ d.journal = <<>>
  PROVE  Arrival(p, d, g, Loaded(p, d, g))
<1> DEFINE start == [NewMemory EXCEPT !.memOnly = (KeyOf[p] = BadKey)]
           adopt(s, seen) == [Merge(start, s.t2r, s.ctr) EXCEPT !.gen = s.gen, !.seen = seen]
           copy == CASE Readable(p, d.main)  -> adopt(d.main, "fresh")
                     [] RestoresBackup(p, d) -> adopt(d.bak, "none")
                     [] OTHER                -> start
           read == IF LockedOut(p, d) THEN GoMemoryOnly(start, g) ELSE ReadJournal(p, copy, d, g)
           last == IF KeyOf[p] = BadKey THEN GoMemoryOnly(read, g) ELSE read
           n == Loaded(p, d, g)
<1>0. n = IF last.gen = None THEN [last EXCEPT !.gen = g] ELSE [last EXCEPT !.joined = TRUE]
  BY DEF Loaded
<1>1. last = read /\ None \notin Gens
  BY ConstantsAssumption DEF Dropping
<1>2. /\ start \in Memory /\ start.seen = "none" /\ start.gen = None /\ start.t2r = NoTokens
      /\ ~start.dirty /\ ~start.memOnly
  <2>1. start \in Memory
    BY NewMemoryGood DEF Memory
  <2> QED BY <2>1 DEF NewMemory, Dropping
<1> HIDE DEF start
<1>3. ASSUME NEW s \in Snapshot, NEW seen \in {"fresh", "none"}, s.t2r # NoTokens
      PROVE  /\ adopt(s, seen) \in Memory /\ adopt(s, seen).seen = seen
             /\ adopt(s, seen).gen = s.gen /\ adopt(s, seen).t2r # NoTokens
             /\ ~adopt(s, seen).dirty /\ ~adopt(s, seen).memOnly
  <2> DEFINE a == Merge(start, s.t2r, s.ctr)
  <2>1. s.t2r \in TokenMap /\ s.ctr \in Counters /\ s.gen \in Gens
    BY DEF Snapshot
  <2>2. a \in Memory /\ a.t2r # NoTokens
    BY <1>2, <1>3, <2>1, MergeGood, MergeHolds
  <2>3. ~a.dirty /\ ~a.memOnly
    BY <1>2 DEF Merge, Memory
  <2> HIDE DEF a
  <2>4. /\ [a EXCEPT !.gen = s.gen, !.seen = seen] \in Memory
        /\ [a EXCEPT !.gen = s.gen, !.seen = seen].seen = seen
        /\ [a EXCEPT !.gen = s.gen, !.seen = seen].gen = s.gen
        /\ [a EXCEPT !.gen = s.gen, !.seen = seen].t2r = a.t2r
        /\ ~[a EXCEPT !.gen = s.gen, !.seen = seen].dirty
        /\ ~[a EXCEPT !.gen = s.gen, !.seen = seen].memOnly
    BY <2>1, <2>2, <2>3 DEF Memory
  <2> QED BY <2>2, <2>4 DEF a
<1> HIDE DEF adopt
<1>4. ASSUME copy \in Memory, ~copy.memOnly, ~copy.dirty, ~LockedOut(p, d),
             copy.gen # None \/ d.journal = <<>>
      PROVE  /\ ~n.memOnly /\ ~n.dirty /\ n.seen = copy.seen
             /\ n.gen = IF copy.gen = None THEN g ELSE copy.gen
             /\ copy.t2r # NoTokens => n.t2r # NoTokens
  <2>1. read = ReadJournal(p, copy, d, g)
    BY <1>4
  <2> HIDE DEF copy, read, n
  <2>2. read \in Memory /\ ReadsOn(read, copy, d)
    BY <1>4, <2>1, ReadJournalGood, ReadJournalOn
  <2>3. read.gen = copy.gen
    BY <1>4, <2>2 DEF ReadsOn
  <2>4. /\ n.memOnly = read.memOnly /\ n.dirty = read.dirty /\ n.seen = read.seen
        /\ n.t2r = read.t2r /\ n.gen = IF read.gen = None THEN g ELSE read.gen
    BY <1>0, <1>1, <2>2 DEF Memory
  <2> QED BY <1>4, <2>2, <2>3, <2>4 DEF ReadsOn
<1>5. CASE Whole(d.main)
  <2>1. /\ Readable(p, d.main) /\ ~Locked(p, d.main) /\ ~Unreadable(p, d.main)
        /\ d.main # None /\ d.main \in Snapshot /\ d.main.t2r # NoTokens /\ ~Spoilt(d.main)
    BY <1>5, WholeReadable, ConstantsAssumption DEF Whole, IsFile, GoodFiles, Spoilt, Dropping
  <2>2. ~AsksBackup(p, d) /\ ~RestoresBackup(p, d) /\ ~LockedOut(p, d) /\ ~Quarantines(p, d)
    BY <2>1 DEF AsksBackup, RestoresBackup, LockedOut, Quarantines
  <2>3. copy = adopt(d.main, "fresh")
    BY <2>1, <2>2
  <2>4. /\ copy \in Memory /\ copy.seen = "fresh" /\ copy.gen = d.main.gen
        /\ copy.t2r # NoTokens /\ ~copy.dirty /\ ~copy.memOnly
    BY <1>3, <2>1, <2>3
  <2>5. copy.gen # None
    BY <1>1, <2>1, <2>4 DEF Snapshot
  <2> HIDE DEF copy, n
  <2>6. /\ ~n.memOnly /\ ~n.dirty /\ n.seen = "fresh" /\ n.gen = d.main.gen /\ n.t2r # NoTokens
    BY <1>4, <2>2, <2>4, <2>5
  <2>7. Arrival(p, d, g, n)
    BY <2>1, <2>2, <2>6 DEF Arrival
  <2> QED BY <2>7 DEF n
<1>6. CASE (d.main = None \/ Spoilt(d.main)) /\ Whole(d.bak)
  <2>1. /\ RestoresBackup(p, d) /\ ~Readable(p, d.main) /\ ~LockedOut(p, d)
        /\ d.main # None => Quarantines(p, d)
    BY <1>6, SpoiltAsks
  <2>2. d.bak \in Snapshot /\ d.bak.t2r # NoTokens /\ d.bak # None /\ ~Whole(d.main)
    BY <1>6, <2>1, WholeReadable DEF Whole, IsFile, GoodFiles
  <2>3. copy = adopt(d.bak, "none")
    BY <2>1
  <2>4. /\ copy \in Memory /\ copy.seen = "none" /\ copy.gen = d.bak.gen
        /\ copy.t2r # NoTokens /\ ~copy.dirty /\ ~copy.memOnly
    BY <1>3, <2>2, <2>3
  <2>5. copy.gen # None
    BY <1>1, <2>2, <2>4 DEF Snapshot
  <2> HIDE DEF copy, n
  <2>6. /\ ~n.memOnly /\ ~n.dirty /\ n.seen = "none" /\ n.gen = d.bak.gen /\ n.t2r # NoTokens
    BY <1>4, <2>1, <2>4, <2>5
  <2>7. Arrival(p, d, g, n)
    BY <2>1, <2>2, <2>6 DEF Arrival
  <2> QED BY <2>7 DEF n
<1>7. CASE d.main = None /\ d.bak = None /\ d.journal = <<>>
  <2>1. ~Whole(d.main) /\ ~Whole(d.bak)
    BY <1>7 DEF Whole, IsFile
  <2>2. /\ ~Readable(p, d.main) /\ ~RestoresBackup(p, d) /\ ~LockedOut(p, d)
        /\ ~Quarantines(p, d)
    BY <1>7 DEF Readable, RestoresBackup, LockedOut, Quarantines, Locked, Unreadable, IsFile
  <2>3. copy = start
    BY <2>2
  <2> HIDE DEF copy, n
  <2>4. ~n.memOnly /\ ~n.dirty /\ n.seen = "none" /\ n.gen = g
    BY <1>2, <1>4, <1>7, <2>2, <2>3
  <2>5. Arrival(p, d, g, n)
    BY <2>1, <2>2, <2>4 DEF Arrival
  <2> QED BY <2>5 DEF n
<1> QED BY <1>5, <1>6, <1>7

-----------------------------------------------------------------------------
(* What a step of one thread leaves of the others.                         *)

LEMMA Spared ==
  ASSUME Dropping, IInv
  PROVE  \A f \in {"crash", "torn", "torn_whole", "write", "timeout", "damage"} : ~Upset(f)
<1>1. \A f \in {"crash", "torn", "torn_whole", "write", "timeout", "damage"} :
        f \in UpsetKinds /\ Budget[f] = 0
  BY DEF Dropping, UpsetKinds
<1> QED BY <1>1 DEF IInv, HistoryInv, Upset

\* Nobody goes on without the lock.
LEMMA LockIsHad ==
  ASSUME Dropping, IInv, NEW th \in Threads
  PROVE  /\ Enter(th) \/ EnterLoad(th) => holder = None /\ holder' = th
         /\ Pass(th) \/ PassLoad(th) => holder = None /\ holder' = None
<1>1. ~Upset("timeout")
  BY Spared
<1>2. KeyOf[ProcOf[th]] # BadKey
  BY OwnerType DEF Dropping
<1> QED BY <1>1, <1>2 DEF Enter, Pass, EnterLoad, PassLoad

LEMMA OthersOut ==
  ASSUME DropInv, NEW th \in Threads, holder \in {None, th}
  PROVE  \A x \in Threads \ {th} : pc[x] \notin Inner
BY ConstantsAssumption DEF DropInv, Heeding

\* n may have forgotten that the snapshot is unchanged, and is m otherwise.
Same(n, m) ==
  /\ n.gen = m.gen /\ n.t2r = m.t2r /\ n.dirty = m.dirty /\ n.memOnly = m.memOnly
  /\ n.seen = "none" <=> m.seen = "none"

LEMMA RestatSame ==
  ASSUME NEW m \in Memory PROVE Same(m, m) /\ Same(Restat(m), m)
<1> DEFINE n == Restat(m)
<1>1. n = [m EXCEPT !.seen = IF @ = "fresh" THEN "stale" ELSE @]
  BY DEF Restat
<1> HIDE DEF n
<1>2. Same(n, m)
  BY <1>1 DEF Same, Memory
<1> QED BY <1>2 DEF Same, n

\* A generation that is known not to be the actor's own if he has seen no snapshot.
Strange(th, g) ==
  \/ g \in {None, Blank, disk.cleared}
  \/ job[th].kind # "tokenize" /\ g = job[th].gen
  \/ IsFile(disk.main) /\ g = disk.main.gen

\* A drop goes on or ends; none begins.
Goes(th) ==
  /\ dropped' = dropped
  /\ IF pc[th] \in Drops
     THEN pc'[th] \in Drops \/ disk'.cleared \in {Blank, dropped}
     ELSE pc'[th] \notin Drops /\ disk'.cleared \in {None, disk.cleared}

\* A drop begins, of a lifetime that nobody has for himself.
Begins(th) ==
  pc'[th] \in Drops /\ (Strange(th, dropped') \/ \A q \in Procs : mem[q].gen = None)

Keeps(th) ==
  Leaves(th) /\ (\A x \in Threads \ {th} : job'[x] = job[x]) /\ (Goes(th) \/ Begins(th))

SameTombstone == SameFiles /\ disk'.cleared = disk.cleared /\ dropped' = dropped

LEMMA StaysNamed ==
  ASSUME DropInv, NEW th \in Threads, Keeps(th)
  PROVE  Named' /\ (Goes(th) => (Standing' => Standing))
<1>1. \A x \in Threads \ {th} : pc'[x] = pc[x]
  BY DEF Keeps, Leaves
<1>2. CASE pc'[th] \in Drops
  BY <1>1, <1>2 DEF Named, Standing, Goes
<1>3. CASE pc'[th] \notin Drops
  <2>1. Goes(th) /\ Named
    BY <1>3 DEF Keeps, Begins, DropInv
  <2> QED BY <1>1, <1>3, <2>1 DEF Named, Standing, Goes
<1> QED BY <1>2, <1>3

\* Either nobody else is inside, or the files and the lock stay as they are.
Sheltered(th) == holder \in {None, th} \/ (SameTombstone /\ holder' = holder)

LEMMA OthersHeed ==
  ASSUME Dropping, IInv, DropInv, NEW th \in Threads, Keeps(th), Sheltered(th)
  PROVE  \A x \in Threads \ {th} : Heeding(x)'
<1> SUFFICES ASSUME NEW x \in Threads \ {th} PROVE Heeding(x)'
  OBVIOUS
<1> DEFINE p == ProcOf[x]
<1>1. pc'[x] = pc[x] /\ raw'[x] = raw[x] /\ job'[x] = job[x] /\ Heeding(x)
  BY DEF Keeps, Leaves, DropInv
<1>2. Same(mem'[p], mem[p])
  <2>1. p \in Procs \ {ProcOf[th]} /\ mem \in [Procs -> Memory]
    BY OwnerType DEF Dropping, OneCallEach, IInv, MemoryInv
  <2> QED BY <2>1, RestatSame DEF Keeps, Leaves
<1>3. CASE holder \in {None, th}
  <2>1. pc[x] \notin Inner
    BY <1>3, OthersOut
  <2> QED BY <1>1, <1>2, <2>1 DEF Heeding, Inner, Locking, Drops, Same
<1>4. CASE SameTombstone /\ holder' = holder
  <2>1. /\ disk'.main = disk.main /\ disk'.bak = disk.bak /\ disk'.journal = disk.journal
        /\ disk'.cleared = disk.cleared /\ dropped' = dropped
    BY <1>4 DEF SameTombstone, SameFiles
  <2>2. LeftToDelete(job[x].todo) => LeftToDelete(job[x].todo)'
    BY <1>1, <2>1 DEF LeftToDelete
  <2>3. Nothing' <=> Nothing
    BY <2>1 DEF Nothing
  <2> QED BY <1>1, <1>2, <1>4, <2>1, <2>2, <2>3 DEF Heeding, Same
<1> QED BY <1>3, <1>4 DEF Sheltered

\* The generations that a step of th may put where they were not.
Known(th) ==
  {None, Blank, mem[ProcOf[th]].gen, job[th].gen, disk.cleared}
    \cup {s.gen : s \in {x \in {disk.main} : IsFile(x)}} \cup (Gens \ UsedGens)

Borrows(th) ==
  /\ mem'[ProcOf[th]].gen \in Known(th) /\ job'[th].gen \in Known(th)
  /\ disk'.cleared \in Known(th)
  /\ IsFile(disk'.main) => disk'.main.gen \in Known(th)

LEMMA OthersUnshared ==
  ASSUME Dropping, IInv, DropInv, NEW th \in Threads, Keeps(th),
         Borrows(th) \/ \A q \in Procs : mem[q].gen = None
  PROVE  \A q \in Procs \ {ProcOf[th]} : Lasting(q)' /\ Unshared(q)'
<1> SUFFICES ASSUME NEW q \in Procs \ {ProcOf[th]} PROVE Lasting(q)' /\ Unshared(q)'
  OBVIOUS
<1>1. mem \in [Procs -> Memory] /\ ProcOf[th] \in Procs
  BY OwnerType DEF IInv, MemoryInv
<1>2. \A r \in Procs \ {ProcOf[th]} : Same(mem'[r], mem[r])
  BY <1>1, RestatSame DEF Keeps, Leaves
<1>3. Lasting(q)'
  BY <1>2 DEF DropInv, Lasting, Same
<1>4. ASSUME mem'[q].seen = "none", mem'[q].gen # None PROVE Unshared(q)'
  <2>1. /\ mem'[q].gen = mem[q].gen /\ mem[q].gen \in Gens
        /\ mem[q].gen \in UsedGens
    BY <1>1, <1>2, <1>4, Used DEF Same, Memory
  <2>2. /\ \A r \in Procs \ {q} : mem[r].gen # mem[q].gen
        /\ IsFile(disk.main) => disk.main.gen # mem[q].gen
        /\ disk.cleared # mem[q].gen
        /\ Standing => dropped # mem[q].gen
        /\ \A x \in Threads : ProcOf[x] # q \/ job[x].kind # "tokenize"
                                => job[x].gen # mem[q].gen
    BY <1>2, <1>4, <2>1 DEF DropInv, Unshared, Same
  <2>3. Borrows(th) /\ mem[q].gen \notin Known(th)
    BY <1>1, <2>1, <2>2, BlankAssumption, ConstantsAssumption DEF Known
  <2>4. \A r \in Procs \ {q} : mem'[r].gen # mem[q].gen
    BY <1>2, <2>2, <2>3 DEF Borrows, Same
  <2>5. \A x \in Threads : ProcOf[x] # q \/ job'[x].kind # "tokenize" => job'[x].gen # mem[q].gen
    BY <2>2, <2>3 DEF Keeps, Borrows
  <2>6. Standing' => dropped' # mem[q].gen
    <3>1. CASE Goes(th)
      BY <2>2, <3>1, StaysNamed DEF Goes
    <3>2. CASE Begins(th)
      <4>1. \A g : Strange(th, g) => g \in Known(th)
        BY DEF Strange, Known
      <4>2. mem[q].gen # None
        BY <2>1, ConstantsAssumption
      <4> QED BY <2>3, <3>2, <4>1, <4>2 DEF Begins
    <3> QED BY <3>1, <3>2 DEF Keeps
  <2> QED BY <2>1, <2>3, <2>4, <2>5, <2>6 DEF Unshared, Borrows
<1> QED BY <1>3, <1>4 DEF Unshared

LEMMA DropStep ==
  ASSUME Dropping, IInv, DropInv, NEW th \in Threads, Keeps(th), Sheltered(th),
         Borrows(th) \/ \A q \in Procs : mem[q].gen = None,
         FilesKept', Lasting(ProcOf[th])', Unshared(ProcOf[th])', Heeding(th)'
  PROVE  DropInv'
<1>1. \A x \in Threads : Heeding(x)'
  BY OthersHeed
<1>2. \A q \in Procs : Lasting(q)' /\ Unshared(q)'
  BY OthersUnshared
<1>3. DownInv'
  BY StaysDown DEF DropInv, Keeps
<1>4. Named'
  BY StaysNamed
<1> QED BY <1>1, <1>2, <1>3, <1>4 DEF DropInv

\* The files stay, and so do the reasons for what they lack.
LEMMA FilesStay ==
  ASSUME FilesKept, NEW th \in Threads, SameTombstone, \A x \in Threads \ {th} : pc'[x] = pc[x],
         pc[th] \notin {"compact", "bak", "main", "unlink", "uncleared"} \/ pc'[th] = pc[th],
         Harmed => Harmed'
  PROVE  FilesKept'
<1>1. /\ disk'.main = disk.main /\ disk'.bak = disk.bak /\ disk'.journal = disk.journal
      /\ disk'.cleared = disk.cleared /\ disk'.torn = disk.torn
  BY DEF SameTombstone, SameFiles
<1>2. \A x \in Threads : pc[x] \in {"compact", "bak", "main", "unlink", "uncleared"} => pc'[x] = pc[x]
  OBVIOUS
<1>3. Nothing => Nothing'
  BY <1>1 DEF Nothing
<1>4. BeingWritten => BeingWritten'
  BY <1>1, <1>2 DEF BeingWritten
<1>5. BeingDropped => BeingDropped'
  BY <1>1, <1>2 DEF BeingDropped
<1>6. (\E x \in Threads : pc[x] = "uncleared") => \E x \in Threads : pc'[x] = "uncleared"
  BY <1>2
<1> QED BY <1>1, <1>3, <1>4, <1>5, <1>6 DEF FilesKept

\* Where somebody works in a lifetime, no copy waits to be restored.
LEMMA NoneHarmed ==
  ASSUME NEW p \in Procs, mem[p].gen # None PROVE ~Harmed
BY DEF Harmed

LEMMA Awake ==
  ASSUME DropInv, NEW th \in Threads, pc[th] # "idle" PROVE up[ProcOf[th]] # "down"
BY OwnerType DEF DropInv, DownInv

\* The actor of a step, as the invariants describe him.
LEMMA Actor ==
  ASSUME IInv, DropInv, NEW th \in Threads
  PROVE  /\ ProcOf[th] \in Procs /\ mem \in [Procs -> Memory] /\ mem[ProcOf[th]] \in Memory
         /\ disk \in Disk /\ raw \in [Threads -> Snapshot \cup {None}] /\ job \in [Threads -> Job]
         /\ pc \in [Threads -> PCs] /\ up \in [Procs -> {"down", "boot", "up"}]
         /\ DownInv /\ FilesKept /\ Lasting(ProcOf[th]) /\ Unshared(ProcOf[th]) /\ Heeding(th)
         /\ Carrying(pc[th], job[th])
BY OwnerType DEF IInv, MemoryInv, FilesInv, ControlInv, DropInv

\* A step that leaves the files alone.
LEMMA BriefDrop ==
  ASSUME Dropping, IInv, DropInv, NEW th \in Threads, Keeps(th), SameTombstone,
         holder' = holder \/ holder \in {None, th},
         pc[th] \notin {"compact", "bak", "main", "unlink", "uncleared"} \/ pc'[th] = pc[th],
         Harmed => Harmed', Borrows(th),
         Lasting(ProcOf[th])', Unshared(ProcOf[th])', Heeding(th)'
  PROVE  DropInv'
<1>1. FilesKept'
  BY FilesStay DEF DropInv, Keeps, Leaves
<1> QED BY <1>1, DropStep DEF Sheltered

\* The actor's own lifetime stays his.
LEMMA StaysOwn ==
  ASSUME Dropping, IInv, DropInv, NEW th \in Threads, Keeps(th),
         mem'[ProcOf[th]].gen = mem[ProcOf[th]].gen,
         mem'[ProcOf[th]].seen = "none" => mem[ProcOf[th]].seen = "none",
         IsFile(disk'.main) => Strange(th, disk'.main.gen), Strange(th, disk'.cleared),
         job'[th].kind # "tokenize" => Strange(th, job'[th].gen)
  PROVE  Unshared(ProcOf[th])'
<1> DEFINE p == ProcOf[th]
<1>1. mem \in [Procs -> Memory] /\ p \in Procs /\ Unshared(p)
  BY Actor
<1>2. ASSUME mem'[p].seen = "none", mem'[p].gen # None PROVE Unshared(p)'
  <2>1. mem'[p].gen = mem[p].gen /\ mem[p].seen = "none" /\ mem[p].gen \in Gens
    BY <1>1, <1>2 DEF Memory
  <2>2. /\ \A q \in Procs \ {p} : mem[q].gen # mem[p].gen
        /\ Standing => dropped # mem[p].gen
        /\ \A x \in Threads : ProcOf[x] # p \/ job[x].kind # "tokenize"
                                => job[x].gen # mem[p].gen
    BY <1>1, <1>2, <2>1 DEF Unshared
  <2>3. \A g : Strange(th, g) => g # mem[p].gen
    BY <1>1, <1>2, <2>1, <2>2, BlankAssumption, ConstantsAssumption DEF Unshared, Strange
  <2>4. \A q \in Procs \ {p} : mem'[q].gen = mem[q].gen
    BY <1>1, RestatSame DEF Keeps, Leaves, Same
  <2>5. \A x \in Threads : ProcOf[x] # p \/ job'[x].kind # "tokenize" => job'[x].gen # mem[p].gen
    BY <2>2, <2>3 DEF Keeps
  <2>6. Standing' => dropped' # mem[p].gen
    <3>1. CASE Goes(th)
      BY <2>2, <3>1, StaysNamed DEF Goes
    <3>2. CASE Begins(th)
      BY <1>1, <2>1, <2>3, <3>2, ConstantsAssumption DEF Begins
    <3> QED BY <3>1, <3>2 DEF Keeps
  <2> QED BY <2>1, <2>2, <2>3, <2>4, <2>5, <2>6 DEF Unshared
<1> QED BY <1>2 DEF Unshared

LEMMA StaysUnshared ==
  ASSUME Dropping, IInv, DropInv, NEW th \in Threads, Keeps(th),
         Same(mem'[ProcOf[th]], mem[ProcOf[th]]),
         IsFile(disk'.main) => Strange(th, disk'.main.gen), Strange(th, disk'.cleared),
         job'[th].kind # "tokenize" => Strange(th, job'[th].gen)
  PROVE  Lasting(ProcOf[th])' /\ Unshared(ProcOf[th])'
<1>1. Unshared(ProcOf[th])'
  BY StaysOwn DEF Same
<1>2. Lasting(ProcOf[th])'
  BY Actor DEF Lasting, Same
<1> QED BY <1>1, <1>2

\* A process that has just begun a lifetime has it for itself.
LEMMA FreshOwn ==
  ASSUME Dropping, IInv, DropInv, NEW th \in Threads, Keeps(th),
         mem'[ProcOf[th]].gen \in Gens \ UsedGens, dropped' = dropped,
         disk'.main = disk.main, disk'.cleared \in {disk.cleared, job[th].gen},
         job'[th].gen \in {None, job[th].gen, mem[ProcOf[th]].gen}
  PROVE  Unshared(ProcOf[th])'
<1> DEFINE p == ProcOf[th]
           g == mem'[p].gen
<1>1. mem \in [Procs -> Memory] /\ p \in Procs
  BY Actor
<1>2. /\ \A q \in Procs : mem[q].gen # g
      /\ \A x \in Threads : job[x].gen # g
      /\ disk.cleared # g /\ dropped # g /\ g # None
  BY ConstantsAssumption DEF UsedGens
<1>3. IsFile(disk.main) => disk.main.gen # g
  BY Used DEF GensOf
<1>4. \A q \in Procs \ {p} : mem'[q].gen = mem[q].gen
  BY <1>1, RestatSame DEF Keeps, Leaves, Same
<1>5. \A x \in Threads : job'[x].gen # g
  BY <1>1, <1>2 DEF Keeps
<1> QED BY <1>2, <1>3, <1>4, <1>5 DEF Unshared

\* The generations that step names which leaves the actor's object as it is.
LEMMA StaysBorrowed ==
  ASSUME Dropping, IInv, DropInv, NEW th \in Threads,
         Same(mem'[ProcOf[th]], mem[ProcOf[th]]), SameTombstone,
         job'[th].gen \in Known(th)
  PROVE  Borrows(th)
BY DEF Borrows, Known, Same, SameTombstone, SameFiles

-----------------------------------------------------------------------------
(* The steps without the lock.                                             *)

LEMMA CallsDrop ==
  ASSUME Dropping, IInv, DropInv, NEW th \in Threads,
         \/ Start(th) \/ SweepNothing(th)
         \/ \E v \in Values, k \in Types : TokenizeNew(th, v, k)
         \/ RestoreMiss(th)
  PROVE  DropInv'
<1> DEFINE p == ProcOf[th]
<1>0. p \in Procs /\ mem \in [Procs -> Memory] /\ mem[p] \in Memory /\ Heeding(th) /\ DownInv
  BY Actor
<1>1. UNCHANGED <<mem, raw, disk, holder, dropped>>
  BY DEF Start, SweepNothing, TokenizeNew, RestoreMiss, Begin
<1>2. pc'[th] \in {"sweep", "load", "sync"} /\ \A x \in Threads \ {th} : pc'[x] = pc[x]
  BY Actor DEF Start, SweepNothing, TokenizeNew, RestoreMiss, Begin, Goto
<1>3. pc[th] \in {"idle", "sweep"}
  BY <1>0 DEF Start, SweepNothing, TokenizeNew, RestoreMiss, Ready, DownInv
<1>4. /\ \A x \in Threads \ {th} : job'[x] = job[x]
      /\ job'[th].gen = None \/ (job'[th] = job[th] /\ pc[th] = "sweep")
      /\ job'[th].kind # "save"
  <2>1. job \in [Threads -> Job] /\ job[th].kind # "save"
    BY <1>0, Actor DEF Heeding
  <2>2. CASE SweepNothing(th)
    BY <2>1, <2>2 DEF SweepNothing
  <2>3. CASE ~SweepNothing(th)
    <3>1. CASE Start(th)
      BY <2>1, <3>1 DEF Start, NoJob
    <3>2. CASE RestoreMiss(th)
      BY <2>1, <3>2 DEF RestoreMiss, Begin, NoJob
    <3>3. ASSUME NEW v \in Values, NEW k \in Types, TokenizeNew(th, v, k)
          PROVE  job' = [job EXCEPT ![th] = [NoJob EXCEPT !.kind = "tokenize", !.val = v, !.typ = k]]
      BY <3>3 DEF TokenizeNew, Begin
    <3> QED BY <2>1, <2>3, <3>1, <3>2, <3>3 DEF NoJob
  <2> QED BY <2>2, <2>3
<1>5. up'[p] # "down" /\ \A q \in Procs \ {p} : up'[q] = up[q]
  <2>1. CASE Start(th)
    BY <2>1, Actor DEF Start
  <2>2. CASE SweepNothing(th)
    BY <2>2, Awake DEF SweepNothing
  <2>3. CASE ~Start(th) /\ ~SweepNothing(th)
    BY <2>3 DEF TokenizeNew, RestoreMiss, Begin, Ready
  <2> QED BY <2>1, <2>2, <2>3
<1>6. Keeps(th) /\ SameTombstone /\ Same(mem'[p], mem[p])
  BY <1>0, <1>1, <1>2, <1>3, <1>4, <1>5, RestatSame
     DEF Keeps, Leaves, Goes, Drops, SameTombstone, SameFiles
<1>7. Harmed => Harmed'
  BY <1>1, <1>4 DEF Harmed
<1>8. job[th].kind # "tokenize" \/ job'[th].gen = None
  BY <1>4, Actor DEF Carrying
<1>9. Lasting(p)' /\ Unshared(p)'
  BY <1>1, <1>4, <1>6, <1>8, StaysUnshared DEF Strange
<1>10. Heeding(th)'
  <2>1. ~mem[p].dirty
    BY <1>0, <1>3 DEF Heeding
  <2> QED BY <1>1, <1>2, <1>4, <2>1 DEF Heeding, Inner, Locking, Drops
<1>11. Borrows(th)
  BY <1>4, <1>6, StaysBorrowed DEF Known
<1> QED BY <1>1, <1>3, <1>6, <1>7, <1>9, <1>10, <1>11, BriefDrop

\* A call is answered from memory, and the time of the snapshot is refreshed.
LEMMA AnswersDrop ==
  ASSUME Dropping, IInv, DropInv, NEW th \in Threads,
         (\E v \in Values : Reuse(th, v)) \/ RestoreHit(th)
  PROVE  DropInv'
<1> DEFINE p == ProcOf[th]
<1>1. p \in Procs /\ mem \in [Procs -> Memory] /\ mem[p] \in Memory /\ Heeding(th) /\ disk \in Disk
  BY Actor
<1>2. UNCHANGED <<up, pc, job, raw, holder, dropped>> /\ up[p] = "up" /\ pc[th] = "idle"
  BY DEF Reuse, RestoreHit, Ready
<1>3. \A q \in Procs : mem'[q] = mem[q] \/ mem'[q] = Restat(mem[q])
  BY <1>1 DEF Reuse, RestoreHit, Touch
<1>4. SameTombstone
  BY <1>1 DEF Reuse, RestoreHit, Touch, SameTombstone, SameFiles, Disk
<1>5. Keeps(th) /\ \A q \in Procs : Same(mem'[q], mem[q])
  BY <1>1, <1>2, <1>3, <1>4, RestatSame DEF Keeps, Leaves, Goes, Drops, SameTombstone
<1>6. Harmed => Harmed'
  BY <1>2, <1>4, <1>5 DEF Harmed, Same, SameTombstone, SameFiles
<1>7. job[th].gen = None
  BY <1>1, <1>2 DEF Heeding
<1>8. Lasting(p)' /\ Unshared(p)'
  BY <1>1, <1>2, <1>4, <1>5, <1>7, StaysUnshared DEF Strange, SameTombstone, SameFiles
<1>9. Heeding(th)'
  BY <1>1, <1>2, <1>5 DEF Heeding, Inner, Locking, Drops, Same
<1>10. Borrows(th)
  BY <1>1, <1>2, <1>4, <1>5, StaysBorrowed DEF Known
<1> QED BY <1>1, <1>2, <1>4, <1>5, <1>6, <1>8, <1>9, <1>10, BriefDrop

\* clear forgets the map, and takes a generation nobody has.
LEMMA ClearDrop ==
  ASSUME Dropping, IInv, DropInv, NEW th \in Threads, Clear(th) PROVE DropInv'
<1> DEFINE p == ProcOf[th]
           n == [NewMemory EXCEPT !.gen = FreshGen, !.joined = mem[p].joined,
                                  !.memOnly = mem[p].memOnly]
<1>1. /\ p \in Procs /\ mem \in [Procs -> Memory] /\ mem[p] \in Memory /\ disk \in Disk
      /\ Heeding(th) /\ Lasting(p) /\ job \in [Threads -> Job]
  BY Actor
<1>2. FreshGen \in Gens \ UsedGens /\ ~mem[p].memOnly /\ mem[p].gen \in Gens
  BY <1>1, Used DEF Clear, Ready, Lasting, IInv, InLifetime
<1>3. n.gen = FreshGen /\ n.seen = "none" /\ ~n.memOnly /\ ~n.dirty
  BY <1>2 DEF NewMemory
<1>4. mem' = [mem EXCEPT ![p] = n]
  BY DEF Clear, SetMem
<1> HIDE DEF n
<1>5. mem'[p] = n /\ \A q \in Procs \ {p} : mem'[q] = mem[q]
  BY <1>1, <1>4
<1>6. /\ pc[th] = "idle" /\ pc'[th] = "clear" /\ up[p] = "up"
      /\ UNCHANGED <<up, raw, holder, disk, dropped>>
      /\ \A x \in Threads \ {th} : pc'[x] = pc[x] /\ job'[x] = job[x]
      /\ job'[th].kind = "clear" /\ job'[th].gen = mem[p].gen
  BY <1>1, <1>2, Actor DEF Clear, Ready, Goto, Job
<1>7. Keeps(th) /\ SameTombstone
  BY <1>5, <1>6 DEF Keeps, Leaves, Goes, Drops, SameTombstone, SameFiles
<1>8. ~Harmed
  BY <1>1, <1>2, NoneHarmed, ConstantsAssumption
<1>9. Borrows(th)
  BY <1>2, <1>3, <1>5, <1>6 DEF Borrows, Known
<1>10. Lasting(p)' /\ Unshared(p)'
  <2>1. Lasting(p)'
    BY <1>3, <1>5 DEF Lasting
  <2>2. mem'[p].gen \in Gens \ UsedGens
    BY <1>2, <1>3, <1>5
  <2> QED BY <1>6, <1>7, <2>1, <2>2, FreshOwn DEF SameTombstone, SameFiles
<1>11. Heeding(th)'
  BY <1>3, <1>5, <1>6 DEF Heeding, Inner, Locking, Drops
<1> QED BY <1>6, <1>7, <1>8, <1>9, <1>10, <1>11, BriefDrop

\* A sweep, a load or a clear begins to delete.
LEMMA StartsToDrop ==
  ASSUME Dropping, IInv, DropInv, NEW th \in Threads,
         SweepExpired(th) \/ LoadExpired(th) \/ ClearFiles(th)
  PROVE  DropInv'
<1> DEFINE p == ProcOf[th]
<1>1. /\ p \in Procs /\ mem \in [Procs -> Memory] /\ job \in [Threads -> Job] /\ FilesKept
      /\ Lasting(p) /\ Heeding(th) /\ Carrying(pc[th], job[th])
  BY Actor
<1>2. /\ UNCHANGED <<mem, up, raw, disk>> /\ pc[th] \in {"sweep", "load", "clear"}
      /\ pc'[th] = "unlink" /\ \A x \in Threads \ {th} : pc'[x] = pc[x]
  BY Actor DEF SweepExpired, LoadExpired, ClearFiles, Goto
<1>3. holder = None /\ holder' = th
  BY LockIsHad DEF SweepExpired, LoadExpired, ClearFiles
<1>4. /\ \A x \in Threads \ {th} : job'[x] = job[x]
      /\ job'[th].kind \notin {"tokenize", "save"}
      /\ job'[th].todo \in {<<"main", "bak", "journal">>, <<"main", "journal", "bak">>}
      /\ \/ job'[th].gen = Blank
         \/ IsFile(disk.main) /\ job'[th].gen = disk.main.gen
         \/ job[th].kind # "tokenize" /\ job'[th].gen = job[th].gen
  <2>1. CASE SweepExpired(th)
    <3>1. job[th].kind = "boot"
      BY <1>1, <2>1 DEF SweepExpired, Carrying
    <3> QED BY <1>1, <2>1, <3>1 DEF SweepExpired, Job
  <2>2. CASE LoadExpired(th)
    BY <1>1, <2>2 DEF LoadExpired, Readable, Job
  <2>3. CASE ClearFiles(th)
    <3>1. job[th].kind \notin {"tokenize", "save"}
      BY <1>1, <2>3 DEF ClearFiles, Heeding
    <3> QED BY <1>1, <2>3, <3>1 DEF ClearFiles, Job
  <2> QED BY <2>1, <2>2, <2>3
<1>5. up'[p] # "down"
  BY <1>2, Awake
<1>6. job'[th].gen \in {Blank, dropped'} /\ Begins(th)
  <2>1. CASE ClearFiles(th)
    <3>1. job[th].kind # "tokenize"
      BY <1>1, <2>1 DEF ClearFiles, Heeding
    <3> QED BY <1>1, <1>2, <2>1, <3>1 DEF ClearFiles, Begins, Strange, Drops, Job
  <2>2. CASE SweepExpired(th) \/ LoadExpired(th)
    <3>1. dropped' = Lifetime(disk)
      BY <2>2 DEF SweepExpired, LoadExpired
    <3>2. job'[th].gen \in {Blank, dropped'}
      BY <1>1, <2>2, <3>1 DEF SweepExpired, LoadExpired, Lifetime, Readable, Job
    <3>3. Whole(disk.main) \/ Nothing \/ Harmed
      <4>1. \A x \in Threads : pc[x] \notin {"compact", "bak", "main", "unlink"}
        BY <1>2, <1>3, OthersOut DEF Inner, Locking
      <4> QED BY <1>1, <4>1 DEF FilesKept, BeingWritten, BeingDropped
    <3>4. Strange(th, dropped') \/ \A q \in Procs : mem[q].gen = None
      BY <3>1, <3>3 DEF Lifetime, Strange, Whole, Nothing, Harmed, IsFile
    <3> QED BY <1>2, <3>2, <3>4 DEF Begins, Drops
  <2> QED BY <2>1, <2>2
<1>7. Keeps(th) /\ Same(mem'[p], mem[p])
  BY <1>1, <1>2, <1>4, <1>5, <1>6, RestatSame DEF Keeps, Leaves
<1>8. Lasting(p)' /\ Unshared(p)'
  BY <1>2, <1>4, <1>7, StaysUnshared DEF Strange
<1>9. Heeding(th)'
  BY <1>1, <1>2, <1>3, <1>4, <1>6 DEF Heeding, Inner, Locking, LeftToDelete, Drops
<1>10. FilesKept'
  <2>1. (\E x \in Threads : pc[x] = "uncleared") => \E x \in Threads : pc'[x] = "uncleared"
    BY <1>2
  <2>2. Whole(disk.main) \/ disk.main = None \/ Spoilt(disk.main)
    BY <1>1 DEF FilesKept, Nothing, Harmed, BeingWritten, BeingDropped
  <2>3. Whole(disk.main) \/ BeingDropped'
    BY <1>2, <2>2 DEF BeingDropped
  <2> QED BY <1>1, <1>2, <2>1, <2>3 DEF FilesKept
<1>11. Borrows(th)
  BY <1>2, <1>4 DEF Borrows, Known
<1> QED BY <1>3, <1>7, <1>8, <1>9, <1>10, <1>11, DropStep DEF Sheltered

-----------------------------------------------------------------------------
(* The steps with the lock.                                                *)

\* Whoever is alone inside, in a lifetime, finds a whole snapshot or no file at all.
LEMMA AloneInsideDrop ==
  ASSUME IInv, DropInv, NEW th \in Threads, holder \in {None, th},
         pc[th] \notin {"compact", "bak", "main", "unlink"}, mem[ProcOf[th]].gen # None
  PROVE  Whole(disk.main) \/ Nothing
<1>1. \A x \in Threads : pc[x] \notin {"compact", "bak", "main", "unlink"}
  BY OthersOut DEF Inner, Locking
<1> QED BY <1>1, Actor, NoneHarmed DEF FilesKept, BeingWritten, BeingDropped

\* A token is handed out.
LEMMA HandsOutDrop ==
  ASSUME Dropping, IInv, DropInv, NEW th \in Threads, MintFound(th) \/ Return(th)
  PROVE  DropInv'
<1> DEFINE p == ProcOf[th]
<1>1. /\ p \in Procs /\ mem \in [Procs -> Memory] /\ job \in [Threads -> Job] /\ Heeding(th)
      /\ Carrying(pc[th], job[th])
  BY Actor
<1>2. /\ UNCHANGED <<mem, up, raw, disk, dropped>> /\ pc[th] \in {"mint", "return"}
      /\ pc'[th] = "idle" /\ \A x \in Threads \ {th} : pc'[x] = pc[x] /\ job'[x] = job[x]
      /\ job'[th].kind = "none" /\ job'[th].gen = None
  BY <1>1, Actor DEF MintFound, Return, Rest, Goto, NoJob
<1>3. holder = th
  BY <1>1, <1>2 DEF Heeding, Inner, Locking
<1>4. up'[p] # "down"
  BY <1>2, Awake
<1>5. Keeps(th) /\ SameTombstone /\ Same(mem'[p], mem[p])
  BY <1>1, <1>2, <1>4, RestatSame
     DEF Keeps, Leaves, Goes, Drops, SameTombstone, SameFiles
<1>6. Lasting(p)' /\ Unshared(p)'
  BY <1>2, <1>5, StaysUnshared DEF Strange
<1>7. Heeding(th)'
  BY <1>1, <1>2 DEF Heeding, Inner, Locking, Drops
<1>8. Harmed => Harmed'
  BY <1>2 DEF Harmed
<1>9. Borrows(th)
  BY <1>2 DEF Borrows, Known
<1> QED BY <1>2, <1>3, <1>5, <1>6, <1>7, <1>8, <1>9, BriefDrop

LEMMA MintNewDrop ==
  ASSUME Dropping, IInv, DropInv, NEW th \in Threads, MintNew(th) PROVE DropInv'
<1> DEFINE p == ProcOf[th]
           v == job[th].val
           n == Minted(mem[p], v, job[th].typ, 0)
<1>1. /\ p \in Procs /\ mem \in [Procs -> Memory] /\ mem[p] \in Memory
      /\ job \in [Threads -> Job] /\ Heeding(th) /\ Lasting(p) /\ Carrying(pc[th], job[th])
  BY Actor
<1>2. pc[th] = "mint" /\ job[th].kind = "tokenize" /\ v \in Values /\ job[th].typ \in Types
  BY <1>1 DEF MintNew, Carrying
<1>3. /\ n \in Memory /\ n.gen = mem[p].gen /\ n.seen = mem[p].seen /\ n.dirty = mem[p].dirty
      /\ n.memOnly = mem[p].memOnly /\ n.t2r # NoTokens
  <2>1. HasNumber(mem[p], job[th].typ, 0) /\ CoherentMemory(mem[p])
    BY <1>1, MemoryOf DEF MintNew, IInv
  <2>2. /\ n \in Memory /\ n.r2t[v] \in Tokens /\ n.gen = mem[p].gen /\ CoherentMemory(n)
    BY <1>1, <1>2, <2>1, MintedGood
  <2>3. n.seen = mem[p].seen /\ n.dirty = mem[p].dirty /\ n.memOnly = mem[p].memOnly
    BY <1>1 DEF Minted, Memory
  <2> HIDE DEF n
  <2>4. n.t2r[n.r2t[v]] # None /\ n.t2r \in TokenMap
    <3>1. n.r2t[v] # None
      BY <2>2, ConstantsAssumption DEF Tokens, Numbers
    <3> QED BY <1>2, <2>2, <3>1, ConstantsAssumption DEF CoherentMemory, Memory
  <2> QED BY <2>2, <2>3, <2>4, HoldsSome
<1>4. mem' = [mem EXCEPT ![p] = n] /\ job' = [job EXCEPT ![th].tok = n.r2t[v], ![th].gen = n.gen]
  BY DEF MintNew, SetMem
<1> HIDE DEF n
<1>5. /\ UNCHANGED <<up, raw, disk, holder, dropped>> /\ holder = th
      /\ pc'[th] = "append" /\ \A x \in Threads \ {th} : pc'[x] = pc[x] /\ job'[x] = job[x]
      /\ job'[th].kind = "tokenize" /\ job'[th].gen = mem[p].gen
      /\ mem'[p] = n /\ \A q \in Procs \ {p} : mem'[q] = mem[q]
  BY <1>1, <1>2, <1>3, <1>4, Actor DEF MintNew, Goto, Heeding, Inner, Locking, Job
<1>6. up'[p] # "down"
  BY <1>2, <1>5, Awake
<1>7. Keeps(th) /\ SameTombstone
  BY <1>2, <1>5, <1>6 DEF Keeps, Leaves, Goes, Drops, SameTombstone, SameFiles
<1>8. Lasting(p)' /\ Unshared(p)'
  <2>1. Lasting(p)'
    BY <1>1, <1>3, <1>5 DEF Lasting
  <2> QED BY <1>3, <1>5, <1>7, <2>1, StaysOwn DEF Strange
<1>9. Heeding(th)'
  BY <1>1, <1>2, <1>3, <1>5 DEF Heeding, Inner, Locking, Drops
<1>10. ~Harmed
  <2>1. mem[p].gen \in Gens
    BY <1>2 DEF IInv, InLifetime, Working
  <2> QED BY <1>1, <2>1, NoneHarmed, ConstantsAssumption
<1>11. Borrows(th)
  BY <1>3, <1>5 DEF Borrows, Known
<1> QED BY <1>2, <1>5, <1>7, <1>8, <1>9, <1>10, <1>11, BriefDrop

\* The line is written under the one key: everybody reads it.
LEMMA AppendLineDrop ==
  ASSUME Dropping, IInv, DropInv, NEW th \in Threads, AppendLine(th) PROVE DropInv'
<1> DEFINE p == ProcOf[th]
<1>1. /\ p \in Procs /\ mem \in [Procs -> Memory] /\ mem[p] \in Memory /\ disk \in Disk
      /\ job \in [Threads -> Job] /\ FilesKept /\ Heeding(th) /\ Lasting(p)
      /\ Carrying(pc[th], job[th])
  BY Actor
<1>2. /\ pc[th] = "append" /\ holder = th /\ ~mem[p].dirty /\ mem[p].gen \in Gens
      /\ job[th].tok # None /\ job[th].kind = "tokenize"
  BY <1>1 DEF AppendLine, Heeding, Inner, Locking, Carrying, IInv, InLifetime, Working
<1>3. /\ mem'[p].gen = mem[p].gen /\ mem'[p].t2r = mem[p].t2r /\ mem'[p].seen = mem[p].seen
      /\ mem'[p].dirty = mem[p].dirty /\ mem'[p].memOnly = mem[p].memOnly
      /\ \A q \in Procs \ {p} : mem'[q] = mem[q]
  BY <1>1 DEF AppendLine, SetMem, Memory
<1>4. /\ disk'.main = disk.main /\ disk'.bak = disk.bak /\ disk'.cleared = disk.cleared
      /\ disk'.torn = None /\ disk'.journal = Append(disk.journal, LineOf(th))
  BY <1>1 DEF AppendLine, Lines, FilesKept, Disk
<1>5. /\ UNCHANGED <<up, job, raw, holder, dropped>> /\ pc'[th] \in {"compact", "return"}
      /\ disk.main = None => pc'[th] = "compact"
      /\ \A x \in Threads \ {th} : pc'[x] = pc[x]
  BY Actor DEF AppendLine, Goto
<1>6. up'[p] # "down"
  BY <1>2, <1>5, Awake
<1>7. Keeps(th)
  BY <1>2, <1>3, <1>4, <1>5, <1>6 DEF Keeps, Leaves, Goes, Drops
<1>8. Same(mem'[p], mem[p])
  BY <1>3 DEF Same
<1>9. Lasting(p)' /\ Unshared(p)'
  BY <1>2, <1>4, <1>5, <1>7, <1>8, StaysUnshared DEF Strange
<1>10. Heeding(th)'
  BY <1>1, <1>2, <1>3, <1>4, <1>5 DEF Heeding, Inner, Locking, Drops
<1>11. FilesKept'
  <2>1. Whole(disk.main) \/ BeingWritten'
    <3>1. Whole(disk.main) \/ Nothing
      BY <1>2, AloneInsideDrop, ConstantsAssumption
    <3> QED BY <1>4, <1>5, <3>1 DEF Nothing, BeingWritten
  <2>2. (\E x \in Threads : pc[x] = "uncleared") => \E x \in Threads : pc'[x] = "uncleared"
    BY <1>2, <1>5
  <2>3. \A q \in Procs : Legible(q, LineOf(th))
    BY <1>1, <1>2 DEF Legible, LineOf, Dropping
  <2>4. \A i \in DOMAIN disk'.journal, q \in Procs : Legible(q, disk'.journal[i])
    BY <1>1, <1>4, <2>3 DEF FilesKept, Disk
  <2> QED BY <1>1, <1>4, <2>1, <2>2, <2>4 DEF FilesKept
<1>12. Borrows(th)
  BY <1>3, <1>4, <1>5 DEF Borrows, Known
<1> QED BY <1>2, <1>7, <1>9, <1>10, <1>11, <1>12, DropStep DEF Sheltered

\* What a compaction writes is whole.
LEMMA PayloadDrop ==
  ASSUME Dropping, IInv, DropInv, NEW th \in Threads, Payload(th) PROVE DropInv'
<1> DEFINE p == ProcOf[th]
<1>1. /\ p \in Procs /\ mem \in [Procs -> Memory] /\ mem[p] \in Memory /\ FilesKept
      /\ raw \in [Threads -> Snapshot \cup {None}] /\ Heeding(th) /\ Lasting(p)
  BY Actor
<1>2. pc[th] = "compact" /\ holder = th /\ mem[p].gen \in Gens /\ mem[p].t2r # NoTokens
  BY <1>1 DEF Payload, Heeding, Inner, Locking, IInv, InLifetime, Working
<1>3. /\ mem'[p].gen = mem[p].gen /\ mem'[p].t2r = mem[p].t2r /\ mem'[p].seen = mem[p].seen
      /\ ~mem'[p].dirty /\ mem'[p].memOnly = mem[p].memOnly
      /\ \A q \in Procs \ {p} : mem'[q] = mem[q]
  BY <1>1 DEF Payload, SetMem, Memory
<1>4. /\ UNCHANGED <<up, job, disk, holder, dropped>> /\ pc'[th] = "bak"
      /\ \A x \in Threads \ {th} : pc'[x] = pc[x] /\ raw'[x] = raw[x]
  BY <1>1, Actor DEF Payload, Goto
<1>5. Whole(raw'[th]) /\ raw'[th].gen = mem'[p].gen
  <2> DEFINE s == [gen |-> mem[p].gen, t2r |-> mem[p].t2r, ctr |-> mem[p].ctr, key |-> KeyOf[p]]
  <2>1. s \in Snapshot
    BY <1>1, <1>2 DEF Snapshot, Memory, Keys
  <2>2. IsFile(s)
    BY <2>1, NoSnapshotAssumption DEF IsFile
  <2>3. Whole(s) /\ s.gen = mem[p].gen
    BY <1>1, <1>2, <2>2 DEF Whole, Dropping
  <2>4. raw'[th] = s
    BY <1>1 DEF Payload
  <2> HIDE DEF s
  <2> QED BY <1>3, <2>3, <2>4
<1>6. Keeps(th) /\ SameTombstone
  <2>1. up'[p] # "down"
    BY <1>2, <1>4, Awake
  <2> QED BY <1>2, <1>3, <1>4, <2>1 DEF Keeps, Leaves, Goes, Drops, SameTombstone, SameFiles
<1>7. Lasting(p)' /\ Unshared(p)'
  <2>1. Lasting(p)'
    BY <1>1, <1>3 DEF Lasting
  <2> QED BY <1>3, <1>4, <1>6, <2>1, StaysOwn DEF Strange
<1>8. Heeding(th)'
  BY <1>1, <1>2, <1>3, <1>4, <1>5 DEF Heeding, Inner, Locking, Drops
<1>9. FilesKept'
  <2>1. \A x \in Threads : pc[x] \in {"unlink", "uncleared"} => pc'[x] = pc[x]
    BY <1>2, <1>4
  <2>2. BeingWritten => BeingWritten'
    BY <1>4 DEF BeingWritten
  <2>3. BeingDropped => BeingDropped'
    BY <1>4, <2>1 DEF BeingDropped
  <2>4. ~Harmed
    BY <1>1, <1>2, NoneHarmed, ConstantsAssumption
  <2>5. Nothing => Nothing'
    BY <1>4 DEF Nothing
  <2> QED BY <1>1, <1>4, <2>1, <2>2, <2>3, <2>4, <2>5 DEF FilesKept
<1>10. Borrows(th)
  BY <1>3, <1>4 DEF Borrows, Known
<1> QED BY <1>2, <1>6, <1>7, <1>8, <1>9, <1>10, DropStep DEF Sheltered

LEMMA WriteBakDrop ==
  ASSUME Dropping, IInv, DropInv, NEW th \in Threads, WriteBak(th) PROVE DropInv'
<1> DEFINE p == ProcOf[th]
<1>1. /\ p \in Procs /\ mem \in [Procs -> Memory] /\ mem[p] \in Memory /\ disk \in Disk
      /\ FilesKept /\ Heeding(th) /\ Lasting(p)
  BY Actor
<1>2. pc[th] = "bak" /\ holder = th /\ mem[p].gen \in Gens /\ Whole(raw[th])
  BY <1>1 DEF WriteBak, Heeding, Inner, Locking, IInv, InLifetime, Working
<1>3. /\ UNCHANGED <<mem, up, job, raw, holder, dropped>> /\ pc'[th] = "main"
      /\ \A x \in Threads \ {th} : pc'[x] = pc[x]
      /\ disk'.main = disk.main /\ disk'.bak = raw[th] /\ disk'.journal = disk.journal
      /\ disk'.torn = disk.torn /\ disk'.cleared = disk.cleared
  BY <1>1, Actor DEF WriteBak, Goto, Disk
<1>4. Keeps(th) /\ Same(mem'[p], mem[p])
  <2>1. up'[p] # "down"
    BY <1>2, <1>3, Awake
  <2> QED BY <1>1, <1>2, <1>3, <2>1, RestatSame DEF Keeps, Leaves, Goes, Drops
<1>5. Lasting(p)' /\ Unshared(p)'
  BY <1>3, <1>4, StaysUnshared DEF Strange
<1>6. Heeding(th)'
  BY <1>1, <1>2, <1>3 DEF Heeding, Inner, Locking, Drops
<1>7. FilesKept'
  <2>1. \A x \in Threads : pc[x] # "unlink" /\ (pc[x] = "uncleared" => pc'[x] = pc[x])
    BY <1>2, <1>3, OthersOut DEF Inner, Locking
  <2>2. Whole(disk.main) \/ disk.main = None
    BY <1>1, <1>2, <2>1, NoneHarmed, ConstantsAssumption
       DEF FilesKept, Nothing, BeingWritten, BeingDropped
  <2>3. Whole(disk.main) \/ BeingWritten'
    BY <1>3, <2>2 DEF BeingWritten
  <2> QED BY <1>1, <1>2, <1>3, <2>1, <2>3 DEF FilesKept
<1>8. Borrows(th)
  BY <1>3 DEF Borrows, Known
<1> QED BY <1>2, <1>4, <1>5, <1>6, <1>7, <1>8, DropStep DEF Sheltered

LEMMA WriteMainDrop ==
  ASSUME Dropping, IInv, DropInv, NEW th \in Threads, WriteMain(th) PROVE DropInv'
<1> DEFINE p == ProcOf[th]
<1>1. /\ p \in Procs /\ mem \in [Procs -> Memory] /\ mem[p] \in Memory /\ disk \in Disk
      /\ FilesKept /\ Heeding(th) /\ Lasting(p)
  BY Actor
<1>2. /\ pc[th] = "main" /\ holder = th /\ Whole(raw[th]) /\ raw[th].gen = mem[p].gen
      /\ mem[p].t2r # NoTokens /\ ~mem[p].dirty
  BY <1>1 DEF WriteMain, Heeding, Inner, Locking
<1>3. /\ UNCHANGED <<up, job, raw, holder, dropped>> /\ pc'[th] = "uncleared"
      /\ \A x \in Threads \ {th} : pc'[x] = pc[x]
      /\ disk'.main = raw[th] /\ disk'.bak = disk.bak /\ disk'.journal = disk.journal
      /\ disk'.torn = disk.torn /\ disk'.cleared = disk.cleared
  BY <1>1, Actor DEF WriteMain, Goto, Disk
<1>4. /\ mem'[p].gen = mem[p].gen /\ mem'[p].t2r = mem[p].t2r /\ mem'[p].seen = "fresh"
      /\ mem'[p].dirty = mem[p].dirty /\ mem'[p].memOnly = mem[p].memOnly
      /\ \A q \in Procs \ {p} : mem'[q] = Restat(mem[q])
  BY <1>1 DEF WriteMain, SetMemRestat, Memory
<1>5. Keeps(th)
  <2>1. up'[p] # "down"
    BY <1>2, <1>3, Awake
  <2> QED BY <1>2, <1>3, <1>4, <2>1 DEF Keeps, Leaves, Goes, Drops
<1>6. Lasting(p)' /\ Unshared(p)'
  BY <1>1, <1>2, <1>4 DEF Lasting, Unshared
<1>7. Heeding(th)'
  BY <1>1, <1>2, <1>3, <1>4 DEF Heeding, Inner, Locking, Drops
<1>8. FilesKept'
  BY <1>1, <1>2, <1>3 DEF FilesKept
<1>9. Borrows(th)
  BY <1>2, <1>3, <1>4 DEF Borrows, Known
<1> QED BY <1>2, <1>5, <1>6, <1>7, <1>8, <1>9, DropStep DEF Sheltered

\* The tombstone is gone before the journal is emptied.
LEMMA RemoveTombstoneDrop ==
  ASSUME Dropping, IInv, DropInv, NEW th \in Threads, RemoveTombstone(th) PROVE DropInv'
<1> DEFINE p == ProcOf[th]
<1>1. /\ p \in Procs /\ mem \in [Procs -> Memory] /\ mem[p] \in Memory /\ disk \in Disk
      /\ FilesKept /\ Heeding(th) /\ Lasting(p)
  BY Actor
<1>2. pc[th] = "uncleared" /\ holder = th /\ Whole(disk.main)
  BY <1>1 DEF RemoveTombstone, Heeding, Inner, Locking
<1>3. /\ UNCHANGED <<mem, up, job, raw, holder, dropped>> /\ pc'[th] = "truncate"
      /\ \A x \in Threads \ {th} : pc'[x] = pc[x]
      /\ disk'.main = disk.main /\ disk'.bak = disk.bak /\ disk'.journal = disk.journal
      /\ disk'.torn = disk.torn /\ disk'.cleared = None
  BY <1>1, Actor DEF RemoveTombstone, Goto, Disk
<1>4. Keeps(th) /\ Same(mem'[p], mem[p])
  <2>1. up'[p] # "down"
    BY <1>2, <1>3, Awake
  <2> QED BY <1>1, <1>2, <1>3, <2>1, RestatSame DEF Keeps, Leaves, Goes, Drops
<1>5. Lasting(p)' /\ Unshared(p)'
  BY <1>3, <1>4, StaysUnshared DEF Strange
<1>6. Heeding(th)'
  BY <1>1, <1>2, <1>3 DEF Heeding, Inner, Locking, Drops
<1>7. FilesKept'
  BY <1>1, <1>2, <1>3 DEF FilesKept
<1>8. Borrows(th)
  BY <1>3 DEF Borrows, Known
<1> QED BY <1>2, <1>4, <1>5, <1>6, <1>7, <1>8, DropStep DEF Sheltered

LEMMA TruncateDrop ==
  ASSUME Dropping, IInv, DropInv, NEW th \in Threads, Truncate(th) PROVE DropInv'
<1> DEFINE p == ProcOf[th]
<1>1. /\ p \in Procs /\ mem \in [Procs -> Memory] /\ mem[p] \in Memory /\ disk \in Disk
      /\ raw \in [Threads -> Snapshot \cup {None}] /\ job \in [Threads -> Job]
      /\ up \in [Procs -> {"down", "boot", "up"}]
      /\ FilesKept /\ Heeding(th) /\ Lasting(p)
  BY Actor
<1>2. pc[th] = "truncate" /\ holder = th /\ Whole(disk.main) /\ ~mem[p].dirty
  BY <1>1 DEF Truncate, Heeding, Inner, Locking
<1>3. /\ mem'[p].gen = mem[p].gen /\ mem'[p].t2r = mem[p].t2r /\ mem'[p].seen = mem[p].seen
      /\ mem'[p].dirty = mem[p].dirty /\ mem'[p].memOnly = mem[p].memOnly
      /\ \A q \in Procs \ {p} : mem'[q] = mem[q]
  BY <1>1 DEF Truncate, SetMem, Memory
<1>4. /\ disk'.main = disk.main /\ disk'.bak = disk.bak /\ disk'.journal = <<>>
      /\ disk'.torn = None /\ disk'.cleared = disk.cleared
      /\ dropped' = dropped /\ \A x \in Threads \ {th} : raw'[x] = raw[x]
  BY <1>1 DEF Truncate, Disk
<1>5. /\ pc'[th] \in {"mint", "return", "idle"}
      /\ pc'[th] = "idle" => job'[th].gen = None /\ job'[th].kind = "none"
      /\ pc'[th] # "idle" => job'[th] = job[th] /\ job[th].kind = "tokenize" /\ holder' = holder
      /\ \A x \in Threads \ {th} : pc'[x] = pc[x] /\ job'[x] = job[x]
      /\ up'[p] # "down" /\ \A q \in Procs \ {p} : up'[q] = up[q]
  <2>1. AfterCompact(th) /\ pc \in [Threads -> PCs]
    BY Actor DEF Truncate
  <2>2. CASE job[th].kind = "tokenize"
    <3>1. UNCHANGED <<up, job, holder>> /\ Goto(th, IF job[th].tok = None THEN "mint" ELSE "return")
      BY <2>1, <2>2 DEF AfterCompact
    <3>2. up'[p] # "down"
      BY <1>2, <3>1, Awake
    <3> QED BY <2>1, <2>2, <3>1, <3>2 DEF Goto
  <2>3. CASE job[th].kind # "tokenize"
    BY <1>1, <2>1, <2>3 DEF AfterCompact, Rest, Goto, NoJob
  <2> QED BY <2>2, <2>3
<1>6. Keeps(th) /\ Same(mem'[p], mem[p])
  BY <1>2, <1>3, <1>4, <1>5 DEF Keeps, Leaves, Goes, Drops, Same
<1>7. Lasting(p)' /\ Unshared(p)'
  BY <1>4, <1>5, <1>6, StaysUnshared DEF Strange
<1>8. Heeding(th)'
  <2>1. CASE pc'[th] = "idle"
    BY <1>2, <1>3, <1>5, <2>1 DEF Heeding, Inner, Locking, Drops
  <2>2. CASE pc'[th] # "idle"
    <3>1. disk.main # None
      BY <1>2 DEF Whole, IsFile
    <3> QED BY <1>2, <1>3, <1>4, <1>5, <2>2, <3>1 DEF Heeding, Inner, Locking, Drops
  <2> QED BY <2>1, <2>2
<1>9. FilesKept'
  <2>1. \A x \in Threads : pc[x] # "uncleared"
    BY <1>2, OthersOut DEF Inner, Locking
  <2> QED BY <1>1, <1>2, <1>4, <2>1 DEF FilesKept, Whole, IsFile
<1>10. Borrows(th)
  BY <1>3, <1>4, <1>5 DEF Borrows, Known
<1> QED BY <1>2, <1>6, <1>7, <1>8, <1>9, <1>10, DropStep DEF Sheltered

-----------------------------------------------------------------------------
(* The deletions.                                                          *)

\* What a file's removal leaves of a deletion and of the files.
LEMMA LessToDrop ==
  ASSUME NEW d \in Disk, NEW e, NEW todo,
         \/ todo \in {<<"main", "bak", "journal">>, <<"main", "journal", "bak">>}
         \/ /\ d.main = None
            /\ \/ todo \in {<<"bak", "journal">>, <<"journal", "bak">>}
               \/ todo = <<"journal">> /\ d.bak = None
               \/ todo = <<"bak">> /\ d.journal = <<>>,
         e = Without(d, Head(todo))
  PROVE  /\ e.main = None /\ e.cleared = d.cleared
         /\ e.bak \in {d.bak, None} /\ e.journal \in {d.journal, <<>>} /\ e.torn \in {d.torn, None}
         /\ Len(todo) = 1 => e.bak = None /\ e.journal = <<>>
         /\ Len(todo) # 1 =>
              \/ Tail(todo) \in {<<"bak", "journal">>, <<"journal", "bak">>}
              \/ Tail(todo) = <<"journal">> /\ e.bak = None
              \/ Tail(todo) = <<"bak">> /\ e.journal = <<>>
<1>1. CASE todo \in {<<"main", "bak", "journal">>, <<"main", "journal", "bak">>}
  <2>1. /\ Head(todo) = "main" /\ Len(todo) # 1
        /\ Tail(todo) \in {<<"bak", "journal">>, <<"journal", "bak">>}
    <3>1. CASE todo = <<"main", "bak", "journal">>
      BY <3>1
    <3>2. CASE todo = <<"main", "journal", "bak">>
      BY <3>2
    <3> QED BY <1>1, <3>1, <3>2
  <2>2. e = [d EXCEPT !.main = None]
    BY <2>1 DEF Without
  <2> QED BY <2>1, <2>2 DEF Disk
<1>2. CASE d.main = None /\ todo = <<"bak", "journal">>
  <2>1. Head(todo) = "bak" /\ Len(todo) # 1 /\ Tail(todo) = <<"journal">>
    BY <1>2
  <2>2. e = [d EXCEPT !.bak = None]
    BY <2>1 DEF Without
  <2> QED BY <1>2, <2>1, <2>2 DEF Disk
<1>3. CASE d.main = None /\ todo = <<"journal", "bak">>
  <2>1. Head(todo) = "journal" /\ Len(todo) # 1 /\ Tail(todo) = <<"bak">>
    BY <1>3
  <2>2. e = [d EXCEPT !.journal = <<>>, !.torn = None]
    BY <2>1 DEF Without
  <2> QED BY <1>3, <2>1, <2>2 DEF Disk
<1>4. CASE d.main = None /\ todo = <<"journal">> /\ d.bak = None
  <2>1. Head(todo) = "journal" /\ Len(todo) = 1
    BY <1>4
  <2>2. e = [d EXCEPT !.journal = <<>>, !.torn = None]
    BY <2>1 DEF Without
  <2> QED BY <1>4, <2>1, <2>2 DEF Disk
<1>5. CASE d.main = None /\ todo = <<"bak">> /\ d.journal = <<>>
  <2>1. Head(todo) = "bak" /\ Len(todo) = 1
    BY <1>5
  <2>2. e = [d EXCEPT !.bak = None]
    BY <2>1 DEF Without
  <2> QED BY <1>5, <2>1, <2>2 DEF Disk
<1> QED BY <1>1, <1>2, <1>3, <1>4, <1>5

LEMMA UnlinkDrop ==
  ASSUME Dropping, IInv, DropInv, NEW th \in Threads, Unlink(th) PROVE DropInv'
<1> DEFINE p == ProcOf[th]
           todo == job[th].todo
<1>1. /\ p \in Procs /\ mem \in [Procs -> Memory] /\ mem[p] \in Memory /\ disk \in Disk
      /\ job \in [Threads -> Job] /\ FilesKept /\ Heeding(th) /\ Lasting(p)
  BY Actor
<1>2. /\ pc[th] = "unlink" /\ job[th].gen \in {Blank, dropped} /\ holder = th /\ job[th].kind \notin {"tokenize", "save"}
      /\ ~mem[p].dirty /\ LeftToDelete(todo) /\ disk' = Without(disk, Head(todo))
  BY <1>1 DEF Unlink, Heeding, Inner, Drops
<1>3. /\ disk'.main = None /\ disk'.cleared = disk.cleared
      /\ disk'.bak \in {disk.bak, None} /\ disk'.journal \in {disk.journal, <<>>}
      /\ disk'.torn \in {disk.torn, None}
      /\ Len(todo) = 1 => disk'.bak = None /\ disk'.journal = <<>>
      /\ Len(todo) # 1 =>
           \/ Tail(todo) \in {<<"bak", "journal">>, <<"journal", "bak">>}
           \/ Tail(todo) = <<"journal">> /\ disk'.bak = None
           \/ Tail(todo) = <<"bak">> /\ disk'.journal = <<>>
  BY <1>1, <1>2, LessToDrop, ZenonT(60) DEF LeftToDelete
<1>4. /\ UNCHANGED <<up, raw, holder, dropped>>
      /\ pc'[th] = (IF Len(todo) = 1 THEN "tombstone" ELSE "unlink")
      /\ \A x \in Threads \ {th} : pc'[x] = pc[x] /\ job'[x] = job[x]
      /\ job'[th].kind = job[th].kind /\ job'[th].gen = job[th].gen /\ job'[th].todo = Tail(todo)
      /\ \A q \in Procs : mem'[q] = mem[q] \/ mem'[q] = Restat(mem[q])
  BY <1>1, Actor DEF Unlink, Goto, Job
<1>5. Keeps(th) /\ Same(mem'[p], mem[p])
  <2>1. up'[p] # "down"
    BY <1>2, <1>4, Awake
  <2> QED BY <1>1, <1>2, <1>4, <2>1, RestatSame DEF Keeps, Leaves, Goes, Drops
<1>6. Lasting(p)' /\ Unshared(p)'
  BY <1>2, <1>3, <1>4, <1>5, StaysUnshared DEF Strange, IsFile
<1>7. Heeding(th)'
  BY <1>2, <1>3, <1>4, <1>5 DEF Heeding, Inner, Locking, Drops, LeftToDelete, Nothing, Same
<1>8. FilesKept'
  <2>1. Nothing' \/ BeingDropped'
    BY <1>3, <1>4 DEF Nothing, BeingDropped
  <2> QED BY <1>1, <1>3, <2>1 DEF FilesKept, Intact, IsFile
<1>9. Borrows(th)
  BY <1>3, <1>4, <1>5 DEF Borrows, Known, Same, IsFile
<1> QED BY <1>2, <1>5, <1>6, <1>7, <1>8, <1>9, DropStep DEF Sheltered

\* The tombstone stands on an empty vault.
LEMMA TombstoneDrop ==
  ASSUME Dropping, IInv, DropInv, NEW th \in Threads, Tombstone(th) PROVE DropInv'
<1> DEFINE p == ProcOf[th]
           e == [disk EXCEPT !.main = None, !.bak = None, !.journal = <<>>]
           n == Loaded(p, e, FreshGen)
<1>1. /\ p \in Procs /\ mem \in [Procs -> Memory] /\ mem[p] \in Memory /\ disk \in Disk
      /\ job \in [Threads -> Job] /\ FilesKept /\ Heeding(th) /\ Lasting(p)
      /\ up \in [Procs -> {"down", "boot", "up"}]
  BY Actor
<1>2. /\ pc[th] = "tombstone" /\ holder = th /\ job[th].kind \notin {"tokenize", "save"}
      /\ ~mem[p].dirty /\ Nothing /\ job[th].gen \in {Blank, dropped} /\ dropped' = dropped
  BY <1>1 DEF Tombstone, Heeding, Inner, Drops
<1>3. /\ disk'.main = None /\ disk'.bak = None /\ disk'.journal = <<>>
      /\ disk'.torn = None /\ disk'.cleared = job[th].gen /\ raw' = raw
  BY <1>1, <1>2 DEF Tombstone, Nothing, FilesKept, Disk
<1>4. /\ pc'[th] \in {"load", "idle"}
      /\ \A x \in Threads \ {th} : pc'[x] = pc[x] /\ job'[x] = job[x]
      /\ job'[th].gen = None /\ job'[th].kind \notin {"tokenize", "save"}
      /\ up'[p] # "down" /\ \A q \in Procs \ {p} : up'[q] = up[q]
      /\ \/ mem' = mem
         \/ HasFreshGen /\ mem' = [mem EXCEPT ![p] = n]
  <2>1. up[p] # "down"
    BY <1>2, Awake
  <2>2. CASE job[th].kind = "boot"
    <3>1. Goto(th, "load") /\ job' = [job EXCEPT ![th].gen = None] /\ UNCHANGED <<mem, up>>
      BY <2>2 DEF Tombstone
    <3> QED BY <1>1, <2>1, <2>2, <3>1, Actor DEF Goto, Job
  <2>3. CASE job[th].kind = "expire"
    <3>1. /\ HasFreshGen /\ SetMem(p, n) /\ up' = [up EXCEPT ![p] = "up"] /\ Rest(th)
      BY <2>3 DEF Tombstone
    <3> QED BY <1>1, <3>1, Actor DEF Rest, Goto, NoJob, SetMem
  <2>4. CASE job[th].kind \notin {"boot", "expire"}
    <3>1. Rest(th) /\ UNCHANGED <<mem, up>>
      BY <2>4 DEF Tombstone
    <3> QED BY <1>1, <2>1, <3>1, Actor DEF Rest, Goto, NoJob
  <2> QED BY <2>2, <2>3, <2>4
<1>5. CASE mem' = mem
  <2>1. Keeps(th) /\ Same(mem'[p], mem[p])
    BY <1>1, <1>2, <1>3, <1>4, <1>5, RestatSame DEF Keeps, Leaves, Goes, Drops
  <2>2. Lasting(p)' /\ Unshared(p)'
    BY <1>2, <1>3, <1>4, <2>1, StaysUnshared DEF Strange, IsFile
  <2>3. Heeding(th)'
    BY <1>2, <1>4, <1>5 DEF Heeding, Inner, Locking, Drops
  <2>4. FilesKept'
    BY <1>3 DEF FilesKept, Nothing, Intact, IsFile
  <2>5. Borrows(th)
    BY <1>3, <1>4, <1>5 DEF Borrows, Known, IsFile
  <2> QED BY <1>2, <2>1, <2>2, <2>3, <2>4, <2>5, DropStep DEF Sheltered
<1>6. CASE HasFreshGen /\ mem' = [mem EXCEPT ![p] = n]
  <2>1. FreshGen \in Gens \ UsedGens
    BY <1>6, Used
  <2>2. /\ e.main = None /\ e.bak = None /\ e.journal = <<>> /\ GoodFiles(e)
    BY <1>1 DEF Disk, GoodFiles
  <2> HIDE DEF e
  <2>3. Arrival(p, e, FreshGen, n)
    BY <1>1, <2>1, <2>2, LoadedArrival
  <2> HIDE DEF n
  <2>4. n.seen = "none" /\ n.gen = FreshGen /\ ~n.memOnly /\ ~n.dirty
    BY <2>2, <2>3 DEF Arrival
  <2>5. mem'[p] = n /\ \A q \in Procs \ {p} : mem'[q] = mem[q]
    BY <1>1, <1>6
  <2>6. Keeps(th)
    BY <1>2, <1>3, <1>4, <2>5 DEF Keeps, Leaves, Goes, Drops
  <2>7. Lasting(p)' /\ Unshared(p)'
    <3>1. disk'.main = disk.main
      BY <1>2, <1>3 DEF Nothing
    <3>2. Lasting(p)'
      BY <2>4, <2>5 DEF Lasting
    <3> QED BY <1>2, <1>3, <1>4, <2>1, <2>4, <2>5, <2>6, <3>1, <3>2, FreshOwn
  <2>8. Heeding(th)'
    BY <1>2, <1>4, <2>4, <2>5 DEF Heeding, Inner, Locking, Drops
  <2>9. FilesKept'
    BY <1>3 DEF FilesKept, Nothing, Intact, IsFile
  <2>10. Borrows(th)
    BY <1>3, <1>4, <2>1, <2>4, <2>5 DEF Borrows, Known, IsFile
  <2> QED BY <1>2, <2>6, <2>7, <2>8, <2>9, <2>10, DropStep DEF Sheltered
<1> QED BY <1>4, <1>5, <1>6

-----------------------------------------------------------------------------
(* The steps that read the files.                                          *)

LEMMA SyncDrop ==
  ASSUME Dropping, IInv, DropInv, NEW th \in Threads, Sync(th) PROVE DropInv'
<1> DEFINE p == ProcOf[th]
           m == mem[p]
           n == Synced(p, m, disk, FreshGen)
<1>1. /\ p \in Procs /\ mem \in [Procs -> Memory] /\ m \in Memory /\ disk \in Disk
      /\ job \in [Threads -> Job] /\ FilesKept /\ Heeding(th) /\ Lasting(p) /\ Unshared(p)
  BY Actor
<1>2. /\ pc[th] = "sync" /\ HasFreshGen /\ ~m.dirty /\ ~m.memOnly /\ m.gen \in Gens
      /\ job[th].kind # "save"
  BY <1>1 DEF Sync, Heeding, Lasting, IInv, InLifetime, Working
<1>3. FreshGen \in Gens \ UsedGens
  BY <1>2, Used
<1>4. /\ UNCHANGED <<up, raw, disk, dropped>> /\ mem' = [mem EXCEPT ![p] = n] /\ holder = None
      /\ \/ Resurrects(m, disk) /\ holder' = th /\ pc'[th] = "compact" /\ job' = job
         \/ /\ ~Resurrects(m, disk) /\ job[th].kind = "tokenize"
            /\ holder' = th /\ pc'[th] = "mint" /\ job' = job
         \/ /\ ~Resurrects(m, disk) /\ pc'[th] = "idle"
            /\ job' = [job EXCEPT ![th] = NoJob]
      /\ \A x \in Threads \ {th} : pc'[x] = pc[x]
  <2>1. pc \in [Threads -> PCs]
    BY Actor
  <2>2. CASE Resurrects(m, disk)
    <3>1. Enter(th) /\ Goto(th, "compact") /\ UNCHANGED job
      BY <1>2, <2>2 DEF Sync
    <3> QED BY <2>1, <2>2, <3>1, LockIsHad DEF Sync, SetMem, Goto
  <2>3. CASE ~Resurrects(m, disk) /\ job[th].kind = "tokenize"
    <3>1. Enter(th) /\ Goto(th, "mint") /\ UNCHANGED job
      BY <1>2, <2>3 DEF Sync
    <3> QED BY <2>1, <2>3, <3>1, LockIsHad DEF Sync, SetMem, Goto
  <2>4. CASE ~Resurrects(m, disk) /\ job[th].kind # "tokenize"
    <3>1. Pass(th) /\ Rest(th)
      BY <1>2, <2>4 DEF Sync
    <3> QED BY <2>1, <2>4, <3>1, LockIsHad DEF Sync, SetMem, Rest, Goto
  <2> QED BY <2>2, <2>3, <2>4
<1>5. Whole(disk.main) \/ Nothing
  BY <1>2, <1>4, AloneInsideDrop, ConstantsAssumption
<1>6. Outcome(m, disk, FreshGen, n)
  BY <1>1, <1>2, <1>5, SyncedOutcome DEF Lasting, FilesKept, Nothing
<1> HIDE DEF n
<1>7. mem'[p] = n /\ \A q \in Procs \ {p} : mem'[q] = mem[q]
  BY <1>1, <1>4
<1>8. /\ \A x \in Threads \ {th} : job'[x] = job[x]
      /\ job'[th].gen = None \/ job'[th] = job[th]
      /\ pc'[th] = "idle" => job'[th].gen = None
      /\ job'[th].kind # "save"
  BY <1>1, <1>2, <1>4 DEF NoJob
<1>9. Keeps(th) /\ SameTombstone
  <2>1. up'[p] # "down"
    BY <1>2, <1>4, Awake
  <2> QED BY <1>2, <1>4, <1>7, <1>8, <2>1
         DEF Keeps, Leaves, Goes, Drops, SameTombstone, SameFiles
<1>10. Lasting(p)' /\ Unshared(p)'
  <2>1. Lasting(p)'
    BY <1>6, <1>7 DEF Outcome, Lasting
  <2>2. CASE n.seen = "fresh"
    BY <1>7, <2>1, <2>2 DEF Unshared
  <2>3. CASE n.gen = FreshGen
    BY <1>3, <1>4, <1>7, <1>8, <1>9, <2>1, <2>3, FreshOwn
  <2>4. CASE n.gen = m.gen /\ n.seen = m.seen
    <3>1. job'[th].kind # "tokenize" => Strange(th, job'[th].gen)
      BY <1>8 DEF Strange
    <3> QED BY <1>4, <1>7, <1>9, <2>1, <2>4, <3>1, StaysOwn DEF Strange
  <2> QED BY <1>6, <2>1, <2>2, <2>3, <2>4 DEF Outcome
<1>11. Heeding(th)'
  <2>1. CASE pc'[th] = "compact"
    <3>1. Resurrects(m, disk) /\ holder' = th
      BY <1>4, <2>1
    <3>2. n.t2r # NoTokens /\ disk.cleared \notin {Blank, n.gen}
      BY <1>6, <3>1 DEF Outcome, Resurrects, Vanished
    <3>3. disk.cleared \in {None, Blank, dropped}
      <4>1. \A x \in Threads : pc[x] \notin Drops
        BY <1>2, <1>4, OthersOut DEF Inner, Drops
      <4> QED BY <4>1 DEF DropInv, Named
    <3> QED BY <1>4, <1>7, <1>8, <2>1, <3>1, <3>2, <3>3 DEF Heeding, Inner, Locking, Drops
  <2>2. CASE pc'[th] = "mint"
    <3>1. ~Resurrects(m, disk) /\ holder' = th
      BY <1>4, <2>2
    <3>2. ~n.dirty
      BY <1>6, <3>1 DEF Outcome
    <3>3. disk.main = None /\ disk.cleared # None => n.gen # dropped
      <4>1. FreshGen # dropped
        BY <1>3 DEF UsedGens
      <4>2. m.seen = "none" /\ disk.cleared # None => m.gen # dropped
        BY <1>1, <1>2, ConstantsAssumption DEF Unshared, Standing
      <4> QED BY <1>6, <3>1, <4>1, <4>2 DEF Outcome
    <3> QED BY <1>4, <1>7, <1>8, <2>2, <3>1, <3>2, <3>3 DEF Heeding, Inner, Locking, Drops
  <2>3. CASE pc'[th] = "idle"
    <3>1. ~n.dirty
      BY <1>4, <1>6, <2>3 DEF Outcome
    <3> QED BY <1>7, <1>8, <2>3, <3>1 DEF Heeding, Inner, Locking, Drops
  <2> QED BY <1>4, <2>1, <2>2, <2>3
<1>12. ~Harmed
  BY <1>1, <1>2, NoneHarmed, ConstantsAssumption
<1>13. Borrows(th)
  <2>1. n.gen \in {m.gen, FreshGen} \/ (IsFile(disk.main) /\ n.gen = disk.main.gen)
    BY <1>5, <1>6 DEF Outcome, Whole, Nothing
  <2> QED BY <1>3, <1>4, <1>7, <1>8, <2>1 DEF Borrows, Known
<1> QED BY <1>2, <1>4, <1>9, <1>10, <1>11, <1>12, <1>13, BriefDrop

\* A load reads the snapshot, restores the copy that outlived it, or begins a lifetime.
LEMMA LoadDrop ==
  ASSUME Dropping, IInv, DropInv, NEW th \in Threads, Load(th) PROVE DropInv'
<1> DEFINE p == ProcOf[th]
           n == Loaded(p, disk, FreshGen)
<1>1. /\ p \in Procs /\ mem \in [Procs -> Memory] /\ mem[p] \in Memory /\ disk \in Disk
      /\ job \in [Threads -> Job] /\ pc \in [Threads -> PCs] /\ FilesKept /\ Heeding(th)
      /\ up \in [Procs -> {"down", "boot", "up"}]
  BY Actor
<1>2. pc[th] = "load" /\ HasFreshGen /\ FreshGen \in Gens \ UsedGens
  BY Used DEF Load
<1>3. holder = None
  BY LockIsHad DEF Load
<1>4. Whole(disk.main) \/ Nothing \/ Harmed
  <2>1. \A x \in Threads : pc[x] \notin {"compact", "bak", "main", "unlink"}
    BY <1>2, <1>3, OthersOut DEF Inner, Locking
  <2> QED BY <1>1, <2>1 DEF FilesKept, BeingWritten, BeingDropped
<1>5. Arrival(p, disk, FreshGen, n)
  <2>1. GoodFiles(disk)
    BY <1>1, DiskGood
  <2>2. \A i \in DOMAIN disk.journal : Legible(p, disk.journal[i])
    BY <1>1 DEF FilesKept
  <2>3. \/ Whole(disk.main)
        \/ (disk.main = None \/ Spoilt(disk.main)) /\ Whole(disk.bak)
        \/ disk.main = None /\ disk.bak = None /\ disk.journal = <<>>
    BY <1>4 DEF Nothing, Harmed
  <2> QED BY <1>1, <1>2, <2>1, <2>2, <2>3, LoadedArrival
<1>6. /\ disk' = IF Quarantines(p, disk) THEN [disk EXCEPT !.main = None] ELSE disk
      /\ \A q \in Procs : mem'[q] \in (IF q = p THEN {n} ELSE {mem[q], Restat(mem[q])})
      /\ raw' = raw /\ dropped' = dropped
  BY <1>1 DEF Load, SetMem, SetMemRestat
<1>7. IF RestoresBackup(p, disk) /\ ~n.memOnly
      THEN EnterLoad(th) /\ Goto(th, "compact") /\ UNCHANGED <<up, job>>
      ELSE PassLoad(th) /\ up' = [up EXCEPT ![p] = "up"] /\ Rest(th)
  BY DEF Load
<1> HIDE DEF n
<1>8. mem'[p] = n /\ \A q \in Procs \ {p} : mem'[q] \in {mem[q], Restat(mem[q])}
  BY <1>1, <1>6
<1>9. CASE Harmed
  <2>1. /\ n.seen = "none" /\ n.gen = disk.bak.gen /\ n.t2r # NoTokens /\ ~n.memOnly /\ ~n.dirty
        /\ RestoresBackup(p, disk) /\ (disk.main # None => Quarantines(p, disk))
    BY <1>5, <1>9 DEF Arrival, Harmed
  <2>2. /\ UNCHANGED <<up, job>> /\ holder' = th /\ pc'[th] = "compact"
        /\ \A x \in Threads \ {th} : pc'[x] = pc[x]
    <3>1. EnterLoad(th) /\ Goto(th, "compact") /\ UNCHANGED <<up, job>>
      BY <1>7, <2>1
    <3> QED BY <1>1, <3>1, LockIsHad DEF Goto
  <2>3. /\ disk'.main = None /\ disk'.bak = disk.bak /\ disk'.journal = disk.journal
        /\ disk'.torn = disk.torn /\ disk'.cleared = None
    BY <1>1, <1>6, <1>9, <2>1 DEF Harmed, Disk
  <2>4. n.gen \in Gens
    BY <1>1, <1>9, <2>1 DEF Harmed, Whole, IsFile, Disk, Snapshot
  <2>5. Keeps(th)
    <3>1. up'[p] # "down"
      BY <1>2, <2>2, Awake
    <3> QED BY <1>2, <1>6, <1>8, <2>2, <2>3, <3>1 DEF Keeps, Leaves, Goes, Drops
  <2>6. \A q \in Procs : mem[q].gen = None
    BY <1>9 DEF Harmed
  <2>7. Lasting(p)' /\ Unshared(p)'
    <3>1. \A q \in Procs \ {p} : mem'[q].gen = None
      BY <1>1, <1>8, <2>6, RestatSame DEF Same
    <3>2. \A x \in Threads : job'[x].gen = None
      BY <1>9, <2>2 DEF Harmed
    <3>3. None \notin Gens
      BY ConstantsAssumption
    <3>4. ~Standing'
      BY <1>3, <2>2, <2>3, OthersOut DEF Standing, Drops, Inner
    <3> QED BY <1>8, <2>1, <2>3, <2>4, <3>1, <3>2, <3>3, <3>4 DEF Lasting, Unshared, IsFile
  <2>8. Heeding(th)'
    BY <1>1, <1>8, <2>1, <2>2, <2>3, <2>4, ConstantsAssumption DEF Heeding, Inner, Locking, Drops
  <2>9. FilesKept'
    BY <1>1, <2>2, <2>3 DEF FilesKept, BeingWritten
  <2> QED BY <1>3, <2>5, <2>6, <2>7, <2>8, <2>9, DropStep DEF Sheltered
<1>10. CASE Whole(disk.main) \/ Nothing
  <2>1. ~Quarantines(p, disk) /\ ~RestoresBackup(p, disk) /\ ~n.memOnly /\ ~n.dirty
    BY <1>5, <1>10 DEF Arrival, Nothing
  <2>2. \/ Whole(disk.main) /\ n.seen = "fresh" /\ n.gen = disk.main.gen /\ n.t2r # NoTokens
        \/ Nothing /\ n.seen = "none" /\ n.gen = FreshGen
    BY <1>5, <1>10 DEF Arrival, Nothing
  <2>3. /\ UNCHANGED disk /\ pc'[th] = "idle" /\ job'[th] = NoJob
        /\ up'[p] = "up" /\ \A q \in Procs \ {p} : up'[q] = up[q]
        /\ \A x \in Threads \ {th} : pc'[x] = pc[x] /\ job'[x] = job[x]
    <3>1. PassLoad(th) /\ up' = [up EXCEPT ![p] = "up"] /\ Rest(th)
      BY <1>7, <2>1
    <3> QED BY <1>1, <1>6, <2>1, <3>1 DEF Rest, Goto
  <2>4. Keeps(th) /\ SameTombstone
    BY <1>2, <1>6, <1>8, <2>3 DEF Keeps, Leaves, Goes, Drops, SameTombstone, SameFiles
  <2>5. job'[th].gen = None /\ job'[th].kind = "none"
    BY <2>3 DEF NoJob
  <2>6. Lasting(p)' /\ Unshared(p)'
    <3>1. Lasting(p)'
      BY <1>8, <2>1, <2>2 DEF Lasting
    <3>2. CASE n.seen = "fresh"
      BY <1>8, <3>1, <3>2 DEF Unshared
    <3>3. CASE n.gen = FreshGen
      BY <1>2, <1>6, <1>8, <2>3, <2>4, <2>5, <3>1, <3>3, FreshOwn
    <3> QED BY <2>2, <3>2, <3>3
  <2>7. Heeding(th)'
    BY <1>8, <2>1, <2>3, <2>5 DEF Heeding, Inner, Locking, Drops
  <2>8. ~Harmed
    BY <1>10, ConstantsAssumption DEF Harmed, Whole, Nothing, Spoilt, IsFile, Dropping
  <2>9. Borrows(th)
    BY <1>2, <1>8, <2>2, <2>3, <2>5 DEF Borrows, Known, Whole
  <2> QED BY <1>2, <1>3, <2>4, <2>6, <2>7, <2>8, <2>9, BriefDrop
<1> QED BY <1>4, <1>9, <1>10

-----------------------------------------------------------------------------
(* What cannot happen, the environment, and the theorem.                   *)

LEMMA NotHere ==
  ASSUME Dropping, IInv, DropInv, NEW th \in Threads
  PROVE  /\ ~MintLockedOut(th) /\ ~CompactNothing(th) /\ ~Save(th)
         /\ \A v \in Values, k \in Types : ~TokenizeFar(th, v, k)
         /\ ~AppendFails(th) /\ ~CompactFails(th) /\ ~CrashTorn(th)
<1>1. ~mem[ProcOf[th]].memOnly
  BY Actor DEF Lasting
<1>2. ~Save(th)
  BY Actor DEF Save, Ready, Heeding
<1>3. ~Upset("write") /\ ~Upset("torn") /\ ~Upset("torn_whole")
  BY Spared
<1>4. ~CrashTorn(th)
  BY <1>3 DEF CrashTorn
<1> QED BY <1>1, <1>2, <1>3, <1>4
      DEF MintLockedOut, CompactNothing, TokenizeFar, AppendFails, CompactFails

\* A process that exits between two calls leaves the files to the others.
LEMMA CrashDrop ==
  ASSUME Dropping, IInv, DropInv, NEW p \in Procs, Crash(p) PROVE DropInv'
<1>1. /\ mem \in [Procs -> Memory] /\ job \in [Threads -> Job] /\ pc \in [Threads -> PCs]
      /\ up \in [Procs -> {"down", "boot", "up"}] /\ raw \in [Threads -> Snapshot \cup {None}]
  BY DEF IInv, MemoryInv, FilesInv, ControlInv
<1>2. Dies(p) /\ disk' = disk /\ dropped' = dropped /\ \A th \in Threads : ProcOf[th] = p => pc[th] = "idle"
  <2>1. ~Upset("crash")
    BY Spared
  <2> QED BY <2>1 DEF Crash
<1>3. /\ mem'[p] = NewMemory /\ \A q \in Procs \ {p} : mem'[q] = mem[q] /\ up'[q] = up[q]
      /\ \A x \in Threads : pc'[x] = pc[x]
      /\ \A x \in Threads : ProcOf[x] = p => job'[x] = NoJob
      /\ \A x \in Threads : ProcOf[x] # p => job'[x] = job[x] /\ raw'[x] = raw[x]
      /\ \A x \in Threads : holder = x /\ ProcOf[x] # p => holder' = x
  BY <1>1, <1>2 DEF Dies
<1>4. \A x \in Threads : job'[x].gen \in {None, job[x].gen}
  BY <1>3 DEF NoJob
<1>5. /\ NewMemory.gen = None /\ ~NewMemory.dirty /\ ~NewMemory.memOnly /\ NewMemory.seen = "none"
      /\ NoJob.gen = None /\ NoJob.kind = "none"
  BY DEF NewMemory, NoJob
<1>6. FilesKept'
  <2>1. Harmed => Harmed'
    BY <1>2, <1>3, <1>4, <1>5 DEF Harmed
  <2>2. (BeingWritten => BeingWritten') /\ (BeingDropped => BeingDropped') /\ (Nothing => Nothing')
    BY <1>2, <1>3 DEF BeingWritten, BeingDropped, Nothing
  <2> QED BY <1>2, <1>3, <2>1, <2>2 DEF DropInv, FilesKept
<1>7. Named' /\ (Standing' => Standing)
  BY <1>2, <1>3 DEF DropInv, Named, Standing
<1>8. ASSUME NEW q \in Procs PROVE Lasting(q)' /\ Unshared(q)'
  <2>1. CASE q = p
    BY <1>3, <1>5, <2>1 DEF Lasting, Unshared
  <2>2. CASE q # p
    <3>1. mem'[q] = mem[q] /\ Lasting(q) /\ Unshared(q)
      BY <1>3, <2>2 DEF DropInv
    <3>2. \A x \in Threads : job'[x].gen = None \/ job'[x] = job[x]
      BY <1>3, <1>5
    <3>3. \A r \in Procs \ {q} : mem'[r].gen = None \/ mem'[r] = mem[r]
      BY <1>3, <1>5
    <3> QED BY <1>2, <1>7, <3>1, <3>2, <3>3 DEF Lasting, Unshared
  <2> QED BY <2>1, <2>2
<1>9. ASSUME NEW th \in Threads PROVE Heeding(th)'
  <2>1. CASE ProcOf[th] = p
    BY <1>2, <1>3, <1>5, <2>1 DEF Heeding, Inner, Locking, Drops
  <2>2. CASE ProcOf[th] # p
    <3>1. /\ mem'[ProcOf[th]] = mem[ProcOf[th]] /\ Heeding(th)
          /\ job'[th] = job[th] /\ raw'[th] = raw[th] /\ pc'[th] = pc[th]
          /\ holder = th => holder' = th
      BY <1>3, <2>2, OwnerType DEF DropInv
    <3>2. LeftToDelete(job[th].todo) => LeftToDelete(job[th].todo)'
      BY <1>2, <3>1 DEF LeftToDelete
    <3> QED BY <1>2, <3>1, <3>2 DEF Heeding, Nothing
  <2> QED BY <2>1, <2>2
<1>10. DownInv'
  BY <1>2, <1>3 DEF DropInv, DownInv
<1> QED BY <1>6, <1>7, <1>8, <1>9, <1>10 DEF DropInv

\* Harm befalls one of the two copies while nobody runs.
LEMMA HarmDrop ==
  ASSUME Dropping, IInv, DropInv, NEW f \in {"main", "bak"}, Damage(f) \/ LoseMain
  PROVE  DropInv'
<1>1. mem \in [Procs -> Memory] /\ disk \in Disk /\ disk' \in Disk
  BY DamageInv, LoseMainInv DEF IInv, MemoryInv, FilesInv
<1>2. \A q \in Procs : up[q] = "down"
  <2>1. ~Upset("damage")
    BY Spared
  <2> QED BY <2>1 DEF Damage, LoseMain, Harm
<1>3. UNCHANGED <<up, pc, job, raw, holder>> /\ \A q \in Procs : mem'[q] = mem[q] \/ mem'[q] = Restat(mem[q])
  BY <1>1 DEF Damage, LoseMain, Harm
<1>4. \A q \in Procs : mem[q] = NewMemory /\ mem'[q] = NewMemory
  BY <1>1, <1>2, <1>3, RestatAlike DEF DropInv, DownInv
<1>5. \A th \in Threads : pc[th] = "idle" /\ job[th].gen = None /\ job[th].kind # "save"
  BY <1>2, OwnerType DEF DropInv, DownInv, Heeding
<1>6. /\ NewMemory.gen = None /\ ~NewMemory.dirty /\ ~NewMemory.memOnly /\ NewMemory.seen = "none"
  BY DEF NewMemory
<1>7. Intact(disk.main) /\ Intact(disk.bak)
  BY DEF Damage, LoseMain, Harm
<1>8. Whole(disk.main) /\ Whole(disk.bak) /\ disk.cleared = None
  BY <1>5, <1>7, ConstantsAssumption
     DEF DropInv, FilesKept, Nothing, Harmed, Spoilt, BeingWritten, BeingDropped, Intact, IsFile
<1>9. /\ disk'.journal = disk.journal /\ disk'.torn = disk.torn /\ disk'.cleared = None
      /\ \/ (disk'.main = None \/ Spoilt(disk'.main)) /\ disk'.bak = disk.bak
         \/ disk'.main = disk.main /\ ~Intact(disk'.bak)
  <2>1. CASE LoseMain
    BY <1>1, <1>8, <2>1 DEF LoseMain, Disk
  <2>2. CASE Damage(f)
    <3> DEFINE bad == IF disk[f].key = NoKey THEN Corrupt ELSE [disk[f] EXCEPT !.key = None]
    <3>1. disk[f] \in Snapshot /\ Whole(disk[f])
      BY <1>1, <1>8 DEF Whole, IsFile, Disk
    <3>2. Spoilt(bad) /\ ~Intact(bad)
      <4>1. CASE disk[f].key = NoKey
        BY <4>1 DEF Spoilt, Intact, IsFile
      <4>2. CASE disk[f].key # NoKey
        <5>1. bad \in Snapshot /\ bad.key = None
          BY <3>1, <4>2 DEF Snapshot
        <5>2. IsFile(bad)
          BY <5>1, NoSnapshotAssumption DEF IsFile
        <5>3. \A q \in Procs : KeyOf[q] # NoKey
          BY <3>1, <4>2 DEF Whole
        <5> QED BY <5>1, <5>2, <5>3 DEF Spoilt, Intact
      <4> QED BY <4>1, <4>2
    <3>3. disk' = [disk EXCEPT ![f] = bad]
      BY <1>1, <2>2 DEF Damage, Disk
    <3> HIDE DEF bad
    <3> QED BY <1>1, <1>8, <3>2, <3>3 DEF Disk
  <2> QED BY <2>1, <2>2
<1>10. FilesKept'
  <2>1. Harmed' \/ Whole(disk'.main)
    BY <1>3, <1>4, <1>5, <1>6, <1>8, <1>9 DEF Harmed
  <2>2. Intact(disk'.bak) => Whole(disk'.bak)
    BY <1>8, <1>9
  <2> QED BY <1>9, <2>1, <2>2 DEF DropInv, FilesKept
<1>11. \A q \in Procs : Lasting(q)' /\ Unshared(q)'
  BY <1>4, <1>6 DEF Lasting, Unshared
<1>12. \A th \in Threads : Heeding(th)'
  BY <1>3, <1>4, <1>5, <1>6, OwnerType DEF Heeding, Inner, Locking, Drops
<1>13. DownInv'
  BY <1>3, <1>4, <1>5 DEF DownInv
<1>14. Named'
  BY <1>9 DEF Named
<1> QED BY <1>10, <1>11, <1>12, <1>13, <1>14 DEF DropInv

\* Time passes.
LEMMA RestDrop ==
  ASSUME DropInv, UNCHANGED <<mem, up, pc, job, raw, holder>>, SameTombstone PROVE DropInv'
<1>1. /\ disk'.main = disk.main /\ disk'.bak = disk.bak /\ disk'.journal = disk.journal
      /\ disk'.torn = disk.torn /\ disk'.cleared = disk.cleared /\ dropped' = dropped
  BY DEF SameTombstone, SameFiles
<1>2. FilesKept'
  <2>1. (Nothing => Nothing') /\ (Harmed => Harmed')
    BY <1>1 DEF Nothing, Harmed
  <2>2. (BeingWritten => BeingWritten') /\ (BeingDropped => BeingDropped')
    BY <1>1 DEF BeingWritten, BeingDropped
  <2> QED BY <1>1, <2>1, <2>2 DEF DropInv, FilesKept
<1>3. \A th \in Threads : Heeding(th)'
  BY <1>1 DEF DropInv, Heeding, LeftToDelete, Nothing
<1>4. \A q \in Procs : Lasting(q)' /\ Unshared(q)'
  BY <1>1 DEF DropInv, Lasting, Unshared, Standing
<1>5. Named'
  BY <1>1 DEF DropInv, Named
<1> QED BY <1>2, <1>3, <1>4, <1>5 DEF DropInv, DownInv

LEMMA InitDrop == Dropping /\ Init => DropInv
<1> SUFFICES ASSUME Dropping, Init PROVE DropInv
  OBVIOUS
<1>1. /\ NewMemory.gen = None /\ ~NewMemory.dirty /\ ~NewMemory.memOnly /\ NewMemory.seen = "none"
      /\ NoJob.gen = None /\ NoJob.kind = "none"
  BY DEF NewMemory, NoJob
<1>2. FilesKept
  BY DEF Init, FilesKept, Nothing, Intact, IsFile
<1>3. \A p \in Procs : Lasting(p) /\ Unshared(p)
  BY <1>1 DEF Init, Lasting, Unshared
<1>4. \A th \in Threads : Heeding(th)
  BY <1>1, OwnerType DEF Init, Heeding, Inner, Locking, Drops
<1>5. DownInv
  BY DEF Init, DownInv
<1>6. Named
  BY DEF Init, Named
<1> QED BY <1>2, <1>3, <1>4, <1>5, <1>6 DEF DropInv

LEMMA NextDrop == Dropping /\ IInv /\ DropInv /\ [Next]_vars => DropInv'
<1> SUFFICES ASSUME Dropping, IInv, DropInv, [Next]_vars PROVE DropInv'
  OBVIOUS
<1>1. ASSUME NEW th \in Threads, Operation(th) PROVE DropInv'
  BY <1>1, CallsDrop, AnswersDrop, ClearDrop, NotHere DEF Operation
<1>2. ASSUME NEW th \in Threads, Step(th) PROVE DropInv'
  BY <1>2, CallsDrop, StartsToDrop, LoadDrop, SyncDrop, HandsOutDrop, MintNewDrop,
     AppendLineDrop, PayloadDrop, WriteBakDrop, WriteMainDrop, RemoveTombstoneDrop,
     TruncateDrop, UnlinkDrop, TombstoneDrop, NotHere DEF Step
<1>3. CASE Environment
  <2>1. CASE Age
    <3>1. SameTombstone
      BY <2>1 DEF Age, SameTombstone, SameFiles, IInv, FilesInv, Disk
    <3> QED BY <2>1, <3>1, RestDrop DEF Age
  <2> QED BY <1>3, <2>1, CrashDrop, HarmDrop, NotHere DEF Environment
<1>4. CASE UNCHANGED vars
  BY <1>4, RestDrop DEF vars, SameTombstone, SameFiles
<1> QED BY <1>1, <1>2, <1>3, <1>4 DEF Next

LEMMA DropInvariance == Dropping => (Spec => []DropInv)
<1> SUFFICES ASSUME Dropping PROVE Spec => []DropInv
  OBVIOUS
<1>1. IInv /\ DropInv /\ [Next]_vars => DropInv'
  BY NextDrop
<1>2. Init => DropInv
  BY InitDrop
<1> QED BY <1>1, <1>2, Invariance, PTL DEF Spec

\* Only a compaction puts a snapshot where there is none.
LEMMA OnlyCompactionWrites ==
  ASSUME IInv, [Next]_vars, disk.main = None, IsFile(disk'.main)
  PROVE  \E th \in Threads : WriteMain(th)
<1>1. disk \in Disk /\ ~IsFile(disk.main)
  BY DEF IInv, FilesInv, IsFile
<1>2. disk' # disk
  BY <1>1
<1>3. ASSUME NEW th \in Threads, Operation(th) PROVE FALSE
  BY <1>1, <1>2, <1>3
     DEF Operation, Start, Reuse, TokenizeFar, TokenizeNew, RestoreHit, RestoreMiss, Save, Clear,
         Begin, Touch, Disk
<1>4. ASSUME NEW th \in Threads, Step(th), ~WriteMain(th) PROVE FALSE
  <2>1. CASE \/ SweepExpired(th) \/ SweepNothing(th) \/ LoadExpired(th) \/ Sync(th)
             \/ MintLockedOut(th) \/ MintFound(th) \/ MintNew(th) \/ Return(th)
             \/ CompactNothing(th) \/ Payload(th) \/ ClearFiles(th)
    BY <1>2, <2>1 DEF SweepExpired, SweepNothing, LoadExpired, Sync, MintLockedOut, MintFound,
                      MintNew, Return, CompactNothing, Payload, ClearFiles
  <2>2. CASE Load(th)
    BY <1>1, <1>2, <2>2 DEF Load, Disk, IsFile
  <2>3. CASE AppendLine(th) \/ WriteBak(th) \/ RemoveTombstone(th) \/ Truncate(th)
    BY <1>1, <2>3 DEF AppendLine, WriteBak, RemoveTombstone, Truncate, Disk
  <2>4. CASE Tombstone(th)
    BY <1>1, <2>4 DEF Tombstone, Disk
  <2>5. CASE Unlink(th)
    <3>1. job[th].todo \in Seq(Files) /\ job[th].todo # <<>>
      BY <2>5 DEF Unlink, IInv, ControlInv, Carrying, Job
    <3>2. Head(job[th].todo) \in Files
      BY <3>1
    <3> QED BY <1>1, <2>5, <3>2 DEF Unlink, Without, Disk, IsFile, Files
  <2> QED BY <1>4, <2>1, <2>2, <2>3, <2>4, <2>5 DEF Step
<1>5. CASE Environment
  <2>1. ASSUME NEW th \in Threads, AppendFails(th) \/ CompactFails(th) \/ CrashTorn(th) PROVE FALSE
    BY <1>1, <1>2, <2>1 DEF AppendFails, CompactFails, CrashTorn, Disk
  <2>2. ASSUME NEW p \in Procs, Crash(p) PROVE FALSE
    BY <1>2, <2>2 DEF Crash
  <2>3. ASSUME NEW f \in {"main", "bak"}, Damage(f) \/ LoseMain PROVE FALSE
    BY <1>1, <2>3 DEF Damage, LoseMain, Harm, Intact
  <2>4. CASE Age
    BY <1>1, <2>4 DEF Age, Disk
  <2> QED BY <1>5, <2>1, <2>2, <2>3, <2>4 DEF Environment
<1> QED BY <1>2, <1>3, <1>4, <1>5 DEF Next, vars

\* Where nobody is killed in the middle of a drop and files are harmed only while nobody
\* runs, a lifetime that was dropped on purpose is never written back, however often the
\* vault is cleared or expires (durable_vault.py:340-345, 505-511).
THEOREM DroppedStays == Dropping => (Spec => DroppedStaysDropped)
<1> DEFINE Heeded == disk.main = None /\ disk.cleared # None /\ IsFile(disk'.main)
                       => disk'.main.gen # dropped
<1> SUFFICES ASSUME Dropping PROVE Spec => DroppedStaysDropped
  OBVIOUS
<1>1. IInv /\ DropInv /\ [Next]_vars => Heeded
  <2> SUFFICES ASSUME IInv, DropInv, [Next]_vars, disk.main = None, disk.cleared # None,
                      IsFile(disk'.main)
               PROVE  disk'.main.gen # dropped
    OBVIOUS
  <2>1. PICK th \in Threads : WriteMain(th)
    BY OnlyCompactionWrites
  <2>2. /\ raw[th].gen = mem[ProcOf[th]].gen /\ mem[ProcOf[th]].gen # dropped
        /\ disk \in Disk
    BY <2>1, Actor DEF WriteMain, Heeding
  <2>3. disk'.main = raw[th]
    BY <2>1, <2>2 DEF WriteMain, Disk
  <2> QED BY <2>2, <2>3
<1>2. IInv /\ DropInv /\ [Next]_vars => [Heeded]_vars
  BY <1>1
<1>3. Spec => []DropInv
  BY DropInvariance
<1> QED BY <1>2, <1>3, Invariance, PTL DEF Spec, DroppedStaysDropped
=============================================================================
