----------------------------- MODULE EgressProofs -----------------------------
(***************************************************************************)
(* Theorems about EgressReader: what a script that reads the vault without *)
(* a lock finds there, while any number of processes write it.             *)
(***************************************************************************)
EXTENDS EgressReader, VaultStoreProofs

-----------------------------------------------------------------------------
(* What a step of the agent's processes does to the files.                 *)

\* Nothing that was kept is gone, nor is any line unless the journal got shorter, and a
\* snapshot is never there without a backup.
Grown(d, e) ==
  /\ KeptOn(d) \subseteq KeptOn(e)
  /\ JournalPairs(d) \subseteq JournalPairs(e) \/ Len(e.journal) < Len(d.journal)
  /\ d.bak # None => e.bak # None
  /\ e.main # None => d.main # None \/ e.bak # None

\* Good copies stay good, and no bad one appears.
Unspoilt(d, e) ==
  /\ Intact(d.bak) => Intact(e.bak)
  /\ Intact(d.main) => Intact(e.main)
  /\ e.main \in {d.main, None} \/ Intact(e.main)

Same(d, e) == e.main = d.main /\ e.bak = d.bak /\ e.journal = d.journal

LEMMA SameGrown ==
  ASSUME NEW d, NEW e, Same(d, e) PROVE Grown(d, e) /\ Unspoilt(d, e)
<1>1. JournalPairs(e) = JournalPairs(d)
  BY DEF Same, JournalPairs, ReadTo
<1>2. KeptOn(e) = KeptOn(d)
  BY <1>1 DEF Same, KeptOn
<1> QED BY <1>1, <1>2 DEF Same, Grown, Unspoilt

LEMMA CallsLeaveFiles ==
  ASSUME IInv, NEW th \in Threads,
         \/ Operation(th) \/ SweepNothing(th) \/ Sync(th) \/ MintFound(th) \/ MintNew(th)
         \/ Return(th) \/ Payload(th) \/ RemoveTombstone(th)
  PROVE  Same(disk, disk')
<1>1. disk \in Disk
  BY DEF IInv, FilesInv
<1>2. CASE Operation(th)
  BY <1>1, <1>2 DEF Operation, Start, Reuse, TokenizeFar, TokenizeNew, RestoreHit, RestoreMiss,
     Save, Clear, Begin, Touch, Same, Disk
<1>3. CASE ~Operation(th)
  BY <1>1, <1>3
     DEF SweepNothing, Sync, MintFound, MintNew, Return, Payload, RemoveTombstone, Same, Disk
<1> QED BY <1>2, <1>3

LEMMA LinesGrow ==
  ASSUME Orderly, IInv, SInv, NEW th \in Threads, AppendLine(th) \/ CrashTorn(th)
  PROVE  Grown(disk, disk') /\ Unspoilt(disk, disk')
<1> DEFINE p == ProcOf[th]
           e == [disk EXCEPT !.journal = Lines(disk)]
<1>1. disk \in Disk /\ p \in Procs /\ Ours(p, disk)
  BY OwnerType DEF IInv, FilesInv, SInv, FilesSound, Sound
<1>2. e.journal = Lines(disk) /\ e.main = disk.main /\ e.bak = disk.bak
  BY <1>1 DEF Disk
<1> HIDE DEF e
<1>3. Adds(e, disk, {}) /\ LinesOurs(p, e.journal) /\ e.journal \in Seq(Entry)
  BY <1>1, <1>2, LinesPairs
<1>4. disk'.main = disk.main /\ disk'.bak = disk.bak
  BY <1>1 DEF AppendLine, CrashTorn, Disk
<1>5. CASE AppendLine(th)
  <2>1. disk'.journal = Append(e.journal, LineOf(th))
    BY <1>1, <1>2, <1>5 DEF AppendLine, Disk
  <2>2. LineOf(th) \in Entry /\ LineOurs(p, LineOf(th))
    <3>1. LineOf(th) \in Entry
      BY <1>5, LineOfType DEF AppendLine
    <3>2. LineOf(th).tok # None /\ LineOf(th).key = KeyOf[p]
      BY <1>5 DEF AppendLine, LineOf, IInv, ControlInv, Carrying
    <3> QED BY <3>1, <3>2 DEF LineOurs
  <2>3. Adds(disk', e, MappingOf(LineOf(th)))
    BY <1>1, <1>2, <1>3, <1>4, <2>1, <2>2, AddsLine
  <2> QED BY <1>3, <1>4, <2>3 DEF Adds, Grown, Unspoilt
<1>6. CASE CrashTorn(th)
  <2>1. disk'.journal = e.journal
    BY <1>1, <1>2, <1>6 DEF CrashTorn, Disk
  <2>2. JournalPairs(disk') = JournalPairs(e)
    BY <2>1 DEF JournalPairs, ReadTo
  <2>3. KeptOn(disk') = KeptOn(e)
    BY <1>2, <1>4, <2>2 DEF KeptOn
  <2> QED BY <1>3, <1>4, <2>2, <2>3 DEF Adds, Grown, Unspoilt
<1> QED BY <1>5, <1>6

LEMMA CompactingGrows ==
  ASSUME Orderly, IInv, SInv, NEW th \in Threads,
         WriteBak(th) \/ WriteMain(th) \/ Truncate(th)
  PROVE  Grown(disk, disk') /\ Unspoilt(disk, disk')
<1> DEFINE r == raw[th]
<1>1. /\ disk \in Disk /\ Sound(disk) /\ SnapshotOf(r, disk)
      /\ Doing(pc[th], job[th], mem[ProcOf[th]], r, disk)
  BY CompactingThread DEF WriteBak, WriteMain, Truncate, Compacting
<1>2. Intact(r) /\ r # None
  BY <1>1 DEF SnapshotOf, Intact, IsFile
<1>3. CASE WriteBak(th) \/ WriteMain(th)
  <2>1. /\ disk'.bak = r /\ disk'.main \in {disk.main, r}
        /\ disk'.journal = disk.journal /\ disk'.torn = disk.torn
    BY <1>1, <1>3 DEF WriteBak, WriteMain, Doing, Disk
  <2>2. KeptOn(disk') = KeptOn(disk) /\ JournalPairs(disk') = JournalPairs(disk)
    BY <1>1, <2>1, CopyWritten
  <2> QED BY <1>2, <2>1, <2>2 DEF Grown, Unspoilt
<1>4. CASE Truncate(th)
  <2>1. disk.main = r /\ disk.bak = r
    BY <1>1, <1>4 DEF Truncate, Doing
  <2>2. disk'.bak = r /\ disk'.main = r /\ disk'.journal = <<>> /\ disk'.torn = None
    BY <1>1, <1>4, <2>1 DEF Truncate, Disk
  <2>3. KeptOn(disk') = KeptOn(disk)
    BY <1>1, <2>2, JournalEmptied
  <2>4. JournalPairs(disk) = {} \/ Len(disk'.journal) < Len(disk.journal)
    <3>1. disk.journal \in Seq(Entry)
      BY <1>1 DEF Disk
    <3>2. CASE disk.journal = <<>>
      BY <3>2 DEF JournalPairs, ReadTo, LinePairs
    <3>3. CASE disk.journal # <<>>
      BY <2>2, <3>1, <3>3
    <3> QED BY <3>2, <3>3
  <2> QED BY <1>2, <2>1, <2>2, <2>3, <2>4 DEF Grown, Unspoilt
<1> QED BY <1>3, <1>4

LEMMA LoadGrows ==
  ASSUME Orderly, IInv, SInv, NEW th \in Threads, Load(th)
  PROVE  Grown(disk, disk') /\ Unspoilt(disk, disk')
<1> DEFINE e == IF BadMain(disk) THEN [disk EXCEPT !.main = None] ELSE disk
<1>1. disk \in Disk /\ GoodFiles(disk) /\ Sound(disk) /\ ProcOf[th] \in Procs /\ OneKeyForAll
  BY OwnerType, DiskGood DEF IInv, FilesInv, SInv, FilesSound, Orderly
<1>2. Opens(Loaded(ProcOf[th], disk, FreshGen), ProcOf[th], disk)
  BY <1>1, LoadedPairs
<1>3. disk' = e
  BY <1>2 DEF Load, Opens
<1> HIDE DEF e
<1>4. /\ KeptOn(e) = KeptOn(disk) /\ JournalPairs(e) = JournalPairs(disk)
      /\ e.bak = disk.bak /\ e.main = (IF BadMain(disk) THEN None ELSE disk.main)
  BY <1>1, QuarantineSound DEF e
<1> QED BY <1>3, <1>4 DEF Grown, Unspoilt, BadMain

LEMMA HarmGrows ==
  ASSUME Orderly, IInv, SInv, LoseMain \/ \E f \in {"main", "bak"} : Damage(f)
  PROVE  Grown(disk, disk') /\ Upset("cold")
<1>1. /\ disk \in Disk /\ Sound(disk) /\ Intact(disk.main) /\ Intact(disk.bak)
      /\ Upset("cold")
  <2>1. ~Upset("damage")
    BY NoUpset
  <2> QED BY <2>1 DEF IInv, FilesInv, SInv, FilesSound, LoseMain, Damage, Harm
<1> DEFINE Spoils(f, bad) ==
             /\ disk' = [disk EXCEPT ![f] = bad] /\ ~Intact(bad) /\ (f = "bak" => bad # None)
             /\ \A q \in Procs : IsFile(bad) => bad.key = None /\ KeyOf[q] # NoKey
<1>2. \E f \in {"main", "bak"} : \E bad : Spoils(f, bad)
  <2>1. CASE LoseMain
    <3>1. disk' = [disk EXCEPT !["main"] = None] /\ ~Intact(None) /\ ~IsFile(None)
      BY <2>1 DEF LoseMain, Intact, IsFile
    <3> QED BY <3>1
  <2>2. CASE \E f \in {"main", "bak"} : Damage(f)
    <3>1. PICK f \in {"main", "bak"} : Damage(f)
      BY <2>2
    <3> DEFINE s == disk[f]
               bad == IF s.key = NoKey THEN Corrupt ELSE [s EXCEPT !.key = None]
    <3>2. s \in {disk.main, disk.bak} /\ s \in Snapshot /\ s.key # None
      BY <1>1 DEF Disk, Intact, IsFile
    <3>3. disk' = [disk EXCEPT ![f] = bad]
      BY <3>1 DEF Damage
    <3>4. \A q \in Procs : s.key = KeyOf[q]
      BY <1>1, <3>2 DEF Sound, Ours, Intact
    <3>5. CASE s.key = NoKey
      <4>1. ~Intact(bad) /\ ~IsFile(bad) /\ (f = "bak" => bad # None)
        BY <3>5, NoSnapshotAssumption DEF Intact, IsFile
      <4> QED BY <3>3, <4>1
    <3>6. CASE s.key # NoKey
      <4>1. bad = [s EXCEPT !.key = None] /\ bad.key = None /\ bad \in Snapshot
        BY <3>2, <3>6 DEF Snapshot
      <4>2. bad # None
        BY <4>1, NoSnapshotAssumption
      <4> HIDE DEF bad
      <4> QED BY <3>3, <3>4, <3>6, <4>1, <4>2 DEF Intact
    <3> QED BY <3>5, <3>6
  <2> QED BY <2>1, <2>2
<1>3. PICK f \in {"main", "bak"} : \E bad : Spoils(f, bad)
  BY <1>2
<1>4. PICK bad : Spoils(f, bad)
  BY <1>3
<1>5. KeptOn(disk') = KeptOn(disk)
  BY <1>1, <1>4, HarmedSound
<1>6. /\ disk'.journal = disk.journal /\ disk.main # None
      /\ disk.bak # None => disk'.bak # None
  BY <1>1, <1>4 DEF Disk, Intact, IsFile
<1>7. JournalPairs(disk') = JournalPairs(disk)
  BY <1>6 DEF JournalPairs, ReadTo
<1> QED BY <1>1, <1>5, <1>6, <1>7 DEF Grown

\* Every step of the agent's processes lets the vault grow, and only harm done while none
\* of them runs spoils a copy.
LEMMA NextGrows ==
  ASSUME Orderly, IInv, SInv, [Next]_vars
  PROVE  Grown(disk, disk') /\ (Unspoilt(disk, disk') \/ Upset("cold"))
<1>1. ASSUME NEW th \in Threads, Operation(th) PROVE Grown(disk, disk') /\ Unspoilt(disk, disk')
  BY <1>1, CallsLeaveFiles, SameGrown
<1>2. ASSUME NEW th \in Threads, Step(th) PROVE Grown(disk, disk') /\ Unspoilt(disk, disk')
  BY <1>2, Excluded, CallsLeaveFiles, SameGrown, LoadGrows, LinesGrow, CompactingGrows DEF Step
<1>3. ASSUME Environment
      PROVE  Grown(disk, disk') /\ (Unspoilt(disk, disk') \/ Upset("cold"))
  <2>1. ASSUME NEW p \in Procs, Crash(p) PROVE Same(disk, disk')
    BY <2>1 DEF Crash, Same
  <2> QED BY <1>3, <2>1, Excluded, SameGrown, LinesGrow, HarmGrows DEF Environment
<1>4. CASE UNCHANGED vars
  BY <1>4, SameGrown DEF vars, Same
<1> QED BY <1>1, <1>2, <1>3, <1>4 DEF Next

\* A step counts one upset, or none.
LEMMA OneUpset ==
  ASSUME Orderly, IInv, SInv, [Next]_vars
  PROVE  upsets' = upsets \/ \E f \in UpsetKinds : Upset(f)
<1> DEFINE one == upsets' = upsets \/ \E f \in UpsetKinds : Upset(f)
<1>1. ASSUME NEW th \in Threads, Operation(th) PROVE one
  BY <1>1, Excluded DEF Operation, Start, Reuse, TokenizeNew, RestoreHit, RestoreMiss, Save, Begin
<1>2. ASSUME NEW th \in Threads, Step(th) PROVE one
  <2>1. Enter(th) \/ EnterLoad(th) \/ Pass(th) \/ PassLoad(th) => one
    BY DEF Enter, EnterLoad, Pass, PassLoad, UpsetKinds
  <2>2. CASE SweepNothing(th) \/ Load(th) \/ Sync(th)
    BY <2>1, <2>2 DEF SweepNothing, Load, Sync, UpsetKinds
  <2>3. CASE ~(SweepNothing(th) \/ Load(th) \/ Sync(th))
    BY <1>2, <2>3, Excluded DEF Step, MintFound, MintNew, AppendLine, Return, Payload,
       WriteBak, WriteMain, RemoveTombstone, Truncate
  <2> QED BY <2>2, <2>3
<1>3. ASSUME Environment PROVE one
  BY <1>3, Excluded DEF Environment, CrashTorn, Crash, Damage, LoseMain, Harm, UpsetKinds
<1>4. CASE UNCHANGED vars
  BY <1>4 DEF vars
<1> QED BY <1>1, <1>2, <1>3, <1>4 DEF Next

\* The copies are not harmed again once they have been harmed as often as they may.
LEMMA ColdCounts ==
  ASSUME Orderly, IInv, SInv, [Next]_vars
  PROVE  /\ upsets["cold"] \in Nat /\ upsets'["cold"] >= upsets["cold"]
         /\ Upset("cold") => upsets["cold"] < Budget["cold"] /\ upsets'["cold"] >= 1
<1>1. /\ upsets \in [UpsetKinds -> Nat] /\ "cold" \in UpsetKinds
  BY DEF IInv, HistoryInv, UpsetKinds
<1>2. \A f \in UpsetKinds : Upset(f) =>
        upsets'["cold"] = (IF f = "cold" THEN upsets["cold"] + 1 ELSE upsets["cold"])
  BY <1>1 DEF Upset
<1>3. upsets["cold"] \in Nat /\ (Upset("cold") => upsets["cold"] < Budget["cold"])
  BY <1>1 DEF Upset
<1> QED BY <1>1, <1>2, <1>3, OneUpset

-----------------------------------------------------------------------------
(* What the reader has found.                                              *)

PairsOf(rs) == {PairOf(r) : r \in rs}

\* Between two reads the reader holds nothing but what is kept, and all that was handed out
\* before it began is kept.  Of a vault it passed over it holds nothing.
ReadInv ==
  /\ at \in {"idle", "main", "bak", "journal", "done"}
  /\ at \in {"main", "bak", "journal"} => listed
  /\ at = "done" /\ ~listed => map = NoTokens
  /\ map \in TokenMap /\ Pairs(map) \subseteq KeptOn(disk)
  /\ before \subseteq [tok : Tokens, val : Values, gen : Gens]
  /\ PairsOf(before) \subseteq KeptOn(disk)

\* The backup is asked only if the snapshot was harmed, and is good then; what a good copy
\* does not hold is in the journal, as long as that is not emptied.
FoundInv ==
  /\ disk.main # None \/ at = "main" => disk.bak # None
  /\ upsets["cold"] = 0 =>
       (disk.main = None \/ Intact(disk.main)) /\ (at = "main" => Intact(disk.main))
  /\ at = "bak" => Intact(disk.bak) /\ upsets["cold"] >= 1
  /\ at = "journal" /\ ~emptied => PairsOf(before) \subseteq Pairs(map) \cup JournalPairs(disk)
  /\ at = "done" /\ ~emptied /\ listed => PairsOf(before) \subseteq Pairs(map)

\* At most one copy is harmed in all.
OneHarm == Budget["cold"] <= 1

\* A copy that the reader can read is good, and holds what is not in the journal.
LEMMA CopyRead ==
  ASSUME Orderly, IInv, SInv, NEW s \in {disk.main, disk.bak}
  PROVE  /\ Readable(Reader, s) <=> Intact(s)
         /\ Intact(s) => /\ s.t2r \in TokenMap /\ Pairs(s.t2r) \subseteq KeptOn(disk)
                         /\ KeptOn(disk) \subseteq Pairs(s.t2r) \cup JournalPairs(disk)
<1>1. /\ Reader \in Procs /\ OneKeyForAll /\ GoodFiles(disk) /\ Sound(disk)
      /\ Ours(Reader, disk) /\ NoKey # None /\ KeyOf[Reader] # None
  BY ReaderAssumption, DiskGood, ConstantsAssumption
     DEF Orderly, OneKeyForAll, IInv, FilesInv, SInv, FilesSound, Sound
<1>2. Intact(s) => s.t2r \in TokenMap /\ Readable(Reader, s)
  BY <1>1, GoodCopy
<1>3. Readable(Reader, s) => Intact(s)
  BY <1>1 DEF Readable, Intact
<1>4. Intact(s) => CopyPairs(s) = Pairs(s.t2r)
  BY DEF CopyPairs
<1>5. Intact(s) => /\ CopyPairs(s) \subseteq KeptOn(disk)
                   /\ KeptOn(disk) \subseteq CopyPairs(s) \cup JournalPairs(disk)
  BY <1>1 DEF Sound, KeptOn
<1> QED BY <1>2, <1>3, <1>4, <1>5

\* No line hides the others, and the reader then knows what it knew and what they say.
LEMMA LinesRead ==
  ASSUME Orderly, IInv, SInv, ReadInv, ReadLines
  PROVE  map' \in TokenMap /\ Pairs(map') = Pairs(map) \cup JournalPairs(disk)
<1> DEFINE new == JournalTokens(Reader, disk, 0)
           m == [NewMemory EXCEPT !.t2r = map]
<1>1. /\ Reader \in Procs /\ GoodFiles(disk) /\ Ours(Reader, disk) /\ KeyOf[Reader] # None
      /\ OneToOne(KeptOn(disk)) /\ disk.journal \in Seq(Entry)
  BY ReaderAssumption, DiskGood
     DEF Orderly, OneKeyForAll, IInv, FilesInv, SInv, FilesSound, Sound, GoodFiles
<1>2. JournalPairs(disk) \subseteq KeptOn(disk) /\ OneToOne(JournalPairs(disk))
  BY <1>1, FewerOneToOne DEF KeptOn
<1>3. new \in TokenMap /\ Pairs(new) = JournalPairs(disk)
  <2>1. Pairs(new) = LinePairs(disk.journal, 0 + 1 .. Len(disk.journal))
    BY <1>1, <1>2, JournalTokensPairs
  <2> QED BY <1>1, <2>1, JournalTokensType DEF JournalPairs, ReadTo
<1>4. map' = WithJournal(new)
  <2>1. DOMAIN disk.journal = 1 .. Len(disk.journal)
    BY <1>1
  <2>2. ~\E i \in DOMAIN disk.journal : LineLocked(Reader, disk.journal[i])
    BY <1>1, <2>1, OursLegible
  <2> QED BY <2>2 DEF ReadLines
<1> HIDE DEF new
<1>5. m \in Memory /\ m.t2r = map
  BY NewMemoryGood DEF ReadInv, Memory
<1> HIDE DEF m
<1>6. WithJournal(new) = Merge(m, new, NoCounts).t2r
  BY <1>5 DEF WithJournal, Merge, Memory
<1>7. OneToOne(Pairs(m.t2r) \cup Pairs(new))
  BY <1>1, <1>2, <1>3, <1>5, FewerOneToOne DEF ReadInv
<1>8. Pairs(WithJournal(new)) = Pairs(map) \cup Pairs(new)
  BY <1>3, <1>5, <1>6, <1>7, MergePairs
<1>9. WithJournal(new) \in TokenMap
  BY <1>3 DEF WithJournal, TokenMap, ReadInv
<1> QED BY <1>3, <1>4, <1>8, <1>9

LEMMA NothingRead == NoTokens \in TokenMap /\ Pairs(NoTokens) = {}
BY ConstantsAssumption DEF Pairs, NoTokens, TokenMap

\* What one candidate gives: its map if it is good, or what was there.
LEMMA CandidateRead ==
  ASSUME Orderly, IInv, SInv, ReadInv, NEW s \in {disk.main, disk.bak}, ReadCopy(s)
  PROVE  /\ map' \in TokenMap /\ Pairs(map') \subseteq KeptOn(disk)
         /\ Intact(s) => /\ at' = "journal"
                         /\ KeptOn(disk) \subseteq Pairs(map') \cup JournalPairs(disk)
         /\ ~Intact(s) => at' = (IF at = "main" THEN "bak" ELSE "journal")
BY CopyRead DEF ReadCopy, ReadInv

-----------------------------------------------------------------------------
(* The reader's invariants hold.                                           *)

LEMMA ReadInvInit == ReadInit => ReadInv
BY NothingRead DEF ReadInit, ReadInv, PairsOf

LEMMA ReadInvNext ==
  ASSUME Orderly, IInv, SInv, ReadInv, [ReadNext]_<<vars, readVars>>
  PROVE  ReadInv'
<1>1. CASE Look
  <2>1. /\ disk' = disk /\ map' = NoTokens /\ before' = issued
        /\ \/ at' = "main" /\ listed'
           \/ at' = "done"
    BY <1>1 DEF Look, vars
  <2>2. PairsOf(issued) \subseteq KeptOn(disk)
    BY DEF SInv, IssuedKept, KeepsAll, PairsOf
  <2> QED BY <2>1, <2>2, NothingRead DEF ReadInv, IInv, HistoryInv, PairsOf
<1>2. CASE ReadMain \/ ReadBak
  <2>1. /\ disk' = disk /\ before' = before /\ at' \in {"bak", "journal"}
        /\ at \in {"main", "bak"} /\ listed' = listed
        /\ \E s \in {disk.main, disk.bak} : ReadCopy(s)
    BY <1>2 DEF ReadMain, ReadBak, ReadCopy, vars
  <2>2. map' \in TokenMap /\ Pairs(map') \subseteq KeptOn(disk)
    BY <2>1, CandidateRead
  <2> QED BY <2>1, <2>2 DEF ReadInv
<1>3. CASE ReadLines
  <2>1. /\ disk' = disk /\ before' = before /\ at' = "done"
        /\ at = "journal" /\ listed' = listed
    BY <1>3 DEF ReadLines, vars
  <2>2. map' \in TokenMap /\ Pairs(map') = Pairs(map) \cup JournalPairs(disk)
    BY <1>3, LinesRead
  <2> QED BY <2>1, <2>2 DEF ReadInv, KeptOn
<1>4. CASE Write \/ UNCHANGED <<vars, readVars>>
  <2>1. [Next]_vars /\ UNCHANGED <<at, map, before, listed>>
    BY <1>4 DEF Write, readVars
  <2>2. KeptOn(disk) \subseteq KeptOn(disk')
    BY <2>1, NextGrows DEF Grown
  <2> QED BY <2>1, <2>2 DEF ReadInv
<1> QED BY <1>1, <1>2, <1>3, <1>4 DEF ReadNext, Read

LEMMA FoundInvInit == ReadInit => FoundInv
BY DEF ReadInit, Init, FoundInv

LEMMA FoundInvNext ==
  ASSUME Orderly, OneHarm, IInv, SInv, ReadInv, FoundInv, [ReadNext]_<<vars, readVars>>
  PROVE  FoundInv'
<1>1. CASE Look
  <2>1. /\ disk' = disk /\ upsets' = upsets
        /\ \/ at' = "done" /\ ~listed'
           \/ at' = "main" /\ disk.main # None
    BY <1>1 DEF Look, vars
  <2> QED BY <2>1 DEF FoundInv, PairsOf
<1>2. CASE ReadMain
  <2>1. /\ at = "main" /\ ReadCopy(disk.main) /\ disk' = disk /\ upsets' = upsets
        /\ before' = before /\ emptied' = emptied
    BY <1>2 DEF ReadMain, vars
  <2>2. CASE Intact(disk.main)
    BY <2>1, <2>2, CandidateRead DEF FoundInv, ReadInv
  <2>3. CASE ~Intact(disk.main)
    <3>1. at' = "bak"
      BY <2>1, <2>3, CandidateRead
    <3>2. disk.bak # None /\ upsets["cold"] # 0 /\ upsets["cold"] \in Nat
      BY <2>1, <2>3 DEF FoundInv, IInv, HistoryInv, UpsetKinds
    <3>3. Intact(disk.bak)
      BY <2>3, <3>2 DEF SInv, FilesSound, Sound
    <3> QED BY <2>1, <3>1, <3>2, <3>3 DEF FoundInv
  <2> QED BY <2>2, <2>3
<1>3. CASE ReadBak
  <2>1. /\ at = "bak" /\ ReadCopy(disk.bak) /\ disk' = disk /\ upsets' = upsets
        /\ before' = before /\ emptied' = emptied /\ Intact(disk.bak)
    BY <1>3 DEF ReadBak, FoundInv, vars
  <2> QED BY <2>1, CandidateRead DEF FoundInv, ReadInv
<1>4. CASE ReadLines
  <2>1. /\ at = "journal" /\ at' = "done" /\ disk' = disk /\ upsets' = upsets
        /\ before' = before /\ emptied' = emptied /\ listed' = listed
    BY <1>4 DEF ReadLines, vars
  <2>2. Pairs(map') = Pairs(map) \cup JournalPairs(disk)
    BY <1>4, LinesRead
  <2> QED BY <2>1, <2>2 DEF FoundInv
<1>5. CASE Write \/ UNCHANGED <<vars, readVars>>
  <2>1. [Next]_vars /\ UNCHANGED <<at, map, before, listed>>
    BY <1>5 DEF Write, readVars
  <2>2. Grown(disk, disk') /\ (Unspoilt(disk, disk') \/ Upset("cold"))
    BY <2>1, NextGrows
  <2>3. /\ upsets["cold"] \in Nat /\ upsets'["cold"] >= upsets["cold"] /\ upsets'["cold"] \in Nat
        /\ Upset("cold") => upsets["cold"] = 0 /\ upsets'["cold"] >= 1
    BY <2>1, ColdCounts, ConstantsAssumption, NextInv
       DEF OneHarm, UpsetKinds, IInv, HistoryInv
  <2>4. at = "journal" /\ ~emptied' =>
          ~emptied /\ JournalPairs(disk) \subseteq JournalPairs(disk')
    BY <1>5, <2>2 DEF Write, Grown, readVars, vars
  <2>5. at = "done" /\ ~emptied' => ~emptied
    BY <1>5 DEF Write, readVars
  <2>6. disk'.main # None \/ at = "main" => disk'.bak # None
    BY <2>2 DEF FoundInv, Grown
  <2>7. upsets'["cold"] = 0 =>
          (disk'.main = None \/ Intact(disk'.main)) /\ (at = "main" => Intact(disk'.main))
    BY <2>2, <2>3 DEF FoundInv, Unspoilt
  <2>8. at = "bak" => Intact(disk'.bak) /\ upsets'["cold"] >= 1
    BY <2>2, <2>3 DEF FoundInv, Unspoilt
  <2> QED BY <2>1, <2>4, <2>5, <2>6, <2>7, <2>8 DEF FoundInv
<1> QED BY <1>1, <1>2, <1>3, <1>4, <1>5 DEF ReadNext, Read

-----------------------------------------------------------------------------
(* The theorems.                                                           *)

\* The vault with its reader is the vault: what holds of the one holds of the other.
LEMMA ReaderRefines == ReadSpec => Spec
<1>1. ReadInit => Init
  BY DEF ReadInit
<1>2. [ReadNext]_<<vars, readVars>> => [Next]_vars
  BY DEF ReadNext, Read, Look, ReadMain, ReadBak, ReadLines, Write
<1> QED BY <1>1, <1>2, PTL DEF ReadSpec, Spec

\* The reader holds only what is kept, wherever the writers are.
THEOREM ReaderHoldsTheKept == Orderly => (ReadSpec => []ReadInv)
<1>1. SUFFICES ASSUME Orderly PROVE ReadSpec => []ReadInv
  OBVIOUS
<1>2. IInv /\ SInv /\ ReadInv /\ [ReadNext]_<<vars, readVars>> => ReadInv'
  BY <1>1, ReadInvNext
<1>3. ReadSpec => []IInv /\ []SInv
  BY <1>1, ReaderRefines, Invariance, StoreInvariance, PTL
<1> QED BY <1>2, <1>3, ReadInvInit, PTL DEF ReadSpec

\* A script sends no token as another value than the one it was handed out for, although it
\* takes no lock and reads the snapshot and the journal at different times: a token stands
\* for one value in all that is kept (egress.py:56-80).
THEOREM SentAsHandedOut == Orderly => (ReadSpec => []EgressFaithful)
<1>1. SUFFICES ASSUME Orderly PROVE ReadSpec => []EgressFaithful
  OBVIOUS
<1>2. IInv /\ SInv /\ ReadInv => EgressFaithful
  <2>1. SUFFICES ASSUME IInv, SInv, ReadInv, NEW r \in issued, map[r.tok] # None
                 PROVE  map[r.tok] = r.val
    BY DEF EgressFaithful
  <2> DEFINE v == map[r.tok]
             found == <<r.tok, v>>
  <2>2. r.tok \in Tokens /\ PairOf(r)[1] = r.tok /\ PairOf(r)[2] = r.val
    BY <2>1 DEF IInv, HistoryInv, PairOf
  <2>3. found \in KeptOn(disk)
    BY <2>1, <2>2, PairIn DEF ReadInv
  <2>4. PairOf(r) \in KeptOn(disk) /\ OneToOne(KeptOn(disk))
    BY <2>1 DEF SInv, IssuedKept, KeepsAll, FilesSound, Sound
  <2>5. found[1] = r.tok /\ found[2] = v
    OBVIOUS
  <2> HIDE DEF found, v
  <2> QED BY <2>2, <2>3, <2>4, <2>5 DEF OneToOne, v
<1>3. ReadSpec => []IInv /\ []SInv
  BY <1>1, ReaderRefines, Invariance, StoreInvariance, PTL
<1> QED BY <1>1, <1>2, <1>3, ReaderHoldsTheKept, PTL

\* If the vault has a snapshot and no tombstone when a script looks, the script finds every
\* value handed out until then: a writer empties the journal only after both copies hold what
\* was in it, and the backup is good when the snapshot is not, if only one copy is ever
\* harmed.  Of a vault whose snapshot is lost or not yet written it finds nothing, whatever
\* the backup and the journal hold: only *.json is looked for (egress.py:56-80).
THEOREM SentInFull == Orderly /\ OneHarm => (ReadSpec => []EgressComplete)
<1>1. SUFFICES ASSUME Orderly, OneHarm PROVE ReadSpec => []EgressComplete
  OBVIOUS
<1>2. IInv /\ SInv /\ ReadInv /\ FoundInv /\ [ReadNext]_<<vars, readVars>> => FoundInv'
  BY <1>1, FoundInvNext
<1>3. ReadInv /\ FoundInv => EgressComplete
  <2>1. SUFFICES ASSUME ReadInv, FoundInv, at = "done", ~emptied, listed, NEW r \in before
                 PROVE  map[r.tok] # None
    BY DEF EgressComplete, ReadInv
  <2>2. PairOf(r) \in Pairs(map)
    BY <2>1 DEF FoundInv, PairsOf
  <2>3. r.tok \in Tokens /\ r.val \in Values /\ r.val # None
    BY <2>1, ConstantsAssumption DEF ReadInv
  <2>4. map[r.tok] = r.val
    BY <2>1, <2>2, <2>3, PairIn DEF ReadInv, PairOf
  <2> QED BY <2>3, <2>4
<1>4. ReadSpec => []IInv /\ []SInv
  BY <1>1, ReaderRefines, Invariance, StoreInvariance, PTL
<1> QED BY <1>1, <1>2, <1>3, <1>4, FoundInvInit, ReaderHoldsTheKept, PTL DEF ReadSpec

===============================================================================
