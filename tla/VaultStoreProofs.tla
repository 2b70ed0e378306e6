--------------------------- MODULE VaultStoreProofs ---------------------------
(***************************************************************************)
(* What the vault promises to those who use it, for any number of          *)
(* processes, values and lifetimes, and any number of kills, torn lines    *)
(* and harmed copies: everything handed out is kept, stands for one value, *)
(* and is found again.                                                     *)
(***************************************************************************)
EXTENDS DurableVaultProofs

-----------------------------------------------------------------------------
(* The assumptions.                                                        *)

\* One key for all, or none; lines are torn in a plaintext journal only.
OneKeyForAll ==
  /\ \A p, q \in Procs : KeyOf[p] = KeyOf[q]
  /\ \A p \in Procs : KeyOf[p] \notin {BadKey, None} /\ (KeyOf[p] # NoKey => Budget["torn"] = 0)

\* The lock is had in time, no write raises, nothing is dropped, and files are harmed only
\* while no process runs.  Kills, torn lines and harm happen as often as they like.
Orderly ==
  /\ OneCallEach /\ OneKeyForAll
  /\ \A f \in {"torn_whole", "write", "timeout", "damage", "clear", "age"} : Budget[f] = 0

-----------------------------------------------------------------------------
(* What is kept.                                                           *)

Pairs(t2r) == {x \in Tokens \X Values : t2r[x[1]] = x[2]}

LinePairs(lines, some) ==
  {<<lines[i].tok, lines[i].val>> : i \in {n \in some : lines[n].tok # None}}

CopyPairs(s) == IF Intact(s) THEN Pairs(s.t2r) ELSE {}

ReadTo(d, n) == LinePairs(d.journal, 1 .. n)
JournalPairs(d) == ReadTo(d, Len(d.journal))
KeptOn(d) == CopyPairs(d.main) \cup CopyPairs(d.bak) \cup JournalPairs(d)

\* A token for one value, and a value for one token.
OneToOne(pairs) == \A x, y \in pairs : x[1] = y[1] <=> x[2] = y[2]

\* The mapping that a thread has minted and not yet written.
Pending(th) == IF pc[th] = "append" THEN {<<job[th].tok, job[th].val>>} ELSE {}
Own(p) == UNION {Pending(th) : th \in {x \in Threads : ProcOf[x] = p}}

-----------------------------------------------------------------------------
(* The invariant.                                                          *)

Compacting == {"compact", "bak", "main", "uncleared", "truncate"}
Holding == Compacting \cup {"mint", "append", "return"}

\* Of what the assumptions exclude nothing happens.
Quiet == ~disk.idle /\ disk.cleared = None

\* A process that is down does nothing, and one that boots does nothing else.
Living(life, at, kind) ==
  /\ at \in {"idle", "sweep", "load", "sync"} \cup Holding
  /\ life = "down" => at = "idle"
  /\ life = "boot" => at \in {"sweep", "load"} \cup Compacting /\ kind = "boot"
  /\ at \in {"sweep", "load"} => life = "boot"

Unloaded(p) == up[p] = "down" \/ \E th \in Threads : ProcOf[th] = p /\ pc[th] \in {"sweep", "load"}

\* The files are written with p's key.
LineOurs(p, line) == line.key = KeyOf[p] /\ (line.tok = None => KeyOf[p] = NoKey)
LinesOurs(p, lines) == \A i \in 1 .. Len(lines) : LineOurs(p, lines[i])

Ours(p, d) ==
  /\ LinesOurs(p, d.journal)
  /\ d.torn # None => d.torn.tok = None /\ LineOurs(p, d.torn)
  /\ \A s \in {d.main, d.bak} :
       IsFile(s) => s.key = KeyOf[p] \/ (s.key = None /\ KeyOf[p] # NoKey)

\* At most one copy is bad, and each good one holds, with the journal, all that is kept.
Sound(d) ==
  /\ \A p \in Procs : Ours(p, d)
  /\ d.main = None \/ Intact(d.main) \/ Intact(d.bak)
  /\ d.bak = None \/ Intact(d.bak) \/ Intact(d.main)
  /\ OneToOne(KeptOn(d))
  /\ \A s \in {d.main, d.bak} : Intact(s) => KeptOn(d) \subseteq CopyPairs(s) \cup JournalPairs(d)

\* A bad snapshot is there only while no process has loaded.
BadMain(d) == d.main # None /\ ~Intact(d.main)
FilesSound == Sound(disk) /\ (BadMain(disk) => \A p \in Procs : Unloaded(p))

\* m knows the token of every value it can restore.
Complete(m) == \A x \in Pairs(m.t2r) : m.r2t[x[2]] # None

\* m has read the journal up to its offset.
Follows(m, d) == m.joff <= Len(d.journal) /\ ReadTo(d, m.joff) \subseteq Pairs(m.t2r)

\* m knows nothing but what is kept and what its process is about to write, and if the
\* snapshot is the one it has read, all of that and of the journal up to its offset.
Knowing(m, d, own) ==
  /\ ~m.memOnly /\ ~m.dirty /\ Complete(m)
  /\ Pairs(m.t2r) \subseteq KeptOn(d) \cup own
  /\ m.seen # "none" => Intact(d.main)
  /\ m.seen = "fresh" =>
       m.gen = d.main.gen /\ CopyPairs(d.main) \subseteq Pairs(m.t2r) /\ Follows(m, d)

\* Without a snapshot all that is kept is in the journal, once a process is up.
NoCopy(life, m, d) ==
  d.main = None /\ life = "up" => Follows(m, d) /\ KeptOn(d) \subseteq JournalPairs(d)

Knows(p) ==
  /\ Knowing(mem[p], disk, Own(p)) /\ NoCopy(up[p], mem[p], disk)
  /\ Unloaded(p) => mem[p] = NewMemory

\* Where a thread with the lock is: it knows all that is kept, a token it carries belongs to
\* its process's lifetime and is written unless it is about to be, and the snapshot it
\* writes holds all that is kept.
Doing(at, j, m, r, d) ==
  LET pair == <<j.tok, j.val>> IN
  /\ KeptOn(d) \subseteq Pairs(m.t2r) /\ m.joff = Len(d.journal)
  /\ at = "mint" => j.tok = None
  /\ at = "append" => pair \in Pairs(m.t2r) /\ OneToOne(KeptOn(d) \cup {pair})
  /\ j.tok # None => j.gen = m.gen /\ (at # "append" => pair \in KeptOn(d))
  /\ at \in {"bak", "main", "uncleared", "truncate"} =>
       Intact(r) /\ r.gen = m.gen /\ Pairs(r.t2r) = KeptOn(d) /\ \A p \in Procs : r.key = KeyOf[p]
  /\ at \in {"main", "uncleared", "truncate"} => d.bak = r
  /\ at \in {"uncleared", "truncate"} => d.main = r

Does(th) ==
  /\ Living(up[ProcOf[th]], pc[th], job[th].kind)
  /\ pc[th] \in {"sweep", "load", "sync"} => job[th].tok = None
  /\ pc[th] \in Holding =>
       holder = th /\ Doing(pc[th], job[th], mem[ProcOf[th]], raw[th], disk)
  /\ pc[th] \in {"uncleared", "truncate"} =>
       \A q \in Procs \ {ProcOf[th]} : mem[q].seen # "fresh"

PairOf(r) == <<r.tok, r.val>>
KeepsAll(d, handed) == \A r \in handed : PairOf(r) \in KeptOn(d)
IssuedKept == KeepsAll(disk, issued)

SInv ==
  /\ Quiet /\ FilesSound /\ IssuedKept
  /\ \A p \in Procs : Knows(p)
  /\ \A th \in Threads : Does(th)

-----------------------------------------------------------------------------
(* Lemmas: the pairs of maps and journals.                                 *)

LEMMA PairIn ==
  ASSUME NEW t2r \in TokenMap, NEW t, NEW v
  PROVE  /\ <<t, v>> \in Pairs(t2r) <=> t \in Tokens /\ v \in Values /\ t2r[t] = v
         /\ t \in Tokens /\ t2r[t] # None => <<t, t2r[t]>> \in Pairs(t2r)
BY DEF Pairs, TokenMap

\* Pairs that are one to one stay so when there are fewer.
LEMMA FewerOneToOne ==
  ASSUME NEW S, NEW T, T \subseteq S, OneToOne(S) PROVE OneToOne(T)
BY DEF OneToOne

\* Merging a map that agrees with ours gives the pairs of both.
LEMMA MergePairs ==
  ASSUME NEW m \in Memory, NEW t2r \in TokenMap, NEW ctr,
         OneToOne(Pairs(m.t2r) \cup Pairs(t2r))
  PROVE  Pairs(Merge(m, t2r, ctr).t2r) = Pairs(m.t2r) \cup Pairs(t2r)
<1> DEFINE new == Merge(m, t2r, ctr).t2r
<1>1. /\ m.t2r \in TokenMap
      /\ new = [t \in Tokens |-> IF m.t2r[t] # None THEN m.t2r[t] ELSE t2r[t]]
  BY DEF Merge, Memory
<1> HIDE DEF new
<1>2. new \in TokenMap
  BY <1>1 DEF TokenMap
<1>3. ASSUME NEW t \in Tokens, NEW v \in Values
      PROVE  new[t] = v <=> m.t2r[t] = v \/ t2r[t] = v
  <2>1. v # None
    BY ConstantsAssumption
  <2>2. ASSUME m.t2r[t] # None, t2r[t] = v PROVE m.t2r[t] = v
    <3>1. <<t, m.t2r[t]>> \in Pairs(m.t2r) /\ <<t, v>> \in Pairs(t2r)
      BY <1>1, <2>2, PairIn
    <3> QED BY <3>1 DEF OneToOne
  <2> QED BY <1>1, <2>1, <2>2
<1> QED BY <1>3 DEF Pairs, new

\* Merging fills the reverse map.
LEMMA MergeComplete ==
  ASSUME NEW m \in Memory, NEW t2r \in TokenMap, NEW ctr, Complete(m)
  PROVE  Complete(Merge(m, t2r, ctr))
<1> DEFINE n == Merge(m, t2r, ctr)
           new(v) == {t \in Tokens : m.t2r[t] = None /\ t2r[t] = v}
<1>1. /\ n.t2r = [t \in Tokens |-> IF m.t2r[t] # None THEN m.t2r[t] ELSE t2r[t]]
      /\ n.r2t = [v \in Values |-> IF m.r2t[v] # None THEN m.r2t[v] ELSE AnyOf(new(v))]
  BY DEF Merge, Memory
<1> HIDE DEF n
<1>2. SUFFICES ASSUME NEW t \in Tokens, NEW v \in Values, n.t2r[t] = v PROVE n.r2t[v] # None
  BY DEF Complete, Pairs, n
<1>3. CASE m.t2r[t] # None
  <2>1. <<t, v>> \in Pairs(m.t2r)
    BY <1>1, <1>2, <1>3 DEF Pairs
  <2> QED BY <1>1, <2>1 DEF Complete
<1>4. CASE m.t2r[t] = None
  <2>1. t \in new(v)
    BY <1>1, <1>2, <1>4
  <2>2. AnyOf(new(v)) # None
    <3>1. None \notin Tokens /\ AnyOf(new(v)) \in new(v)
      BY <2>1, ConstantsAssumption DEF AnyOf, Tokens, Numbers
    <3> QED BY <3>1
  <2> QED BY <1>1, <2>2
<1> QED BY <1>3, <1>4

\* Swapping in another map fills the reverse map, too.
Swapped(n, m, t2r) ==
  n.t2r = t2r /\ Complete(n) /\ ~n.dirty /\ n.memOnly = m.memOnly /\ n.joff = 0

LEMMA SwapInPairs ==
  ASSUME NEW m \in Memory, NEW t2r \in TokenMap, NEW ctr, NEW gen
  PROVE  Swapped(SwapIn(m, t2r, ctr, gen, TRUE), m, t2r)
<1> DEFINE n == SwapIn(m, t2r, ctr, gen, TRUE)
<1>1. /\ n.t2r = t2r /\ ~n.dirty /\ n.memOnly = m.memOnly /\ n.joff = 0
      /\ n.r2t = [v \in Values |-> AnyOf({t \in Tokens : t2r[t] = v})]
  BY DEF SwapIn, Memory
<1>2. ASSUME NEW t \in Tokens, NEW v \in Values, t2r[t] = v
      PROVE  AnyOf({s \in Tokens : t2r[s] = v}) # None
  <2>1. None \notin Tokens /\ AnyOf({s \in Tokens : t2r[s] = v}) \in Tokens
    BY <1>2, ConstantsAssumption DEF AnyOf, Tokens, Numbers
  <2> QED BY <2>1
<1> HIDE DEF n
<1>3. Complete(n)
  BY <1>1, <1>2 DEF Complete, Pairs
<1>4. Swapped(n, m, t2r)
  BY <1>1, <1>3 DEF Swapped
<1> QED BY <1>4 DEF n

\* Journals: the pairs of two stretches, of a longer stretch, of a journal with one more line.
LEMMA LinesTogether ==
  ASSUME NEW lines, NEW S, NEW T
  PROVE  /\ LinePairs(lines, S \cup T) = LinePairs(lines, S) \cup LinePairs(lines, T)
         /\ S \subseteq T => LinePairs(lines, S) \subseteq LinePairs(lines, T)
BY DEF LinePairs

LEMMA ReadOn ==
  ASSUME NEW d, d.journal \in Seq(Entry), NEW n \in Nat, n <= Len(d.journal)
  PROVE  JournalPairs(d) = ReadTo(d, n) \cup LinePairs(d.journal, n + 1 .. Len(d.journal))
<1>1. 1 .. Len(d.journal) = (1 .. n) \cup (n + 1 .. Len(d.journal))
  OBVIOUS
<1> QED BY <1>1, LinesTogether DEF JournalPairs, ReadTo

\* e has one line more than d.
LEMMA OneLineMore ==
  ASSUME NEW d, d.journal \in Seq(Entry), NEW line \in Entry,
         NEW e, e.journal = Append(d.journal, line)
  PROVE  /\ Len(e.journal) = Len(d.journal) + 1
         /\ \A n \in Nat : n <= Len(d.journal) => ReadTo(e, n) = ReadTo(d, n)
         /\ JournalPairs(e) = JournalPairs(d)
              \cup (IF line.tok = None THEN {} ELSE {<<line.tok, line.val>>})
<1>1. /\ Len(e.journal) = Len(d.journal) + 1
      /\ \A i \in 1 .. Len(d.journal) : e.journal[i] = d.journal[i]
      /\ e.journal[Len(d.journal) + 1] = line
  OBVIOUS
<1>2. ASSUME NEW n \in Nat, n <= Len(d.journal) PROVE ReadTo(e, n) = ReadTo(d, n)
  <2>1. \A i \in 1 .. n : e.journal[i] = d.journal[i]
    BY <1>1, <1>2
  <2> QED BY <2>1 DEF ReadTo, LinePairs
<1>3. ReadTo(e, Len(d.journal)) = JournalPairs(d)
  BY <1>2 DEF JournalPairs
<1>4. 1 .. Len(e.journal) = (1 .. Len(d.journal)) \cup {Len(d.journal) + 1}
  BY <1>1
<1>5. JournalPairs(e) = ReadTo(e, Len(d.journal)) \cup LinePairs(e.journal, {Len(d.journal) + 1})
  <2> DEFINE old == 1 .. Len(d.journal)
             last == {Len(d.journal) + 1}
  <2>1. JournalPairs(e) = LinePairs(e.journal, old \cup last)
    BY <1>4 DEF JournalPairs, ReadTo
  <2> HIDE DEF last
  <2> QED BY <2>1, LinesTogether DEF ReadTo, last
<1>6. LinePairs(e.journal, {Len(d.journal) + 1}) =
        IF line.tok = None THEN {} ELSE {<<line.tok, line.val>>}
  BY <1>1 DEF LinePairs
<1> QED BY <1>1, <1>2, <1>3, <1>5, <1>6

\* Every line with a mapping is one that p reads, and none locks p out.
LEMMA OursLegible ==
  ASSUME NEW p \in Procs, NEW d, d.journal \in Seq(Entry), Ours(p, d), KeyOf[p] # None
  PROVE  \A i \in 1 .. Len(d.journal) :
           /\ Legible(p, d.journal[i]) <=> d.journal[i].tok # None
           /\ ~LineLocked(p, d.journal[i])
BY DEF Ours, LinesOurs, LineOurs, Legible, LineLocked

\* What a process takes from the journal are the pairs of the lines it has not read.
LEMMA JournalTokensPairs ==
  ASSUME NEW p \in Procs, NEW d, GoodFiles(d), Ours(p, d), KeyOf[p] # None, NEW from \in Nat,
         OneToOne(JournalPairs(d))
  PROVE  Pairs(JournalTokens(p, d, from)) = LinePairs(d.journal, from + 1 .. Len(d.journal))
<1> DEFINE all == from + 1 .. Len(d.journal)
           lines(t) == {i \in LinesFrom(p, d, from) : d.journal[i].tok = t}
           map == JournalTokens(p, d, from)
<1>1. d.journal \in Seq(Entry) /\ Len(d.journal) \in Nat
  BY DEF GoodFiles
<1>2. all \subseteq 1 .. Len(d.journal)
  BY <1>1
<1>3. LinesFrom(p, d, from) = {i \in all : d.journal[i].tok # None}
  BY <1>1, <1>2, OursLegible DEF LinesFrom
<1>4. \A i \in LinesFrom(p, d, from) :
        i \in Nat /\ d.journal[i].tok \in Tokens /\ d.journal[i].val \in Values
  BY LinesFromGood
<1>5. map = [t \in Tokens |-> IF lines(t) = {} THEN None ELSE d.journal[Min(lines(t))].val]
  BY DEF JournalTokens
<1>6. LinePairs(d.journal, all) = {<<d.journal[i].tok, d.journal[i].val>> : i \in LinesFrom(p, d, from)}
  BY <1>3 DEF LinePairs
<1>7. LinePairs(d.journal, all) \subseteq JournalPairs(d)
  BY <1>2 DEF JournalPairs, ReadTo, LinePairs
<1>8. LinePairs(d.journal, all) \subseteq Tokens \X Values
  BY <1>4, <1>6
<1> HIDE DEF map
<1>9. ASSUME NEW t \in Tokens, NEW v \in Values
      PROVE  map[t] = v <=> <<t, v>> \in LinePairs(d.journal, all)
  <2>1. lines(t) \in SUBSET Nat
    BY <1>4
  <2>2. ASSUME lines(t) # {}
        PROVE  <<t, map[t]>> \in LinePairs(d.journal, all)
    <3>1. Min(lines(t)) \in lines(t)
      <4> HIDE DEF lines
      <4> QED BY <2>1, <2>2, MinOfNats
    <3>2. map[t] = d.journal[Min(lines(t))].val
      BY <1>5, <2>2
    <3> QED BY <1>6, <3>1, <3>2
  <2>3. <<t, v>> \in LinePairs(d.journal, all) => lines(t) # {}
    BY <1>6
  <2>4. lines(t) = {} => map[t] = None
    BY <1>5
  <2>5. v # None
    BY ConstantsAssumption
  <2>6. \A x, y \in LinePairs(d.journal, all) : x[1] = y[1] <=> x[2] = y[2]
    BY <1>7 DEF OneToOne
  <2> HIDE DEF lines, all
  <2> QED BY <2>2, <2>3, <2>4, <2>5, <2>6
<1> QED BY <1>8, <1>9 DEF Pairs, map

-----------------------------------------------------------------------------
(* Lemmas: what reading the files makes of a process that knows only what  *)
(* is kept.                                                                *)

\* Of the fields a read does not touch, nothing changes.
SameMode(n, m) == n.seen = m.seen /\ n.dirty = m.dirty /\ n.memOnly = m.memOnly

\* The journal's unread lines are added; nothing locks the process out.
LEMMA ReadJournalPairs ==
  ASSUME NEW p \in Procs, NEW m \in Memory, NEW d, GoodFiles(d), Ours(p, d), KeyOf[p] # None,
         NEW g, OneToOne(KeptOn(d)), Pairs(m.t2r) \subseteq KeptOn(d), Complete(m),
         m.joff <= Len(d.journal)
  PROVE  /\ Pairs(ReadJournal(p, m, d, g).t2r)
              = Pairs(m.t2r) \cup LinePairs(d.journal, m.joff + 1 .. Len(d.journal))
         /\ Complete(ReadJournal(p, m, d, g))
         /\ ReadJournal(p, m, d, g).joff = Len(d.journal)
         /\ SameMode(ReadJournal(p, m, d, g), m)
         /\ m.gen # None => ReadJournal(p, m, d, g).gen = m.gen
         /\ ReadJournal(p, m, d, g) \in Memory
<1> DEFINE from == m.joff
           new == JournalTokens(p, d, from)
           merged == Merge(m, new, JournalCounts(p, d, from))
           n == ReadJournal(p, m, d, g)
<1>1. d.journal \in Seq(Entry) /\ from \in Nat /\ Len(d.journal) \in Nat
  BY DEF GoodFiles, Memory
<1>2. ~\E i \in from + 1 .. Len(d.journal) : LineLocked(p, d.journal[i])
  BY <1>1, OursLegible
<1>3. n = [merged EXCEPT
             !.gen = IF @ # None THEN @ ELSE JournalGen(p, d, from),
             !.joff = Len(d.journal),
             !.jlines = Saturated(@ + Cardinality(LinesFrom(p, d, from)))]
  <2> DEFINE start == IF m.joff > Len(d.journal) THEN 0 ELSE m.joff
  <2>1. start = from
    BY <1>1
  <2>2. n = IF \E i \in start + 1 .. Len(d.journal) : LineLocked(p, d.journal[i])
            THEN LockOut([m EXCEPT !.joff = start], g)
            ELSE [Merge(m, JournalTokens(p, d, start), JournalCounts(p, d, start)) EXCEPT
                    !.gen = IF @ # None THEN @ ELSE JournalGen(p, d, start),
                    !.joff = Len(d.journal),
                    !.jlines = Saturated(@ + Cardinality(LinesFrom(p, d, start)))]
    BY DEF ReadJournal
  <2> HIDE DEF start
  <2> QED BY <1>2, <2>1, <2>2
<1>4. OneToOne(JournalPairs(d)) /\ JournalPairs(d) \subseteq KeptOn(d)
  BY FewerOneToOne DEF KeptOn
<1>5. /\ new \in TokenMap
      /\ Pairs(new) = LinePairs(d.journal, from + 1 .. Len(d.journal))
  BY <1>1, <1>4, JournalTokensType, JournalTokensPairs
<1>6. Pairs(new) \subseteq JournalPairs(d)
  BY <1>1, <1>5, ReadOn
<1>7. OneToOne(Pairs(m.t2r) \cup Pairs(new))
  BY <1>4, <1>6, FewerOneToOne
<1>8. JournalCounts(p, d, from) \in Counters
  BY <1>1, JournalCountsType
<1> HIDE DEF new
<1>9. merged \in Memory /\ Pairs(merged.t2r) = Pairs(m.t2r) \cup Pairs(new) /\ Complete(merged)
  BY <1>5, <1>7, <1>8, MergeGood, MergePairs, MergeComplete
<1>10. merged.gen = m.gen /\ SameMode(merged, m)
  BY DEF Merge, Memory, SameMode
<1>12. /\ JournalGen(p, d, from) \in Gens \cup {None}
       /\ Saturated(merged.jlines + Cardinality(LinesFrom(p, d, from))) \in 0 .. CompactEvery
  BY <1>1, <1>9, JournalGenType, LinesCount DEF Memory
<1> HIDE DEF merged, n
<1>13. n \in Memory
  BY <1>1, <1>3, <1>9, <1>12 DEF Memory
<1>11. /\ n.t2r = merged.t2r /\ n.r2t = merged.r2t /\ n.joff = Len(d.journal)
       /\ SameMode(n, merged) /\ (merged.gen # None => n.gen = merged.gen)
  BY <1>3, <1>9 DEF Memory, SameMode
<1> QED BY <1>5, <1>9, <1>10, <1>11, <1>13 DEF Complete, SameMode, n

\* Adopting a good snapshot: a process that knows only what is kept knows that and what the
\* snapshot holds, and is in the snapshot's lifetime.
LEMMA AdoptPairs ==
  ASSUME NEW m \in Memory, NEW s \in Snapshot, NEW S, OneToOne(S),
         Pairs(m.t2r) \subseteq S, Pairs(s.t2r) \subseteq S, Complete(m), ~m.dirty
  PROVE  /\ Pairs(s.t2r) \subseteq Pairs(AdoptSnapshot(m, s).t2r)
         /\ Pairs(AdoptSnapshot(m, s).t2r) \subseteq S
         /\ Complete(AdoptSnapshot(m, s))
         /\ AdoptSnapshot(m, s).gen = s.gen /\ AdoptSnapshot(m, s).seen = "fresh"
         /\ ~AdoptSnapshot(m, s).dirty /\ AdoptSnapshot(m, s).memOnly = m.memOnly
         /\ m.joff = 0 => AdoptSnapshot(m, s).joff = 0
<1> DEFINE conv == IF s.gen # m.gen /\ ~m.joined
                   THEN [m EXCEPT !.gen = s.gen, !.joined = TRUE] ELSE m
           swapped == SwapIn(conv, s.t2r, s.ctr, s.gen, TRUE)
           merged == Merge(conv, s.t2r, s.ctr)
           next == IF s.gen # conv.gen /\ ~conv.dirty THEN swapped ELSE merged
<1>1. s.t2r \in TokenMap /\ s.ctr \in Counters /\ s.gen \in Gens
  BY DEF Snapshot
<1>2. /\ conv \in Memory /\ conv.t2r = m.t2r /\ conv.r2t = m.r2t /\ ~conv.dirty
      /\ conv.memOnly = m.memOnly /\ conv.joff = m.joff
  BY <1>1 DEF Memory
<1>3. AdoptSnapshot(m, s) = [next EXCEPT !.seen = "fresh"]
  BY DEF AdoptSnapshot
<1> HIDE DEF conv
<1>4. /\ swapped \in Memory /\ swapped.t2r = s.t2r /\ Complete(swapped) /\ swapped.gen = s.gen
      /\ ~swapped.dirty /\ swapped.memOnly = conv.memOnly /\ swapped.joff = 0
  <2>1. swapped \in Memory /\ swapped.gen = s.gen
    <3>1. TRUE \in BOOLEAN /\ conv \in Memory
      BY <1>2
    <3> QED BY <1>1, <3>1, SwapInGood, Zenon
  <2>2. Swapped(swapped, conv, s.t2r)
    BY <1>1, <1>2, SwapInPairs
  <2> HIDE DEF swapped
  <2> QED BY <2>1, <2>2 DEF Swapped
<1>5. /\ merged \in Memory /\ Pairs(merged.t2r) = Pairs(m.t2r) \cup Pairs(s.t2r)
      /\ Complete(merged)
  <2>1. OneToOne(Pairs(conv.t2r) \cup Pairs(s.t2r)) /\ Complete(conv)
    BY <1>2, FewerOneToOne DEF Complete
  <2> QED BY <1>1, <1>2, <2>1, MergeGood, MergePairs, MergeComplete
<1>6. /\ merged.gen = conv.gen /\ merged.dirty = conv.dirty /\ merged.memOnly = conv.memOnly
      /\ merged.joff = conv.joff
  BY <1>2 DEF Merge, Memory
<1> HIDE DEF swapped, merged
<1>7. /\ next \in Memory /\ Pairs(s.t2r) \subseteq Pairs(next.t2r) /\ Pairs(next.t2r) \subseteq S
      /\ Complete(next) /\ next.gen = s.gen /\ ~next.dirty /\ next.memOnly = m.memOnly
      /\ m.joff = 0 => next.joff = 0
  BY <1>2, <1>4, <1>5, <1>6
<1> HIDE DEF next
<1> QED BY <1>3, <1>7 DEF Memory, Complete

\* n has read all there is to read.
UpToDate(n, d) ==
  /\ Pairs(n.t2r) = KeptOn(d) /\ Complete(n) /\ n.joff = Len(d.journal)
  /\ ~n.dirty /\ ~n.memOnly

\* ... and is in the snapshot's lifetime, or stays in m's if there is no snapshot.
Joins(n, m, d) ==
  /\ d.main # None => n.seen = "fresh" /\ n.gen = d.main.gen
  /\ d.main = None => n.seen = "none" /\ (m.gen # None => n.gen = m.gen)

\* What the two copies hold is well typed, and p can read a good one.
LEMMA GoodCopy ==
  ASSUME OneKeyForAll, NEW p \in Procs, NEW d, GoodFiles(d), Ours(p, d),
         NEW s \in {d.main, d.bak}, Intact(s)
  PROVE  s \in Snapshot /\ s.t2r \in TokenMap /\ s.gen \in Gens /\ Readable(p, s)
<1>1. s \in Snapshot /\ s.key = KeyOf[p]
  BY DEF GoodFiles, Intact, IsFile, Ours
<1> QED BY <1>1 DEF Snapshot, Intact, Readable

\* A read from the beginning, or from where the process was, makes it know what is kept.
LEMMA ReadAll ==
  ASSUME OneKeyForAll, NEW p \in Procs, NEW m \in Memory, NEW d, GoodFiles(d), Sound(d), NEW g,
         ~m.memOnly, ~m.dirty, Complete(m), Pairs(m.t2r) \subseteq KeptOn(d),
         Follows(m, d), KeptOn(d) \subseteq Pairs(m.t2r) \cup JournalPairs(d)
  PROVE  UpToDate(ReadJournal(p, m, d, g), d)
<1> DEFINE n == ReadJournal(p, m, d, g)
<1>1. m.joff \in Nat /\ m.joff <= Len(d.journal) /\ d.journal \in Seq(Entry)
  BY DEF Follows, Memory, GoodFiles
<1>2. Ours(p, d) /\ OneToOne(KeptOn(d)) /\ KeyOf[p] # None
  BY DEF Sound, OneKeyForAll
<1>3. /\ Pairs(n.t2r) = Pairs(m.t2r) \cup LinePairs(d.journal, m.joff + 1 .. Len(d.journal))
      /\ Complete(n) /\ n.joff = Len(d.journal) /\ SameMode(n, m)
  BY <1>1, <1>2, ReadJournalPairs
<1>4. JournalPairs(d) = ReadTo(d, m.joff) \cup LinePairs(d.journal, m.joff + 1 .. Len(d.journal))
  BY <1>1, ReadOn
<1>5. JournalPairs(d) \subseteq KeptOn(d)
  BY DEF KeptOn
<1> HIDE DEF n
<1>6. Pairs(n.t2r) = KeptOn(d)
  BY <1>3, <1>4, <1>5 DEF Follows
<1> QED BY <1>3, <1>6 DEF UpToDate, SameMode, n

\* A process that knows only what is kept knows all of it after a sync, and nothing had to be
\* written back.
LEMMA SyncedPairs ==
  ASSUME OneKeyForAll, NEW p \in Procs, NEW m \in Memory, NEW d, GoodFiles(d), Sound(d),
         ~BadMain(d), Knowing(m, d, {}), NoCopy("up", m, d), NEW g
  PROVE  /\ UpToDate(Synced(p, m, d, g), d) /\ Joins(Synced(p, m, d, g), m, d)
         /\ ~Resurrects(m, d)
<1>1. /\ ~m.memOnly /\ ~m.dirty /\ Complete(m) /\ Pairs(m.t2r) \subseteq KeptOn(d)
      /\ m.seen # "none" => Intact(d.main)
  BY DEF Knowing
<1>2. Ours(p, d) /\ OneToOne(KeptOn(d)) /\ KeyOf[p] # None
  BY DEF Sound, OneKeyForAll
<1>3. d.main # None => Intact(d.main) /\ d.main \in Snapshot /\ Readable(p, d.main)
  BY <1>2, GoodCopy DEF BadMain
<1>4. ~Intact(None)
  BY DEF Intact, IsFile
<1>5. ~Vanished(m, d) /\ ~DroppedElsewhere(m, d) /\ ~Resurrects(m, d)
  BY <1>1, <1>4 DEF Vanished, DroppedElsewhere, Resurrects
<1>6. d.main # None => ~Locked(p, d.main)
  BY <1>3 DEF Locked, Readable
<1>7. CASE SnapshotChanged(m, d)
  <2> DEFINE m0 == [m EXCEPT !.joff = 0]
             a == AdoptSnapshot(m0, d.main)
  <2>1. d.main # None /\ d.main \in Snapshot /\ Intact(d.main)
    BY <1>3, <1>7 DEF SnapshotChanged
  <2>2. Synced(p, m, d, g) = ReadJournal(p, a, d, g)
    BY <1>3, <1>5, <1>6, <1>7, <2>1 DEF Synced
  <2>3. /\ m0 \in Memory /\ m0.t2r = m.t2r /\ m0.r2t = m.r2t /\ m0.dirty = m.dirty
        /\ m0.memOnly = m.memOnly /\ m0.joff = 0
    BY DEF Memory
  <2>4. CopyPairs(d.main) = Pairs(d.main.t2r) /\ CopyPairs(d.main) \subseteq KeptOn(d)
    BY <2>1 DEF CopyPairs, KeptOn
  <2>5. Pairs(m0.t2r) \subseteq KeptOn(d) /\ Complete(m0) /\ ~m0.dirty
    BY <1>1, <2>3 DEF Complete
  <2> HIDE DEF m0
  <2>6. /\ Pairs(d.main.t2r) \subseteq Pairs(a.t2r) /\ Pairs(a.t2r) \subseteq KeptOn(d)
        /\ Complete(a) /\ a.gen = d.main.gen /\ a.seen = "fresh"
        /\ ~a.dirty /\ a.memOnly = m0.memOnly /\ a.joff = 0
    BY <1>2, <2>1, <2>3, <2>4, <2>5, AdoptPairs
  <2>7. a \in Memory
    BY <2>1, <2>3, AdoptSnapshotGood
  <2>8. KeptOn(d) \subseteq CopyPairs(d.main) \cup JournalPairs(d)
    BY <2>1 DEF Sound
  <2>9. d.main.gen # None
    BY <2>1, ConstantsAssumption DEF Snapshot
  <2> HIDE DEF a
  <2>10. Follows(a, d)
    BY <2>6 DEF Follows, ReadTo, LinePairs, GoodFiles
  <2>11. KeptOn(d) \subseteq Pairs(a.t2r) \cup JournalPairs(d)
    BY <2>4, <2>6, <2>8
  <2>12. UpToDate(ReadJournal(p, a, d, g), d)
    BY <1>1, <2>3, <2>6, <2>7, <2>10, <2>11, ReadAll
  <2>13. /\ SameMode(ReadJournal(p, a, d, g), a)
         /\ a.gen # None => ReadJournal(p, a, d, g).gen = a.gen
    BY <1>2, <2>6, <2>7, <2>10, ReadJournalPairs DEF Follows
  <2> QED BY <1>5, <2>1, <2>2, <2>6, <2>9, <2>12, <2>13 DEF Joins, SameMode
<1>8. CASE ~SnapshotChanged(m, d)
  <2>1. Synced(p, m, d, g) = ReadJournal(p, m, d, g)
    BY <1>5, <1>8 DEF Synced
  <2>2. CASE d.main # None
    <3>1. m.seen = "fresh" /\ Intact(d.main)
      BY <1>3, <1>8, <2>2 DEF SnapshotChanged
    <3>2. Follows(m, d) /\ m.gen = d.main.gen /\ CopyPairs(d.main) \subseteq Pairs(m.t2r)
      BY <3>1 DEF Knowing
    <3>3. KeptOn(d) \subseteq Pairs(m.t2r) \cup JournalPairs(d)
      BY <3>1, <3>2 DEF Sound
    <3>4. m.gen # None
      BY <1>3, <2>2, <3>2, ConstantsAssumption DEF Snapshot
    <3>5. UpToDate(ReadJournal(p, m, d, g), d)
      BY <1>1, <3>2, <3>3, ReadAll
    <3>6. SameMode(ReadJournal(p, m, d, g), m) /\ ReadJournal(p, m, d, g).gen = m.gen
      BY <1>1, <1>2, <3>2, <3>4, ReadJournalPairs DEF Follows
    <3> QED BY <1>5, <2>1, <2>2, <3>1, <3>2, <3>5, <3>6 DEF Joins, SameMode
  <2>3. CASE d.main = None
    <3>1. Follows(m, d) /\ KeptOn(d) \subseteq JournalPairs(d)
      BY <2>3 DEF NoCopy
    <3>2. m.seen = "none"
      BY <1>1, <1>4, <2>3
    <3>3. UpToDate(ReadJournal(p, m, d, g), d)
      BY <1>1, <3>1, ReadAll
    <3>4. /\ SameMode(ReadJournal(p, m, d, g), m)
          /\ m.gen # None => ReadJournal(p, m, d, g).gen = m.gen
      BY <1>1, <1>2, <3>1, ReadJournalPairs DEF Follows
    <3> QED BY <1>5, <2>1, <2>3, <3>2, <3>3, <3>4 DEF Joins, SameMode
  <2> QED BY <2>2, <2>3
<1> QED BY <1>7, <1>8

\* A snapshot or backup, merged into a new vault.
AdoptAs(start, s, seen) ==
  [Merge(start, s.t2r, s.ctr) EXCEPT !.gen = s.gen, !.seen = seen]

FromCopy(n, start, s, seen) ==
  /\ n \in Memory /\ Pairs(n.t2r) = Pairs(s.t2r) /\ Complete(n)
  /\ n.gen = s.gen /\ n.seen = seen /\ n.joff = start.joff
  /\ n.dirty = start.dirty /\ n.memOnly = start.memOnly

LEMMA AdoptNew ==
  ASSUME NEW start \in Memory, Pairs(start.t2r) = {}, Complete(start), NEW s \in Snapshot,
         NEW seen \in {"fresh", "none"}, OneToOne(Pairs(s.t2r))
  PROVE  FromCopy(AdoptAs(start, s, seen), start, s, seen)
<1> DEFINE merged == Merge(start, s.t2r, s.ctr)
           n == [merged EXCEPT !.gen = s.gen, !.seen = seen]
<1>1. s.t2r \in TokenMap /\ s.ctr \in Counters /\ s.gen \in Gens
  BY DEF Snapshot
<1>2. OneToOne(Pairs(start.t2r) \cup Pairs(s.t2r))
  OBVIOUS
<1>3. merged \in Memory /\ Pairs(merged.t2r) = Pairs(s.t2r) /\ Complete(merged)
  <2>1. Pairs(merged.t2r) = Pairs(start.t2r) \cup Pairs(s.t2r)
    BY <1>1, <1>2, MergePairs
  <2>2. merged \in Memory
    BY <1>1, MergeGood
  <2>3. Complete(merged)
    BY <1>1, MergeComplete
  <2> HIDE DEF merged
  <2> QED BY <2>1, <2>2, <2>3
<1>4. merged.joff = start.joff /\ merged.dirty = start.dirty /\ merged.memOnly = start.memOnly
  BY DEF Merge, Memory
<1> HIDE DEF merged
<1>5. /\ n \in Memory /\ n.t2r = merged.t2r /\ n.r2t = merged.r2t /\ n.gen = s.gen
      /\ n.seen = seen /\ n.joff = merged.joff
      /\ n.dirty = merged.dirty /\ n.memOnly = merged.memOnly
  BY <1>1, <1>3 DEF Memory
<1> HIDE DEF n
<1>6. FromCopy(n, start, s, seen)
  BY <1>3, <1>4, <1>5 DEF Complete, FromCopy
<1> QED BY <1>6 DEF n, merged, AdoptAs

\* What a load makes of the files: n knows what is kept, whether or not a copy is bad.
Opens(n, p, d) ==
  /\ UpToDate(n, d)
  /\ n.seen = IF Intact(d.main) THEN "fresh" ELSE "none"
  /\ Intact(d.main) => n.gen = d.main.gen
  /\ RestoresBackup(p, d) <=> ~Intact(d.main) /\ Intact(d.bak)
  /\ Quarantines(p, d) <=> BadMain(d)

\* The copies under one key, as _load looks at them.
LEMMA CopiesSeen ==
  ASSUME OneKeyForAll, NEW p \in Procs, NEW d, GoodFiles(d), Sound(d)
  PROVE  /\ Readable(p, d.main) <=> Intact(d.main)
         /\ Readable(p, d.bak) <=> Intact(d.bak)
         /\ ~LockedOut(p, d)
         /\ RestoresBackup(p, d) <=> ~Intact(d.main) /\ Intact(d.bak)
         /\ Quarantines(p, d) <=> BadMain(d)
<1>1. Ours(p, d) /\ KeyOf[p] \notin {None, BadKey} /\ None # NoKey
  BY ConstantsAssumption DEF Sound, OneKeyForAll
<1>2. \A s \in {d.main, d.bak} :
        /\ Readable(p, s) <=> Intact(s)
        /\ Locked(p, s) <=> IsFile(s) /\ ~Intact(s)
        /\ Locked(p, s) => KeyOf[p] # NoKey
        /\ Unreadable(p, s) <=> s # None /\ ~IsFile(s)
  <2>1. SUFFICES ASSUME NEW s \in {d.main, d.bak}
                 PROVE  /\ Readable(p, s) <=> Intact(s)
                        /\ Locked(p, s) <=> IsFile(s) /\ ~Intact(s)
                        /\ Locked(p, s) => KeyOf[p] # NoKey
                        /\ Unreadable(p, s) <=> s # None /\ ~IsFile(s)
    OBVIOUS
  <2>2. IsFile(s) => s.key = KeyOf[p] \/ (s.key = None /\ KeyOf[p] # NoKey)
    BY <1>1 DEF Ours
  <2>3. Readable(p, s) <=> Intact(s)
    BY <1>1, <2>2 DEF Readable, Intact
  <2>4. Locked(p, s) <=> IsFile(s) /\ ~Intact(s)
    BY <1>1, <2>2 DEF Locked, Intact
  <2>5. Locked(p, s) => KeyOf[p] # NoKey
    BY <1>1, <2>2 DEF Locked
  <2>6. Unreadable(p, s) <=> s # None /\ ~IsFile(s)
    BY <2>3, <2>4 DEF Unreadable, Intact
  <2> QED BY <2>3, <2>4, <2>5, <2>6
<1>3. d.main = None \/ Intact(d.main) \/ Intact(d.bak)
  BY DEF Sound
<1>4. d.bak = None \/ Intact(d.bak) \/ Intact(d.main)
  BY DEF Sound
<1>5. ~IsFile(None)
  BY DEF IsFile
<1>6. \A s \in {d.main, d.bak} : Intact(s) => IsFile(s) /\ s # None
  BY DEF Intact, IsFile
<1>7. AsksBackup(p, d) <=> ~Intact(d.main)
  BY <1>2, <1>3, <1>5, <1>6 DEF AsksBackup
<1>8. RestoresBackup(p, d) <=> ~Intact(d.main) /\ Intact(d.bak)
  BY <1>2, <1>7 DEF RestoresBackup
<1>9. ~LockedOut(p, d)
  BY <1>2, <1>3, <1>4, <1>5, <1>6, <1>7, <1>8 DEF LockedOut
<1>10. Quarantines(p, d) <=> BadMain(d)
  BY <1>2, <1>3, <1>5, <1>6, <1>8 DEF Quarantines, BadMain
<1> QED BY <1>2, <1>8, <1>9, <1>10

LEMMA LoadedPairs ==
  ASSUME OneKeyForAll, NEW p \in Procs, NEW d, GoodFiles(d), Sound(d), NEW g
  PROVE  Opens(Loaded(p, d, g), p, d)
<1> DEFINE start == [NewMemory EXCEPT !.memOnly = (KeyOf[p] = BadKey)]
           copy == CASE Readable(p, d.main)  -> AdoptAs(start, d.main, "fresh")
                     [] RestoresBackup(p, d) -> AdoptAs(start, d.bak, "none")
                     [] OTHER                -> start
           read == ReadJournal(p, copy, d, g)
           n == Loaded(p, d, g)
<1>1. /\ Ours(p, d) /\ KeyOf[p] # None /\ KeyOf[p] # BadKey /\ OneToOne(KeptOn(d))
      /\ \A s \in {d.main, d.bak} :
           Intact(s) => KeptOn(d) \subseteq CopyPairs(s) \cup JournalPairs(d)
  BY DEF Sound, OneKeyForAll
<1>2. /\ Readable(p, d.main) <=> Intact(d.main)
      /\ ~LockedOut(p, d)
      /\ RestoresBackup(p, d) <=> ~Intact(d.main) /\ Intact(d.bak)
      /\ Quarantines(p, d) <=> BadMain(d)
  BY CopiesSeen
<1>3. n = IF read.gen = None THEN [read EXCEPT !.gen = g] ELSE [read EXCEPT !.joined = TRUE]
  BY <1>1, <1>2 DEF Loaded, AdoptAs
<1>4. /\ start \in Memory /\ start.t2r = NoTokens /\ ~start.memOnly /\ ~start.dirty
      /\ start.joff = 0 /\ start.seen = "none"
  BY <1>1, NewMemoryGood DEF NewMemory, Memory
<1>5. Pairs(start.t2r) = {} /\ Complete(start)
  BY <1>4, ConstantsAssumption DEF Pairs, NoTokens, Complete
<1> HIDE DEF start
<1>6. ASSUME NEW s \in {d.main, d.bak}, Intact(s)
      PROVE  /\ s \in Snapshot /\ CopyPairs(s) = Pairs(s.t2r) /\ OneToOne(Pairs(s.t2r))
             /\ Pairs(s.t2r) \subseteq KeptOn(d) /\ s.gen # None
  <2>1. CopyPairs(s) = Pairs(s.t2r) /\ CopyPairs(s) \subseteq KeptOn(d)
    BY <1>6 DEF CopyPairs, KeptOn
  <2>2. s \in Snapshot /\ s.gen \in Gens
    BY <1>1, <1>6, GoodCopy
  <2> QED BY <1>1, <2>1, <2>2, FewerOneToOne, ConstantsAssumption
<1>7. /\ copy \in Memory /\ Complete(copy) /\ Pairs(copy.t2r) \subseteq KeptOn(d)
      /\ KeptOn(d) \subseteq Pairs(copy.t2r) \cup JournalPairs(d)
      /\ ~copy.memOnly /\ ~copy.dirty /\ copy.joff = 0
      /\ copy.seen = IF Intact(d.main) THEN "fresh" ELSE "none"
      /\ Intact(d.main) => copy.gen = d.main.gen /\ copy.gen # None
  <2>1. CASE Intact(d.main)
    <3>1. FromCopy(copy, start, d.main, "fresh")
      <4>1. copy = AdoptAs(start, d.main, "fresh")
        BY <1>2, <2>1
      <4>2. d.main \in Snapshot /\ OneToOne(Pairs(d.main.t2r))
        BY <1>6, <2>1
      <4>3. FromCopy(AdoptAs(start, d.main, "fresh"), start, d.main, "fresh")
        BY <1>4, <1>5, <4>2, AdoptNew
      <4> HIDE DEF copy
      <4> QED BY <4>1, <4>3
    <3> HIDE DEF copy
    <3> QED BY <1>1, <1>4, <1>6, <2>1, <3>1 DEF FromCopy
  <2>2. CASE ~Intact(d.main) /\ Intact(d.bak)
    <3>1. FromCopy(copy, start, d.bak, "none")
      <4>1. copy = AdoptAs(start, d.bak, "none")
        BY <1>2, <2>2
      <4>2. d.bak \in Snapshot /\ OneToOne(Pairs(d.bak.t2r))
        BY <1>6, <2>2
      <4>3. FromCopy(AdoptAs(start, d.bak, "none"), start, d.bak, "none")
        BY <1>4, <1>5, <4>2, AdoptNew
      <4> HIDE DEF copy
      <4> QED BY <4>1, <4>3
    <3> HIDE DEF copy
    <3> QED BY <1>1, <1>4, <1>6, <2>2, <3>1 DEF FromCopy
  <2>3. CASE ~Intact(d.main) /\ ~Intact(d.bak)
    <3>1. copy = start
      BY <1>2, <2>3
    <3>2. KeptOn(d) = JournalPairs(d)
      BY <2>3 DEF KeptOn, CopyPairs
    <3> HIDE DEF copy
    <3> QED BY <1>4, <1>5, <2>3, <3>1, <3>2
  <2> QED BY <2>1, <2>2, <2>3
<1> HIDE DEF copy
<1>8. Follows(copy, d)
  BY <1>7 DEF Follows, ReadTo, LinePairs, GoodFiles
<1>9. UpToDate(read, d)
  BY <1>7, <1>8, ReadAll
<1>10. read \in Memory /\ SameMode(read, copy) /\ (copy.gen # None => read.gen = copy.gen)
  BY <1>1, <1>7, <1>8, ReadJournalPairs DEF Follows
<1> HIDE DEF read, n
<1>11. /\ n.t2r = read.t2r /\ n.r2t = read.r2t /\ n.joff = read.joff /\ SameMode(n, read)
       /\ read.gen # None => n.gen = read.gen
  BY <1>3, <1>10 DEF Memory, SameMode
<1>12. UpToDate(n, d)
  BY <1>9, <1>11 DEF UpToDate, Complete, SameMode
<1> QED BY <1>2, <1>7, <1>10, <1>11, <1>12 DEF Opens, SameMode, n

-----------------------------------------------------------------------------
(* Lemmas: what a step leaves alone.                                       *)

LEMMA NoUpset ==
  ASSUME Orderly, IInv
  PROVE  \A f \in {"torn_whole", "write", "timeout", "damage", "clear", "age"} : ~Upset(f)
<1>1. \A f \in {"torn_whole", "write", "timeout", "damage", "clear", "age"} :
        f \in UpsetKinds /\ Budget[f] = 0
  BY DEF Orderly, UpsetKinds
<1> QED BY <1>1 DEF IInv, HistoryInv, Upset

\* Nobody goes on without the lock.
LEMMA LockHad ==
  ASSUME Orderly, IInv, NEW th \in Threads
  PROVE  /\ Enter(th) \/ EnterLoad(th) => holder = None /\ holder' = th
         /\ Pass(th) \/ PassLoad(th) => holder = None /\ holder' = None
<1>1. ~Upset("timeout")
  BY NoUpset
<1>2. KeyOf[ProcOf[th]] # BadKey
  BY OwnerType DEF Orderly, OneKeyForAll
<1> QED BY <1>1, <1>2 DEF Enter, Pass, EnterLoad, PassLoad

\* A process is about to write what its one thread is about to write.
LEMMA OwnAlone ==
  ASSUME OneCallEach, NEW th \in Threads
  PROVE  Own(ProcOf[th]) = Pending(th) /\ (Own(ProcOf[th]) = Pending(th))'
<1>1. {x \in Threads : ProcOf[x] = ProcOf[th]} = {th}
  BY DEF OneCallEach
<1> QED BY <1>1 DEF Own

\* Looking at the snapshot's time again changes nothing that matters.
LEMMA RestatKeeps ==
  ASSUME NEW m \in Memory
  PROVE  /\ \A d, own : Knowing(m, d, own) => Knowing(Restat(m), d, own)
         /\ \A life, d : NoCopy(life, m, d) => NoCopy(life, Restat(m), d)
         /\ \A at, j, r, d : Doing(at, j, m, r, d) => Doing(at, j, Restat(m), r, d)
         /\ Restat(m).seen # "fresh" /\ (m.seen = "none" <=> Restat(m).seen = "none")
         /\ m = NewMemory => Restat(m) = NewMemory
<1> DEFINE n == Restat(m)
<1>1. /\ n.t2r = m.t2r /\ n.r2t = m.r2t /\ n.gen = m.gen /\ n.joff = m.joff
      /\ (n.dirty <=> m.dirty) /\ (n.memOnly <=> m.memOnly)
      /\ n.seen # "fresh" /\ (m.seen = "none" <=> n.seen = "none")
  <2>1. n.t2r = m.t2r /\ n.r2t = m.r2t /\ n.gen = m.gen /\ n.joff = m.joff
    BY DEF Restat, Memory
  <2>2. (n.dirty <=> m.dirty) /\ (n.memOnly <=> m.memOnly)
    BY DEF Restat, Memory
  <2>3. n.seen = IF m.seen = "fresh" THEN "stale" ELSE m.seen
    BY DEF Restat, Memory
  <2> HIDE DEF n
  <2>4. n.seen # "fresh"
    BY <2>3
  <2>5. m.seen = "none" <=> n.seen = "none"
    BY <2>3
  <2> QED BY <2>1, <2>2, <2>4, <2>5
<1>2. m = NewMemory => n = NewMemory
  <2>1. NewMemory.seen = "none"
    BY DEF NewMemory
  <2>2. m.seen # "fresh" => n = m
    <3>1. [m EXCEPT !.seen = m.seen] = m
      BY DEF Memory
    <3> QED BY <3>1 DEF Restat
  <2> QED BY <2>1, <2>2
<1> HIDE DEF n
<1>3. \A d, own : Knowing(m, d, own) => Knowing(n, d, own)
  BY <1>1 DEF Knowing, Complete
<1>4. \A life, d : NoCopy(life, m, d) => NoCopy(life, n, d)
  BY <1>1 DEF NoCopy, Follows
<1>5. \A at, j, r, d : Doing(at, j, m, r, d) => Doing(at, j, n, r, d)
  BY <1>1 DEF Doing
<1> QED BY <1>1, <1>2, <1>3, <1>4, <1>5 DEF n

\* Nothing changes but for th and its process, and the files.
Elsewhere(th) ==
  /\ \A x \in Threads \ {th} : pc'[x] = pc[x] /\ job'[x] = job[x] /\ raw'[x] = raw[x]
  /\ \A q \in Procs \ {ProcOf[th]} : up'[q] = up[q]

\* What the step of th leaves the others with.
OtherProcs(th) ==
  \A q \in Procs \ {ProcOf[th]} :
    /\ Knowing(mem'[q], disk', Own(q)) /\ NoCopy(up[q], mem'[q], disk')
    /\ mem[q] = NewMemory => mem'[q] = NewMemory

OtherThreads(th) ==
  \A x \in Threads \ {th} :
    /\ pc[x] \in Holding =>
         holder' = x /\ Doing(pc[x], job[x], mem'[ProcOf[x]], raw[x], disk')
    /\ pc[x] \in {"uncleared", "truncate"} =>
         \A q \in Procs \ {ProcOf[x]} : mem'[q].seen # "fresh"

LEMMA Assemble ==
  ASSUME OneCallEach, SInv, NEW th \in Threads, Elsewhere(th), OtherProcs(th), OtherThreads(th),
         Quiet', Sound(disk'), IssuedKept', Knows(ProcOf[th])', Does(th)',
         BadMain(disk') => BadMain(disk) /\ Unloaded(ProcOf[th])'
  PROVE  SInv'
<1> DEFINE p == ProcOf[th]
<1>1. \A x \in Threads \ {th} : ProcOf[x] \in Procs \ {p}
  BY OwnerType DEF OneCallEach
<1>2. ASSUME NEW q \in Procs \ {p}
      PROVE  Own(q)' = Own(q) /\ (Unloaded(q)' <=> Unloaded(q))
  <2>1. \A x \in {y \in Threads : ProcOf[y] = q} : pc'[x] = pc[x] /\ job'[x] = job[x]
    BY DEF Elsewhere
  <2>2. Own(q)' = Own(q)
    BY <2>1 DEF Own, Pending
  <2>3. Unloaded(q)' <=> Unloaded(q)
    BY <2>1 DEF Unloaded, Elsewhere
  <2> QED BY <2>2, <2>3
<1>3. ASSUME NEW q \in Procs PROVE Knows(q)'
  <2>1. CASE q # p
    BY <1>2, <2>1 DEF SInv, Knows, OtherProcs, Elsewhere
  <2> QED BY <2>1
<1>4. ASSUME NEW x \in Threads PROVE Does(x)'
  <2>1. CASE x # th
    BY <1>1, <2>1 DEF SInv, Does, OtherThreads, Elsewhere
  <2> QED BY <2>1
<1>5. FilesSound'
  BY <1>2 DEF SInv, FilesSound
<1> QED BY <1>3, <1>4, <1>5 DEF SInv

\* A step without the lock and without a look at the files.
LEMMA FreeStep ==
  ASSUME Orderly, IInv, SInv, NEW th \in Threads, Elsewhere(th), IssuedKept', Does(th)',
         disk' = disk, holder' = holder, pc[th] \notin Holding, pc'[th] \notin Holding,
         \A q \in Procs : mem'[q] \in {mem[q], Restat(mem[q])},
         up'[ProcOf[th]] = up[ProcOf[th]] \/ up'[ProcOf[th]] # "up",
         Unloaded(ProcOf[th])' <=> Unloaded(ProcOf[th])
  PROVE  SInv'
<1> DEFINE p == ProcOf[th]
<1>1. p \in Procs /\ \A q \in Procs : mem[q] \in Memory
  BY OwnerType, MemoryOf DEF IInv
<1>2. ASSUME NEW q \in Procs
      PROVE  /\ \A own : Knowing(mem[q], disk, own) => Knowing(mem'[q], disk, own)
             /\ \A life : NoCopy(life, mem[q], disk) => NoCopy(life, mem'[q], disk)
             /\ \A at, j, r : Doing(at, j, mem[q], r, disk) => Doing(at, j, mem'[q], r, disk)
             /\ mem[q].seen # "fresh" => mem'[q].seen # "fresh"
             /\ mem[q] = NewMemory => mem'[q] = NewMemory
  <2>1. CASE mem'[q] = mem[q]
    BY <2>1
  <2>2. CASE mem'[q] = Restat(mem[q])
    BY <1>1, <2>2, RestatKeeps
  <2> QED BY <2>1, <2>2
<1>3. OtherProcs(th)
  BY <1>2 DEF SInv, Knows, OtherProcs
<1>4. OtherThreads(th)
  BY <1>2, OwnerType DEF SInv, Does, OtherThreads
<1>5. Own(p) = {} /\ Own(p)' = {}
  BY OwnAlone DEF Orderly, Pending, Holding, Compacting
<1>6. Knows(p)'
  <2>1. Knowing(mem[p], disk, {}) /\ NoCopy(up[p], mem[p], disk)
    BY <1>1, <1>5 DEF SInv, Knows
  <2>2. Knowing(mem'[p], disk', {})
    BY <1>1, <1>2, <2>1
  <2>3. NoCopy(up'[p], mem'[p], disk')
    BY <1>1, <1>2, <2>1 DEF NoCopy
  <2>4. Unloaded(p)' => mem'[p] = NewMemory
    BY <1>1, <1>2 DEF SInv, Knows
  <2> QED BY <1>5, <2>2, <2>3, <2>4 DEF Knows
<1>7. /\ Quiet' /\ Sound(disk') /\ (BadMain(disk') => BadMain(disk) /\ Unloaded(p)')
  BY <1>1 DEF SInv, Quiet, FilesSound
<1> QED BY <1>3, <1>4, <1>6, <1>7, Assemble DEF Orderly

\* A step of the thread that has the lock, or while nobody has it: no other thread is where it
\* would need the lock.
LEMMA HeldStep ==
  ASSUME SInv, NEW th \in Threads, holder \in {None, th}
  PROVE  OtherThreads(th) /\ \A x \in Threads \ {th} : pc[x] \notin Holding
<1>1. \A x \in Threads \ {th} : pc[x] \notin Holding
  BY ConstantsAssumption DEF SInv, Does
<1> QED BY <1>1 DEF OtherThreads, Holding, Compacting

-----------------------------------------------------------------------------
(* Every step keeps the invariant: the calls, before they need the lock.   *)

\* What th changes of its own is nobody else's.
LEMMA OnlyOwn ==
  ASSUME IInv, NEW th \in Threads, NEW next, NEW j, Goto(th, next),
         job' = [job EXCEPT ![th] = j] \/ UNCHANGED job,
         UNCHANGED up \/ (\E l : up' = [up EXCEPT ![ProcOf[th]] = l]),
         UNCHANGED raw \/ (\E r : raw' = [raw EXCEPT ![th] = r])
  PROVE  Elsewhere(th) /\ pc'[th] = next
BY DEF IInv, ControlInv, FilesInv, Goto, Elsewhere

LEMMA NothingNewIssued ==
  ASSUME SInv, UNCHANGED issued, KeptOn(disk) \subseteq KeptOn(disk') PROVE IssuedKept'
BY DEF SInv, IssuedKept, KeepsAll

LEMMA IssueKept ==
  ASSUME SInv, NEW t, NEW v, NEW g, Issue(t, v, g), <<t, v>> \in KeptOn(disk), disk' = disk
  PROVE  IssuedKept'
<1>1. KeepsAll(disk, issued)
  BY DEF SInv, IssuedKept
<1>2. PairOf([tok |-> t, val |-> v, gen |-> g]) = <<t, v>>
  BY DEF PairOf
<1>3. KeepsAll(disk, issued')
  BY <1>1, <1>2 DEF KeepsAll, Issue
<1> QED BY <1>3 DEF IssuedKept

LEMMA StartSInv ==
  ASSUME Orderly, IInv, SInv, NEW th \in Threads, Start(th) PROVE SInv'
<1> DEFINE p == ProcOf[th]
           j == [NoJob EXCEPT !.kind = "boot"]
<1>1. p \in Procs /\ up[p] = "down" /\ pc[th] = "idle"
  BY OwnerType DEF Start, SInv, Does, Living
<1>2. /\ Goto(th, "sweep") /\ job' = [job EXCEPT ![th] = j] /\ up' = [up EXCEPT ![p] = "boot"]
      /\ UNCHANGED <<mem, raw, holder, disk, issued>>
  BY DEF Start
<1>3. j.kind = "boot" /\ j.tok = None
  BY DEF NoJob
<1>4. Elsewhere(th) /\ pc'[th] = "sweep" /\ up'[p] = "boot" /\ job'[th] = j
  BY <1>1, <1>2, OnlyOwn DEF IInv, ControlInv
<1> HIDE DEF j
<1>5. Does(th)'
  BY <1>3, <1>4 DEF Does, Living, Holding, Compacting
<1>6. Unloaded(p)' /\ Unloaded(p)
  BY <1>1, <1>4 DEF Unloaded
<1>7. IssuedKept'
  BY <1>2, NothingNewIssued
<1> QED BY <1>1, <1>2, <1>4, <1>5, <1>6, <1>7, FreeStep DEF Holding, Compacting

LEMMA SweepNothingSInv ==
  ASSUME Orderly, IInv, SInv, NEW th \in Threads, SweepNothing(th) PROVE SInv'
<1> DEFINE p == ProcOf[th]
<1>1. /\ p \in Procs /\ pc[th] = "sweep" /\ up[p] = "boot"
      /\ job[th].kind = "boot" /\ job[th].tok = None
  BY OwnerType DEF SweepNothing, SInv, Does, Living
<1>2. Goto(th, "load") /\ UNCHANGED <<mem, up, job, raw, holder, disk, issued>>
  BY DEF SweepNothing
<1>3. Elsewhere(th) /\ pc'[th] = "load"
  BY <1>2, OnlyOwn
<1>4. Does(th)'
  BY <1>1, <1>2, <1>3 DEF Does, Living, Holding, Compacting
<1>5. Unloaded(p)' /\ Unloaded(p)
  BY <1>1, <1>3 DEF Unloaded
<1>6. IssuedKept'
  BY <1>2, NothingNewIssued
<1> QED BY <1>1, <1>2, <1>3, <1>4, <1>5, <1>6, FreeStep DEF Holding, Compacting

LEMMA BeginSInv ==
  ASSUME Orderly, IInv, SInv, NEW th \in Threads, Ready(th), NEW j \in Job, j.tok = None,
         Begin(th, j)
  PROVE  SInv'
<1> DEFINE p == ProcOf[th]
<1>1. p \in Procs /\ pc[th] = "idle" /\ up[p] = "up"
  BY OwnerType DEF Ready
<1>2. /\ Goto(th, "sync") /\ job' = [job EXCEPT ![th] = j]
      /\ UNCHANGED <<mem, up, raw, holder, disk, issued>>
  BY DEF Begin
<1>3. Elsewhere(th) /\ pc'[th] = "sync" /\ job'[th] = j
  BY <1>2, OnlyOwn DEF IInv, ControlInv
<1>4. Does(th)'
  BY <1>1, <1>2, <1>3 DEF Does, Living, Holding, Compacting
<1>5. Unloaded(p)' <=> Unloaded(p)
  BY <1>1, <1>2, <1>3 DEF Unloaded, Elsewhere
<1>6. IssuedKept'
  BY <1>2, NothingNewIssued
<1> QED BY <1>1, <1>2, <1>3, <1>4, <1>5, <1>6, FreeStep DEF Holding, Compacting

LEMMA CallSInv ==
  ASSUME Orderly, IInv, SInv, NEW th \in Threads,
         (\E v \in Values, k \in Types : TokenizeNew(th, v, k)) \/ RestoreMiss(th) \/ Save(th)
  PROVE  SInv'
<1>1. ASSUME NEW v \in Values, NEW k \in Types, TokenizeNew(th, v, k) PROVE SInv'
  <2> DEFINE j == [NoJob EXCEPT !.kind = "tokenize", !.val = v, !.typ = k]
  <2>1. j \in Job /\ j.tok = None
    <3>1. j \in Job
      BY NoJobGood DEF Job, Kinds
    <3>2. j.tok = None
      BY NoJobGood DEF Job
    <3> QED BY <3>1, <3>2
  <2>2. Ready(th) /\ Begin(th, j)
    BY <1>1 DEF TokenizeNew
  <2> HIDE DEF j
  <2> QED BY <2>1, <2>2, BeginSInv
<1>2. CASE RestoreMiss(th)
  <2> DEFINE j == [NoJob EXCEPT !.kind = "restore"]
  <2>1. j \in Job /\ j.tok = None
    <3>1. j \in Job
      BY NoJobGood DEF Job, Kinds
    <3>2. j.tok = None
      BY NoJobGood DEF Job
    <3> QED BY <3>1, <3>2
  <2> QED BY <1>2, <2>1, BeginSInv DEF RestoreMiss
<1>3. CASE Save(th)
  <2> DEFINE j == [NoJob EXCEPT !.kind = "save"]
  <2>1. j \in Job /\ j.tok = None
    <3>1. j \in Job
      BY NoJobGood DEF Job, Kinds
    <3>2. j.tok = None
      BY NoJobGood DEF Job
    <3> QED BY <3>1, <3>2
  <2> QED BY <1>3, <2>1, BeginSInv DEF Save
<1> QED BY <1>1, <1>2, <1>3

\* A call that refreshes the snapshot's time, which is fresh.
LEMMA TouchStays ==
  ASSUME IInv, SInv, NEW p \in Procs, Touch(p)
  PROVE  disk' = disk /\ \A q \in Procs : mem'[q] \in {mem[q], Restat(mem[q])}
<1>1. [disk EXCEPT !.idle = FALSE] = disk
  <2>1. disk \in Disk /\ disk.idle = FALSE
    BY DEF IInv, FilesInv, SInv, Quiet, Disk
  <2> QED BY <2>1 DEF Disk
<1> QED BY <1>1 DEF Touch

\* Between two calls a process knows nothing that is not kept.
LEMMA IdleKnows ==
  ASSUME Orderly, IInv, SInv, NEW th \in Threads, pc[th] # "append", NEW v \in Values,
         mem[ProcOf[th]].r2t[v] # None
  PROVE  /\ mem[ProcOf[th]].r2t[v] \in Tokens
         /\ <<mem[ProcOf[th]].r2t[v], v>> \in KeptOn(disk)
<1> DEFINE p == ProcOf[th]
           t == mem[p].r2t[v]
<1>1. p \in Procs /\ mem[p] \in Memory /\ CoherentMemory(mem[p])
  BY OwnerType, MemoryOf DEF IInv
<1>2. t \in Tokens /\ mem[p].t2r[t] = v /\ mem[p].t2r \in TokenMap
  BY <1>1 DEF CoherentMemory, Memory
<1>3. <<t, v>> \in Pairs(mem[p].t2r)
  BY <1>2, PairIn
<1>4. Own(p) = {}
  BY OwnAlone DEF Orderly, Pending
<1> QED BY <1>1, <1>2, <1>3, <1>4 DEF SInv, Knows, Knowing

LEMMA ReuseSInv ==
  ASSUME Orderly, IInv, SInv, NEW th \in Threads, NEW v \in Values, Reuse(th, v) PROVE SInv'
<1> DEFINE p == ProcOf[th]
           t == mem[p].r2t[v]
<1>1. p \in Procs /\ pc[th] = "idle" /\ up[p] = "up"
  BY OwnerType DEF Reuse, Ready
<1>2. Issue(t, v, mem[p].gen) /\ Touch(p) /\ UNCHANGED <<up, pc, job, raw, holder>>
  BY DEF Reuse
<1>3. <<t, v>> \in KeptOn(disk)
  BY <1>1, IdleKnows DEF Reuse
<1>4. disk' = disk /\ \A q \in Procs : mem'[q] \in {mem[q], Restat(mem[q])}
  BY <1>1, <1>2, TouchStays
<1>5. IssuedKept'
  BY <1>2, <1>3, <1>4, IssueKept
<1>6. Elsewhere(th) /\ (Unloaded(p)' <=> Unloaded(p))
  BY <1>2 DEF Elsewhere, Unloaded
<1>7. Does(th)'
  BY <1>1, <1>2 DEF SInv, Does, Living, Holding, Compacting
<1> QED BY <1>1, <1>2, <1>4, <1>5, <1>6, <1>7, FreeStep DEF Holding, Compacting

LEMMA RestoreHitSInv ==
  ASSUME Orderly, IInv, SInv, NEW th \in Threads, RestoreHit(th) PROVE SInv'
<1> DEFINE p == ProcOf[th]
<1>1. p \in Procs /\ pc[th] = "idle" /\ up[p] = "up"
  BY OwnerType DEF RestoreHit, Ready
<1>2. Touch(p) /\ UNCHANGED <<up, pc, job, raw, holder, issued>>
  BY DEF RestoreHit
<1>3. disk' = disk /\ \A q \in Procs : mem'[q] \in {mem[q], Restat(mem[q])}
  BY <1>1, <1>2, TouchStays
<1>4. IssuedKept'
  BY <1>2, <1>3, NothingNewIssued
<1>5. Elsewhere(th) /\ (Unloaded(p)' <=> Unloaded(p))
  BY <1>2 DEF Elsewhere, Unloaded
<1>6. Does(th)'
  BY <1>1, <1>2 DEF SInv, Does, Living, Holding, Compacting
<1> QED BY <1>1, <1>2, <1>3, <1>4, <1>5, <1>6, FreeStep DEF Holding, Compacting

-----------------------------------------------------------------------------
(* Every step keeps the invariant: under the lock, in memory.              *)

\* The other processes, when neither they nor the files change.
LEMMA OthersSame ==
  ASSUME SInv, NEW th \in Threads, disk' = disk,
         \A q \in Procs \ {ProcOf[th]} : mem'[q] = mem[q]
  PROVE  OtherProcs(th)
BY DEF SInv, Knows, OtherProcs

\* A thread that is past the load is in a process that is up, or is about to come up.
LEMMA LoadedThread ==
  ASSUME Orderly, IInv, SInv, NEW th \in Threads, pc[th] \in {"sync"} \cup Holding
  PROVE  /\ ~Unloaded(ProcOf[th]) /\ ~BadMain(disk)
         /\ pc[th] \notin Compacting => up[ProcOf[th]] = "up"
<1> DEFINE p == ProcOf[th]
<1>1. p \in Procs /\ up[p] \in {"down", "boot", "up"} /\ Living(up[p], pc[th], job[th].kind)
  BY OwnerType DEF SInv, Does, IInv, ControlInv
<1>2. \A x \in Threads : ProcOf[x] = p => x = th
  BY DEF Orderly, OneCallEach
<1>3. ~Unloaded(p)
  BY <1>1, <1>2 DEF Unloaded, Living, Holding, Compacting
<1>4. pc[th] \notin Compacting => up[p] = "up"
  BY <1>1 DEF Living, Holding, Compacting
<1> QED BY <1>1, <1>3, <1>4 DEF SInv, FilesSound

\* A step of such a thread that changes no file and keeps its process loaded.
LEMMA MemoryOnlyStep ==
  ASSUME Orderly, IInv, SInv, NEW th \in Threads, Elsewhere(th), IssuedKept', Does(th)',
         pc[th] \in {"sync"} \cup Holding, pc'[th] \notin {"sweep", "load"},
         holder \in {None, th}, disk' = disk, up'[ProcOf[th]] # "down",
         \A q \in Procs \ {ProcOf[th]} : mem'[q] = mem[q],
         Knowing(mem'[ProcOf[th]], disk, Own(ProcOf[th])'),
         NoCopy(up'[ProcOf[th]], mem'[ProcOf[th]], disk)
  PROVE  SInv'
<1> DEFINE p == ProcOf[th]
<1>1. OtherProcs(th) /\ OtherThreads(th)
  BY OthersSame, HeldStep
<1>2. ~Unloaded(p)'
  BY OwnerType DEF Unloaded, Orderly, OneCallEach
<1>3. Knows(p)'
  BY <1>2 DEF Knows
<1>4. Quiet' /\ Sound(disk') /\ ~BadMain(disk')
  BY LoadedThread DEF SInv, Quiet, FilesSound
<1> QED BY <1>1, <1>3, <1>4, Assemble DEF Orderly

\* A handler that ends after it has handed a kept token out.
LEMMA HandsOut ==
  ASSUME Orderly, IInv, SInv, NEW th \in Threads, pc[th] \in {"mint", "return"},
         NEW t, NEW v, NEW g, Issue(t, v, g), <<t, v>> \in KeptOn(disk),
         Rest(th), UNCHANGED <<mem, up, raw, disk>>
  PROVE  SInv'
<1> DEFINE p == ProcOf[th]
<1>1. p \in Procs /\ up[p] = "up" /\ holder = th /\ pc[th] \in Holding
  BY OwnerType, LoadedThread DEF SInv, Does, Holding, Compacting
<1>2. Elsewhere(th) /\ pc'[th] = "idle" /\ job'[th] = NoJob
  BY OnlyOwn DEF Rest, IInv, ControlInv
<1>3. Own(p) = {} /\ Own(p)' = {}
  BY <1>2, OwnAlone DEF Orderly, Pending
<1>4. Does(th)'
  BY <1>1, <1>2 DEF Does, Living, Holding, Compacting
<1>5. IssuedKept'
  BY IssueKept
<1>6. Knowing(mem[p], disk, {}) /\ NoCopy(up[p], mem[p], disk)
  BY <1>1, <1>3 DEF SInv, Knows
<1> QED BY <1>1, <1>2, <1>3, <1>4, <1>5, <1>6, MemoryOnlyStep

LEMMA ReturnSInv ==
  ASSUME Orderly, IInv, SInv, NEW th \in Threads, Return(th) PROVE SInv'
<1>1. pc[th] = "return" /\ job[th].tok # None
  BY DEF Return, IInv, ControlInv, Carrying
<1>2. <<job[th].tok, job[th].val>> \in KeptOn(disk)
  BY <1>1 DEF SInv, Does, Doing, Holding
<1> QED BY <1>1, <1>2, HandsOut DEF Return

LEMMA MintFoundSInv ==
  ASSUME Orderly, IInv, SInv, NEW th \in Threads, MintFound(th) PROVE SInv'
<1> DEFINE v == job[th].val
           t == mem[ProcOf[th]].r2t[v]
<1>1. pc[th] = "mint" /\ v \in Values /\ t # None
  BY DEF MintFound, IInv, ControlInv, Carrying
<1>2. <<t, v>> \in KeptOn(disk)
  BY <1>1, IdleKnows
<1>3. Issue(t, v, mem[ProcOf[th]].gen) /\ Rest(th) /\ UNCHANGED <<mem, up, raw, disk>>
  BY DEF MintFound
<1> HIDE DEF v, t
<1> QED BY <1>1, <1>2, <1>3, HandsOut

\* A minted token is free, and so is its value.
MintOf(n, m, v) ==
  /\ n.r2t[v] \in Tokens /\ m.t2r[n.r2t[v]] = None
  /\ Pairs(n.t2r) = Pairs(m.t2r) \cup {<<n.r2t[v], v>>} /\ Complete(n)
  /\ n.seen = m.seen /\ n.joff = m.joff /\ n.gen = m.gen
  /\ (n.dirty <=> m.dirty) /\ (n.memOnly <=> m.memOnly)

LEMMA MintedPairs ==
  ASSUME NEW m \in Memory, NEW v \in Values, NEW k \in Types, NEW base \in Nat,
         HasNumber(m, k, base), Complete(m)
  PROVE  MintOf(Minted(m, v, k, base), m, v)
<1> DEFINE free == {n \in Numbers : n > Larger(m.ctr[k], base) /\ m.t2r[<<k, n>>] = None}
           num == NextNumber(m, k, base)
           tok == <<k, num>>
           n == Minted(m, v, k, base)
<1>1. free \in SUBSET Nat /\ free # {}
  BY ConstantsAssumption DEF HasNumber, Numbers
<1>2. Min(free) \in free
  <2> HIDE DEF free
  <2> QED BY <1>1, MinOfNats
<1>3. tok \in Tokens /\ m.t2r[tok] = None
  BY <1>2 DEF NextNumber, Tokens
<1>4. n = [m EXCEPT !.t2r = [m.t2r EXCEPT ![tok] = v],
                    !.r2t = [m.r2t EXCEPT ![v] = tok],
                    !.ctr = [m.ctr EXCEPT ![k] = num]]
  BY DEF Minted
<1> HIDE DEF free, num, tok, n
<1>5. /\ n.t2r = [m.t2r EXCEPT ![tok] = v] /\ n.r2t = [m.r2t EXCEPT ![v] = tok]
      /\ n.seen = m.seen /\ n.joff = m.joff /\ n.gen = m.gen
      /\ (n.dirty <=> m.dirty) /\ (n.memOnly <=> m.memOnly)
  BY <1>4 DEF Memory
<1>6. m.t2r \in [Tokens -> Values \cup {None}] /\ m.r2t \in [Values -> Tokens \cup {None}]
  BY DEF Memory, TokenMap
<1>7. n.r2t[v] = tok
  BY <1>5, <1>6
<1>8. None \notin Values /\ tok # None
  BY <1>3, ConstantsAssumption DEF Tokens, Numbers
<1>9. ASSUME NEW t \in Tokens, NEW w \in Values
      PROVE  n.t2r[t] = w <=> m.t2r[t] = w \/ (t = tok /\ w = v)
  BY <1>3, <1>5, <1>6, <1>8
<1>10. Pairs(n.t2r) = Pairs(m.t2r) \cup {<<tok, v>>}
  BY <1>3, <1>9 DEF Pairs
<1>11. Complete(n)
  <2>1. SUFFICES ASSUME NEW x \in Pairs(n.t2r) PROVE n.r2t[x[2]] # None
    BY DEF Complete
  <2>2. x[2] \in Values
    BY DEF Pairs
  <2>3. CASE x \in Pairs(m.t2r)
    BY <1>5, <1>6, <1>8, <2>2, <2>3 DEF Complete
  <2>4. CASE x = <<tok, v>>
    BY <1>7, <1>8, <2>4
  <2> QED BY <1>10, <2>3, <2>4
<1> QED BY <1>3, <1>5, <1>7, <1>10, <1>11 DEF MintOf, n

LEMMA MintNewSInv ==
  ASSUME Orderly, IInv, SInv, NEW th \in Threads, MintNew(th) PROVE SInv'
<1> DEFINE p == ProcOf[th]
           v == job[th].val
           k == job[th].typ
           n == Minted(mem[p], v, k, 0)
           t == n.r2t[v]
<1>1. /\ p \in Procs /\ mem[p] \in Memory /\ v \in Values /\ k \in Types /\ job[th] \in Job
      /\ pc[th] = "mint" /\ pc[th] \in Holding /\ holder = th /\ up[p] = "up"
  BY OwnerType, MemoryOf, LoadedThread
     DEF MintNew, IInv, ControlInv, Carrying, SInv, Does, Holding, Compacting
<1>2. /\ Doing("mint", job[th], mem[p], raw[th], disk)
      /\ Knowing(mem[p], disk, {}) /\ NoCopy("up", mem[p], disk)
  BY <1>1, OwnAlone DEF SInv, Does, Knows, Orderly, Pending
<1>3. /\ HasNumber(mem[p], k, 0) /\ mem[p].r2t[v] = None
      /\ SetMem(p, n) /\ Goto(th, "append") /\ UNCHANGED <<up, raw, holder, disk, issued>>
      /\ job' = [job EXCEPT ![th] = [job[th] EXCEPT !.tok = t, !.gen = n.gen]]
  BY <1>1 DEF MintNew, IInv, ControlInv
<1>4. MintOf(n, mem[p], v)
  BY <1>1, <1>2, <1>3, MintedPairs DEF Knowing
<1> HIDE DEF n
<1>5. Elsewhere(th) /\ pc'[th] = "append"
  BY <1>3, OnlyOwn
<1>6. job'[th].tok = t /\ job'[th].val = v /\ job'[th].gen = n.gen /\ job'[th].kind = job[th].kind
  BY <1>1, <1>3 DEF IInv, ControlInv, Job
<1>7. mem'[p] = n /\ \A q \in Procs \ {p} : mem'[q] = mem[q]
  BY <1>1, <1>3 DEF SetMem, IInv, MemoryInv
<1>8. Own(p)' = {<<t, v>>}
  BY <1>5, <1>6, OwnAlone DEF Orderly, Pending
<1>9. mem[p].t2r \in TokenMap
  BY <1>1 DEF Memory
<1>10. OneToOne(KeptOn(disk) \cup {<<t, v>>})
  <2>1. OneToOne(KeptOn(disk))
    BY DEF SInv, FilesSound, Sound
  <2>2. ASSUME NEW x \in KeptOn(disk) PROVE x[1] # t /\ x[2] # v
    <3>1. x \in Pairs(mem[p].t2r)
      BY <1>2 DEF Doing
    <3>2. x[2] \in Values /\ mem[p].t2r[x[1]] = x[2] /\ mem[p].r2t[x[2]] # None
      BY <1>2, <3>1 DEF Pairs, Knowing, Complete
    <3>3. x[2] # None
      BY <3>2, ConstantsAssumption
    <3> QED BY <1>3, <1>4, <3>2, <3>3 DEF MintOf
  <2> HIDE DEF t, v
  <2> QED BY <2>1, <2>2 DEF OneToOne
<1>11. Knowing(n, disk, {<<t, v>>}) /\ NoCopy("up", n, disk)
  BY <1>2, <1>4 DEF MintOf, Knowing, NoCopy, Follows
<1>12. Doing("append", job'[th], n, raw[th], disk)
  BY <1>2, <1>4, <1>6, <1>10 DEF MintOf, Doing
<1>13. Does(th)'
  <2>1. Living(up'[p], "append", job'[th].kind)
    BY <1>1, <1>3 DEF Living, Holding
  <2> QED BY <1>1, <1>3, <1>5, <1>7, <1>12, <2>1 DEF Does
<1>14. IssuedKept'
  BY <1>3, NothingNewIssued
<1> QED BY <1>1, <1>3, <1>5, <1>7, <1>8, <1>11, <1>13, <1>14, MemoryOnlyStep

\* A process that is up to date knows only what is kept.
LEMMA UpToDateKnows ==
  ASSUME NEW n, NEW d, UpToDate(n, d), n.seen # "none" => Intact(d.main),
         n.seen = "fresh" => n.gen = d.main.gen, GoodFiles(d)
  PROVE  Knowing(n, d, {}) /\ Follows(n, d)
<1>1. Follows(n, d)
  BY DEF UpToDate, Follows, KeptOn, JournalPairs, GoodFiles
<1>2. CopyPairs(d.main) \subseteq Pairs(n.t2r)
  BY DEF UpToDate, KeptOn
<1> QED BY <1>1, <1>2 DEF UpToDate, Knowing

LEMMA SyncSInv ==
  ASSUME Orderly, IInv, SInv, NEW th \in Threads, Sync(th) PROVE SInv'
<1> DEFINE p == ProcOf[th]
           n == Synced(p, mem[p], disk, FreshGen)
           k == job[th].kind
<1>1. /\ p \in Procs /\ mem[p] \in Memory /\ pc[th] = "sync" /\ job[th].tok = None
      /\ OneKeyForAll /\ GoodFiles(disk) /\ Sound(disk)
  BY OwnerType, MemoryOf, DiskGood
     DEF Sync, IInv, FilesInv, SInv, FilesSound, Does, Orderly
<1>2. up[p] = "up" /\ ~BadMain(disk) /\ Knowing(mem[p], disk, {}) /\ NoCopy("up", mem[p], disk)
  <2>1. up[p] = "up" /\ ~BadMain(disk)
    BY <1>1, LoadedThread DEF Compacting
  <2>2. Own(p) = {}
    BY <1>1, OwnAlone DEF Orderly, Pending
  <2> QED BY <1>1, <2>1, <2>2 DEF SInv, Knows
<1>3. UpToDate(n, disk) /\ Joins(n, mem[p], disk) /\ ~Resurrects(mem[p], disk)
  BY <1>1, <1>2, SyncedPairs
<1>4. /\ SetMem(p, n) /\ UNCHANGED <<up, raw, disk, issued>>
      /\ \/ k = "save" /\ Enter(th) /\ Goto(th, "compact") /\ UNCHANGED job
         \/ k = "tokenize" /\ Enter(th) /\ Goto(th, "mint") /\ UNCHANGED job
         \/ Pass(th) /\ Rest(th)
  BY <1>3 DEF Sync
<1> HIDE DEF n, k
<1>5. Knowing(n, disk, {}) /\ NoCopy("up", n, disk)
  <2>1. /\ n.seen # "none" => Intact(disk.main)
        /\ n.seen = "fresh" => n.gen = disk.main.gen
    BY <1>2, <1>3 DEF Joins, BadMain
  <2>2. Knowing(n, disk, {}) /\ Follows(n, disk)
    BY <1>1, <1>3, <2>1, UpToDateKnows
  <2> QED BY <1>2, <2>2 DEF NoCopy
<1>6. mem'[p] = n /\ \A q \in Procs \ {p} : mem'[q] = mem[q]
  BY <1>1, <1>4 DEF SetMem, IInv, MemoryInv
<1>7. holder = None
  BY <1>4, LockHad
<1>8. IssuedKept'
  BY <1>4, NothingNewIssued
<1>9. ASSUME NEW next \in {"compact", "mint"}, Enter(th), Goto(th, next), UNCHANGED job
      PROVE  SInv'
  <2>1. Elsewhere(th) /\ pc'[th] = next
    BY <1>4, <1>9, OnlyOwn
  <2>2. holder' = th
    BY <1>9, LockHad
  <2>3. Doing(next, job[th], n, raw[th], disk)
    BY <1>1, <1>3 DEF UpToDate, Doing
  <2>4. Living(up'[p], next, job'[th].kind)
    BY <1>2, <1>4 DEF Living, Holding, Compacting
  <2>5. Does(th)'
    BY <1>4, <1>6, <1>9, <2>1, <2>2, <2>3, <2>4 DEF Does
  <2>6. Own(p)' = {}
    BY <2>1, OwnAlone DEF Orderly, Pending
  <2> QED BY <1>1, <1>2, <1>4, <1>5, <1>6, <1>7, <1>8, <2>1, <2>5, <2>6, MemoryOnlyStep
<1>10. CASE Pass(th) /\ Rest(th)
  <2>1. Elsewhere(th) /\ pc'[th] = "idle"
    BY <1>4, <1>10, OnlyOwn DEF Rest
  <2>2. Does(th)'
    BY <1>2, <1>4, <2>1 DEF Does, Living, Holding, Compacting
  <2>3. Own(p)' = {}
    BY <2>1, OwnAlone DEF Orderly, Pending
  <2> QED BY <1>1, <1>2, <1>4, <1>5, <1>6, <1>7, <1>8, <2>1, <2>2, <2>3, MemoryOnlyStep
<1> QED BY <1>4, <1>9, <1>10

-----------------------------------------------------------------------------
(* Every step keeps the invariant: the compaction.                         *)

LEMMA PayloadSInv ==
  ASSUME Orderly, IInv, SInv, NEW th \in Threads, Payload(th) PROVE SInv'
<1> DEFINE p == ProcOf[th]
           m == mem[p]
           r == [gen |-> m.gen, t2r |-> m.t2r, ctr |-> m.ctr, key |-> KeyOf[p]]
<1>1. /\ p \in Procs /\ m \in Memory /\ pc[th] = "compact" /\ holder = th
      /\ Doing("compact", job[th], m, raw[th], disk) /\ Living(up[p], "compact", job[th].kind)
      /\ up[p] \in {"down", "boot", "up"} /\ m.gen \in Gens
  BY OwnerType, MemoryOf
     DEF Payload, SInv, Does, Holding, Compacting, IInv, ControlInv, InLifetime, Working
<1>2. Own(p) = {}
  BY <1>1, OwnAlone DEF Orderly, Pending
<1>3. Knowing(m, disk, {}) /\ NoCopy(up[p], m, disk)
  BY <1>1, <1>2 DEF SInv, Knows
<1>4. mem' = mem
  <2>1. [m EXCEPT !.dirty = FALSE] = m
    BY <1>1, <1>3 DEF Memory, Knowing
  <2> QED BY <1>1, <2>1 DEF Payload, SetMem, IInv, MemoryInv
<1>5. Goto(th, "bak") /\ raw' = [raw EXCEPT ![th] = r] /\ UNCHANGED <<up, job, holder, disk, issued>>
  BY DEF Payload
<1>6. Elsewhere(th) /\ pc'[th] = "bak" /\ raw'[th] = r
  BY <1>5, OnlyOwn DEF IInv, FilesInv
<1>7. /\ Intact(r) /\ r.gen = m.gen /\ Pairs(r.t2r) = KeptOn(disk)
      /\ \A q \in Procs : r.key = KeyOf[q]
  <2>1. \A q \in Procs : r.key = KeyOf[q] /\ r.key # None
    BY <1>1 DEF Orderly, OneKeyForAll
  <2>2. r \in Snapshot
    BY <1>1 DEF Snapshot, Memory, Keys
  <2>3. IsFile(r)
    BY <2>2, NoSnapshotAssumption DEF IsFile
  <2>4. Pairs(m.t2r) = KeptOn(disk)
    BY <1>1, <1>3 DEF Doing, Knowing
  <2> QED BY <1>1, <2>1, <2>3, <2>4 DEF Intact
<1> HIDE DEF r, m
<1>8. Doing("bak", job[th], m, r, disk)
  BY <1>1, <1>7 DEF Doing
<1>9. Does(th)'
  BY <1>1, <1>4, <1>5, <1>6, <1>8 DEF Does, Living, Holding, Compacting, m
<1>10. Own(p)' = {}
  BY <1>6, OwnAlone DEF Orderly, Pending
<1>11. IssuedKept'
  BY <1>5, NothingNewIssued
<1>12. up'[p] # "down" /\ pc[th] \in Holding
  BY <1>1, <1>5 DEF Living, Holding, Compacting
<1> QED BY <1>1, <1>3, <1>4, <1>5, <1>6, <1>9, <1>10, <1>11, <1>12, MemoryOnlyStep DEF m

LEMMA RemoveTombstoneSInv ==
  ASSUME Orderly, IInv, SInv, NEW th \in Threads, RemoveTombstone(th) PROVE SInv'
<1> DEFINE p == ProcOf[th]
<1>1. /\ p \in Procs /\ pc[th] = "uncleared" /\ holder = th
      /\ Doing("uncleared", job[th], mem[p], raw[th], disk)
      /\ Living(up[p], "uncleared", job[th].kind) /\ up[p] \in {"down", "boot", "up"}
      /\ \A q \in Procs \ {p} : mem[q].seen # "fresh"
  BY OwnerType DEF RemoveTombstone, SInv, Does, Holding, Compacting, IInv, ControlInv
<1>2. disk' = disk
  <2>1. disk \in Disk /\ disk.cleared = None
    BY DEF IInv, FilesInv, SInv, Quiet
  <2> QED BY <2>1 DEF RemoveTombstone, Disk
<1>3. Goto(th, "truncate") /\ UNCHANGED <<mem, up, job, raw, holder, issued>>
  BY DEF RemoveTombstone
<1>4. Elsewhere(th) /\ pc'[th] = "truncate"
  BY <1>3, OnlyOwn
<1>5. Doing("truncate", job[th], mem[p], raw[th], disk)
  BY <1>1 DEF Doing
<1>6. Does(th)'
  BY <1>1, <1>2, <1>3, <1>4, <1>5 DEF Does, Living, Holding, Compacting
<1>7. Own(p) = {} /\ Own(p)' = {}
  BY <1>1, <1>4, OwnAlone DEF Orderly, Pending
<1>8. IssuedKept'
  BY <1>2, <1>3, NothingNewIssued
<1>9. up'[p] # "down" /\ pc[th] \in Holding
  BY <1>1, <1>3 DEF Living, Holding, Compacting
<1>10. Knowing(mem[p], disk, {}) /\ NoCopy(up[p], mem[p], disk)
  BY <1>1, <1>7 DEF SInv, Knows
<1> QED BY <1>1, <1>2, <1>3, <1>4, <1>6, <1>7, <1>8, <1>9, <1>10, MemoryOnlyStep

\* One line, or a torn one, more: e's files have what d's had, in the journal.
Extends(e, d) ==
  /\ e.main = d.main /\ e.bak = d.bak
  /\ Len(d.journal) \in Nat /\ Len(e.journal) \in Nat /\ Len(d.journal) <= Len(e.journal)
  /\ \A n \in Nat : n <= Len(d.journal) => ReadTo(e, n) = ReadTo(d, n)
  /\ JournalPairs(d) \subseteq JournalPairs(e)

\* Who knows what is kept in d knows nothing that is not kept in e.
LEMMA LongerKnows ==
  ASSUME NEW d, NEW e, Extends(e, d)
  PROVE  /\ KeptOn(d) \subseteq KeptOn(e)
         /\ \A m \in Memory : \A own : Knowing(m, d, own) => Knowing(m, e, own)
         /\ \A m \in Memory : \A life : NoCopy(life, m, d) => NoCopy(life, m, e)
<1>1. KeptOn(d) \subseteq KeptOn(e)
  BY DEF Extends, KeptOn
<1>2. \A m \in Memory : Follows(m, d) => Follows(m, e)
  BY DEF Extends, Follows, Memory
<1>3. ASSUME NEW m \in Memory, NEW own, Knowing(m, d, own) PROVE Knowing(m, e, own)
  BY <1>1, <1>2, <1>3 DEF Knowing, Extends
<1>4. ASSUME NEW m \in Memory, NEW life, NoCopy(life, m, d) PROVE NoCopy(life, m, e)
  BY <1>2, <1>4 DEF NoCopy, Extends, KeptOn
<1> QED BY <1>1, <1>3, <1>4

\* What a sequence with one more element has where.
LEMMA LineAdded ==
  ASSUME NEW S, NEW s \in Seq(S), NEW x \in S, NEW t, t = Append(s, x)
  PROVE  /\ Len(s) \in Nat /\ Len(t) = Len(s) + 1 /\ t \in Seq(S) /\ t[Len(s) + 1] = x
         /\ \A i \in 1 .. Len(s) : t[i] = s[i]
OBVIOUS

\* ... and what is in it.
Adds(e, d, pairs) ==
  /\ Extends(e, d)
  /\ JournalPairs(e) = JournalPairs(d) \cup pairs /\ KeptOn(e) = KeptOn(d) \cup pairs

MappingOf(line) == IF line.tok = None THEN {} ELSE {<<line.tok, line.val>>}

LEMMA AddsMore ==
  ASSUME NEW d, NEW e, NEW f, NEW pairs, Adds(e, d, {}), Adds(f, e, pairs)
  PROVE  Adds(f, d, pairs)
<1>1. Extends(f, d)
  BY DEF Adds, Extends
<1> QED BY <1>1 DEF Adds

LEMMA AddsLine ==
  ASSUME NEW p \in Procs, NEW d, d.journal \in Seq(Entry), LinesOurs(p, d.journal),
         NEW line \in Entry, LineOurs(p, line),
         NEW e, e.journal = Append(d.journal, line), e.main = d.main, e.bak = d.bak
  PROVE  /\ Adds(e, d, MappingOf(line)) /\ LinesOurs(p, e.journal)
         /\ Len(e.journal) = Len(d.journal) + 1
<1>1. /\ Len(e.journal) = Len(d.journal) + 1
      /\ \A n \in Nat : n <= Len(d.journal) => ReadTo(e, n) = ReadTo(d, n)
      /\ JournalPairs(e) = JournalPairs(d) \cup MappingOf(line)
  BY OneLineMore DEF MappingOf
<1>2. /\ Len(d.journal) \in Nat /\ e.journal[Len(d.journal) + 1] = line
      /\ \A i \in 1 .. Len(d.journal) : e.journal[i] = d.journal[i]
  BY LineAdded
<1>3. Extends(e, d)
  BY <1>1, <1>2 DEF Extends
<1>4. KeptOn(e) = KeptOn(d) \cup MappingOf(line)
  BY <1>1 DEF KeptOn
<1>5. ASSUME NEW i \in 1 .. Len(e.journal) PROVE LineOurs(p, e.journal[i])
  <2>1. i \in 1 .. Len(d.journal) \/ i = Len(d.journal) + 1
    BY <1>1, <1>2
  <2> QED BY <1>2, <2>1 DEF LinesOurs
<1> QED BY <1>1, <1>3, <1>4, <1>5 DEF Adds, LinesOurs

\* A journal whose torn tail is terminated has the same pairs.
LEMMA LinesPairs ==
  ASSUME NEW d \in Disk, NEW p \in Procs, Ours(p, d), NEW e, e.journal = Lines(d),
         e.main = d.main, e.bak = d.bak
  PROVE  /\ Adds(e, d, {}) /\ LinesOurs(p, e.journal) /\ e.journal \in Seq(Entry)
         /\ Len(e.journal) = Len(d.journal) + (IF d.torn = None THEN 0 ELSE 1)
<1>1. d.journal \in Seq(Entry) /\ d.torn \in Entry \cup {None} /\ LinesOurs(p, d.journal)
  BY DEF Disk, Ours
<1>2. CASE d.torn = None
  <2>1. e.journal = d.journal
    BY <1>2 DEF Lines
  <2>2. \A n : ReadTo(e, n) = ReadTo(d, n)
    BY <2>1 DEF ReadTo
  <2>3. JournalPairs(e) = JournalPairs(d)
    BY <2>1, <2>2 DEF JournalPairs
  <2>4. Extends(e, d)
    <3>1. Len(d.journal) \in Nat
      BY <1>1
    <3> QED BY <2>1, <2>2, <2>3, <3>1 DEF Extends
  <2>5. Adds(e, d, {})
    BY <2>3, <2>4 DEF Adds, KeptOn
  <2> QED BY <1>1, <1>2, <2>1, <2>5
<1>3. CASE d.torn # None
  <2>1. /\ d.torn \in Entry /\ d.torn.tok = None /\ LineOurs(p, d.torn)
        /\ e.journal = Append(d.journal, d.torn)
    BY <1>1, <1>3 DEF Ours, Lines
  <2>2. Adds(e, d, MappingOf(d.torn)) /\ LinesOurs(p, e.journal)
    BY <1>1, <2>1, AddsLine
  <2>3. MappingOf(d.torn) = {}
    BY <2>1 DEF MappingOf
  <2>4. e.journal \in Seq(Entry) /\ Len(e.journal) = Len(d.journal) + 1
    BY <1>1, <2>1, LineAdded
  <2> QED BY <1>3, <2>2, <2>3, <2>4
<1> QED BY <1>2, <1>3

LEMMA AppendLineSInv ==
  ASSUME Orderly, IInv, SInv, NEW th \in Threads, AppendLine(th) PROVE SInv'
<1> DEFINE p == ProcOf[th]
           line == LineOf(th)
           pair == <<job[th].tok, job[th].val>>
           off == (IF disk.torn = None THEN mem[p].joff
                   ELSE Larger(mem[p].joff, Len(Lines(disk)))) + 1
           n == [mem[p] EXCEPT !.joff = off, !.jlines = Saturated(@ + 1), !.joined = TRUE]
           next == IF n.jlines >= CompactEvery \/ disk.main = None THEN "compact" ELSE "return"
           e == [disk EXCEPT !.journal = Lines(disk)]
           d == [disk EXCEPT !.journal = Append(Lines(disk), line), !.torn = None, !.idle = FALSE]
<1>1. /\ p \in Procs /\ mem[p] \in Memory /\ disk \in Disk /\ pc[th] = "append" /\ holder = th
      /\ Doing("append", job[th], mem[p], raw[th], disk) /\ up[p] = "up"
      /\ Sound(disk) /\ ~BadMain(disk) /\ ~Unloaded(p)
  BY OwnerType, MemoryOf, LoadedThread
     DEF AppendLine, SInv, Does, Holding, Compacting, IInv, FilesInv, FilesSound
<1>2. /\ job[th].kind = "tokenize" /\ job[th].tok # None /\ line \in Entry
      /\ line.tok = job[th].tok /\ line.val = job[th].val /\ line.key = KeyOf[p]
  BY <1>1, LineOfType DEF IInv, ControlInv, Carrying, LineOf
<1>3. /\ SetMem(p, n) /\ disk' = d /\ Goto(th, next) /\ UNCHANGED <<up, job, raw, holder, issued>>
  BY DEF AppendLine
<1>4. /\ n.t2r = mem[p].t2r /\ n.r2t = mem[p].r2t /\ n.gen = mem[p].gen /\ n.seen = mem[p].seen
      /\ (n.dirty <=> mem[p].dirty) /\ (n.memOnly <=> mem[p].memOnly) /\ n.joff = off
  BY <1>1 DEF Memory
<1>5. n \in Memory
  <2>1. off \in Nat /\ Saturated(mem[p].jlines + 1) \in 0 .. CompactEvery
    BY <1>1, LinesType, ConstantsAssumption DEF Memory, Larger, Saturated
  <2> QED BY <1>1, <2>1 DEF Memory
<1>6. /\ e.journal = Lines(disk) /\ e.main = disk.main /\ e.bak = disk.bak
      /\ d.journal = Append(Lines(disk), line) /\ d.main = disk.main /\ d.bak = disk.bak
      /\ d.torn = None /\ d.idle = FALSE /\ d.cleared = disk.cleared
  BY <1>1 DEF Disk
<1>7. next \in {"compact", "return"}
  OBVIOUS
<1> HIDE DEF n, line, d, e, next
<1>8. \A q \in Procs : KeyOf[q] = KeyOf[p] /\ Ours(q, disk)
  BY <1>1 DEF Sound, Orderly, OneKeyForAll
<1>9. /\ Adds(e, disk, {}) /\ e.journal \in Seq(Entry)
      /\ Len(e.journal) = Len(disk.journal) + (IF disk.torn = None THEN 0 ELSE 1)
      /\ \A q \in Procs : LinesOurs(q, e.journal)
  BY <1>1, <1>6, <1>8, LinesPairs
<1>10. d.journal = Append(e.journal, line) /\ d.main = e.main /\ d.bak = e.bak
  BY <1>6
<1>11. /\ Adds(d, e, {pair}) /\ \A q \in Procs : LinesOurs(q, d.journal)
       /\ Len(d.journal) = Len(e.journal) + 1
  <2>1. MappingOf(line) = {pair}
    BY <1>2 DEF MappingOf
  <2>2. \A q \in Procs : LineOurs(q, line)
    BY <1>2, <1>8 DEF LineOurs
  <2> HIDE DEF pair
  <2>3. \A q \in Procs : /\ Adds(d, e, MappingOf(line)) /\ LinesOurs(q, d.journal)
                         /\ Len(d.journal) = Len(e.journal) + 1
    BY <1>2, <1>9, <1>10, <2>2, AddsLine
  <2> QED BY <1>1, <2>1, <2>3
<1>12. Adds(d, disk, {pair})
  BY <1>9, <1>11, AddsMore
<1>13. /\ KeptOn(d) = KeptOn(disk) \cup {pair} /\ JournalPairs(d) = JournalPairs(disk) \cup {pair}
       /\ Extends(d, disk)
  BY <1>12 DEF Adds
<1>14. pair \in Pairs(mem[p].t2r) /\ OneToOne(KeptOn(disk) \cup {pair})
  BY <1>1 DEF Doing
<1>15. Sound(d)
  <2>1. \A q \in Procs : Ours(q, d)
    BY <1>6, <1>8, <1>11 DEF Ours
  <2>2. \A s \in {d.main, d.bak} : Intact(s) => KeptOn(d) \subseteq CopyPairs(s) \cup JournalPairs(d)
    BY <1>1, <1>6, <1>13 DEF Sound
  <2> HIDE DEF pair
  <2> QED BY <1>1, <1>6, <1>13, <1>14, <2>1, <2>2 DEF Sound
<1> HIDE DEF pair
<1>16. n.joff = Len(d.journal)
  <2>1. mem[p].joff = Len(disk.journal) /\ e.journal = Lines(disk) /\ Len(disk.journal) \in Nat
    BY <1>1, <1>6, <1>13 DEF Doing, Extends
  <2>2. CASE disk.torn = None
    BY <1>4, <1>9, <1>11, <2>1, <2>2
  <2>3. CASE disk.torn # None
    <3>1. off = Larger(Len(disk.journal), Len(e.journal)) + 1
      BY <2>1, <2>3
    <3>2. Larger(Len(disk.journal), Len(e.journal)) = Len(e.journal)
      BY <1>9, <2>1, <2>3 DEF Larger
    <3> QED BY <1>4, <1>11, <3>1, <3>2
  <2> QED BY <2>2, <2>3
<1>17. Own(p) = {pair}
  BY <1>1, OwnAlone DEF Orderly, Pending, pair
<1>18. Knowing(mem[p], disk, {pair}) /\ NoCopy("up", mem[p], disk)
  BY <1>1, <1>17 DEF SInv, Knows
<1>19. KeptOn(d) \subseteq Pairs(n.t2r)
  BY <1>1, <1>4, <1>13, <1>14 DEF Doing
<1>20. Follows(n, d)
  <2>1. ReadTo(d, n.joff) \subseteq KeptOn(d)
    BY <1>16 DEF KeptOn, JournalPairs
  <2> QED BY <1>13, <1>16, <1>19, <2>1 DEF Follows, Extends
<1>21. Knowing(n, d, {}) /\ NoCopy("up", n, d)
  <2>1. CopyPairs(d.main) \subseteq Pairs(n.t2r)
    BY <1>19 DEF KeptOn
  <2>2. Knowing(n, d, {})
    BY <1>4, <1>6, <1>13, <1>18, <1>20, <2>1 DEF Knowing, Complete
  <2>3. NoCopy("up", n, d)
    BY <1>6, <1>13, <1>18, <1>20 DEF NoCopy
  <2> QED BY <2>2, <2>3
<1>22. Elsewhere(th) /\ pc'[th] = next
  BY <1>3, OnlyOwn
<1>23. mem'[p] = n /\ \A q \in Procs \ {p} : mem'[q] = mem[q]
  BY <1>1, <1>3 DEF SetMem, IInv, MemoryInv
<1>24. OtherProcs(th)
  <2>1. \A q \in Procs : mem[q] \in Memory
    BY MemoryOf DEF IInv
  <2> QED BY <1>3, <1>13, <1>23, <2>1, LongerKnows DEF SInv, Knows, OtherProcs
<1>25. OtherThreads(th)
  BY <1>1, HeldStep
<1>26. Doing(next, job[th], n, raw[th], d)
  <2>1. job[th].gen = n.gen /\ <<job[th].tok, job[th].val>> \in KeptOn(d)
    BY <1>1, <1>2, <1>4, <1>13 DEF Doing, pair
  <2> QED BY <1>7, <1>16, <1>19, <2>1 DEF Doing
<1>27. Does(th)'
  <2>1. Living(up'[p], next, job'[th].kind)
    BY <1>1, <1>3, <1>7 DEF Living, Holding, Compacting
  <2>2. next \notin {"sweep", "load", "sync", "uncleared", "truncate"}
    BY <1>7
  <2> QED BY <1>1, <1>3, <1>22, <1>23, <1>26, <2>1, <2>2 DEF Does
<1>28. Own(p)' = {} /\ ~Unloaded(p)'
  <2>1. pc'[th] \notin {"append", "sweep", "load"}
    BY <1>7, <1>22
  <2> QED BY <1>1, <1>3, <2>1, OwnAlone DEF Orderly, OneCallEach, Pending, Unloaded
<1>29. Knows(p)'
  BY <1>1, <1>3, <1>21, <1>23, <1>28 DEF Knows
<1>30. Quiet' /\ ~BadMain(disk') /\ IssuedKept'
  <2>1. Quiet' /\ ~BadMain(disk')
    BY <1>1, <1>3, <1>6 DEF SInv, Quiet, BadMain
  <2>2. KeptOn(disk) \subseteq KeptOn(disk')
    BY <1>3, <1>13
  <2> QED BY <1>3, <2>1, <2>2, NothingNewIssued
<1> QED BY <1>3, <1>15, <1>22, <1>24, <1>25, <1>27, <1>29, <1>30, Assemble DEF Orderly

\* r is a snapshot of all that is kept in d.
SnapshotOf(r, d) ==
  Intact(r) /\ Pairs(r.t2r) = KeptOn(d) /\ \A q \in Procs : r.key = KeyOf[q]

\* Writing such a snapshot to one copy after the other, and then emptying the journal, loses
\* nothing.
LEMMA CopyWritten ==
  ASSUME NEW d, NEW e, NEW r, Sound(d), SnapshotOf(r, d),
         e.bak = r, e.main \in {d.main, r}, e.journal = d.journal, e.torn = d.torn
  PROVE  KeptOn(e) = KeptOn(d) /\ JournalPairs(e) = JournalPairs(d) /\ Sound(e)
<1>1. JournalPairs(e) = JournalPairs(d)
  BY DEF JournalPairs, ReadTo
<1>2. CopyPairs(r) = KeptOn(d)
  BY DEF SnapshotOf, CopyPairs
<1>3. KeptOn(e) = KeptOn(d)
  BY <1>1, <1>2 DEF KeptOn
<1>4. \A q \in Procs : Ours(q, e)
  BY DEF Sound, Ours, SnapshotOf
<1> QED BY <1>1, <1>2, <1>3, <1>4 DEF Sound, SnapshotOf

LEMMA JournalEmptied ==
  ASSUME NEW d, NEW e, NEW r, Sound(d), SnapshotOf(r, d),
         e.bak = r, e.main = r, e.journal = <<>>, e.torn = None
  PROVE  KeptOn(e) = KeptOn(d) /\ JournalPairs(e) = {} /\ Sound(e)
<1>1. JournalPairs(e) = {}
  BY DEF JournalPairs, ReadTo, LinePairs
<1>2. CopyPairs(r) = KeptOn(d)
  BY DEF SnapshotOf, CopyPairs
<1>3. KeptOn(e) = KeptOn(d)
  BY <1>1, <1>2 DEF KeptOn
<1>4. \A q \in Procs : Ours(q, e)
  BY DEF Ours, LinesOurs, SnapshotOf
<1> QED BY <1>1, <1>2, <1>3, <1>4 DEF Sound, SnapshotOf

\* What a compacting thread starts a step from.
LEMMA CompactingThread ==
  ASSUME Orderly, IInv, SInv, NEW th \in Threads, pc[th] \in Compacting
  PROVE  /\ ProcOf[th] \in Procs /\ mem[ProcOf[th]] \in Memory /\ disk \in Disk
         /\ holder = th /\ Sound(disk) /\ ~BadMain(disk) /\ ~Unloaded(ProcOf[th])
         /\ Doing(pc[th], job[th], mem[ProcOf[th]], raw[th], disk)
         /\ Living(up[ProcOf[th]], pc[th], job[th].kind)
         /\ up[ProcOf[th]] \in {"boot", "up"}
         /\ Knowing(mem[ProcOf[th]], disk, {}) /\ NoCopy(up[ProcOf[th]], mem[ProcOf[th]], disk)
         /\ pc[th] \in {"bak", "main", "uncleared", "truncate"} => SnapshotOf(raw[th], disk)
<1>1. /\ ProcOf[th] \in Procs /\ mem[ProcOf[th]] \in Memory /\ disk \in Disk
      /\ Sound(disk) /\ ~BadMain(disk) /\ ~Unloaded(ProcOf[th])
  BY OwnerType, MemoryOf, LoadedThread DEF IInv, FilesInv, SInv, FilesSound, Holding
<1>2. /\ holder = th /\ Doing(pc[th], job[th], mem[ProcOf[th]], raw[th], disk)
      /\ Living(up[ProcOf[th]], pc[th], job[th].kind)
  BY DEF SInv, Does, Holding
<1>3. up[ProcOf[th]] \in {"boot", "up"}
  BY <1>1 DEF IInv, ControlInv, Unloaded
<1>4. Own(ProcOf[th]) = {}
  BY OwnAlone DEF Orderly, Pending, Compacting
<1>5. pc[th] \in {"bak", "main", "uncleared", "truncate"} => SnapshotOf(raw[th], disk)
  BY <1>2 DEF Doing, SnapshotOf
<1> QED BY <1>1, <1>2, <1>3, <1>4, <1>5 DEF SInv, Knows

\* The other processes when a file is written that holds what they know already.
LEMMA OthersAfterWrite ==
  ASSUME IInv, SInv, NEW th \in Threads, KeptOn(disk') = KeptOn(disk),
         \/ /\ \A q \in Procs \ {ProcOf[th]} : mem'[q] = mem[q]
            /\ disk'.main = disk.main /\ disk'.journal = disk.journal
         \/ /\ \A q \in Procs \ {ProcOf[th]} :
                 mem'[q] \in {mem[q], Restat(mem[q])} /\ mem'[q].seen # "fresh"
            /\ Intact(disk'.main)
  PROVE  OtherProcs(th)
<1>1. SUFFICES ASSUME NEW q \in Procs \ {ProcOf[th]}
               PROVE  /\ Knowing(mem'[q], disk', Own(q)) /\ NoCopy(up[q], mem'[q], disk')
                      /\ mem[q] = NewMemory => mem'[q] = NewMemory
  BY DEF OtherProcs
<1>2. Knowing(mem[q], disk, Own(q)) /\ NoCopy(up[q], mem[q], disk) /\ mem[q] \in Memory
  BY MemoryOf DEF SInv, Knows, IInv
<1>3. CASE /\ mem'[q] = mem[q]
           /\ disk'.main = disk.main /\ disk'.journal = disk.journal
  <2>1. JournalPairs(disk') = JournalPairs(disk) /\ \A n : ReadTo(disk', n) = ReadTo(disk, n)
    BY <1>3 DEF JournalPairs, ReadTo
  <2>2. Follows(mem[q], disk) => Follows(mem[q], disk')
    BY <1>3, <2>1 DEF Follows
  <2> QED BY <1>2, <1>3, <2>1, <2>2 DEF Knowing, NoCopy
<1>4. CASE /\ mem'[q] \in {mem[q], Restat(mem[q])} /\ mem'[q].seen # "fresh"
           /\ Intact(disk'.main)
  <2>1. /\ Knowing(mem'[q], disk, Own(q)) /\ (mem[q] = NewMemory => mem'[q] = NewMemory)
    BY <1>2, <1>4, RestatKeeps
  <2>2. disk'.main # None
    BY <1>4 DEF Intact, IsFile
  <2> QED BY <1>4, <2>1, <2>2 DEF Knowing, NoCopy
<1> QED BY <1>3, <1>4

LEMMA WriteBakSInv ==
  ASSUME Orderly, IInv, SInv, NEW th \in Threads, WriteBak(th) PROVE SInv'
<1> DEFINE p == ProcOf[th]
           r == raw[th]
           m == mem[p]
<1>1. /\ p \in Procs /\ m \in Memory /\ disk \in Disk /\ holder = th /\ Sound(disk)
      /\ ~BadMain(disk) /\ ~Unloaded(p) /\ Doing("bak", job[th], m, r, disk)
      /\ Living(up[p], "bak", job[th].kind) /\ up[p] \in {"boot", "up"}
      /\ Knowing(m, disk, {}) /\ NoCopy(up[p], m, disk) /\ SnapshotOf(r, disk) /\ pc[th] = "bak"
  <2>1. pc[th] = "bak"
    BY DEF WriteBak
  <2> QED BY <2>1, CompactingThread DEF Compacting
<1>2. /\ disk' = [disk EXCEPT !.bak = r] /\ Goto(th, "main")
      /\ UNCHANGED <<mem, up, job, raw, holder, issued>>
  BY DEF WriteBak
<1>3. /\ disk'.bak = r /\ disk'.main = disk.main /\ disk'.journal = disk.journal
      /\ disk'.torn = disk.torn /\ disk'.idle = disk.idle /\ disk'.cleared = disk.cleared
  BY <1>1, <1>2 DEF Disk
<1>4. KeptOn(disk') = KeptOn(disk) /\ JournalPairs(disk') = JournalPairs(disk) /\ Sound(disk')
  BY <1>1, <1>3, CopyWritten
<1>5. Elsewhere(th) /\ pc'[th] = "main"
  BY <1>2, OnlyOwn
<1>6. OtherProcs(th) /\ OtherThreads(th)
  BY <1>1, <1>2, <1>3, <1>4, OthersAfterWrite, HeldStep
<1>7. Does(th)'
  <2>1. Doing("main", job[th], m, r, disk')
    BY <1>1, <1>3, <1>4 DEF Doing
  <2> QED BY <1>1, <1>2, <1>5, <2>1 DEF Does, Living, Holding, Compacting
<1>8. Own(p)' = {} /\ ~Unloaded(p)'
  BY <1>1, <1>2, <1>5, OwnAlone DEF Orderly, OneCallEach, Pending, Unloaded
<1>9. Knows(p)'
  <2>1. Follows(m, disk) => Follows(m, disk')
    BY <1>3 DEF Follows, ReadTo
  <2>2. Knowing(m, disk', {}) /\ NoCopy(up[p], m, disk')
    BY <1>1, <1>3, <1>4, <2>1 DEF Knowing, NoCopy
  <2> QED BY <1>2, <1>8, <2>2 DEF Knows
<1>10. Quiet' /\ ~BadMain(disk') /\ IssuedKept'
  <2>1. Quiet' /\ ~BadMain(disk')
    BY <1>1, <1>3 DEF SInv, Quiet, BadMain
  <2> QED BY <1>2, <1>4, <2>1, NothingNewIssued
<1> QED BY <1>4, <1>5, <1>6, <1>7, <1>9, <1>10, Assemble DEF Orderly

LEMMA WriteMainSInv ==
  ASSUME Orderly, IInv, SInv, NEW th \in Threads, WriteMain(th) PROVE SInv'
<1> DEFINE p == ProcOf[th]
           r == raw[th]
           m == mem[p]
           n == [m EXCEPT !.seen = "fresh", !.joined = TRUE]
<1>1. /\ p \in Procs /\ m \in Memory /\ disk \in Disk /\ holder = th /\ Sound(disk)
      /\ ~BadMain(disk) /\ ~Unloaded(p) /\ Doing("main", job[th], m, r, disk)
      /\ Living(up[p], "main", job[th].kind) /\ up[p] \in {"boot", "up"}
      /\ Knowing(m, disk, {}) /\ SnapshotOf(r, disk) /\ pc[th] = "main"
  <2>1. pc[th] = "main"
    BY DEF WriteMain
  <2> QED BY <2>1, CompactingThread DEF Compacting
<1>2. /\ disk' = [disk EXCEPT !.main = r, !.idle = FALSE] /\ Goto(th, "uncleared")
      /\ SetMemRestat(p, n) /\ UNCHANGED <<up, job, raw, holder, issued>>
  BY DEF WriteMain
<1>3. /\ disk'.main = r /\ disk'.bak = disk.bak /\ disk'.journal = disk.journal
      /\ disk'.torn = disk.torn /\ disk'.idle = FALSE /\ disk'.cleared = disk.cleared
  BY <1>1, <1>2 DEF Disk
<1>4. /\ n.t2r = m.t2r /\ n.r2t = m.r2t /\ n.gen = m.gen /\ n.seen = "fresh" /\ n.joff = m.joff
      /\ (n.dirty <=> m.dirty) /\ (n.memOnly <=> m.memOnly)
  BY <1>1 DEF Memory
<1> HIDE DEF n
<1>5. disk.bak = r /\ Intact(r) /\ disk'.main # None
  BY <1>1, <1>3 DEF Doing, SnapshotOf, Intact, IsFile
<1>6. KeptOn(disk') = KeptOn(disk) /\ JournalPairs(disk') = JournalPairs(disk) /\ Sound(disk')
  BY <1>1, <1>3, <1>5, CopyWritten
<1>7. Elsewhere(th) /\ pc'[th] = "uncleared"
  BY <1>2, OnlyOwn
<1>8. /\ mem'[p] = n
      /\ \A q \in Procs \ {p} : mem'[q] = Restat(mem[q]) /\ mem'[q].seen # "fresh"
  <2>1. \A q \in Procs : mem[q] \in Memory
    BY MemoryOf DEF IInv
  <2>2. mem'[p] = n /\ \A q \in Procs \ {p} : mem'[q] = Restat(mem[q])
    BY <1>1, <1>2 DEF SetMemRestat
  <2> QED BY <2>1, <2>2, RestatKeeps
<1>9. OtherProcs(th) /\ OtherThreads(th)
  BY <1>1, <1>3, <1>5, <1>6, <1>8, OthersAfterWrite, HeldStep
<1>10. Does(th)'
  <2>1. Doing("uncleared", job[th], n, r, disk')
    BY <1>1, <1>3, <1>4, <1>6 DEF Doing
  <2> QED BY <1>1, <1>2, <1>7, <1>8, <2>1 DEF Does, Living, Holding, Compacting
<1>11. Own(p)' = {} /\ ~Unloaded(p)'
  BY <1>1, <1>2, <1>7, OwnAlone DEF Orderly, OneCallEach, Pending, Unloaded
<1>12. Knows(p)'
  <2>1. Follows(n, disk')
    BY <1>1, <1>3, <1>4, <1>6 DEF Follows, Doing, KeptOn, JournalPairs, Disk
  <2>2. CopyPairs(disk'.main) \subseteq Pairs(n.t2r) /\ n.gen = disk'.main.gen
    BY <1>1, <1>3, <1>4, <1>5 DEF CopyPairs, Doing, SnapshotOf
  <2>3. Knowing(n, disk', {})
    BY <1>1, <1>3, <1>4, <1>5, <1>6, <2>1, <2>2 DEF Knowing, Complete
  <2> QED BY <1>5, <1>8, <1>11, <2>3 DEF Knows, NoCopy
<1>13. Quiet' /\ ~BadMain(disk') /\ IssuedKept'
  <2>1. Quiet' /\ ~BadMain(disk')
    BY <1>1, <1>3, <1>5 DEF SInv, Quiet, BadMain
  <2> QED BY <1>2, <1>6, <2>1, NothingNewIssued
<1> QED BY <1>6, <1>7, <1>9, <1>10, <1>12, <1>13, Assemble DEF Orderly

LEMMA TruncateSInv ==
  ASSUME Orderly, IInv, SInv, NEW th \in Threads, Truncate(th) PROVE SInv'
<1> DEFINE p == ProcOf[th]
           r == raw[th]
           m == mem[p]
           n == [m EXCEPT !.joff = 0, !.jlines = 0]
<1>1. /\ p \in Procs /\ m \in Memory /\ disk \in Disk /\ holder = th /\ Sound(disk)
      /\ ~BadMain(disk) /\ ~Unloaded(p) /\ Doing("truncate", job[th], m, r, disk)
      /\ Living(up[p], "truncate", job[th].kind) /\ up[p] \in {"boot", "up"}
      /\ Knowing(m, disk, {}) /\ SnapshotOf(r, disk) /\ pc[th] = "truncate"
      /\ \A q \in Procs \ {p} : mem[q].seen # "fresh"
  <2>1. pc[th] = "truncate"
    BY DEF Truncate
  <2>2. \A q \in Procs \ {p} : mem[q].seen # "fresh"
    BY <2>1 DEF SInv, Does
  <2> QED BY <2>1, <2>2, CompactingThread DEF Compacting
<1>2. /\ disk' = [disk EXCEPT !.journal = <<>>, !.torn = None]
      /\ SetMem(p, n) /\ raw' = [raw EXCEPT ![th] = None] /\ AfterCompact(th) /\ UNCHANGED issued
  BY DEF Truncate
<1>3. /\ disk'.main = disk.main /\ disk'.bak = disk.bak /\ disk'.journal = <<>>
      /\ disk'.torn = None /\ disk'.idle = disk.idle /\ disk'.cleared = disk.cleared
  BY <1>1, <1>2 DEF Disk
<1>4. /\ n.t2r = m.t2r /\ n.r2t = m.r2t /\ n.gen = m.gen /\ n.seen = m.seen /\ n.joff = 0
      /\ (n.dirty <=> m.dirty) /\ (n.memOnly <=> m.memOnly)
  BY <1>1 DEF Memory
<1> HIDE DEF n
<1>5. disk.bak = r /\ disk.main = r /\ Intact(r) /\ disk.main # None
  BY <1>1 DEF Doing, SnapshotOf, Intact, IsFile
<1>6. KeptOn(disk') = KeptOn(disk) /\ JournalPairs(disk') = {} /\ Sound(disk')
  BY <1>1, <1>3, <1>5, JournalEmptied
<1>7. mem'[p] = n /\ \A q \in Procs \ {p} : mem'[q] = mem[q]
  BY <1>1, <1>2 DEF SetMem, IInv, MemoryInv
<1>8. OtherProcs(th) /\ OtherThreads(th)
  BY <1>1, <1>3, <1>5, <1>6, <1>7, OthersAfterWrite, HeldStep
<1>9. Follows(n, disk')
  BY <1>3, <1>4 DEF Follows, ReadTo, LinePairs
<1>10. Knowing(n, disk', {}) /\ \A life : NoCopy(life, n, disk')
  <2>1. Knowing(n, disk', {})
    BY <1>1, <1>3, <1>4, <1>5, <1>6, <1>9 DEF Knowing, Complete
  <2> QED BY <1>3, <1>5, <2>1 DEF NoCopy
<1>11. Quiet' /\ ~BadMain(disk') /\ IssuedKept'
  <2>1. Quiet' /\ ~BadMain(disk')
    BY <1>1, <1>3 DEF SInv, Quiet, BadMain
  <2> QED BY <1>2, <1>6, <2>1, NothingNewIssued
<1>12. CASE job[th].kind = "tokenize"
  <2> DEFINE next == IF job[th].tok = None THEN "mint" ELSE "return"
  <2>1. Goto(th, next) /\ UNCHANGED <<up, job, holder>>
    BY <1>2, <1>12 DEF AfterCompact
  <2>2. Elsewhere(th) /\ pc'[th] = next
    BY <1>2, <2>1, OnlyOwn
  <2>3. next \in {"mint", "return"} /\ (next = "mint" => job[th].tok = None)
    OBVIOUS
  <2> HIDE DEF next
  <2>4. \A r2 : Doing(next, job[th], n, r2, disk')
    BY <1>1, <1>3, <1>4, <1>6, <2>3 DEF Doing
  <2>5. Living(up[p], next, job[th].kind)
    BY <1>1, <1>12, <2>3 DEF Living, Holding, Compacting
  <2>6. Does(th)'
    BY <1>1, <1>7, <2>1, <2>2, <2>3, <2>4, <2>5 DEF Does
  <2>7. Own(p)' = {} /\ ~Unloaded(p)'
    BY <1>1, <2>1, <2>2, <2>3, OwnAlone DEF Orderly, OneCallEach, Pending, Unloaded
  <2>8. Knows(p)'
    BY <1>7, <1>10, <2>7 DEF Knows
  <2> QED BY <1>6, <1>8, <1>11, <2>2, <2>6, <2>8, Assemble DEF Orderly
<1>13. CASE job[th].kind # "tokenize"
  <2>1. up' = [up EXCEPT ![p] = "up"] /\ Rest(th)
    BY <1>2, <1>13 DEF AfterCompact
  <2>2. Elsewhere(th) /\ pc'[th] = "idle"
    BY <1>2, <2>1, OnlyOwn DEF Rest
  <2>3. up'[p] = "up"
    BY <1>1, <2>1 DEF IInv, ControlInv
  <2>4. Does(th)'
    BY <2>2, <2>3 DEF Does, Living, Holding, Compacting
  <2>5. Own(p)' = {} /\ ~Unloaded(p)'
    BY <1>1, <2>2, <2>3, OwnAlone DEF Orderly, OneCallEach, Pending, Unloaded
  <2>6. Knows(p)'
    BY <1>7, <1>10, <2>5 DEF Knows
  <2> QED BY <1>6, <1>8, <1>11, <2>2, <2>4, <2>6, Assemble DEF Orderly
<1> QED BY <1>12, <1>13

-----------------------------------------------------------------------------
(* Every step keeps the invariant: a process loads.                        *)

\* A vault that has not read anything knows nothing.
LEMMA NewKnows ==
  /\ \A d, own : Knowing(NewMemory, d, own)
  /\ NewMemory \in Memory /\ Restat(NewMemory) = NewMemory /\ NewMemory.seen # "fresh"
<1>1. NewMemory \in Memory
  BY NewMemoryGood
<1>2. Pairs(NewMemory.t2r) = {}
  BY ConstantsAssumption DEF Pairs, NewMemory, NoTokens
<1>3. ~NewMemory.memOnly /\ ~NewMemory.dirty /\ NewMemory.seen = "none"
  BY DEF NewMemory
<1>4. \A d, own : Knowing(NewMemory, d, own)
  BY <1>2, <1>3 DEF Knowing, Complete
<1>5. Restat(NewMemory) = NewMemory
  BY <1>1, RestatKeeps
<1> QED BY <1>1, <1>3, <1>4, <1>5

\* Moving a bad snapshot out of the way loses nothing.
LEMMA QuarantineSound ==
  ASSUME NEW d \in Disk, Sound(d), NEW e,
         e = IF BadMain(d) THEN [d EXCEPT !.main = None] ELSE d
  PROVE  /\ KeptOn(e) = KeptOn(d) /\ JournalPairs(e) = JournalPairs(d) /\ Sound(e) /\ ~BadMain(e)
         /\ e.bak = d.bak /\ e.journal = d.journal /\ e.idle = d.idle /\ e.cleared = d.cleared
         /\ e.main = (IF BadMain(d) THEN None ELSE d.main)
<1>1. CASE ~BadMain(d)
  BY <1>1
<1>2. CASE BadMain(d)
  <2>1. /\ e.main = None /\ e.bak = d.bak /\ e.journal = d.journal /\ e.torn = d.torn
        /\ e.idle = d.idle /\ e.cleared = d.cleared
    BY <1>2 DEF Disk
  <2>2. JournalPairs(e) = JournalPairs(d)
    BY <2>1 DEF JournalPairs, ReadTo
  <2>3. ~Intact(None) /\ ~Intact(d.main) /\ Intact(d.bak) /\ ~IsFile(None)
    BY <1>2 DEF BadMain, Sound, Intact, IsFile
  <2>4. KeptOn(e) = KeptOn(d)
    BY <2>1, <2>2, <2>3 DEF KeptOn, CopyPairs
  <2>5. \A q \in Procs : Ours(q, e)
    BY <2>1, <2>3 DEF Sound, Ours
  <2>6. Sound(e)
    BY <2>1, <2>2, <2>3, <2>4, <2>5 DEF Sound
  <2> QED BY <1>2, <2>1, <2>2, <2>4, <2>6 DEF BadMain
<1> QED BY <1>1, <1>2

LEMMA LoadSInv ==
  ASSUME Orderly, IInv, SInv, NEW th \in Threads, Load(th) PROVE SInv'
<1> DEFINE p == ProcOf[th]
           n == Loaded(p, disk, FreshGen)
           e == IF BadMain(disk) THEN [disk EXCEPT !.main = None] ELSE disk
<1>1. /\ p \in Procs /\ disk \in Disk /\ GoodFiles(disk) /\ Sound(disk) /\ OneKeyForAll
      /\ pc[th] = "load" /\ up[p] = "boot" /\ job[th].kind = "boot" /\ job[th].tok = None
      /\ \A q \in Procs : mem[q] \in Memory /\ up[q] \in {"down", "boot", "up"}
  BY OwnerType, MemoryOf, DiskGood
     DEF Load, IInv, FilesInv, ControlInv, SInv, FilesSound, Does, Living, Orderly
<1>2. Opens(n, p, disk)
  BY <1>1, LoadedPairs
<1>3. ~n.memOnly /\ UpToDate(n, disk)
  BY <1>2 DEF Opens, UpToDate
<1>4. /\ disk' = e /\ UNCHANGED <<raw, issued>>
      /\ IF BadMain(disk) THEN SetMemRestat(p, n) ELSE SetMem(p, n)
      /\ \/ /\ RestoresBackup(p, disk)
            /\ EnterLoad(th) /\ Goto(th, "compact") /\ UNCHANGED <<up, job>>
         \/ /\ ~RestoresBackup(p, disk)
            /\ PassLoad(th) /\ up' = [up EXCEPT ![p] = "up"] /\ Rest(th)
  BY <1>2, <1>3 DEF Load, Opens
<1> HIDE DEF n, e
<1>5. /\ KeptOn(e) = KeptOn(disk) /\ JournalPairs(e) = JournalPairs(disk) /\ Sound(e)
      /\ ~BadMain(e) /\ e.bak = disk.bak /\ e.journal = disk.journal /\ e.idle = disk.idle
      /\ e.cleared = disk.cleared /\ e.main = (IF BadMain(disk) THEN None ELSE disk.main)
  BY <1>1, QuarantineSound DEF e
<1>6. UpToDate(n, e)
  BY <1>3, <1>5 DEF UpToDate
<1>7. Knowing(n, e, {}) /\ Follows(n, e)
  <2>1. Intact(e.main) <=> Intact(disk.main)
    BY <1>5 DEF BadMain, Intact, IsFile
  <2>2. (n.seen # "none" => Intact(e.main)) /\ (n.seen = "fresh" => n.gen = e.main.gen)
    BY <1>2, <1>5, <2>1 DEF Opens, BadMain
  <2>3. GoodFiles(e)
    BY <1>1, <1>5 DEF GoodFiles
  <2> QED BY <1>6, <2>2, <2>3, UpToDateKnows
<1>8. /\ mem'[p] = n
      /\ \A q \in Procs \ {p} : mem'[q] = IF BadMain(disk) THEN Restat(mem[q]) ELSE mem[q]
  BY <1>1, <1>4 DEF SetMem, SetMemRestat, IInv, MemoryInv
<1>9. OtherProcs(th)
  <2>1. SUFFICES ASSUME NEW q \in Procs \ {p}
                 PROVE  /\ Knowing(mem'[q], disk', Own(q)) /\ NoCopy(up[q], mem'[q], disk')
                        /\ mem[q] = NewMemory => mem'[q] = NewMemory
    BY DEF OtherProcs
  <2>2. Knowing(mem[q], disk, Own(q)) /\ NoCopy(up[q], mem[q], disk)
    BY DEF SInv, Knows
  <2>3. CASE ~BadMain(disk)
    BY <1>4, <1>8, <2>2, <2>3 DEF e
  <2>4. CASE BadMain(disk)
    <3>1. Unloaded(q) /\ mem[q] = NewMemory
      BY <2>4 DEF SInv, FilesSound, Knows
    <3>2. up[q] # "up"
      BY <3>1 DEF Unloaded, SInv, Does, Living
    <3>3. mem'[q] = NewMemory
      BY <1>8, <2>4, <3>1, NewKnows
    <3> QED BY <3>2, <3>3, NewKnows DEF NoCopy
  <2> QED BY <2>3, <2>4
<1>10. holder = None
  BY <1>4, LockHad
<1>11. OtherThreads(th)
  BY <1>10, HeldStep
<1>12. Quiet' /\ ~BadMain(disk') /\ IssuedKept'
  <2>1. Quiet' /\ ~BadMain(disk')
    BY <1>4, <1>5 DEF SInv, Quiet
  <2> QED BY <1>4, <1>5, <2>1, NothingNewIssued
<1>13. CASE RestoresBackup(p, disk)
  <2>1. EnterLoad(th) /\ Goto(th, "compact") /\ UNCHANGED <<up, job>>
    BY <1>4, <1>13
  <2>2. Elsewhere(th) /\ pc'[th] = "compact" /\ holder' = th
    BY <1>4, <2>1, OnlyOwn, LockHad
  <2>3. Doing("compact", job[th], n, raw[th], e)
    BY <1>1, <1>6 DEF Doing, UpToDate
  <2>4. Does(th)'
    BY <1>1, <1>4, <1>8, <2>1, <2>2, <2>3 DEF Does, Living, Holding, Compacting
  <2>5. Own(p)' = {} /\ ~Unloaded(p)'
    BY <1>1, <2>1, <2>2, OwnAlone DEF Orderly, OneCallEach, Pending, Unloaded
  <2>6. Knows(p)'
    BY <1>1, <1>4, <1>7, <1>8, <2>1, <2>5 DEF Knows, NoCopy
  <2> QED BY <1>4, <1>5, <1>9, <1>11, <1>12, <2>2, <2>4, <2>6, Assemble DEF Orderly
<1>14. CASE ~RestoresBackup(p, disk)
  <2>1. PassLoad(th) /\ up' = [up EXCEPT ![p] = "up"] /\ Rest(th)
    BY <1>4, <1>14
  <2>2. Elsewhere(th) /\ pc'[th] = "idle"
    BY <1>4, <2>1, OnlyOwn DEF Rest
  <2>3. up'[p] = "up"
    BY <1>1, <2>1 DEF IInv, ControlInv
  <2>4. Does(th)'
    BY <2>2, <2>3 DEF Does, Living, Holding, Compacting
  <2>5. Own(p)' = {} /\ ~Unloaded(p)'
    BY <1>1, <2>2, <2>3, OwnAlone DEF Orderly, OneCallEach, Pending, Unloaded
  <2>6. e.main = None => KeptOn(e) \subseteq JournalPairs(e)
    <3>1. Intact(disk.main) \/ ~Intact(disk.bak)
      BY <1>2, <1>14 DEF Opens
    <3>2. e.main = None => ~Intact(disk.main) /\ ~Intact(e.main)
      BY <1>5 DEF BadMain, Intact, IsFile
    <3> QED BY <1>5, <3>1, <3>2 DEF KeptOn, CopyPairs
  <2>7. Knows(p)'
    BY <1>4, <1>7, <1>8, <2>5, <2>6 DEF Knows, NoCopy
  <2> QED BY <1>4, <1>5, <1>9, <1>11, <1>12, <2>2, <2>4, <2>7, Assemble DEF Orderly
<1> QED BY <1>13, <1>14

-----------------------------------------------------------------------------
(* Every step keeps the invariant: kills and harm.                         *)

\* A process dies; what the others know, and the copies on disk, are as they were.
LEMMA DiesStep ==
  ASSUME IInv, SInv, NEW p \in Procs, Dies(p), Quiet', Sound(disk'), IssuedKept',
         BadMain(disk') => BadMain(disk),
         \A q \in Procs \ {p} : Knowing(mem[q], disk', Own(q)) /\ NoCopy(up[q], mem[q], disk'),
         \A x \in Threads : ProcOf[x] # p /\ pc[x] \in Holding =>
           Doing(pc[x], job[x], mem[ProcOf[x]], raw[x], disk')
  PROVE  SInv'
<1>1. /\ mem'[p] = NewMemory /\ up'[p] = "down"
      /\ \A q \in Procs \ {p} : mem'[q] = mem[q] /\ up'[q] = up[q]
  BY DEF Dies, IInv, MemoryInv, ControlInv
<1>2. \A x \in Threads :
        /\ ProcOf[x] = p => pc'[x] = "idle"
        /\ ProcOf[x] # p => pc'[x] = pc[x] /\ job'[x] = job[x] /\ raw'[x] = raw[x]
  BY DEF Dies
<1>3. ASSUME NEW q \in Procs \ {p}
      PROVE  Own(q)' = Own(q) /\ (Unloaded(q)' <=> Unloaded(q))
  <2>1. \A x \in {y \in Threads : ProcOf[y] = q} : pc'[x] = pc[x] /\ job'[x] = job[x]
    BY <1>2
  <2>2. Own(q)' = Own(q)
    BY <2>1 DEF Own, Pending
  <2>3. Unloaded(q)' <=> Unloaded(q)
    BY <1>1, <2>1 DEF Unloaded
  <2> QED BY <2>2, <2>3
<1>4. ASSUME NEW q \in Procs PROVE Knows(q)'
  <2>1. CASE q # p
    <3>1. Unloaded(q) => mem[q] = NewMemory
      BY DEF SInv, Knows
    <3> QED BY <1>1, <1>3, <2>1, <3>1 DEF Knows
  <2>2. CASE q = p
    BY <1>1, <2>2, NewKnows DEF Knows, NoCopy
  <2> QED BY <2>1, <2>2
<1>5. ASSUME NEW x \in Threads PROVE Does(x)'
  <2>1. CASE ProcOf[x] = p
    BY <1>1, <1>2, <2>1 DEF Does, Living, Holding, Compacting
  <2>2. CASE ProcOf[x] # p
    <3>1. ProcOf[x] \in Procs \ {p} /\ Does(x)
      BY <2>2, OwnerType DEF SInv
    <3>2. pc[x] \in Holding => holder' = x
      BY <2>2, <3>1, ConstantsAssumption DEF Does, Dies
    <3>3. pc[x] \in {"uncleared", "truncate"} =>
            \A q \in Procs \ {ProcOf[x]} : mem'[q].seen # "fresh"
      BY <1>1, <3>1, NewKnows DEF Does
    <3> QED BY <1>1, <1>2, <2>2, <3>1, <3>2, <3>3 DEF Does
  <2> QED BY <2>1, <2>2
<1>6. BadMain(disk') => \A q \in Procs : Unloaded(q)'
  <2>1. Unloaded(p)'
    BY <1>1 DEF Unloaded
  <2>2. BadMain(disk) => \A q \in Procs \ {p} : Unloaded(q)'
    BY <1>3 DEF SInv, FilesSound
  <2> QED BY <2>1, <2>2
<1> QED BY <1>4, <1>5, <1>6 DEF SInv, FilesSound

LEMMA CrashSInv ==
  ASSUME IInv, SInv, NEW p \in Procs, Crash(p) PROVE SInv'
<1>1. Dies(p) /\ UNCHANGED <<disk, issued>>
  BY DEF Crash
<1>2. Quiet' /\ Sound(disk') /\ IssuedKept'
  BY <1>1, NothingNewIssued DEF SInv, FilesSound, Quiet
<1>3. \A q \in Procs : Knowing(mem[q], disk', Own(q)) /\ NoCopy(up[q], mem[q], disk')
  BY <1>1 DEF SInv, Knows
<1>4. \A x \in Threads : pc[x] \in Holding =>
        Doing(pc[x], job[x], mem[ProcOf[x]], raw[x], disk')
  BY <1>1 DEF SInv, Does
<1> QED BY <1>1, <1>2, <1>3, <1>4, DiesStep

LEMMA CrashTornSInv ==
  ASSUME Orderly, IInv, SInv, NEW th \in Threads, CrashTorn(th) PROVE SInv'
<1> DEFINE p == ProcOf[th]
           line == LineOf(th)
           part == [tok |-> None, val |-> None, gen |-> None, key |-> line.key]
           d == [disk EXCEPT !.journal = Lines(disk), !.torn = part, !.idle = FALSE]
<1>1. /\ p \in Procs /\ disk \in Disk /\ pc[th] = "append" /\ holder = th /\ Sound(disk)
      /\ ~BadMain(disk) /\ line.key = KeyOf[p] /\ \A q \in Procs : mem[q] \in Memory
  BY OwnerType, MemoryOf, LoadedThread
     DEF CrashTorn, SInv, Does, Holding, Compacting, IInv, FilesInv, FilesSound, LineOf
<1>2. disk' = d /\ Upset("torn") /\ Dies(p) /\ UNCHANGED issued
  <2>1. ~Upset("torn_whole")
    BY NoUpset
  <2> QED BY <2>1 DEF CrashTorn
<1>3. KeyOf[p] = NoKey /\ \A q \in Procs : KeyOf[q] = KeyOf[p]
  <2>1. Budget["torn"] # 0
    BY <1>2, ConstantsAssumption DEF Upset, IInv, HistoryInv, UpsetKinds
  <2> QED BY <1>1, <2>1 DEF Orderly, OneKeyForAll
<1>4. /\ d.journal = Lines(disk) /\ d.main = disk.main /\ d.bak = disk.bak /\ d.torn = part
      /\ d.idle = FALSE /\ d.cleared = disk.cleared /\ part.tok = None /\ part.key = KeyOf[p]
  BY <1>1 DEF Disk
<1> HIDE DEF d, part
<1>5. \A q \in Procs : Adds(d, disk, {}) /\ LinesOurs(q, d.journal)
  BY <1>1, <1>4, LinesPairs DEF Sound
<1>6. /\ Extends(d, disk) /\ KeptOn(d) = KeptOn(disk) /\ JournalPairs(d) = JournalPairs(disk)
  BY <1>1, <1>5 DEF Adds
<1>7. Sound(d)
  <2>1. \A q \in Procs : Ours(q, d)
    BY <1>1, <1>3, <1>4, <1>5 DEF Sound, Ours, LineOurs
  <2> QED BY <1>1, <1>4, <1>6, <2>1 DEF Sound
<1>8. \A q \in Procs \ {p} : Knowing(mem[q], disk', Own(q)) /\ NoCopy(up[q], mem[q], disk')
  BY <1>1, <1>2, <1>6, LongerKnows DEF SInv, Knows
<1>9. \A x \in Threads : ProcOf[x] # p => pc[x] \notin Holding
  BY <1>1, HeldStep
<1>10. Quiet' /\ ~BadMain(disk') /\ IssuedKept'
  <2>1. Quiet' /\ ~BadMain(disk')
    BY <1>1, <1>2, <1>4 DEF SInv, Quiet, BadMain
  <2> QED BY <1>2, <1>6, <2>1, NothingNewIssued
<1> QED BY <1>1, <1>2, <1>7, <1>8, <1>9, <1>10, DiesStep

\* One copy goes bad or is lost while the other is good and no process runs.
LEMMA HarmStep ==
  ASSUME Orderly, IInv, SInv, NEW f \in {"main", "bak"}, Harm(f), Quiet',
         KeptOn(disk') = KeptOn(disk), Sound(disk')
  PROVE  SInv'
<1>1. \A q \in Procs : up[q] = "down"
  <2>1. ~Upset("damage")
    BY NoUpset
  <2> QED BY <2>1 DEF Harm
<1>2. \A q \in Procs : mem[q] = NewMemory
  BY <1>1 DEF SInv, Knows, Unloaded
<1>3. mem' = mem
  BY <1>2, NewKnows DEF Harm, IInv, MemoryInv
<1>4. UNCHANGED <<up, pc, job, raw, holder, issued>>
  BY DEF Harm
<1>5. \A th \in Threads : pc[th] = "idle"
  BY <1>1, OwnerType DEF SInv, Does, Living
<1>6. \A q \in Procs : Knows(q)'
  BY <1>1, <1>2, <1>3, <1>4, NewKnows DEF Knows, NoCopy
<1>7. \A th \in Threads : Does(th)'
  BY <1>4, <1>5 DEF SInv, Does, Living, Holding, Compacting
<1>8. FilesSound'
  BY <1>1, <1>4 DEF FilesSound, Unloaded
<1>9. IssuedKept'
  BY <1>4, NothingNewIssued
<1> QED BY <1>6, <1>7, <1>8, <1>9 DEF SInv

\* The harmed copy is bad, and the other one holds, with the journal, all that is kept.
LEMMA HarmedSound ==
  ASSUME NEW d \in Disk, Sound(d), NEW f \in {"main", "bak"}, NEW bad, NEW e,
         Intact(d.main), Intact(d.bak), ~Intact(bad),
         \A q \in Procs : IsFile(bad) => bad.key = None /\ KeyOf[q] # NoKey,
         e = [d EXCEPT ![f] = bad]
  PROVE  Sound(e) /\ KeptOn(e) = KeptOn(d) /\ e.idle = d.idle /\ e.cleared = d.cleared
<1>1. /\ e.main = (IF f = "main" THEN bad ELSE d.main) /\ e.bak = (IF f = "bak" THEN bad ELSE d.bak)
      /\ e.journal = d.journal /\ e.torn = d.torn /\ e.idle = d.idle /\ e.cleared = d.cleared
  BY DEF Disk
<1>2. JournalPairs(e) = JournalPairs(d)
  BY <1>1 DEF JournalPairs, ReadTo
<1>3. CopyPairs(bad) = {}
  BY DEF CopyPairs
<1>4. \A s \in {d.main, d.bak} :
        /\ KeptOn(d) \subseteq CopyPairs(s) \cup JournalPairs(d)
        /\ CopyPairs(s) \subseteq KeptOn(d) /\ JournalPairs(d) \subseteq KeptOn(d)
  BY DEF Sound, KeptOn
<1>5. KeptOn(e) = KeptOn(d)
  BY <1>1, <1>2, <1>3, <1>4 DEF KeptOn
<1>6. \A q \in Procs : Ours(q, e)
  BY <1>1 DEF Sound, Ours
<1> QED BY <1>1, <1>2, <1>4, <1>5, <1>6 DEF Sound

LEMMA DamageSInv ==
  ASSUME Orderly, IInv, SInv, NEW f \in {"main", "bak"}, Damage(f) PROVE SInv'
<1> DEFINE s == disk[f]
           bad == IF s.key = NoKey THEN Corrupt ELSE [s EXCEPT !.key = None]
<1>1. /\ disk \in Disk /\ Sound(disk) /\ Intact(disk.main) /\ Intact(disk.bak) /\ Harm(f)
      /\ s \in {disk.main, disk.bak}
  BY DEF IInv, FilesInv, SInv, FilesSound, Damage, Harm
<1>2. disk' = [disk EXCEPT ![f] = bad]
  BY DEF Damage
<1>3. s \in Snapshot /\ s.key # None
  BY <1>1 DEF Disk, Intact, IsFile
<1>4. ~Intact(bad) /\ \A q \in Procs : IsFile(bad) => bad.key = None /\ KeyOf[q] # NoKey
  <2>1. CASE s.key = NoKey
    BY <2>1 DEF Intact, IsFile
  <2>2. CASE s.key # NoKey
    <3>1. bad = [s EXCEPT !.key = None]
      BY <2>2
    <3>2. bad.key = None
      BY <1>3, <3>1 DEF Snapshot
    <3>3. \A q \in Procs : s.key = KeyOf[q]
      BY <1>1, <1>3 DEF Sound, Ours, Intact
    <3> HIDE DEF bad
    <3> QED BY <2>2, <3>2, <3>3 DEF Intact
  <2> QED BY <2>1, <2>2
<1> HIDE DEF bad
<1>5. /\ Sound(disk') /\ KeptOn(disk') = KeptOn(disk)
      /\ disk'.idle = disk.idle /\ disk'.cleared = disk.cleared
  BY <1>1, <1>2, <1>4, HarmedSound
<1> QED BY <1>1, <1>5, HarmStep DEF SInv, Quiet

LEMMA LoseMainSInv ==
  ASSUME Orderly, IInv, SInv, LoseMain PROVE SInv'
<1>1. /\ disk \in Disk /\ Sound(disk) /\ Intact(disk.main) /\ Intact(disk.bak) /\ Harm("main")
  BY DEF IInv, FilesInv, SInv, FilesSound, LoseMain, Harm
<1>2. disk' = [disk EXCEPT !["main"] = None]
  BY DEF LoseMain
<1>3. ~Intact(None) /\ ~IsFile(None)
  BY DEF Intact, IsFile
<1>4. /\ Sound(disk') /\ KeptOn(disk') = KeptOn(disk)
      /\ disk'.idle = disk.idle /\ disk'.cleared = disk.cleared
  BY <1>1, <1>2, <1>3, HarmedSound
<1> QED BY <1>1, <1>4, HarmStep DEF SInv, Quiet

-----------------------------------------------------------------------------
(* The invariant holds.                                                    *)

\* What the assumptions exclude does not happen.
LEMMA Excluded ==
  ASSUME Orderly, IInv, SInv
  PROVE  /\ ~Age
         /\ \A th \in Threads :
              /\ ~SweepExpired(th) /\ ~LoadExpired(th) /\ ~MintLockedOut(th)
              /\ ~CompactNothing(th) /\ ~ClearFiles(th) /\ ~Unlink(th) /\ ~Tombstone(th)
              /\ ~Clear(th) /\ ~AppendFails(th) /\ ~CompactFails(th)
              /\ \A v \in Values, k \in Types : ~TokenizeFar(th, v, k)
<1>1. ~Upset("age") /\ ~Upset("clear") /\ ~Upset("write")
  BY NoUpset
<1>2. ~Age
  BY <1>1 DEF Age
<1>3. ASSUME NEW th \in Threads
      PROVE  /\ ~disk.idle /\ ~mem[ProcOf[th]].memOnly
             /\ pc[th] \in {"idle", "sweep", "load", "sync"} \cup Holding
  BY OwnerType DEF SInv, Quiet, Knows, Knowing, Does, Living
<1>4. ASSUME NEW th \in Threads
      PROVE  ~SweepExpired(th) /\ ~LoadExpired(th) /\ ~MintLockedOut(th) /\ ~CompactNothing(th)
  BY <1>3 DEF SweepExpired, LoadExpired, Expired, MintLockedOut, CompactNothing
<1>5. ASSUME NEW th \in Threads PROVE ~ClearFiles(th) /\ ~Unlink(th) /\ ~Tombstone(th)
  BY <1>3 DEF ClearFiles, Unlink, Tombstone, Holding, Compacting
<1>6. ASSUME NEW th \in Threads PROVE ~Clear(th) /\ ~AppendFails(th) /\ ~CompactFails(th)
  BY <1>1 DEF Clear, AppendFails, CompactFails
<1>7. ASSUME NEW th \in Threads, NEW v \in Values, NEW k \in Types PROVE ~TokenizeFar(th, v, k)
  BY <1>3 DEF TokenizeFar
<1> QED BY <1>2, <1>4, <1>5, <1>6, <1>7

LEMMA InitSInv == Init => SInv
<1> SUFFICES ASSUME Init PROVE SInv
  OBVIOUS
<1>1. /\ mem = [p \in Procs |-> NewMemory] /\ up = [p \in Procs |-> "down"]
      /\ pc = [th \in Threads |-> "idle"] /\ issued = {}
      /\ disk.main = None /\ disk.bak = None /\ disk.journal = <<>> /\ disk.torn = None
      /\ ~disk.idle /\ disk.cleared = None
  BY DEF Init
<1>2. KeptOn(disk) = {} /\ JournalPairs(disk) = {}
  BY <1>1 DEF KeptOn, CopyPairs, Intact, IsFile, JournalPairs, ReadTo, LinePairs
<1>3. \A p \in Procs : Ours(p, disk)
  BY <1>1 DEF Ours, LinesOurs, IsFile
<1>4. FilesSound
  BY <1>1, <1>2, <1>3 DEF FilesSound, Sound, OneToOne, BadMain, Intact, IsFile
<1>5. \A p \in Procs : Knows(p)
  BY <1>1, NewKnows DEF Knows, NoCopy
<1>6. \A th \in Threads : Does(th)
  BY <1>1, OwnerType DEF Does, Living, Holding, Compacting
<1> QED BY <1>1, <1>4, <1>5, <1>6 DEF SInv, Quiet, IssuedKept, KeepsAll

LEMMA StutterSInv == SInv /\ UNCHANGED vars => SInv'
<1> SUFFICES ASSUME SInv, UNCHANGED vars PROVE SInv'
  OBVIOUS
<1>1. UNCHANGED <<mem, up, pc, job, raw, holder, disk, issued>>
  BY DEF vars
<1>2. Quiet' /\ FilesSound' /\ IssuedKept'
  BY <1>1 DEF SInv, Quiet, FilesSound, Unloaded, IssuedKept
<1>3. \A p \in Procs : Knows(p)'
  BY <1>1 DEF SInv, Knows, Unloaded, Own, Pending
<1>4. \A th \in Threads : Does(th)'
  BY <1>1 DEF SInv, Does
<1> QED
  BY <1>2, <1>3, <1>4 DEF SInv

LEMMA NextSInv == Orderly /\ IInv /\ SInv /\ [Next]_vars => SInv'
<1> SUFFICES ASSUME Orderly, IInv, SInv, [Next]_vars PROVE SInv'
  OBVIOUS
<1>1. ASSUME NEW th \in Threads, Operation(th) PROVE SInv'
  BY <1>1, Excluded, StartSInv, ReuseSInv, CallSInv, RestoreHitSInv DEF Operation
<1>2. ASSUME NEW th \in Threads, Step(th) PROVE SInv'
  BY <1>2, Excluded, SweepNothingSInv, LoadSInv, SyncSInv, MintFoundSInv, MintNewSInv,
     AppendLineSInv, ReturnSInv, PayloadSInv, WriteBakSInv, WriteMainSInv, RemoveTombstoneSInv,
     TruncateSInv DEF Step
<1>3. ASSUME Environment PROVE SInv'
  BY <1>3, Excluded, CrashSInv, CrashTornSInv, DamageSInv, LoseMainSInv DEF Environment
<1>4. CASE UNCHANGED vars
  BY <1>4, StutterSInv
<1> QED BY <1>1, <1>2, <1>3, <1>4 DEF Next

\* Under the assumptions what is kept is never lost, and whoever has the lock knows it.
THEOREM StoreInvariance == Orderly => (Spec => []SInv)
<1>1. SUFFICES ASSUME Orderly PROVE Spec => []SInv
  OBVIOUS
<1>2. IInv /\ SInv /\ [Next]_vars => SInv'
  BY <1>1, NextSInv
<1>3. Spec => []IInv
  BY Invariance
<1> QED BY <1>2, <1>3, InitSInv, PTL DEF Spec

-----------------------------------------------------------------------------
(* What follows from the invariant.                                        *)

\* A process that knows all that is kept restores what was handed out.
LEMMA RestoresKept ==
  ASSUME IInv, NEW n, NEW d, KeptOn(d) \subseteq Pairs(n.t2r), NEW r \in issued,
         PairOf(r) \in KeptOn(d)
  PROVE  n.t2r[r.tok] = r.val
<1>1. r.tok \in Tokens /\ r.val \in Values
  BY DEF IInv, HistoryInv
<1>2. PairOf(r)[1] = r.tok /\ PairOf(r)[2] = r.val
  BY DEF PairOf
<1> QED BY <1>2 DEF Pairs

\* The journal is written before a token is returned, and a compaction copies before it
\* empties: whoever starts and has the lock restores every token of the lifetime it joins,
\* whatever was killed or torn and whichever copy went bad (durable_vault.py:413-460).
THEOREM NothingIsLost == Orderly => (Spec => []Durable)
<1>1. SUFFICES ASSUME Orderly PROVE Spec => []Durable
  OBVIOUS
<1>2. IInv /\ SInv => Durable
  <2>1. SUFFICES ASSUME IInv, SInv, NEW p \in Procs, NEW r \in issued
                 PROVE  Loaded(p, disk, None).t2r[r.tok] = r.val
    BY DEF Durable
  <2>2. Opens(Loaded(p, disk, None), p, disk)
    BY <1>1, <2>1, DiskGood, LoadedPairs DEF Orderly, SInv, FilesSound, IInv, FilesInv
  <2>3. KeptOn(disk) \subseteq Pairs(Loaded(p, disk, None).t2r)
    BY <2>2 DEF Opens, UpToDate
  <2>4. PairOf(r) \in KeptOn(disk)
    BY <2>1 DEF SInv, IssuedKept, KeepsAll
  <2> QED BY <2>1, <2>3, <2>4, RestoresKept
<1>3. Spec => []IInv /\ []SInv
  BY <1>1, Invariance, StoreInvariance
<1> QED BY <1>2, <1>3, PTL

\* No process ever restores a token to another value than the one it was handed out for, in
\* whatever order it has merged snapshots and journal lines (durable_vault.py:295-310).
THEOREM RestoredValuesAreRight == Orderly => (Spec => []RestoresFaithfully)
<1>1. SUFFICES ASSUME Orderly PROVE Spec => []RestoresFaithfully
  OBVIOUS
<1>2. IInv /\ SInv => RestoresFaithfully
  <2>1. SUFFICES ASSUME IInv, SInv, NEW p \in Procs, NEW r \in issued,
                        mem[p].t2r[r.tok] # None
                 PROVE  mem[p].t2r[r.tok] = r.val
    BY DEF RestoresFaithfully
  <2> DEFINE v == mem[p].t2r[r.tok]
             found == <<r.tok, v>>
  <2>2. r.tok \in Tokens /\ PairOf(r)[1] = r.tok /\ PairOf(r)[2] = r.val
    BY <2>1 DEF IInv, HistoryInv, PairOf
  <2>3. mem[p].t2r \in TokenMap
    BY <2>1, MemoryOf DEF IInv, Memory
  <2>4. found \in Pairs(mem[p].t2r)
    BY <2>1, <2>2, <2>3, PairIn
  <2>5. found \in KeptOn(disk) \cup Own(p)
    BY <2>1, <2>4 DEF SInv, Knows, Knowing
  <2>6. PairOf(r) \in KeptOn(disk) /\ OneToOne(KeptOn(disk))
    BY <2>1 DEF SInv, IssuedKept, KeepsAll, FilesSound, Sound
  <2>7. found[1] = r.tok /\ found[2] = v
    OBVIOUS
  <2> HIDE DEF found, v
  <2>8. CASE found \in KeptOn(disk)
    BY <2>2, <2>6, <2>7, <2>8 DEF OneToOne, v
  <2>9. CASE found \in Own(p)
    <3>1. PICK th \in Threads : found \in Pending(th)
      BY <2>9 DEF Own
    <3>2. pc[th] = "append" /\ found = <<job[th].tok, job[th].val>>
      BY <3>1 DEF Pending
    <3>3. OneToOne(KeptOn(disk) \cup {found})
      BY <2>1, <3>2 DEF SInv, Does, Doing, Holding
    <3> QED BY <2>2, <2>6, <2>7, <3>3 DEF OneToOne, v
  <2> QED BY <2>5, <2>8, <2>9
<1>3. Spec => []IInv /\ []SInv
  BY <1>1, Invariance, StoreInvariance
<1> QED BY <1>2, <1>3, PTL

\* Processes that have read the snapshot are in its lifetime, whoever wrote it and whichever
\* of them was there first (durable_vault.py:359-373).
THEOREM LifetimeIsShared == Orderly => (Spec => []SharedLifetime)
<1>1. SUFFICES ASSUME Orderly PROVE Spec => []SharedLifetime
  OBVIOUS
<1>2. SInv => SharedLifetime
  BY DEF SInv, Knows, Knowing, SharedLifetime
<1>3. Spec => []SInv
  BY <1>1, StoreInvariance
<1> QED BY <1>2, <1>3, PTL

-----------------------------------------------------------------------------
(* A restore that looked at the disk.                                      *)

\* A thread's step moves no other thread.
LEMMA OneMoves ==
  ASSUME IInv, NEW x \in Threads, NEW th \in Threads, th # x, Operation(x) \/ Step(x)
  PROVE  pc'[th] = pc[th]
<1>1. pc \in [Threads -> PCs]
  BY DEF IInv, ControlInv
<1>2. CASE Operation(x)
  BY <1>1, <1>2 DEF Operation, Start, Reuse, TokenizeFar, TokenizeNew, RestoreHit, RestoreMiss,
     Save, Clear, Begin, Goto
<1>3. CASE SweepExpired(x) \/ SweepNothing(x) \/ LoadExpired(x) \/ Load(x) \/ Sync(x)
  BY <1>1, <1>3 DEF SweepExpired, SweepNothing, LoadExpired, Load, Sync, Rest, Goto
<1>4. CASE MintLockedOut(x) \/ MintFound(x) \/ MintNew(x) \/ AppendLine(x) \/ Return(x)
  BY <1>1, <1>4 DEF MintLockedOut, MintFound, MintNew, AppendLine, Return, Rest, Goto
<1>5. CASE CompactNothing(x) \/ Payload(x) \/ WriteBak(x) \/ WriteMain(x) \/ RemoveTombstone(x)
           \/ Truncate(x)
  BY <1>1, <1>5 DEF CompactNothing, Payload, WriteBak, WriteMain, RemoveTombstone, Truncate,
     AfterCompact, Rest, Goto
<1>6. CASE ClearFiles(x) \/ Unlink(x) \/ Tombstone(x)
  BY <1>1, <1>6 DEF ClearFiles, Unlink, Tombstone, Rest, Goto
<1> QED BY <1>2, <1>3, <1>4, <1>5, <1>6 DEF Step

\* A thread that waits for the lock goes on by a sync, or dies.
LEMMA OnlySyncEnds ==
  ASSUME Orderly, IInv, SInv, [Next]_vars, NEW th \in Threads,
         pc[th] = "sync", pc'[th] = "idle", up'[ProcOf[th]] = "up"
  PROVE  Sync(th)
<1>1. pc'[th] # pc[th]
  OBVIOUS
<1>2. ASSUME NEW x \in Threads, Operation(x) \/ Step(x) PROVE Sync(th)
  <2>1. x = th
    BY <1>1, <1>2, OneMoves
  <2>2. ~Operation(th)
    BY <1>1 DEF Operation, Start, Reuse, TokenizeFar, TokenizeNew, RestoreHit, RestoreMiss,
       Save, Clear, Ready, SInv, Does, Living
  <2>3. Step(th) => Sync(th)
    BY DEF Step, SweepExpired, SweepNothing, LoadExpired, Load, MintLockedOut, MintFound, MintNew,
       AppendLine, Return, CompactNothing, Payload, WriteBak, WriteMain, RemoveTombstone,
       Truncate, ClearFiles, Unlink, Tombstone
  <2> QED BY <1>2, <2>1, <2>2, <2>3
<1>3. ASSUME NEW p \in Procs, Dies(p) PROVE FALSE
  <2>1. CASE p = ProcOf[th]
    BY <1>3, <2>1 DEF Dies, IInv, ControlInv
  <2>2. CASE p # ProcOf[th]
    BY <1>1, <1>3, <2>2 DEF Dies
  <2> QED BY <2>1, <2>2
<1>4. ~Environment
  BY <1>1, <1>3, Excluded, OwnerType
     DEF Environment, CrashTorn, Crash, Damage, LoseMain, Harm
<1>5. ~UNCHANGED vars
  BY <1>1 DEF vars
<1> QED BY <1>2, <1>4, <1>5 DEF Next

\* What a sync makes of its process.
LEMMA SyncedKnows ==
  ASSUME Orderly, IInv, SInv, NEW th \in Threads, Sync(th)
  PROVE  UpToDate(mem'[ProcOf[th]], disk)
<1> DEFINE p == ProcOf[th]
           n == Synced(p, mem[p], disk, FreshGen)
<1>1. /\ p \in Procs /\ mem[p] \in Memory /\ pc[th] = "sync" /\ GoodFiles(disk) /\ Sound(disk)
  BY OwnerType, MemoryOf, DiskGood DEF Sync, IInv, FilesInv, SInv, FilesSound
<1>2. up[p] = "up" /\ ~BadMain(disk)
  BY <1>1, LoadedThread DEF Compacting
<1>3. Own(p) = {}
  BY <1>1, OwnAlone DEF Orderly, Pending
<1>4. Knowing(mem[p], disk, {}) /\ NoCopy("up", mem[p], disk)
  BY <1>1, <1>2, <1>3 DEF SInv, Knows
<1>5. UpToDate(n, disk)
  BY <1>1, <1>2, <1>4, SyncedPairs DEF Orderly
<1>6. mem'[p] = n
  BY <1>1 DEF Sync, SetMem, IInv, MemoryInv
<1> QED BY <1>5, <1>6

\* A restore that had to look at the disk knows, when it is done, every token that was
\* handed out before (durable_vault.py:137-150, 324-376).
THEOREM RestoreFinds == Orderly => (Spec => RestoreFindsIssued)
<1>1. SUFFICES ASSUME Orderly PROVE Spec => RestoreFindsIssued
  OBVIOUS
<1> DEFINE Found(th) ==
      pc[th] = "sync" /\ job[th].kind = "restore" /\ pc'[th] = "idle" /\ up'[ProcOf[th]] = "up"
        => \A r \in issued : mem'[ProcOf[th]].gen = r.gen
                               => mem'[ProcOf[th]].t2r[r.tok] = r.val
<1>2. IInv /\ SInv /\ [Next]_vars => \A th \in Threads : Found(th)
  <2>1. SUFFICES ASSUME IInv, SInv, [Next]_vars, NEW th \in Threads,
                        pc[th] = "sync", pc'[th] = "idle", up'[ProcOf[th]] = "up",
                        NEW r \in issued
                 PROVE  mem'[ProcOf[th]].t2r[r.tok] = r.val
    OBVIOUS
  <2>2. Sync(th)
    BY <1>1, <2>1, OnlySyncEnds
  <2>3. KeptOn(disk) \subseteq Pairs(mem'[ProcOf[th]].t2r)
    BY <1>1, <2>1, <2>2, SyncedKnows DEF UpToDate
  <2>4. PairOf(r) \in KeptOn(disk)
    BY <2>1 DEF SInv, IssuedKept, KeepsAll
  <2> QED BY <2>1, <2>3, <2>4, RestoresKept
<1>3. Spec => []IInv /\ []SInv
  BY <1>1, Invariance, StoreInvariance
<1> QED BY <1>2, <1>3, PTL DEF Spec, RestoreFindsIssued

-----------------------------------------------------------------------------
(* The vault implements the token store.                                   *)

Handed(p) == {r \in issued : r.gen = mem[p].gen}

\* A process that knows all that is kept can restore all of its lifetime's tokens.
LEMMA RestorableAll ==
  ASSUME IInv, SInv, NEW p \in Procs, KeptOn(disk) \subseteq Pairs(mem[p].t2r)
  PROVE  \A r \in Handed(p) : mem[p].t2r[r.tok] = r.val
BY RestoresKept DEF Handed, SInv, IssuedKept, KeepsAll

\* Nothing the store sees of a process has changed.
Seen(m, n) == n.gen = m.gen /\ \A r \in issued : r.gen = m.gen =>
                (n.t2r[r.tok] = r.val <=> m.t2r[r.tok] = r.val)

\* Nothing is handed out and no process's part of the store changes.
LEMMA StoreStays ==
  ASSUME IInv, UNCHANGED issued, \A q \in Procs : Seen(mem[q], mem'[q])
  PROVE  UNCHANGED Store!vars
<1>1. \A q \in Procs : Restorable[q]' = Restorable[q]
  BY DEF Restorable, Seen
<1>2. Restorable' = Restorable
  BY <1>1 DEF Restorable
<1>3. [p \in Procs |-> mem[p].gen]' = [p \in Procs |-> mem[p].gen]
  BY DEF Seen
<1> QED BY <1>2, <1>3 DEF Store!vars

\* Only process p changes, and it knows all of its lifetime, or nothing.
LEMMA StoreLearns ==
  ASSUME IInv, UNCHANGED issued, NEW p \in Procs, mem'[p].gen \in Gens \cup {None},
         \A q \in Procs \ {p} : Seen(mem[q], mem'[q]),
         \/ \A r \in issued : mem'[p].gen = r.gen => mem'[p].t2r[r.tok] = r.val
         \/ mem'[p].gen = None
  PROVE  [Store!Next]_(Store!vars)
<1> DEFINE life == [q \in Procs |-> mem[q].gen]
           of(g) == {r \in issued : r.gen = g}
<1>1. \A r \in issued : r.gen \in Gens /\ r.gen # None
  BY ConstantsAssumption DEF IInv, HistoryInv
<1>2. \A q \in Procs \ {p} : Restorable[q]' = Restorable[q] /\ life'[q] = life[q]
  BY DEF Restorable, Seen
<1>3. Restorable[p]' = of(mem'[p].gen)
  BY <1>1 DEF Restorable
<1>4. Restorable[p] \subseteq of(life[p])
  BY DEF Restorable
<1>5. CASE mem'[p].gen = mem[p].gen
  <2>1. life' = life
    BY <1>2, <1>5
  <2>2. Restorable' = [Restorable EXCEPT ![p] = @ \cup of(life[p])]
    <3>1. Restorable[p] \cup of(life[p]) = Restorable'[p]
      BY <1>3, <1>4, <1>5
    <3>2. /\ Restorable = [q \in Procs |-> Restorable[q]]
          /\ Restorable' = [q \in Procs |-> Restorable'[q]]
      BY DEF Restorable
    <3> HIDE DEF of, life
    <3> QED BY <1>2, <3>1, <3>2
  <2>3. Store!Learn(p)
    BY <2>1, <2>2 DEF Store!Learn, Store!Of
  <2> QED BY <2>3 DEF Store!Next
<1>6. CASE mem'[p].gen # mem[p].gen
  <2>1. life' = [life EXCEPT ![p] = mem'[p].gen]
    BY <1>2
  <2>2. Restorable' = [Restorable EXCEPT ![p] = of(mem'[p].gen)]
    BY <1>2, <1>3 DEF Restorable
  <2>3. \E g \in Gens \cup {None} : Store!Join(p, g)
    <3>1. PICK g \in Gens \cup {None} : g = mem'[p].gen
      OBVIOUS
    <3>2. Store!Join(p, g)
      BY <1>6, <2>1, <2>2, <3>1 DEF Store!Join, Store!Of
    <3> QED BY <3>2
  <2> QED BY <2>3 DEF Store!Next
<1> QED BY <1>5, <1>6

\* A kept token is handed out by a process that has it, and no map changes.
LEMMA StoreHands ==
  ASSUME IInv, SInv, NEW p \in Procs, NEW t \in Tokens, NEW v \in Values,
         Issue(t, v, mem[p].gen), mem[p].gen \in Gens, mem[p].t2r[t] = v,
         <<t, v>> \in KeptOn(disk),
         \A q \in Procs : mem'[q].gen = mem[q].gen /\ mem'[q].t2r = mem[q].t2r
  PROVE  [Store!Next]_(Store!vars)
<1> DEFINE r == [tok |-> t, val |-> v, gen |-> mem[p].gen]
           seen == {q \in Procs : mem[q].gen = r.gen /\ mem[q].t2r[t] = v}
           life == [q \in Procs |-> mem[q].gen]
<1>1. r \in Store!Handed /\ r.gen = life[p]
  BY DEF Store!Handed
<1>2. ASSUME NEW s \in issued PROVE Store!Agrees(r, s)
  <2>1. PairOf(s) \in KeptOn(disk) /\ OneToOne(KeptOn(disk))
    BY DEF SInv, IssuedKept, KeepsAll, FilesSound, Sound
  <2>2. PairOf(s)[1] = s.tok /\ PairOf(s)[2] = s.val
    BY DEF PairOf
  <2>3. t = s.tok <=> v = s.val
    BY <2>1, <2>2 DEF OneToOne
  <2> QED BY <2>3 DEF Store!Agrees
<1>3. issued' = issued \cup {r} /\ life' = life
  BY DEF Issue
<1>4. ASSUME NEW q \in Procs
      PROVE  Restorable'[q] = IF q \in seen THEN Restorable[q] \cup {r} ELSE Restorable[q]
  <2>1. Restorable'[q] = {s \in issued \cup {r} : s.gen = mem[q].gen /\ mem[q].t2r[s.tok] = s.val}
    BY <1>3 DEF Restorable
  <2> QED BY <2>1 DEF Restorable
<1>5. Restorable' = [q \in Procs |-> IF q \in seen THEN Restorable[q] \cup {r} ELSE Restorable[q]]
  BY <1>4 DEF Restorable
<1>6. seen \in SUBSET {q \in Procs : life[q] = r.gen} /\ p \in seen
  OBVIOUS
<1> HIDE DEF r, seen
<1>7. Store!Hand(p, r)
  BY <1>1, <1>2, <1>3, <1>5, <1>6 DEF Store!Hand
<1> QED BY <1>1, <1>7 DEF Store!Next

\* The steps that change no map and no lifetime.
SameMaps == \A q \in Procs : mem'[q].gen = mem[q].gen /\ mem'[q].t2r = mem[q].t2r

LEMMA SameMapsStay ==
  ASSUME IInv, UNCHANGED issued, SameMaps PROVE UNCHANGED Store!vars
BY StoreStays DEF SameMaps, Seen

\* One object with its map and lifetime, the others at most with the snapshot's time.
LEMMA OneWithItsMap ==
  ASSUME IInv, NEW p \in Procs, NEW m, m.gen = mem[p].gen, m.t2r = mem[p].t2r,
         SetMem(p, m) \/ SetMemRestat(p, m)
  PROVE  SameMaps
<1>1. \A q \in Procs : mem[q] \in Memory
  BY MemoryOf DEF IInv
<1>2. \A q \in Procs : Restat(mem[q]).gen = mem[q].gen /\ Restat(mem[q]).t2r = mem[q].t2r
  BY <1>1, RestatGood
<1>3. mem \in [Procs -> Memory]
  BY DEF IInv, MemoryInv
<1>4. CASE SetMem(p, m)
  BY <1>3, <1>4 DEF SetMem, SameMaps
<1>5. CASE SetMemRestat(p, m)
  BY <1>2, <1>5 DEF SetMemRestat, SameMaps
<1> QED BY <1>4, <1>5

LEMMA TouchKeepsMaps ==
  ASSUME IInv, NEW p \in Procs, Touch(p) PROVE SameMaps
<1>1. \A q \in Procs : mem[q] \in Memory
  BY MemoryOf DEF IInv
<1>2. \A q \in Procs : Restat(mem[q]).gen = mem[q].gen /\ Restat(mem[q]).t2r = mem[q].t2r
  BY <1>1, RestatGood
<1> QED BY <1>2 DEF Touch, SameMaps

LEMMA Bookkeeping ==
  ASSUME IInv, NEW th \in Threads,
         \/ Start(th) \/ SweepNothing(th) \/ RestoreMiss(th) \/ Save(th) \/ RestoreHit(th)
         \/ \E v \in Values, k \in Types : TokenizeNew(th, v, k)
         \/ AppendLine(th) \/ Payload(th) \/ WriteBak(th) \/ WriteMain(th) \/ RemoveTombstone(th)
         \/ Truncate(th)
  PROVE  UNCHANGED Store!vars
<1> DEFINE p == ProcOf[th]
<1>1. p \in Procs /\ mem[p] \in Memory
  BY OwnerType, MemoryOf DEF IInv
<1>2. UNCHANGED mem => SameMaps
  BY DEF SameMaps
<1>3. CASE Start(th) \/ SweepNothing(th) \/ RestoreMiss(th) \/ Save(th)
           \/ (\E v \in Values, k \in Types : TokenizeNew(th, v, k))
           \/ WriteBak(th) \/ RemoveTombstone(th)
  <2>1. UNCHANGED <<mem, issued>>
    BY <1>3 DEF Start, SweepNothing, RestoreMiss, Save, TokenizeNew, Begin, WriteBak,
       RemoveTombstone
  <2> QED BY <1>2, <2>1, SameMapsStay
<1>4. CASE RestoreHit(th)
  BY <1>1, <1>4, TouchKeepsMaps, SameMapsStay DEF RestoreHit
<1>5. CASE AppendLine(th)
  <2> DEFINE off == (IF disk.torn = None THEN mem[p].joff
                     ELSE Larger(mem[p].joff, Len(Lines(disk)))) + 1
             m == [mem[p] EXCEPT !.joff = off, !.jlines = Saturated(@ + 1), !.joined = TRUE]
  <2>1. SetMem(p, m) /\ UNCHANGED issued
    BY <1>5 DEF AppendLine
  <2>2. m.gen = mem[p].gen /\ m.t2r = mem[p].t2r
    BY <1>1 DEF Memory
  <2> HIDE DEF m
  <2> QED BY <1>1, <2>1, <2>2, OneWithItsMap, SameMapsStay
<1>6. CASE Payload(th)
  <2> DEFINE m == [mem[p] EXCEPT !.dirty = FALSE]
  <2>1. SetMem(p, m) /\ UNCHANGED issued
    BY <1>6 DEF Payload
  <2>2. m.gen = mem[p].gen /\ m.t2r = mem[p].t2r
    BY <1>1 DEF Memory
  <2> HIDE DEF m
  <2> QED BY <1>1, <2>1, <2>2, OneWithItsMap, SameMapsStay
<1>7. CASE WriteMain(th)
  <2> DEFINE m == [mem[p] EXCEPT !.seen = "fresh", !.joined = TRUE]
  <2>1. SetMemRestat(p, m) /\ UNCHANGED issued
    BY <1>7 DEF WriteMain
  <2>2. m.gen = mem[p].gen /\ m.t2r = mem[p].t2r
    BY <1>1 DEF Memory
  <2> HIDE DEF m
  <2> QED BY <1>1, <2>1, <2>2, OneWithItsMap, SameMapsStay
<1>8. CASE Truncate(th)
  <2> DEFINE m == [mem[p] EXCEPT !.joff = 0, !.jlines = 0]
  <2>1. SetMem(p, m) /\ UNCHANGED issued
    BY <1>8 DEF Truncate
  <2>2. m.gen = mem[p].gen /\ m.t2r = mem[p].t2r
    BY <1>1 DEF Memory
  <2> HIDE DEF m
  <2> QED BY <1>1, <2>1, <2>2, OneWithItsMap, SameMapsStay
<1> QED BY <1>3, <1>4, <1>5, <1>6, <1>7, <1>8

\* A mint is not seen until its token is returned.
LEMMA MintUnseen ==
  ASSUME Orderly, IInv, SInv, NEW th \in Threads, MintNew(th) PROVE UNCHANGED Store!vars
<1> DEFINE p == ProcOf[th]
           v == job[th].val
           n == Minted(mem[p], v, job[th].typ, 0)
<1>1. /\ p \in Procs /\ mem[p] \in Memory /\ v \in Values /\ job[th].typ \in Types
      /\ KeptOn(disk) \subseteq Pairs(mem[p].t2r) /\ Complete(mem[p])
  BY OwnerType, MemoryOf
     DEF MintNew, IInv, ControlInv, Carrying, SInv, Does, Doing, Holding, Knows, Knowing
<1>2. HasNumber(mem[p], job[th].typ, 0) /\ SetMem(p, n) /\ UNCHANGED issued
  BY DEF MintNew
<1>3. MintOf(n, mem[p], v)
  BY <1>1, <1>2, MintedPairs
<1> HIDE DEF n
<1>4. mem'[p] = n /\ \A q \in Procs \ {p} : mem'[q] = mem[q]
  BY <1>1, <1>2 DEF SetMem, IInv, MemoryInv
<1>5. KeptOn(disk) \subseteq Pairs(n.t2r) /\ n.gen = mem[p].gen
  BY <1>1, <1>3 DEF MintOf
<1>6. \A r \in issued : mem[p].t2r[r.tok] = r.val /\ n.t2r[r.tok] = r.val
  BY <1>1, <1>5, RestoresKept DEF SInv, IssuedKept, KeepsAll
<1>7. \A q \in Procs : Seen(mem[q], mem'[q])
  BY <1>4, <1>5, <1>6 DEF Seen
<1> QED BY <1>2, <1>7, StoreStays

LEMMA HandsOver ==
  ASSUME Orderly, IInv, SInv, NEW th \in Threads,
         MintFound(th) \/ Return(th) \/ \E v \in Values : Reuse(th, v)
  PROVE  [Store!Next]_(Store!vars)
<1> DEFINE p == ProcOf[th]
<1>1. p \in Procs /\ mem[p] \in Memory /\ CoherentMemory(mem[p])
  BY OwnerType, MemoryOf DEF IInv
<1>2. ASSUME NEW v \in Values, mem[p].r2t[v] # None, pc[th] # "append"
      PROVE  /\ mem[p].r2t[v] \in Tokens /\ mem[p].t2r[mem[p].r2t[v]] = v
             /\ <<mem[p].r2t[v], v>> \in KeptOn(disk)
  BY <1>1, <1>2, IdleKnows DEF CoherentMemory
<1>3. ASSUME NEW v \in Values, Reuse(th, v) PROVE [Store!Next]_(Store!vars)
  <2>1. /\ pc[th] = "idle" /\ up[p] = "up" /\ mem[p].r2t[v] # None
        /\ Issue(mem[p].r2t[v], v, mem[p].gen) /\ Touch(p)
    BY <1>3 DEF Reuse, Ready
  <2>2. mem[p].gen \in Gens
    BY <1>1, <2>1 DEF IInv, InLifetime
  <2>3. SameMaps
    BY <1>1, <2>1, TouchKeepsMaps
  <2> QED BY <1>1, <1>2, <2>1, <2>2, <2>3, StoreHands DEF SameMaps
<1>4. CASE MintFound(th)
  <2> DEFINE v == job[th].val
  <2>1. /\ pc[th] = "mint" /\ v \in Values /\ mem[p].r2t[v] # None
        /\ Issue(mem[p].r2t[v], v, mem[p].gen) /\ UNCHANGED mem
    BY <1>4 DEF MintFound, IInv, ControlInv, Carrying
  <2>2. mem[p].gen \in Gens
    BY <2>1 DEF IInv, InLifetime, Working
  <2> HIDE DEF v
  <2> QED BY <1>1, <1>2, <2>1, <2>2, StoreHands
<1>5. CASE Return(th)
  <2> DEFINE t == job[th].tok
             v == job[th].val
             pair == <<t, v>>
  <2>1. /\ pc[th] = "return" /\ t # None /\ Issue(t, v, job[th].gen) /\ UNCHANGED mem
    BY <1>5 DEF Return, IInv, ControlInv, Carrying
  <2>2. /\ job[th].gen = mem[p].gen /\ pair \in KeptOn(disk) /\ pair \in Pairs(mem[p].t2r)
    BY <2>1 DEF SInv, Does, Doing, Holding
  <2>3. t \in Tokens /\ v \in Values /\ mem[p].t2r[t] = v
    BY <2>2 DEF Pairs
  <2>4. mem[p].gen \in Gens
    BY <2>1 DEF IInv, InLifetime, Working
  <2> HIDE DEF t, v
  <2> QED BY <1>1, <2>1, <2>2, <2>3, <2>4, StoreHands
<1> QED BY <1>3, <1>4, <1>5

\* A sync or a load learns all there is of its process's lifetime.
LEMMA ReaderLearns ==
  ASSUME Orderly, IInv, SInv, IInv', NEW th \in Threads, Sync(th) \/ Load(th)
  PROVE  [Store!Next]_(Store!vars)
<1> DEFINE p == ProcOf[th]
           n == Loaded(p, disk, FreshGen)
<1>1. p \in Procs /\ mem'[p].gen \in Gens \cup {None} /\ \A q \in Procs : mem[q] \in Memory
  BY OwnerType, MemoryOf DEF IInv, MemoryInv, Memory
<1>2. UpToDate(mem'[p], disk) /\ UNCHANGED issued
  <2>1. CASE Sync(th)
    BY <2>1, SyncedKnows DEF Sync
  <2>2. CASE Load(th)
    <3>1. Opens(n, p, disk)
      BY <1>1, DiskGood, LoadedPairs DEF Orderly, SInv, FilesSound, IInv, FilesInv
    <3>2. mem'[p] = n
      BY <1>1, <2>2 DEF Load, SetMem, SetMemRestat, IInv, MemoryInv
    <3> QED BY <2>2, <3>1, <3>2 DEF Load, Opens
  <2> QED BY <2>1, <2>2
<1>3. \A q \in Procs \ {p} : mem'[q] \in {mem[q], Restat(mem[q])}
  <2>1. CASE Sync(th)
    BY <1>1, <2>1 DEF Sync, SetMem, IInv, MemoryInv
  <2>2. CASE Load(th)
    BY <1>1, <2>2 DEF Load, SetMem, SetMemRestat, IInv, MemoryInv
  <2> QED BY <2>1, <2>2
<1>4. \A q \in Procs \ {p} : Seen(mem[q], mem'[q])
  <2>1. \A q \in Procs : Restat(mem[q]).gen = mem[q].gen /\ Restat(mem[q]).t2r = mem[q].t2r
    BY <1>1, RestatGood
  <2> QED BY <1>3, <2>1 DEF Seen
<1>5. \A r \in issued : mem'[p].t2r[r.tok] = r.val
  <2>1. KeptOn(disk) \subseteq Pairs(mem'[p].t2r)
    BY <1>2 DEF UpToDate
  <2> QED BY <2>1, RestoresKept DEF SInv, IssuedKept, KeepsAll
<1> QED BY <1>1, <1>2, <1>4, <1>5, StoreLearns

\* Who dies forgets.
LEMMA DeathForgets ==
  ASSUME IInv, NEW p \in Procs, Dies(p), UNCHANGED issued
  PROVE  [Store!Next]_(Store!vars)
<1>1. mem'[p] = NewMemory /\ \A q \in Procs \ {p} : mem'[q] = mem[q]
  BY DEF Dies, IInv, MemoryInv
<1>2. mem'[p].gen = None
  BY <1>1 DEF NewMemory
<1>3. \A q \in Procs \ {p} : Seen(mem[q], mem'[q])
  BY <1>1 DEF Seen
<1> QED BY <1>2, <1>3, StoreLearns

LEMMA HarmUnseen ==
  ASSUME IInv, NEW f \in {"main", "bak"}, Harm(f) PROVE UNCHANGED Store!vars
<1>1. \A q \in Procs : mem[q] \in Memory
  BY MemoryOf DEF IInv
<1>2. \A q \in Procs : Restat(mem[q]).gen = mem[q].gen /\ Restat(mem[q]).t2r = mem[q].t2r
  BY <1>1, RestatGood
<1>3. SameMaps /\ UNCHANGED issued
  BY <1>2 DEF Harm, SameMaps
<1> QED BY <1>3, SameMapsStay

LEMMA StoreNext ==
  Orderly /\ IInv /\ SInv /\ IInv' /\ [Next]_vars => [Store!Next]_(Store!vars)
<1> SUFFICES ASSUME Orderly, IInv, SInv, IInv', [Next]_vars
             PROVE  [Store!Next]_(Store!vars)
  OBVIOUS
<1>1. ASSUME NEW th \in Threads, Operation(th) PROVE [Store!Next]_(Store!vars)
  BY <1>1, Excluded, Bookkeeping, HandsOver DEF Operation
<1>2. ASSUME NEW th \in Threads, Step(th) PROVE [Store!Next]_(Store!vars)
  BY <1>2, Excluded, Bookkeeping, HandsOver, MintUnseen, ReaderLearns DEF Step
<1>3. CASE Environment
  <2>1. ASSUME NEW f \in {"main", "bak"}, Damage(f) PROVE [Store!Next]_(Store!vars)
    BY <2>1, HarmUnseen DEF Damage
  <2>2. CASE LoseMain
    BY <2>2, HarmUnseen DEF LoseMain
  <2>3. ASSUME NEW p \in Procs, Crash(p) PROVE [Store!Next]_(Store!vars)
    BY <2>3, DeathForgets DEF Crash
  <2>4. ASSUME NEW th \in Threads, CrashTorn(th) PROVE [Store!Next]_(Store!vars)
    BY <2>4, OwnerType, DeathForgets DEF CrashTorn
  <2> QED BY <1>3, <2>1, <2>2, <2>3, <2>4, Excluded DEF Environment
<1>4. CASE UNCHANGED vars
  <2>1. UNCHANGED Store!vars
    BY <1>4 DEF vars, Store!vars, Restorable
  <2> QED BY <2>1
<1> QED BY <1>1, <1>2, <1>3, <1>4 DEF Next

\* Whatever the processes, the files and the crashes do, those who use the vault see a store
\* in which a value has one token and a token one value, nothing handed out is taken back,
\* and a process that can restore a token can do so as long as it stays in the lifetime
\* (TokenStore; durable_vault.py as a whole).
THEOREM VaultIsAStore == Orderly => (Spec => ImplementsStore)
<1>1. SUFFICES ASSUME Orderly PROVE Spec => Store!Spec
  BY DEF ImplementsStore
<1>2. Init => Store!Init
  BY DEF Init, Store!Init, Restorable, NewMemory
<1>3. IInv /\ SInv /\ IInv' /\ [Next]_vars => [Store!Next]_(Store!vars)
  BY <1>1, StoreNext
<1>4. Spec => []IInv /\ []SInv
  BY <1>1, Invariance, StoreInvariance
<1> QED BY <1>2, <1>3, <1>4, PTL DEF Spec, Store!Spec
===============================================================================
