-------------------------- MODULE DurableVaultProofs --------------------------
(***************************************************************************)
(* Theorems about DurableVault, for every number of processes, threads,    *)
(* values, lifetimes and upsets: its variables are well typed, and in      *)
(* every process a value's token restores to that value.                   *)
(***************************************************************************)
EXTENDS DurableVault, SequenceTheorems, FiniteSetTheorems, WellFoundedInduction, TLAPS

-----------------------------------------------------------------------------
(* The operators of VaultData: what merging, swapping, minting, reading    *)
(* the journal, synchronising and loading make of a vault object that is   *)
(* well typed and coherent.                                                *)

\* In one vault object a value's token restores to that value.
CoherentMemory(m) == \A v \in Values : m.r2t[v] # None => m.t2r[m.r2t[v]] = v

\* What the files hold is well typed, as far as the operators of VaultData look at it.
GoodFiles(d) ==
  /\ d.main \in Snapshot \cup {None, Corrupt}
  /\ d.bak \in Snapshot \cup {None, Corrupt}
  /\ d.journal \in Seq(Entry)

-----------------------------------------------------------------------------
(* Smallest and greatest numbers.                                          *)

\* A non-empty set of naturals has a least element, and Min is it.
LEMMA MinOfNats ==
  ASSUME NEW S \in SUBSET Nat, S # {}
  PROVE  Min(S) \in S /\ \A y \in S : Min(S) <= y
<1>1. \E x \in S : \A y \in S : ~(<<y, x>> \in OpToRel(<, Nat))
  BY NatLessThanWellFounded, WFMin
<1>2. PICK x \in S : \A y \in S : ~(<<y, x>> \in OpToRel(<, Nat))
  BY <1>1
<1>3. ASSUME NEW y \in S PROVE x <= y
  <2>1. SUFFICES ASSUME ~(x <= y) PROVE FALSE
    OBVIOUS
  <2>2. <<y, x>> \in OpToRel(<, Nat)
    BY <2>1 DEF OpToRel
  <2> QED BY <2>2, <1>2
<1> QED BY <1>3 DEF Min

\* A non-empty set of numbers up to n has a greatest element, and Max is it.
LEMMA MaxOfBounded ==
  ASSUME NEW n \in Nat, NEW S \in SUBSET (0 .. n), S # {}
  PROVE  Max(S) \in S
<1> DEFINE T == {n - x : x \in S}
<1>1. T \in SUBSET Nat /\ T # {}
  OBVIOUS
<1>2. Min(T) \in T /\ \A y \in T : Min(T) <= y
  <2> HIDE DEF T
  <2> QED BY <1>1, MinOfNats
<1>3. PICK x \in S : Min(T) = n - x
  BY <1>2
<1>4. \A y \in S : x >= y
  <2> SUFFICES ASSUME NEW y \in S PROVE x >= y
    OBVIOUS
  <2>1. n - x <= n - y
    BY <1>2, <1>3
  <2> QED BY <2>1
<1> QED BY <1>4 DEF Max

\* The larger of two numbers is one of them.
LEMMA LargerType ==
  ASSUME NEW a \in Nat, NEW b \in Nat
  PROVE  Larger(a, b) \in {a, b}
BY DEF Larger

-----------------------------------------------------------------------------
(* Building blocks.                                                        *)

\* Picking a token from a set of tokens gives one of them, or none.
LEMMA AnyOfType ==
  ASSUME NEW S \in SUBSET Tokens
  PROVE  AnyOf(S) \in Tokens \cup {None} /\ (AnyOf(S) # None => AnyOf(S) \in S)
BY DEF AnyOf

\* A new vault object is well typed and coherent.
LEMMA NewMemoryGood == NewMemory \in Memory /\ CoherentMemory(NewMemory)
BY ConstantsAssumption
   DEF NewMemory, Memory, TokenMap, Counters, NoTokens, NoCounts, CoherentMemory

\* Merging keeps a vault object well typed and coherent: a mapping of ours is never lost
\* or changed, and a value adopts a token only if the token now restores to it.
LEMMA MergeGood ==
  ASSUME NEW m \in Memory, NEW t2r \in TokenMap, NEW ctr \in Counters
  PROVE  /\ Merge(m, t2r, ctr) \in Memory
         /\ CoherentMemory(m) => CoherentMemory(Merge(m, t2r, ctr))
<1> DEFINE new(v) == {t \in Tokens : m.t2r[t] = None /\ t2r[t] = v}
<1>1. \A v \in Values : AnyOf(new(v)) \in Tokens \cup {None}
                          /\ (AnyOf(new(v)) # None => AnyOf(new(v)) \in new(v))
  BY AnyOfType
<1>2. \A k \in Types : Larger(m.ctr[k], ctr[k]) \in 0 .. MaxN
  BY LargerType, ConstantsAssumption DEF Memory, Counters, Larger
<1>3. Merge(m, t2r, ctr) \in Memory
  BY <1>1, <1>2 DEF Merge, Memory, TokenMap, Counters
<1>4. ASSUME CoherentMemory(m), NEW v \in Values, Merge(m, t2r, ctr).r2t[v] # None
      PROVE  Merge(m, t2r, ctr).t2r[Merge(m, t2r, ctr).r2t[v]] = v
  <2>1. CASE m.r2t[v] # None
    <3>1. Merge(m, t2r, ctr).r2t[v] = m.r2t[v]
      BY <2>1 DEF Merge, Memory
    <3>2. m.r2t[v] \in Tokens /\ m.t2r[m.r2t[v]] = v
      BY <1>4, <2>1 DEF CoherentMemory, Memory
    <3>3. v # None
      BY ConstantsAssumption
    <3> QED BY <3>1, <3>2, <3>3 DEF Merge, Memory
  <2>2. CASE m.r2t[v] = None
    <3>1. Merge(m, t2r, ctr).r2t[v] = AnyOf(new(v))
      BY <2>2 DEF Merge, Memory
    <3>2. AnyOf(new(v)) \in new(v)
      BY <1>1, <1>4, <3>1
    <3> QED BY <3>1, <3>2 DEF Merge, Memory
  <2> QED BY <2>1, <2>2
<1> QED BY <1>3, <1>4 DEF CoherentMemory

\* Taking over another lifetime's map gives a well-typed, coherent vault of that lifetime.
LEMMA SwapInGood ==
  ASSUME NEW m \in Memory, NEW t2r \in TokenMap, NEW ctr \in Counters, NEW gen \in Gens,
         NEW joined \in BOOLEAN
  PROVE  /\ SwapIn(m, t2r, ctr, gen, joined) \in Memory
         /\ CoherentMemory(SwapIn(m, t2r, ctr, gen, joined))
         /\ SwapIn(m, t2r, ctr, gen, joined).gen = gen
<1> DEFINE held(v) == {t \in Tokens : t2r[t] = v}
<1>1. \A v \in Values : AnyOf(held(v)) \in Tokens \cup {None}
                          /\ (AnyOf(held(v)) # None => AnyOf(held(v)) \in held(v))
  BY AnyOfType
<1>2. SwapIn(m, t2r, ctr, gen, joined) \in Memory
  <2>1. [v \in Values |-> AnyOf(held(v))] \in [Values -> Tokens \cup {None}]
    BY <1>1
  <2>2. 0 \in 0 .. CompactEvery
    BY ConstantsAssumption
  <2> QED BY <2>1, <2>2 DEF SwapIn, Memory
<1>3. SwapIn(m, t2r, ctr, gen, joined).gen = gen
  BY DEF SwapIn, Memory
<1>4. ASSUME NEW v \in Values, SwapIn(m, t2r, ctr, gen, joined).r2t[v] # None
      PROVE  SwapIn(m, t2r, ctr, gen, joined).t2r[SwapIn(m, t2r, ctr, gen, joined).r2t[v]] = v
  <2>1. SwapIn(m, t2r, ctr, gen, joined).r2t[v] = AnyOf(held(v))
    BY DEF SwapIn, Memory
  <2>2. SwapIn(m, t2r, ctr, gen, joined).t2r = t2r
    BY DEF SwapIn, Memory
  <2> QED BY <1>1, <1>4, <2>1, <2>2
<1> QED BY <1>2, <1>3, <1>4 DEF CoherentMemory

\* Going memory-only keeps the mappings, and the process gets the private generation.
LEMMA GoMemoryOnlyGood ==
  ASSUME NEW m \in Memory, NEW g \in Gens
  PROVE  /\ GoMemoryOnly(m, g) \in Memory
         /\ GoMemoryOnly(m, g).gen = g
         /\ CoherentMemory(m) => CoherentMemory(GoMemoryOnly(m, g))
<1>1. \A k \in Types : (IF m.ctr[k] = 0 THEN 0 ELSE Larger(m.ctr[k], FarBase)) \in 0 .. MaxN
  BY ConstantsAssumption DEF Memory, Counters, Larger
<1>2. GoMemoryOnly(m, g) \in Memory
  BY <1>1 DEF GoMemoryOnly, Memory, Counters
<1>3. GoMemoryOnly(m, g).gen = g
  BY DEF GoMemoryOnly, Memory
<1>4. GoMemoryOnly(m, g).t2r = m.t2r /\ GoMemoryOnly(m, g).r2t = m.r2t
  BY DEF GoMemoryOnly, Memory
<1> QED BY <1>2, <1>3, <1>4 DEF CoherentMemory

LEMMA LockOutGood ==
  ASSUME NEW m \in Memory, NEW g \in Gens
  PROVE  /\ LockOut(m, g) \in Memory
         /\ m.gen \in Gens => LockOut(m, g).gen \in Gens
         /\ CoherentMemory(m) => CoherentMemory(LockOut(m, g))
BY GoMemoryOnlyGood DEF LockOut

\* A minted token was free, so no mapping is lost: the vault stays coherent.
LEMMA MintedGood ==
  ASSUME NEW m \in Memory, NEW v \in Values, NEW k \in Types, NEW base \in Nat,
         HasNumber(m, k, base)
  PROVE  /\ Minted(m, v, k, base) \in Memory
         /\ Minted(m, v, k, base).r2t[v] \in Tokens
         /\ Minted(m, v, k, base).gen = m.gen
         /\ CoherentMemory(m) => CoherentMemory(Minted(m, v, k, base))
<1> DEFINE free == {n \in Numbers : n > Larger(m.ctr[k], base) /\ m.t2r[<<k, n>>] = None}
           num == NextNumber(m, k, base)
           tok == <<k, num>>
<1>1. free \in SUBSET Nat /\ free # {}
  BY ConstantsAssumption DEF HasNumber, Numbers
<1>2. Min(free) \in free
  <2> HIDE DEF free
  <2> QED BY <1>1, MinOfNats
<1>3. num \in Numbers /\ m.t2r[tok] = None
  BY <1>2 DEF NextNumber
<1>4. tok \in Tokens
  BY <1>3 DEF Tokens
<1>5. num \in 0 .. MaxN
  BY <1>3, ConstantsAssumption DEF Numbers
<1> HIDE DEF free, num
<1>6. Minted(m, v, k, base) = [m EXCEPT !.t2r = [m.t2r EXCEPT ![tok] = v],
                                        !.r2t = [m.r2t EXCEPT ![v] = tok],
                                        !.ctr = [m.ctr EXCEPT ![k] = num]]
  BY DEF Minted, num
<1> HIDE DEF tok
<1>7. Minted(m, v, k, base) \in Memory
  <2>1. [m.t2r EXCEPT ![tok] = v] \in TokenMap
    BY DEF Memory, TokenMap
  <2>2. [m.r2t EXCEPT ![v] = tok] \in [Values -> Tokens \cup {None}]
    BY <1>4 DEF Memory
  <2>3. [m.ctr EXCEPT ![k] = num] \in Counters
    BY <1>5 DEF Memory, Counters
  <2> QED BY <1>6, <2>1, <2>2, <2>3 DEF Memory
<1>8. /\ Minted(m, v, k, base).t2r = [m.t2r EXCEPT ![tok] = v]
      /\ Minted(m, v, k, base).r2t = [m.r2t EXCEPT ![v] = tok]
      /\ Minted(m, v, k, base).gen = m.gen
  BY <1>6 DEF Memory
<1>9. m.t2r \in [Tokens -> Values \cup {None}] /\ m.r2t \in [Values -> Tokens \cup {None}]
  BY DEF Memory, TokenMap
<1>10. ASSUME CoherentMemory(m), NEW w \in Values, Minted(m, v, k, base).r2t[w] # None
       PROVE  Minted(m, v, k, base).t2r[Minted(m, v, k, base).r2t[w]] = w
  <2>1. CASE w = v
    BY <1>4, <1>8, <1>9, <2>1
  <2>2. CASE w # v
    <3>1. m.r2t[w] # None /\ m.t2r[m.r2t[w]] = w
      BY <1>8, <1>9, <1>10, <2>2 DEF CoherentMemory
    <3>2. m.r2t[w] # tok
      BY <1>3, <3>1, ConstantsAssumption DEF tok
    <3> QED BY <1>8, <1>9, <2>2, <3>1, <3>2
  <2> QED BY <2>1, <2>2
<1>11. Minted(m, v, k, base).r2t[v] \in Tokens
  BY <1>4, <1>8, <1>9
<1> QED BY <1>7, <1>8, <1>10, <1>11 DEF CoherentMemory

-----------------------------------------------------------------------------
(* Reading the journal.                                                    *)

\* A legible line carries a mapping.
LEMMA LegibleLine ==
  ASSUME NEW p \in Procs, NEW e \in Entry, Legible(p, e)
  PROVE  e.tok \in Tokens /\ e.val \in Values /\ e.gen \in Gens
BY DEF Legible, Entry

\* The lines a merge looks at are lines of the journal, and each carries a mapping.
LEMMA LinesFromGood ==
  ASSUME NEW p \in Procs, NEW d, GoodFiles(d), NEW from \in Nat, NEW i \in LinesFrom(p, d, from)
  PROVE  /\ i \in Nat
         /\ d.journal[i].tok \in Tokens /\ d.journal[i].val \in Values
         /\ d.journal[i].gen \in Gens
<1>1. i \in 1 .. Len(d.journal) /\ Legible(p, d.journal[i])
  BY DEF GoodFiles, LinesFrom
<1>2. i \in Nat /\ d.journal[i] \in Entry
  BY <1>1 DEF GoodFiles
<1> QED BY <1>1, <1>2, LegibleLine

\* What the journal adds to a vault is a token map, ...
LEMMA JournalTokensType ==
  ASSUME NEW p \in Procs, NEW d, GoodFiles(d), NEW from \in Nat
  PROVE  JournalTokens(p, d, from) \in TokenMap
<1> DEFINE lines(t) == {i \in LinesFrom(p, d, from) : d.journal[i].tok = t}
<1>1. SUFFICES ASSUME NEW t \in Tokens, lines(t) # {}
               PROVE  d.journal[Min(lines(t))].val \in Values
  BY DEF JournalTokens, TokenMap
<1>2. lines(t) \in SUBSET Nat
  BY LinesFromGood
<1>3. Min(lines(t)) \in lines(t)
  <2> HIDE DEF lines
  <2> QED BY <1>1, <1>2, MinOfNats
<1> QED BY <1>3, LinesFromGood

\* ... counters ...
LEMMA JournalCountsType ==
  ASSUME NEW p \in Procs, NEW d, GoodFiles(d), NEW from \in Nat
  PROVE  JournalCounts(p, d, from) \in Counters
<1> DEFINE nums(k) == {0} \cup {d.journal[i].tok[2] :
                                  i \in {j \in LinesFrom(p, d, from) : d.journal[j].tok[1] = k}}
<1>1. SUFFICES ASSUME NEW k \in Types PROVE Max(nums(k)) \in 0 .. MaxN
  BY DEF JournalCounts, Counters
<1>2. \A i \in LinesFrom(p, d, from) : d.journal[i].tok[2] \in 0 .. MaxN
  BY LinesFromGood, ConstantsAssumption DEF Tokens, Numbers
<1>3. nums(k) \in SUBSET (0 .. MaxN) /\ nums(k) # {}
  BY <1>2, ConstantsAssumption
<1>4. Max(nums(k)) \in nums(k)
  <2> HIDE DEF nums
  <2> QED BY <1>3, MaxOfBounded, ConstantsAssumption
<1> QED BY <1>3, <1>4

\* ... and at most a generation.
LEMMA JournalGenType ==
  ASSUME NEW p \in Procs, NEW d, GoodFiles(d), NEW from \in Nat
  PROVE  JournalGen(p, d, from) \in Gens \cup {None}
<1> DEFINE lines == LinesFrom(p, d, from)
<1>1. SUFFICES ASSUME lines # {} PROVE d.journal[Min(lines)].gen \in Gens
  BY DEF JournalGen
<1>2. lines \in SUBSET Nat
  BY LinesFromGood
<1>3. Min(lines) \in lines
  <2> HIDE DEF lines
  <2> QED BY <1>1, <1>2, MinOfNats
<1> QED BY <1>3, LinesFromGood

\* There are finitely many lines, so the count of entries stays within its bound.
LEMMA LinesCount ==
  ASSUME NEW p \in Procs, NEW d, GoodFiles(d), NEW from \in Nat, NEW n \in 0 .. CompactEvery
  PROVE  Saturated(n + Cardinality(LinesFrom(p, d, from))) \in 0 .. CompactEvery
<1>1. LinesFrom(p, d, from) \subseteq from + 1 .. Len(d.journal)
  BY DEF LinesFrom
<1>2. IsFiniteSet(from + 1 .. Len(d.journal))
  BY FS_Interval DEF GoodFiles
<1>3. Cardinality(LinesFrom(p, d, from)) \in Nat
  BY <1>1, <1>2, FS_Subset, FS_CardinalityType
<1> QED BY <1>3, ConstantsAssumption DEF Saturated

\* Reading the journal keeps a vault object well typed and coherent, and never takes its
\* generation away.
LEMMA ReadJournalGood ==
  ASSUME NEW p \in Procs, NEW m \in Memory, NEW d, GoodFiles(d), NEW g \in Gens
  PROVE  /\ ReadJournal(p, m, d, g) \in Memory
         /\ m.gen \in Gens => ReadJournal(p, m, d, g).gen \in Gens
         /\ CoherentMemory(m) => CoherentMemory(ReadJournal(p, m, d, g))
<1> DEFINE from == IF m.joff > Len(d.journal) THEN 0 ELSE m.joff
           foreign == \E i \in from + 1 .. Len(d.journal) : LineLocked(p, d.journal[i])
           moved == [m EXCEPT !.joff = from]
           merged == Merge(m, JournalTokens(p, d, from), JournalCounts(p, d, from))
           read == [merged EXCEPT
                      !.gen = IF @ # None THEN @ ELSE JournalGen(p, d, from),
                      !.joff = Len(d.journal),
                      !.jlines = Saturated(@ + Cardinality(LinesFrom(p, d, from)))]
<1>1. from \in Nat
  BY DEF Memory
<1>2. CASE foreign
  <2>1. moved \in Memory /\ moved.t2r = m.t2r /\ moved.r2t = m.r2t
    BY <1>1 DEF Memory
  <2>2. ReadJournal(p, m, d, g) = LockOut(moved, g) /\ moved.gen = m.gen
    BY <1>2 DEF ReadJournal, Memory
  <2> HIDE DEF moved
  <2> QED BY <2>1, <2>2, LockOutGood DEF CoherentMemory
<1>3. CASE ~foreign
  <2>1. ReadJournal(p, m, d, g) = read
    BY <1>3 DEF ReadJournal
  <2>2. JournalTokens(p, d, from) \in TokenMap /\ JournalCounts(p, d, from) \in Counters
    BY <1>1, JournalTokensType, JournalCountsType
  <2>3. merged \in Memory /\ (CoherentMemory(m) => CoherentMemory(merged))
    BY <2>2, MergeGood
  <2>4. merged.gen = m.gen
    BY DEF Merge, Memory
  <2>5. JournalGen(p, d, from) \in Gens \cup {None}
    BY <1>1, JournalGenType
  <2>6. Saturated(merged.jlines + Cardinality(LinesFrom(p, d, from))) \in 0 .. CompactEvery
    BY <1>1, <2>3, LinesCount DEF Memory
  <2>7. Len(d.journal) \in Nat
    BY DEF GoodFiles
  <2> HIDE DEF merged, from
  <2>8. read \in Memory
    BY <2>3, <2>5, <2>6, <2>7 DEF Memory
  <2>9. read.t2r = merged.t2r /\ read.r2t = merged.r2t
    BY <2>3 DEF Memory
  <2>10. m.gen \in Gens => read.gen \in Gens
    BY <2>3, <2>4, ConstantsAssumption DEF Memory
  <2> QED BY <2>1, <2>3, <2>8, <2>9, <2>10 DEF CoherentMemory
<1> QED BY <1>2, <1>3

-----------------------------------------------------------------------------
(* sync and load.                                                          *)

\* Whatever snapshot a process adopts, it ends up in a lifetime with a coherent map.
LEMMA AdoptSnapshotGood ==
  ASSUME NEW m \in Memory, NEW s \in Snapshot
  PROVE  /\ AdoptSnapshot(m, s) \in Memory
         /\ m.gen \in Gens => AdoptSnapshot(m, s).gen \in Gens
         /\ CoherentMemory(m) => CoherentMemory(AdoptSnapshot(m, s))
<1> DEFINE conv == IF s.gen # m.gen /\ ~m.joined
                   THEN [m EXCEPT !.gen = s.gen, !.joined = TRUE] ELSE m
           next == IF s.gen # conv.gen /\ ~conv.dirty
                   THEN SwapIn(conv, s.t2r, s.ctr, s.gen, TRUE)
                   ELSE Merge(conv, s.t2r, s.ctr)
<1>1. s.t2r \in TokenMap /\ s.ctr \in Counters /\ s.gen \in Gens
  BY DEF Snapshot
<1>2. /\ conv \in Memory /\ conv.t2r = m.t2r /\ conv.r2t = m.r2t
      /\ m.gen \in Gens => conv.gen \in Gens
  BY <1>1 DEF Memory
<1> HIDE DEF conv
<1>3. /\ SwapIn(conv, s.t2r, s.ctr, s.gen, TRUE) \in Memory
      /\ CoherentMemory(SwapIn(conv, s.t2r, s.ctr, s.gen, TRUE))
      /\ SwapIn(conv, s.t2r, s.ctr, s.gen, TRUE).gen = s.gen
  BY <1>1, <1>2, SwapInGood
<1>4. /\ Merge(conv, s.t2r, s.ctr) \in Memory
      /\ CoherentMemory(conv) => CoherentMemory(Merge(conv, s.t2r, s.ctr))
  BY <1>1, <1>2, MergeGood
<1>5. Merge(conv, s.t2r, s.ctr).gen = conv.gen
  BY <1>2 DEF Merge, Memory
<1>6. /\ next \in Memory /\ (m.gen \in Gens => next.gen \in Gens)
      /\ CoherentMemory(m) => CoherentMemory(next)
  BY <1>1, <1>2, <1>3, <1>4, <1>5 DEF CoherentMemory
<1>7. AdoptSnapshot(m, s) = [next EXCEPT !.seen = "fresh"]
  BY DEF AdoptSnapshot, conv
<1> HIDE DEF next
<1>8. /\ [next EXCEPT !.seen = "fresh"] \in Memory
      /\ [next EXCEPT !.seen = "fresh"].gen = next.gen
      /\ [next EXCEPT !.seen = "fresh"].t2r = next.t2r
      /\ [next EXCEPT !.seen = "fresh"].r2t = next.r2t
  BY <1>6 DEF Memory
<1> QED BY <1>6, <1>7, <1>8 DEF CoherentMemory

\* A sync keeps a vault object well typed, coherent and in some lifetime.
LEMMA SyncedGood ==
  ASSUME NEW p \in Procs, NEW m \in Memory, NEW d, GoodFiles(d), NEW g \in Gens
  PROVE  /\ Synced(p, m, d, g) \in Memory
         /\ m.gen \in Gens => Synced(p, m, d, g).gen \in Gens
         /\ CoherentMemory(m) => CoherentMemory(Synced(p, m, d, g))
<1> DEFINE m0 == IF SnapshotChanged(m, d) THEN [m EXCEPT !.joff = 0] ELSE m
           empty == SwapIn(m, NoTokens, NoCounts, g, FALSE)
           emptied == [empty EXCEPT !.seen = "none"]
           unwritten == [m EXCEPT !.dirty = TRUE]
           elsewhere == DroppedElsewhere(m, d)
           rewrites == Resurrects(m, d)
           locked == SnapshotChanged(m, d) /\ Locked(p, d.main)
           readable == SnapshotChanged(m, d) /\ Readable(p, d.main)
<1>1. /\ m0 \in Memory /\ m0.gen = m.gen
      /\ m0.t2r = m.t2r /\ m0.r2t = m.r2t
  BY DEF Memory
<1>2. NoTokens \in TokenMap /\ NoCounts \in Counters
  BY ConstantsAssumption DEF NoTokens, NoCounts, TokenMap, Counters
<1>3. /\ elsewhere => ~rewrites /\ ~locked /\ ~readable
      /\ rewrites => ~locked /\ ~readable
      /\ locked => ~readable
  BY DEF DroppedElsewhere, Resurrects, Vanished, SnapshotChanged, Locked, Readable
<1>4. CASE elsewhere
  <2>1. empty \in Memory /\ CoherentMemory(empty) /\ empty.gen = g
    BY <1>2, SwapInGood
  <2> HIDE DEF empty
  <2>2. emptied \in Memory /\ emptied.gen = g /\ emptied.t2r = empty.t2r /\ emptied.r2t = empty.r2t
    BY <2>1 DEF Memory
  <2>3. Synced(p, m, d, g) = emptied
    BY <1>4, <1>3 DEF Synced, empty
  <2> QED BY <2>1, <2>2, <2>3 DEF CoherentMemory
<1>5. CASE rewrites
  <2>1. /\ unwritten \in Memory /\ unwritten.gen = m.gen
        /\ unwritten.t2r = m.t2r /\ unwritten.r2t = m.r2t
    BY DEF Memory
  <2>2. Synced(p, m, d, g) = unwritten
    BY <1>5, <1>3 DEF Synced
  <2> QED BY <2>1, <2>2 DEF CoherentMemory
<1>6. CASE ~elsewhere /\ ~rewrites /\ locked
  <2>1. Synced(p, m, d, g) = LockOut(m0, g)
    BY <1>6, <1>3 DEF Synced
  <2> HIDE DEF m0
  <2> QED BY <1>1, <2>1, LockOutGood DEF CoherentMemory
<1>7. CASE ~elsewhere /\ ~rewrites /\ readable
  <2>1. d.main \in Snapshot
    BY <1>7 DEF Readable, IsFile, GoodFiles
  <2>2. Synced(p, m, d, g) = ReadJournal(p, AdoptSnapshot(m0, d.main), d, g)
    BY <1>7, <1>3 DEF Synced
  <2> HIDE DEF m0
  <2>3. /\ AdoptSnapshot(m0, d.main) \in Memory
        /\ m.gen \in Gens => AdoptSnapshot(m0, d.main).gen \in Gens
        /\ CoherentMemory(m) => CoherentMemory(AdoptSnapshot(m0, d.main))
    BY <1>1, <2>1, AdoptSnapshotGood DEF CoherentMemory
  <2> QED BY <2>2, <2>3, ReadJournalGood
<1>8. CASE ~elsewhere /\ ~rewrites /\ ~locked /\ ~readable
  <2>1. Synced(p, m, d, g) = ReadJournal(p, m0, d, g)
    BY <1>8 DEF Synced
  <2> HIDE DEF m0
  <2> QED BY <1>1, <2>1, ReadJournalGood DEF CoherentMemory
<1> QED BY <1>4, <1>5, <1>6, <1>7, <1>8

\* Whatever the files hold, a process that loads has a well-typed, coherent vault and
\* belongs to some lifetime.
LEMMA LoadedGood ==
  ASSUME NEW p \in Procs, NEW d, GoodFiles(d), NEW g \in Gens
  PROVE  /\ Loaded(p, d, g) \in Memory
         /\ Loaded(p, d, g).gen \in Gens
         /\ CoherentMemory(Loaded(p, d, g))
<1> DEFINE start == [NewMemory EXCEPT !.memOnly = (KeyOf[p] = BadKey)]
           adopt(s, seen) == [Merge(start, s.t2r, s.ctr) EXCEPT !.gen = s.gen, !.seen = seen]
           copy == CASE Readable(p, d.main)  -> adopt(d.main, "fresh")
                     [] RestoresBackup(p, d) -> adopt(d.bak, "none")
                     [] OTHER                -> start
           read == IF LockedOut(p, d) THEN GoMemoryOnly(start, g) ELSE ReadJournal(p, copy, d, g)
           last == IF KeyOf[p] = BadKey THEN GoMemoryOnly(read, g) ELSE read
<1>1. start \in Memory /\ CoherentMemory(start)
  <2>1. start \in Memory /\ start.t2r = NewMemory.t2r /\ start.r2t = NewMemory.r2t
    BY NewMemoryGood DEF Memory
  <2> QED BY <2>1, NewMemoryGood DEF CoherentMemory
<1> HIDE DEF start
<1>2. ASSUME NEW s \in Snapshot, NEW seen \in {"fresh", "none"}
      PROVE  adopt(s, seen) \in Memory /\ CoherentMemory(adopt(s, seen))
  <2>1. s.t2r \in TokenMap /\ s.ctr \in Counters /\ s.gen \in Gens
    BY DEF Snapshot
  <2> DEFINE merged == Merge(start, s.t2r, s.ctr)
  <2>2. merged \in Memory /\ CoherentMemory(merged)
    BY <1>1, <2>1, MergeGood
  <2> HIDE DEF merged
  <2>3. /\ [merged EXCEPT !.gen = s.gen, !.seen = seen] \in Memory
        /\ [merged EXCEPT !.gen = s.gen, !.seen = seen].t2r = merged.t2r
        /\ [merged EXCEPT !.gen = s.gen, !.seen = seen].r2t = merged.r2t
    BY <2>1, <2>2 DEF Memory
  <2>4. CoherentMemory([merged EXCEPT !.gen = s.gen, !.seen = seen])
    BY <2>2, <2>3 DEF CoherentMemory
  <2> QED BY <2>3, <2>4 DEF merged
<1>3. Readable(p, d.main) => d.main \in Snapshot
  BY DEF Readable, IsFile, GoodFiles
<1>4. RestoresBackup(p, d) => d.bak \in Snapshot
  BY DEF RestoresBackup, Readable, IsFile, GoodFiles
<1>5. copy \in Memory /\ CoherentMemory(copy)
  <2> HIDE DEF adopt
  <2>1. CASE Readable(p, d.main) /\ RestoresBackup(p, d)
    BY <2>1, <1>2, <1>3, <1>4
  <2>2. CASE Readable(p, d.main) /\ ~RestoresBackup(p, d)
    BY <2>2, <1>2, <1>3
  <2>3. CASE ~Readable(p, d.main) /\ RestoresBackup(p, d)
    BY <2>3, <1>2, <1>4
  <2>4. CASE ~Readable(p, d.main) /\ ~RestoresBackup(p, d)
    BY <2>4, <1>1
  <2> QED BY <2>1, <2>2, <2>3, <2>4
<1>6. Loaded(p, d, g) = IF last.gen = None THEN [last EXCEPT !.gen = g]
                        ELSE [last EXCEPT !.joined = TRUE]
  BY DEF Loaded, start
<1> HIDE DEF copy
<1>7. read \in Memory /\ CoherentMemory(read)
  BY <1>1, <1>5, GoMemoryOnlyGood, ReadJournalGood
<1> HIDE DEF read
<1>8. last \in Memory /\ CoherentMemory(last)
  BY <1>7, GoMemoryOnlyGood
<1> HIDE DEF last
<1>9. /\ [last EXCEPT !.gen = g] \in Memory /\ [last EXCEPT !.gen = g].gen = g
      /\ [last EXCEPT !.gen = g].t2r = last.t2r /\ [last EXCEPT !.gen = g].r2t = last.r2t
  BY <1>8 DEF Memory
<1>10. /\ [last EXCEPT !.joined = TRUE] \in Memory
       /\ [last EXCEPT !.joined = TRUE].gen = last.gen
       /\ [last EXCEPT !.joined = TRUE].t2r = last.t2r
       /\ [last EXCEPT !.joined = TRUE].r2t = last.r2t
  BY <1>8 DEF Memory
<1>11. last.gen # None => last.gen \in Gens
  BY <1>8 DEF Memory
<1> QED BY <1>6, <1>8, <1>9, <1>10, <1>11 DEF CoherentMemory

-----------------------------------------------------------------------------
(* The inductive invariant.                                                *)

\* Where a thread that works on an object with a lifetime may be.
Working == {"sync", "mint", "append", "return", "compact", "bak", "main", "uncleared",
            "truncate"}

\* A process that serves calls belongs to a lifetime, and so does one that compacts what it
\* has just loaded: journal lines, snapshots and issued tokens all name it.
InLifetime ==
  /\ \A p \in Procs : up[p] = "up" => mem[p].gen \in Gens
  /\ \A th \in Threads : pc[th] \in Working => mem[ProcOf[th]].gen \in Gens

\* What a thread has put aside is there when the next step of its handler takes it up.
Carrying(at, j) ==
  /\ at \in {"sweep", "load"} => j.kind = "boot"
  /\ at = "mint" => j.kind = "tokenize"
  /\ at \in {"append", "return"} => j.kind = "tokenize" /\ j.tok # None
  /\ at = "unlink" => j.todo # <<>>
  /\ at = "clear" => j.gen \in Gens
  /\ j.kind = "tokenize" => j.val \in Values /\ j.typ \in Types
  /\ j.kind = "tokenize" /\ j.tok # None => j.gen \in Gens

MemoryInv == mem \in [Procs -> Memory] /\ Coherent
ControlInv ==
  /\ up \in [Procs -> {"down", "boot", "up"}]
  /\ pc \in [Threads -> PCs]
  /\ job \in [Threads -> Job]
  /\ holder \in Threads \cup {None}
  /\ \A th \in Threads : Carrying(pc[th], job[th])
FilesInv == disk \in Disk /\ raw \in [Threads -> Snapshot \cup {None}]
HistoryInv ==
  /\ issued \subseteq [tok : Tokens, val : Values, gen : Gens]
  /\ dropped \in Gens \cup {None}
  /\ upsets \in [UpsetKinds -> Nat]

IInv == MemoryInv /\ ControlInv /\ FilesInv /\ HistoryInv /\ InLifetime

\* In each process one call at a time is under way: what some of the theorems
\* about this module assume (VaultKeysProofs, VaultStoreProofs).
OneCallEach == \A x, y \in Threads : ProcOf[x] = ProcOf[y] => x = y

-----------------------------------------------------------------------------
(* Facts every step uses.                                                  *)

\* The files, as the data lemmas see them, are good.
LEMMA DiskGood == ASSUME disk \in Disk PROVE GoodFiles(disk)
BY DEF Disk, GoodFiles

LEMMA Fresh == ASSUME HasFreshGen PROVE FreshGen \in Gens
BY DEF HasFreshGen, FreshGen

\* Forgetting that the snapshot is unchanged disturbs nothing else.
LEMMA RestatGood ==
  ASSUME NEW m \in Memory
  PROVE  /\ Restat(m) \in Memory /\ Restat(m).gen = m.gen
         /\ Restat(m).t2r = m.t2r /\ Restat(m).r2t = m.r2t
BY DEF Restat, Memory

\* Changing one process's object to a good one keeps MemoryInv, whether or not the others
\* have to look at the snapshot again, and takes no lifetime away.
LEMMA MemoryStep ==
  ASSUME MemoryInv, NEW p \in Procs, NEW m \in Memory, CoherentMemory(m),
         mem[p].gen \in Gens => m.gen \in Gens,
         SetMem(p, m) \/ SetMemRestat(p, m)
  PROVE  /\ MemoryInv' /\ mem'[p] = m
         /\ \A q \in Procs : mem[q].gen \in Gens => mem'[q].gen \in Gens
<1>1. /\ mem' \in [Procs -> Memory] /\ mem'[p] = m
      /\ \A q \in Procs \ {p} : /\ mem'[q].gen = mem[q].gen
                                /\ mem'[q].t2r = mem[q].t2r /\ mem'[q].r2t = mem[q].r2t
  BY RestatGood DEF MemoryInv, SetMem, SetMemRestat
<1>2. Coherent'
  BY <1>1 DEF MemoryInv, Coherent, CoherentMemory
<1> QED BY <1>1, <1>2 DEF MemoryInv

LEMMA RestatStep ==
  ASSUME MemoryInv,
         \A q \in Procs : mem'[q] \in {mem[q], Restat(mem[q])}, mem' \in [Procs -> Memory]
  PROVE  /\ MemoryInv'
         /\ \A q \in Procs : mem[q].gen \in Gens => mem'[q].gen \in Gens
<1>1. \A q \in Procs : /\ mem'[q].gen = mem[q].gen
                       /\ mem'[q].t2r = mem[q].t2r /\ mem'[q].r2t = mem[q].r2t
  BY RestatGood DEF MemoryInv
<1> QED BY <1>1 DEF MemoryInv, Coherent

\* One process's object, as MemoryInv describes it.
LEMMA MemoryOf ==
  ASSUME MemoryInv, NEW p \in Procs
  PROVE  mem[p] \in Memory /\ CoherentMemory(mem[p])
BY DEF MemoryInv, Coherent, CoherentMemory

LEMMA OwnerType == ASSUME NEW th \in Threads PROVE ProcOf[th] \in Procs
BY ConstantsAssumption

\* A step that takes one thread on, keeps every lifetime and brings no process up without
\* one keeps InLifetime.
LEMMA LifetimeStep ==
  ASSUME IInv, NEW th \in Threads, NEW next \in PCs, Goto(th, next), UNCHANGED up,
         \A q \in Procs : mem[q].gen \in Gens => mem'[q].gen \in Gens,
         next \in Working => mem'[ProcOf[th]].gen \in Gens
  PROVE  InLifetime'
BY OwnerType DEF IInv, InLifetime, Goto, ControlInv

-----------------------------------------------------------------------------
(* Every step keeps the invariant.                                         *)

LEMMA InitInv == Init => IInv
<1> SUFFICES ASSUME Init PROVE IInv
  OBVIOUS
<1>1. MemoryInv
  BY NewMemoryGood DEF Init, MemoryInv, Coherent, CoherentMemory
<1>2. ControlInv
  BY DEF Init, ControlInv, PCs, Job, Kinds, NoJob, Carrying
<1>3. FilesInv
  BY DEF Init, FilesInv, Disk
<1>4. HistoryInv
  BY DEF Init, HistoryInv
<1>5. InLifetime
  BY OwnerType DEF Init, InLifetime, Working
<1> QED BY <1>1, <1>2, <1>3, <1>4, <1>5 DEF IInv

LEMMA StutterInv == IInv /\ UNCHANGED vars => IInv'
BY DEF IInv, MemoryInv, ControlInv, FilesInv, HistoryInv, InLifetime, Coherent, vars

\* A thread between two calls carries nothing.
LEMMA NoJobGood ==
  /\ NoJob \in Job /\ NoJob.kind = "none" /\ NoJob.tok = None
  /\ Carrying("idle", NoJob) /\ "idle" \in PCs
BY DEF NoJob, Job, Kinds, Carrying, PCs

\* A step that takes one thread on with a job it can carry keeps ControlInv.
LEMMA ControlStep ==
  ASSUME ControlInv, NEW th \in Threads, NEW next \in PCs, NEW j \in Job, Carrying(next, j),
         Goto(th, next), job' = [job EXCEPT ![th] = j],
         up' \in [Procs -> {"down", "boot", "up"}], holder' \in Threads \cup {None}
  PROVE  ControlInv'
BY DEF ControlInv, Goto

\* The same when the job is not touched.
LEMMA ControlStepSameJob ==
  ASSUME ControlInv, NEW th \in Threads, NEW next \in PCs, Carrying(next, job[th]),
         Goto(th, next), UNCHANGED job,
         up' \in [Procs -> {"down", "boot", "up"}], holder' \in Threads \cup {None}
  PROVE  ControlInv'
BY DEF ControlInv, Goto

\* The same when the handler is over.
LEMMA ControlRest ==
  ASSUME ControlInv, NEW th \in Threads, Rest(th),
         up' \in [Procs -> {"down", "boot", "up"}], holder' \in Threads \cup {None}
  PROVE  ControlInv' /\ Goto(th, "idle")
BY NoJobGood, ControlStep DEF Rest

\* Upsets are counted.
LEMMA UpsetType ==
  ASSUME HistoryInv, NEW f \in UpsetKinds, Upset(f)
  PROVE  upsets' \in [UpsetKinds -> Nat]
BY DEF HistoryInv, Upset

\* Taking, passing and leaving the lock.
LEMMA LockTypes ==
  ASSUME ControlInv, HistoryInv, NEW th \in Threads
  PROVE  /\ Enter(th) => holder' \in Threads \cup {None} /\ upsets' \in [UpsetKinds -> Nat]
         /\ Pass(th) => holder' \in Threads \cup {None} /\ upsets' \in [UpsetKinds -> Nat]
         /\ EnterLoad(th) => holder' \in Threads \cup {None} /\ upsets' \in [UpsetKinds -> Nat]
         /\ PassLoad(th) => holder' \in Threads \cup {None} /\ upsets' \in [UpsetKinds -> Nat]
         /\ Leave(th) => holder' \in Threads \cup {None}
<1>1. "timeout" \in UpsetKinds
  BY DEF UpsetKinds
<1> QED BY <1>1, UpsetType
        DEF ControlInv, HistoryInv, Enter, Pass, EnterLoad, PassLoad, Leave

\* Handing out a token of a lifetime.
LEMMA IssueType ==
  ASSUME HistoryInv, NEW t \in Tokens, NEW v \in Values, NEW g \in Gens, Issue(t, v, g)
  PROVE  issued' \subseteq [tok : Tokens, val : Values, gen : Gens]
BY DEF HistoryInv, Issue

\* The lifetime on disk, if there is one.
LEMMA LifetimeType == ASSUME disk \in Disk PROVE Lifetime(disk) \in Gens \cup {None}
BY DEF Lifetime, IsFile, Disk, Snapshot

-----------------------------------------------------------------------------
(* Every step keeps the invariant: start and load.                         *)

LEMMA StartInv == ASSUME IInv, NEW th \in Threads, Start(th) PROVE IInv'
<1> USE DEF IInv
<1>1. MemoryInv' /\ FilesInv' /\ HistoryInv'
  BY DEF Start, MemoryInv, Coherent, FilesInv, HistoryInv
<1>2. ControlInv'
  <2> DEFINE j == [NoJob EXCEPT !.kind = "boot"]
  <2>1. j \in Job /\ Carrying("sweep", j) /\ "sweep" \in PCs
    BY NoJobGood DEF Job, Kinds, Carrying, PCs
  <2>2. up' \in [Procs -> {"down", "boot", "up"}] /\ holder' \in Threads \cup {None}
    BY OwnerType DEF Start, ControlInv
  <2> QED BY <2>1, <2>2, ControlStep DEF Start
<1>3. InLifetime'
  BY OwnerType DEF Start, InLifetime, Working, Goto, ControlInv
<1> QED BY <1>1, <1>2, <1>3

LEMMA SweepInv ==
  ASSUME IInv, NEW th \in Threads, SweepExpired(th) \/ SweepNothing(th) PROVE IInv'
<1> USE DEF IInv
<1>1. CASE SweepExpired(th)
  <2> DEFINE j == [job[th] EXCEPT !.gen = Blank, !.todo = <<"main", "journal", "bak">>]
  <2>1. MemoryInv' /\ FilesInv' /\ HistoryInv'
    BY <1>1, LifetimeType DEF SweepExpired, MemoryInv, Coherent, FilesInv, HistoryInv
  <2>2. j \in Job /\ "unlink" \in PCs /\ Carrying("unlink", j)
    <3>1. job[th] \in Job /\ job[th].kind = "boot"
      BY <1>1 DEF ControlInv, Carrying, SweepExpired
    <3>2. <<"main", "journal", "bak">> \in Seq(Files) /\ <<"main", "journal", "bak">> # <<>>
      BY DEF Files
    <3> HIDE DEF Files
    <3> QED BY <3>1, <3>2 DEF Job, PCs, Carrying
  <2>3. ControlInv'
    BY <1>1, <2>2, ControlStep DEF SweepExpired, ControlInv
  <2>4. InLifetime'
    BY <1>1, <2>2, LifetimeStep DEF SweepExpired, Working
  <2> QED BY <2>1, <2>3, <2>4
<1>2. CASE SweepNothing(th)
  <2>1. MemoryInv' /\ FilesInv'
    BY <1>2 DEF SweepNothing, MemoryInv, Coherent, FilesInv
  <2>2. HistoryInv'
    <3>1. "timeout" \in UpsetKinds
      BY DEF UpsetKinds
    <3> QED BY <1>2, <3>1, UpsetType DEF SweepNothing, HistoryInv
  <2>3. "load" \in PCs /\ Carrying("load", job[th])
    BY <1>2 DEF ControlInv, PCs, Carrying, SweepNothing
  <2>4. ControlInv'
    BY <1>2, <2>3, ControlStepSameJob DEF SweepNothing, ControlInv
  <2>5. InLifetime'
    BY <1>2, <2>3, LifetimeStep DEF SweepNothing, Working
  <2> QED BY <2>1, <2>2, <2>4, <2>5
<1> QED BY <1>1, <1>2

LEMMA LoadExpiredInv == ASSUME IInv, NEW th \in Threads, LoadExpired(th) PROVE IInv'
<1> DEFINE gen == IF Readable(ProcOf[th], disk.main) THEN disk.main.gen ELSE Blank
           j == [job[th] EXCEPT !.kind = "expire", !.gen = gen,
                                !.todo = <<"main", "bak", "journal">>]
<1> USE DEF IInv
<1>1. MemoryInv' /\ FilesInv'
  BY DEF LoadExpired, MemoryInv, Coherent, FilesInv
<1>2. holder' \in Threads \cup {None} /\ upsets' \in [UpsetKinds -> Nat]
  BY LockTypes DEF LoadExpired
<1>3. HistoryInv'
  BY <1>2, LifetimeType DEF LoadExpired, FilesInv, HistoryInv
<1>4. j \in Job /\ "unlink" \in PCs /\ Carrying("unlink", j)
  <2>1. job[th] \in Job
    BY DEF ControlInv
  <2>2. gen \in Gens \cup {None, Blank}
    BY DEF FilesInv, Disk, Readable, IsFile, Snapshot
  <2>3. <<"main", "bak", "journal">> \in Seq(Files) /\ <<"main", "bak", "journal">> # <<>>
    BY DEF Files
  <2> HIDE DEF Files, gen
  <2> QED BY <2>1, <2>2, <2>3 DEF Job, Kinds, PCs, Carrying
<1>5. ControlInv'
  BY <1>2, <1>4, ControlStep DEF LoadExpired, ControlInv
<1>6. InLifetime'
  BY <1>4, LifetimeStep DEF LoadExpired, Working
<1> QED BY <1>1, <1>3, <1>5, <1>6

LEMMA LoadInv == ASSUME IInv, NEW th \in Threads, Load(th) PROVE IInv'
<1> DEFINE p == ProcOf[th]
           m == Loaded(p, disk, FreshGen)
<1> USE DEF IInv
<1>1. p \in Procs /\ FreshGen \in Gens /\ GoodFiles(disk)
  BY OwnerType, Fresh, DiskGood DEF Load, FilesInv
<1>2. m \in Memory /\ m.gen \in Gens /\ CoherentMemory(m)
  BY <1>1, LoadedGood
<1>3. (SetMem(p, m) \/ SetMemRestat(p, m)) /\ UNCHANGED <<raw, issued, dropped>>
  BY DEF Load
<1> HIDE DEF m
<1>4. /\ MemoryInv' /\ mem'[p] = m
      /\ \A q \in Procs : mem[q].gen \in Gens => mem'[q].gen \in Gens
  BY <1>1, <1>2, <1>3, MemoryStep
<1>5. FilesInv'
  BY <1>3 DEF Load, FilesInv, Disk
<1>6. CASE RestoresBackup(p, disk) /\ ~m.memOnly
  <2>1. EnterLoad(th) /\ Goto(th, "compact") /\ UNCHANGED <<up, job>>
    BY <1>6 DEF Load, m
  <2>2. holder' \in Threads \cup {None} /\ upsets' \in [UpsetKinds -> Nat]
    BY <2>1, LockTypes
  <2>3. "compact" \in PCs /\ Carrying("compact", job[th])
    BY DEF ControlInv, PCs, Carrying
  <2>4. ControlInv'
    BY <2>1, <2>2, <2>3, ControlStepSameJob DEF ControlInv
  <2>5. InLifetime'
    BY <1>2, <1>4, <2>1, <2>3, LifetimeStep
  <2> QED BY <1>3, <1>4, <1>5, <2>2, <2>4, <2>5 DEF HistoryInv
<1>7. CASE ~(RestoresBackup(p, disk) /\ ~m.memOnly)
  <2>1. PassLoad(th) /\ up' = [up EXCEPT ![p] = "up"] /\ Rest(th)
    BY <1>7 DEF Load, m
  <2>2. holder' \in Threads \cup {None} /\ upsets' \in [UpsetKinds -> Nat]
    BY <2>1, LockTypes
  <2>3. ControlInv' /\ Goto(th, "idle")
    BY <2>1, <2>2, ControlRest DEF ControlInv
  <2>4. InLifetime'
    BY <1>1, <1>2, <1>4, <2>1, <2>3, OwnerType DEF InLifetime, Working, Goto, ControlInv
  <2> QED BY <1>3, <1>4, <1>5, <2>2, <2>3, <2>4 DEF HistoryInv
<1> QED BY <1>6, <1>7

-----------------------------------------------------------------------------
(* Every step keeps the invariant: the calls, before they need the lock.   *)

\* A thread that begins a call with a job it can carry.
LEMMA BeginInv ==
  ASSUME IInv, NEW th \in Threads, Ready(th), NEW j \in Job, Carrying("sync", j), Begin(th, j)
  PROVE  IInv'
<1> USE DEF IInv
<1>1. MemoryInv' /\ FilesInv' /\ HistoryInv'
  BY DEF Begin, MemoryInv, Coherent, FilesInv, HistoryInv
<1>2. "sync" \in PCs
  BY DEF PCs
<1>3. ControlInv'
  BY <1>2, ControlStep DEF Begin, ControlInv
<1>4. InLifetime'
  BY <1>2, OwnerType, LifetimeStep DEF Begin, Ready, InLifetime
<1> QED BY <1>1, <1>3, <1>4

LEMMA CallInv ==
  ASSUME IInv, NEW th \in Threads,
         (\E v \in Values, k \in Types : TokenizeNew(th, v, k)) \/ RestoreMiss(th) \/ Save(th)
  PROVE  IInv'
<1>1. ASSUME NEW v \in Values, NEW k \in Types, TokenizeNew(th, v, k) PROVE IInv'
  <2> DEFINE j == [NoJob EXCEPT !.kind = "tokenize", !.val = v, !.typ = k]
  <2>1. j \in Job /\ Carrying("sync", j)
    BY NoJobGood DEF Job, Kinds, Carrying
  <2> QED BY <1>1, <2>1, BeginInv DEF TokenizeNew
<1>2. CASE RestoreMiss(th)
  <2> DEFINE j == [NoJob EXCEPT !.kind = "restore"]
  <2>1. j \in Job /\ Carrying("sync", j)
    BY NoJobGood DEF Job, Kinds, Carrying
  <2> QED BY <1>2, <2>1, BeginInv DEF RestoreMiss
<1>3. CASE Save(th)
  <2> DEFINE j == [NoJob EXCEPT !.kind = "save"]
  <2>1. j \in Job /\ Carrying("sync", j)
    BY NoJobGood DEF Job, Kinds, Carrying
  <2> QED BY <1>3, <2>1, BeginInv DEF Save
<1> QED BY <1>1, <1>2, <1>3

\* A call that only refreshes the snapshot's time.
LEMMA TouchInv ==
  ASSUME MemoryInv, FilesInv, NEW p \in Procs, Touch(p), UNCHANGED raw
  PROVE  /\ MemoryInv' /\ FilesInv'
         /\ \A q \in Procs : mem[q].gen \in Gens => mem'[q].gen \in Gens
<1>1. mem' \in [Procs -> Memory] /\ \A q \in Procs : mem'[q] \in {mem[q], Restat(mem[q])}
  BY RestatGood DEF Touch, MemoryInv
<1>2. disk' \in Disk
  BY DEF Touch, FilesInv, Disk
<1> QED BY <1>1, <1>2, RestatStep DEF FilesInv

LEMMA ReuseInv ==
  ASSUME IInv, NEW th \in Threads, NEW v \in Values, Reuse(th, v) PROVE IInv'
<1> USE DEF IInv
<1>1. ProcOf[th] \in Procs
  BY OwnerType
<1>2. /\ MemoryInv' /\ FilesInv'
      /\ \A q \in Procs : mem[q].gen \in Gens => mem'[q].gen \in Gens
  BY <1>1, TouchInv DEF Reuse
<1>3. mem[ProcOf[th]].r2t[v] \in Tokens /\ mem[ProcOf[th]].gen \in Gens
  BY <1>1, MemoryOf DEF Reuse, Ready, InLifetime, Memory
<1>4. HistoryInv'
  BY <1>3, IssueType DEF Reuse, HistoryInv
<1>5. ControlInv'
  BY DEF Reuse, ControlInv
<1>6. InLifetime'
  BY <1>2, OwnerType DEF Reuse, InLifetime
<1> QED BY <1>2, <1>4, <1>5, <1>6

LEMMA RestoreHitInv == ASSUME IInv, NEW th \in Threads, RestoreHit(th) PROVE IInv'
<1> USE DEF IInv
<1>1. /\ MemoryInv' /\ FilesInv'
      /\ \A q \in Procs : mem[q].gen \in Gens => mem'[q].gen \in Gens
  BY OwnerType, TouchInv DEF RestoreHit
<1>2. ControlInv' /\ HistoryInv'
  BY DEF RestoreHit, ControlInv, HistoryInv
<1>3. InLifetime'
  BY <1>1, OwnerType DEF RestoreHit, InLifetime
<1> QED BY <1>1, <1>2, <1>3

LEMMA TokenizeFarInv ==
  ASSUME IInv, NEW th \in Threads, NEW v \in Values, NEW k \in Types, TokenizeFar(th, v, k)
  PROVE  IInv'
<1> DEFINE p == ProcOf[th]
           m == Minted(mem[p], v, k, FarBase)
<1> USE DEF IInv
<1>1. p \in Procs /\ mem[p] \in Memory /\ CoherentMemory(mem[p]) /\ mem[p].gen \in Gens
  BY OwnerType, MemoryOf DEF TokenizeFar, Ready, InLifetime
<1>2. /\ m \in Memory /\ CoherentMemory(m) /\ m.gen \in Gens /\ m.r2t[v] \in Tokens
  BY <1>1, MintedGood, ConstantsAssumption DEF TokenizeFar
<1>3. SetMem(p, m) /\ Issue(m.r2t[v], v, m.gen)
  BY DEF TokenizeFar
<1> HIDE DEF m
<1>4. MemoryInv' /\ \A q \in Procs : mem[q].gen \in Gens => mem'[q].gen \in Gens
  BY <1>1, <1>2, <1>3, MemoryStep
<1>5. HistoryInv'
  BY <1>2, <1>3, IssueType DEF TokenizeFar, HistoryInv
<1>6. ControlInv' /\ FilesInv'
  BY DEF TokenizeFar, ControlInv, FilesInv
<1>7. InLifetime'
  BY <1>4, OwnerType DEF TokenizeFar, InLifetime
<1> QED BY <1>4, <1>5, <1>6, <1>7

-----------------------------------------------------------------------------
(* Every step keeps the invariant: under the lock.                         *)

LEMMA SyncInv == ASSUME IInv, NEW th \in Threads, Sync(th) PROVE IInv'
<1> DEFINE p == ProcOf[th]
           m == Synced(p, mem[p], disk, FreshGen)
           rewrites == Resurrects(mem[p], disk) /\ ~mem[p].memOnly
<1> USE DEF IInv
<1>1. p \in Procs /\ FreshGen \in Gens /\ GoodFiles(disk)
  BY OwnerType, Fresh, DiskGood DEF Sync, FilesInv
<1>2. mem[p] \in Memory /\ CoherentMemory(mem[p]) /\ mem[p].gen \in Gens
  BY <1>1, MemoryOf DEF Sync, InLifetime, Working
<1>3. m \in Memory /\ CoherentMemory(m) /\ m.gen \in Gens
  BY <1>1, <1>2, SyncedGood
<1>4. SetMem(p, m) /\ UNCHANGED <<up, raw, disk, issued, dropped>>
  BY DEF Sync
<1> HIDE DEF m
<1>5. /\ MemoryInv' /\ mem'[p].gen \in Gens
      /\ \A q \in Procs : mem[q].gen \in Gens => mem'[q].gen \in Gens
  BY <1>1, <1>3, <1>4, MemoryStep
<1>6. FilesInv'
  BY <1>4 DEF FilesInv
<1>7. CASE rewrites \/ job[th].kind = "save"
  <2>1. Enter(th) /\ Goto(th, "compact") /\ UNCHANGED job
    BY <1>7 DEF Sync
  <2>2. holder' \in Threads \cup {None} /\ upsets' \in [UpsetKinds -> Nat]
    BY <2>1, LockTypes
  <2>3. "compact" \in PCs /\ Carrying("compact", job[th])
    BY DEF ControlInv, PCs, Carrying
  <2>4. ControlInv'
    BY <1>4, <2>1, <2>2, <2>3, ControlStepSameJob DEF ControlInv
  <2>5. InLifetime'
    BY <1>4, <1>5, <2>1, <2>3, LifetimeStep
  <2> QED BY <1>4, <1>5, <1>6, <2>2, <2>4, <2>5 DEF HistoryInv
<1>8. CASE ~rewrites /\ job[th].kind = "tokenize"
  <2>1. Enter(th) /\ Goto(th, "mint") /\ UNCHANGED job
    BY <1>8 DEF Sync
  <2>2. holder' \in Threads \cup {None} /\ upsets' \in [UpsetKinds -> Nat]
    BY <2>1, LockTypes
  <2>3. "mint" \in PCs /\ Carrying("mint", job[th])
    BY <1>8 DEF ControlInv, PCs, Carrying
  <2>4. ControlInv'
    BY <1>4, <2>1, <2>2, <2>3, ControlStepSameJob DEF ControlInv
  <2>5. InLifetime'
    BY <1>4, <1>5, <2>1, <2>3, LifetimeStep
  <2> QED BY <1>4, <1>5, <1>6, <2>2, <2>4, <2>5 DEF HistoryInv
<1>9. CASE ~rewrites /\ job[th].kind \notin {"save", "tokenize"}
  <2>1. Pass(th) /\ Rest(th)
    BY <1>9 DEF Sync
  <2>2. holder' \in Threads \cup {None} /\ upsets' \in [UpsetKinds -> Nat]
    BY <2>1, LockTypes
  <2>3. ControlInv' /\ Goto(th, "idle")
    BY <1>4, <2>1, <2>2, ControlRest DEF ControlInv
  <2>4. "idle" \in PCs /\ "idle" \notin Working
    BY DEF PCs, Working
  <2>5. InLifetime'
    BY <1>4, <1>5, <2>3, <2>4, LifetimeStep
  <2> QED BY <1>4, <1>5, <1>6, <2>2, <2>3, <2>5 DEF HistoryInv
<1> QED BY <1>7, <1>8, <1>9

\* A thread whose handler ends outside a lifetime's work.
LEMMA RestLifetime ==
  ASSUME IInv, NEW th \in Threads, Rest(th), UNCHANGED up,
         \A q \in Procs : mem[q].gen \in Gens => mem'[q].gen \in Gens
  PROVE  InLifetime'
<1>1. "idle" \in PCs /\ "idle" \notin Working
  BY DEF PCs, Working
<1> QED BY <1>1, LifetimeStep DEF Rest

LEMMA MintLockedOutInv == ASSUME IInv, NEW th \in Threads, MintLockedOut(th) PROVE IInv'
<1> DEFINE p == ProcOf[th]
           v == job[th].val
           m == IF mem[p].r2t[v] # None THEN mem[p] ELSE Minted(mem[p], v, job[th].typ, 0)
<1> USE DEF IInv
<1>1. p \in Procs /\ mem[p] \in Memory /\ CoherentMemory(mem[p]) /\ mem[p].gen \in Gens
  BY OwnerType, MemoryOf DEF MintLockedOut, InLifetime, Working
<1>2. v \in Values /\ job[th].typ \in Types
  BY DEF MintLockedOut, ControlInv, Carrying
<1>3. m \in Memory /\ CoherentMemory(m) /\ m.gen \in Gens /\ m.r2t[v] \in Tokens
  <2>1. CASE mem[p].r2t[v] # None
    BY <1>1, <1>2, <2>1 DEF Memory
  <2>2. CASE mem[p].r2t[v] = None
    BY <1>1, <1>2, <2>2, MintedGood DEF MintLockedOut
  <2> QED BY <2>1, <2>2
<1>4. SetMem(p, m) /\ Issue(m.r2t[v], v, m.gen)
  BY DEF MintLockedOut
<1> HIDE DEF m
<1>5. MemoryInv' /\ \A q \in Procs : mem[q].gen \in Gens => mem'[q].gen \in Gens
  BY <1>1, <1>3, <1>4, MemoryStep
<1>6. HistoryInv'
  BY <1>2, <1>3, <1>4, IssueType DEF MintLockedOut, HistoryInv
<1>7. holder' \in Threads \cup {None}
  BY LockTypes DEF MintLockedOut
<1>8. ControlInv' /\ FilesInv'
  BY <1>7, ControlRest DEF MintLockedOut, ControlInv, FilesInv
<1>9. InLifetime'
  BY <1>5, RestLifetime DEF MintLockedOut
<1> QED BY <1>5, <1>6, <1>8, <1>9

LEMMA MintFoundInv == ASSUME IInv, NEW th \in Threads, MintFound(th) PROVE IInv'
<1> USE DEF IInv
<1>1. /\ mem[ProcOf[th]] \in Memory /\ mem[ProcOf[th]].gen \in Gens
      /\ job[th].val \in Values
  BY OwnerType, MemoryOf DEF MintFound, InLifetime, Working, ControlInv, Carrying
<1>2. mem[ProcOf[th]].r2t[job[th].val] \in Tokens
  BY <1>1 DEF MintFound, Memory
<1>3. HistoryInv'
  BY <1>1, <1>2, IssueType DEF MintFound, HistoryInv
<1>4. holder' \in Threads \cup {None}
  BY LockTypes DEF MintFound
<1>5. ControlInv' /\ FilesInv' /\ MemoryInv'
  BY <1>4, ControlRest DEF MintFound, ControlInv, FilesInv, MemoryInv, Coherent
<1>6. InLifetime'
  BY RestLifetime DEF MintFound
<1> QED BY <1>3, <1>5, <1>6

LEMMA MintNewInv == ASSUME IInv, NEW th \in Threads, MintNew(th) PROVE IInv'
<1> DEFINE p == ProcOf[th]
           v == job[th].val
           m == Minted(mem[p], v, job[th].typ, 0)
           j == [job[th] EXCEPT !.tok = m.r2t[v], !.gen = m.gen]
<1> USE DEF IInv
<1>1. p \in Procs /\ mem[p] \in Memory /\ CoherentMemory(mem[p]) /\ mem[p].gen \in Gens
  BY OwnerType, MemoryOf DEF MintNew, InLifetime, Working
<1>2. job[th] \in Job /\ job[th].kind = "tokenize" /\ v \in Values /\ job[th].typ \in Types
  BY DEF MintNew, ControlInv, Carrying
<1>3. m \in Memory /\ CoherentMemory(m) /\ m.gen \in Gens /\ m.r2t[v] \in Tokens
  BY <1>1, <1>2, MintedGood DEF MintNew
<1>4. SetMem(p, m) /\ job' = [job EXCEPT ![th] = j] /\ Goto(th, "append")
  BY <1>2 DEF MintNew, ControlInv
<1> HIDE DEF m
<1>5. m.r2t[v] # None
  BY <1>3, ConstantsAssumption DEF Tokens, Numbers
<1>6. /\ MemoryInv' /\ mem'[p] = m
      /\ \A q \in Procs : mem[q].gen \in Gens => mem'[q].gen \in Gens
  BY <1>1, <1>3, <1>4, MemoryStep
<1>7. j \in Job /\ "append" \in PCs /\ Carrying("append", j)
  BY <1>2, <1>3, <1>5 DEF Job, PCs, Carrying
<1>8. ControlInv'
  BY <1>4, <1>7, ControlStep DEF MintNew, ControlInv
<1>9. FilesInv' /\ HistoryInv'
  BY DEF MintNew, FilesInv, HistoryInv
<1>10. InLifetime'
  BY <1>3, <1>4, <1>6, <1>7, LifetimeStep DEF MintNew
<1> QED BY <1>6, <1>8, <1>9, <1>10

\* A change of a process's bookkeeping that leaves its maps and its lifetime alone.
LEMMA BookkeepingStep ==
  ASSUME MemoryInv, NEW p \in Procs, NEW m \in Memory,
         m.gen = mem[p].gen, m.t2r = mem[p].t2r, m.r2t = mem[p].r2t,
         SetMem(p, m) \/ SetMemRestat(p, m)
  PROVE  /\ MemoryInv' /\ \A q \in Procs : mem[q].gen \in Gens => mem'[q].gen \in Gens
<1>1. CoherentMemory(m)
  BY MemoryOf DEF CoherentMemory
<1> QED BY <1>1, MemoryStep

\* The line a minting thread writes carries its mapping.
LEMMA LineOfType ==
  ASSUME IInv, NEW th \in Threads, pc[th] = "append"
  PROVE  LineOf(th) \in Entry
<1>1. job[th].tok \in Tokens /\ job[th].val \in Values
  BY DEF IInv, ControlInv, Carrying, Job
<1>2. mem[ProcOf[th]].gen \in Gens
  BY DEF IInv, InLifetime, Working
<1>3. KeyOf[ProcOf[th]] \in Keys
  BY OwnerType DEF Keys
<1> QED BY <1>1, <1>2, <1>3 DEF LineOf, Entry

LEMMA LinesType == ASSUME disk \in Disk PROVE Lines(disk) \in Seq(Entry)
<1>1. disk.journal \in Seq(Entry) /\ (disk.torn # None => disk.torn \in Entry)
  BY DEF Disk
<1> HIDE DEF Entry
<1> QED BY <1>1 DEF Lines

LEMMA AppendLineInv == ASSUME IInv, NEW th \in Threads, AppendLine(th) PROVE IInv'
<1> DEFINE p == ProcOf[th]
           off == (IF disk.torn = None THEN mem[p].joff
                   ELSE Larger(mem[p].joff, Len(Lines(disk)))) + 1
           m == [mem[p] EXCEPT !.joff = off, !.jlines = Saturated(@ + 1), !.joined = TRUE]
           next == IF m.jlines >= CompactEvery \/ disk.main = None THEN "compact" ELSE "return"
           log == Append(Lines(disk), LineOf(th))
<1> USE DEF IInv
<1>1. p \in Procs /\ mem[p] \in Memory
  BY OwnerType, MemoryOf
<1>2. Lines(disk) \in Seq(Entry) /\ LineOf(th) \in Entry
  BY LinesType, LineOfType DEF AppendLine, FilesInv
<1>3. off \in Nat
  <2>1. mem[p].joff \in Nat /\ Len(Lines(disk)) \in Nat
    BY <1>1, <1>2 DEF Memory
  <2> QED BY <2>1, LargerType
<1>4. Saturated(mem[p].jlines + 1) \in 0 .. CompactEvery
  BY <1>1, ConstantsAssumption DEF Memory, Saturated
<1>5. SetMem(p, m) /\ Goto(th, next) /\ UNCHANGED <<up, job, raw, holder, issued, dropped, upsets>>
  BY DEF AppendLine
<1>6. disk' = [disk EXCEPT !.journal = log, !.torn = None, !.idle = FALSE]
  BY DEF AppendLine
<1> HIDE DEF off
<1>7. m \in Memory /\ m.gen = mem[p].gen /\ m.t2r = mem[p].t2r /\ m.r2t = mem[p].r2t
  BY <1>1, <1>3, <1>4 DEF Memory
<1> HIDE DEF m
<1>8. MemoryInv' /\ \A q \in Procs : mem[q].gen \in Gens => mem'[q].gen \in Gens
  BY <1>1, <1>5, <1>7, BookkeepingStep
<1>9. log \in Seq(Entry)
  BY <1>2
<1> HIDE DEF log
<1>10. FilesInv'
  BY <1>5, <1>6, <1>9 DEF FilesInv, Disk
<1>11. next \in PCs /\ next \in {"compact", "return"} /\ Carrying(next, job[th])
  BY DEF AppendLine, ControlInv, Carrying, PCs
<1> HIDE DEF next
<1>12. ControlInv'
  BY <1>5, <1>11, ControlStepSameJob DEF ControlInv
<1>13. mem[p].gen \in Gens
  BY DEF AppendLine, InLifetime, Working
<1>14. InLifetime'
  BY <1>1, <1>5, <1>8, <1>11, <1>13, LifetimeStep
<1> QED BY <1>5, <1>8, <1>10, <1>12, <1>14 DEF HistoryInv

LEMMA AppendFailsInv == ASSUME IInv, NEW th \in Threads, AppendFails(th) PROVE IInv'
<1> DEFINE p == ProcOf[th]
           off == IF disk'.torn = disk.torn THEN mem[p].joff
                  ELSE Larger(mem[p].joff, Len(Lines(disk)))
           m == [mem[p] EXCEPT !.dirty = TRUE, !.joff = off]
<1> USE DEF IInv
<1>1. p \in Procs /\ mem[p] \in Memory /\ mem[p].gen \in Gens
  BY OwnerType, MemoryOf DEF AppendFails, InLifetime, Working
<1>2. Lines(disk) \in Seq(Entry) /\ LineOf(th) \in Entry
  BY LinesType, LineOfType DEF AppendFails, FilesInv
<1>3. off \in Nat
  <2>1. mem[p].joff \in Nat /\ Len(Lines(disk)) \in Nat
    BY <1>1, <1>2 DEF Memory
  <2> QED BY <2>1, LargerType
<1>4. SetMem(p, m)
  BY DEF AppendFails
<1> HIDE DEF off
<1>5. m \in Memory /\ m.gen = mem[p].gen /\ m.t2r = mem[p].t2r /\ m.r2t = mem[p].r2t
  BY <1>1, <1>3 DEF Memory
<1> HIDE DEF m
<1>6. MemoryInv' /\ \A q \in Procs : mem[q].gen \in Gens => mem'[q].gen \in Gens
  BY <1>1, <1>4, <1>5, BookkeepingStep
<1>7. "return" \in PCs /\ Carrying("return", job[th])
  BY DEF AppendFails, ControlInv, Carrying, PCs
<1>8. disk' \in Disk
  <2>1. disk' = disk \/ disk' = [disk EXCEPT !.journal = Lines(disk), !.torn = None, !.idle = FALSE]
          \/ disk' = [disk EXCEPT !.journal = Append(Lines(disk), LineOf(th)),
                                  !.torn = None, !.idle = FALSE]
    BY DEF AppendFails, FilesInv, Disk
  <2>2. Append(Lines(disk), LineOf(th)) \in Seq(Entry)
    BY <1>2
  <2> HIDE DEF Entry
  <2> QED BY <1>2, <2>1, <2>2 DEF FilesInv, Disk
<1>9. ControlInv' /\ FilesInv'
  BY <1>7, <1>8, ControlStepSameJob DEF AppendFails, ControlInv, FilesInv
<1>10. "write" \in UpsetKinds
  BY DEF UpsetKinds
<1>11. HistoryInv'
  BY <1>10, UpsetType DEF AppendFails, HistoryInv
<1>12. InLifetime'
  BY <1>1, <1>6, <1>7, LifetimeStep DEF AppendFails
<1> QED BY <1>6, <1>9, <1>11, <1>12

LEMMA ReturnInv == ASSUME IInv, NEW th \in Threads, Return(th) PROVE IInv'
<1> USE DEF IInv
<1>1. job[th].tok \in Tokens /\ job[th].val \in Values /\ job[th].gen \in Gens
  BY DEF Return, ControlInv, Carrying, Job
<1>2. HistoryInv'
  BY <1>1, IssueType DEF Return, HistoryInv
<1>3. holder' \in Threads \cup {None}
  BY LockTypes DEF Return
<1>4. ControlInv' /\ FilesInv' /\ MemoryInv'
  BY <1>3, ControlRest DEF Return, ControlInv, FilesInv, MemoryInv, Coherent
<1>5. InLifetime'
  BY RestLifetime DEF Return
<1> QED BY <1>2, <1>4, <1>5

-----------------------------------------------------------------------------
(* Every step keeps the invariant: _compact.                               *)

\* Whatever a compaction did to the memory, its caller goes on well.
LEMMA AfterCompactInv ==
  ASSUME IInv, NEW th \in Threads,
         pc[th] \in {"compact", "bak", "main", "truncate"}, AfterCompact(th), MemoryInv',
         \A q \in Procs : mem[q].gen \in Gens => mem'[q].gen \in Gens
  PROVE  ControlInv' /\ InLifetime'
<1> DEFINE next == IF job[th].tok = None THEN "mint" ELSE "return"
<1> USE DEF IInv
<1>1. ProcOf[th] \in Procs /\ mem'[ProcOf[th]].gen \in Gens
  BY OwnerType DEF InLifetime, Working
<1>2. CASE job[th].kind = "tokenize"
  <2>1. Goto(th, next) /\ UNCHANGED <<up, job, holder>>
    BY <1>2 DEF AfterCompact
  <2>2. next \in PCs /\ Carrying(next, job[th])
    BY <1>2 DEF ControlInv, Carrying, PCs
  <2> HIDE DEF next
  <2>3. ControlInv'
    BY <2>1, <2>2, ControlStepSameJob DEF ControlInv
  <2> QED BY <1>1, <2>1, <2>2, <2>3, LifetimeStep
<1>3. CASE job[th].kind # "tokenize"
  <2>1. up' = [up EXCEPT ![ProcOf[th]] = "up"] /\ Rest(th) /\ Leave(th)
    BY <1>3 DEF AfterCompact
  <2>2. ControlInv' /\ Goto(th, "idle")
    BY <2>1, LockTypes, ControlRest DEF ControlInv
  <2>3. InLifetime'
    BY <1>1, <2>1, <2>2, OwnerType DEF InLifetime, Working, Goto, ControlInv
  <2> QED BY <2>2, <2>3
<1> QED BY <1>2, <1>3

LEMMA CompactNothingInv == ASSUME IInv, NEW th \in Threads, CompactNothing(th) PROVE IInv'
<1>1. MemoryInv' /\ FilesInv' /\ HistoryInv'
  BY DEF IInv, CompactNothing, MemoryInv, Coherent, FilesInv, HistoryInv
<1>2. ControlInv' /\ InLifetime'
  BY <1>1, AfterCompactInv DEF CompactNothing
<1> QED BY <1>1, <1>2 DEF IInv

\* A step of the compaction to its next step.
LEMMA CompactStep ==
  ASSUME IInv, NEW th \in Threads, NEW next \in {"bak", "main", "uncleared", "truncate"},
         pc[th] \in {"compact", "bak", "main", "uncleared"}, Goto(th, next),
         UNCHANGED <<up, job, holder>>,
         \A q \in Procs : mem[q].gen \in Gens => mem'[q].gen \in Gens
  PROVE  ControlInv' /\ InLifetime'
<1> USE DEF IInv
<1>1. next \in PCs /\ Carrying(next, job[th])
  BY DEF ControlInv, Carrying, PCs
<1>2. ControlInv'
  BY <1>1, ControlStepSameJob DEF ControlInv
<1>3. ProcOf[th] \in Procs /\ mem'[ProcOf[th]].gen \in Gens
  BY OwnerType DEF InLifetime, Working
<1> QED BY <1>1, <1>2, <1>3, LifetimeStep

LEMMA PayloadInv == ASSUME IInv, NEW th \in Threads, Payload(th) PROVE IInv'
<1> DEFINE p == ProcOf[th]
           m == [mem[p] EXCEPT !.dirty = FALSE]
           snap == [gen |-> mem[p].gen, t2r |-> mem[p].t2r, ctr |-> mem[p].ctr,
                    key |-> KeyOf[p]]
<1> USE DEF IInv
<1>1. p \in Procs /\ mem[p] \in Memory /\ mem[p].gen \in Gens
  BY OwnerType, MemoryOf DEF Payload, InLifetime, Working
<1>2. m \in Memory /\ m.gen = mem[p].gen /\ m.t2r = mem[p].t2r /\ m.r2t = mem[p].r2t
  BY <1>1 DEF Memory
<1>3. SetMem(p, m) /\ raw' = [raw EXCEPT ![th] = snap]
  BY DEF Payload
<1> HIDE DEF m
<1>4. MemoryInv' /\ \A q \in Procs : mem[q].gen \in Gens => mem'[q].gen \in Gens
  BY <1>1, <1>2, <1>3, BookkeepingStep
<1>5. snap \in Snapshot
  BY <1>1 DEF Memory, Snapshot, Keys
<1> HIDE DEF snap
<1>6. FilesInv' /\ HistoryInv'
  BY <1>3, <1>5 DEF Payload, FilesInv, HistoryInv
<1>7. ControlInv' /\ InLifetime'
  BY <1>4, CompactStep DEF Payload
<1> QED BY <1>4, <1>6, <1>7

LEMMA WriteInv ==
  ASSUME IInv, NEW th \in Threads, WriteBak(th) \/ WriteMain(th) \/ RemoveTombstone(th)
  PROVE  IInv'
<1> DEFINE p == ProcOf[th]
           m == [mem[p] EXCEPT !.seen = "fresh", !.joined = TRUE]
<1> USE DEF IInv
<1>1. p \in Procs /\ mem[p] \in Memory
  BY OwnerType, MemoryOf
<1>2. m \in Memory /\ m.gen = mem[p].gen /\ m.t2r = mem[p].t2r /\ m.r2t = mem[p].r2t
  BY <1>1 DEF Memory
<1>3. WriteMain(th) => SetMemRestat(p, m)
  BY DEF WriteMain
<1> HIDE DEF m
<1>4. MemoryInv' /\ \A q \in Procs : mem[q].gen \in Gens => mem'[q].gen \in Gens
  BY <1>1, <1>2, <1>3, BookkeepingStep
     DEF WriteBak, RemoveTombstone, MemoryInv, Coherent
<1>5. FilesInv'
  <2>1. disk \in Disk /\ raw[th] \in Snapshot \cup {None, Corrupt} /\ UNCHANGED raw
    BY DEF FilesInv, WriteBak, WriteMain, RemoveTombstone
  <2>2. CASE WriteBak(th)
    BY <2>1, <2>2 DEF WriteBak, FilesInv, Disk
  <2>3. CASE WriteMain(th)
    BY <2>1, <2>3 DEF WriteMain, FilesInv, Disk
  <2>4. CASE RemoveTombstone(th)
    BY <2>1, <2>4 DEF RemoveTombstone, FilesInv, Disk
  <2> QED BY <2>2, <2>3, <2>4
<1>6. HistoryInv'
  BY DEF WriteBak, WriteMain, RemoveTombstone, HistoryInv
<1>7. ControlInv' /\ InLifetime'
  BY <1>4, CompactStep DEF WriteBak, WriteMain, RemoveTombstone
<1> QED BY <1>4, <1>5, <1>6, <1>7

LEMMA TruncateInv == ASSUME IInv, NEW th \in Threads, Truncate(th) PROVE IInv'
<1> DEFINE p == ProcOf[th]
           m == [mem[p] EXCEPT !.joff = 0, !.jlines = 0]
<1> USE DEF IInv
<1>1. p \in Procs /\ mem[p] \in Memory
  BY OwnerType, MemoryOf
<1>2. m \in Memory /\ m.gen = mem[p].gen /\ m.t2r = mem[p].t2r /\ m.r2t = mem[p].r2t
  <2>1. 0 \in Nat /\ 0 \in 0 .. CompactEvery
    BY ConstantsAssumption
  <2> QED BY <1>1, <2>1 DEF Memory
<1>3. SetMem(p, m)
  BY DEF Truncate
<1> HIDE DEF m
<1>4. MemoryInv' /\ \A q \in Procs : mem[q].gen \in Gens => mem'[q].gen \in Gens
  BY <1>1, <1>2, <1>3, BookkeepingStep
<1>5. FilesInv' /\ HistoryInv'
  <2>1. disk' \in Disk
    <3>1. <<>> \in Seq(Entry)
      OBVIOUS
    <3> QED BY <3>1 DEF Truncate, FilesInv, Disk
  <2>2. raw' \in [Threads -> Snapshot \cup {None}]
    BY DEF Truncate, FilesInv
  <2> QED BY <2>1, <2>2 DEF Truncate, FilesInv, HistoryInv
<1>6. ControlInv' /\ InLifetime'
  BY <1>4, AfterCompactInv DEF Truncate
<1> QED BY <1>4, <1>5, <1>6

LEMMA CompactFailsInv == ASSUME IInv, NEW th \in Threads, CompactFails(th) PROVE IInv'
<1> DEFINE p == ProcOf[th]
           m == [mem[p] EXCEPT !.dirty = TRUE]
<1> USE DEF IInv
<1>1. p \in Procs /\ mem[p] \in Memory
  BY OwnerType, MemoryOf
<1>2. m \in Memory /\ m.gen = mem[p].gen /\ m.t2r = mem[p].t2r /\ m.r2t = mem[p].r2t
  BY <1>1 DEF Memory
<1>3. SetMem(p, m)
  BY DEF CompactFails
<1> HIDE DEF m
<1>4. MemoryInv' /\ \A q \in Procs : mem[q].gen \in Gens => mem'[q].gen \in Gens
  BY <1>1, <1>2, <1>3, BookkeepingStep
<1>5. "write" \in UpsetKinds
  BY DEF UpsetKinds
<1>6. FilesInv' /\ HistoryInv'
  BY <1>5, UpsetType DEF CompactFails, FilesInv, HistoryInv
<1>7. ControlInv' /\ InLifetime'
  BY <1>4, AfterCompactInv DEF CompactFails
<1> QED BY <1>4, <1>6, <1>7

-----------------------------------------------------------------------------
(* Every step keeps the invariant: clear and the deletions.                *)

LEMMA ClearInv == ASSUME IInv, NEW th \in Threads, Clear(th) PROVE IInv'
<1> DEFINE p == ProcOf[th]
           m == [NewMemory EXCEPT !.gen = FreshGen, !.joined = mem[p].joined,
                                  !.memOnly = mem[p].memOnly]
           j == [job[th] EXCEPT !.kind = "clear", !.gen = mem[p].gen]
<1> USE DEF IInv
<1>1. p \in Procs /\ mem[p] \in Memory /\ mem[p].gen \in Gens /\ FreshGen \in Gens
  BY OwnerType, MemoryOf, Fresh DEF Clear, Ready, InLifetime
<1>2. m \in Memory /\ m.gen = FreshGen /\ m.t2r = NewMemory.t2r /\ m.r2t = NewMemory.r2t
  BY <1>1, NewMemoryGood DEF Memory
<1>3. SetMem(p, m)
  BY DEF Clear
<1> HIDE DEF m
<1>4. CoherentMemory(m)
  BY <1>2, NewMemoryGood DEF CoherentMemory
<1>5. MemoryInv' /\ \A q \in Procs : mem[q].gen \in Gens => mem'[q].gen \in Gens
  BY <1>1, <1>2, <1>3, <1>4, MemoryStep
<1>6. "clear" \in UpsetKinds
  BY DEF UpsetKinds
<1>7. FilesInv' /\ HistoryInv'
  BY <1>6, UpsetType DEF Clear, FilesInv, HistoryInv
<1>8. CASE mem[p].memOnly
  <2>1. UNCHANGED <<pc, job, up, holder>>
    BY <1>8 DEF Clear
  <2>2. ControlInv' /\ InLifetime'
    BY <1>5, <2>1, OwnerType DEF ControlInv, InLifetime
  <2> QED BY <1>5, <1>7, <2>2
<1>9. CASE ~mem[p].memOnly
  <2>1. Goto(th, "clear") /\ job' = [job EXCEPT ![th] = j] /\ UNCHANGED <<up, holder>>
    BY <1>9 DEF Clear, ControlInv
  <2>2. j \in Job /\ "clear" \in PCs /\ Carrying("clear", j)
    <3>1. mem[p].gen \in Gens
      BY <1>1 DEF Clear, Ready, InLifetime
    <3> QED BY <1>1, <3>1 DEF ControlInv, Job, Kinds, PCs, Carrying
  <2> HIDE DEF j
  <2>3. ControlInv'
    BY <2>1, <2>2, ControlStep DEF ControlInv
  <2>4. "clear" \notin Working
    BY DEF Working
  <2>5. InLifetime'
    BY <1>5, <2>1, <2>2, <2>4, LifetimeStep
  <2> QED BY <1>5, <1>7, <2>3, <2>5
<1> QED BY <1>8, <1>9

LEMMA ClearFilesInv == ASSUME IInv, NEW th \in Threads, ClearFiles(th) PROVE IInv'
<1> DEFINE todo == <<"main", "bak", "journal">>
           j == [job[th] EXCEPT !.todo = todo]
<1> USE DEF IInv
<1>1. MemoryInv' /\ FilesInv'
  BY DEF ClearFiles, MemoryInv, Coherent, FilesInv
<1>2. holder' \in Threads \cup {None} /\ upsets' \in [UpsetKinds -> Nat]
  BY LockTypes DEF ClearFiles
<1>3. HistoryInv'
  BY <1>2 DEF ClearFiles, HistoryInv, ControlInv, Carrying
<1>4. todo \in Seq(Files) /\ todo # <<>>
  BY DEF Files
<1>5. job' = [job EXCEPT ![th] = j]
  BY DEF ClearFiles, ControlInv
<1> HIDE DEF todo
<1>6. j \in Job /\ "unlink" \in PCs /\ Carrying("unlink", j)
  BY <1>4 DEF ControlInv, Job, PCs, Carrying
<1> HIDE DEF j
<1>7. ControlInv'
  BY <1>2, <1>5, <1>6, ControlStep DEF ClearFiles, ControlInv
<1>8. InLifetime'
  BY <1>6, LifetimeStep DEF ClearFiles, Working
<1> QED BY <1>1, <1>3, <1>7, <1>8

\* Only a list of one has an empty tail.
LEMMA TailOfMore ==
  ASSUME NEW S, NEW s \in Seq(S), s # <<>>, Tail(s) = <<>>
  PROVE  Len(s) = 1
<1>1. Len(Tail(s)) = Len(s) - 1
  BY HeadTailProperties
<1>2. Len(Tail(s)) = 0
  BY EmptySeq
<1>3. Len(s) \in Nat
  BY LenProperties
<1> QED BY <1>1, <1>2, <1>3

LEMMA UnlinkInv == ASSUME IInv, NEW th \in Threads, Unlink(th) PROVE IInv'
<1> DEFINE todo == job[th].todo
           j == [job[th] EXCEPT !.todo = Tail(todo)]
           next == IF Len(todo) = 1 THEN "tombstone" ELSE "unlink"
<1> USE DEF IInv
<1>1. job[th] \in Job /\ todo \in Seq(Files) /\ todo # <<>> /\ Carrying("unlink", job[th])
  BY DEF Unlink, ControlInv, Carrying, Job
<1>2. Head(todo) \in Files /\ Tail(todo) \in Seq(Files)
  BY <1>1
<1>3. Len(todo) # 1 => Tail(todo) # <<>>
  BY <1>1, TailOfMore
<1>4. /\ disk' = Without(disk, Head(todo)) /\ job' = [job EXCEPT ![th] = j]
      /\ mem' = [p \in Procs |-> IF Head(todo) = "main" THEN Restat(mem[p]) ELSE mem[p]]
      /\ Goto(th, next) /\ UNCHANGED <<up, raw, holder, issued, dropped, upsets>>
  BY DEF Unlink, ControlInv
<1> HIDE DEF todo
<1>5. MemoryInv' /\ \A q \in Procs : mem[q].gen \in Gens => mem'[q].gen \in Gens
  <2>1. mem' \in [Procs -> Memory]
    BY <1>4, RestatGood DEF MemoryInv
  <2>2. \A q \in Procs : mem'[q] \in {mem[q], Restat(mem[q])}
    BY <1>4
  <2> QED BY <2>1, <2>2, RestatStep
<1>6. FilesInv'
  <2>1. <<>> \in Seq(Entry)
    OBVIOUS
  <2>2. disk \in Disk
    BY DEF FilesInv
  <2>3. CASE Head(todo) = "main"
    BY <1>4, <2>2, <2>3 DEF FilesInv, Disk, Without
  <2>4. CASE Head(todo) = "bak"
    BY <1>4, <2>2, <2>4 DEF FilesInv, Disk, Without
  <2>5. CASE Head(todo) = "journal"
    BY <1>4, <2>1, <2>2, <2>5 DEF FilesInv, Disk, Without
  <2> QED BY <1>2, <2>3, <2>4, <2>5 DEF Files
<1>7. HistoryInv'
  BY <1>4 DEF HistoryInv
<1>8. j \in Job /\ next \in PCs /\ next \notin Working /\ Carrying(next, j)
  BY <1>1, <1>2, <1>3 DEF Job, PCs, Working, Carrying
<1> HIDE DEF j, next
<1>9. ControlInv'
  BY <1>4, <1>8, ControlStep DEF ControlInv
<1>10. InLifetime'
  BY <1>4, <1>5, <1>8, LifetimeStep
<1> QED BY <1>5, <1>6, <1>7, <1>9, <1>10

LEMMA TombstoneInv == ASSUME IInv, NEW th \in Threads, Tombstone(th) PROVE IInv'
<1> DEFINE p == ProcOf[th]
           gone == [disk EXCEPT !.main = None, !.bak = None, !.journal = <<>>]
           m == Loaded(p, gone, FreshGen)
           j == [job[th] EXCEPT !.gen = None]
<1> USE DEF IInv
<1>1. p \in Procs /\ job[th] \in Job /\ disk \in Disk
  BY OwnerType DEF ControlInv, FilesInv
<1>2. FilesInv' /\ HistoryInv'
  <2>1. job[th].gen \in Gens \cup {None, Blank}
    BY <1>1 DEF Job
  <2> QED BY <1>1, <2>1 DEF Tombstone, FilesInv, Disk, HistoryInv
<1>3. holder' \in Threads \cup {None}
  BY LockTypes DEF Tombstone
<1>4. CASE job[th].kind = "boot"
  <2>1. Goto(th, "load") /\ job' = [job EXCEPT ![th] = j] /\ UNCHANGED <<mem, up>>
    BY <1>4 DEF Tombstone, ControlInv
  <2>2. j \in Job /\ "load" \in PCs /\ Carrying("load", j)
    BY <1>1, <1>4 DEF Job, PCs, Carrying
  <2> HIDE DEF j
  <2>3. ControlInv'
    BY <1>3, <2>1, <2>2, ControlStep DEF ControlInv
  <2>4. MemoryInv'
    BY <2>1 DEF MemoryInv, Coherent
  <2>5. InLifetime'
    BY <2>1, <2>2, LifetimeStep DEF Working
  <2> QED BY <1>2, <2>3, <2>4, <2>5
<1>5. CASE job[th].kind = "expire"
  <2>1. /\ FreshGen \in Gens /\ SetMem(p, m) /\ Rest(th)
        /\ up' = [up EXCEPT ![p] = "up"]
    BY <1>5, Fresh DEF Tombstone
  <2>2. GoodFiles(gone)
    <3>1. <<>> \in Seq(Entry)
      OBVIOUS
    <3> QED BY <1>1, <3>1 DEF Disk, GoodFiles
  <2> HIDE DEF gone
  <2>3. m \in Memory /\ m.gen \in Gens /\ CoherentMemory(m)
    BY <1>1, <2>1, <2>2, LoadedGood
  <2> HIDE DEF m
  <2>4. /\ MemoryInv' /\ mem'[p] = m
        /\ \A q \in Procs : mem[q].gen \in Gens => mem'[q].gen \in Gens
    BY <1>1, <2>1, <2>3, MemoryStep
  <2>5. ControlInv' /\ Goto(th, "idle")
    BY <1>3, <2>1, ControlRest DEF ControlInv
  <2>6. InLifetime'
    BY <1>1, <2>1, <2>3, <2>4, <2>5, OwnerType DEF InLifetime, Working, Goto, ControlInv
  <2> QED BY <1>2, <2>4, <2>5, <2>6
<1>6. CASE job[th].kind \notin {"boot", "expire"}
  <2>1. Rest(th) /\ UNCHANGED <<mem, up>>
    BY <1>6 DEF Tombstone
  <2>2. ControlInv' /\ InLifetime'
    BY <1>3, <2>1, ControlRest, RestLifetime DEF ControlInv
  <2>3. MemoryInv'
    BY <2>1 DEF MemoryInv, Coherent
  <2> QED BY <1>2, <2>2, <2>3
<1> QED BY <1>4, <1>5, <1>6

-----------------------------------------------------------------------------
(* Every step keeps the invariant: the environment.                        *)

\* A process that dies takes its threads' work with it and nothing of the others'.
LEMMA DiesInv ==
  ASSUME IInv, NEW p \in Procs, Dies(p)
  PROVE  MemoryInv' /\ ControlInv' /\ InLifetime' /\ raw' \in [Threads -> Snapshot \cup {None}]
<1> USE DEF IInv
<1>1. MemoryInv'
  BY NewMemoryGood DEF Dies, MemoryInv, Coherent, CoherentMemory
<1>2. ControlInv'
  BY NoJobGood DEF Dies, ControlInv
<1>3. InLifetime'
  BY OwnerType DEF Dies, InLifetime, Working, MemoryInv, ControlInv
<1>4. raw' \in [Threads -> Snapshot \cup {None}]
  BY DEF Dies, FilesInv
<1> QED BY <1>1, <1>2, <1>3, <1>4

LEMMA CrashInv == ASSUME IInv, NEW p \in Procs, Crash(p) PROVE IInv'
<1>1. MemoryInv' /\ ControlInv' /\ InLifetime' /\ raw' \in [Threads -> Snapshot \cup {None}]
  BY DiesInv DEF Crash
<1>2. "crash" \in UpsetKinds /\ "stop" \in UpsetKinds
  BY DEF UpsetKinds
<1>3. FilesInv' /\ HistoryInv'
  BY <1>1, <1>2, UpsetType DEF Crash, IInv, FilesInv, HistoryInv
<1> QED BY <1>1, <1>3 DEF IInv

LEMMA CrashTornInv == ASSUME IInv, NEW th \in Threads, CrashTorn(th) PROVE IInv'
<1> DEFINE line == LineOf(th)
           part == [tok |-> None, val |-> None, gen |-> None, key |-> line.key]
<1>1. MemoryInv' /\ ControlInv' /\ InLifetime' /\ raw' \in [Threads -> Snapshot \cup {None}]
  BY OwnerType, DiesInv DEF CrashTorn
<1>2. line \in Entry
  BY LineOfType DEF CrashTorn
<1>3. part \in Entry
  <2>1. line.key \in Keys
    BY OwnerType DEF LineOf, Keys
  <2> HIDE DEF line
  <2> QED BY <2>1 DEF Entry
<1>4. Lines(disk) \in Seq(Entry) /\ disk \in Disk
  BY LinesType DEF IInv, FilesInv
<1>5. PICK t \in {part, line} :
        /\ Upset(IF t = part THEN "torn" ELSE "torn_whole")
        /\ disk' = [disk EXCEPT !.journal = Lines(disk), !.torn = t, !.idle = FALSE]
  BY DEF CrashTorn
<1>6. t \in Entry
  BY <1>2, <1>3
<1> HIDE DEF line, part
<1>7. FilesInv'
  BY <1>1, <1>4, <1>5, <1>6 DEF FilesInv, Disk
<1>8. "torn" \in UpsetKinds /\ "torn_whole" \in UpsetKinds
  BY DEF UpsetKinds
<1>9. HistoryInv'
  BY <1>5, <1>8, UpsetType DEF CrashTorn, IInv, HistoryInv
<1> QED BY <1>1, <1>7, <1>9 DEF IInv

LEMMA AgeInv == ASSUME IInv, Age PROVE IInv'
<1> USE DEF IInv
<1>1. "age" \in UpsetKinds
  BY DEF UpsetKinds
<1>2. HistoryInv'
  BY <1>1, UpsetType DEF Age, HistoryInv
<1>3. FilesInv'
  BY DEF Age, FilesInv, Disk
<1>4. MemoryInv' /\ ControlInv' /\ InLifetime'
  BY DEF Age, MemoryInv, Coherent, ControlInv, InLifetime
<1> QED BY <1>2, <1>3, <1>4

\* Harm to a file touches the memory of the processes only in what they know of its time.
LEMMA HarmInv ==
  ASSUME IInv, NEW f \in {"main", "bak"}, Harm(f)
  PROVE  MemoryInv' /\ ControlInv' /\ HistoryInv' /\ InLifetime' /\ UNCHANGED raw
<1> USE DEF IInv
<1>1. MemoryInv' /\ \A q \in Procs : mem[q].gen \in Gens => mem'[q].gen \in Gens
  <2>1. mem' \in [Procs -> Memory]
    BY RestatGood DEF Harm, MemoryInv
  <2>2. \A q \in Procs : mem'[q] \in {mem[q], Restat(mem[q])}
    BY DEF Harm
  <2> QED BY <2>1, <2>2, RestatStep
<1>2. "damage" \in UpsetKinds /\ "cold" \in UpsetKinds
  BY DEF UpsetKinds
<1>3. HistoryInv'
  BY <1>2, UpsetType DEF Harm, HistoryInv
<1>4. ControlInv' /\ UNCHANGED raw
  BY DEF Harm, ControlInv
<1>5. InLifetime'
  BY <1>1, OwnerType DEF Harm, InLifetime
<1> QED BY <1>1, <1>3, <1>4, <1>5

LEMMA DamageInv == ASSUME IInv, NEW f \in {"main", "bak"}, Damage(f) PROVE IInv'
<1>1. MemoryInv' /\ ControlInv' /\ HistoryInv' /\ InLifetime' /\ UNCHANGED raw
  BY HarmInv DEF Damage
<1>2. disk \in Disk /\ disk[f] \in Snapshot
  BY DEF IInv, FilesInv, Disk, Damage, Harm, Intact, IsFile
<1> DEFINE bad == IF disk[f].key = NoKey THEN Corrupt ELSE [disk[f] EXCEPT !.key = None]
<1>3. bad \in Snapshot \cup {Corrupt}
  BY <1>2 DEF Snapshot
<1>4. disk' = [disk EXCEPT ![f] = bad]
  BY <1>2 DEF Damage, Disk
<1> HIDE DEF bad
<1>5. FilesInv'
  <2>1. CASE f = "main"
    BY <1>1, <1>2, <1>3, <1>4, <2>1 DEF IInv, FilesInv, Disk
  <2>2. CASE f = "bak"
    BY <1>1, <1>2, <1>3, <1>4, <2>2 DEF IInv, FilesInv, Disk
  <2> QED BY <2>1, <2>2
<1> QED BY <1>1, <1>5 DEF IInv

LEMMA LoseMainInv == ASSUME IInv, LoseMain PROVE IInv'
<1>1. MemoryInv' /\ ControlInv' /\ HistoryInv' /\ InLifetime' /\ UNCHANGED raw
  BY HarmInv DEF LoseMain
<1>2. FilesInv'
  BY <1>1 DEF LoseMain, IInv, FilesInv, Disk
<1> QED BY <1>1, <1>2 DEF IInv

-----------------------------------------------------------------------------
(* The theorems.                                                           *)

LEMMA NextInv == IInv /\ [Next]_vars => IInv'
<1> SUFFICES ASSUME IInv, [Next]_vars PROVE IInv'
  OBVIOUS
<1>1. ASSUME NEW th \in Threads, Operation(th) PROVE IInv'
  BY <1>1, StartInv, ReuseInv, TokenizeFarInv, CallInv, RestoreHitInv, ClearInv DEF Operation
<1>2. ASSUME NEW th \in Threads, Step(th) PROVE IInv'
  BY <1>2, SweepInv, LoadExpiredInv, LoadInv, SyncInv, MintLockedOutInv, MintFoundInv,
     MintNewInv, AppendLineInv, ReturnInv, CompactNothingInv, PayloadInv, WriteInv,
     TruncateInv, ClearFilesInv, UnlinkInv, TombstoneInv DEF Step
<1>3. CASE Environment
  BY <1>3, AppendFailsInv, CompactFailsInv, CrashTornInv, CrashInv, DamageInv, LoseMainInv,
     AgeInv DEF Environment
<1>4. CASE UNCHANGED vars
  BY <1>4, StutterInv
<1> QED BY <1>1, <1>2, <1>3, <1>4 DEF Next

\* The inductive invariant holds in every reachable state.
THEOREM Invariance == Spec => []IInv
BY InitInv, NextInv, PTL DEF Spec

\* The vault objects, the files, what the threads carry and what was handed out always
\* have the form the code expects: in particular a process that serves calls or writes
\* files belongs to a lifetime (durable_vault.py:200-201), and a mint finds its value.
THEOREM TypeCorrect == Spec => []TypeOK
<1>1. IInv => TypeOK
  BY DEF IInv, MemoryInv, ControlInv, FilesInv, HistoryInv, TypeOK
<1> QED BY <1>1, Invariance, PTL

\* In every process, after any sequence of merges, swaps, loads, mints, crashes and faults,
\* a value's token restores to that value (durable_vault.py:295-310, 513-532).
THEOREM CoherentVault == Spec => []Coherent
<1>1. IInv => Coherent
  BY DEF IInv, MemoryInv
<1> QED BY <1>1, Invariance, PTL
=============================================================================
