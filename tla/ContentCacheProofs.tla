-------------------------- MODULE ContentCacheProofs --------------------------
(***************************************************************************)
(* What a content cache sends, for any number of threads, values, contents *)
(* and lifetimes of the vault: everything found is masked, and the tokens  *)
(* are the vault's.                                                        *)
(***************************************************************************)
EXTENDS ContentCache, FiniteSetTheorems, TLAPS

\* The tokens of a text are those of a vault with map tok, if it is of the vault's lifetime.
Stands(t, tok, now) ==
  /\ t.life <= now
  /\ t.life = now => \A v \in Values : t.put[v] \in {0, tok[v]}

\* Everything the rules find in a text is masked in it.
Finished(t) == Finds[t.content] \subseteq Masked(t)

\* A text in the making: what was found is masked or still to be replaced.
Making(w, at) ==
  /\ w \in Work
  /\ Finds[w.text.content] \subseteq w.found
  /\ at = "replace" => w.found \subseteq Masked(w.text) \cup w.todo
  /\ at = "store" => w.found \subseteq Masked(w.text)

IInv ==
  /\ TypeOK
  /\ \A e \in cache : Finished(e.text) /\ Stands(e.text, token, life)
  /\ given # None => Finished(given.text) /\ Stands(given.text, token, life)
  /\ \A th \in Threads :
       pc[th] # "idle" => Making(work[th], pc[th]) /\ Stands(work[th].text, token, life)

-----------------------------------------------------------------------------
(* The vault.                                                              *)

LEMMA KnownFinite ==
  ASSUME NEW tok \in [Values -> Numbers]
  PROVE  LET known == {w \in Values : tok[w] # 0}
         IN  /\ IsFiniteSet(known) /\ Cardinality(known) \in Numbers
             /\ \A v \in Values : tok[v] = 0 => Cardinality(known) + 1 \in Numbers
<1> DEFINE known == {w \in Values : tok[w] # 0}
<1>1. IsFiniteSet(Values) /\ known \in SUBSET Values
  BY ConstantsAssumption
<1>2. /\ IsFiniteSet(known) /\ Cardinality(known) <= Cardinality(Values)
      /\ Cardinality(known) = Cardinality(Values) => known = Values
  BY <1>1, FS_Subset
<1>3. Cardinality(known) \in Nat /\ Cardinality(Values) \in Nat
  BY <1>1, <1>2, FS_CardinalityType
<1>4. \A v \in Values : tok[v] = 0 => known # Values
  OBVIOUS
<1> HIDE DEF known
<1>5. \A v \in Values : tok[v] = 0 => Cardinality(known) + 1 \in Numbers
  BY <1>2, <1>3, <1>4 DEF Numbers
<1>6. Cardinality(known) \in Numbers
  BY <1>2, <1>3 DEF Numbers
<1> QED BY <1>2, <1>5, <1>6 DEF known

\* A value that is learnt has a token, and every other value keeps its own.
LEMMA LearntGood ==
  ASSUME NEW tok \in [Values -> Numbers], NEW v \in Values
  PROVE  /\ Learnt(tok, v) \in [Values -> Numbers]
         /\ Learnt(tok, v)[v] # 0
         /\ \A w \in Values : tok[w] # 0 => Learnt(tok, v)[w] = tok[w]
<1> DEFINE known == {w \in Values : tok[w] # 0}
<1>1. CASE tok[v] # 0
  BY <1>1 DEF Learnt
<1>2. CASE tok[v] = 0
  <2>1. Cardinality(known) \in Nat /\ Cardinality(known) + 1 \in Numbers
    BY <1>2, KnownFinite DEF Numbers
  <2>2. Learnt(tok, v) = [tok EXCEPT ![v] = Cardinality(known) + 1]
    BY <1>2 DEF Learnt
  <2> HIDE DEF known
  <2> QED BY <1>2, <2>1, <2>2
<1> QED BY <1>1, <1>2

\* What can become of the vault in a step: it stays as it is, it learns values, or another
\* lifetime begins.
Grows == token' \in [Values -> Numbers] /\ life' = life
           /\ \A w \in Values : token[w] # 0 => token'[w] = token[w]
Renewed == token' \in [Values -> Numbers] /\ life' \in 1 .. MaxLives /\ life' = life + 1

LEMMA DiskLook == ASSUME TypeOK, Merged \/ Swapped PROVE Grows \/ Renewed
<1>1. CASE Merged
  BY <1>1, LearntGood DEF Merged, Grows, TypeOK
<1>2. CASE Swapped
  <2>1. token' \in [Values -> Numbers]
    BY <1>2 DEF Swapped
  <2>2. life' \in 1 .. MaxLives /\ life' = life + 1
    BY <1>2, ConstantsAssumption DEF Swapped, TypeOK
  <2> QED BY <2>1, <2>2 DEF Renewed
<1> QED BY <1>1, <1>2

\* A text that stands goes on standing.
LEMMA StandsStays ==
  ASSUME TypeOK, Grows \/ Renewed \/ UNCHANGED <<token, life>>,
         NEW t \in Text, Stands(t, token, life)
  PROVE  Stands(t, token', life')
<1>1. t.life \in Nat /\ life \in Nat
  BY ConstantsAssumption DEF Text, TypeOK
<1>2. CASE Grows
  <2>1. \A v \in Values : t.put[v] \in {0, token[v]} => t.put[v] \in {0, token'[v]}
    BY <1>2 DEF Grows
  <2> QED BY <1>2, <2>1 DEF Grows, Stands
<1>3. CASE Renewed
  BY <1>1, <1>3 DEF Renewed, Stands
<1>4. CASE UNCHANGED <<token, life>>
  BY <1>4 DEF Stands
<1> QED BY <1>2, <1>3, <1>4

LEMMA SizeType == ASSUME TypeOK PROVE Size \in Numbers /\ Size \in Nat
<1>1. Cardinality({w \in Values : token[w] # 0}) \in Numbers
  BY KnownFinite DEF TypeOK
<1> QED BY <1>1 DEF Size, Known, Numbers

-----------------------------------------------------------------------------
(* Steps.                                                                  *)

LEMMA InitInv == Init => IInv
<1> SUFFICES ASSUME Init PROVE IInv
  OBVIOUS
<1>1. 0 \in Numbers
  BY ConstantsAssumption, FS_CardinalityType DEF Numbers
<1>2. Cardinality({}) <= CacheMax
  BY ConstantsAssumption, FS_EmptySet
<1>3. 1 \in 1 .. MaxLives
  BY ConstantsAssumption
<1> QED BY <1>1, <1>2, <1>3 DEF Init, IInv, TypeOK

\* What a step leaves of the entries, and of the texts that other threads are making.
LEMMA OthersStay ==
  ASSUME IInv, Grows \/ Renewed \/ UNCHANGED <<token, life>>
  PROVE  /\ \A e \in cache : Finished(e.text) /\ Stands(e.text, token', life')
         /\ \A th \in Threads :
              pc[th] # "idle" /\ work'[th] = work[th] /\ pc'[th] = pc[th]
                => Making(work'[th], pc'[th]) /\ Stands(work'[th].text, token', life')
<1>1. ASSUME NEW t \in Text, Stands(t, token, life) PROVE Stands(t, token', life')
  BY <1>1, StandsStays DEF IInv
<1>2. \A e \in cache : e.text \in Text
  BY DEF IInv, TypeOK, Entry
<1>3. \A th \in Threads : pc[th] # "idle" => work[th].text \in Text
  BY DEF IInv, Making, Work
<1> QED BY <1>1, <1>2, <1>3 DEF IInv

\* A step that returns no text, keeps the cache, and leaves its own thread's text good.
LEMMA ThreadInv ==
  ASSUME IInv, TypeOK', UNCHANGED cache, given' = None,
         Grows \/ Renewed \/ UNCHANGED <<token, life>>,
         NEW th \in Threads,
         \A t \in Threads \ {th} : work'[t] = work[t] /\ pc'[t] = pc[t],
         pc'[th] # "idle" => Making(work'[th], pc'[th]) /\ Stands(work'[th].text, token', life')
  PROVE  IInv'
BY OthersStay DEF IInv

LEMMA HitInv == ASSUME IInv, NEW th \in Threads, NEW c \in Contents, Hit(th, c) PROVE IInv'
<1>1. PICK e \in At(c, Size) : given' = [text |-> e.text, known |-> Known]
  BY DEF Hit
<1>2. e \in cache /\ e.text \in Text /\ Known \subseteq Values
  BY <1>1 DEF At, IInv, TypeOK, Entry, Known
<1>3. UNCHANGED <<token, life, list, cache, pc, work>>
  BY DEF Hit
<1>4. TypeOK'
  BY <1>1, <1>2, <1>3 DEF IInv, TypeOK
<1> QED BY <1>1, <1>2, <1>3, <1>4 DEF IInv

LEMMA MissInv == ASSUME IInv, NEW th \in Threads, NEW c \in Contents, Miss(th, c) PROVE IInv'
<1> DEFINE blank == [content |-> c, put |-> [v \in Values |-> 0], asked |-> Known, life |-> life]
<1>1. PICK found \in {Finds[c], Finds[c] \cup NerFinds[c]} :
        work' = [work EXCEPT ![th] =
                  [text |-> blank, found |-> found, todo |-> found, size |-> 0]]
  BY DEF Miss
<1>2. /\ UNCHANGED <<token, life, list, cache>> /\ given' = None
      /\ pc' = [pc EXCEPT ![th] = "learn"]
  BY DEF Miss
<1>3. blank \in Text /\ found \in SUBSET Values /\ Finds[c] \subseteq found /\ 0 \in Numbers
  <2>1. 0 \in Numbers
    BY ConstantsAssumption, FS_CardinalityType DEF Numbers
  <2> QED BY <1>1, <2>1, ConstantsAssumption DEF Text, Known, IInv, TypeOK
<1>4. Stands(blank, token, life)
  BY DEF Stands, IInv, TypeOK
<1>5. blank.content = c
  OBVIOUS
<1> HIDE DEF blank
<1>6. TypeOK'
  BY <1>1, <1>2, <1>3 DEF IInv, TypeOK, Work
<1>7. /\ work'[th] = [text |-> blank, found |-> found, todo |-> found, size |-> 0]
      /\ pc'[th] = "learn"
  BY <1>1, <1>2 DEF IInv, TypeOK
<1>8. Making(work'[th], pc'[th]) /\ Stands(work'[th].text, token', life')
  BY <1>2, <1>3, <1>4, <1>5, <1>7 DEF Making, Work
<1>9. \A t \in Threads \ {th} : work'[t] = work[t] /\ pc'[t] = pc[t]
  BY <1>1, <1>2 DEF IInv, TypeOK
<1> QED BY <1>2, <1>6, <1>8, <1>9, ThreadInv

\* Both looks at the disk.
LEMMA LookInv ==
  ASSUME IInv, NEW th \in Threads, LookFor(th) \/ Restore(th)
  PROVE  IInv'
<1>1. (Grows \/ Renewed) /\ UNCHANGED <<list, cache, pc, work>> /\ given' = None
  BY DiskLook DEF LookFor, Restore, IInv
<1>2. TypeOK'
  BY <1>1 DEF Grows, Renewed, IInv, TypeOK
<1>3. pc[th] # "idle" => Making(work'[th], pc'[th]) /\ Stands(work'[th].text, token', life')
  BY <1>1, OthersStay
<1> QED BY <1>1, <1>2, <1>3, ThreadInv

\* Learning a value is a way for the vault to grow.
LEMMA LearntGrows ==
  ASSUME TypeOK, NEW v \in Values, token' = Learnt(token, v), UNCHANGED life
  PROVE  Grows /\ token'[v] # 0
BY LearntGood DEF TypeOK, Grows

LEMMA LearnInv == ASSUME IInv, NEW th \in Threads, NEW v \in Values, Learn(th, v) PROVE IInv'
<1>1. /\ pc[th] = "learn" /\ token' = Learnt(token, v)
      /\ work' = [work EXCEPT ![th].todo = @ \ {v}]
      /\ UNCHANGED <<life, list, cache, pc>> /\ given' = None
  BY DEF Learn
<1>2. Grows
  BY <1>1, LearntGrows DEF IInv
<1>3. Making(work[th], "learn") /\ Stands(work[th].text, token, life)
  BY <1>1 DEF IInv
<1>4. work'[th] = [work[th] EXCEPT !.todo = @ \ {v}] /\ work'[th] \in Work
  BY <1>1, <1>3 DEF IInv, TypeOK, Making, Work
<1>5. TypeOK'
  BY <1>1, <1>2, <1>4 DEF IInv, TypeOK, Grows
<1>6. work'[th].text = work[th].text /\ work'[th].found = work[th].found
  BY <1>3, <1>4 DEF Making, Work
<1>7. Stands(work[th].text, token', life')
  BY <1>2, <1>3, StandsStays DEF IInv, Making, Work
<1>8. Making(work'[th], pc'[th]) /\ Stands(work'[th].text, token', life')
  BY <1>1, <1>3, <1>4, <1>6, <1>7 DEF Making
<1>9. \A t \in Threads \ {th} : work'[t] = work[t] /\ pc'[t] = pc[t]
  BY <1>1 DEF IInv, TypeOK
<1> QED BY <1>1, <1>2, <1>5, <1>8, <1>9, ThreadInv

LEMMA ScanInv == ASSUME IInv, NEW th \in Threads, Scan(th) PROVE IInv'
<1> DEFINE spans == Spans(work[th], ListNow.vals)
<1>1. /\ pc[th] = "learn" /\ list' = ListNow
      /\ work' = [work EXCEPT ![th].todo = spans]
      /\ pc' = [pc EXCEPT ![th] = "replace"]
      /\ UNCHANGED <<token, life, cache>> /\ given' = None
  BY DEF Scan
<1>2. Making(work[th], "learn") /\ Stands(work[th].text, token, life)
  BY <1>1 DEF IInv
<1>3. ListNow \in [n : Numbers, vals : SUBSET Values]
  BY SizeType DEF ListNow, Known, IInv, TypeOK
<1>4. spans \in SUBSET Values /\ work[th].found \subseteq spans
  BY <1>2, <1>3 DEF Spans, Making, Work
<1> HIDE DEF spans
<1>5. work'[th] = [work[th] EXCEPT !.todo = spans] /\ pc'[th] = "replace"
  BY <1>1 DEF IInv, TypeOK
<1>6. /\ work'[th] \in Work /\ work'[th].todo = spans
      /\ work'[th].text = work[th].text /\ work'[th].found = work[th].found
  BY <1>2, <1>4, <1>5 DEF Making, Work
<1>7. TypeOK'
  BY <1>1, <1>3, <1>6 DEF IInv, TypeOK
<1>8. Making(work'[th], pc'[th]) /\ Stands(work'[th].text, token', life')
  BY <1>1, <1>2, <1>4, <1>5, <1>6 DEF Making
<1>9. \A t \in Threads \ {th} : work'[t] = work[t] /\ pc'[t] = pc[t]
  BY <1>1 DEF IInv, TypeOK
<1> QED BY <1>1, <1>7, <1>8, <1>9, ThreadInv

LEMMA ReplaceInv == ASSUME IInv, NEW th \in Threads, NEW v \in Values, Replace(th, v) PROVE IInv'
<1> DEFINE w == work[th]
           next == work'[th]
<1>1. /\ pc[th] = "replace" /\ token' = Learnt(token, v)
      /\ work' = [work EXCEPT ![th].todo = @ \ {v}, ![th].text.put[v] = Learnt(token, v)[v]]
      /\ UNCHANGED <<life, list, cache, pc>> /\ given' = None
  BY DEF Replace
<1>2. Grows /\ token'[v] # 0
  BY <1>1, LearntGrows DEF IInv
<1>3. Making(w, "replace") /\ Stands(w.text, token, life)
  BY <1>1 DEF IInv
<1>4. next = [text |-> [w.text EXCEPT !.put[v] = token'[v]], found |-> w.found,
              todo |-> w.todo \ {v}, size |-> w.size]
  BY <1>1, <1>3 DEF IInv, TypeOK, Making, Work
<1>5. Stands(w.text, token', life')
  BY <1>2, <1>3, StandsStays DEF IInv, Making, Work
<1>6. /\ w.text \in Text /\ w.found \in SUBSET Values /\ w.todo \in SUBSET Values
      /\ w.size \in Numbers
  BY <1>3 DEF Making, Work
<1> DEFINE t == [w.text EXCEPT !.put[v] = token'[v]]
<1>7. /\ t \in Text /\ t.content = w.text.content /\ t.life = w.text.life
      /\ t.put = [w.text.put EXCEPT ![v] = token'[v]]
  BY <1>2, <1>6 DEF Grows, Text
<1>8. Masked(t) = Masked(w.text) \cup {v}
  BY <1>2, <1>6, <1>7 DEF Masked, Text
<1>9. Stands(t, token', life')
  BY <1>5, <1>6, <1>7 DEF Stands, Text
<1>10. next \in Work /\ next.text = t /\ next.found = w.found /\ next.todo = w.todo \ {v}
  BY <1>4, <1>6, <1>7 DEF Work
<1>11. TypeOK'
  <2>1. work' \in [Threads -> Work \cup {None}]
    BY <1>1, <1>10 DEF IInv, TypeOK
  <2> QED BY <1>1, <1>2, <2>1 DEF IInv, TypeOK, Grows
<1>12. \A u \in Threads \ {th} : work'[u] = work[u] /\ pc'[u] = pc[u]
  BY <1>1 DEF IInv, TypeOK
<1>13. pc'[th] = "replace"
  BY <1>1
<1> HIDE DEF w, next, t
<1>14. Making(next, "replace")
  BY <1>3, <1>7, <1>8, <1>10 DEF Making
<1>15. Making(work'[th], pc'[th]) /\ Stands(work'[th].text, token', life')
  BY <1>9, <1>10, <1>13, <1>14 DEF next
<1> QED BY <1>1, <1>2, <1>11, <1>12, <1>15, ThreadInv

LEMMA MeasureInv == ASSUME IInv, NEW th \in Threads, Measure(th) PROVE IInv'
<1>1. /\ pc[th] = "replace" /\ work[th].todo = {}
      /\ work' = [work EXCEPT ![th].size = Size]
      /\ pc' = [pc EXCEPT ![th] = "store"]
      /\ UNCHANGED <<token, life, list, cache>> /\ given' = None
  BY DEF Measure
<1>2. Making(work[th], "replace") /\ Stands(work[th].text, token, life)
  BY <1>1 DEF IInv
<1>3. work'[th] = [work[th] EXCEPT !.size = Size] /\ pc'[th] = "store" /\ Size \in Numbers
  BY <1>1, SizeType DEF IInv, TypeOK
<1>4. /\ work'[th] \in Work
      /\ work'[th].text = work[th].text /\ work'[th].found = work[th].found
  BY <1>2, <1>3 DEF Making, Work
<1>5. TypeOK'
  BY <1>1, <1>4 DEF IInv, TypeOK
<1>6. Making(work'[th], pc'[th]) /\ Stands(work'[th].text, token', life')
  BY <1>1, <1>2, <1>3, <1>4 DEF Making
<1>7. \A t \in Threads \ {th} : work'[t] = work[t] /\ pc'[t] = pc[t]
  BY <1>1 DEF IInv, TypeOK
<1> QED BY <1>1, <1>5, <1>6, <1>7, ThreadInv

LEMMA StoreInv == ASSUME IInv, NEW th \in Threads, Store(th) PROVE IInv'
<1> DEFINE t == work[th].text
           n == work[th].size
           entry == [size |-> n, text |-> t]
<1>1. /\ pc[th] = "store"
      /\ cache' \in Kept((cache \ At(t.content, n)) \cup {entry})
      /\ given' = [text |-> t, known |-> t.asked]
      /\ work' = [work EXCEPT ![th] = None] /\ pc' = [pc EXCEPT ![th] = "idle"]
      /\ UNCHANGED <<token, life, list>>
  BY DEF Store
<1>2. Making(work[th], "store") /\ Stands(t, token, life)
  BY <1>1 DEF IInv
<1>3. t \in Text /\ Finished(t) /\ n \in Numbers
  BY <1>1, <1>2 DEF Making, Work, Finished
<1>4. entry \in Entry /\ t.asked \in SUBSET Values
  BY <1>3, ConstantsAssumption DEF Numbers, Entry, Text
<1>5. cache' \subseteq cache \cup {entry} /\ Cardinality(cache') <= CacheMax
  BY <1>1 DEF Kept
<1>6. entry.text = t /\ given'.text = t
  BY <1>1
<1> HIDE DEF t, entry
<1>7. TypeOK'
  <2>1. cache' \subseteq Entry
    BY <1>4, <1>5 DEF IInv, TypeOK
  <2>2. given' \in [text : Text, known : SUBSET Values]
    BY <1>1, <1>3, <1>4
  <2>3. work' \in [Threads -> Work \cup {None}]
          /\ pc' \in [Threads -> {"idle", "learn", "replace", "store"}]
    BY <1>1 DEF IInv, TypeOK
  <2> QED BY <1>1, <1>5, <2>1, <2>2, <2>3 DEF IInv, TypeOK
<1>8. \A e \in cache' : Finished(e.text) /\ Stands(e.text, token', life')
  BY <1>1, <1>2, <1>3, <1>5, <1>6 DEF IInv
<1>9. Finished(given'.text) /\ Stands(given'.text, token', life')
  BY <1>1, <1>2, <1>3, <1>6
<1>10. \A u \in Threads :
         pc'[u] # "idle" => Making(work'[u], pc'[u]) /\ Stands(work'[u].text, token', life')
  <2> SUFFICES ASSUME NEW u \in Threads, pc'[u] # "idle"
               PROVE  Making(work'[u], pc'[u]) /\ Stands(work'[u].text, token', life')
    OBVIOUS
  <2>1. u # th /\ work'[u] = work[u] /\ pc'[u] = pc[u]
    BY <1>1 DEF IInv, TypeOK
  <2> QED BY <1>1, <2>1 DEF IInv
<1> QED BY <1>7, <1>8, <1>9, <1>10 DEF IInv

LEMMA StutterInv == ASSUME IInv, UNCHANGED vars PROVE IInv'
<1>1. UNCHANGED <<token, life, list, cache, pc, work, given>>
  BY DEF vars
<1>2. TypeOK'
  BY <1>1 DEF IInv, TypeOK
<1> QED BY <1>1, <1>2 DEF IInv

LEMMA NextInv == ASSUME IInv, [Next]_vars PROVE IInv'
<1>1. CASE Next
  <2>1. PICK th \in Threads :
          \/ \E c \in Contents : Hit(th, c) \/ Miss(th, c)
          \/ \E v \in Values : Learn(th, v) \/ Replace(th, v)
          \/ LookFor(th) \/ Scan(th) \/ Measure(th) \/ Store(th) \/ Restore(th)
    BY <1>1 DEF Next
  <2> QED BY <2>1, HitInv, MissInv, LearnInv, ReplaceInv, LookInv, ScanInv, MeasureInv, StoreInv
<1> QED BY <1>1, StutterInv

LEMMA Always == Spec => []IInv
BY InitInv, NextInv, PTL DEF Spec

-----------------------------------------------------------------------------
(* The first lifetime.                                                     *)

\* Everything that was known when the making of a text began is masked in it.
Whole(t) == t.asked \cap Holds[t.content] \subseteq Masked(t)

\* A text in the making: all of that is masked, or among the spans still to be replaced.
Covering(w, at, known) ==
  /\ w.text.asked \subseteq known
  /\ at = "replace" => w.text.asked \cap Holds[w.text.content] \subseteq Masked(w.text) \cup w.todo
  /\ at = "store" => Whole(w.text)

\* The list has as many values as it says, so that one of the vault's size is the vault's.
FirstLife ==
  /\ list.vals \subseteq Known /\ list.n = Cardinality(list.vals)
  /\ \A e \in cache : Whole(e.text)
  /\ given # None => Whole(given.text)
  /\ \A th \in Threads : pc[th] # "idle" => Covering(work[th], pc[th], Known)

LEMMA ListIsKnown == ASSUME IInv, FirstLife PROVE ListNow.vals = Known /\ ListNow.n = Size
<1>1. Known \subseteq Values /\ IsFiniteSet(Known)
  BY KnownFinite DEF IInv, TypeOK, Known
<1>2. list.n = Size => list.vals = Known
  BY <1>1, FS_Subset DEF FirstLife, Size
<1> QED BY <1>2 DEF ListNow

\* What is known goes on being known.
LEMMA KnownGrows == ASSUME IInv, Grows \/ UNCHANGED token PROVE Known \subseteq Known'
BY DEF Grows, Known

\* What a step in the first lifetime leaves of the texts that others are making.
LEMMA FirstLifeOthers ==
  ASSUME IInv, FirstLife, Grows \/ UNCHANGED token, UNCHANGED cache, given' = None,
         list' = list \/ (list'.vals \subseteq Known' /\ list'.n = Cardinality(list'.vals)),
         NEW th \in Threads,
         \A t \in Threads \ {th} : work'[t] = work[t] /\ pc'[t] = pc[t],
         pc'[th] # "idle" => Covering(work'[th], pc'[th], Known')
  PROVE  FirstLife'
<1>1. Known \subseteq Known'
  BY KnownGrows
<1>2. \A t \in Threads \ {th} : pc'[t] # "idle" => Covering(work'[t], pc'[t], Known')
  BY <1>1 DEF FirstLife, Covering
<1>3. list'.vals \subseteq Known' /\ list'.n = Cardinality(list'.vals)
  BY <1>1 DEF FirstLife
<1>4. pc'[th] # "idle" => Covering(work'[th], pc'[th], Known')
  OBVIOUS
<1> QED BY <1>2, <1>3, <1>4 DEF FirstLife

LEMMA FirstLifeHit ==
  ASSUME IInv, FirstLife, NEW th \in Threads, NEW c \in Contents, Hit(th, c)
  PROVE  FirstLife'
<1>1. /\ \E e \in cache : given'.text = e.text
      /\ UNCHANGED <<token, list, cache, pc, work>>
  BY DEF Hit, At
<1> QED BY <1>1 DEF FirstLife, Known

LEMMA FirstLifeMiss ==
  ASSUME IInv, FirstLife, NEW th \in Threads, NEW c \in Contents, Miss(th, c)
  PROVE  FirstLife'
<1> PICK blank : blank = [content |-> c, put |-> [v \in Values |-> 0], asked |-> Known, life |-> life]
  OBVIOUS
<1>1. /\ UNCHANGED <<token, list, cache>> /\ given' = None /\ pc' = [pc EXCEPT ![th] = "learn"]
      /\ \E found : work' = [work EXCEPT ![th] =
                     [text |-> blank, found |-> found, todo |-> found, size |-> 0]]
  BY DEF Miss
<1>2. \A t \in Threads \ {th} : work'[t] = work[t] /\ pc'[t] = pc[t]
  BY <1>1 DEF IInv, TypeOK
<1>3. Covering(work'[th], pc'[th], Known')
  <2>1. \E found : work'[th] = [text |-> blank, found |-> found, todo |-> found, size |-> 0]
    BY <1>1 DEF IInv, TypeOK
  <2>2. work'[th].text.asked = Known /\ Known' = Known /\ pc'[th] = "learn"
    BY <1>1, <2>1 DEF IInv, TypeOK, Known
  <2> QED BY <2>2 DEF Covering
<1> QED BY <1>1, <1>2, <1>3, FirstLifeOthers

LEMMA FirstLifeLook ==
  ASSUME IInv, FirstLife, NEW th \in Threads, LookFor(th) \/ Restore(th), life' = life
  PROVE  FirstLife'
<1>1. /\ Grows \/ Renewed
      /\ UNCHANGED <<list, cache, pc, work>> /\ given' = None
  BY DiskLook DEF LookFor, Restore, IInv
<1>2. Grows
  BY <1>1, ConstantsAssumption DEF Renewed, IInv, TypeOK
<1>3. Known \subseteq Known'
  BY <1>2, KnownGrows
<1>4. pc'[th] # "idle" => Covering(work'[th], pc'[th], Known')
  BY <1>1, <1>3 DEF FirstLife, Covering
<1> QED BY <1>1, <1>2, <1>4, FirstLifeOthers

LEMMA FirstLifeLearn ==
  ASSUME IInv, FirstLife, NEW th \in Threads, NEW v \in Values, Learn(th, v)
  PROVE  FirstLife'
<1>1. /\ pc[th] = "learn" /\ token' = Learnt(token, v)
      /\ work' = [work EXCEPT ![th].todo = @ \ {v}]
      /\ UNCHANGED <<life, list, cache, pc>> /\ given' = None
  BY DEF Learn
<1>2. Grows
  BY <1>1, LearntGrows DEF IInv
<1>3. work[th] \in Work
  BY <1>1 DEF IInv, Making
<1>4. work'[th].text = work[th].text
  BY <1>1, <1>3 DEF IInv, TypeOK, Work
<1>5. Covering(work'[th], pc'[th], Known')
  BY <1>1, <1>2, <1>4, KnownGrows DEF FirstLife, Covering
<1>6. \A t \in Threads \ {th} : work'[t] = work[t] /\ pc'[t] = pc[t]
  BY <1>1 DEF IInv, TypeOK
<1> QED BY <1>1, <1>2, <1>5, <1>6, FirstLifeOthers

LEMMA FirstLifeScan == ASSUME IInv, FirstLife, NEW th \in Threads, Scan(th) PROVE FirstLife'
<1>1. /\ pc[th] = "learn" /\ list' = ListNow
      /\ work' = [work EXCEPT ![th].todo = Spans(work[th], ListNow.vals)]
      /\ pc' = [pc EXCEPT ![th] = "replace"]
      /\ UNCHANGED <<token, life, cache>> /\ given' = None
  BY DEF Scan
<1>2. list'.vals = Known /\ list'.n = Cardinality(Known) /\ Known' = Known
  BY <1>1, ListIsKnown DEF Known, Size
<1>3. work[th] \in Work /\ work[th].text.asked \subseteq Known
  BY <1>1 DEF IInv, Making, FirstLife, Covering
<1>4. /\ work'[th].text = work[th].text
      /\ work'[th].todo = Spans(work[th], Known) /\ pc'[th] = "replace"
  BY <1>1, <1>3, ListIsKnown DEF IInv, TypeOK, Work
<1>5. Covering(work'[th], pc'[th], Known')
  BY <1>2, <1>3, <1>4 DEF Covering, Spans
<1>6. \A t \in Threads \ {th} : work'[t] = work[t] /\ pc'[t] = pc[t]
  BY <1>1 DEF IInv, TypeOK
<1> QED BY <1>1, <1>2, <1>5, <1>6, FirstLifeOthers

LEMMA FirstLifeReplace ==
  ASSUME IInv, FirstLife, NEW th \in Threads, NEW v \in Values, Replace(th, v)
  PROVE  FirstLife'
<1>1. /\ pc[th] = "replace" /\ token' = Learnt(token, v)
      /\ work' = [work EXCEPT ![th].todo = @ \ {v}, ![th].text.put[v] = Learnt(token, v)[v]]
      /\ UNCHANGED <<life, list, cache, pc>> /\ given' = None
  BY DEF Replace
<1>2. Grows /\ token'[v] # 0
  BY <1>1, LearntGrows DEF IInv
<1>3. work[th] \in Work
  BY <1>1 DEF IInv, Making
<1>4. /\ work'[th].todo = work[th].todo \ {v}
      /\ work'[th].text = [work[th].text EXCEPT !.put[v] = token'[v]]
  BY <1>1, <1>3 DEF IInv, TypeOK, Work
<1> PICK t \in Text : t = work[th].text
  BY <1>3 DEF Work
<1> PICK u : u = work'[th].text
  OBVIOUS
<1>5. /\ u.content = t.content /\ u.asked = t.asked
      /\ \A w \in Values : w # v => u.put[w] = t.put[w]
      /\ u.put[v] # 0
  BY <1>2, <1>4 DEF Text
<1>6. Masked(t) \cup {v} \subseteq Masked(u)
  BY <1>5 DEF Masked
<1>7. Covering(work[th], "replace", Known) /\ Known \subseteq Known'
  BY <1>1, <1>2, KnownGrows DEF FirstLife
<1>8. Covering(work'[th], pc'[th], Known')
  BY <1>1, <1>4, <1>5, <1>6, <1>7 DEF Covering
<1>9. \A o \in Threads \ {th} : work'[o] = work[o] /\ pc'[o] = pc[o]
  BY <1>1 DEF IInv, TypeOK
<1> QED BY <1>1, <1>2, <1>8, <1>9, FirstLifeOthers

LEMMA FirstLifeMeasure ==
  ASSUME IInv, FirstLife, NEW th \in Threads, Measure(th)
  PROVE  FirstLife'
<1>1. /\ pc[th] = "replace" /\ work[th].todo = {}
      /\ work' = [work EXCEPT ![th].size = Size] /\ pc' = [pc EXCEPT ![th] = "store"]
      /\ UNCHANGED <<token, life, list, cache>> /\ given' = None
  BY DEF Measure
<1>2. work[th] \in Work /\ Covering(work[th], "replace", Known)
  BY <1>1 DEF IInv, Making, FirstLife
<1>3. work'[th].text = work[th].text /\ pc'[th] = "store" /\ Known' = Known
  BY <1>1, <1>2 DEF IInv, TypeOK, Work, Known
<1>4. Covering(work'[th], pc'[th], Known')
  BY <1>1, <1>2, <1>3 DEF Covering, Whole
<1>5. \A t \in Threads \ {th} : work'[t] = work[t] /\ pc'[t] = pc[t]
  BY <1>1 DEF IInv, TypeOK
<1> QED BY <1>1, <1>4, <1>5, FirstLifeOthers

LEMMA FirstLifeStore == ASSUME IInv, FirstLife, NEW th \in Threads, Store(th) PROVE FirstLife'
<1> PICK t : t = work[th].text
  OBVIOUS
<1> PICK e : e = [size |-> work[th].size, text |-> t]
  OBVIOUS
<1>1. /\ pc[th] = "store"
      /\ cache' \in Kept((cache \ At(t.content, work[th].size)) \cup {e})
      /\ given'.text = t /\ e.text = t
      /\ pc' = [pc EXCEPT ![th] = "idle"] /\ work' = [work EXCEPT ![th] = None]
      /\ UNCHANGED <<token, life, list>>
  BY DEF Store
<1>2. Whole(t)
  BY <1>1 DEF FirstLife, Covering, Whole
<1>3. \A c \in cache' : c \in cache \/ c = e
  BY <1>1 DEF Kept
<1>4. \A o \in Threads : pc'[o] # "idle" => o # th /\ work'[o] = work[o] /\ pc'[o] = pc[o]
  BY <1>1 DEF IInv, TypeOK
<1>5. Known' = Known
  BY <1>1 DEF Known
<1> QED BY <1>1, <1>2, <1>3, <1>4, <1>5 DEF FirstLife

LEMMA FirstLifeNext ==
  ASSUME IInv, life = 1 => FirstLife, [Next]_vars
  PROVE  life' = 1 => FirstLife'
<1> SUFFICES ASSUME life' = 1 PROVE FirstLife'
  OBVIOUS
<1>1. CASE UNCHANGED vars
  <2>1. UNCHANGED <<token, life, list, cache, pc, work, given>>
    BY <1>1 DEF vars
  <2> QED BY <2>1 DEF FirstLife, Known
<1>2. CASE Next
  <2>1. PICK th \in Threads :
          \/ \E c \in Contents : Hit(th, c) \/ Miss(th, c)
          \/ \E v \in Values : Learn(th, v) \/ Replace(th, v)
          \/ LookFor(th) \/ Scan(th) \/ Measure(th) \/ Store(th) \/ Restore(th)
    BY <1>2 DEF Next
  <2>2. life' = life \/ life' = life + 1
    BY <2>1 DEF Hit, Miss, Learn, Replace, LookFor, Scan, Measure, Store, Restore, Merged, Swapped
  <2>3. life = 1
    BY <2>2 DEF IInv, TypeOK
  <2> QED BY <2>1, <2>3, FirstLifeHit, FirstLifeMiss, FirstLifeLearn, FirstLifeReplace,
             FirstLifeLook, FirstLifeScan, FirstLifeMeasure, FirstLifeStore
<1> QED BY <1>1, <1>2

-----------------------------------------------------------------------------
(* Theorems.                                                               *)

\* The cache never holds more than CONTENT_CACHE_MAX entries, and vault, texts and entries
\* keep their form.
THEOREM CacheTypeCorrect == Spec => []TypeOK
<1>1. IInv => TypeOK
  BY DEF IInv
<1> QED BY <1>1, Always, PTL

\* Whatever threads tokenize, learn and look at the disk in whatever order, and however often
\* the vault begins a new lifetime, no text leaves _tokenize_cached with a value in clear
\* that the rules or the gazetteer found in it.
THEOREM FoundIsMasked == Spec => []FoundMasked
<1>1. IInv => FoundMasked
  BY DEF IInv, FoundMasked, Finished
<1> QED BY <1>1, Always, PTL

\* Every token in a text that leaves _tokenize_cached is the one the vault has for the value,
\* unless the vault has begun another lifetime since the text was begun.
THEOREM TokensAreTheVaults == Spec => []TokensStand
<1>1. IInv => TokensStand
  BY DEF IInv, TokensStand, Stands
<1> QED BY <1>1, Always, PTL

\* As long as the vault is in its first lifetime, a text masks every value that was known when it
\* was made, found by a detector or not: the list of known values is never one of another size,
\* whatever other threads and processes teach the vault meanwhile.
THEOREM KnownIsMasked == Spec => []KnownMasked
<1>1. Init => (life = 1 => FirstLife)
  BY FS_EmptySet DEF Init, FirstLife
<1>2. IInv /\ (life = 1 => FirstLife) /\ [Next]_vars => (life = 1 => FirstLife)'
  BY FirstLifeNext
<1>3. (life = 1 => FirstLife) => KnownMasked
  BY DEF KnownMasked, FirstLife, Whole
<1> QED BY <1>1, <1>2, <1>3, Always, PTL DEF Spec
===============================================================================
