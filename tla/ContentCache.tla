----------------------------- MODULE ContentCache -----------------------------
(***************************************************************************)
(* One engine's cache of tokenized contents: src/hermescloak/engine.py     *)
(* 49-67 over pseudonymizer.py and vault.py.  Several threads tokenize     *)
(* contents with one engine; the vault they share learns values from them, *)
(* from other engines and, when it looks at the disk, from other           *)
(* processes, and may start a new lifetime.  An entry of the cache is      *)
(* keyed by its content and by the number of values the vault knew when it *)
(* was stored.                                                             *)
(*                                                                         *)
(* The vault is reduced to its reverse map; DurableVault has the rest.     *)
(***************************************************************************)
EXTENDS Integers, FiniteSets

CONSTANTS
  Threads,    \* threads that tokenize with this engine
  Values,     \* real values of KNOWN_MIN_LEN characters or more
  Contents,   \* messages
  Holds,      \* Holds[c]: the values that occur in c
  Finds,      \* Finds[c]: those the rules and the gazetteer find in it
  NerFinds,   \* NerFinds[c]: those only the NER service finds
  CacheMax,   \* CONTENT_CACHE_MAX
  MaxLives,   \* bound: lifetimes of the vault
  None        \* no content, no text

ASSUME ConstantsAssumption ==
  /\ IsFiniteSet(Values)
  /\ Holds \in [Contents -> SUBSET Values]
  /\ Finds \in [Contents -> SUBSET Values] /\ NerFinds \in [Contents -> SUBSET Values]
  /\ \A c \in Contents : Finds[c] \cup NerFinds[c] \subseteq Holds[c]
  /\ CacheMax \in Nat \ {0} /\ MaxLives \in Nat \ {0}
  /\ None \notin Contents

VARIABLES
  token,   \* the vault's value -> token map; 0 is "no token"
  life,    \* history: which lifetime of the vault this is
  list,    \* known_values' cache: its length and the values
  cache,   \* the entries, at most one for a content and a size
  pc,      \* where each thread is in _tokenize_cached
  work,    \* the text it is making
  given    \* the text a call returns in this step, and what was known when it was called

vars == <<token, life, list, cache, pc, work, given>>

Numbers == 0 .. Cardinality(Values)

\* A tokenized content: the token that stands for each value, 0 for a value left in clear.
\* History: what the vault knew when the making began, and in which lifetime.
Text ==
  [content : Contents, put : [Values -> Numbers], asked : SUBSET Values, life : 1 .. MaxLives]

Entry == [size : Nat, text : Text]

\* A text in the making: what the detectors found, what is still to be learnt or replaced,
\* and, when it is made, the size of the vault that goes into its key.
Work == [text : Text, found : SUBSET Values, todo : SUBSET Values, size : Numbers]

Known == {v \in Values : token[v] # 0}
Size == Cardinality(Known)
Masked(t) == {v \in Values : t.put[v] # 0}

Init ==
  /\ token = [v \in Values |-> 0]
  /\ life = 1
  /\ list = [n |-> 0, vals |-> {}]
  /\ cache = {}
  /\ pc = [th \in Threads |-> "idle"]
  /\ work = [th \in Threads |-> None]
  /\ given = None

-----------------------------------------------------------------------------
(* The vault.                                                              *)

\* Mutant of Learnt: a value is given a number again although it has one.
LearntAnew(tok, v) ==
  [tok EXCEPT ![v] = Cardinality({w \in Values : tok[w] # 0}) + (IF tok[v] = 0 THEN 1 ELSE 0)]

\* Vault.tokenize: one token per value, numbered in the order they are met.
Learnt(tok, v) ==
  IF tok[v] # 0 THEN tok
  ELSE [tok EXCEPT ![v] = Cardinality({w \in Values : tok[w] # 0}) + 1]

\* A value -> token map: its tokens are numbered without gaps.
IsMap(tok) == {tok[v] : v \in Values} \ {0} = 1 .. Cardinality({v \in Values : tok[v] # 0})

\* What a look at the disk makes of the vault: a value another process minted,
\* or the map of another lifetime.
Merged == \E v \in Values : token[v] = 0 /\ token' = Learnt(token, v) /\ UNCHANGED life
Swapped ==
  /\ life < MaxLives /\ life' = life + 1
  /\ token' \in {tok \in [Values -> Numbers] : IsMap(tok)}

-----------------------------------------------------------------------------
(* _tokenize_cached.                                                       *)

\* The entries for content c under size n.
At(c, n) == {e \in cache : e.text.content = c /\ e.size = n}

\* The cache has the content under the vault's present size.
Hit(th, c) ==
  \E e \in At(c, Size) :
    /\ pc[th] = "idle"
    /\ given' = [text |-> e.text, known |-> Known]
    /\ UNCHANGED <<token, life, list, cache, pc, work>>

\* It has not: run the detectors, of which the NER service may be down.
Miss(th, c) ==
  /\ pc[th] = "idle"
  /\ At(c, Size) = {}
  /\ \E found \in {Finds[c], Finds[c] \cup NerFinds[c]} :
       LET blank == [content |-> c, put |-> [v \in Values |-> 0], asked |-> Known, life |-> life]
       IN  work' = [work EXCEPT ![th] =
                     [text |-> blank, found |-> found, todo |-> found, size |-> 0]]
  /\ pc' = [pc EXCEPT ![th] = "learn"]
  /\ UNCHANGED <<token, life, list, cache>>
  /\ given' = None

\* A value of the text that the vault does not know: it looks at the disk before it gives
\* it a token.
LookFor(th) ==
  /\ pc[th] # "idle"
  /\ \E v \in work[th].todo : token[v] = 0
  /\ Merged \/ Swapped
  /\ UNCHANGED <<list, cache, pc, work>>
  /\ given' = None

\* pseudonymize, pass 1.
Learn(th, v) ==
  /\ pc[th] = "learn"
  /\ v \in work[th].todo
  /\ token' = Learnt(token, v)
  /\ work' = [work EXCEPT ![th].todo = @ \ {v}]
  /\ UNCHANGED <<life, list, cache, pc>>
  /\ given' = None

\* Mutant of Spans: every value found is in the vault now, so the vault's list will do.
SpansOfKnown(w, vals) == vals \cap Holds[w.text.content]

\* What pass 2 replaces: what was found, and every value on the vault's list.
Spans(w, vals) == w.found \cup (vals \cap Holds[w.text.content])

\* Mutant of ListNow: the list is made once.
ListOnce == IF list.n = 0 THEN [n |-> Size, vals |-> Known] ELSE list

\* known_values: the list is made anew when the number of values has changed.
ListNow == IF list.n = Size THEN list ELSE [n |-> Size, vals |-> Known]

\* known_value_spans.
Scan(th) ==
  /\ pc[th] = "learn"
  /\ work[th].todo = {}
  /\ list' = ListNow
  /\ work' = [work EXCEPT ![th].todo = Spans(work[th], ListNow.vals)]
  /\ pc' = [pc EXCEPT ![th] = "replace"]
  /\ UNCHANGED <<token, life, cache>>
  /\ given' = None

\* pseudonymize, pass 2: one span after the other.
Replace(th, v) ==
  /\ pc[th] = "replace"
  /\ v \in work[th].todo
  /\ token' = Learnt(token, v)
  /\ work' = [work EXCEPT ![th].todo = @ \ {v}, ![th].text.put[v] = Learnt(token, v)[v]]
  /\ UNCHANGED <<life, list, cache, pc>>
  /\ given' = None

\* Mutant of Kept: the bound is off by one.
KeptOneMore(full) == {kept \in SUBSET full : Cardinality(kept) <= CacheMax + 1}

\* What is left once the oldest entries beyond the bound, or beyond the bound on characters,
\* are dropped.  Which ones these are only decides which later calls miss.
Kept(full) == {kept \in SUBSET full : Cardinality(kept) <= CacheMax}

\* The text is made: its key gets the size the vault has now.
Measure(th) ==
  /\ pc[th] = "replace"
  /\ work[th].todo = {}
  /\ work' = [work EXCEPT ![th].size = Size]
  /\ pc' = [pc EXCEPT ![th] = "store"]
  /\ UNCHANGED <<token, life, list, cache>>
  /\ given' = None

\* It becomes the entry of the key, under the cache's own lock.
Store(th) ==
  LET t == work[th].text
      n == work[th].size
  IN
  /\ pc[th] = "store"
  /\ cache' \in Kept((cache \ At(t.content, n)) \cup {[size |-> n, text |-> t]})
  /\ given' = [text |-> t, known |-> t.asked]
  /\ work' = [work EXCEPT ![th] = None]
  /\ pc' = [pc EXCEPT ![th] = "idle"]
  /\ UNCHANGED <<token, life, list>>

-----------------------------------------------------------------------------
(* The others.                                                             *)

\* A thread that restores a reply meets a token it does not know and looks at the disk.
Restore(th) ==
  /\ pc[th] = "idle"
  /\ Merged \/ Swapped
  /\ UNCHANGED <<list, cache, pc, work>>
  /\ given' = None

Next ==
  \E th \in Threads :
    \/ \E c \in Contents : Hit(th, c) \/ Miss(th, c)
    \/ \E v \in Values : Learn(th, v) \/ Replace(th, v)
    \/ LookFor(th) \/ Scan(th) \/ Measure(th) \/ Store(th) \/ Restore(th)

Spec == Init /\ [][Next]_vars

TypeOK ==
  /\ token \in [Values -> Numbers]
  /\ life \in 1 .. MaxLives
  /\ list \in [n : Numbers, vals : SUBSET Values]
  /\ cache \subseteq Entry /\ Cardinality(cache) <= CacheMax
  /\ pc \in [Threads -> {"idle", "learn", "replace", "store"}]
  /\ work \in [Threads -> Work \cup {None}]
  /\ given \in [text : Text, known : SUBSET Values] \cup {None}

-----------------------------------------------------------------------------
(* Properties.                                                             *)

\* What the rules and the gazetteer find in a text is never sent in clear, whether the text
\* was made now or taken from the cache, whatever list of known values was used, and
\* whatever happened to the vault meanwhile.
FoundMasked ==
  given # None => Finds[given.text.content] \subseteq Masked(given.text)

\* A text is sent with the tokens the vault has for its values, as long as the vault is in
\* the lifetime in which the making of the text began: two texts agree on every value, and
\* the reply can be restored (engine.py:41, "the vault makes value->token stable").
TokensStand ==
  given # None /\ given.text.life = life =>
    \A v \in Values : given.text.put[v] \in {0, token[v]}

\* While the vault is in its first lifetime, a text masks every value that was known when
\* the text was made, found by a detector or not (pseudonymizer.py:9-11).
KnownMasked ==
  given # None /\ life = 1 =>
    given.text.asked \cap Holds[given.text.content] \subseteq Masked(given.text)

\* "Keyed by vault size too: a value learned later must be masked in older content as well"
\* (engine.py:50): a call masks every value that was known when the call was made.
LaterMasked ==
  given # None =>
    given.known \cap Holds[given.text.content] \subseteq Masked(given.text)
=============================================================================
