--------------------------- MODULE LiveSessionProofs ---------------------------
(***************************************************************************)
(* What a session is sent and gets back, for any number of threads,        *)
(* sessions and values, any prompts and replies, and any bounds.           *)
(***************************************************************************)
EXTENDS LiveSession, FiniteSetTheorems, TLAPS

-----------------------------------------------------------------------------
(* The invariant.                                                          *)

\* A number that is the token of one of the values.
TokenOf(n, vals) == \E v \in vals : token[v] = n

\* What is sent for a text stands for the same values, and a token put in is one of theirs.
Stands(text, out) ==
  /\ \A v \in text.reals : v \in out.reals \/ token[v] \in out.toks
  /\ \A n \in out.toks \ text.toks : TokenOf(n, text.reals)

Stages == {"idle", "walk", "check", "wait", "restore", "done"}
Hows == {None, "passed", "refused", "shadow", "masked", "blocked", "failed", "scoped"}

TurnType == [stage : Stages, session : Sessions \cup {None}, aux : {TRUE, FALSE},
             todo : SUBSET Text, pairs : SUBSET (Text \X Text), minted : SUBSET (Numbers \ {0}),
             asked : Nat, how : Hows, reply : Text \cup {None}, gen : Nat, back : Text \cup {None}]

EntryType == [restored : Text, gen : Nat, model : Text]

Formed ==
  /\ setup.closed \in BOOLEAN
  /\ token \in Maps /\ life \in Nat \ {0}
  /\ sent \in [Sessions -> {None} \cup SUBSET Numbers]
  /\ shown \in [Threads -> {None} \cup SUBSET Numbers]
  /\ entries \subseteq EntryType /\ saved \subseteq EntryType
  /\ turn \in [Threads -> TurnType]
  /\ hist \in [Sessions -> Text \cup {None}]
  /\ had \in [Sessions -> SUBSET Values]
  /\ wrote \subseteq Values

\* Where a turn is tells what there is of it.
Placed(t) ==
  /\ t.stage = "idle" => t.how = None /\ t.back = None
  /\ t.stage \in {"walk", "check"} => t.how = None
  /\ t.stage # "idle" =>
       /\ t.session \in Sessions
       /\ t.asked \in 1 .. life
       /\ t.stage \in {"restore", "done"} => t.reply \in Text
       /\ t.stage = "restore" => t.gen \in 1 .. life /\ t.reply.reals \subseteq wrote
       /\ t.stage # "done" => t.back = None
       /\ t.stage = "walk" => \A x \in t.todo : x.reals \subseteq had[t.session]

\* In the lifetime of its request, the texts of a turn stand, the tokens put in are of the
\* session's own values, and those of a reply have come back.
Own(t) ==
  t.stage # "idle" /\ t.asked = life =>
    /\ t.stage \in {"walk", "check", "wait"} => \A p \in t.pairs : Stands(p[1], p[2])
    /\ \A n \in t.minted : TokenOf(n, had[t.session])
    /\ t.back # None =>
         \A v \in Values : token[v] \in (t.reply.toks \cap t.minted) \ {0} => v \in t.back.reals

\* What is to leave in enforce holds nothing in clear.
Clean(t) ==
  t.stage \in {"walk", "check"}
    \/ (t.stage = "wait" /\ (t.how = "masked" \/ (t.how = "failed" /\ setup.closed))) =>
  \A p \in t.pairs : p[2].reals \subseteq wrote

\* The scope of a thread holds what its turn put in, and in the first lifetime nothing but
\* tokens of the session's own values.
Scoped(th) ==
  LET t == turn[th] IN
  /\ t.stage \in {"check", "wait", "restore"} => t.minted \subseteq ScopeOf(th)
  /\ life = 1 /\ t.stage # "idle" /\ t.how \notin {"passed", "refused"} =>
       /\ \A n \in ScopeOf(th) \ {0} : TokenOf(n, had[t.session])
       /\ t.back # None => t.back.reals \ t.reply.reals \subseteq had[t.session]

TurnInv(th) == Placed(turn[th]) /\ Own(turn[th]) /\ Clean(turn[th]) /\ Scoped(th)

\* An entry of the replay cache stands in its own lifetime.
EntryInv(e) ==
  /\ e.gen \in 1 .. life /\ e.model.reals \subseteq wrote
  /\ e.gen = life => Stands(e.restored, e.model)

SentInv ==
  life = 1 => \A s \in Sessions :
    sent[s] # None => \A n \in sent[s] \ {0} : TokenOf(n, had[s])

IInv ==
  /\ Formed
  /\ \A th \in Threads : TurnInv(th)
  /\ \A e \in entries \cup saved : EntryInv(e)
  /\ SentInv

-----------------------------------------------------------------------------
(* The vault.                                                              *)

\* The vault has a token for one value only.
LEMMA MapsInjective ==
  ASSUME NEW tok \in Maps, NEW v \in Values, NEW w \in Values, tok[v] = tok[w], tok[v] # 0
  PROVE  v = w
<1> DEFINE K == {x \in Values : tok[x] # 0}
           f == [x \in K |-> tok[x]]
           T == 1 .. Cardinality(K)
<1>1. IsFiniteSet(K) /\ Cardinality(K) \in Nat
  BY FS_Subset, FS_CardinalityType, ConstantsAssumption DEF ConstantsAssumption
<1>2. Cardinality(T) = Cardinality(K)
  BY <1>1, FS_Interval
<1>3. Range(tok) \ {0} = T
  BY DEF Maps, IsMap
<1>4. f \in Surjection(K, T)
  <2>1. \A x \in K : tok[x] \in T
    BY <1>3 DEF Maps, Range
  <2>2. \A n \in T : \E x \in K : tok[x] = n
    BY <1>3 DEF Maps, Range
  <2> HIDE DEF K, T
  <2> QED
    BY <2>1, <2>2 DEF Surjection
<1>5. f \in Injection(K, T)
  BY <1>1, <1>2, <1>4, FS_Surjection
<1> QED
  BY <1>5 DEF Injection, IsInjective

Grown(tok, new) == \A v \in Values : tok[v] # 0 => new[v] = tok[v]

LEMMA LearntGrows ==
  ASSUME NEW tok \in Maps, NEW vals \in SUBSET Values, NEW new \in Learnt(tok, vals)
  PROVE  new \in Maps /\ Grown(tok, new) /\ \A v \in vals : new[v] # 0
BY DEF Learnt, Grown
\* What stands goes on standing while the vault grows.
LEMMA TokenOfStays ==
  ASSUME NEW n \in Numbers \ {0}, NEW vals \in SUBSET Values, NEW more \in SUBSET Values,
         vals \subseteq more, Grown(token, token'), TokenOf(n, vals)
  PROVE  \E v \in more : token'[v] = n
BY DEF TokenOf, Grown

LEMMA StandsStays ==
  ASSUME NEW text \in Text, NEW out \in Text, Grown(token, token'), Stands(text, out)
  PROVE  Stands(text, out)'
<1>1. /\ text.reals \subseteq Values /\ text.toks \subseteq Numbers \ {0}
      /\ out.reals \subseteq Values /\ out.toks \subseteq Numbers \ {0}
  BY DEF Text
<1>2. \A v \in text.reals : v \in out.reals \/ token'[v] \in out.toks
  BY <1>1 DEF Stands, Grown
<1>3. \A n \in out.toks \ text.toks : \E v \in text.reals : token'[v] = n
  BY <1>1 DEF Stands, Grown, TokenOf
<1> QED
  BY <1>2, <1>3 DEF Stands, TokenOf

\* The steps of others leave a turn as it is: the vault grows, and so do the histories.
Others ==
  /\ life' = life /\ setup' = setup
  /\ token' \in Maps /\ Grown(token, token')
  /\ had' \in [Sessions -> SUBSET Values] /\ \A s \in Sessions : had[s] \subseteq had'[s]
  /\ wrote \subseteq wrote'

LEMMA TurnStays ==
  ASSUME IInv, Others, NEW th \in Threads, turn'[th] = turn[th], shown'[th] = shown[th]
  PROVE  TurnInv(th)'
<1> DEFINE t == turn[th]
<1>1. t \in TurnType /\ t' = t /\ TurnInv(th) /\ Formed /\ ScopeOf(th)' = ScopeOf(th)
  BY DEF IInv, Formed, ScopeOf
<1>2. \A n \in Numbers \ {0} :
        t.session \in Sessions /\ TokenOf(n, had[t.session]) => TokenOf(n, had[t.session])'
  <2> SUFFICES ASSUME NEW n \in Numbers \ {0}, t.session \in Sessions, TokenOf(n, had[t.session])
               PROVE  \E v \in had'[t.session] : token'[v] = n
    BY <1>1 DEF TokenOf
  <2>1. had[t.session] \in SUBSET Values /\ had'[t.session] \in SUBSET Values
        /\ had[t.session] \subseteq had'[t.session]
    BY <1>1 DEF Others, Formed
  <2> QED
    BY <2>1, TokenOfStays DEF Others
<1>3. Placed(t)'
  BY <1>1 DEF Placed, TurnInv, Others
<1>4. Own(t)'
  <2> SUFFICES ASSUME t.stage # "idle", t.asked = life PROVE Own(t)'
    BY <1>1 DEF Own, Others
  <2>1. t.session \in Sessions
    BY <1>1 DEF TurnInv, Placed
  <2>2. t.stage \in {"walk", "check", "wait"} => \A p \in t.pairs : Stands(p[1], p[2])'
    BY <1>1, StandsStays DEF TurnInv, Own, Others, TurnType
  <2>3. \A n \in t.minted : TokenOf(n, had[t.session])'
    BY <1>1, <1>2, <2>1 DEF TurnInv, Own, TurnType
  <2>4. ASSUME t.back # None, NEW v \in Values, token'[v] \in (t.reply.toks \cap t.minted) \ {0}
        PROVE  v \in t.back.reals
    <3>1. PICK w \in Values : token[w] = token'[v]
      BY <1>1, <2>1, <2>4 DEF TurnInv, Own, TokenOf, Formed
    <3>2. token'[w] = token'[v]
      BY <2>4, <3>1 DEF Others, Grown
    <3>3. v = w
      BY <2>4, <3>2, MapsInjective DEF Others
    <3> QED
      BY <1>1, <2>4, <3>1, <3>3 DEF TurnInv, Own
  <2> QED
    BY <1>1, <2>2, <2>3, <2>4 DEF Own, Others
<1>5. Clean(t)'
  BY <1>1 DEF Clean, TurnInv, Others
<1>6. Scoped(th)'
  <2>1. t.stage \in {"check", "wait", "restore"} => t.minted \subseteq ScopeOf(th)
    BY <1>1 DEF Scoped, TurnInv
  <2>2. ASSUME life = 1, t.stage # "idle", t.how \notin {"passed", "refused"}
        PROVE  /\ \A n \in ScopeOf(th) \ {0} : TokenOf(n, had[t.session])'
               /\ t.back # None => t.back.reals \ t.reply.reals \subseteq had'[t.session]
    <3>1. t.session \in Sessions
      BY <1>1, <2>2 DEF TurnInv, Placed
    <3>2. \A n \in ScopeOf(th) \ {0} : n \in Numbers \ {0} /\ TokenOf(n, had[t.session])
      BY <1>1, <2>2 DEF TurnInv, Scoped, ScopeOf, Formed
    <3>3. t.back # None => t.back.reals \ t.reply.reals \subseteq had[t.session]
      BY <1>1, <2>2 DEF TurnInv, Scoped
    <3> QED
      BY <1>2, <3>1, <3>2, <3>3 DEF Others
  <2> QED
    BY <1>1, <2>1, <2>2 DEF Scoped, Others
<1> QED
  BY <1>1, <1>3, <1>4, <1>5, <1>6 DEF TurnInv

LEMMA EntryStays ==
  ASSUME IInv, Others, NEW e \in EntryType, EntryInv(e)
  PROVE  EntryInv(e)'
BY StandsStays DEF EntryInv, EntryType, Others

LEMMA SentStays ==
  ASSUME IInv, Others, UNCHANGED sent
  PROVE  SentInv'
<1> SUFFICES ASSUME life = 1, NEW s \in Sessions, sent[s] # None, NEW n \in sent[s] \ {0}
             PROVE  TokenOf(n, had[s])'
  BY DEF SentInv, Others
<1>1. n \in Numbers \ {0} /\ TokenOf(n, had[s])
  BY DEF IInv, SentInv, Formed
<1> QED
  BY <1>1, TokenOfStays DEF Others, IInv, Formed, TokenOf

\* What is left to show of a step in the turn of one thread.
LEMMA OneTurn ==
  ASSUME IInv, Others, NEW th \in Threads, Formed', TurnInv(th)', SentInv',
         \A o \in Threads \ {th} : turn'[o] = turn[o] /\ shown'[o] = shown[o],
         \A e \in entries' \cup saved' : e \in entries \cup saved \/ EntryInv(e)'
  PROVE  IInv'
<1>1. \A o \in Threads : TurnInv(o)'
  BY TurnStays
<1>2. \A e \in entries' \cup saved' : EntryInv(e)'
  BY EntryStays DEF IInv, Formed
<1> QED
  BY <1>1, <1>2 DEF IInv

-----------------------------------------------------------------------------
(* One lemma per action.                                                   *)

\* The vault grows, or begins another lifetime, to which nothing that is remembered belongs.
LEMMA LookInv == ASSUME IInv, NEW th \in Threads, Look(th) PROVE IInv'
<1>1. CASE UNCHANGED life /\ \E v \in Values : token[v] = 0 /\ token' \in Learnt(token, {v})
  <2>1. token' \in Maps /\ Grown(token, token')
    BY <1>1, LearntGrows DEF IInv, Formed
  <2>2. Others
    BY <1>1, <2>1 DEF Look, Others, fixed, seen, IInv, Formed
  <2>3. Formed'
    BY <1>1, <2>1 DEF Look, fixed, seen, replay, IInv, Formed
  <2>4. TurnInv(th)' /\ SentInv'
    BY <2>2, TurnStays, SentStays DEF Look
  <2> QED
    BY <2>2, <2>3, <2>4, OneTurn DEF Look, replay
<1>2. CASE life' = life + 1 /\ token' \in Maps
  <2>1. /\ UNCHANGED <<setup, sent, shown, entries, saved, turn, hist, had, wrote>>
        /\ life \in Nat \ {0} /\ life' \in Nat \ {0} /\ life' # 1 /\ \A n \in 1 .. life : n \in 1 .. life' /\ n # life'
    BY <1>2 DEF Look, fixed, seen, replay, IInv, Formed
  <2>2. Formed'
    BY <1>2, <2>1 DEF IInv, Formed
  <2>3. ASSUME NEW o \in Threads PROVE TurnInv(o)'
    <3>1. turn'[o] = turn[o] /\ ScopeOf(o)' = ScopeOf(o) /\ TurnInv(o)
      BY <2>1 DEF IInv, ScopeOf
    <3>2. Placed(turn[o])' /\ Own(turn[o])'
      BY <2>1, <3>1 DEF TurnInv, Placed, Own
    <3>3. Clean(turn[o])' /\ Scoped(o)'
      BY <2>1, <3>1 DEF TurnInv, Clean, Scoped
    <3> QED
      BY <3>2, <3>3 DEF TurnInv
  <2>4. \A e \in entries' \cup saved' : EntryInv(e)'
    BY <2>1 DEF IInv, EntryInv
  <2>5. SentInv'
    BY <2>1 DEF SentInv
  <2> QED
    BY <2>2, <2>3, <2>4, <2>5 DEF IInv
<1> QED
  BY <1>1, <1>2 DEF Look

\* A text stands for itself.
LEMMA Itself == ASSUME NEW x \in Text PROVE Stands(x, x)
BY DEF Stands

LEMMA RequestInv ==
  ASSUME IInv, NEW th \in Threads, NEW s \in Sessions, NEW aux \in {TRUE, FALSE}, NEW refused,
         Request(th, s, aux, refused)
  PROVE  IInv'
<1> DEFINE begun == [NoTurn EXCEPT !.session = s, !.aux = aux, !.asked = life]
           Clear(texts, how) == [begun EXCEPT !.stage = "wait", !.pairs = {<<x, x>> : x \in texts}, !.how = how]
           refusal == [begun EXCEPT !.stage = "wait", !.how = "refused", !.pairs = Withheld]
           Walking(texts) == [begun EXCEPT !.stage = "walk", !.todo = texts]
<1>1. PICK texts \in SUBSET Text :
        /\ had' = [had EXCEPT ![s] = @ \cup UNION {x.reals : x \in texts}]
        /\ \/ \E t \in {Clear(texts, "passed"), refusal} :
               turn' = [turn EXCEPT ![th] = t] /\ UNCHANGED shown
           \/ \E t \in {Clear(texts, "shadow"), Walking(texts)} :
               turn' = [turn EXCEPT ![th] = t] /\ shown' = [shown EXCEPT ![th] = {}]
  <2>1. PICK prompt \in Prompts : Request(th, s, aux, refused)!3!(prompt)
    BY DEF Request
  <2>2. {prompt} \cup Carried(s) \in SUBSET Text
    BY ConstantsAssumption DEF ConstantsAssumption, Carried, IInv, Formed
  <2> QED
    BY <2>1, <2>2 DEF Withheld
<1>2. UNCHANGED <<setup, token, life, sent, entries, saved, hist, wrote>>
  BY DEF Request, vault, replay
<1>3. /\ had' \in [Sessions -> SUBSET Values] /\ \A o \in Sessions : had[o] \subseteq had'[o]
      /\ \A x \in texts : x.reals \subseteq had'[s]
  <2>1. UNION {x.reals : x \in texts} \in SUBSET Values
    BY DEF Text
  <2> QED
    BY <1>1, <2>1 DEF IInv, Formed
<1>4. Others
  BY <1>2, <1>3 DEF Others, Grown, IInv, Formed
<1>5. begun \in TurnType /\ life \in Nat \ {0}
  BY DEF TurnType, NoTurn, IInv, Formed, Stages, Hows
<1>6. /\ begun.session = s /\ begun.asked = life /\ begun.back = None /\ begun.minted = {}
      /\ begun.pairs = {} /\ begun.how = None
  BY DEF NoTurn
<1> DEFINE same == {<<x, x>> : x \in texts}
<1>a. same \in SUBSET (Text \X Text) /\ \A p \in same : p[1] = p[2] /\ p[1] \in Text
  OBVIOUS
<1> HIDE DEF begun, same
<1>b. \A how \in Hows :
        LET t == [begun EXCEPT !.stage = "wait", !.pairs = same, !.how = how]
        IN  /\ t \in TurnType /\ t.stage = "wait" /\ t.how = how /\ t.minted = {} /\ t.back = None
            /\ t.session = s /\ t.asked = life /\ t.pairs = same
  BY <1>5, <1>6, <1>a DEF TurnType, Stages
<1>c. /\ refusal \in TurnType /\ refusal.stage = "wait" /\ refusal.how = "refused"
      /\ refusal.minted = {} /\ refusal.back = None
      /\ refusal.session = s /\ refusal.asked = life /\ refusal.pairs = {}
  BY <1>5, <1>6 DEF TurnType, Stages, Hows, Withheld
<1>d. LET t == Walking(texts)
      IN  /\ t \in TurnType /\ t.stage = "walk" /\ t.todo = texts /\ t.pairs = {} /\ t.how = None
          /\ t.minted = {} /\ t.back = None /\ t.session = s /\ t.asked = life
  BY <1>5, <1>6 DEF TurnType, Stages
<1>7. CASE \E t \in {Clear(texts, "passed"), refusal} :
             turn' = [turn EXCEPT ![th] = t] /\ UNCHANGED shown
  <2>1. PICK t \in TurnType :
          /\ turn' = [turn EXCEPT ![th] = t] /\ UNCHANGED shown
          /\ t.stage = "wait" /\ t.how \in {"passed", "refused"} /\ t.minted = {} /\ t.back = None
          /\ t.session = s /\ t.asked = life /\ \A p \in t.pairs : p[1] = p[2] /\ p[1] \in Text
    <3> DEFINE c == Clear(texts, "passed")
    <3>1. /\ c \in TurnType /\ c.stage = "wait" /\ c.how = "passed" /\ c.minted = {} /\ c.back = None
          /\ c.session = s /\ c.asked = life /\ c.pairs = same
      BY <1>b DEF same, Hows
    <3> HIDE DEF c, refusal
    <3>2. PICK t \in {c, refusal} : turn' = [turn EXCEPT ![th] = t] /\ UNCHANGED shown
      BY <1>7 DEF c, refusal
    <3> QED
      BY <1>a, <1>c, <3>1, <3>2
  <2>2. turn'[th] = t
    BY <2>1 DEF IInv, Formed
  <2>3. Placed(t)' /\ Clean(t)' /\ Scoped(th)'
    BY <1>2, <1>5, <2>1, <2>2 DEF Placed, Clean, Scoped
  <2>4. Own(t)'
    BY <1>2, <2>1, Itself DEF Own, Stands, TokenOf
  <2>5. Formed'
    BY <1>2, <1>3, <2>1 DEF IInv, Formed
  <2>6. TurnInv(th)'
    BY <2>2, <2>3, <2>4 DEF TurnInv
  <2> QED
    BY <1>2, <1>4, <2>1, <2>5, <2>6, SentStays, OneTurn DEF IInv, Formed
<1>8. CASE \E t \in {Clear(texts, "shadow"), Walking(texts)} :
             turn' = [turn EXCEPT ![th] = t] /\ shown' = [shown EXCEPT ![th] = {}]
  <2>1. PICK t \in TurnType :
          /\ turn' = [turn EXCEPT ![th] = t] /\ shown' = [shown EXCEPT ![th] = {}]
          /\ \/ t.stage = "wait" /\ t.how = "shadow"
             \/ t.stage = "walk" /\ t.todo = texts /\ t.pairs = {} /\ t.how = None
          /\ t.minted = {} /\ t.back = None
          /\ t.session = s /\ t.asked = life /\ \A p \in t.pairs : p[1] = p[2] /\ p[1] \in Text
    <3> DEFINE c == Clear(texts, "shadow")
               w == Walking(texts)
    <3>1. /\ c \in TurnType /\ c.stage = "wait" /\ c.how = "shadow" /\ c.minted = {} /\ c.back = None
          /\ c.session = s /\ c.asked = life /\ c.pairs = same
      BY <1>b DEF same, Hows
    <3>2. /\ w \in TurnType /\ w.stage = "walk" /\ w.todo = texts /\ w.pairs = {} /\ w.how = None
          /\ w.minted = {} /\ w.back = None /\ w.session = s /\ w.asked = life
      BY <1>d
    <3> HIDE DEF c, w
    <3>3. PICK t \in {c, w} : turn' = [turn EXCEPT ![th] = t] /\ shown' = [shown EXCEPT ![th] = {}]
      BY <1>8 DEF c, w
    <3> QED
      BY <1>a, <3>1, <3>2, <3>3
  <2>2. turn'[th] = t /\ ScopeOf(th)' = {}
    BY <2>1 DEF IInv, Formed, ScopeOf
  <2>3. Placed(t)' /\ Clean(t)' /\ Scoped(th)'
    BY <1>2, <1>3, <1>5, <2>1, <2>2 DEF Placed, Clean, Scoped
  <2>4. Own(t)'
    BY <1>2, <2>1, Itself DEF Own, Stands, TokenOf
  <2>5. Formed'
    BY <1>2, <1>3, <2>1 DEF IInv, Formed
  <2>6. TurnInv(th)'
    BY <2>2, <2>3, <2>4 DEF TurnInv
  <2> QED
    BY <1>2, <1>4, <2>1, <2>5, <2>6, SentStays, OneTurn DEF IInv, Formed
<1> QED
  BY <1>1, <1>7, <1>8


\* A text of the walk is sent as tokens, or as the model's own words.
LEMMA MaskedStands ==
  ASSUME NEW x \in Text, NEW tok \in Maps, token' = tok, \A v \in x.reals : tok[v] # 0
  PROVE  \E out \in Text : out = Masked(x, tok) /\ out.reals = {} /\ Stands(x, out)'
<1>1. x.reals \subseteq Values /\ x.toks \subseteq Numbers \ {0}
      /\ Masked(x, tok) = [reals |-> {}, toks |-> x.toks \cup {tok[v] : v \in x.reals}]
  BY DEF Text, Masked
<1>2. {tok[v] : v \in x.reals} \subseteq Numbers \ {0}
  BY <1>1 DEF Maps
<1>3. PICK out \in Text : /\ out = Masked(x, tok) /\ out.reals = {}
                         /\ out.toks = x.toks \cup {tok[v] : v \in x.reals}
  BY <1>1, <1>2 DEF Text
<1>4. Stands(x, out)'
  BY <1>3 DEF Stands, TokenOf
<1> QED
  BY <1>3, <1>4

\* The turn with other texts, pairs and tokens, and with another stage, end and pairs.
On(t, a, b, m) == [t EXCEPT !.todo = a, !.pairs = b, !.minted = m]
Put(t, stage, how, pairs) == [t EXCEPT !.stage = stage, !.how = how, !.pairs = pairs]

LEMMA WalkedOn ==
  ASSUME NEW t \in TurnType, NEW a \in SUBSET Text, NEW b \in SUBSET (Text \X Text),
         NEW m \in SUBSET (Numbers \ {0})
  PROVE  LET u == On(t, a, b, m)
         IN  /\ u \in TurnType
             /\ u.stage = t.stage /\ u.session = t.session /\ u.asked = t.asked
             /\ u.back = t.back /\ u.todo = a /\ u.pairs = b /\ u.minted = m /\ u.how = t.how
<1>1. On(t, a, b, m) \in TurnType
  BY DEF TurnType, On
<1> QED
  BY <1>1 DEF TurnType, On

LEMMA Staged ==
  ASSUME NEW t \in TurnType, NEW stage \in Stages, NEW how \in Hows, NEW pairs \in SUBSET (Text \X Text)
  PROVE  LET u == Put(t, stage, how, pairs)
         IN  /\ u \in TurnType
             /\ u.stage = stage /\ u.how = how /\ u.pairs = pairs
             /\ u.session = t.session /\ u.asked = t.asked /\ u.back = t.back
             /\ u.todo = t.todo /\ u.minted = t.minted /\ u.reply = t.reply /\ u.gen = t.gen
<1>1. Put(t, stage, how, pairs) \in TurnType
  BY DEF TurnType, Put
<1> QED
  BY <1>1 DEF TurnType, Put

LEMMA WalkInv ==
  ASSUME IInv, NEW th \in Threads, NEW x \in turn[th].todo, Walk(th, x)
  PROVE  IInv'
<1>0. PICK t \in TurnType : t = turn[th]
  BY DEF IInv, Formed
<1>1. /\ t = turn[th] /\ t \in TurnType /\ t.stage = "walk" /\ x \in Text /\ x.reals \subseteq Values
      /\ t.session \in Sessions /\ t.asked \in 1 .. life /\ t.back = None
      /\ \A y \in t.todo : y.reals \subseteq had[t.session]
      /\ token \in Maps /\ life \in Nat \ {0} /\ had \in [Sessions -> SUBSET Values]
      /\ TurnInv(th) /\ Formed
  BY <1>0 DEF Walk, IInv, TurnInv, Placed, Formed, TurnType, Text
<1>2. UNCHANGED <<mode, setup, life, sent, shown, entries, saved, hist, had, wrote>>
  BY DEF Walk, env, replay, seen
<1>3. PICK out \in Text :
        /\ turn' = [turn EXCEPT ![th] = Wrapped(t, x, out)]
        /\ token' \in Maps /\ Grown(token, token')
        /\ out.reals \subseteq wrote
        /\ t.asked = life => Stands(x, out)'
  <2>1. CASE \E e \in Hits(x, t.asked) :
               turn' = [turn EXCEPT ![th] = Wrapped(t, x, e.model)] /\ UNCHANGED token
    <3>1. PICK e \in Hits(x, t.asked) :
            turn' = [turn EXCEPT ![th] = Wrapped(t, x, e.model)] /\ UNCHANGED token
      BY <2>1
    <3>2. e \in EntryType /\ EntryInv(e) /\ e.restored = x /\ e.gen = t.asked
      BY DEF Hits, IInv, Formed
    <3>3. Grown(token, token') /\ token' \in Maps
      BY <1>1, <3>1 DEF Grown
    <3>4. e.model \in Text /\ e.model.reals \subseteq wrote
      BY <3>2 DEF EntryType, EntryInv
    <3>5. t.asked = life => Stands(x, e.model)'
      BY <1>1, <3>2, <3>3, <3>4, StandsStays DEF EntryInv
    <3> QED
      BY <3>1, <3>3, <3>4, <3>5
  <2>2. CASE token' \in Learnt(token, x.reals)
             /\ turn' = [turn EXCEPT ![th] = Wrapped(t, x, Masked(x, token'))]
    <3>1. token' \in Maps /\ Grown(token, token') /\ \A v \in x.reals : token'[v] # 0
      BY <1>1, <2>2, LearntGrows
    <3>2. PICK tok \in Maps : tok = token'
      BY <3>1
    <3>3. PICK out \in Text : out = Masked(x, tok) /\ out.reals = {} /\ Stands(x, out)'
      BY <1>1, <3>1, <3>2, MaskedStands
    <3> QED
      BY <2>2, <3>1, <3>2, <3>3
  <2> QED
    BY <1>0, <2>1, <2>2 DEF Walk
<1>4. Others
  BY <1>1, <1>2, <1>3 DEF Others
<1>5. PICK u \in TurnType :
      /\ u = Wrapped(t, x, out) /\ u.stage = "walk" /\ u.session = t.session /\ u.asked = t.asked
      /\ u.back = None /\ u.todo \subseteq t.todo /\ u.pairs = t.pairs \cup {<<x, out>>}
      /\ u.minted = t.minted \cup (out.toks \ x.toks) /\ u.how = t.how
  <2> DEFINE a == t.todo \ {x}
             b == t.pairs \cup {<<x, out>>}
             m == t.minted \cup (out.toks \ x.toks)
  <2>1. a \in SUBSET Text
    BY <1>1 DEF TurnType
  <2>2. b \in SUBSET (Text \X Text)
    <3>1. t.pairs \in SUBSET (Text \X Text) /\ <<x, out>> \in Text \X Text
      BY <1>1 DEF TurnType
    <3> QED
      BY <3>1
  <2>3. m \in SUBSET (Numbers \ {0})
    <3>1. t.minted \in SUBSET (Numbers \ {0}) /\ out.toks \in SUBSET (Numbers \ {0})
      BY <1>1 DEF TurnType, Text
    <3> QED
      BY <3>1
  <2>4. Wrapped(t, x, out) = On(t, a, b, m)
    BY <1>1 DEF Wrapped, TurnType, On
  <2>5. a \subseteq t.todo
    OBVIOUS
  <2>6. b = t.pairs \cup {<<x, out>>} /\ m = t.minted \cup (out.toks \ x.toks)
    OBVIOUS
  <2> HIDE DEF a, b, m
  <2>7. LET u == On(t, a, b, m)
        IN  /\ u \in TurnType
            /\ u.stage = t.stage /\ u.session = t.session /\ u.asked = t.asked
            /\ u.back = t.back /\ u.todo = a /\ u.pairs = b /\ u.minted = m /\ u.how = t.how
    BY <1>1, <2>1, <2>2, <2>3, WalkedOn
  <2> QED
    BY <1>1, <2>4, <2>5, <2>6, <2>7
<1>6. turn'[th] = u /\ turn' = [turn EXCEPT ![th] = u] /\ ScopeOf(th)' = ScopeOf(th)
  BY <1>1, <1>2, <1>3, <1>5 DEF Formed, ScopeOf
<1>7. TurnInv(th)
  BY <1>1
<1>8. \A n \in Numbers \ {0} : TokenOf(n, had[t.session]) => TokenOf(n, had[t.session])'
  <2> SUFFICES ASSUME NEW n \in Numbers \ {0}, TokenOf(n, had[t.session])
               PROVE  \E v \in had[t.session] : token'[v] = n
    BY <1>2 DEF TokenOf
  <2> QED
    BY <1>1, <1>3, TokenOfStays
<1>9. Placed(u)' /\ Clean(u)'
  BY <1>1, <1>2, <1>3, <1>5, <1>7 DEF TurnInv, Placed, Clean
<1>10. Own(u)'
  <2> SUFFICES ASSUME t.asked = life PROVE Own(u)'
    BY <1>2, <1>5 DEF Own
  <2>1. \A p \in t.pairs : Stands(p[1], p[2])'
    BY <1>1, <1>3, <1>7, StandsStays DEF TurnInv, Own, TurnType
  <2>2. \A n \in t.minted : TokenOf(n, had[t.session])'
    BY <1>1, <1>7, <1>8 DEF TurnInv, Own, TurnType
  <2>3. \A n \in out.toks \ x.toks : TokenOf(n, had[t.session])'
    BY <1>1, <1>2, <1>3 DEF Stands, TokenOf
  <2> QED
    BY <1>2, <1>3, <1>5, <2>1, <2>2, <2>3 DEF Own, TokenOf
<1>11. Scoped(th)'
  <2>1. ASSUME life = 1, u.how \notin {"passed", "refused"}
        PROVE  \A n \in ScopeOf(th) \ {0} : TokenOf(n, had[t.session])'
    <3>1. ScopeOf(th) \subseteq Numbers
      BY <1>1 DEF ScopeOf, Formed
    <3> QED
      BY <1>1, <1>5, <1>7, <1>8, <2>1, <3>1 DEF TurnInv, Scoped
  <2> QED
    BY <1>2, <1>5, <1>6, <2>1 DEF Scoped, TokenOf
<1>12. TurnInv(th)'
  BY <1>6, <1>9, <1>10, <1>11 DEF TurnInv
<1>13. Formed'
  BY <1>1, <1>2, <1>3, <1>5, <1>6 DEF Formed
<1> QED
  BY <1>1, <1>2, <1>4, <1>6, <1>12, <1>13, SentStays, OneTurn DEF Formed

\* A step in the turn of a thread that leaves the vault and what the session held.
Within(th, t, u) ==
  /\ turn' = [turn EXCEPT ![th] = u]
  /\ u.session = t.session /\ u.asked = t.asked
  /\ UNCHANGED <<setup, token, life, had>>
  /\ wrote' \subseteq Values /\ wrote \subseteq wrote'

LEMMA WithinOthers ==
  ASSUME IInv, NEW th \in Threads, NEW t \in TurnType, t = turn[th], NEW u \in TurnType,
         Within(th, t, u)
  PROVE  /\ Others /\ TurnInv(th) /\ turn'[th] = u /\ turn' \in [Threads -> TurnType]
         /\ \A o \in Threads \ {th} : turn'[o] = turn[o]
         /\ \A s \in Sessions, n \in Numbers : TokenOf(n, had[s]) => TokenOf(n, had[s])'
<1>1. Others
  BY DEF Others, Within, Grown, IInv, Formed
<1>2. turn'[th] = u /\ turn' \in [Threads -> TurnType] /\ \A o \in Threads \ {th} : turn'[o] = turn[o]
  BY DEF Within, IInv, Formed
<1>3. \A s \in Sessions, n \in Numbers : TokenOf(n, had[s]) => TokenOf(n, had[s])'
  BY DEF Within, TokenOf
<1> QED
  BY <1>1, <1>2, <1>3 DEF IInv

LEMMA RememberInv ==
  ASSUME IInv, NEW th \in Threads, Remember(th)
  PROVE  IInv'
<1>1. PICK t \in TurnType : t = turn[th]
  BY DEF IInv, Formed
<1>2. TurnInv(th) /\ Formed /\ SentInv
  BY DEF IInv
<1>3. /\ t.stage = "walk" /\ t.how = None /\ t.back = None /\ t.session \in Sessions /\ t.asked \in 1 .. life
      /\ life \in Nat \ {0} /\ t.minted \subseteq Numbers \ {0}
  BY <1>1, <1>2 DEF Remember, TurnInv, Placed, Formed, TurnType
<1>4. PICK all \in SUBSET Numbers, kept \in SUBSET Sessions :
        /\ all = (IF sent[t.session] = None THEN {} ELSE sent[t.session]) \cup t.minted
        /\ sent' = [s \in Sessions |-> IF s = t.session THEN all
                                       ELSE IF s \in kept THEN sent[s] ELSE None]
        /\ shown' = [shown EXCEPT ![th] = all]
  <2>1. sent[t.session] \in {None} \cup SUBSET Numbers
    BY <1>2, <1>3 DEF Formed
  <2>2. (IF sent[t.session] = None THEN {} ELSE sent[t.session]) \cup t.minted \in SUBSET Numbers
    BY <1>3, <2>1
  <2>3. PICK kept \in SUBSET Sessions :
          sent' = [s \in Sessions |->
                     IF s = t.session
                     THEN (IF sent[t.session] = None THEN {} ELSE sent[t.session]) \cup t.minted
                     ELSE IF s \in kept THEN sent[s] ELSE None]
    <3>1. PICK kept \in SUBSET {s \in Sessions \ {t.session} : sent[s] # None} :
            sent' = [s \in Sessions |->
                       IF s = t.session
                       THEN (IF sent[t.session] = None THEN {} ELSE sent[t.session]) \cup t.minted
                       ELSE IF s \in kept THEN sent[s] ELSE None]
      BY <1>1 DEF Remember
    <3> QED
      BY <3>1
  <2>4. shown' = [shown EXCEPT ![th] =
                    (IF sent[t.session] = None THEN {} ELSE sent[t.session]) \cup t.minted]
    BY <1>1, Zenon DEF Remember
  <2> QED
    BY <2>2, <2>3, <2>4
<1>5. PICK u \in TurnType :
        /\ u = Put(t, "check", None, t.pairs)
        /\ u.stage = "check" /\ u.how = None /\ u.pairs = t.pairs
        /\ u.session = t.session /\ u.asked = t.asked /\ u.back = None /\ u.minted = t.minted
  <2>1. t.pairs \in SUBSET (Text \X Text)
    BY DEF TurnType
  <2>2. "check" \in Stages /\ None \in Hows
    BY DEF Stages, Hows
  <2> QED
    BY <1>3, <2>1, <2>2, Staged
<1>6. u = [t EXCEPT !.stage = "check"]
  BY <1>3, <1>5 DEF TurnType, Put
<1>7. Within(th, t, u)
  BY <1>1, <1>2, <1>5, <1>6 DEF Within, Remember, env, vault, replay, seen, Formed
<1>8. /\ Others /\ turn'[th] = u /\ turn' \in [Threads -> TurnType]
      /\ \A o \in Threads \ {th} : turn'[o] = turn[o]
      /\ \A s \in Sessions, n \in Numbers : TokenOf(n, had[s]) => TokenOf(n, had[s])'
  BY <1>1, <1>7, WithinOthers
<1>9. UNCHANGED <<entries, saved, hist, wrote>> /\ \A o \in Threads \ {th} : shown'[o] = shown[o]
  BY <1>2, <1>4 DEF Remember, replay, seen, Formed
<1>10. ScopeOf(th)' = all
  BY <1>2, <1>4, ConstantsAssumption DEF ScopeOf, Formed, ConstantsAssumption
<1>11. life = 1 => \A n \in all \ {0} : TokenOf(n, had[t.session])
  BY <1>1, <1>2, <1>3, <1>4 DEF TurnInv, Own, SentInv
<1>12. Placed(u)' /\ Clean(u)'
  BY <1>1, <1>2, <1>3, <1>5, <1>8, <1>9 DEF TurnInv, Placed, Clean, Others
<1>13. Own(u)'
  BY <1>1, <1>2, <1>3, <1>5, <1>7 DEF TurnInv, Own, Within, Stands, TokenOf
<1>14. Scoped(th)'
  BY <1>3, <1>4, <1>5, <1>7, <1>8, <1>10, <1>11 DEF Scoped, Within
<1>15. SentInv'
  <2> SUFFICES ASSUME life = 1, NEW s \in Sessions, sent'[s] # None, NEW n \in sent'[s] \ {0}
               PROVE  TokenOf(n, had[s])'
    BY <1>7 DEF SentInv, Within
  <2>1. CASE s = t.session
    BY <1>4, <1>8, <1>11, <2>1
  <2>2. CASE s # t.session
    <3>1. sent'[s] = sent[s] /\ sent[s] \in SUBSET Numbers
      BY <1>2, <1>4, <2>2 DEF Formed
    <3> QED
      BY <1>2, <1>8, <3>1 DEF SentInv
  <2> QED
    BY <2>1, <2>2
<1>16. Formed'
  <2>1. sent' \in [Sessions -> {None} \cup SUBSET Numbers]
    BY <1>2, <1>4 DEF Formed
  <2> QED
    BY <1>2, <1>4, <1>7, <1>8, <1>9, <2>1 DEF Formed, Within
<1>17. TurnInv(th)'
  BY <1>8, <1>12, <1>13, <1>14 DEF TurnInv
<1> QED
  BY <1>8, <1>9, <1>15, <1>16, <1>17, OneTurn

\* What becomes of the turn when the request is sent, or has failed.
LEMMA LeaveInv ==
  ASSUME IInv, NEW th \in Threads, NEW t \in TurnType, t = turn[th], t.stage \in {"walk", "check"},
         NEW u \in TurnType, Within(th, t, u), UNCHANGED <<sent, shown, entries, saved, hist, wrote>>,
         u.stage = "wait", u.back = t.back, u.how \in {"blocked", "masked", "failed"},
         \/ u.how = "blocked" /\ u.pairs = {} /\ u.minted = t.minted /\ t.stage = "check"
         \/ u.how = "masked" /\ u.pairs = t.pairs /\ u.minted = t.minted /\ t.stage = "check"
         \/ /\ u.how = "failed" /\ u.minted = {} /\ \A p \in u.pairs : p[1] = p[2] /\ p[1] \in Text
            /\ setup.closed => u.pairs = {}
  PROVE  IInv'
<1>1. /\ Others /\ TurnInv(th) /\ turn'[th] = u /\ turn' \in [Threads -> TurnType]
      /\ \A o \in Threads \ {th} : turn'[o] = turn[o]
      /\ \A s \in Sessions, n \in Numbers : TokenOf(n, had[s]) => TokenOf(n, had[s])'
  BY WithinOthers
<1>2. /\ ScopeOf(th)' = ScopeOf(th) /\ t.session \in Sessions /\ t.asked \in 1 .. life
      /\ t.how = None /\ t.back = None /\ life \in Nat \ {0} /\ ScopeOf(th) \subseteq Numbers
  BY <1>1 DEF ScopeOf, TurnInv, Placed, IInv, Formed
<1>3. Placed(u)' /\ Clean(u)'
  BY <1>1, <1>2 DEF Within, Placed, Clean, TurnInv
<1>4. Own(u)'
  <2>1. u.asked = life => \A p \in u.pairs : Stands(p[1], p[2])
    BY <1>1, Itself DEF TurnInv, Own, Within
  <2>2. u.asked = life => \A n \in u.minted : TokenOf(n, had[u.session])
    BY <1>1 DEF TurnInv, Own, Within
  <2> QED
    BY <1>2, <2>1, <2>2 DEF Own, Within, Stands, TokenOf
<1>5. Scoped(th)'
  <2>1. u.minted \subseteq ScopeOf(th)
    <3>1. t.stage = "check" => t.minted \subseteq ScopeOf(th)
      BY <1>1 DEF TurnInv, Scoped
    <3>2. u.minted = {} \/ (u.minted = t.minted /\ t.stage = "check")
      OBVIOUS
    <3>3. CASE u.minted = {}
      <4> HIDE <3>1, <3>2
      <4> QED
        BY <3>3
    <3>4. CASE u.minted = t.minted /\ t.stage = "check"
      BY <3>1, <3>4
    <3> QED
      BY <3>2, <3>3, <3>4
  <2>2. life = 1 => \A n \in ScopeOf(th) \ {0} : TokenOf(n, had[t.session])
    BY <1>1, <1>2, ConstantsAssumption DEF TurnInv, Scoped, ConstantsAssumption
  <2> QED
    BY <1>1, <1>2, <2>1, <2>2 DEF Scoped, Within
<1>6. TurnInv(th)'
  BY <1>1, <1>3, <1>4, <1>5 DEF TurnInv
<1>7. Formed'
  BY <1>1 DEF IInv, Formed, Within
<1> QED
  BY <1>1, <1>6, <1>7, SentStays, OneTurn

LEMMA SendInv ==
  ASSUME IInv, NEW th \in Threads, Send(th)
  PROVE  IInv'
<1>1. PICK t \in TurnType : t = turn[th]
  BY DEF IInv, Formed
<1>2. t.stage = "check" /\ UNCHANGED <<setup, token, life, had, sent, shown, entries, saved, hist, wrote>>
  BY <1>1 DEF Send, env, vault, replay, seen
<1>3. t.pairs \in SUBSET (Text \X Text) /\ {} \in SUBSET (Text \X Text)
  BY DEF TurnType
<1>a. "wait" \in Stages /\ "blocked" \in Hows /\ "masked" \in Hows
  BY DEF Stages, Hows
<1>4. PICK b \in TurnType :
        /\ b = Put(t, "wait", "blocked", {})
        /\ b.stage = "wait" /\ b.how = "blocked" /\ b.pairs = {}
        /\ b.session = t.session /\ b.asked = t.asked /\ b.back = t.back /\ b.minted = t.minted
  BY <1>3, <1>a, Staged
<1>5. PICK m \in TurnType :
        /\ m = Put(t, "wait", "masked", t.pairs)
        /\ m.stage = "wait" /\ m.how = "masked" /\ m.pairs = t.pairs
        /\ m.session = t.session /\ m.asked = t.asked /\ m.back = t.back /\ m.minted = t.minted
  BY <1>3, <1>a, Staged
<1>6. /\ m = [t EXCEPT !.stage = "wait", !.how = "masked"]
      /\ b = [t EXCEPT !.stage = "wait", !.how = "blocked", !.pairs = {}]
  BY <1>4, <1>5 DEF TurnType, Put
<1>7. PICK u \in {b, m} : turn' = [turn EXCEPT ![th] = u]
  BY <1>1, <1>4, <1>6 DEF Send, Held, Withheld
<1>8. Within(th, t, u)
  BY <1>2, <1>4, <1>5, <1>7 DEF Within, IInv, Formed
<1>9. CASE u = b
  BY <1>1, <1>2, <1>4, <1>8, <1>9, LeaveInv
<1>10. CASE u = m
  BY <1>1, <1>2, <1>5, <1>8, <1>10, LeaveInv
<1> QED
  BY <1>7, <1>9, <1>10

LEMMA FailInv ==
  ASSUME IInv, NEW th \in Threads, Fail(th)
  PROVE  IInv'
<1>1. PICK t \in TurnType : t = turn[th]
  BY DEF IInv, Formed
<1>2. /\ t.stage \in {"walk", "check"}
      /\ UNCHANGED <<setup, token, life, had, sent, shown, entries, saved, hist, wrote>>
  BY <1>1 DEF Fail, env, vault, replay, seen
<1> DEFINE pairs == IF setup.closed THEN {} ELSE {<<p[1], p[1]>> : p \in t.pairs} \cup {<<x, x>> : x \in t.todo}
<1>3. pairs \in SUBSET (Text \X Text) /\ \A p \in pairs : p[1] = p[2] /\ p[1] \in Text
  <2>1. t.pairs \in SUBSET (Text \X Text) /\ t.todo \in SUBSET Text
    BY DEF TurnType
  <2> QED
    BY <2>1
<1>4. setup.closed => pairs = {}
  OBVIOUS
<1>5. Fallen(t) = [t EXCEPT !.pairs = pairs, !.todo = {}, !.minted = {}, !.stage = "wait", !.how = "failed"]
  BY DEF Fallen, Withheld
<1> HIDE DEF pairs
<1>6. PICK u \in TurnType :
        /\ u = Fallen(t) /\ u.stage = "wait" /\ u.how = "failed" /\ u.pairs = pairs
        /\ u.session = t.session /\ u.asked = t.asked /\ u.back = t.back /\ u.minted = {}
  <2>1. Fallen(t) \in TurnType
    BY <1>3, <1>5 DEF TurnType, Stages, Hows
  <2> QED
    BY <1>5, <2>1 DEF TurnType
<1>7. turn' = [turn EXCEPT ![th] = u]
  BY <1>1, <1>6 DEF Fail
<1>8. Within(th, t, u)
  BY <1>2, <1>6, <1>7 DEF Within, IInv, Formed
<1> QED
  BY <1>1, <1>2, <1>3, <1>4, <1>6, <1>8, LeaveInv

LEMMA ReplyInv ==
  ASSUME IInv, NEW th \in Threads, NEW r \in Replies, Reply(th, r)
  PROVE  IInv'
<1>1. PICK t \in TurnType : t = turn[th]
  BY DEF IInv, Formed
<1>2. /\ t.stage = "wait" /\ wrote' = wrote \cup r.reals
      /\ UNCHANGED <<setup, token, life, had, sent, shown, entries, saved>>
      /\ r \in Text /\ r.reals \subseteq Values
  BY <1>1, ConstantsAssumption DEF Reply, env, vault, replay, Text, ConstantsAssumption
<1>3. /\ TurnInv(th) /\ Formed /\ t.session \in Sessions /\ t.asked \in 1 .. life /\ t.back = None
      /\ life \in Nat \ {0}
  BY <1>1, <1>2 DEF IInv, Formed, TurnInv, Placed
<1>4. PICK how \in Hows :
        /\ how = IF t.how \in {"passed", "refused"} THEN t.how ELSE "scoped"
        /\ Answered(t, r) = [t EXCEPT !.pairs = {}, !.reply = r, !.how = how]
  BY DEF TurnType, Hows, Answered
<1> DEFINE A(stage, gen) == [t EXCEPT !.pairs = {}, !.reply = r, !.how = how, !.stage = stage, !.gen = gen]
<1>5. \A stage \in Stages, gen \in Nat :
        LET u == A(stage, gen)
        IN  /\ u \in TurnType /\ u.stage = stage /\ u.gen = gen /\ u.pairs = {} /\ u.reply = r
            /\ u.how = how /\ u.session = t.session /\ u.asked = t.asked /\ u.back = t.back
            /\ u.minted = t.minted
  <2> SUFFICES ASSUME NEW stage \in Stages, NEW gen \in Nat
               PROVE LET u == A(stage, gen)
                     IN  /\ u \in TurnType /\ u.stage = stage /\ u.gen = gen /\ u.pairs = {} /\ u.reply = r
                         /\ u.how = how /\ u.session = t.session /\ u.asked = t.asked /\ u.back = t.back
                         /\ u.minted = t.minted
    OBVIOUS
  <2>1. A(stage, gen) \in TurnType
    BY <1>2 DEF TurnType
  <2> QED
    BY <2>1 DEF TurnType
<1>6. /\ [Answered(t, r) EXCEPT !.stage = "restore", !.gen = life] = A("restore", life)
      /\ [Answered(t, r) EXCEPT !.stage = "done"] = A("done", t.gen)
      /\ "restore" \in Stages /\ "done" \in Stages /\ t.gen \in Nat
  <2>1. [Answered(t, r) EXCEPT !.stage = "restore", !.gen = life] = A("restore", life)
    BY <1>4
  <2>2. "restore" \in Stages /\ "done" \in Stages /\ t.gen \in Nat
    BY DEF TurnType, Stages
  <2>3. [Answered(t, r) EXCEPT !.stage = "done"] = A("done", t.gen)
    BY <1>4 DEF TurnType
  <2> QED
    BY <2>1, <2>2, <2>3
<1>7. \/ turn' = [turn EXCEPT ![th] = A("restore", life)] /\ UNCHANGED hist
      \/ turn' = [turn EXCEPT ![th] = A("done", t.gen)] /\ hist' = Kept(t, r)
  <2>1. CASE mode = "enforce"
    <3>1. turn' = [turn EXCEPT ![th] = [Answered(turn[th], r) EXCEPT !.stage = "restore", !.gen = life]]
          /\ UNCHANGED hist
      BY <1>1, <2>1 DEF Reply, Formed, IInv
    <3> QED
      BY <1>1, <1>6, <3>1
  <2>2. CASE mode # "enforce"
    <3>1. turn' = [turn EXCEPT ![th] = [Answered(turn[th], r) EXCEPT !.stage = "done"]]
          /\ hist' = Kept(turn[th], r)
      BY <1>1, <2>2 DEF Reply, Formed, IInv
    <3> QED
      BY <1>1, <1>6, <3>1
  <2> QED
    BY <2>1, <2>2
<1> HIDE DEF A
<1>8. PICK u \in TurnType :
        /\ turn' = [turn EXCEPT ![th] = u]
        /\ (u.stage = "restore" /\ u.gen = life) \/ u.stage = "done"
        /\ u.pairs = {} /\ u.reply = r /\ u.how = how /\ u.session = t.session
        /\ u.asked = t.asked /\ u.back = None /\ u.minted = t.minted
  BY <1>3, <1>5, <1>6, <1>7
<1>9. hist' \in [Sessions -> Text \cup {None}]
  BY <1>2, <1>3, <1>7 DEF Kept, Formed
<1>10. Within(th, t, u)
  BY <1>2, <1>3, <1>8 DEF Within, Formed
<1>11. /\ Others /\ turn'[th] = u /\ turn' \in [Threads -> TurnType]
       /\ \A o \in Threads \ {th} : turn'[o] = turn[o]
       /\ \A s \in Sessions, n \in Numbers : TokenOf(n, had[s]) => TokenOf(n, had[s])'
  BY <1>1, <1>10, WithinOthers
<1>12. ScopeOf(th)' = ScopeOf(th) /\ ScopeOf(th) \subseteq Numbers
  BY <1>2, <1>3 DEF ScopeOf, Formed
<1>13. Placed(u)' /\ Clean(u)'
  BY <1>2, <1>3, <1>8 DEF Placed, Clean
<1>14. Own(u)'
  <2>1. u.asked = life => \A n \in u.minted : TokenOf(n, had[u.session])
    BY <1>1, <1>2, <1>3, <1>8 DEF TurnInv, Own
  <2> QED
    BY <1>2, <1>8, <2>1 DEF Own, TokenOf
<1>15. Scoped(th)'
  <2>1. u.minted \subseteq ScopeOf(th)
    BY <1>1, <1>2, <1>3, <1>8 DEF TurnInv, Scoped
  <2>2. u.how \notin {"passed", "refused"} => t.how \notin {"passed", "refused"}
    BY <1>4, <1>8
  <2>3. life = 1 /\ u.how \notin {"passed", "refused"} =>
          \A n \in ScopeOf(th) \ {0} : TokenOf(n, had[t.session])
    BY <1>1, <1>2, <1>3, <2>2 DEF TurnInv, Scoped
  <2> QED
    BY <1>2, <1>3, <1>8, <1>11, <1>12, <2>1, <2>3 DEF Scoped
<1>16. TurnInv(th)'
  BY <1>11, <1>13, <1>14, <1>15 DEF TurnInv
<1>17. Formed'
  BY <1>2, <1>3, <1>9, <1>10, <1>11 DEF Formed, Within
<1> QED
  BY <1>2, <1>11, <1>16, <1>17, SentStays, OneTurn

\* A text that is restored keeps what it holds, gives back what the scope allows, and stands
\* for what the model wrote.
LEMMA RestoredStands ==
  ASSUME token \in Maps, NEW x \in Text, NEW scope
  PROVE  LET back == Restored(x, token, scope)
         IN  /\ back \in Text
             /\ \A v \in back.reals : v \in x.reals \/ (v \in Values /\ token[v] \in (x.toks \cap scope) \ {0})
             /\ \A v \in Values : token[v] \in (x.toks \cap scope) \ {0} => v \in back.reals
             /\ Stands(back, x)
<1> DEFINE given == {v \in Values : token[v] \in (x.toks \cap scope) \ {0}}
           back == [reals |-> x.reals \cup given, toks |-> x.toks \ {token[v] : v \in given}]
<1>1. Restored(x, token, scope) = back
  BY DEF Restored
<1>2. x.reals \subseteq Values /\ x.toks \subseteq Numbers \ {0}
  BY DEF Text
<1>3. back \in Text /\ back.reals = x.reals \cup given /\ back.toks = x.toks \ {token[v] : v \in given}
  BY <1>2 DEF Text
<1> HIDE DEF back
<1>4. Stands(back, x)
  BY <1>2, <1>3 DEF Stands, TokenOf
<1> QED
  BY <1>1, <1>3, <1>4

Back(t, back) == [t EXCEPT !.stage = "done", !.back = back]

LEMMA RestoreInv ==
  ASSUME IInv, NEW th \in Threads, Restore(th)
  PROVE  IInv'
<1>1. PICK t \in TurnType : t = turn[th]
  BY DEF IInv, Formed
<1>2. /\ t.stage = "restore" /\ UNCHANGED <<setup, token, life, had, sent, shown, wrote>>
  BY <1>1 DEF Restore, env, vault
<1>3. /\ TurnInv(th) /\ Formed /\ t.session \in Sessions /\ t.asked \in 1 .. life /\ t.reply \in Text
      /\ t.gen \in 1 .. life /\ t.reply.reals \subseteq wrote /\ life \in Nat \ {0}
  BY <1>1, <1>2 DEF IInv, Formed, TurnInv, Placed
<1>4. PICK scope \in SUBSET Numbers : scope = ScopeOf(th)
  BY <1>3 DEF ScopeOf, Formed
<1>5. PICK back \in Text :
        /\ back = Restored(t.reply, token, scope)
        /\ \A v \in back.reals :
             v \in t.reply.reals \/ (v \in Values /\ token[v] \in (t.reply.toks \cap scope) \ {0})
        /\ \A v \in Values : token[v] \in (t.reply.toks \cap scope) \ {0} => v \in back.reals
        /\ Stands(back, t.reply)
  BY <1>3, RestoredStands DEF Formed
<1> DEFINE e == [restored |-> back, gen |-> t.gen, model |-> t.reply]
<1>6. e \in EntryType /\ EntryInv(e)
  BY <1>3, <1>5 DEF EntryType, EntryInv
<1>7. PICK new \in {{}, {e}} :
        /\ \E kept \in Remembered(new) :
             \/ entries' = kept /\ UNCHANGED saved
             \/ \E gen : \E all \in SavedAs(kept, new, gen) : entries' = all /\ saved' = all
        /\ turn' = [turn EXCEPT ![th].stage = "done", ![th].back = back]
        /\ hist' = Kept(t, back)
  BY <1>1, <1>4, <1>5 DEF Restore
<1> HIDE DEF e
<1>8. entries' \cup saved' \subseteq entries \cup saved \cup {e}
  <2>1. PICK kept \in Remembered(new) :
          \/ entries' = kept /\ UNCHANGED saved
          \/ \E gen : \E all \in SavedAs(kept, new, gen) : entries' = all /\ saved' = all
    BY <1>7
  <2>2. kept \subseteq entries \cup {e}
    BY <1>7 DEF Remembered, Cut
  <2>3. \A gen : \A all \in SavedAs(kept, new, gen) : all \subseteq kept \cup saved
    BY DEF SavedAs, Cut
  <2> QED
    BY <2>1, <2>2, <2>3
<1>9. PICK u \in TurnType :
        /\ turn' = [turn EXCEPT ![th] = u]
        /\ u.stage = "done" /\ u.back = back /\ u.reply = t.reply /\ u.how = t.how
        /\ u.session = t.session /\ u.asked = t.asked /\ u.minted = t.minted
  <2>1. Back(t, back) \in TurnType
    BY DEF TurnType, Stages, Back
  <2>2. /\ Back(t, back).stage = "done" /\ Back(t, back).back = back /\ Back(t, back).reply = t.reply
        /\ Back(t, back).how = t.how /\ Back(t, back).session = t.session
        /\ Back(t, back).asked = t.asked /\ Back(t, back).minted = t.minted
    BY <2>1 DEF TurnType, Back
  <2>3. turn' = [turn EXCEPT ![th] = Back(t, back)]
    BY <1>1, <1>7 DEF Back
  <2> QED
    BY <2>1, <2>2, <2>3
<1>10. Within(th, t, u)
  BY <1>2, <1>3, <1>9 DEF Within, Formed
<1>11. /\ Others /\ turn'[th] = u /\ turn' \in [Threads -> TurnType]
       /\ \A o \in Threads \ {th} : turn'[o] = turn[o]
       /\ \A s \in Sessions, n \in Numbers : TokenOf(n, had[s]) => TokenOf(n, had[s])'
  BY <1>1, <1>10, WithinOthers
<1>12. ScopeOf(th)' = scope
  BY <1>2, <1>4 DEF ScopeOf
<1>13. Placed(u)' /\ Clean(u)'
  BY <1>2, <1>3, <1>9 DEF Placed, Clean
<1>14. Own(u)'
  <2>1. u.asked = life => \A n \in u.minted : TokenOf(n, had[u.session])
    BY <1>1, <1>2, <1>3, <1>9 DEF TurnInv, Own
  <2>2. u.minted \subseteq scope
    BY <1>1, <1>2, <1>3, <1>4, <1>9 DEF TurnInv, Scoped
  <2>3. \A v \in Values : token[v] \in (u.reply.toks \cap u.minted) \ {0} => v \in u.back.reals
    BY <1>5, <1>9, <2>2
  <2> QED
    BY <1>2, <1>9, <2>1, <2>3 DEF Own, TokenOf
<1>15. Scoped(th)'
  <2> SUFFICES ASSUME life = 1, u.how \notin {"passed", "refused"}
               PROVE  /\ \A n \in scope \ {0} : TokenOf(n, had[t.session])
                      /\ back.reals \ t.reply.reals \subseteq had[t.session]
    BY <1>2, <1>9, <1>11, <1>12, <1>3 DEF Scoped
  <2>1. \A n \in scope \ {0} : TokenOf(n, had[t.session])
    BY <1>1, <1>2, <1>3, <1>4, <1>9 DEF TurnInv, Scoped
  <2>2. ASSUME NEW v \in back.reals \ t.reply.reals PROVE v \in had[t.session]
    <3>1. v \in Values /\ token[v] \in scope \ {0}
      BY <1>5
    <3>2. PICK w \in had[t.session] : token[w] = token[v]
      BY <2>1, <3>1 DEF TokenOf
    <3>3. w \in Values /\ token \in Maps
      BY <1>3 DEF Formed
    <3>4. v = w
      BY <3>1, <3>2, <3>3, MapsInjective
    <3> QED
      BY <3>4
  <2> QED
    BY <2>1, <2>2
<1>16. TurnInv(th)'
  BY <1>11, <1>13, <1>14, <1>15 DEF TurnInv
<1>17. Formed'
  <2>1. hist' \in [Sessions -> Text \cup {None}]
    BY <1>3, <1>7 DEF Formed, Kept
  <2>2. entries' \subseteq EntryType /\ saved' \subseteq EntryType
    BY <1>3, <1>6, <1>8 DEF Formed
  <2> QED
    BY <1>2, <1>3, <1>10, <1>11, <2>1, <2>2 DEF Formed, Within
<1>18. EntryInv(e)'
  BY <1>6, <1>11, EntryStays
<1> QED
  BY <1>2, <1>8, <1>11, <1>16, <1>17, <1>18, SentStays, OneTurn

LEMMA RestoreFailsInv ==
  ASSUME IInv, NEW th \in Threads, RestoreFails(th)
  PROVE  IInv'
<1>1. PICK t \in TurnType : t = turn[th]
  BY DEF IInv, Formed
<1>2. /\ t.stage = "restore" /\ turn' = [turn EXCEPT ![th] = [t EXCEPT !.stage = "done"]]
      /\ hist' = Kept(t, t.reply)
      /\ UNCHANGED <<setup, token, life, had, sent, shown, entries, saved, wrote>>
  BY <1>1 DEF RestoreFails, env, vault, replay
<1>3. /\ TurnInv(th) /\ Formed /\ t.session \in Sessions /\ t.asked \in 1 .. life
      /\ t.reply \in Text /\ t.back = None
  BY <1>1, <1>2 DEF IInv, Formed, TurnInv, Placed
<1>4. PICK u \in TurnType :
        /\ turn' = [turn EXCEPT ![th] = u]
        /\ u.stage = "done" /\ u.back = None /\ u.reply = t.reply /\ u.how = t.how
        /\ u.session = t.session /\ u.asked = t.asked /\ u.minted = t.minted
  <2>1. [t EXCEPT !.stage = "done"] \in TurnType
    BY DEF TurnType, Stages
  <2> QED
    BY <1>2, <1>3, <2>1 DEF TurnType
<1>5. Within(th, t, u)
  BY <1>2, <1>3, <1>4 DEF Within, Formed
<1>6. /\ Others /\ turn'[th] = u /\ turn' \in [Threads -> TurnType]
      /\ \A o \in Threads \ {th} : turn'[o] = turn[o]
      /\ \A s \in Sessions, n \in Numbers : TokenOf(n, had[s]) => TokenOf(n, had[s])'
  BY <1>1, <1>5, WithinOthers
<1>7. ScopeOf(th)' = ScopeOf(th) /\ ScopeOf(th) \subseteq Numbers
  BY <1>2, <1>3 DEF ScopeOf, Formed
<1>8. Placed(u)' /\ Clean(u)'
  BY <1>2, <1>3, <1>4 DEF Placed, Clean
<1>9. Own(u)'
  <2>1. u.asked = life => \A n \in u.minted : TokenOf(n, had[u.session])
    BY <1>1, <1>2, <1>3, <1>4 DEF TurnInv, Own
  <2> QED
    BY <1>2, <1>4, <2>1 DEF Own, TokenOf
<1>10. Scoped(th)'
  <2>1. life = 1 /\ u.how \notin {"passed", "refused"} =>
          \A n \in ScopeOf(th) \ {0} : TokenOf(n, had[t.session])
    BY <1>1, <1>2, <1>3, <1>4 DEF TurnInv, Scoped
  <2> QED
    BY <1>2, <1>3, <1>4, <1>6, <1>7, <2>1 DEF Scoped
<1>11. TurnInv(th)'
  BY <1>6, <1>8, <1>9, <1>10 DEF TurnInv
<1>12. hist' \in [Sessions -> Text \cup {None}]
  BY <1>2, <1>3 DEF Kept, Formed
<1>13. Formed'
  BY <1>2, <1>3, <1>5, <1>6, <1>12 DEF Formed, Within
<1> QED
  BY <1>2, <1>6, <1>11, <1>13, SentStays, OneTurn

LEMMA FlipInv == ASSUME IInv, Flip PROVE IInv'
<1>1. UNCHANGED <<setup, token, life, sent, shown, entries, saved, turn, hist, had, wrote>>
  BY DEF Flip, fixed, vault, replay, seen
<1>2. Others
  BY <1>1 DEF Others, Grown, IInv, Formed
<1>3. Formed'
  BY <1>1 DEF IInv, Formed
<1>4. \A o \in Threads : TurnInv(o)'
  BY <1>1, <1>2, TurnStays
<1>5. \A e \in entries' \cup saved' : EntryInv(e)'
  BY <1>1, <1>2, EntryStays DEF IInv, Formed
<1> QED
  BY <1>1, <1>2, <1>3, <1>4, <1>5, SentStays DEF IInv

\* A thread that is in no turn.
LEMMA Idle ==
  /\ NoTurn \in TurnType /\ NoTurn.stage = "idle" /\ NoTurn.how = None /\ NoTurn.back = None
  /\ NoTurn.minted = {}
<1>1. {} \in SUBSET Text /\ {} \in SUBSET (Text \X Text) /\ {} \in SUBSET (Numbers \ {0})
  OBVIOUS
<1> QED
  BY <1>1 DEF NoTurn, TurnType, Stages, Hows

LEMMA RestartInv == ASSUME IInv, Restart PROVE IInv'
<1>1. /\ UNCHANGED <<setup, token, life, saved, hist, had, wrote>> /\ entries' = saved
      /\ sent' = [s \in Sessions |-> None] /\ shown' = [th \in Threads |-> None]
      /\ turn' = [th \in Threads |-> NoTurn]
  BY DEF Restart, fixed, vault, seen
<1>2. Others
  BY <1>1 DEF Others, Grown, IInv, Formed
<1>3. Formed'
  BY <1>1, Idle DEF IInv, Formed
<1>4. \A o \in Threads : TurnInv(o)'
  BY <1>1, Idle DEF TurnInv, Placed, Own, Clean, Scoped
<1>5. \A e \in entries' \cup saved' : EntryInv(e)'
  BY <1>1, <1>2, EntryStays DEF IInv, Formed
<1>6. SentInv'
  BY <1>1 DEF SentInv
<1> QED
  BY <1>3, <1>4, <1>5, <1>6 DEF IInv

-----------------------------------------------------------------------------

LEMMA InitInv == ASSUME Init PROVE IInv
<1>1. Formed
  <2>1. IsMap([v \in Values |-> 0])
    <3> DEFINE tok == [v \in Values |-> 0]
    <3>1. {v \in Values : tok[v] # 0} = {} /\ Range(tok) \ {0} = {}
      BY DEF Range
    <3>2. Cardinality({}) = 0
      BY FS_EmptySet
    <3> QED
      BY <3>1, <3>2 DEF IsMap
  <2>2. Cardinality(Values) \in Nat
    BY FS_CardinalityType, ConstantsAssumption DEF ConstantsAssumption
  <2>3. token \in Maps
    BY <2>1, <2>2 DEF Init, Maps, Numbers
  <2> QED
    BY <2>3, Idle, ConstantsAssumption DEF Init, Formed, ConstantsAssumption
<1>2. \A th \in Threads : TurnInv(th)
  BY Idle DEF Init, TurnInv, Placed, Own, Clean, Scoped
<1> QED
  BY <1>1, <1>2 DEF Init, IInv, SentInv

LEMMA NextInv == ASSUME IInv, [Next]_vars PROVE IInv'
<1>1. CASE UNCHANGED vars
  <2>1. UNCHANGED <<setup, token, life, sent, shown, entries, saved, turn, hist, had, wrote>>
    BY <1>1 DEF vars
  <2>2. Formed' /\ SentInv' /\ \A e \in entries' \cup saved' : EntryInv(e)'
    BY <2>1 DEF IInv, Formed, SentInv, EntryInv, Stands, TokenOf
  <2>3. Others
    BY <2>1 DEF Others, Grown, IInv, Formed
  <2>4. \A o \in Threads : TurnInv(o)'
    BY <2>1, <2>3, TurnStays
  <2> QED
    BY <2>2, <2>4 DEF IInv
<1>2. CASE Flip
  BY <1>2, FlipInv
<1>3. CASE Restart
  BY <1>3, RestartInv
<1>4. ASSUME NEW th \in Threads, NEW s \in Sessions, Middleware(th, s) \/ Auxiliary(th, s) PROVE IInv'
  BY <1>4, RequestInv DEF Middleware, Auxiliary
<1>5. ASSUME NEW th \in Threads, NEW x \in turn[th].todo, Walk(th, x) PROVE IInv'
  BY <1>5, WalkInv
<1>6. ASSUME NEW th \in Threads,
             \/ Look(th) \/ Remember(th) \/ Send(th) \/ Fail(th)
             \/ Restore(th) \/ RestoreFails(th)
      PROVE  IInv'
  BY <1>6, LookInv, RememberInv, SendInv, FailInv, RestoreInv, RestoreFailsInv
<1>7. ASSUME NEW th \in Threads, NEW r \in Replies, Reply(th, r) PROVE IInv'
  BY <1>7, ReplyInv
<1> QED
  BY <1>1, <1>2, <1>3, <1>4, <1>5, <1>6, <1>7 DEF Next

LEMMA Invariance == Spec => []IInv
<1>1. Init => IInv
  BY InitInv
<1>2. IInv /\ [Next]_vars => IInv'
  BY NextInv
<1> QED
  BY <1>1, <1>2, PTL DEF Spec

\* The scope of a turn gives back its own session's values only, for any number of threads
\* and sessions (hermes_live.py:311-315).
THEOREM ScopeIsOwn == Spec => []OnlyOwnValues
<1>1. IInv => OnlyOwnValues
  <2> SUFFICES ASSUME IInv, life = 1, NEW th \in Threads, turn[th].how \notin {None, "passed", "refused"}
               PROVE  LET t == turn[th]
                      IN  /\ t.back # None => t.back.reals \ t.reply.reals \subseteq had[t.session]
                          /\ \A r \in Replies, scope \in {ScopeOf(th), {}} :
                               RestoredById(th, r, scope).reals \ r.reals \subseteq had[t.session]
    BY DEF OnlyOwnValues
  <2>1. PICK t \in TurnType : t = turn[th]
    BY DEF IInv, Formed
  <2>2. TurnInv(th) /\ Formed /\ SentInv /\ t.stage # "idle" /\ t.session \in Sessions
    BY <2>1 DEF IInv, TurnInv, Placed
  <2>3. \A n \in ScopeOf(th) \ {0} : TokenOf(n, had[t.session])
    BY <2>1, <2>2 DEF TurnInv, Scoped
  <2>4. t.back # None => t.back.reals \ t.reply.reals \subseteq had[t.session]
    BY <2>1, <2>2 DEF TurnInv, Scoped
  <2>5. ASSUME NEW r \in Replies, NEW scope \in {ScopeOf(th), {}}
        PROVE  RestoredById(th, r, scope).reals \ r.reals \subseteq had[t.session]
    <3> DEFINE allowed == IF sent[t.session] # None THEN sent[t.session] ELSE scope
               back == Restored(r, token, allowed)
    <3>1. \A n \in allowed \ {0} : TokenOf(n, had[t.session])
      BY <2>2, <2>3 DEF SentInv
    <3>2. RestoredById(th, r, scope) = back
      BY <2>1 DEF RestoredById
    <3> HIDE DEF allowed
    <3>3. \A v \in back.reals : v \in r.reals \/ (v \in Values /\ token[v] \in allowed \ {0})
      BY <2>2, RestoredStands, ConstantsAssumption DEF Formed, ConstantsAssumption
    <3> HIDE DEF back
    <3>4. ASSUME NEW v \in back.reals \ r.reals PROVE v \in had[t.session]
      <4>1. v \in Values /\ token[v] \in allowed \ {0}
        BY <3>3
      <4>2. PICK w \in had[t.session] : token[w] = token[v]
        BY <3>1, <4>1 DEF TokenOf
      <4>3. w \in Values /\ token \in Maps
        BY <2>2 DEF Formed
      <4>4. v = w
        BY <4>1, <4>2, <4>3, MapsInjective
      <4> QED
        BY <4>4
    <3> QED
      BY <3>2, <3>4
  <2> QED
    BY <2>1, <2>4, <2>5
<1> QED
  BY <1>1, Invariance, PTL

\* A reply gets its own values back while the lifetime lasts (hermes_live.py:604-641).
THEOREM ReplyGetsItsValues == Spec => []OwnValuesReturn
<1>1. IInv => OwnValuesReturn
  BY DEF IInv, TurnInv, Placed, Own, OwnValuesReturn
<1> QED
  BY <1>1, Invariance, PTL

\* What is sent stands for what was to be sent, from the replay cache too (replay.py:15-28).
THEOREM WhatIsSentStands == Spec => []SentStands
<1>1. IInv => SentStands
  <2> SUFFICES ASSUME IInv, NEW th \in Threads, turn[th].stage \in {"check", "wait"}, turn[th].asked = life,
                      NEW p \in turn[th].pairs
               PROVE  /\ p[1].reals \subseteq Restored(p[2], token, Numbers).reals
                      /\ \A v \in Values : token[v] \in p[2].toks \ p[1].toks => v \in p[1].reals
    BY DEF SentStands
  <2>1. p \in Text \X Text
    BY DEF IInv, Formed, TurnType
  <2>2. PICK x \in Text, out \in Text : x = p[1] /\ out = p[2]
    BY <2>1
  <2>3. Stands(x, out) /\ token \in Maps
    BY <2>2 DEF IInv, Formed, TurnInv, Own
  <2>4. x.reals \subseteq Values /\ out.toks \subseteq Numbers \ {0}
    BY DEF Text
  <2>5. x.reals \subseteq Restored(out, token, Numbers).reals
    BY <2>3, <2>4 DEF Stands, Restored
  <2>6. \A v \in Values : token[v] \in out.toks \ x.toks => v \in x.reals
    BY <2>3, <2>4, MapsInjective DEF Stands, TokenOf
  <2> QED
    BY <2>2, <2>5, <2>6
<1> QED
  BY <1>1, Invariance, PTL

\* What leaves in enforce holds nothing in clear but the model's own words
\* (hermes_live.py:441-486).
THEOREM NothingLeavesInClear == Spec => []NothingInClear
<1>1. IInv => NothingInClear
  BY DEF IInv, TurnInv, Clean, NothingInClear
<1> QED
  BY <1>1, Invariance, PTL

-----------------------------------------------------------------------------
(* The bounds: of what is remembered of the sessions, of the replay cache  *)
(* and of its file, which hold one entry for a text.                       *)

Remembering == {s \in Sessions : sent[s] # None}

OneForEach(cache) == \A e1, e2 \in cache : e1.restored = e2.restored => e1 = e2

Bounded(cache) == IsFiniteSet(cache) /\ Cardinality(cache) <= ReplayMax /\ OneForEach(cache)

Bounds ==
  /\ mode \in Modes /\ life <= MaxLives
  /\ IsFiniteSet(Remembering) /\ Cardinality(Remembering) <= MaxSent
  /\ Bounded(entries) /\ Bounded(saved)

LEMMA CutBounded ==
  ASSUME NEW all, IsFiniteSet(all), OneForEach(all), NEW new, NEW kept \in Cut(all, new)
  PROVE  Bounded(kept)
<1>1. kept \subseteq all /\ ReplayMax \in Nat
  BY ConstantsAssumption DEF Cut, ConstantsAssumption
<1>2. IsFiniteSet(kept) /\ Cardinality(all) \in Nat
  BY <1>1, FS_Subset, FS_CardinalityType
<1>3. Cardinality(kept) <= ReplayMax
  BY <1>1, <1>2 DEF Cut
<1> QED
  BY <1>1, <1>2, <1>3 DEF Bounded, OneForEach

LEMMA RememberedBounded ==
  ASSUME Bounded(entries), NEW e, NEW new \in {{}, {e}}, NEW kept \in Remembered(new)
  PROVE  Bounded(kept)
<1> DEFINE rest == {o \in entries : \A n \in new : o.restored # n.restored}
<1>1. IsFiniteSet(rest \cup new)
  <2>1. IsFiniteSet(rest) /\ IsFiniteSet(rest \cup {e})
    BY FS_Subset, FS_AddElement DEF Bounded
  <2>2. rest \cup new \in {rest, rest \cup {e}}
    OBVIOUS
  <2> HIDE DEF rest
  <2> QED
    BY <2>1, <2>2
<1>2. OneForEach(rest \cup new)
  BY DEF Bounded, OneForEach
<1> QED
  BY <1>1, <1>2, CutBounded DEF Remembered

\* The file's entries come next to ours only for texts that we have none for.
LEMMA SavedBounded ==
  ASSUME Bounded(saved), NEW kept, Bounded(kept), NEW new, NEW gen, NEW all \in SavedAs(kept, new, gen)
  PROVE  Bounded(all)
<1> DEFINE old == {e \in saved : \A k \in kept : k.restored # e.restored}
           left == {e \in kept \cup old : e.gen = gen}
<1>1. IsFiniteSet(left)
  <2>1. IsFiniteSet(old)
    BY FS_Subset DEF Bounded
  <2>2. IsFiniteSet(kept \cup old)
    BY <2>1, FS_Union DEF Bounded
  <2> QED
    BY <2>2, FS_Subset
<1>2. OneForEach(left)
  BY DEF Bounded, OneForEach
<1> QED
  BY <1>1, <1>2, CutBounded DEF SavedAs

\* The entry of a session is made, and of the others so many are left that the bound is kept.
LEMMA RememberBounds == ASSUME IInv, Bounds, NEW th \in Threads, Remember(th) PROVE Bounds'
<1> DEFINE s == turn[th].session
           others == {o \in Sessions \ {s} : sent[o] # None}
           all == (IF sent[s] = None THEN {} ELSE sent[s]) \cup turn[th].minted
<1>1. PICK kept \in SUBSET others :
        /\ IF sent[s] # None \/ Cardinality(others) < MaxSent THEN kept = others
           ELSE Cardinality(kept) = MaxSent - 1
        /\ sent' = [o \in Sessions |-> IF o = s THEN all ELSE IF o \in kept THEN sent[o] ELSE None]
  BY DEF Remember
<1>2. s \in Sessions /\ MaxSent \in Nat /\ None \notin SUBSET Numbers
  BY ConstantsAssumption DEF IInv, TurnInv, Placed, Remember, ConstantsAssumption
<1>3. all \in SUBSET Numbers
  BY <1>2 DEF IInv, Formed, TurnType
<1>4. (Remembering)' = kept \cup {s} /\ s \notin kept
  BY <1>1, <1>2, <1>3 DEF Remembering
<1>5. IsFiniteSet(others) /\ IsFiniteSet(kept) /\ Cardinality(others) \in Nat
  BY FS_Subset, FS_CardinalityType DEF Bounds, Remembering
<1>6. IsFiniteSet((Remembering)') /\ Cardinality((Remembering)') = Cardinality(kept) + 1
  BY <1>4, <1>5, FS_AddElement
<1>7. Cardinality((Remembering)') <= MaxSent
  <2>1. CASE sent[s] # None
    <3>1. kept \cup {s} = Remembering
      BY <1>1, <1>2, <2>1 DEF Remembering
    <3> QED
      BY <1>4, <3>1 DEF Bounds
  <2>2. CASE sent[s] = None
    <3>1. Cardinality(kept) <= MaxSent - 1
      BY <1>1, <1>2, <1>5, <2>2
    <3>2. Cardinality(kept) \in Nat
      BY <1>5, FS_CardinalityType
    <3> QED
      BY <1>2, <1>6, <3>1, <3>2
  <2> QED
    BY <2>1, <2>2
<1>8. UNCHANGED <<mode, life, entries, saved>>
  BY DEF Remember, env, vault, replay
<1> QED
  BY <1>6, <1>7, <1>8 DEF Bounds, Bounded, OneForEach

LEMMA RestoreBounds == ASSUME IInv, Bounds, NEW th \in Threads, Restore(th) PROVE Bounds'
<1>1. UNCHANGED <<mode, life, sent>>
  BY DEF Restore, env, vault
<1>2. Bounded(entries)' /\ Bounded(saved)'
  <2> DEFINE back == Restored(turn[th].reply, token, ScopeOf(th))
             e == [restored |-> back, gen |-> turn[th].gen, model |-> turn[th].reply]
  <2>1. PICK new \in {{}, {e}} : \E kept \in Remembered(new) :
            \/ entries' = kept /\ UNCHANGED saved
            \/ \E gen : \E all \in SavedAs(kept, new, gen) : entries' = all /\ saved' = all
    BY DEF Restore
  <2> HIDE DEF e
  <2>2. PICK kept \in Remembered(new) :
            \/ entries' = kept /\ UNCHANGED saved
            \/ \E gen : \E all \in SavedAs(kept, new, gen) : entries' = all /\ saved' = all
    BY <2>1
  <2>3. Bounded(kept)
    BY RememberedBounded DEF Bounds
  <2> QED
    BY <2>2, <2>3, SavedBounded DEF Bounds, Bounded, OneForEach
<1> QED
  BY <1>1, <1>2 DEF Bounds, Remembering

LEMMA InitBounds == ASSUME Init PROVE Bounds
<1>1. Remembering = {} /\ entries = {} /\ saved = {} /\ life = 1 /\ mode \in Modes
  BY DEF Init, Remembering, ModeOf, Files, Modes
<1>2. IsFiniteSet({}) /\ Cardinality({}) = 0
  BY FS_EmptySet
<1> QED
  BY <1>1, <1>2, ConstantsAssumption DEF Bounds, Bounded, OneForEach, ConstantsAssumption

LEMMA NextBounds == ASSUME IInv, Bounds, [Next]_vars PROVE Bounds'
<1>1. ASSUME UNCHANGED <<mode, life, sent, entries, saved>> PROVE Bounds'
  BY <1>1 DEF Bounds, Bounded, OneForEach, Remembering
<1>2. CASE UNCHANGED vars
  BY <1>1, <1>2 DEF vars
<1>3. CASE Flip
  <2>1. mode' \in Modes /\ UNCHANGED <<life, sent, entries, saved>>
    BY <1>3 DEF Flip, ModeOf, Files, Modes, vault, replay
  <2> QED
    BY <2>1 DEF Bounds, Bounded, OneForEach, Remembering
<1>4. CASE Restart
  <2>1. (Remembering)' = {} /\ entries' = saved /\ UNCHANGED <<mode, life, saved>>
    BY <1>4 DEF Restart, vault, Remembering
  <2> QED
    BY <2>1, FS_EmptySet, ConstantsAssumption DEF Bounds, Bounded, OneForEach, ConstantsAssumption
<1>5. ASSUME NEW th \in Threads, Look(th) PROVE Bounds'
  <2>1. life' <= MaxLives /\ UNCHANGED <<mode, sent, entries, saved>>
    BY <1>5, ConstantsAssumption DEF Look, fixed, replay, Bounds, IInv, Formed, ConstantsAssumption
  <2> QED
    BY <2>1 DEF Bounds, Bounded, OneForEach, Remembering
<1>6. ASSUME NEW th \in Threads, Remember(th) \/ Restore(th) PROVE Bounds'
  BY <1>6, RememberBounds, RestoreBounds
<1>7. ASSUME NEW th \in Threads, Send(th) \/ Fail(th) \/ RestoreFails(th) PROVE Bounds'
  BY <1>1, <1>7 DEF Send, Fail, RestoreFails, env, vault, replay
<1>8. ASSUME NEW th \in Threads, NEW s \in Sessions, Middleware(th, s) \/ Auxiliary(th, s) PROVE Bounds'
  <2>1. ASSUME NEW aux, NEW refused, Request(th, s, aux, refused) PROVE Bounds'
    <3>1. UNCHANGED <<mode, life, sent, entries, saved>>
      BY <2>1 DEF Request, vault, replay
    <3> QED
      BY <1>1, <3>1
  <2> QED
    BY <1>8, <2>1 DEF Middleware, Auxiliary
<1>9. ASSUME NEW th \in Threads, NEW x \in turn[th].todo, Walk(th, x) PROVE Bounds'
  BY <1>1, <1>9 DEF Walk, env, replay
<1>10. ASSUME NEW th \in Threads, NEW r \in Replies, Reply(th, r) PROVE Bounds'
  BY <1>1, <1>10 DEF Reply, env, vault, replay
<1> QED
  BY <1>2, <1>3, <1>4, <1>5, <1>6, <1>7, <1>8, <1>9, <1>10 DEF Next

\* The replay cache, its file and the sessions that are remembered stay within their bounds,
\* whatever the saves of the threads merge, and a text keeps one entry (hermes_live.py:337-350,
\* replay.py:85-135).
THEOREM LiveTypeCorrect == Spec => []TypeOK
<1>1. Init => Bounds
  BY InitBounds
<1>2. IInv /\ Bounds /\ [Next]_vars => Bounds'
  BY NextBounds
<1>3. IInv /\ Bounds => TypeOK
  <2> SUFFICES ASSUME IInv, Bounds PROVE TypeOK
    OBVIOUS
  <2>1. life \in 1 .. MaxLives
    BY ConstantsAssumption DEF IInv, Formed, Bounds, ConstantsAssumption
  <2>2. entries \cup saved \subseteq Entry
    <3> SUFFICES ASSUME NEW e \in entries \cup saved PROVE e \in Entry
      OBVIOUS
    <3>1. e \in EntryType /\ e.gen \in 1 .. MaxLives
      BY <2>1, ConstantsAssumption DEF IInv, Formed, EntryInv, ConstantsAssumption
    <3> QED
      BY <3>1 DEF EntryType, Entry
  <2> QED
    BY <2>1, <2>2 DEF TypeOK, IInv, Formed, Bounds, Bounded, OneForEach, Remembering
<1> QED
  BY <1>1, <1>2, <1>3, Invariance, PTL DEF Spec

================================================================================
