----------------------------- MODULE EnginesProofs ----------------------------
(***************************************************************************)
(* The parts of the program beside an engine's cache, for any number of    *)
(* threads, sessions, files, transports, hosts, bodies and tokens.         *)
(***************************************************************************)
EXTENDS Engines, FiniteSetTheorems, TLAPS

\* A step of the whole is a step of one part; the others stand still.
LEMMA PartsStep ==
  ASSUME [EnginesNext]_allVars
  PROVE  /\ [E!Next]_(E!vars)
         /\ [R!Next]_(R!vars)
         /\ [G!Next]_(G!vars)
         /\ [A!Next]_(A!vars)
<1>1. [E!Next]_(E!vars)
  BY DEF EnginesNext, allVars, engines, E!vars
<1>2. [R!Next]_(R!vars)
  BY DEF EnginesNext, allVars, plugin, R!vars
<1>3. [G!Next]_(G!vars)
  BY DEF EnginesNext, allVars, post, G!vars
<1>4. [A!Next]_(A!vars)
  BY DEF EnginesNext, allVars, audit, A!vars
<1> QED
  BY <1>1, <1>2, <1>3, <1>4

-----------------------------------------------------------------------------
(* EgressSend.                                                             *)

Place == [at : STRING, text : [reals : SUBSET Values, toks : SUBSET Tokens]]

\* What has been looked at and still holds a token has been reported.
SendInv ==
  /\ body \subseteq Place /\ todo \subseteq Place
  /\ vault \in G!Vaults
  /\ stage \in {"restore", "sent"} =>
       \A p \in body \ todo : p.at \in G!Opened /\ p.text.toks # {} => reported
  /\ stage \in {"idle", "sent"} => todo = {}

LEMMA SendInit == EnginesInit => SendInv
BY DEF EnginesInit, G!Init, SendInv, G!Vaults

LEMMA SendNext == ASSUME SendInv, [G!Next]_(G!vars) PROVE SendInv'
<1>1. ASSUME NEW h \in Hosts, NEW x \in BOOLEAN, NEW b \in Bodies,
             G!Post([host |-> h, ambiguous |-> x], b)
      PROVE  SendInv'
  BY <1>1, PartsAssumption DEF SendInv, G!Post, Place, G!Opened, G!Seen
<1>2. ASSUME NEW p \in todo, G!RestoreAt(p) PROVE SendInv'
  <2> DEFINE q == [p EXCEPT !.text = G!Restored(@)]
  <2>1. p \in Place
    BY DEF SendInv
  <2>2. G!Restored(p.text) \in [reals : SUBSET Values, toks : SUBSET Tokens]
    BY <2>1 DEF G!Restored, Place, SendInv, G!Vaults
  <2>3. q \in Place /\ q.text = G!Restored(p.text)
    BY <2>1, <2>2 DEF Place
  <2>4. CASE p.at \in G!Opened /\ p.text.toks # {}
    <3>1. body' = (body \ {p}) \cup {q} /\ reported' = (reported \/ G!Leftover(p.text))
      BY <1>2, <2>4 DEF G!RestoreAt
    <3>2. q.text.toks # {} => reported'
      BY <3>1, <2>3 DEF G!Leftover
    <3> HIDE DEF q
    <3> QED
      BY <1>2, <2>3, <3>1, <3>2 DEF SendInv, G!RestoreAt
  <2>5. CASE ~(p.at \in G!Opened /\ p.text.toks # {})
    BY <1>2, <2>5 DEF SendInv, G!RestoreAt
  <2> QED
    BY <2>4, <2>5
<1>3. CASE G!Send \/ G!Done
  BY <1>3 DEF SendInv, G!Send, G!Done
<1>4. CASE G!Mint
  BY <1>4 DEF SendInv, G!Mint, G!Move, G!Vaults
<1>5. CASE G!NewLife \/ G!EditHosts
  BY <1>5 DEF SendInv, G!NewLife, G!EditHosts, G!Move, G!Vaults
<1>6. CASE UNCHANGED G!vars
  BY <1>6 DEF SendInv, G!vars
<1> QED
  BY <1>1, <1>2, <1>3, <1>4, <1>5, <1>6 DEF G!Next

\* A token that leaves in a place where the net restores tokens is in the audit log, whatever
\* becomes of the vault and of the list of hosts meanwhile (egress.py 82-126).
THEOREM TokensAreReported == EnginesSpec => []NeverSilently
<1>1. SendInv /\ [EnginesNext]_allVars => SendInv'
  BY PartsStep, SendNext
<1>2. SendInv => NeverSilently
  BY DEF SendInv, NeverSilently, G!NeverSilently
<1> QED
  BY <1>1, <1>2, SendInit, PTL DEF EnginesSpec

-----------------------------------------------------------------------------
(* Registration.                                                           *)

LEMMA MroType ==
  ASSUME NEW c \in Classes
  PROVE  /\ Len(Mro[c]) \in Nat \ {0} /\ DOMAIN Mro[c] = 1 .. Len(Mro[c]) /\ Mro[c][1] = c
         /\ \A i \in 1 .. Len(Mro[c]) : Mro[c][i] \in Classes
<1>1. Mro[c] \in Seq(Classes) /\ Len(Mro[c]) > 0 /\ Mro[c][1] = c
  BY PartsAssumption
<1> QED
  BY <1>1

\* A class has one method at most: of two owners, each would come before the other.
MethodIsOne ==
  \A c \in Classes : \A i \in R!Owner(c) : R!Restores(c) = layers[Mro[c][i]]

LEMMA OneOwner == MethodIsOne
<1> SUFFICES ASSUME NEW c \in Classes, NEW i \in R!Owner(c)
             PROVE  R!Restores(c) = layers[Mro[c][i]]
  BY DEF MethodIsOne
<1>1. ASSUME NEW j \in R!Owner(c) PROVE j = i
  <2>1. i \in 1 .. Len(Mro[c]) /\ j \in 1 .. Len(Mro[c])
    BY MroType DEF R!Owner
  <2> QED
    BY <2>1 DEF R!Owner
<1>2. (CHOOSE j \in R!Owner(c) : TRUE) = i
  BY <1>1
<1> QED
  BY <1>2 DEF R!Restores

\* Restored once, or without a method that could be.
Whole(c) == R!Restores(c) \in {-1, 1}

Layered == layers \in [Classes -> {0, 1}]

LEMMA RestoresType == ASSUME Layered, NEW c \in Classes PROVE R!Restores(c) \in {-1, 0, 1}
<1>1. CASE R!Owner(c) = {}
  BY <1>1 DEF R!Restores
<1>2. ASSUME NEW i \in R!Owner(c) PROVE R!Restores(c) \in {0, 1}
  <2>1. Mro[c][i] \in Classes
    BY MroType DEF R!Owner
  <2> QED
    BY <2>1, OneOwner DEF Layered, MethodIsOne
<1> QED
  BY <1>1, <1>2

\* To wrap one class makes it whole, and no other one less so, whatever inherits from it.
LEMMA WrapMakesWhole ==
  ASSUME Layered, NEW c \in Classes, layers' = R!Wrapped(c)
  PROVE  /\ Layered'
         /\ Whole(c)'
         /\ \A d \in Classes : Whole(d) => Whole(d)'
<1>1. CASE R!Restores(c) # 0
  <2>1. UNCHANGED layers
    BY <1>1, RestoresType DEF R!Wrapped, R!Marked
  <2>2. \A d \in Classes : UNCHANGED R!Restores(d)
    BY <2>1 DEF R!Restores, R!Owner, R!Has
  <2> QED
    BY <1>1, <2>1, <2>2, RestoresType DEF Layered, Whole
<1> MethodIsOne'
  BY OneOwner, PTL
<1>2. CASE R!Restores(c) = 0
  <2>1. layers' = [layers EXCEPT ![c] = 1]
    BY <1>2 DEF R!Wrapped, R!Marked
  <2>2. layers'[c] = 1 /\ \A d \in Classes \ {c} : layers'[d] = layers[d]
    BY <2>1 DEF Layered
  <2>3. Layered'
    BY <2>1 DEF Layered
  <2>4. R!Has(c)' /\ \A d \in Classes : (R!Has(d) => R!Has(d)') /\ (R!Has(d)' /\ d # c => R!Has(d))
    BY <2>2 DEF R!Has, Layered
  <2>5. Whole(c)'
    <3>1. 1 \in R!Owner(c)'
      BY <2>4, MroType DEF R!Owner
    <3>2. R!Restores(c)' = layers'[Mro[c][1]]
      BY <3>1 DEF MethodIsOne
    <3> QED
      BY <3>2, <2>2, MroType DEF Whole
  <2>6. ASSUME NEW d \in Classes, Whole(d) PROVE Whole(d)'
    <3>1. CASE R!Owner(d)' = {}
      BY <3>1 DEF Whole, R!Restores
    <3>2. ASSUME NEW i \in R!Owner(d)' PROVE Whole(d)'
      <4>1. R!Restores(d)' = layers'[Mro[d][i]]
        BY <3>2 DEF MethodIsOne
      <4>2. /\ i \in 1 .. Len(Mro[d]) /\ Mro[d][i] \in Classes
            /\ \A j \in 1 .. i - 1 : Mro[d][j] \in Classes
        BY MroType DEF R!Owner
      <4>3. CASE Mro[d][i] = c
        BY <4>1, <4>3, <2>2 DEF Whole
      <4>4. CASE Mro[d][i] # c
        <5>1. i \in R!Owner(d)
          BY <4>2, <4>4, <2>4 DEF R!Owner
        <5>2. R!Restores(d) = layers[Mro[d][i]]
          BY <5>1, OneOwner DEF MethodIsOne
        <5>3. layers'[Mro[d][i]] = layers[Mro[d][i]]
          BY <4>2, <4>4, <2>2
        <5> QED
          BY <4>1, <5>2, <5>3, <2>6 DEF Whole
      <4> QED
        BY <4>3, <4>4
    <3> QED
      BY <3>1, <3>2
  <2> QED
    BY <2>3, <2>5, <2>6
<1> QED
  BY <1>1, <1>2

Places == {"idle", "lock", "wrap", "stream", "aux", "test", "clear", "update"}

RegisterFormed ==
  /\ Layered /\ stream \in {0, 1} /\ aux \in {0, 1} /\ calls \in Nat
  /\ registry \subseteq Classes
  /\ at \in [Threads -> Places]
  /\ left \in [Threads -> SUBSET Classes]
  /\ found \in [Threads -> SUBSET (R!Targets \cup {"self_test"})]
  /\ status \subseteq R!Targets

\* What is registered is whole behind the hook, and but for what is left before it.
WrapInv ==
  /\ hook => \A c \in registry \ missed : Whole(c)
  /\ \A th \in Threads : at[th] = "wrap" => \A c \in registry \ (missed \cup left[th]) : Whole(c)

\* Whoever has passed the auxiliary client has wrapped it or knows that it is not there, and
\* the last one to return has said so.
AuxInv ==
  /\ \A th \in Threads : at[th] \in {"test", "clear", "update"} => aux = 1 \/ "auxiliary" \in found[th]
  /\ R!Settled => aux = 1 \/ "auxiliary" \in degraded

RegisterInv == RegisterFormed /\ WrapInv /\ AuxInv

LEMMA RegisterInit == EnginesInit => RegisterInv
BY PartsAssumption
   DEF EnginesInit, R!Init, RegisterInv, RegisterFormed, WrapInv, AuxInv, Layered, Places, R!Settled

\* Registered before the hook is there, while another thread is wrapping what it has seen, a
\* class is missed; behind the hook it is wrapped on its way.
LEMMA LateInv == ASSUME RegisterInv, NEW c \in Classes, R!Late(c) PROVE RegisterInv'
<1>1. /\ Layered' /\ (hook => Whole(c)')
      /\ \A d \in Classes : Whole(d) => Whole(d)'
  <2>1. CASE hook
    BY <2>1, WrapMakesWhole DEF R!Late, RegisterInv, RegisterFormed
  <2>2. CASE ~hook
    <3>1. UNCHANGED layers
      BY <2>2 DEF R!Late
    <3>2. \A d \in Classes : UNCHANGED R!Restores(d)
      BY <3>1 DEF R!Restores, R!Owner, R!Has
    <3> QED
      BY <2>2, <3>1, <3>2 DEF RegisterInv, RegisterFormed, Layered, Whole
  <2> QED
    BY <2>1, <2>2
<1>2. RegisterFormed'
  BY <1>1 DEF R!Late, RegisterInv, RegisterFormed
<1>3. WrapInv'
  BY <1>1 DEF R!Late, RegisterInv, RegisterFormed, WrapInv
<1>4. AuxInv'
  BY DEF R!Late, RegisterInv, AuxInv, R!Settled
<1> QED
  BY <1>2, <1>3, <1>4 DEF RegisterInv

\* The methods are as they were.
LEMMA SameLayers ==
  ASSUME UNCHANGED layers PROVE \A c \in Classes : Whole(c)' <=> Whole(c)
<1>1. \A d \in Classes : UNCHANGED R!Restores(d)
  BY DEF R!Restores, R!Owner, R!Has
<1> QED
  BY <1>1 DEF Whole

LEMMA TransportsInv ==
  ASSUME RegisterInv, NEW th \in Threads, R!Register(th) \/ R!List(th) \/ R!Hook(th)
  PROVE  RegisterInv'
<1>1. UNCHANGED layers
  BY DEF R!Register, R!List, R!Hook, R!wraps
<1>2. \A c \in Classes : Whole(c)' <=> Whole(c)
  BY <1>1, SameLayers
<1>3. CASE R!Register(th)
  BY <1>1, <1>2, <1>3 DEF R!Register, R!Go, R!wraps, RegisterInv, RegisterFormed, WrapInv, AuxInv, Places,
     Layered, R!Settled
<1>4. CASE R!List(th)
  <2>1. RegisterFormed'
    BY <1>1, <1>4 DEF R!List, R!Go, R!wraps, RegisterInv, RegisterFormed, Places, Layered, R!Targets
  <2>2. WrapInv'
    BY <1>2, <1>4 DEF R!List, R!Go, R!wraps, RegisterInv, RegisterFormed, WrapInv, Places
  <2>3. AuxInv'
    BY <1>4 DEF R!List, R!Go, R!wraps, RegisterInv, RegisterFormed, AuxInv, R!Settled
  <2> QED
    BY <2>1, <2>2, <2>3 DEF RegisterInv
<1>5. CASE R!Hook(th)
  BY <1>1, <1>2, <1>5 DEF R!Hook, R!Go, R!wraps, RegisterInv, RegisterFormed, WrapInv, AuxInv, Places,
     Layered, R!Settled
<1> QED
  BY <1>3, <1>4, <1>5

LEMMA WrapStepInv == ASSUME RegisterInv, NEW th \in Threads, R!Wrap(th) PROVE RegisterInv'
<1> PICK c \in left[th] : layers' = R!Wrapped(c) /\ left' = [left EXCEPT ![th] = @ \ {c}]
  BY DEF R!Wrap
<1>1. c \in Classes
  BY DEF RegisterInv, RegisterFormed
<1>2. Layered' /\ Whole(c)' /\ \A d \in Classes : Whole(d) => Whole(d)'
  BY <1>1, WrapMakesWhole DEF RegisterInv, RegisterFormed
<1>3. RegisterFormed'
  BY <1>2 DEF R!Wrap, RegisterInv, RegisterFormed
<1>4. WrapInv'
  BY <1>2 DEF R!Wrap, RegisterInv, RegisterFormed, WrapInv
<1>5. AuxInv'
  BY DEF R!Wrap, RegisterInv, AuxInv, R!Settled
<1> QED
  BY <1>3, <1>4, <1>5 DEF RegisterInv

LEMMA OthersStepInv ==
  ASSUME RegisterInv, NEW th \in Threads,
         \/ R!Stream(th) \/ R!Auxiliary(th) \/ R!SelfTest(th) \/ R!Clear(th) \/ R!Update(th)
  PROVE  RegisterInv'
<1>1. /\ UNCHANGED <<layers, hook, registry, missed, left>>
      /\ \E where \in Places \ {"wrap"} : at' = [at EXCEPT ![th] = where]
  BY DEF R!Stream, R!Auxiliary, R!SelfTest, R!Clear, R!Update, R!Go, R!wraps, Places
<1>2. WrapInv'
  BY <1>1, SameLayers DEF RegisterInv, RegisterFormed, WrapInv
<1>3. RegisterFormed'
  <2>1. at' \in [Threads -> Places] /\ Layered' /\ UNCHANGED calls
    BY <1>1 DEF RegisterInv, RegisterFormed, Layered, R!Stream, R!Auxiliary, R!SelfTest, R!Clear, R!Update
  <2>2. stream' \in {0, 1} /\ aux' \in {0, 1} /\ status' \subseteq R!Targets
    BY DEF RegisterInv, RegisterFormed, R!Stream, R!Auxiliary, R!SelfTest, R!Clear, R!Update, R!wraps,
       R!Once, R!Noted, R!Targets
  <2>3. found' \in [Threads -> SUBSET (R!Targets \cup {"self_test"})]
    BY DEF RegisterInv, RegisterFormed, R!Stream, R!Auxiliary, R!SelfTest, R!Clear, R!Update,
       R!Noted, R!Targets
  <2> QED
    BY <1>1, <2>1, <2>2, <2>3 DEF RegisterInv, RegisterFormed
<1>4. AuxInv'
  <2>1. CASE R!Stream(th) \/ R!SelfTest(th) \/ R!Clear(th)
    BY <2>1 DEF R!Stream, R!SelfTest, R!Clear, R!Go, R!wraps, R!Settled, RegisterInv, RegisterFormed, AuxInv
  <2>2. CASE R!Auxiliary(th)
    BY <2>2 DEF R!Auxiliary, R!Go, R!Once, R!Noted, R!Settled, RegisterInv, RegisterFormed, AuxInv
  <2>3. CASE R!Update(th)
    BY <2>3 DEF R!Update, R!Go, R!Grave, R!wraps, R!Settled, RegisterInv, RegisterFormed, AuxInv
  <2> QED
    BY <2>1, <2>2, <2>3
<1> QED
  BY <1>2, <1>3, <1>4 DEF RegisterInv

LEMMA RegisterNext == ASSUME RegisterInv, [R!Next]_(R!vars) PROVE RegisterInv'
<1>1. CASE UNCHANGED R!vars
  BY <1>1, SameLayers DEF R!vars, RegisterInv, RegisterFormed, WrapInv, AuxInv, Layered, R!Settled
<1> QED
  BY <1>1, LateInv, TransportsInv, WrapStepInv, OthersStepInv DEF R!Next

\* Replies, streams and auxiliary calls are restored exactly once when every call of register
\* has returned, whatever the transports inherit from one another and however many threads
\* register the plugin (hermes_plugin/__init__.py 105-303).
THEOREM RegisteredOnce == EnginesSpec => []RestoredOnce
<1>1. RegisterInv /\ [EnginesNext]_allVars => RegisterInv'
  BY PartsStep, RegisterNext
<1>2. RegisterInv => RestoredOnce
  <2> SUFFICES ASSUME RegisterInv PROVE RestoredOnce
    OBVIOUS
  <2>1. \A c \in Classes : R!Restores(c) <= 1
    BY RestoresType DEF RegisterInv, RegisterFormed
  <2>2. hook => \A c \in registry \ missed : R!Restores(c) \in {-1, 1}
    BY DEF RegisterInv, WrapInv, Whole
  <2> QED
    BY <2>1, <2>2 DEF RegisterInv, RegisterFormed, AuxInv, RestoredOnce, R!RestoredOnce
<1> QED
  BY <1>1, <1>2, RegisterInit, PTL DEF EnginesSpec

-----------------------------------------------------------------------------
(* EnginePool.                                                             *)

Content == Nat \cup {None}
Signature == Seq(Nat)
Contented == Seq(Content)
EngineType == [sig : Signature, from : Contented]
Asking == Sessions \cup {None}
Given == EngineType \cup {None}
Stages == {"idle", "sig", "build", "given", "note"}
TaskType == [at : Stages, session : Asking, sig : Signature, from : Contented, since : Nat,
             given : Given]

FilesFormed ==
  /\ edits \in 1 .. MaxEdits + 1
  /\ config \in [Range(Files) -> [edit : 0 .. edits, loads : BOOLEAN]]
  /\ \A f \in Range(Files) : config[f] = E!Absent \/ config[f].edit # 0
  /\ good \in [E!KeepsGood -> 0 .. edits]

\* What was read after a signature was taken: of a file that is as the signature has it, what
\* it says; and of one that was not there nothing, unless it came meanwhile.
Sound(sig, from) ==
  \A i \in DOMAIN from :
    LET c == config[Files[i]] IN
    /\ sig[i] = 0 => from[i] = None \/ Files[i] \in came
    /\ sig[i] # 0 /\ sig[i] = c.edit => IF c.loads THEN from[i] = c.edit ELSE from[i] # None

Taken(sig) == \A i \in DOMAIN sig : sig[i] <= edits

EngineInv(e) ==
  e \in EngineType /\ Len(e.sig) = Len(Files) /\ Len(e.from) = Len(Files)
  /\ Taken(e.sig) /\ Sound(e.sig, e.from)

\* What a thread has not yet read of what it found absent is absent still, or came meanwhile.
Awaited(t) ==
  \A i \in DOMAIN t.sig \ DOMAIN t.from :
    t.sig[i] = 0 => config[Files[i]] = E!Absent \/ Files[i] \in came

\* Nothing has been edited since: the signature is that of the files now.
Current(t, sig) == t.since = edits => \A i \in DOMAIN sig : sig[i] = config[Files[i]].edit

TaskInv(t) ==
  /\ t \in TaskType /\ t.since <= edits
  /\ t.at \in {"sig", "build"} =>
       /\ t.session \in Sessions /\ Len(t.sig) <= Len(Files) /\ Len(t.from) <= Len(t.sig)
       /\ Taken(t.sig) /\ Sound(t.sig, t.from) /\ Awaited(t) /\ Current(t, t.sig)
  /\ t.at = "sig" => t.from = <<>>
  /\ t.at = "build" => Len(t.sig) = Len(Files)
  /\ t.at = "given" => EngineInv(t.given) /\ Current(t, t.given.sig)
  /\ t.at \in {"idle", "given"} => t.sig = <<>>
  /\ t.at = "note" => t.sig = <<>> /\ t.from[1] \in 1 .. edits

PoolFormed ==
  /\ FilesFormed
  /\ task \in [Threads -> TaskType] /\ \A th \in Threads : TaskInv(task[th])
  /\ engine \in [Sessions -> EngineType \cup {None}]
  /\ \A s \in Sessions : engine[s] # None => EngineInv(engine[s])

\* One thread at a time builds.
OneBuilder == \A th, o \in Threads : task[th].at = "build" /\ task[o].at = "build" => th = o

Guarded(e) == \A i \in DOMAIN Files :
  Files[i] \in E!KeepsGood /\ i \in DOMAIN e.from /\ e.from[i] \notin {0, None} => good[Files[i]] # 0

\* A file that was once read has a last good content; a builder that found neither the file in
\* order nor such a content has come before every engine that was built from it.
ProtectionInv ==
  /\ \A s \in Sessions : engine[s] # None => Guarded(engine[s])
  /\ \A th \in Threads : task[th].at = "build" =>
       /\ Guarded(task[th])
       /\ \A i \in DOMAIN task[th].from :
            Files[i] \in E!KeepsGood /\ task[th].from[i] = 0 =>
              \A s \in Sessions : engine[s] # None => engine[s].from[i] \in {0, None}

PoolInv == PoolFormed /\ OneBuilder /\ ProtectionInv

LEMMA FilesType ==
  /\ Len(Files) \in Nat /\ DOMAIN Files = 1 .. Len(Files)
  /\ \A i \in 1 .. Len(Files) : Files[i] \in Range(Files)
  /\ "profile" \in E!KeepsGood /\ E!KeepsGood \subseteq Range(Files)
  /\ MaxEdits \in Nat /\ \A n \in 0 .. MaxEdits + 1 : n # None
<1>1. /\ Files \in Seq({"profile", "gazetteer", "ner_url"}) /\ "profile" \in Range(Files)
      /\ MaxEdits \in Nat /\ \A n \in 0 .. MaxEdits + 1 : n # None
  BY PartsAssumption
<1>2. Len(Files) \in Nat /\ DOMAIN Files = 1 .. Len(Files)
  BY <1>1
<1>3. E!KeepsGood = Range(Files) \ {"ner_url"}
  BY DEF E!KeepsGood, E!Range, Range
<1> QED
  BY <1>1, <1>2, <1>3 DEF Range

\* A step that leaves the files alone leaves what is known about them.
LEMMA SameFiles ==
  ASSUME UNCHANGED <<config, edits, came>>
  PROVE  /\ \A t : TaskInv(t) => TaskInv(t)'
         /\ \A e : EngineInv(e) => EngineInv(e)'
BY DEF TaskInv, EngineInv, Taken, Sound, Awaited, Current

\* One thread goes on, and neither the files nor the engines change.
LEMMA TaskStep ==
  ASSUME PoolInv, UNCHANGED <<config, edits, came, good, engine>>,
         NEW th \in Threads, NEW u, task' = [task EXCEPT ![th] = u], TaskInv(u), u.at # "build"
  PROVE  PoolInv'
<1>1. u \in TaskType /\ TaskInv(u)'
  BY SameFiles DEF TaskInv
<1>2. task' \in [Threads -> TaskType] /\ task'[th] = u /\ \A o \in Threads \ {th} : task'[o] = task[o]
  BY <1>1 DEF PoolInv, PoolFormed
<1>3. PoolFormed'
  <2>1. \A o \in Threads : TaskInv(task[o])'
    BY <1>1, <1>2, SameFiles DEF PoolInv, PoolFormed
  <2>2. \A s \in Sessions : engine'[s] # None => EngineInv(engine[s])'
    BY SameFiles DEF PoolInv, PoolFormed
  <2> QED
    BY <1>2, <2>1, <2>2 DEF PoolInv, PoolFormed, FilesFormed
<1>4. OneBuilder'
  BY <1>2 DEF PoolInv, OneBuilder
<1>5. ProtectionInv'
  BY <1>2 DEF PoolInv, ProtectionInv, Guarded
<1> QED
  BY <1>3, <1>4, <1>5 DEF PoolInv

\* The records of threads.
LEMMA IdleType ==
  /\ E!Idle \in TaskType /\ E!Idle.at = "idle" /\ E!Idle.since = 0
  /\ E!Idle.sig = <<>> /\ E!Idle.from = <<>>
<1>1. <<>> \in Signature /\ <<>> \in Contented
  BY DEF Signature, Contented
<1>2. None \in Asking /\ None \in Given /\ "idle" \in Stages
  BY DEF Asking, Given, Stages
<1> QED
  BY <1>1, <1>2 DEF E!Idle, TaskType

Asks(s, n) == [E!Idle EXCEPT !.at = "sig", !.session = s, !.since = n]
Looked(t, seq) == [t EXCEPT !.sig = seq]
Went(t, where) == [t EXCEPT !.at = where]
Reads(t, seq) == [t EXCEPT !.from = seq]
Peeked(seq) == [E!Idle EXCEPT !.at = "note", !.from = seq]

LEMMA AskType ==
  ASSUME NEW s \in Asking, NEW n \in Nat
  PROVE  LET u == Asks(s, n) IN
         /\ u \in TaskType /\ u.at = "sig" /\ u.session = s /\ u.since = n
         /\ u.sig = <<>> /\ u.from = <<>>
<1>1. "sig" \in Stages
  BY DEF Stages
<1> HIDE DEF E!Idle
<1> QED
  BY <1>1, IdleType DEF Asks, TaskType

LEMMA LookType ==
  ASSUME NEW t \in TaskType, NEW seq \in Signature
  PROVE  LET u == Looked(t, seq) IN
         /\ u \in TaskType /\ u.sig = seq /\ u.at = t.at /\ u.session = t.session /\ u.from = t.from
         /\ u.since = t.since
BY DEF Looked, TaskType

LEMMA WentType ==
  ASSUME NEW t \in TaskType, NEW where \in Stages
  PROVE  LET u == Went(t, where) IN
         /\ u \in TaskType /\ u.at = where /\ u.sig = t.sig /\ u.session = t.session /\ u.from = t.from
         /\ u.since = t.since
BY DEF Went, TaskType

LEMMA ReadType ==
  ASSUME NEW t \in TaskType, NEW seq \in Contented
  PROVE  LET u == Reads(t, seq) IN
         /\ u \in TaskType /\ u.from = seq /\ u.at = t.at /\ u.session = t.session /\ u.sig = t.sig
         /\ u.since = t.since
BY DEF Reads, TaskType

LEMMA PeekType ==
  ASSUME NEW seq \in Contented
  PROVE  LET u == Peeked(seq) IN
         u \in TaskType /\ u.at = "note" /\ u.from = seq /\ u.sig = <<>> /\ u.since = 0
<1>1. "note" \in Stages
  BY DEF Stages
<1> HIDE DEF E!Idle
<1> QED
  BY <1>1, IdleType DEF Peeked, TaskType

LEMMA GivenType ==
  ASSUME NEW t \in TaskType, NEW e \in EngineType
  PROVE  LET u == E!Given(t, e) IN
         u \in TaskType /\ u.at = "given" /\ u.since = t.since /\ u.given = e /\ u.sig = <<>>
<1>1. "given" \in Stages /\ e \in Given /\ t.since \in Nat
  BY DEF Stages, Given, TaskType
<1> HIDE DEF E!Idle, EngineType
<1> QED
  BY <1>1, IdleType DEF E!Given, TaskType

LEMMA PoolInit == EnginesInit => PoolInv
<1> SUFFICES ASSUME EnginesInit PROVE PoolInv
  OBVIOUS
<1>1. E!Idle \in TaskType /\ E!Idle.at = "idle" /\ E!Idle.since = 0 /\ E!Idle.sig = <<>>
  BY IdleType
<1>2. FilesFormed
  <2>1. PICK c \in {E!Absent, [edit |-> 1, loads |-> TRUE]} : config = [f \in Range(Files) |-> c]
    BY DEF EnginesInit, E!Init, E!Range, Range
  <2>2. edits = 1 /\ good = [f \in E!KeepsGood |-> 0]
    BY DEF EnginesInit, E!Init
  <2>3. c \in [edit : 0 .. edits, loads : BOOLEAN] /\ (c = E!Absent \/ c.edit # 0)
    <3>1. E!Absent \in [edit : 0 .. 1, loads : BOOLEAN]
      BY DEF E!Absent
    <3>2. [edit |-> 1, loads |-> TRUE] \in [edit : 0 .. 1, loads : BOOLEAN]
      OBVIOUS
    <3>3. c \in [edit : 0 .. 1, loads : BOOLEAN]
      BY <3>1, <3>2
    <3>4. CASE c = [edit |-> 1, loads |-> TRUE]
      BY <2>2, <3>3, <3>4
    <3>5. CASE c = E!Absent
      BY <2>2, <3>3, <3>5
    <3> QED
      BY <3>4, <3>5
  <2> QED
    BY <2>1, <2>2, <2>3, FilesType DEF FilesFormed
<1>3. PoolFormed
  BY <1>1, <1>2 DEF EnginesInit, E!Init, PoolFormed, FilesFormed, TaskInv
<1>4. OneBuilder /\ ProtectionInv
  BY <1>1 DEF EnginesInit, E!Init, OneBuilder, ProtectionInv
<1> QED
  BY <1>3, <1>4 DEF PoolInv

LEMMA OneMore ==
  ASSUME NEW S, NEW seq \in Seq(S), NEW x \in S
  PROVE  /\ Append(seq, x) \in Seq(S) /\ Len(Append(seq, x)) = Len(seq) + 1
         /\ DOMAIN seq = 1 .. Len(seq) /\ DOMAIN Append(seq, x) = 1 .. Len(seq) + 1
         /\ Append(seq, x)[Len(seq) + 1] = x
         /\ \A i \in 1 .. Len(seq) : Append(seq, x)[i] = seq[i]
OBVIOUS

LEMMA BeginInv == ASSUME PoolInv, NEW th \in Threads, NEW s \in Sessions, E!Begin(th, s) PROVE PoolInv'
<1> DEFINE u == Asks(s, edits)
<1>1. edits \in Nat
  BY FilesType DEF PoolInv, PoolFormed, FilesFormed
<1>2. /\ u \in TaskType /\ u.at = "sig" /\ u.session = s /\ u.sig = <<>> /\ u.from = <<>>
      /\ u.since = edits
  BY <1>1, AskType DEF Asking
<1> HIDE DEF u
<1>3. TaskInv(u)
  BY <1>1, <1>2, FilesType DEF TaskInv, Taken, Sound, Awaited, Current
<1>4. task' = [task EXCEPT ![th] = u]
  BY DEF E!Begin, u, Asks
<1> QED
  BY <1>2, <1>3, <1>4, TaskStep DEF E!Begin

LEMMA StatInv == ASSUME PoolInv, NEW th \in Threads, E!Stat(th) PROVE PoolInv'
<1> PICK t \in TaskType : t = task[th] /\ TaskInv(t)
  BY DEF PoolInv, PoolFormed
<1> DEFINE n == Len(t.sig) + 1
           c == config[Files[n]]
           u == Looked(t, Append(t.sig, c.edit))
<1>1. t.at = "sig" /\ n \in 1 .. Len(Files) /\ t.sig \in Seq(Nat) /\ t.from = <<>>
  BY FilesType DEF E!Stat, TaskInv, TaskType, Signature
<1>2. task' = [task EXCEPT ![th] = u]
  BY DEF E!Stat, Looked
<1>3. c.edit \in 0 .. edits /\ (c.edit = 0 => c = E!Absent) /\ edits \in Nat
  BY <1>1, FilesType DEF PoolInv, PoolFormed, FilesFormed
<1>4. /\ u \in TaskType /\ u.at = "sig" /\ u.sig = Append(t.sig, c.edit) /\ u.from = <<>>
      /\ u.session = t.session /\ u.since = t.since
  <2>1. Append(t.sig, c.edit) \in Signature
    BY <1>1, <1>3 DEF Signature
  <2> QED
    BY <1>1, <2>1, LookType
<1> HIDE DEF u, c
<1>5. /\ Len(u.sig) = n /\ u.sig[n] = c.edit
      /\ \A i \in DOMAIN u.sig : i # n => i \in DOMAIN t.sig /\ u.sig[i] = t.sig[i]
  <2>1. Len(t.sig) \in Nat /\ c.edit \in Nat
    BY <1>1, <1>3
  <2> QED
    BY <1>1, <1>4, <2>1, OneMore
<1>6. Taken(u.sig) /\ Sound(u.sig, u.from)
  BY <1>1, <1>3, <1>4, <1>5 DEF TaskInv, Taken, Sound
<1>7. Awaited(u)
  BY <1>1, <1>3, <1>4, <1>5 DEF TaskInv, Awaited, c
<1>8. Current(u, u.sig)
  BY <1>1, <1>3, <1>4, <1>5 DEF TaskInv, Current, c
<1>9. TaskInv(u)
  BY <1>1, <1>4, <1>5, <1>6, <1>7, <1>8, FilesType DEF TaskInv
<1> QED
  BY <1>2, <1>4, <1>9, TaskStep DEF E!Stat

LEMMA FoundInv == ASSUME PoolInv, NEW th \in Threads, E!Found(th) PROVE PoolInv'
<1> PICK t \in TaskType : t = task[th] /\ TaskInv(t)
  BY DEF PoolInv, PoolFormed
<1> DEFINE e == engine[t.session]
           u == E!Given(t, e)
<1>1. t.at = "sig" /\ Len(t.sig) = Len(Files) /\ e # None /\ e.sig = t.sig /\ t.session \in Sessions
  BY DEF E!Found, E!Ready, E!InForce, TaskInv
<1>2. e \in EngineType /\ EngineInv(e)
  BY <1>1 DEF PoolInv, PoolFormed
<1>3. task' = [task EXCEPT ![th] = u]
  BY DEF E!Found
<1>4. u \in TaskType /\ u.at = "given" /\ u.since = t.since /\ u.given = e /\ u.sig = <<>>
  BY <1>2, GivenType
<1> HIDE DEF u, e
<1>5. TaskInv(u)
  BY <1>1, <1>2, <1>4 DEF TaskInv, Current
<1> QED
  BY <1>3, <1>4, <1>5, TaskStep DEF E!Found

\* The engines and what threads build from.
LEMMA EngineFields ==
  ASSUME NEW sig \in Signature, NEW from \in Contented
  PROVE  LET e == [sig |-> sig, from |-> from] IN e \in EngineType /\ e.sig = sig /\ e.from = from
BY DEF EngineType

LEMMA TaskSequences ==
  ASSUME NEW t \in TaskType
  PROVE  /\ t.sig \in Seq(Nat) /\ Len(t.sig) \in Nat /\ DOMAIN t.sig = 1 .. Len(t.sig)
         /\ t.from \in Seq(Content) /\ Len(t.from) \in Nat /\ DOMAIN t.from = 1 .. Len(t.from)
<1>1. t.sig \in Signature /\ t.from \in Contented
  BY DEF TaskType
<1> QED
  BY <1>1 DEF Signature, Contented

\* The lock is free: nobody else builds.
LEMMA MissInv == ASSUME PoolInv, NEW th \in Threads, E!Miss(th) PROVE PoolInv'
<1> PICK t \in TaskType : t = task[th] /\ TaskInv(t)
  BY DEF PoolInv, PoolFormed
<1> DEFINE u == Went(t, "build")
<1>1. task' = [task EXCEPT ![th] = u]
  BY DEF E!Miss, Went
<1>2. /\ u \in TaskType /\ u.at = "build" /\ u.sig = t.sig /\ u.from = t.from
      /\ u.session = t.session /\ u.since = t.since
  BY WentType DEF Stages
<1> HIDE DEF u
<1>3. t.at = "sig" /\ Len(t.sig) = Len(Files) /\ t.from = <<>>
  BY DEF E!Miss, E!Ready, TaskInv
<1>4. TaskInv(u)
  BY <1>2, <1>3 DEF TaskInv, Awaited, Current
<1>5. TaskInv(u)'
  BY <1>4, SameFiles DEF E!Miss
<1>6. task' \in [Threads -> TaskType] /\ task'[th] = u /\ \A o \in Threads \ {th} : task'[o] = task[o]
  BY <1>1, <1>2 DEF PoolInv, PoolFormed
<1>7. PoolFormed'
  <2>1. \A o \in Threads : TaskInv(task[o])'
    BY <1>5, <1>6, SameFiles DEF PoolInv, PoolFormed, E!Miss
  <2>2. \A s \in Sessions : engine'[s] # None => EngineInv(engine[s])'
    BY SameFiles DEF PoolInv, PoolFormed, E!Miss
  <2> QED
    BY <1>6, <2>1, <2>2 DEF PoolInv, PoolFormed, FilesFormed, E!Miss
<1>8. OneBuilder'
  BY <1>6 DEF PoolInv, OneBuilder, E!Miss, E!Ready, E!Locked
<1>9. ProtectionInv'
  BY <1>2, <1>3, <1>6 DEF PoolInv, ProtectionInv, Guarded, E!Miss
<1> QED
  BY <1>7, <1>8, <1>9 DEF PoolInv

\* What a reader gets of a file, and what is kept of it.
LEMMA LoadedType ==
  ASSUME FilesFormed, NEW f \in Range(Files)
  PROVE  /\ E!Loaded(f) \in Content
         /\ config[f] = E!Absent => E!Loaded(f) = None
         /\ config[f] # E!Absent => E!Loaded(f) # None /\ config[f].edit # 0
         /\ config[f].loads => E!Loaded(f) = config[f].edit /\ config[f].edit # 0
         /\ E!GoodAfter(f) \in [E!KeepsGood -> 0 .. edits]
         /\ \A g \in E!KeepsGood : good[g] # 0 => E!GoodAfter(f)[g] # 0
         /\ f \in E!KeepsGood /\ E!Loaded(f) \notin {0, None} => E!GoodAfter(f)[f] # 0
         /\ f \in E!KeepsGood /\ E!Loaded(f) = 0 => good[f] = 0
<1>1. /\ config[f].edit \in 0 .. edits /\ config[f].loads \in BOOLEAN
      /\ config[f] = E!Absent \/ config[f].edit # 0
      /\ 0 .. edits \subseteq 0 .. MaxEdits + 1 /\ 0 .. edits \subseteq Nat
  BY FilesType DEF FilesFormed
<1>2. f \in E!KeepsGood => good[f] \in 0 .. edits
  BY DEF FilesFormed
<1>3. config[f] = E!Absent => config[f].edit = 0 /\ ~config[f].loads
  BY DEF E!Absent
<1>4. \A n \in 0 .. edits : n # None
  BY <1>1, FilesType
<1>5. 0 # None /\ 0 \in Nat
  BY FilesType
<1>6. /\ config[f] = E!Absent => E!Loaded(f) = None
      /\ config[f] # E!Absent /\ config[f].loads => E!Loaded(f) = config[f].edit
      /\ config[f] # E!Absent /\ ~config[f].loads /\ f \in E!KeepsGood => E!Loaded(f) = good[f]
      /\ config[f] # E!Absent /\ ~config[f].loads /\ f \notin E!KeepsGood => E!Loaded(f) = 0
  BY DEF E!Loaded
<1>7. E!Loaded(f) \in Content
  BY <1>1, <1>2, <1>5, <1>6 DEF Content
<1>8. /\ E!GoodAfter(f) \in [E!KeepsGood -> 0 .. edits]
      /\ \A g \in E!KeepsGood : good[g] # 0 => E!GoodAfter(f)[g] # 0
      /\ f \in E!KeepsGood /\ config[f].loads => E!GoodAfter(f)[f] = config[f].edit
      /\ ~config[f].loads => E!GoodAfter(f) = good
  BY <1>1, <1>3 DEF E!GoodAfter, FilesFormed
<1> QED
  BY <1>1, <1>2, <1>3, <1>4, <1>5, <1>6, <1>7, <1>8

\* What is good stays good.
LEMMA GuardStays ==
  ASSUME \A g \in E!KeepsGood : good[g] # 0 => good'[g] # 0
  PROVE  \A e : Guarded(e) => Guarded(e)'
BY DEF Guarded

LEMMA LoadInv == ASSUME PoolInv, NEW th \in Threads, E!Load(th) PROVE PoolInv'
<1> PICK t \in TaskType : t = task[th] /\ TaskInv(t)
  BY DEF PoolInv, PoolFormed
<1> DEFINE n == Len(t.from) + 1
           f == Files[n]
<1>1. t.at = "build" /\ n \in 1 .. Len(Files) /\ f \in Range(Files)
  <2>1. t.at = "build" /\ Len(t.from) < Len(Files)
    BY DEF E!Load
  <2> QED
    BY <2>1, TaskSequences, FilesType
<1>3. FilesFormed
  BY DEF PoolInv, PoolFormed
<1>4. PICK x \in Content : x = E!Loaded(f)
  BY <1>1, <1>3, LoadedType
<1> DEFINE u == Reads(t, Append(t.from, x))
<1>2. task' = [task EXCEPT ![th] = u] /\ good' = E!GoodAfter(f) /\ UNCHANGED <<config, edits, engine, came>>
  BY <1>4 DEF E!Load, Reads
<1>5. Append(t.from, x) \in Contented
  BY <1>4, TaskSequences, OneMore DEF Contented
<1>6. /\ u \in TaskType /\ u.at = "build" /\ u.sig = t.sig /\ u.from = Append(t.from, x)
      /\ u.session = t.session /\ u.since = t.since
  BY <1>5, ReadType, <1>1
<1>7. /\ Len(u.from) = n /\ DOMAIN u.from = 1 .. n /\ u.from[n] = x
      /\ \A i \in 1 .. n : i # n => i \in DOMAIN t.from /\ u.from[i] = t.from[i]
      /\ DOMAIN t.from = 1 .. n - 1 /\ DOMAIN t.sig = 1 .. Len(Files)
  BY <1>1, <1>4, <1>6, TaskSequences, OneMore DEF TaskInv
<1> HIDE DEF u
<1>8. Sound(u.sig, u.from)
  <2> SUFFICES ASSUME NEW i \in DOMAIN u.from
               PROVE  LET c == config[Files[i]] IN
                      /\ t.sig[i] = 0 => u.from[i] = None \/ Files[i] \in came
                      /\ t.sig[i] # 0 /\ t.sig[i] = c.edit =>
                           IF c.loads THEN u.from[i] = c.edit ELSE u.from[i] # None
    BY <1>6 DEF Sound
  <2>1. CASE i # n
    BY <1>1, <1>7, <2>1 DEF TaskInv, Sound
  <2>2. CASE i = n
    <3>1. t.sig[n] = 0 => config[f] = E!Absent \/ f \in came
      BY <1>1, <1>7 DEF TaskInv, Awaited
    <3>2. config[f] = E!Absent => config[f].edit = 0
      BY DEF E!Absent
    <3> QED
      BY <1>1, <1>3, <1>4, <1>7, <2>2, <3>1, <3>2, LoadedType
  <2> QED
    BY <2>1, <2>2
<1>9. TaskInv(u)
  BY <1>1, <1>6, <1>7, <1>8 DEF TaskInv, Awaited, Current
<1>10. TaskInv(u)'
  BY <1>2, <1>9, SameFiles
<1>11. task' \in [Threads -> TaskType] /\ task'[th] = u /\ \A o \in Threads \ {th} : task'[o] = task[o]
  BY <1>2, <1>6 DEF PoolInv, PoolFormed
<1>12. PoolFormed'
  <2>1. \A o \in Threads : TaskInv(task[o])'
    BY <1>2, <1>10, <1>11, SameFiles DEF PoolInv, PoolFormed
  <2>2. \A s \in Sessions : engine'[s] # None => EngineInv(engine[s])'
    BY <1>2, SameFiles DEF PoolInv, PoolFormed
  <2>3. good' \in [E!KeepsGood -> 0 .. edits]
    BY <1>1, <1>2, <1>3, LoadedType
  <2> QED
    BY <1>2, <1>11, <2>1, <2>2, <2>3 DEF PoolInv, PoolFormed, FilesFormed
<1>13. OneBuilder'
  BY <1>1, <1>6, <1>11 DEF PoolInv, OneBuilder
<1>14. ProtectionInv'
  <2>1. \A g \in E!KeepsGood : good[g] # 0 => good'[g] # 0
    BY <1>1, <1>2, <1>3, LoadedType
  <2>2. \A s \in Sessions : engine'[s] # None => Guarded(engine[s])'
    BY <1>2, <2>1, GuardStays DEF PoolInv, ProtectionInv
  <2>3. Guarded(u)'
    <3> SUFFICES ASSUME NEW i \in DOMAIN Files, Files[i] \in E!KeepsGood, i \in DOMAIN u.from,
                        u.from[i] \notin {0, None}
                 PROVE  good'[Files[i]] # 0
      BY DEF Guarded
    <3>1. CASE i # n
      BY <1>1, <1>7, <2>1, <3>1 DEF PoolInv, ProtectionInv, Guarded
    <3>2. CASE i = n
      BY <1>1, <1>2, <1>3, <1>4, <1>7, <3>2, LoadedType
    <3> QED
      BY <3>1, <3>2
  <2>4. ASSUME NEW i \in DOMAIN u.from, Files[i] \in E!KeepsGood, u.from[i] = 0,
               NEW s \in Sessions, engine[s] # None
        PROVE  engine[s].from[i] \in {0, None}
    <3>1. CASE i # n
      BY <1>1, <1>7, <2>4, <3>1 DEF PoolInv, ProtectionInv
    <3>2. CASE i = n
      <4>1. good[f] = 0
        BY <1>1, <1>3, <1>4, <1>7, <2>4, <3>2, LoadedType
      <4>2. EngineInv(engine[s]) /\ Guarded(engine[s])
        BY <2>4 DEF PoolInv, PoolFormed, ProtectionInv
      <4>3. DOMAIN engine[s].from = 1 .. Len(Files)
        <5>1. engine[s].from \in Contented /\ Len(engine[s].from) = Len(Files)
          BY <4>2 DEF EngineInv, EngineType
        <5> QED
          BY <5>1 DEF Contented
      <4> QED
        BY <1>1, <2>4, <3>2, <4>1, <4>2, <4>3, FilesType DEF Guarded
    <3> QED
      BY <3>1, <3>2
  <2>5. \A o \in Threads : task'[o].at = "build" => o = th
    BY <1>1, <1>6, <1>11 DEF PoolInv, OneBuilder
  <2> QED
    BY <1>2, <1>11, <2>2, <2>3, <2>4, <2>5 DEF ProtectionInv
<1> QED
  BY <1>12, <1>13, <1>14 DEF PoolInv

\* A builder that is done makes an engine that says no less of the files than it knew.
LEMMA NewEngine ==
  ASSUME NEW t \in TaskType, TaskInv(t), t.at = "build", Len(t.from) = Len(Files)
  PROVE  LET e == [sig |-> t.sig, from |-> t.from] IN
         e \in EngineType /\ e.sig = t.sig /\ e.from = t.from /\ EngineInv(e)
<1> DEFINE e == [sig |-> t.sig, from |-> t.from]
<1>1. e \in EngineType /\ e.sig = t.sig /\ e.from = t.from
  BY EngineFields DEF TaskType
<1> HIDE DEF e
<1>2. EngineInv(e)
  BY <1>1 DEF TaskInv, EngineInv
<1> QED
  BY <1>1, <1>2 DEF e

LEMMA StoreStep ==
  ASSUME PoolInv, NEW th \in Threads, E!Store(th), NEW t \in TaskType, t = task[th],
         NEW e, e = [sig |-> t.sig, from |-> t.from]
  PROVE  /\ TaskInv(t) /\ t.at = "build" /\ Len(t.from) = Len(Files)
         /\ task' = [task EXCEPT ![th] = E!Given(t, e)] /\ UNCHANGED <<config, edits, good, came>>
         /\ engine' \in [Sessions -> EngineType \cup {None}]
         /\ \A s \in Sessions : engine'[s] \in {None, engine[s], e}
<1>1. TaskInv(t) /\ t.at = "build" /\ Len(t.from) = Len(Files)
  BY DEF E!Store, PoolInv, PoolFormed
<1>2. e \in EngineType
  BY <1>1, NewEngine
<1>3. task' = [task EXCEPT ![th] = E!Given(t, e)] /\ UNCHANGED <<config, edits, good, came>>
  BY DEF E!Store, E!SigOf
<1>4. PICK all, over, kept : engine' = [s \in Sessions |-> IF ~E!Contains(kept, s) THEN None
                                   ELSE IF s = t.session THEN e ELSE engine[s]]
  BY DEF E!Store, E!SigOf
<1>5. \A s \in Sessions : engine'[s] \in {None, engine[s], e}
  BY <1>4
<1>6. engine \in [Sessions -> EngineType \cup {None}]
  BY DEF PoolInv, PoolFormed
<1>7. engine' \in [Sessions -> EngineType \cup {None}]
  BY <1>2, <1>4, <1>5, <1>6
<1> QED
  BY <1>1, <1>3, <1>5, <1>7

LEMMA StoreInv == ASSUME PoolInv, NEW th \in Threads, E!Store(th) PROVE PoolInv'
<1> PICK t \in TaskType : t = task[th]
  BY DEF PoolInv, PoolFormed
<1> PICK e : e = [sig |-> t.sig, from |-> t.from]
  OBVIOUS
<1> DEFINE u == E!Given(t, e)
<1>1. /\ TaskInv(t) /\ t.at = "build" /\ Len(t.from) = Len(Files)
      /\ task' = [task EXCEPT ![th] = u] /\ UNCHANGED <<config, edits, good, came>>
      /\ engine' \in [Sessions -> EngineType \cup {None}]
      /\ \A s \in Sessions : engine'[s] \in {None, engine[s], e}
  BY StoreStep
<1>2. e \in EngineType /\ e.sig = t.sig /\ e.from = t.from /\ EngineInv(e)
  BY <1>1, NewEngine
<1>3. u \in TaskType /\ u.at = "given" /\ u.since = t.since /\ u.given = e /\ u.sig = <<>>
  BY <1>2, GivenType
<1> HIDE DEF u
<1>4. TaskInv(u)
  BY <1>1, <1>2, <1>3 DEF TaskInv, Current
<1>5. TaskInv(u)' /\ EngineInv(e)'
  BY <1>1, <1>2, <1>4, SameFiles
<1>6. task' \in [Threads -> TaskType] /\ task'[th] = u /\ \A o \in Threads \ {th} : task'[o] = task[o]
  BY <1>1, <1>3 DEF PoolInv, PoolFormed
<1>7. PoolFormed'
  <2>1. \A o \in Threads : TaskInv(task[o])'
    BY <1>1, <1>5, <1>6, SameFiles DEF PoolInv, PoolFormed
  <2>2. ASSUME NEW s \in Sessions, engine'[s] # None PROVE EngineInv(engine[s])'
    <3>1. CASE engine'[s] = e
      BY <1>5, <3>1
    <3>2. CASE engine'[s] = engine[s]
      <4>1. EngineInv(engine[s])
        BY <2>2, <3>2 DEF PoolInv, PoolFormed
      <4> QED
        BY <1>1, <3>2, <4>1, SameFiles
    <3> QED
      BY <1>1, <2>2, <3>1, <3>2
  <2> QED
    BY <1>1, <1>6, <2>1, <2>2 DEF PoolInv, PoolFormed, FilesFormed
<1>8. OneBuilder'
  BY <1>3, <1>6 DEF PoolInv, OneBuilder
<1>9. \A o \in Threads : task'[o].at # "build"
  BY <1>1, <1>3, <1>6 DEF PoolInv, OneBuilder
<1>10. Guarded(e)
  BY <1>1, <1>2 DEF PoolInv, ProtectionInv, Guarded
<1>11. ProtectionInv'
  <2>1. \A x : Guarded(x) => Guarded(x)'
    BY <1>1, GuardStays
  <2>2. \A s \in Sessions : engine'[s] # None => Guarded(engine[s])'
    BY <1>1, <1>10, <2>1 DEF PoolInv, ProtectionInv
  <2> QED
    BY <1>9, <2>2 DEF ProtectionInv
<1> QED
  BY <1>7, <1>8, <1>11 DEF PoolInv

LEMMA PeekInv == ASSUME PoolInv, NEW th \in Threads, E!Peek(th) PROVE PoolInv'
<1>1. FilesFormed /\ "profile" \in Range(Files) /\ config["profile"].loads
  BY FilesType DEF PoolInv, PoolFormed, E!Peek
<1>2. PICK x \in 1 .. edits : x = config["profile"].edit
  BY <1>1, FilesType DEF FilesFormed, E!Absent
<1> DEFINE u == Peeked(<<x>>)
<1>3. <<x>> \in Contented
  BY <1>1, <1>2, FilesType DEF Contented, Content, FilesFormed
<1>4. u \in TaskType /\ u.at = "note" /\ u.from = <<x>> /\ u.sig = <<>> /\ u.since = 0
  BY <1>3, PeekType
<1>5. task' = [task EXCEPT ![th] = u]
  BY <1>2 DEF E!Peek, Peeked
<1> HIDE DEF u
<1>6. TaskInv(u)
  BY <1>1, <1>2, <1>4, FilesType DEF TaskInv, FilesFormed
<1> QED
  BY <1>4, <1>5, <1>6, TaskStep DEF E!Peek

LEMMA NoteInv == ASSUME PoolInv, NEW th \in Threads, E!Note(th) PROVE PoolInv'
<1> PICK x \in 1 .. edits : x = task[th].from[1]
  BY DEF E!Note, PoolInv, PoolFormed, TaskInv
<1>1. good' = [good EXCEPT !["profile"] = x] /\ task' = [task EXCEPT ![th] = E!Idle]
  BY DEF E!Note
<1>2. UNCHANGED <<config, edits, engine, came>>
  BY DEF E!Note
<1>3. E!Idle \in TaskType /\ E!Idle.at = "idle" /\ E!Idle.since = 0 /\ E!Idle.sig = <<>>
  BY IdleType
<1>4. edits \in Nat /\ good \in [E!KeepsGood -> 0 .. edits]
  BY FilesType DEF PoolInv, PoolFormed, FilesFormed
<1> HIDE DEF E!Idle
<1>5. TaskInv(E!Idle)
  BY <1>3, <1>4 DEF TaskInv
<1>6. task' \in [Threads -> TaskType] /\ task'[th] = E!Idle /\ \A o \in Threads \ {th} : task'[o] = task[o]
  BY <1>1, <1>3 DEF PoolInv, PoolFormed
<1>7. good' \in [E!KeepsGood -> 0 .. edits] /\ \A g \in E!KeepsGood : good[g] # 0 => good'[g] # 0
  BY <1>1, <1>4, FilesType
<1>8. PoolFormed'
  <2>1. \A o \in Threads : TaskInv(task[o])'
    BY <1>2, <1>5, <1>6, SameFiles DEF PoolInv, PoolFormed
  <2>2. \A s \in Sessions : engine'[s] # None => EngineInv(engine[s])'
    BY <1>2, SameFiles DEF PoolInv, PoolFormed
  <2> QED
    BY <1>2, <1>6, <1>7, <2>1, <2>2 DEF PoolInv, PoolFormed, FilesFormed
<1>9. OneBuilder'
  BY <1>3, <1>6 DEF PoolInv, OneBuilder
<1>10. ProtectionInv'
  <2>1. \A e : Guarded(e) => Guarded(e)'
    BY <1>7, GuardStays
  <2> QED
    BY <1>2, <1>3, <1>6, <2>1 DEF PoolInv, ProtectionInv
<1> QED
  BY <1>8, <1>9, <1>10 DEF PoolInv

\* The operator edits a file: a signature that names the new content was taken of no other, and
\* who has looked at the file while it was not there finds it among those that came.
LEMMA EditFiles ==
  ASSUME PoolInv, NEW f \in Range(Files), E!Edit(f)
  PROVE  /\ FilesFormed' /\ UNCHANGED <<good, engine, task>>
         /\ edits' = edits + 1 /\ edits \in Nat /\ came \subseteq came'
         /\ \A g \in Range(Files) : config'[g] = config[g] \/ (g = f /\ config'[g].edit \in {0, edits'})
         /\ E!BetweenLooks(f) /\ config[f] = E!Absent => f \in came'
<1>1. /\ edits < MaxEdits /\ edits' = edits + 1 /\ UNCHANGED <<good, pool, engine, task>>
      /\ came' = IF config[f] = E!Absent /\ E!BetweenLooks(f) THEN came \cup {f} ELSE came
  BY DEF E!Edit
<1>2. PICK c \in {E!Absent} \cup [edit : {edits + 1}, loads : BOOLEAN] : config' = [config EXCEPT ![f] = c]
  BY DEF E!Edit
<1>3. edits \in 1 .. MaxEdits + 1 /\ edits \in Nat /\ edits' \in 1 .. MaxEdits + 1
  BY <1>1, FilesType DEF PoolInv, PoolFormed, FilesFormed
<1>4. E!Absent \in [edit : 0 .. edits', loads : BOOLEAN] /\ E!Absent.edit = 0
  BY <1>1, <1>3 DEF E!Absent
<1>5. c \in [edit : 0 .. edits', loads : BOOLEAN] /\ c.edit \in {0, edits'} /\ (c = E!Absent \/ c.edit # 0)
  <2> HIDE DEF E!Absent
  <2> QED
    BY <1>1, <1>2, <1>3, <1>4
<1>6. config \in [Range(Files) -> [edit : 0 .. edits', loads : BOOLEAN]]
  <2>1. 0 .. edits \subseteq 0 .. edits'
    BY <1>1, <1>3
  <2>2. [edit : 0 .. edits, loads : BOOLEAN] \subseteq [edit : 0 .. edits', loads : BOOLEAN]
    BY <2>1
  <2>3. config \in [Range(Files) -> [edit : 0 .. edits, loads : BOOLEAN]]
    BY DEF PoolInv, PoolFormed, FilesFormed
  <2> QED
    BY <2>2, <2>3
<1>7. good' \in [E!KeepsGood -> 0 .. edits']
  BY <1>1, <1>3 DEF PoolInv, PoolFormed, FilesFormed
<1>8. FilesFormed'
  BY <1>2, <1>3, <1>5, <1>6, <1>7 DEF PoolInv, PoolFormed, FilesFormed
<1> QED
  BY <1>1, <1>2, <1>3, <1>5, <1>6, <1>8

LEMMA EditInv == ASSUME PoolInv, NEW f \in Range(Files), E!Edit(f) PROVE PoolInv'
<1>1. /\ FilesFormed' /\ UNCHANGED <<good, engine, task>>
      /\ edits' = edits + 1 /\ edits \in Nat /\ came \subseteq came'
      /\ \A g \in Range(Files) : config'[g] = config[g] \/ (g = f /\ config'[g].edit \in {0, edits'})
      /\ E!BetweenLooks(f) /\ config[f] = E!Absent => f \in came'
  BY EditFiles
<1>2. ASSUME NEW sig \in Seq(Nat), NEW from \in Seq(Content), Taken(sig), Sound(sig, from),
             Len(sig) <= Len(Files), Len(from) <= Len(sig)
      PROVE  Taken(sig)' /\ Sound(sig, from)'
  <2>1. Taken(sig)'
    BY <1>1, <1>2 DEF Taken
  <2>2. Sound(sig, from)'
    <3> SUFFICES ASSUME NEW i \in DOMAIN from
                 PROVE  LET c == config'[Files[i]] IN
                        /\ sig[i] = 0 => from[i] = None \/ Files[i] \in came'
                        /\ sig[i] # 0 /\ sig[i] = c.edit =>
                             IF c.loads THEN from[i] = c.edit ELSE from[i] # None
      BY DEF Sound
    <3>1. /\ i \in 1 .. Len(Files) /\ i \in DOMAIN sig /\ sig[i] <= edits /\ sig[i] \in Nat
          /\ Files[i] \in Range(Files)
      BY <1>2, FilesType DEF Taken
    <3>2. sig[i] # edits'
      BY <1>1, <3>1
    <3> QED
      BY <1>1, <1>2, <3>1, <3>2 DEF Sound
  <2> QED
    BY <2>1, <2>2
<1>3. ASSUME NEW e, EngineInv(e) PROVE EngineInv(e)'
  <2>1. e.sig \in Seq(Nat) /\ e.from \in Seq(Content) /\ Len(Files) \in Nat
    BY <1>3, FilesType DEF EngineInv, EngineType, Signature, Contented
  <2> QED
    BY <1>2, <1>3, <2>1 DEF EngineInv
<1>4. ASSUME NEW th \in Threads PROVE TaskInv(task[th])'
  <2> PICK t \in TaskType : t = task[th] /\ TaskInv(t)
    BY DEF PoolInv, PoolFormed
  <2>1. t.since <= edits /\ t.since \in Nat
    BY DEF TaskInv, TaskType
  <2>2. t.since # edits' /\ t.since <= edits'
    BY <1>1, <2>1
  <2>3. ASSUME t.at \in {"sig", "build"}
        PROVE  Taken(t.sig)' /\ Sound(t.sig, t.from)' /\ Awaited(t)'
    <3>1. Taken(t.sig)' /\ Sound(t.sig, t.from)'
      BY <1>2, <2>3, TaskSequences DEF TaskInv
    <3>2. Awaited(t)'
      <4> SUFFICES ASSUME NEW i \in DOMAIN t.sig \ DOMAIN t.from, t.sig[i] = 0
                   PROVE  config'[Files[i]] = E!Absent \/ Files[i] \in came'
        BY DEF Awaited
      <4>1. i \in 1 .. Len(Files) /\ Files[i] \in Range(Files)
        BY <2>3, TaskSequences, FilesType DEF TaskInv
      <4>2. config[Files[i]] = E!Absent \/ Files[i] \in came
        BY <2>3 DEF TaskInv, Awaited
      <4>3. Files[i] = f => E!BetweenLooks(f)
        BY <4>1, FilesType DEF E!BetweenLooks
      <4> QED
        BY <1>1, <4>1, <4>2, <4>3
    <3> QED
      BY <3>1, <3>2
  <2>4. t.at = "given" => EngineInv(t.given)'
    BY <1>3 DEF TaskInv
  <2>5. t.at = "note" => t.from[1] \in 1 .. edits'
    BY <1>1 DEF TaskInv
  <2>6. TaskInv(t)'
    BY <2>2, <2>3, <2>4, <2>5 DEF TaskInv, Current
  <2> QED
    BY <1>1, <2>6
<1>5. PoolFormed'
  <2>1. \A s \in Sessions : engine'[s] # None => EngineInv(engine[s])'
    BY <1>1, <1>3 DEF PoolInv, PoolFormed
  <2> QED
    BY <1>1, <1>4, <2>1 DEF PoolInv, PoolFormed
<1>6. OneBuilder' /\ ProtectionInv'
  BY <1>1 DEF PoolInv, OneBuilder, ProtectionInv, Guarded
<1> QED
  BY <1>5, <1>6 DEF PoolInv

LEMMA PoolNext == ASSUME PoolInv, [E!Next]_(E!vars) PROVE PoolInv'
<1>1. CASE UNCHANGED E!vars
  <2>1. UNCHANGED <<config, edits, good, engine, task, came>>
    BY <1>1 DEF E!vars
  <2>2. \A o \in Threads : TaskInv(task[o])'
    BY <2>1, SameFiles DEF PoolInv, PoolFormed
  <2>3. \A s \in Sessions : engine'[s] # None => EngineInv(engine[s])'
    BY <2>1, SameFiles DEF PoolInv, PoolFormed
  <2>4. PoolFormed' /\ OneBuilder' /\ ProtectionInv'
    BY <2>1, <2>2, <2>3 DEF PoolInv, PoolFormed, FilesFormed, OneBuilder, ProtectionInv, Guarded
  <2> QED
    BY <2>4 DEF PoolInv
<1>2. ASSUME NEW f \in E!Range(Files), E!Edit(f) PROVE PoolInv'
  BY <1>2, EditInv DEF E!Range, Range
<1> QED
  BY <1>1, <1>2, BeginInv, StatInv, FoundInv, MissInv, LoadInv, StoreInv, PeekInv, NoteInv DEF E!Next

\* A request that began after the last edit is given an engine of the files as they are,
\* whichever thread built it and whatever was edited meanwhile (hermes_live.py 280-306).
THEOREM ConfigIsInForce == EnginesSpec => []ConfigInForce
<1>1. PoolInv /\ [EnginesNext]_allVars => PoolInv'
  BY PartsStep, PoolNext
<1>2. PoolInv => ConfigInForce
  <2> SUFFICES ASSUME PoolInv, NEW th \in Threads, task[th].at = "given", task[th].since = edits,
                      NEW i \in DOMAIN Files
               PROVE  LET c == config[Files[i]]
                          e == task[th].given
                      IN  IF c = E!Absent THEN e.from[i] = None \/ Files[i] \in came
                          ELSE IF c.loads THEN e.from[i] = c.edit ELSE e.from[i] # None
    BY DEF ConfigInForce, E!ConfigInForce
  <2> DEFINE e == task[th].given
             c == config[Files[i]]
  <2>1. TaskInv(task[th])
    BY DEF PoolInv, PoolFormed
  <2>2. EngineInv(e) /\ Current(task[th], e.sig)
    BY <2>1 DEF TaskInv
  <2>3. e.sig \in Seq(Nat) /\ e.from \in Seq(Content)
    BY <2>2 DEF EngineInv, EngineType, Signature, Contented
  <2>4. DOMAIN e.sig = 1 .. Len(Files) /\ DOMAIN e.from = 1 .. Len(Files) /\ i \in 1 .. Len(Files)
    BY <2>2, <2>3, FilesType DEF EngineInv
  <2>5. e.sig[i] = c.edit
    BY <2>2, <2>4 DEF Current
  <2>6. c = E!Absent \/ c.edit # 0
    BY <2>4, FilesType DEF PoolInv, PoolFormed, FilesFormed
  <2>7. /\ e.sig[i] = 0 => e.from[i] = None \/ Files[i] \in came
        /\ e.sig[i] # 0 /\ e.sig[i] = c.edit => IF c.loads THEN e.from[i] = c.edit ELSE e.from[i] # None
    BY <2>2, <2>4 DEF EngineInv, Sound
  <2>8. E!Absent.edit = 0
    BY DEF E!Absent
  <2> QED
    BY <2>5, <2>6, <2>7, <2>8
<1> QED
  BY <1>1, <1>2, PoolInit, PTL DEF EnginesSpec

\* What KeepsProtection says of a step.
ProtectionKept ==
  \A s \in Sessions, i \in DOMAIN Files :
    /\ Files[i] \in E!KeepsGood
    /\ engine[s] # None /\ engine'[s] # None
    /\ engine[s].from[i] \notin {0, None}
    => engine'[s].from[i] # 0

LEMMA StoreProtects == ASSUME PoolInv, NEW th \in Threads, E!Store(th) PROVE ProtectionKept
<1> PICK t \in TaskType : t = task[th]
  BY DEF PoolInv, PoolFormed
<1> PICK e : e = [sig |-> t.sig, from |-> t.from]
  OBVIOUS
<1>1. /\ TaskInv(t) /\ t.at = "build" /\ Len(t.from) = Len(Files)
      /\ \A s \in Sessions : engine'[s] \in {None, engine[s], e}
  BY StoreStep
<1>2. e.from = t.from /\ DOMAIN t.from = DOMAIN Files
  BY <1>1, FilesType, TaskSequences
<1>3. \A i \in DOMAIN Files : Files[i] \in E!KeepsGood /\ t.from[i] = 0 =>
        \A s \in Sessions : engine[s] # None => engine[s].from[i] \in {0, None}
  BY <1>1, <1>2 DEF PoolInv, ProtectionInv
<1> QED
  BY <1>1, <1>2, <1>3 DEF ProtectionKept

\* A session does not lose its profile or its list of names to an edit that does not load, in
\* whatever order its threads build (hermes_live.py 149-198).
THEOREM ProtectionIsKept == EnginesSpec => KeepsProtection
<1>1. PoolInv /\ [EnginesNext]_allVars => PoolInv'
  BY PartsStep, PoolNext
<1>2. PoolInv /\ [EnginesNext]_allVars => [ProtectionKept]_(E!vars)
  <2> SUFFICES ASSUME PoolInv, E!Next PROVE ProtectionKept
    BY PartsStep
  <2>1. ASSUME UNCHANGED engine PROVE ProtectionKept
    BY <2>1 DEF ProtectionKept
  <2>2. ASSUME NEW th \in Threads, NEW s \in Sessions, E!Begin(th, s) PROVE UNCHANGED engine
    BY <2>2 DEF E!Begin
  <2>3. ASSUME NEW th \in Threads, E!Stat(th) \/ E!Found(th) \/ E!Miss(th) \/ E!Load(th) \/ E!Peek(th) \/ E!Note(th)
        PROVE  UNCHANGED engine
    BY <2>3 DEF E!Stat, E!Found, E!Miss, E!Load, E!Peek, E!Note
  <2>4. ASSUME NEW f, E!Edit(f) PROVE UNCHANGED engine
    BY <2>4 DEF E!Edit
  <2> QED
    BY <2>1, <2>2, <2>3, <2>4, StoreProtects DEF E!Next
<1>3. EnginesSpec => [][ProtectionKept]_(E!vars)
  BY <1>1, <1>2, PoolInit, PTL DEF EnginesSpec
<1> QED
  BY <1>3 DEF KeepsProtection, E!KeepsProtection, ProtectionKept

-----------------------------------------------------------------------------
(* AuditLog.                                                               *)

Stations == {"idle", "lock", "open", "write", "rotate", "unlocked"}
Moving == 0 .. Keep - 1
Handles == 0 .. Keep + 1
Writers == [at : Stations, move : Moving, fd : Handles, line : Nat]

Lines == SUBSET (1 .. MaxLines)

\* Every thread that writes has a line of its own, and a file unless that is gone.
AuditTyped ==
  /\ opened \in 0 .. MaxLines /\ killed \in Nat /\ late \in Nat
  /\ written \in SUBSET (1 .. opened)
  /\ log \in [0 .. Keep -> (SUBSET written) \cup {None}]
  /\ writer \in [Threads -> Writers]
  /\ \A th \in Threads : writer[th].at = "write" =>
       /\ writer[th].line \in (1 .. opened) \ written
       /\ writer[th].fd \in 0 .. Keep => log[writer[th].fd] # None
       /\ \A o \in Threads \ {th} : writer[o].at = "write" => writer[o].line # writer[th].line

\* The lines of a file, and those that are on their way there.
InFile(line, i) ==
  \/ log[i] # None /\ line \in log[i]
  \/ \E th \in Threads : writer[th].at = "write" /\ writer[th].fd = i /\ writer[th].line = line

\* The lines that are in no file, and those on their way to none.
IsGone(line) ==
  \/ line \in A!Lost
  \/ \E th \in Threads : writer[th].at = "write" /\ writer[th].fd = Keep + 1 /\ writer[th].line = line

\* The lines after one, and those of them that audit.log does not hold any more.
Later(line) == {l \in written : l > line}
Behind(line) == {l \in Later(line) : log[0] = None \/ l \notin log[0]}

\* The lines of n full files.
Full(n) == n * (Limit + 1)

\* A rotation leaves a hole where the file was that it moved last.
Hole(i) ==
  IF \E th \in Threads : writer[th].at = "rotate" /\ writer[th].move + 1 < i THEN 1 ELSE 0

OneRotates ==
  /\ \A th \in Threads : writer[th].at # "unlocked"
  /\ \A th, o \in Threads : writer[th].at = "rotate" /\ writer[o].at = "rotate" => th = o
  /\ \A th \in Threads : writer[th].at = "rotate" =>
       /\ log[0] # None /\ Cardinality(log[0]) > Limit
       /\ writer[th].move < Keep - 1 => log[writer[th].move + 1] = None

OldAreFull == \A i \in 1 .. Keep : log[i] # None => Cardinality(log[i]) > Limit

NewestFirst == \A i \in 1 .. Keep, l, k \in Nat : InFile(l, i) /\ InFile(k, 0) => l < k

\* Every process killed has left one hole at most.
FullBefore ==
  \A i \in 1 .. Keep, l \in Nat :
    InFile(l, i) => Cardinality(Behind(l)) >= Full(i - 1 - killed - Hole(i))

GoneAreOld == \A l \in Nat : IsGone(l) => Cardinality(Later(l)) >= Full(Keep - killed)

AuditInv ==
  /\ AuditTyped
  /\ late = 0 => OneRotates /\ OldAreFull /\ NewestFirst /\ FullBefore /\ GoneAreOld

LEMMA SameCardinality == \A S : A!Cardinality(S) = Cardinality(S)
BY DEF A!Cardinality, Cardinality

LEMMA KeepType == Limit \in Nat \ {0} /\ Keep \in Nat \ {0} /\ MaxLines \in Nat
BY PartsAssumption

LEMMA LinesAreFinite ==
  ASSUME NEW n \in Nat, NEW S \in SUBSET (1 .. n), NEW T \in SUBSET S
  PROVE  /\ IsFiniteSet(S) /\ IsFiniteSet(T)
         /\ Cardinality(S) \in Nat /\ Cardinality(T) \in Nat
         /\ Cardinality(T) <= Cardinality(S)
<1>1. IsFiniteSet(1 .. n)
  BY FS_Interval
<1>2. IsFiniteSet(S)
  BY <1>1, FS_Subset
<1> QED
  BY <1>2, FS_Subset, FS_CardinalityType

LEMMA FullIsLinear ==
  ASSUME NEW m \in Int, NEW n \in Int
  PROVE  /\ Full(m) \in Int /\ Full(m + 1) = Full(m) + Limit + 1
         /\ m <= n => Full(m) <= Full(n)
         /\ m <= 0 => Full(m) <= 0
<1>1. Limit + 1 \in Nat
  BY KeepType
<1>2. ASSUME NEW L \in Nat, NEW d \in Nat PROVE d * L >= 0
  BY <1>2
<1>3. ASSUME NEW L \in Nat, NEW x \in Int, NEW y \in Int PROVE (y - x) * L = y * L - x * L
  BY <1>3
<1>4. ASSUME NEW x \in Int, NEW y \in Int, x <= y PROVE Full(x) <= Full(y)
  BY <1>1, <1>2, <1>3, <1>4 DEF Full
<1> QED
  <2>1. ASSUME NEW L \in Nat PROVE m * L \in Int /\ (m + 1) * L = m * L + L /\ 0 * L = 0
    BY <2>1
  <2>2. Full(m) \in Int /\ Full(m + 1) = Full(m) + (Limit + 1) /\ Full(0) = 0
    BY <2>1, <1>1 DEF Full
  <2> QED
    BY <2>2, <1>4, KeepType

\* The writers that the steps make of one.
Goes(w, a) == [w EXCEPT !.at = a]
Rotates(w, a, i) == [w EXCEPT !.at = a, !.move = i]
Opens(w, n) == [w EXCEPT !.at = "write", !.fd = 0, !.line = n]
HoldsOpen(w, f) == [w EXCEPT !.fd = f]
MovesOn(w, i) == [w EXCEPT !.move = i]

LEMMA WriterFields ==
  ASSUME NEW w \in Writers
  PROVE  w.at \in Stations /\ w.move \in Moving /\ w.fd \in Handles /\ w.line \in Nat
BY DEF Writers

LEMMA GoesType ==
  ASSUME NEW w \in Writers, NEW a \in Stations
  PROVE  Goes(w, a) \in Writers /\ Goes(w, a).at = a /\ Goes(w, a).fd = w.fd /\ Goes(w, a).line = w.line
BY DEF Writers, Goes

LEMMA RotatesType ==
  ASSUME NEW w \in Writers, NEW a \in Stations, NEW i \in Moving
  PROVE  Rotates(w, a, i) \in Writers /\ Rotates(w, a, i).at = a /\ Rotates(w, a, i).move = i
BY DEF Writers, Rotates

LEMMA OpensType ==
  ASSUME NEW w \in Writers, NEW n \in Nat
  PROVE  Opens(w, n) \in Writers /\ Opens(w, n).at = "write" /\ Opens(w, n).fd = 0 /\ Opens(w, n).line = n
<1>1. "write" \in Stations /\ 0 \in Handles
  BY KeepType DEF Stations, Handles
<1> QED
  BY <1>1 DEF Writers, Opens

LEMMA HoldsOpenType ==
  ASSUME NEW w \in Writers, NEW f \in Handles
  PROVE  /\ HoldsOpen(w, f) \in Writers /\ HoldsOpen(w, f).fd = f
         /\ HoldsOpen(w, f).at = w.at /\ HoldsOpen(w, f).line = w.line /\ HoldsOpen(w, f).move = w.move
BY DEF Writers, HoldsOpen

LEMMA MovesOnType ==
  ASSUME NEW w \in Writers, NEW i \in Moving
  PROVE  MovesOn(w, i) \in Writers /\ MovesOn(w, i).at = w.at /\ MovesOn(w, i).fd = w.fd /\ MovesOn(w, i).move = i
BY DEF Writers, MovesOn

LEMMA IdleWriter == A!Idle \in Writers /\ A!Idle.at = "idle" /\ A!Gone = Keep + 1
BY KeepType DEF A!Idle, A!Gone, Writers, Stations, Moving, Handles

LEMMA FewerKept ==
  ASSUME NEW k \in Nat, NEW j \in Nat, k <= j
  PROVE  Full(Keep - j) <= Full(Keep - k) /\ Full(Keep - j) \in Int /\ Full(Keep - k) \in Int
<1>1. Keep - k \in Int /\ Keep - j \in Int /\ Keep - j <= Keep - k
  BY KeepType
<1> QED
  BY <1>1, FullIsLinear

LEMMA AuditStarts == EnginesInit => AuditInv
<1> SUFFICES ASSUME EnginesInit PROVE AuditInv
  OBVIOUS
<1>1. AuditTyped
  BY KeepType, IdleWriter DEF EnginesInit, A!Init, A!Names, AuditTyped
<1>2. \A l, i : i \in 0 .. Keep => ~InFile(l, i)
  BY DEF EnginesInit, A!Init, A!Idle, A!Names, InFile
<1>3. \A l : ~IsGone(l)
  BY DEF EnginesInit, A!Init, A!Idle, A!Lost, IsGone
<1>4. OneRotates /\ OldAreFull
  BY KeepType DEF EnginesInit, A!Init, A!Idle, A!Names, OneRotates, OldAreFull
<1> QED
  BY <1>1, <1>2, <1>3, <1>4 DEF AuditInv, NewestFirst, FullBefore, GoneAreOld

\* A move renames the handles of all, and ends the rotation or takes its thread one file on.
LEMMA MoveWriters ==
  ASSUME AuditTyped, NEW th \in Threads, A!Move(th),
         NEW m, m = writer[th].move
  PROVE  /\ m \in 0 .. Keep - 1 /\ writer[th].at \in {"rotate", "unlocked"}
         /\ writer' \in [Threads -> Writers]
         /\ \A o \in Threads : /\ writer[o].fd \in 0 .. Keep + 1
                               /\ writer'[o].fd = A!Named(writer[o].fd, m)
         /\ \A o \in Threads \ {th} : /\ writer'[o].at = writer[o].at
                                      /\ writer'[o].line = writer[o].line
                                      /\ writer'[o].move = writer[o].move
         /\ IF m = 0 THEN writer'[th].at = "open"
            ELSE writer'[th].at = writer[th].at /\ writer'[th].move = m - 1
<1> USE KeepType
<1>1. \A o \in Threads : writer[o] \in Writers
  BY DEF AuditTyped
<1>2. m \in Moving /\ writer[th].at \in {"rotate", "unlocked"}
  BY <1>1, WriterFields DEF A!Move
<1>3. \A f \in Handles : A!Named(f, m) \in Handles
  BY <1>2 DEF A!Named, A!Gone, Handles, Moving
<1>4. ASSUME NEW o \in Threads, NEW x, x = A!Moved(writer[o], o = th, m)
      PROVE  /\ x \in Writers /\ x.fd = A!Named(writer[o].fd, m) /\ writer[o].fd \in Handles
             /\ o # th => x.at = writer[o].at /\ x.line = writer[o].line /\ x.move = writer[o].move
             /\ o = th => IF m = 0 THEN x.at = "open" ELSE x.at = writer[o].at /\ x.move = m - 1
  <2> PICK w \in Writers : w = writer[o]
    BY <1>1
  <2> PICK f \in Handles : f = A!Named(w.fd, m)
    BY <1>3, WriterFields
  <2> PICK v : v = HoldsOpen(w, f)
    OBVIOUS
  <2>1. /\ v \in Writers /\ v.fd = f /\ v.at = w.at /\ v.line = w.line /\ v.move = w.move
        /\ w.fd \in Handles
    BY HoldsOpenType, WriterFields
  <2>2. x = IF o # th THEN v ELSE IF m = 0 THEN Goes(v, "open") ELSE MovesOn(v, m - 1)
    BY <1>4 DEF A!Moved, HoldsOpen, Goes, MovesOn
  <2>3. "open" \in Stations /\ (m # 0 => m - 1 \in Moving)
    BY <1>2 DEF Stations, Moving
  <2> QED
    BY <2>1, <2>2, <2>3, GoesType, MovesOnType
<1>5. writer' = [o \in Threads |-> A!Moved(writer[o], o = th, m)]
  BY DEF A!Move
<1> QED
  BY <1>2, <1>4, <1>5 DEF Moving, Handles

LEMMA MoveFiles ==
  ASSUME AuditTyped, NEW th \in Threads, A!Move(th),
         NEW m \in 0 .. Keep - 1, m = writer[th].move
  PROVE  IF log[m] = None THEN log' = log
         ELSE /\ log' \in [0 .. Keep -> (SUBSET written) \cup {None}]
              /\ log'[m + 1] = log[m] /\ log'[m] = None
              /\ \A i \in (0 .. Keep) \ {m, m + 1} : log'[i] = log[i]
<1>1. IF log[m] = None THEN log' = log
      ELSE log' = [log EXCEPT ![m + 1] = log[m], ![m] = None]
  BY DEF A!Move, A!Replaced
<1>2. log \in [0 .. Keep -> (SUBSET written) \cup {None}]
  BY DEF AuditTyped
<1>3. CASE log[m] # None
  <2> PICK g : g = log'
    OBVIOUS
  <2>1. g = [log EXCEPT ![m + 1] = log[m], ![m] = None]
    BY <1>1, <1>3
  <2> PICK f, S : f = log /\ S = (SUBSET written) \cup {None}
    OBVIOUS
  <2>2. f \in [0 .. Keep -> S] /\ None \in S /\ g = [f EXCEPT ![m + 1] = f[m], ![m] = None]
    BY <1>2, <2>1
  <2>3. m \in 0 .. Keep /\ m + 1 \in 0 .. Keep /\ m # m + 1
    BY KeepType
  <2>4. /\ g \in [0 .. Keep -> S] /\ g[m + 1] = f[m] /\ g[m] = None
        /\ \A i \in (0 .. Keep) \ {m, m + 1} : g[i] = f[i]
    BY <2>2, <2>3
  <2> QED
    BY <1>3, <2>4
<1> QED
  BY <1>1, <1>3

LEMMA AuditTypedNext == ASSUME AuditTyped, [A!Next]_(A!vars) PROVE AuditTyped'
<1> USE KeepType
<1>0. \A o \in Threads : writer[o] \in Writers
  BY DEF AuditTyped
<1>1. ASSUME NEW th \in Threads, A!Audit(th) PROVE AuditTyped'
  <2> PICK w \in Writers : w = writer[th]
    BY <1>0
  <2> PICK a \in {"lock", "open"} : a = IF A!TooLong THEN "lock" ELSE "open"
    OBVIOUS
  <2> PICK x : x = Goes(w, a)
    OBVIOUS
  <2>1. x \in Writers /\ x.at # "write"
    BY GoesType DEF Stations
  <2>2. writer' = [writer EXCEPT ![th] = x] /\ writer \in [Threads -> Writers]
    BY <1>1 DEF A!Audit, AuditTyped, Goes
  <2> QED
    BY <1>1, <2>1, <2>2 DEF AuditTyped, A!Audit
<1>2. ASSUME NEW th \in Threads, A!Lock(th) PROVE AuditTyped'
  <2>1. late' \in Nat
    BY <1>2 DEF A!Lock, AuditTyped
  <2>2. /\ writer' \in [Threads -> Writers]
        /\ writer'[th].at # "write" /\ \A o \in Threads \ {th} : writer'[o] = writer[o]
    <3> PICK w \in Writers : w = writer[th]
      BY <1>0
    <3> PICK a \in {"rotate", "unlocked"} : a = IF A!LockFree THEN "rotate" ELSE "unlocked"
      OBVIOUS
    <3> PICK x : x = IF A!StillTooLong THEN Rotates(w, a, Keep - 1) ELSE Goes(w, "open")
      OBVIOUS
    <3>1. x \in Writers /\ x.at # "write"
      <4>1. {"rotate", "unlocked", "open"} \subseteq Stations /\ Keep - 1 \in Moving
        BY DEF Stations, Moving
      <4> QED
        BY <4>1, RotatesType, GoesType
    <3>2. writer' = [writer EXCEPT ![th] = x] /\ writer \in [Threads -> Writers]
      BY <1>2 DEF A!Lock, AuditTyped, Rotates, Goes
    <3> QED
      BY <3>1, <3>2
  <2> QED
    BY <1>2, <2>1, <2>2 DEF A!Lock, AuditTyped
<1>3. ASSUME NEW th \in Threads, A!Open(th) PROVE AuditTyped'
  <2>1. opened' = opened + 1 /\ opened' \in 0 .. MaxLines /\ opened \in Nat
    BY <1>3 DEF A!Open, AuditTyped
  <2>2. /\ log' \in [0 .. Keep -> (SUBSET written) \cup {None}]
        /\ \A i \in 0 .. Keep : log[i] # None => log'[i] # None
    BY <1>3 DEF A!Open, AuditTyped
  <2>3. log'[0] # None
    <3>1. {} # None
      BY PartsAssumption
    <3> QED
      BY <1>3, <3>1 DEF A!Open, AuditTyped
  <2>4. /\ writer' \in [Threads -> Writers]
        /\ writer'[th].fd = 0 /\ writer'[th].line = opened + 1
        /\ \A o \in Threads \ {th} : writer'[o] = writer[o]
    <3> PICK w \in Writers : w = writer[th]
      BY <1>0
    <3> PICK x : x = Opens(w, opened + 1)
      OBVIOUS
    <3>1. x \in Writers /\ x.fd = 0 /\ x.line = opened + 1
      BY <2>1, OpensType
    <3>2. writer' = [writer EXCEPT ![th] = x] /\ writer \in [Threads -> Writers]
      BY <1>3 DEF A!Open, AuditTyped, Opens
    <3> QED
      BY <3>1, <3>2
  <2>5. written \in SUBSET (1 .. opened) /\ 1 .. opened \subseteq 1 .. opened'
    BY <2>1 DEF AuditTyped
  <2> QED
    BY <1>3, <2>1, <2>2, <2>3, <2>4, <2>5 DEF A!Open, AuditTyped
<1>4. ASSUME NEW th \in Threads, A!Write(th) PROVE AuditTyped'
  <2> PICK line \in 1 .. opened : line = writer[th].line /\ line \notin written
    BY <1>4 DEF A!Write, AuditTyped
  <2> PICK fd \in 0 .. Keep + 1 : fd = writer[th].fd /\ (fd \in 0 .. Keep => log[fd] # None)
    BY <1>4, <1>0 DEF A!Write, AuditTyped, Writers, Handles
  <2>1. written' = written \cup {line} /\ written' \in SUBSET (1 .. opened)
    BY <1>4 DEF A!Write, AuditTyped
  <2>2. /\ log' = IF fd = Keep + 1 THEN log ELSE [log EXCEPT ![fd] = log[fd] \cup {line}]
        /\ log \in [0 .. Keep -> (SUBSET written) \cup {None}]
    BY <1>4 DEF A!Write, A!Gone, AuditTyped
  <2>3. /\ log' \in [0 .. Keep -> (SUBSET written') \cup {None}]
        /\ \A i \in 0 .. Keep : log[i] # None => log'[i] # None
    <3>1. fd \in 0 .. Keep => log[fd] \cup {line} \in SUBSET written' /\ log[fd] \cup {line} # None
      <4>1. 1 .. opened \subseteq 1 .. MaxLines
        BY DEF AuditTyped
      <4> QED
        BY <2>1, <2>2, <4>1, PartsAssumption
    <3> QED
      BY <2>1, <2>2, <3>1
  <2>4. /\ writer' \in [Threads -> Writers] /\ writer'[th].at = "idle"
        /\ \A o \in Threads \ {th} : writer'[o] = writer[o]
    BY <1>4, IdleWriter DEF A!Write, AuditTyped
  <2> QED
    BY <1>4, <2>1, <2>3, <2>4 DEF A!Write, AuditTyped
<1>5. ASSUME NEW th \in Threads, A!Kill(th) PROVE AuditTyped'
  BY <1>5, IdleWriter DEF A!Kill, AuditTyped
<1>6. ASSUME NEW th \in Threads, A!Move(th) PROVE AuditTyped'
  <2> PICK m : m = writer[th].move
    OBVIOUS
  <2>1. /\ m \in 0 .. Keep - 1 /\ writer' \in [Threads -> Writers] /\ writer'[th].at # "write"
        /\ \A o \in Threads : /\ writer[o].fd \in 0 .. Keep + 1
                              /\ writer'[o].fd = A!Named(writer[o].fd, m)
        /\ \A o \in Threads \ {th} : writer'[o].at = writer[o].at /\ writer'[o].line = writer[o].line
    BY <1>6, MoveWriters
  <2>2. UNCHANGED <<opened, written, killed, late>>
    BY <1>6 DEF A!Move
  <2>3. CASE log[m] = None
    <3>1. log' = log /\ \A o \in Threads : writer'[o].fd = writer[o].fd
      BY <1>6, <2>1, <2>3, MoveFiles DEF A!Named
    <3> QED
      BY <2>1, <2>2, <3>1 DEF AuditTyped
  <2>4. CASE log[m] # None
    <3>1. /\ log' \in [0 .. Keep -> (SUBSET written) \cup {None}]
          /\ log'[m + 1] = log[m]
          /\ \A i \in (0 .. Keep) \ {m, m + 1} : log'[i] = log[i]
      BY <1>6, <2>1, <2>4, MoveFiles
    <3>2. ASSUME NEW o \in Threads, writer'[o].at = "write"
          PROVE  writer'[o].fd \in 0 .. Keep => log'[writer'[o].fd] # None
      <4>1. o # th /\ writer[o].at = "write"
        BY <2>1, <3>2
      <4>2. writer[o].fd \in 0 .. Keep => log[writer[o].fd] # None
        BY <4>1 DEF AuditTyped
      <4> QED
        BY <2>1, <2>4, <3>1, <4>2 DEF A!Named, A!Gone
    <3>3. ASSUME NEW o \in Threads, writer'[o].at = "write"
          PROVE  /\ writer'[o].line \in (1 .. opened) \ written
                 /\ \A x \in Threads \ {o} : writer'[x].at = "write" => writer'[x].line # writer'[o].line
      <4>1. o # th /\ writer[o].at = "write" /\ writer'[o].line = writer[o].line
        BY <2>1, <3>3
      <4>2. /\ writer[o].line \in (1 .. opened) \ written
            /\ \A x \in Threads \ {o} : writer[x].at = "write" => writer[x].line # writer[o].line
        BY <4>1 DEF AuditTyped
      <4>3. \A x \in Threads \ {o} : writer'[x].at = "write" =>
              writer[x].at = "write" /\ writer'[x].line = writer[x].line
        BY <2>1
      <4> QED
        BY <4>1, <4>2, <4>3
    <3>4. opened \in 0 .. MaxLines /\ killed \in Nat /\ late \in Nat /\ written \in SUBSET (1 .. opened)
      BY DEF AuditTyped
    <3>5. writer' \in [Threads -> Writers]
      BY <2>1
    <3> QED
      BY <2>2, <3>1, <3>2, <3>3, <3>4, <3>5 DEF AuditTyped
  <2> QED
    BY <2>3, <2>4
<1>7. CASE UNCHANGED A!vars
  BY <1>7 DEF A!vars, AuditTyped
<1> QED
  BY <1>1, <1>2, <1>3, <1>4, <1>5, <1>6, <1>7 DEF A!Next

\* As long as no line comes into a file from another one, what is behind it only grows.
LEMMA Drift ==
  ASSUME AuditTyped, AuditTyped', FullBefore, GoneAreOld,
         written \subseteq written', killed <= killed',
         \A i \in 1 .. Keep, l \in Nat : InFile(l, i)' => InFile(l, i),
         \A l \in Nat : IsGone(l)' => IsGone(l),
         \A l \in Nat : Behind(l) \subseteq Behind(l)',
         \A i \in 1 .. Keep : killed + Hole(i) <= killed' + Hole(i)'
  PROVE  FullBefore' /\ GoneAreOld'
<1> USE KeepType
<1>1. killed \in Nat /\ killed' \in Nat /\ \A i \in 1 .. Keep : Hole(i) \in {0, 1} /\ Hole(i)' \in {0, 1}
  BY DEF AuditTyped, Hole
<1>2. written \subseteq 1 .. MaxLines /\ written' \subseteq 1 .. MaxLines
  BY DEF AuditTyped
<1>3. ASSUME NEW l \in Nat
      PROVE  /\ Cardinality(Behind(l)) \in Nat /\ Cardinality(Behind(l)') \in Nat
             /\ Cardinality(Behind(l)) <= Cardinality(Behind(l)')
             /\ Cardinality(Later(l)) \in Nat /\ Cardinality(Later(l)') \in Nat
             /\ Cardinality(Later(l)) <= Cardinality(Later(l)')
  <2>1. Later(l) \subseteq Later(l)' /\ Later(l)' \subseteq 1 .. MaxLines
    BY <1>2 DEF Later
  <2>2. Behind(l) \subseteq Behind(l)' /\ Behind(l)' \subseteq 1 .. MaxLines
    BY <1>2 DEF Behind, Later
  <2> QED
    BY <2>1, <2>2, LinesAreFinite
<1>4. ASSUME NEW i \in 1 .. Keep, NEW l \in Nat, InFile(l, i)'
      PROVE  Cardinality(Behind(l)') >= Full(i - 1 - killed' - Hole(i)')
  <2> PICK m \in Int, n \in Int : m = i - 1 - killed - Hole(i) /\ n = i - 1 - killed' - Hole(i)'
    BY <1>1
  <2>1. Cardinality(Behind(l)) >= Full(m)
    BY <1>4 DEF FullBefore
  <2>2. n <= m
    BY <1>1
  <2> QED
    BY <1>3, <2>1, <2>2, FullIsLinear
<1>5. ASSUME NEW l \in Nat, IsGone(l)' PROVE Cardinality(Later(l)') >= Full(Keep - killed')
  <2> PICK k \in Nat, j \in Nat : k = killed /\ j = killed' /\ k <= j
    BY <1>1
  <2>1. Cardinality(Later(l)) >= Full(Keep - k)
    BY <1>5 DEF GoneAreOld
  <2>2. Full(Keep - j) <= Full(Keep - k) /\ Full(Keep - j) \in Int /\ Full(Keep - k) \in Int
    BY FewerKept
  <2>3. Cardinality(Later(l)) \in Nat /\ Cardinality(Later(l)') \in Nat
        /\ Cardinality(Later(l)) <= Cardinality(Later(l)')
    BY <1>3
  <2>4. \A a \in Nat, b \in Nat, c \in Int, d \in Int : a <= b /\ d <= c /\ a >= c => b >= d
    OBVIOUS
  <2> QED
    BY <2>1, <2>2, <2>3, <2>4
<1> QED
  BY <1>4, <1>5 DEF FullBefore, GoneAreOld

\* A step that moves no file and writes no line.
LEMMA FilesStand ==
  ASSUME AuditTyped, AuditTyped', OldAreFull, NewestFirst, FullBefore, GoneAreOld,
         UNCHANGED <<log, written>>, killed <= killed',
         \A o \in Threads : writer'[o].at = "write" =>
           writer[o].at = "write" /\ writer'[o].fd = writer[o].fd /\ writer'[o].line = writer[o].line,
         \A i \in 1 .. Keep : killed + Hole(i) <= killed' + Hole(i)'
  PROVE  OldAreFull' /\ NewestFirst' /\ FullBefore' /\ GoneAreOld'
<1>1. \A l, i : InFile(l, i)' => InFile(l, i)
  BY DEF InFile
<1>2. \A l : IsGone(l)' => IsGone(l)
  BY DEF IsGone, A!Lost
<1>3. \A l : Behind(l)' = Behind(l)
  BY DEF Behind, Later
<1>4. OldAreFull' /\ NewestFirst'
  BY <1>1 DEF OldAreFull, NewestFirst
<1> QED
  BY <1>1, <1>2, <1>3, <1>4, Drift

AuditFiles == OneRotates /\ OldAreFull /\ NewestFirst /\ FullBefore /\ GoneAreOld

LEMMA AuditKeepsFiles ==
  ASSUME AuditTyped, AuditTyped', AuditFiles, NEW th \in Threads, A!Audit(th)
  PROVE  AuditFiles'
<1>1. /\ UNCHANGED <<log, written, killed>> /\ writer'[th].at \in {"lock", "open"}
      /\ \A o \in Threads \ {th} : writer'[o] = writer[o]
  <2> PICK w \in Writers : w = writer[th]
    BY DEF AuditTyped
  <2>1. writer' = [writer EXCEPT ![th] = Goes(w, IF A!TooLong THEN "lock" ELSE "open")]
    BY DEF A!Audit, Goes
  <2> QED
    BY <2>1, GoesType DEF A!Audit, AuditTyped, Stations
<1>2. writer[th].at = "idle"
  BY DEF A!Audit
<1>3. \A i : Hole(i)' = Hole(i)
  BY <1>1, <1>2 DEF Hole
<1>4. OneRotates'
  BY <1>1 DEF AuditFiles, OneRotates
<1>5. killed \in Nat /\ \A i : Hole(i) \in {0, 1}
  BY DEF AuditTyped, Hole
<1> QED
  BY <1>1, <1>3, <1>4, <1>5, FilesStand DEF AuditFiles

LEMMA LockKeepsFiles ==
  ASSUME AuditTyped, AuditTyped', AuditFiles, NEW th \in Threads, A!Lock(th), late' = 0
  PROVE  AuditFiles'
<1> USE KeepType
<1>1. A!LockFree
  BY DEF A!Lock, AuditTyped
<1>2. /\ UNCHANGED <<log, written, killed>>
      /\ \A o \in Threads \ {th} : writer'[o] = writer[o] /\ writer[o].at # "rotate"
      /\ \/ writer'[th].at = "open"
         \/ writer'[th].at = "rotate" /\ writer'[th].move = Keep - 1 /\ A!TooLong
  <2> PICK w \in Writers : w = writer[th]
    BY DEF AuditTyped
  <2> PICK x : x = IF A!TooLong THEN Rotates(w, "rotate", Keep - 1) ELSE Goes(w, "open")
    OBVIOUS
  <2>1. writer' = [writer EXCEPT ![th] = x]
    BY <1>1 DEF A!Lock, A!StillTooLong, Rotates, Goes
  <2>2. {"rotate", "open"} \subseteq Stations /\ Keep - 1 \in Moving
    BY DEF Stations, Moving
  <2>3. \/ x.at = "open"
        \/ x.at = "rotate" /\ x.move = Keep - 1 /\ A!TooLong
    BY <2>2, RotatesType, GoesType
  <2>4. \A o \in Threads : writer[o].at # "rotate"
    BY <1>1 DEF A!LockFree
  <2>5. writer'[th] = x /\ \A o \in Threads \ {th} : writer'[o] = writer[o]
    BY <2>1 DEF AuditTyped
  <2>6. UNCHANGED <<log, written, killed>>
    BY DEF A!Lock
  <2> QED
    BY <2>3, <2>4, <2>5, <2>6
<1>3. \A i \in 1 .. Keep : Hole(i) = 0 /\ Hole(i)' = 0
  BY <1>1, <1>2 DEF Hole, A!LockFree
<1>4. OneRotates'
  BY <1>2, SameCardinality DEF AuditFiles, OneRotates, A!TooLong
<1>5. killed \in Nat
  BY DEF AuditTyped
<1> QED
  BY <1>2, <1>3, <1>4, <1>5, FilesStand DEF AuditFiles

LEMMA KillKeepsFiles ==
  ASSUME AuditTyped, AuditTyped', AuditFiles, NEW th \in Threads, A!Kill(th)
  PROVE  AuditFiles'
<1>1. /\ UNCHANGED <<log, written>> /\ killed' = killed + 1 /\ writer'[th].at = "idle"
      /\ \A o \in Threads \ {th} : writer'[o] = writer[o]
  BY IdleWriter DEF A!Kill, AuditTyped
<1>2. killed \in Nat /\ \A i : Hole(i) \in {0, 1} /\ Hole(i)' \in {0, 1}
  BY DEF AuditTyped, Hole
<1>3. OneRotates'
  BY <1>1 DEF AuditFiles, OneRotates
<1> QED
  BY <1>1, <1>2, <1>3, FilesStand DEF AuditFiles

LogFormed == \A i \in 0 .. Keep : log[i] # None => log[i] \subseteq 1 .. MaxLines

LEMMA LogIsFormed == AuditTyped => LogFormed
<1> SUFFICES ASSUME AuditTyped, NEW i \in 0 .. Keep, log[i] # None PROVE log[i] \subseteq 1 .. MaxLines
  BY DEF LogFormed
<1>1. log[i] \subseteq written /\ written \subseteq 1 .. opened /\ opened \in 0 .. MaxLines
  BY DEF AuditTyped
<1>2. 1 .. opened \subseteq 1 .. MaxLines
  BY <1>1, KeepType
<1> QED
  BY <1>1, <1>2

LEMMA OpenKeepsFiles ==
  ASSUME AuditTyped, AuditTyped', AuditFiles, NEW th \in Threads, A!Open(th)
  PROVE  AuditFiles'
<1> USE KeepType
<1> PICK n \in Nat : n = opened
  BY DEF AuditTyped
<1>1. /\ writer'[th].at = "write" /\ writer'[th].fd = 0 /\ writer'[th].line = n + 1
      /\ \A o \in Threads \ {th} : writer'[o] = writer[o]
  <2> PICK w \in Writers : w = writer[th]
    BY DEF AuditTyped
  <2> PICK x : x = Opens(w, n + 1)
    OBVIOUS
  <2>1. x.at = "write" /\ x.fd = 0 /\ x.line = n + 1
    BY OpensType
  <2>2. writer' = [writer EXCEPT ![th] = x]
    BY DEF A!Open, Opens
  <2> QED
    BY <2>1, <2>2 DEF AuditTyped
<1>2. /\ UNCHANGED <<written, killed>> /\ writer[th].at = "open"
      /\ \A i \in 1 .. Keep : log'[i] = log[i]
      /\ log'[0] = log[0] \/ (log[0] = None /\ log'[0] = {})
  BY DEF A!Open, AuditTyped
<1>3. \A i \in 1 .. Keep, l \in Nat : InFile(l, i)' => InFile(l, i)
  BY <1>1, <1>2 DEF InFile
<1>4. \A k \in Nat : InFile(k, 0)' => InFile(k, 0) \/ k = n + 1
  BY <1>1, <1>2 DEF InFile
<1>5. \A i \in 1 .. Keep, l \in Nat : InFile(l, i) => l <= n
  BY DEF InFile, AuditTyped
<1>6. NewestFirst'
  BY <1>3, <1>4, <1>5 DEF AuditFiles, NewestFirst
<1>7. \A l \in Nat : IsGone(l)' => IsGone(l)
  BY <1>1, <1>2 DEF IsGone, A!Lost, A!Names
<1>8. \A l \in Nat : Behind(l) \subseteq Behind(l)'
  BY <1>2 DEF Behind, Later
<1>9. killed \in Nat /\ \A i \in 1 .. Keep : Hole(i) = Hole(i)' /\ Hole(i) \in {0, 1}
  BY <1>1, <1>2 DEF AuditTyped, Hole
<1>10. OldAreFull'
  BY <1>2 DEF AuditFiles, OldAreFull
<1>11. OneRotates'
  <2>1. \A o \in Threads : writer[o].move < Keep - 1 => writer[o].move + 1 \in 1 .. Keep
    BY WriterFields DEF AuditTyped, Moving
  <2> QED
    BY <1>1, <1>2, <2>1 DEF AuditFiles, OneRotates
<1> QED
  BY <1>2, <1>3, <1>6, <1>7, <1>8, <1>9, <1>10, <1>11, Drift DEF AuditFiles

LEMMA WriteKeepsFiles ==
  ASSUME AuditTyped, AuditTyped', AuditFiles, NEW th \in Threads, A!Write(th)
  PROVE  AuditFiles'
<1> USE KeepType
<1> PICK line \in Nat : line = writer[th].line /\ line \notin written
  BY DEF A!Write, AuditTyped
<1> PICK fd \in 0 .. Keep + 1 : fd = writer[th].fd /\ (fd \in 0 .. Keep => log[fd] # None)
  BY WriterFields DEF A!Write, AuditTyped, Handles
<1>1. /\ writer[th].at = "write" /\ writer'[th].at = "idle"
      /\ \A o \in Threads \ {th} : writer'[o] = writer[o]
      /\ written' = written \cup {line} /\ killed' = killed
  BY IdleWriter DEF A!Write, AuditTyped
<1>2. /\ \A i \in (0 .. Keep) \ {fd} : log'[i] = log[i]
      /\ fd \in 0 .. Keep => log'[fd] = log[fd] \cup {line} /\ log'[fd] # None
  <2>1. log' = IF fd = Keep + 1 THEN log ELSE [log EXCEPT ![fd] = log[fd] \cup {line}]
    BY DEF A!Write, A!Gone
  <2>2. fd \in 0 .. Keep => log[fd] \cup {line} # None
    <3>1. fd \in 0 .. Keep => log[fd] \cup {line} \in SUBSET (1 .. MaxLines)
      BY DEF AuditTyped, A!Write
    <3> QED
      BY <3>1, PartsAssumption
  <2> QED
    BY <2>1, <2>2 DEF AuditTyped
<1>3. \A i \in 0 .. Keep, l \in Nat : InFile(l, i)' => InFile(l, i)
  BY <1>1, <1>2 DEF InFile
<1>4. NewestFirst'
  BY <1>3 DEF AuditFiles, NewestFirst
<1>5. \A l \in Nat : IsGone(l)' => IsGone(l)
  BY <1>1, <1>2 DEF IsGone, A!Lost, A!Names
<1>6. \A l \in Nat : Behind(l) \subseteq Behind(l)'
  BY <1>1, <1>2 DEF Behind, Later
<1>7. killed \in Nat /\ \A i \in 1 .. Keep : Hole(i) = Hole(i)' /\ Hole(i) \in {0, 1}
  BY <1>1 DEF AuditTyped, Hole
<1>8. ASSUME NEW i \in 0 .. Keep, log[i] # None, Cardinality(log[i]) > Limit
      PROVE  log'[i] # None /\ Cardinality(log'[i]) > Limit
  <2>1. log[i] \subseteq log'[i] /\ log'[i] # None
    BY <1>2, <1>8
  <2>2. log'[i] \subseteq 1 .. MaxLines
    <3>1. LogFormed'
      BY LogIsFormed, PTL
    <3> QED
      BY <2>1, <3>1 DEF LogFormed
  <2>3. /\ Cardinality(log[i]) \in Nat /\ Cardinality(log'[i]) \in Nat
        /\ Cardinality(log[i]) <= Cardinality(log'[i])
    BY <2>1, <2>2, LinesAreFinite
  <2> QED
    BY <1>8, <2>1, <2>3
<1>9. \A i \in 0 .. Keep : log'[i] = None <=> log[i] = None
  BY <1>2
<1>10. OldAreFull'
  BY <1>8, <1>9 DEF AuditFiles, OldAreFull
<1>11. OneRotates'
  <2>1. \A o \in Threads : writer[o].move < Keep - 1 => writer[o].move + 1 \in 1 .. Keep
    BY WriterFields DEF AuditTyped, Moving
  <2> QED
    BY <1>1, <1>8, <1>9, <2>1 DEF AuditFiles, OneRotates
<1> QED
  BY <1>1, <1>3, <1>4, <1>5, <1>6, <1>7, <1>10, <1>11, Drift DEF AuditFiles

\* While audit.log is full its lines are later than those of any older file.
LEMMA FullLater ==
  ASSUME AuditTyped, NewestFirst, log[0] # None, Cardinality(log[0]) > Limit,
         NEW i \in 1 .. Keep, NEW l \in Nat, InFile(l, i)
  PROVE  /\ Cardinality(Later(l)) \in Nat /\ Cardinality(Behind(l)) \in Nat
         /\ Cardinality(Later(l)) >= Cardinality(Behind(l)) + Limit + 1
<1> USE KeepType
<1>1. written \subseteq 1 .. MaxLines
  BY DEF AuditTyped
<1> PICK f, b, all : f = log[0] /\ b = Behind(l) /\ all = Later(l)
  OBVIOUS
<1>2. f \subseteq written /\ \A k \in f : l < k
  BY <1>1 DEF AuditTyped, NewestFirst, InFile
<1>3. all \subseteq 1 .. MaxLines /\ b \subseteq all /\ f \subseteq all /\ b \cap f = {}
  BY <1>1, <1>2 DEF Behind, Later
<1>4. /\ IsFiniteSet(b) /\ IsFiniteSet(f)
      /\ Cardinality(b) \in Nat /\ Cardinality(f) \in Nat /\ Cardinality(all) \in Nat
  BY <1>3, LinesAreFinite
<1>5. b \cup f \in SUBSET all /\ Cardinality(b \cup f) \in Nat /\ Cardinality(b \cup f) <= Cardinality(all)
  BY <1>3, LinesAreFinite
<1>6. Cardinality({}) = 0
  BY FS_EmptySet
<1>7. Cardinality(b \cup f) = Cardinality(b) + Cardinality(f)
  <2>1. Cardinality(b \cup f) = Cardinality(b) + Cardinality(f) - Cardinality(b \cap f)
    BY <1>4, FS_Union
  <2>2. Cardinality(b \cap f) = 0
    BY <1>3, <1>6
  <2> QED
    BY <1>4, <2>1, <2>2
<1> QED
  BY <1>4, <1>5, <1>7

\* Where the lines of a file are when file m has become file m + 1.
LEMMA LinesMove ==
  ASSUME AuditTyped, NEW th \in Threads, A!Move(th),
         NEW m \in 0 .. Keep - 1, m = writer[th].move, log[m] # None
  PROVE  /\ UNCHANGED <<written, killed>>
         /\ log'[m] = None /\ log'[m + 1] = log[m]
         /\ \A i \in (0 .. Keep) \ {m, m + 1} : log'[i] = log[i]
         /\ \A l \in Nat : /\ ~InFile(l, m)'
                           /\ InFile(l, m + 1)' => InFile(l, m)
                           /\ IsGone(l)' => IsGone(l) \/ InFile(l, m + 1)
         /\ \A i \in (0 .. Keep) \ {m, m + 1}, l \in Nat : InFile(l, i)' => InFile(l, i)
<1> USE KeepType
<1>1. /\ log'[m] = None /\ log'[m + 1] = log[m]
      /\ \A i \in (0 .. Keep) \ {m, m + 1} : log'[i] = log[i]
  BY MoveFiles
<1>2. ASSUME NEW o \in Threads, writer'[o].at = "write"
      PROVE  /\ writer[o].at = "write" /\ writer'[o].line = writer[o].line
             /\ writer[o].fd \in 0 .. Keep + 1
             /\ writer'[o].fd = IF writer[o].fd = m THEN m + 1
                                ELSE IF writer[o].fd = m + 1 THEN Keep + 1 ELSE writer[o].fd
  <2>1. o # th /\ writer[o].fd \in 0 .. Keep + 1 /\ writer'[o].fd = A!Named(writer[o].fd, m)
        /\ writer[o].at = "write" /\ writer'[o].line = writer[o].line
    BY <1>2, MoveWriters
  <2> QED
    BY <2>1 DEF A!Named, A!Gone
<1>3. UNCHANGED <<written, killed>>
  BY DEF A!Move
<1>4. ASSUME NEW l \in Nat, InFile(l, m)' PROVE FALSE
  BY <1>1, <1>2, <1>4 DEF InFile
<1>5. ASSUME NEW l \in Nat, InFile(l, m + 1)' PROVE InFile(l, m)
  BY <1>1, <1>2, <1>5 DEF InFile
<1>6. ASSUME NEW i \in (0 .. Keep) \ {m, m + 1}, NEW l \in Nat, InFile(l, i)' PROVE InFile(l, i)
  BY <1>1, <1>2, <1>6 DEF InFile
<1>7. ASSUME NEW l \in Nat, IsGone(l)' PROVE IsGone(l) \/ InFile(l, m + 1)
  <2>1. CASE l \in A!Lost'
    <3>1. l \in written /\ \A i \in 0 .. Keep : log'[i] = None \/ l \notin log'[i]
      BY <1>3, <2>1 DEF A!Lost, A!Names
    <3>2. \A i \in (0 .. Keep) \ {m + 1} : log[i] = None \/ l \notin log[i]
      BY <1>1, <3>1
    <3> QED
      BY <3>1, <3>2 DEF IsGone, InFile, A!Lost, A!Names
  <2>2. CASE l \notin A!Lost'
    <3> PICK o \in Threads : writer'[o].at = "write" /\ writer'[o].fd = Keep + 1 /\ writer'[o].line = l
      BY <1>7, <2>2 DEF IsGone
    <3> QED
      BY <1>2 DEF IsGone, InFile
  <2> QED
    BY <2>1, <2>2
<1> QED
  BY <1>1, <1>3, <1>4, <1>5, <1>6, <1>7

LEMMA FullIfOneMore ==
  ASSUME NEW c \in Nat, NEW d \in Nat, NEW k \in Int, c >= d + Limit + 1, d >= Full(k)
  PROVE  c >= Full(k + 1)
<1>1. Full(k) \in Int /\ Full(k + 1) = Full(k) + Limit + 1
  BY FullIsLinear
<1> QED
  BY <1>1, KeepType

LEMMA MoveKeepsFiles ==
  ASSUME AuditTyped, AuditTyped', AuditFiles, NEW th \in Threads, A!Move(th)
  PROVE  AuditFiles'
<1> USE KeepType
<1> PICK m : m = writer[th].move
  OBVIOUS
<1>1. /\ m \in 0 .. Keep - 1 /\ writer[th].at = "rotate"
      /\ \A o \in Threads \ {th} : /\ writer[o].at # "rotate"
                                   /\ writer'[o].at = writer[o].at
                                   /\ writer'[o].move = writer[o].move
      /\ IF m = 0 THEN writer'[th].at = "open"
         ELSE writer'[th].at = "rotate" /\ writer'[th].move = m - 1
  BY MoveWriters DEF AuditFiles, OneRotates
<1>2. /\ log[0] # None /\ Cardinality(log[0]) > Limit
      /\ m < Keep - 1 => log[m + 1] = None
  BY <1>1 DEF AuditFiles, OneRotates
<1> PICK k \in Nat : k = killed
  BY DEF AuditTyped
<1>3. /\ killed' = killed
      /\ \A i \in 1 .. Keep : /\ Hole(i) = IF m + 1 < i THEN 1 ELSE 0
                              /\ Hole(i)' = IF m # 0 /\ m < i THEN 1 ELSE 0
  BY <1>1 DEF A!Move, Hole
<1>4. CASE log[m] = None
  <2>1. log' = log /\ UNCHANGED <<written, killed>>
    BY <1>1, <1>4, MoveFiles DEF A!Move
  <2>2. \A o \in Threads : writer'[o].at = "write" =>
           writer[o].at = "write" /\ writer'[o].fd = writer[o].fd /\ writer'[o].line = writer[o].line
    BY <1>1, <1>4, MoveWriters DEF A!Named
  <2>3. OneRotates'
    BY <1>1, <1>2, <1>4, <2>1 DEF AuditFiles, OneRotates
  <2>4. \A i \in 1 .. Keep : killed + Hole(i) <= killed' + Hole(i)'
    BY <1>1, <1>2, <1>3, <1>4
  <2> QED
    BY <2>1, <2>2, <2>3, <2>4, FilesStand DEF AuditFiles
<1>5. CASE log[m] # None
  <2>1. /\ UNCHANGED <<written, killed>>
        /\ log'[m] = None /\ log'[m + 1] = log[m]
        /\ \A i \in (0 .. Keep) \ {m, m + 1} : log'[i] = log[i]
        /\ \A l \in Nat : /\ ~InFile(l, m)'
                          /\ InFile(l, m + 1)' => InFile(l, m)
                          /\ IsGone(l)' => IsGone(l) \/ InFile(l, m + 1)
        /\ \A i \in (0 .. Keep) \ {m, m + 1}, l \in Nat : InFile(l, i)' => InFile(l, i)
    BY <1>1, <1>5, LinesMove
  <2>2. OneRotates'
    BY <1>1, <1>2, <2>1 DEF AuditFiles, OneRotates
  <2>3. OldAreFull'
    BY <1>1, <1>2, <2>1 DEF AuditFiles, OldAreFull
  <2>4. NewestFirst'
    <3> SUFFICES ASSUME NEW i \in 1 .. Keep, NEW l \in Nat, NEW j \in Nat, InFile(l, i)', InFile(j, 0)'
                 PROVE  l < j
      BY DEF NewestFirst
    <3>1. m # 0 /\ InFile(j, 0)
      BY <1>1, <2>1
    <3>2. \E h \in 1 .. Keep : InFile(l, h)
      BY <1>1, <2>1, <3>1
    <3> QED
      BY <3>1, <3>2 DEF AuditFiles, NewestFirst
  <2>5. \A l \in Nat : /\ Later(l)' = Later(l)
                       /\ Behind(l)' = IF m = 0 THEN Later(l) ELSE Behind(l)
    BY <1>1, <2>1 DEF Later, Behind
  <2>6. ASSUME NEW i \in 1 .. Keep, NEW l \in Nat, InFile(l, i)
        PROVE  /\ Cardinality(Behind(l)) >= Full(i - 1 - k - Hole(i))
               /\ Cardinality(Later(l)) \in Nat /\ Cardinality(Behind(l)) \in Nat
               /\ Cardinality(Later(l)) >= Cardinality(Behind(l)) + Limit + 1
    BY <1>2, <2>6, FullLater DEF AuditFiles, FullBefore
  <2>7. FullBefore'
    <3> SUFFICES ASSUME NEW i \in 1 .. Keep, NEW l \in Nat, InFile(l, i)'
                 PROVE  Cardinality(Behind(l)') >= Full(i - 1 - k - Hole(i)')
      BY <2>1 DEF FullBefore
    <3>1. CASE i = m
      BY <2>1, <3>1
    <3>2. CASE i = m + 1 /\ m # 0
      <4>1. m \in 1 .. Keep /\ InFile(l, m) /\ Hole(m) = 0 /\ Hole(i)' = 1
        BY <1>1, <1>3, <2>1, <3>2
      <4>2. Cardinality(Behind(l)) >= Full(m - 1 - k - 0)
        BY <2>6, <4>1
      <4>3. m - 1 - k - 0 = i - 1 - k - 1
        BY <1>1, <3>2
      <4> QED
        BY <2>5, <3>2, <4>1, <4>2, <4>3
    <3>3. CASE i = m + 1 /\ m = 0
      <4>1. i - 1 - k - Hole(i)' \in Int /\ i - 1 - k - Hole(i)' <= 0 /\ InFile(l, 0)
        BY <1>3, <2>1, <3>3
      <4>2. Later(l) \subseteq 1 .. MaxLines
        <5>1. written \subseteq 1 .. MaxLines
          BY DEF AuditTyped
        <5> QED
          BY <5>1 DEF Later
      <4>3. Cardinality(Later(l)) \in Nat
        BY <4>2, LinesAreFinite
      <4> QED
        BY <2>5, <3>3, <4>1, <4>3, FullIsLinear
    <3>4. CASE i \notin {m, m + 1}
      <4>1. InFile(l, i) /\ (m # 0 => Hole(i)' = Hole(i)) /\ (m = 0 => Hole(i)' = 0 /\ Hole(i) = 1)
        BY <1>1, <1>3, <2>1, <3>4
      <4>2. CASE m # 0
        BY <2>5, <2>6, <4>1, <4>2
      <4>3. CASE m = 0
        <5>1. i - 1 - k - 1 \in Int /\ i - 1 - k - 1 + 1 = i - 1 - k - 0
          OBVIOUS
        <5>2. Cardinality(Later(l)) >= Full(i - 1 - k - 1 + 1)
          BY <2>6, <4>1, <4>3, <5>1, FullIfOneMore
        <5> QED
          BY <2>5, <4>1, <4>3, <5>1, <5>2
      <4> QED
        BY <4>2, <4>3
    <3> QED
      BY <3>1, <3>2, <3>3, <3>4
  <2>8. GoneAreOld'
    <3> SUFFICES ASSUME NEW l \in Nat, IsGone(l)' PROVE Cardinality(Later(l)') >= Full(Keep - k)
      BY <2>1 DEF GoneAreOld
    <3>1. CASE IsGone(l)
      BY <2>5, <3>1 DEF AuditFiles, GoneAreOld
    <3>2. CASE InFile(l, m + 1)
      <4>1. log[m + 1] # None
        BY <1>1, <3>2 DEF InFile, AuditTyped
      <4>2. m + 1 = Keep /\ Keep \in 1 .. Keep /\ Hole(Keep) = 0
        BY <1>1, <1>2, <1>3, <4>1
      <4>3. Keep - 1 - k - 0 \in Int /\ Keep - 1 - k - 0 + 1 = Keep - k
        OBVIOUS
      <4>4. Cardinality(Later(l)) >= Full(Keep - 1 - k - 0 + 1)
        BY <2>6, <3>2, <4>2, <4>3, FullIfOneMore
      <4> QED
        BY <2>5, <4>3, <4>4
    <3> QED
      BY <2>1, <3>1, <3>2
  <2> QED
    BY <2>2, <2>3, <2>4, <2>7, <2>8 DEF AuditFiles
<1> QED
  BY <1>4, <1>5

LEMMA AuditNext == ASSUME AuditInv, [A!Next]_(A!vars) PROVE AuditInv'
<1>1. AuditTyped /\ AuditTyped'
  BY AuditTypedNext DEF AuditInv
<1>2. late' = 0 => late = 0
  <2>1. \A th \in Threads : A!Lock(th) => late' = late \/ late' = late + 1
    BY DEF A!Lock
  <2>2. \A th \in Threads : A!Audit(th) \/ A!Move(th) \/ A!Open(th) \/ A!Kill(th) => late' = late
    BY DEF A!Audit, A!Move, A!Open, A!Kill
  <2>3. \A th \in Threads : A!Write(th) => late' = late
    BY DEF A!Write
  <2>4. late \in Nat /\ (UNCHANGED A!vars => late' = late)
    BY <1>1 DEF AuditTyped, A!vars
  <2>5. late' = late \/ late' = late + 1
    BY <2>1, <2>2, <2>3, <2>4 DEF A!Next
  <2> QED
    BY <2>4, <2>5
<1>3. ASSUME late' = 0, AuditFiles PROVE AuditFiles'
  <2>1. CASE UNCHANGED A!vars
    <3>1. killed \in Nat /\ \A i : Hole(i)' = Hole(i) /\ Hole(i) \in {0, 1}
      BY <1>1, <2>1 DEF AuditTyped, Hole, A!vars
    <3>2. OneRotates'
      BY <1>3, <2>1 DEF AuditFiles, OneRotates, A!vars
    <3> QED
      BY <1>1, <1>3, <2>1, <3>1, <3>2, FilesStand DEF AuditFiles, A!vars
  <2>2. CASE A!Next
    BY <1>1, <1>3, <2>2, AuditKeepsFiles, LockKeepsFiles, KillKeepsFiles, OpenKeepsFiles,
       WriteKeepsFiles, MoveKeepsFiles DEF A!Next
  <2> QED
    BY <2>1, <2>2
<1> QED
  BY <1>1, <1>2, <1>3 DEF AuditInv, AuditFiles

\* The audit log keeps as much as it says (hermes_live.py 94-118): as long as every rotator waits
\* for the lock, an old file is never a short one, however many threads find the log too long at
\* once, and what is gone is older than Keep full files, less one for each process killed.
THEOREM AuditIsKept == EnginesSpec => []AuditKept
<1>1. AuditInv /\ [EnginesNext]_allVars => AuditInv'
  BY PartsStep, AuditNext
<1>2. AuditInv => AuditKept
  <2> SUFFICES ASSUME AuditInv, late = 0
               PROVE  /\ \A i \in A!Names \ {0} : log[i] # None => A!Cardinality(log[i]) > Limit
                      /\ \A line \in A!Lost :
                           A!Cardinality({l \in written : l > line}) >= (Keep - killed) * (Limit + 1)
    BY DEF AuditKept, A!AuditKept
  <2>1. A!Lost \subseteq Nat
    <3>1. written \subseteq 1 .. opened /\ 1 .. opened \subseteq Nat
      BY DEF AuditInv, AuditTyped
    <3> QED
      BY <3>1 DEF A!Lost
  <2>2. \A i \in 1 .. Keep : log[i] # None => A!Cardinality(log[i]) > Limit
    BY SameCardinality DEF AuditInv, OldAreFull
  <2>3. \A line \in A!Lost : A!Cardinality(Later(line)) >= Full(Keep - killed)
    BY <2>1, SameCardinality DEF AuditInv, GoneAreOld, IsGone
  <2> QED
    BY <2>2, <2>3, KeepType DEF A!Names, Later, Full
<1> QED
  BY <1>1, <1>2, AuditStarts, PTL DEF EnginesSpec
===============================================================================
