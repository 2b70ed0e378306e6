----------------------------- MODULE LiveSession ------------------------------
(***************************************************************************)
(* The turns of an agent's sessions: the request a session sends is        *)
(* tokenized, the model's reply is restored with the tokens its own        *)
(* session was shown, and the exact text of the reply is kept, so that it  *)
(* is sent back unchanged when the history returns.                        *)
(* src/hermescloak/adapter/hermes_live.py, hermes_plugin/__init__.py and   *)
(* replay.py.  Sessions share the vault, the replay cache and the host's   *)
(* threads; MODE may be edited and the vault may start a new lifetime at   *)
(* any time, and the process may restart.                                  *)
(***************************************************************************)
EXTENDS Integers, FiniteSets, Functions

CONSTANTS
  Threads,    \* the host's threads, reused from turn to turn and session to session
  Sessions,
  Values,     \* real values, all of them found by the detectors
  Prompts,    \* what a user or a tool may put in a request
  Replies,    \* what the model may write
  Setups,     \* what registration found, and the profile: its fail mode, its jev_action
  MaxSent,    \* _MAX_SENT_SESSIONS
  ReplayMax,  \* MAX_ENTRIES
  MaxLives, MaxTurns,  \* bounds: lifetimes, requests
  MaxEvents,  \* bound: new lifetimes, edits of MODE and restarts, together
  None

Numbers == 0 .. Cardinality(Values)

\* A text is what it holds: real values, and tokens by their number.
Text == [reals : SUBSET Values, toks : SUBSET (Numbers \ {0})]

ASSUME ConstantsAssumption ==
  /\ Setups \subseteq [degraded : BOOLEAN, closed : BOOLEAN, blocks : BOOLEAN]
  /\ IsFiniteSet(Values) /\ Prompts \subseteq Text /\ Replies \subseteq Text
  /\ {MaxSent, ReplayMax, MaxLives, MaxTurns} \subseteq Nat \ {0} /\ MaxEvents \in Nat
  /\ None \notin Text /\ (\A toks \in SUBSET Numbers : None # toks) /\ None \notin {"passed", "refused"}

VARIABLES
  mode,     \* the MODE file
  setup,    \* whether an interception point is missing, the fail mode, jev_action
  token,    \* the vault: the number of a value's token, 0 when it has none
  life,     \* the vault's generation
  sent,     \* _SENT: the tokens a session was shown, None when it has no entry
  shown,    \* _SHOWN: the context variable of each thread
  entries,  \* the replay cache: restored text, generation, model text
  saved,    \* replay.json
  turn,     \* the turn each thread is in
  hist,     \* the last reply in each session's history
  had,      \* history: the values each session's own requests held
  wrote,    \* history: the values the model wrote in clear
  turns, events

vars == <<mode, setup, token, life, sent, shown, entries, saved, turn, hist, had, wrote,
          turns, events>>
vault == <<token, life>>
replay == <<entries, saved>>
seen == <<hist, had, wrote>>
fixed == <<setup, turns>>
env == <<mode, setup, turns, events>>

Event == events < MaxEvents /\ events' = events + 1

\* A turn: its session, whether it is an auxiliary call, the texts still to be transformed,
\* the pairs <<text, what was sent for it>>, the tokens put in, the generation read for the
\* request, and what became of it; then the reply, the generation read for it, and the
\* restored text.
NoTurn == [stage |-> "idle", session |-> None, aux |-> FALSE, todo |-> {}, pairs |-> {},
           minted |-> {}, asked |-> 0, how |-> None, reply |-> None, gen |-> 0, back |-> None]

\* The MODE file: not there, a mode, something else, or not to be read.
Modes == {"off", "shadow", "enforce"}
Files == Modes \cup {"none", "other", "unreadable"}

\* _mode: no file is off, and whatever is not known is enforce.
ModeOf(file) == IF file = "none" THEN "off" ELSE IF file \in Modes THEN file ELSE "enforce"

Init ==
  /\ \E file \in Files : mode = ModeOf(file)
  /\ setup \in Setups
  /\ token = [v \in Values |-> 0] /\ life = 1
  /\ sent = [s \in Sessions |-> None]
  /\ shown = [th \in Threads |-> None]
  /\ entries = {} /\ saved = {}
  /\ turn = [th \in Threads |-> NoTurn]
  /\ hist = [s \in Sessions |-> None]
  /\ had = [s \in Sessions |-> {}]
  /\ wrote = {}
  /\ turns = 0 /\ events = 0

-----------------------------------------------------------------------------
(* The vault and the restoring of a text.                                  *)

IsMap(tok) == Range(tok) \ {0} = 1 .. Cardinality({v \in Values : tok[v] # 0})
Maps == {tok \in [Values -> Numbers] : IsMap(tok)}

\* The vault once it has given the values their tokens: what it knew keeps its token.
Learnt(tok, vals) ==
  {new \in Maps : \A v \in Values : IF tok[v] # 0 THEN new[v] = tok[v] ELSE (new[v] # 0) = (v \in vals)}

\* restore_text: the tokens of the text that the vault knows and the scope allows.
Restored(text, tok, allowed) ==
  LET back == {v \in Values : tok[v] \in (text.toks \cap allowed) \ {0}}
  IN  [reals |-> text.reals \cup back, toks |-> text.toks \ {tok[v] : v \in back}]

Masked(text, tok) == [reals |-> {}, toks |-> text.toks \cup {tok[v] : v \in text.reals}]

\* Another process's tokens, or another lifetime, met when the vault looks at the disk
\* for a value or a token that it does not know.
Look(th) ==
  /\ turn[th].stage \in {"walk", "restore", "done"}
  /\ \/ UNCHANGED <<life, events>> /\ \E v \in Values : token[v] = 0 /\ token' \in Learnt(token, {v})
     \/ Event /\ life < MaxLives /\ life' = life + 1 /\ token' \in Maps
  /\ UNCHANGED <<mode, fixed, sent, shown, replay, turn, seen>>

-----------------------------------------------------------------------------
(* A request.                                                              *)

\* The history comes with every request.
Carried(s) == IF hist[s] = None THEN {} ELSE {hist[s]}

\* Every text is replaced by a notice: nothing of the request is left.
Withheld == {}

\* An interception point is missing, and what cannot be filtered is not to be sent.
Refused == setup.degraded /\ setup.closed /\ mode = "enforce"

\* cloak_sanitize_request up to the walk.  Off: the original goes out.
Request(th, s, aux, refused) ==
  /\ turn[th].stage \in {"idle", "done"} /\ turns < MaxTurns /\ turns' = turns + 1
  /\ aux \/ \A other \in Threads : turn[other].session = s => turn[other].stage \in {"idle", "done"}
  /\ \E prompt \in Prompts :
       LET texts == {prompt} \cup Carried(s)
           begun == [NoTurn EXCEPT !.session = s, !.aux = aux, !.asked = life]
           clear == [begun EXCEPT !.stage = "wait", !.pairs = {<<t, t>> : t \in texts}]
       IN  /\ had' = [had EXCEPT ![s] = @ \cup UNION {t.reals : t \in texts}]
           /\ \/ /\ mode = "off"
                 /\ turn' = [turn EXCEPT ![th] = [clear EXCEPT !.how = "passed"]]
                 /\ UNCHANGED shown
              \/ /\ refused
                 /\ turn' = [turn EXCEPT ![th] =
                      [begun EXCEPT !.stage = "wait", !.how = "refused", !.pairs = Withheld]]
                 /\ UNCHANGED shown
              \/ /\ mode = "shadow"
                 /\ turn' = [turn EXCEPT ![th] = [clear EXCEPT !.how = "shadow"]]
                 /\ shown' = [shown EXCEPT ![th] = {}]
              \/ /\ mode = "enforce" /\ ~refused
                 /\ turn' = [turn EXCEPT ![th] = [begun EXCEPT !.stage = "walk", !.todo = texts]]
                 /\ shown' = [shown EXCEPT ![th] = {}]
  /\ UNCHANGED <<mode, setup, events, vault, sent, replay, hist, wrote>>

\* A turn of the agent, and a call of the host's auxiliary client, which is sent on behalf of
\* the session, next to its turn, and does not look at _DEGRADED.
Middleware(th, s) == Request(th, s, FALSE, Refused)
Auxiliary(th, s) == Request(th, s, TRUE, FALSE)

\* Mutant of Hits: an entry of any generation will do.
HitsOfAny(text, gen) ==
  {e \in entries : e.restored = text /\ e.model.toks \subseteq Range(token)}

\* ReplayCache.lookup and the check that every token of the hit can be restored.
Hits(text, gen) ==
  {e \in entries : e.restored = text /\ e.gen = gen /\ e.model.toks \subseteq Range(token)}

\* Mutant of Wrapped: tokens that were in the text already count as put in.
WrappedAll(t, text, out) ==
  [t EXCEPT !.todo = @ \ {text}, !.pairs = @ \cup {<<text, out>>},
            !.minted = @ \cup out.toks]

Wrapped(t, text, out) ==
  [t EXCEPT !.todo = @ \ {text}, !.pairs = @ \cup {<<text, out>>},
            !.minted = @ \cup (out.toks \ text.toks)]

\* One string of the request: the model's own words when they are remembered, else tokenized.
\* _minting records the tokens that the transformation put in.
Walk(th, text) ==
  LET t == turn[th] IN
  /\ t.stage = "walk" /\ text \in t.todo
  /\ \/ \E e \in Hits(text, t.asked) :
          turn' = [turn EXCEPT ![th] = Wrapped(t, text, e.model)] /\ UNCHANGED token
     \/ /\ Hits(text, t.asked) = {}
        /\ token' \in Learnt(token, text.reals)
        /\ turn' = [turn EXCEPT ![th] = Wrapped(t, text, Masked(text, token'))]
  /\ UNCHANGED <<env, life, sent, shown, replay, seen>>

\* _remember_shown: the least recently used sessions beyond the bound are forgotten.
Remember(th) ==
  LET t == turn[th]
      all == (IF sent[t.session] = None THEN {} ELSE sent[t.session]) \cup t.minted
      others == {s \in Sessions \ {t.session} : sent[s] # None}
  IN
  /\ t.stage = "walk" /\ t.todo = {}
  /\ \E kept \in SUBSET others :
       /\ IF sent[t.session] # None \/ Cardinality(others) < MaxSent THEN kept = others
          ELSE Cardinality(kept) = MaxSent - 1
       /\ sent' = [s \in Sessions |-> IF s = t.session THEN all
                                      ELSE IF s \in kept THEN sent[s] ELSE None]
  /\ shown' = [shown EXCEPT ![th] = all]
  /\ turn' = [turn EXCEPT ![th].stage = "check"]
  /\ UNCHANGED <<env, vault, replay, seen>>

\* What residual.check says of the masked text: nothing when it is off or not configured, an
\* error when it is over its cap or its answer does not come.
Verdicts == {None, "error", "clear", "hits"}

\* _jev_residual: an error is as good as no verdict.
Residual(verdict) == IF verdict = "error" THEN None ELSE verdict

\* The masked request is held against it; a notice goes out when it is to block.
Held(t, verdict) ==
  IF Residual(verdict) = "hits" /\ setup.blocks
  THEN [t EXCEPT !.stage = "wait", !.how = "blocked", !.pairs = Withheld]
  ELSE [t EXCEPT !.stage = "wait", !.how = "masked"]

Send(th) ==
  /\ turn[th].stage = "check"
  /\ \E verdict \in Verdicts : turn' = [turn EXCEPT ![th] = Held(turn[th], verdict)]
  /\ UNCHANGED <<env, vault, sent, shown, replay, seen>>

\* Mutant of Fallen: the original goes out whatever the fail mode says.
FallenOpen(t) == [t EXCEPT !.pairs = {<<p[1], p[1]>> : p \in @} \cup {<<x, x>> : x \in t.todo},
                           !.todo = {}, !.minted = {}, !.stage = "wait", !.how = "failed"]

\* What goes out after an exception: a notice, or the original when the profile says so.
Fallen(t) ==
  [t EXCEPT !.pairs = IF setup.closed THEN Withheld
                      ELSE {<<p[1], p[1]>> : p \in @} \cup {<<x, x>> : x \in t.todo},
            !.todo = {}, !.minted = {}, !.stage = "wait", !.how = "failed"]

\* Any exception on the way.
Fail(th) ==
  /\ turn[th].stage \in {"walk", "check"}
  /\ turn' = [turn EXCEPT ![th] = Fallen(turn[th])]
  /\ UNCHANGED <<env, vault, sent, shown, replay, seen>>

-----------------------------------------------------------------------------
(* A reply.                                                                *)

\* Mutant of ScopeOf: the reply is restored with the session's set, not the turn's.
ScopeById(th) == IF sent[turn[th].session] = None THEN {} ELSE sent[turn[th].session]

\* _scope(None): the set of the turn this thread is in, or nothing at all.
ScopeOf(th) == IF shown[th] = None THEN {} ELSE shown[th]

\* The host keeps the reply in the history of the session; not that of an auxiliary call.
Kept(t, text) == IF t.aux THEN hist ELSE [hist EXCEPT ![t.session] = text]

\* The reply has come: of what became of the request only its scope matters from here on.
Answered(t, r) ==
  [t EXCEPT !.pairs = {}, !.reply = r, !.how = IF @ \in {"passed", "refused"} THEN @ ELSE "scoped"]

\* cloak_restore_normalized begins: MODE, the scope and the generation are read.
Reply(th, r) ==
  /\ turn[th].stage = "wait"
  /\ wrote' = wrote \cup r.reals
  /\ IF mode = "enforce"
     THEN /\ turn' = [turn EXCEPT ![th] = [Answered(@, r) EXCEPT !.stage = "restore", !.gen = life]]
          /\ UNCHANGED hist
     ELSE /\ turn' = [turn EXCEPT ![th] = [Answered(@, r) EXCEPT !.stage = "done"]]
          /\ hist' = Kept(turn[th], r)
  /\ UNCHANGED <<env, vault, sent, shown, replay, had>>

\* Mutant of Cut: an entry is dropped only after the bound has been passed.
CutLate(all, new) ==
  {kept \in SUBSET all : /\ Cardinality(kept) = (IF Cardinality(all) > ReplayMax + 1 THEN ReplayMax
                                                 ELSE Cardinality(all))
                         /\ new \cap all \subseteq kept}

\* At most ReplayMax entries, the new one among them.
Cut(all, new) ==
  {kept \in SUBSET all : /\ Cardinality(kept) = (IF Cardinality(all) > ReplayMax THEN ReplayMax
                                                 ELSE Cardinality(all))
                         /\ new \cap all \subseteq kept}

\* ReplayCache.remember: one entry for a restored text, the last one.
Remembered(new) ==
  Cut({e \in entries : \A n \in new : e.restored # n.restored} \cup new, new)

\* ReplayCache.save: the file's entries are taken in, ours win, and those of one generation
\* are left, the last one that any thread has come with.
SavedAs(kept, new, gen) ==
  LET old == {e \in saved : \A k \in kept : k.restored # e.restored}
  IN  Cut({e \in kept \cup old : e.gen = gen}, new)

\* ... and ends: the text is restored, remembered, and the cache saved if there is anything
\* new in it, unless the lock or the disk fails; then it stays dirty until a later reply.
Restore(th) ==
  LET t == turn[th]
      back == Restored(t.reply, token, ScopeOf(th))
      new == IF back = t.reply THEN {} ELSE {[restored |-> back, gen |-> t.gen, model |-> t.reply]}
      came == ({turn[o].gen : o \in Threads} \cup {turn[o].asked : o \in Threads}) \ {0}
  IN
  /\ t.stage = "restore"
  /\ \E kept \in Remembered(new) :
       \/ entries' = kept /\ UNCHANGED saved
       \/ /\ new # {} \/ entries # saved
          /\ \E gen \in came : \E all \in SavedAs(kept, new, gen) : entries' = all /\ saved' = all
  /\ turn' = [turn EXCEPT ![th].stage = "done", ![th].back = back]
  /\ hist' = Kept(t, back)
  /\ UNCHANGED <<env, vault, sent, shown, had, wrote>>

\* Something raises before the text is restored: the reply is kept as it came.
RestoreFails(th) ==
  /\ turn[th].stage = "restore"
  /\ turn' = [turn EXCEPT ![th].stage = "done"]
  /\ hist' = Kept(turn[th], turn[th].reply)
  /\ UNCHANGED <<env, vault, sent, shown, replay, had, wrote>>

\* cloak_restore_args_dict, cloak_restore_text_for and the stream, which change nothing: the
\* session's set, or the context they run in, that of the turn or a worker's that has none.
RestoredById(th, text, scope) ==
  LET s == turn[th].session IN Restored(text, token, IF sent[s] # None THEN sent[s] ELSE scope)

-----------------------------------------------------------------------------
(* The surroundings.                                                       *)

\* The operator edits the MODE file.
Flip ==
  /\ Event
  /\ \E file \in Files : mode' = ModeOf(file)
  /\ mode' # mode
  /\ UNCHANGED <<fixed, vault, sent, shown, replay, turn, seen>>

\* The process starts again: the vault and replay.json are still there.
Restart ==
  /\ Event
  /\ sent' = [s \in Sessions |-> None] /\ shown' = [th \in Threads |-> None]
  /\ turn' = [th \in Threads |-> NoTurn]
  /\ entries' = saved
  /\ UNCHANGED <<mode, fixed, vault, saved, seen>>

Next ==
  \/ Flip \/ Restart
  \/ \E th \in Threads :
       \/ \E s \in Sessions : Middleware(th, s) \/ Auxiliary(th, s)
       \/ \E text \in turn[th].todo : Walk(th, text)
       \/ Look(th) \/ Remember(th) \/ Send(th) \/ Fail(th) \/ Restore(th) \/ RestoreFails(th)
       \/ \E r \in Replies : Reply(th, r)

Spec == Init /\ [][Next]_vars

Entry == [restored : Text, gen : 1 .. MaxLives, model : Text]

TypeOK ==
  /\ mode \in Modes
  /\ token \in Maps /\ life \in 1 .. MaxLives
  /\ sent \in [Sessions -> {None} \cup SUBSET Numbers]
  /\ Cardinality({s \in Sessions : sent[s] # None}) <= MaxSent
  /\ shown \in [Threads -> {None} \cup SUBSET Numbers]
  /\ entries \cup saved \subseteq Entry
  /\ Cardinality(entries) <= ReplayMax /\ Cardinality(saved) <= ReplayMax
  /\ \A e1, e2 \in entries : e1.restored = e2.restored => e1 = e2
  /\ hist \in [Sessions -> Text \cup {None}]

-----------------------------------------------------------------------------
(* Properties.                                                             *)

\* While the vault is in its first lifetime, a turn that was given a scope of its own gets
\* no real value back that its own session's requests did not hold, whatever tokens the
\* model writes or a web page suggests, whichever threads and sessions the turns share, and
\* however old the session's entry is (hermes_live.py:311-315).
OnlyOwnValues ==
  life = 1 => \A th \in Threads :
    LET t == turn[th] IN
    t.how \notin {None, "passed", "refused"} =>
      /\ t.back # None => t.back.reals \ t.reply.reals \subseteq had[t.session]
      /\ \A r \in Replies, scope \in {ScopeOf(th), {}} :
           RestoredById(th, r, scope).reals \ r.reals \subseteq had[t.session]

\* A reply that is restored gets back every value whose token its own request put in, while
\* the vault stays in the lifetime the request began in, even when the session's entry has
\* been dropped.  (One whose restoring raises is kept as it came.)
OwnValuesReturn ==
  \A th \in Threads :
    LET t == turn[th] IN
    t.back # None /\ t.asked = life =>
      \A v \in Values : token[v] \in (t.reply.toks \cap t.minted) \ {0} => v \in t.back.reals

\* What is sent for a text stands for the same values: as long as the vault is in the
\* lifetime in which the request began, each token put in is the token of one of the text's
\* values, and no value is lost (replay.py:15-28).
SentStands ==
  \A th \in Threads :
    LET t == turn[th] IN
    t.stage \in {"check", "wait"} /\ t.asked = life =>
      \A p \in t.pairs :
        /\ p[1].reals \subseteq Restored(p[2], token, Numbers).reals
        /\ \A v \in Values : token[v] \in p[2].toks \ p[1].toks => v \in p[1].reals

\* In enforce a request that was let through or that failed closed holds no value in clear
\* but what the model itself wrote.
NothingInClear ==
  \A th \in Threads :
    LET t == turn[th] IN
    t.stage = "wait" /\ (t.how = "masked" \/ (t.how = "failed" /\ setup.closed)) =>
      \A p \in t.pairs : p[2].reals \subseteq wrote
=============================================================================
