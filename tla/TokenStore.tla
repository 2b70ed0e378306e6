------------------------------ MODULE TokenStore ------------------------------
(***************************************************************************)
(* What the vault promises those who use it, whatever files, locks and     *)
(* journals it is made of: in one lifetime a token stands for one value    *)
(* and a value for one token, nothing handed out is taken back, and a      *)
(* process that can restore a token can restore it for as long as it stays *)
(* in that lifetime.  DurableVault implements it (ImplementsStore).        *)
(***************************************************************************)
CONSTANTS Procs, Tokens, Values, Gens, None

VARIABLES
  issued,   \* tokens handed out, with value and lifetime
  life,     \* the lifetime each process is in
  known     \* those handed out that each process can restore

vars == <<issued, life, known>>

Handed == [tok : Tokens, val : Values, gen : Gens]

Of(g) == {r \in issued : r.gen = g}

Init ==
  /\ issued = {}
  /\ life = [p \in Procs |-> None]
  /\ known = [p \in Procs |-> {}]

Agrees(r, s) == r.gen = s.gen => (r.tok = s.tok <=> r.val = s.val)

\* A token is handed out by p; whoever had seen it coming can restore it, too.
Hand(p, r) ==
  /\ r.gen = life[p]
  /\ \A s \in issued : Agrees(r, s)
  /\ issued' = issued \cup {r}
  /\ \E seen \in SUBSET {q \in Procs : life[q] = r.gen} :
       /\ p \in seen
       /\ known' = [q \in Procs |-> IF q \in seen THEN known[q] \cup {r} ELSE known[q]]
  /\ UNCHANGED life

\* p picks up what others have handed out.
Learn(p) ==
  /\ \E more \in SUBSET Of(life[p]) : known' = [known EXCEPT ![p] = @ \cup more]
  /\ UNCHANGED <<issued, life>>

\* p ends, starts, or joins another lifetime.
Join(p, g) ==
  /\ g # life[p]
  /\ life' = [life EXCEPT ![p] = g]
  /\ \E some \in SUBSET Of(g) : known' = [known EXCEPT ![p] = some]
  /\ UNCHANGED issued

Next ==
  \E p \in Procs :
    \/ \E r \in Handed : Hand(p, r)
    \/ Learn(p)
    \/ \E g \in Gens \cup {None} : Join(p, g)

Spec == Init /\ [][Next]_vars
=============================================================================
