------------------------------- MODULE Engines --------------------------------
(***************************************************************************)
(* An engine's cache, and four parts of the program that share no state    *)
(* with it or with one another: the pool of engines with the configuration *)
(* they are built from, the plugin's registration, the restoring of what   *)
(* scripts post, and the audit log.  As in Parts, a behaviour is that of   *)
(* one of them, chosen at the start.                                       *)
(***************************************************************************)
EXTENDS ContentCache, Functions, Sequences

CONSTANTS
  Files, Sessions, MaxEngines, MaxEdits,               \* EnginePool
  Classes, Mro, Defines, Early, MaxCalls,              \* Registration
  Hosts, HostFiles, Bodies, Tokens, MaxSends, MaxMoves, \* EgressSend
  Limit, Keep, MaxLines, MaxKills, MaxLate             \* AuditLog

ASSUME PartsAssumption ==
  /\ Files \in Seq({"profile", "gazetteer", "ner_url"}) /\ "profile" \in Range(Files)
  /\ \A n \in 0 .. MaxEdits + 1 : n # None
  /\ MaxEngines \in Nat \ {0} /\ MaxEdits \in Nat
  /\ Mro \in [Classes -> Seq(Classes)] /\ \A c \in Classes : Len(Mro[c]) > 0 /\ Mro[c][1] = c
  /\ Defines \cup Early \subseteq Classes /\ MaxCalls \in Nat
  /\ \A b \in Bodies : b \subseteq [at : STRING, text : [reals : SUBSET Values, toks : SUBSET Tokens]]
  /\ None \notin Hosts /\ MaxSends \in Nat /\ MaxMoves \in Nat
  /\ {Limit, Keep} \subseteq Nat \ {0} /\ {MaxLines, MaxKills, MaxLate} \subseteq Nat
  /\ \A lines \in SUBSET (1 .. MaxLines) : lines # None

VARIABLES
  part,
  config, edits, good, pool, engine, task, came,
  host, registry, layers, hook, stream, aux, status, degraded, at, left, found, missed, calls,
  listed, vault, stage, url, body, todo, reported, moves, sends,
  log, writer, opened, written, killed, late

E == INSTANCE EnginePool WITH work <- task
R == INSTANCE Registration
G == INSTANCE EgressSend WITH pc <- stage
A == INSTANCE AuditLog

engines == <<config, edits, good, pool, engine, task, came>>
plugin == <<host, registry, layers, hook, stream, aux, status, degraded, at, left, found, missed, calls>>
post == <<listed, vault, stage, url, body, todo, reported, moves, sends>>
audit == <<log, writer, opened, written, killed, late>>
allVars == <<part, vars, engines, plugin, post, audit>>

EnginesInit ==
  /\ part \in {"content", "engines", "plugin", "post", "audit"}
  /\ Init
  /\ E!Init /\ (part # "engines" => \A f \in Range(Files) : config[f] # E!Absent)
  /\ R!Init /\ (part # "plugin" => host = {})
  /\ G!Init /\ (part # "post" => listed = None)
  /\ A!Init

EnginesNext ==
  \/ part = "content" /\ Next /\ UNCHANGED <<part, engines, plugin, post, audit>>
  \/ part = "engines" /\ E!Next /\ UNCHANGED <<part, vars, plugin, post, audit>>
  \/ part = "plugin" /\ R!Next /\ UNCHANGED <<part, vars, engines, post, audit>>
  \/ part = "post" /\ G!Next /\ UNCHANGED <<part, vars, engines, plugin, audit>>
  \/ part = "audit" /\ A!Next /\ UNCHANGED <<part, vars, engines, plugin, post>>

EnginesSpec == EnginesInit /\ [][EnginesNext]_allVars

-----------------------------------------------------------------------------
(* The properties of the parts.                                            *)

ConfigInForce == E!ConfigInForce
KeepsProtection == E!KeepsProtection
RestoredOnce == R!RestoredOnce
NeverSilently == G!NeverSilently
AuditKept == A!AuditKept
=============================================================================
