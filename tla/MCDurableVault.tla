--------------------------- MODULE MCDurableVault ---------------------------
(* Instances of DurableVault for TLC.                                      *)
EXTENDS DurableVault, TLC

CONSTANTS gateway, cron, gw1, gw2, cr1, k1

\* Gateway threads and a cron job.
ThreadOwner == [th \in Threads |-> IF th = cr1 THEN cron ELSE gateway]

NoKeys == [p \in Procs |-> NoKey]
GatewayKey == [p \in Procs |-> IF p = gateway THEN k1 ELSE NoKey]
OneKey == [p \in Procs |-> k1]

\* Values are interchangeable: no definition orders or names them.
ValueSymmetry == Permutations(Values)

Upto(n, kinds) == [f \in UpsetKinds |-> IF f \in kinds THEN n ELSE 0]

Crashes == Upto(1, {"torn", "cold", "crash"})
OneCrash == Upto(1, {"crash"})
OneTorn == Upto(1, {"torn"})
\* Two writes raise: an append, and the compaction that would make up for it.
Degraded == [Upto(1, {"timeout"}) EXCEPT !["write"] = 2]
OneDrop == Upto(1, {"clear", "age", "stop"})
Keyed == Upto(1, {"crash", "write"})
=============================================================================
