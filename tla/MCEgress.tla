------------------------------- MODULE MCEgress -------------------------------
(* Instances of EgressReader for TLC.                                      *)
EXTENDS EgressReader, TLC

CONSTANTS gateway, cron, script, gw1, cr1

ThreadOwner == [th \in Threads |-> IF th = cr1 THEN cron ELSE gateway]
NoKeys == [p \in Procs |-> NoKey]
ValueSymmetry == Permutations(Values)
Harmed == [f \in UpsetKinds |-> IF f \in {"crash", "torn", "cold"} THEN 1 ELSE 0]
===============================================================================
