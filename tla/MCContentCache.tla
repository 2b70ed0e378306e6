---------------------------- MODULE MCContentCache ----------------------------
(* Instances of ContentCache for TLC.                                      *)
EXTENDS ContentCache, TLC

CONSTANTS a, b, letter, note, t1, t2

\* The letter holds both values and the rules find one of them; the note holds the other one,
\* which only the NER service finds there.
HoldsMC == [c \in Contents |-> IF c = letter THEN {a, b} ELSE {b}]
FindsMC == [c \in Contents |-> IF c = letter THEN {a} ELSE {}]
NerMC == [c \in Contents |-> IF c = letter THEN {} ELSE {b}]

\* The threads are interchangeable.
ThreadSymmetry == Permutations(Threads)
===============================================================================
