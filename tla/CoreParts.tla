------------------------------ MODULE CoreParts -------------------------------
(***************************************************************************)
(* Four parts of the program that share no state: the decider, the NER     *)
(* service with its clients, the masking of one text, and the streaming of *)
(* a reply.                                                                *)
(***************************************************************************)
EXTENDS Decider

CONSTANTS
  Clients, Starters, Cooldown,               \* NerService
  TextLength, MinSpan, MaxFinds, NeverMask,  \* Spans
  StreamLength, MaxHold, MaxFlips, MaxFails  \* StreamFilter

ASSUME StartersAssumption == None \notin Starters
ASSUME TextAssumption == TextLength \in Nat /\ MinSpan \in Nat \ {0}
ASSUME StreamAssumption == StreamLength \in Nat /\ MaxHold \in Nat /\ MaxHold > 1

VARIABLES
  file, start, service, control, timely, open, up, client, rec, hand,
  primary, secondary, known, spans, kept, end, detected, text, masking,
  reply, arrived, buf, shown, mode, steady, failed, flips, ended

N == INSTANCE NerService
S == INSTANCE Spans WITH Length <- TextLength, pc <- masking
F == INSTANCE StreamFilter WITH Length <- StreamLength, text <- reply, at <- arrived, out <- shown

ner == <<file, start, service, control, timely, open, up, client, rec, hand>>
masks == <<primary, secondary, known, spans, kept, end, detected, text, masking>>
stream == <<reply, arrived, buf, shown, mode, steady, failed, flips, ended>>

-----------------------------------------------------------------------------
(* Their properties.                                                       *)

OneToken == N!OneToken
ModelInHand == N!ModelInHand
ComesBack == N!ComesBack

SettledBroken == S!SettledBroken
FoundBroken == S!FoundBroken
OthersUntouched == S!OthersUntouched

StreamsWhole == F!StreamsWhole
=============================================================================
