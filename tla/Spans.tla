-------------------------------- MODULE Spans ---------------------------------
(***************************************************************************)
(* The masking of one text: detection.py and pseudonymizer.py.  Overlapping *)
(* finds are resolved in one pass from left to right, the known values are *)
(* added and resolved with them, and the spans that are left are replaced  *)
(* from right to left.  What the recognizers find is arbitrary; the vault  *)
(* gives any value a token.                                                *)
(***************************************************************************)
EXTENDS Integers, Sequences, FiniteSets, Functions

CONSTANTS
  Length,   \* characters of the text; each is its own position
  MinSpan,  \* the shortest value
  MaxFinds, \* bound: spans of each kind
  NeverMask \* the spans whose text is on the never-mask list

VARIABLES
  primary, secondary,  \* what the recognizers of each rank found
  known,               \* occurrences of values of the vault
  spans,               \* those that _resolve has still to look at
  kept, end,           \* those it has kept, and where the last one ends (last_end)
  detected,            \* what detection settled on
  text,                \* the text as it is now
  pc

vars == <<primary, secondary, known, spans, kept, end, detected, text, pc>>
finds == <<primary, secondary, known>>

\* Positions from start to stop - 1, as Python slices.
Span == {s \in [start : 0 .. Length, stop : 0 .. Length] : s.start + MinSpan <= s.stop}
Finds == {f \in SUBSET Span : Cardinality(f) <= MaxFinds}
Original == [i \in 1 .. Length |-> i]

\* A token is one character that stands in no text.
Token == 0

Init ==
  /\ primary \in Finds /\ secondary \in Finds /\ known \in Finds
  /\ pc = "primary" /\ spans = primary \ NeverMask /\ kept = {} /\ end = -1
  /\ detected = {} /\ text = Original

-----------------------------------------------------------------------------
(* _resolve.                                                               *)

\* Its order: by start, the longer one first.
Before(a, b) == a.start < b.start \/ (a.start = b.start /\ a.stop >= b.stop)

\* Mutant of Keeps: only the beginnings are compared.
KeepsByStart(s) == \A k \in kept : s.start > k.start

\* Mutant of Keeps: a span that touches the last one kept is dropped.
KeepsApart(s) == s.start > end

\* A span is kept when it begins where the last one kept has ended, or later.
Keeps(s) == s.start >= end

LookAt(s) ==
  /\ pc \in {"primary", "secondary", "known"}
  /\ s \in spans /\ \A other \in spans : Before(s, other)
  /\ spans' = spans \ {s}
  /\ IF Keeps(s) THEN kept' = kept \cup {s} /\ end' = s.stop ELSE UNCHANGED <<kept, end>>
  /\ UNCHANGED <<finds, detected, text, pc>>

\* All are looked at; the next ones.
Resolve(next, more) ==
  /\ spans = {} /\ spans' = more
  /\ kept' = {} /\ end' = -1 /\ pc' = next
  /\ UNCHANGED <<finds, text>>

Overlaps(a, b) == a.start < b.stop /\ b.start < a.stop

DetectPrimary ==
  /\ pc = "primary"
  /\ detected' = kept
  /\ Resolve("secondary", secondary \ NeverMask)

\* detect: secondary spans only where no primary one is; then the second pass of pseudonymize.
DetectSecondary ==
  /\ pc = "secondary"
  /\ detected' = detected \cup {s \in kept : \A k \in detected : ~Overlaps(s, k)}
  /\ Resolve("known", detected' \cup known)

Settle ==
  /\ pc = "known" /\ spans = {}
  /\ pc' = "replace"
  /\ UNCHANGED <<finds, spans, kept, end, detected, text>>

-----------------------------------------------------------------------------
(* The replacement, from right to left.                                    *)

Turn(s) == \A other \in kept : s.start >= other.start

Replace(s) ==
  /\ pc = "replace" /\ s \in kept /\ Turn(s)
  /\ text' = SubSeq(text, 1, s.start) \o <<Token>> \o SubSeq(text, s.stop + 1, Len(text))
  /\ kept' = kept \ {s}
  /\ UNCHANGED <<finds, spans, end, detected, pc>>

Done ==
  /\ pc = "replace" /\ kept = {}
  /\ pc' = "done"
  /\ UNCHANGED <<finds, spans, kept, end, detected, text>>

Next ==
  \/ \E s \in spans : LookAt(s)
  \/ DetectPrimary \/ DetectSecondary \/ Settle
  \/ \E s \in kept : Replace(s)
  \/ Done

Spec == Init /\ [][Next]_vars

-----------------------------------------------------------------------------
(* Properties.                                                             *)

Positions(s) == s.start + 1 .. s.stop

\* Some part of the value is behind a token.
Broken(s) == \E i \in Positions(s) : i \notin Range(text)

\* No value that detection settled on, and no occurrence of a known one, is sent whole: what
\* another span displaces overlaps with it (pseudonymizer.py:29-35).
SettledBroken == pc = "done" => \A s \in detected \cup known : Broken(s)

\* "Each detected value swapped for a token" (README.md:51): no value that a recognizer
\* found is sent whole, unless it is on the never-mask list.
FoundBroken == pc = "done" => \A s \in (primary \cup secondary) \ NeverMask : Broken(s)

\* What is outside of every find is sent as it was and in its order, with a token for each
\* value replaced: the offsets of the spans still to come hold after every replacement.
OthersUntouched ==
  pc = "done" =>
    /\ \A i, j \in DOMAIN text :
         i < j /\ text[i] # Token /\ text[j] # Token => text[i] < text[j]
    /\ \A i \in 1 .. Length :
         i \notin UNION {Positions(s) : s \in primary \cup secondary \cup known} => i \in Range(text)
=============================================================================
