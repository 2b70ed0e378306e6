----------------------------- MODULE StreamFilter -----------------------------
(***************************************************************************)
(* The streamed reply: hermes_live.py 735-783 and the wraps of             *)
(* hermes_plugin/__init__.py 144-199.  The model's text arrives in deltas  *)
(* cut anywhere; an open bracket is held back until its closing one comes, *)
(* so that a token is restored as a whole; what is still held at the end   *)
(* is flushed.  MODE may be edited between two deltas, and restoring may   *)
(* raise: then the delta is passed on as it came, and a tail is dropped.   *)
(***************************************************************************)
EXTENDS Integers, Sequences, FiniteSetsExt

CONSTANTS
  Length,   \* length of the model's text
  MaxHold,  \* _MAX_TOKEN_HOLD; at least a token without its closing bracket
  MaxFlips, \* bound: edits of MODE and new attempts
  MaxFails  \* bound: restores that raise, in one attempt

\* Characters: the brackets, one of a token's body, and a real value.  A token is <<O, T, C>>.
O == "open"
C == "close"
T == "body"
R == "real"

VARIABLES
  text,     \* the model's text
  at,       \* how much of it has arrived
  buf,      \* state["buf"]
  out,      \* what has reached the consumer
  mode,     \* enforce
  steady,   \* history: it has been on, and restored, for the whole of this attempt
  failed,   \* history: the restores of this attempt that raised
  flips,
  ended

vars == <<text, at, buf, out, mode, steady, failed, flips, ended>>

Init ==
  /\ text \in [1 .. Length -> {O, T, C}]
  /\ at = 0 /\ buf = <<>> /\ out = <<>>
  /\ mode = TRUE /\ steady = TRUE /\ failed = 0 /\ flips = 0 /\ ended = FALSE

EndsOpen(s) == Len(s) > 1 /\ s[Len(s) - 1] = O /\ s[Len(s)] = T

\* One more character: the one that closes a token makes it a value.
Put(done, c) ==
  IF c = C /\ EndsOpen(done) THEN Append(SubSeq(done, 1, Len(done) - 2), R) ELSE Append(done, c)

\* restore_text: every token becomes its value; tokens do not nest.
Restoring(s) ==
  LET done[i \in 0 .. Len(s)] == IF i = 0 THEN <<>> ELSE Put(done[i - 1], s[i])
  IN  done

Restored(s) == Restoring(s)[Len(s)]

\* text.rfind
LastOpen(s) == Max({0} \cup {i \in DOMAIN s : s[i] = O})

\* Mutant of Held: a tail of the greatest length is let go.
HeldShort(s) ==
  LET i == LastOpen(s) IN
  IF i = 0 \/ Len(s) - i + 1 >= MaxHold \/ \E j \in i .. Len(s) : s[j] = C
  THEN <<>> ELSE SubSeq(s, i, Len(s))

\* The tail that is held back: an open token, if it is short enough to be one.
Held(s) ==
  LET i == LastOpen(s) IN
  IF i = 0 \/ Len(s) - i + 1 > MaxHold \/ \E j \in i .. Len(s) : s[j] = C
  THEN <<>> ELSE SubSeq(s, i, Len(s))

\* cloak_filter_stream_delta: the next n characters; off, they pass by the buffer.
Delta(n) ==
  LET new == SubSeq(text, at + 1, at + n)
      all == buf \o new
  IN
  /\ ~ended /\ at + n <= Length
  /\ at' = at + n
  /\ IF mode
     THEN /\ buf' = Held(all)
          /\ out' = out \o Restored(SubSeq(all, 1, Len(all) - Len(Held(all))))
     ELSE out' = out \o new /\ UNCHANGED buf
  /\ UNCHANGED <<text, mode, steady, failed, flips, ended>>

\* restore_text raises.
Raises == failed < MaxFails /\ failed' = failed + 1 /\ steady' = FALSE

\* The delta is passed on as it came, but the buffer has been set already: what was held
\* before is not sent, and what is held now will be sent again.
DeltaRaises(n) ==
  LET new == SubSeq(text, at + 1, at + n)
      all == buf \o new
  IN
  /\ ~ended /\ at + n <= Length /\ mode /\ Held(all) # all
  /\ Raises
  /\ at' = at + n /\ buf' = Held(all) /\ out' = out \o new
  /\ UNCHANGED <<text, mode, flips, ended>>

\* cloak_flush_stream
Flushed(s) == IF mode THEN Restored(s) ELSE s

End ==
  /\ ~ended /\ at = Length
  /\ out' = out \o Flushed(buf)
  /\ buf' = <<>> /\ ended' = TRUE
  /\ UNCHANGED <<text, at, mode, steady, failed, flips>>

\* The tail was taken out of the buffer and is dropped.
EndRaises ==
  /\ ~ended /\ at = Length /\ mode /\ buf # <<>>
  /\ Raises
  /\ buf' = <<>> /\ ended' = TRUE
  /\ UNCHANGED <<text, at, out, mode, flips>>

\* A new attempt: the buffer is dropped and the reply starts anew.
Reset ==
  /\ ~ended /\ flips < MaxFlips /\ flips' = flips + 1
  /\ at' = 0 /\ buf' = <<>> /\ out' = <<>> /\ steady' = mode /\ failed' = 0
  /\ UNCHANGED <<text, mode, ended>>

Flip ==
  /\ ~ended /\ flips < MaxFlips /\ flips' = flips + 1
  /\ mode' = ~mode /\ steady' = FALSE
  /\ UNCHANGED <<text, at, buf, out, failed, ended>>

Next ==
  \/ \E n \in 1 .. Length : Delta(n) \/ DeltaRaises(n)
  \/ End \/ EndRaises \/ Reset \/ Flip

Spec == Init /\ [][Next]_vars

-----------------------------------------------------------------------------
(* Properties.                                                             *)

Count(s, c) == Cardinality({i \in DOMAIN s : s[i] = c})

\* However the text is cut, what was streamed is the restored beginning of the reply, but
\* for a held tail, and at the end the whole of it: a token cut in two is never shown in
\* pieces, an open bracket that is no token is not lost (hermes_live.py:740-746, 770-772).
\* Edits of MODE in the middle of an attempt change what is restored and in which order it
\* comes, but no character of the reply is lost or sent twice.  Only a restore that raises
\* loses or repeats any (hermes_live.py:766-767, 782-783), and no more than one held tail
\* each time, which bounds what the fail-open can cost.
StreamsWhole ==
  /\ steady => /\ out \o Restored(buf) = Restored(SubSeq(text, 1, at))
               /\ ended => out = Restored(text)
  /\ ended => \A c \in {O, T, C} :
       Count(out, c) + Count(out, R) \in
         (Count(text, c) - failed * MaxHold) .. (Count(text, c) + failed * MaxHold)
=============================================================================
