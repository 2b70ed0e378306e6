------------------------------- MODULE MCEngines ------------------------------
(* Instances of Engines for TLC.                                           *)
EXTENDS Engines, TLC

CONSTANTS a, b, letter, note, t1, t2, s1, s2, n1, n2

\* The letter holds both values and the rules find one of them; the note holds the other one,
\* which only the NER service finds there.
HoldsMC == [c \in Contents |-> IF c = letter THEN {a, b} ELSE {b}]
FindsMC == [c \in Contents |-> IF c = letter THEN {a} ELSE {}]
NerMC == [c \in Contents |-> IF c = letter THEN {} ELSE {b}]

\* A file whose last good content is kept, and one that has none.
FilesMC == <<"profile", "ner_url">>

\* A family of transports, one that inherits and one that overrides, and a class without the
\* method; half of them are registered by plugins later.
MroMC ==
  "chat" :> <<"chat">> @@ "azure" :> <<"azure", "chat">> @@ "codex" :> <<"codex", "chat">>
    @@ "tool" :> <<"tool">>

\* A host, one under it, and another one.
HostsMC == {<<"example">>, <<"mail", "example">>, <<"other">>}
HostFilesMC == {None, {}, {<<"example">>}, {<<"mail", "example">>}}

Holding(where, toks) == [at |-> where, text |-> [reals |-> {}, toks |-> toks]]

\* A token in every place there is, alone, and JSON next to data, and a form.
BodiesMC ==
  {{}} \cup {{Holding(where, {n1, n2})} : where \in
          {"leaf", "key", "text", "base64", "bytes", "field", "fields"}}
  \cup {{Holding("leaf", {n1}), Holding("key", {n2}), Holding(where, {n2})} :
          where \in {"text", "base64", "bytes"}}
  \cup {{Holding("field", {n1}), Holding("field", {n2}), Holding("fields", {n2})}}

\* The threads are interchangeable, and so are the sessions.
EnginesSymmetry == Permutations(Threads) \cup Permutations(Sessions)
===============================================================================
