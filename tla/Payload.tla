------------------------------- MODULE Payload --------------------------------
(***************************************************************************)
(* The walk over a request in any provider's shape and the instruction put *)
(* into its system prompt: src/hermescloak/adapter/payload.py.  A request  *)
(* is a tree; its strings are sequences of parts, and each part is human   *)
(* text, or protocol that must not be touched.                             *)
(***************************************************************************)
EXTENDS Tree, Integers, Sequences, FiniteSets, SequencesExt

CONSTANTS
  Requests,  \* requests as the host builds them, with the api_mode it names
  MaxDepth   \* _MAX_DEPTH

VARIABLES
  request,   \* the tree as it is now
  api,
  pc         \* how far it has come

vars == <<request, api, pc>>

IsText(n) == n.node \in {"str", "json"}

Init ==
  /\ \E r \in Requests : request = r.body /\ api = r.api
  /\ pc = "made"

-----------------------------------------------------------------------------
(* The walk.                                                               *)

RequestTextKeys == {"messages", "system", "input", "instructions", "prompt"}
SkipTypes == {"thinking", "redacted_thinking", "reasoning", "image", "image_url", "document"}
SkipKeys == {"role", "id", "name", "tool_call_id", "signature", "encrypted_content", "source", "url"}
TextKeys == {"content", "text", "output", "instructions", "system", "reasoning_content", "prompt"}

\* Mutant of ArgsDictKeys: Bedrock's json blocks are forgotten.
ArgsDictKeysNoJson == {"input", "arguments", "args"}
ArgsDictKeys == {"input", "arguments", "json", "args"}

\* The transformation of a string: human text is tokenized, protocol would be spoilt.
Masked(n) ==
  Str(IF n.node # "str" THEN <<"masked">>
      ELSE [i \in DOMAIN n.of |-> IF n.of[i] = "human" THEN "masked"
                                  ELSE IF n.of[i] = "protocol" THEN "spoilt" ELSE n.of[i]])

\* _walk and transform_json_string: by mode, the keys decide (struct), strings are text, or
\* every leaf is an argument.  What lies too deep becomes one string and is tokenized whole.
RECURSIVE Walk(_, _, _)
Walk(n, mode, depth) ==
  LET Child(k, v) ==
        IF k \in SkipKeys THEN v
        ELSE IF k = "arguments" /\ v.node = "json" THEN Json(Walk(v.of, "args", 0))
        ELSE IF k = "arguments" /\ v.node = "str" THEN Masked(v)
        ELSE IF k \in ArgsDictKeys /\ v.node = "dict" THEN Walk(v, "args", depth + 1)
        ELSE IF IsText(v) THEN (IF k \in TextKeys THEN Masked(v) ELSE v)
        ELSE Walk(v, IF k \in TextKeys \cup {"input"} THEN "text" ELSE "struct", depth + 1)
  IN
  CASE IsText(n) -> IF mode = "struct" THEN n ELSE Masked(n)
    [] ~IsText(n) /\ depth >= MaxDepth -> Str(<<"masked">>)
    [] n.node = "list" /\ depth < MaxDepth ->
         List([i \in DOMAIN n.of |-> Walk(n.of[i], mode, depth + 1)])
    [] n.node = "dict" /\ depth < MaxDepth ->
         IF mode = "args"
         THEN Dict(n.type, [k \in DOMAIN n.of |-> Walk(n.of[k], "args", depth + 1)])
         ELSE IF n.type \in SkipTypes THEN n
         ELSE Dict(n.type, [k \in DOMAIN n.of |-> Child(k, n.of[k])])

\* transform_request
Transform ==
  /\ pc = "made" /\ pc' = "walked"
  /\ request' = [k \in DOMAIN request |->
       IF k \in RequestTextKeys THEN Walk(request[k], "text", 0) ELSE request[k]]
  /\ UNCHANGED api

-----------------------------------------------------------------------------
(* The instruction.                                                        *)

Holds(n) == "instruction" \in ToSet(n.of)

\* Mutant of Appended: it is appended whether it is there or not.
AppendedAgain(n) == Str(Append(n.of, "instruction"))

Appended(n) == IF Holds(n) THEN n ELSE Str(Append(n.of, "instruction"))

\* A list of blocks gets one more, with a type when its blocks have one.
WithBlock(n, type) ==
  IF \E i \in DOMAIN n.of : n.of[i].node = "dict" /\ "text" \in DOMAIN n.of[i].of
                             /\ n.of[i].of["text"] = Str(<<"instruction">>)
  THEN n ELSE List(Append(n.of, Dict(type, [k \in {"text"} |-> Str(<<"instruction">>)])))

Typed(n) ==
  IF \E i \in DOMAIN n.of : n.of[i].node = "dict" /\ n.of[i].type # "none" THEN "text" ELSE "none"

With(r, key, n) == [k \in DOMAIN r \cup {key} |-> IF k = key THEN n ELSE r[k]]

\* The first message of the system whose content is text or a list of blocks, 0 for none.
SystemMessage(msgs) ==
  SelectInSeq(msgs, LAMBDA m : /\ m.node = "dict" /\ m.of["role"].of[1] \in {"system", "developer"}
                               /\ "content" \in DOMAIN m.of)

SystemNode(n) == IF n.node = "list" THEN WithBlock(n, "text") ELSE Appended(n)

\* inject_instruction: the slot of the request's wire format.
Injected(r) ==
  IF "instructions" \in DOMAIN r THEN With(r, "instructions", Appended(r["instructions"]))
  ELSE IF "system" \in DOMAIN r
  THEN With(r, "system", IF r["system"].node = "list" THEN WithBlock(r["system"], Typed(r["system"]))
                         ELSE Appended(r["system"]))
  ELSE IF api = "anthropic_messages" THEN With(r, "system", Str(<<"instruction">>))
  ELSE IF api = "bedrock_converse"
  THEN With(r, "system", List(<<Dict("none", [k \in {"text"} |-> Str(<<"instruction">>)])>>))
  ELSE IF "messages" \in DOMAIN r
  THEN LET msgs == r["messages"].of
           i == SystemMessage(msgs)
           told == [k \in {"role", "content"} |->
                      IF k = "role" THEN Str(<<"system">>) ELSE Str(<<"instruction">>)]
       IN  IF i > 0
           THEN With(r, "messages", List([msgs EXCEPT ![i].of["content"] = SystemNode(@)]))
           ELSE IF "input" \in DOMAIN r THEN r
           ELSE With(r, "messages", List(<<Dict("none", told)>> \o msgs))
  ELSE IF "input" \in DOMAIN r THEN With(r, "instructions", Str(<<"instruction">>))
  ELSE r

\* Once, and again when the host sends the request through the middleware a second time.
Inject ==
  /\ pc \in {"walked", "sent"}
  /\ pc' = IF pc = "walked" THEN "sent" ELSE "again"
  /\ request' = Injected(request)
  /\ UNCHANGED api

Next == Transform \/ Inject

Spec == Init /\ [][Next]_vars

-----------------------------------------------------------------------------
(* Properties.                                                             *)

\* All strings of a tree, as a sequence of their parts.
RECURSIVE Parts(_)
Parts(n) ==
  CASE n.node = "str" -> n.of
    [] n.node = "json" -> Parts(n.of)
    [] n.node = "list" -> FlattenSeq([i \in DOMAIN n.of |-> Parts(n.of[i])])
    [] n.node = "dict" -> FlattenSeq([i \in DOMAIN SetToSeq(DOMAIN n.of) |->
                                        Parts(n.of[SetToSeq(DOMAIN n.of)[i]])])

AllParts == Parts(Dict("none", request))

\* After the walk no human text is left as it was, wherever a provider's wire format puts
\* it, and nothing that is protocol has been touched (payload.py:3-18); and what is sent
\* tells the model of the tokens in exactly one place of its system prompt, also when it
\* comes through twice (payload.py:174-177).
RequestReady ==
  /\ pc # "made" => ToSet(AllParts) \cap {"human", "spoilt"} = {}
  /\ pc \in {"sent", "again"} => Len(SelectSeq(AllParts, LAMBDA p : p = "instruction")) = 1
=============================================================================
