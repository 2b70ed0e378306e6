------------------------------- MODULE MCParts --------------------------------
(* Instances of Parts for TLC.                                             *)
EXTENDS Parts, Tree, Sequences, TLC

CONSTANTS c1, c2, x1, x2

\* A vendor with a shadow, a backend of one's own, a choice too wide for
\* it, and one that is none.
AsksMC == {[backend |-> "jev", fallback |-> Default, shadow |-> TRUE, options |-> 2],
           [backend |-> "local", fallback |-> Default, shadow |-> FALSE, options |-> 2],
           [backend |-> "jev", fallback |-> Default, shadow |-> FALSE, options |-> 3],
           [backend |-> "local", fallback |-> TRUE, shadow |-> FALSE, options |-> 1]}

ConfigurationsMC == {Backends, {"local"}}

\* A value in the middle of the text is never masked.
NeverMaskMC == {[start |-> 1, stop |-> 3]}

-----------------------------------------------------------------------------
(* Requests in the four wire formats (payload.py:9-14).                    *)

Human == Str(<<"human">>)
Own == Str(<<"protocol">>)

Message(role, content) == Dict("none", "role" :> Str(<<role>>) @@ "content" :> content)
TextBlock == Dict("text", "text" :> Human)
PlainBlock == Dict("none", "text" :> Human)
Arguments == Dict("none", "q" :> Human @@ "id" :> List(<<Human>>))

Chat(first) ==
  "model" :> Own @@ "messages" :> List(first \o
    <<Message("user", List(<<TextBlock, Dict("image_url", "image_url" :> Own)>>)),
      Dict("none", "role" :> Str(<<"assistant">>) @@ "content" :> Human
        @@ "tool_calls" :> List(<<Dict("function", "id" :> Own @@
             "function" :> Dict("none", "name" :> Own @@ "arguments" :> Json(Arguments)))>>)),
      Dict("none", "role" :> Str(<<"tool">>) @@ "tool_call_id" :> Own @@ "content" :> Human)>>)

Blocks ==
  List(<<Message("user", List(<<TextBlock>>)),
           Message("assistant", List(<<Dict("thinking", "thinking" :> Own @@ "signature" :> Own),
             Dict("tool_use", "id" :> Own @@ "name" :> Own @@ "input" :> Arguments)>>)),
           Message("user", List(<<Dict("tool_result", "tool_use_id" :> Own @@
             "content" :> List(<<TextBlock>>))>>))>>)

Converse ==
  List(<<Message("user", List(<<PlainBlock>>)),
           Message("assistant", List(<<Dict("none", "toolUse" :>
             Dict("none", "toolUseId" :> Own @@ "input" :> Arguments))>>)),
           Message("user", List(<<Dict("none", "toolResult" :> Dict("none", "content" :>
             List(<<Dict("none", "json" :> Dict("none", "r" :> Human))>>)))>>))>>)

Items ==
  List(<<Dict("message", "role" :> Str(<<"user">>) @@
             "content" :> List(<<Dict("input_text", "text" :> Human)>>)),
           Dict("reasoning", "encrypted_content" :> Own),
           Dict("function_call", "name" :> Own @@ "call_id" :> Own @@ "arguments" :> Json(Arguments)),
           Dict("function_call_output", "call_id" :> Own @@ "output" :> Human)>>)

\* Arguments nested deeper than the walk goes.
RECURSIVE Nested(_)
Nested(n) == IF n = 0 THEN Human ELSE Dict("none", "a" :> List(<<Nested(n - 1)>>))

Made(mode0, body) == [api |-> mode0, body |-> body]

RequestsMC ==
  {Made("chat_completions", Chat(first)) :
     first \in {<<>>, <<Message("system", Human)>>, <<Message("developer", List(<<TextBlock>>))>>}}
  \cup {Made("anthropic_messages", "messages" :> Blocks @@ sys) :
          sys \in {[k \in {} |-> Own], "system" :> Human, "system" :> List(<<TextBlock>>)}}
  \cup {Made("bedrock_converse", "messages" :> Converse @@ sys) :
          sys \in {[k \in {} |-> Own], "system" :> List(<<PlainBlock>>)}}
  \cup {Made("codex_responses", "input" :> Items @@ sys) :
          sys \in {[k \in {} |-> Own], "instructions" :> Human}}
  \cup {Made("anthropic_messages", "messages" :> List(<<Message("assistant",
          List(<<Dict("tool_use", "input" :> Nested(n))>>))>>)) : n \in 1 .. 3}

-----------------------------------------------------------------------------
(* The properties of the parts.                                            *)

RequestReady == part = "payload" => P!RequestReady
===============================================================================
