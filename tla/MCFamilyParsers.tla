--------------------------- MODULE MCFamilyParsers ---------------------------
(* An instance of FamilyParsers for TLC: markers as special tokens, some of    *)
(* them also spelled, a sign that begins none, and text.                       *)
EXTENDS FamilyParsers

Spelled == {<<"x">>, <<"<">>, <<"x", "<">>}

QwenChunks ==
  Spelled \cup {<<"tool_call>">>, <<"/tool_call>">>, <<"<", "think>">>, <<"<", "/think>">>,
                <<"<", "tool_call>">>, <<"<", "/tool_call>">>}

MCChunks ==
  [Qwen3_5VL |-> QwenChunks \cup {<<"<", "/function>">>},
   Nanbeige  |-> QwenChunks,
   Gemma4e   |-> Spelled \cup {<<"thought">>, <<"<", "|channel>">>, <<"<", "channel|>">>,
                               <<"<", "|tool_call>">>, <<"<", "tool_call|>">>,
                               <<"<", "|tool_response>">>},
   GPT_OSS   |-> {<<y>> : y \in {"x", Assistant, "analysis", "final", "commentary",
                                 "<|message|>", "<|end|>"}}]

\* A think block and text after it, a call and text after it, the second of two
\* sections with text.
MCMaxChunks == [Qwen3_5VL |-> 4, Nanbeige |-> 4, Gemma4e |-> 5, GPT_OSS |-> 5]

MCToolCalls == {<<"x">>, <<"<">>}
=============================================================================
