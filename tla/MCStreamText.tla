---------------------------- MODULE MCStreamText ----------------------------
(* An instance of StreamText for TLC: single atoms as tokens, and a token of   *)
(* two bytes that completes one sequence and begins another.                   *)
EXTENDS StreamText

MCTokens == {<<x>> : x \in Atoms} \cup {<<"cont", "lead">>}
MCToolCalls == {<<"ascii">>, <<"ascii", "<think>">>, <<"lead", "cont", "cont">>}
MCMaxText == [k \in Kinds |-> IF k = "chat" THEN 4 ELSE 3]
=============================================================================
