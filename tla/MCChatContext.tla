---------------------------- MODULE MCChatContext ----------------------------
(* Instances of ChatContext for TLC. *)
EXTENDS ChatContext, SequencesExt

CONSTANTS A, B, C, AliasOfA

MCTag(n) == IF n = AliasOfA THEN A ELSE n

\* A may start its answers with an opening of its own; B and C never do.
MCOpenings(n) ==
  IF n = A THEN {<<>>, <<"think", "nl">>} ELSE {<<>>}

\* User messages "u" and "v" collide, and so may tools with anything else.
MCChecksum(m) == IF m = <<"v">> THEN <<"u">> ELSE m

\* A user message is its token, an answer its tokens between the template's
\* marks; the prompt ends where the answer is to start.
RenderMessage(m) ==
  IF m \in {<<"u">>, <<"v">>, <<"tool">>} THEN m ELSE <<"gen">> \o m \o <<"eos">>

MCRender(chat, tools) ==
  FlattenSeq(tools) \o FlattenSeq([i \in 1..Len(chat) |-> RenderMessage(chat[i])]) \o <<"gen">>

MCMessages == {<<"u">>, <<"v">>, <<"r">>, <<"tool">>}

\* First requests, and continuations of them by answered turns.
MCConversations ==
  LET u == <<"u">>  v == <<"v">>  r == <<"r">>
  IN  {<<u>>, <<u, r, u>>, <<v, r, u>>, <<u, r, u, r, u>>}
MCToolSets == {<<>>, <<<<"tool">>, <<"tool">>>>}
=============================================================================
