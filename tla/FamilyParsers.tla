--------------------------- MODULE FamilyParsers ---------------------------
(***************************************************************************)
(* The stream parsers that model families bring along, fed with the chunks  *)
(* that the stream of a /v1/chat/completions request lets through.  A marker *)
(* may come as one special token or spelled in several, so these parsers     *)
(* keep back what may be the beginning of one.  The parser belongs to the    *)
(* model: the next request finds it as this one leaves it.                  *)
(*                                                                         *)
(* Text is a sequence of pieces: words, which are text without a "<", the    *)
(* sign "<" itself, and what follows it in the markers of a family.  Pieces  *)
(* are ASCII, so each chunk can be dumped: StreamText has the bytes that     *)
(* cannot.                                                                 *)
(***************************************************************************)
EXTENDS Integers, SequencesExt

CONSTANTS Families,  \* "Qwen3_5VL" (as Qwen3_5_Omni and Qwen3_6_MOE), "Gemma4e" (as
                     \* Gemma4_12B), "Nanbeige", "GPT_OSS"
          Words,     \* text without a sign
          Chunks,    \* per family, the texts that one token decodes to
          ToolCalls, \* bodies that Nanbeige's parser takes for a call
          TextBytes, \* the length of a word
          MaxChunks  \* bound of the model: tokens generated for one request, per family

\* What the markers are made of; the last line is of GPT_OSS.
Marks ==
  {"<", "think>", "/think>", "tool_call>", "/tool_call>", "/function>",
   "|channel>", "thought", "channel|>", "|tool_call>", "tool_call|>", "|tool_response>",
   "<|start|>assistant", "analysis", "final", "commentary", "<|message|>", "<|end|>"}

Pieces == Words \cup Marks

ASSUME FamilyAssumption ==
  /\ Families \subseteq {"Qwen3_5VL", "Gemma4e", "Nanbeige", "GPT_OSS"}
  /\ Words \cap Marks = {}
  /\ \A f \in Families : Chunks[f] \subseteq Seq(Pieces) \ {<<>>}
  /\ TextBytes \in Nat \ {0}
  /\ \A f \in Families : MaxChunks[f] \in Nat

\* One token decodes to one entry of the vocabulary, and in that of GPT_OSS no entry but
\* <|end|> has it in its text.
ASSUME EndAssumption ==
  "GPT_OSS" \in Families =>
    \A c \in Chunks["GPT_OSS"] : c = <<"<|end|>">> \/ \A i \in DOMAIN c : c[i] # "<|end|>"

VARIABLES
  phase,     \* of the request: "idle" before the first, "generate", "finalize",
             \* "done", "error" in the engine
  text,      \* all that was written to the stream
  written,   \* how many tokens of it were generated
  parser,    \* of the model
  sent,      \* what the client received, pieces with what they were sent as
  cancelled, \* generation ended by a cancel
  leftOpen   \* the request began with a parser that waits for no header; ghost

vars == <<phase, text, written, parser, sent, cancelled, leftOpen>>

-----------------------------------------------------------------------------
(***************************************************************************)
(* A parser is an object of its family's class.                             *)
(***************************************************************************)
Parsers ==
  [family : Families, buffer : Seq(Pieces), inTool : BOOLEAN,
   mode : {"content", "reasoning", "tool"}, waiting : BOOLEAN]

(* Markers *)

ThinkStart(p) ==
  IF p.family = "Gemma4e" THEN <<"<", "|channel>", "thought">> ELSE <<"<", "think>">>
ThinkEnd(p) == IF p.family = "Gemma4e" THEN <<"<", "channel|>">> ELSE <<"<", "/think>">>
ToolStart(p) == IF p.family = "Gemma4e" THEN <<"<", "|tool_call>">> ELSE <<"<", "tool_call>">>
ToolEnd(p) == IF p.family = "Gemma4e" THEN <<"<", "tool_call|>">> ELSE <<"<", "/tool_call>">>
FuncEnd == <<"<", "/function>">>
ToolResp == <<"<", "|tool_response>">>

Markers(p) == {ThinkStart(p), ThinkEnd(p), ToolStart(p), ToolEnd(p), ToolResp}

\* The sections of a GPT_OSS answer, each up to <|end|>.
Assistant == "<|start|>assistant"
Header == [reasoning |-> <<Assistant, "analysis">>,
           content   |-> <<Assistant, "final">>,
           tool      |-> <<Assistant, "commentary">>]
Headers == {Header[t] : t \in DOMAIN Header}
End == <<"<|end|>">>

At(s, i, m) == IsPrefix(m, SubSeq(s, i, Len(s)))

\* Where the first of the markers M is in s, or 0: std::string::find.
Where(s, M) ==
  LET found == {i \in DOMAIN s : \E m \in M : At(s, i, m)}
  IN  IF found = {} THEN 0 ELSE Min(found)

\* The marker that ends a mode, and the mode after it.
EndOf(p) == IF p.mode = "content" THEN ThinkStart(p) ELSE ThinkEnd(p)
OtherTool(mode) == IF mode = "content" THEN "tool" ELSE "content"
Other(mode) == IF mode = "content" THEN "reasoning" ELSE "content"

Bytes(s) ==
  FoldLeft(LAMBDA n, x :
             n + CASE x = "<" -> 1
                   [] x = "think>" -> 6
                   [] x \in {"/think>", "thought"} -> 7
                   [] x \in {"|channel>", "channel|>"} -> 9
                   [] x \in {"tool_call>", "/function>"} -> 10
                   [] x \in {"/tool_call>", "|tool_call>", "tool_call|>"} -> 11
                   [] x = "|tool_response>" -> 15
                   [] OTHER -> TextBytes,
           0, s)

-----------------------------------------------------------------------------
(***************************************************************************)
(* One call of a parser: the parser after it, and the event, empty when      *)
(* nothing is to be sent.                                                   *)
(***************************************************************************)
Result(p, event) == [parser |-> p, event |-> event]
Wait(p) == Result(p, <<>>)

Tagged(type, s) == [i \in DOMAIN s |-> <<type, s[i]>>]

Drop(p, n) == [p EXCEPT !.buffer = SubSeq(@, n + 1, Len(@))]

\* Send what is before i and keep the rest.
Keep(p, i) == Result(Drop(p, i - 1), Tagged(p.mode, SubSeq(p.buffer, 1, i - 1)))

CallEvent(p, body) ==
  CASE p.family = "Nanbeige" /\ body \notin ToolCalls ->
         <<<<"content", "[Error parsing tool call]">>>>
    [] p.family = "GPT_OSS" /\ ~Contains(body, "<|message|>") ->
         <<<<"content", "[Tool Parse Error]">>>>
    [] OTHER -> Tagged("call", Append(body, "end of call"))

\* The body of a call ends before i; n pieces are its end.
EndTool(p, i, n) ==
  Result([Drop(p, i + n - 1) EXCEPT !.inTool = FALSE], CallEvent(p, SubSeq(p.buffer, 1, i - 1)))

\* A call that the answer ends inside is sent as it is.
EndToolFinal(p, final) ==
  IF final /\ p.buffer # <<>> THEN EndTool(p, Len(p.buffer) + 1, 0) ELSE Wait(p)

EnterTool(p) == [Drop(p, Len(ToolStart(p))) EXCEPT !.inTool = TRUE]
Switch(p) == [Drop(p, Len(EndOf(p))) EXCEPT !.mode = Other(@)]

\* Nothing is kept.
HoldNothing(p) == Keep(p, Len(p.buffer) + 1)

\* Qwen: what follows the last "<" is kept while it may be the beginning of a marker.
HoldFromSign(p) ==
  LET last == SelectLastInSeq(p.buffer, LAMBDA x : x = "<")
  IN  IF last # 0 /\ Bytes(SubSeq(p.buffer, last, Len(p.buffer))) <= 15
      THEN Keep(p, last) ELSE HoldNothing(p)

\* All waits while the end may begin a marker.
HoldAll(p, M) ==
  IF \E m \in M, k \in DOMAIN p.buffer :
       IsPrefix(SubSeq(p.buffer, k, Len(p.buffer)), m)
  THEN Wait(p) ELSE HoldNothing(p)

\* Gemma, Nanbeige: the longest end that is the beginning of one of M is kept.
HoldPartial(p, M) ==
  LET n == Len(p.buffer)
  IN  Keep(p, Min({i \in 1..n + 1 : \E m \in M : IsPrefix(SubSeq(p.buffer, i, n), m)}))

-----------------------------------------------------------------------------
(***************************************************************************)
(* Each parser is a loop, which goes round after what it only passes over.   *)
(***************************************************************************)

(* Qwen3_5VL::parse_stream_content_impl *)

\* The first </tool_call> outside of a call is erased.
Erased(p) ==
  LET stray == Where(p.buffer, {ToolEnd(p)})
  IN  IF p.inTool \/ stray = 0 THEN p
      ELSE [p EXCEPT !.buffer = SubSeq(@, 1, stray - 1)
                                \o SubSeq(@, stray + Len(ToolEnd(p)), Len(@))]

QwenTool(p, final) ==
  LET toolEnd == Where(p.buffer, {ToolEnd(p)})
      funcEnd == Where(p.buffer, {FuncEnd})
  IN  CASE toolEnd # 0 -> EndTool(p, toolEnd, Len(ToolEnd(p)))
        [] toolEnd = 0 /\ funcEnd # 0 -> EndTool(p, funcEnd, Len(FuncEnd))
        [] OTHER -> EndToolFinal(p, final)

ToolAt(p) == Where(p.buffer, {ToolStart(p)})
SwitchAt(p) == Where(p.buffer, {EndOf(p)})

\* No tool call in the buffer, and the marker that ends the mode is next.
SwitchIsNext(p) == ~p.inTool /\ ToolAt(p) = 0 /\ SwitchAt(p) = 1

QwenReturns(p, final) ==
  CASE p.inTool -> QwenTool(p, final)
    [] ~p.inTool /\ ToolAt(p) = 1 -> Wait(EnterTool(p))
    [] ~p.inTool /\ ToolAt(p) > 1 -> Keep(p, ToolAt(p))
    [] ~p.inTool /\ ToolAt(p) = 0 /\ SwitchAt(p) > 1 -> Keep(p, SwitchAt(p))
    [] OTHER -> HoldFromSign(p)

QwenStep(p, final) ==
  LET loop[q \in Parsers] == IF SwitchIsNext(Erased(q)) THEN loop[Switch(Erased(q))]
                                                        ELSE QwenReturns(Erased(q), final)
  IN  loop[p]

-----------------------------------------------------------------------------
(* Gemma4e::parse_stream_content_impl *)

GemmaMarkers(p) == {ToolStart(p), ToolResp, EndOf(p)}

GemmaTool(p, final) ==
  LET end == Where(p.buffer, {ToolEnd(p), ToolResp})
  IN  IF end = 0 THEN EndToolFinal(p, final) ELSE EndTool(p, end, Len(ToolEnd(p)))

Passes(p) ==
  ~p.inTool /\ Where(p.buffer, GemmaMarkers(p)) = 1 /\ ~At(p.buffer, 1, ToolStart(p))

Passed(p) == IF At(p.buffer, 1, ToolResp) THEN Drop(p, Len(ToolResp)) ELSE Switch(p)

GemmaReturns(p, final) ==
  LET first == Where(p.buffer, GemmaMarkers(p))
  IN  CASE p.inTool -> GemmaTool(p, final)
        [] ~p.inTool /\ first = 1 -> GemmaTool(EnterTool(p), final)
        [] ~p.inTool /\ first > 1 -> Keep(p, first)
        [] OTHER -> HoldPartial(p, GemmaMarkers(p))

GemmaStep(p, final) ==
  LET loop[q \in Parsers] == IF Passes(q) THEN loop[Passed(q)] ELSE GemmaReturns(q, final)
  IN  loop[p]

-----------------------------------------------------------------------------
(* Nanbeige::parse_stream_content *)

NanbeigeTool(p) ==
  LET end == Where(p.buffer, {ToolEnd(p)})
  IN  IF end = 0 THEN Wait(p) ELSE EndTool(p, end, Len(ToolEnd(p)))

NanbeigeReturns(p) ==
  CASE p.inTool -> NanbeigeTool(p)
    [] ~p.inTool /\ ToolAt(p) = 1 -> NanbeigeTool(EnterTool(p))
    [] ~p.inTool /\ ToolAt(p) > 1 -> Keep(p, ToolAt(p))
    [] ~p.inTool /\ ToolAt(p) = 0 /\ SwitchAt(p) > 1 -> Keep(p, SwitchAt(p))
    [] OTHER -> HoldPartial(p, {ToolStart(p), EndOf(p)})

NanbeigeStep[p \in Parsers] ==
  IF SwitchIsNext(p) THEN NanbeigeStep[Switch(p)] ELSE NanbeigeReturns(p)

-----------------------------------------------------------------------------
(* GPT_OSS::parse_stream_content *)

\* A section begins; what came before its header is dropped.
EnterSection(p) ==
  LET at == Where(p.buffer, Headers)
      type == CHOOSE t \in DOMAIN Header : At(p.buffer, at, Header[t])
  IN  [Drop(p, at + Len(Header[type]) - 1) EXCEPT !.waiting = FALSE, !.mode = type]

\* The body of a section ends.
EndAt(p) == Where(p.buffer, {End})
Body(p) == SubSeq(p.buffer, 1, EndAt(p) - 1)
LeaveSection(p) == [Drop(p, EndAt(p)) EXCEPT !.waiting = TRUE]

HeaderIsNext(p) == p.waiting /\ Where(p.buffer, Headers) # 0
TextEnds(p) == ~p.waiting /\ p.mode # "tool" /\ EndAt(p) # 0

\* content is what the result has from sections that ended in this call; the name and
\* the arguments of a call are in its body.
HarmonyReturns(p, content) ==
  CASE p.waiting -> Wait(p)
    [] ~p.waiting /\ p.mode = "tool" ->
         IF EndAt(p) = 0 THEN Wait(p) ELSE Result(LeaveSection(p), CallEvent(p, Body(p)))
    [] OTHER -> Result([p EXCEPT !.buffer = <<>>], Tagged(p.mode, content \o p.buffer))

\* The parser in a call, with the content so far.
Calls == [parser : Parsers, content : Seq(Pieces)]

GoesOn(p) == HeaderIsNext(p) \/ TextEnds(p)

Onward(c) ==
  IF c.parser.waiting
  THEN [parser |-> EnterSection(c.parser), content |-> c.content]
  ELSE [parser |-> LeaveSection(c.parser), content |-> c.content \o Body(c.parser)]

HarmonyStep[c \in Calls] ==
  IF GoesOn(c.parser) THEN HarmonyStep[Onward(c)] ELSE HarmonyReturns(c.parser, c.content)

-----------------------------------------------------------------------------
Step(p, final) ==
  CASE p.family = "Qwen3_5VL" -> QwenStep(p, final)
    [] p.family = "Gemma4e" -> GemmaStep(p, final)
    [] p.family = "Nanbeige" -> NanbeigeStep[p]
    [] p.family = "GPT_OSS" -> HarmonyStep[[parser |-> p, content |-> <<>>]]

Parse(p, chunk) == Step([p EXCEPT !.buffer = @ \o chunk], FALSE)

\* finalize has no text left to pass on: families without a final form are not called.
ParseFinal(p) == IF p.family \in {"Qwen3_5VL", "Gemma4e"} THEN Step(p, TRUE) ELSE Wait(p)

\* What was kept for the request before stays.
ResetMode(p) == [p EXCEPT !.inTool = FALSE, !.mode = "content"]

\* reset_parser, and a cancel: whether a header is awaited stays as it was.
ResetParser(p) == [p EXCEPT !.buffer = <<>>, !.inTool = FALSE, !.mode = "content"]

Fresh(f) ==
  [family |-> f, buffer |-> <<>>, inTool |-> FALSE, mode |-> "content", waiting |-> f = "GPT_OSS"]

\* GPT_OSS::generate writes the first marker and the last one itself.
Opening == IF parser.family = "GPT_OSS" THEN <<Assistant>> ELSE <<>>
Closing == IF parser.family = "GPT_OSS" THEN End ELSE <<>>

Init ==
  /\ phase = "idle"
  /\ text = <<>>
  /\ written = 0
  /\ parser \in {Fresh(f) : f \in Families}
  /\ sent = <<>>
  /\ cancelled = FALSE
  /\ leftOpen = FALSE

Start ==
  LET first == IF Opening = <<>> THEN Wait(ResetParser(parser))
                                 ELSE Parse(ResetParser(parser), Opening)
  IN  /\ phase \in {"idle", "done", "error"}
      /\ phase' = "generate"
      /\ text' = Opening
      /\ written' = 0
      /\ parser' = first.parser
      /\ sent' = first.event
      /\ cancelled' = FALSE
      /\ leftOpen' = (parser.family = "GPT_OSS" /\ ~parser.waiting)

\* One token on its way through the stream to the client.
Token(c) ==
  LET result == Parse(parser, c)
  IN  /\ phase = "generate" /\ written < MaxChunks[parser.family]
      /\ text' = text \o c
      /\ written' = written + 1
      /\ parser' = result.parser
      /\ sent' = sent \o result.event
      /\ UNCHANGED <<phase, cancelled, leftOpen>>

\* generate writes last and returns.
Close(p, last) ==
  LET result == IF last = <<>> THEN Wait(p) ELSE Parse(p, last)
  IN  /\ phase = "generate"
      /\ phase' = "finalize"
      /\ text' = text \o last
      /\ parser' = result.parser
      /\ sent' = sent \o result.event
      /\ UNCHANGED <<written, leftOpen>>

AnswerEnds == Close(parser, Closing) /\ UNCHANGED cancelled

\* GPT_OSS::generate returns early: the first token is the end of the answer, or the
\* context is full with it.  One token does not complete a header.
AnswerEndsEarly ==
  /\ parser.family = "GPT_OSS" /\ written <= 1 /\ parser.waiting
  /\ Close(parser, <<>>) /\ UNCHANGED cancelled

AnswerCancelled == Close(ResetParser(parser), Closing) /\ cancelled' = TRUE

EngineFails ==
  /\ phase = "generate"
  /\ phase' = "error"
  /\ UNCHANGED <<text, written, parser, sent, cancelled, leftOpen>>

\* The handler then sends [DONE].
Finalize ==
  LET result == ParseFinal(parser)
  IN  /\ phase = "finalize"
      /\ phase' = "done"
      /\ parser' = result.parser
      /\ sent' = sent \o result.event
      /\ UNCHANGED <<text, written, cancelled, leftOpen>>

Next ==
  \/ Start
  \/ \E c \in Chunks[parser.family] : Token(c)
  \/ AnswerEnds \/ AnswerEndsEarly \/ AnswerCancelled \/ EngineFails \/ Finalize

Spec == Init /\ [][Next]_vars

-----------------------------------------------------------------------------------------------------------------------------------------
(***************************************************************************)
(* What the text in the buffer of p says to a reader who is in the place of  *)
(* p, looks at one marker at a time and knows no chunks; ended if it is all  *)
(* there will be.                                                           *)
(***************************************************************************)
ToolEnds(p) ==
  CASE p.family = "Qwen3_5VL" -> {ToolEnd(p), FuncEnd}
    [] p.family = "Gemma4e" -> {ToolEnd(p), ToolResp}
    [] p.family = "Nanbeige" -> {ToolEnd(p)}
    [] p.family = "GPT_OSS" -> {End}

InCall(p) == p.inTool \/ (~p.waiting /\ p.mode = "tool")

\* The first piece is no part of a header.
ReadHeader(p) ==
  IF \E t \in DOMAIN Header : At(p.buffer, 1, Header[t]) THEN EnterSection(p) ELSE Drop(p, 1)

\* A call that never ends is said only by an answer that may end inside of it.
ReadCall(p, ended) ==
  LET end == Where(p.buffer, ToolEnds(p))
      outside == [p EXCEPT !.inTool = FALSE, !.waiting = (p.family = "GPT_OSS")]
  IN  IF end # 0
      THEN Result(Drop(outside, end + (IF p.family = "GPT_OSS" THEN 0 ELSE 1)),
                  CallEvent(p, SubSeq(p.buffer, 1, end - 1)))
      ELSE Result([p EXCEPT !.buffer = <<>>],
                  IF ended /\ p.family \in {"Qwen3_5VL", "Gemma4e"} THEN CallEvent(p, p.buffer)
                                                                  ELSE <<>>)

\* What a family passes over without a word.
Silent(p) ==
  CASE p.family = "Gemma4e" -> {ToolResp}
    [] p.family = "Qwen3_5VL" -> {ToolEnd(p)}
    [] OTHER -> {}

ReadText(p) ==
  LET reads(m) == p.family # "GPT_OSS" /\ At(p.buffer, 1, m)
  IN  CASE p.family = "GPT_OSS" /\ At(p.buffer, 1, End) -> Wait([Drop(p, 1) EXCEPT !.waiting = TRUE])
        [] reads(ToolStart(p)) -> Wait(EnterTool(p))
        [] reads(EndOf(p)) -> Wait(Switch(p))
        [] \E m \in Silent(p) : reads(m) -> Wait(Drop(p, 2))
        [] OTHER -> Result(Drop(p, 1), <<<<p.mode, p.buffer[1]>>>>)

Read(p, ended) ==
  CASE p.waiting -> Wait(ReadHeader(p))
    [] InCall(p) -> ReadCall(p, ended)
    [] OTHER -> ReadText(p)

Says(p, ended) ==
  LET says[q \in Parsers] == IF q.buffer = <<>> THEN <<>>
                             ELSE Read(q, ended).event \o says[Read(q, ended).parser]
  IN  says[p]

Meaning(ended) == Says([Fresh(parser.family) EXCEPT !.buffer = text], ended)

\* Types; only GPT_OSS waits for a header, and has calls as a mode.
TypeOK ==
  /\ phase \in {"idle", "generate", "finalize", "done", "error"}
  /\ parser \in Parsers
  /\ parser.mode = "tool" \/ parser.waiting => parser.family = "GPT_OSS"
  /\ parser.inTool => parser.family # "GPT_OSS"
  /\ text \in Seq(Pieces)
  /\ written \in 0..MaxChunks[parser.family]
  /\ {cancelled, leftOpen} \subseteq BOOLEAN

Adjacent(m, n) == \E i \in DOMAIN text : At(text, i, m \o n)

\* Gemma4e's parser looks for the marker that comes first; the others look for a
\* tool call before they look for a think block, and Qwen3_5VL's for the end of one
\* before its beginning.
Separated ==
  /\ parser.family \in {"Qwen3_5VL", "Nanbeige"} =>
       /\ ~Adjacent(ThinkStart(parser), ToolStart(parser))
       /\ ~Adjacent(ThinkEnd(parser), ToolStart(parser))
  /\ parser.family = "Qwen3_5VL" =>
       /\ ~Adjacent(ToolStart(parser), ToolEnd(parser)) /\ ~Adjacent(ToolStart(parser), FuncEnd)
       /\ ~Adjacent(<<"<">>, ToolEnd(parser))

\* However the tokens cut the text into chunks, and whatever the request before left
\* in the parser, the client has received the beginning of what the text says: no
\* part of a marker as content, no content as reasoning, no call cut short
\* (parse_stream_content of each family, reset_parser).
SentIsSaid == Separated /\ ~leftOpen => IsPrefix(sent, Meaning(phase = "done"))

\* What was received and what the parser still keeps are all that the text says, at
\* any time: a parser that stops after one event per chunk comes back to the rest,
\* and gives the text between two markers the mode it had (the buffer_ and
\* current_mode_ that one call leaves to the next).
NothingLost ==
  Separated /\ ~leftOpen /\ ~cancelled =>
    sent \o Says(parser, FALSE) = Meaning(phase = "done")

\* A client waits for no text but what may become a marker, or is one: outside of a
\* call the parser keeps only the beginning of a marker, or at most 15 bytes from a
\* "<" on (the last lines of parse_stream_content of each family).
HeldBackMayBegin ==
  Separated /\ ~InCall(parser) /\ ~parser.waiting /\ parser.buffer # <<>> =>
    /\ parser.family # "GPT_OSS" /\ Head(parser.buffer) = "<"
    /\ \/ \E m \in Markers(parser) : IsPrefix(m, parser.buffer)
       \/ IF parser.family = "Qwen3_5VL" THEN Bytes(parser.buffer) <= 15
          ELSE \E m \in Markers(parser) : IsPrefix(parser.buffer, m)
=============================================================================
