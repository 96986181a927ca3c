----------------------------- MODULE StreamText -----------------------------
(***************************************************************************)
(* The way of the generated text to the client of a streaming request: each  *)
(* token is written to the stream of the request and flushed, the stream     *)
(* lets whole UTF-8 sequences through, the parser that the requests share    *)
(* sorts them into content, reasoning and tool calls, and each chunk is      *)
(* dumped as JSON.  One request streams at a time: it holds the NPU.         *)
(*                                                                         *)
(* Text is a sequence of atoms: bytes, and the markers of the parser, each   *)
(* one special token that stands for its ASCII bytes.                       *)
(***************************************************************************)
EXTENDS Integers, SequencesExt

CONSTANTS SeqLen,    \* bytes of the UTF-8 sequences in use that are not ASCII
          Tokens,    \* texts that single tokens decode to
          ToolCalls, \* texts that json::parse takes for a tool call
          Kinds,     \* "chat" for v1/chat/completions of a model with the
                     \* shared parser, "text" for streams without a parser
          MaxText    \* bound of the model: atoms generated for one request

Markers == {"<think>", "</think>", "<tool_call>", "</tool_call>"}
Atoms == Markers \cup {"ascii", "lead", "cont"}

VARIABLES
  phase,     \* of the stream: "idle" before the first, "generate", "finalize",
             \* "done", "cut" by an exception in finalize, "error" in the engine
  kind,      \* of the request
  text,      \* all that was generated for it
  buffer,    \* bytes the stream has not let through
  good,      \* the stream has not met an exception in a flush
  parser,    \* the parser of the model, which outlives the request
  sent,      \* what the client received, atoms with what they were sent as
  cancelled  \* generation ended by a cancel

vars == <<phase, kind, text, buffer, good, parser, sent, cancelled>>

-----------------------------------------------------------------------------
(***************************************************************************)
(* UTF-8                                                                   *)
(***************************************************************************)

\* The loop stops at an invalid start byte.
ScanAtomStops(scan, x) ==
  IF scan.pending # <<>> /\ x \in {"cont", "lead"} /\ Len(scan.pending) + 1 < SeqLen
  THEN [scan EXCEPT !.pending = Append(@, x)]
  ELSE IF x \in {"lead", "cont"} /\ scan.pending = <<>> THEN [scan EXCEPT !.pending = <<x>>]
  ELSE [complete |-> scan.complete \o Append(scan.pending, x), pending |-> <<>>]

\* A sequence that lacks one byte is taken for whole.
ScanAtomEarly(scan, x) ==
  IF scan.pending = <<>> /\ x = "cont" THEN scan
  ELSE LET more == Append(scan.pending, x)
           whole == more[1] # "lead" \/ Len(more) = SeqLen - 1 \/ x \in Markers
       IN  IF whole THEN [complete |-> scan.complete \o more, pending |-> <<>>]
                    ELSE [scan EXCEPT !.pending = more]

\* One atom more to the bytes let through and the sequence that is pending.
\* Only lengths count; the bytes of a marker are more than a sequence lacks.
ScanAtom(scan, x) ==
  IF scan.pending = <<>> /\ x = "cont" THEN scan
  ELSE LET more == Append(scan.pending, x)
           whole == \/ more[1] # "lead"
                    \/ Len(more) = SeqLen
                    \/ x \in Markers
       IN  IF whole THEN [complete |-> scan.complete \o more, pending |-> <<>>]
                    ELSE [scan EXCEPT !.pending = more]

Scan[bytes \in Seq(Atoms)] ==
  IF bytes = <<>> THEN [complete |-> <<>>, pending |-> <<>>]
                  ELSE ScanAtom(Scan[Front(bytes)], Last(bytes))

\* dump() of a string throws unless all its sequences are whole.
WellFormed(bytes) ==
  \A i \in DOMAIN bytes :
    /\ bytes[i] = "lead" =>
         /\ i + SeqLen - 1 <= Len(bytes)
         /\ \A j \in i + 1 .. i + SeqLen - 1 : bytes[j] = "cont"
    /\ bytes[i] = "cont" => \E j \in i - SeqLen + 1 .. i - 1 : j > 0 /\ bytes[j] = "lead"

\* json::parse takes well-formed text only.
ASSUME StreamAssumption ==
  /\ SeqLen \in 2..4
  /\ \A t \in Tokens :
       t # <<>> /\ (t \in Seq(Atoms \ Markers) \/ \E m \in Markers : t = <<m>>)
  /\ \A body \in ToolCalls : body \in Seq(Atoms \ {"</tool_call>"}) /\ WellFormed(body)
  /\ Kinds \subseteq {"chat", "text"}
  /\ MaxText \in [Kinds -> Nat]

-----------------------------------------------------------------------------
(***************************************************************************)
(* The parser.  A call of it takes one event off its buffer; a result is the *)
(* parser afterwards and the event, empty when there is nothing to send.     *)
(***************************************************************************)
Result(p, event) == [parser |-> p, event |-> event]

\* Text sent as a delta of the given type.
Tagged(type, s) == [i \in DOMAIN s |-> <<type, s[i]>>]

\* What the body of a finished tool block is sent as.
CallEvent(body) ==
  IF body \in ToolCalls THEN Tagged("call", Append(body, "</tool_call>"))
                        ELSE <<<<"content", "[Error parsing tool call]">>>>

Has(p, marker) == Contains(p.buffer, marker)
Place(p, marker) == SelectInSeq(p.buffer, LAMBDA x : x = marker)
UpTo(p, marker) == SubSeq(p.buffer, 1, Place(p, marker) - 1)
From(p, i) == [p EXCEPT !.buffer = SubSeq(@, i, Len(@))]

EnterTool(p) == [From(p, 2) EXCEPT !.inTool = TRUE, !.tool = <<>>]

\* is_in_tool_block_ stays set.
EndToolStays(p) ==
  LET body == p.tool \o UpTo(p, "</tool_call>")
  IN  Result([From(p, Place(p, "</tool_call>") + 1) EXCEPT !.tool = body], CallEvent(body))

EndTool(p) ==
  LET body == p.tool \o UpTo(p, "</tool_call>")
      after == From(p, Place(p, "</tool_call>") + 1)
  IN  Result([after EXCEPT !.inTool = FALSE, !.tool = body], CallEvent(body))

GrowTool(p) == Result([p EXCEPT !.tool = @ \o p.buffer, !.buffer = <<>>], <<>>)

\* The marker that ends a mode, and the mode after it.
EndOf(mode) == IF mode = "content" THEN "<think>" ELSE "</think>"
Other(mode) == IF mode = "content" THEN "reasoning" ELSE "content"

TextBefore(p, marker) ==
  Result(From(p, Place(p, marker)), Tagged(p.mode, UpTo(p, marker)))

Rest(p) == Result([p EXCEPT !.buffer = <<>>], Tagged(p.mode, p.buffer))

\* The loop passes over the markers at the front that each end the mode it is in.
Turns(p) ==
  Min({n \in 0..Len(p.buffer) :
         n = Len(p.buffer) \/ p.buffer[n + 1] # EndOf(IF n % 2 = 0 THEN p.mode ELSE Other(p.mode))})

Turned(p) ==
  [From(p, Turns(p) + 1) EXCEPT !.mode = IF Turns(p) % 2 = 0 THEN @ ELSE Other(@)]

OutsideTool(p) == IF Has(p, EndOf(p.mode)) THEN TextBefore(p, EndOf(p.mode)) ELSE Rest(p)

Step(p) ==
  CASE p.inTool /\ Has(p, "</tool_call>") -> EndTool(p)
    [] p.inTool /\ ~Has(p, "</tool_call>") -> GrowTool(p)
    [] ~p.inTool /\ Has(p, "<tool_call>") ->
         IF p.buffer[1] = "<tool_call>" THEN Result(EnterTool(p), <<>>)
                                        ELSE TextBefore(p, "<tool_call>")
    [] ~p.inTool /\ ~Has(p, "<tool_call>") -> OutsideTool(Turned(p))

Parse(content) == Step([parser EXCEPT !.buffer = @ \o content])

\* A tool block of the request before stays open.
ResetBuffer == [parser EXCEPT !.buffer = <<>>, !.mode = "content"]

ResetParser == [parser EXCEPT !.buffer = <<>>, !.inTool = FALSE, !.mode = "content"]

\* A chunk on its way to dump(), for either kind of stream.
Chunk(content) ==
  IF kind = "chat" THEN Parse(content) ELSE Result(parser, Tagged("content", content))

Dumps(event) == WellFormed([i \in DOMAIN event |-> event[i][2]])

-----------------------------------------------------------------------------
(***************************************************************************)
(* Streams                                                                 *)
(***************************************************************************)
Init ==
  /\ phase = "idle"
  /\ kind \in Kinds
  /\ text = <<>>
  /\ buffer = <<>>
  /\ good = TRUE
  /\ parser = [buffer |-> <<>>, inTool |-> FALSE, mode |-> "content", tool |-> <<>>]
  /\ sent = <<>>
  /\ cancelled = FALSE

\* A request with a stream of its own; only chat requests reset the parser.
Start(k) ==
  /\ phase \in {"idle", "done", "cut", "error"}
  /\ phase' = "generate"
  /\ kind' = k
  /\ text' = <<>>
  /\ buffer' = <<>>
  /\ good' = TRUE
  /\ parser' = IF k = "chat" THEN ResetParser ELSE parser
  /\ sent' = <<>>
  /\ cancelled' = FALSE

\* os << token_str << std::flush, where the flush lets through what is whole.
Token(t) ==
  /\ phase = "generate"
  /\ Len(text) + Len(t) <= MaxText[kind]
  /\ text' = text \o t
  /\ UNCHANGED <<phase, kind, cancelled>>

\* A stream that is bad ignores what is written to it.
TokenIgnored(t) ==
  /\ Token(t)
  /\ ~good
  /\ UNCHANGED <<buffer, good, parser, sent>>

TokenHeld(t) ==
  LET scan == Scan[buffer \o t]
  IN  /\ Token(t)
      /\ good
      /\ scan.complete = <<>>
      /\ buffer' = scan.pending
      /\ UNCHANGED <<good, parser, sent>>

TokenSent(t) ==
  LET scan == Scan[buffer \o t]
      chunk == Chunk(scan.complete)
  IN  /\ Token(t)
      /\ good
      /\ scan.complete # <<>>
      /\ Dumps(chunk.event)
      /\ parser' = chunk.parser
      /\ sent' = sent \o chunk.event
      /\ buffer' = scan.pending
      /\ UNCHANGED good

\* The exception of dump() leaves the buffer as it was and makes the stream bad.
TokenFails(t) ==
  LET scan == Scan[buffer \o t]
      chunk == Chunk(scan.complete)
  IN  /\ Token(t)
      /\ good
      /\ scan.complete # <<>>
      /\ ~Dumps(chunk.event)
      /\ parser' = chunk.parser
      /\ buffer' = buffer \o t
      /\ good' = FALSE
      /\ UNCHANGED sent

\* An end token, the length limit or the end of the context.
AnswerEnds ==
  /\ phase = "generate"
  /\ phase' = "finalize"
  /\ UNCHANGED <<kind, text, buffer, good, parser, sent, cancelled>>

\* A cancel between two tokens, or between two chunks of the prefill.
AnswerCancelled ==
  /\ phase = "generate"
  /\ phase' = "finalize"
  /\ cancelled' = TRUE
  /\ parser' = [ResetParser EXCEPT !.tool = <<>>]
  /\ UNCHANGED <<kind, text, buffer, good, sent>>

\* Prefill does not fit, or the engine throws: finalize is not called.
EngineFails ==
  /\ phase = "generate"
  /\ phase' = "error"
  /\ UNCHANGED <<kind, text, buffer, good, parser, sent, cancelled>>

FinalizeNothing ==
  /\ phase = "finalize"
  /\ buffer = <<>>
  /\ phase' = "done"
  /\ UNCHANGED <<kind, text, buffer, good, parser, sent, cancelled>>

\* The rest is thrown away.
FinalizeDrops ==
  /\ phase = "finalize"
  /\ buffer # <<>>
  /\ phase' = "done"
  /\ buffer' = <<>>
  /\ UNCHANGED <<kind, text, good, parser, sent, cancelled>>

FinalizeRest ==
  LET chunk == Chunk(buffer)
  IN  /\ phase = "finalize"
      /\ buffer # <<>>
      /\ parser' = chunk.parser
      /\ IF Dumps(chunk.event)
           THEN /\ phase' = "done"
                /\ sent' = sent \o chunk.event
                /\ buffer' = <<>>
           ELSE /\ phase' = "cut"
                /\ UNCHANGED <<sent, buffer>>
      /\ UNCHANGED <<kind, text, good, cancelled>>

Next ==
  \/ \E k \in Kinds : Start(k)
  \/ \E t \in Tokens : TokenIgnored(t) \/ TokenHeld(t) \/ TokenSent(t) \/ TokenFails(t)
  \/ AnswerEnds \/ AnswerCancelled \/ EngineFails
  \/ FinalizeNothing \/ FinalizeRest

Spec == Init /\ [][Next]_vars

-----------------------------------------------------------------------------
(***************************************************************************)
(* What an answer says, atom by atom and however it was cut into tokens.     *)
(***************************************************************************)
Said(state, x) ==
  CASE state.inTool /\ x = "</tool_call>" ->
         [state EXCEPT !.inTool = FALSE, !.sent = @ \o CallEvent(state.tool)]
    [] state.inTool /\ x # "</tool_call>" -> [state EXCEPT !.tool = Append(@, x)]
    [] ~state.inTool /\ x = "<tool_call>" -> [state EXCEPT !.inTool = TRUE, !.tool = <<>>]
    [] ~state.inTool /\ x = EndOf(state.mode) -> [state EXCEPT !.mode = Other(@)]
    [] OTHER -> [state EXCEPT !.sent = Append(@, <<state.mode, x>>)]

Reader[bytes \in Seq(Atoms)] ==
  IF bytes = <<>> THEN [inTool |-> FALSE, mode |-> "content", tool |-> <<>>, sent |-> <<>>]
                  ELSE Said(Reader[Front(bytes)], Last(bytes))

Meaning(bytes) ==
  IF kind = "text" THEN Tagged("content", bytes) ELSE Reader[bytes].sent

\* Each variable has its type, and a good stream holds back no whole sequence
\* (the loop of flush_complete_utf8_sequences, the erase after it).
TypeOK ==
  /\ phase \in {"idle", "generate", "finalize", "done", "cut", "error"}
  /\ kind \in Kinds
  /\ text \in Seq(Atoms) /\ Len(text) <= MaxText[kind]
  /\ buffer \in Seq(Atoms)
  /\ good => buffer = <<>> \/ (Head(buffer) = "lead" /\ Len(buffer) < SeqLen)
  /\ parser.buffer \in Seq(Atoms) /\ parser.tool \in Seq(Atoms)
  /\ parser.mode \in {"content", "reasoning"} /\ parser.inTool \in BOOLEAN
  /\ {good, cancelled} \subseteq BOOLEAN

\* Whatever becomes of a request - a cancel, an ill-formed text, the leavings
\* of the request before it in the shared parser - its client receives nothing
\* that its answer does not say, and that in order: reasoning never as content,
\* no part of a tool call as text, no call made of two.
SentIsSaid == IsPrefix(sent, Meaning(Scan[text].complete))

\* After each flush the client has all that the whole sequences generated so
\* far say, as long as they were valid: the parser keeps back tool blocks only.
\* An answer that ended otherwise than by a cancel is complete when it is done.
NothingHeldBack ==
  good /\ ~cancelled /\ phase \in {"generate", "finalize", "done"} =>
    sent = Meaning(Scan[text].complete)

\* The bytes of the answer are valid, but for a last sequence it may end inside.
ValidText ==
  LET scan == Scan[text]
  IN  text = scan.complete \o scan.pending /\ WellFormed(scan.complete)

\* A client told that its answer is done has all of it: after [DONE], or the
\* statistics, of an answer that was not cancelled, nothing of a valid text is
\* missing, the bytes of a last sequence that has not ended included.
DoneIsAll == phase = "done" /\ ~cancelled /\ ValidText => sent = Meaning(text)

\* An answer in well-formed UTF-8 is never cut: however its sequences are spread
\* over tokens and chunks, each chunk can be dumped and finalize ends it.
WellFormedIsNotCut == phase = "cut" => ~WellFormed(text)

=============================================================================
