------------------------ MODULE FamilyParsersProofs ------------------------
(***************************************************************************)
(* Proofs about FamilyParsers, for any tokens, tool calls and numbers of     *)
(* tokens.                                                                 *)
(***************************************************************************)
EXTENDS FamilyParsers, SequenceLemmas

Text == Seq(Pieces)
Types == {"content", "reasoning", "tool", "call"}
Sayings == Pieces \cup {"end of call", "[Error parsing tool call]", "[Tool Parse Error]"}
Events == Types \X Sayings
Results == [parser : Parsers, event : Seq(Events)]

\* Only GPT_OSS waits for a header and has calls as a mode; the others have tool blocks.
Proper ==
  {p \in Parsers : /\ p.mode = "tool" \/ p.waiting => p.family = "GPT_OSS"
                   /\ p.inTool => p.family # "GPT_OSS"}

-----------------------------------------------------------------------------
(***************************************************************************)
(* Markers                                                                 *)
(***************************************************************************)

\* A marker begins with a sign, which is nowhere else in it.
Tags == {m \in Text : m # <<>> /\ \A k \in DOMAIN m : m[k] = "<" <=> k = 1}

\* The markers of a parser are such.
LEMMA MarkersAreTags ==
  ASSUME NEW p
  PROVE  /\ {ThinkStart(p), ThinkEnd(p), ToolStart(p), ToolEnd(p), ToolResp, FuncEnd} \subseteq Tags
         /\ EndOf(p) \in {ThinkStart(p), ThinkEnd(p)}
         /\ Len(ThinkStart(p)) \in 2..3 /\ Len(ThinkEnd(p)) = 2 /\ Len(ToolStart(p)) = 2
         /\ Len(ToolEnd(p)) = 2 /\ Len(ToolResp) = 2 /\ Len(FuncEnd) = 2
<1>1. \A x \in Pieces \ {"<"} : <<"<", x>> \in Tags /\ Len(<<"<", x>>) = 2
  <2> "<" \in Pieces
    BY DEF Pieces, Marks
  <2>1. ASSUME NEW x \in Pieces \ {"<"}
        PROVE  <<"<", x>> \in Tags
    <3>1. <<"<", x>> \in Text /\ DOMAIN <<"<", x>> = 1..2
      BY DEF Text
    <3> QED BY <3>1 DEF Tags
  <2> QED BY <2>1
<1>2. <<"<", "|channel>", "thought">> \in Tags
  <2> {"<", "|channel>", "thought"} \subseteq Pieces
    BY DEF Pieces, Marks
  <2>1. <<"<", "|channel>", "thought">> \in Text /\ DOMAIN <<"<", "|channel>", "thought">> = 1..3
    BY DEF Text
  <2> QED BY <2>1 DEF Tags
<1>3. {"think>", "/think>", "tool_call>", "/tool_call>", "/function>", "channel|>", "|tool_call>",
       "tool_call|>", "|tool_response>"} \subseteq Pieces \ {"<"}
  BY DEF Pieces, Marks
<1>4. Len(<<"<", "|channel>", "thought">>) = 3
  OBVIOUS
<1> QED BY <1>1, <1>2, <1>3, <1>4 DEF ThinkStart, ThinkEnd, ToolStart, ToolEnd, ToolResp, FuncEnd, EndOf

\* m stands in s at i.
LEMMA AtDef ==
  ASSUME NEW s \in Text, NEW i \in 1..Len(s), NEW m \in Text
  PROVE  At(s, i, m) <=> /\ i + Len(m) - 1 <= Len(s)
                         /\ \A k \in 1..Len(m) : s[i + k - 1] = m[k]
<1> DEFINE r == SubSeq(s, i, Len(s))
<1>1. r \in Text /\ Len(r) = Len(s) - i + 1 /\ \A k \in 1..Len(r) : r[k] = s[i + k - 1]
  BY DEF Text
<1> HIDE DEF r
<1>2. At(s, i, m) <=> IsPrefix(m, r)
  BY DEF At, r
<1>3. IsPrefix(m, r) <=> Len(m) <= Len(r) /\ \A k \in 1..Len(m) : r[k] = m[k]
  BY <1>1 DEF IsPrefix, Text
<1> QED BY <1>1, <1>2, <1>3 DEF Text

\* Where finds the first of the markers.
LEMMA WhereDef ==
  ASSUME NEW s \in Text, NEW M
  PROVE  /\ Where(s, M) \in 0..Len(s)
         /\ Where(s, M) # 0 => \E m \in M : At(s, Where(s, M), m)
         /\ \A i \in 1..Len(s), m \in M :
              At(s, i, m) => Where(s, M) # 0 /\ Where(s, M) <= i
<1> DEFINE found == {i \in DOMAIN s : \E m \in M : At(s, i, m)}
<1>1. DOMAIN s = 1..Len(s) /\ Len(s) \in Nat
  BY DEF Text
<1>2. found \subseteq Nat /\ \A i \in found : i \in 1..Len(s) /\ \E m \in M : At(s, i, m)
  BY <1>1
<1>3. Where(s, M) = IF found = {} THEN 0 ELSE Min(found)
  BY DEF Where
<1>4. CASE found = {}
  BY <1>1, <1>3, <1>4
<1>5. CASE found # {}
  <2>1. Min(found) \in found /\ \A y \in found : Min(found) <= y
    <3> HIDE DEF found
    <3> QED BY <1>2, <1>5, MinOfNat
  <2>2. Where(s, M) = Min(found)
    BY <1>3, <1>5
  <2>3. Min(found) \in 1..Len(s) /\ \E m \in M : At(s, Min(found), m)
    BY <2>1
  <2>4. \A i \in 1..Len(s), m \in M : At(s, i, m) => Min(found) <= i
    BY <1>1, <2>1
  <2> HIDE DEF found
  <2> QED BY <2>2, <2>3, <2>4, <1>1
<1> QED BY <1>4, <1>5
-----------------------------------------------------------------------------
(***************************************************************************)
(* Types                                                                   *)
(***************************************************************************)

\* The fields of a parser.
LEMMA ParserFields ==
  ASSUME NEW p \in Parsers
  PROVE  /\ p.family \in Families /\ p.buffer \in Text /\ p.inTool \in BOOLEAN
         /\ p.mode \in {"content", "reasoning", "tool"} /\ p.waiting \in BOOLEAN
         /\ Len(p.buffer) \in Nat
         /\ p.family \in {"Qwen3_5VL", "Gemma4e", "Nanbeige", "GPT_OSS"}
<1>1. /\ p.family \in Families /\ p.buffer \in Text /\ p.inTool \in BOOLEAN
      /\ p.mode \in {"content", "reasoning", "tool"} /\ p.waiting \in BOOLEAN
  BY DEF Parsers, Text
<1>2. \A f \in Families : f \in {"Qwen3_5VL", "Gemma4e", "Nanbeige", "GPT_OSS"}
  BY FamilyAssumption DEF FamilyAssumption
<1>3. \A s \in Text : Len(s) \in Nat
  BY DEF Text
<1>4. p.family \in {"Qwen3_5VL", "Gemma4e", "Nanbeige", "GPT_OSS"}
  BY <1>1, <1>2
<1> QED BY <1>1, <1>3, <1>4

\* What an update of a field leaves and sets.
LEMMA BufferSet ==
  ASSUME NEW p \in Parsers, NEW b \in Text
  PROVE  LET q == [p EXCEPT !.buffer = b]
         IN  /\ q \in Parsers /\ q.buffer = b
             /\ q.family = p.family /\ q.inTool = p.inTool /\ q.mode = p.mode
             /\ q.waiting = p.waiting
BY DEF Parsers, Text

LEMMA InToolSet ==
  ASSUME NEW p \in Parsers, NEW b \in BOOLEAN
  PROVE  LET q == [p EXCEPT !.inTool = b]
         IN  /\ q \in Parsers /\ q.inTool = b
             /\ q.family = p.family /\ q.buffer = p.buffer /\ q.mode = p.mode
             /\ q.waiting = p.waiting
BY DEF Parsers, Text

LEMMA ModeSet ==
  ASSUME NEW p \in Parsers, NEW m \in {"content", "reasoning", "tool"}
  PROVE  LET q == [p EXCEPT !.mode = m]
         IN  /\ q \in Parsers /\ q.mode = m
             /\ q.family = p.family /\ q.buffer = p.buffer /\ q.inTool = p.inTool
             /\ q.waiting = p.waiting
BY DEF Parsers, Text

LEMMA WaitingSet ==
  ASSUME NEW p \in Parsers, NEW b \in BOOLEAN
  PROVE  LET q == [p EXCEPT !.waiting = b]
         IN  /\ q \in Parsers /\ q.waiting = b
             /\ q.family = p.family /\ q.buffer = p.buffer /\ q.inTool = p.inTool
             /\ q.mode = p.mode
BY DEF Parsers, Text

\* The end of a text.
LEMMA EndOfText ==
  ASSUME NEW s \in Text, NEW n \in Nat
  PROVE  LET e == SubSeq(s, n + 1, Len(s))
         IN  /\ e \in Text
             /\ n <= Len(s) => Len(e) = Len(s) - n /\ \A k \in 1..Len(e) : e[k] = s[n + k]
             /\ n > Len(s) => e = <<>>
<1>1. SubSeq(s, n + 1, Len(s)) \in Text
  BY DEF Text
<1>2. n <= Len(s) => /\ Len(SubSeq(s, n + 1, Len(s))) = Len(s) - n
                     /\ \A k \in 1..Len(s) - n : SubSeq(s, n + 1, Len(s))[k] = s[n + k]
  BY DEF Text
<1>3. n > Len(s) => SubSeq(s, n + 1, Len(s)) = <<>>
  BY DEF Text
<1> QED BY <1>1, <1>2, <1>3

\* Its beginning.
LEMMA BeginningOfText ==
  ASSUME NEW s \in Text, NEW n \in 0..Len(s)
  PROVE  LET b == SubSeq(s, 1, n)
         IN  b \in Text /\ Len(b) = n /\ \A k \in 1..n : b[k] = s[k]
BY DEF Text

\* Two texts after one another.
LEMMA ConcatText ==
  ASSUME NEW s \in Text, NEW t \in Text
  PROVE  /\ s \o t \in Text /\ Len(s \o t) = Len(s) + Len(t)
         /\ \A k \in 1..Len(s) : (s \o t)[k] = s[k]
         /\ \A k \in Len(s) + 1 .. Len(s) + Len(t) : (s \o t)[k] = t[k - Len(s)]
         /\ s \o <<>> = s /\ <<>> \o s = s
BY ConcatProperties, ConcatEmptySeq DEF Text

\* To drop n pieces leaves what comes after them.
LEMMA DropFields ==
  ASSUME NEW p \in Parsers, NEW n \in Nat
  PROVE  /\ Drop(p, n) \in Parsers
         /\ Drop(p, n).family = p.family /\ Drop(p, n).inTool = p.inTool
         /\ Drop(p, n).mode = p.mode /\ Drop(p, n).waiting = p.waiting
         /\ Drop(p, n).buffer = SubSeq(p.buffer, n + 1, Len(p.buffer))
         /\ n <= Len(p.buffer) => Len(Drop(p, n).buffer) = Len(p.buffer) - n
         /\ n > Len(p.buffer) => Drop(p, n).buffer = <<>>
<1> DEFINE e == SubSeq(p.buffer, n + 1, Len(p.buffer))
<1>1. p.buffer \in Text
  BY ParserFields
<1>2. e \in Text /\ (n <= Len(p.buffer) => Len(e) = Len(p.buffer) - n)
      /\ (n > Len(p.buffer) => e = <<>>)
  BY <1>1, EndOfText
<1>3. Drop(p, n) = [p EXCEPT !.buffer = e]
  BY DEF Drop
<1> HIDE DEF e
<1>4. /\ Drop(p, n) \in Parsers
      /\ Drop(p, n).family = p.family /\ Drop(p, n).inTool = p.inTool
      /\ Drop(p, n).mode = p.mode /\ Drop(p, n).waiting = p.waiting
      /\ Drop(p, n).buffer = e
  BY <1>2, <1>3, BufferSet
<1> QED BY <1>2, <1>4 DEF e

\* Pieces with what they are sent as.
LEMMA TaggedType ==
  ASSUME NEW type \in Types, NEW s \in Seq(Sayings)
  PROVE  /\ Tagged(type, s) \in Seq(Events) /\ Len(Tagged(type, s)) = Len(s)
         /\ \A i \in 1..Len(s) : Tagged(type, s)[i] = <<type, s[i]>>
         /\ s = <<>> => Tagged(type, s) = <<>>
<1>1. DOMAIN s = 1..Len(s) /\ Len(s) \in Nat /\ \A i \in 1..Len(s) : s[i] \in Sayings
  OBVIOUS
<1>2. Tagged(type, s) = [i \in 1..Len(s) |-> <<type, s[i]>>]
  BY <1>1 DEF Tagged
<1>3. Tagged(type, s) \in Seq(Events) /\ Len(Tagged(type, s)) = Len(s)
  BY <1>1, <1>2 DEF Events
<1> QED BY <1>1, <1>2, <1>3

LEMMA TextIsSaid ==
  /\ \A s \in Text : s \in Seq(Sayings)
  /\ \A s \in Text : Append(s, "end of call") \in Seq(Sayings)
  /\ {"content", "reasoning", "tool", "call"} = Types
  /\ <<>> \in Seq(Events) /\ <<>> \in Text
  /\ <<<<"content", "[Error parsing tool call]">>>> \in Seq(Events)
  /\ <<<<"content", "[Tool Parse Error]">>>> \in Seq(Events)
<1>1. \A s \in Text : s \in Seq(Sayings)
  <2>1. Pieces \subseteq Sayings
    BY DEF Sayings
  <2> QED BY <2>1 DEF Text
<1>2. "end of call" \in Sayings
  BY DEF Sayings
<1>9. ASSUME NEW s \in Text
      PROVE  Append(s, "end of call") \in Seq(Sayings)
  <2>1. s \in Seq(Sayings)
    BY <1>1
  <2> QED BY <1>2, <2>1, AppendProperties
<1>3. <<"content", "[Error parsing tool call]">> \in Events /\ <<"content", "[Tool Parse Error]">> \in Events
  BY DEF Events, Sayings, Types
<1> HIDE DEF Events
<1>4. \A x \in Events : <<x>> \in Seq(Events)
  OBVIOUS
<1>5. <<>> \in Text /\ <<>> \in Seq(Events)
  BY DEF Text
<1>6. {"content", "reasoning", "tool", "call"} = Types
  BY DEF Types
<1>7. <<<<"content", "[Error parsing tool call]">>>> \in Seq(Events)
  BY <1>3, <1>4
<1>8. <<<<"content", "[Tool Parse Error]">>>> \in Seq(Events)
  BY <1>3, <1>4
<1> QED BY <1>1, <1>9, <1>5, <1>6, <1>7, <1>8

\* What is sent of a call.
LEMMA CallType ==
  ASSUME NEW p, NEW body \in Text
  PROVE  CallEvent(p, body) \in Seq(Events)
<1>1. Tagged("call", Append(body, "end of call")) \in Seq(Events)
  BY TextIsSaid, TaggedType
<1> QED BY <1>1, TextIsSaid DEF CallEvent

\* What a call of a parser with tool blocks returns.
Outcome(p, r) ==
  /\ r \in Results
  /\ r.parser.family = p.family
  /\ p \in Proper /\ p.family # "GPT_OSS" => r.parser \in Proper

LEMMA OutcomeDef ==
  ASSUME NEW p, NEW q \in Parsers, NEW event \in Seq(Events), q.family = p.family,
         p \in Proper /\ p.family # "GPT_OSS" => q \in Proper
  PROVE  Outcome(p, Result(q, event))
<1>1. Result(q, event) \in Results /\ Result(q, event).parser = q
  BY DEF Result, Results
<1> QED BY <1>1 DEF Outcome

\* Proper is kept by what changes neither place nor family.
LEMMA ProperDef ==
  ASSUME NEW p \in Parsers, NEW q \in Parsers, p.family = q.family
  PROVE  /\ p.mode = q.mode /\ p.inTool = q.inTool /\ p.waiting = q.waiting =>
              (p \in Proper <=> q \in Proper)
         /\ p.family # "GPT_OSS" => (q \in Proper <=> ~q.waiting /\ q.mode # "tool")
         /\ p.family = "GPT_OSS" => (q \in Proper <=> ~q.inTool)
BY ParserFields DEF Proper

LEMMA DropKeepsProper ==
  ASSUME NEW p \in Parsers, NEW n \in Nat
  PROVE  Drop(p, n) \in Proper <=> p \in Proper
BY DropFields, ProperDef

\* A result with the text before i.
LEMMA KeepType ==
  ASSUME NEW p \in Parsers, NEW i \in 1..Len(p.buffer) + 1
  PROVE  Outcome(p, Keep(p, i))
<1>1. p.buffer \in Text /\ p.mode \in Types /\ Len(p.buffer) \in Nat /\ i - 1 \in 0..Len(p.buffer) /\ i - 1 \in Nat
  BY ParserFields DEF Types
<1>2. SubSeq(p.buffer, 1, i - 1) \in Seq(Sayings)
  BY <1>1, BeginningOfText, TextIsSaid
<1>3. Tagged(p.mode, SubSeq(p.buffer, 1, i - 1)) \in Seq(Events)
  BY <1>1, <1>2, TaggedType
<1>4. Drop(p, i - 1) \in Parsers /\ Drop(p, i - 1).family = p.family
  BY <1>1, DropFields
<1> QED BY <1>1, <1>3, <1>4, DropKeepsProper, OutcomeDef DEF Keep

LEMMA WaitType ==
  ASSUME NEW p \in Parsers
  PROVE  Outcome(p, Wait(p))
BY OutcomeDef, TextIsSaid DEF Wait

\* A result with a tool call.
LEMMA EndToolType ==
  ASSUME NEW p \in Parsers, NEW i \in 1..Len(p.buffer) + 1, NEW n \in Nat
  PROVE  /\ Outcome(p, EndTool(p, i, n))
         /\ EndTool(p, i, n).parser.buffer = SubSeq(p.buffer, i + n, Len(p.buffer))
         /\ ~EndTool(p, i, n).parser.inTool
<1> DEFINE d == Drop(p, i + n - 1)
           q == [d EXCEPT !.inTool = FALSE]
           c == CallEvent(p, SubSeq(p.buffer, 1, i - 1))
<1>1. p.buffer \in Text /\ Len(p.buffer) \in Nat /\ i - 1 \in 0..Len(p.buffer) /\ i + n - 1 \in Nat
      /\ i + n - 1 + 1 = i + n
  BY ParserFields
<1>2. /\ d \in Parsers /\ d.family = p.family /\ d.mode = p.mode /\ d.waiting = p.waiting
      /\ d.buffer = SubSeq(p.buffer, i + n, Len(p.buffer))
  <2> DEFINE k == i + n - 1
  <2>1. k \in Nat /\ k + 1 = i + n
    BY <1>1
  <2> HIDE DEF k
  <2>2. d = Drop(p, k)
    BY DEF k
  <2>3. /\ Drop(p, k) \in Parsers /\ Drop(p, k).family = p.family /\ Drop(p, k).mode = p.mode
        /\ Drop(p, k).waiting = p.waiting
        /\ Drop(p, k).buffer = SubSeq(p.buffer, k + 1, Len(p.buffer))
    BY <2>1, DropFields
  <2> HIDE DEF d
  <2> QED BY <2>1, <2>2, <2>3
<1>3. c \in Seq(Events)
  BY <1>1, BeginningOfText, CallType
<1>4. EndTool(p, i, n) = Result(q, c)
  BY DEF EndTool
<1> HIDE DEF d
<1>5. /\ q \in Parsers /\ q.family = p.family /\ q.mode = p.mode /\ q.waiting = p.waiting
      /\ ~q.inTool /\ q.buffer = d.buffer
  BY <1>2, InToolSet
<1> HIDE DEF q, c
<1>6. p \in Proper /\ p.family # "GPT_OSS" => q \in Proper
  BY <1>5, ProperDef
<1>7. Outcome(p, Result(q, c)) /\ Result(q, c).parser = q
  BY <1>3, <1>5, <1>6, OutcomeDef DEF Result
<1> QED BY <1>2, <1>4, <1>5, <1>7

LEMMA EndToolFinalType ==
  ASSUME NEW p \in Parsers, NEW final
  PROVE  Outcome(p, EndToolFinal(p, final))
<1>1. Len(p.buffer) + 1 \in 1..Len(p.buffer) + 1
  BY ParserFields
<1> QED BY <1>1, EndToolType, WaitType DEF EndToolFinal

\* Into a tool block, and into the other mode.
LEMMA EnterToolFields ==
  ASSUME NEW p \in Parsers
  PROVE  LET q == EnterTool(p)
         IN  /\ q \in Parsers /\ q.family = p.family /\ q.inTool
             /\ q.mode = p.mode /\ q.waiting = p.waiting
             /\ q.buffer = Drop(p, 2).buffer
             /\ p \in Proper /\ p.family # "GPT_OSS" => q \in Proper
<1>1. Len(ToolStart(p)) = 2
  BY MarkersAreTags
<1>2. /\ Drop(p, 2) \in Parsers /\ Drop(p, 2).family = p.family
      /\ Drop(p, 2).mode = p.mode /\ Drop(p, 2).waiting = p.waiting
  BY DropFields
<1>3. EnterTool(p) = [Drop(p, 2) EXCEPT !.inTool = TRUE]
  BY <1>1 DEF EnterTool
<1>4. /\ EnterTool(p) \in Parsers /\ EnterTool(p).family = p.family /\ EnterTool(p).inTool
      /\ EnterTool(p).mode = p.mode /\ EnterTool(p).waiting = p.waiting
      /\ EnterTool(p).buffer = Drop(p, 2).buffer
  BY <1>2, <1>3, InToolSet
<1> QED BY <1>4, ProperDef

LEMMA SwitchFields ==
  ASSUME NEW p \in Parsers
  PROVE  LET q == Switch(p)
         IN  /\ q \in Parsers /\ q.family = p.family /\ q.inTool = p.inTool
             /\ q.mode = Other(p.mode) /\ q.waiting = p.waiting
             /\ q.buffer = Drop(p, Len(EndOf(p))).buffer
             /\ p \in Proper => q \in Proper
<1> DEFINE d == Drop(p, Len(EndOf(p)))
<1>1. Len(EndOf(p)) \in Nat
  BY MarkersAreTags
<1>2. /\ d \in Parsers /\ d.family = p.family /\ d.inTool = p.inTool
      /\ d.mode = p.mode /\ d.waiting = p.waiting
  BY <1>1, DropFields
<1>3. Switch(p) = [d EXCEPT !.mode = Other(d.mode)]
  <2>1. Switch(p) = [d EXCEPT !.mode = Other(@)]
    BY DEF Switch
  <2> HIDE DEF d
  <2> QED BY <1>2, <2>1 DEF Parsers
<1> HIDE DEF d
<1>4. Other(d.mode) \in {"content", "reasoning", "tool"} /\ Other(d.mode) # "tool"
  BY DEF Other
<1>5. /\ Switch(p) \in Parsers /\ Switch(p).family = p.family /\ Switch(p).inTool = p.inTool
      /\ Switch(p).mode = Other(p.mode) /\ Switch(p).waiting = p.waiting
      /\ Switch(p).buffer = d.buffer
  <2> DEFINE o == Other(d.mode)
  <2>1. o = Other(p.mode) /\ o \in {"content", "reasoning", "tool"} /\ Switch(p) = [d EXCEPT !.mode = o]
    BY <1>2, <1>3, <1>4
  <2> HIDE DEF o
  <2>2. /\ [d EXCEPT !.mode = o] \in Parsers /\ [d EXCEPT !.mode = o].mode = o
        /\ [d EXCEPT !.mode = o].family = d.family /\ [d EXCEPT !.mode = o].buffer = d.buffer
        /\ [d EXCEPT !.mode = o].inTool = d.inTool /\ [d EXCEPT !.mode = o].waiting = d.waiting
    BY <1>2, <2>1, ModeSet, ZenonT(60)
  <2> QED BY <1>2, <2>1, <2>2
<1>6. p \in Proper => Switch(p) \in Proper
  BY <1>2, <1>4, <1>5, ProperDef
<1> QED BY <1>5, <1>6 DEF d

\* A marker at the front has its length in the buffer.
LEMMA MarkerFits ==
  ASSUME NEW s \in Text, NEW M, M \subseteq Tags, NEW i, i = Where(s, M), i # 0
  PROVE  /\ i \in 1..Len(s) /\ s[i] = "<"
         /\ \E m \in M : i + Len(m) - 1 <= Len(s) /\ At(s, i, m)
<1>1. i \in 1..Len(s) /\ \E m \in M : At(s, i, m)
  BY WhereDef DEF Text
<1>2. PICK m \in M : At(s, i, m)
  BY <1>1
<1>3. m \in Text /\ Len(m) \in Nat \ {0} /\ m[1] = "<"
  BY DEF Tags, Text
<1>4. i + Len(m) - 1 <= Len(s) /\ \A k \in 1..Len(m) : s[i + k - 1] = m[k]
  BY <1>1, <1>2, <1>3, AtDef
<1>5. s[i] = "<"
  <2>1. 1 \in 1..Len(m) /\ i + 1 - 1 = i
    BY <1>1, <1>3
  <2> QED BY <1>3, <1>4, <2>1
<1> QED BY <1>1, <1>2, <1>4, <1>5

\* Without the first stray end of a call.
LEMMA ErasedFields ==
  ASSUME NEW p \in Parsers
  PROVE  LET q == Erased(p)
         IN  /\ q \in Parsers /\ q.family = p.family /\ q.inTool = p.inTool
             /\ q.mode = p.mode /\ q.waiting = p.waiting
             /\ Len(q.buffer) <= Len(p.buffer)
             /\ q \in Proper <=> p \in Proper
<1> DEFINE i == Where(p.buffer, {ToolEnd(p)})
           b == SubSeq(p.buffer, 1, i - 1) \o SubSeq(p.buffer, i + Len(ToolEnd(p)), Len(p.buffer))
<1>1. p.buffer \in Text /\ Len(p.buffer) \in Nat
  BY ParserFields
<1>2. CASE p.inTool \/ i = 0
  <2>1. Erased(p) = p
    BY <1>2 DEF Erased
  <2> QED BY <1>1, <2>1
<1>3. CASE ~p.inTool /\ i # 0
  <2>1. ToolEnd(p) \in Tags /\ Len(ToolEnd(p)) = 2
    BY MarkersAreTags
  <2>2. i \in 1..Len(p.buffer) /\ i + 2 - 1 <= Len(p.buffer)
    <3>1. PICK m \in {ToolEnd(p)} : i + Len(m) - 1 <= Len(p.buffer)
      BY <1>1, <1>3, <2>1, MarkerFits
    <3>2. i \in 1..Len(p.buffer)
      BY <1>1, <1>3, <2>1, MarkerFits
    <3> HIDE DEF i
    <3> QED BY <2>1, <3>1, <3>2
  <2>3. b = SubSeq(p.buffer, 1, i - 1) \o SubSeq(p.buffer, i + 2, Len(p.buffer))
    BY <2>1
  <2>4. Erased(p) = [p EXCEPT !.buffer = b]
    BY <1>3 DEF Erased
  <2> HIDE DEF i, b
  <2>5. /\ SubSeq(p.buffer, 1, i - 1) \in Text /\ Len(SubSeq(p.buffer, 1, i - 1)) = i - 1
    <3>1. i - 1 \in 0..Len(p.buffer)
      BY <1>1, <2>2
    <3> QED BY <1>1, <3>1, BeginningOfText
  <2>6. SubSeq(p.buffer, i + 2, Len(p.buffer)) \in Text
        /\ Len(SubSeq(p.buffer, i + 2, Len(p.buffer))) = Len(p.buffer) - i - 1
    <3> DEFINE n == i + 1
    <3>1. n \in Nat /\ n <= Len(p.buffer) /\ n + 1 = i + 2
      BY <1>1, <2>2
    <3> HIDE DEF n
    <3>2. SubSeq(p.buffer, n + 1, Len(p.buffer)) \in Text
          /\ Len(SubSeq(p.buffer, n + 1, Len(p.buffer))) = Len(p.buffer) - n
      BY <1>1, <3>1, EndOfText
    <3> QED BY <1>1, <2>2, <3>1, <3>2
  <2>7. b \in Text /\ Len(b) = Len(p.buffer) - 2
    <3> DEFINE u == SubSeq(p.buffer, 1, i - 1)
               v == SubSeq(p.buffer, i + 2, Len(p.buffer))
    <3>1. u \in Text /\ v \in Text /\ Len(u) = i - 1 /\ Len(v) = Len(p.buffer) - i - 1 /\ b = u \o v
      BY <2>3, <2>5, <2>6
    <3> HIDE DEF u, v
    <3>2. u \o v \in Text /\ Len(u \o v) = Len(u) + Len(v)
      BY <3>1, ConcatText
    <3> QED BY <1>1, <2>2, <3>1, <3>2
  <2>8. /\ Erased(p) \in Parsers /\ Erased(p).family = p.family /\ Erased(p).inTool = p.inTool
        /\ Erased(p).mode = p.mode /\ Erased(p).waiting = p.waiting /\ Erased(p).buffer = b
    BY <2>4, <2>7, BufferSet
  <2> QED BY <1>1, <2>7, <2>8, ProperDef
<1> QED BY <1>2, <1>3

\* What a parser keeps that keeps the longest beginning of a marker at the end.
LEMMA HoldPartialDef ==
  ASSUME NEW p \in Parsers, NEW M, M \subseteq Text, M # {}
  PROVE  \E i \in 1..Len(p.buffer) + 1 :
           /\ HoldPartial(p, M) = Keep(p, i)
           /\ \E m \in M : IsPrefix(SubSeq(p.buffer, i, Len(p.buffer)), m)
           /\ \A j \in 1..i - 1, m \in M : ~IsPrefix(SubSeq(p.buffer, j, Len(p.buffer)), m)
<1> DEFINE n == Len(p.buffer)
           I == {i \in 1..n + 1 : \E m \in M : IsPrefix(SubSeq(p.buffer, i, n), m)}
<1>1. p.buffer \in Text /\ n \in Nat
  BY ParserFields
<1>2. n + 1 \in I
  <2>1. PICK m \in M : m \in Text
    OBVIOUS
  <2>2. SubSeq(p.buffer, n + 1, n) = <<>>
    BY <1>1 DEF Text
  <2>3. IsPrefix(<<>>, m)
    BY <2>1 DEF IsPrefix, Text
  <2>4. IsPrefix(SubSeq(p.buffer, n + 1, n), m)
    BY <2>2, <2>3
  <2>5. n + 1 \in 1..n + 1
    BY <1>1
  <2> HIDE DEF n
  <2> QED BY <2>4, <2>5
<1>3. I \subseteq Nat /\ \A i \in I : i \in 1..n + 1
  BY <1>1
<1>4. Min(I) \in I /\ \A j \in I : Min(I) <= j
  <2> HIDE DEF I
  <2> QED BY <1>2, <1>3, MinOfNat
<1>5. HoldPartial(p, M) = Keep(p, Min(I))
  BY DEF HoldPartial
<1>6. Min(I) \in 1..n + 1 /\ \E m \in M : IsPrefix(SubSeq(p.buffer, Min(I), n), m)
  BY <1>4
<1>7. ASSUME NEW j \in 1..Min(I) - 1, NEW m \in M, IsPrefix(SubSeq(p.buffer, j, n), m)
      PROVE  FALSE
  <2>1. j \in 1..n + 1
    BY <1>1, <1>6
  <2>2. j \in I
    BY <1>7, <2>1
  <2>3. Min(I) <= j /\ Min(I) \in Nat
    BY <1>3, <1>4, <2>2
  <2> HIDE DEF I
  <2> QED BY <1>7, <2>3
<1> HIDE DEF I
<1> QED BY <1>5, <1>6, <1>7

\* What a Qwen3_5VL parser keeps begins with the last sign.
LEMMA HoldFromSignDef ==
  ASSUME NEW p \in Parsers
  PROVE  \E i \in 1..Len(p.buffer) + 1 :
           /\ HoldFromSign(p) = Keep(p, i)
           /\ i <= Len(p.buffer) => p.buffer[i] = "<"
           /\ \A j \in i + 1..Len(p.buffer) : p.buffer[j] # "<"
<1> DEFINE n == Len(p.buffer)
           I == {i \in 1..n : p.buffer[i] = "<"}
           last == SelectLastInSeq(p.buffer, LAMBDA x : x = "<")
<1>1. p.buffer \in Text /\ n \in Nat /\ n + 1 \in 1..n + 1
  BY ParserFields
<1>2. last = IF I # {} THEN Max(I) ELSE 0
  BY DEF SelectLastInSeq
<1>3. I \subseteq 0..n
  BY <1>1
<1>4. I # {} => Max(I) \in I /\ \A y \in I : y <= Max(I)
  <2> HIDE DEF I
  <2> QED BY <1>1, <1>3, MaxUpTo
<1>5. last # 0 => /\ last \in 1..n /\ p.buffer[last] = "<"
                  /\ \A j \in last + 1..n : p.buffer[j] # "<"
  <2>1. SUFFICES ASSUME last # 0
                 PROVE  /\ last \in I /\ \A y \in I : y <= last
    BY <1>1
  <2> HIDE DEF I, last
  <2> QED BY <1>2, <1>4, <2>1
<1>6. HoldFromSign(p) = IF last # 0 /\ Bytes(SubSeq(p.buffer, last, n)) <= 15
                        THEN Keep(p, last) ELSE Keep(p, n + 1)
  BY DEF HoldFromSign, HoldNothing
<1> HIDE DEF last, I
<1>7. CASE last # 0 /\ Bytes(SubSeq(p.buffer, last, n)) <= 15
  <2>1. HoldFromSign(p) = Keep(p, last)
    BY <1>6, <1>7
  <2> QED BY <1>1, <1>5, <1>7, <2>1
<1>8. CASE ~(last # 0 /\ Bytes(SubSeq(p.buffer, last, n)) <= 15)
  <2>1. HoldFromSign(p) = Keep(p, n + 1)
    BY <1>6, <1>8
  <2> QED BY <1>1, <2>1
<1> QED BY <1>7, <1>8

-----------------------------------------------------------------------------
(***************************************************************************)
(* What each parser returns when its loop ends                             *)
(***************************************************************************)
LEMMA HoldTypes ==
  ASSUME NEW p \in Parsers
  PROVE  /\ Outcome(p, HoldFromSign(p))
         /\ \A M : M \subseteq Text /\ M # {} => Outcome(p, HoldPartial(p, M))
<1>1. Outcome(p, HoldFromSign(p))
  BY HoldFromSignDef, KeepType
<1>2. ASSUME NEW M, M \subseteq Text, M # {}
      PROVE  Outcome(p, HoldPartial(p, M))
  <2>1. PICK i \in 1..Len(p.buffer) + 1 : HoldPartial(p, M) = Keep(p, i)
    BY <1>2, HoldPartialDef
  <2> QED BY <2>1, KeepType
<1> QED BY <1>1, <1>2

\* A place that Where found.
LEMMA WhereType ==
  ASSUME NEW p \in Parsers, NEW M
  PROVE  /\ Where(p.buffer, M) \in 0..Len(p.buffer)
         /\ Where(p.buffer, M) # 0 => Where(p.buffer, M) \in 1..Len(p.buffer) + 1
         /\ Where(p.buffer, M) \in Nat
<1>1. p.buffer \in Text /\ Len(p.buffer) \in Nat
  BY ParserFields
<1>2. Where(p.buffer, M) \in 0..Len(p.buffer)
  BY <1>1, WhereDef
<1> QED BY <1>1, <1>2

LEMMA QwenReturnsType ==
  ASSUME NEW p \in Parsers, NEW final
  PROVE  /\ QwenReturns(p, final) \in Results
         /\ p.family # "GPT_OSS" => Outcome(p, QwenReturns(p, final))
<1>1. Outcome(p, QwenTool(p, final))
  BY WhereType, MarkersAreTags, EndToolType, EndToolFinalType DEF QwenTool
<1>2. EnterTool(p) \in Parsers /\ EnterTool(p).family = p.family
      /\ (p \in Proper /\ p.family # "GPT_OSS" => EnterTool(p) \in Proper)
  BY EnterToolFields
<1>3. Outcome(EnterTool(p), Wait(EnterTool(p)))
  BY <1>2, WaitType
<1>4. /\ Wait(EnterTool(p)) \in Results
      /\ p.family # "GPT_OSS" => Outcome(p, Wait(EnterTool(p)))
  BY <1>2, <1>3 DEF Outcome
<1>5. ToolAt(p) > 1 => Outcome(p, Keep(p, ToolAt(p)))
  BY WhereType, KeepType DEF ToolAt
<1>6. SwitchAt(p) > 1 => Outcome(p, Keep(p, SwitchAt(p)))
  BY WhereType, KeepType DEF SwitchAt
<1>7. Outcome(p, HoldFromSign(p))
  BY HoldTypes
<1>8. CASE p.inTool
  BY <1>1, <1>8 DEF QwenReturns, Outcome
<1>9. CASE ~p.inTool /\ ToolAt(p) = 1
  BY <1>4, <1>9 DEF QwenReturns
<1>10. CASE ~p.inTool /\ ToolAt(p) > 1
  BY <1>5, <1>10 DEF QwenReturns, Outcome
<1>11. CASE ~p.inTool /\ ToolAt(p) = 0 /\ SwitchAt(p) > 1
  BY <1>6, <1>11 DEF QwenReturns, Outcome
<1>12. CASE ~p.inTool /\ ~(ToolAt(p) = 1) /\ ~(ToolAt(p) > 1) /\ ~(ToolAt(p) = 0 /\ SwitchAt(p) > 1)
  BY <1>7, <1>12 DEF QwenReturns, Outcome
<1> QED BY <1>8, <1>9, <1>10, <1>11, <1>12

LEMMA GemmaToolType ==
  ASSUME NEW p \in Parsers, NEW final
  PROVE  Outcome(p, GemmaTool(p, final))
BY WhereType, MarkersAreTags, EndToolType, EndToolFinalType DEF GemmaTool

\* What is an outcome after a step that keeps the family is one before.
LEMMA OutcomeAfter ==
  ASSUME NEW p, NEW q, NEW r, Outcome(q, r), q.family = p.family
  PROVE  /\ r \in Results /\ r.parser.family = p.family
         /\ (p \in Proper /\ p.family # "GPT_OSS" => q \in Proper) => Outcome(p, r)
BY DEF Outcome

LEMMA GemmaReturnsType ==
  ASSUME NEW p \in Parsers, NEW final
  PROVE  /\ GemmaReturns(p, final) \in Results
         /\ p.family # "GPT_OSS" => Outcome(p, GemmaReturns(p, final))
<1> DEFINE first == Where(p.buffer, GemmaMarkers(p))
<1>1. Outcome(p, GemmaTool(p, final))
  BY GemmaToolType
<1>2. EnterTool(p) \in Parsers /\ EnterTool(p).family = p.family
      /\ (p \in Proper /\ p.family # "GPT_OSS" => EnterTool(p) \in Proper)
  BY EnterToolFields
<1>3. Outcome(p, GemmaTool(EnterTool(p), final))
  BY <1>2, GemmaToolType, OutcomeAfter
<1>4. first > 1 => Outcome(p, Keep(p, first))
  <2>1. first \in Nat /\ (first # 0 => first \in 1..Len(p.buffer) + 1)
    BY WhereType
  <2> HIDE DEF first
  <2> QED BY <2>1, KeepType
<1>5. Outcome(p, HoldPartial(p, GemmaMarkers(p)))
  <2>1. GemmaMarkers(p) \subseteq Text /\ GemmaMarkers(p) # {}
    BY MarkersAreTags DEF GemmaMarkers, Tags
  <2> QED BY <2>1, HoldTypes
<1>6. Outcome(p, GemmaReturns(p, final))
  <2> HIDE DEF first
  <2>1. GemmaReturns(p, final) =
          CASE p.inTool -> GemmaTool(p, final)
            [] ~p.inTool /\ first = 1 -> GemmaTool(EnterTool(p), final)
            [] ~p.inTool /\ first > 1 -> Keep(p, first)
            [] OTHER -> HoldPartial(p, GemmaMarkers(p))
    BY DEF GemmaReturns, first
  <2> QED BY <1>1, <1>3, <1>4, <1>5, <2>1
<1> QED BY <1>6 DEF Outcome

LEMMA NanbeigeToolType ==
  ASSUME NEW p \in Parsers
  PROVE  Outcome(p, NanbeigeTool(p))
BY WhereType, MarkersAreTags, EndToolType, WaitType DEF NanbeigeTool

LEMMA NanbeigeReturnsType ==
  ASSUME NEW p \in Parsers
  PROVE  Outcome(p, NanbeigeReturns(p))
<1>1. Outcome(p, NanbeigeTool(p))
  BY NanbeigeToolType
<1>2. EnterTool(p) \in Parsers /\ EnterTool(p).family = p.family
      /\ (p \in Proper /\ p.family # "GPT_OSS" => EnterTool(p) \in Proper)
  BY EnterToolFields
<1>3. Outcome(p, NanbeigeTool(EnterTool(p)))
  BY <1>2, NanbeigeToolType, OutcomeAfter
<1>4. ToolAt(p) > 1 => Outcome(p, Keep(p, ToolAt(p)))
  BY WhereType, KeepType DEF ToolAt
<1>5. SwitchAt(p) > 1 => Outcome(p, Keep(p, SwitchAt(p)))
  BY WhereType, KeepType DEF SwitchAt
<1>6. Outcome(p, HoldPartial(p, {ToolStart(p), EndOf(p)}))
  <2>1. {ToolStart(p), EndOf(p)} \subseteq Text
    BY MarkersAreTags DEF Tags
  <2> QED BY <2>1, HoldTypes
<1> QED BY <1>1, <1>3, <1>4, <1>5, <1>6 DEF NanbeigeReturns

-----------------------------------------------------------------------------
(***************************************************************************)
(* The loops: each is a function, since each round drops a marker.           *)
(***************************************************************************)

\* The number of pieces that a parser holds.
Held == [p \in Parsers |-> Len(p.buffer)]

LEMMA HeldDef == Held \in [Parsers -> Nat] /\ \A p \in Parsers : Held[p] = Len(p.buffer)
BY ParserFields DEF Held

\* To drop something of what is there makes it less.
LEMMA DropIsLess ==
  ASSUME NEW p \in Parsers, NEW n \in Nat \ {0}, p.buffer # <<>>
  PROVE  Len(Drop(p, n).buffer) < Len(p.buffer)
<1>1. p.buffer \in Text /\ Len(p.buffer) \in Nat \ {0}
  BY ParserFields DEF Text
<1>2. n <= Len(p.buffer) => Len(Drop(p, n).buffer) = Len(p.buffer) - n
  BY DropFields
<1>3. n > Len(p.buffer) => Drop(p, n).buffer = <<>>
  BY DropFields
<1>4. Len(<<>>) = 0
  OBVIOUS
<1> QED BY <1>1, <1>2, <1>3, <1>4

LEMMA SwitchIsLess ==
  ASSUME NEW p \in Parsers, p.buffer # <<>>
  PROVE  Held[Switch(p)] < Held[p]
<1>1. Len(EndOf(p)) \in Nat \ {0}
  <2>1. Len(ThinkStart(p)) \in Nat \ {0} /\ Len(ThinkEnd(p)) \in Nat \ {0}
    BY MarkersAreTags, SMTT(40)
  <2> QED BY <2>1, MarkersAreTags
<1>2. Switch(p) \in Parsers /\ Switch(p).buffer = Drop(p, Len(EndOf(p))).buffer
  BY SwitchFields
<1> QED BY <1>1, <1>2, DropIsLess, HeldDef

LEMMA FoundInSomething ==
  ASSUME NEW p \in Parsers, NEW M, Where(p.buffer, M) # 0
  PROVE  p.buffer # <<>>
<1>1. Where(p.buffer, M) \in 0..Len(p.buffer) /\ Len(<<>>) = 0
  BY WhereType
<1> QED BY <1>1

LEMMA QwenLoop ==
  ASSUME NEW p \in Parsers, NEW final
  PROVE  /\ QwenStep(p, final) =
              IF SwitchIsNext(Erased(p)) THEN QwenStep(Switch(Erased(p)), final)
                                         ELSE QwenReturns(Erased(p), final)
         /\ p.family # "GPT_OSS" => Outcome(p, QwenStep(p, final))
<1> DEFINE stop == {q \in Parsers : ~SwitchIsNext(Erased(q))}
           out == [q \in Parsers |-> QwenReturns(Erased(q), final)]
           next == [q \in Parsers |-> Switch(Erased(q))]
           Loops(F) == F = [q \in Parsers |-> IF SwitchIsNext(Erased(q)) THEN F[Switch(Erased(q))]
                                              ELSE QwenReturns(Erased(q), final)]
           loop == CHOOSE F : Loops(F)
<1>1. \A q \in Parsers : /\ Erased(q) \in Parsers /\ Switch(Erased(q)) \in Parsers
                         /\ QwenReturns(Erased(q), final) \in Results
  BY ErasedFields, SwitchFields, QwenReturnsType
<1>2. ASSUME NEW q \in Parsers, SwitchIsNext(Erased(q))
      PROVE  Held[Switch(Erased(q))] < Held[q]
  <2>1. Erased(q) \in Parsers /\ Held[Erased(q)] <= Held[q]
    BY ErasedFields, HeldDef
  <2>2. Erased(q).buffer # <<>>
    BY <1>2, <2>1, FoundInSomething DEF SwitchIsNext, SwitchAt
  <2>3. Held[Switch(Erased(q))] < Held[Erased(q)]
    BY <2>1, <2>2, SwitchIsLess
  <2>4. Held[Switch(Erased(q))] \in Nat /\ Held[Erased(q)] \in Nat /\ Held[q] \in Nat
    BY <1>1, HeldDef
  <2> QED BY <2>1, <2>3, <2>4
<1>3. \E F \in [Parsers -> Results] : Rounds(F, Parsers, stop, out, next)
  <2>1. out \in [Parsers -> Results] /\ next \in [Parsers -> Parsers]
    BY <1>1
  <2>2. \A q \in Parsers : q \notin stop => Held[next[q]] < Held[q]
    BY <1>2
  <2> HIDE DEF stop, out, next
  <2>3. Held \in [Parsers -> Nat]
    BY HeldDef
  <2> QED BY ONLY <2>1, <2>2, <2>3, LoopRecursion
<1>4. PICK F \in [Parsers -> Results] : Loops(F)
  BY <1>3 DEF Rounds
<1>5. Loops(loop)
  <2> HIDE DEF Loops
  <2> QED BY <1>4
<1>6. \A q : QwenStep(q, final) = loop[q]
  BY DEF QwenStep
<1> HIDE DEF loop, stop, out, next
<1>7. \A q \in Parsers :
        QwenStep(q, final) = IF SwitchIsNext(Erased(q)) THEN QwenStep(Switch(Erased(q)), final)
                                                        ELSE QwenReturns(Erased(q), final)
  BY <1>1, <1>5, <1>6
<1> DEFINE G == {q \in Parsers : q.family # "GPT_OSS" => Outcome(q, QwenStep(q, final))}
<1>8. ASSUME NEW q \in Parsers, \A t \in Parsers : Held[t] < Held[q] => t \in G
      PROVE  q \in G
  <2> DEFINE e == Erased(q)
  <2>1. /\ e \in Parsers /\ e.family = q.family /\ (e \in Proper <=> q \in Proper)
        /\ Switch(e) \in Parsers /\ Switch(e).family = q.family
        /\ (e \in Proper => Switch(e) \in Proper)
    BY ErasedFields, SwitchFields
  <2>2. CASE SwitchIsNext(e)
    <3>1. Switch(e) \in G
      BY <1>2, <1>8, <2>1, <2>2
    <3>2. QwenStep(q, final) = QwenStep(Switch(e), final)
      BY <1>7, <2>2
    <3> HIDE DEF e
    <3>3. q.family # "GPT_OSS" => Outcome(Switch(e), QwenStep(q, final))
      BY <2>1, <3>1, <3>2
    <3> QED BY <2>1, <3>3, OutcomeAfter
  <2>3. CASE ~SwitchIsNext(e)
    <3>1. QwenStep(q, final) = QwenReturns(e, final)
      BY <1>7, <2>3
    <3> HIDE DEF e
    <3>2. q.family # "GPT_OSS" => Outcome(e, QwenStep(q, final))
      BY <2>1, <3>1, QwenReturnsType
    <3> QED BY <2>1, <3>2, OutcomeAfter
  <2> QED BY <2>2, <2>3
<1>9. Parsers \subseteq G
  <2> HIDE DEF G
  <2> QED BY <1>8, HeldDef, MeasureSet
<1> QED BY <1>7, <1>9

\* What Gemma4e passes over.
LEMMA PassedFields ==
  ASSUME NEW p \in Parsers
  PROVE  /\ Passed(p) \in Parsers /\ Passed(p).family = p.family
         /\ Passed(p).inTool = p.inTool /\ Passed(p).waiting = p.waiting
         /\ p \in Proper => Passed(p) \in Proper
<1>1. /\ Switch(p) \in Parsers /\ Switch(p).family = p.family
      /\ Switch(p).inTool = p.inTool /\ Switch(p).waiting = p.waiting
      /\ p \in Proper => Switch(p) \in Proper
  BY SwitchFields
<1>2. Len(ToolResp) \in Nat
  BY MarkersAreTags
<1> DEFINE d == Drop(p, Len(ToolResp))
<1>3. /\ d \in Parsers /\ d.family = p.family
      /\ d.inTool = p.inTool /\ d.waiting = p.waiting
      /\ p \in Proper => d \in Proper
  BY <1>2, DropFields, DropKeepsProper
<1>4. Passed(p) = d \/ Passed(p) = Switch(p)
  BY DEF Passed
<1> HIDE DEF d
<1> QED BY <1>1, <1>3, <1>4

LEMMA PassedIsLess ==
  ASSUME NEW p \in Parsers, Passes(p)
  PROVE  Held[Passed(p)] < Held[p]
<1>1. p.buffer # <<>>
  BY FoundInSomething DEF Passes
<1>2. Held[Switch(p)] < Held[p]
  BY <1>1, SwitchIsLess
<1>3. Len(ToolResp) \in Nat \ {0} /\ Len(ToolResp) \in Nat
  BY MarkersAreTags
<1>4. Held[Drop(p, Len(ToolResp))] < Held[p]
  BY <1>1, <1>3, DropIsLess, DropFields, HeldDef
<1> QED BY <1>2, <1>4 DEF Passed

LEMMA SwitchNextIsLess ==
  ASSUME NEW p \in Parsers, SwitchIsNext(p)
  PROVE  Held[Switch(p)] < Held[p]
BY FoundInSomething, SwitchIsLess DEF SwitchIsNext, SwitchAt

LEMMA GemmaLoop ==
  ASSUME NEW p \in Parsers, NEW final
  PROVE  /\ GemmaStep(p, final) =
              IF Passes(p) THEN GemmaStep(Passed(p), final) ELSE GemmaReturns(p, final)
         /\ p.family # "GPT_OSS" => Outcome(p, GemmaStep(p, final))
<1> DEFINE stop == {q \in Parsers : ~Passes(q)}
           out == [q \in Parsers |-> GemmaReturns(q, final)]
           next == [q \in Parsers |-> Passed(q)]
           Loops(F) == F = [q \in Parsers |-> IF Passes(q) THEN F[Passed(q)] ELSE GemmaReturns(q, final)]
           loop == CHOOSE F : Loops(F)
<1>1. \A q \in Parsers : /\ Passed(q) \in Parsers /\ Passed(q).family = q.family
                         /\ (q \in Proper => Passed(q) \in Proper)
                         /\ GemmaReturns(q, final) \in Results
                         /\ (q.family # "GPT_OSS" => Outcome(q, GemmaReturns(q, final)))
  BY PassedFields, GemmaReturnsType DEF Outcome
<1>2. ASSUME NEW q \in Parsers, Passes(q)
      PROVE  Held[Passed(q)] < Held[q]
  BY <1>2, PassedIsLess
<1>3. \E F \in [Parsers -> Results] : Rounds(F, Parsers, stop, out, next)
  <2>1. out \in [Parsers -> Results] /\ next \in [Parsers -> Parsers]
    BY <1>1
  <2>2. \A q \in Parsers : q \notin stop => Held[next[q]] < Held[q]
    BY <1>2
  <2> HIDE DEF stop, out, next
  <2>3. Held \in [Parsers -> Nat]
    BY HeldDef
  <2> QED BY ONLY <2>1, <2>2, <2>3, LoopRecursion
<1>4. PICK F \in [Parsers -> Results] : Loops(F)
  BY <1>3 DEF Rounds
<1>5. Loops(loop)
  <2> HIDE DEF Loops
  <2> QED BY <1>4
<1>6. \A q : GemmaStep(q, final) = loop[q]
  BY DEF GemmaStep
<1> HIDE DEF loop, stop, out, next
<1>7. \A q \in Parsers : GemmaStep(q, final) = IF Passes(q) THEN GemmaStep(Passed(q), final) ELSE GemmaReturns(q, final)
  BY <1>1, <1>5, <1>6
<1> DEFINE G == {q \in Parsers : q.family # "GPT_OSS" => Outcome(q, GemmaStep(q, final))}
<1>8. ASSUME NEW q \in Parsers, \A t \in Parsers : Held[t] < Held[q] => t \in G
      PROVE  q \in G
  <2>1. CASE Passes(q)
    <3>1. Passed(q) \in G
      BY <1>1, <1>2, <1>8, <2>1
    <3>2. GemmaStep(q, final) = GemmaStep(Passed(q), final)
      BY <1>7, <2>1
    <3>3. q.family # "GPT_OSS" => Outcome(Passed(q), GemmaStep(q, final))
      BY <1>1, <3>1, <3>2
    <3> QED BY <1>1, <3>3, OutcomeAfter
  <2>2. CASE ~Passes(q)
    BY <1>1, <1>7, <2>2
  <2> QED BY <2>1, <2>2
<1>9. Parsers \subseteq G
  <2> HIDE DEF G
  <2> QED BY <1>8, HeldDef, MeasureSet
<1> QED BY <1>7, <1>9

LEMMA NanbeigeLoop ==
  ASSUME NEW p \in Parsers
  PROVE  /\ NanbeigeStep[p] =
              IF SwitchIsNext(p) THEN NanbeigeStep[Switch(p)] ELSE NanbeigeReturns(p)
         /\ p.family # "GPT_OSS" => Outcome(p, NanbeigeStep[p])
<1> DEFINE stop == {q \in Parsers : ~SwitchIsNext(q)}
           out == [q \in Parsers |-> NanbeigeReturns(q)]
           next == [q \in Parsers |-> Switch(q)]
           Loops(F) == F = [q \in Parsers |-> IF SwitchIsNext(q) THEN F[Switch(q)] ELSE NanbeigeReturns(q)]
           loop == CHOOSE F : Loops(F)
<1>1. \A q \in Parsers : /\ Switch(q) \in Parsers /\ Switch(q).family = q.family
                         /\ (q \in Proper => Switch(q) \in Proper)
                         /\ NanbeigeReturns(q) \in Results
                         /\ (q.family # "GPT_OSS" => Outcome(q, NanbeigeReturns(q)))
  BY SwitchFields, NanbeigeReturnsType DEF Outcome
<1>2. ASSUME NEW q \in Parsers, SwitchIsNext(q)
      PROVE  Held[Switch(q)] < Held[q]
  BY <1>2, SwitchNextIsLess
<1>3. \E F \in [Parsers -> Results] : Rounds(F, Parsers, stop, out, next)
  <2>1. out \in [Parsers -> Results] /\ next \in [Parsers -> Parsers]
    BY <1>1
  <2>2. \A q \in Parsers : q \notin stop => Held[next[q]] < Held[q]
    BY <1>2
  <2> HIDE DEF stop, out, next
  <2>3. Held \in [Parsers -> Nat]
    BY HeldDef
  <2> QED BY ONLY <2>1, <2>2, <2>3, LoopRecursion
<1>4. PICK F \in [Parsers -> Results] : Loops(F)
  BY <1>3 DEF Rounds
<1>5. Loops(loop)
  <2> HIDE DEF Loops
  <2> QED BY <1>4
<1>6. \A q : NanbeigeStep[q] = loop[q]
  BY DEF NanbeigeStep
<1> HIDE DEF loop, stop, out, next
<1>7. \A q \in Parsers : NanbeigeStep[q] = IF SwitchIsNext(q) THEN NanbeigeStep[Switch(q)] ELSE NanbeigeReturns(q)
  BY <1>1, <1>5, <1>6
<1> DEFINE G == {q \in Parsers : q.family # "GPT_OSS" => Outcome(q, NanbeigeStep[q])}
<1>8. ASSUME NEW q \in Parsers, \A t \in Parsers : Held[t] < Held[q] => t \in G
      PROVE  q \in G
  <2>1. CASE SwitchIsNext(q)
    <3>1. Switch(q) \in G
      BY <1>1, <1>2, <1>8, <2>1
    <3>2. NanbeigeStep[q] = NanbeigeStep[Switch(q)]
      BY <1>7, <2>1
    <3>3. q.family # "GPT_OSS" => Outcome(Switch(q), NanbeigeStep[q])
      BY <1>1, <3>1, <3>2
    <3> QED BY <1>1, <3>3, OutcomeAfter
  <2>2. CASE ~SwitchIsNext(q)
    BY <1>1, <1>7, <2>2
  <2> QED BY <2>1, <2>2
<1>9. Parsers \subseteq G
  <2> HIDE DEF G
  <2> QED BY <1>8, HeldDef, MeasureSet
<1> QED BY <1>7, <1>9

\* The headers, and the end of a section.
LEMMA HeadersAreText ==
  /\ DOMAIN Header = {"reasoning", "content", "tool"}
  /\ \A t \in DOMAIN Header : Header[t] \in Text /\ Len(Header[t]) = 2 /\ Header[t][1] = Assistant
  /\ \A m \in Headers : \E t \in DOMAIN Header : m = Header[t]
  /\ End \in Text /\ Len(End) = 1 /\ End[1] = "<|end|>"
<1>1. DOMAIN Header = {"reasoning", "content", "tool"}
  BY DEF Header
<1>2. Assistant \in Pieces /\ {"analysis", "final", "commentary", "<|end|>"} \subseteq Pieces
  BY DEF Assistant, Pieces, Marks
<1>3. \A x, y \in Pieces : <<x, y>> \in Text /\ Len(<<x, y>>) = 2 /\ <<x, y>>[1] = x
  BY DEF Text
<1>4. \A x \in Pieces : <<x>> \in Text /\ Len(<<x>>) = 1 /\ <<x>>[1] = x
  BY DEF Text
<1>5. /\ Header["reasoning"] = <<Assistant, "analysis">> /\ Header["content"] = <<Assistant, "final">>
      /\ Header["tool"] = <<Assistant, "commentary">>
  BY DEF Header
<1>6. \A m \in Headers : \E t \in DOMAIN Header : m = Header[t]
  BY DEF Headers
<1>7. End = <<"<|end|>">>
  BY DEF End
<1>8. \A t \in DOMAIN Header : Header[t] \in Text /\ Len(Header[t]) = 2 /\ Header[t][1] = Assistant
  BY <1>1, <1>2, <1>3, <1>5
<1> QED BY <1>1, <1>2, <1>4, <1>6, <1>7, <1>8

\* Into the section whose header stands at i.
LEMMA EnterSectionFields ==
  ASSUME NEW p \in Parsers, Where(p.buffer, Headers) # 0
  PROVE  LET q == EnterSection(p)
             i == Where(p.buffer, Headers)
         IN  /\ q \in Parsers /\ q.family = p.family /\ q.inTool = p.inTool
             /\ ~q.waiting /\ q.mode \in DOMAIN Header /\ At(p.buffer, i, Header[q.mode])
             /\ i \in 1..Len(p.buffer) /\ q.buffer = SubSeq(p.buffer, i + 2, Len(p.buffer))
             /\ Len(q.buffer) < Len(p.buffer)
<1> DEFINE i == Where(p.buffer, Headers)
           type == CHOOSE t \in DOMAIN Header : At(p.buffer, i, Header[t])
           k == i + 1
           d == Drop(p, k)
           e == [d EXCEPT !.waiting = FALSE]
           f == [e EXCEPT !.mode = type]
<1>1. p.buffer \in Text /\ Len(p.buffer) \in Nat
  BY ParserFields
<1>2. i \in 1..Len(p.buffer) /\ \E m \in Headers : At(p.buffer, i, m)
  BY <1>1, WhereDef
<1>3. type \in DOMAIN Header /\ At(p.buffer, i, Header[type])
  <2>1. \E t \in DOMAIN Header : At(p.buffer, i, Header[t])
    BY <1>2, HeadersAreText
  <2> HIDE DEF i
  <2> QED BY <2>1
<1> HIDE DEF type, i
<1>4. k \in Nat \ {0} /\ k + 1 = i + 2 /\ i + 2 - 1 = k
  BY <1>1, <1>2
<1>5. Len(Header[type]) = 2
  BY <1>3, HeadersAreText
<1>6. EnterSection(p) = [Drop(p, i + 2 - 1) EXCEPT !.waiting = FALSE, !.mode = type]
  BY <1>5 DEF EnterSection, type, i
<1>7. EnterSection(p) = [d EXCEPT !.waiting = FALSE, !.mode = type]
  BY <1>4, <1>6
<1> HIDE DEF k
<1>8. /\ d \in Parsers /\ d.family = p.family /\ d.inTool = p.inTool
      /\ d.buffer = SubSeq(p.buffer, i + 2, Len(p.buffer))
  <2>1. k \in Nat
    BY <1>4
  <2>2. d \in Parsers /\ d.family = p.family /\ d.inTool = p.inTool
    BY <2>1, DropFields
  <2>3. d.buffer = SubSeq(p.buffer, k + 1, Len(p.buffer))
    BY <2>1, DropFields
  <2> HIDE DEF d
  <2> QED BY <1>4, <2>2, <2>3
<1>9. Len(d.buffer) < Len(p.buffer)
  BY <1>2, <1>1, <1>4, DropIsLess DEF Text
<1> HIDE DEF d
<1>10. EnterSection(p) = f
  BY <1>7, <1>8 DEF Parsers
<1>11. /\ e \in Parsers /\ e.family = d.family /\ e.inTool = d.inTool /\ e.buffer = d.buffer /\ ~e.waiting
  BY <1>8, WaitingSet
<1>12. type \in {"content", "reasoning", "tool"}
  BY <1>3, HeadersAreText
<1> HIDE DEF e
<1>13. /\ f \in Parsers /\ f.family = e.family /\ f.inTool = e.inTool /\ f.buffer = e.buffer
       /\ f.waiting = e.waiting /\ f.mode = type
  BY <1>11, <1>12, ModeSet, ZenonT(60)
<1> HIDE DEF f
<1>14. /\ EnterSection(p) \in Parsers /\ EnterSection(p).family = p.family
       /\ EnterSection(p).inTool = p.inTool /\ ~EnterSection(p).waiting
       /\ EnterSection(p).mode \in DOMAIN Header
       /\ At(p.buffer, i, Header[EnterSection(p).mode])
       /\ i \in 1..Len(p.buffer)
       /\ EnterSection(p).buffer = SubSeq(p.buffer, i + 2, Len(p.buffer))
       /\ Len(EnterSection(p).buffer) < Len(p.buffer)
  BY <1>2, <1>3, <1>8, <1>9, <1>10, <1>11, <1>13
<1> QED BY <1>14 DEF i

\* Out of a section.
LEMMA LeaveSectionFields ==
  ASSUME NEW p \in Parsers
  PROVE  LET q == LeaveSection(p)
         IN  /\ q \in Parsers /\ q.family = p.family /\ q.inTool = p.inTool
             /\ q.waiting /\ q.mode = p.mode /\ q.buffer = SubSeq(p.buffer, EndAt(p) + 1, Len(p.buffer))
             /\ EndAt(p) \in 0..Len(p.buffer) /\ Body(p) \in Text
             /\ EndAt(p) # 0 => Len(q.buffer) < Len(p.buffer)
<1> DEFINE n == EndAt(p)
           d == Drop(p, n)
<1>1. p.buffer \in Text /\ Len(p.buffer) \in Nat
  BY ParserFields
<1>2. n \in 0..Len(p.buffer) /\ n \in Nat
  BY WhereType DEF EndAt
<1>3. Body(p) \in Text
  <2>1. CASE n = 0
    BY <1>1, <2>1 DEF Body, Text
  <2>2. CASE n # 0
    <3>1. n - 1 \in 0..Len(p.buffer)
      BY <1>1, <1>2, <2>2
    <3> QED BY <1>1, <3>1, BeginningOfText DEF Body
  <2> QED BY <2>1, <2>2
<1>4. LeaveSection(p) = [d EXCEPT !.waiting = TRUE]
  BY DEF LeaveSection
<1>5. /\ d \in Parsers /\ d.family = p.family /\ d.inTool = p.inTool /\ d.mode = p.mode
      /\ d.buffer = SubSeq(p.buffer, n + 1, Len(p.buffer))
  BY <1>2, DropFields
<1>6. n # 0 => Len(d.buffer) < Len(p.buffer)
  BY <1>1, <1>2, DropIsLess
<1> HIDE DEF d
<1>7. /\ LeaveSection(p) \in Parsers /\ LeaveSection(p).family = p.family
      /\ LeaveSection(p).inTool = p.inTool /\ LeaveSection(p).waiting
      /\ LeaveSection(p).mode = p.mode /\ LeaveSection(p).buffer = d.buffer
  BY <1>4, <1>5, WaitingSet
<1> QED BY <1>2, <1>3, <1>5, <1>6, <1>7

\* What a call of the GPT_OSS parser returns.
Told(p, r) ==
  /\ r \in Results /\ r.parser.family = p.family /\ r.parser.inTool = p.inTool
  /\ r.parser.mode = "tool" \/ r.parser.waiting \/ r.parser.buffer = <<>>

LEMMA HarmonyReturnsType ==
  ASSUME NEW p \in Parsers, NEW content \in Text
  PROVE  ~GoesOn(p) => Told(p, HarmonyReturns(p, content))
<1>1. p.buffer \in Text /\ p.mode \in Types /\ <<>> \in Text
  BY ParserFields, TextIsSaid
<1>2. Told(p, Wait(p)) <=> (p.mode = "tool" \/ p.waiting \/ p.buffer = <<>>)
  BY TextIsSaid DEF Told, Wait, Result, Results
<1>3. LeaveSection(p) \in Parsers /\ LeaveSection(p).family = p.family
      /\ LeaveSection(p).inTool = p.inTool /\ LeaveSection(p).waiting
      /\ CallEvent(p, Body(p)) \in Seq(Events)
  BY LeaveSectionFields, CallType
<1>4. Told(p, Result(LeaveSection(p), CallEvent(p, Body(p))))
  BY <1>3 DEF Told, Result, Results
<1> DEFINE e == [p EXCEPT !.buffer = <<>>]
           s == Tagged(p.mode, content \o p.buffer)
<1>5. e \in Parsers /\ e.family = p.family /\ e.inTool = p.inTool /\ e.buffer = <<>>
  BY <1>1, BufferSet
<1>6. s \in Seq(Events)
  BY <1>1, ConcatText, TextIsSaid, TaggedType
<1> HIDE DEF e, s
<1>7. Told(p, Result(e, s))
  BY <1>5, <1>6 DEF Told, Result, Results
<1>8. HarmonyReturns(p, content) =
        CASE p.waiting -> Wait(p)
          [] ~p.waiting /\ p.mode = "tool" ->
               IF EndAt(p) = 0 THEN Wait(p) ELSE Result(LeaveSection(p), CallEvent(p, Body(p)))
          [] OTHER -> Result(e, s)
  BY DEF HarmonyReturns, e, s
<1> QED BY <1>2, <1>4, <1>7, <1>8

CallHeld == [c \in Calls |-> Len(c.parser.buffer)]

LEMMA CallsDef ==
  /\ CallHeld \in [Calls -> Nat]
  /\ \A c \in Calls : /\ c.parser \in Parsers /\ c.content \in Text
                      /\ CallHeld[c] = Len(c.parser.buffer)
  /\ \A p \in Parsers, s \in Text : [parser |-> p, content |-> s] \in Calls
BY ParserFields DEF CallHeld, Calls, Text

\* A round of the GPT_OSS parser.
LEMMA OnwardFields ==
  ASSUME NEW c \in Calls, GoesOn(c.parser)
  PROVE  /\ Onward(c) \in Calls /\ CallHeld[Onward(c)] < CallHeld[c]
         /\ Onward(c).parser.family = c.parser.family
         /\ Onward(c).parser.inTool = c.parser.inTool
<1> DEFINE p == c.parser
<1>1. p \in Parsers /\ c.content \in Text
  BY CallsDef
<1>2. CASE p.waiting
  <2>1. Where(p.buffer, Headers) # 0
    BY <1>2 DEF GoesOn, HeaderIsNext, TextEnds
  <2>2. /\ EnterSection(p) \in Parsers /\ EnterSection(p).family = p.family
        /\ EnterSection(p).inTool = p.inTool /\ Len(EnterSection(p).buffer) < Len(p.buffer)
    BY <1>1, <2>1, EnterSectionFields
  <2>3. Onward(c) = [parser |-> EnterSection(p), content |-> c.content]
    BY <1>2 DEF Onward
  <2> HIDE DEF p
  <2>4. Onward(c) \in Calls /\ Onward(c).parser = EnterSection(p)
    BY <1>1, <2>2, <2>3, CallsDef
  <2> QED BY <2>2, <2>4, CallsDef DEF p
<1>3. CASE ~p.waiting
  <2>1. EndAt(p) # 0
    BY <1>3 DEF GoesOn, HeaderIsNext, TextEnds
  <2>2. /\ LeaveSection(p) \in Parsers /\ LeaveSection(p).family = p.family
        /\ LeaveSection(p).inTool = p.inTool /\ Len(LeaveSection(p).buffer) < Len(p.buffer)
        /\ Body(p) \in Text
    BY <1>1, <2>1, LeaveSectionFields
  <2>3. Onward(c) = [parser |-> LeaveSection(p), content |-> c.content \o Body(p)]
    BY <1>3 DEF Onward
  <2> HIDE DEF p
  <2> DEFINE u == c.content \o Body(p)
  <2>4. u \in Text /\ Onward(c) = [parser |-> LeaveSection(p), content |-> u]
    BY <1>1, <2>2, <2>3, ConcatText
  <2> HIDE DEF u
  <2>5. Onward(c) \in Calls /\ Onward(c).parser = LeaveSection(p)
    BY <2>2, <2>4, CallsDef
  <2> QED BY <2>2, <2>5, CallsDef DEF p
<1> QED BY <1>2, <1>3

LEMMA HarmonyLoop ==
  ASSUME NEW c \in Calls
  PROVE  /\ HarmonyStep[c] = IF GoesOn(c.parser) THEN HarmonyStep[Onward(c)]
                             ELSE HarmonyReturns(c.parser, c.content)
         /\ Told(c.parser, HarmonyStep[c])
<1> DEFINE stop == {d \in Calls : ~GoesOn(d.parser)}
           out == [d \in Calls |-> IF GoesOn(d.parser) THEN Wait(d.parser)
                                   ELSE HarmonyReturns(d.parser, d.content)]
           next == [d \in Calls |-> IF GoesOn(d.parser) THEN Onward(d) ELSE d]
           Loops(F) == F = [d \in Calls |-> IF GoesOn(d.parser) THEN F[Onward(d)]
                                            ELSE HarmonyReturns(d.parser, d.content)]
           loop == CHOOSE F : Loops(F)
<1>1. \A d \in Calls : ~GoesOn(d.parser) => Told(d.parser, HarmonyReturns(d.parser, d.content))
  BY CallsDef, HarmonyReturnsType
<1>2. \A d \in Calls : Wait(d.parser) \in Results
  BY CallsDef, WaitType DEF Outcome
<1>3. \E F \in [Calls -> Results] : Rounds(F, Calls, stop, out, next)
  <2>1. out \in [Calls -> Results] /\ next \in [Calls -> Calls]
    BY <1>1, <1>2, OnwardFields DEF Told
  <2>2. \A d \in Calls : d \notin stop => CallHeld[next[d]] < CallHeld[d]
    BY OnwardFields
  <2> HIDE DEF stop, out, next
  <2>3. CallHeld \in [Calls -> Nat]
    BY CallsDef
  <2> QED BY ONLY <2>1, <2>2, <2>3, LoopRecursion
<1>4. PICK F \in [Calls -> Results] : Loops(F)
  <2>1. PICK F \in [Calls -> Results] : Rounds(F, Calls, stop, out, next)
    BY <1>3
  <2>2. \A d \in Calls : F[d] = IF GoesOn(d.parser) THEN F[Onward(d)]
                                ELSE HarmonyReturns(d.parser, d.content)
    BY <2>1 DEF Rounds
  <2>3. Loops(F)
    BY <2>2
  <2> QED BY <2>3
<1>5. Loops(loop)
  <2> HIDE DEF Loops
  <2> QED BY <1>4
<1>6. HarmonyStep = loop
  BY DEF HarmonyStep
<1> HIDE DEF loop, stop, out, next
<1>7. \A d \in Calls : HarmonyStep[d] = IF GoesOn(d.parser) THEN HarmonyStep[Onward(d)]
                                        ELSE HarmonyReturns(d.parser, d.content)
  BY <1>5, <1>6
<1> DEFINE G == {d \in Calls : Told(d.parser, HarmonyStep[d])}
<1>8. ASSUME NEW d \in Calls, \A t \in Calls : CallHeld[t] < CallHeld[d] => t \in G
      PROVE  d \in G
  <2>1. CASE GoesOn(d.parser)
    <3>1. Onward(d) \in G
      BY <1>8, <2>1, OnwardFields
    <3>2. HarmonyStep[d] = HarmonyStep[Onward(d)]
      BY <1>7, <2>1
    <3>3. Told(d.parser, HarmonyStep[d])
      BY <2>1, <3>1, <3>2, OnwardFields DEF Told
    <3> QED BY <3>3
  <2>2. CASE ~GoesOn(d.parser)
    <3>1. Told(d.parser, HarmonyStep[d])
      BY <1>1, <1>7, <2>2
    <3> QED BY <3>1
  <2> QED BY <2>1, <2>2
<1>9. Calls \subseteq G
  <2> HIDE DEF G
  <2> QED BY <1>8, CallsDef, MeasureSet, SMTT(40)
<1> QED BY <1>7, <1>9

-----------------------------------------------------------------------------
(***************************************************************************)
(* Types of the steps of a request                                         *)
(***************************************************************************)
LEMMA StepType ==
  ASSUME NEW p \in Proper, NEW final
  PROVE  /\ Step(p, final).parser \in Proper /\ Step(p, final).parser.family = p.family
         /\ Step(p, final).event \in Seq(Events)
<1>1. p \in Parsers /\ p.family \in {"Qwen3_5VL", "Gemma4e", "Nanbeige", "GPT_OSS"}
  BY ParserFields DEF Proper
<1>2. CASE p.family # "GPT_OSS"
  <2>1. /\ Outcome(p, QwenStep(p, final)) /\ Outcome(p, GemmaStep(p, final))
        /\ Outcome(p, NanbeigeStep[p])
    BY <1>1, <1>2, QwenLoop, GemmaLoop, NanbeigeLoop
  <2>2. Outcome(p, Step(p, final))
    BY <1>1, <1>2, <2>1 DEF Step
  <2> QED BY <1>2, <2>2 DEF Outcome, Results
<1>3. CASE p.family = "GPT_OSS"
  <2> DEFINE c == [parser |-> p, content |-> <<>>]
  <2>1. c \in Calls /\ c.parser = p
    BY <1>1, CallsDef, TextIsSaid
  <2> HIDE DEF c
  <2>2. Told(p, HarmonyStep[c])
    BY <2>1, HarmonyLoop
  <2>3. Step(p, final) = HarmonyStep[c]
    BY <1>3 DEF Step, c
  <2>4. /\ Step(p, final).parser \in Parsers /\ Step(p, final).parser.family = p.family
        /\ Step(p, final).parser.inTool = p.inTool /\ Step(p, final).event \in Seq(Events)
    BY <2>2, <2>3 DEF Told, Results
  <2> QED BY <1>1, <1>3, <2>4, ProperDef
<1> QED BY <1>2, <1>3

\* A parser with no text in it.
LEMMA ResetFields ==
  ASSUME NEW p \in Proper
  PROVE  LET q == ResetParser(p)
         IN  /\ q \in Proper /\ q.family = p.family /\ q.buffer = <<>> /\ ~q.inTool
             /\ q.mode = "content" /\ q.waiting = p.waiting
<1> DEFINE a == [p EXCEPT !.buffer = <<>>]
           b == [a EXCEPT !.inTool = FALSE]
           d == [b EXCEPT !.mode = "content"]
<1>1. p \in Parsers
  BY DEF Proper
<1>2. ResetParser(p) = d
  BY <1>1 DEF ResetParser, Parsers
<1>3. a \in Parsers /\ a.family = p.family /\ a.buffer = <<>> /\ a.waiting = p.waiting
  BY <1>1, TextIsSaid, BufferSet
<1> HIDE DEF a
<1>4. b \in Parsers /\ b.family = p.family /\ b.buffer = <<>> /\ ~b.inTool /\ b.waiting = p.waiting
  BY <1>3, InToolSet
<1> HIDE DEF b
<1>5. /\ d \in Parsers /\ d.family = p.family /\ d.buffer = <<>> /\ ~d.inTool
      /\ d.mode = "content" /\ d.waiting = p.waiting
  BY <1>4, ModeSet
<1> HIDE DEF d
<1>6. d \in Proper
  BY <1>5 DEF Proper
<1> QED BY <1>2, <1>5, <1>6

LEMMA ParseType ==
  ASSUME NEW p \in Proper, NEW s \in Text
  PROVE  /\ Parse(p, s).parser \in Proper /\ Parse(p, s).parser.family = p.family
         /\ Parse(p, s).event \in Seq(Events)
<1> DEFINE b == p.buffer \o s
           q == [p EXCEPT !.buffer = b]
<1>1. p \in Parsers /\ b \in Text
  BY ParserFields, ConcatText DEF Proper
<1>2. Parse(p, s) = Step(q, FALSE)
  BY <1>1 DEF Parse, Proper, Parsers
<1> HIDE DEF b
<1>3. /\ q \in Parsers /\ q.family = p.family /\ q.mode = p.mode /\ q.inTool = p.inTool
      /\ q.waiting = p.waiting
  BY <1>1, BufferSet
<1>4. q \in Proper
  <2> HIDE DEF q
  <2> QED BY <1>1, <1>3, ProperDef
<1> HIDE DEF q
<1> QED BY <1>2, <1>3, <1>4, StepType

LEMMA ParseFinalType ==
  ASSUME NEW p \in Proper
  PROVE  /\ ParseFinal(p).parser \in Proper /\ ParseFinal(p).parser.family = p.family
         /\ ParseFinal(p).event \in Seq(Events)
<1>1. Wait(p).parser = p /\ Wait(p).event = <<>>
  BY DEF Wait, Result
<1> QED BY <1>1, StepType, TextIsSaid DEF ParseFinal

\* What a request writes itself, and what a token decodes to, is text.
LEMMA WrittenIsText ==
  ASSUME NEW f \in Families
  PROVE  /\ \A c \in Chunks[f] : c \in Text
         /\ <<Assistant>> \in Text /\ End \in Text /\ <<>> \in Text
<1>1. \A c \in Chunks[f] : c \in Seq(Pieces)
  BY FamilyAssumption DEF FamilyAssumption
<1>2. Assistant \in Pieces
  BY DEF Assistant, Pieces, Marks
<1>3. <<Assistant>> \in Text
  BY <1>2 DEF Text
<1>4. \A c \in Chunks[f] : c \in Text
  BY <1>1 DEF Text
<1> QED BY <1>3, <1>4, HeadersAreText, TextIsSaid

\* The state of a request, with what the client receives.
Inv == TypeOK /\ sent \in Seq(Events)

\* TypeOK's conjuncts about the parser say that it is one of Proper.
LEMMA TypesAreProper ==
  /\ TypeOK <=> /\ phase \in {"idle", "generate", "finalize", "done", "error"}
                /\ parser \in Proper /\ text \in Text
                /\ written \in 0..MaxChunks[parser.family]
                /\ {cancelled, leftOpen} \subseteq BOOLEAN
BY DEF TypeOK, Proper, Text

LEMMA TypesInit == Init => Inv
<1> SUFFICES ASSUME Init
             PROVE  Inv
  OBVIOUS
<1>1. PICK f \in Families : parser = Fresh(f)
  BY DEF Init
<1>2. /\ parser \in Proper /\ parser.family = f
  BY <1>1, TextIsSaid DEF Fresh, Proper, Parsers, Text
<1>3. MaxChunks[f] \in Nat
  BY FamilyAssumption DEF FamilyAssumption
<1>4. written \in 0..MaxChunks[parser.family]
  BY <1>2, <1>3 DEF Init
<1>5. /\ phase \in {"idle", "generate", "finalize", "done", "error"} /\ text \in Text
      /\ {cancelled, leftOpen} \subseteq BOOLEAN /\ sent \in Seq(Events)
  BY TextIsSaid DEF Init
<1>6. TypeOK
  BY <1>2, <1>4, <1>5, TypesAreProper
<1> QED BY <1>5, <1>6 DEF Inv

\* The end of generation.
LEMMA CloseType ==
  ASSUME Inv, NEW p \in Proper, p.family = parser.family, NEW last \in Text, Close(p, last)
  PROVE  /\ parser' \in Proper /\ parser'.family = parser.family /\ text' \in Text
         /\ sent' \in Seq(Events) /\ phase' = "finalize"
<1> DEFINE result == IF last = <<>> THEN Wait(p) ELSE Parse(p, last)
<1>1. Wait(p).parser = p /\ Wait(p).event = <<>>
  BY DEF Wait, Result
<1>2. /\ result.parser \in Proper /\ result.parser.family = parser.family
      /\ result.event \in Seq(Events)
  BY <1>1, ParseType, TextIsSaid
<1>3. /\ parser' = result.parser /\ sent' = sent \o result.event /\ text' = text \o last
      /\ phase' = "finalize"
  BY DEF Close
<1>4. text \in Text /\ sent \in Seq(Events)
  BY TypesAreProper DEF Inv
<1> HIDE DEF result
<1>5. text \o last \in Text /\ sent \o result.event \in Seq(Events)
  BY <1>2, <1>4, ConcatText, ConcatProperties
<1> QED BY <1>2, <1>3, <1>5

LEMMA TypesStep ==
  ASSUME Inv, [Next]_vars
  PROVE  Inv'
<1>1. /\ phase \in {"idle", "generate", "finalize", "done", "error"}
      /\ parser \in Proper /\ parser \in Parsers /\ text \in Text
      /\ written \in 0..MaxChunks[parser.family]
      /\ {cancelled, leftOpen} \subseteq BOOLEAN /\ sent \in Seq(Events)
  BY TypesAreProper DEF Inv, Proper
<1>2. parser.family \in Families /\ MaxChunks[parser.family] \in Nat /\ parser.waiting \in BOOLEAN
  BY <1>1, ParserFields, FamilyAssumption DEF FamilyAssumption
<1>3. SUFFICES /\ phase' \in {"idle", "generate", "finalize", "done", "error"}
               /\ parser' \in Proper /\ text' \in Text
               /\ written' \in 0..MaxChunks[parser'.family]
               /\ {cancelled', leftOpen'} \subseteq BOOLEAN /\ sent' \in Seq(Events)
  BY DEF Inv, TypeOK, Proper, Text
<1>4. Opening \in Text /\ Closing \in Text /\ <<>> \in Text
  BY <1>2, WrittenIsText DEF Opening, Closing
<1>5. ResetParser(parser) \in Proper /\ ResetParser(parser).family = parser.family
  BY <1>1, ResetFields
<1>6. CASE Start
  <2> DEFINE r == ResetParser(parser)
             first == IF Opening = <<>> THEN Wait(r) ELSE Parse(r, Opening)
  <2>1. Wait(r).parser = r /\ Wait(r).event = <<>>
    BY DEF Wait, Result
  <2>2. /\ first.parser \in Proper /\ first.parser.family = parser.family
        /\ first.event \in Seq(Events)
    BY <1>4, <1>5, <2>1, ParseType, TextIsSaid
  <2>3. /\ phase' = "generate" /\ text' = Opening /\ written' = 0 /\ parser' = first.parser
        /\ sent' = first.event /\ cancelled' = FALSE
        /\ leftOpen' = (parser.family = "GPT_OSS" /\ ~parser.waiting)
    BY <1>6 DEF Start
  <2> HIDE DEF first
  <2>4. parser' \in Proper /\ parser'.family = parser.family /\ sent' \in Seq(Events)
    BY <2>2, <2>3
  <2>5. written' \in 0..MaxChunks[parser'.family]
    BY <1>2, <2>3, <2>4
  <2>6. cancelled' \in BOOLEAN /\ leftOpen' \in BOOLEAN
    BY <2>3
  <2>7. phase' \in {"idle", "generate", "finalize", "done", "error"} /\ text' \in Text
    BY <1>4, <2>3
  <2> QED BY <2>4, <2>5, <2>6, <2>7
<1>7. ASSUME NEW c \in Chunks[parser.family], Token(c)
      PROVE  /\ phase' \in {"idle", "generate", "finalize", "done", "error"}
             /\ parser' \in Proper /\ text' \in Text
             /\ written' \in 0..MaxChunks[parser'.family]
             /\ {cancelled', leftOpen'} \subseteq BOOLEAN /\ sent' \in Seq(Events)
  <2>1. c \in Text
    BY <1>2, WrittenIsText
  <2>2. /\ Parse(parser, c).parser \in Proper /\ Parse(parser, c).parser.family = parser.family
        /\ Parse(parser, c).event \in Seq(Events)
    BY <1>1, <2>1, ParseType
  <2>3. /\ written < MaxChunks[parser.family] /\ text' = text \o c /\ written' = written + 1
        /\ parser' = Parse(parser, c).parser /\ sent' = sent \o Parse(parser, c).event
        /\ phase' = phase /\ cancelled' = cancelled /\ leftOpen' = leftOpen
    BY <1>7 DEF Token
  <2>4. text \o c \in Text /\ sent \o Parse(parser, c).event \in Seq(Events)
    BY <1>1, <2>1, <2>2, ConcatText, ConcatProperties
  <2>5. written' \in 0..MaxChunks[parser'.family]
    BY <1>1, <1>2, <2>2, <2>3
  <2> QED BY <1>1, <2>2, <2>3, <2>4, <2>5
<1>8. CASE AnswerEnds \/ AnswerEndsEarly \/ AnswerCancelled
  <2>1. /\ parser' \in Proper /\ parser'.family = parser.family /\ text' \in Text
        /\ sent' \in Seq(Events) /\ phase' = "finalize"
    BY <1>1, <1>4, <1>5, <1>8, CloseType DEF AnswerEnds, AnswerEndsEarly, AnswerCancelled
  <2>2. written' = written /\ leftOpen' = leftOpen /\ cancelled' \in {cancelled, TRUE}
    BY <1>8 DEF AnswerEnds, AnswerEndsEarly, AnswerCancelled, Close
  <2> QED BY <1>1, <2>1, <2>2
<1>9. CASE EngineFails
  BY <1>1, <1>9 DEF EngineFails
<1>10. CASE Finalize
  <2>1. /\ phase' = "done" /\ parser' = ParseFinal(parser).parser
        /\ sent' = sent \o ParseFinal(parser).event /\ text' = text /\ written' = written
        /\ cancelled' = cancelled /\ leftOpen' = leftOpen
    BY <1>10 DEF Finalize
  <2>2. /\ ParseFinal(parser).parser \in Proper /\ ParseFinal(parser).parser.family = parser.family
        /\ ParseFinal(parser).event \in Seq(Events)
    BY <1>1, ParseFinalType
  <2>3. sent \o ParseFinal(parser).event \in Seq(Events)
    BY <1>1, <2>2, ConcatProperties
  <2> QED BY <1>1, <2>1, <2>2, <2>3
<1>11. CASE UNCHANGED vars
  BY <1>1, <1>11 DEF vars
<1> QED BY <1>6, <1>7, <1>8, <1>9, <1>10, <1>11 DEF Next

\* At any time the parser is one that its family can have: only GPT_OSS waits for a
\* header or is in a call section, only the others are in a tool block, and what the
\* client receives are pieces of the text, ends of calls and parse errors, each with the
\* type it was sent as (parse_stream_content of each family, reset_parser).
THEOREM FamilyTypes == Spec => [](TypeOK /\ sent \in Seq(Events))
<1>1. Inv /\ [Next]_vars => Inv'
  BY TypesStep
<1>2. Inv => TypeOK /\ sent \in Seq(Events)
  BY DEF Inv
<1> QED BY TypesInit, <1>1, <1>2, PTL DEF Spec

-----------------------------------------------------------------------------
(***************************************************************************)
(* What a text says: Says reads to the end, since each reading takes a piece. *)
(***************************************************************************)

\* A reading of p: it takes something.
Ahead(p, r) ==
  /\ r.parser \in Parsers /\ r.parser.family = p.family /\ r.event \in Seq(Events)
  /\ Len(r.parser.buffer) < Len(p.buffer)

LEMMA AheadDef ==
  ASSUME NEW p, NEW q \in Parsers, q.family = p.family, Len(q.buffer) < Len(p.buffer)
  PROVE  /\ Ahead(p, Wait(q))
         /\ \A event \in Seq(Events) : Ahead(p, Result(q, event))
<1>1. \A event \in Seq(Events) : Ahead(p, Result(q, event))
  BY DEF Ahead, Result
<1> QED BY <1>1, TextIsSaid DEF Wait

LEMMA ReadFields ==
  ASSUME NEW p \in Parsers, NEW ended, p.buffer # <<>>
  PROVE  Ahead(p, Read(p, ended))
<1>1. /\ p.buffer \in Text /\ Len(p.buffer) \in Nat \ {0} /\ p.mode \in Types
      /\ p.buffer[1] \in Pieces /\ <<>> \in Seq(Events) /\ <<>> \in Text
  <2>1. p.buffer \in Text /\ p.mode \in Types
    BY ParserFields, TextIsSaid
  <2>2. Len(p.buffer) \in Nat \ {0} /\ p.buffer[1] \in Pieces
    BY <2>1 DEF Text
  <2> QED BY <2>1, <2>2, TextIsSaid
<1>2. \A n \in Nat \ {0} : /\ Drop(p, n) \in Parsers /\ Drop(p, n).family = p.family
                           /\ Len(Drop(p, n).buffer) < Len(p.buffer)
  BY <1>1, DropFields, DropIsLess
<1>3. Ahead(p, Wait(ReadHeader(p)))
  <2>1. CASE \E t \in DOMAIN Header : At(p.buffer, 1, Header[t])
    <3>1. PICK t \in DOMAIN Header : At(p.buffer, 1, Header[t])
      BY <2>1
    <3>2. Header[t] \in Headers /\ 1 \in 1..Len(p.buffer)
      BY <1>1 DEF Headers
    <3>3. Where(p.buffer, Headers) # 0
      BY <1>1, <3>1, <3>2, WhereDef
    <3>4. /\ EnterSection(p) \in Parsers /\ EnterSection(p).family = p.family
          /\ Len(EnterSection(p).buffer) < Len(p.buffer)
      BY <3>3, EnterSectionFields
    <3>5. ReadHeader(p) = EnterSection(p)
      BY <2>1 DEF ReadHeader
    <3> QED BY <1>1, <3>4, <3>5, AheadDef
  <2>2. CASE ~\E t \in DOMAIN Header : At(p.buffer, 1, Header[t])
    <3>1. ReadHeader(p) = Drop(p, 1)
      BY <2>2 DEF ReadHeader
    <3> QED BY <1>1, <1>2, <3>1, AheadDef
  <2> QED BY <2>1, <2>2
<1>4. Ahead(p, ReadCall(p, ended))
  <2> DEFINE end == Where(p.buffer, ToolEnds(p))
             w == p.family = "GPT_OSS"
             a == [p EXCEPT !.inTool = FALSE]
             outside == [a EXCEPT !.waiting = w]
             n == end + (IF p.family = "GPT_OSS" THEN 0 ELSE 1)
             empty == [p EXCEPT !.buffer = <<>>]
             said == IF ended /\ p.family \in {"Qwen3_5VL", "Gemma4e"} THEN CallEvent(p, p.buffer)
                                                                  ELSE <<>>
  <2>1. ReadCall(p, ended) =
          IF end # 0 THEN Result(Drop(outside, n), CallEvent(p, SubSeq(p.buffer, 1, end - 1)))
                     ELSE Result(empty, said)
    BY DEF ReadCall, Parsers
  <2>2. /\ a \in Parsers /\ a.family = p.family /\ a.buffer = p.buffer
    BY InToolSet
  <2> HIDE DEF a
  <2>3. /\ outside \in Parsers /\ outside.family = p.family /\ outside.buffer = p.buffer
    BY <2>2, WaitingSet
  <2> HIDE DEF outside
  <2>4. end \in 0..Len(p.buffer) /\ n \in Nat /\ (end # 0 => n # 0)
    BY WhereType
  <2>5. end # 0 => SubSeq(p.buffer, 1, end - 1) \in Text
    <3>1. end # 0 => end - 1 \in 0..Len(p.buffer)
      BY <1>1, <2>4
    <3> HIDE DEF end
    <3> QED BY <1>1, <3>1, BeginningOfText
  <2>6. end # 0 => CallEvent(p, SubSeq(p.buffer, 1, end - 1)) \in Seq(Events)
    BY <2>5, CallType
  <2>7. said \in Seq(Events)
    BY <1>1, CallType
  <2>8. empty \in Parsers /\ empty.family = p.family /\ empty.buffer = <<>>
    BY <1>1, BufferSet
  <2>9. Len(empty.buffer) < Len(p.buffer)
    BY <1>1, <2>8
  <2> HIDE DEF end, n, empty, said
  <2>10. end # 0 => /\ Drop(outside, n) \in Parsers /\ Drop(outside, n).family = p.family
                    /\ Len(Drop(outside, n).buffer) < Len(p.buffer)
    BY <1>1, <2>3, <2>4, DropFields, DropIsLess
  <2>11. end # 0 => Ahead(p, Result(Drop(outside, n), CallEvent(p, SubSeq(p.buffer, 1, end - 1))))
    BY <2>6, <2>10, AheadDef
  <2>12. Ahead(p, Result(empty, said))
    BY <2>7, <2>8, <2>9, AheadDef
  <2> QED BY <2>1, <2>11, <2>12
<1>5. Ahead(p, ReadText(p))
  <2>1. Ahead(p, Wait(EnterTool(p))) /\ Ahead(p, Wait(Switch(p)))
    <3>1. /\ EnterTool(p) \in Parsers /\ EnterTool(p).family = p.family
          /\ EnterTool(p).buffer = Drop(p, 2).buffer
      BY EnterToolFields
    <3>2. /\ Switch(p) \in Parsers /\ Switch(p).family = p.family
          /\ Len(Switch(p).buffer) < Len(p.buffer)
      BY SwitchFields, SwitchIsLess, HeldDef
    <3> QED BY <1>1, <1>2, <3>1, <3>2, AheadDef
  <2>2. Ahead(p, Wait(Drop(p, 2)))
    BY <1>1, <1>2, AheadDef
  <2>3. Ahead(p, Result(Drop(p, 1), <<<<p.mode, p.buffer[1]>>>>))
    <3>1. <<p.mode, p.buffer[1]>> \in Events
      BY <1>1 DEF Events, Sayings
    <3>2. \A x \in Events : <<x>> \in Seq(Events)
      <4> HIDE DEF Events
      <4> QED OBVIOUS
    <3>3. <<<<p.mode, p.buffer[1]>>>> \in Seq(Events)
      BY <3>1, <3>2
    <3>4. /\ Drop(p, 1) \in Parsers /\ Drop(p, 1).family = p.family
          /\ Len(Drop(p, 1).buffer) < Len(p.buffer)
      BY <1>2
    <3> QED BY <3>3, <3>4, AheadDef
  <2>4. Ahead(p, Wait([Drop(p, 1) EXCEPT !.waiting = TRUE]))
    <3> DEFINE d == Drop(p, 1)
    <3>1. d \in Parsers /\ d.family = p.family /\ Len(d.buffer) < Len(p.buffer)
      BY <1>2
    <3> HIDE DEF d
    <3> DEFINE w == [d EXCEPT !.waiting = TRUE]
    <3>2. w \in Parsers /\ w.family = d.family /\ w.buffer = d.buffer
      BY <3>1, WaitingSet
    <3> HIDE DEF w
    <3>3. Ahead(p, Wait(w))
      BY <1>1, <3>1, <3>2, AheadDef
    <3> QED BY <3>3 DEF w, d
  <2>5. ReadText(p) \in {Wait([Drop(p, 1) EXCEPT !.waiting = TRUE]), Wait(EnterTool(p)),
                         Wait(Switch(p)), Wait(Drop(p, 2)),
                         Result(Drop(p, 1), <<<<p.mode, p.buffer[1]>>>>)}
    BY DEF ReadText
  <2> QED BY <2>1, <2>2, <2>3, <2>4, <2>5
<1> QED BY <1>3, <1>4, <1>5 DEF Read

LEMMA SaysDef ==
  ASSUME NEW p \in Parsers, NEW ended
  PROVE  /\ Says(p, ended) \in Seq(Events)
         /\ Says(p, ended) = IF p.buffer = <<>> THEN <<>>
                             ELSE Read(p, ended).event \o Says(Read(p, ended).parser, ended)
<1> DEFINE stop == {q \in Parsers : q.buffer = <<>>}
           out == [q \in Parsers |-> <<>>]
           next == [q \in Parsers |-> IF q.buffer = <<>> THEN q ELSE Read(q, ended).parser]
           join == [y \in Parsers \X Seq(Events) |->
                      IF y[1].buffer = <<>> THEN <<>> ELSE Read(y[1], ended).event \o y[2]]
           Loops(F) == F = [q \in Parsers |-> IF q.buffer = <<>> THEN <<>>
                                              ELSE Read(q, ended).event \o F[Read(q, ended).parser]]
           says == CHOOSE F : Loops(F)
<1>1. \A q \in Parsers : q.buffer # <<>> =>
        /\ Read(q, ended).parser \in Parsers /\ Read(q, ended).event \in Seq(Events)
        /\ Held[Read(q, ended).parser] < Held[q]
  BY ReadFields, HeldDef DEF Ahead
<1>2. <<>> \in Seq(Events)
  BY TextIsSaid
<1>3. out \in [Parsers -> Seq(Events)] /\ next \in [Parsers -> Parsers]
  BY <1>1, <1>2
<1>4. join \in [Parsers \X Seq(Events) -> Seq(Events)]
  <2>1. ASSUME NEW y \in Parsers \X Seq(Events)
        PROVE  (IF y[1].buffer = <<>> THEN <<>> ELSE Read(y[1], ended).event \o y[2]) \in Seq(Events)
    <3>1. y[1] \in Parsers /\ y[2] \in Seq(Events)
      BY <2>1
    <3>2. y[1].buffer # <<>> => Read(y[1], ended).event \o y[2] \in Seq(Events)
      BY <1>1, <3>1, ConcatProperties
    <3> QED BY <1>2, <3>2
  <2> QED BY <2>1
<1>5. \A q \in Parsers, s \in Seq(Events) : q.buffer # <<>> =>
        join[<<q, s>>] = Read(q, ended).event \o s
  <2>1. \A q \in Parsers, s \in Seq(Events) : <<q, s>> \in Parsers \X Seq(Events)
    OBVIOUS
  <2> QED BY <2>1
<1>6. \E F \in [Parsers -> Seq(Events)] : Unfolds(F, Parsers, stop, out, next, join)
  <2>1. \A q \in Parsers : q \notin stop => Held[next[q]] < Held[q]
    BY <1>1
  <2> HIDE DEF stop, out, next, join
  <2>2. Held \in [Parsers -> Nat]
    BY HeldDef
  <2> QED BY ONLY <1>3, <1>4, <2>1, <2>2, MeasureRecursion
<1>7. PICK F \in [Parsers -> Seq(Events)] : Loops(F)
  <2>1. PICK F \in [Parsers -> Seq(Events)] : Unfolds(F, Parsers, stop, out, next, join)
    BY <1>6
  <2>2. \A q \in Parsers : F[q] = IF q \in stop THEN out[q] ELSE join[<<q, F[next[q]]>>]
    BY <2>1 DEF Unfolds
  <2> HIDE DEF join
  <2>3. \A q \in Parsers : F[q] = IF q.buffer = <<>> THEN <<>>
                                  ELSE Read(q, ended).event \o F[Read(q, ended).parser]
    BY <1>1, <1>5, <2>2
  <2>4. Loops(F)
    BY <2>3
  <2> QED BY <2>4
<1>8. Loops(says)
  <2> HIDE DEF Loops
  <2> QED BY <1>7
<1>9. \A q : Says(q, ended) = says[q]
  BY DEF Says
<1> HIDE DEF says, stop, out, next, join
<1>10. \A q \in Parsers : Says(q, ended) = IF q.buffer = <<>> THEN <<>>
         ELSE Read(q, ended).event \o Says(Read(q, ended).parser, ended)
  <2>1. \A q \in Parsers : says[q] = IF q.buffer = <<>> THEN <<>>
                                     ELSE Read(q, ended).event \o says[Read(q, ended).parser]
    BY <1>8
  <2> QED BY <1>9, <2>1
<1> DEFINE G == {q \in Parsers : Says(q, ended) \in Seq(Events)}
<1>11. ASSUME NEW q \in Parsers, \A t \in Parsers : Held[t] < Held[q] => t \in G
       PROVE  q \in G
  <2>1. CASE q.buffer = <<>>
    BY <1>2, <1>10, <2>1
  <2>2. CASE q.buffer # <<>>
    <3>1. Read(q, ended).event \in Seq(Events) /\ Says(Read(q, ended).parser, ended) \in Seq(Events)
      BY <1>1, <1>11, <2>2
    <3>2. Read(q, ended).event \o Says(Read(q, ended).parser, ended) \in Seq(Events)
      BY <3>1, ConcatProperties
    <3> QED BY <1>10, <2>2, <3>2
  <2> QED BY <2>1, <2>2
<1>12. Parsers \subseteq G
  <2> HIDE DEF G
  <2> QED BY <1>11, HeldDef, MeasureSet, SMTT(40)
<1> QED BY <1>10, <1>12

-----------------------------------------------------------------------------
(***************************************************************************)
(* Texts that go on                                                        *)
(***************************************************************************)

\* The parser p with more text after what it holds.
With(p, t) == [p EXCEPT !.buffer = p.buffer \o t]

\* Two parsers with the same fields are the same.
LEMMA SameParser ==
  ASSUME NEW p \in Parsers, NEW q \in Parsers, p.family = q.family, p.buffer = q.buffer,
         p.inTool = q.inTool, p.mode = q.mode, p.waiting = q.waiting
  PROVE  p = q
BY DEF Parsers

\* The markers depend on the family, and EndOf on the mode.
LEMMA SameMarkers ==
  ASSUME NEW p, NEW q, p.family = q.family
  PROVE  /\ ThinkStart(p) = ThinkStart(q) /\ ThinkEnd(p) = ThinkEnd(q)
         /\ ToolStart(p) = ToolStart(q) /\ ToolEnd(p) = ToolEnd(q)
         /\ ToolEnds(p) = ToolEnds(q) /\ Silent(p) = Silent(q)
         /\ \A body : CallEvent(p, body) = CallEvent(q, body)
         /\ p.mode = q.mode => EndOf(p) = EndOf(q) /\ GemmaMarkers(p) = GemmaMarkers(q)
BY DEF ThinkStart, ThinkEnd, ToolStart, ToolEnd, ToolEnds, Silent, CallEvent, EndOf, GemmaMarkers

LEMMA WithFields ==
  ASSUME NEW p \in Parsers, NEW t \in Text
  PROVE  /\ With(p, t) \in Parsers /\ With(p, t).buffer = p.buffer \o t
         /\ With(p, t).family = p.family /\ With(p, t).inTool = p.inTool
         /\ With(p, t).mode = p.mode /\ With(p, t).waiting = p.waiting
         /\ With(p, <<>>) = p
<1> DEFINE b == p.buffer \o t
<1>1. p.buffer \in Text /\ b \in Text /\ p.buffer \o <<>> = p.buffer
  BY ParserFields, ConcatText
<1>2. With(p, t) = [p EXCEPT !.buffer = b]
  BY DEF With
<1>3. With(p, <<>>) = p
  BY <1>1 DEF With, Parsers
<1> HIDE DEF b
<1>4. /\ With(p, t) \in Parsers /\ With(p, t).buffer = b
      /\ With(p, t).family = p.family /\ With(p, t).inTool = p.inTool
      /\ With(p, t).mode = p.mode /\ With(p, t).waiting = p.waiting
  BY <1>1, <1>2, BufferSet
<1> QED BY <1>3, <1>4 DEF b

LEMMA WithProper ==
  ASSUME NEW p \in Proper, NEW t \in Text
  PROVE  With(p, t) \in Proper /\ p \in Parsers
<1>1. p \in Parsers
  BY DEF Proper
<1> QED BY <1>1, WithFields, ProperDef

\* The beginning and the end of a text that goes on.
LEMMA SplitText ==
  ASSUME NEW s \in Text, NEW t \in Text, NEW n \in 0..Len(s)
  PROVE  /\ SubSeq(s \o t, 1, n) = SubSeq(s, 1, n)
         /\ SubSeq(s \o t, n + 1, Len(s \o t)) = SubSeq(s, n + 1, Len(s)) \o t
<1> DEFINE u == s \o t
           x == SubSeq(s, n + 1, Len(s))
           y == SubSeq(u, n + 1, Len(u))
           v == x \o t
<1>1. /\ u \in Text /\ Len(u) = Len(s) + Len(t) /\ Len(s) \in Nat /\ Len(t) \in Nat
      /\ \A k \in 1..Len(s) : u[k] = s[k]
      /\ \A k \in Len(s) + 1 .. Len(s) + Len(t) : u[k] = t[k - Len(s)]
  BY ConcatText DEF Text
<1> HIDE DEF u
<1>2. x \in Text /\ Len(x) = Len(s) - n /\ \A k \in 1..Len(x) : x[k] = s[n + k]
  BY EndOfText DEF Text
<1>3. y \in Text /\ Len(y) = Len(u) - n /\ \A k \in 1..Len(y) : y[k] = u[n + k]
  <2>1. n \in Nat /\ n <= Len(u)
    BY <1>1
  <2> QED BY <1>1, <2>1, EndOfText
<1> HIDE DEF x, y
<1>4. /\ v \in Text /\ Len(v) = Len(x) + Len(t)
      /\ \A k \in 1..Len(x) : v[k] = x[k]
      /\ \A k \in Len(x) + 1 .. Len(x) + Len(t) : v[k] = t[k - Len(x)]
  BY <1>2, ConcatText
<1> HIDE DEF v
<1>5. Len(v) = Len(y) /\ Len(v) \in Nat
  BY <1>1, <1>2, <1>3, <1>4
<1>6. ASSUME NEW k \in 1..Len(v)
      PROVE  v[k] = y[k]
  <2>1. y[k] = u[n + k]
    BY <1>3, <1>5
  <2>2. CASE k <= Len(x)
    <3>1. v[k] = s[n + k] /\ n + k \in 1..Len(s)
      BY <1>1, <1>2, <1>4, <2>2
    <3> QED BY <1>1, <2>1, <3>1
  <2>3. CASE k > Len(x)
    <3>1. v[k] = t[k - Len(x)] /\ n + k \in Len(s) + 1 .. Len(s) + Len(t)
          /\ (n + k) - Len(s) = k - Len(x)
      BY <1>1, <1>2, <1>4, <2>3
    <3> QED BY <1>1, <2>1, <3>1
  <2> QED BY <1>1, <1>2, <2>2, <2>3
<1>7. v = y
  BY <1>3, <1>4, <1>5, <1>6, SeqEqual DEF Text
<1>8. SubSeq(u, 1, n) = SubSeq(s, 1, n)
  <2>1. n \in 0..Len(u) /\ n \in Nat
    BY <1>1
  <2>2. /\ SubSeq(u, 1, n) \in Text /\ Len(SubSeq(u, 1, n)) = n
        /\ \A k \in 1..n : SubSeq(u, 1, n)[k] = u[k]
    BY <1>1, <2>1, BeginningOfText
  <2>3. /\ SubSeq(s, 1, n) \in Text /\ Len(SubSeq(s, 1, n)) = n
        /\ \A k \in 1..n : SubSeq(s, 1, n)[k] = s[k]
    BY BeginningOfText
  <2>4. \A k \in 1..n : u[k] = s[k]
    BY <1>1
  <2> QED BY <2>2, <2>3, <2>4, SeqEqual DEF Text
<1> QED BY <1>7, <1>8 DEF u, v, x, y

\* What is dropped of a text that goes on, in two steps, and what stands after it.
LEMMA DropWith ==
  ASSUME NEW p \in Parsers, NEW t \in Text, NEW n \in 0..Len(p.buffer)
  PROVE  Drop(With(p, t), n) = With(Drop(p, n), t)
<1> DEFINE q == With(p, t)
           d == Drop(p, n)
<1>1. p.buffer \in Text /\ n \in Nat
  BY ParserFields
<1>2. /\ q \in Parsers /\ q.buffer = p.buffer \o t /\ q.family = p.family
      /\ q.inTool = p.inTool /\ q.mode = p.mode /\ q.waiting = p.waiting
  BY WithFields
<1>3. /\ d \in Parsers /\ d.buffer = SubSeq(p.buffer, n + 1, Len(p.buffer)) /\ d.family = p.family
      /\ d.inTool = p.inTool /\ d.mode = p.mode /\ d.waiting = p.waiting
  BY <1>1, DropFields
<1> HIDE DEF q, d
<1>4. /\ Drop(q, n) \in Parsers /\ Drop(q, n).buffer = SubSeq(q.buffer, n + 1, Len(q.buffer))
      /\ Drop(q, n).family = q.family
      /\ Drop(q, n).inTool = q.inTool /\ Drop(q, n).mode = q.mode /\ Drop(q, n).waiting = q.waiting
  BY <1>1, <1>2, DropFields
<1>5. /\ With(d, t) \in Parsers /\ With(d, t).buffer = d.buffer \o t
      /\ With(d, t).family = d.family /\ With(d, t).inTool = d.inTool
      /\ With(d, t).mode = d.mode /\ With(d, t).waiting = d.waiting
  BY <1>3, WithFields
<1>6. SubSeq(p.buffer \o t, n + 1, Len(p.buffer \o t)) = SubSeq(p.buffer, n + 1, Len(p.buffer)) \o t
  BY <1>1, SplitText
<1>8. Drop(q, n).buffer = With(d, t).buffer
  BY <1>2, <1>3, <1>4, <1>5, <1>6
<1>9. /\ Drop(q, n).family = With(d, t).family /\ Drop(q, n).inTool = With(d, t).inTool
      /\ Drop(q, n).mode = With(d, t).mode /\ Drop(q, n).waiting = With(d, t).waiting
  BY <1>2, <1>3, <1>4, <1>5
<1>7. Drop(q, n) = With(d, t)
  BY ONLY <1>4, <1>5, <1>8, <1>9, SameParser
<1> QED BY <1>7 DEF q, d

LEMMA DropDrop ==
  ASSUME NEW p \in Parsers, NEW n \in 0..Len(p.buffer), NEW k \in Nat
  PROVE  Drop(Drop(p, n), k) = Drop(p, n + k)
<1> DEFINE s == p.buffer
           e == SubSeq(s, n + 1, Len(s))
           x == SubSeq(e, k + 1, Len(e))
           j == n + k
           y == SubSeq(s, j + 1, Len(s))
<1>1. s \in Text /\ n \in Nat /\ Len(s) \in Nat /\ j \in Nat
  BY ParserFields
<1>10. n <= Len(s)
  BY <1>1
<1> HIDE DEF s
<1>2. e \in Text /\ Len(e) = Len(s) - n /\ \A i \in 1..Len(e) : e[i] = s[n + i]
  BY <1>1, <1>10, EndOfText
<1> HIDE DEF e
<1>3. /\ x \in Text /\ (k <= Len(e) => Len(x) = Len(e) - k /\ \A i \in 1..Len(x) : x[i] = e[k + i])
      /\ (k > Len(e) => x = <<>>)
  BY <1>2, EndOfText
<1>4. /\ y \in Text /\ (j <= Len(s) => Len(y) = Len(s) - j /\ \A i \in 1..Len(y) : y[i] = s[j + i])
      /\ (j > Len(s) => y = <<>>)
  BY <1>1, EndOfText
<1>5. x = y
  <2> HIDE DEF x, y
  <2>1. CASE k <= Len(e)
    <3>1. Len(x) = Len(y) /\ Len(x) = Len(s) - n - k /\ Len(x) \in Nat
      BY <1>1, <1>2, <1>3, <1>4, <1>10, <2>1
    <3>2. ASSUME NEW i \in 1..Len(x)
          PROVE  x[i] = y[i]
      <4>1. x[i] = e[k + i] /\ k + i \in 1..Len(e) /\ n + (k + i) = j + i
        BY <1>1, <1>2, <1>3, <1>10, <2>1, <3>1
      <4>2. y[i] = s[j + i]
        BY <1>1, <1>2, <1>4, <2>1, <3>1
      <4> QED BY <1>2, <4>1, <4>2
    <3> QED BY <1>3, <1>4, <3>1, <3>2, SeqEqual DEF Text
  <2>2. CASE k > Len(e)
    BY <1>1, <1>2, <1>3, <1>4, <1>10, <2>2
  <2> QED BY <1>1, <1>2, <2>1, <2>2, <1>10
<1> DEFINE d == Drop(p, n)
<1>6. /\ d \in Parsers /\ d.buffer = e /\ d.family = p.family
      /\ d.inTool = p.inTool /\ d.mode = p.mode /\ d.waiting = p.waiting
  BY <1>1, DropFields DEF e, s
<1> HIDE DEF d
<1>7. /\ Drop(d, k) \in Parsers /\ Drop(d, k).buffer = x /\ Drop(d, k).family = d.family
      /\ Drop(d, k).inTool = d.inTool /\ Drop(d, k).mode = d.mode /\ Drop(d, k).waiting = d.waiting
  BY <1>6, DropFields
<1>8. /\ Drop(p, j) \in Parsers /\ Drop(p, j).buffer = y /\ Drop(p, j).family = p.family
      /\ Drop(p, j).inTool = p.inTool /\ Drop(p, j).mode = p.mode /\ Drop(p, j).waiting = p.waiting
  <2> HIDE DEF j
  <2> QED BY <1>1, DropFields DEF s
<1>11. /\ Drop(d, k).buffer = Drop(p, j).buffer
       /\ Drop(d, k).family = Drop(p, j).family /\ Drop(d, k).inTool = Drop(p, j).inTool
       /\ Drop(d, k).mode = Drop(p, j).mode /\ Drop(d, k).waiting = Drop(p, j).waiting
  BY ONLY <1>5, <1>6, <1>7, <1>8
<1> HIDE DEF j
<1>9. Drop(d, k) = Drop(p, j)
  BY ONLY <1>7, <1>8, <1>11, SameParser
<1> QED BY <1>9 DEF d, j

LEMMA AtDrop ==
  ASSUME NEW p \in Parsers, NEW n \in 0..Len(p.buffer), NEW m
  PROVE  At(Drop(p, n).buffer, 1, m) <=> At(p.buffer, n + 1, m)
<1> DEFINE e == SubSeq(p.buffer, n + 1, Len(p.buffer))
<1>1. p.buffer \in Text /\ n \in Nat
  BY ParserFields
<1>2. e \in Text
  BY <1>1, EndOfText
<1>3. Drop(p, n).buffer = e
  BY <1>1, DropFields
<1>4. At(p.buffer, n + 1, m) <=> IsPrefix(m, e)
  BY DEF At
<1> HIDE DEF e
<1>5. SubSeq(e, 1, Len(e)) = e
  BY <1>2, SubSeqFull DEF Text
<1>6. At(e, 1, m) <=> IsPrefix(m, e)
  BY <1>5 DEF At
<1> QED BY <1>3, <1>4, <1>6

\* What stands in a text stands there when the text goes on; and what comes to stand
\* there has its beginning at the end of the text.
LEMMA AtWith ==
  ASSUME NEW s \in Text, NEW t \in Text, NEW i \in 1..Len(s), NEW m \in Text
  PROVE  /\ At(s, i, m) => At(s \o t, i, m)
         /\ At(s \o t, i, m) => \/ At(s, i, m)
                                \/ /\ i + Len(m) - 1 > Len(s)
                                   /\ IsPrefix(SubSeq(s, i, Len(s)), m)
<1> DEFINE u == s \o t
           r == SubSeq(s, i, Len(s))
<1>1. /\ u \in Text /\ Len(u) = Len(s) + Len(t) /\ Len(s) \in Nat /\ Len(t) \in Nat
      /\ \A k \in 1..Len(s) : u[k] = s[k]
      /\ i \in 1..Len(u) /\ Len(m) \in Nat
  BY ConcatText DEF Text
<1>2. r \in Text /\ Len(r) = Len(s) - i + 1 /\ \A k \in 1..Len(r) : r[k] = s[i + k - 1]
  BY DEF Text
<1> HIDE DEF u, r
<1>3. At(s, i, m) <=> /\ i + Len(m) - 1 <= Len(s)
                      /\ \A k \in 1..Len(m) : s[i + k - 1] = m[k]
  BY AtDef
<1>4. At(u, i, m) <=> /\ i + Len(m) - 1 <= Len(u)
                      /\ \A k \in 1..Len(m) : u[i + k - 1] = m[k]
  BY <1>1, AtDef
<1>5. IsPrefix(r, m) <=> Len(r) <= Len(m) /\ \A k \in 1..Len(r) : r[k] = m[k]
  BY <1>2 DEF IsPrefix, Text
<1>6. CASE i + Len(m) - 1 <= Len(s)
  <2>1. \A k \in 1..Len(m) : i + k - 1 \in 1..Len(s)
    BY <1>1, <1>6
  <2>2. \A k \in 1..Len(m) : u[i + k - 1] = s[i + k - 1]
    BY <1>1, <2>1
  <2>3. At(s, i, m) <=> At(u, i, m)
    BY <1>1, <1>3, <1>4, <1>6, <2>2
  <2> QED BY <2>3 DEF u
<1>7. CASE i + Len(m) - 1 > Len(s)
  <2>1. ~At(s, i, m)
    BY <1>1, <1>3, <1>7
  <2>2. ASSUME At(u, i, m)
        PROVE  IsPrefix(r, m)
    <3>1. \A k \in 1..Len(r) : k \in 1..Len(m) /\ i + k - 1 \in 1..Len(s)
      BY <1>1, <1>2, <1>7
    <3>2. \A k \in 1..Len(r) : u[i + k - 1] = m[k] /\ u[i + k - 1] = s[i + k - 1]
      BY <1>1, <1>4, <2>2, <3>1
    <3> QED BY <1>1, <1>2, <1>5, <1>7, <3>2
  <2> QED BY <1>7, <2>1, <2>2 DEF u, r
<1> QED BY <1>1, <1>6, <1>7

\* Two markers do not overlap.
LEMMA TagsApart ==
  ASSUME NEW s \in Text, NEW m \in Tags, NEW n \in Tags, NEW i \in 1..Len(s), NEW j \in 1..Len(s),
         i < j, \A k \in 1..Len(m) : i + k - 1 <= Len(s) => s[i + k - 1] = m[k], At(s, j, n)
  PROVE  i + Len(m) - 1 < j
<1>1. m \in Text /\ Len(m) \in Nat \ {0} /\ n \in Text /\ Len(n) \in Nat \ {0} /\ Len(s) \in Nat
  BY DEF Tags, Text
<1>2. \A k \in 1..Len(m) : m[k] = "<" <=> k = 1
  BY <1>1 DEF Tags, Text
<1>3. n[1] = "<"
  BY <1>1 DEF Tags, Text
<1>4. s[j] = "<"
  <2>1. 1 \in 1..Len(n) /\ j + 1 - 1 = j
    BY <1>1
  <2> QED BY <1>1, <1>3, <2>1, AtDef
<1>5. SUFFICES ASSUME i + Len(m) - 1 >= j
               PROVE  FALSE
  BY <1>1
<1> DEFINE k == j - i + 1
<1>6. k \in 2..Len(m) /\ i + k - 1 = j
  BY <1>1, <1>5
<1>7. s[j] = m[k]
  <2> HIDE DEF k
  <2>1. k \in 1..Len(m) /\ i + k - 1 <= Len(s)
    BY <1>1, <1>6
  <2> QED BY <1>6, <2>1
<1> HIDE DEF k
<1> QED BY <1>1, <1>2, <1>4, <1>6, <1>7

\* The first marker stays the first when the text goes on, and none comes before it.
LEMMA FirstStays ==
  ASSUME NEW s \in Text, NEW t \in Text, NEW M, M \subseteq Tags, Where(s, M) # 0
  PROVE  /\ Where(s \o t, M) = Where(s, M)
         /\ \A i \in 1..Where(s, M) - 1, m \in M : ~At(s \o t, i, m)
<1> DEFINE w == Where(s, M)
           u == s \o t
<1>1. u \in Text /\ Len(u) = Len(s) + Len(t) /\ Len(s) \in Nat /\ Len(t) \in Nat
  BY ConcatText DEF Text
<1>2. M \subseteq Text
  BY DEF Tags
<1>3. w \in 1..Len(s) /\ \E m \in M : At(s, w, m)
  BY WhereDef, <1>1
<1>4. PICK n \in M : At(s, w, n)
  BY <1>3
<1>5. At(u, w, n) /\ w \in 1..Len(u)
  BY <1>1, <1>2, <1>3, <1>4, AtWith
<1> HIDE DEF w, u
<1>6. ASSUME NEW i \in 1..w - 1, NEW m \in M, At(u, i, m)
      PROVE  FALSE
  <2>1. i \in 1..Len(s) /\ i < w /\ i \in 1..Len(u) /\ m \in Text /\ m \in Tags
    BY <1>1, <1>2, <1>3
  <2>2. ~At(s, i, m)
    BY <1>2, <2>1, WhereDef DEF w
  <2>3. i + Len(m) - 1 > Len(s)
    BY <1>6, <2>1, <2>2, AtWith DEF u
  <2>4. \A k \in 1..Len(m) : u[i + k - 1] = m[k]
    BY <1>1, <1>6, <2>1, AtDef
  <2>5. i + Len(m) - 1 < w
    BY <1>1, <1>4, <1>5, <2>1, <2>4, TagsApart
  <2> QED BY <1>1, <1>3, <2>1, <2>3, <2>5 DEF Text
<1>7. Where(u, M) = w
  <2>1. Where(u, M) # 0 /\ Where(u, M) <= w
    BY <1>1, <1>4, <1>5, WhereDef
  <2>2. Where(u, M) \in 1..Len(u) /\ \E m \in M : At(u, Where(u, M), m)
    BY <1>1, <2>1, WhereDef
  <2>3. ~(Where(u, M) \in 1..w - 1)
    BY <1>6, <2>2
  <2> QED BY <1>1, <1>3, <2>1, <2>2, <2>3
<1> QED BY <1>6, <1>7 DEF w, u

\* What is tagged, piece by piece.
LEMMA TaggedAppend ==
  ASSUME NEW type \in Types, NEW s \in Text, NEW n \in 1..Len(s)
  PROVE  Tagged(type, SubSeq(s, 1, n)) =
           Tagged(type, SubSeq(s, 1, n - 1)) \o <<<<type, s[n]>>>>
<1> DEFINE a == SubSeq(s, 1, n)
           b == SubSeq(s, 1, n - 1)
           x == Tagged(type, a)
           y == Tagged(type, b)
           z == <<<<type, s[n]>>>>
           v == y \o z
<1>1. Len(s) \in Nat /\ n \in 0..Len(s) /\ n - 1 \in 0..Len(s) /\ s[n] \in Pieces /\ n \in Nat \ {0}
  BY DEF Text
<1>2. /\ a \in Text /\ Len(a) = n /\ \A k \in 1..n : a[k] = s[k]
      /\ b \in Text /\ Len(b) = n - 1 /\ \A k \in 1..n - 1 : b[k] = s[k]
  BY <1>1, BeginningOfText
<1> HIDE DEF a, b
<1>3. a \in Seq(Sayings) /\ b \in Seq(Sayings)
  BY <1>2, TextIsSaid
<1>4. /\ x \in Seq(Events) /\ Len(x) = n /\ \A k \in 1..n : x[k] = <<type, s[k]>>
      /\ y \in Seq(Events) /\ Len(y) = n - 1 /\ \A k \in 1..n - 1 : y[k] = <<type, s[k]>>
  BY <1>1, <1>2, <1>3, TaggedType
<1> HIDE DEF x, y
<1>5. z \in Seq(Events) /\ Len(z) = 1 /\ z[1] = <<type, s[n]>>
  <2>1. <<type, s[n]>> \in Events
    BY <1>1 DEF Events, Sayings
  <2> HIDE DEF Events
  <2> QED BY <2>1
<1> HIDE DEF z
<1>6. v \in Seq(Events) /\ Len(v) = Len(y) + Len(z)
      /\ \A k \in 1..Len(y) + Len(z) : v[k] = IF k <= Len(y) THEN y[k] ELSE z[k - Len(y)]
  BY <1>4, <1>5, ConcatProperties
<1> HIDE DEF v
<1>7. Len(v) = Len(x)
  BY <1>1, <1>4, <1>5, <1>6
<1>8. ASSUME NEW k \in 1..Len(v)
      PROVE  v[k] = x[k]
  <2>3. k \in 1..n /\ k \in 1..Len(y) + Len(z)
    BY <1>1, <1>4, <1>5, <1>6
  <2>4. v[k] = IF k <= n - 1 THEN y[k] ELSE z[k - (n - 1)]
    BY <1>4, <1>6, <2>3
  <2>1. CASE k <= n - 1
    <3>1. k \in 1..n - 1
      BY <1>1, <2>1, <2>3
    <3>2. v[k] = y[k]
      BY <2>1, <2>4
    <3> QED BY <1>4, <2>3, <3>1, <3>2
  <2>2. CASE k = n
    <3>1. v[k] = z[1]
      <4>1. n - (n - 1) = 1 /\ ~(n <= n - 1)
        BY <1>1
      <4> QED BY <2>2, <2>4, <4>1
    <3> QED BY <1>1, <1>4, <1>5, <2>2, <3>1
  <2> QED BY <1>1, <1>4, <1>7, <2>1, <2>2
<1>9. v = x
  BY <1>4, <1>6, <1>7, <1>8, SeqEqual
<1> QED BY <1>9 DEF a, b, x, y, z, v

LEMMA DropNothing ==
  ASSUME NEW p \in Parsers
  PROVE  Drop(p, 0) = p
<1>1. p.buffer \in Text /\ SubSeq(p.buffer, 1, Len(p.buffer)) = p.buffer
  BY ParserFields, SubSeqFull DEF Text
<1>2. /\ Drop(p, 0) \in Parsers
      /\ Drop(p, 0).family = p.family /\ Drop(p, 0).inTool = p.inTool
      /\ Drop(p, 0).mode = p.mode /\ Drop(p, 0).waiting = p.waiting
      /\ Drop(p, 0).buffer = SubSeq(p.buffer, 0 + 1, Len(p.buffer))
  BY DropFields
<1>3. Drop(p, 0).buffer = p.buffer
  BY <1>1, <1>2
<1> QED BY ONLY <1>2, <1>3, SameParser, p \in Parsers

\* n pieces that are read one by one, all in the mode of p.
LEMMA TextRun ==
  ASSUME NEW p \in Parsers, NEW ended, NEW n \in 0..Len(p.buffer),
         \A i \in 0..n - 1 : Read(Drop(p, i), ended) =
                               Result(Drop(p, i + 1), <<<<p.mode, p.buffer[i + 1]>>>>)
  PROVE  Says(p, ended) = Tagged(p.mode, SubSeq(p.buffer, 1, n)) \o Says(Drop(p, n), ended)
<1> DEFINE said(k) == Tagged(p.mode, SubSeq(p.buffer, 1, k))
           rest(k) == Says(Drop(p, k), ended)
           S == {k \in Nat : k <= n => Says(p, ended) = said(k) \o rest(k)}
<1>1. p.buffer \in Text /\ p.mode \in Types /\ Len(p.buffer) \in Nat /\ n \in Nat /\ n <= Len(p.buffer)
  <2>1. p.buffer \in Text /\ p.mode \in Types /\ Len(p.buffer) \in Nat
    BY ParserFields, TextIsSaid
  <2> QED BY <2>1
<1>2. \A k \in 0..n : said(k) \in Seq(Events) /\ rest(k) \in Seq(Events) /\ Drop(p, k) \in Parsers
  <2>1. ASSUME NEW k \in 0..n
        PROVE  said(k) \in Seq(Events) /\ rest(k) \in Seq(Events) /\ Drop(p, k) \in Parsers
    <3>1. k \in 0..Len(p.buffer) /\ k \in Nat
      BY <1>1
    <3>2. SubSeq(p.buffer, 1, k) \in Text
      BY <1>1, <3>1, BeginningOfText
    <3> QED BY <1>1, <3>1, <3>2, TextIsSaid, TaggedType, DropFields, SaysDef
  <2> QED BY <2>1
<1>3. 0 \in S
  <2>1. rest(0) = Says(p, ended) /\ Says(p, ended) \in Seq(Events)
    BY DropNothing, SaysDef
  <2>2. said(0) = <<>>
    <3>1. SubSeq(p.buffer, 1, 0) = <<>>
      BY <1>1 DEF Text
    <3> QED BY <1>1, <3>1, TextIsSaid, TaggedType, ZenonT(60)
  <2>3. <<>> \o Says(p, ended) = Says(p, ended)
    BY <2>1, ConcatEmptySeq
  <2> HIDE DEF said, rest
  <2> QED BY <2>1, <2>2, <2>3
<1>4. ASSUME NEW k \in Nat, k \in S
      PROVE  k + 1 \in S
  <2>1. SUFFICES ASSUME k + 1 <= n
                 PROVE  Says(p, ended) = said(k + 1) \o rest(k + 1)
    BY <1>4
  <2>2. k \in 0..n - 1 /\ k \in 0..n /\ k + 1 \in 0..n /\ k + 1 \in 1..Len(p.buffer) /\ k + 1 - 1 = k
        /\ k <= Len(p.buffer) /\ k <= n
    BY <1>1, <2>1
  <2> DEFINE x == <<<<p.mode, p.buffer[k + 1]>>>>
  <2>3. Says(p, ended) = said(k) \o rest(k)
    BY <1>4, <2>2
  <2>4. rest(k) = x \o rest(k + 1)
    <3>1. Drop(p, k) \in Parsers /\ Drop(p, k).buffer # <<>>
      <4>1. Len(Drop(p, k).buffer) = Len(p.buffer) - k /\ Drop(p, k) \in Parsers
        BY <2>2, DropFields
      <4>2. Len(Drop(p, k).buffer) # 0 /\ Len(<<>>) = 0
        BY <1>1, <2>2, <4>1
      <4> QED BY <4>1, <4>2
    <3>2. Read(Drop(p, k), ended) = Result(Drop(p, k + 1), x)
      BY <2>2
    <3>3. Read(Drop(p, k), ended).event = x /\ Read(Drop(p, k), ended).parser = Drop(p, k + 1)
      BY <3>2 DEF Result
    <3> HIDE DEF x
    <3> QED BY <3>1, <3>3, SaysDef
  <2>5. said(k + 1) = said(k) \o x
    <3> DEFINE j == k + 1
    <3>1. j \in 1..Len(p.buffer) /\ j - 1 = k
      BY <2>2
    <3> HIDE DEF j
    <3>2. Tagged(p.mode, SubSeq(p.buffer, 1, j)) =
            Tagged(p.mode, SubSeq(p.buffer, 1, j - 1)) \o <<<<p.mode, p.buffer[j]>>>>
      BY <1>1, <3>1, TaggedAppend
    <3> QED BY <3>1, <3>2 DEF j
  <2>6. x \in Seq(Events)
    <3>1. p.buffer[k + 1] \in Pieces
      BY <1>1, <2>2 DEF Text
    <3>2. <<p.mode, p.buffer[k + 1]>> \in Events
      BY <1>1, <3>1 DEF Events, Sayings
    <3> HIDE DEF Events
    <3> QED BY <3>2
  <2>7. said(k) \in Seq(Events) /\ rest(k + 1) \in Seq(Events)
    BY <1>2, <2>2
  <2> HIDE DEF said, rest, x
  <2>8. (said(k) \o x) \o rest(k + 1) = said(k) \o (x \o rest(k + 1))
    <3> HIDE DEF S
    <3> QED BY ONLY <2>6, <2>7, ConcatAssociative
  <2> QED BY <2>3, <2>4, <2>5, <2>8
<1>5. n \in S
  <2> HIDE DEF S
  <2> QED BY <1>1, <1>3, <1>4, NatSet
<1> QED BY <1>1, <1>5

\* The markers that mean something outside of a call.
Signs(p) == {ToolStart(p), EndOf(p)} \cup Silent(p)

LEMMA ReadPiece ==
  ASSUME NEW p \in Proper, NEW ended, p.family # "GPT_OSS", ~p.inTool,
         \A m \in Signs(p) : ~At(p.buffer, 1, m)
  PROVE  Read(p, ended) = Result(Drop(p, 1), <<<<p.mode, p.buffer[1]>>>>)
<1>1. ~p.waiting /\ p.mode # "tool" /\ ~InCall(p)
  BY DEF Proper, InCall
<1>2. ReadText(p) = Result(Drop(p, 1), <<<<p.mode, p.buffer[1]>>>>)
  BY DEF ReadText, Signs
<1> QED BY <1>1, <1>2 DEF Read

\* A text without markers among its first n pieces.
LEMMA PlainRun ==
  ASSUME NEW p \in Proper, NEW ended, p.family # "GPT_OSS", ~p.inTool,
         NEW n \in 0..Len(p.buffer),
         \A i \in 1..n, m \in Signs(p) : ~At(p.buffer, i, m)
  PROVE  Says(p, ended) = Tagged(p.mode, SubSeq(p.buffer, 1, n)) \o Says(Drop(p, n), ended)
<1>1. p \in Parsers /\ p.buffer \in Text /\ Len(p.buffer) \in Nat
  BY ParserFields DEF Proper
<1>2. ASSUME NEW i \in 0..n - 1
      PROVE  Read(Drop(p, i), ended) = Result(Drop(p, i + 1), <<<<p.mode, p.buffer[i + 1]>>>>)
  <2>1. i \in 0..Len(p.buffer) /\ i \in Nat /\ i + 1 \in 1..n /\ i + 1 <= Len(p.buffer) /\ i <= Len(p.buffer)
    BY <1>1
  <2> DEFINE d == Drop(p, i)
  <2>2. /\ d \in Parsers /\ d.family = p.family /\ d.inTool = p.inTool /\ d.mode = p.mode
        /\ d.buffer = SubSeq(p.buffer, i + 1, Len(p.buffer))
    BY <1>1, <2>1, DropFields
  <2>3. d \in Proper
    BY <1>1, <2>1, DropKeepsProper
  <2>4. Signs(d) = Signs(p)
    BY <2>2, SameMarkers DEF Signs
  <2>5. \A m \in Signs(p) : ~At(d.buffer, 1, m)
    BY <1>1, <2>1, AtDrop
  <2>6. Drop(d, 1) = Drop(p, i + 1)
    BY <1>1, <2>1, DropDrop
  <2>7. d.buffer[1] = p.buffer[i + 1]
    <3>1. Len(SubSeq(p.buffer, i + 1, Len(p.buffer))) = Len(p.buffer) - i
          /\ \A k \in 1..Len(SubSeq(p.buffer, i + 1, Len(p.buffer))) :
               SubSeq(p.buffer, i + 1, Len(p.buffer))[k] = p.buffer[i + k]
      BY <1>1, <2>1, EndOfText
    <3>2. 1 \in 1..Len(SubSeq(p.buffer, i + 1, Len(p.buffer)))
      BY <1>1, <2>1, <3>1
    <3> QED BY <2>2, <3>1, <3>2
  <2> HIDE DEF d
  <2>8. Read(d, ended) = Result(Drop(d, 1), <<<<d.mode, d.buffer[1]>>>>)
    BY <2>2, <2>3, <2>4, <2>5, ReadPiece
  <2> QED BY <2>2, <2>6, <2>7, <2>8 DEF d
<1> QED BY <1>1, <1>2, TextRun

-----------------------------------------------------------------------------
(***************************************************************************)
(* A call of a parser gives what the text says first, and leaves the rest,   *)
(* whatever text is still to come.                                          *)
(***************************************************************************)
Gives(p, t, r, ended) == Says(With(p, t), ended) = r.event \o Says(With(r.parser, t), ended)

LEMMA GivesDef ==
  ASSUME NEW p, NEW q, NEW event, NEW t, NEW ended
  PROVE  Gives(p, t, Result(q, event), ended) <=>
           Says(With(p, t), ended) = event \o Says(With(q, t), ended)
BY DEF Gives, Result

LEMMA GivesWait ==
  ASSUME NEW p \in Parsers, NEW q \in Parsers, NEW t \in Text, NEW ended,
         Says(With(p, t), ended) = Says(With(q, t), ended)
  PROVE  Gives(p, t, Wait(q), ended)
<1>1. Says(With(q, t), ended) \in Seq(Events)
  BY WithFields, SaysDef
<1>2. <<>> \o Says(With(q, t), ended) = Says(With(q, t), ended)
  BY <1>1, ConcatEmptySeq
<1> QED BY <1>2, GivesDef DEF Wait

\* Text up to i is given as it is, when no marker comes to stand in it.
LEMMA GivesKeep ==
  ASSUME NEW p \in Proper, p.family # "GPT_OSS", ~p.inTool, NEW t \in Text, NEW ended,
         NEW i \in 1..Len(p.buffer) + 1,
         \A j \in 1..i - 1, m \in Signs(p) : ~At(p.buffer \o t, j, m)
  PROVE  Gives(p, t, Keep(p, i), ended)
<1> DEFINE q == With(p, t)
           n == i - 1
<1>1. p \in Parsers /\ p.buffer \in Text /\ Len(p.buffer) \in Nat
  BY ParserFields DEF Proper
<1>2. /\ q \in Proper /\ q.family = p.family /\ q.inTool = p.inTool /\ q.mode = p.mode
      /\ q.buffer = p.buffer \o t
  BY <1>1, WithFields, WithProper
<1>3. n \in 0..Len(p.buffer) /\ Len(p.buffer \o t) = Len(p.buffer) + Len(t) /\ Len(t) \in Nat
  BY <1>1, ConcatText DEF Text
<1>4. Signs(q) = Signs(p)
  BY <1>2, SameMarkers DEF Signs
<1>5. Drop(q, n) = With(Drop(p, n), t)
  BY <1>1, <1>3, DropWith
<1>6. SubSeq(q.buffer, 1, n) = SubSeq(p.buffer, 1, n)
  BY <1>1, <1>2, <1>3, SplitText
<1>7. Keep(p, i) = Result(Drop(p, n), Tagged(p.mode, SubSeq(p.buffer, 1, n)))
  BY DEF Keep
<1>8. n \in 0..Len(q.buffer) /\ \A j \in 1..n, m \in Signs(q) : ~At(q.buffer, j, m)
  BY <1>1, <1>2, <1>3, <1>4
<1> HIDE DEF q, n
<1>9. Says(q, ended) = Tagged(q.mode, SubSeq(q.buffer, 1, n)) \o Says(Drop(q, n), ended)
  BY <1>2, <1>8, PlainRun
<1>10. Says(q, ended) = Tagged(p.mode, SubSeq(p.buffer, 1, n)) \o Says(With(Drop(p, n), t), ended)
  BY <1>2, <1>5, <1>6, <1>9
<1>11. Says(With(p, t), ended) = Tagged(p.mode, SubSeq(p.buffer, 1, n)) \o Says(With(Drop(p, n), t), ended)
  BY <1>10 DEF q
<1> QED BY ONLY <1>7, <1>11, GivesDef

\* Says goes on after what Read takes.
LEMMA SaysRead ==
  ASSUME NEW p \in Parsers, NEW ended, NEW r \in Parsers, p.buffer # <<>>, Read(p, ended) = Wait(r)
  PROVE  Says(p, ended) = Says(r, ended)
<1>1. Says(p, ended) = Read(p, ended).event \o Says(Read(p, ended).parser, ended)
  BY SaysDef
<1>2. Read(p, ended).event = <<>> /\ Read(p, ended).parser = r
  BY DEF Wait, Result
<1>3. <<>> \o Says(r, ended) = Says(r, ended)
  BY SaysDef, ConcatEmptySeq
<1> QED BY <1>1, <1>2, <1>3

\* A marker of a tool call and one of a think block differ after the sign.
LEMMA MarkersDiffer ==
  ASSUME NEW p
  PROVE  /\ ToolStart(p)[2] # EndOf(p)[2] /\ ToolResp[2] # EndOf(p)[2] /\ ToolStart(p)[2] # ToolResp[2]
         /\ ToolEnd(p)[2] # EndOf(p)[2] /\ ToolEnd(p)[2] # ToolStart(p)[2]
         /\ ToolEnd(p)[2] # ToolResp[2] /\ ToolEnd(p)[2] # FuncEnd[2]
BY DEF ToolStart, ToolEnd, ToolResp, FuncEnd, EndOf, ThinkStart, ThinkEnd

LEMMA EndOfLength ==
  ASSUME NEW p
  PROVE  Len(EndOf(p)) \in Nat /\ Len(EndOf(p)) >= 2 /\ EndOf(p) \in Tags
<1>1. \A x, y, z : Len(<<x, y, z>>) = 3 /\ Len(<<x, y>>) = 2
  OBVIOUS
<1>2. Len(EndOf(p)) \in {2, 3}
  BY <1>1 DEF EndOf, ThinkStart, ThinkEnd
<1>3. Len(EndOf(p)) \in Nat /\ Len(EndOf(p)) >= 2
  BY <1>2
<1> QED BY <1>3, MarkersAreTags

LEMMA OneMarker ==
  ASSUME NEW s \in Text, NEW i \in 1..Len(s), NEW m \in Tags, NEW n \in Tags,
         Len(m) >= 2, Len(n) >= 2, m[2] # n[2]
  PROVE  ~(At(s, i, m) /\ At(s, i, n))
<1>1. m \in Text /\ n \in Text /\ Len(m) \in Nat /\ Len(n) \in Nat
  BY DEF Tags, Text
<1>2. 2 \in 1..Len(m) /\ 2 \in 1..Len(n)
  BY <1>1
<1>3. At(s, i, m) => s[i + 2 - 1] = m[2]
  BY <1>1, <1>2, AtDef
<1>4. At(s, i, n) => s[i + 2 - 1] = n[2]
  BY <1>1, <1>2, AtDef
<1> QED BY <1>3, <1>4

\* The markers of p are told apart, and have two pieces or more.
LEMMA OneSign ==
  ASSUME NEW p, NEW s \in Text, NEW i \in 1..Len(s)
  PROVE  /\ ~(At(s, i, ToolStart(p)) /\ At(s, i, EndOf(p)))
         /\ ~(At(s, i, ToolStart(p)) /\ At(s, i, ToolResp))
         /\ ~(At(s, i, ToolResp) /\ At(s, i, EndOf(p)))
         /\ ~(At(s, i, ToolEnd(p)) /\ At(s, i, EndOf(p)))
         /\ ~(At(s, i, ToolEnd(p)) /\ At(s, i, ToolStart(p)))
         /\ \A m \in Silent(p) : At(s, i, m) => ~At(s, i, ToolStart(p)) /\ ~At(s, i, EndOf(p))
<1>1. {ToolStart(p), EndOf(p), ToolResp, ToolEnd(p)} \subseteq Tags
  BY MarkersAreTags
<1>2. Len(ToolStart(p)) >= 2 /\ Len(EndOf(p)) >= 2 /\ Len(ToolResp) >= 2 /\ Len(ToolEnd(p)) >= 2
  <2>1. /\ Len(ToolStart(p)) \in {2, 3} /\ Len(ToolResp) \in {2, 3} /\ Len(ToolEnd(p)) \in {2, 3}
    BY MarkersAreTags
  <2>2. \A n \in {2, 3} : n >= 2
    OBVIOUS
  <2> QED BY <2>1, <2>2, EndOfLength
<1>3. \A m \in Silent(p) : m = ToolResp \/ m = ToolEnd(p)
  BY DEF Silent
<1>4. /\ ~(At(s, i, ToolStart(p)) /\ At(s, i, EndOf(p)))
      /\ ~(At(s, i, ToolStart(p)) /\ At(s, i, ToolResp))
      /\ ~(At(s, i, ToolResp) /\ At(s, i, EndOf(p)))
      /\ ~(At(s, i, ToolEnd(p)) /\ At(s, i, EndOf(p)))
      /\ ~(At(s, i, ToolEnd(p)) /\ At(s, i, ToolStart(p)))
  BY <1>1, <1>2, MarkersDiffer, OneMarker
<1> QED BY <1>3, <1>4

\* A marker that stands at the front of the buffer fits in it.
LEMMA AtFront ==
  ASSUME NEW s \in Text, NEW m \in Tags, At(s, 1, m), s # <<>>
  PROVE  Len(m) <= Len(s) /\ 1 \in 1..Len(s)
<1>1. 1 \in 1..Len(s) /\ m \in Text /\ Len(m) \in Nat
  BY DEF Tags, Text
<1>2. 1 + Len(m) - 1 <= Len(s)
  BY <1>1, AtDef
<1> QED BY <1>1, <1>2 DEF Text

\* Into a tool call, and into the other mode.
LEMMA GivesEnter ==
  ASSUME NEW p \in Proper, p.family # "GPT_OSS", ~p.inTool, NEW t \in Text, NEW ended,
         p.buffer # <<>>, At(p.buffer, 1, ToolStart(p))
  PROVE  Says(With(p, t), ended) = Says(With(EnterTool(p), t), ended)
<1> DEFINE q == With(p, t)
           e == EnterTool(p)
<1>1. p \in Parsers /\ p.buffer \in Text /\ Len(p.buffer) \in Nat
  BY ParserFields DEF Proper
<1>2. ToolStart(p) \in Tags /\ ToolStart(p) \in Text /\ Len(ToolStart(p)) = 2
  BY MarkersAreTags DEF Tags
<1>3. 2 \in 0..Len(p.buffer) /\ 1 \in 1..Len(p.buffer)
  BY <1>1, <1>2, AtFront, SMTT(40)
<1>4. /\ q \in Proper /\ q \in Parsers /\ q.family = p.family /\ q.inTool = p.inTool
      /\ q.mode = p.mode /\ q.waiting = p.waiting /\ q.buffer = p.buffer \o t
  BY <1>1, WithFields, WithProper
<1>5. At(q.buffer, 1, ToolStart(q)) /\ ToolStart(q) = ToolStart(p) /\ q.buffer # <<>>
      /\ q.buffer \in Text /\ 1 \in 1..Len(q.buffer)
  <2>1. Len(p.buffer \o t) = Len(p.buffer) + Len(t) /\ Len(t) \in Nat /\ Len(<<>>) = 0
        /\ p.buffer \o t \in Text
    BY <1>1, ConcatText DEF Text
  <2>2. p.buffer \o t # <<>> /\ 1 \in 1..Len(p.buffer \o t)
    BY <1>3, <1>1, <2>1
  <2>3. ToolStart(q) = ToolStart(p)
    BY <1>4, SameMarkers
  <2> QED BY <1>1, <1>2, <1>3, <1>4, <2>1, <2>2, <2>3, AtWith
<1> HIDE DEF q
<1>6. ~q.waiting /\ ~InCall(q) /\ q.mode # "tool"
  BY <1>4 DEF Proper, InCall
<1>7. Read(q, ended) = Wait(EnterTool(q))
  <2>1. ~At(q.buffer, 1, EndOf(q)) /\ \A m \in Silent(q) : ~At(q.buffer, 1, m)
    BY <1>5, OneSign
  <2>2. ReadText(q) = Wait(EnterTool(q))
    BY <1>4, <1>5, <2>1 DEF ReadText
  <2> QED BY <1>6, <2>2 DEF Read
<1>8. /\ EnterTool(q) \in Parsers /\ EnterTool(q).family = q.family /\ EnterTool(q).inTool
      /\ EnterTool(q).mode = q.mode /\ EnterTool(q).waiting = q.waiting
      /\ EnterTool(q).buffer = Drop(q, 2).buffer
  BY <1>4, EnterToolFields
<1>9. /\ e \in Parsers /\ e.family = p.family /\ e.inTool
      /\ e.mode = p.mode /\ e.waiting = p.waiting
      /\ e.buffer = Drop(p, 2).buffer
  BY <1>1, EnterToolFields
<1>10. Drop(q, 2).buffer = Drop(p, 2).buffer \o t
  <2>1. Drop(q, 2) = With(Drop(p, 2), t)
    BY <1>1, <1>3, DropWith DEF q
  <2>2. Drop(p, 2) \in Parsers
    BY <1>1, DropFields
  <2> QED BY <2>1, <2>2, WithFields
<1> HIDE DEF e
<1>11. /\ With(e, t) \in Parsers /\ With(e, t).family = e.family /\ With(e, t).inTool = e.inTool
       /\ With(e, t).mode = e.mode /\ With(e, t).waiting = e.waiting
       /\ With(e, t).buffer = e.buffer \o t
  BY <1>9, WithFields
<1>12. /\ EnterTool(q).family = With(e, t).family /\ EnterTool(q).inTool = With(e, t).inTool
       /\ EnterTool(q).mode = With(e, t).mode /\ EnterTool(q).waiting = With(e, t).waiting
       /\ EnterTool(q).buffer = With(e, t).buffer
  BY <1>4, <1>8, <1>9, <1>10, <1>11, e.inTool \in BOOLEAN, EnterTool(q).inTool \in BOOLEAN,
     ParserFields
<1>13. EnterTool(q) = With(e, t)
  BY ONLY <1>8, <1>11, <1>12, SameParser
<1>14. Says(q, ended) = Says(EnterTool(q), ended)
  BY <1>4, <1>5, <1>7, <1>8, SaysRead
<1> QED BY <1>13, <1>14 DEF q, e

LEMMA GivesSwitch ==
  ASSUME NEW p \in Proper, p.family # "GPT_OSS", ~p.inTool, NEW t \in Text, NEW ended,
         p.buffer # <<>>, At(p.buffer, 1, EndOf(p))
  PROVE  Says(With(p, t), ended) = Says(With(Switch(p), t), ended)
<1> DEFINE q == With(p, t)
           e == Switch(p)
           n == Len(EndOf(p))
<1>1. p \in Parsers /\ p.buffer \in Text /\ Len(p.buffer) \in Nat
  BY ParserFields DEF Proper
<1>2. EndOf(p) \in Tags /\ EndOf(p) \in Text /\ n \in Nat
  BY EndOfLength DEF Tags
<1>3. n \in 0..Len(p.buffer) /\ 1 \in 1..Len(p.buffer)
  BY <1>1, <1>2, AtFront
<1>4. /\ q \in Proper /\ q \in Parsers /\ q.family = p.family /\ q.inTool = p.inTool
      /\ q.mode = p.mode /\ q.waiting = p.waiting /\ q.buffer = p.buffer \o t
  BY <1>1, WithFields, WithProper
<1>5. At(q.buffer, 1, EndOf(q)) /\ EndOf(q) = EndOf(p) /\ q.buffer # <<>> /\ q.buffer \in Text
      /\ 1 \in 1..Len(q.buffer)
  <2>1. Len(p.buffer \o t) = Len(p.buffer) + Len(t) /\ Len(t) \in Nat /\ Len(<<>>) = 0
        /\ p.buffer \o t \in Text
    BY <1>1, ConcatText DEF Text
  <2>2. p.buffer \o t # <<>> /\ 1 \in 1..Len(p.buffer \o t)
    BY <1>3, <1>1, <2>1
  <2>3. EndOf(q) = EndOf(p)
    BY <1>4, SameMarkers
  <2> QED BY <1>1, <1>2, <1>3, <1>4, <2>1, <2>2, <2>3, AtWith
<1> HIDE DEF q
<1>6. ~q.waiting /\ ~InCall(q) /\ q.mode # "tool"
  BY <1>4 DEF Proper, InCall
<1>7. Read(q, ended) = Wait(Switch(q))
  <2>1. ~At(q.buffer, 1, ToolStart(q)) /\ \A m \in Silent(q) : ~At(q.buffer, 1, m)
    BY <1>5, OneSign
  <2>2. ReadText(q) = Wait(Switch(q))
    BY <1>4, <1>5, <2>1 DEF ReadText
  <2> QED BY <1>6, <2>2 DEF Read
<1>8. /\ Switch(q) \in Parsers /\ Switch(q).family = q.family /\ Switch(q).inTool = q.inTool
      /\ Switch(q).mode = Other(q.mode) /\ Switch(q).waiting = q.waiting
      /\ Switch(q).buffer = Drop(q, n).buffer
  BY <1>4, <1>5, SwitchFields
<1>9. /\ e \in Parsers /\ e.family = p.family /\ e.inTool = p.inTool
      /\ e.mode = Other(p.mode) /\ e.waiting = p.waiting
      /\ e.buffer = Drop(p, n).buffer
  BY <1>1, SwitchFields
<1>10. Drop(q, n).buffer = Drop(p, n).buffer \o t
  <2> HIDE DEF n
  <2>1. Drop(q, n) = With(Drop(p, n), t)
    BY <1>1, <1>3, DropWith DEF q
  <2>2. Drop(p, n) \in Parsers
    BY <1>1, <1>2, DropFields
  <2> QED BY <2>1, <2>2, WithFields
<1> HIDE DEF e, n
<1>11. /\ With(e, t) \in Parsers /\ With(e, t).family = e.family /\ With(e, t).inTool = e.inTool
       /\ With(e, t).mode = e.mode /\ With(e, t).waiting = e.waiting
       /\ With(e, t).buffer = e.buffer \o t
  BY <1>9, WithFields
<1>12. /\ Switch(q).family = With(e, t).family /\ Switch(q).inTool = With(e, t).inTool
       /\ Switch(q).mode = With(e, t).mode /\ Switch(q).waiting = With(e, t).waiting
       /\ Switch(q).buffer = With(e, t).buffer
  BY <1>4, <1>8, <1>9, <1>10, <1>11
<1>13. Switch(q) = With(e, t)
  BY ONLY <1>8, <1>11, <1>12, SameParser
<1>14. Says(q, ended) = Says(Switch(q), ended)
  BY <1>4, <1>5, <1>7, <1>8, SaysRead
<1> QED BY <1>13, <1>14 DEF q, e

\* What a family passes over without a word.
LEMMA GivesSilence ==
  ASSUME NEW p \in Proper, p.family # "GPT_OSS", ~p.inTool, NEW t \in Text, NEW ended,
         NEW m \in Silent(p), p.buffer # <<>>, At(p.buffer, 1, m)
  PROVE  Says(With(p, t), ended) = Says(With(Drop(p, 2), t), ended)
<1> DEFINE q == With(p, t)
<1>1. p \in Parsers /\ p.buffer \in Text /\ Len(p.buffer) \in Nat
  BY ParserFields DEF Proper
<1>2. m \in {ToolResp, ToolEnd(p)} /\ m \in Tags /\ m \in Text /\ Len(m) = 2
  <2>1. m \in {ToolResp, ToolEnd(p)}
    BY DEF Silent
  <2> QED BY <2>1, MarkersAreTags DEF Tags
<1>3. 2 \in 0..Len(p.buffer) /\ 1 \in 1..Len(p.buffer)
  BY <1>1, <1>2, AtFront
<1>4. /\ q \in Proper /\ q \in Parsers /\ q.family = p.family /\ q.inTool = p.inTool
      /\ q.mode = p.mode /\ q.waiting = p.waiting /\ q.buffer = p.buffer \o t
  BY <1>1, WithFields, WithProper
<1>5. At(q.buffer, 1, m) /\ q.buffer # <<>> /\ q.buffer \in Text /\ 1 \in 1..Len(q.buffer)
  <2>1. Len(p.buffer \o t) = Len(p.buffer) + Len(t) /\ Len(t) \in Nat /\ Len(<<>>) = 0
        /\ p.buffer \o t \in Text
    BY <1>1, ConcatText DEF Text
  <2>2. p.buffer \o t # <<>> /\ 1 \in 1..Len(p.buffer \o t)
    BY <1>3, <1>1, <2>1
  <2> QED BY <1>1, <1>2, <1>3, <1>4, <2>1, <2>2, AtWith
<1>6. Silent(q) = Silent(p) /\ ToolEnd(q) = ToolEnd(p)
  BY <1>4, SameMarkers
<1>10. Drop(q, 2) = With(Drop(p, 2), t)
  BY <1>1, <1>3, DropWith
<1> HIDE DEF q
<1>7. ~q.waiting /\ ~InCall(q) /\ q.mode # "tool"
  BY <1>4 DEF Proper, InCall
<1>8. ~At(q.buffer, 1, ToolStart(q)) /\ ~At(q.buffer, 1, EndOf(q))
  BY <1>2, <1>5, <1>6, OneSign
<1>9. Read(q, ended) = Wait(Drop(q, 2))
  <2>1. ReadText(q) = Wait(Drop(q, 2))
    BY <1>4, <1>5, <1>6, <1>8 DEF ReadText
  <2> QED BY <1>7, <2>1 DEF Read
<1>11. Drop(q, 2) \in Parsers
  BY <1>4, DropFields
<1>12. Says(q, ended) = Says(Drop(q, 2), ended)
  BY <1>4, <1>5, <1>9, <1>11, SaysRead
<1> QED BY <1>10, <1>12 DEF q

LEMMA ToolEndsAreTags ==
  ASSUME NEW p, p.family # "GPT_OSS"
  PROVE  p.family \in {"Qwen3_5VL", "Gemma4e", "Nanbeige"} =>
           /\ ToolEnds(p) \subseteq Tags
           /\ \A m \in ToolEnds(p) : Len(m) = 2
<1>1. p.family \in {"Qwen3_5VL", "Gemma4e", "Nanbeige"} =>
        \A m \in ToolEnds(p) : m \in {ToolEnd(p), FuncEnd, ToolResp}
  BY DEF ToolEnds
<1> QED BY <1>1, MarkersAreTags

\* The first end of a call, which was called with all before it.
LEMMA GivesEndTool ==
  ASSUME NEW p \in Proper, p.family # "GPT_OSS", p.inTool, NEW t \in Text, NEW ended,
         Where(p.buffer, ToolEnds(p)) # 0
  PROVE  Gives(p, t, EndTool(p, Where(p.buffer, ToolEnds(p)), 2), ended)
<1> DEFINE q == With(p, t)
           w == Where(p.buffer, ToolEnds(p))
           n == w + 1
           a == [p EXCEPT !.inTool = FALSE]
           c == [q EXCEPT !.inTool = FALSE]
           d == [Drop(p, n) EXCEPT !.inTool = FALSE]
           x == CallEvent(p, SubSeq(p.buffer, 1, w - 1))
<1>1. /\ p \in Parsers /\ p.buffer \in Text /\ Len(p.buffer) \in Nat
      /\ p.family \in {"Qwen3_5VL", "Gemma4e", "Nanbeige"} /\ p.waiting = FALSE /\ p.mode # "tool"
  BY ParserFields DEF Proper
<1>2. ToolEnds(p) \subseteq Tags /\ \A m \in ToolEnds(p) : Len(m) = 2
  BY <1>1, ToolEndsAreTags
<1>3. w \in 1..Len(p.buffer) /\ w + 2 - 1 <= Len(p.buffer)
  <2>1. w \in 1..Len(p.buffer) /\ \E m \in ToolEnds(p) : w + Len(m) - 1 <= Len(p.buffer)
    BY <1>1, <1>2, MarkerFits
  <2>2. PICK m \in ToolEnds(p) : w + Len(m) - 1 <= Len(p.buffer)
    BY <2>1
  <2>3. Len(m) = 2
    BY <1>2
  <2> HIDE DEF w
  <2> QED BY <2>1, <2>2, <2>3
<1>4. /\ q \in Proper /\ q \in Parsers /\ q.family = p.family /\ q.inTool /\ q.mode = p.mode
      /\ q.waiting = FALSE /\ q.buffer = p.buffer \o t /\ q.buffer \in Text
  BY <1>1, WithFields, WithProper, ConcatText, ZenonT(60)
<1>5. Where(q.buffer, ToolEnds(q)) = w
  BY <1>1, <1>2, <1>4, FirstStays, SameMarkers
<1>20. n \in 0..Len(p.buffer) /\ n + 1 = w + 2 /\ w - 1 \in 0..Len(p.buffer) /\ n \in Nat
       /\ w # 0 /\ w + 2 - 1 = n
  BY <1>1, <1>3
<1>6. SubSeq(q.buffer, 1, w - 1) = SubSeq(p.buffer, 1, w - 1)
  BY <1>1, <1>4, <1>20, SplitText
<1>7. CallEvent(q, SubSeq(q.buffer, 1, w - 1)) = x
  BY <1>4, <1>6, SameMarkers
<1>8. Drop(q, n).buffer = Drop(p, n).buffer \o t
  <2> HIDE DEF n
  <2>1. Drop(q, n) = With(Drop(p, n), t) /\ Drop(p, n) \in Parsers
    BY <1>1, <1>20, DropWith, DropFields
  <2> QED BY <2>1, WithFields
<1>9. q.buffer # <<>>
  <2>1. Len(p.buffer \o t) = Len(p.buffer) + Len(t) /\ Len(t) \in Nat /\ Len(<<>>) = 0
    BY <1>1, ConcatText DEF Text
  <2> QED BY <1>1, <1>3, <1>4, <2>1
<1> HIDE DEF q
<1>10. c \in Parsers /\ c.family = q.family /\ c.mode = q.mode /\ c.waiting = FALSE
       /\ c.inTool = FALSE /\ c.buffer = q.buffer
  BY <1>4, InToolSet
<1>11. Read(q, ended) = Result(Drop(c, n), x)
  <2>1. [q EXCEPT !.inTool = FALSE, !.waiting = (q.family = "GPT_OSS")] = c
    BY <1>1, <1>4 DEF Parsers
  <2>2. ReadCall(q, ended) = Result(Drop(c, n), x)
    BY <1>1, <1>4, <1>5, <1>7, <1>20, <2>1 DEF ReadCall
  <2>3. InCall(q)
    BY <1>4 DEF InCall
  <2> QED BY <1>4, <2>2, <2>3 DEF Read
<1> HIDE DEF c, n
<1>12. /\ Drop(c, n) \in Parsers /\ Drop(c, n).family = p.family /\ Drop(c, n).mode = p.mode
       /\ Drop(c, n).waiting = FALSE /\ Drop(c, n).inTool = FALSE
       /\ Drop(c, n).buffer = SubSeq(q.buffer, n + 1, Len(q.buffer))
  <2>1. /\ Drop(c, n) \in Parsers /\ Drop(c, n).family = c.family /\ Drop(c, n).mode = c.mode
        /\ Drop(c, n).waiting = c.waiting /\ Drop(c, n).inTool = c.inTool
        /\ Drop(c, n).buffer = SubSeq(c.buffer, n + 1, Len(c.buffer))
    BY <1>10, <1>20, DropFields
  <2> QED BY ONLY <1>4, <1>10, <2>1
<1>13. Drop(q, n).buffer = SubSeq(q.buffer, n + 1, Len(q.buffer))
  BY <1>4, <1>20, DropFields
<1>14. /\ Drop(p, n) \in Parsers /\ Drop(p, n).family = p.family /\ Drop(p, n).mode = p.mode
       /\ Drop(p, n).waiting = FALSE
  BY <1>1, <1>20, DropFields
<1>15. /\ d \in Parsers /\ d.family = p.family /\ d.mode = p.mode
       /\ d.waiting = FALSE /\ d.inTool = FALSE /\ d.buffer = Drop(p, n).buffer
  BY <1>14, InToolSet
<1>16. EndTool(p, w, 2) = Result(d, x)
  BY <1>20 DEF EndTool
<1> HIDE DEF d, x
<1>17. /\ With(d, t) \in Parsers /\ With(d, t).family = p.family /\ With(d, t).mode = p.mode
       /\ With(d, t).waiting = FALSE /\ With(d, t).inTool = FALSE
       /\ With(d, t).buffer = Drop(p, n).buffer \o t
  <2>1. /\ With(d, t) \in Parsers /\ With(d, t).family = d.family /\ With(d, t).mode = d.mode
        /\ With(d, t).waiting = d.waiting /\ With(d, t).inTool = d.inTool
        /\ With(d, t).buffer = d.buffer \o t
    BY <1>15, WithFields
  <2> QED BY ONLY <1>15, <2>1
<1>18. Drop(c, n) = With(d, t)
  <2>1. /\ Drop(c, n).buffer = With(d, t).buffer
        /\ Drop(c, n).family = With(d, t).family /\ Drop(c, n).mode = With(d, t).mode
        /\ Drop(c, n).waiting = With(d, t).waiting /\ Drop(c, n).inTool = With(d, t).inTool
    BY <1>8, <1>12, <1>13, <1>17
  <2> QED BY ONLY <1>12, <1>17, <2>1, SameParser
<1>19. Says(q, ended) = x \o Says(With(d, t), ended)
  <2>1. Read(q, ended).event = x /\ Read(q, ended).parser = With(d, t)
    BY <1>11, <1>18 DEF Result
  <2> QED BY <1>4, <1>9, <2>1, SaysDef
<1>21. Says(With(p, t), ended) = x \o Says(With(d, t), ended)
  BY <1>19 DEF q
<1>22. Gives(p, t, Result(d, x), ended)
  BY <1>21, GivesDef
<1> QED BY <1>16, <1>22 DEF w

\* A call that the answer ends inside.
LEMMA GivesLastCall ==
  ASSUME NEW p \in Proper, p.family \in {"Qwen3_5VL", "Gemma4e"}, p.inTool, NEW ended, ended = TRUE,
         Where(p.buffer, ToolEnds(p)) = 0, p.buffer # <<>>
  PROVE  Gives(p, <<>>, EndTool(p, Len(p.buffer) + 1, 0), ended)
<1> DEFINE n == Len(p.buffer)
           e == [p EXCEPT !.buffer = <<>>]
           d == [Drop(p, n) EXCEPT !.inTool = FALSE]
           x == CallEvent(p, p.buffer)
<1>1. /\ p \in Parsers /\ p.buffer \in Text /\ n \in Nat /\ p.waiting = FALSE
      /\ <<>> \in Text /\ n + 1 + 0 - 1 = n /\ n + 1 - 1 = n
  <2>1. p \in Parsers /\ p.waiting = FALSE
    BY DEF Proper, Parsers
  <2>2. p.buffer \in Text /\ n \in Nat /\ <<>> \in Text
    BY <2>1, ParserFields, TextIsSaid
  <2> QED BY <2>1, <2>2
<1>2. Read(p, ended) = Result(e, x)
  <2>1. ReadCall(p, ended) = Result(e, x)
    BY DEF ReadCall
  <2>2. InCall(p)
    BY DEF InCall
  <2> QED BY <1>1, <2>1, <2>2 DEF Read
<1>3. e \in Parsers /\ e.buffer = <<>>
  BY <1>1, BufferSet
<1>4. EndTool(p, n + 1, 0) = Result(d, x)
  <2>1. SubSeq(p.buffer, 1, n) = p.buffer
    BY <1>1, SubSeqFull DEF Text
  <2> HIDE DEF n
  <2> DEFINE i == n + 1
             z == 0
             k == i + z - 1
             j == i - 1
  <2>3. k = n /\ j = n
    BY <1>1
  <2>2. EndTool(p, i, z) = Result([Drop(p, k) EXCEPT !.inTool = FALSE],
                                  CallEvent(p, SubSeq(p.buffer, 1, j)))
    <3> HIDE DEF i, z
    <3> QED BY DEF EndTool
  <2> HIDE DEF k, j
  <2> QED BY <2>1, <2>2, <2>3
<1>5. d \in Parsers /\ d.buffer = <<>>
  <2>1. Drop(p, n) \in Parsers /\ Drop(p, n).buffer = SubSeq(p.buffer, n + 1, Len(p.buffer))
    BY <1>1, DropFields
  <2>2. SubSeq(p.buffer, n + 1, Len(p.buffer)) = <<>>
    BY <1>1 DEF Text
  <2> QED BY <2>1, <2>2, InToolSet
<1>6. Says(p, ended) = x \o Says(e, ended) /\ Says(e, ended) = <<>> /\ Says(d, ended) = <<>>
  <2> HIDE DEF e, d, x
  <2>1. Read(p, ended).event = x /\ Read(p, ended).parser = e
    BY <1>2 DEF Result
  <2> QED BY <1>1, <1>3, <1>5, <2>1, SaysDef
<1> HIDE DEF e, d, x
<1>7. With(p, <<>>) = p /\ With(d, <<>>) = d
  BY <1>1, <1>5, WithFields
<1>8. Says(With(p, <<>>), ended) = x \o Says(With(d, <<>>), ended)
  BY <1>6, <1>7
<1>9. Gives(p, <<>>, Result(d, x), ended)
  BY ONLY <1>8, GivesDef
<1> QED BY <1>4, <1>9 DEF n

\* What is passed over before a result.
LEMMA GivesAfter ==
  ASSUME NEW p, NEW q, NEW t, NEW ended, NEW r,
         Says(With(p, t), ended) = Says(With(q, t), ended), Gives(q, t, r, ended)
  PROVE  Gives(p, t, r, ended)
BY DEF Gives

\* The text is at its end, when the parser is told so.
AtEnd(t, final, ended) == final => t = <<>> /\ ended = TRUE

-----------------------------------------------------------------------------
(***************************************************************************)
(* Gemma4e                                                                 *)
(***************************************************************************)
LEMMA GemmaToolGives ==
  ASSUME NEW p \in Proper, p.family = "Gemma4e", p.inTool, NEW t \in Text, NEW final, NEW ended,
         AtEnd(t, final, ended)
  PROVE  Gives(p, t, GemmaTool(p, final), ended)
<1> DEFINE w == Where(p.buffer, ToolEnds(p))
<1>1. ToolEnds(p) = {ToolEnd(p), ToolResp} /\ Len(ToolEnd(p)) = 2 /\ p \in Parsers
  BY MarkersAreTags DEF ToolEnds, Proper
<1>2. CASE w # 0
  <2>1. GemmaTool(p, final) = EndTool(p, w, 2)
    BY <1>1, <1>2 DEF GemmaTool
  <2> QED BY <1>2, <2>1, GivesEndTool
<1>3. CASE w = 0
  <2>1. GemmaTool(p, final) = EndToolFinal(p, final)
    BY <1>1, <1>3 DEF GemmaTool
  <2>2. CASE final /\ p.buffer # <<>>
    <3>1. EndToolFinal(p, final) = EndTool(p, Len(p.buffer) + 1, 0) /\ t = <<>> /\ ended = TRUE
      BY <2>2 DEF EndToolFinal, AtEnd
    <3> QED BY <1>3, <2>1, <2>2, <3>1, GivesLastCall
  <2>3. CASE ~(final /\ p.buffer # <<>>)
    <3>1. EndToolFinal(p, final) = Wait(p)
      BY <2>3 DEF EndToolFinal
    <3> QED BY <1>1, <2>1, <3>1, GivesWait
  <2> QED BY <2>2, <2>3
<1> QED BY <1>2, <1>3

LEMMA GemmaSigns ==
  ASSUME NEW p, p.family = "Gemma4e"
  PROVE  Signs(p) = GemmaMarkers(p) /\ Silent(p) = {ToolResp}
BY DEF Signs, GemmaMarkers, Silent

LEMMA GemmaReturnsGives ==
  ASSUME NEW p \in Proper, p.family = "Gemma4e", ~Passes(p), NEW t \in Text, NEW final, NEW ended,
         AtEnd(t, final, ended)
  PROVE  Gives(p, t, GemmaReturns(p, final), ended)
<1> DEFINE first == Where(p.buffer, GemmaMarkers(p))
<1>1. p \in Parsers /\ p.buffer \in Text /\ Len(p.buffer) \in Nat
  BY ParserFields DEF Proper
<1>2. GemmaMarkers(p) \subseteq Tags /\ GemmaMarkers(p) \subseteq Text /\ GemmaMarkers(p) # {}
  BY MarkersAreTags DEF GemmaMarkers, Tags
<1>3. first \in 0..Len(p.buffer)
  BY <1>1, WhereDef
<1>4. CASE p.inTool
  BY <1>4, GemmaToolGives DEF GemmaReturns
<1>5. CASE ~p.inTool /\ first = 1
  <2>1. At(p.buffer, 1, ToolStart(p))
    BY <1>5 DEF Passes
  <2>2. EnterTool(p) \in Proper /\ EnterTool(p).family = "Gemma4e" /\ EnterTool(p).inTool
    BY <1>1, EnterToolFields
  <2>3. p.buffer # <<>>
    BY <1>1, <1>5, FoundInSomething
  <2>4. Says(With(p, t), ended) = Says(With(EnterTool(p), t), ended)
    BY <1>5, <2>1, <2>3, GivesEnter
  <2>5. Gives(EnterTool(p), t, GemmaTool(EnterTool(p), final), ended)
    BY <2>2, GemmaToolGives
  <2>6. GemmaReturns(p, final) = GemmaTool(EnterTool(p), final)
    BY <1>5 DEF GemmaReturns
  <2> QED BY <2>4, <2>5, <2>6, GivesAfter
<1>6. CASE ~p.inTool /\ first > 1
  <2>1. GemmaReturns(p, final) = Keep(p, first)
    BY <1>6 DEF GemmaReturns
  <2>2. \A j \in 1..first - 1, m \in Signs(p) : ~At(p.buffer \o t, j, m)
    BY <1>1, <1>2, <1>6, FirstStays, GemmaSigns
  <2>3. first \in 1..Len(p.buffer) + 1
    BY <1>1, <1>3, <1>6
  <2> HIDE DEF first
  <2> QED BY <1>6, <2>1, <2>2, <2>3, GivesKeep
<1>7. CASE ~p.inTool /\ first = 0
  <2>1. GemmaReturns(p, final) = HoldPartial(p, GemmaMarkers(p))
    BY <1>7 DEF GemmaReturns
  <2>2. PICK i \in 1..Len(p.buffer) + 1 :
          /\ HoldPartial(p, GemmaMarkers(p)) = Keep(p, i)
          /\ \A j \in 1..i - 1, m \in GemmaMarkers(p) :
               ~IsPrefix(SubSeq(p.buffer, j, Len(p.buffer)), m)
    BY <1>1, <1>2, HoldPartialDef
  <2>3. ASSUME NEW j \in 1..i - 1, NEW m \in Signs(p), At(p.buffer \o t, j, m)
        PROVE  FALSE
    <3>1. j \in 1..Len(p.buffer) /\ m \in GemmaMarkers(p) /\ m \in Text
      BY <1>1, <1>2, GemmaSigns
    <3>2. ~At(p.buffer, j, m)
      BY <1>1, <1>7, <3>1, WhereDef
    <3>3. IsPrefix(SubSeq(p.buffer, j, Len(p.buffer)), m)
      BY <1>1, <2>3, <3>1, <3>2, AtWith
    <3> QED BY <2>2, <3>1, <3>3
  <2>4. Gives(p, t, Keep(p, i), ended)
    BY <1>7, <2>3, GivesKeep
  <2> QED BY <2>1, <2>2, <2>4
<1> QED BY <1>1, <1>3, <1>4, <1>5, <1>6, <1>7

LEMMA PassedGives ==
  ASSUME NEW p \in Proper, p.family = "Gemma4e", Passes(p), NEW t \in Text, NEW ended
  PROVE  Says(With(p, t), ended) = Says(With(Passed(p), t), ended)
<1>1. p \in Parsers /\ p.buffer \in Text /\ p.buffer # <<>> /\ ~p.inTool
  BY ParserFields, FoundInSomething DEF Proper, Passes
<1>2. \E m \in {ToolResp, EndOf(p)} : At(p.buffer, 1, m)
  <2>1. Where(p.buffer, GemmaMarkers(p)) = 1
    BY DEF Passes
  <2>2. \E m \in GemmaMarkers(p) : At(p.buffer, 1, m)
    BY <1>1, <2>1, WhereDef
  <2> QED BY <2>2 DEF Passes, GemmaMarkers
<1>3. CASE At(p.buffer, 1, ToolResp)
  <2>1. Passed(p) = Drop(p, 2)
    BY <1>3, MarkersAreTags DEF Passed
  <2> QED BY <1>1, <1>3, <2>1, GivesSilence, GemmaSigns
<1>4. CASE ~At(p.buffer, 1, ToolResp)
  <2>1. Passed(p) = Switch(p) /\ At(p.buffer, 1, EndOf(p))
    BY <1>2, <1>4 DEF Passed
  <2> QED BY <1>1, <2>1, GivesSwitch
<1> QED BY <1>3, <1>4

\* Gemma4e's parser, with whatever it holds and whatever comes.
LEMMA GemmaGives ==
  ASSUME NEW p \in Proper, p.family = "Gemma4e", NEW t \in Text, NEW final, NEW ended,
         AtEnd(t, final, ended)
  PROVE  Gives(p, t, GemmaStep(p, final), ended)
<1> DEFINE G == {q \in Parsers : q \in Proper /\ q.family = "Gemma4e" =>
                                   Gives(q, t, GemmaStep(q, final), ended)}
<1>1. ASSUME NEW q \in Parsers, \A u \in Parsers : Held[u] < Held[q] => u \in G
      PROVE  q \in G
  <2>1. SUFFICES ASSUME q \in Proper, q.family = "Gemma4e"
                 PROVE  Gives(q, t, GemmaStep(q, final), ended)
    OBVIOUS
  <2>2. CASE Passes(q)
    <3>1. Passed(q) \in Parsers /\ Passed(q) \in Proper /\ Passed(q).family = "Gemma4e"
      BY <2>1, PassedFields
    <3>2. Held[Passed(q)] < Held[q]
      BY <2>2, PassedIsLess
    <3>3. Gives(Passed(q), t, GemmaStep(Passed(q), final), ended)
      BY <1>1, <3>1, <3>2
    <3>4. GemmaStep(q, final) = GemmaStep(Passed(q), final)
      BY <2>2, GemmaLoop
    <3>5. Says(With(q, t), ended) = Says(With(Passed(q), t), ended)
      BY <2>1, <2>2, PassedGives
    <3> QED BY <3>3, <3>4, <3>5, GivesAfter
  <2>3. CASE ~Passes(q)
    <3>1. GemmaStep(q, final) = GemmaReturns(q, final)
      BY <2>3, GemmaLoop
    <3> QED BY <2>1, <2>3, <3>1, GemmaReturnsGives
  <2> QED BY <2>2, <2>3
<1>2. Parsers \subseteq G
  <2> HIDE DEF G
  <2> QED BY <1>1, HeldDef, MeasureSet
<1> QED BY <1>2 DEF Proper

-----------------------------------------------------------------------------
(***************************************************************************)
(* What an answer that goes on says begins with what it says so far.         *)
(***************************************************************************)
LEMMA PrefixGoesOn ==
  ASSUME NEW e \in Seq(Events), NEW a \in Seq(Events), NEW b \in Seq(Events), IsPrefix(a, b)
  PROVE  IsPrefix(e \o a, e \o b)
<1> DEFINE n == Len(a)
           c == SubSeq(b, n + 1, Len(b))
<1>1. n \in Nat /\ Len(b) \in Nat /\ n <= Len(b) /\ SubSeq(a, 1, n) = SubSeq(b, 1, n)
  BY DEF IsPrefix
<1>2. a = SubSeq(b, 1, n)
  <2>1. SubSeq(a, 1, Len(a)) = a
    BY SubSeqFull
  <2> QED BY <1>1, <2>1
<1>3. c \in Seq(Events)
  <2>1. \A i \in n + 1..Len(b) : b[i] \in Events
    BY <1>1
  <2> HIDE DEF n
  <2> QED BY <1>1, <2>1, SubSeqProperties
<1>4. SubSeq(b, 1, n) \o c = b
  <2>1. SubSeq(b, 1, Len(b)) = b
    BY SubSeqFull
  <2>2. 1 \in 1..Len(b) + 1 /\ n \in 1 - 1..Len(b) /\ Len(b) \in n..Len(b)
    BY <1>1
  <2> HIDE DEF n
  <2>3. SubSeq(b, 1, n) \o SubSeq(b, n + 1, Len(b)) = SubSeq(b, 1, Len(b))
    BY <2>2, ConcatAdjacentSubSeq
  <2> QED BY <2>1, <2>3
<1> HIDE DEF n, c
<1>5. (e \o a) \o c = e \o (a \o c)
  BY <1>3, ConcatAssociative
<1>8. a \o c = b
  BY <1>2, <1>4
<1>6. e \o a \in Seq(Events)
  BY ConcatProperties
<1>7. IsPrefix(e \o a, (e \o a) \o c)
  BY <1>3, <1>6, PrefixOfConcat
<1> QED BY <1>5, <1>7, <1>8

LEMMA SaysGrows ==
  ASSUME NEW p \in Parsers
  PROVE  IsPrefix(Says(p, FALSE), Says(p, TRUE))
<1> DEFINE G == {q \in Parsers : IsPrefix(Says(q, FALSE), Says(q, TRUE))}
<1>1. \A s \in Seq(Events) : IsPrefix(<<>>, s)
  BY DEF IsPrefix
<1>2. ASSUME NEW q \in Parsers, \A u \in Parsers : Held[u] < Held[q] => u \in G
      PROVE  q \in G
  <2>1. Says(q, TRUE) \in Seq(Events)
    BY SaysDef
  <2>2. CASE q.buffer = <<>>
    BY <1>1, <2>1, <2>2, SaysDef
  <2>3. CASE q.buffer # <<>>
    <3> DEFINE r == Read(q, FALSE)
               u == Read(q, TRUE)
    <3>1. /\ Says(q, FALSE) = r.event \o Says(r.parser, FALSE)
          /\ Says(q, TRUE) = u.event \o Says(u.parser, TRUE)
      BY <2>3, SaysDef
    <3>2. /\ r.parser \in Parsers /\ r.event \in Seq(Events) /\ Held[r.parser] < Held[q]
          /\ u.parser \in Parsers /\ u.event \in Seq(Events)
      BY <2>3, ReadFields, HeldDef DEF Ahead
    <3>3. CASE r = u
      <4>1. r.parser \in G
        BY <1>2, <3>2
      <4>2. Says(r.parser, FALSE) \in Seq(Events) /\ Says(r.parser, TRUE) \in Seq(Events)
        BY <3>2, SaysDef
      <4> HIDE DEF r, u
      <4>3. IsPrefix(r.event \o Says(r.parser, FALSE), r.event \o Says(r.parser, TRUE))
        BY <3>2, <4>1, <4>2, PrefixGoesOn
      <4> QED BY <3>1, <3>3, <4>3
    <3>4. CASE r # u
      <4>1. ~q.waiting /\ InCall(q)
        BY <3>4 DEF Read
      <4>2. Where(q.buffer, ToolEnds(q)) = 0 /\ ReadCall(q, FALSE) = Result([q EXCEPT !.buffer = <<>>], <<>>)
        BY <3>4, <4>1 DEF Read, ReadCall
      <4>3. r = Result([q EXCEPT !.buffer = <<>>], <<>>)
        BY <4>1, <4>2 DEF Read
      <4> DEFINE o == [q EXCEPT !.buffer = <<>>]
      <4>4. o \in Parsers /\ o.buffer = <<>>
        BY TextIsSaid, BufferSet
      <4>9. Result(o, <<>>).event = <<>> /\ Result(o, <<>>).parser = o
        BY DEF Result
      <4>5. r.event = <<>> /\ r.parser = o
        BY <4>3, <4>9
      <4> HIDE DEF r, u, o
      <4>6. Says(o, FALSE) = <<>>
        BY <4>4, SaysDef
      <4>7. <<>> \o <<>> = <<>> /\ <<>> \in Seq(Events)
        BY TextIsSaid, ConcatEmptySeq
      <4>8. Says(q, FALSE) = <<>>
        BY <3>1, <4>5, <4>6, <4>7
      <4> QED BY <1>1, <2>1, <4>8
    <3> QED BY <3>3, <3>4
  <2> QED BY <2>2, <2>3
<1>3. Parsers \subseteq G
  <2> HIDE DEF G
  <2> QED BY <1>2, HeldDef, MeasureSet
<1> QED BY <1>3

-----------------------------------------------------------------------------
(***************************************************************************)
(* GPT_OSS                                                                 *)
(***************************************************************************)

\* Where a section ends.
LEMMA EndDef ==
  ASSUME NEW s \in Text
  PROVE  /\ Where(s, {End}) \in 0..Len(s)
         /\ \A i \in 1..Len(s) : At(s, i, End) <=> s[i] = "<|end|>"
         /\ Where(s, {End}) # 0 => s[Where(s, {End})] = "<|end|>"
         /\ \A i \in 1..Len(s) : s[i] = "<|end|>" => Where(s, {End}) # 0 /\ Where(s, {End}) <= i
<1>1. ASSUME NEW i \in 1..Len(s)
      PROVE  At(s, i, End) <=> s[i] = "<|end|>"
  <2>1. At(s, i, End) <=> i + Len(End) - 1 <= Len(s) /\ \A k \in 1..Len(End) : s[i + k - 1] = End[k]
    BY HeadersAreText, AtDef
  <2>2. Len(End) = 1 /\ End[1] = "<|end|>" /\ i + 1 - 1 = i /\ i <= Len(s)
    BY HeadersAreText DEF Text
  <2>3. 1..1 = {1}
    OBVIOUS
  <2>4. At(s, i, End) <=> i + 1 - 1 <= Len(s) /\ \A k \in {1} : s[i + k - 1] = End[k]
    BY <2>1, <2>2, <2>3
  <2> QED BY <2>2, <2>4
<1>2. /\ Where(s, {End}) \in 0..Len(s)
      /\ Where(s, {End}) # 0 => At(s, Where(s, {End}), End)
      /\ \A i \in 1..Len(s) : At(s, i, End) => Where(s, {End}) # 0 /\ Where(s, {End}) <= i
  BY WhereDef
<1>3. Where(s, {End}) # 0 => Where(s, {End}) \in 1..Len(s)
  BY <1>2 DEF Text
<1> QED BY <1>1, <1>2, <1>3

\* Where a header is.
LEMMA HeaderDef ==
  ASSUME NEW s \in Text, NEW i \in 1..Len(s), NEW m \in Headers, At(s, i, m)
  PROVE  i + 1 <= Len(s) /\ s[i] = Assistant /\ s[i + 1] \in {"analysis", "final", "commentary"}
<1>1. /\ m \in Text /\ Len(m) = 2 /\ m[1] = Assistant
      /\ m[2] \in {"analysis", "final", "commentary"}
  <2>1. PICK u \in DOMAIN Header : m = Header[u]
    BY HeadersAreText
  <2>2. Header[u][2] \in {"analysis", "final", "commentary"}
    BY DEF Header
  <2> QED BY <2>1, <2>2, HeadersAreText
<1>2. i + 2 - 1 <= Len(s) /\ \A k \in 1..2 : s[i + k - 1] = m[k]
  <2>1. i + Len(m) - 1 <= Len(s) /\ \A k \in 1..Len(m) : s[i + k - 1] = m[k]
    BY <1>1, AtDef
  <2> QED BY <1>1, <2>1
<1>3. 1 \in 1..2 /\ 2 \in 1..2 /\ i + 1 - 1 = i /\ i + 2 - 1 = i + 1
  BY DEF Text
<1>4. s[i] = m[1] /\ s[i + 1] = m[2]
  BY <1>2, <1>3
<1> QED BY <1>1, <1>2, <1>3, <1>4

\* The headers and the end are told apart.
LEMMA HeadersDiffer ==
  /\ "<|end|>" \notin {"analysis", "final", "commentary"} /\ Assistant # "<|end|>"
  /\ Assistant \notin {"analysis", "final", "commentary"}
BY DEF Assistant

\* What a parser of GPT_OSS holds between two calls: no header while it waits for one,
\* nothing in a section of text, and in a call no end of it.
Settled(p) ==
  /\ p.waiting => Where(p.buffer, Headers) = 0
  /\ ~p.waiting /\ p.mode = "tool" => EndAt(p) = 0
  /\ ~p.waiting /\ p.mode # "tool" => p.buffer = <<>>

\* The end of a section is a token of its own.
EndsAlone(c) == c = End \/ \A i \in 1..Len(c) : c[i] # "<|end|>"

\* A section of text without an end: all is given.
LEMMA SectionGives ==
  ASSUME NEW p \in Proper, p.family = "GPT_OSS", ~p.waiting, p.mode # "tool", EndAt(p) = 0,
         NEW t \in Text, NEW ended
  PROVE  Gives(p, t, Result([p EXCEPT !.buffer = <<>>], Tagged(p.mode, p.buffer)), ended)
<1> DEFINE u == With(p, t)
           n == Len(p.buffer)
           e == [p EXCEPT !.buffer = <<>>]
<1>1. p \in Parsers /\ p.buffer \in Text /\ n \in Nat /\ ~p.inTool /\ <<>> \in Text
  <2>1. p \in Parsers /\ ~p.inTool
    BY DEF Proper
  <2> QED BY <2>1, ParserFields, TextIsSaid
<1>2. /\ u \in Parsers /\ u.family = p.family /\ u.mode = p.mode /\ u.inTool = p.inTool
      /\ u.waiting = p.waiting /\ u.buffer = p.buffer \o t
  BY <1>1, WithFields
<1>3. /\ Len(u.buffer) = n + Len(t) /\ Len(t) \in Nat /\ \A k \in 1..n : u.buffer[k] = p.buffer[k]
      /\ u.buffer \in Text
  BY <1>1, <1>2, ConcatText DEF Text
<1>4. \A k \in 1..n : u.buffer[k] # "<|end|>"
  BY <1>1, <1>3, EndDef DEF EndAt
<1>5. Drop(u, n) = With(Drop(p, n), t)
  <2>1. n \in 0..Len(p.buffer)
    BY <1>1
  <2> HIDE DEF n
  <2> QED BY <1>1, <2>1, DropWith
<1>6. SubSeq(u.buffer, 1, n) = p.buffer
  <2>1. n \in 0..Len(p.buffer) /\ SubSeq(p.buffer, 1, Len(p.buffer)) = p.buffer
    BY <1>1, SubSeqFull DEF Text
  <2>2. SubSeq(p.buffer \o t, 1, n) = SubSeq(p.buffer, 1, n)
    BY <1>1, <2>1, SplitText
  <2> QED BY <1>2, <2>1, <2>2
<1>7. Drop(p, n) = e
  <2>1. SubSeq(p.buffer, n + 1, Len(p.buffer)) = <<>>
    BY <1>1 DEF Text
  <2> QED BY <2>1 DEF Drop
<1> HIDE DEF u, n, e
<1>8. ASSUME NEW i \in 0..n - 1
      PROVE  Read(Drop(u, i), ended) = Result(Drop(u, i + 1), <<<<u.mode, u.buffer[i + 1]>>>>)
  <2> DEFINE d == Drop(u, i)
  <2>1. i \in Nat /\ i \in 0..Len(u.buffer) /\ i + 1 \in 1..n /\ i + 1 \in 1..Len(u.buffer) /\ i <= Len(u.buffer)
    BY <1>1, <1>3
  <2>2. /\ d \in Parsers /\ d.family = u.family /\ d.inTool = u.inTool /\ d.mode = u.mode
        /\ d.waiting = u.waiting /\ d.buffer = SubSeq(u.buffer, i + 1, Len(u.buffer))
    BY <1>2, <2>1, DropFields
  <2>3. ~At(d.buffer, 1, End)
    BY <1>2, <1>3, <1>4, <2>1, AtDrop, EndDef
  <2>4. Drop(d, 1) = Drop(u, i + 1)
    BY <1>2, <2>1, DropDrop
  <2>5. d.buffer[1] = u.buffer[i + 1]
    <3>1. Len(SubSeq(u.buffer, i + 1, Len(u.buffer))) = Len(u.buffer) - i
          /\ \A k \in 1..Len(SubSeq(u.buffer, i + 1, Len(u.buffer))) :
               SubSeq(u.buffer, i + 1, Len(u.buffer))[k] = u.buffer[i + k]
      BY <1>3, <2>1, EndOfText
    <3>2. 1 \in 1..Len(SubSeq(u.buffer, i + 1, Len(u.buffer)))
      BY <1>1, <1>3, <2>1, <3>1
    <3> QED BY <2>2, <3>1, <3>2
  <2> HIDE DEF d
  <2>6. ~d.waiting /\ ~InCall(d)
    BY <1>1, <1>2, <2>2 DEF InCall
  <2>7. ReadText(d) = Result(Drop(d, 1), <<<<d.mode, d.buffer[1]>>>>)
    BY <1>2, <2>2, <2>3 DEF ReadText
  <2>8. Read(d, ended) = Result(Drop(d, 1), <<<<d.mode, d.buffer[1]>>>>)
    BY <2>6, <2>7 DEF Read
  <2> QED BY <2>2, <2>4, <2>5, <2>8 DEF d
<1>9. Says(u, ended) = Tagged(u.mode, SubSeq(u.buffer, 1, n)) \o Says(Drop(u, n), ended)
  <2>1. n \in 0..Len(u.buffer)
    BY <1>1, <1>3
  <2> QED BY <1>2, <1>8, <2>1, TextRun
<1>10. Says(With(p, t), ended) = Tagged(p.mode, p.buffer) \o Says(With(e, t), ended)
  <2>1. Says(u, ended) = Tagged(p.mode, p.buffer) \o Says(With(e, t), ended)
    BY <1>2, <1>5, <1>6, <1>7, <1>9
  <2> QED BY <2>1 DEF u
<1> QED BY <1>10, GivesDef DEF e

\* A parser that waits reads over what begins no header, without a word.
LEMMA WaitRun ==
  ASSUME NEW p \in Proper, p.waiting, NEW ended, NEW n \in 0..Len(p.buffer),
         \A i \in 1..n, u \in DOMAIN Header : ~At(p.buffer, i, Header[u])
  PROVE  Says(p, ended) = Says(Drop(p, n), ended)
<1> DEFINE S == {k \in Nat : k <= n => Says(p, ended) = Says(Drop(p, k), ended)}
<1>1. /\ p \in Parsers /\ p.buffer \in Text /\ Len(p.buffer) \in Nat /\ n \in Nat
      /\ n <= Len(p.buffer)
  <2>1. p \in Parsers /\ p.buffer \in Text /\ Len(p.buffer) \in Nat
    BY ParserFields DEF Proper
  <2> QED BY <2>1
<1>2. 0 \in S
  BY <1>1, DropNothing
<1>3. ASSUME NEW k \in Nat, k \in S
      PROVE  k + 1 \in S
  <2>1. SUFFICES ASSUME k + 1 <= n
                 PROVE  Says(p, ended) = Says(Drop(p, k + 1), ended)
    BY <1>3
  <2>2. /\ k \in 0..Len(p.buffer) /\ k + 1 \in 1..n /\ k <= n /\ k < Len(p.buffer)
        /\ k <= Len(p.buffer) /\ k + 1 \in Nat
    BY <1>1, <2>1
  <2> DEFINE d == Drop(p, k)
  <2>3. d \in Parsers /\ d.waiting /\ Len(d.buffer) = Len(p.buffer) - k /\ d.inTool = p.inTool
    BY <1>1, <2>2, DropFields
  <2>4. d.buffer # <<>>
    <3>1. Len(d.buffer) # 0 /\ Len(<<>>) = 0
      BY <1>1, <2>2, <2>3
    <3> QED BY <3>1
  <2>5. \A u \in DOMAIN Header : ~At(d.buffer, 1, Header[u])
    BY <1>1, <2>2, AtDrop
  <2>6. Drop(d, 1) = Drop(p, k + 1)
    BY <1>1, <2>2, DropDrop
  <2>11. ~InCall(d)
    BY <2>3 DEF InCall, Proper
  <2> HIDE DEF d
  <2>7. Read(d, ended) = Wait(Drop(p, k + 1))
    BY <2>3, <2>5, <2>6, <2>11 DEF Read, ReadHeader
  <2>8. Drop(p, k + 1) \in Parsers
    BY <1>1, <2>2, DropFields
  <2>9. Says(d, ended) = Says(Drop(p, k + 1), ended)
    BY <2>3, <2>4, <2>7, <2>8, SaysRead
  <2>10. Says(p, ended) = Says(d, ended)
    BY <1>3, <2>2 DEF d
  <2> QED BY <2>9, <2>10
<1>4. n \in S
  <2> HIDE DEF S
  <2> QED BY <1>1, <1>2, <1>3, NatSet
<1> QED BY <1>1, <1>4

\* No two headers stand at one place.
LEMMA OneHeader ==
  ASSUME NEW s \in Text, NEW i \in 1..Len(s), NEW u \in DOMAIN Header, NEW v \in DOMAIN Header,
         At(s, i, Header[u]), At(s, i, Header[v])
  PROVE  u = v
<1>1. Header[u] \in Text /\ Len(Header[u]) = 2 /\ Header[v] \in Text /\ Len(Header[v]) = 2
  BY HeadersAreText
<1>2. 2 \in 1..2
  OBVIOUS
<1>3. Header[u][2] = Header[v][2]
  <2>1. /\ \A k \in 1..Len(Header[u]) : s[i + k - 1] = Header[u][k]
        /\ \A k \in 1..Len(Header[v]) : s[i + k - 1] = Header[v][k]
    BY <1>1, AtDef
  <2>2. 2 \in 1..Len(Header[u]) /\ 2 \in 1..Len(Header[v])
    BY <1>1, <1>2
  <2>3. s[i + 2 - 1] = Header[u][2] /\ s[i + 2 - 1] = Header[v][2]
    BY <2>1, <2>2
  <2> QED BY <2>3
<1>4. u \in {"reasoning", "content", "tool"} /\ v \in {"reasoning", "content", "tool"}
  BY HeadersAreText
<1>5. /\ Header["reasoning"][2] = "analysis" /\ Header["content"][2] = "final"
      /\ Header["tool"][2] = "commentary"
  BY DEF Header
<1> QED BY <1>3, <1>4, <1>5

\* What stands in a text stands there when the text goes on.
LEMMA AtFirst ==
  ASSUME NEW s \in Text, NEW t \in Text, NEW i \in 1..Len(s), NEW m \in Text, i + Len(m) - 1 <= Len(s)
  PROVE  At(s \o t, i, m) <=> At(s, i, m)
<1>1. Len(s) \in Nat /\ Len(m) \in Nat
  BY DEF Text
<1> QED BY <1>1, AtWith

\* The first header is the first, whatever follows.
LEMMA HeaderStays ==
  ASSUME NEW s \in Text, NEW t \in Text, Where(s, Headers) # 0
  PROVE  /\ Where(s \o t, Headers) = Where(s, Headers)
         /\ \A i \in 1..Where(s, Headers) - 1, u \in DOMAIN Header : ~At(s \o t, i, Header[u])
<1> DEFINE w == Where(s, Headers)
           v == Where(s \o t, Headers)
<1>1. /\ Len(s) \in Nat /\ Len(t) \in Nat /\ s \o t \in Text /\ Len(s \o t) = Len(s) + Len(t)
  BY ConcatText DEF Text
<1>2. /\ w \in 0..Len(s) /\ (w # 0 => \E m \in Headers : At(s, w, m))
      /\ \A i \in 1..Len(s), m \in Headers : At(s, i, m) => w # 0 /\ w <= i
  BY WhereDef
<1>3. /\ v \in 0..Len(s \o t) /\ (v # 0 => \E m \in Headers : At(s \o t, v, m))
      /\ \A i \in 1..Len(s \o t), m \in Headers : At(s \o t, i, m) => v # 0 /\ v <= i
  BY <1>1, WhereDef
<1>4. w \in 1..Len(s) /\ w # 0
  BY <1>1, <1>2
<1>5. PICK h \in Headers : At(s, w, h)
  BY <1>2, <1>4
<1>6. \A m \in Headers : m \in Text /\ Len(m) = 2
  BY HeadersAreText
<1>7. w + 1 <= Len(s)
  BY <1>4, <1>5, HeaderDef
<1> HIDE DEF w, v
<1>8. ASSUME NEW i \in 1..Len(s), i <= w, NEW m \in Headers
      PROVE  At(s \o t, i, m) <=> At(s, i, m)
  <2>1. m \in Text /\ Len(m) = 2
    BY <1>6
  <2>2. i + Len(m) - 1 <= Len(s)
    BY <1>1, <1>4, <1>7, <1>8, <2>1
  <2> QED BY <2>1, <2>2, AtFirst
<1>9. v # 0 /\ v <= w
  <2>1. At(s \o t, w, h) /\ w \in 1..Len(s \o t)
    BY <1>1, <1>4, <1>5, <1>8
  <2> QED BY <1>3, <2>1
<1>10. v = w
  <2>1. v \in 1..Len(s) /\ v <= w
    BY <1>1, <1>3, <1>4, <1>9
  <2>2. PICK m \in Headers : At(s \o t, v, m)
    BY <1>3, <1>9
  <2>3. At(s, v, m)
    BY <1>8, <2>1, <2>2
  <2>4. w <= v
    BY <1>2, <2>1, <2>3
  <2> QED BY <1>4, <2>1, <2>4
<1>11. \A i \in 1..w - 1, u \in DOMAIN Header : ~At(s \o t, i, Header[u])
  <2>1. ASSUME NEW i \in 1..w - 1, NEW u \in DOMAIN Header, At(s \o t, i, Header[u])
        PROVE  FALSE
    <3>1. i \in 1..Len(s) /\ i <= w /\ i < w
      BY <1>1, <1>4
    <3>2. Header[u] \in Headers
      BY DEF Headers
    <3>3. At(s, i, Header[u])
      BY <1>8, <2>1, <3>1, <3>2
    <3>4. w <= i
      BY <1>2, <3>1, <3>2, <3>3
    <3> QED BY <1>4, <3>1, <3>4
  <2> QED BY <2>1
<1> QED BY <1>10, <1>11 DEF w, v

\* A parser goes on with the section that the first header begins.
LEMMA GivesSection ==
  ASSUME NEW p \in Proper, p.waiting, Where(p.buffer, Headers) # 0, NEW t \in Text, NEW ended
  PROVE  Says(With(p, t), ended) = Says(With(EnterSection(p), t), ended)
<1> DEFINE q == With(p, t)
           w == Where(p.buffer, Headers)
           k == w - 1
           d == Drop(q, k)
           s == EnterSection(p)
           e == EnterSection(d)
<1>1. p \in Parsers /\ p.buffer \in Text /\ Len(p.buffer) \in Nat
  BY ParserFields DEF Proper
<1>2. /\ q \in Parsers /\ q.buffer = p.buffer \o t /\ q.waiting /\ q.family = p.family
      /\ q.inTool = p.inTool /\ q.mode = p.mode /\ q \in Proper
  BY <1>1, WithFields, WithProper
<1>3. /\ s \in Parsers /\ s.family = p.family /\ s.inTool = p.inTool
      /\ ~s.waiting /\ s.mode \in DOMAIN Header /\ At(p.buffer, w, Header[s.mode])
      /\ w \in 1..Len(p.buffer) /\ s.buffer = SubSeq(p.buffer, w + 2, Len(p.buffer))
  BY <1>1, EnterSectionFields
<1>4. q.buffer \in Text /\ Len(q.buffer) = Len(p.buffer) + Len(t) /\ Len(t) \in Nat
  BY <1>1, <1>2, ConcatText DEF Text
<1>5. w + 1 <= Len(p.buffer) /\ w \in 1..Len(p.buffer)
  <2>1. \E m \in Headers : At(p.buffer, w, m)
    BY <1>3 DEF Headers
  <2> QED BY <1>1, <1>3, <2>1, HeaderDef
<1>6. \A i \in 1..w - 1, u \in DOMAIN Header : ~At(q.buffer, i, Header[u])
  BY <1>1, <1>2, HeaderStays
<1>7. At(q.buffer, w, Header[s.mode])
  BY <1>1, <1>2, <1>3, AtWith, HeadersAreText
<1> HIDE DEF w, s, q
<1>8. k \in 0..Len(q.buffer) /\ k + 1 = w /\ w \in 1..Len(q.buffer) /\ k < Len(q.buffer) /\ k \in Nat
  BY <1>1, <1>4, <1>5
<1>9. Says(q, ended) = Says(d, ended)
  <2>1. \A i \in 1..k, u \in DOMAIN Header : ~At(q.buffer, i, Header[u])
    BY <1>6
  <2> HIDE DEF k
  <2> QED BY <1>2, <1>8, <2>1, WaitRun
<1> HIDE DEF k
<1>10. /\ d \in Parsers /\ d.family = q.family /\ d.inTool = q.inTool /\ d.waiting
       /\ d.buffer = SubSeq(q.buffer, k + 1, Len(q.buffer)) /\ Len(d.buffer) = Len(q.buffer) - k
       /\ d.buffer \in Text
  <2>1. k <= Len(q.buffer)
    BY <1>4, <1>8
  <2>2. /\ d \in Parsers /\ d.family = q.family /\ d.inTool = q.inTool /\ d.waiting = q.waiting
        /\ d.buffer = SubSeq(q.buffer, k + 1, Len(q.buffer)) /\ Len(d.buffer) = Len(q.buffer) - k
    BY <1>2, <1>8, <2>1, DropFields
  <2> HIDE DEF d
  <2>3. d.buffer \in Text
    BY <2>2, ParserFields
  <2> QED BY <1>2, <2>2, <2>3
<1>11. At(d.buffer, 1, Header[s.mode])
  <2>1. At(q.buffer, k + 1, Header[s.mode])
    BY <1>7, <1>8
  <2> QED BY <1>2, <1>8, <2>1, AtDrop
<1>12. d.buffer # <<>> /\ 1 \in 1..Len(d.buffer) /\ Len(d.buffer) \in Nat
  <2>1. Len(d.buffer) \in Nat /\ Len(d.buffer) >= 1 /\ Len(<<>>) = 0
    BY <1>4, <1>8, <1>10
  <2> QED BY <2>1
<1>13. Where(d.buffer, Headers) = 1
  <2>1. Header[s.mode] \in Headers
    BY <1>3 DEF Headers
  <2>2. /\ Where(d.buffer, Headers) \in 0..Len(d.buffer)
        /\ Where(d.buffer, Headers) # 0 /\ Where(d.buffer, Headers) <= 1
    BY <1>10, <1>11, <1>12, <2>1, WhereDef
  <2> QED BY <1>12, <2>2
<1>14. /\ e \in Parsers /\ e.family = d.family /\ e.inTool = d.inTool
       /\ ~e.waiting /\ e.mode \in DOMAIN Header /\ At(d.buffer, 1, Header[e.mode])
       /\ e.buffer = SubSeq(d.buffer, 1 + 2, Len(d.buffer))
  <2>1. Where(d.buffer, Headers) # 0
    BY <1>13
  <2> HIDE DEF d
  <2>2. /\ e \in Parsers /\ e.family = d.family /\ e.inTool = d.inTool
        /\ ~e.waiting /\ e.mode \in DOMAIN Header
        /\ At(d.buffer, Where(d.buffer, Headers), Header[e.mode])
        /\ e.buffer = SubSeq(d.buffer, Where(d.buffer, Headers) + 2, Len(d.buffer))
    BY <1>10, <2>1, EnterSectionFields
  <2> HIDE DEF e
  <2> QED BY <1>13, <2>2
<1>15. e.mode = s.mode
  BY <1>3, <1>10, <1>11, <1>12, <1>14, OneHeader
<1>16. e.buffer = s.buffer \o t
  <2>1. Drop(d, 2) = Drop(q, k + 2)
    BY <1>2, <1>8, DropDrop
  <2>2. Drop(d, 2).buffer = SubSeq(d.buffer, 2 + 1, Len(d.buffer))
    BY <1>10, DropFields
  <2> DEFINE j == w + 1
  <2>3. k + 2 = j /\ j + 1 = w + 2 /\ j \in Nat /\ j \in 0..Len(p.buffer)
    BY <1>1, <1>5, <1>8
  <2> HIDE DEF j, d, e
  <2>4. Drop(q, j).buffer = SubSeq(q.buffer, j + 1, Len(q.buffer))
    BY <1>2, <2>3, DropFields
  <2>5. SubSeq(p.buffer \o t, j + 1, Len(p.buffer \o t)) = SubSeq(p.buffer, j + 1, Len(p.buffer)) \o t
    BY <1>1, <2>3, SplitText
  <2>6. 1 + 2 = 2 + 1
    OBVIOUS
  <2>7. e.buffer = Drop(q, j).buffer
    BY <1>14, <2>1, <2>2, <2>3, <2>6
  <2> QED BY <1>2, <1>3, <2>3, <2>4, <2>5, <2>7
<1> HIDE DEF e, d
<1>17. /\ With(s, t) \in Parsers /\ With(s, t).family = s.family /\ With(s, t).inTool = s.inTool
       /\ With(s, t).mode = s.mode /\ With(s, t).waiting = s.waiting /\ With(s, t).buffer = s.buffer \o t
  BY <1>3, WithFields
<1>18. e = With(s, t)
  <2>1. /\ e.family = With(s, t).family /\ e.inTool = With(s, t).inTool /\ e.mode = With(s, t).mode
        /\ e.buffer = With(s, t).buffer
    BY <1>2, <1>3, <1>10, <1>14, <1>15, <1>16, <1>17
  <2>2. e.waiting = FALSE /\ With(s, t).waiting = FALSE
    <3>1. e.waiting \in BOOLEAN /\ s.waiting \in BOOLEAN
      BY <1>3, <1>14, ParserFields
    <3> QED BY <1>3, <1>14, <1>17, <3>1
  <2> QED BY ONLY <1>14, <1>17, <2>1, <2>2, SameParser
<1>19. Read(d, ended) = Wait(e)
  <2>1. \E u \in DOMAIN Header : At(d.buffer, 1, Header[u])
    BY <1>3, <1>11
  <2>2. ~InCall(d)
    BY <1>2, <1>10 DEF InCall, Proper
  <2> QED BY <1>10, <2>1, <2>2 DEF Read, ReadHeader, e
<1>20. Says(d, ended) = Says(e, ended)
  BY <1>10, <1>12, <1>14, <1>19, SaysRead
<1> QED BY <1>9, <1>18, <1>20 DEF q, s

\* The first end is the first, whatever follows.
LEMMA EndStays ==
  ASSUME NEW s \in Text, NEW t \in Text, Where(s, {End}) # 0
  PROVE  Where(s \o t, {End}) = Where(s, {End}) /\ Where(s, {End}) \in 1..Len(s)
<1> DEFINE w == Where(s, {End})
           v == Where(s \o t, {End})
<1>1. /\ Len(s) \in Nat /\ Len(t) \in Nat /\ s \o t \in Text /\ Len(s \o t) = Len(s) + Len(t)
      /\ \A k \in 1..Len(s) : (s \o t)[k] = s[k]
  BY ConcatText DEF Text
<1>2. /\ w \in 0..Len(s) /\ (w # 0 => s[w] = "<|end|>")
      /\ \A i \in 1..Len(s) : s[i] = "<|end|>" => w # 0 /\ w <= i
  BY EndDef
<1>3. /\ v \in 0..Len(s \o t) /\ (v # 0 => (s \o t)[v] = "<|end|>")
      /\ \A i \in 1..Len(s \o t) : (s \o t)[i] = "<|end|>" => v # 0 /\ v <= i
  BY <1>1, EndDef
<1>4. w # 0
  OBVIOUS
<1> HIDE DEF w, v
<1>5. w \in 1..Len(s) /\ w \in 1..Len(s \o t)
  BY <1>1, <1>2, <1>4
<1>6. v # 0 /\ v <= w
  BY <1>1, <1>2, <1>3, <1>4, <1>5
<1>7. v \in 1..Len(s)
  BY <1>1, <1>3, <1>5, <1>6
<1>8. w <= v
  BY <1>1, <1>2, <1>3, <1>6, <1>7
<1>9. v = w
  BY <1>5, <1>6, <1>7, <1>8
<1> QED BY <1>5, <1>9 DEF w, v

\* Out of a section, with what follows it.
LEMMA LeaveWith ==
  ASSUME NEW p \in Parsers, p.family = "GPT_OSS", EndAt(p) # 0, NEW t \in Text
  PROVE  /\ [Drop(With(p, t), EndAt(p)) EXCEPT !.waiting = TRUE] = With(LeaveSection(p), t)
         /\ EndAt(With(p, t)) = EndAt(p) /\ EndAt(p) \in 1..Len(p.buffer)
         /\ SubSeq(With(p, t).buffer, 1, EndAt(p) - 1) = Body(p)
<1> DEFINE q == With(p, t)
           w == EndAt(p)
<1>1. p.buffer \in Text /\ Len(p.buffer) \in Nat /\ q.buffer = p.buffer \o t
  BY ParserFields, WithFields
<1>2. EndAt(q) = w /\ w \in 1..Len(p.buffer)
  BY <1>1, EndStays DEF EndAt
<1> HIDE DEF w
<1>3. w \in 0..Len(p.buffer) /\ w - 1 \in 0..Len(p.buffer) /\ w \in Nat
  BY <1>1, <1>2
<1>4. Drop(q, w) = With(Drop(p, w), t)
  BY <1>3, DropWith
<1>5. SubSeq(q.buffer, 1, w - 1) = Body(p)
  <2>1. SubSeq(p.buffer \o t, 1, w - 1) = SubSeq(p.buffer, 1, w - 1)
    BY <1>1, <1>3, SplitText
  <2> QED BY <1>1, <2>1 DEF Body, w
<1> HIDE DEF q
<1> DEFINE d == Drop(p, w)
           e == With(d, t)
           f == [e EXCEPT !.waiting = TRUE]
           g == [d EXCEPT !.waiting = TRUE]
<1>6. d \in Parsers
  BY <1>3, DropFields
<1> HIDE DEF d
<1>7. /\ e \in Parsers /\ e.family = d.family /\ e.inTool = d.inTool /\ e.mode = d.mode
      /\ e.buffer = d.buffer \o t
  BY <1>6, WithFields
<1> HIDE DEF e
<1>8. /\ f \in Parsers /\ f.family = e.family /\ f.inTool = e.inTool /\ f.mode = e.mode
      /\ f.buffer = e.buffer /\ f.waiting = TRUE
  <2>1. f.waiting = TRUE
    BY <1>7 DEF Parsers
  <2> QED BY <1>7, <2>1, WaitingSet
<1>9. /\ g \in Parsers /\ g.family = d.family /\ g.inTool = d.inTool /\ g.mode = d.mode
      /\ g.buffer = d.buffer /\ g.waiting = TRUE
  <2>1. g.waiting = TRUE
    BY <1>6 DEF Parsers
  <2> QED BY <1>6, <2>1, WaitingSet
<1> HIDE DEF f, g
<1>10. /\ With(g, t) \in Parsers /\ With(g, t).family = g.family /\ With(g, t).inTool = g.inTool
       /\ With(g, t).mode = g.mode /\ With(g, t).buffer = g.buffer \o t
       /\ With(g, t).waiting = g.waiting
  BY <1>9, WithFields
<1>11. f = With(g, t)
  <2>1. /\ f.family = With(g, t).family /\ f.inTool = With(g, t).inTool
        /\ f.mode = With(g, t).mode /\ f.buffer = With(g, t).buffer
        /\ f.waiting = With(g, t).waiting
    BY <1>7, <1>8, <1>9, <1>10
  <2> QED BY ONLY <1>8, <1>10, <2>1, SameParser
<1>12. g = LeaveSection(p)
  BY DEF g, d, w, LeaveSection
<1>13. [Drop(q, w) EXCEPT !.waiting = TRUE] = With(LeaveSection(p), t)
  BY <1>4, <1>11, <1>12 DEF f, e, d
<1> QED BY <1>2, <1>5, <1>13 DEF q, w

\* The end of a section of text that nothing stands before.
LEMMA GivesLeave ==
  ASSUME NEW p \in Proper, p.family = "GPT_OSS", ~p.waiting, p.mode # "tool", EndAt(p) = 1,
         NEW t \in Text, NEW ended
  PROVE  Says(With(p, t), ended) = Says(With(LeaveSection(p), t), ended)
<1> DEFINE q == With(p, t)
           l == With(LeaveSection(p), t)
<1>1. p \in Parsers /\ ~p.inTool /\ p.buffer \in Text /\ Len(p.buffer) \in Nat
  <2>1. p \in Parsers /\ ~p.inTool
    BY DEF Proper
  <2> QED BY <2>1, ParserFields
<1>2. /\ q \in Parsers /\ q.family = "GPT_OSS" /\ ~q.waiting /\ ~q.inTool /\ q.mode # "tool"
      /\ q.buffer = p.buffer \o t
  BY <1>1, WithFields, SMTT(40)
<1>3. EndAt(q) = 1 /\ 1 \in 1..Len(p.buffer) /\ [Drop(q, 1) EXCEPT !.waiting = TRUE] = l
  BY <1>1, LeaveWith
<1>4. q.buffer \in Text /\ 1 \in 1..Len(q.buffer) /\ q.buffer # <<>>
  <2>1. q.buffer \in Text /\ Len(q.buffer) = Len(p.buffer) + Len(t) /\ Len(t) \in Nat /\ Len(<<>>) = 0
    BY <1>1, <1>2, ConcatText DEF Text
  <2>2. Len(q.buffer) \in Nat /\ Len(q.buffer) >= 1
    BY <1>1, <1>3, <2>1
  <2> QED BY <2>1, <2>2
<1>5. At(q.buffer, 1, End)
  <2>1. Where(q.buffer, {End}) = 1
    BY <1>3 DEF EndAt
  <2> HIDE DEF q
  <2> DEFINE b == q.buffer
             v == Where(b, {End})
  <2>2. b \in Text
    BY <1>4
  <2> HIDE DEF b
  <2>3. (v # 0 => b[v] = "<|end|>") /\ \A i \in 1..Len(b) : At(b, i, End) <=> b[i] = "<|end|>"
    BY <2>2, EndDef
  <2>4. v = 1 /\ 1 \in 1..Len(b)
    BY <1>4, <2>1 DEF b
  <2> HIDE DEF v
  <2>5. At(b, 1, End)
    BY <2>3, <2>4
  <2> QED BY <2>5 DEF b
<1>6. l \in Parsers
  BY <1>1, LeaveSectionFields, WithFields
<1> HIDE DEF q, l
<1>7. Read(q, ended) = Wait(l)
  <2>1. ReadText(q) = Wait(l)
    BY <1>2, <1>3, <1>5 DEF ReadText
  <2> QED BY <1>2, <2>1 DEF Read, InCall
<1>8. Says(q, ended) = Says(l, ended)
  BY <1>2, <1>4, <1>6, <1>7, SaysRead
<1> QED BY <1>8 DEF q, l

\* The end of a call.
LEMMA GivesHarmonyCall ==
  ASSUME NEW p \in Proper, p.family = "GPT_OSS", ~p.waiting, p.mode = "tool", EndAt(p) # 0,
         NEW t \in Text, NEW ended
  PROVE  Gives(p, t, Result(LeaveSection(p), CallEvent(p, Body(p))), ended)
<1> DEFINE q == With(p, t)
           l == With(LeaveSection(p), t)
           x == CallEvent(p, Body(p))
           w == EndAt(p)
           o == [q EXCEPT !.inTool = FALSE, !.waiting = TRUE]
<1>1. p \in Parsers /\ p.inTool = FALSE /\ p.buffer \in Text /\ Len(p.buffer) \in Nat
  <2>1. p \in Parsers /\ ~p.inTool
    BY DEF Proper
  <2> QED BY <2>1, ParserFields
<1>2. /\ q \in Parsers /\ q.family = "GPT_OSS" /\ ~q.waiting /\ q.inTool = FALSE /\ q.mode = "tool"
      /\ q.buffer = p.buffer \o t /\ q.family = p.family
  BY <1>1, WithFields
<1>3. /\ EndAt(q) = w /\ w \in 1..Len(p.buffer) /\ [Drop(q, w) EXCEPT !.waiting = TRUE] = l
      /\ SubSeq(q.buffer, 1, w - 1) = Body(p)
  BY <1>1, LeaveWith
<1>4. q.buffer # <<>>
  <2>1. Len(q.buffer) = Len(p.buffer) + Len(t) /\ Len(t) \in Nat /\ Len(<<>>) = 0
    BY <1>1, <1>2, ConcatText DEF Text
  <2>2. Len(q.buffer) # 0
    BY <1>1, <1>3, <2>1
  <2> QED BY <2>1, <2>2
<1>5. CallEvent(q, Body(p)) = x
  BY <1>2, SameMarkers
<1> HIDE DEF q, l, x, w
<1>6. Drop(o, w) = l
  <2>1. Drop(o, w) = [Drop(q, w) EXCEPT !.waiting = TRUE]
    BY <1>2 DEF Drop, Parsers
  <2> QED BY <1>3, <2>1
<1>7. Read(q, ended) = Result(l, x)
  <2>1. w # 0 /\ w + 0 = w
    BY <1>1, <1>3
  <2>2. Where(q.buffer, ToolEnds(q)) = w
    BY <1>2, <1>3 DEF ToolEnds, EndAt
  <2>3. [q EXCEPT !.inTool = FALSE, !.waiting = (q.family = "GPT_OSS")] = o
    BY <1>2 DEF Parsers
  <2> HIDE DEF o
  <2>4. ReadCall(q, ended) = Result(Drop(o, w + 0), CallEvent(q, SubSeq(q.buffer, 1, w - 1)))
    BY <1>2, <2>1, <2>2, <2>3 DEF ReadCall
  <2>5. ReadCall(q, ended) = Result(l, x)
    BY <1>3, <1>5, <1>6, <2>1, <2>4
  <2>6. ~q.waiting /\ InCall(q)
    BY <1>2 DEF InCall
  <2> QED BY <2>5, <2>6 DEF Read
<1>8. Says(q, ended) = x \o Says(l, ended)
  <2>1. Read(q, ended).event = x /\ Read(q, ended).parser = l
    BY <1>7 DEF Result
  <2> QED BY <1>2, <1>4, <2>1, SaysDef
<1>9. Says(With(p, t), ended) = x \o Says(With(LeaveSection(p), t), ended)
  BY <1>8 DEF q, l
<1> QED BY <1>9, GivesDef DEF x

\* The end is in a text that goes on only if it is what the text goes on with.
LEMMA EndsAfter ==
  ASSUME NEW s \in Text, Where(s, {End}) = 0, NEW c \in Text, EndsAlone(c)
  PROVE  Where(s \o c, {End}) = IF c = End THEN Len(s \o c) ELSE 0
<1> DEFINE b == s \o c
           v == Where(b, {End})
<1>1. /\ Len(s) \in Nat /\ Len(c) \in Nat /\ b \in Text /\ Len(b) = Len(s) + Len(c)
      /\ \A k \in 1..Len(s) : b[k] = s[k]
      /\ \A k \in Len(s) + 1..Len(s) + Len(c) : b[k] = c[k - Len(s)]
  BY ConcatText DEF Text
<1>2. \A k \in 1..Len(s) : s[k] # "<|end|>"
  BY EndDef
<1>3. /\ v \in 0..Len(b) /\ (v # 0 => b[v] = "<|end|>")
      /\ \A i \in 1..Len(b) : b[i] = "<|end|>" => v # 0 /\ v <= i
  BY <1>1, EndDef
<1> HIDE DEF v, b
<1>4. v # 0 => v \in Len(s) + 1..Len(b)
  BY <1>1, <1>2, <1>3
<1>5. CASE c = End
  <2>1. Len(b) = Len(s) + 1 /\ b[Len(b)] = "<|end|>"
    <3>1. Len(c) = 1 /\ c[1] = "<|end|>"
      BY <1>5, HeadersAreText
    <3>2. Len(b) \in Len(s) + 1..Len(s) + Len(c) /\ Len(b) - Len(s) = 1
      BY <1>1, <3>1
    <3> QED BY <1>1, <3>1, <3>2
  <2>2. Len(b) \in 1..Len(b)
    BY <1>1, <2>1
  <2>3. v = Len(b)
    BY <1>1, <1>3, <1>4, <2>1, <2>2
  <2> QED BY <1>5, <2>3 DEF b, v
<1>6. CASE c # End
  <2>1. \A k \in 1..Len(c) : c[k] # "<|end|>"
    BY <1>6 DEF EndsAlone
  <2>2. v = 0
    <3>1. SUFFICES ASSUME v # 0 PROVE FALSE
      OBVIOUS
    <3>2. v - Len(s) \in 1..Len(c) /\ v \in Len(s) + 1..Len(s) + Len(c)
      BY <1>1, <1>4, <3>1
    <3>3. b[v] = c[v - Len(s)] /\ b[v] = "<|end|>"
      BY <1>1, <1>3, <3>1, <3>2
    <3> QED BY <2>1, <3>2, <3>3
  <2> QED BY <1>6, <2>2 DEF b, v
<1> QED BY <1>5, <1>6

\* A section begins without its end: that comes with a token of its own.
LEMMA SectionBegins ==
  ASSUME NEW p \in Parsers, Where(p.buffer, Headers) = 0, NEW c \in Text, EndsAlone(c),
         Where(With(p, c).buffer, Headers) # 0
  PROVE  EndAt(EnterSection(With(p, c))) = 0
<1> DEFINE q == With(p, c)
           b == p.buffer
           w == Where(q.buffer, Headers)
           s == EnterSection(q)
<1>1. q \in Parsers /\ q.buffer = b \o c /\ b \in Text /\ Len(b) \in Nat /\ Len(c) \in Nat
  <2>1. q \in Parsers /\ q.buffer = b \o c
    BY WithFields
  <2>2. b \in Text
    BY ParserFields
  <2> QED BY <2>1, <2>2 DEF Text
<1>2. /\ q.buffer \in Text /\ Len(q.buffer) = Len(b) + Len(c)
      /\ \A k \in Len(b) + 1..Len(b) + Len(c) : q.buffer[k] = c[k - Len(b)]
  BY <1>1, ConcatText
<1>3. /\ s \in Parsers /\ s.mode \in DOMAIN Header /\ At(q.buffer, w, Header[s.mode])
      /\ w \in 1..Len(q.buffer) /\ s.buffer = SubSeq(q.buffer, w + 2, Len(q.buffer))
  BY <1>1, EnterSectionFields
<1> HIDE DEF q, w, s
<1> DEFINE m == Header[s.mode]
<1>4. m \in Headers /\ m \in Text /\ Len(m) = 2
  BY <1>3, HeadersAreText DEF Headers
<1> HIDE DEF m
<1>5. w + 1 <= Len(q.buffer) /\ q.buffer[w + 1] \in {"analysis", "final", "commentary"}
  BY <1>2, <1>3, <1>4, HeaderDef DEF m
<1>6. w + 1 > Len(b)
  <2>1. SUFFICES ASSUME w + 1 <= Len(b) PROVE FALSE
    BY <1>1, <1>3
  <2>2. w \in 1..Len(b) /\ w + Len(m) - 1 <= Len(b)
    BY <1>1, <1>3, <1>4, <2>1
  <2>3. At(b \o c, w, m) <=> At(b, w, m)
    BY <1>1, <1>4, <2>2, AtFirst
  <2>4. At(b \o c, w, m)
    BY <1>1, <1>3 DEF m
  <2> QED BY <1>1, <1>4, <2>2, <2>3, <2>4, WhereDef
<1>7. c # End
  <2>1. SUFFICES ASSUME c = End PROVE FALSE
    OBVIOUS
  <2>2. Len(c) = 1 /\ c[1] = "<|end|>"
    BY <2>1, HeadersAreText
  <2> DEFINE k == w + 1
  <2>3. k \in Len(b) + 1..Len(b) + Len(c) /\ k - Len(b) = 1
    BY <1>1, <1>2, <1>3, <1>5, <1>6, <2>2
  <2> HIDE DEF k
  <2>4. q.buffer[k] = "<|end|>"
    BY <1>2, <2>2, <2>3
  <2> QED BY <1>5, <2>4, HeadersDiffer DEF k
<1>8. \A k \in 1..Len(c) : c[k] # "<|end|>"
  BY <1>7 DEF EndsAlone
<1> DEFINE n == w + 1
<1>9. n \in Nat /\ n + 1 = w + 2 /\ n <= Len(q.buffer) /\ n >= Len(b) + 1
  BY <1>1, <1>3, <1>5, <1>6
<1>10. s.buffer = SubSeq(q.buffer, n + 1, Len(q.buffer))
  BY <1>3, <1>9
<1> HIDE DEF n
<1>11. /\ s.buffer \in Text /\ Len(s.buffer) = Len(q.buffer) - n
       /\ \A k \in 1..Len(s.buffer) : s.buffer[k] = q.buffer[n + k]
  <2> DEFINE b2 == q.buffer
  <2>1. b2 \in Text
    BY <1>2
  <2> HIDE DEF b2
  <2>2. /\ SubSeq(b2, n + 1, Len(b2)) \in Text /\ Len(SubSeq(b2, n + 1, Len(b2))) = Len(b2) - n
        /\ \A k \in 1..Len(SubSeq(b2, n + 1, Len(b2))) : SubSeq(b2, n + 1, Len(b2))[k] = b2[n + k]
    <3>1. n \in Nat /\ n <= Len(b2)
      BY <1>9 DEF b2
    <3> QED BY <2>1, <3>1, EndOfText
  <2> QED BY <1>10, <2>2 DEF b2
<1>12. ASSUME NEW k \in 1..Len(s.buffer)
       PROVE  s.buffer[k] # "<|end|>"
  <2> DEFINE j == n + k
  <2>1. j \in Len(b) + 1..Len(b) + Len(c) /\ j - Len(b) \in 1..Len(c)
    BY <1>1, <1>2, <1>9, <1>11
  <2>2. s.buffer[k] = q.buffer[j]
    BY <1>11
  <2> HIDE DEF j
  <2> QED BY <1>2, <1>8, <2>1, <2>2
<1>13. Where(s.buffer, {End}) = 0
  <2> DEFINE z == s.buffer
             v == Where(z, {End})
  <2>1. z \in Text /\ Len(z) \in Nat /\ \A k \in 1..Len(z) : z[k] # "<|end|>"
    BY <1>11, <1>12 DEF Text
  <2> HIDE DEF z
  <2>2. v \in 0..Len(z) /\ (v # 0 => z[v] = "<|end|>")
    BY <2>1, EndDef
  <2> HIDE DEF v
  <2>3. v = 0
    BY <2>1, <2>2
  <2> QED BY <2>3 DEF v, z
<1> QED BY <1>13 DEF EndAt, s, q

\* What a call of the parser returns when it goes round no more.
LEMMA ReturnsGive ==
  ASSUME NEW p \in Proper, p.family = "GPT_OSS", ~GoesOn(p), EndAt(p) \in {0, Len(p.buffer)}
  PROVE  /\ Settled(HarmonyReturns(p, <<>>).parser)
         /\ \A t \in Text : \A ended \in BOOLEAN : Gives(p, t, HarmonyReturns(p, <<>>), ended)
<1> DEFINE r == HarmonyReturns(p, <<>>)
<1>1. p \in Parsers /\ p.buffer \in Text /\ Len(p.buffer) \in Nat
  BY ParserFields DEF Proper
<1>2. \A t \in Text : \A ended \in BOOLEAN : Gives(p, t, Wait(p), ended)
  BY <1>1, GivesWait
<1>3. Wait(p).parser = p
  BY DEF Wait, Result
<1>4. CASE p.waiting
  <2>1. r = Wait(p)
    BY <1>4 DEF HarmonyReturns
  <2>2. Settled(p)
    BY <1>4 DEF GoesOn, HeaderIsNext, Settled
  <2> QED BY <1>2, <1>3, <2>1, <2>2
<1>5. CASE ~p.waiting /\ p.mode = "tool" /\ EndAt(p) = 0
  <2>1. r = Wait(p)
    BY <1>5 DEF HarmonyReturns
  <2>2. Settled(p)
    BY <1>5 DEF Settled
  <2> QED BY <1>2, <1>3, <2>1, <2>2
<1>6. CASE ~p.waiting /\ p.mode = "tool" /\ EndAt(p) # 0
  <2> DEFINE l == LeaveSection(p)
             x == CallEvent(p, Body(p))
  <2>1. r = Result(l, x)
    BY <1>6 DEF HarmonyReturns
  <2>2. l.waiting /\ l.buffer = <<>>
    <3>1. EndAt(p) = Len(p.buffer) /\ l.waiting /\ l.buffer = SubSeq(p.buffer, EndAt(p) + 1, Len(p.buffer))
      BY <1>1, <1>6, LeaveSectionFields
    <3>2. SubSeq(p.buffer, Len(p.buffer) + 1, Len(p.buffer)) = <<>>
      BY <1>1 DEF Text
    <3> QED BY <3>1, <3>2
  <2>3. Where(<<>>, Headers) = 0
    BY DEF Where
  <2>4. Settled(l)
    BY <2>2, <2>3 DEF Settled
  <2>5. \A t \in Text : \A ended \in BOOLEAN : Gives(p, t, Result(l, x), ended)
    BY <1>6, GivesHarmonyCall
  <2> HIDE DEF l, x
  <2>6. Result(l, x).parser = l
    BY DEF Result
  <2> QED BY <2>1, <2>4, <2>5, <2>6
<1>7. CASE ~p.waiting /\ p.mode # "tool"
  <2> DEFINE e == [p EXCEPT !.buffer = <<>>]
             x == Tagged(p.mode, p.buffer)
  <2>1. EndAt(p) = 0
    BY <1>7 DEF GoesOn, TextEnds
  <2>2. r = Result(e, x)
    <3>1. <<>> \o p.buffer = p.buffer
      BY <1>1, ConcatText
    <3> QED BY <1>7, <3>1 DEF HarmonyReturns
  <2>3. e.buffer = <<>> /\ e.waiting = p.waiting /\ e.mode = p.mode
    BY <1>1, BufferSet, TextIsSaid
  <2>4. \A t \in Text : \A ended \in BOOLEAN : Gives(p, t, Result(e, x), ended)
    BY <1>7, <2>1, SectionGives
  <2> HIDE DEF e, x
  <2>5. Settled(e)
    BY <1>7, <2>3 DEF Settled
  <2>6. Result(e, x).parser = e
    BY DEF Result
  <2> QED BY <2>2, <2>4, <2>5, <2>6
<1> QED BY <1>4, <1>5, <1>6, <1>7

\* The same again, with what the parser keeps until the next call.
Gets(p, c, r) ==
  /\ Settled(r.parser)
  /\ \A t \in Text : \A ended \in BOOLEAN : Gives(With(p, c), t, r, ended)

\* A chunk goes through the parser: an event of what the text says, and a parser that
\* still holds the rest.
LEMMA HarmonyGives ==
  ASSUME NEW p \in Proper, p.family = "GPT_OSS", Settled(p), NEW c \in Text, EndsAlone(c)
  PROVE  Gets(p, c, HarmonyStep[[parser |-> With(p, c), content |-> <<>>]])
<1> DEFINE q == With(p, c)
           h(u) == [parser |-> u, content |-> <<>>]
           r == HarmonyStep[h(q)]
<1>1. /\ p \in Parsers /\ p.buffer \in Text /\ Len(p.buffer) \in Nat /\ Len(c) \in Nat /\ <<>> \in Text
  <2>1. p \in Parsers
    BY DEF Proper
  <2>2. p.buffer \in Text /\ Len(p.buffer) \in Nat /\ <<>> \in Text
    BY <2>1, ParserFields, TextIsSaid
  <2> QED BY <2>1, <2>2 DEF Text
<1>2. /\ q \in Proper /\ q \in Parsers /\ q.family = "GPT_OSS" /\ q.waiting = p.waiting
      /\ q.mode = p.mode /\ q.buffer = p.buffer \o c /\ ~q.inTool
  <2>1. q \in Proper /\ q.family = p.family /\ q.waiting = p.waiting /\ q.mode = p.mode
        /\ q.buffer = p.buffer \o c
    BY <1>1, WithFields, WithProper
  <2> QED BY <2>1 DEF Proper
<1>3. q.buffer \in Text /\ Len(q.buffer) \in Nat
  <2>1. q \in Parsers
    BY <1>2
  <2> HIDE DEF q
  <2> QED BY <2>1, ParserFields
<1>4. ASSUME NEW u \in Parsers
      PROVE  /\ h(u) \in Calls /\ h(u).parser = u /\ h(u).content = <<>>
             /\ HarmonyStep[h(u)] = IF GoesOn(u) THEN HarmonyStep[Onward(h(u))]
                                    ELSE HarmonyReturns(u, <<>>)
  <2>1. h(u) \in Calls /\ h(u).parser = u /\ h(u).content = <<>>
    BY <1>1, CallsDef
  <2> HIDE DEF h
  <2>2. HarmonyStep[h(u)] = IF GoesOn(h(u).parser) THEN HarmonyStep[Onward(h(u))]
                            ELSE HarmonyReturns(h(u).parser, h(u).content)
    BY <2>1, HarmonyLoop
  <2> QED BY <2>1, <2>2
<1>5. Where(<<>>, Headers) = 0
  BY DEF Where
<1> DEFINE G(u, x) == /\ Settled(x.parser)
                      /\ \A t \in Text : \A ended \in BOOLEAN : Gives(u, t, x, ended)
<1>6. ASSUME NEW u \in Proper, NEW x,
             \A t \in Text : \A ended \in BOOLEAN :
               Says(With(q, t), ended) = Says(With(u, t), ended),
             G(u, x)
      PROVE  G(q, x)
  <2>1. ASSUME NEW t \in Text, NEW ended \in BOOLEAN
        PROVE  Gives(q, t, x, ended)
    <3>1. Says(With(q, t), ended) = Says(With(u, t), ended) /\ Gives(u, t, x, ended)
      BY <1>6
    <3> HIDE DEF q
    <3> QED BY <3>1, GivesAfter
  <2> QED BY <1>6, <2>1
<1>7. ASSUME NEW u \in Proper, u.family = "GPT_OSS", ~GoesOn(u), EndAt(u) \in {0, Len(u.buffer)}
      PROVE  G(u, HarmonyStep[h(u)])
  <2>1. u \in Parsers
    BY DEF Proper
  <2>2. HarmonyStep[h(u)] = HarmonyReturns(u, <<>>)
    BY <1>4, <1>7, <2>1
  <2>3. G(u, HarmonyReturns(u, <<>>))
    BY <1>7, ReturnsGive
  <2> HIDE DEF G, h
  <2> QED BY <2>2, <2>3
<1>12. SUFFICES G(q, r)
  BY DEF Gets
<1> HIDE DEF G
<1>8. CASE p.waiting /\ Where(q.buffer, Headers) = 0
  <2>1. r = HarmonyReturns(q, <<>>)
    <3>1. ~GoesOn(q)
      BY <1>2, <1>8 DEF GoesOn, HeaderIsNext, TextEnds
    <3> HIDE DEF q, h
    <3> QED BY <1>2, <1>4, <3>1 DEF q
  <2>2. HarmonyReturns(q, <<>>) = Wait(q)
    BY <1>2, <1>8 DEF HarmonyReturns
  <2>3. Settled(q)
    BY <1>2, <1>8 DEF Settled
  <2>4. Wait(q).parser = q
    BY DEF Wait, Result
  <2>5. \A t \in Text : \A ended \in BOOLEAN : Gives(q, t, Wait(q), ended)
    BY <1>2, GivesWait
  <2> QED BY <2>1, <2>2, <2>3, <2>4, <2>5 DEF G
<1>9. CASE p.waiting /\ Where(q.buffer, Headers) # 0
  <2> DEFINE s == EnterSection(q)
  <2>1. /\ s \in Parsers /\ s.family = "GPT_OSS" /\ ~s.waiting /\ s.inTool = q.inTool
    BY <1>2, <1>9, EnterSectionFields
  <2>2. EndAt(s) = 0
    BY <1>1, <1>9, SectionBegins DEF Settled
  <2>3. \A t \in Text : \A ended \in BOOLEAN : Says(With(q, t), ended) = Says(With(s, t), ended)
    BY <1>2, <1>9, GivesSection
  <2>4. r = HarmonyStep[h(s)]
    <3>1. GoesOn(q)
      BY <1>2, <1>9 DEF GoesOn, HeaderIsNext
    <3>2. Onward(h(q)) = h(s)
      BY <1>2, <1>9 DEF Onward
    <3>3. HarmonyStep[h(q)] = HarmonyStep[Onward(h(q))]
      <4> HIDE DEF q, h
      <4> QED BY <1>2, <1>4, <3>1
    <3> QED BY <3>2, <3>3
  <2> HIDE DEF s, q, h
  <2>5. s \in Proper
    BY <1>2, <2>1 DEF Proper
  <2>6. ~GoesOn(s)
    BY <2>1, <2>2 DEF GoesOn, HeaderIsNext, TextEnds
  <2>7. G(s, HarmonyStep[h(s)])
    BY <1>7, <2>1, <2>2, <2>5, <2>6
  <2> QED BY <1>6, <2>3, <2>4, <2>5, <2>7
<1>10. CASE ~p.waiting /\ p.mode = "tool"
  <2>1. EndAt(q) \in {0, Len(q.buffer)}
    <3>1. Where(p.buffer, {End}) = 0
      BY <1>10 DEF Settled, EndAt
    <3>2. Where(p.buffer \o c, {End}) = IF c = End THEN Len(p.buffer \o c) ELSE 0
      BY <1>1, <3>1, EndsAfter
    <3> QED BY <1>2, <3>2 DEF EndAt
  <2>2. ~GoesOn(q)
    BY <1>2, <1>10 DEF GoesOn, HeaderIsNext, TextEnds
  <2> HIDE DEF q
  <2>3. G(q, HarmonyStep[h(q)])
    BY <1>2, <1>7, <2>1, <2>2
  <2> QED BY <2>3
<1>11. CASE ~p.waiting /\ p.mode # "tool"
  <2>1. q.buffer = c
    <3>1. p.buffer = <<>>
      BY <1>11 DEF Settled
    <3> QED BY <1>2, <3>1, ConcatText
  <2>2. CASE c # End
    <3>1. EndAt(q) = 0
      <4>1. Where(<<>>, {End}) = 0 /\ <<>> \o c = c
        BY ConcatText DEF Where
      <4>2. Where(<<>> \o c, {End}) = IF c = End THEN Len(<<>> \o c) ELSE 0
        BY <1>1, <4>1, EndsAfter
      <4> QED BY <2>1, <2>2, <4>1, <4>2 DEF EndAt
    <3>2. ~GoesOn(q)
      BY <1>2, <1>11, <3>1 DEF GoesOn, HeaderIsNext, TextEnds
    <3> HIDE DEF q
    <3>3. G(q, HarmonyStep[h(q)])
      BY <1>2, <1>7, <3>1, <3>2
    <3> QED BY <3>3
  <2>3. CASE c = End
    <3> DEFINE s == LeaveSection(q)
    <3>1. EndAt(q) = 1 /\ Len(q.buffer) = 1
      <4>1. Where(<<>>, {End}) = 0 /\ <<>> \o c = c
        BY ConcatText DEF Where
      <4>2. Where(<<>> \o c, {End}) = IF c = End THEN Len(<<>> \o c) ELSE 0
        BY <1>1, <4>1, EndsAfter
      <4> QED BY <2>1, <2>3, <4>1, <4>2, HeadersAreText DEF EndAt
    <3>2. /\ s \in Parsers /\ s.family = "GPT_OSS" /\ s.waiting /\ s.inTool = q.inTool
          /\ s.buffer = SubSeq(q.buffer, EndAt(q) + 1, Len(q.buffer))
      BY <1>2, LeaveSectionFields
    <3>3. s.buffer = <<>>
      <4>1. SubSeq(q.buffer, 1 + 1, 1) = <<>>
        BY <1>3 DEF Text
      <4> HIDE DEF s
      <4> QED BY <3>1, <3>2, <4>1
    <3>4. \A t \in Text : \A ended \in BOOLEAN : Says(With(q, t), ended) = Says(With(s, t), ended)
      BY <1>2, <1>11, <3>1, GivesLeave
    <3>5. r = HarmonyStep[h(s)]
      <4>1. GoesOn(q)
        BY <1>2, <1>11, <3>1 DEF GoesOn, TextEnds
      <4>2. Body(q) = <<>>
        <5>1. SubSeq(q.buffer, 1, 1 - 1) = <<>>
          BY <1>3 DEF Text
        <5> QED BY <3>1, <5>1 DEF Body
      <4>3. Onward(h(q)) = h(s)
        <5>1. <<>> \o <<>> = <<>>
          BY <1>1, ConcatText
        <5> QED BY <1>2, <1>11, <4>2, <5>1 DEF Onward
      <4>4. HarmonyStep[h(q)] = HarmonyStep[Onward(h(q))]
        <5> HIDE DEF q, h
        <5> QED BY <1>2, <1>4, <4>1
      <4> QED BY <4>3, <4>4
    <3> HIDE DEF s, q, h
    <3>6. s \in Proper
      BY <1>2, <3>2 DEF Proper
    <3>7. ~GoesOn(s)
      BY <1>5, <3>2, <3>3 DEF GoesOn, HeaderIsNext, TextEnds
    <3>8. EndAt(s) \in {0, Len(s.buffer)}
      <4>1. Where(<<>>, {End}) = 0
        BY DEF Where
      <4> QED BY <3>3, <4>1 DEF EndAt
    <3>9. G(s, HarmonyStep[h(s)])
      BY <1>7, <3>2, <3>6, <3>7, <3>8
    <3> QED BY <1>6, <3>4, <3>5, <3>6, <3>9
  <2> QED BY <2>2, <2>3
<1> QED BY <1>8, <1>9, <1>10, <1>11

-----------------------------------------------------------------------------
(***************************************************************************)
(* What is sent is what the text says                                      *)
(***************************************************************************)

\* A call of the parser of p with c gives r: an event of what is said, and a parser that
\* says the rest, whatever follows.
Goes(p, c, r) ==
  \A t \in Text : \A ended \in BOOLEAN :
    Says(With(p, c \o t), ended) = r.event \o Says(With(r.parser, t), ended)

LEMMA WithWith ==
  ASSUME NEW p \in Parsers, NEW s \in Text, NEW t \in Text
  PROVE  With(With(p, s), t) = With(p, s \o t)
<1>1. /\ With(p, s) \in Parsers /\ With(p, s).buffer = p.buffer \o s
      /\ With(p, s).family = p.family /\ With(p, s).inTool = p.inTool
      /\ With(p, s).mode = p.mode /\ With(p, s).waiting = p.waiting
  BY WithFields
<1>2. s \o t \in Text /\ p.buffer \in Text
  BY ConcatText, ParserFields
<1> DEFINE q == With(p, s)
           u == With(q, t)
           v == With(p, s \o t)
<1>3. /\ v \in Parsers /\ v.buffer = p.buffer \o (s \o t)
      /\ v.family = p.family /\ v.inTool = p.inTool /\ v.mode = p.mode /\ v.waiting = p.waiting
  BY <1>2, WithFields
<1> HIDE DEF q, v
<1>4. /\ q \in Parsers /\ q.buffer = p.buffer \o s
      /\ q.family = p.family /\ q.inTool = p.inTool /\ q.mode = p.mode /\ q.waiting = p.waiting
  BY <1>1 DEF q
<1>5. /\ u \in Parsers /\ u.buffer = q.buffer \o t
      /\ u.family = q.family /\ u.inTool = q.inTool /\ u.mode = q.mode /\ u.waiting = q.waiting
  BY <1>4, WithFields
<1> HIDE DEF u
<1>6. (p.buffer \o s) \o t = p.buffer \o (s \o t)
  <2> DEFINE b == p.buffer
  <2>1. b \in Seq(Pieces) /\ s \in Seq(Pieces) /\ t \in Seq(Pieces)
    BY <1>2 DEF Text
  <2> HIDE DEF b
  <2>2. (b \o s) \o t = b \o (s \o t)
    BY ONLY <2>1, ConcatAssociative
  <2> QED BY <2>2 DEF b
<1>7. /\ u.family = v.family /\ u.buffer = v.buffer /\ u.inTool = v.inTool
      /\ u.mode = v.mode /\ u.waiting = v.waiting
  BY <1>3, <1>4, <1>5, <1>6
<1>8. u = v
  BY ONLY <1>3, <1>5, <1>7, SameParser
<1> QED BY <1>8 DEF u, v, q

\* The families of which it is proved.
Faithful == {"Gemma4e", "GPT_OSS"}

Ready(p) == p \in Proper /\ p.family \in Faithful /\ (p.family = "GPT_OSS" => Settled(p))

LEMMA ParseGoes ==
  ASSUME NEW p, Ready(p), NEW c \in Text, p.family = "GPT_OSS" => EndsAlone(c)
  PROVE  Goes(p, c, Parse(p, c)) /\ Ready(Parse(p, c).parser)
<1> DEFINE q == With(p, c)
           r == Parse(p, c)
<1>1. p \in Proper /\ p \in Parsers /\ p.family \in {"Gemma4e", "GPT_OSS"}
  BY DEF Ready, Proper, Faithful
<1>2. q \in Proper /\ q.family = p.family
  BY <1>1, WithFields, WithProper
<1>3. r.parser \in Proper /\ r.parser.family = p.family
  BY <1>1, ParseType
<1>4. r = Step(q, FALSE)
  BY DEF Parse, With
<1>5. (p.family = "GPT_OSS" => Settled(r.parser))
      /\ \A t \in Text : \A ended \in BOOLEAN : Gives(q, t, r, ended)
  <2>1. CASE p.family = "Gemma4e"
    <3>1. r = GemmaStep(q, FALSE)
      BY <1>2, <1>4, <2>1 DEF Step
    <3> HIDE DEF q, r
    <3>2. ASSUME NEW t \in Text, NEW ended \in BOOLEAN
          PROVE  Gives(q, t, r, ended)
      <4>1. AtEnd(t, FALSE, ended)
        BY DEF AtEnd
      <4>2. Gives(q, t, GemmaStep(q, FALSE), ended)
        BY <1>2, <2>1, <4>1, GemmaGives
      <4> QED BY <3>1, <4>2
    <3> QED BY <2>1, <3>2
  <2>2. CASE p.family = "GPT_OSS"
    <3>1. r = HarmonyStep[[parser |-> q, content |-> <<>>]]
      BY <1>2, <1>4, <2>2 DEF Step
    <3>2. Gets(p, c, HarmonyStep[[parser |-> q, content |-> <<>>]])
      BY <1>1, <2>2, HarmonyGives DEF Ready
    <3>3. Gets(p, c, r)
      BY <3>1, <3>2
    <3> QED BY <3>3 DEF Gets
  <2> QED BY <1>1, <2>1, <2>2
<1>6. Ready(r.parser)
  BY <1>1, <1>3, <1>5 DEF Ready, Faithful
<1>7. ASSUME NEW t \in Text, NEW ended \in BOOLEAN
      PROVE  Says(With(p, c \o t), ended) = r.event \o Says(With(r.parser, t), ended)
  <2>1. Says(With(q, t), ended) = r.event \o Says(With(r.parser, t), ended)
    BY <1>5 DEF Gives
  <2>2. With(q, t) = With(p, c \o t)
    BY <1>1, WithWith
  <2> QED BY <2>1, <2>2
<1> QED BY <1>6, <1>7 DEF Goes

\* What p sent before, and what it says to what comes, is what a fresh parser says to all.
Faith(f, w, e, p) ==
  \A t \in Text : \A ended \in BOOLEAN :
    Says(With(Fresh(f), w \o t), ended) = e \o Says(With(p, t), ended)

LEMMA FreshFields ==
  ASSUME NEW f \in Families
  PROVE  /\ Fresh(f) \in Proper /\ Fresh(f) \in Parsers /\ Fresh(f).family = f
         /\ Fresh(f).buffer = <<>> /\ ~Fresh(f).inTool /\ Fresh(f).mode = "content"
         /\ Fresh(f).waiting = (f = "GPT_OSS")
         /\ f \in Faithful => Ready(Fresh(f))
<1>1. /\ Fresh(f) \in Proper /\ Fresh(f) \in Parsers /\ Fresh(f).family = f
      /\ Fresh(f).buffer = <<>> /\ Fresh(f).inTool = FALSE /\ Fresh(f).mode = "content"
      /\ Fresh(f).waiting = (f = "GPT_OSS")
  BY TextIsSaid DEF Fresh, Proper, Parsers, Text
<1>2. Where(<<>>, Headers) = 0
  BY DEF Where
<1> QED BY <1>1, <1>2 DEF Ready, Settled

LEMMA FaithGoesOn ==
  ASSUME NEW f \in Families, NEW w \in Text, NEW e \in Seq(Events), NEW p \in Parsers,
         Faith(f, w, e, p), NEW c \in Text, NEW r, Goes(p, c, r),
         r.parser \in Parsers, r.event \in Seq(Events)
  PROVE  Faith(f, w \o c, e \o r.event, r.parser)
<1>1. ASSUME NEW t \in Text, NEW ended \in BOOLEAN
      PROVE  Says(With(Fresh(f), (w \o c) \o t), ended) = (e \o r.event) \o Says(With(r.parser, t), ended)
  <2>1. (w \o c) \o t = w \o (c \o t) /\ c \o t \in Text
    BY ConcatText, ConcatAssociative DEF Text
  <2>2. Says(With(Fresh(f), w \o (c \o t)), ended) = e \o Says(With(p, c \o t), ended)
    BY <2>1 DEF Faith
  <2>3. Says(With(p, c \o t), ended) = r.event \o Says(With(r.parser, t), ended)
    BY DEF Goes
  <2> DEFINE x == r.event
             y == Says(With(r.parser, t), ended)
  <2>4. x \in Seq(Events) /\ y \in Seq(Events)
    BY WithFields, SaysDef
  <2> HIDE DEF x, y
  <2>5. (e \o x) \o y = e \o (x \o y)
    BY <2>4, ConcatAssociative
  <2>6. Says(With(Fresh(f), w \o (c \o t)), ended) = (e \o x) \o y
    BY <2>2, <2>3, <2>5 DEF x, y
  <2> QED BY <2>1, <2>6 DEF x, y
<1> QED BY <1>1 DEF Faith

\* So it is the beginning of what is said, even to more.
LEMMA FaithBegins ==
  ASSUME NEW f \in Families, NEW w \in Text, NEW e \in Seq(Events), NEW p \in Parsers,
         Faith(f, w, e, p), NEW t \in Text, NEW ended \in BOOLEAN
  PROVE  IsPrefix(e, Says(With(Fresh(f), w \o t), ended))
<1> DEFINE y == Says(With(p, t), ended)
<1>1. y \in Seq(Events)
  BY WithFields, SaysDef
<1>2. Says(With(Fresh(f), w \o t), ended) = e \o y
  BY DEF Faith
<1> HIDE DEF y
<1>3. IsPrefix(e, e \o y)
  BY <1>1, PrefixOfConcat
<1> QED BY <1>2, <1>3

LEMMA FaithNow ==
  ASSUME NEW f \in Families, NEW w \in Text, NEW e \in Seq(Events), NEW p \in Parsers,
         Faith(f, w, e, p), NEW ended \in BOOLEAN
  PROVE  /\ Says(With(Fresh(f), w), ended) = e \o Says(p, ended)
         /\ IsPrefix(e, Says(With(Fresh(f), w), ended))
<1>1. <<>> \in Text /\ w \o <<>> = w
  BY TextIsSaid, ConcatText
<1>2. With(p, <<>>) = p
  BY WithFields
<1>3. Says(With(Fresh(f), w \o <<>>), ended) = e \o Says(With(p, <<>>), ended)
  BY <1>1 DEF Faith
<1>4. IsPrefix(e, Says(With(Fresh(f), w \o <<>>), ended))
  BY <1>1, FaithBegins
<1> QED BY <1>1, <1>2, <1>3, <1>4

\* A fresh parser has nothing to catch up on.
LEMMA FaithAtFirst ==
  ASSUME NEW f \in Families
  PROVE  Faith(f, <<>>, <<>>, Fresh(f))
<1>1. ASSUME NEW t \in Text, NEW ended \in BOOLEAN
      PROVE  Says(With(Fresh(f), <<>> \o t), ended) = <<>> \o Says(With(Fresh(f), t), ended)
  <2>1. <<>> \o t = t
    BY ConcatText
  <2>2. Says(With(Fresh(f), t), ended) \in Seq(Events)
    BY FreshFields, WithFields, SaysDef
  <2> QED BY <2>1, <2>2, ConcatEmptySeq
<1> QED BY <1>1 DEF Faith

\* Meaning is what a fresh parser says to the text.
LEMMA MeaningDef ==
  ASSUME parser.family \in Families, text \in Text, NEW ended
  PROVE  Meaning(ended) = Says(With(Fresh(parser.family), text), ended)
<1>1. <<>> \o text = text
  BY ConcatText
<1> QED BY <1>1, FreshFields DEF Meaning, With

\* What has been said stays said when the answer has ended.
LEMMA SaidInTheEnd ==
  ASSUME NEW f \in Families, NEW w \in Text, NEW e \in Seq(Events),
         IsPrefix(e, Says(With(Fresh(f), w), FALSE))
  PROVE  IsPrefix(e, Says(With(Fresh(f), w), TRUE))
<1> DEFINE q == With(Fresh(f), w)
<1>1. q \in Parsers
  BY FreshFields, WithFields
<1> HIDE DEF q
<1>2. IsPrefix(Says(q, FALSE), Says(q, TRUE)) /\ Says(q, FALSE) \in Seq(Events) /\ Says(q, TRUE) \in Seq(Events)
  BY <1>1, SaysGrows, SaysDef
<1>3. IsPrefix(e, Says(q, FALSE))
  BY DEF q
<1>4. IsPrefix(e, Says(q, TRUE))
  BY <1>2, <1>3, PrefixTransitive
<1> QED BY <1>4 DEF q

\* The last event of a Gemma4e answer, and its parser.
LEMMA LastGives ==
  ASSUME NEW p \in Proper, p.family = "Gemma4e"
  PROVE  /\ Says(p, TRUE) = ParseFinal(p).event \o Says(ParseFinal(p).parser, TRUE)
         /\ p.buffer = <<>> => ParseFinal(p).event = <<>>
<1> DEFINE r == ParseFinal(p)
<1>1. p \in Parsers /\ <<>> \in Text
  BY TextIsSaid DEF Proper
<1>2. r = GemmaStep(p, TRUE)
  BY DEF ParseFinal, Step
<1>3. r.parser \in Parsers /\ r.event \in Seq(Events)
  BY ParseFinalType DEF Proper
<1> HIDE DEF r
<1>4. Gives(p, <<>>, GemmaStep(p, TRUE), TRUE)
  <2>1. AtEnd(<<>>, TRUE, TRUE)
    BY DEF AtEnd
  <2> QED BY <1>1, <2>1, GemmaGives
<1>5. Gives(p, <<>>, r, TRUE)
  BY <1>2, <1>4
<1>6. With(p, <<>>) = p /\ With(r.parser, <<>>) = r.parser
  BY <1>1, <1>3, WithFields
<1>7. Says(p, TRUE) = r.event \o Says(r.parser, TRUE)
  BY <1>5, <1>6 DEF Gives
<1>8. ASSUME p.buffer = <<>>
      PROVE  r.event = <<>>
  <2> DEFINE y == Says(r.parser, TRUE)
             x == r.event
  <2>1. Says(p, TRUE) = <<>>
    BY <1>1, <1>8, SaysDef
  <2>2. y \in Seq(Events) /\ x \in Seq(Events)
    BY <1>3, SaysDef
  <2>3. x \o y = <<>>
    BY <1>7, <2>1
  <2> HIDE DEF x, y
  <2>4. x = <<>>
    BY ONLY <2>2, <2>3, ConcatProperties
  <2> QED BY <2>4 DEF x
<1> QED BY <1>7, <1>8 DEF r

\* The end that GPT_OSS::generate writes after a cancel sends nothing.
LEMMA EndAlone ==
  ASSUME NEW p, Ready(p), p.family = "GPT_OSS", p.buffer = <<>>, p.mode = "content"
  PROVE  Parse(p, End).event = <<>>
<1> DEFINE q == With(p, End)
           r == Parse(p, End)
           d == Drop(q, 1)
           o == [d EXCEPT !.waiting = TRUE]
<1>1. p \in Proper /\ p \in Parsers /\ End \in Text /\ <<>> \in Text /\ ~p.inTool
  BY HeadersAreText, TextIsSaid DEF Ready, Proper
<1>2. Goes(p, End, r)
  <2>1. EndsAlone(End)
    BY DEF EndsAlone
  <2> QED BY <1>1, <2>1, ParseGoes
<1>3. r.parser \in Parsers /\ r.event \in Seq(Events)
  BY <1>1, ParseType DEF Proper
<1>4. /\ q \in Parsers /\ q.buffer = End /\ q.waiting = p.waiting /\ q.inTool = p.inTool
      /\ q.mode = "content" /\ q.family = "GPT_OSS"
  <2>1. <<>> \o End = End
    BY <1>1, ConcatText
  <2> QED BY <1>1, <2>1, WithFields, ZenonT(60)
<1>5. /\ Len(q.buffer) = 1 /\ q.buffer # <<>> /\ q.buffer[1] = "<|end|>" /\ q.buffer \in Text
      /\ 1 \in 1..Len(q.buffer)
  <2>1. Len(End) = 1 /\ End # <<>> /\ End[1] = "<|end|>" /\ 1 \in 1..1
    BY HeadersAreText DEF End
  <2> QED BY <1>1, <1>4, <2>1
<1> HIDE DEF q, r
<1>6. d \in Parsers /\ d.buffer = <<>>
  <2>3. 1 \in Nat /\ 1 <= Len(q.buffer)
    BY <1>5
  <2>4. d \in Parsers /\ Len(d.buffer) = Len(q.buffer) - 1
    BY <1>4, <2>3, DropFields
  <2>1. d \in Parsers /\ Len(d.buffer) = 1 - 1
    BY <1>5, <2>4
  <2>2. d.buffer \in Text
    BY <2>1, ParserFields
  <2> HIDE DEF d
  <2> QED BY <2>1, <2>2 DEF Text
<1> HIDE DEF d
<1>7. o \in Parsers /\ o.buffer = <<>>
  BY <1>6, WaitingSet
<1> HIDE DEF o
<1>8. Says(d, TRUE) = <<>> /\ Says(o, TRUE) = <<>>
  BY <1>6, <1>7, SaysDef
<1>9. Says(q, TRUE) = <<>>
  <2>1. CASE p.waiting
    <3>1. \A u \in DOMAIN Header : ~At(q.buffer, 1, Header[u])
      <4>1. ASSUME NEW u \in DOMAIN Header, At(q.buffer, 1, Header[u]) PROVE FALSE
        <5>1. Header[u] \in Headers
          BY DEF Headers
        <5>2. 1 + 1 <= Len(q.buffer)
          BY <1>5, <4>1, <5>1, HeaderDef
        <5> QED BY <1>5, <5>2
      <4> QED BY <4>1
    <3>2. ~InCall(q)
      BY <1>1, <1>4, <2>1 DEF InCall
    <3>3. Read(q, TRUE) = Wait(d)
      BY <1>4, <2>1, <3>1, <3>2 DEF Read, ReadHeader, d
    <3>4. Says(q, TRUE) = Says(d, TRUE)
      BY <1>4, <1>5, <1>6, <3>3, SaysRead
    <3> QED BY <1>8, <3>4
  <2>2. CASE ~p.waiting
    <3>1. At(q.buffer, 1, End)
      <4> DEFINE b == q.buffer
      <4>1. b \in Text /\ b[1] = "<|end|>" /\ 1 \in 1..Len(b)
        BY <1>5
      <4> HIDE DEF b
      <4>2. \A i \in 1..Len(b) : At(b, i, End) <=> b[i] = "<|end|>"
        BY <4>1, EndDef
      <4>3. At(b, 1, End)
        BY <4>1, <4>2
      <4> QED BY <4>3 DEF b
    <3>2. ~InCall(q) /\ ~q.waiting
      BY <1>1, <1>4, <2>2 DEF InCall
    <3>3. Read(q, TRUE) = Wait(o)
      <4>1. ReadText(q) = Wait(o)
        BY <1>4, <3>1 DEF ReadText, o, d
      <4> QED BY <3>2, <4>1 DEF Read
    <3>4. Says(q, TRUE) = Says(o, TRUE)
      BY <1>4, <1>5, <1>7, <3>3, SaysRead
    <3> QED BY <1>8, <3>4
  <2> QED BY <2>1, <2>2
<1>10. <<>> = r.event \o Says(With(r.parser, <<>>), TRUE)
  <2>1. End \o <<>> = End
    BY <1>1, ConcatText
  <2>2. Says(With(p, End \o <<>>), TRUE) = r.event \o Says(With(r.parser, <<>>), TRUE)
    BY <1>1, <1>2 DEF Goes
  <2> QED BY <1>9, <2>1, <2>2 DEF q
<1> DEFINE x == r.event
           y == Says(With(r.parser, <<>>), TRUE)
<1>11. x \in Seq(Events) /\ y \in Seq(Events) /\ x \o y = <<>>
  BY <1>1, <1>3, <1>10, WithFields, SaysDef
<1> HIDE DEF x, y
<1>12. x = <<>>
  BY ONLY <1>11, ConcatProperties
<1> QED BY <1>12 DEF x, r

\* Between two steps, in a request that began with a fresh parser: nothing was lost, and
\* what was sent is the beginning of what is said; after a cancel, nothing more is sent.
Keeps(ph, w, p, e, can, open) ==
  /\ Ready(p)
  /\ can => ph \in {"finalize", "done"}
  /\ can /\ ph = "finalize" /\ p.family = "Gemma4e" => p.buffer = <<>>
  /\ ~open /\ ~can /\ (ph # "done" \/ p.family = "GPT_OSS") => Faith(p.family, w, e, p)
  /\ ~open /\ ph # "done" => IsPrefix(e, Says(With(Fresh(p.family), w), FALSE))
  /\ ~open => IsPrefix(e, Says(With(Fresh(p.family), w), TRUE))

Consistent ==
  /\ Inv
  /\ parser.family \in Faithful => Keeps(phase, text, parser, sent, cancelled, leftOpen)

\* As long as generation goes on.
LEMMA KeepsFaith ==
  ASSUME NEW p, Ready(p), NEW w \in Text, NEW e \in Seq(Events), NEW open, NEW ph,
         ph \in {"idle", "generate", "finalize", "error"} \/ (ph = "done" /\ p.family = "GPT_OSS"),
         ~open => Faith(p.family, w, e, p)
  PROVE  Keeps(ph, w, p, e, FALSE, open)
<1>1. p \in Parsers /\ p.family \in Families
  BY ParserFields DEF Ready, Proper
<1>2. ~open => IsPrefix(e, Says(With(Fresh(p.family), w), FALSE))
               /\ IsPrefix(e, Says(With(Fresh(p.family), w), TRUE))
  BY <1>1, FaithNow
<1> QED BY <1>2 DEF Keeps

\* A text goes through the parser.
LEMMA KeepsParse ==
  ASSUME NEW p, NEW w \in Text, NEW e \in Seq(Events), NEW open, NEW ph, NEW qh,
         Keeps(ph, w, p, e, FALSE, open), ph # "done", qh \in {"generate", "finalize"},
         NEW c \in Text, p.family = "GPT_OSS" => EndsAlone(c)
  PROVE  Keeps(qh, w \o c, Parse(p, c).parser, e \o Parse(p, c).event, FALSE, open)
<1> DEFINE r == Parse(p, c)
<1>1. Ready(p) /\ (~open => Faith(p.family, w, e, p))
  BY DEF Keeps
<1>2. p \in Proper /\ p \in Parsers /\ p.family \in Families
  BY <1>1, ParserFields DEF Ready, Proper
<1>3. Goes(p, c, r) /\ Ready(r.parser)
  BY <1>1, ParseGoes
<1>4. r.parser \in Parsers /\ r.parser.family = p.family /\ r.event \in Seq(Events)
  BY <1>2, ParseType DEF Proper
<1> HIDE DEF r
<1>5. w \o c \in Text /\ e \o r.event \in Seq(Events)
  BY <1>4, ConcatText, ConcatProperties
<1>6. ~open => Faith(r.parser.family, w \o c, e \o r.event, r.parser)
  BY <1>1, <1>2, <1>3, <1>4, FaithGoesOn
<1>7. Keeps(qh, w \o c, r.parser, e \o r.event, FALSE, open)
  BY <1>3, <1>5, <1>6, KeepsFaith
<1> QED BY <1>7 DEF r

\* Whatever else happens, the type invariant and the family stay.
LEMMA FamilyStays ==
  ASSUME Inv, [Next]_vars
  PROVE  Inv' /\ parser'.family = parser.family
<1>1. parser \in Proper /\ parser.family \in Families
  BY TypesAreProper, ParserFields DEF Inv, Proper
<1>2. Opening \in Text /\ Closing \in Text /\ <<>> \in Text
  BY <1>1, WrittenIsText DEF Opening, Closing
<1>3. ResetParser(parser) \in Proper /\ ResetParser(parser).family = parser.family
  BY <1>1, ResetFields
<1>4. Wait(ResetParser(parser)).parser = ResetParser(parser)
  BY DEF Wait, Result
<1>11. SUFFICES parser'.family = parser.family
  BY TypesStep
<1>5. CASE Start
  <2>1. CASE Opening = <<>>
    BY <1>3, <1>4, <1>5, <2>1 DEF Start
  <2>2. CASE Opening # <<>>
    <3>1. parser' = Parse(ResetParser(parser), Opening).parser
      BY <1>5, <2>2 DEF Start
    <3> QED BY <1>2, <1>3, <3>1, ParseType
  <2> QED BY <2>1, <2>2
<1>6. ASSUME NEW c \in Chunks[parser.family], Token(c)
      PROVE  parser'.family = parser.family
  <2>1. c \in Text /\ parser' = Parse(parser, c).parser
    BY <1>1, <1>6, WrittenIsText DEF Token
  <2> QED BY <1>1, <2>1, ParseType
<1>7. CASE AnswerEnds \/ AnswerEndsEarly \/ AnswerCancelled
  BY <1>1, <1>2, <1>3, <1>7, CloseType DEF AnswerEnds, AnswerEndsEarly, AnswerCancelled
<1>8. CASE EngineFails
  BY <1>8 DEF EngineFails
<1>9. CASE Finalize
  <2>1. parser' = ParseFinal(parser).parser
    BY <1>9 DEF Finalize
  <2> QED BY <1>1, <2>1, ParseFinalType
<1>10. CASE UNCHANGED vars
  BY <1>10 DEF vars
<1> QED BY <1>5, <1>6, <1>7, <1>8, <1>9, <1>10 DEF Next

LEMMA ConsistentInit == Init => Consistent
<1> SUFFICES ASSUME Init
             PROVE  Consistent
  OBVIOUS
<1>1. Inv
  BY TypesInit
<1>2. PICK f \in Families : parser = Fresh(f)
  BY DEF Init
<1>3. phase = "idle" /\ text = <<>> /\ sent = <<>> /\ cancelled = FALSE
  BY DEF Init
<1>4. parser.family = f /\ (f \in Faithful => Ready(parser)) /\ Faith(f, <<>>, <<>>, parser)
  BY <1>2, FreshFields, FaithAtFirst
<1>5. parser.family \in Faithful => Keeps("idle", <<>>, parser, <<>>, FALSE, leftOpen)
  BY <1>4, TextIsSaid, KeepsFaith
<1> QED BY <1>1, <1>3, <1>5 DEF Consistent

\* A request begins, with what the one before left of the parser.
LEMMA ConsistentStart ==
  ASSUME Inv, parser.family \in Faithful, Start
  PROVE  Keeps(phase', text', parser', sent', cancelled', leftOpen')
<1> DEFINE p == ResetParser(parser)
           f == parser.family
<1>1. parser \in Proper /\ f \in Families /\ parser.waiting \in BOOLEAN
  BY TypesAreProper, ParserFields DEF Inv, Proper
<1>2. /\ p \in Proper /\ p \in Parsers /\ p.family = f /\ p.buffer = <<>> /\ p.inTool = FALSE
      /\ p.mode = "content" /\ p.waiting = parser.waiting
  BY <1>1, ResetFields DEF Proper
<1>3. phase' = "generate" /\ text' = Opening /\ cancelled' = FALSE
      /\ leftOpen' = (f = "GPT_OSS" /\ ~parser.waiting)
  BY DEF Start
<1> HIDE DEF p
<1>4. Ready(p)
  <2>1. Where(<<>>, Headers) = 0
    BY DEF Where
  <2> QED BY <1>2, <2>1 DEF Ready, Settled
<1>5. ~leftOpen' => p = Fresh(f)
  <2>1. SUFFICES ASSUME ~leftOpen'
                 PROVE  p = Fresh(f)
    OBVIOUS
  <2>2. /\ Fresh(f) \in Parsers /\ Fresh(f).family = f /\ Fresh(f).buffer = <<>>
        /\ Fresh(f).inTool = FALSE /\ Fresh(f).mode = "content"
        /\ Fresh(f).waiting = (f = "GPT_OSS")
    BY <1>1, TextIsSaid DEF Fresh, Parsers, Text
  <2>3. p.waiting = (f = "GPT_OSS")
    <3>1. f = "GPT_OSS" => parser.waiting
      BY <1>3, <2>1
    <3>2. f # "GPT_OSS" => ~parser.waiting
      BY <1>1 DEF Proper
    <3> QED BY <1>1, <1>2, <3>1, <3>2
  <2>4. /\ p.family = Fresh(f).family /\ p.buffer = Fresh(f).buffer /\ p.inTool = Fresh(f).inTool
        /\ p.mode = Fresh(f).mode /\ p.waiting = Fresh(f).waiting
    BY <1>2, <2>2, <2>3
  <2> HIDE DEF f
  <2> QED BY ONLY <1>2, <2>2, <2>4, SameParser
<1>6. ~leftOpen' => Faith(f, <<>>, <<>>, p)
  BY <1>1, <1>5, FaithAtFirst
<1>7. Keeps("generate", <<>>, p, <<>>, FALSE, leftOpen')
  BY <1>2, <1>4, <1>6, TextIsSaid, KeepsFaith
<1>8. CASE f = "Gemma4e"
  <2>1. Opening = <<>> /\ Wait(p).parser = p /\ Wait(p).event = <<>>
    BY <1>8 DEF Opening, Wait, Result
  <2>2. parser' = p /\ sent' = <<>>
    BY <2>1 DEF Start, p
  <2> QED BY <1>3, <1>7, <2>1, <2>2
<1>9. CASE f = "GPT_OSS"
  <2>1. Opening = <<Assistant>> /\ Opening # <<>> /\ Opening \in Text
    BY <1>1, <1>9, WrittenIsText DEF Opening
  <2>2. EndsAlone(Opening)
    <3>1. Len(<<Assistant>>) = 1 /\ <<Assistant>>[1] # "<|end|>"
      BY HeadersDiffer
    <3>2. \A i \in 1..1 : i = 1
      OBVIOUS
    <3> QED BY <2>1, <3>1, <3>2 DEF EndsAlone
  <2>3. parser' = Parse(p, Opening).parser /\ sent' = Parse(p, Opening).event
    BY <2>1 DEF Start, p
  <2> DEFINE r == Parse(p, Opening)
  <2>4. Keeps("generate", <<>> \o Opening, r.parser, <<>> \o r.event, FALSE, leftOpen')
    BY <1>7, <2>1, <2>2, TextIsSaid, KeepsParse
  <2>5. r.event \in Seq(Events)
    BY <1>2, <2>1, ParseType
  <2> HIDE DEF r
  <2>6. <<>> \o Opening = Opening /\ <<>> \o r.event = r.event
    BY <2>1, <2>5, ConcatText, ConcatEmptySeq
  <2> QED BY <1>3, <2>3, <2>4, <2>6 DEF r
<1> QED BY <1>8, <1>9 DEF Faithful

LEMMA ChunkEndsAlone ==
  ASSUME NEW f \in Families, f = "GPT_OSS", NEW c \in Chunks[f]
  PROVE  EndsAlone(c)
<1>1. c \in Text /\ DOMAIN c = 1..Len(c)
  BY WrittenIsText DEF Text
<1> QED BY <1>1, EndAssumption DEF EndAssumption, EndsAlone, End

\* A token, and the end of generation.
LEMMA ConsistentToken ==
  ASSUME Consistent, parser.family \in Faithful, NEW c \in Chunks[parser.family], Token(c)
  PROVE  Keeps(phase', text', parser', sent', cancelled', leftOpen')
<1>1. parser \in Proper /\ parser.family \in Families /\ text \in Text /\ sent \in Seq(Events)
      /\ cancelled \in BOOLEAN
  BY TypesAreProper, ParserFields DEF Consistent, Inv, Proper
<1>2. /\ phase = "generate" /\ phase' = phase /\ text' = text \o c /\ parser' = Parse(parser, c).parser
      /\ sent' = sent \o Parse(parser, c).event /\ cancelled' = cancelled /\ leftOpen' = leftOpen
  BY DEF Token
<1>3. Keeps(phase, text, parser, sent, cancelled, leftOpen) /\ cancelled = FALSE
  BY <1>1, <1>2 DEF Consistent, Keeps
<1>4. c \in Text /\ (parser.family = "GPT_OSS" => EndsAlone(c))
  BY <1>1, WrittenIsText, ChunkEndsAlone
<1>5. Keeps(phase, text, parser, sent, FALSE, leftOpen)
  BY <1>3
<1>6. Keeps("generate", text \o c, Parse(parser, c).parser, sent \o Parse(parser, c).event, FALSE, leftOpen)
  BY <1>1, <1>2, <1>4, <1>5, KeepsParse
<1> QED BY <1>2, <1>3, <1>6

LEMMA ConsistentEnd ==
  ASSUME Consistent, parser.family \in Faithful, AnswerEnds \/ AnswerEndsEarly
  PROVE  Keeps(phase', text', parser', sent', cancelled', leftOpen')
<1> DEFINE last == IF AnswerEnds THEN Closing ELSE <<>>
           r == IF last = <<>> THEN Wait(parser) ELSE Parse(parser, last)
<1>1. parser \in Proper /\ parser \in Parsers /\ parser.family \in Families
      /\ text \in Text /\ sent \in Seq(Events) /\ cancelled \in BOOLEAN
  BY TypesAreProper, ParserFields DEF Consistent, Inv, Proper
<1>2. Close(parser, last) /\ cancelled' = cancelled
  BY DEF AnswerEnds, AnswerEndsEarly
<1>3. last \in {<<>>, End} /\ last \in Text /\ (last # <<>> => EndsAlone(last))
  BY HeadersAreText, TextIsSaid DEF Closing, EndsAlone
<1> HIDE DEF last
<1>4. /\ phase = "generate" /\ phase' = "finalize" /\ text' = text \o last /\ parser' = r.parser
      /\ sent' = sent \o r.event /\ leftOpen' = leftOpen
  BY <1>2 DEF Close
<1>5. Keeps(phase, text, parser, sent, FALSE, leftOpen) /\ cancelled = FALSE
  BY <1>1, <1>4 DEF Consistent, Keeps
<1>6. CASE last = <<>>
  <2>1. Wait(parser).parser = parser /\ Wait(parser).event = <<>>
    BY DEF Wait, Result
  <2>2. text \o <<>> = text /\ sent \o <<>> = sent
    BY <1>1, ConcatText, ConcatEmptySeq
  <2>3. text' = text /\ parser' = parser /\ sent' = sent
    BY <1>4, <1>6, <2>1, <2>2
  <2>4. Ready(parser) /\ (~leftOpen => Faith(parser.family, text, sent, parser))
    BY <1>4, <1>5 DEF Keeps
  <2>5. Keeps("finalize", text, parser, sent, FALSE, leftOpen)
    BY <1>1, <2>4, KeepsFaith
  <2> QED BY <1>2, <1>4, <1>5, <2>3, <2>5
<1>7. CASE last # <<>>
  <2>1. r = Parse(parser, last)
    BY <1>7
  <2>2. Keeps("finalize", text \o last, Parse(parser, last).parser, sent \o Parse(parser, last).event,
              FALSE, leftOpen)
    BY <1>1, <1>3, <1>4, <1>5, <1>7, KeepsParse
  <2> QED BY <1>2, <1>4, <1>5, <2>1, <2>2
<1> QED BY <1>6, <1>7

\* A cancel: what the parser held is dropped, and the end that GPT_OSS writes says nothing.
LEMMA ConsistentCancel ==
  ASSUME Consistent, parser.family \in Faithful, AnswerCancelled
  PROVE  Keeps(phase', text', parser', sent', cancelled', leftOpen')
<1> DEFINE p == ResetParser(parser)
           f == parser.family
           r == IF Closing = <<>> THEN Wait(p) ELSE Parse(p, Closing)
<1>1. parser \in Proper /\ parser \in Parsers /\ f \in Families
      /\ text \in Text /\ sent \in Seq(Events) /\ cancelled \in BOOLEAN
  BY TypesAreProper, ParserFields DEF Consistent, Inv, Proper
<1>2. Close(p, Closing) /\ cancelled' = TRUE
  BY DEF AnswerCancelled
<1>3. /\ phase = "generate" /\ phase' = "finalize" /\ text' = text \o Closing /\ parser' = r.parser
      /\ sent' = sent \o r.event /\ leftOpen' = leftOpen
  BY <1>2 DEF Close
<1>4. Keeps(phase, text, parser, sent, FALSE, leftOpen)
  BY <1>1, <1>3 DEF Consistent, Keeps
<1>5. ~leftOpen => Faith(f, text, sent, parser)
  BY <1>3, <1>4 DEF Keeps
<1>6. p \in Proper /\ p.family = f /\ p.buffer = <<>> /\ p.mode = "content"
  BY <1>1, ResetFields
<1> HIDE DEF p
<1>7. Ready(p)
  <2>1. Where(<<>>, Headers) = 0
    BY DEF Where
  <2> QED BY <1>6, <2>1 DEF Ready, Settled
<1>8. Closing \in Text
  BY <1>1, WrittenIsText DEF Closing
<1>9. /\ r.event = <<>> /\ Ready(r.parser) /\ r.parser.family = f
      /\ f = "Gemma4e" => r.parser.buffer = <<>>
  <2>1. CASE f = "Gemma4e"
    <3>1. Closing = <<>>
      BY <2>1 DEF Closing
    <3>2. r.parser = p /\ r.event = <<>>
      BY <3>1 DEF Wait, Result
    <3> QED BY <1>6, <1>7, <3>2
  <2>2. CASE f = "GPT_OSS"
    <3>1. Closing = End /\ End # <<>> /\ End \in Text
      BY <2>2, HeadersAreText DEF Closing, End
    <3>2. r = Parse(p, End)
      BY <3>1
    <3>3. Parse(p, End).event = <<>>
      BY <1>6, <1>7, <2>2, EndAlone
    <3>4. Ready(Parse(p, End).parser)
      <4>1. EndsAlone(End)
        BY DEF EndsAlone
      <4> QED BY <1>7, <3>1, <4>1, ParseGoes
    <3>5. Parse(p, End).parser.family = f
      BY <1>6, <3>1, ParseType
    <3> QED BY <2>2, <3>2, <3>3, <3>4, <3>5
  <2> QED BY <2>1, <2>2 DEF Faithful
<1> HIDE DEF r, f
<1>10. sent' = sent
  <2>1. sent \o <<>> = sent
    BY <1>1, ConcatEmptySeq
  <2> QED BY <1>3, <1>9, <2>1
<1>11. ~leftOpen => /\ IsPrefix(sent, Says(With(Fresh(f), text \o Closing), FALSE))
                    /\ IsPrefix(sent, Says(With(Fresh(f), text \o Closing), TRUE))
  BY <1>1, <1>5, <1>8, FaithBegins
<1>12. Keeps("finalize", text \o Closing, r.parser, sent, TRUE, leftOpen)
  BY <1>9, <1>11 DEF Keeps
<1> QED BY <1>2, <1>3, <1>10, <1>12

\* The parser is asked for the rest.
LEMMA ConsistentFinalize ==
  ASSUME Consistent, parser.family \in Faithful, Finalize
  PROVE  Keeps(phase', text', parser', sent', cancelled', leftOpen')
<1> DEFINE r == ParseFinal(parser)
           f == parser.family
           M(ended) == Says(With(Fresh(f), text), ended)
<1>1. parser \in Proper /\ parser \in Parsers /\ f \in Families
      /\ text \in Text /\ sent \in Seq(Events) /\ cancelled \in BOOLEAN
  BY TypesAreProper, ParserFields DEF Consistent, Inv, Proper
<1>2. /\ phase = "finalize" /\ phase' = "done" /\ parser' = r.parser /\ sent' = sent \o r.event
      /\ text' = text /\ cancelled' = cancelled /\ leftOpen' = leftOpen
  BY DEF Finalize
<1>3. Keeps(phase, text, parser, sent, cancelled, leftOpen)
  BY DEF Consistent
<1>4. Ready(parser)
  BY <1>3 DEF Keeps
<1>5. ~leftOpen => IsPrefix(sent, M(FALSE)) /\ IsPrefix(sent, M(TRUE))
  BY <1>2, <1>3 DEF Keeps
<1>6. sent \o <<>> = sent
  BY <1>1, ConcatEmptySeq
<1>7. CASE f = "Gemma4e"
  <2>1. /\ Says(parser, TRUE) = r.event \o Says(r.parser, TRUE)
        /\ parser.buffer = <<>> => r.event = <<>>
    BY <1>1, <1>7, LastGives
  <2>2. r.parser \in Proper /\ r.parser \in Parsers /\ r.parser.family = f /\ r.event \in Seq(Events)
    BY <1>1, ParseFinalType DEF Proper
  <2>3. Ready(r.parser)
    BY <1>7, <2>2 DEF Ready, Faithful
  <2>4. ~leftOpen => IsPrefix(sent \o r.event, M(TRUE))
    <3>1. CASE cancelled
      <4>1. parser.buffer = <<>>
        BY <1>2, <1>3, <1>7, <3>1 DEF Keeps
      <4>2. r.event = <<>>
        BY <2>1, <4>1
      <4> HIDE DEF r, M
      <4> QED BY <1>5, <1>6, <4>2
    <3>2. CASE ~cancelled
      <4>1. SUFFICES ASSUME ~leftOpen
                     PROVE  IsPrefix(sent \o r.event, M(TRUE))
        OBVIOUS
      <4>2. Faith(f, text, sent, parser)
        BY <1>2, <1>3, <3>2, <4>1 DEF Keeps
      <4>3. M(TRUE) = sent \o Says(parser, TRUE)
        BY <1>1, <4>2, FaithNow
      <4> DEFINE x == r.event
                 y == Says(r.parser, TRUE)
      <4>4. x \in Seq(Events) /\ y \in Seq(Events)
        BY <2>2, SaysDef
      <4>5. M(TRUE) = sent \o (x \o y)
        BY <2>1, <4>3
      <4> HIDE DEF x, y, M, r
      <4>6. (sent \o x) \o y = sent \o (x \o y) /\ sent \o x \in Seq(Events)
        BY <1>1, <4>4, ConcatAssociative, ConcatProperties
      <4>7. IsPrefix(sent \o x, (sent \o x) \o y)
        BY <4>4, <4>6, PrefixOfConcat
      <4> QED BY <4>5, <4>6, <4>7 DEF x
    <3> QED BY <1>1, <3>1, <3>2
  <2> HIDE DEF r
  <2>5. Keeps("done", text, r.parser, sent \o r.event, cancelled, leftOpen)
    BY <1>7, <2>2, <2>3, <2>4 DEF Keeps
  <2> QED BY <1>2, <2>5
<1>8. CASE f = "GPT_OSS"
  <2>1. r = Wait(parser)
    BY <1>8 DEF ParseFinal
  <2>2. r.parser = parser /\ r.event = <<>>
    BY <2>1 DEF Wait, Result
  <2>3. sent' = sent /\ parser' = parser
    BY <1>2, <1>6, <2>2
  <2>4. ~leftOpen /\ ~cancelled => Faith(f, text, sent, parser)
    BY <1>2, <1>3 DEF Keeps
  <2> HIDE DEF r
  <2>5. Keeps("done", text, parser, sent, cancelled, leftOpen)
    BY <1>4, <1>5, <1>8, <2>4 DEF Keeps
  <2> QED BY <1>2, <2>3, <2>5
<1> QED BY <1>7, <1>8 DEF Faithful

LEMMA ConsistentStep ==
  ASSUME Consistent, [Next]_vars
  PROVE  Consistent'
<1>1. Inv' /\ parser'.family = parser.family
  BY FamilyStays DEF Consistent
<1>2. SUFFICES ASSUME parser.family \in Faithful
               PROVE  Keeps(phase', text', parser', sent', cancelled', leftOpen')
  BY <1>1 DEF Consistent
<1>3. CASE Start
  BY <1>2, <1>3, ConsistentStart DEF Consistent
<1>4. ASSUME NEW c \in Chunks[parser.family], Token(c)
      PROVE  Keeps(phase', text', parser', sent', cancelled', leftOpen')
  BY <1>2, <1>4, ConsistentToken
<1>5. CASE AnswerEnds \/ AnswerEndsEarly
  BY <1>2, <1>5, ConsistentEnd
<1>6. CASE AnswerCancelled
  BY <1>2, <1>6, ConsistentCancel
<1>7. CASE EngineFails
  <2>1. /\ phase = "generate" /\ phase' = "error" /\ text' = text /\ parser' = parser /\ sent' = sent
        /\ cancelled' = cancelled /\ leftOpen' = leftOpen
    BY <1>7 DEF EngineFails
  <2>2. Keeps(phase, text, parser, sent, cancelled, leftOpen)
    BY <1>2 DEF Consistent
  <2>3. Keeps("error", text, parser, sent, cancelled, leftOpen)
    BY <2>1, <2>2 DEF Keeps
  <2> QED BY <2>1, <2>3
<1>8. CASE Finalize
  BY <1>2, <1>8, ConsistentFinalize
<1>9. CASE UNCHANGED vars
  <2>1. /\ phase' = phase /\ text' = text /\ parser' = parser /\ sent' = sent
        /\ cancelled' = cancelled /\ leftOpen' = leftOpen
    BY <1>9 DEF vars
  <2>2. Keeps(phase, text, parser, sent, cancelled, leftOpen)
    BY <1>2 DEF Consistent
  <2> QED BY <2>1, <2>2
<1> QED BY <1>3, <1>4, <1>5, <1>6, <1>7, <1>8, <1>9 DEF Next

\* In an answer of GPT_OSS it makes no difference that it has ended.
LEMMA HarmonySaysTheSame ==
  ASSUME NEW p \in Parsers, p.family = "GPT_OSS"
  PROVE  Says(p, FALSE) = Says(p, TRUE)
<1> DEFINE G == {q \in Parsers : q.family = "GPT_OSS" => Says(q, FALSE) = Says(q, TRUE)}
<1>1. ASSUME NEW q \in Parsers, \A u \in Parsers : Held[u] < Held[q] => u \in G
      PROVE  q \in G
  <2>1. CASE q.family # "GPT_OSS" \/ q.buffer = <<>>
    BY <2>1, SaysDef
  <2>2. CASE q.family = "GPT_OSS" /\ q.buffer # <<>>
    <3> DEFINE r == Read(q, FALSE)
    <3>1. Read(q, TRUE) = r
      BY <2>2 DEF Read, ReadCall
    <3>2. r.parser \in Parsers /\ r.parser.family = "GPT_OSS" /\ Held[r.parser] < Held[q]
      BY <2>2, ReadFields, HeldDef DEF Ahead
    <3>3. Says(q, FALSE) = r.event \o Says(r.parser, FALSE)
      BY <2>2, SaysDef
    <3>4. Says(q, TRUE) = r.event \o Says(r.parser, TRUE)
      <4>1. Says(q, TRUE) = Read(q, TRUE).event \o Says(Read(q, TRUE).parser, TRUE)
        BY <2>2, SaysDef
      <4> HIDE DEF r
      <4> QED BY <3>1, <4>1
    <3>5. Says(r.parser, FALSE) = Says(r.parser, TRUE)
      BY <1>1, <3>2
    <3> HIDE DEF r
    <3>6. Says(q, FALSE) = Says(q, TRUE)
      BY <3>3, <3>4, <3>5
    <3> QED BY <3>6
  <2> QED BY <2>1, <2>2
<1>2. Parsers \subseteq G
  <2> HIDE DEF G
  <2> QED BY <1>1, HeldDef, MeasureSet
<1> QED BY <1>2

\* What the theorems say of a state.
LEMMA ConsistentSays ==
  ASSUME Consistent, parser.family \in Faithful
  PROVE  /\ SentIsSaid
         /\ (parser.family = "GPT_OSS" \/ phase # "done") => NothingLost
         /\ parser.family = "GPT_OSS" => HeldBackMayBegin
<1>1. parser \in Proper /\ parser \in Parsers /\ parser.family \in Families
      /\ text \in Text /\ sent \in Seq(Events) /\ parser.buffer \in Text
  BY TypesAreProper, ParserFields DEF Consistent, Inv, Proper
<1>2. Keeps(phase, text, parser, sent, cancelled, leftOpen)
  BY DEF Consistent
<1> DEFINE q == With(Fresh(parser.family), text)
<1>3. Meaning(TRUE) = Says(q, TRUE) /\ Meaning(FALSE) = Says(q, FALSE)
  BY <1>1, MeaningDef
<1>4. phase = "done" => Meaning(phase = "done") = Meaning(TRUE)
  OBVIOUS
<1>5. phase # "done" => Meaning(phase = "done") = Meaning(FALSE)
  <2>1. phase # "done" => (phase = "done") = FALSE
    OBVIOUS
  <2> QED BY <2>1
<1>6. ~leftOpen => /\ phase # "done" => IsPrefix(sent, Says(q, FALSE))
                   /\ IsPrefix(sent, Says(q, TRUE))
  BY <1>2 DEF Keeps
<1>7. ~leftOpen /\ ~cancelled /\ (phase # "done" \/ parser.family = "GPT_OSS") =>
        /\ Says(q, FALSE) = sent \o Says(parser, FALSE)
        /\ Says(q, TRUE) = sent \o Says(parser, TRUE)
  <2>1. SUFFICES ASSUME ~leftOpen, ~cancelled, phase # "done" \/ parser.family = "GPT_OSS"
                 PROVE  /\ Says(q, FALSE) = sent \o Says(parser, FALSE)
                        /\ Says(q, TRUE) = sent \o Says(parser, TRUE)
    OBVIOUS
  <2>2. Faith(parser.family, text, sent, parser)
    BY <1>2, <2>1 DEF Keeps
  <2> QED BY <1>1, <2>2, FaithNow
<1> HIDE DEF q
<1>8. SentIsSaid
  <2>1. CASE phase = "done"
    BY <1>3, <1>4, <1>6, <2>1 DEF SentIsSaid
  <2>2. CASE phase # "done"
    BY <1>3, <1>5, <1>6, <2>2 DEF SentIsSaid
  <2> QED BY <2>1, <2>2
<1>9. (parser.family = "GPT_OSS" \/ phase # "done") => NothingLost
  <2>1. CASE phase # "done"
    <3>1. ~leftOpen /\ ~cancelled => sent \o Says(parser, FALSE) = Meaning(FALSE)
      BY <1>3, <1>7, <2>1
    <3> QED BY <1>5, <2>1, <3>1 DEF NothingLost
  <2>2. CASE phase = "done" /\ parser.family = "GPT_OSS"
    <3>1. Says(parser, FALSE) = Says(parser, TRUE)
      BY <1>1, <2>2, HarmonySaysTheSame
    <3>2. ~leftOpen /\ ~cancelled => sent \o Says(parser, FALSE) = Meaning(TRUE)
      BY <1>3, <1>7, <2>2, <3>1
    <3> QED BY <1>4, <2>2, <3>2 DEF NothingLost
  <2> QED BY <2>1, <2>2
<1>10. parser.family = "GPT_OSS" => HeldBackMayBegin
  <2>1. SUFFICES ASSUME parser.family = "GPT_OSS", ~InCall(parser), ~parser.waiting,
                        parser.buffer # <<>>
                 PROVE  FALSE
    BY DEF HeldBackMayBegin
  <2>2. Settled(parser)
    BY <1>2, <2>1 DEF Keeps, Ready
  <2> QED BY <2>1, <2>2 DEF Settled, InCall
<1> QED BY <1>8, <1>9, <1>10

\* However the tokens of an answer cut its text into chunks, whatever marker is spelled in
\* however many of them, and whatever the request before left in the parser of a
\* Gemma4e, the client has received the beginning of what the text says; of a GPT_OSS,
\* unless an engine failure left its parser inside a section; also after a cancel
\* (parse_stream_content_impl of Gemma4e, parse_stream_content of GPT_OSS, reset_parser).
THEOREM WhatIsSentIsSaid == Spec => [](parser.family \in Faithful => SentIsSaid)
<1>1. Consistent /\ [Next]_vars => Consistent'
  BY ConsistentStep
<1>2. Consistent => (parser.family \in Faithful => SentIsSaid)
  BY ConsistentSays
<1> QED BY ConsistentInit, <1>1, <1>2, PTL DEF Spec

\* At any time until the parser of a Gemma4e is asked for the rest, and at any time of a
\* GPT_OSS, what the client received and what the parser keeps are together all that
\* the text says: one event for each chunk leaves nothing out.
THEOREM NoTextIsLost ==
  Spec => [](parser.family = "GPT_OSS" \/ (parser.family = "Gemma4e" /\ phase # "done")
               => NothingLost)
<1>1. Consistent /\ [Next]_vars => Consistent'
  BY ConsistentStep
<1>2. Consistent => (parser.family = "GPT_OSS" \/ (parser.family = "Gemma4e" /\ phase # "done")
                       => NothingLost)
  BY ConsistentSays DEF Faithful
<1> QED BY ConsistentInit, <1>1, <1>2, PTL DEF Spec

\* In a section of text the parser of GPT_OSS keeps nothing back between two chunks: the
\* end of a section is a token of its own, so no text can turn out to begin one.
THEOREM SectionsAreGivenAtOnce == Spec => [](parser.family = "GPT_OSS" => HeldBackMayBegin)
<1>1. Consistent /\ [Next]_vars => Consistent'
  BY ConsistentStep
<1>2. Consistent => (parser.family = "GPT_OSS" => HeldBackMayBegin)
  BY ConsistentSays DEF Faithful
<1> QED BY ConsistentInit, <1>1, <1>2, PTL DEF Spec

=============================================================================
