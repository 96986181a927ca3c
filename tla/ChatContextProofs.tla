-------------------------- MODULE ChatContextProofs --------------------------
(***************************************************************************)
(* For every set of models, messages, templates and checksum functions: the *)
(* model that answers is the one the request named, its history is the      *)
(* request's prompt, and the families that restore checkpoints hold exactly *)
(* that prompt unless an insertion went on from an earlier answer.          *)
(***************************************************************************)
EXTENDS ChatContext, SequenceTheorems, TLAPS

\* A loaded engine is the one the tag names; a handler that got past loading has
\* the engine of its request, if it has one; only an unset tag stands for NoModel.
EngineIsNamed ==
  /\ loaded => engine = currentTag /\ engine \in Tags
  /\ loaded /\ phase \in {"cache", "insert", "generate", "decode"}
       => engine = Tag(request.name)
  /\ phase \in {"generate", "decode"} => loaded
  /\ phase = "load" /\ request.name = NoModel => currentTag = NoModel

CallsLeft == phase \in {"load", "cache", "insert"} => request.inserts \in 1..2

\* The history and the NPU's checkpoint were taken together, of the same tokens.
CheckpointAligned ==
  KeepsPrompts /\ ~ctx.continued => ctx.kvCheckpoint = ctx.checkpoint

\* The invariant that every step preserves.  PromptIsSeen needs CheckpointAligned:
\* a cache hit restores a checkpoint taken by an earlier request.
IInv ==
  /\ TypeOK
  /\ EngineIsNamed
  /\ CallsLeft
  /\ CheckpointAligned
  /\ HistoryIsPrompt
  /\ PromptIsSeen

-----------------------------------------------------------------------------
\* A prefix and the tokens after it make up the whole.
LEMMA PrefixAndRest ==
  ASSUME NEW S, NEW s \in Seq(S), NEW p \in Seq(S), StartsWith(s, p)
  PROVE  /\ SubSeq(s, Len(p) + 1, Len(s)) \in Seq(S)
         /\ p \o SubSeq(s, Len(p) + 1, Len(s)) = s
<1>1. Len(p) \in Nat /\ Len(s) \in Nat /\ Len(p) <= Len(s) /\ SubSeq(s, 1, Len(p)) = p
  BY LenProperties DEF StartsWith
<1>2. \A i \in Len(p) + 1 .. Len(s) : s[i] \in S
  BY <1>1, ElementOfSeq
<1>3. SubSeq(s, Len(p) + 1, Len(s)) \in Seq(S)
  BY <1>1, <1>2, SubSeqProperties
<1>4. SubSeq(s, 1, Len(p)) \o SubSeq(s, Len(p) + 1, Len(s)) = SubSeq(s, 1, Len(s))
  <2>1. 1 \in 1..Len(s) + 1 /\ Len(p) \in 1 - 1 .. Len(s) /\ Len(s) \in Len(p) .. Len(s)
    BY <1>1
  <2> QED BY <2>1, ConcatAdjacentSubSeq
<1> QED BY <1>1, <1>3, <1>4, SubSeqFull

\* What the prompt cache stores are sequences of checksums.
LEMMA CachedType ==
  ASSUME NEW chat \in Conversations, NEW tools \in ToolSets
  PROVE  Cached(chat, tools) \in [messages : ChecksumSeq, tools : ChecksumSeq]
<1>1. ASSUME NEW s \in Seq(Messages)
      PROVE  Checksums(s) \in ChecksumSeq
  <2>1. Len(s) \in Nat /\ DOMAIN s = 1..Len(s) /\ \A i \in 1..Len(s) : s[i] \in Messages
    BY LenProperties, ElementOfSeq
  <2>2. Checksums(s) \in [1..Len(s) -> {Checksum(m) : m \in Messages}]
    BY <2>1 DEF Checksums
  <2> QED BY <2>1, <2>2, SeqDef DEF ChecksumSeq
<1>2. chat \in Seq(Messages) /\ tools \in Seq(Messages)
  BY ContextAssumption DEF ContextAssumption
<1> QED BY <1>1, <1>2 DEF Cached

\* The states that clear_context, reset and a new engine leave are well typed.
LEMMA EmptyTypes ==
  /\ EmptyContext \in ContextType
  /\ EmptyCache \in [messages : ChecksumSeq, tools : ChecksumSeq]
  /\ NoRequest \in RequestType
  /\ Tags \subseteq Names /\ NoModel \notin Tags
<1>1. Eos \in Sampled
  BY ContextAssumption DEF ContextAssumption
<1>2. EmptyContext \in ContextType
  BY <1>1 DEF EmptyContext, ContextType
<1>3. EmptyCache \in [messages : ChecksumSeq, tools : ChecksumSeq]
  BY DEF EmptyCache, ChecksumSeq
<1>4. NoRequest \in RequestType
  BY DEF NoRequest, RequestType
<1>5. Tags \subseteq Names /\ NoModel \notin Tags
  BY ContextAssumption DEF ContextAssumption, Tags
<1> QED BY <1>2, <1>3, <1>4, <1>5

-----------------------------------------------------------------------------
\* insert() works on a context whose history is a prefix of the prompt.
LEMMA BaseFacts ==
  ASSUME TypeOK, phase = "insert"
  PROVE  /\ Prompt \in Seq(Tokens)
         /\ Base \in ContextType
         /\ NewTokens(Base, Prompt) \in Seq(Tokens)
         /\ Base.history \o NewTokens(Base, Prompt) = Prompt
         /\ \/ Base = EmptyContext
            \/ Restores /\ Base = Restored(ctx)
            \/ ~Restores /\ Base = ctx
<1> DEFINE c == IF Restores THEN Restored(ctx) ELSE ctx
<1>1. Prompt \in Seq(Tokens)
  BY ContextAssumption DEF ContextAssumption, TypeOK, Prompt
<1>2. c \in ContextType
  <2>1. Len(ctx.kvCheckpoint) \in Nat
    BY LenProperties DEF TypeOK, ContextType
  <2> QED BY <2>1 DEF TypeOK, ContextType, Restored
<1>3. EmptyContext.history = <<>>
  BY DEF EmptyContext
<1>4. StartsWith(Prompt, EmptyContext.history)
  <2>1. Len(Prompt) \in Nat
    BY <1>1, LenProperties
  <2>2. SubSeq(Prompt, 1, 0) = <<>>
    BY SubSeqEmpty
  <2> QED BY <1>3, <2>1, <2>2, EmptySeq DEF StartsWith
<1>5. /\ Base \in ContextType
      /\ StartsWith(Prompt, Base.history)
      /\ Base = EmptyContext \/ Base = c
  BY <1>2, <1>4, EmptyTypes DEF Base, Continued
<1>6. Base.history \in Seq(Tokens)
  BY <1>5 DEF ContextType
<1> QED BY <1>1, <1>5, <1>6, PrefixAndRest DEF NewTokens

\* Prefilling extends the history and what the NPU holds by the same tokens.
LEMMA PrefilledFields ==
  ASSUME NEW c \in ContextType, NEW new \in Seq(Tokens), NEW first \in Sampled
  PROVE  /\ Prefilled(c, new, first) \in ContextType
         /\ Prefilled(c, new, first).history = c.history \o new
         /\ Prefilled(c, new, first).kv = c.kv \o new
         /\ Prefilled(c, new, first).total = c.total + Len(new)
         /\ Prefilled(c, new, first).continued <=>
              c.continued \/ (~Restores /\ c # EmptyContext)
<1> DEFINE went == c.continued \/ (~Restores /\ c # EmptyContext)
<1>1. /\ Len(new) \in Nat /\ c.total + Len(new) \in Nat
      /\ c.history \o new \in Seq(Tokens) /\ c.kv \o new \in Seq(Tokens)
  BY LenProperties, ConcatProperties DEF ContextType
<1>2. went \in BOOLEAN
  BY DEF ContextType
<1>3. Prefilled(c, new, first) =
        [c EXCEPT !.history = c.history \o new, !.kv = c.kv \o new,
                  !.total = c.total + Len(new), !.last = first, !.continued = went]
  BY DEF Prefilled
<1> HIDE DEF went
<1>4. /\ Prefilled(c, new, first) \in ContextType
      /\ Prefilled(c, new, first).history = c.history \o new
      /\ Prefilled(c, new, first).kv = c.kv \o new
      /\ Prefilled(c, new, first).total = c.total + Len(new)
      /\ Prefilled(c, new, first).continued = went
  BY <1>1, <1>2, <1>3 DEF ContextType
<1> QED BY <1>4 DEF went

\* After a successful insertion the history is the prompt; and what the NPU holds
\* is the prompt too, and the checkpoint is of both, unless it went on from an answer.
LEMMA InsertEffect ==
  ASSUME IInv, Insert
  PROVE  /\ ctx' \in ContextType
         /\ ctx'.history = Prompt
         /\ KeepsPrompts /\ ~ctx'.continued =>
              ctx'.kv = Prompt /\ ctx'.kvCheckpoint = ctx'.checkpoint
<1> DEFINE new == NewTokens(Base, Prompt)
<1>1. PICK first \in Sampled :
        ctx' = IF engine \in Restoring THEN Checkpointed(Prefilled(Base, new, first))
               ELSE Prefilled(Base, new, first)
  BY DEF Insert
<1>2. /\ Prompt \in Seq(Tokens) /\ Base \in ContextType /\ new \in Seq(Tokens)
      /\ Base.history \o new = Prompt
      /\ Base = EmptyContext \/ (Restores /\ Base = Restored(ctx)) \/ (~Restores /\ Base = ctx)
  BY BaseFacts DEF IInv, Insert
<1> DEFINE c == Prefilled(Base, new, first)
<1>4. /\ c \in ContextType /\ c.history = Prompt /\ c.kv = Base.kv \o new
      /\ c.continued <=> (Base.continued \/ (~Restores /\ Base # EmptyContext))
  BY <1>2, PrefilledFields
<1>5. /\ ctx' \in ContextType /\ ctx'.history = Prompt /\ ctx'.kv = Base.kv \o new
      /\ ctx'.continued = c.continued
      /\ engine \in Restoring => ctx'.kvCheckpoint = ctx'.kv /\ ctx'.checkpoint = ctx'.history
  <2>1. ctx' = IF engine \in Restoring THEN Checkpointed(c) ELSE c
    BY <1>1
  <2> HIDE DEF c
  <2> QED BY <2>1, <1>4 DEF Checkpointed, ContextType
<1>6. ASSUME KeepsPrompts, ~ctx'.continued
      PROVE  Base.kv = Base.history
  <2>1. ~Base.continued /\ (Restores \/ Base = EmptyContext)
    BY <1>4, <1>5, <1>6
  <2>2. CASE Base = EmptyContext
    BY <2>2 DEF EmptyContext
  <2>3. CASE Restores /\ Base = Restored(ctx)
    <3>1. ctx \in ContextType
      BY DEF IInv, TypeOK
    <3>2. /\ Base.continued = ctx.continued
          /\ Base.kv = ctx.kvCheckpoint /\ Base.history = ctx.checkpoint
      BY <2>3, <3>1 DEF Restored, ContextType
    <3> QED BY <2>1, <3>2, <1>6 DEF IInv, CheckpointAligned
  <2> QED BY <1>2, <2>1, <2>2, <2>3
<1> QED BY <1>2, <1>5, <1>6 DEF KeepsPrompts

-----------------------------------------------------------------------------
\* A context that is cleared, or one whose answer goes on, stays typed and aligned.
LEMMA ForwardedFields ==
  ASSUME ctx \in ContextType, NEW t \in Sampled
  PROVE  /\ Forwarded(t) \in ContextType
         /\ [Forwarded(t) EXCEPT !.kv = Append(@, Eos)] \in ContextType
         /\ \A c \in {Forwarded(t), [Forwarded(t) EXCEPT !.kv = Append(@, Eos)]} :
              /\ c.kvCheckpoint = ctx.kvCheckpoint /\ c.checkpoint = ctx.checkpoint
              /\ c.continued = ctx.continued
<1>1. Sampled \subseteq Tokens /\ Eos \in Tokens
  BY ContextAssumption DEF ContextAssumption
<1>2. /\ Append(ctx.kv, ctx.last) \in Seq(Tokens) /\ Append(ctx.history, t) \in Seq(Tokens)
      /\ ctx.total + 1 \in Nat
  BY <1>1 DEF ContextType
<1>3. Append(Append(ctx.kv, ctx.last), Eos) \in Seq(Tokens)
  BY <1>1, <1>2
<1> QED BY <1>2, <1>3 DEF Forwarded, ContextType

\* The engine that generates is one of the named, whose openings are bounded.
LEMMA OpeningsAre ==
  ASSUME IInv, phase = "generate"
  PROVE  \A o \in Openings(engine) : o \in Seq(Tokens) /\ Len(o) <= MaxOpening
<1>1. engine \in Tags
  BY DEF IInv, EngineIsNamed
<1>2. PICK n \in Names : engine = Tag(n)
  BY <1>1 DEF Tags
<1> QED BY <1>2, ContextAssumption DEF ContextAssumption

\* Recording the last token of an answer touches the history alone.
LEMMA AnsweredFields ==
  ASSUME ctx \in ContextType
  PROVE  LET c == [ctx EXCEPT !.history = Append(@, ctx.last)]
         IN  /\ c \in ContextType /\ c.kvCheckpoint = ctx.kvCheckpoint
             /\ c.checkpoint = ctx.checkpoint /\ c.continued = ctx.continued
<1>1. Sampled \subseteq Tokens
  BY ContextAssumption DEF ContextAssumption
<1>2. Append(ctx.history, ctx.last) \in Seq(Tokens)
  BY <1>1 DEF ContextType
<1> QED BY <1>2 DEF ContextType

\* So does the opening that some families put in its place.
LEMMA OpenedFields ==
  ASSUME ctx \in ContextType, NEW o \in Seq(Tokens), NEW t \in Sampled
  PROVE  /\ Opened(o, t) \in ContextType
         /\ Opened(o, t).kvCheckpoint = ctx.kvCheckpoint
         /\ Opened(o, t).checkpoint = ctx.checkpoint
         /\ Opened(o, t).continued = ctx.continued
         /\ Opened(o, t).kv = ctx.kv \o o
         /\ Opened(o, t).total = ctx.total + 1
<1>1. ctx.history \o o \in Seq(Tokens) /\ ctx.kv \o o \in Seq(Tokens) /\ ctx.total + 1 \in Nat
  BY ConcatProperties DEF ContextType
<1> QED BY <1>1 DEF Opened, ContextType

\* What the families that take a checkpoint after the answer keep, is well typed.
LEMMA KeptType ==
  ASSUME NEW c \in ContextType
  PROVE  LET k == [c EXCEPT !.kvCheckpoint = c.kv,
                            !.checkpoint = SubSeq(c.history, 1, Len(c.history) - 1)]
         IN  k \in ContextType /\ k.kv = c.kv /\ k.total = c.total /\ k.continued = c.continued
<1>1. c.history \in Seq(Tokens) /\ Len(c.history) \in Nat
  BY LenProperties DEF ContextType
<1>2. \A i \in 1 .. Len(c.history) - 1 : c.history[i] \in Tokens
  BY <1>1, ElementOfSeq
<1>3. SubSeq(c.history, 1, Len(c.history) - 1) \in Seq(Tokens)
  <2>1. CASE c.history = <<>>
    <3>1. Len(c.history) - 1 = -1
      BY <2>1
    <3> QED BY <3>1, SubSeqEmpty
  <2>2. CASE c.history # <<>>
    BY <1>1, <1>2, SubSeqProperties
  <2> QED BY <2>1, <2>2
<1> QED BY <1>3 DEF ContextType

\* Every answer that ends leaves the invariant true, whatever ends it.
LEMMA FinishPreserves ==
  ASSUME IInv, NEW c \in ContextType, NEW stop, Finish(c, stop),
         KeepsPrompts => c.kvCheckpoint = ctx.kvCheckpoint /\ c.checkpoint = ctx.checkpoint,
         c.continued = ctx.continued
  PROVE  IInv'
<1>1. ctx' = EmptyContext \/ ctx' = c
  BY DEF Finish
<1>2. /\ ctx' \in ContextType /\ cache' \in [messages : ChecksumSeq, tools : ChecksumSeq]
      /\ request' \in RequestType /\ phase' = "idle"
  BY <1>1, EmptyTypes DEF Finish, Done, IInv, TypeOK
<1>3. CheckpointAligned'
  <2>1. CASE ctx' = EmptyContext
    BY <2>1 DEF CheckpointAligned, EmptyContext
  <2>2. CASE ctx' = c
    BY <2>2 DEF CheckpointAligned, KeepsPrompts, Finish, IInv
  <2> QED BY <1>1, <2>1, <2>2
<1>4. TypeOK'
  BY <1>2 DEF TypeOK, Finish, IInv, Phases
<1> QED
  BY <1>2, <1>3, <1>4
  DEF IInv, Finish, EngineIsNamed, CallsLeft, HistoryIsPrompt, PromptIsSeen

\* The same after the loop of generate(), checkpoint or not.
LEMMA AnsweredPreserves ==
  ASSUME IInv, NEW c \in ContextType, NEW stop, Answered(c, stop),
         c.kvCheckpoint = ctx.kvCheckpoint, c.checkpoint = ctx.checkpoint,
         c.continued = ctx.continued
  PROVE  IInv'
<1> DEFINE k == [c EXCEPT !.kvCheckpoint = c.kv,
                          !.checkpoint = SubSeq(c.history, 1, Len(c.history) - 1)]
<1>1. k \in ContextType /\ k.continued = c.continued
  BY KeptType
<1>2. Finish(c, stop) \/ (engine \in CheckpointsAnswer /\ Finish(k, stop))
  BY DEF Answered
<1> HIDE DEF k
<1> QED BY <1>1, <1>2, FinishPreserves DEF KeepsPrompts

\* Generating, and every way it ends, preserves the invariant.
LEMMA AnswerPreserves ==
  ASSUME IInv,
         \/ FirstToken \/ DecodeCancelled \/ DecodeThrows
         \/ \E t \in Sampled : Open(t) \/ Decode(t) \/ DecodeLimit(t)
  PROVE  IInv'
<1>1. ctx \in ContextType
  BY DEF IInv, TypeOK
<1>2. ASSUME NEW c \in ContextType, ctx' = c, phase' = "decode",
             phase \in {"generate", "decode"},
             c.kvCheckpoint = ctx.kvCheckpoint, c.checkpoint = ctx.checkpoint,
             c.continued = ctx.continued,
             UNCHANGED <<cache, currentTag, lastModel, engine, loaded, request>>
      PROVE  IInv'
  <2>1. TypeOK'
    BY <1>2 DEF IInv, TypeOK, Phases
  <2>2. EngineIsNamed' /\ CallsLeft' /\ CheckpointAligned'
    BY <1>2 DEF IInv, EngineIsNamed, CallsLeft, CheckpointAligned, KeepsPrompts
  <2> QED BY <1>2, <2>1, <2>2 DEF IInv, HistoryIsPrompt, PromptIsSeen
<1>3. CASE FirstToken
  <2> DEFINE c == [ctx EXCEPT !.history = Append(@, ctx.last)]
  <2>1. /\ c \in ContextType /\ c.kvCheckpoint = ctx.kvCheckpoint
        /\ c.checkpoint = ctx.checkpoint /\ c.continued = ctx.continued
    BY <1>1, AnsweredFields
  <2>2. \/ Finish(c, "eos")
        \/ /\ ctx' = c /\ phase' = "decode" /\ phase = "generate"
           /\ UNCHANGED <<cache, currentTag, lastModel, engine, loaded, request>>
    BY <1>3 DEF FirstToken
  <2> HIDE DEF c
  <2> QED BY <2>1, <2>2, <1>2, FinishPreserves
<1>4. CASE DecodeCancelled \/ DecodeThrows
  BY <1>1, <1>4, FinishPreserves, AnsweredPreserves DEF DecodeCancelled, DecodeThrows
<1>5. ASSUME NEW t \in Sampled, Decode(t) \/ DecodeLimit(t)
      PROVE  IInv'
  <2> DEFINE c == Forwarded(t)
             e == [Forwarded(t) EXCEPT !.kv = Append(@, Eos)]
  <2>1. /\ c \in ContextType /\ c.kvCheckpoint = ctx.kvCheckpoint
        /\ c.checkpoint = ctx.checkpoint /\ c.continued = ctx.continued
        /\ e \in ContextType /\ e.kvCheckpoint = ctx.kvCheckpoint
        /\ e.checkpoint = ctx.checkpoint /\ e.continued = ctx.continued
    BY <1>1, ForwardedFields
  <2>2. \/ Answered(e, "eos") \/ Answered(c, "limit")
        \/ /\ ctx' = c /\ phase' = "decode" /\ phase = "decode"
           /\ UNCHANGED <<cache, currentTag, lastModel, engine, loaded, request>>
    BY <1>5 DEF Decode, DecodeLimit
  <2> HIDE DEF c, e
  <2> QED BY <2>1, <2>2, <1>2, AnsweredPreserves
<1>6. ASSUME NEW t \in Sampled, Open(t)
      PROVE  IInv'
  <2>1. PICK o \in Openings(engine) :
          \/ Finish(Opened(o, t), "limit")
          \/ /\ ctx' = Opened(o, t) /\ phase' = "decode" /\ phase = "generate"
             /\ UNCHANGED <<cache, currentTag, lastModel, engine, loaded, request>>
    BY <1>6 DEF Open
  <2>2. o \in Seq(Tokens)
    BY <1>6, OpeningsAre DEF Open
  <2> QED BY <2>1, <2>2, <1>1, <1>2, OpenedFields, FinishPreserves
<1> QED BY <1>3, <1>4, <1>5, <1>6

-----------------------------------------------------------------------------
\* A context that has just been cleared has no checkpoint to disagree with.
LEMMA EmptyAligned ==
  ctx' = EmptyContext => CheckpointAligned'
BY DEF CheckpointAligned, EmptyContext

\* ensure_model_loaded preserves the invariant with each of its outcomes.
LEMMA LoadPreserves ==
  ASSUME IInv, AlreadyLoaded \/ LoadSucceeds \/ LoadIncompatible \/ LoadThrows
  PROVE  IInv'
<1>1. /\ \A n \in Names : Tag(n) \in Tags
      /\ \A t \in Tags : Tag(t) = t
  BY ContextAssumption DEF ContextAssumption, Tags
<1>2. CASE AlreadyLoaded
  <2>1. TypeOK' /\ CallsLeft' /\ CheckpointAligned'
    BY <1>2 DEF AlreadyLoaded, IInv, TypeOK, CallsLeft, CheckpointAligned, Phases, KeepsPrompts
  <2>2. EngineIsNamed'
    BY <1>1, <1>2 DEF AlreadyLoaded, IInv, EngineIsNamed
  <2> QED BY <1>2, <2>1, <2>2 DEF AlreadyLoaded, IInv, HistoryIsPrompt, PromptIsSeen
<1>3. CASE LoadSucceeds
  <2>1. request.name \in Names
    BY <1>3, EmptyTypes DEF LoadSucceeds, IInv, TypeOK, EngineIsNamed, RequestType
  <2>2. TypeOK' /\ CallsLeft'
    BY <1>1, <1>3, <2>1, EmptyTypes DEF LoadSucceeds, IInv, TypeOK, CallsLeft, Phases
  <2>3. EngineIsNamed'
    BY <1>1, <1>3, <2>1 DEF LoadSucceeds, EngineIsNamed
  <2>4. CheckpointAligned'
    BY <1>3, EmptyAligned DEF LoadSucceeds
  <2> QED BY <1>3, <2>2, <2>3, <2>4 DEF LoadSucceeds, IInv, HistoryIsPrompt, PromptIsSeen
<1>4. CASE LoadIncompatible \/ LoadThrows
  <2>1. LoadIncompatible => request.name \in Names
    BY EmptyTypes DEF LoadIncompatible, IInv, TypeOK, EngineIsNamed, RequestType
  <2>2. TypeOK'
    BY <1>1, <1>4, <2>1, EmptyTypes
    DEF LoadIncompatible, LoadThrows, Done, IInv, TypeOK, Phases
  <2>3. EngineIsNamed' /\ CallsLeft'
    BY <1>4 DEF LoadIncompatible, LoadThrows, Done, EngineIsNamed, CallsLeft
  <2>4. CheckpointAligned'
    BY <1>4, EmptyAligned DEF LoadIncompatible, LoadThrows
  <2> QED
    BY <1>4, <2>2, <2>3, <2>4
    DEF LoadIncompatible, LoadThrows, Done, IInv, HistoryIsPrompt, PromptIsSeen
<1> QED BY <1>2, <1>3, <1>4

\* The decision of the prompt cache preserves the invariant.
LEMMA CachePreserves ==
  ASSUME IInv, CacheOtherModel \/ CacheHit \/ CacheMiss
  PROVE  IInv'
<1>1. cache' \in [messages : ChecksumSeq, tools : ChecksumSeq]
  BY CachedType DEF CacheOtherModel, CacheHit, CacheMiss, IInv, TypeOK
<1>2. /\ request' \in RequestType /\ request'.chat = request.chat
      /\ request'.tools = request.tools /\ request'.name = request.name
      /\ request'.inserts = request.inserts
  BY DEF CacheOtherModel, CacheHit, CacheMiss, IInv, TypeOK, RequestType
<1>3. /\ ctx' \in ContextType /\ phase = "cache" /\ phase' \in {"insert", "crashed"}
      /\ lastModel' \in Names \cup {NoModel}
      /\ UNCHANGED <<currentTag, engine, loaded>>
  BY EmptyTypes DEF CacheOtherModel, CacheHit, CacheMiss, IInv, TypeOK, RequestType
<1>4. TypeOK'
  BY <1>1, <1>2, <1>3 DEF IInv, TypeOK, Phases
<1>5. EngineIsNamed' /\ CallsLeft'
  BY <1>2, <1>3 DEF IInv, EngineIsNamed, CallsLeft
<1>6. CheckpointAligned'
  <2>1. CASE CacheMiss
    BY <2>1, EmptyAligned DEF CacheMiss
  <2>2. CASE CacheOtherModel \/ CacheHit
    BY <2>2 DEF CacheOtherModel, CacheHit, IInv, CheckpointAligned, KeepsPrompts
  <2> QED BY <2>1, <2>2
<1> QED BY <1>3, <1>4, <1>5, <1>6 DEF IInv, HistoryIsPrompt, PromptIsSeen

\* insert() preserves the invariant, whether it prefills, fails or has no engine.
LEMMA InsertPreserves ==
  ASSUME IInv, Insert \/ InsertFails \/ InsertNothing \/ InsertWithoutEngine
  PROVE  IInv'
<1>1. CASE Insert
  <2>1. /\ ctx' \in ContextType /\ ctx'.history = Prompt
        /\ KeepsPrompts /\ ~ctx'.continued =>
             ctx'.kv = Prompt /\ ctx'.kvCheckpoint = ctx'.checkpoint
    BY <1>1, InsertEffect
  <2>2. request.inserts \in 1..2 /\ phase = "insert" /\ loaded
    BY <1>1 DEF Insert, IInv, CallsLeft
  <2>3. /\ request' \in RequestType /\ request'.chat = request.chat
        /\ request'.tools = request.tools /\ request'.name = request.name
        /\ request'.inserts = request.inserts - 1
    BY <1>1, <2>2 DEF Insert, IInv, TypeOK, RequestType
  <2>4. /\ (phase' = "insert" /\ request.inserts > 1) \/ phase' = "generate"
        /\ UNCHANGED <<cache, currentTag, lastModel, engine, loaded>>
    BY <1>1 DEF Insert
  <2>5. TypeOK'
    BY <2>1, <2>2, <2>3, <2>4 DEF IInv, TypeOK, Phases
  <2>6. EngineIsNamed' /\ CallsLeft'
    BY <2>2, <2>3, <2>4 DEF IInv, EngineIsNamed, CallsLeft
  <2>7. CheckpointAligned'
    BY <2>1, <2>4 DEF CheckpointAligned, KeepsPrompts
  <2>8. HistoryIsPrompt' /\ PromptIsSeen'
    BY <2>1, <2>3, <2>4 DEF HistoryIsPrompt, PromptIsSeen, Prompt, KeepsPrompts
  <2> QED BY <2>5, <2>6, <2>7, <2>8 DEF IInv
<1>2. CASE InsertFails
  <2>1. TypeOK'
    BY <1>2, EmptyTypes DEF InsertFails, Done, IInv, TypeOK, Phases
  <2>2. EngineIsNamed' /\ CallsLeft' /\ CheckpointAligned'
    BY <1>2, EmptyAligned DEF InsertFails, Done, IInv, EngineIsNamed, CallsLeft
  <2> QED BY <1>2, <2>1, <2>2 DEF InsertFails, Done, IInv, HistoryIsPrompt, PromptIsSeen
<1>3. CASE InsertNothing \/ InsertWithoutEngine
  <2>1. phase' = "crashed" /\ phase = "insert"
        /\ UNCHANGED <<cache, currentTag, lastModel, engine, loaded, ctx, request>>
    BY <1>3 DEF InsertNothing, InsertWithoutEngine, Crash
  <2>2. TypeOK'
    BY <2>1 DEF IInv, TypeOK, Phases
  <2> QED
    BY <2>1, <2>2
    DEF IInv, EngineIsNamed, CallsLeft, CheckpointAligned, HistoryIsPrompt, PromptIsSeen,
        KeepsPrompts
<1> QED BY <1>1, <1>2, <1>3

\* A new request preserves the invariant.
LEMMA ReceivePreserves ==
  ASSUME IInv, NEW kind \in Kinds, NEW name \in Names \cup {currentTag},
         NEW chat \in Conversations, NEW tools \in ToolSets,
         Receive(kind, name, chat, tools)
  PROVE  IInv'
<1>1. name \in Names \cup {NoModel} /\ (name = NoModel => currentTag = NoModel)
  BY EmptyTypes, ContextAssumption DEF ContextAssumption, IInv, TypeOK
<1>2. /\ request' \in RequestType /\ request'.chat = chat /\ request'.tools = tools
      /\ request'.name = name /\ request'.inserts \in 1..2
  BY <1>1 DEF Receive, RequestType, InsertCalls
<1>3. TypeOK'
  BY <1>2 DEF Receive, IInv, TypeOK, Phases
<1> QED
  BY <1>1, <1>2, <1>3
  DEF Receive, IInv, EngineIsNamed, CallsLeft, CheckpointAligned, HistoryIsPrompt, PromptIsSeen,
      KeepsPrompts

\* A request that cannot be used, and a restart, preserve the invariant.
LEMMA EndPreserves ==
  ASSUME IInv, Malformed \/ Restart
  PROVE  IInv'
<1>1. CASE Malformed
  <2>1. TypeOK'
    BY <1>1, EmptyTypes DEF Malformed, Done, IInv, TypeOK, Phases
  <2> QED
    BY <1>1, <2>1
    DEF Malformed, Done, IInv, EngineIsNamed, CallsLeft, CheckpointAligned,
        HistoryIsPrompt, PromptIsSeen, KeepsPrompts
<1>2. CASE Restart
  <2>1. TypeOK'
    BY <1>2, EmptyTypes DEF Restart, Done, TypeOK, Phases
  <2>2. EngineIsNamed'
    BY <1>2 DEF Restart, Done, EngineIsNamed
  <2>3. CheckpointAligned'
    BY <1>2, EmptyAligned DEF Restart
  <2> QED
    BY <1>2, <2>1, <2>2, <2>3
    DEF Restart, Done, IInv, CallsLeft, HistoryIsPrompt, PromptIsSeen
<1> QED BY <1>1, <1>2

-----------------------------------------------------------------------------
\* The invariant holds initially and every step of every request preserves it.
THEOREM ContextInvariant == Spec => []IInv
<1>1. Init => IInv
  <2> SUFFICES ASSUME Init PROVE IInv
    OBVIOUS
  <2>1. TypeOK
    BY EmptyTypes DEF Init, TypeOK, Phases
  <2>2. EngineIsNamed
    BY DEF Init, EngineIsNamed
  <2>3. CheckpointAligned
    BY DEF Init, CheckpointAligned, EmptyContext
  <2> QED BY <2>1, <2>2, <2>3 DEF Init, IInv, CallsLeft, HistoryIsPrompt, PromptIsSeen
<1>2. IInv /\ [Next]_vars => IInv'
  <2> SUFFICES ASSUME IInv, [Next]_vars PROVE IInv'
    OBVIOUS
  <2>1. CASE UNCHANGED vars
    <3>1. TypeOK' /\ EngineIsNamed' /\ CallsLeft' /\ CheckpointAligned'
      BY <2>1 DEF vars, IInv, TypeOK, EngineIsNamed, CallsLeft, CheckpointAligned, KeepsPrompts
    <3>2. HistoryIsPrompt' /\ PromptIsSeen'
      BY <2>1 DEF vars, IInv, HistoryIsPrompt, PromptIsSeen, Prompt, KeepsPrompts
    <3> QED BY <3>1, <3>2 DEF IInv
  <2>2. CASE Next
    BY <2>2, ReceivePreserves, EndPreserves, LoadPreserves, CachePreserves,
       InsertPreserves, AnswerPreserves
    DEF Next, Serve
  <2> QED BY <2>1, <2>2
<1> QED BY <1>1, <1>2, PTL DEF Spec

\* The handlers and the engine keep their state well formed.
THEOREM TypeCorrect == Spec => []TypeOK
BY ContextInvariant, PTL DEF IInv

\* The model that answers is the one the request names, across failed loads,
\* aliases and switches by other endpoints.
THEOREM NamedModelAnswers == Spec => []ModelAnswers
<1>1. IInv => ModelAnswers
  BY DEF IInv, EngineIsNamed, ModelAnswers
<1> QED BY <1>1, ContextInvariant, PTL

\* The history is the prompt when the answer starts, whatever the checksums.
THEOREM HistoryIsThePrompt == Spec => []HistoryIsPrompt
BY ContextInvariant, PTL DEF IInv

\* A family that restores checkpoints answers from exactly the prompt, whatever
\* the checksums, unless an insertion went on from an answer's context.
THEOREM PromptIsWhatIsSeen == Spec => []PromptIsSeen
BY ContextInvariant, PTL DEF IInv

-----------------------------------------------------------------------------
\* What bounds the context.  total_tokens is less than MAX_L while an answer is made;
\* what the NPU holds is as much when the answer starts, and in the loop of generate()
\* it is ahead by less than the longest opening.
RoomLeft ==
  /\ ctx.total <= MaxL /\ ctx.total <= Len(ctx.kv)
  /\ phase \in {"generate", "decode"} => ctx.total < MaxL
  /\ KeepsPrompts /\ ~ctx.continued =>
       /\ Len(ctx.kv) <= ctx.total + MaxOpening
       /\ phase = "generate" => Len(ctx.kv) = ctx.total
       /\ phase = "decode" => Len(ctx.kv) < ctx.total + MaxOpening

\* A cleared context is within MAX_L.
LEMMA EmptyHasRoom ==
  ASSUME ctx' = EmptyContext, phase' \notin {"generate", "decode"}
  PROVE  RoomLeft'
<1>1. Len(EmptyContext.kv) = 0 /\ Len(EmptyContext.kvCheckpoint) = 0 /\ EmptyContext.total = 0
  BY DEF EmptyContext
<1> QED BY <1>1, ContextAssumption DEF ContextAssumption, RoomLeft

\* The length check of insert() keeps what it prefills within MAX_L.
LEMMA InsertLeavesRoom ==
  ASSUME IInv, RoomLeft, Insert
  PROVE  RoomLeft'
<1> DEFINE new == NewTokens(Base, Prompt)
<1>1. PICK first \in Sampled :
        ctx' = IF engine \in Restoring THEN Checkpointed(Prefilled(Base, new, first))
               ELSE Prefilled(Base, new, first)
  BY DEF Insert
<1> DEFINE c == Prefilled(Base, new, first)
<1>2. /\ Base \in ContextType /\ new \in Seq(Tokens)
      /\ Base = EmptyContext \/ (Restores /\ Base = Restored(ctx)) \/ (~Restores /\ Base = ctx)
  BY BaseFacts DEF IInv, Insert
<1>3. /\ c \in ContextType /\ c.kv = Base.kv \o new /\ c.total = Base.total + Len(new)
      /\ c.continued <=> (Base.continued \/ (~Restores /\ Base # EmptyContext))
  BY <1>2, PrefilledFields
<1>4. /\ ctx'.kv = c.kv /\ ctx'.total = c.total /\ ctx'.continued = c.continued
      /\ engine \in Restoring => ctx'.kvCheckpoint = c.kv
  <2>1. ctx' = IF engine \in Restoring THEN Checkpointed(c) ELSE c
    BY <1>1
  <2> HIDE DEF c
  <2> QED BY <2>1, <1>3 DEF Checkpointed, ContextType
<1>5. /\ Base.total \in Nat /\ Len(Base.kv) \in Nat /\ Len(new) \in Nat
      /\ Len(c.kv) = Len(Base.kv) + Len(new) /\ MaxL \in Nat
  BY <1>2, <1>3, LenProperties, ConcatProperties, ContextAssumption
  DEF ContextAssumption, ContextType
<1>6. Base.total + Len(new) < MaxL
  BY DEF Insert, Fits
<1>7. ctx \in ContextType
  BY DEF IInv, TypeOK
<1>8. /\ Base.total <= Len(Base.kv)
      /\ (Restores \/ Base = EmptyContext) => Base.total = Len(Base.kv)
  <2>1. CASE Base = EmptyContext
    BY <2>1, <1>5 DEF EmptyContext
  <2>2. CASE Restores /\ Base = Restored(ctx)
    <3>1. Base.kv = ctx.kvCheckpoint /\ Base.total = Len(ctx.kvCheckpoint)
      BY <2>2, <1>7 DEF Restored, ContextType
    <3> QED BY <3>1, <1>5
  <2>3. CASE ~Restores /\ Base = ctx
    <3>1. CASE Base = EmptyContext
      BY <2>1, <3>1
    <3>2. CASE Base # EmptyContext
      BY <2>3, <3>2 DEF RoomLeft
    <3> QED BY <3>1, <3>2
  <2> QED BY <1>2, <2>1, <2>2, <2>3
<1>9. engine' = engine
  BY DEF Insert
<1> HIDE DEF c, new
<1>10. ctx'.total < MaxL /\ ctx'.total <= Len(ctx'.kv)
  BY <1>3, <1>4, <1>5, <1>6, <1>8
<1>11. ~ctx'.continued => Len(ctx'.kv) = ctx'.total
  BY <1>3, <1>4, <1>5, <1>8
<1>12. ctx'.total \in Nat /\ Len(ctx'.kv) \in Nat
  BY <1>3, <1>4, <1>5
<1>13. MaxOpening \in Nat /\ phase' \in {"insert", "generate"}
  BY ContextAssumption DEF Insert, ContextAssumption
<1> QED BY <1>4, <1>5, <1>9, <1>10, <1>11, <1>12, <1>13 DEF RoomLeft, KeepsPrompts

\* One step of generation.
LEMMA AnswerLeavesRoom ==
  ASSUME IInv, RoomLeft,
         \/ FirstToken \/ DecodeCancelled \/ DecodeThrows
         \/ \E t \in Sampled : Open(t) \/ Decode(t) \/ DecodeLimit(t)
  PROVE  RoomLeft'
<1>1. /\ ctx \in ContextType /\ ctx.total \in Nat /\ Len(ctx.kv) \in Nat
      /\ MaxL \in Nat /\ MaxOpening \in Nat /\ MaxOpening >= 1
      /\ Sampled \subseteq Tokens /\ Eos \in Tokens
  BY LenProperties, ContextAssumption DEF IInv, TypeOK, ContextType, ContextAssumption
<1>2. phase \in {"generate", "decode"} /\ engine' = engine
  BY DEF FirstToken, DecodeCancelled, DecodeThrows, Open, Decode, DecodeLimit, Answered, Finish
<1>3. /\ ctx.total < MaxL /\ ctx.total <= Len(ctx.kv)
      /\ KeepsPrompts /\ ~ctx.continued =>
           /\ phase = "generate" => Len(ctx.kv) = ctx.total
           /\ Len(ctx.kv) < ctx.total + MaxOpening
  BY <1>1, <1>2 DEF RoomLeft
<1>4. ASSUME NEW c \in ContextType, NEW stop, Finish(c, stop) \/ Answered(c, stop)
      PROVE  /\ phase' = "idle"
             /\ \/ ctx' = EmptyContext
                \/ ctx'.total = c.total /\ ctx'.kv = c.kv /\ ctx'.continued = c.continued
  <2> DEFINE k == [c EXCEPT !.kvCheckpoint = c.kv,
                            !.checkpoint = SubSeq(c.history, 1, Len(c.history) - 1)]
  <2>1. k.total = c.total /\ k.kv = c.kv /\ k.continued = c.continued
    BY KeptType
  <2>2. Finish(c, stop) \/ Finish(k, stop)
    BY <1>4 DEF Answered
  <2> HIDE DEF k
  <2> QED BY <2>1, <2>2 DEF Finish, Done
<1>5. ASSUME NEW c \in ContextType, ctx'.total = c.total, ctx'.kv = c.kv,
             ctx'.continued = c.continued, c.total <= MaxL, c.total <= Len(c.kv),
             KeepsPrompts /\ ~c.continued =>
               /\ Len(c.kv) <= c.total + MaxOpening
               /\ phase' = "decode" => Len(c.kv) < c.total + MaxOpening,
             phase' = "decode" => c.total < MaxL,
             phase' \in {"idle", "decode"}
      PROVE  RoomLeft'
  BY <1>2, <1>5 DEF RoomLeft, KeepsPrompts
<1>6. CASE FirstToken
  <2> DEFINE c == [ctx EXCEPT !.history = Append(@, ctx.last)]
  <2>1. /\ c \in ContextType /\ c.total = ctx.total /\ c.kv = ctx.kv
        /\ c.continued = ctx.continued
    BY <1>1, AnsweredFields DEF ContextType
  <2>2. Finish(c, "eos") \/ (ctx' = c /\ phase' = "decode")
    BY <1>6 DEF FirstToken
  <2> HIDE DEF c
  <2>3. Len(ctx.kv) < ctx.total + MaxOpening => Len(ctx.kv) <= ctx.total + MaxOpening
    BY <1>1
  <2>4. CASE ctx' = c /\ phase' = "decode"
    BY <1>1, <1>3, <1>5, <2>1, <2>3, <2>4
  <2>5. CASE Finish(c, "eos")
    BY <1>1, <1>3, <1>4, <1>5, <2>1, <2>3, <2>5, EmptyHasRoom
  <2> QED BY <2>2, <2>4, <2>5
<1>7. CASE DecodeCancelled \/ DecodeThrows
  <2>1. Answered(ctx, "cancel") \/ Finish(ctx, "error")
    BY <1>7 DEF DecodeCancelled, DecodeThrows
  <2>2. Len(ctx.kv) < ctx.total + MaxOpening => Len(ctx.kv) <= ctx.total + MaxOpening
    BY <1>1
  <2>3. phase' = "idle" /\ (ctx' = EmptyContext \/
          (ctx'.total = ctx.total /\ ctx'.kv = ctx.kv /\ ctx'.continued = ctx.continued))
    BY <1>1, <1>4, <2>1
  <2> QED BY <1>1, <1>3, <1>5, <2>2, <2>3, EmptyHasRoom
<1>8. ASSUME NEW t \in Sampled, Open(t)
      PROVE  RoomLeft'
  <2>1. PICK o \in Openings(engine) \ {<<>>} :
          IF ctx.total + 1 >= MaxL THEN Finish(Opened(o, t), "limit")
          ELSE ctx' = Opened(o, t) /\ phase' = "decode"
    BY <1>8 DEF Open
  <2>2. phase = "generate"
    BY <1>8 DEF Open
  <2>3. o \in Seq(Tokens) /\ Len(o) <= MaxOpening /\ Len(o) \in Nat /\ Len(o) >= 1
    <3>1. o \in Seq(Tokens) /\ Len(o) <= MaxOpening
      BY <2>2, OpeningsAre
    <3> QED BY <3>1, <2>1, LenProperties, EmptySeq
  <2>4. /\ Opened(o, t) \in ContextType /\ Opened(o, t).continued = ctx.continued
        /\ Opened(o, t).kv = ctx.kv \o o /\ Opened(o, t).total = ctx.total + 1
    BY <1>1, <2>3, OpenedFields
  <2>5. Len(ctx.kv \o o) = Len(ctx.kv) + Len(o)
    BY <1>1, <2>3, ConcatProperties DEF ContextType
  <2> DEFINE c == Opened(o, t)
  <2>6. /\ c.total <= MaxL /\ c.total <= Len(c.kv)
        /\ KeepsPrompts /\ ~c.continued => Len(c.kv) < c.total + MaxOpening
        /\ Len(c.kv) \in Nat /\ c.total \in Nat
    BY <1>1, <1>3, <2>2, <2>3, <2>4, <2>5
  <2>7. Len(c.kv) < c.total + MaxOpening => Len(c.kv) <= c.total + MaxOpening
    BY <1>1, <2>6
  <2>8. Finish(c, "limit") \/ (ctx' = c /\ phase' = "decode" /\ c.total < MaxL)
    BY <1>1, <2>1, <2>4
  <2>9. c \in ContextType
    BY <2>4
  <2> HIDE DEF c
  <2>10. CASE Finish(c, "limit")
    BY <1>4, <1>5, <2>6, <2>7, <2>9, <2>10, EmptyHasRoom
  <2>11. CASE ctx' = c /\ phase' = "decode" /\ c.total < MaxL
    BY <1>5, <2>6, <2>7, <2>9, <2>11
  <2> QED BY <2>8, <2>10, <2>11
<1>9. ASSUME NEW t \in Sampled, Decode(t) \/ DecodeLimit(t)
      PROVE  RoomLeft'
  <2> DEFINE c == Forwarded(t)
             e == [Forwarded(t) EXCEPT !.kv = Append(@, Eos)]
  <2>1. /\ Append(ctx.kv, ctx.last) \in Seq(Tokens)
        /\ Len(Append(ctx.kv, ctx.last)) = Len(ctx.kv) + 1
        /\ Len(Append(Append(ctx.kv, ctx.last), Eos)) = Len(ctx.kv) + 2
    BY <1>1 DEF ContextType
  <2>2. /\ c.total = ctx.total + 1 /\ c.kv = Append(ctx.kv, ctx.last)
        /\ c.continued = ctx.continued
        /\ e.total = ctx.total + 1 /\ e.kv = Append(Append(ctx.kv, ctx.last), Eos)
        /\ e.continued = ctx.continued
    BY <1>1 DEF Forwarded, ContextType
  <2>3. c \in ContextType /\ e \in ContextType
    BY <1>1, ForwardedFields
  <2>4. \/ Answered(e, "eos") \/ Answered(c, "limit")
        \/ ctx' = c /\ phase' = "decode" /\ ctx.total + 1 < MaxL
    BY <1>1, <1>9 DEF Decode, DecodeLimit
  <2> HIDE DEF c, e
  <2>5. /\ c.total <= MaxL /\ c.total <= Len(c.kv)
        /\ KeepsPrompts /\ ~c.continued =>
             Len(c.kv) < c.total + MaxOpening /\ Len(c.kv) <= c.total + MaxOpening
        /\ e.total <= MaxL /\ e.total <= Len(e.kv)
        /\ KeepsPrompts /\ ~e.continued => Len(e.kv) <= e.total + MaxOpening
    BY <1>1, <1>3, <2>1, <2>2
  <2>6. CASE Answered(e, "eos")
    BY <1>4, <1>5, <2>3, <2>5, <2>6, EmptyHasRoom
  <2>7. CASE Answered(c, "limit")
    BY <1>4, <1>5, <2>3, <2>5, <2>7, EmptyHasRoom
  <2>8. CASE ctx' = c /\ phase' = "decode" /\ ctx.total + 1 < MaxL
    BY <1>5, <2>2, <2>3, <2>5, <2>8
  <2> QED BY <2>4, <2>6, <2>7, <2>8
<1> QED BY <1>6, <1>7, <1>8, <1>9

\* The other steps clear the context or leave it alone.
LEMMA OtherStepsLeaveRoom ==
  ASSUME RoomLeft,
         \/ \E kind \in Kinds, name \in Names \cup {currentTag},
              chat \in Conversations, tools \in ToolSets : Receive(kind, name, chat, tools)
         \/ Malformed \/ AlreadyLoaded \/ LoadSucceeds \/ LoadIncompatible \/ LoadThrows
         \/ CacheOtherModel \/ CacheHit \/ CacheMiss
         \/ InsertFails \/ InsertNothing \/ InsertWithoutEngine \/ Restart
  PROVE  RoomLeft'
<1>1. /\ phase' \notin {"generate", "decode"}
      /\ ctx' = EmptyContext \/ UNCHANGED <<ctx, engine>>
  BY DEF Receive, Malformed, AlreadyLoaded, LoadSucceeds, LoadIncompatible, LoadThrows,
         CacheOtherModel, CacheHit, CacheMiss, InsertFails, InsertNothing,
         InsertWithoutEngine, Crash, Restart, Done
<1>2. CASE UNCHANGED <<ctx, engine>>
  BY <1>1, <1>2 DEF RoomLeft, KeepsPrompts
<1> QED BY <1>1, <1>2, EmptyHasRoom

\* Prompts and answers stay within MAX_L, but for the end of a full answer.
THEOREM ContextStaysBounded == Spec => []ContextIsBounded
<1>1. Init => RoomLeft
  BY ContextAssumption DEF ContextAssumption, Init, EmptyContext, RoomLeft
<1>2. IInv /\ RoomLeft /\ [Next]_vars => RoomLeft'
  <2> SUFFICES ASSUME IInv, RoomLeft, [Next]_vars PROVE RoomLeft'
    OBVIOUS
  <2>1. CASE UNCHANGED vars
    BY <2>1 DEF vars, RoomLeft, KeepsPrompts
  <2>2. CASE Next
    BY <2>2, InsertLeavesRoom, AnswerLeavesRoom, OtherStepsLeaveRoom DEF Next, Serve
  <2> QED BY <2>1, <2>2
<1>3. RoomLeft => ContextIsBounded
  BY DEF RoomLeft, ContextIsBounded
<1> QED BY <1>1, <1>2, <1>3, ContextInvariant, PTL DEF Spec
=============================================================================
