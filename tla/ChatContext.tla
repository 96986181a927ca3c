----------------------------- MODULE ChatContext -----------------------------
(***************************************************************************)
(* What the language model has in its context when it answers: the prompt   *)
(* cache of the REST handler (PromptCache), the switch between models       *)
(* (ensure_model_loaded), and the shared part of every model family         *)
(* (AutoModel: token_history, prefix check, prefill, generation, restore).  *)
(* The NPU's key/value cache lives in a closed library; it is modelled from *)
(* how AutoModel drives it, as the sequence of tokens that were run through *)
(* it.  Requests come one after the other, as NpuScheduler lets them.       *)
(* The families are told apart by what their insert() and generate() do      *)
(* besides the shared ones: Restoring, CheckpointsAnswer and Openings.      *)
(***************************************************************************)
EXTENDS Integers, Sequences

CONSTANTS
  Names,          \* model names a request may carry
  Tag(_),         \* tag the model list resolves a name to; a tag is a name too
  Restoring,      \* tags of the families whose insert restores a checkpoint
  CheckpointsAnswer, \* of those, the tags whose generate takes one more after an
                  \* answer without thinking
  Openings(_),    \* tokens that generate of a tag starts the answer with, one
                  \* sequence for each setting of thinking; <<>> is _shared_generate
  MaxOpening,     \* the longest of them has no more, 4
  NoModel,        \* "model-faker"
  Kinds,          \* endpoints in use, of "completions" (/v1/chat/completions),
                  \* "chat", "chat_stream" (/api/chat), "generate" (/api/generate);
                  \* /v1/completions acts on the model like "chat" when it streams
                  \* and like "generate" when it does not
  Messages,       \* messages, and tool definitions
  Conversations,  \* what requests carry, each a sequence of messages
  ToolSets,       \* tool definitions of requests, each a sequence
  Checksum(_),    \* checksum of a message or tool; different ones may collide
  Tokens,         \* tokens of the model
  Render(_, _),   \* tokens of a conversation and its tools: template, tokenizer
  Sampled,        \* tokens the sampler may return
  Eos,            \* the token of eos_token_ids
  MaxL            \* MAX_L

ASSUME ContextAssumption ==
  /\ NoModel \notin Names
  /\ \A n \in Names : Tag(n) \in Names /\ Tag(Tag(n)) = Tag(n)
  /\ CheckpointsAnswer \subseteq Restoring
  /\ MaxOpening \in Nat \ {0}
  /\ Kinds \subseteq {"completions", "chat", "chat_stream", "generate"}
  /\ \A c \in Conversations : c \in Seq(Messages)
  /\ \A t \in ToolSets : t \in Seq(Messages)
  /\ \A c \in Conversations, t \in ToolSets : Render(c, t) \in Seq(Tokens)
  /\ Sampled \subseteq Tokens /\ Eos \in Sampled
  /\ \A n \in Names : \A o \in Openings(Tag(n)) : o \in Seq(Tokens) /\ Len(o) <= MaxOpening
  /\ MaxL \in Nat

VARIABLES
  cache,       \* PromptCache: message_checksums_ and tool_checksums_
  currentTag,  \* current_model_tag
  lastModel,   \* model_used_for_last_message
  engine,      \* tag of auto_chat_engine, NoModel for a null pointer
  loaded,      \* its load_model has succeeded
  ctx,         \* the engine's context
  request,     \* the request being handled
  phase        \* where its handler is

vars == <<cache, currentTag, lastModel, engine, loaded, ctx, request, phase>>

Tags == {Tag(n) : n \in Names}

\* history and checkpoint are token_history and checkpoint_his, total is
\* total_tokens and last is last_token; kv and kvCheckpoint are the tokens run
\* through the NPU, and those at the engine's last checkpoint().  continued is
\* no variable of the code: some insertion since the context was empty went on
\* from what an answer had left there, without restore().
EmptyContext ==
  [history |-> <<>>, checkpoint |-> <<>>, total |-> 0, last |-> Eos,
   kv |-> <<>>, kvCheckpoint |-> <<>>, continued |-> FALSE]

EmptyCache == [messages |-> <<>>, tools |-> <<>>]

\* inserts counts the calls of insert() its handler has still to make.
NoRequest ==
  [kind |-> "completions", name |-> NoModel, chat |-> <<>>, tools |-> <<>>,
   restore |-> FALSE, inserts |-> 0]

InsertCalls(kind) == IF kind = "chat_stream" THEN 2 ELSE 1

\* The server starts with its default model loaded, or without one: none was
\* asked for, or its load failed.
Init ==
  /\ cache = EmptyCache /\ lastModel = NoModel
  /\ currentTag \in Tags \cup {NoModel}
  /\ engine = currentTag /\ loaded = (engine # NoModel)
  /\ ctx = EmptyContext
  /\ request = NoRequest /\ phase = "idle"

-----------------------------------------------------------------------------
(* Requests *)

\* A request without "model" names the current tag.
Receive(kind, name, chat, tools) ==
  /\ phase = "idle"
  /\ request' = [kind |-> kind, name |-> name, chat |-> chat, tools |-> tools,
                 restore |-> FALSE, inserts |-> InsertCalls(kind)]
  /\ phase' = "load"
  /\ UNCHANGED <<cache, currentTag, lastModel, engine, loaded, ctx>>

Done == request' = NoRequest /\ phase' = "idle"

\* A field is missing or has the wrong type: the exception leaves the model as
\* it is, whether the load comes before it or not.
Malformed ==
  /\ \/ phase \in {"load", "cache"}
     \/ /\ phase = "insert" /\ request.kind \in {"chat", "chat_stream"}
        /\ request.inserts = InsertCalls(request.kind)
  /\ Done
  /\ UNCHANGED <<cache, currentTag, lastModel, engine, loaded, ctx>>

\* A null or unloaded engine, or logits that are not there, are dereferenced.
Crash == phase' = "crashed" /\ UNCHANGED request

\* The operator starts the server again.
Restart ==
  /\ phase = "crashed"
  /\ cache' = EmptyCache /\ lastModel' = NoModel
  /\ currentTag' \in Tags \cup {NoModel}
  /\ engine' = currentTag' /\ loaded' = (engine' # NoModel)
  /\ ctx' = EmptyContext
  /\ Done

-----------------------------------------------------------------------------
(* RestHandler::ensure_model_loaded *)

AlreadyLoaded ==
  /\ phase = "load"
  /\ currentTag = request.name
  /\ phase' = IF request.kind = "completions" THEN "cache" ELSE "insert"
  /\ UNCHANGED <<cache, currentTag, lastModel, engine, loaded, ctx, request>>

\* The new engine is loaded, the tag stays that of the old one.
LoadSucceedsTagKept ==
  /\ phase = "load"
  /\ currentTag # request.name
  /\ engine' = Tag(request.name) /\ loaded' = TRUE
  /\ ctx' = EmptyContext
  /\ phase' = IF request.kind = "completions" THEN "cache" ELSE "insert"
  /\ UNCHANGED <<cache, currentTag, lastModel, request>>

\* The old engine is dropped before anything is known of the new one.
LoadSucceeds ==
  /\ phase = "load"
  /\ currentTag # request.name
  /\ engine' = Tag(request.name) /\ loaded' = TRUE
  /\ currentTag' = Tag(request.name)
  /\ ctx' = EmptyContext
  /\ phase' = IF request.kind = "completions" THEN "cache" ELSE "insert"
  /\ UNCHANGED <<cache, lastModel, request>>

\* The files on disk need a newer program: the new engine stays unloaded, and
\* the tag is still that of the old one.
LoadIncompatible ==
  /\ phase = "load"
  /\ currentTag # request.name
  /\ engine' = Tag(request.name) /\ loaded' = FALSE
  /\ ctx' = EmptyContext
  /\ Done
  /\ UNCHANGED <<cache, currentTag, lastModel>>

LoadThrows ==
  /\ phase = "load"
  /\ currentTag # request.name
  /\ engine' = NoModel /\ loaded' = FALSE
  /\ currentTag' = NoModel
  /\ ctx' = EmptyContext
  /\ Done
  /\ UNCHANGED <<cache, lastModel>>

-----------------------------------------------------------------------------
(* PromptCache, and its use by handle_openai_chat_completion *)

Checksums(s) == [i \in DOMAIN s |-> Checksum(s[i])]

\* The messages themselves are kept.
CachedRaw(chat, tools) == [messages |-> chat, tools |-> tools]

Cached(chat, tools) == [messages |-> Checksums(chat), tools |-> Checksums(tools)]

StartsWith(s, prefix) ==
  Len(prefix) <= Len(s) /\ SubSeq(s, 1, Len(prefix)) = prefix

\* can_use_cache: every cached message starts the new conversation, which has
\* at least two messages more.
CanUseCache(chat, tools) ==
  /\ Len(chat) > 2
  /\ Len(cache.messages) <= Len(chat) - 2
  /\ StartsWith(Checksums(chat), cache.messages)
  /\ cache.tools = Checksums(tools)

\* Another model than last time: the context is taken to be empty already.
CacheOtherModel ==
  /\ phase = "cache"
  /\ lastModel # request.name
  /\ lastModel' = request.name
  /\ cache' = Cached(request.chat, request.tools)
  /\ phase' = "insert"
  /\ UNCHANGED <<currentTag, engine, loaded, ctx, request>>

CacheHit ==
  /\ phase = "cache"
  /\ lastModel = request.name
  /\ CanUseCache(request.chat, request.tools)
  /\ request' = [request EXCEPT !.restore = TRUE]
  /\ cache' = Cached(request.chat, request.tools)
  /\ phase' = "insert"
  /\ UNCHANGED <<currentTag, lastModel, engine, loaded, ctx>>

\* clear_context() through a null or unloaded engine ends the server.
CacheMiss ==
  /\ phase = "cache"
  /\ lastModel = request.name
  /\ ~CanUseCache(request.chat, request.tools)
  /\ cache' = Cached(request.chat, request.tools)
  /\ ctx' = EmptyContext
  /\ phase' = IF loaded THEN "insert" ELSE "crashed"
  /\ UNCHANGED <<currentTag, lastModel, engine, loaded, request>>

-----------------------------------------------------------------------------
(* AutoModel::_shared_insert, and the insert() of the families around it *)

Restores == request.restore /\ engine \in Restoring

\* The history is not restored with the rest.
RestoredKvOnly(c) == [c EXCEPT !.kv = c.kvCheckpoint, !.total = Len(c.kvCheckpoint)]

\* restore() of a family that keeps checkpoints, together with its history.
Restored(c) ==
  [c EXCEPT !.kv = c.kvCheckpoint, !.total = Len(c.kvCheckpoint), !.history = c.checkpoint]

\* The history is taken to be a prefix of the tokens.
ContinuedAnyway(c, tokens) == c

\* A history the tokens do not continue clears the context.
Continued(c, tokens) == IF StartsWith(tokens, c.history) THEN c ELSE EmptyContext

NewTokens(c, tokens) == SubSeq(tokens, Len(c.history) + 1, Len(tokens))

\* The new tokens are prefilled, and the first token of the answer is sampled.
Prefilled(c, new, first) ==
  [c EXCEPT !.history = @ \o new, !.kv = @ \o new, !.total = @ + Len(new),
            !.last = first, !.continued = @ \/ (~Restores /\ c # EmptyContext)]

Checkpointed(c) == [c EXCEPT !.checkpoint = c.history, !.kvCheckpoint = c.kv]

\* What insert() works on: the context after restore and prefix check.
Prompt == Render(request.chat, request.tools)

Base == Continued(IF Restores THEN Restored(ctx) ELSE ctx, Prompt)

\* The tokens already in the context are not counted.
FitsAlone == Len(NewTokens(Base, Prompt)) < MaxL

Fits == Base.total + Len(NewTokens(Base, Prompt)) < MaxL

Insert ==
  /\ phase = "insert" /\ loaded
  /\ Fits /\ NewTokens(Base, Prompt) # <<>>
  /\ \E first \in Sampled :
       LET c == Prefilled(Base, NewTokens(Base, Prompt), first)
       IN  ctx' = IF engine \in Restoring THEN Checkpointed(c) ELSE c
  /\ request' = [request EXCEPT !.inserts = @ - 1]
  /\ phase' = IF request.inserts > 1 THEN "insert" ELSE "generate"
  /\ UNCHANGED <<cache, currentTag, lastModel, engine, loaded>>

\* Too long, cancelled between two chunks, or the NPU fails: every handler
\* clears the context, and the chat completions reset the prompt cache too.
InsertFails ==
  /\ phase = "insert" /\ loaded
  /\ ctx' = EmptyContext
  /\ cache' = IF request.kind = "completions" THEN EmptyCache ELSE cache
  /\ Done
  /\ UNCHANGED <<currentTag, lastModel, engine, loaded>>

\* Nothing to prefill: no chunk is run, and sample() reads an empty buffer.
InsertNothing ==
  /\ phase = "insert" /\ loaded
  /\ Fits /\ NewTokens(Base, Prompt) = <<>>
  /\ Crash
  /\ UNCHANGED <<cache, currentTag, lastModel, engine, loaded, ctx>>

InsertWithoutEngine ==
  /\ phase = "insert" /\ ~loaded
  /\ Crash
  /\ UNCHANGED <<cache, currentTag, lastModel, engine, loaded, ctx>>

-----------------------------------------------------------------------------
(* AutoModel::_shared_generate, the generate() of some families in its place, *)
(* and what the handlers do after it                                          *)

\* /api/chat clears the context, /api/generate and the chat completions keep it;
\* a cancelled chat completion resets the prompt cache.
Finish(c, stop) ==
  /\ ctx' = IF request.kind = "chat" \/ stop = "error" THEN EmptyContext ELSE c
  /\ cache' = IF request.kind = "completions" /\ stop \in {"cancel", "error"}
                THEN EmptyCache ELSE cache
  /\ Done
  /\ UNCHANGED <<currentTag, lastModel, engine, loaded>>

\* generate() after its loop.  Without thinking, the families of CheckpointsAnswer
\* keep what the NPU holds by then, and the history up to its last token.
Answered(c, stop) ==
  \/ Finish(c, stop)
  \/ /\ engine \in CheckpointsAnswer
     /\ Finish([c EXCEPT !.kvCheckpoint = c.kv,
                         !.checkpoint = SubSeq(c.history, 1, Len(c.history) - 1)], stop)

\* The token sampled by insert() enters the history; it may end the answer.
\* /api/chat asks for generate_with_prompt, which some families share all the same.
FirstToken ==
  /\ phase = "generate"
  /\ <<>> \in Openings(engine) \/ request.kind = "chat"
  /\ LET c == [ctx EXCEPT !.history = Append(@, ctx.last)]
     IN  IF ctx.last = Eos \/ ctx.total >= MaxL
           THEN Finish(c, "eos")
           ELSE /\ ctx' = c
                /\ phase' = "decode"
                /\ UNCHANGED <<cache, currentTag, lastModel, engine, loaded, request>>

\* An empty think block, or the start of one, in place of the token that insert()
\* sampled.  However long, it counts as one token; the token sampled after it is in
\* the answer, but not in the history, and does not end the answer.
Opened(o, t) ==
  [ctx EXCEPT !.history = @ \o o, !.kv = @ \o o, !.total = @ + 1, !.last = t]

Open(t) ==
  /\ phase = "generate"
  /\ \E o \in Openings(engine) \ {<<>>} :
       IF ctx.total + 1 >= MaxL
         THEN Finish(Opened(o, t), "limit")
         ELSE /\ ctx' = Opened(o, t)
              /\ phase' = "decode"
              /\ UNCHANGED <<cache, currentTag, lastModel, engine, loaded, request>>

\* One token more in the cache, the sampled one in the history.
Forwarded(t) ==
  [ctx EXCEPT !.kv = Append(@, ctx.last), !.total = @ + 1,
              !.last = t, !.history = Append(@, t)]

\* forward_on_eos: the end of the turn is run through the NPU as well.
Decode(t) ==
  /\ phase = "decode"
  /\ IF t = Eos
       THEN Answered([Forwarded(t) EXCEPT !.kv = Append(@, Eos)], "eos")
       ELSE IF ctx.total + 1 >= MaxL
         THEN Answered(Forwarded(t), "limit")
         ELSE /\ ctx' = Forwarded(t)
              /\ UNCHANGED <<cache, currentTag, lastModel, engine, loaded, request, phase>>

\* max_tokens is reached.
DecodeLimit(t) ==
  /\ phase = "decode" /\ t # Eos
  /\ Answered(Forwarded(t), "limit")

\* Only /v1/chat/completions passes its cancellation token on to the engine.
DecodeCancelled ==
  /\ phase = "decode" /\ request.kind = "completions"
  /\ Answered(ctx, "cancel")

\* The NPU, the sampler or the tokenizer fails.
DecodeThrows ==
  /\ phase \in {"generate", "decode"}
  /\ Finish(ctx, "error")

-----------------------------------------------------------------------------
Serve ==
  \/ \E kind \in Kinds, name \in Names \cup {currentTag},
        chat \in Conversations, tools \in ToolSets : Receive(kind, name, chat, tools)
  \/ Malformed \/ AlreadyLoaded \/ LoadSucceeds \/ LoadIncompatible \/ LoadThrows
  \/ CacheOtherModel \/ CacheHit \/ CacheMiss
  \/ Insert \/ InsertFails \/ InsertNothing \/ InsertWithoutEngine
  \/ FirstToken \/ DecodeCancelled \/ DecodeThrows
  \/ \E t \in Sampled : Open(t) \/ Decode(t) \/ DecodeLimit(t)

Next == Serve \/ Restart

Spec == Init /\ [][Next]_vars

-----------------------------------------------------------------------------
Phases == {"idle", "load", "cache", "insert", "generate", "decode", "crashed"}

ContextType ==
  [history : Seq(Tokens), checkpoint : Seq(Tokens), total : Nat, last : Sampled,
   kv : Seq(Tokens), kvCheckpoint : Seq(Tokens), continued : BOOLEAN]

ChecksumSeq == Seq({Checksum(m) : m \in Messages})

RequestType ==
  [kind : Kinds \cup {"completions"}, name : Names \cup {NoModel},
   chat : Conversations \cup {<<>>}, tools : ToolSets \cup {<<>>},
   restore : BOOLEAN, inserts : 0..2]

TypeOK ==
  /\ cache \in [messages : ChecksumSeq, tools : ChecksumSeq]
  /\ currentTag \in Tags \cup {NoModel}
  /\ lastModel \in Names \cup {NoModel}
  /\ engine \in Tags \cup {NoModel}
  /\ loaded \in BOOLEAN
  /\ ctx \in ContextType
  /\ request \in RequestType
  /\ phase \in Phases
  /\ phase # "idle" => request.chat \in Conversations /\ request.tools \in ToolSets

\* The engine that answers is the one the request named, whatever loads failed
\* and whichever endpoints switched models in between.
ModelAnswers == phase \in {"generate", "decode"} => engine = Tag(request.name)

\* The history equals the prompt when the answer starts: restored, continued or
\* cleared, and although checksums of different messages may collide.
HistoryIsPrompt == phase = "generate" => ctx.history = Prompt

\* insert() alone decides what the engine may return to.
KeepsPrompts == engine \in Restoring \ CheckpointsAnswer

\* With a family that takes its checkpoints in insert() the NPU holds the prompt's
\* tokens and no others when the answer starts, through cache hits, misses, failed
\* and cancelled answers, and other endpoints' requests; unless an insertion went on
\* from an answer's context, which /api/generate does, and a chat completion
\* that takes the switch between models for a cleared context.
PromptIsSeen ==
  phase = "generate" /\ KeepsPrompts /\ ~ctx.continued => ctx.kv = Prompt

\* total_tokens, against which prompts are measured, never exceeds MAX_L nor what the
\* NPU holds; and with PromptIsSeen's families and exception it lags behind that by
\* no more than the longest opening, or the end of an answer: 4 tokens, though
\* generate() runs several tokens for one that it counts.
ContextIsBounded ==
  /\ ctx.total <= MaxL
  /\ ctx.total <= Len(ctx.kv)
  /\ KeepsPrompts /\ ~ctx.continued => Len(ctx.kv) <= ctx.total + MaxOpening
=============================================================================
