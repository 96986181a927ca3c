# FastFlowLM in TLA+

FastFlowLM serves language models on an AMD NPU. One process holds a web server
(`src/src/server`), one language model engine at a time
(`src/src/common/AutoModel`), and closed libraries that drive the device. This
directory models the parts whose correctness depends on the order of events: who
has the NPU, which connections are open, which requests can be cancelled, what is
in the model's context when it answers, what of an answer reaches the client, and
which files of a model are on disk.

    tlc -config NpuScheduler_threads.cfg MCNpuScheduler.tla
    tlapm NpuSchedulerProofs.tla

## 1. The system

### Parts, their state and their operations

| Part | Source | State | Operations |
|---|---|---|---|
| NPU scheduling | `server/server.cpp`, `server.hpp` | `g_npu_in_use`, `g_npu_active_requests`, `npu_request_queue_` | try_acquire, release, queue or refuse (`handle_request`), hand over (`process_next_npu_request`) |
| HTTP connections | `server.cpp` | `active_connections_`, one `HttpSession` each (`is_streaming_`, socket, `res_`) | accept, read, preflight, whole response, chunk, final chunk, disconnect monitor |
| Request registry | `server.cpp` | `active_requests_`, one `CancellationToken` per request | register, unregister, `cancel_request`, `/api/cancel` |
| Model switching, chat endpoints | `server/rest_handler.cpp` | `current_model_tag`, `model_used_for_last_message`, `auto_chat_engine` | `ensure_model_loaded`, `/v1/chat/completions`, `/api/chat`, `/api/generate` |
| Prompt cache | `include/prompt_cache.hpp` | checksums of messages and tools | `can_use_cache`, update, reset |
| Shared model logic | `common/AutoModel/automodel.cpp` | `token_history`, `checkpoint_his`, `total_tokens`, `last_token` | `_shared_insert`, `_shared_generate`, restore, checkpoint, `clear_context` |
| Model families | `common/AutoModel/modeling_*.cpp` | per family: `waiting_for_header_`, media | template, insert, stream parser |
| Model downloader | `pull/` | files on disk; per command: what is missing, attempts | status, find missing, download with retries, verify and clean, remove |
| Streaming buffers, stream parsers | `server/streaming_ostream*.hpp`, `automodel.cpp`, `modeling_*.cpp` | pending bytes, stream state; `buffer_`, `current_mode_`, `is_in_tool_block_`, `tool_name_` | write, flush, parse, reset, finalize |
| Sampler | `common/modules/sampler.cpp` | penalty window | sample |
| Embedding, speech | `common/AutoEmbeddingModel`, `common/whisper` | one loaded engine each | one call per request |
| Model list, tokenizer, runner, multipart, NPU bindings | see `PROJECT.json` | none that other parts see change | |

`PROJECT.json` lists every part under `components` with what is modelled of it.

### How they interact

A thread of the I/O pool accepts a connection, reads a request and routes it. A
request for a listed endpoint asks for the NPU. It runs at once, waits as a
closure in the queue, or is refused. When it runs, `process_task` makes a
token, registers it, starts the monitor on the client's socket and calls the
handler. The handler loads a model if it must, consults the prompt cache, inserts
the prompt and generates. `send_response`, or the final chunk, then unregisters
the request, passes the NPU on and ends the session. So the handler, the
scheduler and the session meet in the same few callbacks, on whatever thread runs
them. While it generates, each token goes through the stream of the request and
the parser of the model, which the next request finds as this one leaves it.

Commands that pull, check or remove a model are processes of their own. They and
the server, which may pull a model before a load, share only the files, and
nothing locks those.

### What is hard

* **Interleavings.** The NPU flag, the queue, the connection counter and the map of
  requests each have a lock or are atomic, but decisions span two of them.
* **Partial failure.** Writes fail, engines throw after the first chunk, loads fail
  half way, an exception leaves `process_task` or the accept handler, errors of the
  file system are caught and forgotten.
* **No timeout.** A write to a client that does not read waits with the thread, the
  connection and the NPU.
* **Stale state.** A name and a list of checksums stand for what the engine holds.
* **Numeric edges.** `total_tokens` is restored, reset and counted in different
  places; the connection counter is unsigned.
* **Retries and crashes.** Ids of requests are chosen by clients and used again.
  Transfers write to the final path; a kill leaves what is there.
* **Cut points.** Tokens end inside UTF-8 sequences, chunks at markers, answers
  anywhere.

`PROJECT.json` lists these under `hazards`, each at its line, with the properties
that would show it going wrong or the reason why none does.

### What makes each part correct

* Scheduling: one owner; flag, counter and queue agree with the requests; a
  waiting request is served, in order.
* Connections: the limit binds what is really open; each open connection is
  counted once; each request ends with its connection closed.
* Registry: no entry outlives its request; none disappears without a reason; a
  cancel that is acknowledged reached its target.
* Context: the model named by the request answers, from the tokens of that
  request's conversation and no others, within `MAX_L`.
* Text: the client receives what the answer says, each part as what it is, and all
  of it if it is told that the answer is done.
* Files: a pull that reports success leaves a complete model; only a removal, a new
  release, two commands at once or a failing file system cost a good file; each
  command ends.

## 2. Modules

| Module | Models | Proofs |
|---|---|---|
| `NpuLease` | abstract: a lease with a bounded FIFO line | |
| `NpuScheduler` | the flag, the queue, the hand-over, the threads; implements `NpuLease` | `NpuSchedulerProofs` |
| `HttpConnections` | accept and limit, sessions, streams, the counter, their faults | `HttpConnectionsProofs` |
| `RequestRegistry` | tokens, monitor, map of requests, `/api/cancel` | `RequestRegistryProofs` |
| `ChatContext` | prompt cache, model switch, chat handlers, token history, NPU cache | `ChatContextProofs` |
| `StreamText` | UTF-8 flushing, shared parser, finalize | `StreamTextProofs` |
| `FamilyParsers` | the stream parsers of Qwen3.5, Gemma 4, Nanbeige and gpt-oss | `FamilyParsersProofs` |
| `ModelDownloader` | a model's files, the commands on them, faults and kills | `ModelDownloaderProofs` |

`SequenceLemmas` proves what the others need of sequences: induction, recursion, prefixes.
Each `MC...` module gives TLC its instances and symmetries; a `.cfg` is one run.
`PROJECT.json` maps each definition to its lines. A definition that stands
directly before another of nearly the same name and body (`QueueFullOffByOne`
before `QueueFull`) is a bug somebody could have written: put in place of its
neighbour it must break the property that `mutants` names for it.

### NpuScheduler

A request is at one of eleven places (`pc`). Each action is one critical section, or
one stretch of code without shared state. Two gaps in the code are states of the
model: `denied`, between the failed `try_acquire_npu_access` and the queue's lock
(server.cpp:826 and 835), and `cooldown`, the 333 ms for which
`process_next_npu_request` leaves the lock. `posted` is a task on its way through
`net::post`; `tail` is the rest of the handler after `send_response`, where some
handlers still call `clear_context()`. A request whose `request_id` is no string
throws out of the task and takes its thread with it (`dead`); any other exception of a
handler ends in a catch block (`caught`), which answers too. That each end of a handler
passes the NPU on once is a reading of the code: in `send_response` and in the final
chunk everything that may throw comes before `process_next_npu_request`, and after it
a handler only returns or clears the context. If the closed engine's `clear_context()`
threw there, the catch block would answer again and release the NPU twice; it is
taken not to. `stalled` holds the requests whose client does not read: `net::write` has
no timeout (`request_timeout_` is stored and read by nobody), so their handler stands
still, with the NPU, until the client reads on or closes its end.

### HttpConnections

A session is in one of nine phases. The handler is external: it sends chunks, a
final chunk or a whole response, in the orders in which `rest_handler.cpp` does.
`Faults` names what may go wrong in an instance. `hung` is a session that only its
disconnect monitor still refers to. `AcceptThrows` is the accept handler whose client
is gone before the session's constructor asks for its address: the counter is up, the
thread leaves `ioc.run()`, and `do_accept` is not called again (`accepting`), so the
server accepts nobody any more. Completions need a thread that no handler keeps and no
exception has ended (`ThreadFree`, `lostThreads`). A write, synchronous or not, may wait
for a client that does not read (`stalled`).

### RequestRegistry

The map holds, for each id, whose token it has. Ids come from clients or from the
counter `req_<n>`, and clients may send those too. A cancel request is registered
like any other, under the id that it is to cancel when its body is declared as
JSON, and under a generated one otherwise; the handler reads the body again in
both cases. The monitor waits once. A streamed chat completion resets its token
after the load (`Load`), so it may keep or lose a cancellation that came before.

### ChatContext

One request at a time, which is what `NpuScheduler` gives the chat endpoints;
`/v1/completions` acts on the model like one of two kinds that are there. The
context is a record: the token history and its checkpoint, `total_tokens`,
`last_token`, and two external fields, `kv` and `kvCheckpoint`, for the tokens
which the NPU has run and those at its last checkpoint. The closed library is
taken to do what `AutoModel` expects of it: a forward appends one token, a prefill
appends its chunk, `restore` goes back to the checkpoint, `clear_context` empties
both. Messages, tools and tokens are values of small sets; `Checksum` may give two
messages one value, as the sum over words in `prompt_cache.hpp` can; `Render`
stands for template and tokenizer. `Restoring` are the families whose `insert`
takes checkpoints (DeepSeek R1, Qwen3 and others); the rest (Llama 3 and others) ignore the
cache's decision. `Openings` are the tokens with which a family's own `generate` starts
an answer instead of the token that `insert` sampled: Qwen3 without thinking and Qwen3.5
run an empty think block or the start of one, of four or two tokens, count it as one and
leave the token sampled after it out of the history (`Open`). `<<>>` stands for the shared
start (`FirstToken`); `/api/chat` asks for `generate_with_prompt`, which only some families
open in their own way. `CheckpointsAnswer` are the families that take another checkpoint after
an answer (Gemma4e without thinking, `Answered`). The ghost field `continued` remembers
that some insertion went on from what an answer had left in the context. A name that the
model list does not know is taken for `llama3.2:1b` by the load (all_models.hpp:88);
`Names` are known names.

### StreamText

One streamed request after another, since each holds the NPU; the parser lives on
between them. Text is a sequence of atoms: an ASCII byte, the lead and the
continuation byte of a sequence of `SeqLen` bytes, and the four markers, each a
token of its own, as special tokens of a tokenizer are (`StreamAssumption`). `Token` writes and flushes one token, in four alternatives: the
stream is bad and ignores it; nothing is whole yet; a chunk is sent; or the dump
of the chunk throws. `std::ostream` turns that exception into `badbit`, so the
answer goes on into a stream that ignores it. `Step` is one call of
`_shared_think_tool_calling_pasrsed`; where the code says `continue`, it passes over
the think markers at the front of the buffer, which `Turns` counts.
`finalize` is `FinalizeNothing` or `FinalizeRest`; the latter ends the phase `cut`
when the rest is inside a sequence, which is a code path without `[DONE]`. Then the
handler answers with an error, which is the `late_error` of `HttpConnections`.
`Meaning` is the reference: it reads the whole text atom by atom and knows no
chunks. A `Kinds` of `"text"` stands for `/v1/completions` and the Ollama
endpoints, whose streams have no parser; what they finalize with differs in the
layout only. (The harmony filter that sorts gpt-oss's text there is left out.) The
effect of `flush` on a bad stream is that of the standard, which checks the stream
first.

### FamilyParsers

The same stream with the parsers that single families bring along, which search a
buffer and keep back what may be the beginning of a marker. `QwenStep`, `GemmaStep`,
`NanbeigeStep` and `HarmonyStep` are one call each of `parse_stream_content` (Qwen3.5
stands for Qwen3.5 Omni and Qwen3.6 MoE, Gemma 4 for its 12B version, whose code is
the same). Each parser is a loop that goes round after what it only passes over, and is
written as a recursive function: the conditions under which it goes round
(`SwitchIsNext`, `Passes`, `GoesOn`), the parser it goes on with, and what it returns
otherwise. Text is a sequence of pieces: `"x"` without a `<`, a `<`, and what follows it in a
marker; a token decodes to one or more of them, so a marker comes whole or in two
or three parts. `Bytes` knows their lengths, for the 15 bytes of Qwen3.5. One piece
stands for `<|channel|>analysis<|message|>` and its like, and a piece is never cut, so a
marker cut inside a word is not there. Pieces are ASCII: what the bytes of a
sequence do is in `StreamText`. gpt-oss writes the first and the last marker of an
answer itself (`Opening`, `Closing`), but for an answer that ends with its first
token. `EndAssumption` says that a gpt-oss token is `<|end|>` or does not contain it:
`run_time_decoder` gives one vocabulary entry per token, and the end is one of them. `Says` is the reference: it reads one marker at a time and knows no chunks.
Two cases are excepted. `Separated`: Qwen3.5 and Nanbeige look for a tool call before
they look for a think block, wherever the two stand, and Qwen3.5 for an end before its
beginning, so markers with nothing between them may be taken in the wrong order when
the parser lags behind. `leftOpen`: `reset_parser` does not reset `waiting_for_header_`,
so after an engine failure inside a section the next gpt-oss answer goes out as content,
header and reasoning too.

### ModelDownloader

Each process is in one command: `pull`, `pull --force`, `check`, the server's
pull before a load (`ensure`), `remove`. A file is absent, wrong (cut short, being
written, other bytes), good, or a `config.json` that is older than the program
wants, newer than it knows, or of a version that fits with other bytes (`stale`). A transfer opens the final path, which truncates it
(`Open`), and arrives whole, arrives wrong, or fails and is removed; an open file
that another process removes or opens anew loses its name or its bytes, as POSIX
has it (`handle`). `Kill` ends a command between any two steps, `Release` is a new
version of the lists. The local file system may refuse an operation (`Hindered`), which
the code mostly takes for something else: `get_missing_files` and `build_download_list`
return what they have, be it nothing, and a pull with nothing to download returns true
(`LookThrows`, `ListThrows`); a file that cannot be opened hashes to the empty string and
is removed although good (`VerifyUnreadable`) or downloaded again (`HashUnreadable`);
verification leaves the other files alone after an exception (`VerifyThrows`);
`DownloadThrows`, `RemoveThrows` and `ConfigUnopened` end the command.
`std::filesystem::remove` throws when it fails and returns false only when the file is
gone, so `Clean` has no third outcome. The ghost `standing` remembers whether a command
has worked alone, refused nothing, and without a failed transfer, which is what the
properties condition on.
Taken as one step: reading what is missing together with building the list of
downloads, and testing a file together with hashing it. All listed files have
metadata, and printing and listing are left out.

## 3. Runs

| Run | Instance | Question |
|---|---|---|
| `scheduler` | 4 NPU and 2 other requests, one of each ends its thread, one of each has a client that stops reading; 4 threads, queue of 2 | one owner, flag, counter and queue exact, the order kept; implements `NpuLease`; the NPU is given up when the client reads; answers drain the queue |
| `stranded_request` | 2 NPU requests | fails: a queued request is never processed |
| `connections` | 3 sessions, limit 2, 3 threads, every fault | the counter is never too low and leaks in four paths only, the limit holds, requests settle |
| `connection_leak` | 2 sessions, limit 1, failing chunks | fails: refused with nobody connected |
| `connection_hung` | 2 sessions, limit 1, late errors | fails: a request that never ends |
| `registry` | 2 requests, 1 cancel, ids shared, chosen and generated | no stale entry, none lost, a cancel under an id of its own arrives |
| `cancel_reaches_itself` | 1 request, 1 cancel | fails: the acknowledged cancel hit itself |
| `chat_context` | 3 families under 4 names (two restore, of which one opens answers and one checkpoints them), 4 endpoints, colliding checksums, `MAX_L` 11 | model, history, NPU contents and length at the start of each answer |
| `stream_text` | requests with and without parser, up to 4 and 3 atoms, 3-byte sequences | only what is said, in order, without delay, all of it when done, no cut of valid text |
| `family_parsers` | 4 families, up to 4 or 5 tokens that have markers whole and in parts | nothing of the text lost or mistaken, only a possible marker kept back |
| `downloader_files` | 2 processes, 2 files, 2 attempts, every command, fault and refusal | complete after a pull, no good file lost but for a cause, every command ends |
| `downloader_force` | 1 process, 3 files, 3 attempts, `pull` and `--force` | fails: a forced pull that repairs nothing |

**Why the bounds are enough.** In the scheduler the races involve an owner, a
request in the gap and one in the queue; a queue of two shows order, and a fourth
request shows refusal. Four threads let two die and leave two, the least with a
race. Three sessions against a limit of two let one be refused while
others leave, and three threads let one be lost and one be kept by a client that does
not read. Two requests and a cancel can all share an id, and two generated ids
let one be reused by a client. Conversations go to five messages, which is two
answered turns beyond the first, so that a cache hit follows a hit. `MAX_L` of 11
admits the longest conversation, of ten tokens, and refuses it with tools, so the
length check, an answer that fills the context and its end token all happen; an opening
of two tokens that count as one shows the difference, and longer ones are left to the
proof. `MaxGenerated` bounds the counter of ids, in the guard of
`BeginGenerated`. Four atoms hold a think marker, an empty tool block and text after
it, a call with a body, a sequence that three tokens complete and a byte after it;
the second request starts from every parser that such a text, cancelled or failed
anywhere, leaves behind. `MaxText` bounds the text, in the guard of `Token`. In
`family_parsers` four tokens hold a call and text after it, and five a think block of
Gemma 4, whose marker takes two, or two sections of gpt-oss; each may be
preceded by a `<` that begins no marker, which is what makes a parser lag. `"x"` has
eight bytes, so that one `"x"` after a `<` is kept and two are not. `MaxChunks` bounds
the tokens, in the guard of `Token`. One file is
`config.json`, the other stands for all that no version depends on; two processes
and two attempts let a transfer be retried while another removes its file. No other
guard holds a bound that is not the code's.

**Symmetry** is used in runs without liveness only: over the two working requests in
`registry`, and over sessions in `connection_leak`.

**Deadlock** is checked in every run but `connections`, where the server really stops
after `AcceptThrows`, once the open connections are gone. In `scheduler` a request that
ends its thread is one of each kind, so that two of four threads live on.

**Fairness.** `NpuScheduler`: a thread that runs a request goes on (weak), since
threads are scheduled, engine calls and the sleep end; so does one whose client stops
and reads again and again (strong), but no client is made to read, and
`EveryOwnerFinishes` is about owners whose client does: its premise is that the request
is not stalled again and again, and that a thread is free again and again. A posted task is started
(strong), since the io_context runs its handlers in the order in which they were
posted, so that arrivals cannot keep a thread from it for ever. No request is made
to arrive. `HttpConnections`: handlers answer and completions run (strong), for the
same reasons; no client is made to read or to leave, no thread to come back, and no queued
request to run, so `EveryRequestSettles` has the premise that the client reads and a
thread is free again and again. The code enforces neither.
`ModelDownloader`: a command that is not killed goes on (weak); a transfer
ends by success, by an error, or after the hour that `CURLOPT_TIMEOUT` gives it.
Nobody is made to run a command. `RequestRegistry`, `ChatContext`, `StreamText`
and `FamilyParsers` have safety properties only.

### What the failing runs show

1. **A queued request nobody runs** (`stranded_request`). Between the denied flag
   and the queue's lock the owner may find the queue empty and free the NPU.
   The request waits until another NPU request comes, for ever if none does.
   `QueuedServedByAnswers` is what does hold: answers drain the queue.
2. **Leaked connection counts** (`connection_leak`). A failed chunk ends the session
   without lowering the counter. `CounterFollowsSessions` shows that four error paths
   leak one each, and no other: a failed chunk, a failed preflight answer, the end of a
   hung session, and a session whose constructor throws.
3. **Hung connections** (`connection_hung`). An error after the first chunk is
   answered into `res_`, which a streaming session never writes.
4. **Cancel cancels itself** (`cancel_reaches_itself`). `/api/cancel` overwrites its
   target's entry by registering itself under the same id, and reports success.
   `ForeignCancelReaches` shows that it works under an id of its own.
5. **Force does not repair** (`downloader_force`). A `config.json` that was cut short
   makes the forced pull give up before it looks at any file, and while some file is
   missing the corrupt ones are not verified. `UndisturbedPullCompletes` says when
   a pull does repair. `flm remove` and then a pull does, too.

Further observations have no run of their own:

* The list of `requires_npu_access` "should be restricted to one user at a time"
  (server.cpp:161), but `/v1/completions` and `/api/embeddings` are not in it and use
  engines without the NPU flag; and some handlers clear the context after they have
  passed the NPU on. What exclusion is left is `ExclusiveOwner`.
* An accept handler that throws stops the server from accepting (`AcceptThrows`), and
  a client that does not read keeps the NPU (`ClientStalls`): `set_request_timeout` is
  called with a "10 minute timeout for long requests" (main.cpp:636) that nothing reads.
* A pull that cannot make its directory or read `model_info.json` reports success with
  files missing: "Return true since all files are already present"
  (model_downloader.cpp:145). `SuccessMeansPresent` is about pulls that met no such error.
* After an answer without thinking that ended with its end-of-turn token, Gemma4e
  checkpoints a cache that holds the token and a history that does not
  (modeling_gemma4e.cpp:921-927), so a cache hit runs it twice. `PromptIsSeen` is about
  families whose checkpoints are taken in `insert` alone.
* Qwen3.5 keeps what may be the beginning of a marker in the final call as well
  (modeling_qwen3_5vl.cpp:760), so an answer with a `<` in its last 15 bytes (`</html>`,
  `a < b`) is finished without them: `NothingLost` says that they are still in the parser
  then, and the next `reset_parser` deletes them.
* An answer that ends inside a UTF-8 sequence is never finished: `stream_text` reaches
  the phase `cut`, and finding 3 shows what becomes of the connection; the comment in
  `finalize` (streaming_ostream_openai.hpp:298) promises the incomplete bytes to the
  client. `/v1/completions` then also skips the `clear_context()` after `finalize`.
* Another name for the loaded model counts as a switch of models that "will clear
  context" (rest_handler.cpp:1117) and clears nothing: `PromptIsSeen` excepts what
  follows, with `continued`.
* The streamed `/api/chat` inserts its prompt twice (rest_handler.cpp:784 and 798), the
  second time with nothing to prefill, and never generates.

## 4. Proofs

All theorems hold for every value of the constants under the `ASSUME` of their
module, which every run evaluates.

**NpuSchedulerProofs**, from `SchedulerAssumption` (disjoint kinds of requests, at
least one thread, any queue length). The inductive invariant `IInv` is `TypeOK`,
`ExclusiveOwner`, `FlagTracksOwner`, `QueueMatchesWaiters`, `CooldownFindsWork`, and
`FreeRunsAtOnce`: a request that does not need the NPU is never in one of the
places of the hand-over. The last is needed since `ExclusiveOwner` speaks of NPU
requests only; `CooldownFindsWork` is needed since without it `Dispatch` might
release the NPU. There is one lemma per action that touches flag or queue, and
one (`MoveStep`) for those that move a request. From it follow the safety
properties, `NoOvertakingWhileBusy`, and that `Spec` implements `NpuLease`: each
action is a grant, a join, a hand-over, a release or a stutter.

**RequestRegistryProofs**, from `RegistryAssumption`. `TypeOK` and `NoStaleEntry`
are inductive together: an entry is written for its own request only, and a request
keeps its id while it runs. `EntryLostForACause` follows step by step, and
`ForeignCancelReaches` from the fact that only `CancelFound` acknowledges: what it
finds is a running request of that id.

**HttpConnectionsProofs**, from `ConnectionsAssumption` (finitely many sessions, any
limit). `StepKinds` sorts the actions: one leaves counter and open sessions alone,
opens one below the limit, ends one and counts it off, ends one and leaks its
count, or counts one that never comes to be. The inductive invariant is the types with `NeverUndercounts` and
`OpenWithinLimit`; the counter stays a natural number because an open session that is
counted off was counted. `CounterFollowsSessions` holds for each kind.

**ModelDownloaderProofs**, from `DownloaderAssumption` (any processes, files, number
of retries). `IInv` is the types and, for each process, `Sound`: `Placed` (the
files left to treat fit the place in the command), `Careful` (what a command
that is alone has seen of the disk is still so, what it is about to remove or
overwrite is not good, and its open file is at its path; all this while the file system
refuses it nothing) and `Repairing` (one that
should repair has only good files behind it). The lemma `Spared` says that a step of one process leaves the
knowledge of the others alone or makes them `disturbed`, so each action needs a proof
for its own process only.

**ChatContextProofs**, from `ContextAssumption`: any names and tags, any messages,
any checksum function, any template that yields tokens. `IInv` adds to the
properties: `EngineIsNamed` (past the load the engine is the one named, or is not
loaded), `CallsLeft` (insertions owed to the handler) and `CheckpointAligned` (with
a restoring family, the NPU's checkpoint is that of the history, unless an
insertion went on). The proof needs nothing of `Checksum`: a hit may be wrong, and
the prefix check in `_shared_insert` then clears the context. `ContextIsBounded`
needs in addition `RoomLeft`: when an answer starts the NPU holds `total_tokens` tokens,
and while it goes on, fewer than `MaxOpening` more, so that there is room for the end
token.

**SequenceLemmas** has what the text needs. The library's theorems on induction and
recursion take an operator as a parameter, which no installed prover can instantiate.
Here the statement to be proved is a set: `SeqSet` says that a set of sequences with
the empty one, and with each sequence all that are one element longer, has them all;
`SeqRecursion` says that a function defined by one step per element exists. Both
follow from the theorem that `<` on the naturals is well-founded.

**StreamTextProofs**, from `StreamAssumption` (any tokens that are plain text or one
marker, any well-formed tool calls, sequences of 2 to 4 bytes, any length of text).
`Scan` and the reference `Reader` are recursive over the text, and `ScanDef` and
`ReaderDef` show that they are functions. The lemmas then follow a text: `ScanSplit`
(to scan two parts one after the other is to scan the whole, which is why it does not
matter where tokens are cut), `ScanConserves`, `ReaderGrows` (more text never changes what
was said), and for one call of the parser `StepGrows` (parser and reference agree after a
chunk if they did before). `IInv` adds to the
properties: `HeldIsPending` (a good stream holds the sequence that has not ended),
`ParserIsReader` (the parser has read exactly what the stream let through and holds none
of it), `CancelIsLast`, and `BadIsStuck`. The last is needed because a stream that met an
exception keeps its bytes while generation goes on: whatever the parser
takes in `finalize`, it begins with the bytes that could not be dumped, so nothing
wrong is sent. The theorems are the five properties of `stream_text`; the bound on the text is
a constant in them.

**FamilyParsersProofs**, from `FamilyAssumption` (any words, any chunks of one or more
pieces, any calls, any length of an answer) and `EndAssumption`. The types hold for all
four families; the loops end because each round takes a marker from the buffer. What
is sent is proved for Gemma 4 and gpt-oss (`Faithful`). Their lemmas say what one call of a parser
does to what is still to be said: with any text `t` to come, the event followed by
what the parser left behind says to `t` is what the parser said to the chunk and `t`.
`Says` unfolds one marker at a time, so that each round of the loop is one
reading step. The inductive invariant `Consistent` adds to the types: what a fresh
parser says to all the text and any continuation is what was sent, followed by what
the present parser says to that continuation. It speaks of every continuation because
a held-back `<` means one thing or the other according to what comes. `SaysGrows` (a
prefix stays when the answer ends) carries it over a cancel and over `Finalize`.
`EndAssumption` is needed, since content collected in a call before an `<|end|>`, with no section
after it, is dropped when the result's type is set to waiting
(modeling_gpt_oss.cpp:477-583); a token that is the end alone never brings content with it.
The theorems are `FamilyTypes`; `WhatIsSentIsSaid`, the property `SentIsSaid` for the two
families; `NoTextIsLost` (gpt-oss always, Gemma 4 until its answer is done);
and `SectionsAreGivenAtOnce`, the property `HeldBackMayBegin` for gpt-oss.

**Only model-checked:**

- What needs fairness (`EveryOwnerFinishes`, `QueuedServedByAnswers`,
  `EveryRequestSettles`, `EveryCommandEnds`): the prover has neither `ENABLED` nor
  liveness.
- `SentIsSaid` and `NothingLost` for Qwen3.5 and Nanbeige. They look for a tool call
  before a think marker, which is right only while the text is `Separated` and the
  parser does not lag behind by a marker and more: the invariant has to speak
  of the shape of chunks.
- `HeldBackMayBegin` for the three that hold back, and `NothingLost` for Gemma 4 when the
  answer is done. One call gives one event, so a chunk with text, a marker and
  text again leaves a rest in the buffer. These too depend on the chunks.

## 5. What is not modelled

The network below a session, the contents of messages, the numeric code, and the
closed engines. The embedding and speech engines run one call per request. The
stream parsers of LFM2, Qwen3-IT, Qwen3-VL and DeepSeek R1 are not modelled, nor is the
harmony filter, which sorts the text of gpt-oss for the Ollama endpoints and the
command line. The sampler is arithmetic but for its window of recent tokens. The runner is a sequential loop. Vendored code
(nlohmann, minja and others under `src/include`) is external, but for the one
decision of the JSON serializer that `StreamText` depends on. `chat_context` abstracts
images and audio, which insert tokens like text does, and assumes the scheduler: the
engine races are in `NpuScheduler`. Of the families' own `insert` two are left out:
that of Qwen3.5 Omni, which after a cancelled prefill goes on as if it had succeeded, and
Hunyuan's, which pins the system prompt and does not run the end-of-turn token.

## 6. Plan

Done: `NpuLease`, `NpuScheduler`, `HttpConnections`, `RequestRegistry`,
`ChatContext`, `ModelDownloader`, `StreamText`, `FamilyParsers`, in that order, with
proofs for seven of them. What would come next:

1. The rest of `FamilyParsers` proved, under an assumption on the shape of chunks (at most
   one `<` in a token, and nothing after the marker it begins), with the invariant that
   a parser never lags behind by more than one marker.
2. Composition: the session, the scheduler and the registry share
   `send_response`. A module over all three would show that each request is
   unregistered, passed on and counted off once.
3. The stream parsers that are left, and the parsing of whole answers
   (`parse_nstream_content`) against the streamed one: both should find the same calls.
4. The sampler's penalty window as a ring against the last `n` tokens.
