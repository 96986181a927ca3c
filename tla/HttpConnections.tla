--------------------------- MODULE HttpConnections ---------------------------
(***************************************************************************)
(* The life of the server's TCP connections: WebServer::do_accept and its   *)
(* limit, HttpSession from reading a request to closing the socket, the     *)
(* streamed and the whole response, and the counter active_connections_.    *)
(* Handlers are external here: they send chunks, a final chunk or a whole   *)
(* response, in the orders in which rest_handler.cpp sends them.  Of the    *)
(* disconnect monitor only its hold on the session matters here: cancelling *)
(* a handler makes it end by one of the same steps.  Completions and        *)
(* handlers run on I/O threads, which an exception ends and which a client  *)
(* that does not read keeps: no write here has a timeout.                  *)
(***************************************************************************)
EXTENDS Integers, FiniteSets

CONSTANTS Sessions,        \* connections a client may open, again and again
          MaxConnections,  \* max_connections_
          Cors,            \* the --cors flag
          IoThreads,       \* io_thread_count_
          Faults           \* what may go wrong in this instance

(* "chunk_write"  a write of a chunk, or of the stream's header, fails      *)
(* "options_write" the answer to a preflight request cannot be written     *)
(* "late_error"   a handler reports an error after its first chunk: engine  *)
(*                exceptions, and text that ends inside a UTF-8 sequence   *)
(* "bad_id"       a "request_id" that is no string throws out of the task   *)
(* "accept_throws" an exception in the accept handler: remote_endpoint() and *)
(*                set_option() of a socket whose client is gone, or close() *)
(* "stall"        a client stops reading what it is sent                   *)
ASSUME ConnectionsAssumption ==
  /\ IsFiniteSet(Sessions)
  /\ MaxConnections \in Nat
  /\ Cors \in BOOLEAN
  /\ IoThreads \in Nat \ {0}
  /\ Faults \subseteq {"chunk_write", "options_write", "late_error", "bad_id",
                      "accept_throws", "stall"}

VARIABLES
  phase,              \* what the session waits for
  activeConnections,  \* active_connections_
  streaming,          \* is_streaming_ of the sessions
  socket,             \* the socket as the session sees it
  peerLeft,           \* the client has closed its end
  watched,            \* the disconnect monitor's wait for the client is pending
  stalled,            \* a write to the client waits for the client to read
  accepting,          \* an async_accept is pending
  lostThreads         \* I/O threads that an exception has ended

sessionVars == <<phase, streaming, socket, peerLeft, watched, stalled>>

vars == <<sessionVars, activeConnections, accepting, lostThreads>>

(***************************************************************************)
(* "none"      no connection                                               *)
(* "refused"   accepted and closed at once, over the limit                 *)
(* "reading"   async_read of a request is pending                          *)
(* "preflight" async_write of the OPTIONS answer is pending                *)
(* "queued"    its request waits in the NPU queue                          *)
(* "direct"    its handler runs inside HttpSession::handle_request          *)
(* "deferred"  its handler runs as a posted task                           *)
(* "writing"   async_write of res_ is pending                              *)
(* "hung"      no operation of the server refers to it any more            *)
(***************************************************************************)
Phases == {"none", "refused", "reading", "preflight", "queued", "direct",
           "deferred", "writing", "hung"}

InHandler(s) == phase[s] \in {"direct", "deferred"}

\* A completion handler needs a thread that no handler and no exception has taken.
ThreadFree == Cardinality({s \in Sessions : InHandler(s)}) + lostThreads < IoThreads

Enter(s, p) == phase' = [phase EXCEPT ![s] = p]

Init ==
  /\ phase = [s \in Sessions |-> "none"]
  /\ activeConnections = 0
  /\ streaming = [s \in Sessions |-> FALSE]
  /\ socket = [s \in Sessions |-> "open"]
  /\ peerLeft = [s \in Sessions |-> FALSE]
  /\ watched = [s \in Sessions |-> FALSE]
  /\ stalled = [s \in Sessions |-> FALSE]
  /\ accepting = TRUE
  /\ lostThreads = 0

\* The session object is gone; the next connection gets a new one.
Forget(s) ==
  /\ Enter(s, "none")
  /\ streaming' = [streaming EXCEPT ![s] = FALSE]
  /\ socket' = [socket EXCEPT ![s] = "open"]
  /\ peerLeft' = [peerLeft EXCEPT ![s] = FALSE]
  /\ watched' = [watched EXCEPT ![s] = FALSE]
  /\ stalled' = [stalled EXCEPT ![s] = FALSE]
  /\ UNCHANGED <<accepting, lostThreads>>

Counted == activeConnections' = activeConnections - 1

NotCounted == UNCHANGED activeConnections

ServerUnchanged == UNCHANGED <<activeConnections, accepting, lostThreads>>

-----------------------------------------------------------------------------
(* WebServer::do_accept: one accept is pending at a time *)

\* One connection more than the limit is let in.
AtLimitOffByOne == activeConnections > MaxConnections

AtLimit == activeConnections >= MaxConnections

Accept(s) ==
  /\ accepting /\ ThreadFree
  /\ phase[s] = "none"
  /\ IF AtLimit
       THEN Enter(s, "refused") /\ NotCounted
       ELSE Enter(s, "reading") /\ activeConnections' = activeConnections + 1
  /\ UNCHANGED <<streaming, socket, peerLeft, watched, stalled, accepting, lostThreads>>

\* The accept handler throws, in the session's constructor after the counter was
\* raised or in socket.close() of a refused one: no session comes to be, do_accept
\* is not called again, and the thread's ioc.run() ends.
AcceptThrows(s) ==
  /\ accepting /\ ThreadFree
  /\ phase[s] = "none" /\ "accept_throws" \in Faults
  /\ activeConnections' = IF AtLimit THEN activeConnections ELSE activeConnections + 1
  /\ accepting' = FALSE
  /\ lostThreads' = lostThreads + 1
  /\ UNCHANGED sessionVars

\* A refused connection is counted off although it was never counted.
RefusedCountedOff(s) == phase[s] = "refused" /\ Forget(s) /\ Counted

RefusedLeaves(s) == phase[s] = "refused" /\ Forget(s) /\ NotCounted

-----------------------------------------------------------------------------
(* HttpSession::read_request and handle_request *)

\* The read fails: the client closed, or sent no valid HTTP.
ReadFails(s) == phase[s] = "reading" /\ ThreadFree /\ Forget(s) /\ Counted

\* 413 from read_request, 404 for an unknown route, 503 from a full queue.
AnswerAtOnce(s) ==
  /\ phase[s] = "reading" /\ ThreadFree
  /\ Enter(s, "writing")
  /\ UNCHANGED <<streaming, socket, peerLeft, watched, stalled>> /\ ServerUnchanged

Preflight(s) ==
  /\ phase[s] = "reading" /\ Cors /\ ThreadFree
  /\ Enter(s, "preflight")
  /\ UNCHANGED <<streaming, socket, peerLeft, watched, stalled>> /\ ServerUnchanged

PreflightWritten(s) ==
  /\ phase[s] = "preflight" /\ ~stalled[s] /\ ThreadFree
  /\ Enter(s, "reading")
  /\ UNCHANGED <<streaming, socket, peerLeft, watched, stalled>> /\ ServerUnchanged

\* The completion handler returns without touching the counter.
PreflightFails(s) ==
  /\ phase[s] = "preflight" /\ "options_write" \in Faults
  /\ ~stalled[s] /\ ThreadFree
  /\ Forget(s)
  /\ NotCounted

\* process_task starts the disconnect monitor with the request's token.
RunNow(s) ==
  /\ phase[s] = "reading" /\ ThreadFree
  /\ Enter(s, "direct")
  /\ watched' = [watched EXCEPT ![s] = TRUE]
  /\ UNCHANGED <<streaming, socket, peerLeft, stalled>> /\ ServerUnchanged

Defer(s) ==
  /\ phase[s] = "reading" /\ ThreadFree
  /\ Enter(s, "queued")
  /\ UNCHANGED <<streaming, socket, peerLeft, watched, stalled>> /\ ServerUnchanged

RunDeferred(s) ==
  /\ phase[s] = "queued" /\ ThreadFree
  /\ Enter(s, "deferred")
  /\ watched' = [watched EXCEPT ![s] = TRUE]
  /\ UNCHANGED <<streaming, socket, peerLeft, stalled>> /\ ServerUnchanged

-----------------------------------------------------------------------------
(* write_streaming_response and send_chunk_data *)

\* net::write is synchronous: a handler goes on only when the client has read.
Writes(s) == InHandler(s) /\ ~stalled[s]

\* The client's end is closed, or the server's is: the write may fail.
WriteMayFail(s) ==
  "chunk_write" \in Faults /\ (peerLeft[s] \/ socket[s] = "closed")

Chunk(s) ==
  /\ Writes(s) /\ socket[s] = "open"
  /\ streaming' = [streaming EXCEPT ![s] = TRUE]
  /\ UNCHANGED <<phase, socket, peerLeft, watched, stalled>> /\ ServerUnchanged

\* The header cannot be written: the chunk is dropped, nothing is cancelled.
HeaderFails(s) ==
  /\ Writes(s) /\ ~streaming[s] /\ WriteMayFail(s)
  /\ streaming' = [streaming EXCEPT ![s] = TRUE]
  /\ UNCHANGED <<phase, socket, peerLeft, watched, stalled>> /\ ServerUnchanged

\* A chunk cannot be written: close the socket, which ends the monitor's wait.
ChunkFails(s) ==
  /\ Writes(s) /\ WriteMayFail(s)
  /\ streaming' = [streaming EXCEPT ![s] = TRUE]
  /\ socket' = [socket EXCEPT ![s] = "closed"]
  /\ watched' = [watched EXCEPT ![s] = FALSE]
  /\ UNCHANGED <<phase, peerLeft, stalled>> /\ ServerUnchanged

\* The handler's last chunk: end of stream, shutdown, one connection less.
FinalChunk(s) ==
  /\ Writes(s) /\ socket[s] = "open"
  /\ Forget(s)
  /\ Counted

\* The last chunk, or the header before it, fails: the handler returns and the
\* session is dropped with the counter as it was.
FinalChunkFails(s) ==
  /\ Writes(s) /\ WriteMayFail(s)
  /\ Forget(s)
  /\ NotCounted

-----------------------------------------------------------------------------
(* send_response, and the catch blocks of process_task that do the same *)

\* The counter is lowered when the response is handed to the socket, and again
\* when it is written.
RespondTwice(s) ==
  /\ Writes(s)
  /\ Enter(s, "writing")
  /\ Counted
  /\ UNCHANGED <<streaming, socket, peerLeft, watched, stalled, accepting, lostThreads>>

\* A session that has streamed is not written to from handle_request; a
\* deferred one always is.
Respond(s) ==
  /\ Writes(s)
  /\ streaming[s] => "late_error" \in Faults
  /\ Enter(s, IF phase[s] = "direct" /\ streaming[s] THEN "hung" ELSE "writing")
  /\ UNCHANGED <<streaming, socket, peerLeft, watched, stalled>> /\ ServerUnchanged

\* The exception ends the I/O thread; only the disconnect monitor still knows
\* the session.
TaskThrows(s) ==
  /\ Writes(s) /\ ~streaming[s] /\ "bad_id" \in Faults
  /\ Enter(s, "hung")
  /\ lostThreads' = lostThreads + 1
  /\ UNCHANGED <<activeConnections, streaming, socket, peerLeft, watched, stalled, accepting>>

\* The completion handler does its work only when the write succeeded.
ResponseDelivered(s) ==
  /\ phase[s] = "writing" /\ ~stalled[s] /\ ThreadFree
  /\ ~peerLeft[s]
  /\ Forget(s) /\ Counted

\* The completion handler of write_response, with or without an error.
ResponseWritten(s) ==
  /\ phase[s] = "writing" /\ ~stalled[s] /\ ThreadFree
  /\ Forget(s) /\ Counted

-----------------------------------------------------------------------------
(* The client, and start_client_disconnect_monitor *)

PeerLeaves(s) ==
  /\ phase[s] \notin {"none", "refused"} /\ ~peerLeft[s]
  /\ peerLeft' = [peerLeft EXCEPT ![s] = TRUE]
  /\ stalled' = [stalled EXCEPT ![s] = FALSE]
  /\ UNCHANGED <<phase, streaming, socket, watched>> /\ ServerUnchanged

\* The client's receive buffer and the socket's send buffer are full.
PeerStalls(s) ==
  /\ phase[s] \in {"preflight", "direct", "deferred", "writing"}
  /\ "stall" \in Faults /\ ~peerLeft[s] /\ ~stalled[s]
  /\ stalled' = [stalled EXCEPT ![s] = TRUE]
  /\ UNCHANGED <<phase, streaming, socket, peerLeft, watched>> /\ ServerUnchanged

PeerReads(s) ==
  /\ stalled[s]
  /\ stalled' = [stalled EXCEPT ![s] = FALSE]
  /\ UNCHANGED <<phase, streaming, socket, peerLeft, watched>> /\ ServerUnchanged

\* The wait ends once: when the client leaves, or when it sends more bytes, after
\* which the monitor does not wait again.
MonitorWakes(s) ==
  /\ watched[s] /\ ThreadFree
  /\ watched' = [watched EXCEPT ![s] = FALSE]
  /\ UNCHANGED <<phase, streaming, socket, peerLeft, stalled>> /\ ServerUnchanged

\* Only the monitor's wait holds a hung session; when that ends the session's
\* destructor does not count.
HungEnds(s) ==
  /\ phase[s] = "hung"
  /\ ~watched[s] \/ (peerLeft[s] /\ ThreadFree)
  /\ Forget(s)
  /\ NotCounted

-----------------------------------------------------------------------------
ServerStep(s) ==
  \/ RefusedLeaves(s) \/ PreflightWritten(s)
  \/ FinalChunk(s) \/ FinalChunkFails(s) \/ Respond(s)
  \/ ResponseWritten(s) \/ HungEnds(s)

Next == \E s \in Sessions :
  \/ Accept(s) \/ AcceptThrows(s) \/ ReadFails(s) \/ AnswerAtOnce(s)
  \/ Preflight(s) \/ PreflightFails(s) \/ RunNow(s) \/ Defer(s)
  \/ Chunk(s) \/ HeaderFails(s) \/ ChunkFails(s) \/ RunDeferred(s) \/ TaskThrows(s)
  \/ PeerLeaves(s) \/ PeerStalls(s) \/ PeerReads(s)
  \/ MonitorWakes(s) \/ ServerStep(s)

Spec == Init /\ [][Next]_vars

\* Engines end, and the io_context serves what is ready in the order it became
\* so: a step that again and again finds a thread, and a client that has read, is
\* taken.  Nothing makes a client read, nothing gives a thread back, and nothing
\* makes a queued request run, which is the business of NpuScheduler.
FairSpec == Spec /\ \A s \in Sessions : SF_vars(ServerStep(s))

-----------------------------------------------------------------------------
TypeOK ==
  /\ phase \in [Sessions -> Phases]
  /\ activeConnections \in Nat
  /\ streaming \in [Sessions -> BOOLEAN]
  /\ socket \in [Sessions -> {"open", "closed"}]
  /\ peerLeft \in [Sessions -> BOOLEAN]
  /\ watched \in [Sessions -> BOOLEAN]
  /\ stalled \in [Sessions -> BOOLEAN]
  /\ accepting \in BOOLEAN
  /\ lostThreads \in Nat

Open == {s \in Sessions : phase[s] \notin {"none", "refused"}}

\* Whatever goes wrong, the server never counts fewer connections than it has:
\* no path through HttpSession subtracts twice, so the size_t cannot wrap
\* below zero.
NeverUndercounts == Cardinality(Open) <= activeConnections

\* --socket bounds the connections that are really open, although do_accept
\* only looks at a counter that other threads change.
OpenWithinLimit == Cardinality(Open) <= MaxConnections

\* The steps that count a connection without having it, or end one without
\* counting it off.
Leaks(s) ==
  \/ PreflightFails(s) \/ FinalChunkFails(s) \/ HungEnds(s)
  \/ AcceptThrows(s) /\ ~AtLimit

\* The counter changes as the number of open connections does, whoever opens or
\* ends them (do_accept, read_request, write_response, write_streaming_response),
\* but for four error paths, each of which leaks one; without faults it is exact.
CounterFollowsSessions ==
  [][activeConnections' - activeConnections
       = Cardinality(Open') - Cardinality(Open)
           + (IF \E s \in Sessions : Leaks(s) THEN 1 ELSE 0)]_vars

\* Every request that reached a handler ends with its connection closed, also
\* when the client leaves or a write fails, or hangs after an error that came
\* too late: nothing else keeps a session, as long as its client reads and an I/O
\* thread is free from time to time.  The code enforces neither: request_timeout_
\* is stored and never used.
EveryRequestSettles ==
  \A s \in Sessions :
    []<>(ThreadFree /\ ~stalled[s])
      => (phase[s] \in {"direct", "deferred", "writing"} ~> phase[s] \in {"none", "hung"})

\* "The connection will be closed when streaming ends": every request that runs
\* ends with its connection closed.
EveryRequestEnds ==
  \A s \in Sessions : phase[s] \in {"direct", "deferred"} ~> phase[s] = "none"

\* "Set the maximum number of concurrent socket connections": a connection is
\* refused only when that many are open.
RefusedOnlyAtLimit ==
  [][\A s \in Sessions : phase[s] = "none" /\ phase'[s] = "refused"
        => Cardinality(Open) >= MaxConnections]_vars
=============================================================================
