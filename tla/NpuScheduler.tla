---------------------------- MODULE NpuScheduler ----------------------------
(***************************************************************************)
(* How the web server shares the NPU between requests: the global flag of  *)
(* NPUAccessManager, the waiting queue of WebServer, and the hand-over that *)
(* send_response and the final streaming chunk run when they have answered.*)
(* I/O threads run a request from routing to the end of its handler; each   *)
(* step below is one critical section (or one stretch without shared state)*)
(* of that path.  A connection carries one request, so a request identity   *)
(* returns to "idle" and may come again on a later connection.             *)
(* A client that does not read what is streamed to it blocks its handler in *)
(* net::write, which has no timeout.                                       *)
(***************************************************************************)
EXTENDS Integers, Sequences, FiniteSets

CONSTANTS NpuRequests,   \* requests to an endpoint that requires_npu_access
          FreeRequests,  \* requests to an endpoint that runs an engine without it
          BadIdRequests, \* requests whose "request_id" is not a JSON string
          SlowRequests,  \* requests whose client may stop reading their stream
          IoThreads,     \* io_thread_count_
          MaxNpuQueue,   \* max_npu_queue_
          NoRequest      \* holder of a free NPU

Requests == NpuRequests \cup FreeRequests

ASSUME SchedulerAssumption ==
  /\ NpuRequests \cap FreeRequests = {}
  /\ BadIdRequests \subseteq Requests
  /\ SlowRequests \subseteq Requests
  /\ IoThreads \in Nat \ {0}
  /\ MaxNpuQueue \in Nat
  /\ NoRequest \notin Requests

VARIABLES
  pc,              \* where each request is
  npuInUse,        \* g_npu_in_use
  activeRequests,  \* g_npu_active_requests
  npuQueue,        \* npu_request_queue_, as the requests of its tasks
  stalled          \* requests whose handler is blocked in net::write

vars == <<pc, npuInUse, activeRequests, npuQueue, stalled>>

(***************************************************************************)
(* "idle"      not in the server                                           *)
(* "routed"    route found, about to call try_acquire_npu_access           *)
(* "denied"    try_acquire_npu_access returned false, npu_queue_mutex_ is   *)
(*             not taken yet                                               *)
(* "queued"    its task is in npu_request_queue_, no thread runs it        *)
(* "posted"    its task was given to net::post, no thread runs it yet      *)
(* "running"   process_task runs, the handler uses the engine              *)
(* "caught"    the handler threw, a catch block around it is to answer     *)
(* "answered"  response built, process_next_npu_request entered            *)
(* "cooldown"  process_next_npu_request sleeps 333 ms                      *)
(* "tail"      back in the handler after send_response                     *)
(* "dead"      an exception left process_task and ended the I/O thread     *)
(***************************************************************************)
PcValues == {"idle", "routed", "denied", "queued", "posted", "running",
             "caught", "answered", "cooldown", "tail", "dead"}

\* Requests that occupy an I/O thread; one that died took its thread with it.
OnThread == {r \in Requests : pc[r] \notin {"idle", "queued", "posted"}}

ThreadFree == Cardinality(OnThread) < IoThreads

Goto(r, label) == pc' = [pc EXCEPT ![r] = label]

Init ==
  /\ pc = [r \in Requests |-> "idle"]
  /\ npuInUse = FALSE
  /\ activeRequests = 0
  /\ npuQueue = <<>>
  /\ stalled = {}

-----------------------------------------------------------------------------
(* NPUAccessManager *)

\* The flag is set without being tested.
NpuAlwaysFree == TRUE

\* try_acquire_npu_access succeeds; its test and its set are one critical section.
NpuIsFree == ~npuInUse

TakeNpu ==
  /\ npuInUse' = TRUE
  /\ activeRequests' = activeRequests + 1

\* The flag is cleared, the counter is not.
ReleaseNpuUncounted ==
  /\ npuInUse' = FALSE
  /\ UNCHANGED activeRequests

\* release_npu_access
ReleaseNpu ==
  /\ npuInUse' = FALSE
  /\ activeRequests' = activeRequests - 1

-----------------------------------------------------------------------------
(* WebServer::handle_request: run the task here, queue it, or refuse it *)

\* A thread reads a request for an NPU endpoint from a fresh connection.
ArriveNpu(r) ==
  /\ pc[r] = "idle" /\ r \in NpuRequests
  /\ ThreadFree
  /\ Goto(r, "routed")
  /\ UNCHANGED <<npuInUse, activeRequests, npuQueue, stalled>>

\* Every endpoint is taken for one that needs the NPU.
ArriveFreeRouted(r) ==
  /\ pc[r] = "idle" /\ r \in FreeRequests
  /\ ThreadFree
  /\ Goto(r, "routed")
  /\ UNCHANGED <<npuInUse, activeRequests, npuQueue, stalled>>

\* The other engine endpoints run their task at once, without the NPU flag.
ArriveFree(r) ==
  /\ pc[r] = "idle" /\ r \in FreeRequests
  /\ ThreadFree
  /\ Goto(r, "running")
  /\ UNCHANGED <<npuInUse, activeRequests, npuQueue, stalled>>

Acquire(r) ==
  /\ pc[r] = "routed"
  /\ NpuIsFree
  /\ TakeNpu
  /\ Goto(r, "running")
  /\ UNCHANGED <<npuQueue, stalled>>

\* No lock is held from here to Enqueue or Refuse.
Denied(r) ==
  /\ pc[r] = "routed"
  /\ ~NpuIsFree
  /\ Goto(r, "denied")
  /\ UNCHANGED <<npuInUse, activeRequests, npuQueue, stalled>>

\* One task more than the limit is let in.
QueueFullOffByOne == Len(npuQueue) > MaxNpuQueue

QueueFull == Len(npuQueue) >= MaxNpuQueue

Enqueue(r) ==
  /\ pc[r] = "denied"
  /\ ~QueueFull
  /\ npuQueue' = Append(npuQueue, r)
  /\ Goto(r, "queued")
  /\ UNCHANGED <<npuInUse, activeRequests, stalled>>

\* 503 Service Unavailable
Refuse(r) ==
  /\ pc[r] = "denied"
  /\ QueueFull
  /\ Goto(r, "idle")
  /\ UNCHANGED <<npuInUse, activeRequests, npuQueue, stalled>>

\* A thread takes the posted task out of the io_context.
StartTask(r) ==
  /\ pc[r] = "posted"
  /\ ThreadFree
  /\ Goto(r, "running")
  /\ UNCHANGED <<npuInUse, activeRequests, npuQueue, stalled>>

-----------------------------------------------------------------------------
(* process_task.  A handler answers by send_response or by the final        *)
(* streaming chunk.  What may throw on the way (the handler's own code, the *)
(* engine, dump() of the answer) comes before process_next_npu_request in   *)
(* both; after it a handler only returns or calls clear_context() of the    *)
(* engine, which is taken not to throw: if it did, the catch block would    *)
(* answer again and release the NPU a second time.                         *)

\* write_streaming_response waits for room in the socket's send buffer.
ClientStalls(r) ==
  /\ pc[r] = "running" /\ r \in SlowRequests \ BadIdRequests
  /\ r \notin stalled
  /\ stalled' = stalled \cup {r}
  /\ UNCHANGED <<pc, npuInUse, activeRequests, npuQueue>>

\* The client reads on, or leaves, so that the write fails: it ends either way.
ClientMoves(r) ==
  /\ r \in stalled
  /\ stalled' = stalled \ {r}
  /\ UNCHANGED <<pc, npuInUse, activeRequests, npuQueue>>

\* The handler throws before it has answered.
HandlerThrows(r) ==
  /\ pc[r] = "running" /\ r \in NpuRequests \ BadIdRequests
  /\ r \notin stalled
  /\ Goto(r, "caught")
  /\ UNCHANGED <<npuInUse, activeRequests, npuQueue, stalled>>

\* The catch blocks log the exception and do not answer.
AnswerUnlessThrown(r) ==
  /\ pc[r] = "running" /\ r \in NpuRequests \ BadIdRequests
  /\ r \notin stalled
  /\ Goto(r, "answered")
  /\ UNCHANGED <<npuInUse, activeRequests, npuQueue, stalled>>

\* The answer of an NPU endpoint, or the error sent in its place, enters
\* process_next_npu_request.
Answer(r) ==
  /\ pc[r] \in {"running", "caught"} /\ r \in NpuRequests \ BadIdRequests
  /\ r \notin stalled
  /\ Goto(r, "answered")
  /\ UNCHANGED <<npuInUse, activeRequests, npuQueue, stalled>>

AnswerFree(r) ==
  /\ pc[r] = "running" /\ r \in FreeRequests \ BadIdRequests
  /\ r \notin stalled
  /\ Goto(r, "tail")
  /\ UNCHANGED <<npuInUse, activeRequests, npuQueue, stalled>>

\* request_id = request_json["request_id"] throws outside of every try block
\* of the task; the exception leaves ioc.run() and ends the thread's loop.
TaskThrows(r) ==
  /\ pc[r] = "running" /\ r \in BadIdRequests
  /\ Goto(r, "dead")
  /\ UNCHANGED <<npuInUse, activeRequests, npuQueue, stalled>>

HandlerReturns(r) ==
  /\ pc[r] = "tail"
  /\ Goto(r, "idle")
  /\ UNCHANGED <<npuInUse, activeRequests, npuQueue, stalled>>

-----------------------------------------------------------------------------
(* WebServer::process_next_npu_request *)

\* First critical section: nobody waits, so the NPU becomes free.
NobodyWaits(r) ==
  /\ pc[r] = "answered"
  /\ npuQueue = <<>>
  /\ ReleaseNpu
  /\ Goto(r, "tail")
  /\ UNCHANGED <<npuQueue, stalled>>

\* The NPU is released for the time of the sleep.
CoolDownReleased(r) ==
  /\ pc[r] = "answered"
  /\ npuQueue # <<>>
  /\ ReleaseNpu
  /\ Goto(r, "cooldown")
  /\ UNCHANGED <<npuQueue, stalled>>

\* Somebody waits: sleep, outside of npu_queue_mutex_, with the NPU kept.
CoolDown(r) ==
  /\ pc[r] = "answered"
  /\ npuQueue # <<>>
  /\ Goto(r, "cooldown")
  /\ UNCHANGED <<npuInUse, activeRequests, npuQueue, stalled>>

\* The queue's last task runs first.
DispatchNewest(r) ==
  /\ pc[r] = "cooldown"
  /\ npuQueue # <<>>
  /\ pc' = [pc EXCEPT ![r] = "tail", ![npuQueue[Len(npuQueue)]] = "posted"]
  /\ npuQueue' = SubSeq(npuQueue, 1, Len(npuQueue) - 1)
  /\ UNCHANGED <<npuInUse, activeRequests, stalled>>

\* The second section lost the branch that finds work.
DispatchOnlyReleases(r) ==
  /\ pc[r] = "cooldown"
  /\ npuQueue = <<>>
  /\ ReleaseNpu
  /\ Goto(r, "tail")
  /\ UNCHANGED <<npuQueue, stalled>>

\* Second critical section: the queue is tested again, its head is popped and
\* posted, and the flag stays set on behalf of the posted task.
Dispatch(r) ==
  /\ pc[r] = "cooldown"
  /\ IF npuQueue = <<>>
       THEN /\ ReleaseNpu
            /\ Goto(r, "tail")
            /\ UNCHANGED npuQueue
       ELSE /\ pc' = [pc EXCEPT ![r] = "tail", ![Head(npuQueue)] = "posted"]
            /\ npuQueue' = Tail(npuQueue)
            /\ UNCHANGED <<npuInUse, activeRequests>>
  /\ UNCHANGED stalled

-----------------------------------------------------------------------------
\* Steps a thread takes once it runs a request.
ThreadStep(r) ==
  \/ Acquire(r) \/ Denied(r) \/ Enqueue(r) \/ Refuse(r)
  \/ HandlerThrows(r) \/ Answer(r) \/ AnswerFree(r) \/ TaskThrows(r)
  \/ NobodyWaits(r) \/ CoolDown(r) \/ Dispatch(r) \/ HandlerReturns(r)

Next == \E r \in Requests :
          \/ ArriveNpu(r) \/ ArriveFree(r) \/ StartTask(r) \/ ThreadStep(r)
          \/ ClientStalls(r) \/ ClientMoves(r)

Spec == Init /\ [][Next]_vars

\* Running threads are scheduled, engines and sleeps end.  A write completes when
\* the client reads again and again, and a posted task is served although arrivals
\* compete for the threads, because the io_context runs its handlers in the order
\* they were posted: hence strong fairness.  Nothing makes a request arrive, and
\* nothing makes a client read.
Fairness ==
  /\ \A r \in Requests : WF_vars(ThreadStep(r))
  /\ \A r \in SlowRequests : SF_vars(ThreadStep(r))
  /\ \A r \in NpuRequests : SF_vars(StartTask(r))

FairSpec == Spec /\ Fairness

-----------------------------------------------------------------------------
TypeOK ==
  /\ pc \in [Requests -> PcValues]
  /\ npuInUse \in BOOLEAN
  /\ activeRequests \in Int
  /\ npuQueue \in Seq(NpuRequests)
  /\ stalled \in SUBSET SlowRequests

\* r has the NPU: it acquired it or was handed it, and has not passed it on.
HoldsNpu(r) ==
  /\ r \in NpuRequests
  /\ pc[r] \in {"posted", "running", "caught", "answered", "cooldown", "dead"}

\* At most one request has the NPU, across acquisition by a new request and
\* hand-over to a queued one (try_acquire_npu_access, process_next_npu_request).
ExclusiveOwner ==
  \A q, r \in NpuRequests : HoldsNpu(q) /\ HoldsNpu(r) => q = r

\* The flag and the counter agree with who really has the NPU: neither is left
\* set or cleared by the hand-over without release_npu_access.
FlagTracksOwner ==
  /\ npuInUse <=> \E r \in NpuRequests : HoldsNpu(r)
  /\ activeRequests = IF npuInUse THEN 1 ELSE 0

\* The queue holds each waiting request once, nothing else, and never more
\* than --q-len of them, although the test of its size and the refusal come
\* after try_acquire_npu_access has let go of its lock.
QueueMatchesWaiters ==
  /\ {npuQueue[i] : i \in 1..Len(npuQueue)} = {r \in NpuRequests : pc[r] = "queued"}
  /\ \A i, j \in 1..Len(npuQueue) : npuQueue[i] = npuQueue[j] => i = j
  /\ Len(npuQueue) <= MaxNpuQueue

\* The queue cannot empty during the 333 ms sleep, so the second empty test of
\* process_next_npu_request never succeeds.
CooldownFindsWork ==
  \A r \in NpuRequests : pc[r] = "cooldown" => npuQueue # <<>>

\* While the NPU is in use, only the request at the head of the queue can be
\* the next to have it: no newcomer and no later request gets in between.
NoOvertakingWhileBusy ==
  [][\A r \in NpuRequests :
        npuInUse /\ npuQueue # <<>> /\ ~HoldsNpu(r) /\ HoldsNpu(r)' => r = Head(npuQueue)]_vars

-----------------------------------------------------------------------------
Holder == IF \E r \in NpuRequests : HoldsNpu(r)
          THEN CHOOSE r \in NpuRequests : HoldsNpu(r)
          ELSE NoRequest

Lease == INSTANCE NpuLease WITH
           Requests <- NpuRequests, MaxLine <- MaxNpuQueue, None <- NoRequest,
           holder <- Holder, line <- npuQueue

\* The flag, the queue and the hand-over implement the lease with a line.
ImplementsLease == Lease!Spec

-----------------------------------------------------------------------------
\* Every request that gets the NPU gives it up again, through answers, exceptions,
\* cooldown and hand-over, unless its thread dies of a request_id that is no
\* string.  Two things the code cannot enforce are assumed: its client does not stop
\* reading for ever (request_timeout_ is stored and never used), and the I/O threads
\* are not all taken for ever by others.
EveryOwnerFinishes ==
  \A r \in NpuRequests :
    []<>ThreadFree /\ []<>(r \notin stalled)
      => (HoldsNpu(r) ~> (~HoldsNpu(r) \/ pc[r] = "dead"))

\* A queued request is run as long as handlers of NPU endpoints keep answering:
\* each answer takes one request from the head of the queue.
QueuedServedByAnswers ==
  \A r \in NpuRequests :
    []<>(\E q \in NpuRequests : pc[q] = "answered")
      => (pc[r] = "queued" ~> pc[r] = "running")

\* "This function is called by the send_response lambda when a queued request
\* is finally processed": every queued request is processed some day.
QueuedIsProcessed ==
  \A r \in NpuRequests : pc[r] = "queued" ~> pc[r] = "running"
=============================================================================
