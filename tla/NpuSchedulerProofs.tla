------------------------- MODULE NpuSchedulerProofs -------------------------
(***************************************************************************)
(* For any number of requests, threads and queue places: the NPU has one    *)
(* owner, the flag and the counter say so, the queue is the set of waiting *)
(* requests, and the scheduler implements NpuLease.                        *)
(***************************************************************************)
EXTENDS NpuScheduler, SequenceTheorems, TLAPS

Queued == {r \in NpuRequests : pc[r] = "queued"}

\* Requests of the other endpoints never touch the flag or the queue.
FreeRunsAtOnce ==
  \A r \in FreeRequests : pc[r] \in {"idle", "running", "tail", "dead"}

\* The invariant that every step preserves.  CooldownFindsWork is part of it:
\* without it a hand-over that finds an empty queue could not be excluded.
IInv ==
  /\ TypeOK
  /\ ExclusiveOwner
  /\ FlagTracksOwner
  /\ QueueMatchesWaiters
  /\ CooldownFindsWork
  /\ FreeRunsAtOnce

-----------------------------------------------------------------------------
\* Appending a request that does not wait keeps the queue free of duplicates.
LEMMA AppendWaiter ==
  ASSUME NEW S, NEW q \in Seq(S), NEW r \in S,
         r \notin {q[i] : i \in 1..Len(q)},
         \A i, j \in 1..Len(q) : q[i] = q[j] => i = j
  PROVE  /\ Append(q, r) \in Seq(S)
         /\ Len(Append(q, r)) = Len(q) + 1
         /\ {Append(q, r)[i] : i \in 1..Len(Append(q, r))}
              = {q[i] : i \in 1..Len(q)} \cup {r}
         /\ \A i, j \in 1..Len(Append(q, r)) :
              Append(q, r)[i] = Append(q, r)[j] => i = j
<1> DEFINE a == Append(q, r)
<1>1. /\ a \in Seq(S) /\ Len(a) = Len(q) + 1 /\ Len(q) \in Nat
      /\ \A i \in 1..Len(q) : a[i] = q[i]
      /\ a[Len(q) + 1] = r
  OBVIOUS
<1>2. {a[i] : i \in 1..Len(a)} = {q[i] : i \in 1..Len(q)} \cup {r}
  <2>1. ASSUME NEW x \in {a[i] : i \in 1..Len(a)}
        PROVE  x \in {q[i] : i \in 1..Len(q)} \cup {r}
    <3>1. PICK i \in 1..Len(a) : x = a[i]
      OBVIOUS
    <3>2. i \in 1..Len(q) \/ i = Len(q) + 1
      BY <1>1
    <3> QED BY <3>1, <3>2, <1>1
  <2>2. ASSUME NEW x \in {q[i] : i \in 1..Len(q)}
        PROVE  x \in {a[i] : i \in 1..Len(a)}
    <3>1. PICK i \in 1..Len(q) : x = q[i]
      OBVIOUS
    <3>2. i \in 1..Len(a) /\ x = a[i]
      BY <3>1, <1>1
    <3> QED BY <3>2
  <2>3. Len(q) + 1 \in 1..Len(a)
    BY <1>1
  <2>4. r \in {a[i] : i \in 1..Len(a)}
    BY <2>3, <1>1
  <2> QED BY <2>1, <2>2, <2>4
<1>3. ASSUME NEW i \in 1..Len(a), NEW j \in 1..Len(a), a[i] = a[j]
      PROVE  i = j
  <2>1. CASE i \in 1..Len(q) /\ j \in 1..Len(q)
    BY <2>1, <1>1, <1>3
  <2>2. CASE i = Len(q) + 1 /\ j \in 1..Len(q)
    BY <2>2, <1>1, <1>3
  <2>3. CASE i \in 1..Len(q) /\ j = Len(q) + 1
    BY <2>3, <1>1, <1>3
  <2> QED BY <2>1, <2>2, <2>3, <1>1
<1> HIDE DEF a
<1> QED BY <1>1, <1>2, <1>3 DEF a

\* Popping the head of a duplicate-free queue leaves exactly the other waiters.
LEMMA PopWaiter ==
  ASSUME NEW S, NEW q \in Seq(S), q # <<>>,
         \A i, j \in 1..Len(q) : q[i] = q[j] => i = j
  PROVE  /\ Head(q) \in S /\ Tail(q) \in Seq(S)
         /\ Head(q) \in {q[i] : i \in 1..Len(q)}
         /\ Len(Tail(q)) = Len(q) - 1
         /\ {Tail(q)[i] : i \in 1..Len(Tail(q))}
              = {q[i] : i \in 1..Len(q)} \ {Head(q)}
         /\ \A i, j \in 1..Len(Tail(q)) : Tail(q)[i] = Tail(q)[j] => i = j
<1> DEFINE t == Tail(q)
<1>1. /\ t \in Seq(S) /\ Len(t) = Len(q) - 1 /\ Len(q) \in Nat \ {0}
      /\ \A i \in 1..Len(t) : t[i] = q[i + 1]
      /\ Head(q) = q[1] /\ Head(q) \in S
      /\ 1 \in 1..Len(q)
  BY EmptySeq, HeadTailProperties
<1>2. {t[i] : i \in 1..Len(t)} = {q[i] : i \in 1..Len(q)} \ {Head(q)}
  <2>1. ASSUME NEW x \in {t[i] : i \in 1..Len(t)}
        PROVE  x \in {q[i] : i \in 1..Len(q)} \ {Head(q)}
    <3>1. PICK i \in 1..Len(t) : x = t[i]
      OBVIOUS
    <3>2. i + 1 \in 1..Len(q) /\ i + 1 # 1 /\ x = q[i + 1]
      BY <3>1, <1>1
    <3>3. x # q[1]
      BY <3>2, <1>1
    <3> QED BY <3>2, <3>3, <1>1
  <2>2. ASSUME NEW x \in {q[i] : i \in 1..Len(q)} \ {Head(q)}
        PROVE  x \in {t[i] : i \in 1..Len(t)}
    <3>1. PICK i \in 1..Len(q) : x = q[i]
      OBVIOUS
    <3>2. i # 1
      BY <3>1, <1>1
    <3>3. i - 1 \in 1..Len(t) /\ x = t[i - 1]
      BY <3>1, <3>2, <1>1
    <3> QED BY <3>3
  <2> QED BY <2>1, <2>2
<1>3. \A i, j \in 1..Len(t) : t[i] = t[j] => i = j
  <2> SUFFICES ASSUME NEW i \in 1..Len(t), NEW j \in 1..Len(t), t[i] = t[j]
               PROVE  i = j
    OBVIOUS
  <2>1. i + 1 \in 1..Len(q) /\ j + 1 \in 1..Len(q) /\ q[i + 1] = q[j + 1]
    BY <1>1
  <2>2. i + 1 = j + 1
    BY <2>1
  <2> QED BY <2>2, <1>1
<1> HIDE DEF t
<1>4. Head(q) \in {q[i] : i \in 1..Len(q)}
  BY <1>1
<1> QED BY <1>1, <1>2, <1>3, <1>4 DEF t

-----------------------------------------------------------------------------
(* The invariant holds initially and every step preserves it *)

\* A server that has just started satisfies the invariant.
LEMMA InitIInv == Init => IInv
<1> SUFFICES ASSUME Init PROVE IInv
  OBVIOUS
<1>1. npuQueue \in Seq(NpuRequests)
  BY EmptySeq DEF Init
<1>2. pc \in [Requests -> PcValues]
  BY DEF Init, PcValues
<1>3. TypeOK
  <2>1. npuInUse \in BOOLEAN
    BY Zenon DEF Init
  <2>2. activeRequests \in Int
    BY DEF Init
  <2>3. stalled \in SUBSET SlowRequests
    BY DEF Init
  <2> QED BY <1>1, <1>2, <2>1, <2>2, <2>3 DEF TypeOK
<1>4. QueueMatchesWaiters
  BY SchedulerAssumption DEF QueueMatchesWaiters, Init, Requests
<1> QED
  BY <1>3, <1>4 DEF Init, IInv, ExclusiveOwner, FlagTracksOwner, CooldownFindsWork,
                    FreeRunsAtOnce, HoldsNpu, Requests

\* A step that only moves a request between two positions that neither hold the
\* NPU nor wait in the queue.
LEMMA MoveStep ==
  ASSUME IInv, NEW r \in Requests, NEW label \in PcValues,
         Goto(r, label),
         UNCHANGED <<npuInUse, activeRequests, npuQueue>>,
         stalled' \in SUBSET SlowRequests,
         r \in NpuRequests =>
           /\ pc[r] # "queued" /\ label # "queued"
           /\ HoldsNpu(r) <=> label \in {"posted", "running", "caught", "answered", "cooldown", "dead"}
           /\ label = "cooldown" => npuQueue # <<>>,
         r \in FreeRequests => label \in {"idle", "running", "tail", "dead"}
  PROVE  IInv'
<1> USE DEF IInv
<1>1. TypeOK'
  BY DEF TypeOK, Goto
<1>2. \A q \in NpuRequests : HoldsNpu(q)' <=> HoldsNpu(q)
  BY DEF TypeOK, Goto, HoldsNpu, Requests
<1>3. Queued' = Queued
  BY DEF TypeOK, Goto, Queued, Requests
<1>4. ExclusiveOwner'
  BY <1>2 DEF ExclusiveOwner
<1>5. FlagTracksOwner'
  BY <1>2 DEF FlagTracksOwner
<1>6. QueueMatchesWaiters'
  BY <1>3 DEF QueueMatchesWaiters, Queued
<1>7. CooldownFindsWork'
  BY DEF CooldownFindsWork, TypeOK, Goto, Requests
<1>8. FreeRunsAtOnce'
  BY DEF FreeRunsAtOnce, TypeOK, Goto, Requests
<1> QED BY <1>1, <1>4, <1>5, <1>6, <1>7, <1>8

\* try_acquire_npu_access, when it succeeds, preserves the invariant.
LEMMA AcquireStep ==
  ASSUME IInv, NEW r \in NpuRequests, Acquire(r)
  PROVE  IInv'
<1> USE DEF IInv, Acquire, NpuIsFree, TakeNpu, Goto
<1>1. TypeOK'
  BY DEF TypeOK, PcValues, Requests
<1>2. \A q \in NpuRequests : HoldsNpu(q)' <=> q = r
  BY DEF TypeOK, FlagTracksOwner, HoldsNpu, Requests
<1>3. Queued' = Queued
  BY DEF TypeOK, Queued, Requests
<1>4. ExclusiveOwner'
  BY <1>2 DEF ExclusiveOwner
<1>5. FlagTracksOwner'
  BY <1>2 DEF FlagTracksOwner
<1>6. QueueMatchesWaiters'
  BY <1>3 DEF QueueMatchesWaiters, Queued
<1>7. CooldownFindsWork'
  BY DEF CooldownFindsWork, TypeOK, Requests
<1>8. FreeRunsAtOnce'
  BY SchedulerAssumption DEF FreeRunsAtOnce, TypeOK, Requests
<1> QED BY <1>1, <1>4, <1>5, <1>6, <1>7, <1>8

\* Queueing a denied request preserves the invariant.
LEMMA EnqueueStep ==
  ASSUME IInv, NEW r \in NpuRequests, Enqueue(r)
  PROVE  IInv'
<1> USE DEF IInv, Enqueue, Goto
<1>1. r \notin {npuQueue[i] : i \in 1..Len(npuQueue)}
  BY DEF QueueMatchesWaiters
<1>2. npuQueue \in Seq(NpuRequests)
  BY DEF TypeOK
<1>3. \A i, j \in 1..Len(npuQueue) : npuQueue[i] = npuQueue[j] => i = j
  BY DEF QueueMatchesWaiters
<1>4. /\ npuQueue' \in Seq(NpuRequests)
      /\ Len(npuQueue') = Len(npuQueue) + 1
      /\ {npuQueue'[i] : i \in 1..Len(npuQueue')}
           = {npuQueue[i] : i \in 1..Len(npuQueue)} \cup {r}
      /\ \A i, j \in 1..Len(npuQueue') : npuQueue'[i] = npuQueue'[j] => i = j
  BY <1>1, <1>2, <1>3, AppendWaiter
<1>5. TypeOK'
  BY <1>4 DEF TypeOK, PcValues
<1>6. Queued' = Queued \cup {r}
  BY DEF TypeOK, Queued, Requests
<1>7. Len(npuQueue') <= MaxNpuQueue
  BY <1>2, <1>4, SchedulerAssumption, LenProperties DEF QueueFull
<1>8. QueueMatchesWaiters'
  BY <1>4, <1>6, <1>7 DEF QueueMatchesWaiters, Queued
<1>9. \A q \in NpuRequests : HoldsNpu(q)' <=> HoldsNpu(q)
  BY DEF TypeOK, HoldsNpu, Requests
<1>10. npuQueue' # <<>>
  BY <1>2, <1>4, LenProperties, EmptySeq
<1>11. CooldownFindsWork'
  BY <1>10 DEF CooldownFindsWork
<1>12. FreeRunsAtOnce'
  BY SchedulerAssumption DEF FreeRunsAtOnce, TypeOK, Requests
<1> QED
  BY <1>5, <1>8, <1>9, <1>11, <1>12 DEF ExclusiveOwner, FlagTracksOwner

\* Releasing the NPU because nobody waits preserves the invariant.
LEMMA ReleaseStep ==
  ASSUME IInv, NEW r \in NpuRequests, NobodyWaits(r)
  PROVE  IInv'
<1> USE DEF IInv, ReleaseNpu, Goto
<1>0. /\ pc[r] = "answered" /\ pc' = [pc EXCEPT ![r] = "tail"]
      /\ ReleaseNpu /\ UNCHANGED <<npuQueue, stalled>>
  BY DEF NobodyWaits
<1> USE <1>0
<1>1. HoldsNpu(r)
  BY DEF HoldsNpu
<1>2. npuInUse /\ activeRequests = 1
  BY <1>1 DEF FlagTracksOwner
<1>3. TypeOK'
  <2>1. npuInUse' \in BOOLEAN
    BY Zenon
  <2>2. activeRequests' \in Int
    BY <1>2
  <2>3. /\ pc' \in [Requests -> PcValues]
        /\ npuQueue' \in Seq(NpuRequests)
        /\ stalled' \in SUBSET SlowRequests
    BY DEF TypeOK, PcValues
  <2> QED BY <2>1, <2>2, <2>3 DEF TypeOK
<1>4. \A q \in NpuRequests : ~HoldsNpu(q)'
  BY <1>1 DEF TypeOK, ExclusiveOwner, HoldsNpu, Requests
<1>5. FlagTracksOwner'
  BY <1>2, <1>4 DEF FlagTracksOwner
<1>6. Queued' = Queued
  BY DEF TypeOK, Queued, Requests
<1>7. QueueMatchesWaiters'
  BY <1>6 DEF QueueMatchesWaiters, Queued
<1>8. CooldownFindsWork'
  BY <1>4 DEF CooldownFindsWork, HoldsNpu
<1>9. FreeRunsAtOnce'
  BY SchedulerAssumption DEF FreeRunsAtOnce, TypeOK, Requests
<1> QED
  BY <1>3, <1>4, <1>5, <1>7, <1>8, <1>9 DEF ExclusiveOwner

\* The hand-over: the queue is not empty, and its head becomes the owner.
LEMMA DispatchEffect ==
  ASSUME IInv, NEW r \in NpuRequests, Dispatch(r)
  PROVE  /\ npuQueue # <<>>
         /\ Head(npuQueue) \in NpuRequests \ {r}
         /\ HoldsNpu(r)
         /\ pc' = [pc EXCEPT ![r] = "tail", ![Head(npuQueue)] = "posted"]
         /\ npuQueue' = Tail(npuQueue)
         /\ UNCHANGED <<npuInUse, activeRequests, stalled>>
         /\ \A q \in NpuRequests : HoldsNpu(q)' <=> q = Head(npuQueue)
<1> USE DEF IInv
<1>1. pc[r] = "cooldown" /\ npuQueue # <<>>
  BY DEF Dispatch, CooldownFindsWork
<1>2. HoldsNpu(r)
  BY <1>1 DEF HoldsNpu
<1>3. npuQueue \in Seq(NpuRequests)
  BY DEF TypeOK
<1>4. Head(npuQueue) \in {npuQueue[i] : i \in 1..Len(npuQueue)}
  BY <1>1, <1>3, PopWaiter DEF QueueMatchesWaiters
<1>5. Head(npuQueue) \in NpuRequests /\ pc[Head(npuQueue)] = "queued"
  BY <1>4 DEF QueueMatchesWaiters
<1>6. /\ pc' = [pc EXCEPT ![r] = "tail", ![Head(npuQueue)] = "posted"]
      /\ npuQueue' = Tail(npuQueue)
      /\ UNCHANGED <<npuInUse, activeRequests, stalled>>
  BY <1>1 DEF Dispatch
<1>7. Head(npuQueue) # r
  BY <1>1, <1>5
<1>8. \A q \in NpuRequests : HoldsNpu(q)' <=> q = Head(npuQueue)
  BY <1>2, <1>5, <1>6, <1>7 DEF TypeOK, ExclusiveOwner, HoldsNpu, Requests
<1> QED BY <1>1, <1>2, <1>5, <1>6, <1>7, <1>8

\* The hand-over to the head of the queue preserves the invariant.
LEMMA DispatchStep ==
  ASSUME IInv, NEW r \in NpuRequests, Dispatch(r)
  PROVE  IInv'
<1> USE DEF IInv
<1> DEFINE h == Head(npuQueue)
<1>1. /\ npuQueue # <<>> /\ h \in NpuRequests \ {r} /\ HoldsNpu(r)
      /\ pc' = [pc EXCEPT ![r] = "tail", ![h] = "posted"]
      /\ npuQueue' = Tail(npuQueue)
      /\ UNCHANGED <<npuInUse, activeRequests, stalled>>
      /\ \A q \in NpuRequests : HoldsNpu(q)' <=> q = h
  BY DispatchEffect
<1>2. npuQueue \in Seq(NpuRequests) /\ Len(npuQueue) \in Nat
  BY LenProperties DEF TypeOK
<1>3. \A i, j \in 1..Len(npuQueue) : npuQueue[i] = npuQueue[j] => i = j
  BY DEF QueueMatchesWaiters
<1>4. /\ npuQueue' \in Seq(NpuRequests)
      /\ Len(npuQueue') = Len(npuQueue) - 1
      /\ {npuQueue'[i] : i \in 1..Len(npuQueue')}
           = {npuQueue[i] : i \in 1..Len(npuQueue)} \ {h}
      /\ \A i, j \in 1..Len(npuQueue') : npuQueue'[i] = npuQueue'[j] => i = j
  <2>1. /\ Tail(npuQueue) \in Seq(NpuRequests)
        /\ Len(Tail(npuQueue)) = Len(npuQueue) - 1
        /\ {Tail(npuQueue)[i] : i \in 1..Len(Tail(npuQueue))}
             = {npuQueue[i] : i \in 1..Len(npuQueue)} \ {h}
        /\ \A i, j \in 1..Len(Tail(npuQueue)) :
             Tail(npuQueue)[i] = Tail(npuQueue)[j] => i = j
    BY <1>1, <1>2, <1>3, PopWaiter
  <2> QED BY <2>1, <1>1
<1>5. TypeOK'
  BY <1>1, <1>4 DEF TypeOK, PcValues, Requests
<1>6. Queued' = Queued \ {h}
  BY <1>1 DEF TypeOK, Queued, Requests, HoldsNpu
<1>7. QueueMatchesWaiters'
  <2>1. {npuQueue'[i] : i \in 1..Len(npuQueue')} = Queued'
    BY <1>4, <1>6 DEF QueueMatchesWaiters, Queued
  <2>2. Len(npuQueue') <= MaxNpuQueue
    BY <1>2, <1>4, SchedulerAssumption DEF QueueMatchesWaiters
  <2> QED BY <1>4, <2>1, <2>2 DEF QueueMatchesWaiters, Queued
<1>8. CooldownFindsWork'
  <2>1. \A q \in NpuRequests : pc'[q] # "cooldown"
    BY <1>1 DEF TypeOK, Requests, HoldsNpu
  <2> QED BY <2>1 DEF CooldownFindsWork
<1>9. ExclusiveOwner' /\ FlagTracksOwner'
  BY <1>1 DEF ExclusiveOwner, FlagTracksOwner
<1>10. FreeRunsAtOnce'
  BY <1>1, SchedulerAssumption DEF FreeRunsAtOnce, TypeOK, Requests
<1> QED BY <1>5, <1>7, <1>8, <1>9, <1>10

-----------------------------------------------------------------------------
\* Every step of the scheduler preserves the invariant.
LEMMA NextIInv == IInv /\ [Next]_vars => IInv'
<1> SUFFICES ASSUME IInv, [Next]_vars PROVE IInv'
  OBVIOUS
<1>1. CASE UNCHANGED vars
  <2>1. UNCHANGED <<pc, npuInUse, activeRequests, npuQueue, stalled>>
    BY <1>1 DEF vars
  <2> QED
    BY <2>1 DEF IInv, TypeOK, ExclusiveOwner, FlagTracksOwner, QueueMatchesWaiters,
                CooldownFindsWork, FreeRunsAtOnce, HoldsNpu
<1>2. ASSUME NEW r \in Requests,
             \/ ArriveNpu(r) \/ ArriveFree(r) \/ StartTask(r) \/ Denied(r) \/ Refuse(r)
             \/ Answer(r) \/ AnswerFree(r) \/ TaskThrows(r) \/ CoolDown(r)
             \/ HandlerReturns(r) \/ HandlerThrows(r) \/ ClientStalls(r) \/ ClientMoves(r)
      PROVE  IInv'
  <2>1. CASE ArriveNpu(r)
    BY <2>1, MoveStep, SchedulerAssumption
       DEF ArriveNpu, HoldsNpu, PcValues, IInv, TypeOK, FreeRunsAtOnce
  <2>2. CASE ArriveFree(r)
    BY <2>2, MoveStep, SchedulerAssumption DEF ArriveFree, HoldsNpu, PcValues, IInv, TypeOK
  <2>3. CASE StartTask(r)
    BY <2>3, MoveStep, SchedulerAssumption
       DEF StartTask, HoldsNpu, PcValues, IInv, TypeOK, FreeRunsAtOnce
  <2>4. CASE Denied(r)
    BY <2>4, MoveStep, SchedulerAssumption
       DEF Denied, HoldsNpu, PcValues, IInv, TypeOK, FreeRunsAtOnce
  <2>5. CASE Refuse(r)
    BY <2>5, MoveStep, SchedulerAssumption
       DEF Refuse, HoldsNpu, PcValues, IInv, TypeOK, FreeRunsAtOnce
  <2>6. CASE Answer(r)
    BY <2>6, MoveStep, SchedulerAssumption
       DEF Answer, HoldsNpu, PcValues, IInv, TypeOK
  <2>7. CASE AnswerFree(r)
    BY <2>7, MoveStep, SchedulerAssumption DEF AnswerFree, HoldsNpu, PcValues, IInv, TypeOK
  <2>8. CASE TaskThrows(r)
    BY <2>8, MoveStep, SchedulerAssumption
       DEF TaskThrows, HoldsNpu, PcValues, IInv, TypeOK, FreeRunsAtOnce
  <2>9. CASE CoolDown(r)
    BY <2>9, MoveStep, SchedulerAssumption
       DEF CoolDown, HoldsNpu, PcValues, IInv, TypeOK, FreeRunsAtOnce
  <2>10. CASE HandlerReturns(r)
    BY <2>10, MoveStep DEF HandlerReturns, HoldsNpu, PcValues, IInv, TypeOK
  <2>11. CASE HandlerThrows(r)
    BY <2>11, MoveStep, SchedulerAssumption
       DEF HandlerThrows, HoldsNpu, PcValues, IInv, TypeOK
  <2>12. CASE ClientStalls(r) \/ ClientMoves(r)
    <3>1. /\ stalled' \in SUBSET SlowRequests
          /\ UNCHANGED <<pc, npuInUse, activeRequests, npuQueue>>
      BY <2>12 DEF ClientStalls, ClientMoves, IInv, TypeOK
    <3> QED
      BY <3>1 DEF IInv, TypeOK, ExclusiveOwner, FlagTracksOwner, QueueMatchesWaiters,
                  CooldownFindsWork, FreeRunsAtOnce, HoldsNpu
  <2> QED
    BY <1>2, <2>1, <2>2, <2>3, <2>4, <2>5, <2>6, <2>7, <2>8, <2>9, <2>10, <2>11, <2>12
<1>3. ASSUME NEW r \in Requests,
             Acquire(r) \/ Enqueue(r) \/ NobodyWaits(r) \/ Dispatch(r)
      PROVE  IInv'
  <2>1. r \in NpuRequests
    BY <1>3 DEF IInv, FreeRunsAtOnce, Requests, Acquire, Enqueue, NobodyWaits, Dispatch
  <2> QED BY <1>3, <2>1, AcquireStep, EnqueueStep, ReleaseStep, DispatchStep
<1> QED BY <1>1, <1>2, <1>3 DEF Next, ThreadStep

\* Types, ownership of the NPU, and the queue are right in every reachable state.
THEOREM SchedulerInvariant == Spec => []IInv
<1>1. Init => IInv
  BY InitIInv
<1>2. IInv /\ [Next]_vars => IInv'
  BY NextIInv
<1> QED BY <1>1, <1>2, PTL DEF Spec

\* The variables have their types, whatever the numbers of requests and threads.
THEOREM TypeCorrect == Spec => []TypeOK
<1>1. IInv => TypeOK
  BY DEF IInv
<1> QED BY <1>1, SchedulerInvariant, PTL

\* Two requests never have the NPU at once: the test-and-set, the hand-over that
\* keeps the flag set, and the release together give mutual exclusion.
THEOREM NpuMutualExclusion == Spec => []ExclusiveOwner
<1>1. IInv => ExclusiveOwner
  BY DEF IInv
<1> QED BY <1>1, SchedulerInvariant, PTL

\* g_npu_in_use and g_npu_active_requests always say whether a request has the NPU.
THEOREM FlagIsAccurate == Spec => []FlagTracksOwner
<1>1. IInv => FlagTracksOwner
  BY DEF IInv
<1> QED BY <1>1, SchedulerInvariant, PTL

\* The queue never exceeds --q-len and never loses or repeats a waiting request.
THEOREM QueueIsExact == Spec => []QueueMatchesWaiters
<1>1. IInv => QueueMatchesWaiters
  BY DEF IInv
<1> QED BY <1>1, SchedulerInvariant, PTL

\* The second empty test of process_next_npu_request is dead code.
THEOREM SecondTestNeverSucceeds == Spec => []CooldownFindsWork
<1>1. IInv => CooldownFindsWork
  BY DEF IInv
<1> QED BY <1>1, SchedulerInvariant, PTL

-----------------------------------------------------------------------------
(* The scheduler implements the lease with a line *)

\* The value of the refinement mapping in a state with one owner, and in one
\* without, before and after a step.
LEMMA HolderValue ==
  /\ \A r \in NpuRequests :
       (\A q \in NpuRequests : HoldsNpu(q) <=> q = r) => Holder = r
  /\ (\A q \in NpuRequests : ~HoldsNpu(q)) => Holder = NoRequest
BY DEF Holder

\* The same for the state after a step.
LEMMA HolderValueNext ==
  /\ \A r \in NpuRequests :
       (\A q \in NpuRequests : HoldsNpu(q)' <=> q = r) => Holder' = r
  /\ (\A q \in NpuRequests : ~HoldsNpu(q)') => Holder' = NoRequest
BY DEF Holder

\* A step that changes neither the owner nor the queue is a stutter of the lease.
LEMMA LeaseStutter ==
  ASSUME UNCHANGED npuQueue, \A q \in NpuRequests : HoldsNpu(q)' <=> HoldsNpu(q), IInv
  PROVE  UNCHANGED Lease!vars
<1>1. CASE \E r \in NpuRequests : HoldsNpu(r)
  <2>1. PICK r \in NpuRequests : HoldsNpu(r)
    BY <1>1
  <2>2. Holder = r /\ Holder' = r
    <3>1. \A q \in NpuRequests : HoldsNpu(q) <=> q = r
      BY <2>1 DEF IInv, ExclusiveOwner
    <3> QED BY <3>1, HolderValue, HolderValueNext
  <2> QED BY <2>2 DEF Lease!vars
<1>2. CASE ~\E r \in NpuRequests : HoldsNpu(r)
  <2>1. Holder = NoRequest /\ Holder' = NoRequest
    BY <1>2, HolderValue, HolderValueNext
  <2> QED BY <2>1 DEF Lease!vars
<1> QED BY <1>1, <1>2

\* A successful try_acquire_npu_access is a grant of the lease.
LEMMA LeaseGrant ==
  ASSUME IInv, NEW r \in NpuRequests, Acquire(r)
  PROVE  Lease!Grant(r)
<1>1. pc[r] = "routed" /\ ~npuInUse /\ UNCHANGED npuQueue
  BY DEF Acquire, NpuIsFree
<1>2. pc' = [pc EXCEPT ![r] = "running"]
  BY DEF Acquire, Goto
<1>3. \A q \in NpuRequests : ~HoldsNpu(q)
  BY <1>1 DEF IInv, FlagTracksOwner
<1>4. \A q \in NpuRequests : HoldsNpu(q)' <=> q = r
  BY <1>2, <1>3 DEF IInv, TypeOK, HoldsNpu, Requests
<1>5. Holder = NoRequest /\ Holder' = r
  BY <1>3, <1>4, HolderValue, HolderValueNext
<1>6. r \notin Lease!Waiting
  BY <1>1 DEF IInv, QueueMatchesWaiters, Lease!Waiting
<1> QED BY <1>1, <1>5, <1>6 DEF Lease!Grant

\* Queueing a request is joining the line of the lease.
LEMMA LeaseJoin ==
  ASSUME IInv, NEW r \in NpuRequests, Enqueue(r)
  PROVE  Lease!Join(r)
<1>1. pc[r] = "denied" /\ npuQueue' = Append(npuQueue, r) /\ ~QueueFull
  BY DEF Enqueue
<1>2. \A q \in NpuRequests : HoldsNpu(q)' <=> HoldsNpu(q)
  BY <1>1 DEF Enqueue, Goto, IInv, TypeOK, HoldsNpu, Requests
<1>3. Holder' = Holder /\ Holder # r
  <2>1. CASE \E q \in NpuRequests : HoldsNpu(q)
    <3>1. PICK q \in NpuRequests : HoldsNpu(q)
      BY <2>1
    <3>2. \A p \in NpuRequests : HoldsNpu(p) <=> p = q
      BY <3>1 DEF IInv, ExclusiveOwner
    <3>3. Holder = q /\ Holder' = q
      BY <3>2, <1>2, HolderValue, HolderValueNext
    <3> QED BY <3>3, <3>1, <1>1 DEF HoldsNpu
  <2>2. CASE ~\E q \in NpuRequests : HoldsNpu(q)
    <3>1. Holder = NoRequest /\ Holder' = NoRequest
      BY <2>2, <1>2, HolderValue, HolderValueNext
    <3> QED BY <3>1, SchedulerAssumption DEF Requests
  <2> QED BY <2>1, <2>2
<1>4. r \notin Lease!Waiting
  BY <1>1 DEF IInv, QueueMatchesWaiters, Lease!Waiting
<1>5. Len(npuQueue) < MaxNpuQueue
  BY <1>1, SchedulerAssumption, LenProperties DEF QueueFull, IInv, TypeOK
<1> QED BY <1>1, <1>3, <1>4, <1>5 DEF Lease!Join

\* Releasing the NPU with an empty queue is the lease's release.
LEMMA LeaseRelease ==
  ASSUME IInv, NEW r \in NpuRequests, NobodyWaits(r)
  PROVE  Lease!Release
<1>1. npuQueue = <<>> /\ UNCHANGED npuQueue /\ pc' = [pc EXCEPT ![r] = "tail"]
  BY DEF NobodyWaits, Goto
<1>2. \A q \in NpuRequests : HoldsNpu(q) <=> q = r
  BY DEF NobodyWaits, HoldsNpu, IInv, ExclusiveOwner
<1>3. \A q \in NpuRequests : ~HoldsNpu(q)'
  BY <1>1, <1>2 DEF IInv, TypeOK, HoldsNpu, Requests
<1>4. Holder = r /\ Holder' = NoRequest /\ r # NoRequest
  BY <1>2, <1>3, HolderValue, HolderValueNext, SchedulerAssumption DEF Requests
<1> QED BY <1>1, <1>4 DEF Lease!Release

\* Taking the head out of the queue is the lease's hand-over.
LEMMA LeaseHandOver ==
  ASSUME IInv, NEW r \in NpuRequests, Dispatch(r)
  PROVE  Lease!HandOver
<1>1. /\ npuQueue # <<>> /\ Head(npuQueue) \in NpuRequests /\ HoldsNpu(r)
      /\ npuQueue' = Tail(npuQueue)
      /\ \A q \in NpuRequests : HoldsNpu(q)' <=> q = Head(npuQueue)
  BY DispatchEffect
<1>2. \A q \in NpuRequests : HoldsNpu(q) <=> q = r
  BY <1>1 DEF IInv, ExclusiveOwner
<1>3. Holder = r /\ Holder' = Head(npuQueue) /\ r # NoRequest
  BY <1>1, <1>2, HolderValue, HolderValueNext, SchedulerAssumption DEF Requests
<1> QED BY <1>1, <1>3 DEF Lease!HandOver

\* Steps that move a request without moving the NPU or the queue.
LEMMA SilentStep ==
  ASSUME IInv, NEW r \in Requests,
         \/ ArriveNpu(r) \/ ArriveFree(r) \/ StartTask(r) \/ Denied(r) \/ Refuse(r)
         \/ Answer(r) \/ AnswerFree(r) \/ TaskThrows(r) \/ CoolDown(r)
         \/ HandlerReturns(r) \/ HandlerThrows(r) \/ ClientStalls(r) \/ ClientMoves(r)
  PROVE  UNCHANGED npuQueue /\ \A q \in NpuRequests : HoldsNpu(q)' <=> HoldsNpu(q)
<1> USE SchedulerAssumption DEF IInv, TypeOK, HoldsNpu, Goto, Requests, FreeRunsAtOnce
<1>1. CASE ArriveNpu(r) \/ ArriveFree(r) \/ StartTask(r)
  BY <1>1 DEF ArriveNpu, ArriveFree, StartTask
<1>2. CASE Denied(r) \/ Refuse(r) \/ Answer(r) \/ AnswerFree(r)
  BY <1>2 DEF Denied, Refuse, Answer, AnswerFree
<1>3. CASE TaskThrows(r) \/ CoolDown(r) \/ HandlerReturns(r)
  BY <1>3 DEF TaskThrows, CoolDown, HandlerReturns
<1>4. CASE HandlerThrows(r) \/ ClientStalls(r) \/ ClientMoves(r)
  BY <1>4 DEF HandlerThrows, ClientStalls, ClientMoves
<1> QED BY <1>1, <1>2, <1>3, <1>4

\* Every step of the scheduler is a step of the lease, or leaves it unchanged.
LEMMA StepSimulation == IInv /\ [Next]_vars => [Lease!Next]_(Lease!vars)
<1> SUFFICES ASSUME IInv, [Next]_vars
             PROVE  Lease!Next \/ UNCHANGED Lease!vars
  OBVIOUS
<1>1. CASE UNCHANGED vars
  <2>1. UNCHANGED npuQueue /\ \A q \in NpuRequests : HoldsNpu(q)' <=> HoldsNpu(q)
    BY <1>1 DEF vars, HoldsNpu
  <2> QED BY <2>1, LeaseStutter
<1>2. ASSUME NEW r \in Requests,
             \/ ArriveNpu(r) \/ ArriveFree(r) \/ StartTask(r) \/ Denied(r) \/ Refuse(r)
             \/ Answer(r) \/ AnswerFree(r) \/ TaskThrows(r) \/ CoolDown(r)
             \/ HandlerReturns(r) \/ HandlerThrows(r) \/ ClientStalls(r) \/ ClientMoves(r)
      PROVE  UNCHANGED Lease!vars
  BY <1>2, SilentStep, LeaseStutter
<1>3. ASSUME NEW r \in Requests,
             Acquire(r) \/ Enqueue(r) \/ NobodyWaits(r) \/ Dispatch(r)
      PROVE  Lease!Next
  <2>1. r \in NpuRequests
    BY <1>3 DEF IInv, FreeRunsAtOnce, Requests, Acquire, Enqueue, NobodyWaits, Dispatch
  <2> QED
    BY <1>3, <2>1, LeaseGrant, LeaseJoin, LeaseRelease, LeaseHandOver DEF Lease!Next
<1> QED BY <1>1, <1>2, <1>3 DEF Next, ThreadStep

\* Flag, queue, sleep and hand-over implement the lease: the NPU is released only
\* when nobody waits, and goes from its owner to the request that waited longest.
THEOREM SchedulerImplementsLease == Spec => ImplementsLease
<1>1. Init => Lease!Init
  <2> SUFFICES ASSUME Init PROVE Lease!Init
    OBVIOUS
  <2>1. \A q \in NpuRequests : ~HoldsNpu(q)
    BY DEF Init, HoldsNpu, Requests
  <2>2. Holder = NoRequest
    BY <2>1, HolderValue
  <2> QED BY <2>2 DEF Init, Lease!Init
<1>2. IInv /\ [Next]_vars => [Lease!Next]_(Lease!vars)
  BY StepSimulation
<1> QED BY <1>1, <1>2, SchedulerInvariant, PTL DEF Spec, Lease!Spec, ImplementsLease

\* While the NPU is in use nobody but the head of the queue can get it.
THEOREM NoOvertaking == Spec => NoOvertakingWhileBusy
<1> DEFINE A == \A r \in NpuRequests :
                  npuInUse /\ npuQueue # <<>> /\ ~HoldsNpu(r) /\ HoldsNpu(r)'
                    => r = Head(npuQueue)
<1>1. IInv /\ [Next]_vars => [A]_vars
  <2> SUFFICES ASSUME IInv, [Next]_vars, NEW p \in NpuRequests,
                      npuInUse, ~HoldsNpu(p), HoldsNpu(p)'
               PROVE  p = Head(npuQueue)
    OBVIOUS
  <2>1. CASE UNCHANGED vars
    BY <2>1 DEF vars, HoldsNpu
  <2>2. ASSUME NEW r \in Requests,
               \/ ThreadStep(r) \/ ArriveNpu(r) \/ ArriveFree(r) \/ StartTask(r)
               \/ ClientStalls(r) \/ ClientMoves(r)
        PROVE  p = Head(npuQueue)
    <3>1. Acquire(r) \/ Enqueue(r) \/ NobodyWaits(r) \/ Dispatch(r)
      BY <2>2, SilentStep DEF ThreadStep
    <3>2. r \in NpuRequests
      BY <3>1 DEF IInv, FreeRunsAtOnce, Requests, Acquire, Enqueue, NobodyWaits, Dispatch
    <3>3. CASE Acquire(r)
      BY <3>3 DEF Acquire, NpuIsFree
    <3>4. CASE Enqueue(r) \/ NobodyWaits(r)
      BY <3>2, <3>4 DEF Enqueue, NobodyWaits, Goto, IInv, TypeOK, HoldsNpu, Requests
    <3>5. CASE Dispatch(r)
      BY <3>2, <3>5, DispatchEffect
    <3> QED BY <3>1, <3>3, <3>4, <3>5
  <2> QED BY <2>1, <2>2 DEF Next
<1> QED BY <1>1, SchedulerInvariant, PTL DEF Spec, NoOvertakingWhileBusy
=============================================================================
