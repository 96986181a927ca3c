------------------------ MODULE HttpConnectionsProofs ------------------------
(***************************************************************************)
(* Proofs about HttpConnections.  Every step of a session either leaves the  *)
(* number of open connections and the counter alone, or opens one connection *)
(* below the limit and counts it, or ends an open one and counts it off, or  *)
(* ends an open one and leaks its count, or counts one that never comes to   *)
(* be.  The counter therefore bounds the number of open connections from     *)
(* above, which is the inductive invariant, and with it the limit that       *)
(* do_accept applies to the counter bounds them.                             *)
(***************************************************************************)
EXTENDS HttpConnections, FiniteSetTheorems, TLAPS

SessionType ==
  /\ phase \in [Sessions -> Phases]
  /\ streaming \in [Sessions -> BOOLEAN]
  /\ socket \in [Sessions -> {"open", "closed"}]
  /\ peerLeft \in [Sessions -> BOOLEAN]
  /\ watched \in [Sessions -> BOOLEAN]
  /\ stalled \in [Sessions -> BOOLEAN]

ServerType == accepting \in BOOLEAN /\ lostThreads \in Nat

IInv ==
  /\ SessionType
  /\ ServerType
  /\ activeConnections \in Nat
  /\ NeverUndercounts
  /\ OpenWithinLimit

Action(s) ==
  \/ Accept(s) \/ AcceptThrows(s) \/ ReadFails(s) \/ AnswerAtOnce(s)
  \/ Preflight(s) \/ PreflightFails(s) \/ RunNow(s) \/ Defer(s)
  \/ Chunk(s) \/ HeaderFails(s) \/ ChunkFails(s) \/ RunDeferred(s)
  \/ TaskThrows(s) \/ PeerLeaves(s) \/ PeerStalls(s) \/ PeerReads(s)
  \/ MonitorWakes(s) \/ ServerStep(s)

-----------------------------------------------------------------------------
(* The kinds of steps *)

Stays == Open' = Open /\ activeConnections' = activeConnections

Opens(s) ==
  /\ s \notin Open /\ Open' = Open \cup {s}
  /\ activeConnections < MaxConnections /\ activeConnections' = activeConnections + 1

Ends(s) ==
  /\ s \in Open /\ Open' = Open \ {s}
  /\ activeConnections' = activeConnections - 1

Loses(s) ==
  /\ s \in Open /\ Open' = Open \ {s}
  /\ activeConnections' = activeConnections /\ Leaks(s)

Miscounts(s) ==
  /\ Open' = Open
  /\ activeConnections' = activeConnections + 1 /\ Leaks(s)

LEMMA OpenFinite ==
  /\ IsFiniteSet(Open)
  /\ Cardinality(Open) \in Nat
<1>1. Open \subseteq Sessions
  BY DEF Open
<1> QED
  BY <1>1, ConnectionsAssumption, FS_Subset, FS_CardinalityType

\* A session that moves between phases in which it is open, or outside of them.
LEMMA MoveKeepsOpen ==
  ASSUME SessionType, NEW s \in Sessions, NEW p \in Phases, Enter(s, p),
         (phase[s] \in {"none", "refused"}) <=> (p \in {"none", "refused"})
  PROVE  Open' = Open
<1>1. \A t \in Sessions : t # s => phase'[t] = phase[t]
  BY DEF SessionType, Enter
<1>2. phase'[s] = p
  BY DEF SessionType, Enter
<1> QED
  BY <1>1, <1>2 DEF Open

LEMMA ForgetShrinks ==
  ASSUME SessionType, NEW s \in Sessions, Forget(s)
  PROVE  Open' = Open \ {s}
<1>1. \A t \in Sessions : t # s => phase'[t] = phase[t]
  BY DEF SessionType, Forget, Enter
<1>2. phase'[s] = "none"
  BY DEF SessionType, Forget, Enter
<1> QED
  BY <1>1, <1>2 DEF Open

\* What a leaking step leaks.
LEMMA LeakKinds ==
  ASSUME SessionType, NEW s \in Sessions, Leaks(s)
  PROVE  Loses(s) \/ Miscounts(s)
<1>1. CASE PreflightFails(s) \/ FinalChunkFails(s) \/ HungEnds(s)
  <2>1. s \in Open
    BY <1>1 DEF PreflightFails, FinalChunkFails, HungEnds, Writes, InHandler, Open
  <2>2. Forget(s) /\ NotCounted
    BY <1>1 DEF PreflightFails, FinalChunkFails, HungEnds
  <2> QED
    BY <2>1, <2>2, ForgetShrinks DEF NotCounted, Loses
<1>2. CASE AcceptThrows(s) /\ ~AtLimit
  BY <1>2 DEF AcceptThrows, sessionVars, Open, Miscounts
<1> QED
  BY <1>1, <1>2 DEF Leaks

\* Which kind each action is of.
LEMMA StepKinds ==
  ASSUME SessionType, activeConnections \in Nat, NEW s \in Sessions, Action(s)
  PROVE  Stays \/ Opens(s) \/ Ends(s) \/ Loses(s) \/ Miscounts(s)
<1>1. CASE Accept(s)
  <2>1. CASE AtLimit
    BY <1>1, <2>1, MoveKeepsOpen DEF Accept, NotCounted, Stays, Phases
  <2>2. CASE ~AtLimit
    <3>1. Enter(s, "reading") /\ phase[s] = "none"
      BY <1>1, <2>2 DEF Accept
    <3>2. Open' = Open \cup {s} /\ s \notin Open
      <4>1. \A t \in Sessions : t # s => phase'[t] = phase[t]
        BY <3>1 DEF SessionType, Enter
      <4>2. phase'[s] = "reading"
        BY <3>1 DEF SessionType, Enter
      <4> QED
        BY <3>1, <4>1, <4>2 DEF Open
    <3> QED
      BY <1>1, <2>2, <3>2, ConnectionsAssumption DEF Accept, AtLimit, Opens
  <2> QED
    BY <2>1, <2>2
<1>2. CASE AnswerAtOnce(s) \/ Preflight(s) \/ PreflightWritten(s) \/ RunNow(s) \/ Defer(s) \/ RunDeferred(s)
  <2>1. \E p \in Phases \ {"none", "refused"} : Enter(s, p)
    BY <1>2 DEF AnswerAtOnce, Preflight, PreflightWritten, RunNow, Defer, RunDeferred, Phases
  <2>2. phase[s] \notin {"none", "refused"} /\ UNCHANGED activeConnections
    BY <1>2 DEF AnswerAtOnce, Preflight, PreflightWritten, RunNow, Defer, RunDeferred, ServerUnchanged
  <2> QED
    BY <2>1, <2>2, MoveKeepsOpen DEF Stays
<1>3. CASE Respond(s) \/ TaskThrows(s)
  <2>1. \E p \in {"hung", "writing"} : Enter(s, p)
    BY <1>3 DEF Respond, TaskThrows
  <2>2. phase[s] \notin {"none", "refused"} /\ UNCHANGED activeConnections
    BY <1>3 DEF Respond, TaskThrows, Writes, InHandler, ServerUnchanged
  <2> QED
    BY <2>1, <2>2, MoveKeepsOpen DEF Stays, Phases
<1>4. CASE \/ Chunk(s) \/ HeaderFails(s) \/ ChunkFails(s) \/ PeerLeaves(s)
           \/ PeerStalls(s) \/ PeerReads(s) \/ MonitorWakes(s)
  BY <1>4 DEF Chunk, HeaderFails, ChunkFails, PeerLeaves, PeerStalls, PeerReads, MonitorWakes,
     ServerUnchanged, Stays, Open
<1>5. CASE RefusedLeaves(s)
  <2>1. s \notin Open
    BY <1>5 DEF RefusedLeaves, Open
  <2> QED
    BY <1>5, <2>1, ForgetShrinks DEF RefusedLeaves, NotCounted, Stays
<1>6. CASE ReadFails(s) \/ FinalChunk(s) \/ ResponseWritten(s)
  <2>1. s \in Open
    BY <1>6 DEF ReadFails, FinalChunk, ResponseWritten, Writes, InHandler, Open
  <2> QED
    BY <1>6, <2>1, ForgetShrinks DEF ReadFails, FinalChunk, ResponseWritten, Counted, Ends
<1>7. CASE Leaks(s)
  BY <1>7, LeakKinds
<1>8. CASE AcceptThrows(s) /\ AtLimit
  BY <1>8 DEF AcceptThrows, sessionVars, Open, Stays
<1> QED
  BY <1>1, <1>2, <1>3, <1>4, <1>5, <1>6, <1>7, <1>8 DEF Action, ServerStep, Leaks

-----------------------------------------------------------------------------
(* Types of the sessions' variables *)

LEMMA TypeStep ==
  ASSUME SessionType, NEW s \in Sessions, Action(s)
  PROVE  SessionType'
<1> USE DEF SessionType
<1>1. ASSUME Forget(s) PROVE SessionType'
  BY <1>1 DEF Forget, Enter, Phases
<1>2. ASSUME NEW p \in Phases, Enter(s, p), UNCHANGED <<streaming, socket, peerLeft, stalled>>,
             watched' \in [Sessions -> BOOLEAN]
      PROVE  SessionType'
  BY <1>2 DEF Enter
<1>3. CASE Accept(s) \/ AnswerAtOnce(s) \/ Preflight(s) \/ PreflightWritten(s) \/ Defer(s)
           \/ Respond(s) \/ TaskThrows(s)
  <2>1. UNCHANGED <<streaming, socket, peerLeft, watched, stalled>>
    BY <1>3 DEF Accept, AnswerAtOnce, Preflight, PreflightWritten, Defer, Respond, TaskThrows
  <2>2. \E p \in Phases : Enter(s, p)
    BY <1>3 DEF Accept, AnswerAtOnce, Preflight, PreflightWritten, Defer, Respond, TaskThrows, Phases
  <2> QED
    BY <1>2, <2>1, <2>2
<1>4. CASE RunNow(s) \/ RunDeferred(s)
  <2>1. /\ UNCHANGED <<streaming, socket, peerLeft, stalled>>
        /\ watched' \in [Sessions -> BOOLEAN]
    BY <1>4 DEF RunNow, RunDeferred
  <2>2. \E p \in Phases : Enter(s, p)
    BY <1>4 DEF RunNow, RunDeferred, Phases
  <2> QED
    BY <1>2, <2>1, <2>2
<1>5. CASE \/ Chunk(s) \/ HeaderFails(s) \/ ChunkFails(s) \/ PeerLeaves(s)
           \/ PeerStalls(s) \/ PeerReads(s) \/ MonitorWakes(s)
  BY <1>5 DEF Chunk, HeaderFails, ChunkFails, PeerLeaves, PeerStalls, PeerReads, MonitorWakes
<1>6. CASE RefusedLeaves(s) \/ ReadFails(s) \/ FinalChunk(s) \/ FinalChunkFails(s)
           \/ ResponseWritten(s) \/ PreflightFails(s) \/ HungEnds(s)
  BY <1>1, <1>6 DEF RefusedLeaves, ReadFails, FinalChunk, FinalChunkFails, ResponseWritten,
     PreflightFails, HungEnds
<1>7. CASE AcceptThrows(s)
  BY <1>7 DEF AcceptThrows, sessionVars
<1> QED
  BY <1>3, <1>4, <1>5, <1>6, <1>7 DEF Action, ServerStep

\* Only the two exceptions change what belongs to the server itself.
LEMMA ServerStepTypes ==
  ASSUME ServerType, NEW s \in Sessions, Action(s)
  PROVE  ServerType'
<1>1. CASE AcceptThrows(s) \/ TaskThrows(s)
  <2>1. lostThreads' \in Nat
    BY <1>1 DEF AcceptThrows, TaskThrows, ServerType
  <2>2. accepting' \in BOOLEAN
    BY <1>1, Zenon DEF AcceptThrows, TaskThrows, ServerType
  <2> QED
    BY <2>1, <2>2 DEF ServerType
<1>2. CASE ~(AcceptThrows(s) \/ TaskThrows(s))
  <2>1. UNCHANGED <<accepting, lostThreads>>
    BY <1>2 DEF Action, ServerStep, Accept, ReadFails, AnswerAtOnce, Preflight, PreflightFails,
       RunNow, Defer, Chunk, HeaderFails, ChunkFails, RunDeferred, PeerLeaves, PeerStalls,
       PeerReads, MonitorWakes, RefusedLeaves, PreflightWritten, FinalChunk, FinalChunkFails,
       Respond, ResponseWritten, HungEnds, Forget, ServerUnchanged
  <2> QED
    BY <2>1 DEF ServerType
<1> QED
  BY <1>1, <1>2

-----------------------------------------------------------------------------
(* The invariant *)

LEMMA InitIInv == Init => IInv
<1> SUFFICES ASSUME Init PROVE IInv
  OBVIOUS
<1>1. SessionType /\ ServerType /\ activeConnections = 0
  BY DEF Init, SessionType, ServerType, Phases
<1>2. Open = {}
  BY DEF Init, Open
<1>3. Cardinality(Open) = 0
  BY <1>2, FS_EmptySet
<1> QED
  BY <1>1, <1>3, ConnectionsAssumption DEF IInv, NeverUndercounts, OpenWithinLimit

\* What each kind of step does to the number of open connections.
LEMMA KindCounts ==
  ASSUME NEW s, IsFiniteSet(Open)
  PROVE  /\ Opens(s) => Cardinality(Open') = Cardinality(Open) + 1
         /\ Ends(s) \/ Loses(s) => /\ Cardinality(Open') = Cardinality(Open) - 1
                                   /\ Cardinality(Open) # 0
<1>1. ASSUME Opens(s) PROVE Cardinality(Open') = Cardinality(Open) + 1
  BY <1>1, FS_AddElement DEF Opens
<1>2. ASSUME Ends(s) \/ Loses(s)
      PROVE  Cardinality(Open') = Cardinality(Open) - 1 /\ Cardinality(Open) # 0
  <2>1. s \in Open /\ Open' = Open \ {s}
    BY <1>2 DEF Ends, Loses
  <2>2. Cardinality(Open) # 0
    BY <2>1, FS_EmptySet
  <2> QED
    BY <2>1, <2>2, FS_RemoveElement
<1> QED
  BY <1>1, <1>2

LEMMA NextIInv == IInv /\ [Next]_vars => IInv'
<1> SUFFICES ASSUME IInv, [Next]_vars PROVE IInv'
  OBVIOUS
<1>1. CASE UNCHANGED vars
  BY <1>1 DEF IInv, vars, sessionVars, SessionType, ServerType, NeverUndercounts,
     OpenWithinLimit, Open
<1>2. CASE Next
  <2>1. PICK s \in Sessions : Action(s)
    BY <1>2 DEF Next, Action
  <2>2. SessionType' /\ ServerType'
    BY <2>1, TypeStep, ServerStepTypes DEF IInv
  <2>3. Stays \/ Opens(s) \/ Ends(s) \/ Loses(s) \/ Miscounts(s)
    BY <2>1, StepKinds DEF IInv
  <2>4. activeConnections' \in Nat /\ NeverUndercounts' /\ OpenWithinLimit'
    <3> DEFINE c == Cardinality(Open)
               d == Cardinality(Open')
    <3>1. c \in Nat /\ c <= activeConnections /\ c <= MaxConnections /\ activeConnections \in Nat
      BY OpenFinite DEF IInv, NeverUndercounts, OpenWithinLimit
    <3>2. /\ Opens(s) => d = c + 1
          /\ Ends(s) \/ Loses(s) => d = c - 1 /\ c # 0
      BY OpenFinite, KindCounts
    <3>3. activeConnections' \in Nat /\ d <= activeConnections' /\ d <= MaxConnections
      <4> HIDE DEF c, d
      <4>1. CASE Stays
        <5>1. d = c
          BY <4>1 DEF Stays, c, d
        <5> QED
          BY <3>1, <4>1, <5>1 DEF Stays
      <4>2. CASE Opens(s)
        BY <3>1, <3>2, <4>2, ConnectionsAssumption DEF Opens
      <4>3. CASE Ends(s)
        BY <3>1, <3>2, <4>3, ConnectionsAssumption DEF Ends
      <4>4. CASE Loses(s)
        BY <3>1, <3>2, <4>4, ConnectionsAssumption DEF Loses
      <4>5. CASE Miscounts(s)
        <5>1. d = c
          BY <4>5 DEF Miscounts, c, d
        <5> QED
          BY <3>1, <4>5, <5>1 DEF Miscounts
      <4> QED
        BY <2>3, <4>1, <4>2, <4>3, <4>4, <4>5
    <3> QED
      BY <3>3 DEF NeverUndercounts, OpenWithinLimit
  <2> QED
    BY <2>2, <2>4 DEF IInv
<1> QED
  BY <1>1, <1>2

\* The inductive invariant, for any sessions, limit and faults.
THEOREM ConnectionsInvariant == Spec => []IInv
<1>1. Init => IInv
  BY InitIInv
<1>2. IInv /\ [Next]_vars => IInv'
  BY NextIInv
<1> QED
  BY <1>1, <1>2, PTL DEF Spec

-----------------------------------------------------------------------------
\* The variables of the sessions and the counter keep their types; the counter
\* is never lowered below zero.
THEOREM TypeCorrect == Spec => []TypeOK
<1>1. IInv => TypeOK
  BY DEF IInv, SessionType, ServerType, TypeOK
<1> QED
  BY <1>1, ConnectionsInvariant, PTL

\* The server never counts fewer connections than are open.
THEOREM CounterNeverTooLow == Spec => []NeverUndercounts
<1>1. IInv => NeverUndercounts
  BY DEF IInv
<1> QED
  BY <1>1, ConnectionsInvariant, PTL

\* No more than max_connections_ connections are open, whatever leaks.
THEOREM LimitHolds == Spec => []OpenWithinLimit
<1>1. IInv => OpenWithinLimit
  BY DEF IInv
<1> QED
  BY <1>1, ConnectionsInvariant, PTL

\* The counter moves with the number of open connections, and each of the four
\* error paths leaks exactly one.
THEOREM CounterMovesWithSessions == Spec => CounterFollowsSessions
<1> DEFINE Follows ==
      activeConnections' - activeConnections
        = Cardinality(Open') - Cardinality(Open)
            + (IF \E s \in Sessions : Leaks(s) THEN 1 ELSE 0)
<1>1. IInv /\ [Next]_vars => [Follows]_vars
  <2> SUFFICES ASSUME IInv, Next PROVE Follows
    OBVIOUS
  <2>1. PICK s \in Sessions : Action(s)
    BY DEF Next, Action
  <2>2. Stays \/ Opens(s) \/ Ends(s) \/ Loses(s) \/ Miscounts(s)
    BY <2>1, StepKinds DEF IInv
  <2>3. Cardinality(Open) \in Nat /\ activeConnections \in Nat
    BY OpenFinite DEF IInv
  <2>4. CASE \E t \in Sessions : Leaks(t)
    <3>1. PICK t \in Sessions : Leaks(t)
      BY <2>4
    <3>2. Loses(t) \/ Miscounts(t)
      BY <3>1, LeakKinds DEF IInv
    <3>3. CASE Loses(t)
      <4>1. Cardinality(Open') = Cardinality(Open) - 1
        BY <3>3, OpenFinite, KindCounts
      <4> QED
        BY <2>3, <2>4, <3>3, <4>1 DEF Loses
    <3>4. CASE Miscounts(t)
      BY <2>3, <2>4, <3>4 DEF Miscounts
    <3> QED
      BY <3>2, <3>3, <3>4
  <2>5. CASE ~\E t \in Sessions : Leaks(t)
    <3>1. CASE Stays
      BY <2>3, <2>5, <3>1 DEF Stays
    <3>2. CASE Opens(s)
      <4>1. Cardinality(Open') = Cardinality(Open) + 1
        BY <3>2, OpenFinite, KindCounts
      <4> QED
        BY <2>3, <2>5, <3>2, <4>1 DEF Opens
    <3>3. CASE Ends(s)
      <4>1. Cardinality(Open') = Cardinality(Open) - 1
        BY <3>3, OpenFinite, KindCounts
      <4> QED
        BY <2>3, <2>5, <3>3, <4>1 DEF Ends
    <3>4. ~Loses(s) /\ ~Miscounts(s)
      BY <2>5 DEF Loses, Miscounts
    <3> QED
      BY <2>2, <3>1, <3>2, <3>3, <3>4
  <2> QED
    BY <2>4, <2>5
<1> QED
  BY <1>1, ConnectionsInvariant, PTL DEF Spec, CounterFollowsSessions
=============================================================================
