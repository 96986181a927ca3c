------------------------ MODULE RequestRegistryProofs ------------------------
(***************************************************************************)
(* Proofs about RequestRegistry, for any sets of requests and ids.          *)
(* TypeOK and NoStaleEntry are inductive together; both action properties   *)
(* follow from them step by step.                                          *)
(***************************************************************************)
EXTENDS RequestRegistry, TLAPS

IInv == TypeOK /\ NoStaleEntry

\* A generated id is an id, and the counter stays within its bound.
LEMMA GeneratedIds ==
  ASSUME NEW n \in 0..MaxGenerated, n < MaxGenerated
  PROVE  n \in Ids /\ n + 1 \in 0..MaxGenerated
  BY RegistryAssumption DEF Ids, Generated

\* A server that has just started satisfies the invariant.
LEMMA InitInvariant == Init => IInv
  BY RegistryAssumption
  DEF Init, IInv, TypeOK, NoStaleEntry, PcValues, FreshToken, Generated

-----------------------------------------------------------------------------
(* A request begins: its entry is its own, and no other entry is touched. *)
LEMMA BeginStep ==
  ASSUME IInv, NEW r \in Requests, NEW i \in Ids, Begin(r, i)
  PROVE  /\ pc' \in [Requests -> PcValues] /\ id' \in [Requests -> Ids]
         /\ token' \in [Requests -> [cancelled : BOOLEAN, completed : BOOLEAN]]
         /\ watched' \in [Requests -> BOOLEAN]
         /\ activeRequests' \in [Ids -> Requests \cup {NoRequest}]
         /\ reply' \in [Requests -> {"none", "cancelled", "not found"}]
         /\ NoStaleEntry'
<1>1. FreshToken \in [cancelled : BOOLEAN, completed : BOOLEAN]
  BY DEF FreshToken
<1>2. \A j \in Ids : activeRequests[j] # r
  BY DEF Begin, IInv, NoStaleEntry, Active
<1>3. NoStaleEntry'
  BY <1>2, RegistryAssumption
  DEF Begin, Register, Goto, IInv, TypeOK, NoStaleEntry, Active
<1> QED
  BY <1>1, <1>3 DEF Begin, Register, Goto, IInv, TypeOK, PcValues

\* Cancelling a token leaves it a token.
LEMMA CancelledType ==
  ASSUME TypeOK, NEW r \in Requests, Cancelled(r)
  PROVE  token' \in [Requests -> [cancelled : BOOLEAN, completed : BOOLEAN]]
  BY DEF TypeOK, Cancelled

\* The steps that leave ids, entries, and who is active alone.
LEMMA EntriesKept ==
  ASSUME NoStaleEntry, UNCHANGED <<id, activeRequests>>,
         \A r \in Requests : Active(r) => Active(r)'
  PROVE  NoStaleEntry'
  BY DEF NoStaleEntry

\* Every step of the registry preserves the invariant.
LEMMA StepInvariant ==
  ASSUME IInv, [Next]_vars
  PROVE  IInv'
<1> USE DEF IInv
<1>1. CASE UNCHANGED vars
  BY <1>1 DEF vars, TypeOK, NoStaleEntry, Active
<1>2. ASSUME NEW r \in Requests, NEW i \in Ids, BeginNamed(r, i)
      PROVE  IInv'
  BY <1>2, BeginStep DEF BeginNamed, TypeOK
<1>3. ASSUME NEW r \in Requests, NEW t \in Ids, BeginGenerated(r, t)
      PROVE  IInv'
  <2>1. counter \in Ids /\ counter + 1 \in 0..MaxGenerated
    BY <1>3, GeneratedIds DEF BeginGenerated, TypeOK
  <2> QED BY <1>3, <2>1, BeginStep DEF BeginGenerated, TypeOK
<1>4. ASSUME NEW r \in Requests, Disconnect(r)
      PROVE  IInv'
  <2>1. TypeOK' BY <1>4, CancelledType DEF Disconnect, TypeOK
  <2>2. NoStaleEntry' BY <1>4, EntriesKept DEF Disconnect, Active
  <2> QED BY <2>1, <2>2
<1>5. ASSUME NEW r \in Requests, MonitorReturns(r)
      PROVE  IInv'
  <2>1. TypeOK' BY <1>5 DEF MonitorReturns, TypeOK
  <2>2. NoStaleEntry' BY <1>5, EntriesKept DEF MonitorReturns, Active
  <2> QED BY <2>1, <2>2
<1>6. ASSUME NEW r \in Requests, Load(r)
      PROVE  IInv'
  <2>1. FreshToken \in [cancelled : BOOLEAN, completed : BOOLEAN]
    BY DEF FreshToken
  <2>2. PICK t \in {token[r], FreshToken} : token' = [token EXCEPT ![r] = t]
    BY <1>6 DEF Load
  <2>3. token[r] \in [cancelled : BOOLEAN, completed : BOOLEAN]
    BY DEF TypeOK
  <2>4. t \in [cancelled : BOOLEAN, completed : BOOLEAN]
    BY <2>1, <2>2, <2>3
  <2>5. TypeOK'
    BY <1>6, <2>2, <2>4 DEF Load, Goto, TypeOK, PcValues
  <2>6. NoStaleEntry'
    BY <1>6, EntriesKept DEF Load, Goto, Active, TypeOK
  <2> QED BY <2>5, <2>6
<1>7. ASSUME NEW r \in Requests, ChunkFails(r)
      PROVE  IInv'
  <2>1. TypeOK' BY <1>7, CancelledType DEF ChunkFails, TypeOK
  <2>2. NoStaleEntry' BY <1>7, EntriesKept DEF ChunkFails, Active
  <2> QED BY <2>1, <2>2
<1>8. ASSUME NEW c \in Requests, CancelFound(c)
      PROVE  IInv'
  <2>1. target[c] \in Ids /\ activeRequests[target[c]] \in Requests
    BY <1>8 DEF CancelFound, TypeOK
  <2>2. token' \in [Requests -> [cancelled : BOOLEAN, completed : BOOLEAN]]
    BY <1>8, <2>1, CancelledType DEF CancelFound
  <2>3. TypeOK' BY <1>8, <2>1, <2>2 DEF CancelFound, Goto, TypeOK, PcValues
  <2>4. NoStaleEntry'
    BY <1>8, <2>1, RegistryAssumption DEF CancelFound, Goto, TypeOK, NoStaleEntry, Active
  <2> QED BY <2>3, <2>4
<1>9. ASSUME NEW c \in Requests, CancelNotFound(c)
      PROVE  IInv'
  <2>1. TypeOK' BY <1>9 DEF CancelNotFound, Goto, TypeOK, PcValues
  <2>2. NoStaleEntry'
    BY <1>9, EntriesKept DEF CancelNotFound, Goto, Active, TypeOK
  <2> QED BY <2>1, <2>2
<1>10. ASSUME NEW r \in Requests, Complete(r)
       PROVE  IInv'
  <2>1. TypeOK' BY <1>10 DEF Complete, Goto, TypeOK, PcValues
  <2>2. NoStaleEntry'
    BY <1>10, EntriesKept DEF Complete, Goto, Active, TypeOK
  <2> QED BY <2>1, <2>2
<1>11. ASSUME NEW r \in Requests, Unregister(r)
       PROVE  IInv'
  <2>1. TypeOK' BY <1>11 DEF Unregister, Goto, TypeOK, PcValues
  <2>2. ASSUME NEW i \in Ids, NEW q \in Requests, activeRequests'[i] = q
        PROVE  Active(q)' /\ id'[q] = i
    <3>1. i # id[r] /\ activeRequests[i] = q
      BY <1>11, <2>2, RegistryAssumption DEF Unregister, TypeOK
    <3>2. Active(q) /\ id[q] = i
      BY <3>1 DEF NoStaleEntry
    <3> QED BY <1>11, <3>1, <3>2 DEF Unregister, Goto, Active, TypeOK
  <2>3. NoStaleEntry'
    BY <2>2 DEF NoStaleEntry
  <2> QED BY <2>1, <2>3
<1> QED
  BY <1>1, <1>2, <1>3, <1>4, <1>5, <1>6, <1>7, <1>8, <1>9, <1>10, <1>11 DEF Next

-----------------------------------------------------------------------------
\* The inductive invariant of the registry (register_active_request,
\* unregister_active_request, cancel_request).
THEOREM RegistryInvariant == Spec => []IInv
  BY InitInvariant, StepInvariant, PTL DEF Spec

\* The registry's variables keep their types.
THEOREM TypeCorrect == Spec => []TypeOK
  BY RegistryInvariant, PTL DEF IInv

\* active_requests_ never holds the token of a request that is over.
THEOREM NoEntryOutlivesItsRequest == Spec => []NoStaleEntry
  BY RegistryInvariant, PTL DEF IInv

-----------------------------------------------------------------------------
LostEntriesHaveACause ==
  \A r \in Requests :
    activeRequests[id[r]] = r /\ activeRequests'[id[r]] # r
      => \/ ~Active(r)' \/ token'[r].cancelled
         \/ \E q \in Requests \ {r} : id'[q] = id[r] /\ (Active(q) \/ Active(q)')

\* A step that writes the entry of one id writes it for a request of that id, or
\* erases it for one that ends, or for a cancellation.
LEMMA EntryStep ==
  ASSUME IInv, [Next]_vars
  PROVE  LostEntriesHaveACause
<1> SUFFICES ASSUME NEW r \in Requests,
                    activeRequests[id[r]] = r, activeRequests'[id[r]] # r
             PROVE  \/ ~Active(r)' \/ token'[r].cancelled
                    \/ \E q \in Requests \ {r} : id'[q] = id[r] /\ (Active(q) \/ Active(q)')
  BY DEF LostEntriesHaveACause
<1>1. id[r] \in Ids
  BY DEF IInv, TypeOK
<1>2. ASSUME NEW q \in Requests, NEW i \in Ids, Begin(q, i)
      PROVE  \E p \in Requests \ {r} : id'[p] = id[r] /\ (Active(p) \/ Active(p)')
  <2>1. q # r
    BY <1>1, <1>2 DEF Begin, IInv, NoStaleEntry, Active
  <2>2. i = id[r]
    BY <1>1, <1>2 DEF Begin, Register, IInv, TypeOK
  <2> QED BY <1>2, <2>1, <2>2 DEF Begin, Goto, Active, IInv, TypeOK
<1>3. ASSUME NEW c \in Requests, CancelFound(c)
      PROVE  token'[r].cancelled
  <2>1. target[c] = id[r]
    BY <1>1, <1>3 DEF CancelFound, IInv, TypeOK
  <2> QED BY <1>3, <2>1 DEF CancelFound, Cancelled, IInv, TypeOK
<1>4. ASSUME NEW q \in Requests, Unregister(q)
      PROVE  \/ ~Active(r)'
             \/ \E p \in Requests \ {r} : id'[p] = id[r] /\ (Active(p) \/ Active(p)')
  <2>1. id[q] = id[r]
    BY <1>1, <1>4 DEF Unregister, IInv, TypeOK
  <2>2. CASE q = r
    BY <1>4, <2>2 DEF Unregister, Goto, Active, IInv, TypeOK
  <2>3. CASE q # r
    BY <1>4, <2>1, <2>3 DEF Unregister, Active
  <2> QED BY <2>2, <2>3
<1>5. CASE UNCHANGED activeRequests
  BY <1>5
<1>6. ASSUME NEW q \in Requests, NEW i \in Ids, BeginGenerated(q, i)
      PROVE  counter \in Ids /\ Begin(q, counter)
  BY <1>6, GeneratedIds DEF BeginGenerated, IInv, TypeOK
<1> QED
  BY <1>2, <1>3, <1>4, <1>5, <1>6
  DEF Next, vars, BeginNamed, Disconnect, MonitorReturns, Load, ChunkFails,
      CancelNotFound, Complete

\* A running request is lost to /api/cancel only when it ends, is cancelled, or
\* another request uses its id.
THEOREM EntriesAreLostForACause == Spec => EntryLostForACause
<1>1. IInv /\ [Next]_vars => LostEntriesHaveACause
  BY EntryStep
<1> QED
  BY <1>1, RegistryInvariant, PTL DEF Spec, EntryLostForACause, LostEntriesHaveACause

-----------------------------------------------------------------------------
\* Only CancelFound makes a request answer that it has cancelled another.
LEMMA OnlyCancelFoundAcknowledges ==
  ASSUME IInv, [Next]_vars, NEW c \in Cancels, Acknowledges(c)
  PROVE  CancelFound(c)
<1>1. c \in Requests /\ reply \in [Requests -> {"none", "cancelled", "not found"}]
  BY DEF Requests, IInv, TypeOK
<1>2. ASSUME NEW r \in Requests, NEW i \in Ids, Begin(r, i)
      PROVE  FALSE
  BY <1>1, <1>2 DEF Begin, Acknowledges
<1>3. ASSUME NEW r \in Requests, NEW i \in Ids, BeginNamed(r, i) \/ BeginGenerated(r, i)
      PROVE  FALSE
  <2>1. CASE BeginNamed(r, i)
    BY <1>2, <2>1 DEF BeginNamed
  <2>2. CASE BeginGenerated(r, i)
    BY <1>2, <2>2, GeneratedIds DEF BeginGenerated, IInv, TypeOK
  <2> QED BY <1>3, <2>1, <2>2
<1>4. ASSUME NEW r \in Requests, CancelFound(r)
      PROVE  CancelFound(c)
  BY <1>1, <1>4 DEF CancelFound, Acknowledges
<1>5. ASSUME NEW r \in Requests, CancelNotFound(r)
      PROVE  FALSE
  BY <1>1, <1>5 DEF CancelNotFound, Acknowledges
<1>6. ASSUME UNCHANGED reply
      PROVE  FALSE
  BY <1>6 DEF Acknowledges
<1> QED
  BY <1>3, <1>4, <1>5, <1>6
  DEF Next, vars, Disconnect, MonitorReturns, Load, ChunkFails, Complete, Unregister

\* A cancel request under an id of its own that reports success has cancelled a
\* request of the id it names that is not over (cancel_request, and the entries
\* that register and unregister leave to it).
THEOREM ForeignCancelsReach == Spec => ForeignCancelReaches
<1> DEFINE Reaches ==
      \A c \in Cancels : Acknowledges(c) /\ id[c] # target[c]
        => \E r \in Requests \ {c} :
             Active(r) /\ id[r] = target[c] /\ token'[r].cancelled
<1>1. ASSUME IInv, [Next]_vars
      PROVE  Reaches
  <2> SUFFICES ASSUME NEW c \in Cancels, Acknowledges(c), id[c] # target[c]
               PROVE  \E r \in Requests \ {c} :
                        Active(r) /\ id[r] = target[c] /\ token'[r].cancelled
    OBVIOUS
  <2> DEFINE r == activeRequests[target[c]]
  <2>1. CancelFound(c)
    BY <1>1, OnlyCancelFoundAcknowledges
  <2>2. c \in Requests /\ target[c] \in Ids /\ r \in Requests
    BY <1>1, <2>1 DEF Requests, CancelFound, IInv, TypeOK
  <2>3. Active(r) /\ id[r] = target[c]
    BY <1>1, <2>2 DEF IInv, NoStaleEntry
  <2>4. token'[r].cancelled
    BY <1>1, <2>1, <2>2 DEF CancelFound, Cancelled, IInv, TypeOK
  <2> QED BY <2>2, <2>3, <2>4
<1> QED
  BY <1>1, RegistryInvariant, PTL DEF Spec, ForeignCancelReaches
=============================================================================
