--------------------------- MODULE RequestRegistry ---------------------------
(***************************************************************************)
(* How running requests can be cancelled: the CancellationToken of a        *)
(* request, the disconnect monitor that watches its client, the map         *)
(* active_requests_ from request ids to tokens, and the endpoint            *)
(* /api/cancel, which is a request with an id and a token like any other.   *)
(* A connection carries one request; a request identity that has ended may  *)
(* come again on a later connection, with another id and a new token.      *)
(***************************************************************************)
EXTENDS Integers

CONSTANTS Works,         \* requests whose handler runs an engine
          Cancels,       \* requests to /api/cancel
          ClientIds,     \* values clients put into "request_id"
          MaxGenerated,  \* bound: ids generated by the server
          NoRequest      \* what a missing entry of the map stands for

Requests == Works \cup Cancels

\* "req_0", "req_1", ... are written as their numbers; clients may send them too.
Generated == 0..MaxGenerated - 1

Ids == ClientIds \cup Generated

ASSUME RegistryAssumption ==
  /\ Works \cap Cancels = {}
  /\ MaxGenerated \in Nat
  /\ NoRequest \notin Requests

VARIABLES
  pc,              \* where each request is
  id,              \* its request_id in process_task
  target,          \* what a cancel request finds as "request_id" in its own body
  token,           \* its CancellationToken
  watched,         \* the disconnect monitor's wait is pending
  activeRequests,  \* active_requests_, by the request whose token it holds
  counter,         \* the counter behind generated ids
  reply            \* what a cancel request answers

vars == <<pc, id, target, token, watched, activeRequests, counter, reply>>

(***************************************************************************)
(* "idle"       not in the server, or not yet taken out of the NPU queue    *)
(* "loading"    registered, its handler has not started to stream           *)
(* "working"    its handler prefills and generates                          *)
(* "replying"   a cancel request that has looked into the map               *)
(* "completed"  its token is complete(), unregister is still to come        *)
(***************************************************************************)
PcValues == {"idle", "loading", "working", "replying", "completed"}

Goto(r, label) == pc' = [pc EXCEPT ![r] = label]

FreshToken == [cancelled |-> FALSE, completed |-> FALSE]

Init ==
  /\ pc = [r \in Requests |-> "idle"]
  /\ id \in [Requests -> Ids] /\ \A q, r \in Requests : id[q] = id[r]
  /\ target = id
  /\ token = [r \in Requests |-> FreshToken]
  /\ watched = [r \in Requests |-> FALSE]
  /\ activeRequests = [i \in Ids |-> NoRequest]
  /\ counter = 0
  /\ reply = [r \in Requests |-> "none"]

-----------------------------------------------------------------------------
(* process_task, up to the call of the handler *)

\* register_active_request: an entry of the same id is overwritten.
Register(r, i) == activeRequests' = [activeRequests EXCEPT ![i] = r]

Begin(r, i) ==
  /\ pc[r] = "idle"
  /\ Goto(r, "loading")
  /\ id' = [id EXCEPT ![r] = i]
  /\ token' = [token EXCEPT ![r] = FreshToken]
  /\ watched' = [watched EXCEPT ![r] = TRUE]
  /\ Register(r, i)
  /\ reply' = [reply EXCEPT ![r] = "none"]

\* The parsed body has a "request_id".  For a cancel request that is the id of
\* the request it is to cancel.
BeginNamed(r, i) ==
  /\ i \in ClientIds
  /\ Begin(r, i)
  /\ target' = [target EXCEPT ![r] = i]
  /\ UNCHANGED counter

\* There is none, or the body was not parsed because it is not declared as JSON:
\* the handler of /api/cancel parses it again, whatever it is declared as.
BeginGenerated(r, t) ==
  /\ counter < MaxGenerated
  /\ Begin(r, counter)
  /\ target' = [target EXCEPT ![r] = IF r \in Cancels THEN t ELSE counter]
  /\ counter' = counter + 1

-----------------------------------------------------------------------------
(* CancellationToken and start_client_disconnect_monitor *)

Cancelled(r) == token' = [token EXCEPT ![r].cancelled = TRUE]

\* The client leaves.
Disconnect(r) ==
  /\ watched[r] /\ ~token[r].cancelled /\ ~token[r].completed
  /\ Cancelled(r)
  /\ watched' = [watched EXCEPT ![r] = FALSE]
  /\ UNCHANGED <<pc, id, target, activeRequests, counter, reply>>

\* The wait ends with nothing to do: the client sent more bytes, or the token is
\* cancelled or complete.  It is not renewed.
MonitorReturns(r) ==
  /\ watched[r]
  /\ watched' = [watched EXCEPT ![r] = FALSE]
  /\ UNCHANGED <<pc, id, target, token, activeRequests, counter, reply>>

-----------------------------------------------------------------------------
(* Handlers that run an engine *)

\* A streamed chat completion resets its token when the model is loaded.
Load(r) ==
  /\ pc[r] = "loading" /\ r \in Works
  /\ Goto(r, "working")
  /\ \E t \in {token[r], FreshToken} : token' = [token EXCEPT ![r] = t]
  /\ UNCHANGED <<id, target, watched, activeRequests, counter, reply>>

\* A chunk cannot be written; the socket is closed, and so is the monitor's wait.
ChunkFails(r) ==
  /\ pc[r] = "working" /\ ~token[r].completed
  /\ Cancelled(r)
  /\ watched' = [watched EXCEPT ![r] = FALSE]
  /\ UNCHANGED <<pc, id, target, activeRequests, counter, reply>>

-----------------------------------------------------------------------------
(* WebServer::cancel_request, and the handler of /api/cancel *)

\* The entry is erased, its token stays as it was.
CancelFoundUnset(c) ==
  /\ pc[c] = "loading" /\ c \in Cancels
  /\ activeRequests[target[c]] # NoRequest
  /\ activeRequests' = [activeRequests EXCEPT ![target[c]] = NoRequest]
  /\ reply' = [reply EXCEPT ![c] = "cancelled"]
  /\ Goto(c, "replying")
  /\ UNCHANGED <<id, target, token, watched, counter>>

CancelFound(c) ==
  /\ pc[c] = "loading" /\ c \in Cancels
  /\ activeRequests[target[c]] # NoRequest
  /\ Cancelled(activeRequests[target[c]])
  /\ activeRequests' = [activeRequests EXCEPT ![target[c]] = NoRequest]
  /\ reply' = [reply EXCEPT ![c] = "cancelled"]
  /\ Goto(c, "replying")
  /\ UNCHANGED <<id, target, watched, counter>>

\* Looking for the entry inserts an empty one.
CancelNotFoundInserts(c) ==
  /\ pc[c] = "loading" /\ c \in Cancels
  /\ activeRequests[target[c]] = NoRequest
  /\ activeRequests' = [activeRequests EXCEPT ![target[c]] = "nullptr"]
  /\ reply' = [reply EXCEPT ![c] = "not found"]
  /\ Goto(c, "replying")
  /\ UNCHANGED <<id, target, token, watched, counter>>

CancelNotFound(c) ==
  /\ pc[c] = "loading" /\ c \in Cancels
  /\ activeRequests[target[c]] = NoRequest
  /\ reply' = [reply EXCEPT ![c] = "not found"]
  /\ Goto(c, "replying")
  /\ UNCHANGED <<id, target, token, watched, activeRequests, counter>>

-----------------------------------------------------------------------------
(* send_response, the final streaming chunk, and the catch blocks *)

\* A handler may fail at any time: it is refused its model, the engine throws, or
\* a cancel request has no id in its body.
Complete(r) ==
  /\ pc[r] \in {"loading", "working", "replying"}
  /\ Goto(r, "completed")
  /\ token' = [token EXCEPT ![r].completed = TRUE]
  /\ UNCHANGED <<id, target, watched, activeRequests, counter, reply>>

\* The entry is left behind.
UnregisterForgotten(r) ==
  /\ pc[r] = "completed"
  /\ Goto(r, "idle")
  /\ watched' = [watched EXCEPT ![r] = FALSE]
  /\ UNCHANGED <<id, target, token, activeRequests, counter, reply>>

\* unregister_active_request erases the entry of its id, whoever wrote it.  The
\* monitor's wait is left to end without effect.
Unregister(r) ==
  /\ pc[r] = "completed"
  /\ Goto(r, "idle")
  /\ activeRequests' = [activeRequests EXCEPT ![id[r]] = NoRequest]
  /\ watched' = [watched EXCEPT ![r] = FALSE]
  /\ UNCHANGED <<id, target, token, counter, reply>>

-----------------------------------------------------------------------------
Next == \E r \in Requests :
  \/ \E i \in Ids : BeginNamed(r, i) \/ BeginGenerated(r, i)
  \/ Disconnect(r) \/ MonitorReturns(r) \/ Load(r) \/ ChunkFails(r)
  \/ CancelFound(r) \/ CancelNotFound(r) \/ Complete(r) \/ Unregister(r)

Spec == Init /\ [][Next]_vars

-----------------------------------------------------------------------------
TypeOK ==
  /\ pc \in [Requests -> PcValues]
  /\ id \in [Requests -> Ids]
  /\ target \in [Requests -> Ids]
  /\ token \in [Requests -> [cancelled : BOOLEAN, completed : BOOLEAN]]
  /\ watched \in [Requests -> BOOLEAN]
  /\ activeRequests \in [Ids -> Requests \cup {NoRequest}]
  /\ counter \in 0..MaxGenerated
  /\ reply \in [Requests -> {"none", "cancelled", "not found"}]

Active(r) == pc[r] # "idle"

\* active_requests_ never holds the token of a request that is over, although
\* requests may share an id, overwrite each other's entry and erase it.
NoStaleEntry ==
  \A i \in Ids : \A r \in Requests :
    activeRequests[i] = r => Active(r) /\ id[r] = i

\* A running request is lost to /api/cancel only when it ends, is cancelled, or
\* another request uses its id (register, unregister and cancel_request).
EntryLostForACause ==
  [][\A r \in Requests :
       activeRequests[id[r]] = r /\ activeRequests'[id[r]] # r
         => \/ ~Active(r)' \/ token'[r].cancelled
            \/ \E q \in Requests \ {r} : id'[q] = id[r] /\ (Active(q) \/ Active(q)')]_vars

Acknowledges(c) == reply[c] # "cancelled" /\ reply'[c] = "cancelled"

\* A cancel request that is registered under another id than the one it names
\* reaches a request of that id that is not over, whenever it says so.
ForeignCancelReaches ==
  [][\A c \in Cancels : Acknowledges(c) /\ id[c] # target[c]
       => \E r \in Requests \ {c} :
            Active(r) /\ id[r] = target[c] /\ token'[r].cancelled]_vars

\* "true if request was found and cancelled": a cancel request that answers
\* "Request cancelled successfully" while a request of the id it names is running
\* has cancelled such a request.
AcknowledgedCancelReaches ==
  [][\A c \in Cancels :
       Acknowledges(c) /\ (\E r \in Works : pc[r] = "working" /\ id[r] = target[c])
         => \E r \in Works : token'[r].cancelled /\ id[r] = target[c]]_vars
=============================================================================
