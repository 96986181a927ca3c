------------------------------ MODULE NpuLease ------------------------------
(***************************************************************************)
(* What the server's NPU scheduling promises, without threads, locks or    *)
(* flags: one request at a time holds the NPU, the others wait in a line of *)
(* bounded length, and the NPU is given up only to the head of the line, or *)
(* to nobody when the line is empty.                                       *)
(***************************************************************************)
EXTENDS Naturals, Sequences

CONSTANTS Requests,  \* the requests that compete for the NPU
          MaxLine,   \* how many of them may wait
          None       \* holder of a free NPU

VARIABLES holder,    \* the request that has the NPU, or None
          line       \* the requests that wait, in order of arrival

vars == <<holder, line>>

Waiting == {line[i] : i \in 1..Len(line)}

Init == holder = None /\ line = <<>>

\* A free NPU goes to a request that asks for it.
Grant(r) ==
  /\ holder = None
  /\ r \notin Waiting
  /\ holder' = r
  /\ UNCHANGED line

\* A request that does not get the NPU waits, when there is room.
Join(r) ==
  /\ r # holder
  /\ r \notin Waiting
  /\ Len(line) < MaxLine
  /\ line' = Append(line, r)
  /\ UNCHANGED holder

\* The holder passes the NPU on to the request that has waited longest.
HandOver ==
  /\ holder # None
  /\ line # <<>>
  /\ holder' = Head(line)
  /\ line' = Tail(line)

\* The NPU becomes free only when nobody waits.
Release ==
  /\ holder # None
  /\ line = <<>>
  /\ holder' = None
  /\ UNCHANGED line

Next == (\E r \in Requests : Grant(r) \/ Join(r)) \/ HandOver \/ Release

Spec == Init /\ [][Next]_vars
=============================================================================
