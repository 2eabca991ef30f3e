--------------------------- MODULE IssueLifecycle ---------------------------
(***************************************************************************)
(* What the control plane promises about the status of its Issues: each is *)
(* created "ready" and then only follows the arcs of the protocol, except  *)
(* that the archive endpoint cancels from any status that is not terminal  *)
(* and that one sweep may both expire a lease and make the retry due.      *)
(* Nothing leaves a terminal status.  An approved result is never sent     *)
(* back to an Agent, because no arc leads there.  One step may move        *)
(* several Issues: a sweep does.                                           *)
(***************************************************************************)
EXTENDS IssueStatus

CONSTANT Issues

VARIABLE status

Absent == "absent"

Init == status = [i \in Issues |-> Absent]

Create(s, t) == s = Absent /\ t = "ready"

FollowArc(s, t) == \E arc \in Protocol : s = arc[1] /\ t = arc[2]

\* archive_issue, from every status in Status \ Terminal.
ForceCancel(s, t) == s \in Status \ Terminal /\ t = "cancelled"

\* maintenance_tick with a retry delay of zero takes both of its arcs at once.
ExpireAndReady(s, t) == s = "running" /\ t = "ready"

Move(s, t) ==
    Create(s, t) \/ FollowArc(s, t) \/ ForceCancel(s, t) \/ ExpireAndReady(s, t)

Next ==
    /\ status' = [i \in Issues |-> status'[i]]
    /\ \A i \in Issues : status'[i] = status[i] \/ Move(status[i], status'[i])

Spec == Init /\ [][Next]_status
=============================================================================
