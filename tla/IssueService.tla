---------------------------- MODULE IssueService ----------------------------
(***************************************************************************)
(* ControlPlaneService, the handlers of the control plane that change an   *)
(* Issue, its Attempts and its open questions.  A handler that reads and   *)
(* writes in one session is one step here (IssueServiceRaces drops that).  *)
(* Delivery and archiving are several steps: they give the database up     *)
(* while git, GitHub or GitLab and the Runner do their part, and look at   *)
(* the row again afterwards.                                               *)
(*                                                                         *)
(* A command that carries expected_version is a call: its sender read the  *)
(* row some time before the command arrives.  Claim tokens are numbered by *)
(* the Attempt they were issued with; a token that was issued may be       *)
(* presented at any later time.                                            *)
(***************************************************************************)
EXTENDS IssueRows, FiniteSets

CONSTANTS Issues,
          Callers,        \* sessions of operators and Workers
          MaxAttempts,    \* bound: claims granted per Issue
          MaxVersion,     \* bound: no edit from this version on
          Requested       \* the arcs that clients ask of POST /status

ASSUME MaxAttemptsAssumption == MaxAttempts \in Nat
ASSUME MaxVersionAssumption == MaxVersion \in Nat
ASSUME RequestedAssumption == Requested \subseteq Transitions

VARIABLES rows,       \* the table issues
          issued,     \* Attempts created so far, the newest one's number
          attempts,   \* status of every Attempt
          questions,  \* human_decisions that are open, by the Attempt that asked
          calls,      \* the command each caller has under way
          available   \* the project is enabled and available

vars == <<rows, issued, attempts, questions, calls, available>>

Attempt == 1..MaxAttempts
AttemptStatus == {"none", "running", "retry_queued", "reviewing", "needs_human",
                  "blocked", "cancelled"}

DeliverFrom == [approve_result |-> "reviewing",
                authorize_publish |-> "awaiting_publish",
                confirm_merge |-> "pr_open"]
Delivery == DOMAIN DeliverFrom
Kind == Delivery \cup {"claim", "continue", "patch", "archive"}

\* What a version stands for: the row but for its clocks, which heartbeats move.
Essence(r) == [r EXCEPT !.lease = None, !.retry = None]

Idle == [phase |-> "idle"]
Call == [phase : {"sent", "checked", "effected", "cancelled"}, kind : Kind,
         issue : Issues, seen : Row, made : Nat]

Init ==
    /\ rows = [i \in Issues |-> AbsentRow]
    /\ issued = [i \in Issues |-> 0]
    /\ attempts = [i \in Issues |-> [k \in Attempt |-> "none"]]
    /\ questions = [i \in Issues |-> {}]
    /\ calls = [c \in Callers |-> Idle]
    /\ available = TRUE

-----------------------------------------------------------------------------
(* Helpers of the handlers *)

\* _active_attempt: the newest running Attempt of the Issue.
IsActive(i, k) ==
    /\ attempts[i][k] = "running"
    /\ \A j \in Attempt : attempts[i][j] = "running" => j <= k

\* Mutation of FinishAttempt: the Attempt is left as it is.
NoFinish(i, s) == UNCHANGED attempts

\* _finish_attempt fails, and the handler with it, when none is running.
FinishAttempt(i, s) ==
    \E k \in Attempt :
        IsActive(i, k) /\ attempts' = [attempts EXCEPT ![i][k] = s]

Write(i, r) == rows' = [rows EXCEPT ![i] = r]

Arrived(c, kind, phase) == calls[c] # Idle /\ calls[c].kind = kind
                                           /\ calls[c].phase = phase
Current(c) == rows[calls[c].issue].version = calls[c].seen.version

Return(c) == calls' = [calls EXCEPT ![c] = Idle]

-----------------------------------------------------------------------------
(* Commands without a version *)

CreateIssue(i) ==
    /\ rows[i].status = Absent
    /\ available
    /\ Write(i, NewRow)
    /\ UNCHANGED <<issued, attempts, questions, calls, available>>

Heartbeat(i, k) ==
    /\ HoldsClaim(rows[i], k)
    /\ Write(i, Renewed(rows[i]))
    /\ UNCHANGED <<issued, attempts, questions, calls, available>>

ReleaseClaim(i, k, delay) ==
    /\ HoldsClaim(rows[i], k)
    /\ FinishAttempt(i, "retry_queued")
    /\ Write(i, Released(rows[i], delay))
    /\ UNCHANGED <<issued, questions, calls, available>>

\* A running Issue is moved by the holder of its claim, or cancelled by a person.
TransitionRunning(i, arc) ==
    /\ rows[i].status = "running"
    /\ arc[1] = "running"
    /\ arc[2] = "cancelled" \/ \E k \in Attempt : HoldsClaim(rows[i], k)
    /\ FinishAttempt(i, arc[2])
    /\ Write(i, Transitioned(rows[i], arc[2]))
    /\ UNCHANGED <<issued, questions, calls, available>>

TransitionIdle(i, arc) ==
    /\ rows[i].status = arc[1]
    /\ arc[1] # "running"
    /\ Write(i, Transitioned(rows[i], arc[2]))
    /\ UNCHANGED <<issued, attempts, questions, calls, available>>

RequestHuman(i, k) ==
    /\ HoldsClaim(rows[i], k)
    /\ FinishAttempt(i, "needs_human")
    /\ questions' = [questions EXCEPT ![i] = @ \cup {k}]
    /\ Write(i, Asked(rows[i]))
    /\ UNCHANGED <<issued, calls, available>>

\* Mutation of ResolveHuman: any open question may be resolved.
ResolveAnyOpen(i, q) ==
    /\ q \in questions[i]
    /\ questions' = [questions EXCEPT ![i] = @ \ {q}]
    /\ Write(i, Answered(rows[i]))
    /\ UNCHANGED <<issued, attempts, calls, available>>

\* Mutation of ResolveHuman: the question stays open.
ResolveLeavingOpen(i, q) ==
    /\ rows[i].status = "needs_human"
    /\ q \in questions[i]
    /\ Write(i, Answered(rows[i]))
    /\ UNCHANGED <<issued, attempts, questions, calls, available>>

ResolveHuman(i, q) ==
    /\ rows[i].status = "needs_human"
    /\ q \in questions[i]
    /\ questions' = [questions EXCEPT ![i] = @ \ {q}]
    /\ Write(i, Answered(rows[i]))
    /\ UNCHANGED <<issued, attempts, calls, available>>

-----------------------------------------------------------------------------
(* Commands with a version: the sender reads the row and sends what it read *)

\* What the clients offer on a row: a Runner's candidates are "ready", the UI
\* shows a button by status.  On a row whose version has not changed every other
\* command would be refused by the handler's own test of the status.
Offered(kind, r) ==
    \/ kind \in Delivery /\ r.status = DeliverFrom[kind]
    \/ kind = "claim" /\ r.status = "ready"
    \/ kind = "continue" /\ r.status = "reviewing"
    \/ kind = "patch" /\ r.status \in Editable
    \/ kind = "archive" /\ r.status # Absent /\ ~r.archived

Send(c, kind, i) ==
    /\ calls[c] = Idle
    /\ Offered(kind, rows[i])
    /\ calls' = [calls EXCEPT ![c] = [phase |-> "sent", kind |-> kind, issue |-> i,
                                      seen |-> Essence(rows[i]), made |-> 0]]
    /\ UNCHANGED <<rows, issued, attempts, questions, available>>

\* A call ends without effect: refused, failed outside the database, or cut off.
Drop(c) ==
    /\ calls[c] # Idle
    /\ Return(c)
    /\ UNCHANGED <<rows, issued, attempts, questions, available>>

ClaimIssue(c) ==
    /\ Arrived(c, "claim", "sent")
    /\ available
    /\ LET i == calls[c].issue
           k == issued[i] + 1
       IN  /\ Claimable(rows[i], calls[c].seen.version)
           /\ k \in Attempt
           /\ issued' = [issued EXCEPT ![i] = k]
           /\ attempts' = [attempts EXCEPT ![i][k] = "running"]
           /\ Write(i, Claimed(rows[i], k))
    /\ Return(c)
    /\ UNCHANGED <<questions, available>>

ContinueIssue(c) ==
    /\ Arrived(c, "continue", "sent")
    /\ LET i == calls[c].issue
       IN  /\ rows[i].status = "reviewing"
           /\ Current(c)
           /\ Write(i, Continued(rows[i]))
    /\ Return(c)
    /\ UNCHANGED <<issued, attempts, questions, available>>

PatchIssue(c) ==
    /\ Arrived(c, "patch", "sent")
    /\ LET i == calls[c].issue
       IN  /\ Current(c)
           /\ rows[i].version < MaxVersion
           /\ rows[i].status \in Editable
           /\ \/ Write(i, Rerouted(rows[i]))
              \/ rows[i].status # "running" /\ Write(i, Rebriefed(rows[i]))
              \/ rows[i].status = "ready" /\ \E b \in BOOLEAN : Write(i, Renamed(rows[i], b))
    /\ Return(c)
    /\ UNCHANGED <<issued, attempts, questions, available>>

\* deliver_issue up to its rollback: what it read decides whether git is touched.
DeliverCheck(c) ==
    /\ calls[c] # Idle
    /\ calls[c].phase = "sent"
    /\ calls[c].kind \in Delivery
    /\ Current(c)
    /\ LET r == rows[calls[c].issue]
       IN  /\ r.status = DeliverFrom[calls[c].kind]
           /\ calls[c].kind = "authorize_publish" => r.commit # 0
           /\ calls[c].kind = "confirm_merge" => r.pr
    /\ calls' = [calls EXCEPT ![c].phase = "checked"]
    /\ UNCHANGED <<rows, issued, attempts, questions, available>>

\* The side effect succeeds.  A commit holds what the newest Attempt has left.
DeliverEffect(c) ==
    /\ calls[c] # Idle
    /\ calls[c].phase = "checked"
    /\ calls[c].kind \in Delivery
    /\ calls' = [calls EXCEPT ![c].phase = "effected",
                              ![c].made = issued[calls[c].issue]]
    /\ UNCHANGED <<rows, issued, attempts, questions, available>>

Delivered(r, kind, k) ==
    CASE kind = "approve_result"    -> Approved(r, k)
      [] kind = "authorize_publish" -> Published(r)
      [] OTHER                      -> Merged(r)

\* Mutation of DeliverCommit: the version is not compared again.
DeliverCommitUnchecked(c) ==
    /\ calls[c] # Idle
    /\ calls[c].phase = "effected"
    /\ calls[c].kind \in Delivery
    /\ LET i == calls[c].issue
       IN  /\ rows[i].status = DeliverFrom[calls[c].kind]
           /\ Write(i, Delivered(rows[i], calls[c].kind, calls[c].made))
    /\ Return(c)
    /\ UNCHANGED <<issued, attempts, questions, available>>

\* The transaction after the side effect compares status and version again.
DeliverCommit(c) ==
    /\ calls[c] # Idle
    /\ calls[c].phase = "effected"
    /\ calls[c].kind \in Delivery
    /\ LET i == calls[c].issue
       IN  /\ rows[i].status = DeliverFrom[calls[c].kind]
           /\ Current(c)
           /\ Write(i, Delivered(rows[i], calls[c].kind, calls[c].made))
    /\ Return(c)
    /\ UNCHANGED <<issued, attempts, questions, available>>

\* archive_issue up to its rollback.  An identifier that no longer gives
\* workspace_path is refused here.
ArchiveCheck(c) ==
    /\ Arrived(c, "archive", "sent")
    /\ Current(c)
    /\ LET r == rows[calls[c].issue]
       IN  ~r.archived /\ ~r.renamed
    /\ calls' = [calls EXCEPT ![c].phase = "checked"]
    /\ UNCHANGED <<rows, issued, attempts, questions, available>>

\* The cancelling transaction; archive_version is the version it wrote.
ArchiveCancel(c) ==
    /\ Arrived(c, "archive", "checked")
    /\ calls[c].seen.status \notin Terminal
    /\ Current(c)
    /\ LET i == calls[c].issue
           r == ForceCancelled(rows[i])
       IN  /\ IF rows[i].status = "running"
                THEN FinishAttempt(i, "cancelled")
                ELSE UNCHANGED attempts
           /\ Write(i, r)
           /\ calls' = [calls EXCEPT ![c].phase = "cancelled", ![c].seen = Essence(r)]
    /\ UNCHANGED <<issued, questions, available>>

\* Mutation of ArchiveCommit: archive_version is not compared.
ArchiveCommitUnchecked(c) ==
    /\ \/ Arrived(c, "archive", "cancelled")
       \/ Arrived(c, "archive", "checked") /\ calls[c].seen.status \in Terminal
    /\ LET i == calls[c].issue
       IN  /\ rows[i].status \in Terminal
           /\ Write(i, Archived(rows[i]))
    /\ Return(c)
    /\ UNCHANGED <<issued, attempts, questions, available>>

\* No live Worker lists the Issue any more and the workspace has been removed.
ArchiveCommit(c) ==
    /\ \/ Arrived(c, "archive", "cancelled")
       \/ Arrived(c, "archive", "checked") /\ calls[c].seen.status \in Terminal
    /\ LET i == calls[c].issue
       IN  /\ Current(c)
           /\ rows[i].status \in Terminal
           /\ Write(i, Archived(rows[i]))
    /\ Return(c)
    /\ UNCHANGED <<issued, attempts, questions, available>>

-----------------------------------------------------------------------------
(* The sweeper, the clock and the project *)

\* One lapsed Issue without an active Attempt would make the whole sweep fail.
MaintenanceTick ==
    /\ \E i \in Issues : LeaseLapsed(rows[i]) \/ RetryDue(rows[i])
    /\ \A i \in Issues : LeaseLapsed(rows[i]) => \E k \in Attempt : IsActive(i, k)
    /\ rows' = [i \in Issues |-> Swept(rows[i])]
    /\ attempts' = [i \in Issues |-> [k \in Attempt |->
                      IF LeaseLapsed(rows[i]) /\ IsActive(i, k)
                        THEN "retry_queued" ELSE attempts[i][k]]]
    /\ UNCHANGED <<issued, questions, calls, available>>

Tick ==
    /\ \E i \in Issues : AgedRow(rows[i]) # rows[i]
    /\ rows' = [i \in Issues |-> AgedRow(rows[i])]
    /\ UNCHANGED <<issued, attempts, questions, calls, available>>

SwitchProject ==
    /\ available' = ~available
    /\ UNCHANGED <<rows, issued, attempts, questions, calls>>

-----------------------------------------------------------------------------
OfIssue(i) ==
    \/ CreateIssue(i)
    \/ \E k \in Attempt :
         \/ Heartbeat(i, k)
         \/ \E delay \in ReleaseDelays : ReleaseClaim(i, k, delay)
         \/ RequestHuman(i, k)
         \/ ResolveHuman(i, k)
    \/ \E arc \in Requested : TransitionRunning(i, arc) \/ TransitionIdle(i, arc)

OfCall(c) ==
    \/ \E kind \in Kind, i \in Issues : Send(c, kind, i)
    \/ Drop(c)
    \/ ClaimIssue(c) \/ ContinueIssue(c) \/ PatchIssue(c)
    \/ DeliverCheck(c) \/ DeliverEffect(c) \/ DeliverCommit(c)
    \/ ArchiveCheck(c) \/ ArchiveCancel(c) \/ ArchiveCommit(c)

Next ==
    \/ \E i \in Issues : OfIssue(i)
    \/ \E c \in Callers : OfCall(c)
    \/ MaintenanceTick \/ Tick \/ SwitchProject

Spec == Init /\ [][Next]_vars

\* The sweeper runs every lease_sweep_interval_seconds and time passes; nothing
\* obliges a person, a Worker or a caller to act.
FairSpec == Spec /\ WF_vars(MaintenanceTick) /\ WF_vars(Tick)

-----------------------------------------------------------------------------
(* Properties *)

\* Every variable has its type.  However often a claim is renewed, its lease ends
\* one lease from now at the latest, and no retry is due later than the longest
\* delay from now: neither adds up.
TypeOK ==
    /\ rows \in [Issues -> Row]
    /\ issued \in [Issues -> 0..MaxAttempts]
    /\ attempts \in [Issues -> [Attempt -> AttemptStatus]]
    /\ questions \in [Issues -> SUBSET Attempt]
    /\ calls \in [Callers -> Call \cup {Idle}]
    /\ available \in BOOLEAN

\* The Attempts and the claim tell one story: an Attempt is running exactly when
\* the Issue is running under the token issued with it, and that is the newest
\* one.  So no handler meets "active attempt not found", the database's check
\* ck_issues_claim_state never fires, and no Attempt is left running behind.
OneActiveAttempt ==
    \A i \in Issues :
      /\ (rows[i].status = "running") <=> (rows[i].token # 0)
      /\ rows[i].token # 0 => rows[i].token = issued[i]
      /\ \A k \in Attempt : (attempts[i][k] = "running") <=> (rows[i].token = k)

\* Optimistic concurrency is sound: while the version a caller read is still the
\* row's version, everything but the clocks is what the caller read.  A person
\* who approves, continues, publishes or archives acts on what was on the screen.
VersionNamesContents ==
    \A c \in Callers : calls[c] # Idle =>
      LET r == rows[calls[c].issue]
      IN  /\ calls[c].seen.version <= r.version
          /\ calls[c].seen.version = r.version => calls[c].seen = Essence(r)

\* What is offered for publishing is what was reviewed: the commit on record
\* holds the work of the newest Attempt, and that Attempt completed.
DeliveredIsReviewed ==
    \A i \in Issues :
      /\ rows[i].commit # 0 => rows[i].commit = issued[i]
      /\ rows[i].status \in {"reviewing", "awaiting_publish", "pr_open", "done"}
           => issued[i] \in Attempt /\ attempts[i][issued[i]] = "reviewing"
      /\ rows[i].status \in {"awaiting_publish", "pr_open", "done"}
           => rows[i].commit # 0
      /\ rows[i].pr => rows[i].status \in {"pr_open", "done", "cancelled"}
      /\ rows[i].status \in {"pr_open", "done"} => rows[i].pr

\* An Issue that waits for a person has exactly one open question, the one its
\* last Attempt asked; an open question elsewhere belongs to a cancelled Issue.
WaitingHasItsQuestion ==
    \A i \in Issues :
      /\ rows[i].status = "needs_human" => questions[i] = {issued[i]}
      /\ questions[i] # {} => rows[i].status \in {"needs_human", "cancelled"}

\* What protocol/README.md says of a waiting Issue, that it returns to "ready"
\* after the answer: there is a question whose answer brings it back.
WaitingCanBeAnswered ==
    \A i \in Issues : rows[i].status = "needs_human" => questions[i] # {}

\* What docs/backend.md says of POST /archive, that it is a gate for an Issue in
\* any status: no Issue that is not archived fails its test of workspace_path.
ArchiveAcceptsAnyIssue ==
    \A i \in Issues :
      rows[i].status # Absent /\ ~rows[i].archived => ~rows[i].renamed

\* Once archive_issue has set archived_at nothing about the Issue changes, even
\* when a second archive, a late approval or a late claim was already under way.
ArchivedIsFrozen ==
    [][\A i \in Issues : rows[i].archived =>
         rows'[i].archived /\ Essence(rows'[i]) = Essence(rows[i])
                          /\ attempts'[i] = attempts[i]]_vars

\* The status of every Issue follows the protocol's lifecycle.
Statuses == [i \in Issues |-> rows[i].status]
Lifecycle == INSTANCE IssueLifecycle WITH status <- Statuses
FollowsLifecycle == Lifecycle!Spec

\* A claim whose holder falls silent does not keep the Issue: when heartbeats stop
\* for good, the Issue does not stay "running".
SilentClaimEnds ==
    \A i \in Issues :
      <>[][\A k \in Attempt : ~Heartbeat(i, k)]_vars => []<>(rows[i].status # "running")

\* Every queued retry comes due and is taken up.
RetryComesDue ==
    \A i \in Issues :
      (rows[i].status = "retry_queued") ~> (rows[i].status \in {"ready", "cancelled"})
=============================================================================
