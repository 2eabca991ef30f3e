----------------------------- MODULE IssueRows -----------------------------
(***************************************************************************)
(* One row of the table issues, the conditions the handlers of             *)
(* ControlPlaneService test on it and the columns they write in it.        *)
(* IssueService runs a handler as one step; IssueServiceRaces separates    *)
(* what it read from what it writes.  Both use these definitions.          *)
(*                                                                         *)
(* Columns:  token   the claim token, numbered by the attempt it was       *)
(*                   issued with (0: no claim); claim_worker_id goes with  *)
(*                   it                                                    *)
(*           lease   claim_expires_at, retry: retry_at, both as ticks from *)
(*                   now, or None                                          *)
(*           brief   the edition of title, description and criteria        *)
(*           renamed the identifier no longer gives workspace_path         *)
(*           commit  local_commit, as the attempt whose work it holds      *)
(*           pr      pull_request is set                                   *)
(* blocker, events, artifacts and timestamps are not kept.                 *)
(***************************************************************************)
EXTENDS Integers, IssueStatus

CONSTANTS LeaseTicks,     \* lease_seconds of a claim or of a heartbeat
          RetryTicks,     \* default_retry_delay_seconds
          ReleaseDelays   \* the delays a Runner releases with

ASSUME LeaseAssumption == LeaseTicks \in Nat \ {0}
ASSUME RetryAssumption == RetryTicks \in Nat
ASSUME ReleaseDelaysAssumption == ReleaseDelays \subseteq Nat

None == -2
Past == -1
Absent == "absent"

\* A stored time moves towards the past; how long it has been past is not kept.
Aged(t) == IF t > Past THEN t - 1 ELSE t
AgedRow(r) == [r EXCEPT !.lease = Aged(@), !.retry = Aged(@)]

\* No claim lasts longer than one lease from now, no retry is due later than the
\* longest delay from now.
LeaseLeft == None..LeaseTicks
RetryLeft == {t \in Int : /\ t >= None
                          /\ \E d \in ReleaseDelays \cup {RetryTicks} : t <= d}

Row == [status : Status \cup {Absent}, version : Nat, token : Nat,
        lease : LeaseLeft, retry : RetryLeft, brief : BOOLEAN, renamed : BOOLEAN,
        commit : Nat, pr : BOOLEAN, archived : BOOLEAN]

AbsentRow == [status |-> Absent, version |-> 0, token |-> 0, lease |-> None,
              retry |-> None, brief |-> FALSE, renamed |-> FALSE, commit |-> 0,
              pr |-> FALSE, archived |-> FALSE]

NewRow == [AbsentRow EXCEPT !.status = "ready", !.version = 1]

-----------------------------------------------------------------------------
(* Conditions *)

\* _require_running_claim: expiry at this very instant is expiry.
HoldsClaim(r, k) ==
    r.status = "running" /\ r.token = k /\ r.lease > 0

\* The WHERE clause of the claim's UPDATE, but for the project.
Claimable(r, version) == r.status = "ready" /\ r.version = version

\* The sweeper's two queries: claim_expires_at < now, retry_at <= now.
LeaseLapsed(r) == r.status = "running" /\ r.lease = Past
RetryDue(r) == r.status = "retry_queued" /\ r.retry \in {Past, 0}

Editable == {"ready", "running", "blocked", "needs_human", "reviewing"}

-----------------------------------------------------------------------------
(* Effects *)

Unclaimed(r) == [r EXCEPT !.token = 0, !.lease = None]   \* _clear_claim

\* Mutation of Moved: the version is not bumped.
MovedKeepingVersion(r, s) == [r EXCEPT !.status = s]

\* issue.status = s; issue.version += 1
Moved(r, s) == [r EXCEPT !.status = s, !.version = @ + 1]

Claimed(r, k) ==
    [Moved(r, "running") EXCEPT !.token = k, !.lease = LeaseTicks, !.retry = None]

\* Mutation of Renewed: a heartbeat adds a lease to what is left of the last one.
RenewedOnTop(r) == [r EXCEPT !.lease = @ + LeaseTicks]

Renewed(r) == [r EXCEPT !.lease = LeaseTicks]

\* Mutation of Released: retry_at is not set.
ReleasedWithoutDelay(r, delay) == Moved(Unclaimed(r), "retry_queued")

Released(r, delay) == [Moved(Unclaimed(r), "retry_queued") EXCEPT !.retry = delay]

Transitioned(r, to) ==
    Moved(IF r.status = "running" THEN Unclaimed(r) ELSE r, to)

Continued(r) == [Moved(r, "ready") EXCEPT !.retry = None]

Asked(r) == Moved(Unclaimed(r), "needs_human")
Answered(r) == Moved(r, "ready")

\* patch_issue: what the Agent works from; the identifier (workspace_path is not
\* recomputed); or routing metadata, which is not kept.
Rebriefed(r)  == [Moved(r, r.status) EXCEPT !.brief = ~@]
Renamed(r, b) == [Moved(r, r.status) EXCEPT !.renamed = b]
Rerouted(r)   == Moved(r, r.status)

Approved(r, k) == [Moved(r, "awaiting_publish") EXCEPT !.commit = k]
Published(r)   == [Moved(r, "pr_open") EXCEPT !.pr = TRUE]
Merged(r)      == Moved(r, "done")

ForceCancelled(r) ==
    [Moved(IF r.status = "running" THEN Unclaimed(r) ELSE r, "cancelled")
       EXCEPT !.retry = None]
Archived(r) == [Moved(r, r.status) EXCEPT !.archived = TRUE]

\* Mutation of Expired: the sweep takes the claim and leaves the status.
ExpiredStillRunning(r) == [Moved(Unclaimed(r), r.status) EXCEPT !.retry = RetryTicks]

Expired(r) == [Moved(Unclaimed(r), "retry_queued") EXCEPT !.retry = RetryTicks]
Readied(r) == [Moved(r, "ready") EXCEPT !.retry = None]

\* One row in one maintenance_tick: the second query sees what the first wrote.
Swept(r) ==
    LET e == IF LeaseLapsed(r) THEN Expired(r) ELSE r
    IN  IF RetryDue(e) THEN Readied(e) ELSE e
=============================================================================
