------------------------------- MODULE Runner -------------------------------
(***************************************************************************)
(* WindowsSymphony: one Runner process of a project, with its polling      *)
(* tick, the Attempts it has running beside it, local retries, shutdown,   *)
(* crash and restart; the workspaces of the Issues; the Worker row that    *)
(* the Runner reports to; and archive_issue, which deletes a workspace     *)
(* when that row says nobody uses it.                                      *)
(*                                                                         *)
(* There is no clock: a lease may lapse and a delay may pass at any time   *)
(* (RunnerLease has their lengths).  Every request may fail; a claim may   *)
(* be granted without its answer arriving.  A handler that has read an     *)
(* Issue may write its status after others did (IssueServiceRaces has the  *)
(* details): `cancelled` is not the end of an Issue.                       *)
(***************************************************************************)
EXTENDS Naturals, FiniteSets

CONSTANTS Issues,
          Capacity,     \* max_concurrent_agents
          MaxAttempts,  \* bound: claims granted per Issue
          MaxStarts,    \* bound: starts of the Runner process
          Archivable,   \* bound: Issues that archive_issue is called for
          Reroutable,   \* bound: Issues that may become unroutable, and routable again
          Overlapped,   \* bound: Issues whose handlers may overlap
          None

ASSUME RunnerConstants ==
    /\ Capacity \in Nat /\ MaxAttempts \in Nat /\ MaxStarts \in Nat
    /\ Archivable \subseteq Issues /\ Reroutable \subseteq Issues
    /\ Overlapped \subseteq Issues

VARIABLES rows,     \* the Issues in the control plane
          issued,   \* Attempts created so far
          worker,   \* the Runner's row in the table workers
          pc,       \* where the Runner's polling coroutine is
          registered, \* its _registered
          starts,   \* Runner processes started so far
          seen,     \* what a refresh said of the Issues, where it is not yet acted on
          victim,   \* _cancel_entry: whom it waits for
          entry,    \* the running map, and how far each Attempt's coroutine is
          retries,  \* Issues with a local retry entry
          agents,   \* Codex processes, by the Attempt they belong to
          dir,      \* the workspace directories
          undoing,  \* Issues whose clone is being removed with nobody waiting for it
          broken,   \* Issues whose directory may be no finished clone, and why: it failed
                    \* and is not known to be removed, or the process died over it, or the
                    \* workspace was removed because the Issue was over
          archive,  \* the call of archive_issue that is under way
          late,     \* the status that a handler which has read the Issue will write
          revived   \* Issues that left `cancelled` while their workspace was to go

tables == <<rows, issued>>
poll == <<pc, registered, starts, seen, victim>>
tasks == <<entry, retries, agents>>
disk == <<dir, undoing, broken>>
handlers == <<archive, late, revived>>
vars == <<rows, issued, worker, pc, registered, starts, seen, victim, entry, retries,
          agents, dir, undoing, broken, archive, late, revived>>

Token == 1..MaxAttempts

\* "waiting": a person has the next word.  "off" in seen: not active any more, or
\* not routable.
RowStatus == {"ready", "running", "retry_queued", "waiting", "cancelled"}
Phase == {"prepare", "clone", "undo", "launch", "agent", "ending", "windup",
          "after", "done"}
Free == [phase |-> None, token |-> 0, active |-> FALSE]
Idle == [issue |-> None, phase |-> None]
Sight == {"on", "off", "terminal"}
Removal == {"waiting", "removing", "removed"}
Dir == {"absent", "partial", "whole"}

ASSUME NoneIsNothing ==
    None \notin Issues \cup Phase \cup Sight \cup Removal \cup RowStatus

Row == [status : RowStatus, token : {0} \cup Token, routable : BOOLEAN,
        archived : BOOLEAN]
Worker == [known : BOOLEAN, stop : BOOLEAN, active : SUBSET Issues, fresh : BOOLEAN]
Entry == [phase : Phase \cup {None}, token : {0} \cup Token, active : BOOLEAN]
Point == {"exited", "init", "cleaning", "enter", "register", "refresh", "reconcile",
          "cancelling", "report", "reload", "dispatch", "final", "asleep",
          "closing", "stopped"}
Victim == [issue : Issues \cup {None}, cleanup : BOOLEAN,
           back : {"refresh", "reconcile"}]
Archive == [issue : Issues \cup {None}, phase : Removal \cup {None}]

TypeOK ==
    /\ rows \in [Issues -> Row]
    /\ issued \in [Issues -> 0..MaxAttempts]
    /\ worker \in Worker
    /\ pc \in Point
    /\ registered \in BOOLEAN
    /\ starts \in 0..MaxStarts
    /\ seen \in [Issues -> Sight \cup {None}]
    /\ victim \in Victim
    /\ entry \in [Issues -> Entry]
    /\ retries \subseteq Issues
    /\ agents \in [Issues -> SUBSET Token]
    /\ dir \in [Issues -> Dir]
    /\ undoing \subseteq Issues
    /\ broken \subseteq Issues
    /\ archive \in Archive
    /\ late \in [Issues -> RowStatus \cup {None}]
    /\ revived \subseteq Issues

Init ==
    /\ rows = [i \in Issues |-> [status |-> "ready", token |-> 0, routable |-> TRUE,
                                 archived |-> FALSE]]
    /\ issued = [i \in Issues |-> 0]
    /\ worker = [known |-> FALSE, stop |-> FALSE, active |-> {}, fresh |-> FALSE]
    /\ pc = "exited"
    /\ registered = FALSE
    /\ starts = 0
    /\ seen = [i \in Issues |-> None]
    /\ victim = [issue |-> None, cleanup |-> FALSE, back |-> "refresh"]
    /\ entry = [i \in Issues |-> Free]
    /\ retries = {}
    /\ agents = [i \in Issues |-> {}]
    /\ dir = [i \in Issues |-> "absent"]
    /\ undoing = {}
    /\ broken = {}
    /\ archive = Idle
    /\ late = [i \in Issues |-> None]
    /\ revived = {}

-----------------------------------------------------------------------------
(* Queries and helpers *)

Running == {i \in Issues : entry[i] # Free}
Terminal(i) == rows[i].status = "cancelled"
Holds(i, k) == rows[i].status = "running" /\ rows[i].token = k

\* A task that is done and has not been reaped is in the map but not listed.
Active == {i \in Running : entry[i].phase # "done"}

Reaped == [i \in Issues |-> IF entry[i].phase = "done" THEN Free ELSE entry[i]]

At(i, p) == entry[i].phase = p
Goes(i, p) == entry' = [entry EXCEPT ![i].phase = p]

\* _remove_tree; when it gives up, a part of the directory may be left.
Removed(i) ==
    /\ \/ dir' = [dir EXCEPT ![i] = "absent"]
       \/ dir[i] # "absent" /\ dir' = [dir EXCEPT ![i] = "partial"]
    /\ broken' = broken \cup {i}

\* Whose workspace somebody is about to remove as he saw that its Issue was over.
Aimed(i) ==
    \/ seen[i] = "terminal"
    \/ pc = "cancelling" /\ victim.issue = i /\ victim.cleanup
    \/ archive.issue = i /\ archive.phase \in {"waiting", "removing"}

\* An Issue that leaves `running` loses its claim.
Moved(i, s) == rows' = [rows EXCEPT ![i].status = s, ![i].token = 0]

-----------------------------------------------------------------------------
(* The process *)

Start ==
    /\ pc = "exited"
    /\ undoing = {}
    /\ starts < MaxStarts
    /\ starts' = starts + 1
    /\ pc' = "init"
    /\ registered' = FALSE
    /\ UNCHANGED <<tables, worker, seen, victim, tasks, disk, handlers>>

\* _ensure_initialized: the terminal Issues are fetched, and their workspaces removed
\* one by one; if they cannot be fetched this is never made up for.
Initialize ==
    /\ pc = "init"
    /\ \/ pc' = "enter" /\ UNCHANGED seen
       \/ /\ pc' = "cleaning"
          /\ seen' = [i \in Issues |-> IF Terminal(i) THEN "terminal" ELSE None]
    /\ UNCHANGED <<tables, worker, registered, starts, victim, tasks, disk, handlers>>

CleanUp(i) ==
    /\ pc = "cleaning"
    /\ seen[i] = "terminal"
    /\ seen' = [seen EXCEPT ![i] = None]
    /\ Removed(i) \/ UNCHANGED <<dir, broken>>
    /\ UNCHANGED <<tables, worker, pc, registered, starts, victim, tasks, undoing, handlers>>

Initialized ==
    /\ pc = "cleaning"
    /\ \A i \in Issues : seen[i] = None
    /\ pc' = "enter"
    /\ UNCHANGED <<tables, worker, registered, starts, seen, victim, tasks, disk, handlers>>

\* register_worker: what a stop request left in the row is cleared.
Registered ==
    worker' = [worker EXCEPT !.known = TRUE, !.stop = FALSE, !.fresh = TRUE]

\* stop_worker
Stopped(w) == [w EXCEPT !.active = {}, !.fresh = TRUE]

Register ==
    /\ pc \in {"enter", "register"}
    /\ Registered
    /\ registered' = TRUE
    /\ pc' = "refresh"
    /\ UNCHANGED <<tables, starts, seen, victim, tasks, disk, handlers>>

\* The process ends when the first registration fails, a tick when a later one does.
RegisterFails ==
    /\ \/ pc = "enter" /\ pc' = "exited"
       \/ pc = "register" /\ pc' = "asleep"
    /\ UNCHANGED <<tables, worker, registered, starts, seen, victim, tasks, disk, handlers>>

\* Codex processes outlive the process that held their pipes by a moment; a clone
\* that is being made, or removed, stays as it is, and nothing will tell it from a
\* workspace.
Crash ==
    /\ pc # "exited"
    /\ pc' = "exited"
    /\ entry' = [i \in Issues |-> Free]
    /\ retries' = {}
    /\ seen' = [i \in Issues |-> None]
    /\ undoing' = {}
    /\ broken' = broken \cup {i \in Issues : dir[i] = "partial"}
    /\ UNCHANGED <<tables, worker, registered, starts, victim, agents, dir, handlers>>

-----------------------------------------------------------------------------
(* The tick *)

\* The next iteration of serve; a task that was created has begun by now.
Wake ==
    /\ pc = "asleep"
    /\ \A i \in Issues : ~At(i, "prepare")
    /\ entry' = Reaped
    /\ pc' = IF registered THEN "refresh" ELSE "register"
    /\ UNCHANGED <<tables, worker, registered, starts, seen, victim, retries, agents, disk,
                   handlers>>

\* Cancelling the task of an Attempt: a clone is undone, a Codex process is told to
\* end but not waited for, and a second cancellation cuts the release or the
\* after_run hook short.  The Attempt waits for the removal of its clone, but not
\* when it is cancelled during that: then the removal, which is shielded, goes on
\* without it.
CancelledPhase(p) ==
    CASE p = "clone" -> "undo"
      [] p \in {"undo", "launch", "agent", "ending"} -> "windup"
      [] p = "windup" -> "after"
      [] OTHER -> "done"

Cancelled(e) == [e EXCEPT !.phase = CancelledPhase(e.phase)]

\* Of the Attempts that are cancelled, those that leave such a removal behind.
Abandoned(cancelled) ==
    LET them == {i \in cancelled : At(i, "undo") /\ dir[i] = "partial"}
    IN  /\ undoing' = undoing \cup them
        /\ broken' = broken \cup them
        /\ UNCHANGED dir

BeginCancel(i, e, cleanup) ==
    /\ Abandoned({i})
    /\ entry' = [entry EXCEPT ![i] = Cancelled(e)]
    /\ victim' = [issue |-> i, cleanup |-> cleanup, back |-> pc]
    /\ pc' = "cancelling"

\* _reconcile_running: an Attempt without events for too long.
Stall(i) ==
    /\ pc = "refresh"
    /\ i \in Active
    /\ BeginCancel(i, entry[i], FALSE)
    /\ UNCHANGED <<tables, worker, registered, starts, seen, retries, agents, handlers>>

View(i) == IF Terminal(i) THEN "terminal"
           ELSE IF rows[i].status \in {"ready", "running"} /\ rows[i].routable
                THEN "on" ELSE "off"

Refresh ==
    /\ pc = "refresh"
    /\ seen' = [i \in Issues |-> IF i \in Running THEN View(i) ELSE None]
    /\ pc' = "reconcile"
    /\ UNCHANGED <<tables, worker, registered, starts, victim, tasks, disk, handlers>>

RefreshFails ==
    /\ pc = "refresh"
    /\ pc' = "report"
    /\ entry' = Reaped
    /\ UNCHANGED <<tables, worker, registered, starts, seen, victim, retries, agents, disk,
                   handlers>>

\* Mutation of ReconcileEntry: whoever is cancelled loses the workspace too.
ReconcileRemoving(i) ==
    /\ pc = "reconcile"
    /\ seen[i] \in {"off", "terminal"}
    /\ seen' = [seen EXCEPT ![i] = None]
    /\ retries' = retries \ {i}
    /\ BeginCancel(i, [entry[i] EXCEPT !.active = FALSE], TRUE)
    /\ UNCHANGED <<tables, worker, registered, starts, agents, handlers>>

ReconcileEntry(i) ==
    /\ pc = "reconcile"
    /\ seen[i] \in {"off", "terminal"}
    /\ seen' = [seen EXCEPT ![i] = None]
    /\ retries' = retries \ {i}
    /\ BeginCancel(i, [entry[i] EXCEPT !.active = FALSE], seen[i] = "terminal")
    /\ UNCHANGED <<tables, worker, registered, starts, agents, handlers>>

Reconciled ==
    /\ pc = "reconcile"
    /\ \A i \in Issues : seen[i] \in {None, "on"}
    /\ seen' = [i \in Issues |-> None]
    /\ entry' = Reaped
    /\ pc' = "report"
    /\ UNCHANGED <<tables, worker, registered, starts, victim, retries, agents, disk, handlers>>

\* _cancel_entry after the task is done: the removal looks at the task, not at the
\* Codex process or at the Issue again, and may fail.
EndCancel ==
    /\ pc = "cancelling"
    /\ At(victim.issue, "done")
    /\ entry' = [entry EXCEPT ![victim.issue] = Free]
    /\ pc' = victim.back
    /\ victim' = [issue |-> None, cleanup |-> FALSE, back |-> "refresh"]
    /\ UNCHANGED <<dir, broken>> \/ (victim.cleanup /\ Removed(victim.issue))
    /\ UNCHANGED <<tables, worker, registered, starts, seen, retries, agents, undoing,
                   handlers>>

\* Mutation of Reported: only an idle Runner looks at the stop request.
ReportedDeaf(next) ==
    /\ Active = Running
    /\ worker' = [worker EXCEPT !.active = Active, !.fresh = TRUE]
    /\ pc' = IF worker.stop /\ Active = {} THEN "closing" ELSE next

\* heartbeat_worker refuses a report whose snapshot, the whole map, differs from the
\* list of active Issues.
Reported(next) ==
    /\ Active = Running
    /\ worker' = [worker EXCEPT !.active = Active, !.fresh = TRUE]
    /\ pc' = IF worker.stop THEN "closing" ELSE next

Report ==
    /\ \/ pc = "report" /\ Reported("reload")
       \/ pc = "final" /\ Reported("asleep")
    /\ UNCHANGED <<tables, registered, starts, seen, victim, tasks, disk, handlers>>

ReportFails ==
    /\ pc \in {"report", "final"}
    /\ pc' = "asleep"
    /\ UNCHANGED <<tables, worker, registered, starts, seen, victim, tasks, disk, handlers>>

\* _reload_workflow_if_changed: an invalid file ends the tick, another capacity
\* calls for a new registration, and so does another provider, which is taken when
\* no Attempt is in the map and has the previous one report that it stopped.
Reload ==
    /\ pc = "reload"
    /\ \/ pc' = "dispatch" /\ UNCHANGED <<worker, registered>>
       \/ pc' = "dispatch" /\ Registered /\ UNCHANGED registered
       \/ /\ Running = {}
          /\ pc' = "dispatch"
          /\ worker' = Stopped([worker EXCEPT !.known = TRUE, !.stop = FALSE])
          /\ UNCHANGED registered
       \/ pc' = "asleep" /\ registered' = FALSE /\ UNCHANGED worker
    /\ UNCHANGED <<tables, starts, seen, victim, tasks, disk, handlers>>

\* The reload that lets the tick go on.
Reloaded == Reload /\ pc' = "dispatch" /\ UNCHANGED worker

ReloadFails ==
    /\ pc = "reload"
    /\ pc' = "asleep"
    /\ UNCHANGED <<tables, worker, registered, starts, seen, victim, tasks, disk, handlers>>

\* _activate_due_retries
ActivateRetry(i) ==
    /\ pc = "dispatch"
    /\ i \in retries
    /\ retries' = retries \ {i}
    /\ UNCHANGED <<tables, worker, poll, entry, agents, disk, handlers>>

Dispatchable(i) ==
    /\ pc = "dispatch"
    /\ rows[i].status = "ready" /\ rows[i].routable
    /\ i \notin Running \cup retries
    /\ Cardinality(Running) < Capacity
    /\ issued[i] < MaxAttempts

\* Mutation of Granted: the Attempt is numbered after the count was raised.
GrantedLate(i) ==
    /\ rows' = [rows EXCEPT ![i].status = "running", ![i].token = issued[i] + 2]
    /\ issued' = [issued EXCEPT ![i] = @ + 1]

Granted(i) ==
    /\ rows' = [rows EXCEPT ![i].status = "running", ![i].token = issued[i] + 1]
    /\ issued' = [issued EXCEPT ![i] = @ + 1]

Claim(i) ==
    /\ Dispatchable(i)
    /\ Granted(i)
    /\ entry' = [entry EXCEPT ![i] = [phase |-> "prepare", token |-> issued[i] + 1,
                                      active |-> TRUE]]
    /\ UNCHANGED <<worker, poll, retries, agents, disk, handlers>>

\* The claim is granted, but its answer does not arrive, or its workflow cannot be
\* loaded, which serve does not catch.
ClaimLost(i) ==
    /\ Dispatchable(i)
    /\ Granted(i)
    /\ pc' \in {"asleep", "closing"}
    /\ UNCHANGED <<worker, registered, starts, seen, victim, tasks, disk, handlers>>

DispatchEnds ==
    /\ pc = "dispatch"
    /\ pc' \in {"final", "asleep"}
    /\ UNCHANGED <<tables, worker, registered, starts, seen, victim, tasks, disk, handlers>>

\* _stop_running: every task is cancelled, then waited for.
Close ==
    /\ pc = "closing"
    /\ \A i \in Issues : ~At(i, "prepare")
    /\ entry' = [i \in Issues |-> IF i \in Running THEN Cancelled(entry[i]) ELSE Free]
    /\ Abandoned(Running)
    /\ pc' = "stopped"
    /\ UNCHANGED <<tables, worker, registered, starts, seen, victim, retries, agents, handlers>>

\* worker_stopped, unless the request fails.
Exit ==
    /\ pc = "stopped"
    /\ Active = {}
    /\ entry' = [i \in Issues |-> Free]
    /\ retries' = {}
    /\ pc' = "exited"
    /\ worker' \in {worker, Stopped(worker)}
    /\ UNCHANGED <<tables, registered, starts, seen, victim, agents, disk, handlers>>

-----------------------------------------------------------------------------
(* _run_claimed, the coroutine of an Attempt *)

\* WorkspaceManager.prepare: a directory that exists is taken as it is.
Prepare(i) ==
    /\ At(i, "prepare")
    /\ \/ /\ dir[i] = "absent"
          /\ dir' = [dir EXCEPT ![i] = "partial"]
          /\ broken' = broken \ {i}
          /\ Goes(i, "clone")
       \/ /\ dir[i] # "absent"
          /\ UNCHANGED <<dir, broken>>
          /\ Goes(i, "launch")
    /\ UNCHANGED <<tables, worker, poll, retries, agents, undoing, handlers>>

\* The after_create hook, in a directory that may be removed under it.
CloneEnds(i) ==
    /\ At(i, "clone")
    /\ \/ /\ dir[i] = "partial"
          /\ dir' = [dir EXCEPT ![i] = "whole"]
          /\ Goes(i, "launch")
       \/ UNCHANGED dir /\ Goes(i, "undo")
    /\ UNCHANGED <<tables, worker, poll, retries, agents, undoing, broken, handlers>>

\* Mutation of UndoClone: what was cloned so far is left for the next Attempt.
KeepClone(i) ==
    /\ At(i, "undo")
    /\ Goes(i, "windup")
    /\ UNCHANGED <<tables, worker, poll, retries, agents, disk, handlers>>

\* _remove_tree gives up after five attempts.
UndoClone(i) ==
    /\ At(i, "undo")
    /\ Goes(i, "windup")
    /\ \/ dir' = [dir EXCEPT ![i] = "absent"] /\ broken' = broken \ {i}
       \/ UNCHANGED dir /\ broken' = broken \cup {i}
    /\ UNCHANGED <<tables, worker, poll, retries, agents, undoing, handlers>>

\* The removal that a cancelled Attempt left behind comes to its end.
RemovalEnds(i) ==
    /\ i \in undoing
    /\ undoing' = undoing \ {i}
    /\ Removed(i) \/ UNCHANGED <<dir, broken>>
    /\ UNCHANGED <<tables, worker, poll, tasks, handlers>>

\* before_run, prompt and Codex.  Making Codex a home makes the workspace again if it
\* was removed since the hook.
Launch(i) ==
    /\ At(i, "launch")
    /\ agents' = [agents EXCEPT ![i] = @ \cup {entry[i].token}]
    /\ dir' = [dir EXCEPT ![i] = IF @ = "absent" THEN "partial" ELSE @]
    /\ Goes(i, "agent")
    /\ UNCHANGED <<tables, worker, poll, retries, undoing, broken, handlers>>

LaunchFails(i) ==
    /\ At(i, "launch")
    /\ Goes(i, "windup")
    /\ UNCHANGED <<tables, worker, poll, retries, agents, disk, handlers>>

\* A finishing tool; without its answer the Agent goes on.
Finish(i) ==
    /\ At(i, "agent")
    /\ Holds(i, entry[i].token)
    /\ Moved(i, "waiting")
    /\ \/ entry' = [entry EXCEPT ![i].phase = "ending", ![i].active = FALSE]
       \/ UNCHANGED entry
    /\ UNCHANGED <<issued, worker, poll, retries, agents, disk, handlers>>

\* Turns used up, Codex or a request failed; or refresh_claim found the Issue moved.
AgentStops(i) ==
    /\ At(i, "agent")
    /\ \/ Goes(i, "ending")
       \/ /\ View(i) # "on"
          /\ entry' = [entry EXCEPT ![i].phase = "ending", ![i].active = FALSE]
    /\ UNCHANGED <<tables, worker, poll, retries, agents, disk, handlers>>

\* Mutation of HeartbeatRefused: refused heartbeats are ignored.
HeartbeatIgnored(i) ==
    /\ At(i, "agent")
    /\ ~Holds(i, entry[i].token)
    /\ entry' = [entry EXCEPT ![i].active = FALSE]
    /\ UNCHANGED <<tables, worker, poll, retries, agents, disk, handlers>>

\* A heartbeat is answered with 409.
HeartbeatRefused(i) ==
    /\ At(i, "agent")
    /\ ~Holds(i, entry[i].token)
    /\ entry' = [entry EXCEPT ![i].phase = "ending", ![i].active = FALSE]
    /\ UNCHANGED <<tables, worker, poll, retries, agents, disk, handlers>>

\* Mutation of AgentGone: cancelling an Attempt leaves its Codex task alone.
AgentLeft(i, k) ==
    /\ k \in agents[i]
    /\ At(i, "ending") /\ entry[i].token = k
    /\ agents' = [agents EXCEPT ![i] = @ \ {k}]
    /\ UNCHANGED <<tables, worker, poll, entry, retries, disk, handlers>>

\* CodexAppServer.stop: the process tree is gone.
AgentGone(i, k) ==
    /\ k \in agents[i]
    /\ ~(At(i, "agent") /\ entry[i].token = k)
    /\ agents' = [agents EXCEPT ![i] = @ \ {k}]
    /\ UNCHANGED <<tables, worker, poll, entry, retries, disk, handlers>>

Ended(i) ==
    /\ At(i, "ending")
    /\ entry[i].token \notin agents[i]
    /\ Goes(i, "windup")
    /\ UNCHANGED <<tables, worker, poll, retries, agents, disk, handlers>>

\* An active lease is released, whether or not that succeeds, and a retry is queued.
WindUp(i) ==
    /\ At(i, "windup")
    /\ Goes(i, "after")
    /\ \/ /\ entry[i].active
          /\ retries' = retries \cup {i}
          /\ \/ Holds(i, entry[i].token) /\ Moved(i, "retry_queued")
             \/ UNCHANGED rows
       \/ ~entry[i].active /\ UNCHANGED <<retries, rows>>
    /\ UNCHANGED <<issued, worker, poll, agents, disk, handlers>>

\* The after_run hook.
AfterRun(i) ==
    /\ At(i, "after")
    /\ Goes(i, "done")
    /\ UNCHANGED <<tables, worker, poll, retries, agents, disk, handlers>>

-----------------------------------------------------------------------------
(* The control plane and people *)

Expire(i) ==
    /\ rows[i].status = "running"
    /\ Moved(i, "retry_queued")
    /\ UNCHANGED <<issued, worker, poll, tasks, disk, handlers>>

\* A retry that is due, or an Issue that a person sends back.
TakeUp(i) ==
    /\ rows[i].status \in {"retry_queued", "waiting"}
    /\ Moved(i, "ready")
    /\ UNCHANGED <<issued, worker, poll, tasks, disk, handlers>>

CancelIssue(i) ==
    /\ ~Terminal(i)
    /\ Moved(i, "cancelled")
    /\ UNCHANGED <<issued, worker, poll, tasks, disk, handlers>>

\* A handler reads the Issue that another one is about to change: a request or a
\* release of the Attempt, the sweep, a person's answer.
ReadBefore(i) ==
    /\ i \in Overlapped
    /\ late[i] = None
    /\ \E s \in RowStatus :
         /\ \/ rows[i].status = "running" /\ s \in {"waiting", "retry_queued"}
            \/ rows[i].status \in {"retry_queued", "waiting"} /\ s = "ready"
         /\ late' = [late EXCEPT ![i] = s]
    /\ UNCHANGED <<tables, worker, poll, tasks, disk, archive, revived>>

\* It writes, by the id of the row; ck_issues_claim_state refuses a running Issue
\* that is to be ready and keep its claim.
Overwrite(i) ==
    /\ late[i] # None
    /\ late[i] = "ready" => rows[i].status # "running"
    /\ Moved(i, late[i])
    /\ late' = [late EXCEPT ![i] = None]
    /\ revived' = IF Terminal(i) /\ (Aimed(i) \/ i \in undoing)
                  THEN revived \cup {i} ELSE revived
    /\ UNCHANGED <<issued, worker, poll, tasks, disk, archive>>

\* patch_issue with dispatchable, labels or blockers.
Reroute(i) ==
    /\ i \in Reroutable
    /\ rows[i].status \in {"ready", "running", "waiting"}
    /\ rows' = [rows EXCEPT ![i].routable = ~@]
    /\ UNCHANGED <<issued, worker, poll, tasks, disk, handlers>>

RequestStop ==
    /\ worker.known
    /\ worker' = [worker EXCEPT !.stop = TRUE]
    /\ UNCHANGED <<tables, poll, tasks, disk, handlers>>

\* worker_offline_after_seconds pass without a report; a Runner that is between two
\* ticks has reported before that.
Fade ==
    /\ worker.fresh
    /\ worker.active # {}
    /\ pc # "asleep"
    /\ worker' = [worker EXCEPT !.fresh = FALSE]
    /\ UNCHANGED <<tables, poll, tasks, disk, handlers>>

\* archive_issue, up to its wait: an Issue that is not terminal is cancelled.
ArchiveBegins(i) ==
    /\ i \in Archivable
    /\ archive = Idle
    /\ ~rows[i].archived
    /\ Moved(i, "cancelled")
    /\ archive' = [issue |-> i, phase |-> "waiting"]
    /\ UNCHANGED <<issued, worker, poll, tasks, disk, late, revived>>

\* _live_worker_owns_issue.  A Worker that is idle or stopped lists no Issue.
Owned(i) == worker.fresh /\ i \in worker.active

ArchiveProceeds ==
    /\ archive.phase = "waiting"
    /\ ~Owned(archive.issue)
    /\ archive' = [archive EXCEPT !.phase = "removing"]
    /\ UNCHANGED <<tables, worker, poll, tasks, disk, late, revived>>

\* The Runner keeps it for 15 seconds, the directory cannot be removed, or the Issue
\* has changed since.
ArchiveGivesUp ==
    /\ \/ archive.phase = "waiting" /\ Owned(archive.issue)
       \/ archive.phase \in {"removing", "removed"}
    /\ archive' = Idle
    /\ UNCHANGED <<tables, worker, poll, tasks, disk, late, revived>>

\* The Issue is not looked at again before its workspace is removed.
ArchiveRemoves ==
    /\ archive.phase = "removing"
    /\ Removed(archive.issue)
    /\ archive' = IF dir'[archive.issue] = "absent"
                  THEN [archive EXCEPT !.phase = "removed"] ELSE Idle
    /\ UNCHANGED <<tables, worker, poll, tasks, undoing, late, revived>>

ArchiveCommits ==
    /\ archive.phase = "removed"
    /\ Terminal(archive.issue)
    /\ rows' = [rows EXCEPT ![archive.issue].archived = TRUE]
    /\ archive' = Idle
    /\ UNCHANGED <<issued, worker, poll, tasks, disk, late, revived>>

-----------------------------------------------------------------------------
OfRunner ==
    \/ Initialize \/ Initialized \/ Register \/ RegisterFails \/ Wake \/ Refresh \/ RefreshFails
    \/ Reconciled \/ EndCancel \/ Report \/ ReportFails \/ Reload \/ ReloadFails
    \/ DispatchEnds \/ Close \/ Exit
    \/ \E i \in Issues : CleanUp(i) \/ Stall(i) \/ ReconcileEntry(i)
                           \/ ActivateRetry(i) \/ Claim(i) \/ ClaimLost(i)

OfAttempt(i) ==
    \/ Prepare(i) \/ CloneEnds(i) \/ UndoClone(i) \/ RemovalEnds(i)
    \/ Launch(i) \/ LaunchFails(i) \/ Finish(i) \/ AgentStops(i)
    \/ HeartbeatRefused(i) \/ Ended(i)
    \/ WindUp(i) \/ AfterRun(i) \/ \E k \in Token : AgentGone(i, k)

OfControlPlane ==
    \/ RequestStop \/ Fade \/ ArchiveProceeds \/ ArchiveGivesUp \/ ArchiveRemoves
    \/ ArchiveCommits
    \/ \E i \in Issues : Expire(i) \/ TakeUp(i) \/ CancelIssue(i) \/ Reroute(i)
                           \/ ReadBefore(i) \/ Overwrite(i) \/ ArchiveBegins(i)

Next ==
    \/ Start \/ Crash \/ OfRunner \/ OfControlPlane
    \/ \E i \in Issues : OfAttempt(i)

(* A coroutine that can go on does; hooks and requests have a time-out, and a clone
   or a Codex process comes to its end.  A request that is made again and again
   succeeds at last, and so does a reload of the workflow; nothing is assumed of
   people, leases, crashes, or of the order in which Issues are taken. *)
Fairness ==
    /\ WF_vars(OfRunner)
    /\ SF_vars(Register) /\ SF_vars(Refresh) /\ SF_vars(Report)
    /\ SF_vars(Reloaded)
    /\ \A i \in Issues :
         /\ SF_vars(ActivateRetry(i)) /\ SF_vars(Claim(i))
         /\ WF_vars(Prepare(i) \/ CloneEnds(i) \/ UndoClone(i) \/ Launch(i)
                     \/ Ended(i) \/ WindUp(i) \/ AfterRun(i))
         /\ WF_vars(HeartbeatRefused(i))
         /\ WF_vars(\E k \in Token : AgentGone(i, k))

Safety == Init /\ [][Next]_vars

Spec == Safety /\ Fairness

-----------------------------------------------------------------------------
(* Properties *)

\* What an Agent has done in a workspace is lost only when the Issue is over, or was
\* when the removal was decided and an overlapping handler has brought it back since.
\* Several actors remove directories: a Runner that starts, one that reconciles, an
\* Attempt whose clone failed, what such an Attempt left behind, and archive_issue.
WorkSurvives ==
    [][\A i \in Issues : dir[i] = "whole" /\ dir'[i] # "whole"
                           => Terminal(i) \/ i \in revived]_vars

\* An Agent does not work in a clone that another Attempt left unfinished, unless that
\* clone could not be removed, or its removal not be waited for, or the process died
\* over it, or the workspace was removed under the Agent as its Issue was over.
\* `prepare` cannot tell: it takes any directory that is there.
AgentsHaveWholeWorkspace ==
    \A i \in Issues : At(i, "agent") /\ dir[i] # "whole" => i \in broken

\* When an Issue stays over, Codex stops for good, whatever the Attempt was doing and
\* whether or not the Runner hears of it in its tick.
AgentsEnd == \A i \in Issues : <>[]Terminal(i) => <>[](agents[i] = {})

\* A Runner takes every Issue that stays ready: no local retry, unreaped task, or
\* Attempt that lost its claim keeps it away for good.
ReadyIsTaken ==
    \A i \in Issues :
      rows[i].status = "ready" /\ issued[i] < MaxAttempts /\ pc # "exited"
        ~> rows[i].status # "ready" \/ ~rows[i].routable \/ pc = "exited"

\* A request to stop ends the Runner, however busy, unless a registration clears it.
StopIsHeard == worker.stop ~> ~worker.stop \/ pc = "exited"

=============================================================================
