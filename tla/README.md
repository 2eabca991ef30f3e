# Symphony Control Plane in TLA+

A verification project for the control plane (`src/control_plane`) and the
Runner (`src/symphony_windows`): TLA+ modules translated from the code, TLC
configurations that check them on small instances, and theorems about them that
TLAPS checks.  Paths below are relative to the repository, whose Python packages
are in `src/`.

## 1. The system

People register *projects* (git repositories with a `WORKFLOW.md`) and file
*Issues*.  A *Runner* per project polls the *control plane* over HTTP, claims
ready Issues under a *lease*, prepares a *workspace* for each and drives a Codex
*Agent* in it through *Turns*.  The Agent completes, asks a person, or reports a
blocker; a person then reviews, approves, publishes and confirms the merge.

| Component | State it keeps | Operations | Hard behaviour |
| --- | --- | --- | --- |
| Issue lifecycle (`protocol/state-machine.yaml`, `protocol.py`) | - | the arcs between ten statuses | the arcs are spread over a dozen handlers |
| `ControlPlaneService` (`service.py`) | tables issues, agent_attempts, human_decisions, events | create, patch, claim, heartbeat, release, status, decisions, deliver, continue, archive, maintenance | stale versions, late tokens, expiry against completion, overlapping sessions, rollback gaps |
| Worker registry (`service.py`) | table workers: state, active Issues, last seen, stop flag | register, heartbeat, request stop, stopped | a list that is always a little old |
| `WindowsSymphony` (`orchestrator.py`) | running map, local retries, stop flag, current workflow | tick, run, heartbeat loop, reconcile, shutdown | one coroutine per Issue beside the polling one, cancellation, lost answers |
| `ControlPlaneTracker` (`tracker.py`) | the lease in memory and its `active` flag | claim, heartbeat, release, refresh, tools | believes in a claim the server has ended |
| `CodexAppServer` (`codex.py`) | process, thread, turn | run, tools, stop | turns after the lease is gone |
| `WorkspaceManager` (`workspace.py`) | a directory per Issue | prepare, hooks, remove | shared by Attempts, by the archive and by delivery |
| `IssueDeliveryManager` (`delivery.py`) | git repository, remote, forge | local commit, base checks, publish, verify merge | effects outside the database, repeated after failures |
| Project registry (`project_service.py`) | projects, workflow snapshots | create, patch, validate, refresh, delete | validated state that the repository outruns |
| `RunnerSupervisor` (`runner_supervisor.py`) | one process per project | start, stop, forget, wait for exit | lock given up while a process stops; a restart forgets |
| Workflow loading and reload (`workflow.py`, `orchestrator.py`) | last good workflow | load, reload | running Attempts against a new configuration |
| HTTP application (`app.py`) | sweeper and refresher tasks | routes, lifespan | maintenance runs in several places at once |
| Attempt events, runtime views, change summary, UI, skills | - | formatting and display | none that a model would tell apart |

What makes each part correct, in one line: the *service* must keep claim,
Attempt and question consistent whatever arrives in whatever order; a *Runner*
must soon stop working on an Issue that is no longer its own, and leave none
behind; the *workspace* must belong to one user at a time; *delivery* must publish
exactly what was reviewed; the *registry* and *supervisor* must run one Runner per
enabled project.

## 2. Modules

| Module | Models |
| --- | --- |
| `IssueStatus` | the statuses, terminal statuses, `TRANSITIONS` of `service.py` and the arcs of the protocol file |
| `IssueLifecycle` | the abstract specification: Issues that only follow the protocol |
| `IssueRows` | a row of the table issues and what each handler makes of it, as pure operators |
| `IssueService` | `ControlPlaneService`: every handler that changes an Issue, with callers whose reads may be old |
| `IssueServiceRaces` | the same handlers with the isolation the database really gives them |
| `RunnerLease` | one Issue, several Runners and time: claims, heartbeats, preparation, Agents, lost and late requests |
| `Runner` | one Runner process: tick, running map, Attempts, retries, shutdown, crash, restart; workspaces; the Worker row; `archive_issue` |
| `Delivery` | from review to merge: git and the host behind `deliver_issue`, follow-up instructions, the Attempts that change the workspace meanwhile |
| `Projects` | a Project's row, its validations, the Issues and Claims that need it, the Supervisor and its processes, the control plane's own start and end |
| `IssueService_proofs`, `IssueReview_proofs`, `IssueServiceRaces_proofs`, `RunnerLease_proofs`, `Runner_proofs`, `Delivery_proofs`, `Projects_proofs`, `ProjectsBinding_proofs` | the theorems about the modules they are named for (section 4) |
| `MCIssueService`, `MCIssueServiceRaces`, `MCRunnerLease`, `MCRunner`, `MCDelivery`, `MCProjects` | instances for TLC |

The modules meet where the components do.  `IssueService` is the whole life of an
Issue as the service sees it, and takes what Runners, people and git do as calls
that may come in any order; `RunnerLease`, `Runner` and `Delivery` each keep of
it the statuses in which their part happens, and put in the other party.
`Projects` decides when Issues are created and claimed at all.

### How state and actions correspond to the code

`rows[i]` is the row of Issue `i`: `status`, `version`, the claim (`token`, the
number of the Attempt it was issued with, for `claim_token_hash`; `lease` for
`claim_expires_at`), `retry` for `retry_at`, `commit` (`local_commit`: the newest
Attempt whose work it holds), `pr`, `archived`, `renamed` (the identifier no
longer gives `workspace_path`) and a bit that stands for the briefing.  Times are
what is left of them: `Aged` counts down to `Past`, and `lease_expires < now`
and `<= now` stay different tests.

In `IssueService` a handler that reads and writes within one session is one
action; its name is the handler's.  Commands that carry `expected_version` are
*calls*: `Send` reads the row as a client does, any number of other steps may
follow, and the handler compares what arrived with what is there.  `deliver_issue`
is three steps, because it rolls its session back before it touches git:
`DeliverCheck`, `DeliverEffect`, `DeliverCommit`.  `archive_issue` is
`ArchiveCheck`, `ArchiveCancel`, `ArchiveCommit`.  `Drop` ends a call at any
point.  Tokens need no call: any token issued before may be presented at any
time, which covers late, duplicated and lost requests.

`IssueServiceRaces` drops the atomicity of `IssueService`.  With SQLAlchemy over
aiosqlite a `SELECT` runs outside a transaction and `BEGIN` comes with the first
write, so a handler is three steps: read the Issue and decide (`Heartbeat`,
`ReleaseClaim`, ...), read the running Attempt (`FindAttempt`), write (`Commit`).
The ORM's `UPDATE ... WHERE id` sets the columns that differ from what was read,
and computes `version + 1` from what was read.  The claim alone tests the row in
the `UPDATE`.  The sweep reads its two lists in one step there.  `ClaimState` is
the table's check constraint; a commit it refuses can only abort.

`RunnerLease` looks at one Issue from both ends.  `issue` is the row as far as a
Runner can tell it apart, `net` holds the requests that were sent and not served
(they stay there for ever if they are lost, and may be served after their sender
gave up), `run[w]` is the coroutine `_run_claimed` with the heartbeat loop beside
it: `ClaimAnswered`, `Launch` (Codex and heartbeat loop start together, so the
first heartbeat comes one interval after the launch), `GrantContext` and
`StartTurn` (`update_attempt_context`, which needs the claim, and the Turn that
follows its answer), `SendHeartbeat`, `HeartbeatAnswered`, `HeartbeatFails` (any
error ends the Attempt), `SendFinish` and `FinishAnswered` (the agent tools; a
tool that fails lets the Agent go on), `AgentEnds`, then `Stopped` with the
release.  `CancelRun` sends the release first: a cancelled `_run_claimed` does
not wait for the Codex task.  `Tick` lets time pass unless a Runner is due; what
a Runner may take is bounded by `Timeout` (one request), `PrepTicks` (directory,
two hooks, prompt), `Interval` and `StopTicks` (ending the process tree).  No
other delay is relied on: a released Issue may be claimed again at once (the
delay after a cancellation is one second, `orchestrator.py:469`, `:495`), and so
may one that a person sends back.  Two Agents may therefore be at work on the
Issue together, and the module says for how long.  The calls of a Turn other
than the finishing tools, and heartbeats that still go out while an Agent is
being ended, only renew or fail and are left out; so is the `after_run` hook,
which follows when the claim is gone.  If the Runner process ends, Codex is taken
to end too.

`Runner` looks at one Runner from the inside.  `pc` is where the polling
coroutine is: `serve` and `tick` are followed from one `await` to the next
(`Initialize`, `Register`, `Refresh`, `ReconcileEntry`, `Report`, `Reload`,
`Claim`, the final `Report`, `Close`, `Exit`), and after each of them any other
coroutine may run.  `entry` is the running map with the phase of each Attempt's
`_run_claimed` (`Prepare`, `CloneEnds`, `Launch`, `Finish`, `AgentStops`,
`HeartbeatRefused`, `Ended`, `WindUp`, `AfterRun`); `Cancelled` is what
`task.cancel()` makes of each phase, and `victim` whom `_cancel_entry` waits for.
`agents` are the Codex processes, which outlive their Attempt's coroutine for a
moment: a cancelled Attempt tells Codex to end and does not wait.  `dir` is the
workspace: absent, partial, or whole.  An Attempt that is cancelled during
`after_create` is in phase `undo` until the clone is removed: `run_hook` kills
the hook, and then `prepare` awaits the removal (`workspace.py:66-71`).  The
removal is shielded, so a cancellation that arrives while it is going on ends the
Attempt at once and leaves it behind: the Issue is then in `undoing`, its next
Attempt may start in that directory, and `RemovalEnds` comes later.  `broken`
marks the directories that may be no finished clone although the next `prepare`
will take them for one: the removal of the clone failed or nobody waited for it,
the process died over the clone, or the workspace was removed because the Issue
was over.  `worker` is the row in the table workers as `archive_issue` and a stop
request see it.  There is no clock here: leases lapse and delays pass at any
time; their lengths are in `RunnerLease`.

`cancelled` is not final in `Runner`: `ReadBefore` and `Overwrite` are a handler
that has read the Issue and writes its status by id after others did, which is
what `IssueServiceRaces` shows to be possible.  `Finish`, `WindUp` and `Expire`
test and write in one step, since their overlaps are such pairs.  `revived` keeps
the Issues that came back while somebody was about to remove their workspace:
neither `_cancel_entry` nor `archive_issue` (`service.py:591-606`) looks at the
Issue again before it removes.

Simplifications of `Runner`: Issues are taken in any order (the code sorts them);
the list of active Issues and its report are one step; an Issue that becomes
unroutable is cancelled without a release and waits for its lease to lapse;
`SIGTERM` is `Crash`, since `cli.py` handles only the interrupt; a Codex process
ends when its pipes close; a new process starts when the removals that the last
one left behind are over, as they ended with it.

`Delivery` follows a delivery call from one git command to the next: `Begin` is
the first transaction of `deliver_issue`; then for an approval `ApproveBase`,
`Stage` (`git add`), `Diff`, `Commit`, `RevParse`; for a publication `LookHead`,
`Fetch`, `Ancestor`, `PublishHead`, `Push`, `OpenRequest`; for the merge
`VerifyMerged`.  The transaction at the end is `Recheck` (the `SELECT` that
compares status and version) and `Write` (the `UPDATE` by id, refused by the
check constraint if the Issue is claimed by then).  Between any two of these the
other call, an Agent, a hook, or people may act; `GiveUp` may end a call there,
with what it did to git left as it is.  `tree`, `index`, `head` and `fetched` are
the files, what is staged, the commit checked out and `FETCH_HEAD` of the one
repository that all of them share.  A commit is what it contains: how much of the
target branch (`base`) and how many changes (`edit`).  Folded into their
neighbours are finding the repository, `git checkout -B` (which keeps `HEAD`),
`git reset -- .agents .symphony`, and the remote's address.  `host` tells GitHub,
GitLab's API and GitLab's push options apart, which find and open review requests
differently; without a token the last cannot confirm a merge.

`lingers` says that Codex or the `after_run` hook of an Attempt that is over is
still at work; it may change, stage and commit (`Work`), and another Runner may
claim the Issue meanwhile.  `delivery.py:70` refuses a workspace in which
`.symphony/agent-assets-backup` exists, but nothing at this commit creates that
directory (`docs/windows-runner.md` alone speaks of it), so the test never stops
a call and is not in the model.  Two history variables name what nothing in the
code prevents: `strayed`, what lingers changed the workspace after it was staged
for an approval or after the approval; `overtaken`, an Attempt was claimed
between `Recheck` and `Write` of a call.  `followups` are the instructions of
`continue_issue`: `next` would be handed out by the next claim, `heard` reached a
Turn, and `cut` went to an Attempt that ended between opening its Thread and its
first Turn (they are not handed out again).  The project's repository, where
`target` is, and the host's branch advance independently of each other.  The
other handlers are one step each here: how they overlap is what
`IssueServiceRaces` is about.

In `Projects` an API call is a record in `calls`: its kind, the step it is at, and
what its session has loaded.  `Saved` is the ORM's `UPDATE`, which writes the
columns that differ from what was loaded; `expire_on_commit=False` and the
identity map mean that `create` and `patch` validate with the row as they wrote
it (`KeepsRow`), while other validations load it again in `Judge`.  `Look`
resolves the commit, `Judge` looks at the working tree and the workflow, `Record`
writes; `refresh_if_changed` (`RefreshIfChanged`) skips all that when nothing
changed.  `lock` is the Supervisor's `asyncio.Lock`, held by `start_project` over
the creation of the process and by `stop_project` only until it knows what to
wait for; `forget_project` does not take it.  `runtimes` are the `ProjectRuntime`
objects, with `ours` false once the control plane that made them has crashed:
their processes live on.  The stop request in the Worker row is not modelled
here: a Runner may end by itself at any time, or never.  Which workflows, skills
and assets validate is the set `Broken`; edits that are not committed never do.

## 3. Runs

| Run | Instance | Shows |
| --- | --- | --- |
| `issue_service` | 1 Issue, 2 callers, 2 Attempts | the claim, the Attempts and the questions agree; a version names its contents; only reviewed work is delivered; an archived Issue is frozen; the lifecycle is implemented |
| `issue_service_live` | 2 Issues, 1 caller | a silent claim ends; a queued retry is taken up |
| `issue_races` | 1 Issue, 2 overlapping handlers, 2 Attempts | what survives the overlaps |
| `runner_lease` | 2 Runners, 2 claims, lease 5, interval 2, preparation up to 6 | an Agent in a Turn that has lost its claim is ended within a known time; a lease that was renewed does not lapse under its Runner |
| `runner` | 1 Issue, 2 Attempts, 2 starts, archive, overlapping handlers | in which cases an Agent works in an unfinished clone; work is removed only if the Issue is over, or was when that was decided |
| `runner_live` | 1 Issue, 2 Attempts, 1 start, rerouting | Codex ends when its Issue stays over; a ready Issue is taken; a stop request is heard |
| `delivery` | 2 delivery calls, 3 claims, 1 follow-up, 2 changes, 1 advance of the target | what is published and merged is the approved commit, and approval leaves publication possible, whatever calls come between two git commands; follow-ups are heard |
| `projects` | 3 events (calls, commits, edits, ends of the control plane), 2 tasks at a time | one Runner per Project; Issues keep their Project and start from the newest commit; nothing is granted while disabled; stopping and recovering come to an end |
| `issue_question` | violated | `POST /status` can leave an Issue waiting for a person with no question to answer |
| `issue_rename` | violated | an Issue that was renamed while ready can never be archived |
| `terminal_races` | violated | a release that read the running Issue before a cancellation committed, and commits after it, takes the Issue out of `cancelled` into `retry_queued` |
| `delivery_advanced` | violated | an Issue that was continued after the target branch advanced, and has integrated it, is still refused approval |

The bounds: `MaxAttempts` claims per Issue (two are needed for a late token of an
earlier Attempt to meet a later one), `MaxVersion` limits edits only, so that
every other command still runs after it; leases and delays of one or two ticks,
enough for "not yet", "exactly now" and "past"; two callers or handlers, since
every hazard listed is between two of them, with the sweeper and the clock as
further actors.  One Issue suffices where no step but the sweep touches two of
them; the sweep over two is in `issue_service_live`.  Handlers are symmetric.
In `runner_lease` the lease is exactly as long as `LeaseOutlastsSilence` asks,
so that with one tick less TLC finds `RenewedLeaseHolds` violated; and a
preparation may outlast it, so that claims lapse before the first heartbeat,
as they may under the repository's `WORKFLOW.md`.

`runner` has one Issue: what Issues share is the polling coroutine, the capacity
and the Worker row, and the hazards listed are between that coroutine, an
Attempt, and the archive.  A second start is what it takes to meet what the first
left on disk and in the tables.  It leaves rerouting out, which is in
`runner_live` (and in the theorems): without labels or blockers that change there
is one way less to cancel an Attempt.  `runner_live` has one start, since the
fairness makes the graph costly, and neither archive nor overlapping handlers; a
crash is still possible, and the properties say what they promise then.  A single
Issue also means that no other keeps the capacity from it, and strong fairness of
each claim leaves the priority order out: that a steady stream of more urgent
Issues does not starve one is not claimed.

`delivery` has two overlapping calls, the three claims that a review, a follow-up
and a failure in between need, and two review requests, so that a closed one can
be followed by another.  `InTime`, a CONSTRAINT, ends a behaviour where a call
has been overtaken: beyond that state only `TypeOK` and `FollowUpsHeard` promise
anything, and the theorems have these without the constraint.

`projects` bounds all outside events together: any three of them may overlap
beside a refresher that goes on for ever, which covers every pair of calls, and
every pair with a commit, an edit or a crash in between; it starts with no
Project, or with an available one with or without an Issue.

Deadlock is not checked for the modules whose system may stop, or whose bounds
may be used up: an archived Issue, one that used its Attempts up, a Project after
its last event.

Fairness: the sweeper (`_lease_sweeper`) loops for ever and swallows failures, so
`MaintenanceTick` is weakly fair, and time passes, so `Tick` is.  Nothing else
is: people, Runners and callers may do nothing.  `SilentClaimEnds` speaks of
behaviours in which heartbeats stop.

In `Runner` a coroutine that can go on does, since the event loop runs it and
every request, hook and clone has a time-out: `OfRunner` and the steps of an
Attempt are weakly fair, and so is the answer to a heartbeat that is refused and
the end of a Codex process that was told to end.  Registration, refresh, report,
reload, local retries and claims are tried anew in every tick; strong fairness
says that one of those tries succeeds in the end.  Nothing is assumed of people,
leases, crashes, Agents that end, or of which Issue is taken.

In `Projects` the steps of a call are weakly fair, because git commands have a
time-out of ten seconds (`project_service.py:390`) and the Supervisor's waits end
with a kill; so are the refresher, which loops for ever, and `_wait_for_exit`.
That last one is an assumption about the machine: it reads the pipe of the process
to its end without a time-out (`runner_supervisor.py:173-174`), so `StopEnds` would
fail if something that the Runner started kept the pipe open after its death.
Outside events and ends of the control plane need not happen, and a control plane
that went down need not be started.

## 4. What is proved

`IssueService_proofs` proves, for any sets of Issues and callers and any bounds:

- `TypeCorrect`: `Spec => []TypeOK`;
- `OneActive`: `Spec => []OneActiveAttempt`;
- `VersionIsSound`: `Spec => []VersionNamesContents`;
- `ArchivedStaysFrozen`: `Spec => ArchivedIsFrozen`;
- `ImplementsLifecycle`: `Spec => FollowsLifecycle`.

The inductive invariant is `IInv`: the types; `RowsAreSane`, which ties status,
token, lease and the statuses of the Attempts of one Issue together
(`OneActiveAttempt` alone is not inductive: that a claim number above `issued`
was never running, and that only a terminal row is archived, must be carried
along); `CallsAreSane`, what a call that is under way remembers of the row; and
`VersionNamesContents`.  The proof goes through two lemmas about any step: a step
writes at most one row and its Attempts (`StepOfRows`), or the calls
(`StepOfCalls`), or sweeps and ages all rows.  `Moves` says what a step may do to
a status; the refinement follows from it.  The assumptions are those the modules
state: bounds and delays are natural numbers, and the arcs asked of `POST
/status` are among `TRANSITIONS`.  These theorems are about handlers that are one
step each; what is left of them when handlers overlap is what
`IssueServiceRaces_proofs` proves, and it is less.

`RunnerLease_proofs` proves, for any number of Runners and claims and any lengths
of lease, interval, time-out, preparation and stop:

- `LeaseTypeCorrect`: `Spec => []TypeOK`;
- `LossIsNoticed`: `Spec => []LostClaimIsNoticed`;
- `RenewalHolds`: `Spec => []RenewedLeaseHolds`, if `LeaseOutlastsSilence`.

The first two assume nothing of the lengths but that they are natural numbers.
They do not say that one Agent works on an Issue at a time, which the code does
not keep: the next claim may come one second after a cancellation, a person may
act at once, and a lease may lapse before the first heartbeat (with the hooks of
120 s that the repository's `WORKFLOW.md` allows, 405 s may pass from the claim
to the end of the Agent, and the lease is 300 s).  They say for how long an Agent
in a Turn goes on after its claim has ended: two request time-outs, one interval,
and the end of its process tree; 165 s with the repository's settings.
`LeaseOutlastsSilence` asks for a lease of at least that length, counted from an
answered heartbeat and not from the claim, which those settings give (300 s, with
an interval of 100 s, a time-out of 30 s and 5 s to end a process tree).  The code
does not check it: with the shortest lease it accepts, 10 s, and the same
time-out it fails.  The inductive invariant, `Inv`, bounds by phase when the
control plane last served a request of a Runner with success (`SinceServed`), and
says that this covers both the time since the claim ended and what is missing
from a full lease (`AtWork`); neither property is inductive, since neither says
anything before the claim has ended.

`Projects_proofs` proves, for any number of calls under way together, of commits,
of Runner processes and of crashes and shutdowns of the control plane:

- `TypeCorrect`: `Spec => []TypeOK`;
- `OneRunnerAtMost`: `Spec => []OneRunner`;
- `IssuesKeepTheirProject`: `Spec => []IssueKeepsProject`;
- `NothingGrantedWhileDisabled`: `Spec => NothingWhileDisabled`.

The assumptions are that the bounds are natural numbers and that `None` is none of
the values it stands beside.  The inductive invariant `Inv` says of every call
whether it fits what the control plane is doing (`Fits`: nothing but the refresher
and the shutdown goes on while the server closes, nothing at all when it is down)
and what it may rely on at its step (`Relies`).  `OneRunner` needs that a call about
to create a process works for the registered runtime, that it alone holds the lock
(`Locks`), and that runtimes not yet used have no process (`Unused`); that a
shutdown leaves none needs that the runtime it waits for is still the registered
one, because no start gets past a closing server.  `IssueKeepsProject` needs that
whoever is about to write the row has loaded one that exists.  For the last theorem
`Silence` says where a call that came while the Project was disabled can be, and
that the row it holds is that of a disabled Project; `Granting` says that only
`Insert`, `Take` and `Spawn` give anything.

`IssueReview_proofs` goes on from `IssueService_proofs`, with the same assumptions:

- `ResultIsReviewed`: `Spec => []DeliveredIsReviewed`;
- `QuestionIsAsked`: `Spec => []WaitingHasItsQuestion`, if `AskedWithQuestion`.

`DeliveredIsReviewed` is not inductive: nothing in it says where a commit came
from, nor that a row which has one is never claimed again.  `Story` says both of a
row, its Attempts and its questions, and `MadeOfNewest` says of a delivery call
between git and its last transaction that its commit is the newest Attempt's as
long as the version it has read is the row's; there `VersionNamesContents` is
used.  `AskedWithQuestion` says that no client asks `POST /status` for
`needs_human`, which the route allows; that hypothesis cannot be dropped, as the
run `issue_question` shows.

`IssueServiceRaces_proofs` proves, for any number of Issues, of overlapping
handlers and of Attempts, and any delays:

- `TypeCorrect`: `Spec => []TypeOK`;
- `ClaimIsBacked`: `Spec => []RunningIsBacked`;
- `WaitingIsAnswerable`: `Spec => []WaitingCanBeAnswered`, if `AskedWithQuestion`;
- `RetryIsScheduled`: `Spec => []QueuedHasTime`;
- `DeliveryIsOnRow`: `Spec => []DeliveryIsRecorded`.

A handler writes columns it decided on from a row that may have changed since, so
the invariant cannot relate what it will write to the row it read.  `Planned` says
what every plan keeps to whatever became of the row: its columns go together (a
claim is taken off only with its lease and with a new status, a retry comes with
its time, `running` is never written), and a status that promises a commit or a
review request is written together with it, or rests on one the row has, which no
handler takes away.  `Sound` is what then holds of a row; that it needs the check
constraint `ClaimState` as a guard of the commit is where the code relies on the
database.  The row after an update is written with the module's own `Updated`,
which says field by field what `@@` of `TLC` would compute and the provers cannot.

`Runner_proofs` proves, for any Issues, capacity, number of Attempts and of starts:

- `TypeCorrect`: `Safety => []TypeOK`;
- `AgentsAreInWholeWorkspaces`: `Safety => []AgentsHaveWholeWorkspace`;
- `WorkIsNotLost`: `Safety => WorkSurvives`.

`Safety` is `Spec` without its fairness.  `AgentsHaveWholeWorkspace` speaks of
phase `agent` only; the invariant follows the directory through all phases
(`Place`: nobody clones where there is a whole workspace; a partial clone that
nobody is making is in `broken`; a removal that was left behind meets nothing but
a partial directory, unless the Issue is over).  That a remover acts on old
knowledge is what `Cancelling`, `Reconciling`, `Archiving` and `Aims` are about:
whatever the tick, `_cancel_entry` and `archive_issue` remember of an Issue they
will remove, it was over when they learned it, and either still is or has been
brought back by an overlapping handler, which `revived` keeps (`OverStays`, a
lemma about every step).  `WorkSurvives` follows step by step from the same
invariant.  Neither exception is decoration: TLC finds both properties violated
without them.

`Delivery_proofs` proves, for any number of calls, claims, follow-ups, changes,
advances of the target and review requests, and for each kind of host:

- `TypeCorrect`: `Spec => []TypeOK`;
- `ApprovedIsPublished`: `Spec => []PublishedIsApproved`;
- `PublicationStaysPossible`: `Spec => []PublishStaysPossible`;
- `InstructionsAreHeard`: `Spec => []FollowUpsHeard`.

None of the three safety properties is inductive.  A call stages and commits what
it found before others went on, and what protects the result is the version.
`Counted` ties the version to the claims and the status; `Reads` says the same of
what a call has read, so that a call whose version is still the row's belongs to
the current review, and a call of an earlier one cannot get through `Recheck`.
`Approves` says what an approval may rely on between one git command and the next
(index, then `HEAD`, then its own `commit` are the files of the workspace),
`Publishes` the same of a publication and of the confirmation of a merge,
`Settled` what the approval puts an end to, `OnHost` that nothing else is on the
host.  All of them hold until `strayed` or `overtaken`.  `Attempting` and `Told`
say where instructions are.

`ProjectsBinding_proofs` goes on from `Projects_proofs`:

- `IssuesAreBoundToNewest`: `Spec => BoundToNewest`.

The request refreshes the Project, reads it and inserts the Issue in separate
transactions.  `Fresh` says of *every* call under way that what it may write is no
older than the commit `n` that was the newest when the request came: neither the
commit it has looked up, nor the snapshot it has loaded, which the ORM leaves out
of the `UPDATE` if it is the same.  `Course` says what the request may rely on at
its own step: in `record` the row it loaded was not available, or the Project's
row is fit for it now (`Serves`); in `bind` an available row is.  `Steady` is what
any step does to the row in between.

The assumption `NoneIsNothing` of `Runner`, `Delivery` and `Projects` says that
Python's `None` is none of the values it stands beside; bounds are natural numbers.
`IssueReview_proofs` extends `IssueService_proofs`, and `ProjectsBinding_proofs`
extends `Projects_proofs`; the others stand alone.  TLC has
checked the inductive invariants on instances like those of section 3 as well (that
of `Delivery` without the constraint): they are not only preserved, they hold of
every state reached there.

Every safety property and every action property of the passing runs is now stated
by a theorem.  Only model-checked: the properties under fairness
(`SilentClaimEnds`, `RetryComesDue`, `AgentsEnd`, `ReadyIsTaken`, `StopIsHeard`,
`StopEnds`, `ProjectRecovers`), which this prover does not treat; and the four
violations, which a counterexample settles.  `ENABLED`, induction over data and
recursive operators are out of its reach as well; no module here needs the last
two.

## 5. Findings

`issue_question`, `issue_rename`, `terminal_races` and `delivery_advanced` are runs
whose property a document of the repository states and the code breaks;
`PROJECT.json` quotes the lines.

Other things the models show, which a property names as an exception:

- `BoundToNewest`: a validation that read an older commit may write after the
  refresh of `create_issue`, and the Issue is bound to the older commit, although
  `app.py:293` wants the latest.  The property holds for requests that come while
  no validation is under way; without that clause TLC finds the overlap.
- `OneRunner`: a start that read the Project before its deletion, and whose
  process is being created when `forget_project` runs, leaves a Runner that no
  stop can find.  Hence `Exists` in the property.  After a crash the Runners of
  the former control plane live on as well.
- A validation that ends after the Project was disabled can leave the status
  "available" on a disabled Project (`project_service.py:222` goes by the row its
  session knows).  `NothingWhileDisabled` holds because everybody looks at
  `enabled` too; its mutant, which does not, fails.
- `FollowUpsHeard`: an instruction is lost when its Attempt fails between opening
  the Thread and starting the first Turn.
- `PublishedIsApproved` and `PublishStaysPossible` leave out `strayed` and
  `overtaken`.  The Issue is in review as soon as the Agent's tool has completed
  it, before Codex ends and `after_run` runs (`orchestrator.py:528`), and nothing
  keeps an approval from coming then.  And `deliver_issue` compares the version in
  a `SELECT` before the transaction that writes (`service.py:483`), so the Issue
  may be continued, claimed and handed back in between, and the approval is written
  over the result nobody saw.  TLC finds each
  property violated without `strayed`, and `PublishStaysPossible` without
  `overtaken`.
- When the target branch advances after the approval, `publish` refuses
  (`delivery.py:144`), the Issue cannot be continued from `awaiting_publish`, and
  only the archive is left.  Between that check and the push it may advance too,
  and nothing notices; so there is no property that what is published contains
  the newest target.
- `AgentsHaveWholeWorkspace`: `prepare` takes any directory that exists for a
  workspace, so an Attempt begins in what a failed removal, a removal nobody
  waited for, or a process that died left of a clone; and `archive_issue` trusts a
  list that is as old as the last report, so that a claim between report and
  removal begins in a workspace that is being deleted.
- `WorkSurvives`: with the overlap of `terminal_races`, the archive or the tick
  deletes the workspace of an Issue that is back in `retry_queued`.
- `AgentsEnd` promises something only for an Issue that stays over, for the same
  reason.
- An Issue whose Thread Codex can no longer resume is retried for ever
  (`codex.py:252`; what Codex stores is outside of the model).

## 6. Plan

Done: the Issue and its lifecycle, the database's isolation, the lease, the
Runner, delivery with follow-ups, projects with the Supervisor; theorems for all
their safety and action properties.  What is left:

1. Refinements: that the statuses of `Delivery` and of `Runner` move along the
   lifecycle of `IssueLifecycle` as those of `IssueService` do; that `Runner`
   without its polling coroutine implements one Runner of `RunnerLease` with the
   lengths forgotten.
2. The safety half of the liveness properties as lemmas: that a step which is due
   stays due until it is taken, for the steps that `StopEnds` and `AgentsEnd`
   rest on.

## 7. Not modelled

- Rendering and formatting: UI, change summaries, artifacts, event normalisation,
  prompts.  No decision depends on them.
- Token totals, rate limits and runtime snapshots: monitoring views.  Of the
  snapshot only the list of active Issues is used, and that is modelled.
- Parsing and validation of `WORKFLOW.md`, skills and addresses: checks of an
  input without state; their verdict is a choice or a set in the models.
- Authentication and configuration.
- The JSON-RPC transport and the process handling of Codex: I/O; what the system
  sees of it (a Thread, a Turn, a tool call, an end) is modelled.
- That `validate` reads the file before it resolves the commit and loads it again
  after: the snapshot's text can be older than its commit.  `Projects` keeps of a
  snapshot only its commit.
- Several Issues or projects in one Runner instance of TLC; migrations; scripts.
