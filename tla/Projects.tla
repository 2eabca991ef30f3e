------------------------------ MODULE Projects ------------------------------
(***************************************************************************)
(* A Project: its row, the workflow snapshots that validation takes of its *)
(* repository, the Issues and Claims that depend on them, and the Runner   *)
(* process that RunnerSupervisor starts and stops for it.                  *)
(*                                                                         *)
(* A call of the API is a sequence of steps between which others run: what *)
(* it read of the row may be old when it writes.  SQLite begins a          *)
(* transaction with the first write, the session writes the columns that   *)
(* differ from what it loaded, and a session that validates right after    *)
(* its own commit does not load the row again.  The lock is the            *)
(* Supervisor's.                                                           *)
(***************************************************************************)
EXTENDS Naturals, FiniteSets

CONSTANTS Calls,       \* tasks that can be under way at once: API calls, the refresher
          Broken,      \* commits whose workflow does not validate
          MaxCommits,  \* bound: commits on the default branch
          MaxStarts,   \* bound: Runner processes started
          MaxEvents,   \* bound: API calls, commits, edits and ends of the control plane
          None

ASSUME ProjectsConstants ==
    /\ MaxCommits \in Nat /\ MaxStarts \in Nat /\ MaxEvents \in Nat
    /\ Broken \subseteq 0..MaxCommits

VARIABLES head,      \* the newest commit of the default branch
          edited,    \* the workflow file has changes that are not committed
          project,   \* the Project's row
          issue,     \* an Issue of the Project
          calls,     \* what each call is doing, and what it remembers
          runtimes,  \* the ProjectRuntime objects, in the order of their creation
          starts,    \* how many of them there are
          registered,\* the one that _runtimes has for the Project, or 0
          lock,      \* the call that holds the Supervisor's lock
          server,    \* the control plane's process
          events     \* how many of the bounded events there have been

repository == <<head, edited>>
supervisor == <<runtimes, starts, registered, lock>>
process == <<server, events>>
vars == <<repository, project, issue, calls, supervisor, process>>

Commit == 0..MaxCommits
Runtime == 1..MaxStarts
Kind == {"create", "validate", "refresh", "enable", "disable", "move", "delete",
         "issue", "claim", "start", "stop", "boot", "shutdown"}
Row == [status : {"absent", "invalid", "available", "disabled", "deleted"},
        enabled : BOOLEAN, snapshot : Commit \cup {None}]
Phase == {"check", "look", "judge", "record", "bind", "insert", "take", "lock", "spawn",
          "stop", "stopping", "patch", "patched", "delete", "erase", "forget", "down"}
Issue == [commit : Commit, claimed : BOOLEAN]
Call == [kind : Kind \cup {None}, phase : Phase \cup {None}, row : Row, commit : Commit,
         good : BOOLEAN, runtime : 0..MaxStarts, quiet : BOOLEAN, floor : Commit,
         alone : BOOLEAN]
ProjectRuntime == [process : {None, "live", "dead"}, ours : BOOLEAN,
                   state : {"stopped", "starting", "running", "stopping"}]
NoRow == [status |-> "absent", enabled |-> FALSE, snapshot |-> None]
NoCall == [kind |-> None, phase |-> None, row |-> NoRow, commit |-> 0, good |-> FALSE,
           runtime |-> 0, quiet |-> FALSE, floor |-> 0, alone |-> FALSE]

ASSUME NoneIsNothing == None \notin Kind \cup Phase \cup Calls \cup Issue \cup Commit
                            \cup {"live", "dead"}

TypeOK ==
    /\ head \in Commit
    /\ edited \in BOOLEAN
    /\ project \in Row
    /\ issue \in Issue \cup {None}
    /\ calls \in [Calls -> Call]
    /\ runtimes \in [Runtime -> ProjectRuntime]
    /\ starts \in 0..MaxStarts
    /\ registered \in 0..starts
    /\ lock \in Calls \cup {None}
    /\ server \in {"up", "booting", "closing", "down"}
    /\ events \in 0..MaxEvents

\* There is no Project yet, or one that is available, perhaps with an Issue.
Init ==
    /\ head = 0
    /\ edited \in BOOLEAN
    /\ project \in {NoRow, [status |-> "available", enabled |-> TRUE, snapshot |-> 0]}
    /\ issue \in {None} \cup (IF project = NoRow THEN {}
                              ELSE {[commit |-> 0, claimed |-> FALSE]})
    /\ calls = [c \in Calls |-> NoCall]
    /\ runtimes = [i \in Runtime |-> [process |-> None, ours |-> FALSE,
                                      state |-> "stopped"]]
    /\ starts = 0
    /\ registered = 0
    /\ lock = None
    /\ server = "up"
    /\ events = 0

-----------------------------------------------------------------------------
(* Calls *)

Exists == project.status \notin {"absent", "deleted"}

\* Mutation of Open: the status says it all.
OpenByStatus(row) == row.status = "available"

\* The row lets Issues, Claims and Runners through.
Open(row) == row.enabled /\ row.status = "available"

\* Calls that have read a Project or a commit for a validation they have not written.
Validating == {c \in Calls : calls[c].phase \in {"patched", "look", "judge", "record"}}

Happens == events < MaxEvents /\ events' = events + 1

Accepts(c) ==
    /\ Happens
    /\ server = "up"
    /\ calls[c] = NoCall

\* A call comes in.  It remembers whether the Project was disabled then, which commit
\* was the newest, and whether no validation was under way.
Comes(c, k, p) ==
    /\ Accepts(c)
    /\ calls' = [calls EXCEPT ![c] =
         [NoCall EXCEPT !.kind = k, !.phase = p,
                        !.quiet = k \in {"issue", "claim", "start", "move"}
                                    /\ Exists /\ ~project.enabled,
                        !.floor = IF k = "issue" THEN head ELSE 0,
                        !.alone = k = "issue" /\ Validating = {}]]

At(c, p) == calls[c].phase = p
Goes(c, p) == calls' = [calls EXCEPT ![c].phase = p]
Ends(c) == calls' = [calls EXCEPT ![c] = NoCall]
GoesOrEnds(c, p) == IF p = None THEN Ends(c) ELSE Goes(c, p)

-----------------------------------------------------------------------------
(* ProjectService *)

\* The session writes the columns that differ from the ones it loaded.
Column(now, loaded, new) == IF new # loaded THEN new ELSE now
Saved(c, new) ==
    LET row == calls[c].row IN
      [status |-> Column(project.status, row.status, new.status),
       enabled |-> Column(project.enabled, row.enabled, new.enabled),
       snapshot |-> Column(project.snapshot, row.snapshot, new.snapshot)]

NewRow == [status |-> "invalid", enabled |-> TRUE, snapshot |-> None]

\* create: the row, and then a validation by the same session.
Create(c) ==
    /\ project.status = "absent"
    /\ Accepts(c)
    /\ project' = NewRow
    /\ calls' = [calls EXCEPT ![c] = [NoCall EXCEPT !.kind = "create", !.phase = "look",
                                                    !.row = NewRow]]
    /\ UNCHANGED <<repository, issue, supervisor, server>>

Validate(c) ==
    /\ Exists
    /\ Comes(c, "validate", "look")
    /\ UNCHANGED <<repository, project, issue, supervisor, server>>

\* The refresher visits the Project if it is enabled.
Refresh ==
    /\ Exists /\ project.enabled
    /\ server # "down"
    /\ \A c \in Calls : calls[c].kind # "refresh"
    /\ \E c \in Calls :
         /\ calls[c] = NoCall
         /\ calls' = [calls EXCEPT ![c] = [NoCall EXCEPT !.kind = "refresh",
                                                         !.phase = "check"]]
    /\ UNCHANGED <<repository, project, issue, supervisor, process>>

AfterRefresh(c) == IF calls[c].kind = "issue" THEN "bind" ELSE None

\* Mutation of RefreshIfChanged: an available Project is left as it is.
RefreshIfUnavailable(c) ==
    /\ At(c, "check")
    /\ IF ~Exists THEN Ends(c)
       ELSE IF Open(project) /\ project.snapshot # None THEN GoesOrEnds(c, AfterRefresh(c))
       ELSE Goes(c, "look")
    /\ UNCHANGED <<repository, project, issue, supervisor, process>>

\* Mutation of RefreshIfChanged: a commit is validated once.
RefreshIfMoved(c) ==
    /\ At(c, "check")
    /\ IF ~Exists THEN Ends(c)
       ELSE IF project.snapshot = head THEN GoesOrEnds(c, AfterRefresh(c))
       ELSE Goes(c, "look")
    /\ UNCHANGED <<repository, project, issue, supervisor, process>>

\* refresh_if_changed: nothing to do while the Project is available at this commit.
RefreshIfChanged(c) ==
    /\ At(c, "check")
    /\ IF ~Exists THEN Ends(c)
       ELSE IF Open(project) /\ project.snapshot = head THEN GoesOrEnds(c, AfterRefresh(c))
       ELSE Goes(c, "look")
    /\ UNCHANGED <<repository, project, issue, supervisor, process>>

\* A session that has just committed still has the row it knows.
KeepsRow(c) == calls[c].kind \in {"create", "enable", "move"}

\* validate resolves the commit of the default branch.
Look(c) ==
    /\ At(c, "look")
    /\ IF Exists \/ KeepsRow(c)
       THEN calls' = [calls EXCEPT ![c].phase = "judge", ![c].commit = head]
       ELSE Ends(c)
    /\ UNCHANGED <<repository, project, issue, supervisor, process>>

\* Nothing is left uncommitted, and the workflow, the skills and the assets of the
\* working tree are in order.
Passes == ~edited /\ head \notin Broken

\* validate loads the workflow from the working tree, and then the row again.
Judge(c) ==
    /\ At(c, "judge")
    /\ IF Exists \/ KeepsRow(c)
       THEN calls' = [calls EXCEPT
              ![c].phase = "record", ![c].good = Passes,
              ![c].row = IF KeepsRow(c) THEN @ ELSE project]
       ELSE Ends(c)
    /\ UNCHANGED <<repository, project, issue, supervisor, process>>

\* What the routes do when the validation has written this row.
AfterValidation(c, row) ==
    CASE calls[c].kind = "issue" -> "bind"
      [] calls[c].kind = "move" /\ row.status = "available" -> "lock"
      [] calls[c].kind \in {"create", "start"} /\ Open(row) -> "lock"
      [] OTHER -> None

\* The outcome.  A failure leaves the last valid snapshot.
Outcome(call) ==
    [status |-> IF ~call.row.enabled THEN "disabled"
                ELSE IF call.good THEN "available" ELSE "invalid",
     enabled |-> call.row.enabled,
     snapshot |-> IF call.good THEN call.commit ELSE call.row.snapshot]

Record(c) ==
    /\ At(c, "record")
    /\ LET new == Outcome(calls[c]) IN
         IF Exists
         THEN /\ project' = Saved(c, new)
              /\ IF AfterValidation(c, new) = None THEN Ends(c)
                 ELSE calls' = [calls EXCEPT ![c].phase = AfterValidation(c, new),
                          ![c].row = NoRow, ![c].commit = 0, ![c].good = FALSE]
         ELSE Ends(c) /\ UNCHANGED project
    /\ UNCHANGED <<repository, issue, supervisor, process>>

\* The patch_project route: disabling or moving a Project first stops its Runner.
Patch(c, k) ==
    /\ k \in {"enable", "disable", "move"}
    /\ Exists
    /\ Comes(c, k, IF k = "enable" THEN "patch" ELSE "stop")
    /\ UNCHANGED <<repository, project, issue, supervisor, server>>

PatchRead(c) ==
    /\ At(c, "patch")
    /\ IF Exists THEN calls' = [calls EXCEPT ![c].phase = "patched", ![c].row = project]
       ELSE Ends(c)
    /\ UNCHANGED <<repository, project, issue, supervisor, process>>

\* Mutation of Patched: the status of an enabled Project is said to be that.
PatchedEnabled(call) ==
    LET enabled == call.kind = "enable" \/ (call.row.enabled /\ call.kind = "move")
    IN [call.row EXCEPT !.enabled = enabled,
                        !.status = IF enabled THEN "enabled" ELSE "disabled"]

\* What the commands make of the row: enabled, disabled, or in another place.
Patched(call) ==
    LET enabled == call.kind = "enable" \/ (call.row.enabled /\ call.kind = "move")
    IN [call.row EXCEPT !.enabled = enabled,
                        !.status = IF enabled THEN @ ELSE "disabled"]

\* The patch is written; an enabled Project is validated by the same session.
PatchWrite(c) ==
    /\ At(c, "patched")
    /\ LET new == Patched(calls[c])
           known == [d \in Calls |-> [calls[d] EXCEPT
                       !.quiet = @ /\ calls[c].kind # "enable"]]
       IN IF Exists
          THEN /\ project' = Saved(c, new)
               /\ calls' = [known EXCEPT ![c] =
                    IF new.enabled THEN [@ EXCEPT !.phase = "look", !.row = new]
                    ELSE NoCall]
          ELSE Ends(c) /\ UNCHANGED project
    /\ UNCHANGED <<repository, issue, supervisor, process>>

\* assert_deletable, before the Runner is stopped.
Delete(c) ==
    /\ Exists /\ issue = None
    /\ Comes(c, "delete", "stop")
    /\ UNCHANGED <<repository, project, issue, supervisor, server>>

\* _assert_no_issues once more, in the transaction that deletes.
DeleteRead(c) ==
    /\ At(c, "delete")
    /\ GoesOrEnds(c, IF Exists /\ issue = None THEN "erase" ELSE None)
    /\ UNCHANGED <<repository, project, issue, supervisor, process>>

\* Mutation of DeleteRow: foreign keys are not enforced on this connection.
DeleteRowUnchecked(c) ==
    /\ At(c, "erase")
    /\ project' = [NoRow EXCEPT !.status = "deleted"]
    /\ Goes(c, "forget")
    /\ UNCHANGED <<repository, issue, supervisor, process>>

\* The row goes with its snapshots and Workers, unless an Issue refers to it by now.
DeleteRow(c) ==
    /\ At(c, "erase")
    /\ IF Exists /\ issue = None
       THEN project' = [NoRow EXCEPT !.status = "deleted"] /\ Goes(c, "forget")
       ELSE Ends(c) /\ UNCHANGED project
    /\ UNCHANGED <<repository, issue, supervisor, process>>

-----------------------------------------------------------------------------
(* Issues of the Project *)

\* The create_issue route, which refreshes the Project first.
CreateIssue(c) ==
    /\ Exists /\ issue = None
    /\ Comes(c, "issue", "check")
    /\ UNCHANGED <<repository, project, issue, supervisor, server>>

\* create_issue reads the Project and its snapshot, and inserts the Issue.
Bind(c) ==
    /\ At(c, "bind")
    /\ IF Exists /\ Open(project) /\ project.snapshot # None
       THEN calls' = [calls EXCEPT ![c].phase = "insert", ![c].commit = project.snapshot]
       ELSE Ends(c)
    /\ UNCHANGED <<repository, project, issue, supervisor, process>>

Insert(c) ==
    /\ At(c, "insert")
    /\ Ends(c)
    /\ IF Exists /\ issue = None
       THEN issue' = [commit |-> calls[c].commit, claimed |-> FALSE]
       ELSE UNCHANGED issue
    /\ UNCHANGED <<repository, project, supervisor, process>>

\* claim reads the Project, and then takes the Issue if it is still ready.
Claim(c) ==
    /\ issue # None /\ ~issue.claimed
    /\ Open(project)
    /\ Comes(c, "claim", "take")
    /\ UNCHANGED <<repository, project, issue, supervisor, server>>

Take(c) ==
    /\ At(c, "take")
    /\ Ends(c)
    /\ issue' = [issue EXCEPT !.claimed = TRUE]
    /\ UNCHANGED <<repository, project, supervisor, process>>

-----------------------------------------------------------------------------
(* RunnerSupervisor *)

Alive(i) == i # 0 /\ runtimes[i].process = "live"

\* The runtime/start route: a Project that is not available is validated once more.
Start(c) ==
    /\ Exists
    /\ Comes(c, "start", IF Open(project) THEN "lock" ELSE "look")
    /\ UNCHANGED <<repository, project, issue, supervisor, server>>

\* When start_project has come to an end, or has failed.
Started(c) ==
    /\ Ends(c)
    /\ server' = IF calls[c].kind = "boot" THEN "up" ELSE server

\* Mutation of StartProject: it does not wait for the lock.
StartUnlocked(c) ==
    /\ At(c, "lock")
    /\ IF Alive(registered) THEN Started(c) /\ UNCHANGED supervisor
       ELSE /\ starts < MaxStarts
            /\ starts' = starts + 1
            /\ registered' = starts + 1
            /\ runtimes' = [runtimes EXCEPT ![starts + 1].state = "starting",
                                            ![starts + 1].ours = TRUE]
            /\ calls' = [calls EXCEPT ![c].phase = "spawn", ![c].runtime = starts + 1]
            /\ lock' = c
            /\ UNCHANGED server
    /\ UNCHANGED <<repository, project, issue, events>>

\* start_project refuses a second process, or puts a new runtime in the registry.
StartProject(c) ==
    /\ At(c, "lock")
    /\ lock = None
    /\ IF Alive(registered) THEN Started(c) /\ UNCHANGED supervisor
       ELSE /\ starts < MaxStarts
            /\ starts' = starts + 1
            /\ registered' = starts + 1
            /\ runtimes' = [runtimes EXCEPT ![starts + 1].state = "starting",
                                            ![starts + 1].ours = TRUE]
            /\ calls' = [calls EXCEPT ![c].phase = "spawn", ![c].runtime = starts + 1]
            /\ lock' = c
            /\ UNCHANGED server
    /\ UNCHANGED <<repository, project, issue, events>>

\* The process is created, or cannot be.
Spawn(c) ==
    /\ At(c, "spawn")
    /\ Started(c)
    /\ lock' = None
    /\ \/ runtimes' = [runtimes EXCEPT ![calls[c].runtime].process = "live",
                                       ![calls[c].runtime].state = "running"]
       \/ runtimes' = [runtimes EXCEPT ![calls[c].runtime].state = "stopped"]
    /\ UNCHANGED <<repository, project, issue, starts, registered, events>>

\* The runtime/stop route.
Stop(c) ==
    /\ Comes(c, "stop", "stop")
    /\ UNCHANGED <<repository, project, issue, supervisor, server>>

AfterStop(c) ==
    CASE calls[c].kind \in {"disable", "move"} -> "patch"
      [] calls[c].kind = "delete" -> "delete"
      [] calls[c].kind = "shutdown" -> "down"
      [] OTHER -> None

\* stop_project under the lock: it is done, or has a process to wait for.
StopProject(c) ==
    /\ At(c, "stop")
    /\ lock = None
    /\ IF Alive(registered)
       THEN /\ runtimes' = [runtimes EXCEPT ![registered].state = "stopping"]
            /\ calls' = [calls EXCEPT ![c].phase = "stopping", ![c].runtime = registered]
       ELSE /\ runtimes' = [i \in Runtime |-> IF i = registered
                              THEN [runtimes[i] EXCEPT !.state = "stopped"]
                              ELSE runtimes[i]]
            /\ GoesOrEnds(c, AfterStop(c))
    /\ UNCHANGED <<repository, project, issue, starts, registered, lock, process>>

\* Mutation of Terminate: it is left to the Runner to hear the request.
TerminateForgotten(c) ==
    /\ At(c, "stopping")
    /\ runtimes[calls[c].runtime].process = "dead"
    /\ UNCHANGED vars

\* The grace period is over: terminate, and kill.
Terminate(c) ==
    /\ At(c, "stopping")
    /\ runtimes[calls[c].runtime].process = "live"
    /\ runtimes' = [runtimes EXCEPT ![calls[c].runtime].process = "dead"]
    /\ UNCHANGED <<repository, project, issue, calls, starts, registered, lock, process>>

Stopped(c) ==
    /\ At(c, "stopping")
    /\ runtimes[calls[c].runtime].process = "dead"
    /\ runtimes[calls[c].runtime].state = "stopped"
    /\ IF AfterStop(c) = None THEN Ends(c)
       ELSE calls' = [calls EXCEPT ![c].phase = AfterStop(c), ![c].runtime = 0]
    /\ UNCHANGED <<repository, project, issue, supervisor, process>>

\* _wait_for_exit
WaitForExit(i) ==
    /\ runtimes[i].ours
    /\ runtimes[i].process = "dead" /\ runtimes[i].state # "stopped"
    /\ runtimes' = [runtimes EXCEPT ![i].state = "stopped"]
    /\ UNCHANGED <<repository, project, issue, calls, starts, registered, lock, process>>

\* forget_project, which does not take the lock.
Forget(c) ==
    /\ At(c, "forget")
    /\ Ends(c)
    /\ registered' = IF Alive(registered) THEN registered ELSE 0
    /\ UNCHANGED <<repository, project, issue, runtimes, starts, lock, process>>

-----------------------------------------------------------------------------
(* The control plane's process *)

Idle == \A c \in Calls : calls[c].kind \in {None, "refresh"}

\* The lifespan ends when the requests are answered: it stops the Runners.
Shutdown(c) ==
    /\ Idle
    /\ calls[c] = NoCall
    /\ server = "up"
    /\ Happens
    /\ calls' = [calls EXCEPT ![c] = [NoCall EXCEPT !.kind = "shutdown", !.phase = "stop"]]
    /\ server' = "closing"
    /\ UNCHANGED <<repository, project, issue, supervisor>>

\* Whatever was in memory is gone; the Runners that live are nobody's.
Gone ==
    /\ server' = "down"
    /\ calls' = [c \in Calls |-> NoCall]
    /\ registered' = 0
    /\ lock' = None

ShutDown(c) ==
    /\ At(c, "down")
    /\ Gone
    /\ UNCHANGED <<repository, project, issue, runtimes, starts, events>>

Crash ==
    /\ server # "down"
    /\ Happens
    /\ Gone
    /\ runtimes' = [i \in Runtime |-> [runtimes[i] EXCEPT !.ours = FALSE,
                                                          !.state = "stopped"]]
    /\ UNCHANGED <<repository, project, issue, starts>>

\* lifespan starts the Runner of a Project that is enabled and available.
Boot(c) ==
    /\ server = "down"
    /\ calls[c] = NoCall
    /\ IF Exists /\ Open(project)
       THEN /\ server' = "booting"
            /\ calls' = [calls EXCEPT ![c] = [NoCall EXCEPT !.kind = "boot",
                                                            !.phase = "lock"]]
       ELSE server' = "up" /\ UNCHANGED calls
    /\ UNCHANGED <<repository, project, issue, supervisor, events>>

-----------------------------------------------------------------------------
(* Outside *)

\* A Runner ends by itself: it failed, or its heartbeat brought the stop request.
RunnerEnds(i) ==
    /\ runtimes[i].process = "live"
    /\ runtimes' = [runtimes EXCEPT ![i].process = "dead"]
    /\ UNCHANGED <<repository, project, issue, calls, starts, registered, lock, process>>

\* People commit to the default branch, edit the workflow file, or put it back.
CommitHead ==
    /\ Happens
    /\ head < MaxCommits
    /\ head' = head + 1
    /\ edited' = FALSE
    /\ UNCHANGED <<project, issue, calls, supervisor, server>>

Edit ==
    /\ Happens
    /\ edited' = ~edited
    /\ UNCHANGED <<head, project, issue, calls, supervisor, server>>

-----------------------------------------------------------------------------
\* The steps of a validation.
Validates(c) == RefreshIfChanged(c) \/ Look(c) \/ Judge(c) \/ Record(c)

Requests(c) ==
    \/ Create(c) \/ Validate(c) \/ Delete(c) \/ CreateIssue(c) \/ Claim(c)
    \/ Start(c) \/ Stop(c) \/ Shutdown(c) \/ Boot(c)
    \/ \E k \in Kind : Patch(c, k)

Supervises(c) ==
    StartProject(c) \/ Spawn(c) \/ StopProject(c) \/ Terminate(c) \/ Stopped(c) \/ Forget(c)

Writes(c) ==
    PatchRead(c) \/ PatchWrite(c) \/ DeleteRead(c) \/ DeleteRow(c) \/ Bind(c) \/ Insert(c)
      \/ Take(c) \/ ShutDown(c)

Outside == CommitHead \/ Edit \/ \E i \in Runtime : RunnerEnds(i)

Next ==
    \/ Refresh \/ Crash \/ Outside
    \/ \E c \in Calls : Requests(c) \/ Validates(c) \/ Supervises(c) \/ Writes(c)
    \/ \E i \in Runtime : WaitForExit(i)

Safety == Init /\ [][Next]_vars

\* Calls go on: git commands have a time-out, grace periods run out, and processes that
\* are killed are seen to end.  The refresher goes round.
Spec ==
    /\ Safety
    /\ WF_vars(Refresh)
    /\ \A c \in Calls : WF_vars(Validates(c) \/ Supervises(c) \/ Writes(c))
    /\ \A i \in Runtime : WF_vars(WaitForExit(i))

-----------------------------------------------------------------------------
(* Properties *)

\* As long as the Project exists, at most one process that this control plane started
\* for it is alive, and it is the one a stop would find.  Nothing of it is left when
\* the control plane has shut down.
OneRunner ==
    Exists => \A i \in Runtime :
      runtimes[i].ours /\ Alive(i) => i = registered /\ server # "down"

\* An Issue never loses its Project: not to a deletion that looked for Issues before it
\* was created.
IssueKeepsProject == issue # None => Exists

\* An Issue is bound to a commit that was the newest when it was asked for, or a later
\* one, provided that no validation was under way at that moment.
BoundToNewest ==
    [][\A c \in Calls : issue = None /\ Insert(c) /\ issue' # None /\ calls[c].alone
                         => issue'.commit >= calls[c].floor]_vars

\* A call that comes in while the Project is disabled gets no Issue, no Claim and no
\* Runner unless the Project is enabled meanwhile, whatever status a late validation
\* has written.
Grants(c) ==
    /\ calls'[c] # calls[c]
    /\ \/ issue' # issue
       \/ \E i \in Runtime : runtimes[i].process = None /\ runtimes'[i].process = "live"
NothingWhileDisabled == [][\A c \in Calls : calls[c].quiet => ~Grants(c)]_vars

\* A Runner that is being stopped ends, and is recorded as stopped, whether it hears of
\* it or not.
StopEnds ==
    \A i \in Runtime :
      runtimes[i].state = "stopping" ~> runtimes[i].state = "stopped"

\* Once its workflow validates and nothing changes any more, an enabled Project becomes
\* available at its newest commit: a failed validation, or one that came late, is made
\* good.
Sound(n) ==
    /\ server = "up" /\ Exists /\ project.enabled
    /\ head = n /\ Passes
ProjectRecovers ==
    \A n \in Commit :
      Sound(n) ~> (Open(project) /\ project.snapshot = n) \/ ~Sound(n)

=============================================================================
