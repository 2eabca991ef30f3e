------------------------- MODULE IssueServiceRaces -------------------------
(***************************************************************************)
(* The handlers of IssueService with the isolation the database gives them.*)
(* In a session of aiosqlite a SELECT runs before the transaction: BEGIN   *)
(* comes with the first INSERT, UPDATE or DELETE.  So a handler reads the  *)
(* Issue, later reads the running Attempt, and later still commits; other  *)
(* handlers commit in between.  The ORM's UPDATE names the row by its id   *)
(* and sets the columns that differ from what was read, with values        *)
(* computed from what was read, the version among them.  Only the claim    *)
(* tests status and version in the UPDATE itself.                          *)
(*                                                                         *)
(* A handler under way is a function from the Issues it will write to what *)
(* it will write.  Of delivery and archiving only the transactions that    *)
(* write are here, and a caller's version is always up to date:            *)
(* IssueService has the longer delays.                                     *)
(***************************************************************************)
EXTENDS IssueRows, Functions

CONSTANTS Issues,
          Handlers,       \* requests and sweeps that can overlap
          MaxAttempts,    \* bound: claims granted per Issue
          MaxVersion,     \* bound: no edit from this version on
          Requested

ASSUME RacesAssumption == /\ MaxAttempts \in Nat /\ MaxVersion \in Nat
                          /\ Requested \subseteq Transitions

VARIABLES rows, issued, attempts,
          asked,      \* questions asked so far
          questions,  \* those that are open, by their number
          handlers    \* what each handler is about to write

vars == <<rows, issued, attempts, asked, questions, handlers>>

Attempt == 1..MaxAttempts
Idle == << >>

\* The statuses that _finish_attempt gives a running Attempt.
Finishes == {"retry_queued", "reviewing", "needs_human", "blocked", "cancelled"}

Init ==
    /\ rows = [i \in Issues |-> AbsentRow]
    /\ issued = [i \in Issues |-> 0]
    /\ attempts = [i \in Issues |-> [k \in Attempt |-> "none"]]
    /\ asked = [i \in Issues |-> 0]
    /\ questions = [i \in Issues |-> {}]
    /\ handlers = [h \in Handlers |-> Idle]

-----------------------------------------------------------------------------
(* Reading *)

\* Mutation of Changed: every column is written back.
ChangedAll(old, new) == new

\* The columns the UPDATE sets.
Changed(old, new) == Restrict(new, {f \in DOMAIN new : new[f] # old[f]})

\* The row that the UPDATE leaves.
Updated(r, set) ==
    [f \in DOMAIN r |-> IF f \in DOMAIN set THEN set[f] ELSE r[f]]

\* What a handler that read the row of i will write: columns, the status its
\* running Attempt gets ("none": it finishes none), questions asked and answered.
Plan(i, new, finish) ==
    [set |-> Changed(rows[i], new), finish |-> finish, attempt |-> 0,
     asks |-> FALSE, answers |-> {}]

\* Handler h has read the row of i and its guards have passed.
Begin(h, i, plan) ==
    /\ handlers[h] = Idle
    /\ handlers' = [handlers EXCEPT ![h] = [j \in {i} |-> plan]]
    /\ UNCHANGED <<rows, issued, attempts, asked, questions>>

Heartbeat(h, i) ==
    /\ HoldsClaim(rows[i], rows[i].token)
    /\ Begin(h, i, Plan(i, Renewed(rows[i]), "none"))

\* Mutation of ReleaseClaim: retry_at is not set.
ReleaseClaimWithoutDelay(h, i) ==
    /\ HoldsClaim(rows[i], rows[i].token)
    /\ Begin(h, i, Plan(i, Moved(Unclaimed(rows[i]), "retry_queued"), "retry_queued"))

ReleaseClaim(h, i) ==
    /\ HoldsClaim(rows[i], rows[i].token)
    /\ \E delay \in ReleaseDelays :
         Begin(h, i, Plan(i, Released(rows[i], delay), "retry_queued"))

Transition(h, i) ==
    \E arc \in Requested :
      /\ rows[i].status = arc[1]
      /\ arc[1] = "running" /\ arc[2] # "cancelled" => HoldsClaim(rows[i], rows[i].token)
      /\ Begin(h, i, Plan(i, Transitioned(rows[i], arc[2]),
                          IF arc[1] = "running" THEN arc[2] ELSE "none"))

RequestHuman(h, i) ==
    /\ HoldsClaim(rows[i], rows[i].token)
    /\ Begin(h, i, [Plan(i, Asked(rows[i]), "needs_human") EXCEPT !.asks = TRUE])

\* Mutation of ResolveHuman: the answer is stored and the Issue is not moved.
ResolveHumanInPlace(h, i) ==
    /\ rows[i].status = "needs_human"
    /\ \E q \in questions[i] :
         Begin(h, i, [Plan(i, rows[i], "none") EXCEPT !.answers = {q}])

ResolveHuman(h, i) ==
    /\ rows[i].status = "needs_human"
    /\ \E q \in questions[i] :
         Begin(h, i, [Plan(i, Answered(rows[i]), "none") EXCEPT !.answers = {q}])

ContinueIssue(h, i) ==
    /\ rows[i].status = "reviewing"
    /\ Begin(h, i, Plan(i, Continued(rows[i]), "none"))

\* Of what an edit writes only the version is kept.
PatchIssue(h, i) ==
    /\ rows[i].version < MaxVersion
    /\ rows[i].status \in Editable
    /\ Begin(h, i, Plan(i, Rerouted(rows[i]), "none"))

\* Mutation of DeliverIssue: the status is not compared again.
DeliverIssueUnchecked(h, i) ==
    \E effect \in {Approved(rows[i], issued[i]), Published(rows[i]), Merged(rows[i])} :
      Begin(h, i, Plan(i, effect, "none"))

\* The last transaction of deliver_issue, one disjunct per action.
DeliverIssue(h, i) ==
    \/ /\ rows[i].status = "reviewing"
       /\ Begin(h, i, Plan(i, Approved(rows[i], issued[i]), "none"))
    \/ /\ rows[i].status = "awaiting_publish"
       /\ Begin(h, i, Plan(i, Published(rows[i]), "none"))
    \/ /\ rows[i].status = "pr_open"
       /\ Begin(h, i, Plan(i, Merged(rows[i]), "none"))

ArchiveCancel(h, i) ==
    /\ rows[i].status \notin Terminal \cup {Absent}
    /\ Begin(h, i, Plan(i, ForceCancelled(rows[i]),
                        IF rows[i].status = "running" THEN "cancelled" ELSE "none"))

ArchiveCommit(h, i) ==
    /\ rows[i].status \in Terminal
    /\ ~rows[i].archived
    /\ Begin(h, i, Plan(i, Archived(rows[i]), "none"))

\* maintenance_tick, run by the control plane's sweeper and by every Runner.
Sweep(h) ==
    LET due == {i \in Issues : LeaseLapsed(rows[i]) \/ RetryDue(rows[i])}
    IN  /\ handlers[h] = Idle
        /\ due # {}
        /\ handlers' = [handlers EXCEPT ![h] =
             [i \in due |-> Plan(i, Swept(rows[i]),
                IF LeaseLapsed(rows[i]) THEN "retry_queued" ELSE "none")]]
        /\ UNCHANGED <<rows, issued, attempts, asked, questions>>

Unfound(h) ==
    {i \in DOMAIN handlers[h] : /\ handlers[h][i].finish # "none"
                                /\ handlers[h][i].attempt = 0}

\* _active_attempt, a SELECT of its own: the newest running Attempt.
FindAttempt(h) ==
    \E i \in Unfound(h), k \in Attempt :
      /\ attempts[i][k] = "running"
      /\ \A j \in Attempt : attempts[i][j] = "running" => j <= k
      /\ handlers' = [handlers EXCEPT ![h][i].attempt = k]
      /\ UNCHANGED <<rows, issued, attempts, asked, questions>>

-----------------------------------------------------------------------------
(* Writing *)

\* ck_issues_claim_state
ClaimState(r) ==
    \/ r.status = "running" /\ r.token # 0 /\ r.lease # None
    \/ r.status # "running" /\ r.token = 0 /\ r.lease = None

\* What handler h leaves of a table: f(i) where it writes, old elsewhere.
Overlaid(h, old, f(_)) ==
    [i \in Issues |-> IF i \in DOMAIN handlers[h] THEN f(i) ELSE old[i]]

Commit(h) ==
    LET plan == handlers[h]
        next == Overlaid(h, rows, LAMBDA i : Updated(rows[i], plan[i].set))
    IN  /\ plan # Idle
        /\ Unfound(h) = {}
        /\ \A i \in DOMAIN plan : ClaimState(next[i])
        /\ rows' = next
        /\ attempts' = Overlaid(h, attempts, LAMBDA i :
             IF plan[i].attempt = 0 THEN attempts[i]
             ELSE [attempts[i] EXCEPT ![plan[i].attempt] = plan[i].finish])
        /\ asked' = Overlaid(h, asked, LAMBDA i :
             IF plan[i].asks THEN asked[i] + 1 ELSE asked[i])
        /\ questions' = Overlaid(h, questions, LAMBDA i :
             (questions[i] \ plan[i].answers)
               \cup (IF plan[i].asks THEN {asked[i] + 1} ELSE {}))
        /\ handlers' = [handlers EXCEPT ![h] = Idle]
        /\ UNCHANGED issued

\* No active Attempt, a failed check, a locked database, a client that left.
Abort(h) ==
    /\ handlers[h] # Idle
    /\ handlers' = [handlers EXCEPT ![h] = Idle]
    /\ UNCHANGED <<rows, issued, attempts, asked, questions>>

\* The first statement of these two decides under the write lock.
CreateIssue(i) ==
    /\ rows[i].status = Absent
    /\ rows' = [rows EXCEPT ![i] = NewRow]
    /\ UNCHANGED <<issued, attempts, asked, questions, handlers>>

ClaimIssue(i) ==
    LET k == issued[i] + 1
    IN  /\ Claimable(rows[i], rows[i].version)
        /\ k \in Attempt
        /\ issued' = [issued EXCEPT ![i] = k]
        /\ attempts' = [attempts EXCEPT ![i][k] = "running"]
        /\ rows' = [rows EXCEPT ![i] = Claimed(rows[i], k)]
        /\ UNCHANGED <<asked, questions, handlers>>

-----------------------------------------------------------------------------
\* Times that were computed before they are written age like those in the rows.
AgedColumns(set) ==
    [f \in DOMAIN set |-> IF f \in {"lease", "retry"} THEN Aged(set[f]) ELSE set[f]]

AgedHandlers ==
    [h \in Handlers |-> [i \in DOMAIN handlers[h] |->
       [handlers[h][i] EXCEPT !.set = AgedColumns(@)]]]

Tick ==
    /\ \E i \in Issues : AgedRow(rows[i]) # rows[i]
    /\ rows' = [i \in Issues |-> AgedRow(rows[i])]
    /\ handlers' = AgedHandlers
    /\ UNCHANGED <<issued, attempts, asked, questions>>

Reads(h, i) ==
    \/ Heartbeat(h, i) \/ ReleaseClaim(h, i) \/ Transition(h, i)
    \/ RequestHuman(h, i) \/ ResolveHuman(h, i) \/ ContinueIssue(h, i)
    \/ PatchIssue(h, i) \/ DeliverIssue(h, i)
    \/ ArchiveCancel(h, i) \/ ArchiveCommit(h, i)

Next ==
    \/ \E h \in Handlers, i \in Issues : Reads(h, i)
    \/ \E h \in Handlers : Sweep(h) \/ FindAttempt(h) \/ Commit(h) \/ Abort(h)
    \/ \E i \in Issues : CreateIssue(i) \/ ClaimIssue(i)
    \/ Tick

Spec == Init /\ [][Next]_vars

-----------------------------------------------------------------------------
(* Properties: what holds in spite of the overlaps, and what does not *)

\* Every variable has its type; a plan never holds a column the table lacks, nor a
\* lease or a retry further away than one lease or the longest delay.
TypeOK ==
    /\ rows \in [Issues -> Row]
    /\ issued \in [Issues -> 0..MaxAttempts]
    /\ attempts \in [Issues -> [Attempt -> {"none", "running"} \cup Finishes]]
    /\ asked \in [Issues -> Nat]
    /\ \A i \in Issues : questions[i] \subseteq 1..asked[i]
    /\ \A h \in Handlers :
         /\ DOMAIN handlers[h] \subseteq Issues
         /\ \A i \in DOMAIN handlers[h] :
              /\ DOMAIN handlers[h][i].set \subseteq DOMAIN AbsentRow
              /\ Updated(AbsentRow, handlers[h][i].set) \in Row
              /\ handlers[h][i].finish \in {"none"} \cup Finishes
              /\ handlers[h][i].attempt \in {0} \cup Attempt

\* A running Issue is backed: its token is the one granted last, the Attempt
\* that came with it is running, and it has a lease the sweeper can see lapse.
\* No late heartbeat, release or edit gives the Issue back to an earlier Attempt.
RunningIsBacked ==
    \A i \in Issues : rows[i].status = "running" =>
      /\ rows[i].token = issued[i] /\ issued[i] \in Attempt
      /\ attempts[i][issued[i]] = "running"
      /\ rows[i].lease # None

\* An Issue that waits for a person has an open question, whichever answers and
\* requests for it overlap.
WaitingCanBeAnswered ==
    \A i \in Issues : rows[i].status = "needs_human" => questions[i] # {}

\* An Issue in the queue for retries has a time at which it is taken up.
QueuedHasTime ==
    \A i \in Issues : rows[i].status = "retry_queued" => rows[i].retry # None

\* The facts a delivery step relies on are on the row: nothing awaits publishing
\* without a commit, and nothing is open or done without a pull request.
DeliveryIsRecorded ==
    \A i \in Issues :
      /\ rows[i].status \in {"awaiting_publish", "pr_open", "done"} => rows[i].commit # 0
      /\ rows[i].status \in {"pr_open", "done"} => rows[i].pr

\* What protocol/state-machine.yaml says with terminal_statuses: no step leaves one.
TerminalIsFinal ==
    [][\A i \in Issues : rows[i].status \in Terminal => rows'[i].status \in Terminal]_vars
=============================================================================
