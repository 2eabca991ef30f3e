------------------------- MODULE IssueReview_proofs -------------------------
(***************************************************************************)
(* Proofs about what an Issue holds beside its claim: the commit and the   *)
(* review request of a result that was reviewed, and the question that     *)
(* waits for a person.  They rest on the lemmas about rows, steps and      *)
(* calls of IssueService_proofs.                                           *)
(***************************************************************************)
EXTENDS IssueService_proofs

\* A commit appears with the approval and stays; only an Issue that is never claimed
\* again has one.
Reviewed(r, n, a) ==
    /\ r.commit # 0 => r.commit = n
    /\ r.commit # 0 => r.status \in {"awaiting_publish", "pr_open", "done", "cancelled"}
    /\ r.status \in {"reviewing", "awaiting_publish", "pr_open", "done"}
         => n \in Attempt /\ a[n] = "reviewing"
    /\ r.status \in {"awaiting_publish", "pr_open", "done"} => r.commit # 0
    /\ r.pr => r.status \in {"pr_open", "done", "cancelled"}
    /\ r.status \in {"pr_open", "done"} => r.pr

Waits(r, n, q) ==
    /\ r.status = "needs_human" => q = {n}
    /\ q # {} => r.status \in {"needs_human", "cancelled"}

\* No client asks POST /status for the arc that waits without a question.
AskedWithQuestion == <<"running", "needs_human", "human_input_requested">> \notin Requested

Story(r, n, a, q) == Reviewed(r, n, a) /\ (AskedWithQuestion => Waits(r, n, q))

\* What a delivery call has committed is the work of the newest Attempt, as long as
\* the version it has read is the row's.
MadeOfNewest ==
    \A c \in Callers :
      calls[c] # Idle /\ calls[c].phase = "effected"
        /\ calls[c].seen.version = rows[calls[c].issue].version
      => calls[c].made = issued[calls[c].issue]

RInv ==
    /\ IInv
    /\ OneActiveAttempt
    /\ \A i \in Issues : Story(rows[i], issued[i], attempts[i], questions[i])
    /\ MadeOfNewest

-----------------------------------------------------------------------------
(* One Issue *)

\* The Attempt that a handler finishes is the newest one.
LEMMA FinishedNewest ==
    ASSUME TypeOK, OneActiveAttempt, NEW i \in Issues, NEW s, FinishAttempt(i, s)
    PROVE  /\ issued[i] \in Attempt /\ attempts'[i][issued[i]] = s
           /\ rows[i].token = issued[i] /\ rows[i].status = "running"
           /\ \A m \in Issues \ {i} : attempts'[m] = attempts[m]
<1>1. PICK k \in Attempt : attempts[i][k] = "running"
                           /\ attempts' = [attempts EXCEPT ![i][k] = s]
  BY DEF FinishAttempt, IsActive
<1>2. k # 0
  BY DEF Attempt
<1>3. rows[i].token = k
  BY <1>1 DEF OneActiveAttempt
<1>4. issued[i] = k /\ rows[i].status = "running"
  BY <1>2, <1>3 DEF OneActiveAttempt
<1>5. QED
  BY <1>1, <1>3, <1>4 DEF TypeOK

\* An edition with the same status, commit and review request tells the same story.
LEMMA SameStory ==
    ASSUME NEW r, NEW q, NEW n, NEW a, NEW w, Story(r, n, a, w),
           q.status = r.status, q.commit = r.commit, q.pr = r.pr
    PROVE  Story(q, n, a, w)
BY DEF Story, Reviewed, Waits

\* An Issue that is queued, or ended without a result, or blocked: it owes nothing, and
\* keeps a commit or a question only if it is cancelled.
LEMMA OpenStory ==
    ASSUME NEW r, NEW q, NEW n, NEW a, NEW w, NEW b, NEW v, Story(r, n, a, w),
           q.status \in {"ready", "retry_queued", "blocked", "running"},
           r.status \notin {"awaiting_publish", "pr_open", "done", "cancelled"},
           q.commit = r.commit, q.pr = r.pr,
           AskedWithQuestion => v = {}
    PROVE  \A m : Story(q, m, b, v)
BY DEF Story, Reviewed, Waits

LEMMA CancelledStory ==
    ASSUME NEW r, NEW q, NEW n, NEW a, NEW w, NEW b, Story(r, n, a, w),
           q.status = "cancelled", q.commit = r.commit, q.pr = r.pr
    PROVE  Story(q, n, b, w)
BY DEF Story, Reviewed, Waits

LEMMA ReviewingStory ==
    ASSUME NEW r, NEW q, NEW n, NEW a, NEW w, NEW b, Story(r, n, a, w),
           r.status = "running", q.status = "reviewing", q.commit = r.commit, q.pr = r.pr,
           n \in Attempt, b[n] = "reviewing"
    PROVE  Story(q, n, b, w)
BY DEF Story, Reviewed, Waits

LEMMA RunningHasNoQuestion ==
    ASSUME NEW r, NEW n, NEW a, NEW w, Story(r, n, a, w), AskedWithQuestion,
           r.status \notin {"needs_human", "cancelled"}
    PROVE  w = {}
BY DEF Story, Waits

\* What an arc that a client may ask for does to the story.
LEMMA ArcStory ==
    ASSUME NEW arc \in Requested, NEW r, NEW q, NEW n, NEW a, NEW w, NEW b,
           Story(r, n, a, w), r.status = arc[1], q.status = arc[2],
           q.commit = r.commit, q.pr = r.pr,
           r.status = "running" => n \in Attempt /\ b[n] = arc[2]
    PROVE  Story(q, n, b, w)
<1>1. \/ arc[2] = "cancelled"
      \/ arc[1] = "running" /\ arc[2] = "reviewing"
      \/ arc[1] = "running" /\ arc[2] = "blocked"
      \/ arc[1] \in {"reviewing", "blocked"} /\ arc[2] = "ready"
      \/ arc[1] = "running" /\ arc[2] = "needs_human" /\ ~AskedWithQuestion
  BY RequestedAssumption DEF Transitions, Cancellations, AskedWithQuestion
<1>2. CASE arc[2] = "cancelled"
  BY <1>2, CancelledStory
<1>3. CASE arc[1] = "running" /\ arc[2] = "reviewing"
  BY <1>3, ReviewingStory
<1>4. CASE \/ arc[1] = "running" /\ arc[2] = "blocked"
           \/ arc[1] \in {"reviewing", "blocked"} /\ arc[2] = "ready"
  <2>1. AskedWithQuestion => w = {}
    BY <1>4, RunningHasNoQuestion
  <2>2. QED
    BY <1>4, <2>1, OpenStory
<1>5. CASE arc[1] = "running" /\ arc[2] = "needs_human" /\ ~AskedWithQuestion
  BY <1>5 DEF Story, Reviewed
<1>6. QED
  BY <1>1, <1>2, <1>3, <1>4, <1>5

-----------------------------------------------------------------------------
(* Handlers of one Issue *)

LEMMA IssueStory ==
    ASSUME TypeOK, OneActiveAttempt, NEW i \in Issues, OfIssue(i),
           Story(rows[i], issued[i], attempts[i], questions[i])
    PROVE  /\ Story(rows'[i], issued'[i], attempts'[i], questions'[i])
           /\ issued' = issued
           /\ \A m \in Issues \ {i} : /\ rows'[m] = rows[m] /\ attempts'[m] = attempts[m]
                                      /\ questions'[m] = questions[m]
<1> DEFINE Goal == /\ Story(rows'[i], issued'[i], attempts'[i], questions'[i])
                   /\ issued' = issued
                   /\ \A m \in Issues \ {i} : /\ rows'[m] = rows[m]
                                              /\ attempts'[m] = attempts[m]
                                              /\ questions'[m] = questions[m]
<1>1. rows[i] \in Row /\ issued[i] \in 0..MaxAttempts
  BY DEF TypeOK
<1>2. CASE CreateIssue(i)
  <2>1. /\ NewRow \in Row /\ NewRow.commit = 0 /\ NewRow.pr = FALSE
        /\ NewRow.status = "ready"
    BY Times DEF NewRow, AbsentRow, Row, Status
  <2>2. /\ rows'[i] = NewRow /\ \A m \in Issues \ {i} : rows'[m] = rows[m]
        /\ UNCHANGED <<issued, attempts, questions>> /\ rows[i].status = Absent
    BY <1>2, <2>1, WriteType DEF CreateIssue
  <2>3. AskedWithQuestion => questions[i] = {}
    BY <2>2, RunningHasNoQuestion DEF Absent
  <2>4. Story(NewRow, issued[i], attempts[i], questions[i])
    BY <2>1, <2>3 DEF Story, Reviewed, Waits
  <2>5. QED
    BY <2>2, <2>4
<1>3. ASSUME NEW k \in Attempt, Heartbeat(i, k) PROVE Goal
  <2>1. /\ Renewed(rows[i]) \in Row /\ Renewed(rows[i]).status = rows[i].status
        /\ Renewed(rows[i]).commit = rows[i].commit /\ Renewed(rows[i]).pr = rows[i].pr
    BY <1>1, RenewedRow DEF Renewed, Row
  <2>2. /\ rows'[i] = Renewed(rows[i]) /\ \A m \in Issues \ {i} : rows'[m] = rows[m]
        /\ UNCHANGED <<issued, attempts, questions>>
    BY <1>3, <2>1, WriteType DEF Heartbeat
  <2>3. QED
    BY <2>1, <2>2, SameStory
<1>4. ASSUME NEW k \in Attempt, NEW d \in ReleaseDelays, ReleaseClaim(i, k, d)
      PROVE Goal
  <2>1. Edition(rows[i], Released(rows[i], d), "retry_queued", 0,
                rows[i].commit, rows[i].pr, rows[i].archived)
    BY <1>1, ReleaseDelaysAssumption, ReleasedRow
  <2>2. /\ rows'[i] = Released(rows[i], d) /\ \A m \in Issues \ {i} : rows'[m] = rows[m]
        /\ UNCHANGED <<issued, questions>> /\ FinishAttempt(i, "retry_queued")
    BY <1>4, <2>1, WriteType DEF ReleaseClaim, Edition
  <2>3. /\ rows[i].status = "running" /\ \A m \in Issues \ {i} : attempts'[m] = attempts[m]
    BY <2>2, FinishedNewest
  <2>4. AskedWithQuestion => questions[i] = {}
    BY <2>3, RunningHasNoQuestion
  <2>5. Story(rows'[i], issued[i], attempts'[i], questions[i])
    BY <2>1, <2>2, <2>3, <2>4, OpenStory DEF Edition
  <2>6. QED
    BY <2>2, <2>3, <2>5
<1>5. ASSUME NEW k \in Attempt, RequestHuman(i, k) PROVE Goal
  <2>1. Edition(rows[i], Asked(rows[i]), "needs_human", 0,
                rows[i].commit, rows[i].pr, rows[i].archived)
    BY <1>1, DecisionRows
  <2>2. /\ rows'[i] = Asked(rows[i]) /\ \A m \in Issues \ {i} : rows'[m] = rows[m]
        /\ issued' = issued /\ FinishAttempt(i, "needs_human") /\ rows[i].token = k
        /\ questions' = [questions EXCEPT ![i] = @ \cup {k}]
    BY <1>5, <2>1, WriteType DEF RequestHuman, HoldsClaim, Edition
  <2>3. /\ rows[i].status = "running" /\ rows[i].token = issued[i]
        /\ \A m \in Issues \ {i} : attempts'[m] = attempts[m]
    BY <2>2, FinishedNewest
  <2>4. /\ questions'[i] = questions[i] \cup {issued[i]}
        /\ \A m \in Issues \ {i} : questions'[m] = questions[m]
    BY <2>2, <2>3 DEF TypeOK
  <2>5. AskedWithQuestion => questions'[i] = {issued[i]}
    BY <2>3, <2>4, RunningHasNoQuestion
  <2>6. Story(rows'[i], issued[i], attempts'[i], questions'[i])
    BY <2>1, <2>2, <2>3, <2>5 DEF Story, Reviewed, Waits, Edition
  <2>7. QED
    BY <2>2, <2>3, <2>4, <2>6
<1>6. ASSUME NEW k \in Attempt, ResolveHuman(i, k) PROVE Goal
  <2>1. Edition(rows[i], Answered(rows[i]), "ready", rows[i].token,
                rows[i].commit, rows[i].pr, rows[i].archived)
    BY <1>1, DecisionRows
  <2>2. /\ rows'[i] = Answered(rows[i]) /\ \A m \in Issues \ {i} : rows'[m] = rows[m]
        /\ UNCHANGED <<issued, attempts>>
        /\ rows[i].status = "needs_human" /\ k \in questions[i]
        /\ questions' = [questions EXCEPT ![i] = @ \ {k}]
    BY <1>6, <2>1, WriteType DEF ResolveHuman, Edition
  <2>3. /\ questions'[i] = questions[i] \ {k}
        /\ \A m \in Issues \ {i} : questions'[m] = questions[m]
    BY <2>2 DEF TypeOK
  <2>4. AskedWithQuestion => questions'[i] = {}
    BY <2>2, <2>3 DEF Story, Waits
  <2>5. Story(rows'[i], issued[i], attempts[i], questions'[i])
    BY <2>1, <2>2, <2>4, OpenStory DEF Edition
  <2>6. QED
    BY <2>2, <2>3, <2>5
<1>7. ASSUME NEW arc \in Requested, TransitionRunning(i, arc) \/ TransitionIdle(i, arc)
      PROVE Goal
  <2>1. Edition(rows[i], Transitioned(rows[i], arc[2]), arc[2],
                IF rows[i].status = "running" THEN 0 ELSE rows[i].token,
                rows[i].commit, rows[i].pr, rows[i].archived)
    BY <1>1, Arcs, TransitionedRow
  <2>2. /\ rows'[i] = Transitioned(rows[i], arc[2])
        /\ \A m \in Issues \ {i} : rows'[m] = rows[m]
        /\ UNCHANGED <<issued, questions>> /\ rows[i].status = arc[1]
        /\ \/ FinishAttempt(i, arc[2])
           \/ rows[i].status # "running" /\ UNCHANGED attempts
    BY <1>7, <2>1, WriteType DEF TransitionRunning, TransitionIdle, Edition
  <2>3. /\ rows[i].status = "running"
             => issued[i] \in Attempt /\ attempts'[i][issued[i]] = arc[2]
        /\ \A m \in Issues \ {i} : attempts'[m] = attempts[m]
    BY <2>2, FinishedNewest
  <2>4. Story(rows'[i], issued[i], attempts'[i], questions[i])
    BY <2>1, <2>2, <2>3, ArcStory DEF Edition
  <2>5. QED
    BY <2>2, <2>3, <2>4
<1>8. QED
  BY <1>2, <1>3, <1>4, <1>5, <1>6, <1>7 DEF OfIssue

-----------------------------------------------------------------------------
(* Commands with a version *)

\* An approval records the newest Attempt's work, a publication keeps the commit.
LEMMA DeliveredStory ==
    ASSUME NEW r \in Row, NEW kind \in Delivery, NEW k \in Nat, NEW n, NEW a, NEW w,
           Story(r, n, a, w), r.status = DeliverFrom[kind],
           kind = "approve_result" => k = n
    PROVE  Delivered(r, kind, k) \in Row /\ Story(Delivered(r, kind, k), n, a, w)
<1>1. kind \in {"approve_result", "authorize_publish", "confirm_merge"}
  BY DEF Delivery, DeliverFrom
<1>2. r.status \in {"reviewing", "awaiting_publish", "pr_open"}
  BY DEF Delivery, DeliverFrom
<1>3. AskedWithQuestion => w = {}
  BY <1>2, RunningHasNoQuestion
<1>4. CASE kind = "approve_result"
  <2> DEFINE q == Delivered(r, "approve_result", k)
  <2>1. Edition(r, q, "awaiting_publish", r.token, k, r.pr, r.archived)
    BY DeliveredRows
  <2>2. r.status = "reviewing" /\ k = n
    BY <1>4 DEF DeliverFrom
  <2> HIDE DEF q
  <2>3. n \in Attempt /\ a[n] = "reviewing" /\ n # 0
    BY <2>2 DEF Story, Reviewed, Attempt
  <2>4. Story(q, n, a, w)
    BY <1>3, <2>1, <2>2, <2>3 DEF Story, Reviewed, Waits, Edition
  <2>5. QED
    BY <1>4, <2>1, <2>4 DEF q, Edition
<1>5. CASE kind = "authorize_publish"
  <2> DEFINE q == Delivered(r, "authorize_publish", k)
  <2>1. Edition(r, q, "pr_open", r.token, r.commit, TRUE, r.archived)
    BY DeliveredRows
  <2>2. r.status = "awaiting_publish"
    BY <1>5 DEF DeliverFrom
  <2> HIDE DEF q
  <2>3. Story(q, n, a, w)
    BY <1>3, <2>1, <2>2 DEF Story, Reviewed, Waits, Edition
  <2>4. QED
    BY <1>5, <2>1, <2>3 DEF q, Edition
<1>6. CASE kind = "confirm_merge"
  <2> DEFINE q == Delivered(r, "confirm_merge", k)
  <2>1. Edition(r, q, "done", r.token, r.commit, r.pr, r.archived)
    BY DeliveredRows
  <2>2. r.status = "pr_open"
    BY <1>6 DEF DeliverFrom
  <2> HIDE DEF q
  <2>3. Story(q, n, a, w)
    BY <1>3, <2>1, <2>2 DEF Story, Reviewed, Waits, Edition
  <2>4. QED
    BY <1>6, <2>1, <2>3 DEF q, Edition
<1>7. QED
  BY <1>1, <1>4, <1>5, <1>6

LEMMA CallStory ==
    ASSUME RInv, NEW c \in Callers, OfCall(c)
    PROVE  \A m \in Issues :
             /\ Story(rows'[m], issued'[m], attempts'[m], questions'[m])
             /\ issued'[m] = issued[m] \/ rows'[m].version > rows[m].version
<1> DEFINE j == calls[c].issue
           Goal == \A m \in Issues :
                     /\ Story(rows'[m], issued'[m], attempts'[m], questions'[m])
                     /\ issued'[m] = issued[m] \/ rows'[m].version > rows[m].version
<1>0. /\ IInv /\ TypeOK /\ OneActiveAttempt /\ MadeOfNewest
      /\ \A i \in Issues : Story(rows[i], issued[i], attempts[i], questions[i])
  BY DEF RInv, IInv
<1>1. calls[c] # Idle => /\ j \in Issues /\ rows[j] \in Row /\ calls[c].made \in Nat
                         /\ Story(rows[j], issued[j], attempts[j], questions[j])
  BY <1>0, CallType DEF TypeOK
<1>2. ASSUME NEW q \in Row, calls[c] # Idle, Write(j, q), UNCHANGED <<issued, questions>>,
             \A m \in Issues \ {j} : attempts'[m] = attempts[m],
             Story(q, issued[j], attempts'[j], questions[j])
      PROVE Goal
  <2>1. rows'[j] = q /\ \A m \in Issues \ {j} : rows'[m] = rows[m]
    BY <1>0, <1>1, <1>2, WriteType
  <2>2. QED
    BY <1>0, <1>2, <2>1
<1>3. CASE \/ \E kind \in Kind, i \in Issues : Send(c, kind, i)
           \/ Drop(c) \/ DeliverCheck(c) \/ DeliverEffect(c) \/ ArchiveCheck(c)
  BY <1>0, <1>3 DEF Send, Drop, DeliverCheck, DeliverEffect, ArchiveCheck
<1>4. CASE ClaimIssue(c)
  <2>1. calls[c] # Idle /\ rows[j].status = "ready" /\ UNCHANGED questions
    BY <1>4 DEF ClaimIssue, Arrived, Claimable
  <2>2. PICK k \in Attempt :
          /\ issued' = [issued EXCEPT ![j] = k]
          /\ attempts' = [attempts EXCEPT ![j][k] = "running"]
          /\ Write(j, Claimed(rows[j], k))
    BY <1>4 DEF ClaimIssue
  <2>3. k \in Nat
    BY DEF Attempt
  <2>4. Edition(rows[j], Claimed(rows[j], k), "running", k,
                rows[j].commit, rows[j].pr, rows[j].archived)
    BY <1>1, <2>1, <2>3, ClaimedRow
  <2>5. rows'[j] = Claimed(rows[j], k) /\ \A m \in Issues \ {j} : rows'[m] = rows[m]
    BY <1>0, <1>1, <2>1, <2>2, <2>4, WriteType DEF Edition
  <2>6. AskedWithQuestion => questions[j] = {}
    BY <1>1, <2>1, RunningHasNoQuestion
  <2>7. \A n : Story(rows'[j], n, attempts'[j], questions[j])
    BY <1>1, <2>1, <2>4, <2>5, <2>6, OpenStory DEF Edition
  <2>8. \A m \in Issues \ {j} : issued'[m] = issued[m] /\ attempts'[m] = attempts[m]
    BY <1>0, <2>2 DEF TypeOK
  <2>9. rows'[j].version > rows[j].version
    BY <1>1, <2>1, <2>4, <2>5 DEF Edition, Row
  <2>10. QED
    BY <1>0, <1>1, <2>1, <2>5, <2>7, <2>8, <2>9
<1>5. CASE ContinueIssue(c)
  <2>1. /\ calls[c] # Idle /\ rows[j].status = "reviewing" /\ Write(j, Continued(rows[j]))
        /\ UNCHANGED <<issued, attempts, questions>>
    BY <1>5 DEF ContinueIssue, Arrived
  <2>2. Edition(rows[j], Continued(rows[j]), "ready", rows[j].token,
                rows[j].commit, rows[j].pr, rows[j].archived)
    BY <1>1, <2>1, ReadiedRow
  <2>3. AskedWithQuestion => questions[j] = {}
    BY <1>1, <2>1, RunningHasNoQuestion
  <2>4. Story(Continued(rows[j]), issued[j], attempts'[j], questions[j])
    BY <1>1, <2>1, <2>2, <2>3, OpenStory DEF Edition
  <2>5. QED
    BY <1>2, <2>1, <2>2, <2>4 DEF Edition
<1>6. CASE PatchIssue(c)
  <2>1. calls[c] # Idle /\ UNCHANGED <<issued, attempts, questions>>
    BY <1>6 DEF PatchIssue, Arrived
  <2>2. PICK q \in Row :
          /\ Write(j, q)
          /\ Edition(rows[j], q, rows[j].status, rows[j].token,
                     rows[j].commit, rows[j].pr, rows[j].archived)
    BY <1>1, <1>6, <2>1, PatchedRows DEF PatchIssue, Edition
  <2>3. Story(q, issued[j], attempts'[j], questions[j])
    BY <1>1, <2>1, <2>2, SameStory DEF Edition
  <2>4. QED
    BY <1>2, <2>1, <2>2, <2>3
<1>7. CASE DeliverCommit(c)
  <2> DEFINE kind == calls[c].kind
             k == calls[c].made
  <2>1. /\ calls[c] # Idle /\ UNCHANGED <<issued, attempts, questions>>
        /\ Write(j, Delivered(rows[j], kind, k))
        /\ kind \in Delivery /\ rows[j].status = DeliverFrom[kind]
        /\ calls[c].phase = "effected" /\ Current(c)
    BY <1>7 DEF DeliverCommit
  <2>2. k = issued[j] /\ k \in Nat
    BY <1>0, <1>1, <2>1 DEF MadeOfNewest, Current
  <2> HIDE DEF kind, k
  <2>3. /\ Delivered(rows[j], kind, k) \in Row
        /\ Story(Delivered(rows[j], kind, k), issued[j], attempts[j], questions[j])
    BY <1>1, <2>1, <2>2, DeliveredStory
  <2>4. QED
    BY <1>2, <2>1, <2>3
<1>8. CASE ArchiveCancel(c)
  <2> DEFINE q == ForceCancelled(rows[j])
  <2>1. /\ calls[c] # Idle /\ Write(j, q) /\ UNCHANGED <<issued, questions>>
        /\ FinishAttempt(j, "cancelled") \/ UNCHANGED attempts
    BY <1>8 DEF ArchiveCancel, Arrived
  <2>2. Edition(rows[j], q, "cancelled",
                IF rows[j].status = "running" THEN 0 ELSE rows[j].token,
                rows[j].commit, rows[j].pr, rows[j].archived)
    BY <1>1, <2>1, ForceCancelledRow
  <2> HIDE DEF q
  <2>3. Story(q, issued[j], attempts'[j], questions[j])
    BY <1>1, <2>1, <2>2, CancelledStory DEF Edition
  <2>4. \A m \in Issues \ {j} : attempts'[m] = attempts[m]
    BY <1>0, <1>1, <2>1, FinishedNewest
  <2>5. QED
    BY <1>2, <2>1, <2>2, <2>3, <2>4 DEF Edition
<1>9. CASE ArchiveCommit(c)
  <2>1. /\ calls[c] # Idle /\ Write(j, Archived(rows[j]))
        /\ UNCHANGED <<issued, attempts, questions>>
    BY <1>9 DEF ArchiveCommit, Arrived
  <2>2. Edition(rows[j], Archived(rows[j]), rows[j].status, rows[j].token,
                rows[j].commit, rows[j].pr, TRUE)
    BY <1>1, <2>1, PatchedRows
  <2>3. Story(Archived(rows[j]), issued[j], attempts'[j], questions[j])
    BY <1>1, <2>1, <2>2, SameStory DEF Edition
  <2>4. QED
    BY <1>2, <2>1, <2>2, <2>3 DEF Edition
<1>10. QED
  BY <1>3, <1>4, <1>5, <1>6, <1>7, <1>8, <1>9 DEF OfCall

-----------------------------------------------------------------------------
(* Every step *)

\* The sweeper and the clock.
LEMMA SweepStory ==
    ASSUME TypeOK, MaintenanceTick \/ Tick, NEW i \in Issues,
           Story(rows[i], issued[i], attempts[i], questions[i])
    PROVE  Story(rows'[i], issued'[i], attempts'[i], questions'[i]) /\ issued' = issued
<1>1. rows[i] \in Row
  BY DEF TypeOK
<1>2. CASE Tick
  <2>1. /\ rows'[i].status = rows[i].status /\ rows'[i].commit = rows[i].commit
        /\ rows'[i].pr = rows[i].pr /\ UNCHANGED <<issued, attempts, questions>>
    BY <1>1, <1>2 DEF Tick, AgedRow, TypeOK, Row
  <2>2. QED
    BY <2>1, SameStory
<1>3. CASE MaintenanceTick
  <2>1. /\ rows'[i] = Swept(rows[i]) /\ UNCHANGED <<issued, questions>>
        /\ attempts'[i] = [k \in Attempt |-> IF LeaseLapsed(rows[i]) /\ IsActive(i, k)
                             THEN "retry_queued" ELSE attempts[i][k]]
    BY <1>3 DEF MaintenanceTick
  <2>2. CASE LeaseLapsed(rows[i]) \/ RetryDue(rows[i])
    <3>1. /\ rows'[i].status \in {"retry_queued", "ready"}
          /\ rows'[i].commit = rows[i].commit /\ rows'[i].pr = rows[i].pr
      BY <1>1, <2>1, <2>2, SweptRow DEF Edition
    <3>2. rows[i].status \in {"running", "retry_queued"}
      BY <2>2 DEF LeaseLapsed, RetryDue
    <3>3. AskedWithQuestion => questions[i] = {}
      BY <3>2, RunningHasNoQuestion
    <3>4. QED
      BY <2>1, <3>1, <3>2, <3>3, OpenStory
  <2>3. CASE ~LeaseLapsed(rows[i]) /\ ~RetryDue(rows[i])
    <3>1. rows'[i] = rows[i] /\ attempts'[i] = attempts[i]
      BY <1>1, <2>1, <2>3, SweptRow DEF TypeOK
    <3>2. QED
      BY <2>1, <3>1
  <2>4. QED
    BY <2>2, <2>3
<1>4. QED
  BY <1>2, <1>3

\* A step tells the story of every Issue on, and gives a new Attempt only to an Issue
\* whose version it raises.
LEMMA StepStory ==
    ASSUME RInv, [Next]_vars, NEW m \in Issues
    PROVE  /\ Story(rows'[m], issued'[m], attempts'[m], questions'[m])
           /\ issued'[m] = issued[m] \/ rows'[m].version > rows[m].version
<1>0. /\ TypeOK /\ OneActiveAttempt
      /\ \A i \in Issues : Story(rows[i], issued[i], attempts[i], questions[i])
  BY DEF RInv, IInv
<1>1. ASSUME NEW i \in Issues, OfIssue(i)
      PROVE  Story(rows'[m], issued'[m], attempts'[m], questions'[m]) /\ issued' = issued
  <2>1. /\ Story(rows'[i], issued'[i], attempts'[i], questions'[i])
        /\ issued' = issued
        /\ \A n \in Issues \ {i} : /\ rows'[n] = rows[n] /\ attempts'[n] = attempts[n]
                                   /\ questions'[n] = questions[n]
    BY <1>0, <1>1, IssueStory
  <2>2. QED
    BY <1>0, <2>1
<1>2. ASSUME NEW c \in Callers, OfCall(c)
      PROVE  /\ Story(rows'[m], issued'[m], attempts'[m], questions'[m])
             /\ issued'[m] = issued[m] \/ rows'[m].version > rows[m].version
  BY <1>2, CallStory
<1>3. CASE MaintenanceTick \/ Tick
  BY <1>0, <1>3, SweepStory
<1>4. CASE SwitchProject \/ UNCHANGED vars
  BY <1>0, <1>4 DEF SwitchProject, vars
<1>5. QED
  BY <1>1, <1>2, <1>3, <1>4 DEF Next

\* A call comes to have made a commit by making it.
LEMMA EffectedCalls ==
    ASSUME TypeOK, [Next]_vars, NEW c \in Callers,
           calls'[c] # Idle, calls'[c].phase = "effected"
    PROVE  \/ calls'[c] = calls[c]
           \/ /\ issued' = issued /\ calls'[c].made = issued[calls'[c].issue]
<1>1. CASE UNCHANGED calls
  BY <1>1
<1>2. ASSUME NEW d \in Callers, OfCall(d)
      PROVE  \/ calls'[c] = calls[c]
             \/ /\ issued' = issued /\ calls'[c].made = issued[calls'[c].issue]
  <2>1. CASE d # c
    BY <1>2, <2>1 DEF OfCall, Send, Drop, ClaimIssue, ContinueIssue, PatchIssue,
       DeliverCheck, DeliverEffect, DeliverCommit, ArchiveCheck, ArchiveCancel,
       ArchiveCommit, Return, TypeOK
  <2>2. CASE d = c /\ DeliverEffect(c)
    <3> DEFINE n == issued[calls[c].issue]
    <3>1. /\ calls[c] # Idle /\ issued' = issued
          /\ calls' = [calls EXCEPT ![c].phase = "effected", ![c].made = n]
      BY <2>2 DEF DeliverEffect
    <3> HIDE DEF n
    <3>2. calls[c] \in Call
      BY <3>1, CallType
    <3>3. calls'[c] = [calls[c] EXCEPT !.phase = "effected", !.made = n]
      BY <3>1 DEF TypeOK
    <3>4. calls'[c].issue = calls[c].issue /\ calls'[c].made = n
      BY <3>2, <3>3 DEF Call
    <3>5. QED
      BY <3>1, <3>4 DEF n
  <2>3. CASE d = c /\ \/ Drop(c) \/ ClaimIssue(c) \/ ContinueIssue(c) \/ PatchIssue(c)
                      \/ DeliverCommit(c) \/ ArchiveCommit(c)
    BY <2>3 DEF Drop, ClaimIssue, ContinueIssue, PatchIssue, DeliverCommit,
                ArchiveCommit, Return, TypeOK
  <2>4. ASSUME NEW kind \in Kind, NEW i \in Issues, Send(c, kind, i), d = c
        PROVE  FALSE
    <3>1. calls'[c] = [phase |-> "sent", kind |-> kind, issue |-> i,
                       seen |-> Essence(rows[i]), made |-> 0]
      BY <2>4 DEF Send, TypeOK
    <3>2. QED
      BY <3>1
  <2>5. ASSUME DeliverCheck(c) \/ ArchiveCheck(c), d = c
        PROVE  FALSE
    <3>1. calls[c] # Idle /\ calls' = [calls EXCEPT ![c].phase = "checked"]
      BY <2>5 DEF DeliverCheck, ArchiveCheck, Arrived
    <3>2. calls[c] \in Call
      BY <3>1, CallType
    <3>3. calls'[c] = [calls[c] EXCEPT !.phase = "checked"]
      BY <3>1 DEF TypeOK
    <3>4. QED
      BY <3>2, <3>3 DEF Call
  <2>6. ASSUME ArchiveCancel(c), d = c
        PROVE  FALSE
    <3> DEFINE e == Essence(ForceCancelled(rows[calls[c].issue]))
    <3>1. /\ calls[c] # Idle
          /\ calls' = [calls EXCEPT ![c].phase = "cancelled", ![c].seen = e]
      BY <2>6 DEF ArchiveCancel, Arrived
    <3> HIDE DEF e
    <3>2. calls[c] \in Call
      BY <3>1, CallType
    <3>3. calls'[c] = [calls[c] EXCEPT !.phase = "cancelled", !.seen = e]
      BY <3>1 DEF TypeOK
    <3>4. QED
      BY <3>2, <3>3 DEF Call
  <2>7. QED
    BY <1>2, <2>1, <2>2, <2>3, <2>4, <2>5, <2>6 DEF OfCall
<1>3. ASSUME NEW i \in Issues, OfIssue(i)
      PROVE  UNCHANGED calls
  BY <1>3 DEF OfIssue, CreateIssue, Heartbeat, ReleaseClaim, RequestHuman, ResolveHuman,
              TransitionRunning, TransitionIdle
<1>4. CASE MaintenanceTick \/ Tick \/ SwitchProject \/ UNCHANGED vars
  BY <1>1, <1>4 DEF MaintenanceTick, Tick, SwitchProject, vars
<1>5. QED
  BY <1>1, <1>2, <1>3, <1>4 DEF Next

LEMMA RInvStep ==
    ASSUME RInv, [Next]_vars
    PROVE  RInv'
<1>1. /\ IInv /\ TypeOK /\ VersionNamesContents /\ OneActiveAttempt /\ MadeOfNewest
      /\ IInv' /\ TypeOK'
  BY IInvStep DEF RInv, IInv
<1>2. OneActiveAttempt'
  BY <1>1, OneActiveStep
<1>3. (\A i \in Issues : Story(rows[i], issued[i], attempts[i], questions[i]))'
  BY StepStory
<1>4. ASSUME NEW c \in Callers, calls'[c] # Idle, calls'[c].phase = "effected",
             calls'[c].seen.version = rows'[calls'[c].issue].version
      PROVE  calls'[c].made = issued'[calls'[c].issue]
  <2>1. CASE calls'[c] = calls[c]
    <3> DEFINE j == calls[c].issue
    <3>1. j \in Issues /\ calls[c].seen.version \in Nat
      BY <1>1, <1>4, <2>1, CallType DEF Row
    <3>2. rows[j] \in Row /\ rows'[j] \in Row /\ RowStep(rows[j], rows'[j])
      BY <1>1, <3>1, StepOfRows DEF TypeOK
    <3>3. rows[j].version \in Nat /\ rows'[j].version \in Nat
          /\ rows[j].version <= rows'[j].version
      BY <3>2, RowStepVersion DEF Row
    <3>4. calls[c].seen.version <= rows[j].version
      BY <1>1, <1>4, <2>1 DEF VersionNamesContents
    <3>5. rows'[j].version = rows[j].version
      BY <1>4, <2>1, <3>1, <3>3, <3>4
    <3>6. issued'[j] = issued[j]
      BY <3>1, <3>3, <3>5, StepStory
    <3>7. QED
      BY <1>1, <1>4, <2>1, <3>5, <3>6 DEF MadeOfNewest
  <2>2. CASE calls'[c] # calls[c]
    BY <1>1, <1>4, <2>2, EffectedCalls
  <2>3. QED
    BY <2>1, <2>2
<1>5. MadeOfNewest'
  BY <1>4 DEF MadeOfNewest
<1>6. QED
  BY <1>1, <1>2, <1>3, <1>5 DEF RInv

LEMMA RInvInvariant == Spec => []RInv
<1>1. ASSUME Init PROVE RInv
  <2>1. IInv
    BY <1>1, InitType DEF IInv, Init, RowsAreSane, CallsAreSane, VersionNamesContents,
                          AbsentRow, Absent, Terminal
  <2>2. OneActiveAttempt
    BY <1>1 DEF Init, OneActiveAttempt, AbsentRow, Absent, Attempt
  <2>3. \A i \in Issues : Story(rows[i], issued[i], attempts[i], questions[i])
    BY <1>1 DEF Init, Story, Reviewed, Waits, AbsentRow, Absent
  <2>4. MadeOfNewest
    BY <1>1 DEF Init, MadeOfNewest
  <2>5. QED
    BY <2>1, <2>2, <2>3, <2>4 DEF RInv
<1>2. RInv /\ [Next]_vars => RInv'
  BY RInvStep
<1>3. QED
  BY <1>1, <1>2, PTL DEF Spec

-----------------------------------------------------------------------------
(* Results *)

\* Whatever calls overlap, the commit that is published and merged holds the work of
\* the newest Attempt, which has completed; nothing is published without a commit.
THEOREM ResultIsReviewed == Spec => []DeliveredIsReviewed
<1>1. RInv => DeliveredIsReviewed
  BY DEF RInv, Story, Reviewed, DeliveredIsReviewed
<1>2. QED
  BY <1>1, RInvInvariant, PTL

\* As long as nobody asks POST /status for needs_human, an Issue waits for a person
\* with exactly the question of its last Attempt.
THEOREM QuestionIsAsked ==
    ASSUME AskedWithQuestion
    PROVE  Spec => []WaitingHasItsQuestion
<1>1. RInv => WaitingHasItsQuestion
  BY DEF RInv, Story, Waits, WaitingHasItsQuestion
<1>2. QED
  BY <1>1, RInvInvariant, PTL
=============================================================================
