------------------------ MODULE IssueService_proofs ------------------------
(***************************************************************************)
(* Proofs about IssueService, for any set of Issues and Callers and any    *)
(* value of the bounds.                                                    *)
(***************************************************************************)
EXTENDS IssueService, TLAPS

-----------------------------------------------------------------------------
(* What the effects of the handlers do to a row *)

\* The next edition of row r is q, with status s, token k, commit c, pr p and
\* archived a.
Edition(r, q, s, k, c, p, a) ==
    /\ q \in Row
    /\ q.version = r.version + 1
    /\ q.status = s
    /\ q.token = k
    /\ q.commit = c
    /\ q.pr = p
    /\ q.archived = a

LEMMA Times ==
    /\ None \in LeaseLeft /\ None \in RetryLeft
    /\ LeaseTicks \in LeaseLeft /\ RetryTicks \in RetryLeft
    /\ \A d \in ReleaseDelays : d \in RetryLeft
BY LeaseAssumption, RetryAssumption, ReleaseDelaysAssumption
   DEF LeaseLeft, RetryLeft, None

\* Moving a row sets the status, adds one to the version and keeps the rest.
LEMMA MovedRow ==
    ASSUME NEW r \in Row, NEW s \in Status \cup {Absent}
    PROVE  /\ Edition(r, Moved(r, s), s, r.token, r.commit, r.pr, r.archived)
           /\ Moved(r, s).lease = r.lease
           /\ Moved(r, s).retry = r.retry
<1>1. r.version + 1 \in Nat
  BY DEF Row
<1> DEFINE v == r.version + 1
<1> HIDE DEF v
<1>2. Moved(r, s) = [r EXCEPT !.status = s, !.version = v]
  BY DEF Moved, v
<1>3. v \in Nat
  BY <1>1 DEF v
<1>4. [r EXCEPT !.status = s, !.version = v] \in Row
  BY <1>3 DEF Row
<1>5. Moved(r, s).version = v
  BY <1>2 DEF Row
<1>6. QED
  BY <1>2, <1>4, <1>5 DEF Edition, Row, v

LEMMA UnclaimedRow ==
    ASSUME NEW r \in Row
    PROVE  /\ Unclaimed(r) \in Row
           /\ Unclaimed(r).version = r.version
           /\ Unclaimed(r).status = r.status
           /\ Unclaimed(r).token = 0
           /\ Unclaimed(r).lease = None
           /\ Unclaimed(r).retry = r.retry
           /\ Unclaimed(r).commit = r.commit
           /\ Unclaimed(r).pr = r.pr
           /\ Unclaimed(r).archived = r.archived
BY Times DEF Unclaimed, Row

\* The row as a claim or a clearing of the claim followed by a move leaves it.
LEMMA UnclaimedMovedRow ==
    ASSUME NEW r \in Row, NEW s \in Status
    PROVE  /\ Edition(r, Moved(Unclaimed(r), s), s, 0, r.commit, r.pr, r.archived)
           /\ Moved(Unclaimed(r), s).lease = None
           /\ Moved(Unclaimed(r), s).retry = r.retry
BY UnclaimedRow, MovedRow DEF Edition

LEMMA ClaimedRow ==
    ASSUME NEW r \in Row, NEW k \in Nat
    PROVE  Edition(r, Claimed(r, k), "running", k, r.commit, r.pr, r.archived)
<1> DEFINE m == Moved(r, "running")
<1>1. Edition(r, m, "running", r.token, r.commit, r.pr, r.archived)
  BY MovedRow DEF Status
<1>2. Claimed(r, k) = [m EXCEPT !.token = k, !.lease = LeaseTicks, !.retry = None]
  BY DEF Claimed
<1> HIDE DEF m
<1>3. QED
  BY <1>1, <1>2, Times DEF Edition, Row

LEMMA RenewedRow ==
    ASSUME NEW r \in Row
    PROVE  Renewed(r) \in Row /\ Essence(Renewed(r)) = Essence(r)
BY Times DEF Renewed, Essence, Row

LEMMA AgedRowRow ==
    ASSUME NEW r \in Row
    PROVE  AgedRow(r) \in Row /\ Essence(AgedRow(r)) = Essence(r)
<1>1. Aged(r.lease) \in LeaseLeft /\ Aged(r.retry) \in RetryLeft
  BY LeaseAssumption, RetryAssumption, ReleaseDelaysAssumption
     DEF Row, Aged, LeaseLeft, RetryLeft, None, Past
<1>2. AgedRow(r) = [r EXCEPT !.lease = Aged(r.lease), !.retry = Aged(r.retry)]
  BY DEF AgedRow, Row
<1>3. QED
  BY <1>1, <1>2, Times DEF Essence, Row

LEMMA ReleasedRow ==
    ASSUME NEW r \in Row, NEW d \in ReleaseDelays
    PROVE  Edition(r, Released(r, d), "retry_queued", 0, r.commit, r.pr, r.archived)
<1> DEFINE m == Moved(Unclaimed(r), "retry_queued")
<1>1. Edition(r, m, "retry_queued", 0, r.commit, r.pr, r.archived)
  BY UnclaimedMovedRow DEF Status
<1>2. Released(r, d) = [m EXCEPT !.retry = d]
  BY DEF Released
<1> HIDE DEF m
<1>3. QED
  BY <1>1, <1>2, Times DEF Edition, Row

LEMMA ExpiredRow ==
    ASSUME NEW r \in Row
    PROVE  Edition(r, Expired(r), "retry_queued", 0, r.commit, r.pr, r.archived)
<1> DEFINE m == Moved(Unclaimed(r), "retry_queued")
<1>1. Edition(r, m, "retry_queued", 0, r.commit, r.pr, r.archived)
  BY UnclaimedMovedRow DEF Status
<1>2. Expired(r) = [m EXCEPT !.retry = RetryTicks]
  BY DEF Expired
<1> HIDE DEF m
<1>3. QED
  BY <1>1, <1>2, Times DEF Edition, Row

\* Two effects that queue the Issue: continue_issue and a due retry.
LEMMA ReadiedRow ==
    ASSUME NEW r \in Row
    PROVE  /\ Edition(r, Readied(r), "ready", r.token, r.commit, r.pr, r.archived)
           /\ Edition(r, Continued(r), "ready", r.token, r.commit, r.pr, r.archived)
<1> DEFINE m == Moved(r, "ready")
<1>1. Edition(r, m, "ready", r.token, r.commit, r.pr, r.archived)
  BY MovedRow DEF Status
<1>2. /\ Readied(r) = [m EXCEPT !.retry = None]
      /\ Continued(r) = [m EXCEPT !.retry = None]
  BY DEF Readied, Continued
<1> HIDE DEF m
<1>3. QED
  BY <1>1, <1>2, Times DEF Edition, Row

\* A status the Issue goes to with its claim cleared, as it has none unless running.
LEMMA TransitionedRow ==
    ASSUME NEW r \in Row, NEW s \in Status
    PROVE  Edition(r, Transitioned(r, s), s,
                   IF r.status = "running" THEN 0 ELSE r.token,
                   r.commit, r.pr, r.archived)
BY MovedRow, UnclaimedMovedRow DEF Transitioned

LEMMA ForceCancelledRow ==
    ASSUME NEW r \in Row
    PROVE  Edition(r, ForceCancelled(r), "cancelled",
                   IF r.status = "running" THEN 0 ELSE r.token,
                   r.commit, r.pr, r.archived)
<1> DEFINE m == Moved(IF r.status = "running" THEN Unclaimed(r) ELSE r, "cancelled")
<1>1. Edition(r, m, "cancelled", IF r.status = "running" THEN 0 ELSE r.token,
              r.commit, r.pr, r.archived)
  BY MovedRow, UnclaimedMovedRow DEF Status
<1>2. ForceCancelled(r) = [m EXCEPT !.retry = None]
  BY DEF ForceCancelled
<1> HIDE DEF m
<1>3. QED
  BY <1>1, <1>2, Times DEF Edition, Row

LEMMA DecisionRows ==
    ASSUME NEW r \in Row
    PROVE  /\ Edition(r, Asked(r), "needs_human", 0, r.commit, r.pr, r.archived)
           /\ Edition(r, Answered(r), "ready", r.token, r.commit, r.pr, r.archived)
BY MovedRow, UnclaimedMovedRow DEF Asked, Answered, Status

\* The effects that keep the status: the three patches and the archive mark.
LEMMA PatchedRows ==
    ASSUME NEW r \in Row
    PROVE  /\ Edition(r, Rerouted(r), r.status, r.token, r.commit, r.pr, r.archived)
           /\ Edition(r, Rebriefed(r), r.status, r.token, r.commit, r.pr, r.archived)
           /\ \A b \in BOOLEAN : Edition(r, Renamed(r, b), r.status, r.token,
                                         r.commit, r.pr, r.archived)
           /\ Edition(r, Archived(r), r.status, r.token, r.commit, r.pr, TRUE)
<1> DEFINE m == Moved(r, r.status)
<1>1. Edition(r, m, r.status, r.token, r.commit, r.pr, r.archived)
  BY MovedRow DEF Row
<1> DEFINE w == ~m.brief
<1>2. /\ Rerouted(r) = m
      /\ Rebriefed(r) = [m EXCEPT !.brief = w]
      /\ \A b \in BOOLEAN : Renamed(r, b) = [m EXCEPT !.renamed = b]
      /\ Archived(r) = [m EXCEPT !.archived = TRUE]
  BY <1>1 DEF Rerouted, Rebriefed, Renamed, Archived, Edition, Row
<1>3. w \in BOOLEAN
  OBVIOUS
<1> HIDE DEF m, w
<1>4. \A b \in BOOLEAN : [m EXCEPT !.brief = b] \in Row
  BY <1>1 DEF Edition, Row
<1>5. Edition(r, Rebriefed(r), r.status, r.token, r.commit, r.pr, r.archived)
  BY <1>1, <1>2, <1>3, <1>4 DEF Edition, Row
<1>6. ASSUME NEW b \in BOOLEAN
      PROVE  Edition(r, Renamed(r, b), r.status, r.token, r.commit, r.pr, r.archived)
  BY <1>1, <1>2 DEF Edition, Row
<1>7. Edition(r, Archived(r), r.status, r.token, r.commit, r.pr, TRUE)
  BY <1>1, <1>2 DEF Edition, Row
<1>8. QED
  BY <1>1, <1>2, <1>5, <1>6, <1>7

LEMMA DeliveredRows ==
    ASSUME NEW r \in Row, NEW k \in Nat
    PROVE  /\ Edition(r, Delivered(r, "approve_result", k), "awaiting_publish",
                      r.token, k, r.pr, r.archived)
           /\ Edition(r, Delivered(r, "authorize_publish", k), "pr_open",
                      r.token, r.commit, TRUE, r.archived)
           /\ Edition(r, Delivered(r, "confirm_merge", k), "done",
                      r.token, r.commit, r.pr, r.archived)
<1>1. Edition(r, Approved(r, k), "awaiting_publish", r.token, k, r.pr, r.archived)
  <2> DEFINE m == Moved(r, "awaiting_publish")
  <2>1. Edition(r, m, "awaiting_publish", r.token, r.commit, r.pr, r.archived)
    BY MovedRow DEF Status
  <2>2. Approved(r, k) = [m EXCEPT !.commit = k]
    BY DEF Approved
  <2> HIDE DEF m
  <2>3. QED
    BY <2>1, <2>2 DEF Edition, Row
<1>2. Edition(r, Published(r), "pr_open", r.token, r.commit, TRUE, r.archived)
  <2> DEFINE m == Moved(r, "pr_open")
  <2>1. Edition(r, m, "pr_open", r.token, r.commit, r.pr, r.archived)
    BY MovedRow DEF Status
  <2>2. Published(r) = [m EXCEPT !.pr = TRUE]
    BY DEF Published
  <2> HIDE DEF m
  <2>3. QED
    BY <2>1, <2>2 DEF Edition, Row
<1>3. Edition(r, Merged(r), "done", r.token, r.commit, r.pr, r.archived)
  BY MovedRow DEF Merged, Status
<1>4. QED
  BY <1>1, <1>2, <1>3 DEF Delivered

\* What one sweep does to one row.
LEMMA SweptRow ==
    ASSUME NEW r \in Row
    PROVE  /\ ~LeaseLapsed(r) /\ ~RetryDue(r) => Swept(r) = r
           /\ RetryDue(r) => Edition(r, Swept(r), "ready", r.token,
                                     r.commit, r.pr, r.archived)
           /\ LeaseLapsed(r) =>
                /\ Swept(r) \in Row
                /\ Swept(r).version > r.version
                /\ Swept(r).status \in {"retry_queued", "ready"}
                /\ Swept(r).token = 0
                /\ Swept(r).commit = r.commit
                /\ Swept(r).pr = r.pr
                /\ Swept(r).archived = r.archived
<1>1. CASE ~LeaseLapsed(r)
  BY <1>1, ReadiedRow DEF Swept, LeaseLapsed, RetryDue
<1>2. CASE LeaseLapsed(r)
  <2> DEFINE e == Expired(r)
  <2>1. Edition(r, e, "retry_queued", 0, r.commit, r.pr, r.archived)
    BY ExpiredRow
  <2>2. e \in Row
    BY <2>1 DEF Edition
  <2>3. Edition(e, Readied(e), "ready", e.token, e.commit, e.pr, e.archived)
    BY <2>2, ReadiedRow
  <2>4. Swept(r) = IF RetryDue(e) THEN Readied(e) ELSE e
    BY <1>2 DEF Swept
  <2>5. ~RetryDue(r)
    BY <1>2 DEF LeaseLapsed, RetryDue
  <2>6. r.version \in Nat
    BY DEF Row
  <2> HIDE DEF e
  <2>7. QED
    BY <1>2, <2>1, <2>3, <2>4, <2>5, <2>6 DEF Edition
<1>3. QED
  BY <1>1, <1>2

LEMMA EssenceRow ==
    ASSUME NEW r \in Row
    PROVE  /\ Essence(r) \in Row
           /\ Essence(r).version = r.version
           /\ Essence(r).status = r.status
           /\ Essence(r).token = r.token
           /\ Essence(r).commit = r.commit
           /\ Essence(r).pr = r.pr
           /\ Essence(r).archived = r.archived
BY Times DEF Essence, Row

-----------------------------------------------------------------------------
(* Type correctness *)

\* What TRANSITIONS says of the statuses at the two ends of an arc.
LEMMA Arcs ==
    ASSUME NEW arc \in Requested
    PROVE  /\ arc \in Transitions /\ arc[1] \in Status
           /\ arc[2] \in Status \ {"running"}
           /\ arc[1] = "running" => arc[2] \in AttemptStatus \ {"running", "none"}
           /\ arc[1] \notin Terminal
BY RequestedAssumption
   DEF Transitions, Cancellations, Cancellable, Status, AttemptStatus, Terminal

LEMMA FinishType ==
    ASSUME TypeOK, NEW i \in Issues, NEW s \in AttemptStatus, FinishAttempt(i, s)
    PROVE  attempts' \in [Issues -> [Attempt -> AttemptStatus]]
BY DEF TypeOK, FinishAttempt

LEMMA WriteType ==
    ASSUME TypeOK, NEW i \in Issues, NEW r \in Row, Write(i, r)
    PROVE  /\ rows' \in [Issues -> Row]
           /\ rows'[i] = r
           /\ \A j \in Issues \ {i} : rows'[j] = rows[j]
BY DEF TypeOK, Write

LEMMA CallType ==
    ASSUME TypeOK, NEW c \in Callers, calls[c] # Idle
    PROVE  /\ calls[c] \in Call
           /\ calls[c].issue \in Issues
           /\ calls[c].seen \in Row
           /\ calls[c].made \in Nat
           /\ calls[c].kind \in Kind
BY DEF TypeOK, Call

LEMMA ReturnType ==
    ASSUME TypeOK, NEW c \in Callers, Return(c)
    PROVE  calls' \in [Callers -> Call \cup {Idle}]
BY DEF TypeOK, Return

\* A call that goes on to a later phase.
LEMMA AdvanceType ==
    ASSUME TypeOK, NEW c \in Callers, calls[c] # Idle,
           NEW p \in {"sent", "checked", "effected", "cancelled"}
    PROVE  /\ [calls EXCEPT ![c].phase = p] \in [Callers -> Call \cup {Idle}]
           /\ \A k \in Nat : [calls EXCEPT ![c].phase = p, ![c].made = k]
                               \in [Callers -> Call \cup {Idle}]
           /\ \A r \in Row : [calls EXCEPT ![c].phase = p, ![c].seen = r]
                               \in [Callers -> Call \cup {Idle}]
<1> DEFINE C == Call \cup {Idle}
<1>1. calls[c] \in Call
  BY CallType
<1>2. calls \in [Callers -> C]
  BY DEF TypeOK
<1>3. [calls[c] EXCEPT !.phase = p] \in Call
  BY <1>1 DEF Call
<1>4. \A k \in Nat : [calls[c] EXCEPT !.phase = p, !.made = k] \in Call
  BY <1>1 DEF Call
<1>5. \A r \in Row : [calls[c] EXCEPT !.phase = p, !.seen = r] \in Call
  BY <1>1 DEF Call
<1> QED
  BY <1>2, <1>3, <1>4, <1>5

LEMMA InitType == Init => TypeOK
<1> SUFFICES ASSUME Init PROVE TypeOK
  OBVIOUS
<1>1. AbsentRow \in Row
  BY Times DEF AbsentRow, Row
<1>2. 0 \in 0..MaxAttempts
  BY MaxAttemptsAssumption
<1>3. "none" \in AttemptStatus
  BY DEF AttemptStatus
<1>4. QED
  BY <1>1, <1>2, <1>3 DEF Init, TypeOK

\* The handlers that write one row and may finish its Attempt.
LEMMA IssueStepType ==
    ASSUME TypeOK, NEW i \in Issues, OfIssue(i)
    PROVE  TypeOK'
<1>1. rows[i] \in Row
  BY DEF TypeOK
<1>2. CASE CreateIssue(i)
  <2>1. NewRow \in Row
    BY Times DEF NewRow, AbsentRow, Row, Status
  <2>2. QED
    BY <1>2, <2>1, WriteType DEF CreateIssue, TypeOK
<1>3. ASSUME NEW k \in Attempt, Heartbeat(i, k) PROVE TypeOK'
  BY <1>1, <1>3, RenewedRow, WriteType DEF Heartbeat, TypeOK
<1>4. ASSUME NEW k \in Attempt, NEW d \in ReleaseDelays, ReleaseClaim(i, k, d)
      PROVE TypeOK'
  <2>1. Released(rows[i], d) \in Row
    BY <1>1, ReleaseDelaysAssumption, ReleasedRow DEF Edition
  <2>2. attempts' \in [Issues -> [Attempt -> AttemptStatus]]
    BY <1>4, FinishType DEF ReleaseClaim, AttemptStatus
  <2>3. QED
    BY <1>4, <2>1, <2>2, WriteType DEF ReleaseClaim, TypeOK
<1>5. ASSUME NEW k \in Attempt, RequestHuman(i, k) PROVE TypeOK'
  <2>1. Asked(rows[i]) \in Row
    BY <1>1, DecisionRows DEF Edition
  <2>2. attempts' \in [Issues -> [Attempt -> AttemptStatus]]
    BY <1>5, FinishType DEF RequestHuman, AttemptStatus
  <2>3. QED
    BY <1>5, <2>1, <2>2, WriteType DEF RequestHuman, TypeOK
<1>6. ASSUME NEW k \in Attempt, ResolveHuman(i, k) PROVE TypeOK'
  <2>1. Answered(rows[i]) \in Row
    BY <1>1, DecisionRows DEF Edition
  <2>2. QED
    BY <1>6, <2>1, WriteType DEF ResolveHuman, TypeOK
<1>7. ASSUME NEW arc \in Requested, TransitionRunning(i, arc) PROVE TypeOK'
  <2>1. Transitioned(rows[i], arc[2]) \in Row
    BY <1>1, Arcs, TransitionedRow DEF Edition
  <2>2. attempts' \in [Issues -> [Attempt -> AttemptStatus]]
    BY <1>7, Arcs, FinishType DEF TransitionRunning
  <2>3. QED
    BY <1>7, <2>1, <2>2, WriteType DEF TransitionRunning, TypeOK
<1>8. ASSUME NEW arc \in Requested, TransitionIdle(i, arc) PROVE TypeOK'
  <2>1. Transitioned(rows[i], arc[2]) \in Row
    BY <1>1, Arcs, TransitionedRow DEF Edition
  <2>2. QED
    BY <1>8, <2>1, WriteType DEF TransitionIdle, TypeOK
<1>9. QED
  BY <1>2, <1>3, <1>4, <1>5, <1>6, <1>7, <1>8 DEF OfIssue

LEMMA CallStepType ==
    ASSUME TypeOK, NEW c \in Callers, OfCall(c)
    PROVE  TypeOK'
<1> DEFINE j == calls[c].issue
<1>1. calls[c] # Idle => j \in Issues /\ rows[j] \in Row /\ calls[c].made \in Nat
  BY CallType DEF TypeOK
<1>2. ASSUME NEW kind \in Kind, NEW i \in Issues, Send(c, kind, i) PROVE TypeOK'
  <2>1. Essence(rows[i]) \in Row
    BY EssenceRow DEF TypeOK
  <2>2. [phase |-> "sent", kind |-> kind, issue |-> i,
         seen |-> Essence(rows[i]), made |-> 0] \in Call
    BY <2>1 DEF Call
  <2>3. calls' \in [Callers -> Call \cup {Idle}]
    BY <1>2, <2>2 DEF Send, TypeOK
  <2>4. QED
    BY <1>2, <2>3 DEF Send, TypeOK
<1>3. CASE Drop(c)
  BY <1>3, ReturnType DEF Drop, TypeOK
<1>4. CASE ClaimIssue(c)
  <2>1. calls[c] # Idle
    BY <1>4 DEF ClaimIssue, Arrived
  <2>2. PICK k \in Attempt :
          /\ k = issued[j] + 1
          /\ issued' = [issued EXCEPT ![j] = k]
          /\ attempts' = [attempts EXCEPT ![j][k] = "running"]
          /\ Write(j, Claimed(rows[j], k))
    BY <1>4 DEF ClaimIssue
  <2>3. k \in Nat /\ k \in 0..MaxAttempts
    BY MaxAttemptsAssumption DEF Attempt
  <2>4. Claimed(rows[j], k) \in Row
    BY <1>1, <2>1, <2>3, ClaimedRow DEF Edition
  <2>5. rows' \in [Issues -> Row]
    BY <1>1, <2>1, <2>2, <2>4, WriteType
  <2>6. "running" \in AttemptStatus
    BY DEF AttemptStatus
  <2>7. attempts' \in [Issues -> [Attempt -> AttemptStatus]]
    BY <2>2, <2>6 DEF TypeOK
  <2>8. issued' \in [Issues -> 0..MaxAttempts]
    BY <2>2, <2>3 DEF TypeOK
  <2>9. calls' \in [Callers -> Call \cup {Idle}]
    BY <1>4, ReturnType DEF ClaimIssue
  <2>10. QED
    BY <1>4, <2>5, <2>7, <2>8, <2>9 DEF ClaimIssue, TypeOK
<1>5. CASE ContinueIssue(c)
  <2>1. calls[c] # Idle /\ Write(j, Continued(rows[j])) /\ Return(c)
    BY <1>5 DEF ContinueIssue, Arrived
  <2>2. Continued(rows[j]) \in Row
    BY <1>1, <2>1, ReadiedRow DEF Edition
  <2>3. QED
    BY <1>1, <1>5, <2>1, <2>2, WriteType, ReturnType DEF ContinueIssue, TypeOK
<1>6. CASE PatchIssue(c)
  <2>1. calls[c] # Idle /\ Return(c)
    BY <1>6 DEF PatchIssue, Arrived
  <2>2. PICK r \in Row : Write(j, r)
    <3>1. /\ Rerouted(rows[j]) \in Row
          /\ Rebriefed(rows[j]) \in Row
          /\ \A b \in BOOLEAN : Renamed(rows[j], b) \in Row
      BY <1>1, <2>1, PatchedRows DEF Edition
    <3>2. QED
      BY <1>6, <3>1 DEF PatchIssue
  <2>3. rows' \in [Issues -> Row]
    BY <1>1, <2>1, <2>2, WriteType
  <2>4. QED
    BY <1>6, <2>1, <2>3, ReturnType DEF PatchIssue, TypeOK
<1>7. CASE DeliverCheck(c)
  BY <1>7, AdvanceType DEF DeliverCheck, TypeOK
<1>8. CASE DeliverEffect(c)
  <2>1. calls[c] # Idle
    BY <1>8 DEF DeliverEffect
  <2>2. issued[j] \in Nat
    BY <1>1, <2>1, MaxAttemptsAssumption DEF TypeOK
  <2>3. calls' \in [Callers -> Call \cup {Idle}]
    BY <1>8, <2>1, <2>2, AdvanceType DEF DeliverEffect
  <2>4. QED
    BY <1>8, <2>3 DEF DeliverEffect, TypeOK
<1>9. CASE DeliverCommit(c)
  <2>1. calls[c] # Idle /\ Return(c)
        /\ Write(j, Delivered(rows[j], calls[c].kind, calls[c].made))
    BY <1>9 DEF DeliverCommit
  <2>2. Delivered(rows[j], calls[c].kind, calls[c].made) \in Row
    BY <1>1, <2>1, DeliveredRows DEF Edition, Delivered
  <2>3. QED
    BY <1>1, <1>9, <2>1, <2>2, WriteType, ReturnType DEF DeliverCommit, TypeOK
<1>10. CASE ArchiveCheck(c)
  BY <1>10, AdvanceType DEF ArchiveCheck, Arrived, TypeOK
<1>11. CASE ArchiveCancel(c)
  <2> DEFINE r == ForceCancelled(rows[j])
  <2>1. calls[c] # Idle
    BY <1>11 DEF ArchiveCancel, Arrived
  <2>2. r \in Row /\ Essence(r) \in Row
    BY <1>1, <2>1, ForceCancelledRow, EssenceRow DEF Edition
  <2>3. /\ Write(j, r)
        /\ calls' = [calls EXCEPT ![c].phase = "cancelled", ![c].seen = Essence(r)]
        /\ FinishAttempt(j, "cancelled") \/ UNCHANGED attempts
    BY <1>11 DEF ArchiveCancel
  <2> HIDE DEF r
  <2>4. calls' \in [Callers -> Call \cup {Idle}]
    BY <2>1, <2>2, <2>3, AdvanceType
  <2>5. rows' \in [Issues -> Row]
    BY <1>1, <2>1, <2>2, <2>3, WriteType
  <2>6. attempts' \in [Issues -> [Attempt -> AttemptStatus]]
    BY <1>1, <2>1, <2>3, FinishType DEF TypeOK, AttemptStatus
  <2>7. QED
    BY <1>11, <2>4, <2>5, <2>6 DEF ArchiveCancel, TypeOK
<1>12. CASE ArchiveCommit(c)
  <2>1. calls[c] # Idle /\ Return(c) /\ Write(j, Archived(rows[j]))
    BY <1>12 DEF ArchiveCommit, Arrived
  <2>2. Archived(rows[j]) \in Row
    BY <1>1, <2>1, PatchedRows DEF Edition
  <2>3. QED
    BY <1>1, <1>12, <2>1, <2>2, WriteType, ReturnType DEF ArchiveCommit, TypeOK
<1>13. QED
  BY <1>2, <1>3, <1>4, <1>5, <1>6, <1>7, <1>8, <1>9, <1>10, <1>11, <1>12 DEF OfCall

LEMMA StepType ==
    ASSUME TypeOK, [Next]_vars
    PROVE  TypeOK'
<1>1. CASE MaintenanceTick
  <2>1. \A i \in Issues : Swept(rows[i]) \in Row
    BY SweptRow DEF TypeOK, Edition
  <2>2. "retry_queued" \in AttemptStatus
    BY DEF AttemptStatus
  <2>3. attempts' \in [Issues -> [Attempt -> AttemptStatus]]
    BY <1>1, <2>2 DEF MaintenanceTick, TypeOK
  <2>4. QED
    BY <1>1, <2>1, <2>3 DEF MaintenanceTick, TypeOK
<1>2. CASE Tick
  <2>1. \A i \in Issues : AgedRow(rows[i]) \in Row
    BY AgedRowRow DEF TypeOK
  <2>2. QED
    BY <1>2, <2>1 DEF Tick, TypeOK
<1>3. CASE SwitchProject
  BY <1>3 DEF SwitchProject, TypeOK
<1>4. CASE UNCHANGED vars
  BY <1>4 DEF vars, TypeOK
<1>5. QED
  BY <1>1, <1>2, <1>3, <1>4, IssueStepType, CallStepType DEF Next

\* Every reachable state is well typed.
THEOREM TypeCorrect == Spec => []TypeOK
<1>1. TypeOK /\ [Next]_vars => TypeOK'
  BY StepType
<1>2. QED
  BY InitType, <1>1, PTL DEF Spec

-----------------------------------------------------------------------------
(* OneActiveAttempt is inductive over well-typed states *)

\* A handler that keeps the claim, or that ends it together with its Attempt.
LEMMA OneActiveWrite ==
    ASSUME TypeOK, OneActiveAttempt, NEW i \in Issues, NEW r \in Row,
           Write(i, r), UNCHANGED issued,
           \/ /\ UNCHANGED attempts
              /\ r.token = rows[i].token
              /\ (r.status = "running") <=> (rows[i].status = "running")
           \/ /\ \E s \in AttemptStatus \ {"running"} : FinishAttempt(i, s)
              /\ r.token = 0
              /\ r.status # "running"
    PROVE  OneActiveAttempt'
<1>1. rows'[i] = r /\ \A j \in Issues \ {i} : rows'[j] = rows[j]
  BY WriteType
<1>2. CASE UNCHANGED attempts /\ r.token = rows[i].token
           /\ ((r.status = "running") <=> (rows[i].status = "running"))
  BY <1>1, <1>2 DEF OneActiveAttempt
<1>3. ASSUME NEW s \in AttemptStatus \ {"running"}, FinishAttempt(i, s),
             r.token = 0, r.status # "running"
      PROVE  OneActiveAttempt'
  <2>1. PICK k \in Attempt : attempts[i][k] = "running"
                             /\ attempts' = [attempts EXCEPT ![i][k] = s]
    BY <1>3 DEF FinishAttempt, IsActive
  <2>2. \A j \in Attempt : attempts[i][j] = "running" => j = k
    BY <2>1 DEF OneActiveAttempt
  <2>3. \A j \in Attempt : attempts'[i][j] # "running"
    BY <2>1, <2>2 DEF TypeOK
  <2>4. \A j \in Attempt : 0 # j
    BY DEF Attempt
  <2>5. \A j \in Issues \ {i} : attempts'[j] = attempts[j]
    BY <2>1 DEF TypeOK
  <2>6. QED
    BY <1>1, <1>3, <2>3, <2>4, <2>5 DEF OneActiveAttempt
<1>4. QED
  BY <1>2, <1>3

\* A step that leaves the table of Issues and the Attempts alone.
LEMMA OneActiveElsewhere ==
    ASSUME OneActiveAttempt, UNCHANGED <<rows, issued, attempts>>
    PROVE  OneActiveAttempt'
BY DEF OneActiveAttempt

LEMMA OneActiveIssueStep ==
    ASSUME TypeOK, OneActiveAttempt, NEW i \in Issues, OfIssue(i)
    PROVE  OneActiveAttempt'
<1>1. rows[i] \in Row
  BY DEF TypeOK
<1>2. CASE CreateIssue(i)
  <2>1. /\ NewRow \in Row /\ NewRow.token = 0 /\ NewRow.status = "ready"
    BY Times DEF NewRow, AbsentRow, Row, Status
  <2>2. rows[i].status = Absent /\ rows[i].token = 0
    BY <1>2 DEF CreateIssue, OneActiveAttempt, Absent
  <2>3. Write(i, NewRow) /\ UNCHANGED <<issued, attempts>>
    BY <1>2 DEF CreateIssue
  <2>4. QED
    BY <2>1, <2>2, <2>3, OneActiveWrite DEF Absent
<1>3. ASSUME NEW k \in Attempt, Heartbeat(i, k) PROVE OneActiveAttempt'
  <2>1. /\ Renewed(rows[i]) \in Row
        /\ Renewed(rows[i]).token = rows[i].token
        /\ Renewed(rows[i]).status = rows[i].status
    BY <1>1, RenewedRow DEF Renewed, Row
  <2>2. QED
    BY <1>3, <2>1, OneActiveWrite DEF Heartbeat
<1>4. ASSUME NEW k \in Attempt, NEW d \in ReleaseDelays, ReleaseClaim(i, k, d)
      PROVE OneActiveAttempt'
  <2>1. Edition(rows[i], Released(rows[i], d), "retry_queued", 0,
                rows[i].commit, rows[i].pr, rows[i].archived)
    BY <1>1, ReleaseDelaysAssumption, ReleasedRow
  <2>2. "retry_queued" \in AttemptStatus \ {"running"}
    BY DEF AttemptStatus
  <2>3. QED
    BY <1>4, <2>1, <2>2, OneActiveWrite DEF ReleaseClaim, Edition
<1>5. ASSUME NEW k \in Attempt, RequestHuman(i, k) PROVE OneActiveAttempt'
  <2>1. Edition(rows[i], Asked(rows[i]), "needs_human", 0,
                rows[i].commit, rows[i].pr, rows[i].archived)
    BY <1>1, DecisionRows
  <2>2. "needs_human" \in AttemptStatus \ {"running"}
    BY DEF AttemptStatus
  <2>3. QED
    BY <1>5, <2>1, <2>2, OneActiveWrite DEF RequestHuman, Edition
<1>6. ASSUME NEW k \in Attempt, ResolveHuman(i, k) PROVE OneActiveAttempt'
  <2>1. Edition(rows[i], Answered(rows[i]), "ready", rows[i].token,
                rows[i].commit, rows[i].pr, rows[i].archived)
    BY <1>1, DecisionRows
  <2>2. QED
    BY <1>6, <2>1, OneActiveWrite DEF ResolveHuman, Edition
<1>7. ASSUME NEW arc \in Requested, TransitionRunning(i, arc) PROVE OneActiveAttempt'
  <2>1. Edition(rows[i], Transitioned(rows[i], arc[2]), arc[2], 0,
                rows[i].commit, rows[i].pr, rows[i].archived)
    BY <1>1, <1>7, Arcs, TransitionedRow DEF TransitionRunning
  <2>2. arc[2] \in AttemptStatus \ {"running"}
    BY <1>7, Arcs DEF TransitionRunning
  <2>3. QED
    BY <1>7, <2>1, <2>2, OneActiveWrite DEF TransitionRunning, Edition
<1>8. ASSUME NEW arc \in Requested, TransitionIdle(i, arc) PROVE OneActiveAttempt'
  <2>1. Edition(rows[i], Transitioned(rows[i], arc[2]), arc[2], rows[i].token,
                rows[i].commit, rows[i].pr, rows[i].archived)
    BY <1>1, <1>8, Arcs, TransitionedRow DEF TransitionIdle
  <2>2. arc[2] # "running" /\ rows[i].status # "running"
    BY <1>8, Arcs DEF TransitionIdle
  <2>3. QED
    BY <1>8, <2>1, <2>2, OneActiveWrite DEF TransitionIdle, Edition
<1>9. QED
  BY <1>2, <1>3, <1>4, <1>5, <1>6, <1>7, <1>8 DEF OfIssue

LEMMA OneActiveCallStep ==
    ASSUME TypeOK, OneActiveAttempt, NEW c \in Callers, OfCall(c)
    PROVE  OneActiveAttempt'
<1> DEFINE j == calls[c].issue
<1>1. calls[c] # Idle => j \in Issues /\ rows[j] \in Row /\ calls[c].made \in Nat
  BY CallType DEF TypeOK
<1>2. CASE \/ \E kind \in Kind, i \in Issues : Send(c, kind, i)
           \/ Drop(c) \/ DeliverCheck(c) \/ DeliverEffect(c) \/ ArchiveCheck(c)
  BY <1>2, OneActiveElsewhere DEF Send, Drop, DeliverCheck, DeliverEffect, ArchiveCheck
<1>3. CASE ClaimIssue(c)
  <2>1. calls[c] # Idle
    BY <1>3 DEF ClaimIssue, Arrived
  <2>2. PICK k \in Attempt :
          /\ k = issued[j] + 1
          /\ issued' = [issued EXCEPT ![j] = k]
          /\ attempts' = [attempts EXCEPT ![j][k] = "running"]
          /\ Write(j, Claimed(rows[j], k))
    BY <1>3 DEF ClaimIssue
  <2>3. rows[j].status = "ready"
    BY <1>3 DEF ClaimIssue, Claimable
  <2>4. rows[j].token = 0 /\ \A m \in Attempt : attempts[j][m] # "running"
    BY <1>1, <2>1, <2>3 DEF OneActiveAttempt, Attempt
  <2>5. k \in Nat /\ k # 0
    BY DEF Attempt
  <2>6. /\ Claimed(rows[j], k) \in Row
        /\ Claimed(rows[j], k).token = k
        /\ Claimed(rows[j], k).status = "running"
    BY <1>1, <2>1, <2>5, ClaimedRow DEF Edition
  <2>7. /\ rows'[j] = Claimed(rows[j], k)
        /\ \A i \in Issues \ {j} : rows'[i] = rows[i]
    BY <1>1, <2>1, <2>2, <2>6, WriteType
  <2>8. /\ issued'[j] = k
        /\ \A i \in Issues \ {j} : issued'[i] = issued[i]
    BY <1>1, <2>1, <2>2 DEF TypeOK
  <2>9. /\ \A m \in Attempt : attempts'[j][m] = "running" <=> m = k
        /\ \A i \in Issues \ {j} : attempts'[i] = attempts[i]
    BY <1>1, <2>1, <2>2, <2>4 DEF TypeOK
  <2>10. QED
    BY <2>5, <2>6, <2>7, <2>8, <2>9 DEF OneActiveAttempt
<1>4. CASE ContinueIssue(c)
  <2>1. /\ calls[c] # Idle /\ Write(j, Continued(rows[j]))
        /\ rows[j].status = "reviewing" /\ UNCHANGED <<issued, attempts>>
    BY <1>4 DEF ContinueIssue, Arrived
  <2>2. Edition(rows[j], Continued(rows[j]), "ready", rows[j].token,
                rows[j].commit, rows[j].pr, rows[j].archived)
    BY <1>1, <2>1, ReadiedRow
  <2>3. QED
    BY <1>1, <2>1, <2>2, OneActiveWrite DEF Edition
<1>5. CASE PatchIssue(c)
  <2>1. calls[c] # Idle /\ UNCHANGED <<issued, attempts>>
    BY <1>5 DEF PatchIssue, Arrived
  <2>2. PICK r \in Row : /\ Write(j, r) /\ r.token = rows[j].token
                         /\ r.status = rows[j].status
    <3>1. /\ Edition(rows[j], Rerouted(rows[j]), rows[j].status, rows[j].token,
                     rows[j].commit, rows[j].pr, rows[j].archived)
          /\ Edition(rows[j], Rebriefed(rows[j]), rows[j].status, rows[j].token,
                     rows[j].commit, rows[j].pr, rows[j].archived)
          /\ \A b \in BOOLEAN :
               Edition(rows[j], Renamed(rows[j], b), rows[j].status, rows[j].token,
                       rows[j].commit, rows[j].pr, rows[j].archived)
      BY <1>1, <2>1, PatchedRows
    <3>2. QED
      BY <1>5, <3>1 DEF PatchIssue, Edition
  <2>3. QED
    BY <1>1, <2>1, <2>2, OneActiveWrite
<1>6. CASE DeliverCommit(c)
  <2>1. /\ calls[c] # Idle /\ UNCHANGED <<issued, attempts>>
        /\ Write(j, Delivered(rows[j], calls[c].kind, calls[c].made))
        /\ calls[c].kind \in Delivery
        /\ rows[j].status = DeliverFrom[calls[c].kind]
    BY <1>6 DEF DeliverCommit
  <2> DEFINE r == Delivered(rows[j], calls[c].kind, calls[c].made)
  <2>2. /\ r \in Row /\ r.token = rows[j].token
        /\ r.status \in {"awaiting_publish", "pr_open", "done"}
    BY <1>1, <2>1, DeliveredRows DEF Edition, Delivered
  <2>3. rows[j].status # "running"
    BY <2>1 DEF Delivery, DeliverFrom
  <2> HIDE DEF r
  <2>4. QED
    BY <1>1, <2>1, <2>2, <2>3, OneActiveWrite DEF r
<1>7. CASE ArchiveCancel(c)
  <2> DEFINE r == ForceCancelled(rows[j])
  <2>1. /\ calls[c] # Idle /\ Write(j, r) /\ UNCHANGED issued
        /\ IF rows[j].status = "running" THEN FinishAttempt(j, "cancelled")
                                         ELSE UNCHANGED attempts
    BY <1>7 DEF ArchiveCancel, Arrived
  <2>2. Edition(rows[j], r, "cancelled",
                IF rows[j].status = "running" THEN 0 ELSE rows[j].token,
                rows[j].commit, rows[j].pr, rows[j].archived)
    BY <1>1, <2>1, ForceCancelledRow
  <2>3. "cancelled" \in AttemptStatus \ {"running"}
    BY DEF AttemptStatus
  <2> HIDE DEF r
  <2>4. QED
    BY <1>1, <2>1, <2>2, <2>3, OneActiveWrite DEF Edition
<1>8. CASE ArchiveCommit(c)
  <2>1. /\ calls[c] # Idle /\ Write(j, Archived(rows[j]))
        /\ UNCHANGED <<issued, attempts>>
    BY <1>8 DEF ArchiveCommit, Arrived
  <2>2. Edition(rows[j], Archived(rows[j]), rows[j].status, rows[j].token,
                rows[j].commit, rows[j].pr, TRUE)
    BY <1>1, <2>1, PatchedRows
  <2>3. QED
    BY <1>1, <2>1, <2>2, OneActiveWrite DEF Edition
<1>9. QED
  BY <1>2, <1>3, <1>4, <1>5, <1>6, <1>7, <1>8 DEF OfCall

LEMMA OneActiveStep ==
    ASSUME TypeOK, OneActiveAttempt, [Next]_vars
    PROVE  OneActiveAttempt'
<1>1. CASE MaintenanceTick
  <2> SUFFICES ASSUME NEW i \in Issues
               PROVE  /\ (rows'[i].status = "running") <=> (rows'[i].token # 0)
                      /\ rows'[i].token # 0 => rows'[i].token = issued'[i]
                      /\ \A k \in Attempt :
                           (attempts'[i][k] = "running") <=> (rows'[i].token = k)
    BY DEF OneActiveAttempt
  <2>1. /\ rows'[i] = Swept(rows[i])
        /\ issued'[i] = issued[i]
        /\ \A k \in Attempt : attempts'[i][k] =
             IF LeaseLapsed(rows[i]) /\ IsActive(i, k)
               THEN "retry_queued" ELSE attempts[i][k]
    BY <1>1 DEF MaintenanceTick
  <2>2. rows[i] \in Row
    BY DEF TypeOK
  <2>3. CASE LeaseLapsed(rows[i])
    <3>1. rows'[i].token = 0 /\ rows'[i].status # "running"
      BY <2>1, <2>2, <2>3, SweptRow
    <3>2. \A k \in Attempt : attempts[i][k] = "running" => IsActive(i, k)
      BY DEF OneActiveAttempt, IsActive, Attempt
    <3>3. \A k \in Attempt : attempts'[i][k] # "running" /\ k # 0
      BY <2>1, <2>3, <3>2 DEF Attempt
    <3>4. QED
      BY <3>1, <3>3
  <2>4. CASE ~LeaseLapsed(rows[i]) /\ RetryDue(rows[i])
    <3>1. rows'[i].token = rows[i].token /\ rows'[i].status = "ready"
      BY <2>1, <2>2, <2>4, SweptRow DEF Edition
    <3>2. rows[i].status # "running"
      BY <2>4 DEF RetryDue
    <3>3. QED
      BY <2>1, <2>4, <3>1, <3>2 DEF OneActiveAttempt
  <2>5. CASE ~LeaseLapsed(rows[i]) /\ ~RetryDue(rows[i])
    BY <2>1, <2>2, <2>5, SweptRow DEF OneActiveAttempt
  <2>6. QED
    BY <2>3, <2>4, <2>5
<1>2. CASE Tick
  <2>1. \A i \in Issues : /\ rows'[i].token = rows[i].token
                          /\ rows'[i].status = rows[i].status
    BY <1>2 DEF Tick, AgedRow, TypeOK, Row
  <2>2. QED
    BY <1>2, <2>1 DEF Tick, OneActiveAttempt
<1>3. CASE SwitchProject \/ UNCHANGED vars
  BY <1>3, OneActiveElsewhere DEF SwitchProject, vars
<1>4. QED
  BY <1>1, <1>2, <1>3, OneActiveIssueStep, OneActiveCallStep DEF Next

\* The claim and the Attempts tell one story in every reachable state.
THEOREM OneActive == Spec => []OneActiveAttempt
<1>1. Init => OneActiveAttempt
  BY DEF Init, OneActiveAttempt, AbsentRow, Absent, Attempt
<1>2. TypeOK /\ OneActiveAttempt /\ [Next]_vars => OneActiveAttempt'
  BY OneActiveStep
<1>3. QED
  BY <1>1, <1>2, TypeCorrect, PTL DEF Spec

-----------------------------------------------------------------------------
(* The lifecycle, the version and the archive rest on one invariant *)

\* A row that is not there has no version, and only an ended Issue is archived.
RowsAreSane ==
    \A i \in Issues :
      /\ rows[i].status = Absent => rows[i].version = 0
      /\ rows[i].archived => rows[i].status \in Terminal

\* A caller has read a row that is there, and an archive that has passed its
\* check is of a row that was not archived.
CallsAreSane ==
    \A c \in Callers : calls[c] # Idle =>
      /\ calls[c].seen.status # Absent
      /\ calls[c].kind = "archive" /\ calls[c].phase \in {"checked", "cancelled"}
           => ~calls[c].seen.archived

IInv == TypeOK /\ RowsAreSane /\ CallsAreSane /\ VersionNamesContents

\* What a step may do to one row: nothing but move its clocks, or give it a
\* higher version and a status the lifecycle allows.
RowStep(r, q) ==
    \/ Essence(q) = Essence(r)
    \/ /\ q.version > r.version
       /\ q.status # Absent
       /\ q.status = r.status \/ Lifecycle!Move(r.status, q.status)
       /\ r.status \in Terminal => ~r.archived /\ q.status = r.status
       /\ q.archived => r.archived \/ r.status \in Terminal

LEMMA Moves ==
    /\ \A arc \in Transitions : Lifecycle!Move(arc[1], arc[2])
    /\ \A s \in Status \ Terminal : Lifecycle!Move(s, "cancelled")
    /\ Lifecycle!Move(Absent, "ready")
    /\ Lifecycle!Move("ready", "running")
    /\ Lifecycle!Move("running", "retry_queued")
    /\ Lifecycle!Move("running", "ready")
    /\ Lifecycle!Move("retry_queued", "ready")
    /\ Lifecycle!Move("running", "needs_human")
    /\ Lifecycle!Move("needs_human", "ready")
    /\ Lifecycle!Move("reviewing", "ready")
    /\ Lifecycle!Move("reviewing", "awaiting_publish")
    /\ Lifecycle!Move("awaiting_publish", "pr_open")
    /\ Lifecycle!Move("pr_open", "done")
<1>1. Lifecycle!Protocol = Protocol /\ Lifecycle!Status = Status
      /\ Lifecycle!Terminal = Terminal /\ Lifecycle!Absent = Absent
  BY DEF Lifecycle!Protocol, Protocol, Lifecycle!Transitions, Transitions,
         Lifecycle!Cancellations, Cancellations, Lifecycle!Cancellable, Cancellable,
         Lifecycle!Status, Status, Lifecycle!Terminal, Terminal,
         Lifecycle!Absent, Absent
<1>2. \A arc \in Protocol : Lifecycle!Move(arc[1], arc[2])
  BY <1>1 DEF Lifecycle!Move, Lifecycle!FollowArc
<1>3. \A s \in Status \ Terminal : Lifecycle!Move(s, "cancelled")
  BY <1>1 DEF Lifecycle!Move, Lifecycle!ForceCancel
<1>4. Lifecycle!Move(Absent, "ready") /\ Lifecycle!Move("running", "ready")
  BY <1>1 DEF Lifecycle!Move, Lifecycle!Create, Lifecycle!ExpireAndReady
<1>5. /\ <<"ready", "running", "claimed">> \in Protocol
      /\ <<"running", "retry_queued", "retry_scheduled">> \in Protocol
      /\ <<"retry_queued", "ready", "retry_due">> \in Protocol
      /\ <<"running", "needs_human", "human_input_requested">> \in Protocol
      /\ <<"needs_human", "ready", "human_input_resolved">> \in Protocol
      /\ <<"reviewing", "ready", "result_rejected">> \in Protocol
      /\ <<"reviewing", "awaiting_publish", "result_approved">> \in Protocol
      /\ <<"awaiting_publish", "pr_open", "review_request_created">> \in Protocol
      /\ <<"pr_open", "done", "review_request_merged">> \in Protocol
  BY DEF Protocol, Transitions
<1>6. Transitions \subseteq Protocol
  BY DEF Protocol
<1>7. QED
  BY <1>2, <1>3, <1>4, <1>5, <1>6

\* An edition that keeps the archive mark, of a row whose Issue has not ended.
LEMMA EditionStep ==
    ASSUME NEW r \in Row, NEW q, NEW s, NEW k, NEW c, NEW p,
           Edition(r, q, s, k, c, p, r.archived),
           s # Absent, r.status \notin Terminal,
           s = r.status \/ Lifecycle!Move(r.status, s)
    PROVE  RowStep(r, q)
<1>1. q.version > r.version
  BY DEF Edition, Row
<1>2. QED
  BY <1>1 DEF Edition, RowStep

LEMMA NotTerminal ==
    /\ \A s \in {"ready", "running", "retry_queued", "needs_human", "blocked",
                 "reviewing", "awaiting_publish", "pr_open"} :
         s \in Status \ Terminal
    /\ \A s \in Status : s # Absent
BY DEF Status, Terminal, Absent

\* Every handler of one Issue takes one RowStep of that Issue.
LEMMA IssueRowStep ==
    ASSUME TypeOK, RowsAreSane, NEW i \in Issues, OfIssue(i)
    PROVE  /\ RowStep(rows[i], rows'[i])
           /\ \A m \in Issues \ {i} : rows'[m] = rows[m]
           /\ calls' = calls
<1>1. rows[i] \in Row
  BY DEF TypeOK
<1> DEFINE Goal == /\ RowStep(rows[i], rows'[i])
                   /\ \A m \in Issues \ {i} : rows'[m] = rows[m]
                   /\ calls' = calls
<1>2. CASE CreateIssue(i)
  <2>1. /\ NewRow \in Row /\ NewRow.version = 1 /\ NewRow.status = "ready"
        /\ NewRow.archived = FALSE
    BY Times DEF NewRow, AbsentRow, Row, Status
  <2>2. rows[i].status = Absent /\ rows[i].version = 0 /\ ~rows[i].archived
    BY <1>2 DEF CreateIssue, RowsAreSane, Terminal, Absent
  <2>3. Lifecycle!Move(rows[i].status, "ready")
    BY <2>2, Moves
  <2>4. rows'[i] = NewRow /\ (\A m \in Issues \ {i} : rows'[m] = rows[m])
        /\ calls' = calls
    BY <1>2, <2>1, WriteType DEF CreateIssue
  <2>5. QED
    BY <2>1, <2>2, <2>3, <2>4 DEF RowStep, Terminal, Absent
<1>3. ASSUME NEW k \in Attempt, Heartbeat(i, k) PROVE Goal
  BY <1>1, <1>3, RenewedRow, WriteType DEF Heartbeat, RowStep
<1>4. ASSUME NEW k \in Attempt, NEW d \in ReleaseDelays, ReleaseClaim(i, k, d)
      PROVE Goal
  <2>1. Edition(rows[i], Released(rows[i], d), "retry_queued", 0,
                rows[i].commit, rows[i].pr, rows[i].archived)
    BY <1>1, ReleaseDelaysAssumption, ReleasedRow
  <2>2. rows[i].status = "running"
    BY <1>4 DEF ReleaseClaim, HoldsClaim
  <2>3. RowStep(rows[i], Released(rows[i], d))
    BY <1>1, <2>1, <2>2, Moves, NotTerminal, EditionStep
  <2>4. QED
    BY <1>4, <2>1, <2>3, WriteType DEF ReleaseClaim, Edition
<1>5. ASSUME NEW k \in Attempt, RequestHuman(i, k) PROVE Goal
  <2>1. Edition(rows[i], Asked(rows[i]), "needs_human", 0,
                rows[i].commit, rows[i].pr, rows[i].archived)
    BY <1>1, DecisionRows
  <2>2. rows[i].status = "running"
    BY <1>5 DEF RequestHuman, HoldsClaim
  <2>3. RowStep(rows[i], Asked(rows[i]))
    BY <1>1, <2>1, <2>2, Moves, NotTerminal, EditionStep
  <2>4. QED
    BY <1>5, <2>1, <2>3, WriteType DEF RequestHuman, Edition
<1>6. ASSUME NEW k \in Attempt, ResolveHuman(i, k) PROVE Goal
  <2>1. Edition(rows[i], Answered(rows[i]), "ready", rows[i].token,
                rows[i].commit, rows[i].pr, rows[i].archived)
    BY <1>1, DecisionRows
  <2>2. rows[i].status = "needs_human"
    BY <1>6 DEF ResolveHuman
  <2>3. RowStep(rows[i], Answered(rows[i]))
    BY <1>1, <2>1, <2>2, Moves, NotTerminal, EditionStep
  <2>4. QED
    BY <1>6, <2>1, <2>3, WriteType DEF ResolveHuman, Edition
<1>7. ASSUME NEW arc \in Requested, TransitionRunning(i, arc) \/ TransitionIdle(i, arc)
      PROVE Goal
  <2>1. Edition(rows[i], Transitioned(rows[i], arc[2]), arc[2],
                IF rows[i].status = "running" THEN 0 ELSE rows[i].token,
                rows[i].commit, rows[i].pr, rows[i].archived)
    BY <1>1, Arcs, TransitionedRow
  <2>2. rows[i].status = arc[1]
    BY <1>7 DEF TransitionRunning, TransitionIdle
  <2>3. Lifecycle!Move(rows[i].status, arc[2]) /\ arc[2] # Absent
        /\ rows[i].status \notin Terminal
    BY <2>2, Arcs, Moves, NotTerminal
  <2>4. RowStep(rows[i], Transitioned(rows[i], arc[2]))
    BY <1>1, <2>1, <2>3, EditionStep
  <2>5. QED
    BY <1>7, <2>1, <2>4, WriteType DEF TransitionRunning, TransitionIdle, Edition
<1>8. QED
  BY <1>2, <1>3, <1>4, <1>5, <1>6, <1>7 DEF OfIssue

\* Every command with a version takes one RowStep of its Issue, or none.
LEMMA CallRowStep ==
    ASSUME IInv, NEW c \in Callers, OfCall(c)
    PROVE  \A m \in Issues : RowStep(rows[m], rows'[m])
<1> USE DEF IInv
<1> DEFINE j == calls[c].issue
           Goal == \A m \in Issues : RowStep(rows[m], rows'[m])
<1>1. calls[c] # Idle => j \in Issues /\ rows[j] \in Row /\ calls[c].made \in Nat
  BY CallType DEF TypeOK
<1>2. ASSUME NEW q \in Row, calls[c] # Idle, Write(j, q), RowStep(rows[j], q)
      PROVE Goal
  BY <1>1, <1>2, WriteType DEF RowStep
<1>3. calls[c] # Idle /\ Current(c) =>
        /\ rows[j].status = calls[c].seen.status
        /\ rows[j].archived = calls[c].seen.archived
  BY <1>1, EssenceRow DEF Current, VersionNamesContents
<1>4. CASE \/ \E kind \in Kind, i \in Issues : Send(c, kind, i)
           \/ Drop(c) \/ DeliverCheck(c) \/ DeliverEffect(c) \/ ArchiveCheck(c)
  BY <1>4 DEF Send, Drop, DeliverCheck, DeliverEffect, ArchiveCheck, RowStep
<1>5. CASE ClaimIssue(c)
  <2>1. calls[c] # Idle /\ rows[j].status = "ready"
    BY <1>5 DEF ClaimIssue, Arrived, Claimable
  <2>2. PICK k \in Attempt : Write(j, Claimed(rows[j], k))
    BY <1>5 DEF ClaimIssue
  <2>3. k \in Nat
    BY DEF Attempt
  <2>4. Edition(rows[j], Claimed(rows[j], k), "running", k,
                rows[j].commit, rows[j].pr, rows[j].archived)
    BY <1>1, <2>1, <2>3, ClaimedRow
  <2>5. RowStep(rows[j], Claimed(rows[j], k))
    BY <1>1, <2>1, <2>4, Moves, NotTerminal, EditionStep
  <2>6. QED
    BY <1>2, <2>1, <2>2, <2>4, <2>5 DEF Edition
<1>6. CASE ContinueIssue(c)
  <2>1. calls[c] # Idle /\ rows[j].status = "reviewing" /\ Write(j, Continued(rows[j]))
    BY <1>6 DEF ContinueIssue, Arrived
  <2>2. Edition(rows[j], Continued(rows[j]), "ready", rows[j].token,
                rows[j].commit, rows[j].pr, rows[j].archived)
    BY <1>1, <2>1, ReadiedRow
  <2>3. RowStep(rows[j], Continued(rows[j]))
    BY <1>1, <2>1, <2>2, Moves, NotTerminal, EditionStep
  <2>4. QED
    BY <1>2, <2>1, <2>2, <2>3 DEF Edition
<1>7. CASE PatchIssue(c)
  <2>1. calls[c] # Idle /\ rows[j].status \in Editable
    BY <1>7 DEF PatchIssue, Arrived
  <2>2. rows[j].status \in Status \ Terminal /\ rows[j].status # Absent
    BY <2>1, NotTerminal DEF Editable
  <2>3. PICK q \in Row :
          /\ Write(j, q)
          /\ Edition(rows[j], q, rows[j].status, rows[j].token,
                     rows[j].commit, rows[j].pr, rows[j].archived)
    BY <1>1, <1>7, <2>1, PatchedRows DEF PatchIssue, Edition
  <2>4. RowStep(rows[j], q)
    BY <1>1, <2>1, <2>2, <2>3, EditionStep
  <2>5. QED
    BY <1>2, <2>1, <2>3, <2>4
<1>8. CASE DeliverCommit(c)
  <2>1. /\ calls[c] # Idle /\ calls[c].kind \in Delivery
        /\ Write(j, Delivered(rows[j], calls[c].kind, calls[c].made))
        /\ rows[j].status = DeliverFrom[calls[c].kind]
    BY <1>8 DEF DeliverCommit
  <2> DEFINE q == Delivered(rows[j], calls[c].kind, calls[c].made)
             s == CASE calls[c].kind = "approve_result" -> "awaiting_publish"
                    [] calls[c].kind = "authorize_publish" -> "pr_open"
                    [] OTHER -> "done"
  <2>2. \E k, p : Edition(rows[j], q, s, rows[j].token, k, p, rows[j].archived)
    BY <1>1, <2>1, DeliveredRows DEF Delivery, DeliverFrom
  <2>3. /\ rows[j].status \in Status \ Terminal
        /\ Lifecycle!Move(rows[j].status, s)
        /\ s # Absent
    BY <2>1, Moves, NotTerminal DEF Delivery, DeliverFrom, Absent
  <2> HIDE DEF q, s
  <2>4. q \in Row
    BY <2>2 DEF Edition
  <2>5. RowStep(rows[j], q)
    BY <1>1, <2>1, <2>2, <2>3, EditionStep
  <2>6. QED
    BY <1>2, <2>1, <2>4, <2>5 DEF q
<1>9. CASE ArchiveCancel(c)
  <2>1. /\ calls[c] # Idle /\ Current(c) /\ calls[c].seen.status \notin Terminal
        /\ Write(j, ForceCancelled(rows[j]))
    BY <1>9 DEF ArchiveCancel, Arrived
  <2>2. rows[j].status \in Status \ Terminal
    BY <1>1, <1>3, <2>1 DEF CallsAreSane, Row
  <2>3. Edition(rows[j], ForceCancelled(rows[j]), "cancelled",
                IF rows[j].status = "running" THEN 0 ELSE rows[j].token,
                rows[j].commit, rows[j].pr, rows[j].archived)
    BY <1>1, <2>1, ForceCancelledRow
  <2>4. Lifecycle!Move(rows[j].status, "cancelled") /\ "cancelled" # Absent
    BY <2>2, Moves DEF Absent
  <2>5. RowStep(rows[j], ForceCancelled(rows[j]))
    BY <1>1, <2>1, <2>2, <2>3, <2>4, EditionStep
  <2>6. QED
    BY <1>2, <2>1, <2>3, <2>5 DEF Edition
<1>10. CASE ArchiveCommit(c)
  <2>1. /\ calls[c] # Idle /\ Current(c) /\ rows[j].status \in Terminal
        /\ calls[c].kind = "archive" /\ calls[c].phase \in {"checked", "cancelled"}
        /\ Write(j, Archived(rows[j]))
    BY <1>10 DEF ArchiveCommit, Arrived
  <2>2. ~rows[j].archived
    BY <1>3, <2>1 DEF CallsAreSane
  <2>3. Edition(rows[j], Archived(rows[j]), rows[j].status, rows[j].token,
                rows[j].commit, rows[j].pr, TRUE)
    BY <1>1, <2>1, PatchedRows
  <2>4. RowStep(rows[j], Archived(rows[j]))
    BY <1>1, <2>1, <2>2, <2>3 DEF Edition, RowStep, Terminal, Absent, Row
  <2>5. QED
    BY <1>2, <2>1, <2>3, <2>4 DEF Edition
<1>11. QED
  BY <1>4, <1>5, <1>6, <1>7, <1>8, <1>9, <1>10 DEF OfCall

LEMMA SweptStep ==
    ASSUME NEW r \in Row
    PROVE  RowStep(r, Swept(r))
<1>1. CASE LeaseLapsed(r)
  <2>1. r.status = "running"
    BY <1>1 DEF LeaseLapsed
  <2>2. /\ Swept(r).version > r.version
        /\ Swept(r).status \in {"retry_queued", "ready"}
        /\ Swept(r).archived = r.archived
    BY <1>1, SweptRow
  <2>3. QED
    BY <2>1, <2>2, Moves, NotTerminal DEF RowStep
<1>2. CASE RetryDue(r)
  <2>1. r.status = "retry_queued"
    BY <1>2 DEF RetryDue
  <2>2. Edition(r, Swept(r), "ready", r.token, r.commit, r.pr, r.archived)
    BY <1>2, SweptRow
  <2>3. QED
    BY <2>1, <2>2, Moves, NotTerminal, EditionStep
<1>3. CASE ~LeaseLapsed(r) /\ ~RetryDue(r)
  BY <1>3, SweptRow DEF RowStep
<1>4. QED
  BY <1>1, <1>2, <1>3

LEMMA StepOfRows ==
    ASSUME IInv, [Next]_vars
    PROVE  \A m \in Issues : RowStep(rows[m], rows'[m])
<1> USE DEF IInv
<1>1. ASSUME NEW i \in Issues, OfIssue(i)
      PROVE  \A m \in Issues : RowStep(rows[m], rows'[m])
  BY <1>1, IssueRowStep DEF RowStep
<1>2. CASE MaintenanceTick
  BY <1>2, SweptStep DEF MaintenanceTick, TypeOK
<1>3. CASE Tick
  BY <1>3, AgedRowRow DEF Tick, TypeOK, RowStep
<1>4. CASE SwitchProject \/ UNCHANGED vars
  BY <1>4 DEF SwitchProject, vars, RowStep
<1>5. QED
  BY <1>1, <1>2, <1>3, <1>4, CallRowStep DEF Next

\* A call after a step: as it was, or with what its sender has just read.
Unarchived(k) == k.kind = "archive" /\ k.phase \in {"checked", "cancelled"}
                   => ~k.seen.archived
CallKept(c) ==
    /\ calls[c] # Idle
    /\ calls'[c].issue = calls[c].issue
    /\ calls'[c].seen = calls[c].seen
    /\ Unarchived(calls'[c])
CallFresh(c) ==
    /\ calls'[c].issue \in Issues
    /\ calls'[c].seen = Essence(rows'[calls'[c].issue])
    /\ calls'[c].seen.status # Absent
    /\ Unarchived(calls'[c])

LEMMA CallsUnchanged ==
    ASSUME CallsAreSane, NEW c \in Callers, calls'[c] = calls[c], calls'[c] # Idle
    PROVE  CallKept(c)
BY DEF CallsAreSane, CallKept, Unarchived

\* What a step of caller c does to the call of c.
LEMMA OwnCallStep ==
    ASSUME IInv, NEW c \in Callers, OfCall(c), calls'[c] # Idle
    PROVE  CallKept(c) \/ CallFresh(c)
<1> USE DEF IInv
<1> DEFINE j == calls[c].issue
<1>1. calls[c] # Idle => /\ j \in Issues /\ rows[j] \in Row
                         /\ calls[c] \in Call
  BY CallType DEF TypeOK
<1>2. calls[c] # Idle /\ Current(c) => rows[j].archived = calls[c].seen.archived
  BY <1>1, EssenceRow DEF Current, VersionNamesContents
<1>3. ASSUME NEW kind \in Kind, NEW i \in Issues, Send(c, kind, i)
      PROVE  CallFresh(c)
  <2>1. /\ calls'[c] = [phase |-> "sent", kind |-> kind, issue |-> i,
                        seen |-> Essence(rows[i]), made |-> 0]
        /\ rows' = rows
    BY <1>3 DEF Send, TypeOK
  <2>2. rows[i].status # Absent
    <3>1. Offered(kind, rows[i])
      BY <1>3 DEF Send
    <3>2. \A k \in Delivery : DeliverFrom[k] # Absent
      BY DEF Delivery, DeliverFrom, Absent
    <3>3. \A s \in Editable \cup {"ready", "reviewing"} : s # Absent
      BY DEF Editable, Absent
    <3>4. QED
      BY <3>1, <3>2, <3>3 DEF Offered
  <2>3. Essence(rows[i]).status = rows[i].status
    BY EssenceRow DEF TypeOK
  <2>4. QED
    BY <2>1, <2>2, <2>3 DEF CallFresh, Unarchived
<1>4. CASE Drop(c) \/ ClaimIssue(c) \/ ContinueIssue(c) \/ PatchIssue(c)
           \/ DeliverCommit(c) \/ ArchiveCommit(c)
  BY <1>4 DEF Drop, ClaimIssue, ContinueIssue, PatchIssue, DeliverCommit,
              ArchiveCommit, Return, TypeOK
<1>5. CASE DeliverCheck(c)
  <2>1. calls[c] # Idle /\ calls[c].kind \in Delivery
        /\ calls' = [calls EXCEPT ![c].phase = "checked"]
    BY <1>5 DEF DeliverCheck
  <2>2. calls'[c] = [calls[c] EXCEPT !.phase = "checked"]
    BY <2>1 DEF TypeOK
  <2>3. QED
    BY <1>1, <2>1, <2>2 DEF CallKept, Unarchived, Delivery, DeliverFrom, Call
<1>6. CASE DeliverEffect(c)
  <2> DEFINE n == issued[calls[c].issue]
  <2>1. calls[c] # Idle /\ calls[c].kind \in Delivery
        /\ calls' = [calls EXCEPT ![c].phase = "effected", ![c].made = n]
    BY <1>6 DEF DeliverEffect
  <2> HIDE DEF n
  <2>2. calls'[c] = [calls[c] EXCEPT !.phase = "effected", !.made = n]
    BY <2>1 DEF TypeOK
  <2>3. QED
    BY <1>1, <2>1, <2>2 DEF CallKept, Unarchived, Delivery, DeliverFrom, Call
<1>7. CASE ArchiveCheck(c)
  <2>1. /\ calls[c] # Idle /\ Current(c) /\ ~rows[j].archived
        /\ calls' = [calls EXCEPT ![c].phase = "checked"]
    BY <1>7 DEF ArchiveCheck, Arrived
  <2>2. calls'[c] = [calls[c] EXCEPT !.phase = "checked"]
    BY <2>1 DEF TypeOK
  <2>3. QED
    BY <1>1, <1>2, <2>1, <2>2 DEF CallKept, Unarchived, Call
<1>8. CASE ArchiveCancel(c)
  <2> DEFINE q == ForceCancelled(rows[j])
             e == Essence(q)
  <2>1. /\ calls[c] # Idle /\ Current(c)
        /\ calls[c].kind = "archive" /\ calls[c].phase = "checked"
        /\ Write(j, q)
        /\ calls' = [calls EXCEPT ![c].phase = "cancelled", ![c].seen = e]
    BY <1>8 DEF ArchiveCancel, Arrived
  <2>2. ~rows[j].archived
    BY <1>2, <2>1 DEF CallsAreSane
  <2>3. Edition(rows[j], q, "cancelled",
                IF rows[j].status = "running" THEN 0 ELSE rows[j].token,
                rows[j].commit, rows[j].pr, rows[j].archived)
    BY <1>1, <2>1, ForceCancelledRow
  <2>4. /\ q \in Row /\ q.status = "cancelled" /\ q.archived = rows[j].archived
        /\ e.status = q.status /\ e.archived = q.archived
    BY <2>3, EssenceRow DEF Edition
  <2> HIDE DEF q
  <2>5. rows'[j] = q
    BY <1>1, <2>1, <2>4, WriteType
  <2>6. e = Essence(rows'[j])
    BY <2>5
  <2> HIDE DEF e
  <2>7. calls'[c] = [calls[c] EXCEPT !.phase = "cancelled", !.seen = e]
    BY <2>1 DEF TypeOK
  <2>8. calls'[c].issue = j /\ calls'[c].seen = e
    BY <1>1, <2>1, <2>7 DEF Call
  <2>9. QED
    BY <1>1, <2>1, <2>2, <2>4, <2>6, <2>8 DEF CallFresh, Unarchived, Absent
<1>9. QED
  BY <1>3, <1>4, <1>5, <1>6, <1>7, <1>8 DEF OfCall

LEMMA StepOfCalls ==
    ASSUME IInv, [Next]_vars
    PROVE  \A c \in Callers : calls'[c] # Idle => CallKept(c) \/ CallFresh(c)
<1> SUFFICES ASSUME NEW c \in Callers, calls'[c] # Idle
             PROVE  CallKept(c) \/ CallFresh(c)
  OBVIOUS
<1> USE DEF IInv
<1>1. CASE calls' = calls
  BY <1>1, CallsUnchanged
<1>2. CASE OfCall(c)
  BY <1>2, OwnCallStep
<1>3. ASSUME NEW d \in Callers \ {c}, OfCall(d)
      PROVE  CallKept(c) \/ CallFresh(c)
  <2>1. calls'[c] = calls[c]
    BY <1>3 DEF OfCall, Send, Drop, ClaimIssue, ContinueIssue, PatchIssue, DeliverCheck,
                DeliverEffect, DeliverCommit, ArchiveCheck, ArchiveCancel,
                ArchiveCommit, Return, TypeOK
  <2>2. QED
    BY <2>1, CallsUnchanged
<1>4. ASSUME NEW i \in Issues, OfIssue(i)
      PROVE  calls' = calls
  BY <1>4, IssueRowStep
<1>5. MaintenanceTick \/ Tick \/ SwitchProject \/ UNCHANGED vars => calls' = calls
  BY DEF MaintenanceTick, Tick, SwitchProject, vars
<1>6. ASSUME NEW d \in Callers, OfCall(d)
      PROVE  CallKept(c) \/ CallFresh(c)
  BY <1>2, <1>3, <1>6
<1>7. Next \/ UNCHANGED vars
  OBVIOUS
<1>8. QED
  BY <1>1, <1>4, <1>5, <1>6, <1>7 DEF Next

LEMMA RowStepVersion ==
    ASSUME NEW r \in Row, NEW q \in Row, RowStep(r, q)
    PROVE  \/ q.version > r.version
           \/ q.version = r.version /\ Essence(q) = Essence(r)
BY EssenceRow DEF RowStep

LEMMA IInvStep ==
    ASSUME IInv, [Next]_vars
    PROVE  IInv'
<1>1. TypeOK /\ TypeOK' /\ CallsAreSane /\ VersionNamesContents /\ RowsAreSane
  BY StepType DEF IInv
<1>2. \A m \in Issues : /\ rows[m] \in Row /\ rows'[m] \in Row
                        /\ RowStep(rows[m], rows'[m])
  BY <1>1, StepOfRows DEF TypeOK
<1>3. RowsAreSane'
  <2> SUFFICES ASSUME NEW i \in Issues
               PROVE  /\ rows'[i].status = Absent => rows'[i].version = 0
                      /\ rows'[i].archived => rows'[i].status \in Terminal
    BY DEF RowsAreSane
  <2>1. CASE Essence(rows'[i]) = Essence(rows[i])
    <3>1. /\ rows'[i].status = rows[i].status /\ rows'[i].version = rows[i].version
          /\ rows'[i].archived = rows[i].archived
      BY <1>2, <2>1, EssenceRow
    <3>2. QED
      BY <1>1, <3>1 DEF RowsAreSane
  <2>2. CASE Essence(rows'[i]) # Essence(rows[i])
    BY <1>1, <1>2, <2>2 DEF RowStep, RowsAreSane
  <2>3. QED
    BY <2>1, <2>2
<1>4. ASSUME NEW c \in Callers, calls'[c] # Idle
      PROVE  /\ calls'[c].seen.status # Absent
             /\ Unarchived(calls'[c])
             /\ calls'[c].seen.version <= rows'[calls'[c].issue].version
             /\ calls'[c].seen.version = rows'[calls'[c].issue].version
                  => calls'[c].seen = Essence(rows'[calls'[c].issue])
  <2>1. CASE CallFresh(c)
    <3>1. calls'[c].seen.version = rows'[calls'[c].issue].version
      BY <1>2, <2>1, EssenceRow DEF CallFresh
    <3>2. rows'[calls'[c].issue].version \in Nat
      BY <1>2, <2>1 DEF CallFresh, Row
    <3>3. QED
      BY <2>1, <3>1, <3>2 DEF CallFresh
  <2>2. CASE CallKept(c)
    <3> DEFINE j == calls[c].issue
               v == calls[c].seen.version
    <3>1. j \in Issues /\ v \in Nat
      BY <1>1, <2>2, CallType DEF CallKept, Row
    <3>2. v <= rows[j].version /\ (v = rows[j].version => calls[c].seen = Essence(rows[j]))
      BY <1>1, <2>2 DEF CallKept, VersionNamesContents
    <3>3. \/ rows'[j].version > rows[j].version
          \/ rows'[j].version = rows[j].version /\ Essence(rows'[j]) = Essence(rows[j])
      BY <1>2, <3>1, RowStepVersion
    <3>4. rows[j].version \in Nat /\ rows'[j].version \in Nat
      BY <1>2, <3>1 DEF Row
    <3>5. v <= rows'[j].version
          /\ (v = rows'[j].version => calls[c].seen = Essence(rows'[j]))
      BY <3>1, <3>2, <3>3, <3>4
    <3>6. QED
      BY <1>1, <2>2, <3>5 DEF CallKept, CallsAreSane
  <2>3. QED
    BY <1>4, <2>1, <2>2, StepOfCalls
<1>5. CallsAreSane' /\ VersionNamesContents'
  BY <1>4 DEF CallsAreSane, VersionNamesContents, Unarchived
<1>6. QED
  BY <1>1, <1>3, <1>5 DEF IInv

LEMMA IInvInvariant == Spec => []IInv
<1>1. Init => IInv
  BY InitType DEF IInv, Init, RowsAreSane, CallsAreSane, VersionNamesContents,
                  AbsentRow, Absent, Terminal
<1>2. IInv /\ [Next]_vars => IInv'
  BY IInvStep
<1>3. QED
  BY <1>1, <1>2, PTL DEF Spec

\* Optimistic concurrency is sound: an unchanged version means unchanged contents.
THEOREM VersionIsSound == Spec => []VersionNamesContents
BY IInvInvariant, PTL DEF IInv

\* Only a step on an Issue that is "ready" or "running" touches its Attempts.
LEMMA AttemptsOfEnded ==
    ASSUME TypeOK, [Next]_vars, NEW i \in Issues, rows[i].status \in Terminal
    PROVE  attempts'[i] = attempts[i]
<1>1. rows[i].status # "running" /\ rows[i].status # "ready"
  BY DEF Terminal
<1>2. ASSUME NEW m \in Issues, NEW s, FinishAttempt(m, s), rows[m].status = "running"
      PROVE  attempts'[i] = attempts[i]
  BY <1>1, <1>2 DEF FinishAttempt, TypeOK
<1>3. ASSUME NEW m \in Issues, OfIssue(m)
      PROVE  attempts'[i] = attempts[i]
  <2>1. CASE UNCHANGED attempts
    BY <2>1
  <2>2. CASE \E s : FinishAttempt(m, s) /\ rows[m].status = "running"
    BY <1>2, <2>2
  <2>3. QED
    BY <1>3, <2>1, <2>2
       DEF OfIssue, CreateIssue, Heartbeat, ReleaseClaim, RequestHuman, ResolveHuman,
           TransitionRunning, TransitionIdle, HoldsClaim
<1>4. ASSUME NEW c \in Callers, OfCall(c)
      PROVE  attempts'[i] = attempts[i]
  <2>1. CASE UNCHANGED attempts
    BY <2>1
  <2>2. CASE ClaimIssue(c)
    <3>1. /\ rows[calls[c].issue].status = "ready"
          /\ \E k \in Attempt : attempts' = [attempts EXCEPT ![calls[c].issue][k] = "running"]
      BY <2>2 DEF ClaimIssue, Claimable
    <3>2. QED
      BY <1>1, <3>1 DEF TypeOK
  <2>3. CASE ArchiveCancel(c)
    <3>1. calls[c].issue \in Issues
      BY <2>3, CallType DEF ArchiveCancel, Arrived
    <3>2. QED
      BY <1>2, <2>3, <3>1 DEF ArchiveCancel
  <2>4. QED
    BY <1>4, <2>1, <2>2, <2>3
       DEF OfCall, Send, Drop, ContinueIssue, PatchIssue, DeliverCheck, DeliverEffect,
           DeliverCommit, ArchiveCheck, ArchiveCommit
<1>5. CASE MaintenanceTick
  <2>1. attempts'[i] = [k \in Attempt |->
          IF LeaseLapsed(rows[i]) /\ IsActive(i, k) THEN "retry_queued" ELSE attempts[i][k]]
    BY <1>5 DEF MaintenanceTick
  <2>2. ~LeaseLapsed(rows[i])
    BY <1>1 DEF LeaseLapsed
  <2>3. QED
    BY <2>1, <2>2 DEF TypeOK
<1>6. CASE Tick \/ SwitchProject \/ UNCHANGED vars
  BY <1>6 DEF Tick, SwitchProject, vars
<1>7. QED
  BY <1>3, <1>4, <1>5, <1>6 DEF Next

\* Nothing but its clocks ever changes about an archived Issue.
THEOREM ArchivedStaysFrozen == Spec => ArchivedIsFrozen
<1>1. ASSUME IInv, [Next]_vars, NEW i \in Issues, rows[i].archived
      PROVE  /\ rows'[i].archived /\ Essence(rows'[i]) = Essence(rows[i])
             /\ attempts'[i] = attempts[i]
  <2>1. TypeOK /\ TypeOK' /\ RowsAreSane
    BY <1>1, StepType DEF IInv
  <2>2. rows[i].status \in Terminal
    BY <1>1, <2>1 DEF RowsAreSane
  <2>3. Essence(rows'[i]) = Essence(rows[i])
    BY <1>1, <2>2, StepOfRows DEF RowStep
  <2>4. attempts'[i] = attempts[i]
    BY <1>1, <2>1, <2>2, AttemptsOfEnded
  <2>5. QED
    BY <1>1, <2>1, <2>3, <2>4, EssenceRow DEF TypeOK
<1>2. IInv /\ [Next]_vars =>
        [\A i \in Issues : rows[i].archived =>
           rows'[i].archived /\ Essence(rows'[i]) = Essence(rows[i])
                             /\ attempts'[i] = attempts[i]]_vars
  BY <1>1
<1>3. QED
  BY <1>2, IInvInvariant, PTL DEF Spec, ArchivedIsFrozen

\* The control plane implements the protocol's lifecycle.
THEOREM ImplementsLifecycle == Spec => FollowsLifecycle
<1>1. Init => Lifecycle!Init
  BY DEF Init, Lifecycle!Init, Statuses, AbsentRow, Absent, Lifecycle!Absent
<1>2. ASSUME IInv, [Next]_vars
      PROVE  [Lifecycle!Next]_Statuses
  <2>1. TypeOK /\ TypeOK'
    BY <1>2, StepType DEF IInv
  <2>2. ASSUME NEW i \in Issues
        PROVE  Statuses'[i] = Statuses[i] \/ Lifecycle!Move(Statuses[i], Statuses'[i])
    <3>1. Statuses[i] = rows[i].status /\ Statuses'[i] = rows'[i].status
      BY DEF Statuses
    <3>2. Essence(rows'[i]) = Essence(rows[i]) => rows'[i].status = rows[i].status
      BY <2>1, EssenceRow DEF TypeOK
    <3>3. QED
      BY <1>2, <3>1, <3>2, StepOfRows DEF RowStep
  <2>3. Statuses' = [i \in Issues |-> Statuses'[i]]
    BY DEF Statuses
  <2>4. QED
    BY <2>2, <2>3 DEF Lifecycle!Next
<1>3. QED
  BY <1>1, <1>2, IInvInvariant, PTL DEF Spec, FollowsLifecycle, Lifecycle!Spec
=============================================================================
