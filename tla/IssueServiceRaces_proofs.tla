---------------------- MODULE IssueServiceRaces_proofs ----------------------
(***************************************************************************)
(* Proofs about IssueServiceRaces: what holds for any number of Issues and *)
(* of handlers under way at once, and any value of the bounds.             *)
(***************************************************************************)
EXTENDS IssueServiceRaces, TLAPS

-----------------------------------------------------------------------------
(* The inductive invariant *)

Delivered == {"awaiting_publish", "pr_open", "done"}
Opened == {"pr_open", "done"}

\* No client asks POST /status for needs_human, which would ask no question.
AskedWithQuestion == \A arc \in Requested : arc[2] # "needs_human"

\* What is on row r, of which n Attempts were issued, with their statuses as and
\* the open questions q, once every handler that wrote it has been checked.
Sound(r, n, as, q) ==
    /\ ClaimState(r)
    /\ r.token # 0 => r.lease # None /\ r.token = n
    /\ r.status = "running" =>
         n \in Attempt /\ as[n] = "running" /\ r.retry = None
    /\ AskedWithQuestion /\ r.status = "needs_human" => q # {}
    /\ r.status = "retry_queued" => r.retry # None
    /\ r.status = "reviewing" => n # 0
    /\ r.status \in Delivered => r.commit # 0
    /\ r.status \in Opened => r.pr

\* The columns that a handler may hold, and the rest of its plan.
Fields == {"set", "finish", "attempt", "asks", "answers"}

PlanType(p) ==
    /\ DOMAIN p = Fields
    /\ DOMAIN p.set \subseteq DOMAIN AbsentRow
    /\ Updated(AbsentRow, p.set) \in Row
    /\ p.finish \in {"none"} \cup Finishes
    /\ p.attempt \in {0} \cup Attempt
    /\ p.asks \in BOOLEAN

\* What every handler under way keeps to, whatever became of the row it read: its
\* columns go together.  It moves the Issue, or it leaves its claim and its time
\* of retry alone; it never gives a claim; it finishes an Attempt only as it
\* takes the Issue from running; what a delivery needs, it writes or finds.
Planned(p, r, n) ==
    LET s == p.set
        Sets(f) == f \in DOMAIN p.set
    IN  /\ r.status # Absent
        /\ Sets("token") =>
             s.token = 0 /\ Sets("lease") /\ s.lease = None /\ Sets("status")
        /\ Sets("lease") /\ s.lease = None => Sets("token")
        /\ Sets("status") => s.status \notin {"running", Absent}
        /\ Sets("retry") => Sets("status")
        /\ Sets("status") /\ s.status = "retry_queued" =>
             Sets("retry") /\ s.retry # None
        /\ Sets("status") /\ s.status = "reviewing" => n # 0
        /\ AskedWithQuestion /\ Sets("status") /\ s.status = "needs_human" => p.asks
        /\ p.answers # {} => Sets("status") /\ s.status # "needs_human"
        /\ Sets("commit") => s.commit # 0
        /\ Sets("status") /\ s.status \in Delivered => Sets("commit") \/ r.commit # 0
        /\ Sets("pr") => s.pr
        /\ Sets("status") /\ s.status \in Opened => Sets("pr") \/ r.pr
        /\ p.finish # "none" => Sets("status")
        /\ p.attempt # 0 => p.finish # "none"

Tables ==
    /\ rows \in [Issues -> Row]
    /\ issued \in [Issues -> 0..MaxAttempts]
    /\ attempts \in [Issues -> [Attempt -> {"none", "running"} \cup Finishes]]
    /\ asked \in [Issues -> Nat]
    /\ \A i \in Issues : questions[i] \subseteq 1..asked[i]
    /\ DOMAIN questions = Issues

Underway ==
    /\ DOMAIN handlers = Handlers
    /\ \A h \in Handlers :
         /\ DOMAIN handlers[h] \subseteq Issues
         /\ \A i \in DOMAIN handlers[h] :
              PlanType(handlers[h][i]) /\ Planned(handlers[h][i], rows[i], issued[i])

IInv ==
    /\ Tables
    /\ Underway
    /\ \A i \in Issues : Sound(rows[i], issued[i], attempts[i], questions[i])

LEMMA ImpliesTypeOK == IInv => TypeOK
BY DEF IInv, Tables, Underway, PlanType, TypeOK

-----------------------------------------------------------------------------
(* What the effects write *)

LEMMA Times ==
    /\ None \in LeaseLeft /\ None \in RetryLeft
    /\ LeaseTicks \in LeaseLeft /\ RetryTicks \in RetryLeft
    /\ LeaseTicks # None /\ RetryTicks # None
    /\ \A d \in ReleaseDelays : d \in RetryLeft /\ d # None
BY LeaseAssumption, RetryAssumption, ReleaseDelaysAssumption
   DEF LeaseLeft, RetryLeft, None

LEMMA AbsentIsNoStatus == Absent \notin Status
BY DEF Absent, Status

\* Row q is row r but for its version, its status s, its token k and its times.
Edited(r, q, s, k, lease, retry) ==
    /\ q \in Row
    /\ q.status = s
    /\ q.token = k
    /\ q.lease = lease
    /\ q.retry = retry
    /\ q.commit = r.commit
    /\ q.pr = r.pr

LEMMA MovedEdits ==
    ASSUME NEW r \in Row, NEW s \in Status \cup {Absent}
    PROVE  Edited(r, Moved(r, s), s, r.token, r.lease, r.retry)
<1>1. r.version + 1 \in Nat
  BY DEF Row
<1> DEFINE v == r.version + 1
<1> HIDE DEF v
<1>2. Moved(r, s) = [r EXCEPT !.status = s, !.version = v]
  BY DEF Moved, v
<1>3. v \in Nat
  BY <1>1 DEF v
<1>4. QED
  BY <1>2, <1>3 DEF Edited, Row

LEMMA UnclaimedEdits ==
    ASSUME NEW r \in Row
    PROVE  Edited(r, Unclaimed(r), r.status, 0, None, r.retry)
BY Times DEF Unclaimed, Edited, Row

LEMMA UnclaimedMovedEdits ==
    ASSUME NEW r \in Row, NEW s \in Status
    PROVE  Edited(r, Moved(Unclaimed(r), s), s, 0, None, r.retry)
<1>1. PICK u \in Row : u = Unclaimed(r)
  BY UnclaimedEdits DEF Edited
<1>2. Edited(u, Moved(u, s), s, u.token, u.lease, u.retry)
  BY MovedEdits
<1>3. QED
  BY <1>1, <1>2, UnclaimedEdits DEF Edited

\* Setting the time of a retry on a row that was moved.
LEMMA RetimedEdits ==
    ASSUME NEW r \in Row, NEW m \in Row, NEW s, NEW k, NEW lease, NEW retry,
           Edited(r, m, s, k, lease, retry), NEW d \in RetryLeft
    PROVE  Edited(r, [m EXCEPT !.retry = d], s, k, lease, d)
BY DEF Edited, Row

LEMMA RenewedEdits ==
    ASSUME NEW r \in Row
    PROVE  Edited(r, Renewed(r), r.status, r.token, LeaseTicks, r.retry)
BY Times DEF Renewed, Edited, Row

LEMMA ReleasedEdits ==
    ASSUME NEW r \in Row, NEW d \in ReleaseDelays
    PROVE  Edited(r, Released(r, d), "retry_queued", 0, None, d)
<1> DEFINE m == Moved(Unclaimed(r), "retry_queued")
<1>1. Edited(r, m, "retry_queued", 0, None, r.retry)
  BY UnclaimedMovedEdits DEF Status
<1>2. Released(r, d) = [m EXCEPT !.retry = d]
  BY DEF Released
<1>3. m \in Row /\ d \in RetryLeft
  BY <1>1, Times DEF Edited
<1> HIDE DEF m
<1>4. QED
  BY <1>1, <1>2, <1>3, RetimedEdits

LEMMA ExpiredEdits ==
    ASSUME NEW r \in Row
    PROVE  Edited(r, Expired(r), "retry_queued", 0, None, RetryTicks)
<1> DEFINE m == Moved(Unclaimed(r), "retry_queued")
<1>1. Edited(r, m, "retry_queued", 0, None, r.retry)
  BY UnclaimedMovedEdits DEF Status
<1>2. Expired(r) = [m EXCEPT !.retry = RetryTicks]
  BY DEF Expired
<1>3. m \in Row /\ RetryTicks \in RetryLeft
  BY <1>1, Times DEF Edited
<1> HIDE DEF m
<1>4. QED
  BY <1>1, <1>2, <1>3, RetimedEdits

LEMMA ReadiedEdits ==
    ASSUME NEW r \in Row
    PROVE  /\ Edited(r, Readied(r), "ready", r.token, r.lease, None)
           /\ Edited(r, Continued(r), "ready", r.token, r.lease, None)
<1> DEFINE m == Moved(r, "ready")
<1>1. Edited(r, m, "ready", r.token, r.lease, r.retry)
  BY MovedEdits DEF Status
<1>2. /\ Readied(r) = [m EXCEPT !.retry = None]
      /\ Continued(r) = [m EXCEPT !.retry = None]
  BY DEF Readied, Continued
<1>3. m \in Row /\ None \in RetryLeft
  BY <1>1, Times DEF Edited
<1> HIDE DEF m
<1>4. QED
  BY <1>1, <1>2, <1>3, RetimedEdits

LEMMA TransitionedEdits ==
    ASSUME NEW r \in Row, NEW s \in Status
    PROVE  IF r.status = "running"
           THEN Edited(r, Transitioned(r, s), s, 0, None, r.retry)
           ELSE Edited(r, Transitioned(r, s), s, r.token, r.lease, r.retry)
BY UnclaimedMovedEdits, MovedEdits DEF Transitioned

LEMMA ForceCancelledEdits ==
    ASSUME NEW r \in Row
    PROVE  IF r.status = "running"
           THEN Edited(r, ForceCancelled(r), "cancelled", 0, None, None)
           ELSE Edited(r, ForceCancelled(r), "cancelled", r.token, r.lease, None)
<1> DEFINE m == Transitioned(r, "cancelled")
<1>1. IF r.status = "running" THEN Edited(r, m, "cancelled", 0, None, r.retry)
                              ELSE Edited(r, m, "cancelled", r.token, r.lease, r.retry)
  BY TransitionedEdits DEF Status
<1>2. ForceCancelled(r) = [m EXCEPT !.retry = None]
  BY DEF ForceCancelled, Transitioned
<1>3. m \in Row /\ None \in RetryLeft
  BY <1>1, Times DEF Edited
<1> HIDE DEF m
<1>4. CASE r.status = "running"
  BY <1>1, <1>2, <1>3, <1>4, RetimedEdits
<1>5. CASE r.status # "running"
  BY <1>1, <1>2, <1>3, <1>5, RetimedEdits
<1>6. QED
  BY <1>4, <1>5

LEMMA ArchivedEdits ==
    ASSUME NEW r \in Row
    PROVE  Edited(r, Archived(r), r.status, r.token, r.lease, r.retry)
<1> DEFINE m == Moved(r, r.status)
<1>1. Edited(r, m, r.status, r.token, r.lease, r.retry)
  BY MovedEdits DEF Row
<1>2. Archived(r) = [m EXCEPT !.archived = TRUE]
  BY DEF Archived
<1> HIDE DEF m
<1>3. QED
  BY <1>1, <1>2 DEF Edited, Row

\* A handler that reads row r, with n Attempts issued, may write row q.
Effect(r, q, n) ==
    /\ q \in Row
    /\ \/ q.token = r.token
       \/ r.status = "running" /\ q.token = 0 /\ q.lease = None
    /\ q.lease = None => r.lease = None \/ (r.status = "running" /\ q.token = 0)
    /\ q.status # r.status => q.status \notin {"running", Absent}
    /\ r.status = "running" /\ q.token = 0 => q.status # r.status
    /\ q.retry # r.retry => q.status # r.status
    /\ q.status # r.status /\ q.status = "retry_queued" =>
         r.status = "running" /\ q.retry # None
    /\ q.status # r.status /\ q.status = "reviewing" => n # 0
    /\ q.commit # r.commit => q.commit # 0
    /\ q.status # r.status /\ q.status \in Delivered => q.commit # 0
    /\ q.pr # r.pr => q.pr
    /\ q.status # r.status /\ q.status \in Opened => q.pr

\* An effect that leaves the commit and the request alone.
LEMMA EditIsEffect ==
    ASSUME NEW r \in Row, NEW q, NEW s, NEW k, NEW lease, NEW retry, NEW n,
           Edited(r, q, s, k, lease, retry),
           \/ k = r.token /\ (r.status = "running" => k # 0)
           \/ r.status = "running" /\ k = 0 /\ lease = None /\ s # "running",
           lease = None => r.lease = None \/ (r.status = "running" /\ k = 0),
           s # r.status => s \notin {"running", Absent},
           retry # r.retry => s # r.status,
           s # r.status /\ s = "retry_queued" => r.status = "running" /\ retry # None,
           s # r.status /\ s = "reviewing" => n # 0,
           s # r.status /\ s \in Delivered => r.commit # 0,
           s # r.status /\ s \in Opened => r.pr
    PROVE  Effect(r, q, n)
BY DEF Edited, Effect

\* The columns the UPDATE sets, and what it leaves of any other row.
LEMMA ChangedColumns ==
    ASSUME NEW r \in Row, NEW q \in Row
    PROVE  LET s == Changed(r, q)
           IN  /\ DOMAIN s \subseteq DOMAIN AbsentRow
               /\ Updated(AbsentRow, s) \in Row
               /\ "token" \in DOMAIN s <=> q.token # r.token
               /\ "lease" \in DOMAIN s <=> q.lease # r.lease
               /\ "status" \in DOMAIN s <=> q.status # r.status
               /\ "retry" \in DOMAIN s <=> q.retry # r.retry
               /\ "commit" \in DOMAIN s <=> q.commit # r.commit
               /\ "pr" \in DOMAIN s <=> q.pr # r.pr
               /\ "token" \in DOMAIN s => s.token = q.token
               /\ "lease" \in DOMAIN s => s.lease = q.lease
               /\ "status" \in DOMAIN s => s.status = q.status
               /\ "retry" \in DOMAIN s => s.retry = q.retry
               /\ "commit" \in DOMAIN s => s.commit = q.commit
               /\ "pr" \in DOMAIN s => s.pr = q.pr
<1> DEFINE s == Changed(r, q)
<1>1. DOMAIN s \subseteq DOMAIN AbsentRow
  BY DEF Changed, Restrict, Row, AbsentRow
<1>2. Updated(AbsentRow, s) \in Row
  <2>1. AbsentRow \in Row
    BY Times DEF AbsentRow, Row
  <2>2. \A f \in DOMAIN AbsentRow :
          Updated(AbsentRow, s)[f] = AbsentRow[f] \/ Updated(AbsentRow, s)[f] = q[f]
    BY DEF Updated, Changed, Restrict, Row, AbsentRow
  <2>3. Updated(AbsentRow, s) = [f \in DOMAIN AbsentRow |-> Updated(AbsentRow, s)[f]]
    BY DEF Updated
  <2>4. QED
    BY <2>1, <2>2, <2>3 DEF Row, AbsentRow
<1>3. /\ "token" \in DOMAIN s <=> q.token # r.token
      /\ "lease" \in DOMAIN s <=> q.lease # r.lease
      /\ "status" \in DOMAIN s <=> q.status # r.status
      /\ "retry" \in DOMAIN s <=> q.retry # r.retry
      /\ "commit" \in DOMAIN s <=> q.commit # r.commit
      /\ "pr" \in DOMAIN s <=> q.pr # r.pr
  BY DEF Changed, Restrict, Row
<1>4. /\ "token" \in DOMAIN s => s.token = q.token
      /\ "lease" \in DOMAIN s => s.lease = q.lease
      /\ "status" \in DOMAIN s => s.status = q.status
      /\ "retry" \in DOMAIN s => s.retry = q.retry
      /\ "commit" \in DOMAIN s => s.commit = q.commit
      /\ "pr" \in DOMAIN s => s.pr = q.pr
  BY DEF Changed, Restrict
<1>5. QED
  BY <1>1, <1>2, <1>3, <1>4

\* A handler that read a sound row and is to write an effect keeps to its plan.
LEMMA EffectIsPlanned ==
    ASSUME NEW r \in Row, NEW n, NEW as, NEW qs, NEW q, NEW p,
           Sound(r, n, as, qs), r.status # Absent, Effect(r, q, n),
           DOMAIN p = Fields, p.set = Changed(r, q), p.attempt = 0,
           p.finish \in {"none"} \cup Finishes, p.asks \in BOOLEAN,
           p.finish # "none" => q.status # r.status,
           AskedWithQuestion /\ q.status # r.status /\ q.status = "needs_human" => p.asks,
           p.answers # {} => q.status # r.status /\ q.status # "needs_human"
    PROVE  PlanType(p) /\ Planned(p, r, n)
<1>1. q \in Row
  BY DEF Effect
<1>2. PlanType(p)
  BY <1>1, ChangedColumns DEF PlanType
<1> DEFINE s == p.set
<1>3. r.status = "running" => r.token # 0 /\ r.lease # None /\ r.retry = None
  BY DEF Sound, ClaimState
<1>4. "token" \in DOMAIN s =>
        s.token = 0 /\ "lease" \in DOMAIN s /\ s.lease = None /\ "status" \in DOMAIN s
  BY <1>1, <1>3, ChangedColumns DEF Effect
<1>5. "lease" \in DOMAIN s /\ s.lease = None => "token" \in DOMAIN s
  BY <1>1, <1>3, ChangedColumns DEF Effect
<1>6. "status" \in DOMAIN s => s.status \notin {"running", Absent}
  BY <1>1, ChangedColumns DEF Effect
<1>7. "retry" \in DOMAIN s => "status" \in DOMAIN s
  BY <1>1, ChangedColumns DEF Effect
<1>8. "status" \in DOMAIN s /\ s.status = "retry_queued" =>
        "retry" \in DOMAIN s /\ s.retry # None
  BY <1>1, <1>3, ChangedColumns DEF Effect
<1>9. "status" \in DOMAIN s /\ s.status = "reviewing" => n # 0
  BY <1>1, ChangedColumns DEF Effect
<1>10. /\ AskedWithQuestion /\ "status" \in DOMAIN s /\ s.status = "needs_human" => p.asks
       /\ p.answers # {} => "status" \in DOMAIN s /\ s.status # "needs_human"
       /\ p.finish # "none" => "status" \in DOMAIN s
  BY <1>1, ChangedColumns
<1>11. /\ "commit" \in DOMAIN s => s.commit # 0
       /\ "status" \in DOMAIN s /\ s.status \in Delivered =>
            "commit" \in DOMAIN s \/ r.commit # 0
  BY <1>1, ChangedColumns DEF Effect
<1>12. /\ "pr" \in DOMAIN s => s.pr
       /\ "status" \in DOMAIN s /\ s.status \in Opened => "pr" \in DOMAIN s \/ r.pr
  BY <1>1, ChangedColumns DEF Effect
<1>13. QED
  BY <1>2, <1>4, <1>5, <1>6, <1>7, <1>8, <1>9, <1>10, <1>11, <1>12 DEF Planned

-----------------------------------------------------------------------------
(* A handler starts *)

LEMMA BeginStep ==
    ASSUME IInv, NEW h \in Handlers, NEW i \in Issues, NEW p,
           PlanType(p), Planned(p, rows[i], issued[i]), Begin(h, i, p)
    PROVE  IInv'
<1>1. /\ Tables /\ Underway
      /\ \A j \in Issues : Sound(rows[j], issued[j], attempts[j], questions[j])
      /\ UNCHANGED <<rows, issued, attempts, asked, questions>>
      /\ handlers' = [handlers EXCEPT ![h] = [j \in {i} |-> p]]
  BY DEF IInv, Begin
<1>2. Tables'
  BY <1>1 DEF Tables
<1>3. Underway'
  <2>1. DOMAIN handlers' = Handlers
    BY <1>1 DEF Underway
  <2>2. ASSUME NEW g \in Handlers
        PROVE  /\ DOMAIN handlers'[g] \subseteq Issues
               /\ \A j \in DOMAIN handlers'[g] :
                    /\ PlanType(handlers'[g][j])
                    /\ Planned(handlers'[g][j], rows[j], issued[j])
    <3>1. CASE g = h
      <4>1. handlers'[g] = [j \in {i} |-> p]
        BY <1>1, <3>1 DEF Underway
      <4>2. QED
        BY <4>1
    <3>2. CASE g # h
      <4>1. handlers'[g] = handlers[g]
        BY <1>1, <3>2 DEF Underway
      <4>2. QED
        BY <1>1, <4>1 DEF Underway
    <3>3. QED
      BY <3>1, <3>2
  <2>3. QED
    BY <1>1, <2>1, <2>2 DEF Underway
<1>4. \A j \in Issues : Sound(rows[j], issued[j], attempts[j], questions[j])'
  BY <1>1
<1>5. QED
  BY <1>2, <1>3, <1>4 DEF IInv

\* A handler without question or answer starts with the effect q.
LEMMA PlanStep ==
    ASSUME IInv, NEW h \in Handlers, NEW i \in Issues, NEW q, NEW finish,
           rows[i].status # Absent, Effect(rows[i], q, issued[i]),
           finish \in {"none"} \cup Finishes, finish # "none" => q.status # rows[i].status,
           AskedWithQuestion /\ q.status # rows[i].status => q.status # "needs_human",
           Begin(h, i, Plan(i, q, finish))
    PROVE  IInv'
<1> DEFINE p == Plan(i, q, finish)
<1>1. /\ DOMAIN p = Fields /\ p.set = Changed(rows[i], q) /\ p.attempt = 0
      /\ p.finish = finish /\ p.asks = FALSE /\ p.answers = {}
  BY DEF Plan, Fields
<1>2. rows[i] \in Row /\ Sound(rows[i], issued[i], attempts[i], questions[i])
  BY DEF IInv, Tables
<1>3. Begin(h, i, p)
  OBVIOUS
<1> HIDE DEF p
<1>4. PlanType(p) /\ Planned(p, rows[i], issued[i])
  BY <1>1, <1>2, EffectIsPlanned
<1>5. QED
  BY <1>3, <1>4, BeginStep

\* What is known of the row that a handler reads.
LEMMA Read ==
    ASSUME IInv, NEW i \in Issues
    PROVE  /\ rows[i] \in Row
           /\ Sound(rows[i], issued[i], attempts[i], questions[i])
           /\ rows[i].status = "running" =>
                /\ rows[i].token # 0 /\ rows[i].retry = None
                /\ issued[i] # 0
BY DEF IInv, Tables, Sound, ClaimState, Attempt

LEMMA HeartbeatStep ==
    ASSUME IInv, NEW h \in Handlers, NEW i \in Issues, Heartbeat(h, i)
    PROVE  IInv'
<1> DEFINE q == Renewed(rows[i])
<1>1. /\ rows[i].status = "running"
      /\ Begin(h, i, Plan(i, q, "none"))
  BY DEF Heartbeat, HoldsClaim
<1>2. Edited(rows[i], q, rows[i].status, rows[i].token, LeaseTicks, rows[i].retry)
  BY Read, RenewedEdits
<1>3. LeaseTicks # None /\ "running" # Absent
  BY Times DEF Absent
<1> HIDE DEF q
<1>4. Effect(rows[i], q, issued[i])
  BY <1>1, <1>2, <1>3, Read, EditIsEffect
<1>5. q.status = rows[i].status
  BY <1>2 DEF Edited
<1>6. QED
  BY <1>1, <1>3, <1>4, <1>5, PlanStep

LEMMA ReleaseClaimStep ==
    ASSUME IInv, NEW h \in Handlers, NEW i \in Issues, ReleaseClaim(h, i)
    PROVE  IInv'
<1>1. /\ rows[i].status = "running"
      /\ \E d \in ReleaseDelays :
           Begin(h, i, Plan(i, Released(rows[i], d), "retry_queued"))
  BY DEF ReleaseClaim, HoldsClaim
<1>2. PICK d \in ReleaseDelays :
             Begin(h, i, Plan(i, Released(rows[i], d), "retry_queued"))
  BY <1>1
<1> DEFINE q == Released(rows[i], d)
<1>3. Edited(rows[i], q, "retry_queued", 0, None, d)
  BY Read, ReleasedEdits
<1>4. Begin(h, i, Plan(i, q, "retry_queued"))
  BY <1>2
<1>5. d # None /\ "running" # Absent /\ "retry_queued" # Absent
  BY Times DEF Absent
<1> HIDE DEF q
<1>6. Effect(rows[i], q, issued[i])
  BY <1>1, <1>3, <1>5, Read, EditIsEffect DEF Delivered, Opened
<1>7. q.status = "retry_queued"
  BY <1>3 DEF Edited
<1>8. QED
  BY <1>1, <1>4, <1>5, <1>6, <1>7, PlanStep DEF Finishes

\* POST /status moves the Issue to none of the statuses of a delivery, and it
\* takes it from running as it finishes its Attempt.
LEMMA RequestedArcs ==
    ASSUME NEW arc \in Requested
    PROVE  /\ arc[1] \in Status /\ arc[2] \in Status
           /\ arc[1] # arc[2]
           /\ arc[2] \notin {"running", "retry_queued"} \cup Delivered
           /\ arc[2] = "reviewing" => arc[1] = "running"
           /\ arc[1] = "running" => arc[2] \in Finishes
BY RacesAssumption
   DEF Transitions, Cancellations, Cancellable, Status, Delivered, Finishes

LEMMA TransitionStep ==
    ASSUME IInv, NEW h \in Handlers, NEW i \in Issues, Transition(h, i)
    PROVE  IInv'
<1>1. PICK arc \in Requested :
        /\ rows[i].status = arc[1]
        /\ Begin(h, i, Plan(i, Transitioned(rows[i], arc[2]),
                            IF arc[1] = "running" THEN arc[2] ELSE "none"))
  BY DEF Transition
<1> DEFINE q == Transitioned(rows[i], arc[2])
           finish == IF arc[1] = "running" THEN arc[2] ELSE "none"
<1>2. /\ arc[1] \in Status /\ arc[2] \in Status
      /\ arc[1] # Absent /\ arc[2] # Absent
      /\ Begin(h, i, Plan(i, q, finish))
  BY <1>1, RequestedArcs, AbsentIsNoStatus
<1>3. IF rows[i].status = "running"
      THEN Edited(rows[i], q, arc[2], 0, None, rows[i].retry)
      ELSE Edited(rows[i], q, arc[2], rows[i].token, rows[i].lease, rows[i].retry)
  BY <1>2, Read, TransitionedEdits
<1>4. q.status = arc[2]
  BY <1>3 DEF Edited
<1>5. finish \in {"none"} \cup Finishes
  BY RequestedArcs
<1>6. /\ arc[1] # arc[2]
      /\ arc[2] \notin {"running", "retry_queued"} \cup Delivered
      /\ arc[2] = "reviewing" => arc[1] = "running"
  BY RequestedArcs
<1> HIDE DEF q, finish
<1>7. Effect(rows[i], q, issued[i])
  <2>1. CASE rows[i].status = "running"
    BY <2>1, <1>1, <1>2, <1>3, <1>6, Read, EditIsEffect DEF Delivered, Opened
  <2>2. CASE rows[i].status # "running"
    BY <2>2, <1>1, <1>2, <1>3, <1>6, Read, EditIsEffect DEF Delivered, Opened
  <2>3. QED
    BY <2>1, <2>2
<1>8. AskedWithQuestion => arc[2] # "needs_human"
  BY DEF AskedWithQuestion
<1>9. QED
  BY <1>1, <1>2, <1>4, <1>5, <1>6, <1>7, <1>8, PlanStep

LEMMA RequestHumanStep ==
    ASSUME IInv, NEW h \in Handlers, NEW i \in Issues, RequestHuman(h, i)
    PROVE  IInv'
<1> DEFINE q == Asked(rows[i])
           p == [Plan(i, q, "needs_human") EXCEPT !.asks = TRUE]
<1>1. /\ rows[i].status = "running"
      /\ Begin(h, i, p)
  BY DEF RequestHuman, HoldsClaim
<1>2. Edited(rows[i], q, "needs_human", 0, None, rows[i].retry)
  BY Read, UnclaimedMovedEdits DEF Asked, Status
<1>3. /\ DOMAIN p = Fields /\ p.set = Changed(rows[i], q) /\ p.attempt = 0
      /\ p.finish = "needs_human" /\ p.asks = TRUE /\ p.answers = {}
  BY DEF Plan, Fields
<1>4. "running" # Absent /\ "needs_human" # Absent
  BY DEF Absent
<1> HIDE DEF q, p
<1>5. Effect(rows[i], q, issued[i])
  BY <1>1, <1>2, <1>4, Read, EditIsEffect DEF Delivered, Opened
<1>6. q.status = "needs_human"
  BY <1>2 DEF Edited
<1>7. PlanType(p) /\ Planned(p, rows[i], issued[i])
  BY <1>1, <1>3, <1>4, <1>5, <1>6, Read, EffectIsPlanned DEF Finishes
<1>8. QED
  BY <1>1, <1>7, BeginStep

LEMMA ResolveHumanStep ==
    ASSUME IInv, NEW h \in Handlers, NEW i \in Issues, ResolveHuman(h, i)
    PROVE  IInv'
<1> DEFINE q == Answered(rows[i])
<1>1. rows[i].status = "needs_human"
  BY DEF ResolveHuman
<1>2. PICK a \in questions[i] :
        Begin(h, i, [Plan(i, q, "none") EXCEPT !.answers = {a}])
  BY DEF ResolveHuman
<1> DEFINE p == [Plan(i, q, "none") EXCEPT !.answers = {a}]
<1>3. Edited(rows[i], q, "ready", rows[i].token, rows[i].lease, rows[i].retry)
  BY Read, MovedEdits DEF Answered, Status
<1>4. /\ DOMAIN p = Fields /\ p.set = Changed(rows[i], q) /\ p.attempt = 0
      /\ p.finish = "none" /\ p.asks = FALSE
      /\ Begin(h, i, p)
  BY <1>2 DEF Plan, Fields
<1>5. "ready" # Absent /\ "needs_human" # Absent
  BY DEF Absent
<1> HIDE DEF q, p
<1>6. Effect(rows[i], q, issued[i])
  BY <1>1, <1>3, <1>5, Read, EditIsEffect DEF Delivered, Opened
<1>7. q.status = "ready"
  BY <1>3 DEF Edited
<1>8. PlanType(p) /\ Planned(p, rows[i], issued[i])
  BY <1>1, <1>4, <1>5, <1>6, <1>7, Read, EffectIsPlanned
<1>9. QED
  BY <1>4, <1>8, BeginStep

LEMMA ContinueIssueStep ==
    ASSUME IInv, NEW h \in Handlers, NEW i \in Issues, ContinueIssue(h, i)
    PROVE  IInv'
<1> DEFINE q == Continued(rows[i])
<1>1. /\ rows[i].status = "reviewing"
      /\ Begin(h, i, Plan(i, q, "none"))
  BY DEF ContinueIssue
<1>2. Edited(rows[i], q, "ready", rows[i].token, rows[i].lease, None)
  BY Read, ReadiedEdits
<1>3. "ready" # Absent /\ "reviewing" # Absent
  BY DEF Absent
<1> HIDE DEF q
<1>4. Effect(rows[i], q, issued[i])
  BY <1>1, <1>2, <1>3, Read, EditIsEffect DEF Delivered, Opened
<1>5. q.status = "ready"
  BY <1>2 DEF Edited
<1>6. QED
  BY <1>1, <1>3, <1>4, <1>5, PlanStep

\* An edit and the archiving of a row keep its status, its claim and its times.
LEMMA KeepsStatus ==
    ASSUME IInv, NEW h \in Handlers, NEW i \in Issues, NEW q,
           Edited(rows[i], q, rows[i].status, rows[i].token, rows[i].lease,
                  rows[i].retry),
           rows[i].status # Absent,
           Begin(h, i, Plan(i, q, "none"))
    PROVE  IInv'
<1>1. Effect(rows[i], q, issued[i])
  BY Read, EditIsEffect
<1>2. q.status = rows[i].status
  BY DEF Edited
<1>3. QED
  BY <1>1, <1>2, PlanStep

LEMMA PatchIssueStep ==
    ASSUME IInv, NEW h \in Handlers, NEW i \in Issues, PatchIssue(h, i)
    PROVE  IInv'
<1> DEFINE q == Rerouted(rows[i])
<1>1. rows[i].status \in Editable /\ Begin(h, i, Plan(i, q, "none"))
  BY DEF PatchIssue
<1>2. rows[i].status \in Status
  BY <1>1 DEF Editable, Status
<1>3. Edited(rows[i], q, rows[i].status, rows[i].token, rows[i].lease, rows[i].retry)
  BY <1>2, Read, MovedEdits DEF Rerouted
<1> HIDE DEF q
<1>4. QED
  BY <1>1, <1>2, <1>3, AbsentIsNoStatus, KeepsStatus

LEMMA ArchiveCommitStep ==
    ASSUME IInv, NEW h \in Handlers, NEW i \in Issues, ArchiveCommit(h, i)
    PROVE  IInv'
<1> DEFINE q == Archived(rows[i])
<1>1. rows[i].status \in Terminal /\ Begin(h, i, Plan(i, q, "none"))
  BY DEF ArchiveCommit
<1>2. rows[i].status \in Status
  BY <1>1 DEF Terminal, Status
<1>3. Edited(rows[i], q, rows[i].status, rows[i].token, rows[i].lease, rows[i].retry)
  BY Read, ArchivedEdits
<1> HIDE DEF q
<1>4. QED
  BY <1>1, <1>2, <1>3, AbsentIsNoStatus, KeepsStatus

\* What the last transaction of a delivery writes.
LEMMA DeliveryEffects ==
    ASSUME NEW r \in Row, NEW n \in Nat, NEW as, NEW qs, Sound(r, n, as, qs)
    PROVE  /\ r.status = "reviewing" =>
                Effect(r, Approved(r, n), n) /\ Approved(r, n).status = "awaiting_publish"
           /\ r.status = "awaiting_publish" =>
                Effect(r, Published(r), n) /\ Published(r).status = "pr_open"
           /\ r.status = "pr_open" =>
                Effect(r, Merged(r), n) /\ Merged(r).status = "done"
<1>1. "awaiting_publish" # Absent /\ "pr_open" # Absent /\ "done" # Absent
  BY DEF Absent
<1>2. CASE r.status = "reviewing"
  <2> DEFINE m == Moved(r, "awaiting_publish")
  <2>1. Edited(r, m, "awaiting_publish", r.token, r.lease, r.retry)
    BY MovedEdits DEF Status
  <2>2. Approved(r, n) = [m EXCEPT !.commit = n]
    BY DEF Approved
  <2>3. n # 0
    BY <1>2 DEF Sound
  <2> HIDE DEF m
  <2>4. m \in Row /\ m.status = "awaiting_publish"
    BY <2>1 DEF Edited
  <2>5. /\ Approved(r, n) \in Row /\ Approved(r, n).status = "awaiting_publish"
        /\ Approved(r, n).commit = n
    BY <2>2, <2>4 DEF Row
  <2>6. /\ Approved(r, n).token = r.token /\ Approved(r, n).lease = r.lease
        /\ Approved(r, n).retry = r.retry /\ Approved(r, n).pr = r.pr
    BY <2>1, <2>2 DEF Edited, Row
  <2>7. QED
    BY <1>1, <1>2, <2>3, <2>5, <2>6 DEF Effect, Opened
<1>3. CASE r.status = "awaiting_publish"
  <2> DEFINE m == Moved(r, "pr_open")
  <2>1. Edited(r, m, "pr_open", r.token, r.lease, r.retry)
    BY MovedEdits DEF Status
  <2>2. Published(r) = [m EXCEPT !.pr = TRUE]
    BY DEF Published
  <2>3. r.commit # 0
    BY <1>3 DEF Sound, Delivered
  <2> HIDE DEF m
  <2>4. m \in Row /\ m.status = "pr_open"
    BY <2>1 DEF Edited
  <2>5. Published(r) \in Row /\ Published(r).status = "pr_open" /\ Published(r).pr = TRUE
    BY <2>2, <2>4 DEF Row
  <2>6. /\ Published(r).token = r.token /\ Published(r).lease = r.lease
        /\ Published(r).retry = r.retry /\ Published(r).commit = r.commit
    BY <2>1, <2>2 DEF Edited, Row
  <2>7. QED
    BY <1>1, <1>3, <2>3, <2>5, <2>6 DEF Effect
<1>4. CASE r.status = "pr_open"
  <2>1. Edited(r, Merged(r), "done", r.token, r.lease, r.retry)
    BY MovedEdits DEF Merged, Status
  <2>2. r.commit # 0 /\ r.pr
    BY <1>4 DEF Sound, Delivered, Opened
  <2>3. QED
    BY <1>1, <1>4, <2>1, <2>2 DEF Effect, Edited
<1>5. QED
  BY <1>2, <1>3, <1>4

LEMMA DeliverIssueStep ==
    ASSUME IInv, NEW h \in Handlers, NEW i \in Issues, DeliverIssue(h, i)
    PROVE  IInv'
<1>1. /\ rows[i] \in Row /\ issued[i] \in Nat
      /\ Sound(rows[i], issued[i], attempts[i], questions[i])
  BY RacesAssumption DEF IInv, Tables
<1>2. "reviewing" # Absent /\ "awaiting_publish" # Absent /\ "pr_open" # Absent
  BY DEF Absent
<1>3. CASE /\ rows[i].status = "reviewing"
           /\ Begin(h, i, Plan(i, Approved(rows[i], issued[i]), "none"))
  BY <1>1, <1>2, <1>3, DeliveryEffects, PlanStep
<1>4. CASE /\ rows[i].status = "awaiting_publish"
           /\ Begin(h, i, Plan(i, Published(rows[i]), "none"))
  BY <1>1, <1>2, <1>4, DeliveryEffects, PlanStep
<1>5. CASE /\ rows[i].status = "pr_open"
           /\ Begin(h, i, Plan(i, Merged(rows[i]), "none"))
  BY <1>1, <1>2, <1>5, DeliveryEffects, PlanStep
<1>6. QED
  BY <1>3, <1>4, <1>5 DEF DeliverIssue

LEMMA ArchiveCancelStep ==
    ASSUME IInv, NEW h \in Handlers, NEW i \in Issues, ArchiveCancel(h, i)
    PROVE  IInv'
<1> DEFINE q == ForceCancelled(rows[i])
           finish == IF rows[i].status = "running" THEN "cancelled" ELSE "none"
<1>1. /\ rows[i].status \notin Terminal \cup {Absent}
      /\ Begin(h, i, Plan(i, q, finish))
  BY DEF ArchiveCancel
<1>2. IF rows[i].status = "running"
      THEN Edited(rows[i], q, "cancelled", 0, None, None)
      ELSE Edited(rows[i], q, "cancelled", rows[i].token, rows[i].lease, None)
  BY Read, ForceCancelledEdits
<1>3. "cancelled" # Absent /\ rows[i].status # "cancelled" /\ rows[i].status # Absent
  BY <1>1 DEF Terminal, Absent
<1>4. q.status = "cancelled" /\ finish \in {"none"} \cup Finishes
  BY <1>2 DEF Edited, Finishes
<1> HIDE DEF q, finish
<1>5. Effect(rows[i], q, issued[i])
  <2>1. CASE rows[i].status = "running"
    BY <2>1, <1>2, <1>3, Read, EditIsEffect DEF Delivered, Opened
  <2>2. CASE rows[i].status # "running"
    BY <2>2, <1>2, <1>3, Read, EditIsEffect DEF Delivered, Opened
  <2>3. QED
    BY <2>1, <2>2
<1>6. QED
  BY <1>1, <1>3, <1>4, <1>5, PlanStep

\* What the sweeper writes of an Issue that is due.
LEMMA SweptEffect ==
    ASSUME NEW r \in Row, NEW n, NEW as, NEW qs, Sound(r, n, as, qs),
           LeaseLapsed(r) \/ RetryDue(r)
    PROVE  /\ Effect(r, Swept(r), n)
           /\ Swept(r).status \in {"ready", "retry_queued"}
           /\ Swept(r).status # r.status
           /\ r.status \in {"running", "retry_queued"}
<1>1. "ready" # Absent /\ "retry_queued" # Absent
  BY DEF Absent
<1>2. r.status = "running" => r.token # 0 /\ r.retry = None
  BY DEF Sound, ClaimState
<1>3. CASE LeaseLapsed(r)
  <2>1. r.status = "running" /\ ~RetryDue(r)
    BY <1>3 DEF LeaseLapsed, RetryDue
  <2>2. Edited(r, Expired(r), "retry_queued", 0, None, RetryTicks)
    BY ExpiredEdits
  <2>3. CASE RetryDue(Expired(r))
    <3>1. PICK e \in Row : e = Expired(r)
      BY <2>2 DEF Edited
    <3>2. Edited(e, Readied(e), "ready", e.token, e.lease, None)
      BY ReadiedEdits
    <3>3. Swept(r) = Readied(e)
      BY <1>3, <2>3, <3>1 DEF Swept
    <3>4. Edited(r, Swept(r), "ready", 0, None, None)
      BY <2>2, <3>1, <3>2, <3>3 DEF Edited
    <3>5. QED
      BY <1>1, <1>2, <2>1, <3>4, EditIsEffect DEF Edited, Delivered, Opened
  <2>4. CASE ~RetryDue(Expired(r))
    <3>1. Swept(r) = Expired(r)
      BY <1>3, <2>4 DEF Swept
    <3>2. QED
      BY <1>1, <1>2, <2>1, <2>2, <3>1, Times, EditIsEffect DEF Edited, Delivered, Opened
  <2>5. QED
    BY <2>3, <2>4
<1>4. CASE ~LeaseLapsed(r)
  <2>1. RetryDue(r) /\ r.status = "retry_queued"
    BY <1>4 DEF RetryDue
  <2>2. Swept(r) = Readied(r)
    BY <1>4, <2>1 DEF Swept
  <2>3. Edited(r, Swept(r), "ready", r.token, r.lease, None)
    BY <2>2, ReadiedEdits
  <2>4. QED
    BY <1>1, <2>1, <2>3, EditIsEffect DEF Edited, Delivered, Opened
<1>5. QED
  BY <1>3, <1>4

LEMMA SweepStep ==
    ASSUME IInv, NEW h \in Handlers, Sweep(h)
    PROVE  IInv'
<1> DEFINE due == {i \in Issues : LeaseLapsed(rows[i]) \/ RetryDue(rows[i])}
           Sweeping(i) == Plan(i, Swept(rows[i]),
                          IF LeaseLapsed(rows[i]) THEN "retry_queued" ELSE "none")
<1>1. /\ Tables /\ Underway
      /\ \A j \in Issues : Sound(rows[j], issued[j], attempts[j], questions[j])
      /\ UNCHANGED <<rows, issued, attempts, asked, questions>>
      /\ handlers' = [handlers EXCEPT ![h] = [i \in due |-> Sweeping(i)]]
  BY DEF IInv, Sweep
<1>2. ASSUME NEW i \in due
      PROVE  PlanType(Sweeping(i)) /\ Planned(Sweeping(i), rows[i], issued[i])
  <2>1. /\ i \in Issues
        /\ LeaseLapsed(rows[i]) \/ RetryDue(rows[i])
        /\ rows[i] \in Row /\ Sound(rows[i], issued[i], attempts[i], questions[i])
    BY <1>1 DEF Tables
  <2> DEFINE q == Swept(rows[i])
             p == Sweeping(i)
  <2>2. /\ Effect(rows[i], q, issued[i])
        /\ q.status \in {"ready", "retry_queued"} /\ q.status # rows[i].status
        /\ rows[i].status # Absent
    BY <2>1, SweptEffect DEF Absent
  <2>3. /\ DOMAIN p = Fields /\ p.set = Changed(rows[i], q) /\ p.attempt = 0
        /\ p.finish \in {"none"} \cup Finishes /\ p.asks = FALSE /\ p.answers = {}
    BY DEF Plan, Fields, Finishes
  <2> HIDE DEF p, q
  <2>4. PlanType(p) /\ Planned(p, rows[i], issued[i])
    BY <2>1, <2>2, <2>3, EffectIsPlanned
  <2>5. QED
    BY <2>4 DEF p
<1> HIDE DEF Sweeping
<1>3. Tables'
  BY <1>1 DEF Tables
<1>4. Underway'
  <2>1. DOMAIN handlers' = Handlers
    BY <1>1 DEF Underway
  <2>2. ASSUME NEW g \in Handlers
        PROVE  /\ DOMAIN handlers'[g] \subseteq Issues
               /\ \A j \in DOMAIN handlers'[g] :
                    /\ PlanType(handlers'[g][j])
                    /\ Planned(handlers'[g][j], rows[j], issued[j])
    <3>1. CASE g = h
      <4>1. handlers'[g] = [i \in due |-> Sweeping(i)]
        BY <1>1, <3>1 DEF Underway
      <4>2. QED
        BY <1>2, <4>1
    <3>2. CASE g # h
      <4>1. handlers'[g] = handlers[g]
        BY <1>1, <3>2 DEF Underway
      <4>2. QED
        BY <1>1, <4>1 DEF Underway
    <3>3. QED
      BY <3>1, <3>2
  <2>3. QED
    BY <1>1, <2>1, <2>2 DEF Underway
<1>5. QED
  BY <1>1, <1>3, <1>4 DEF IInv

LEMMA FindAttemptStep ==
    ASSUME IInv, NEW h \in Handlers, FindAttempt(h)
    PROVE  IInv'
<1>1. PICK i \in Unfound(h), k \in Attempt :
        handlers' = [handlers EXCEPT ![h][i].attempt = k]
  BY DEF FindAttempt
<1>2. /\ Tables /\ Underway
      /\ \A j \in Issues : Sound(rows[j], issued[j], attempts[j], questions[j])
      /\ UNCHANGED <<rows, issued, attempts, asked, questions>>
      /\ i \in DOMAIN handlers[h] /\ handlers[h][i].finish # "none"
  BY DEF IInv, FindAttempt, Unfound
<1> DEFINE p == handlers[h][i]
           q == [p EXCEPT !.attempt = k]
<1>3. PlanType(p) /\ Planned(p, rows[i], issued[i])
  BY <1>2 DEF Underway
<1>4. /\ DOMAIN q = Fields /\ q.set = p.set /\ q.finish = p.finish
      /\ q.attempt = k /\ q.asks = p.asks /\ q.answers = p.answers
  BY <1>3 DEF PlanType, Fields
<1>5. /\ DOMAIN handlers' = Handlers
      /\ DOMAIN handlers'[h] = DOMAIN handlers[h]
      /\ handlers'[h][i] = q
      /\ \A j \in DOMAIN handlers[h] : j # i => handlers'[h][j] = handlers[h][j]
      /\ \A g \in Handlers : g # h => handlers'[g] = handlers[g]
  BY <1>1, <1>2 DEF Underway
<1> HIDE DEF q
<1>6. PlanType(q) /\ Planned(q, rows[i], issued[i])
  BY <1>2, <1>3, <1>4 DEF PlanType, Planned
<1>7. Tables'
  BY <1>2 DEF Tables
<1>8. Underway'
  <2>1. ASSUME NEW g \in Handlers
        PROVE  /\ DOMAIN handlers'[g] \subseteq Issues
               /\ \A j \in DOMAIN handlers'[g] :
                    /\ PlanType(handlers'[g][j])
                    /\ Planned(handlers'[g][j], rows[j], issued[j])
    BY <1>2, <1>5, <1>6 DEF Underway
  <2>2. QED
    BY <1>2, <1>5, <2>1 DEF Underway
<1>9. QED
  BY <1>2, <1>7, <1>8 DEF IInv

-----------------------------------------------------------------------------
(* A handler writes *)

\* What the UPDATE leaves of a row, whatever it read.
LEMMA UpdatedRow ==
    ASSUME NEW r \in Row, NEW s, DOMAIN s \subseteq DOMAIN AbsentRow,
           Updated(AbsentRow, s) \in Row
    PROVE  LET q == Updated(r, s)
           IN  /\ q \in Row
               /\ q.status = IF "status" \in DOMAIN s THEN s.status ELSE r.status
               /\ q.token = IF "token" \in DOMAIN s THEN s.token ELSE r.token
               /\ q.lease = IF "lease" \in DOMAIN s THEN s.lease ELSE r.lease
               /\ q.retry = IF "retry" \in DOMAIN s THEN s.retry ELSE r.retry
               /\ q.commit = IF "commit" \in DOMAIN s THEN s.commit ELSE r.commit
               /\ q.pr = IF "pr" \in DOMAIN s THEN s.pr ELSE r.pr
<1>1. Updated(r, s) \in Row
  BY DEF Row, Updated, AbsentRow
<1>2. QED
  BY <1>1 DEF Row, Updated

\* The row, the Attempts and the questions stay sound under a plan that the
\* database's check of the claim lets pass.
LEMMA PlanKeepsSound ==
    ASSUME NEW r \in Row, NEW n, NEW as, NEW qs, NEW p, NEW as2, NEW qs2,
           Sound(r, n, as, qs), PlanType(p), Planned(p, r, n),
           ClaimState(Updated(r, p.set)),
           p.attempt = 0 => as2 = as,
           p.answers = {} => qs \subseteq qs2,
           p.asks => qs2 # {}
    PROVE  /\ Sound(Updated(r, p.set), n, as2, qs2)
           /\ Updated(r, p.set) \in Row
           /\ Updated(r, p.set).status # Absent
           /\ r.commit # 0 => Updated(r, p.set).commit # 0
           /\ r.pr => Updated(r, p.set).pr
<1> DEFINE q == Updated(r, p.set)
<1>1. /\ q \in Row
      /\ q.status = IF "status" \in DOMAIN p.set THEN p.set.status ELSE r.status
      /\ q.token = IF "token" \in DOMAIN p.set THEN p.set.token ELSE r.token
      /\ q.lease = IF "lease" \in DOMAIN p.set THEN p.set.lease ELSE r.lease
      /\ q.retry = IF "retry" \in DOMAIN p.set THEN p.set.retry ELSE r.retry
      /\ q.commit = IF "commit" \in DOMAIN p.set THEN p.set.commit ELSE r.commit
      /\ q.pr = IF "pr" \in DOMAIN p.set THEN p.set.pr ELSE r.pr
  BY UpdatedRow DEF PlanType
<1>2. ClaimState(q)
  OBVIOUS
<1> HIDE DEF q
<1>3. q.token # 0 => q.lease # None /\ q.token = n
  BY <1>1 DEF Sound, Planned
<1>4. q.status = "running" => n \in Attempt /\ as2[n] = "running" /\ q.retry = None
  <2>1. SUFFICES ASSUME q.status = "running"
                 PROVE  n \in Attempt /\ as2[n] = "running" /\ q.retry = None
    OBVIOUS
  <2>2. "status" \notin DOMAIN p.set /\ r.status = "running"
    BY <1>1, <2>1 DEF Planned
  <2>3. p.attempt = 0 /\ "retry" \notin DOMAIN p.set
    BY <2>2 DEF Planned
  <2>4. QED
    BY <1>1, <2>2, <2>3 DEF Sound
<1>5. AskedWithQuestion /\ q.status = "needs_human" => qs2 # {}
  BY <1>1 DEF Sound, Planned
<1>6. q.status = "retry_queued" => q.retry # None
  BY <1>1 DEF Sound, Planned
<1>7. q.status = "reviewing" => n # 0
  BY <1>1 DEF Sound, Planned
<1>8. /\ q.status \in Delivered => q.commit # 0
      /\ r.commit # 0 => q.commit # 0
  BY <1>1 DEF Sound, Planned
<1>9. /\ q.status \in Opened => q.pr
      /\ r.pr => q.pr
  BY <1>1 DEF Sound, Planned
<1>10. q.status # Absent
  BY <1>1 DEF Planned
<1>11. Sound(q, n, as2, qs2)
  BY <1>2, <1>3, <1>4, <1>5, <1>6, <1>7, <1>8, <1>9 DEF Sound
<1>12. QED
  BY <1>1, <1>8, <1>9, <1>10, <1>11 DEF q

\* The plan of another handler survives what is written meanwhile.
LEMMA PlanStays ==
    ASSUME NEW p, NEW r, NEW n, NEW q, NEW m, Planned(p, r, n),
           q.status # Absent, n # 0 => m # 0,
           r.commit # 0 => q.commit # 0, r.pr => q.pr
    PROVE  Planned(p, q, m)
BY DEF Planned

\* The handlers that go on are those that were under way.
LEMMA UnderwayStays ==
    ASSUME IInv,
           DOMAIN handlers' = Handlers,
           \A g \in Handlers : handlers'[g] = handlers[g] \/ handlers'[g] = Idle,
           \A i \in Issues : rows[i].status # Absent =>
             /\ rows'[i].status # Absent
             /\ issued[i] # 0 => issued'[i] # 0
             /\ rows[i].commit # 0 => rows'[i].commit # 0
             /\ rows[i].pr => rows'[i].pr
    PROVE  Underway'
<1>1. ASSUME NEW g \in Handlers
      PROVE  /\ DOMAIN handlers'[g] \subseteq Issues
             /\ \A i \in DOMAIN handlers'[g] :
                  /\ PlanType(handlers'[g][i])
                  /\ Planned(handlers'[g][i], rows'[i], issued'[i])
  <2>1. CASE handlers'[g] = Idle
    BY <2>1 DEF Idle
  <2>2. CASE handlers'[g] = handlers[g]
    <3>1. DOMAIN handlers[g] \subseteq Issues
      BY DEF IInv, Underway
    <3>2. ASSUME NEW i \in DOMAIN handlers[g]
          PROVE  /\ PlanType(handlers[g][i])
                 /\ Planned(handlers[g][i], rows'[i], issued'[i])
      <4>1. /\ PlanType(handlers[g][i]) /\ Planned(handlers[g][i], rows[i], issued[i])
            /\ i \in Issues
        BY <3>1 DEF IInv, Underway
      <4>2. rows[i].status # Absent
        BY <4>1 DEF Planned
      <4>3. QED
        BY <4>1, <4>2, PlanStays
    <3>3. QED
      BY <2>2, <3>1, <3>2
  <2>3. QED
    BY <2>1, <2>2
<1>2. QED
  BY <1>1 DEF Underway

LEMMA CommitStep ==
    ASSUME IInv, NEW h \in Handlers, Commit(h)
    PROVE  IInv'
<1> DEFINE plan == handlers[h]
           opened(i) == IF plan[i].asks THEN {asked[i] + 1} ELSE {}
<1>1. /\ Tables /\ Underway
      /\ \A j \in Issues : Sound(rows[j], issued[j], attempts[j], questions[j])
  BY DEF IInv
<1>2. /\ rows' = [i \in Issues |->
           IF i \in DOMAIN plan THEN Updated(rows[i], plan[i].set) ELSE rows[i]]
      /\ attempts' = [i \in Issues |->
           IF i \in DOMAIN plan
           THEN IF plan[i].attempt = 0 THEN attempts[i]
                ELSE [attempts[i] EXCEPT ![plan[i].attempt] = plan[i].finish]
           ELSE attempts[i]]
      /\ asked' = [i \in Issues |->
           IF i \in DOMAIN plan
           THEN IF plan[i].asks THEN asked[i] + 1 ELSE asked[i] ELSE asked[i]]
      /\ questions' = [i \in Issues |->
           IF i \in DOMAIN plan
           THEN (questions[i] \ plan[i].answers) \cup opened(i) ELSE questions[i]]
      /\ handlers' = [handlers EXCEPT ![h] = Idle]
      /\ issued' = issued
  BY DEF Commit, Overlaid
<1>3. \A i \in DOMAIN plan : i \in Issues => ClaimState(Updated(rows[i], plan[i].set))
  BY DEF Commit, Overlaid
<1>4. \A i \in DOMAIN plan :
        i \in Issues /\ PlanType(plan[i]) /\ Planned(plan[i], rows[i], issued[i])
  BY <1>1 DEF Underway
<1> HIDE DEF plan
<1>5. ASSUME NEW i \in Issues
      PROVE  /\ Sound(rows'[i], issued'[i], attempts'[i], questions'[i])
             /\ rows'[i] \in Row
             /\ rows[i].status # Absent => rows'[i].status # Absent
             /\ rows[i].commit # 0 => rows'[i].commit # 0
             /\ rows[i].pr => rows'[i].pr
             /\ attempts'[i] \in [Attempt -> {"none", "running"} \cup Finishes]
             /\ asked'[i] \in Nat
             /\ questions'[i] \subseteq 1..asked'[i]
  <2>1. CASE i \notin DOMAIN plan
    BY <1>1, <1>2, <2>1 DEF Tables
  <2>2. CASE i \in DOMAIN plan
    <3>1. /\ rows'[i] = Updated(rows[i], plan[i].set)
          /\ attempts'[i] = IF plan[i].attempt = 0 THEN attempts[i]
               ELSE [attempts[i] EXCEPT ![plan[i].attempt] = plan[i].finish]
          /\ asked'[i] = IF plan[i].asks THEN asked[i] + 1 ELSE asked[i]
          /\ questions'[i] = (questions[i] \ plan[i].answers) \cup opened(i)
          /\ issued'[i] = issued[i]
      BY <1>2, <2>2
    <3>2. /\ rows[i] \in Row /\ asked[i] \in Nat /\ questions[i] \subseteq 1..asked[i]
          /\ attempts[i] \in [Attempt -> {"none", "running"} \cup Finishes]
          /\ Sound(rows[i], issued[i], attempts[i], questions[i])
      BY <1>1 DEF Tables
    <3>3. PlanType(plan[i]) /\ Planned(plan[i], rows[i], issued[i])
      BY <1>4, <2>2
    <3>4. /\ plan[i].attempt = 0 => attempts'[i] = attempts[i]
          /\ plan[i].answers = {} => questions[i] \subseteq questions'[i]
          /\ plan[i].asks => questions'[i] # {}
      BY <3>1
    <3>5. ClaimState(Updated(rows[i], plan[i].set))
      BY <1>3, <2>2
    <3>6. /\ Sound(rows'[i], issued[i], attempts'[i], questions'[i])
          /\ rows'[i] \in Row /\ rows'[i].status # Absent
          /\ rows[i].commit # 0 => rows'[i].commit # 0
          /\ rows[i].pr => rows'[i].pr
      <4>1. PICK r, p, n, as2, qs2 :
              /\ r \in Row
              /\ r = rows[i] /\ p = plan[i] /\ n = issued[i]
              /\ as2 = attempts'[i] /\ qs2 = questions'[i]
        BY <3>2
      <4>2. /\ Sound(r, n, attempts[i], questions[i]) /\ PlanType(p) /\ Planned(p, r, n)
            /\ ClaimState(Updated(r, p.set))
            /\ p.attempt = 0 => as2 = attempts[i]
            /\ p.answers = {} => questions[i] \subseteq qs2
            /\ p.asks => qs2 # {}
        BY <3>2, <3>3, <3>4, <3>5, <4>1
      <4>3. /\ Sound(Updated(r, p.set), n, as2, qs2)
            /\ Updated(r, p.set) \in Row /\ Updated(r, p.set).status # Absent
            /\ r.commit # 0 => Updated(r, p.set).commit # 0
            /\ r.pr => Updated(r, p.set).pr
        BY <4>1, <4>2, PlanKeepsSound
      <4>4. QED
        BY <3>1, <4>1, <4>3
    <3>7. attempts'[i] \in [Attempt -> {"none", "running"} \cup Finishes]
      <4>1. plan[i].attempt # 0 => plan[i].attempt \in Attempt
        BY <3>3 DEF PlanType
      <4>2. plan[i].finish \in {"none", "running"} \cup Finishes
        BY <3>3 DEF PlanType
      <4>3. QED
        BY <3>1, <3>2, <4>1, <4>2
    <3>8. asked'[i] \in Nat /\ questions'[i] \subseteq 1..asked'[i]
      <4>1. CASE plan[i].asks
        BY <3>1, <3>2, <4>1
      <4>2. CASE ~plan[i].asks
        BY <3>1, <3>2, <4>2
      <4>3. QED
        BY <4>1, <4>2
    <3>9. QED
      BY <3>1, <3>6, <3>7, <3>8
  <2>3. QED
    BY <2>1, <2>2
<1>6. Tables'
  <2>1. /\ rows' \in [Issues -> Row]
        /\ issued' \in [Issues -> 0..MaxAttempts]
        /\ attempts' \in [Issues -> [Attempt -> {"none", "running"} \cup Finishes]]
        /\ asked' \in [Issues -> Nat]
        /\ DOMAIN questions' = Issues
    <3>1. rows' \in [Issues -> Row]
      <4>1. rows' = [i \in Issues |-> rows'[i]]
        BY <1>2
      <4>2. QED
        BY <1>5, <4>1
    <3>2. attempts' \in [Issues -> [Attempt -> {"none", "running"} \cup Finishes]]
      <4>1. attempts' = [i \in Issues |-> attempts'[i]]
        BY <1>2
      <4>2. QED
        BY <1>5, <4>1
    <3>3. asked' \in [Issues -> Nat]
      <4>1. asked' = [i \in Issues |-> asked'[i]]
        BY <1>2
      <4>2. QED
        BY <1>5, <4>1
    <3>4. QED
      BY <1>1, <1>2, <3>1, <3>2, <3>3 DEF Tables
  <2>2. \A i \in Issues : questions'[i] \subseteq 1..asked'[i]
    BY <1>5
  <2>3. Attempt' = Attempt
    BY DEF Attempt
  <2>4. QED
    BY <2>1, <2>2, <2>3 DEF Tables
<1>7. Underway'
  <2>1. /\ DOMAIN handlers' = Handlers
        /\ \A g \in Handlers : handlers'[g] = handlers[g] \/ handlers'[g] = Idle
    BY <1>1, <1>2 DEF Underway
  <2>2. QED
    BY <1>2, <1>5, <2>1, UnderwayStays
<1>8. QED
  BY <1>5, <1>6, <1>7 DEF IInv

LEMMA AbortStep ==
    ASSUME IInv, NEW h \in Handlers, Abort(h)
    PROVE  IInv'
<1>1. /\ UNCHANGED <<rows, issued, attempts, asked, questions>>
      /\ handlers' = [handlers EXCEPT ![h] = Idle]
      /\ Tables /\ DOMAIN handlers = Handlers
      /\ \A j \in Issues : Sound(rows[j], issued[j], attempts[j], questions[j])
  BY DEF Abort, IInv, Underway
<1>2. Tables'
  BY <1>1 DEF Tables
<1>3. Underway'
  <2>1. /\ DOMAIN handlers' = Handlers
        /\ \A g \in Handlers : handlers'[g] = handlers[g] \/ handlers'[g] = Idle
    BY <1>1
  <2>2. QED
    BY <1>1, <2>1, UnderwayStays
<1>4. QED
  BY <1>1, <1>2, <1>3 DEF IInv

-----------------------------------------------------------------------------
(* The steps of one statement, and time *)

LEMMA CreateIssueStep ==
    ASSUME IInv, NEW i \in Issues, CreateIssue(i)
    PROVE  IInv'
<1>1. /\ Tables /\ DOMAIN handlers = Handlers
      /\ \A j \in Issues : Sound(rows[j], issued[j], attempts[j], questions[j])
      /\ rows[i].status = Absent
      /\ rows' = [rows EXCEPT ![i] = NewRow]
      /\ UNCHANGED <<issued, attempts, asked, questions, handlers>>
  BY DEF IInv, Underway, CreateIssue
<1>2. /\ NewRow \in Row /\ NewRow.status = "ready" /\ NewRow.token = 0
      /\ NewRow.lease = None
  BY Times DEF NewRow, AbsentRow, Row, Status
<1> DEFINE q == NewRow
<1> HIDE DEF q
<1>3. /\ q \in Row /\ q.status = "ready" /\ q.token = 0 /\ q.lease = None
      /\ rows' = [rows EXCEPT ![i] = q]
  BY <1>1, <1>2 DEF q
<1>4. Tables'
  BY <1>1, <1>3 DEF Tables, Attempt
<1>5. Underway'
  BY <1>1, <1>3, UnderwayStays DEF Tables
<1>6. ASSUME NEW j \in Issues
      PROVE  Sound(rows'[j], issued'[j], attempts'[j], questions'[j])
  <2>1. Sound(q, issued[i], attempts[i], questions[i])
    BY <1>3 DEF Sound, ClaimState, Delivered, Opened
  <2>2. QED
    BY <1>1, <1>3, <2>1 DEF Tables
<1>7. QED
  BY <1>4, <1>5, <1>6 DEF IInv

LEMMA ClaimIssueStep ==
    ASSUME IInv, NEW i \in Issues, ClaimIssue(i)
    PROVE  IInv'
<1> DEFINE k == issued[i] + 1
           q == Claimed(rows[i], k)
           as == [attempts[i] EXCEPT ![k] = "running"]
<1>1. /\ Tables /\ DOMAIN handlers = Handlers
      /\ \A j \in Issues : Sound(rows[j], issued[j], attempts[j], questions[j])
      /\ rows[i].status = "ready"
      /\ k \in Attempt
      /\ issued' = [issued EXCEPT ![i] = k]
      /\ attempts' = [attempts EXCEPT ![i] = as]
      /\ rows' = [rows EXCEPT ![i] = q]
      /\ UNCHANGED <<asked, questions, handlers>>
  BY DEF IInv, Underway, ClaimIssue, Claimable, Tables
<1>2. k \in Nat /\ k # 0 /\ k \in 0..MaxAttempts
  BY <1>1, RacesAssumption DEF Attempt
<1>3. /\ q \in Row /\ q.status = "running" /\ q.token = k /\ q.lease = LeaseTicks
      /\ q.retry = None /\ q.commit = rows[i].commit /\ q.pr = rows[i].pr
  <2> DEFINE m == Moved(rows[i], "running")
  <2>1. Edited(rows[i], m, "running", rows[i].token, rows[i].lease, rows[i].retry)
    BY Read, MovedEdits DEF Status
  <2>2. q = [m EXCEPT !.token = k, !.lease = LeaseTicks, !.retry = None]
    BY DEF Claimed
  <2> HIDE DEF m, q, k
  <2>3. QED
    BY <1>2, <2>1, <2>2, Times DEF Edited, Row
<1>4. as \in [Attempt -> {"none", "running"} \cup Finishes] /\ as[k] = "running"
  BY <1>1 DEF Tables
<1> HIDE DEF q, as, k
<1>5. Tables'
  BY <1>1, <1>2, <1>3, <1>4 DEF Tables, Attempt
<1>6. Underway'
  <2>1. ASSUME NEW j \in Issues, rows[j].status # Absent
        PROVE  /\ rows'[j].status # Absent
               /\ issued[j] # 0 => issued'[j] # 0
               /\ rows[j].commit # 0 => rows'[j].commit # 0
               /\ rows[j].pr => rows'[j].pr
    BY <1>1, <1>2, <1>3, <2>1 DEF Tables, Absent
  <2>2. QED
    BY <1>1, <2>1, UnderwayStays
<1>7. ASSUME NEW j \in Issues
      PROVE  Sound(rows'[j], issued'[j], attempts'[j], questions'[j])
  <2>1. Sound(q, k, as, questions[i])
    BY <1>1, <1>2, <1>3, <1>4, Times DEF Sound, ClaimState, Delivered, Opened
  <2>2. QED
    BY <1>1, <2>1 DEF Tables
<1>8. QED
  BY <1>5, <1>6, <1>7 DEF IInv

LEMMA AgedTime ==
    /\ \A t \in LeaseLeft : Aged(t) \in LeaseLeft /\ (Aged(t) = None <=> t = None)
    /\ \A t \in RetryLeft : Aged(t) \in RetryLeft /\ (Aged(t) = None <=> t = None)
BY LeaseAssumption, RetryAssumption, ReleaseDelaysAssumption
   DEF Aged, LeaseLeft, RetryLeft, None, Past

LEMMA AgedRowEdits ==
    ASSUME NEW r \in Row
    PROVE  Edited(r, AgedRow(r), r.status, r.token, Aged(r.lease), Aged(r.retry))
<1>1. Aged(r.lease) \in LeaseLeft /\ Aged(r.retry) \in RetryLeft
  BY AgedTime DEF Row
<1>2. AgedRow(r) = [r EXCEPT !.lease = Aged(r.lease), !.retry = Aged(r.retry)]
  BY DEF AgedRow, Row
<1>3. QED
  BY <1>1, <1>2 DEF Edited, Row

\* Times that a handler holds age with those in the rows.
LEMMA AgedPlan ==
    ASSUME NEW p, NEW r, NEW n, PlanType(p), Planned(p, r, n)
    PROVE  LET q == [p EXCEPT !.set = AgedColumns(@)]
           IN  PlanType(q) /\ Planned(q, r, n)
<1> DEFINE q == [p EXCEPT !.set = AgedColumns(p.set)]
           s == p.set
           t == AgedColumns(s)
<1>1. /\ DOMAIN q = Fields /\ q.set = t /\ q.finish = p.finish
      /\ q.attempt = p.attempt /\ q.asks = p.asks /\ q.answers = p.answers
  BY DEF PlanType, Fields
<1>2. /\ DOMAIN t = DOMAIN s
      /\ \A f \in DOMAIN s :
           t[f] = IF f \in {"lease", "retry"} THEN Aged(s[f]) ELSE s[f]
  BY DEF AgedColumns
<1>3. /\ "lease" \in DOMAIN s => s.lease \in LeaseLeft
      /\ "retry" \in DOMAIN s => s.retry \in RetryLeft
  BY DEF PlanType, Updated, AbsentRow, Row
<1>4. /\ "lease" \in DOMAIN s =>
           t.lease \in LeaseLeft /\ (t.lease = None <=> s.lease = None)
      /\ "retry" \in DOMAIN s =>
           t.retry \in RetryLeft /\ (t.retry = None <=> s.retry = None)
      /\ "status" \in DOMAIN s => t.status = s.status
      /\ "token" \in DOMAIN s => t.token = s.token
      /\ "commit" \in DOMAIN s => t.commit = s.commit
      /\ "pr" \in DOMAIN s => t.pr = s.pr
  BY <1>2, <1>3, AgedTime
<1> HIDE DEF t
<1>5. Updated(AbsentRow, t) \in Row
  <2>1. Updated(AbsentRow, s) \in Row
    BY DEF PlanType
  <2>2. \A f \in DOMAIN AbsentRow \ {"lease", "retry"} :
          Updated(AbsentRow, t)[f] = Updated(AbsentRow, s)[f]
    BY <1>2 DEF Updated
  <2>3. /\ Updated(AbsentRow, t)["lease"] \in LeaseLeft
        /\ Updated(AbsentRow, t)["retry"] \in RetryLeft
    BY <1>2, <1>4, Times DEF Updated, AbsentRow
  <2>4. Updated(AbsentRow, t) = [f \in DOMAIN AbsentRow |-> Updated(AbsentRow, t)[f]]
    BY DEF Updated
  <2>5. QED
    BY <2>1, <2>2, <2>3, <2>4 DEF Row, AbsentRow
<1>6. PlanType(q)
  BY <1>1, <1>2, <1>5 DEF PlanType
<1>7. Planned(q, r, n)
  BY <1>1, <1>2, <1>4 DEF Planned
<1>8. QED
  BY <1>6, <1>7

LEMMA TickStep ==
    ASSUME IInv, Tick
    PROVE  IInv'
<1>1. /\ Tables /\ Underway
      /\ \A j \in Issues : Sound(rows[j], issued[j], attempts[j], questions[j])
      /\ rows' = [i \in Issues |-> AgedRow(rows[i])]
      /\ handlers' = AgedHandlers
      /\ UNCHANGED <<issued, attempts, asked, questions>>
  BY DEF IInv, Tick
<1>2. ASSUME NEW i \in Issues
      PROVE  /\ Edited(rows[i], rows'[i], rows[i].status, rows[i].token,
                       Aged(rows[i].lease), Aged(rows[i].retry))
             /\ rows[i].lease \in LeaseLeft /\ rows[i].retry \in RetryLeft
  <2>1. rows[i] \in Row /\ rows'[i] = AgedRow(rows[i])
    BY <1>1 DEF Tables
  <2>2. QED
    BY <2>1, AgedRowEdits DEF Row
<1>3. Tables'
  <2>1. rows' \in [Issues -> Row]
    BY <1>1, <1>2 DEF Edited
  <2>2. QED
    BY <1>1, <2>1 DEF Tables, Attempt
<1>4. Underway'
  <2>1. \A g \in Handlers :
          handlers'[g] = [i \in DOMAIN handlers[g] |->
                            [handlers[g][i] EXCEPT !.set = AgedColumns(@)]]
    BY <1>1 DEF AgedHandlers
  <2>2. ASSUME NEW g \in Handlers, NEW i \in DOMAIN handlers[g]
        PROVE  PlanType(handlers'[g][i]) /\ Planned(handlers'[g][i], rows'[i], issued'[i])
    <3>1. /\ i \in Issues
          /\ PlanType(handlers[g][i]) /\ Planned(handlers[g][i], rows[i], issued[i])
      BY <1>1 DEF Underway
    <3>2. PICK p : p = handlers[g][i]
      OBVIOUS
    <3>3. handlers'[g][i] = [p EXCEPT !.set = AgedColumns(@)]
      BY <2>1, <3>2
    <3>4. PlanType(handlers'[g][i]) /\ Planned(handlers'[g][i], rows[i], issued[i])
      BY <3>1, <3>2, <3>3, AgedPlan
    <3>5. rows'[i].status = rows[i].status /\ rows'[i].commit = rows[i].commit
          /\ rows'[i].pr = rows[i].pr
      BY <1>2, <3>1 DEF Edited
    <3>6. QED
      BY <1>1, <3>4, <3>5 DEF Planned
  <2>3. DOMAIN handlers' = Handlers
    BY <1>1 DEF AgedHandlers
  <2>4. \A g \in Handlers : DOMAIN handlers'[g] \subseteq Issues
    BY <1>1, <2>1 DEF Underway
  <2>5. \A g \in Handlers : DOMAIN handlers'[g] = DOMAIN handlers[g]
    BY <2>1
  <2>6. QED
    BY <2>2, <2>3, <2>4, <2>5 DEF Underway
<1>5. ASSUME NEW j \in Issues
      PROVE  Sound(rows'[j], issued'[j], attempts'[j], questions'[j])
  <2>1. /\ rows'[j].lease = None <=> rows[j].lease = None
        /\ rows'[j].retry = None <=> rows[j].retry = None
    BY <1>2, AgedTime DEF Edited
  <2>2. QED
    BY <1>1, <1>2, <2>1 DEF Sound, ClaimState, Edited
<1>6. QED
  BY <1>3, <1>4, <1>5 DEF IInv

-----------------------------------------------------------------------------
(* Theorems *)

LEMMA InitIInv == Init => IInv
<1> SUFFICES ASSUME Init PROVE IInv
  OBVIOUS
<1>1. /\ AbsentRow \in Row /\ AbsentRow.status = Absent /\ AbsentRow.token = 0
      /\ AbsentRow.lease = None
  BY Times DEF AbsentRow, Row
<1>2. Tables
  BY <1>1, RacesAssumption DEF Init, Tables, Attempt
<1>3. Underway
  BY DEF Init, Underway, Idle
<1>4. \A i \in Issues : Sound(rows[i], issued[i], attempts[i], questions[i])
  BY <1>1 DEF Init, Sound, ClaimState, Delivered, Opened, Absent
<1>5. QED
  BY <1>2, <1>3, <1>4 DEF IInv

LEMMA StepIInv == IInv /\ [Next]_vars => IInv'
<1> SUFFICES ASSUME IInv, [Next]_vars PROVE IInv'
  OBVIOUS
<1>1. ASSUME NEW h \in Handlers, NEW i \in Issues, Reads(h, i)
      PROVE  IInv'
  BY <1>1, HeartbeatStep, ReleaseClaimStep, TransitionStep, RequestHumanStep,
     ResolveHumanStep, ContinueIssueStep, PatchIssueStep, DeliverIssueStep,
     ArchiveCancelStep, ArchiveCommitStep DEF Reads
<1>2. ASSUME NEW h \in Handlers,
             Sweep(h) \/ FindAttempt(h) \/ Commit(h) \/ Abort(h)
      PROVE  IInv'
  BY <1>2, SweepStep, FindAttemptStep, CommitStep, AbortStep
<1>3. ASSUME NEW i \in Issues, CreateIssue(i) \/ ClaimIssue(i)
      PROVE  IInv'
  BY <1>3, CreateIssueStep, ClaimIssueStep
<1>4. CASE Tick
  BY <1>4, TickStep
<1>5. CASE UNCHANGED vars
  BY <1>5 DEF vars, IInv, Tables, Underway
<1>6. QED
  BY <1>1, <1>2, <1>3, <1>4, <1>5 DEF Next

LEMMA Invariant == Spec => []IInv
BY InitIInv, StepIInv, PTL DEF Spec

\* The tables keep their types, and no handler under way holds a column that the
\* table lacks or a value that the column cannot take.
THEOREM TypeCorrect == Spec => []TypeOK
BY Invariant, ImpliesTypeOK, PTL

\* However many heartbeats, releases, decisions, edits and sweeps overlap, a
\* running Issue has the claim granted last, the Attempt that came with it and a
\* lease: the only statement that gives a claim tests the row as it writes it.
THEOREM ClaimIsBacked == Spec => []RunningIsBacked
<1>1. IInv => RunningIsBacked
  BY DEF IInv, Sound, ClaimState, RunningIsBacked
<1>2. QED
  BY <1>1, Invariant, PTL

\* Answers and requests that overlap never leave an Issue waiting for a person
\* with no open question, if POST /status is not asked for needs_human.
THEOREM WaitingIsAnswerable ==
    ASSUME AskedWithQuestion
    PROVE  Spec => []WaitingCanBeAnswered
<1>1. IInv => WaitingCanBeAnswered
  BY DEF IInv, Sound, WaitingCanBeAnswered
<1>2. QED
  BY <1>1, Invariant, PTL

\* An Issue queued for a retry has the time of the retry, so that a sweep can
\* find it, whatever else was written between a release and its commit.
THEOREM RetryIsScheduled == Spec => []QueuedHasTime
<1>1. IInv => QueuedHasTime
  BY DEF IInv, Sound, QueuedHasTime
<1>2. QED
  BY <1>1, Invariant, PTL

\* A handler that overlaps a delivery never takes away the commit or the request
\* that the status of the Issue promises.
THEOREM DeliveryIsOnRow == Spec => []DeliveryIsRecorded
<1>1. IInv => DeliveryIsRecorded
  BY DEF IInv, Sound, DeliveryIsRecorded, Delivered, Opened
<1>2. QED
  BY <1>1, Invariant, PTL
=============================================================================
