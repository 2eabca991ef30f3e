-------------------------- MODULE Delivery_proofs --------------------------
(***************************************************************************)
(* However many delivery calls overlap, each other and the Attempts, hooks *)
(* and follow-ups of the Issue, between any two of their git commands:     *)
(* what is published and merged is what was approved, it stays possible to *)
(* publish, and follow-up instructions reach an Agent.                     *)
(***************************************************************************)
EXTENDS Delivery, TLAPS

\* How many versions status s is behind the last one before the next claim.
Behind(s) ==
    IF s = "running" THEN 4
    ELSE IF s \in {"retry_queued", "reviewing"} THEN 3
    ELSE IF s \in {"ready", "awaiting_publish"} THEN 2
    ELSE IF s = "pr_open" THEN 1 ELSE 0

\* The version tells how often the Issue went round, and no less until a call is overtaken.
Counted ==
    /\ issue.version + Behind(issue.status) <= 3 * issue.claims + 2
    /\ ~overtaken => issue.version + Behind(issue.status) = 3 * issue.claims + 2

\* The running Attempt carries what is to be handed out.
Attempting ==
    /\ attempt.phase # None <=> issue.status = "running"
    /\ attempt.phase = None => attempt = NoAttempt
    /\ attempt.phase # None => attempt.carries = followups.next
    /\ attempt.phase = "turn" => attempt.carries \subseteq followups.heard

\* No instruction is lost, and none is left over in review.
Told ==
    /\ 1..followups.given \subseteq followups.heard \cup followups.cut \cup followups.next
    /\ issue.status = "reviewing" => followups.next = {}

\* From the approval on the workspace is the approved commit; before it nothing of the
\* Issue is on the host.
Settled ==
    ~overtaken
      => /\ Approved /\ ~strayed => issue.commit = tree /\ index = tree /\ head = tree
         /\ ~Approved => remote.branch = None /\ remote.state = None

\* What is on the host is the approved commit.
OnHost ==
    ~overtaken /\ ~strayed
      => /\ remote.branch \in {None, issue.commit}
         /\ issue.status \in {"pr_open", "done"} \/ remote.state # None
              => remote.branch = issue.commit
         /\ remote.state = "merged" \/ issue.status = "done" => remote.merged = issue.commit

\* A call has read the version that belongs to its claim, and claims come between.
Reads(r) ==
    /\ r.phase # None => r.action # None
    /\ r.action # None
         => /\ r.claims <= issue.claims
            /\ attempt.phase # None => r.claims < issue.claims
            /\ r.version + Behind(Awaited(r.action)) <= 3 * r.claims + 2
            /\ ~overtaken => r.version + Behind(Awaited(r.action)) = 3 * r.claims + 2

\* What an approval may rely on from one git command to the next.
Approves(r) ==
    r.action = "approve_result" /\ r.claims = issue.claims /\ ~strayed /\ ~overtaken
      => /\ r.phase \notin {"begun", "checked"} => index = tree
         /\ r.phase \in {"committed", "ready", "rechecked"} => head = tree
         /\ r.phase \in {"ready", "rechecked"} => r.commit = tree

\* What a publication or the confirmation of a merge may rely on.
Publishes(r) ==
    r.action \in {"authorize_publish", "confirm_merge"} /\ ~overtaken
      => /\ Approved
         /\ ~strayed => r.commit = issue.commit
         /\ ~strayed /\ r.action = "authorize_publish"
              /\ r.phase \in {"pushed", "ready", "rechecked"} => remote.branch = issue.commit
         /\ ~strayed /\ r.action = "confirm_merge" /\ r.phase \in {"ready", "rechecked"}
              => remote.branch = issue.commit /\ remote.merged = issue.commit

Knows(r) == Reads(r) /\ Approves(r) /\ Publishes(r)

Inv ==
    /\ TypeOK
    /\ Counted
    /\ Attempting
    /\ Told
    /\ Settled
    /\ OnHost
    /\ \A c \in Calls : Knows(calls[c])

-----------------------------------------------------------------------------
(* Fields *)

LEMMA RowFields ==
    ASSUME TypeOK
    PROVE  /\ issue.status \in IssueStatus /\ issue.version \in Version
           /\ issue.version \in Nat /\ issue.claims \in Nat
           /\ issue.commit \in Content \cup {None} /\ issue.request \in 0..MaxRequests
           /\ issue.claims \in 0..MaxAttempts
BY DEF TypeOK, IssueRow, Version

LEMMA CallFields ==
    ASSUME TypeOK, NEW c \in Calls
    PROVE  /\ calls[c] \in Call
           /\ calls[c].action \in Action \cup {None}
           /\ calls[c].phase \in CallPhase \cup {None}
           /\ calls[c].version \in Version /\ calls[c].version \in Nat
           /\ calls[c].commit \in Content \cup {None}
           /\ calls[c].request \in 0..MaxRequests
           /\ calls[c].claims \in 0..MaxAttempts /\ calls[c].claims \in Nat
<1>1. calls[c] \in Call
  BY DEF TypeOK
<1>2. QED
  BY <1>1, DeliveryConstants DEF Call, Version

LEMMA RemoteFields ==
    ASSUME TypeOK
    PROVE  /\ remote.branch \in Content \cup {None} /\ remote.request \in 0..MaxRequests
           /\ remote.state \in RequestState \cup {None}
           /\ remote.merged \in Content \cup {None}
BY DEF TypeOK, Remote

LEMMA AttemptFields ==
    ASSUME TypeOK
    PROVE  /\ attempt.phase \in AttemptPhase \cup {None}
           /\ attempt.carries \in SUBSET Instruction
           /\ followups.given \in 0..MaxFollowUps
           /\ followups.next \in SUBSET Instruction
           /\ followups.heard \in SUBSET Instruction
           /\ followups.cut \in SUBSET Instruction
BY DEF TypeOK, Attempt, FollowUps

LEMMA ContentFields ==
    ASSUME TypeOK
    PROVE  /\ tree \in Content /\ tree.base \in 0..MaxTarget /\ tree.edit \in 0..MaxEdits
           /\ index \in Content /\ head \in Content
           /\ target \in 0..MaxTarget /\ target \in Nat
           /\ fetched \in 0..MaxTarget
           /\ tree # None /\ head # None
BY NoneIsNothing DEF TypeOK, Content

LEMMA NoCallIsCall == NoCall \in Call /\ NoCall.action = None /\ NoCall.phase = None
<1>1. 0 \in Version /\ 0 \in 0..MaxRequests /\ 0 \in 0..MaxAttempts
  BY DeliveryConstants DEF Version
<1>2. QED
  BY <1>1 DEF NoCall, Call

LEMMA NoCallKnows == Knows(NoCall)
BY NoCallIsCall, NoneIsNothing DEF Knows, Reads, Approves, Publishes, Action

LEMMA GoesCall ==
    ASSUME TypeOK, NEW c \in Calls, NEW p \in CallPhase, Goes(c, p)
    PROVE  \E r \in Call : /\ calls' = [calls EXCEPT ![c] = r]
                           /\ r.action = calls[c].action /\ r.phase = p
                           /\ r.version = calls[c].version /\ r.commit = calls[c].commit
                           /\ r.claims = calls[c].claims
<1> DEFINE r == [calls[c] EXCEPT !.phase = p]
<1>1. /\ r \in Call
      /\ r.action = calls[c].action /\ r.phase = p
      /\ r.version = calls[c].version /\ r.commit = calls[c].commit
      /\ r.claims = calls[c].claims
  BY CallFields DEF Call
<1>2. calls' = [calls EXCEPT ![c] = r]
  BY DEF Goes
<1>3. QED
  BY <1>1, <1>2

\* The Issue becomes s, the next status in which it goes round.
LEMMA BecomesRow ==
    ASSUME TypeOK, Counted, NEW s \in IssueStatus, Becomes(s),
           Behind(s) + 1 = Behind(issue.status), UNCHANGED overtaken
    PROVE  /\ issue' \in IssueRow
           /\ issue'.status = s /\ issue'.commit = issue.commit
           /\ issue'.claims = issue.claims
           /\ Counted'
<1> DEFINE v == issue.version + 1
<1>0. issue.version \in Nat /\ issue.claims \in Nat /\ issue.claims <= MaxAttempts
  BY RowFields, DeliveryConstants
<1>1. Behind(s) \in Nat /\ Behind(issue.status) \in Nat
  BY DEF Behind
<1>2. v \in Version
  BY <1>0, <1>1, DeliveryConstants DEF Counted, Version
<1>3. issue' = [issue EXCEPT !.status = s, !.version = v]
  BY DEF Becomes
<1>4. v = issue.version + 1
  OBVIOUS
<1> HIDE DEF v
<1>5. /\ issue' \in IssueRow
      /\ issue'.status = s /\ issue'.version = v
      /\ issue'.commit = issue.commit /\ issue'.claims = issue.claims
  BY <1>2, <1>3 DEF TypeOK, IssueRow
<1>6. Counted'
  <2>1. Behind(issue.status)' = Behind(s)
    BY <1>5 DEF Behind
  <2>2. QED
    BY <1>0, <1>1, <1>4, <1>5, <2>1 DEF Counted
<1>7. QED
  BY <1>5, <1>6

-----------------------------------------------------------------------------
(* What a step must keep *)

\* A step keeps what call d relies on: it goes back on no claim and no approval, leaves a
\* staged workspace without an Attempt as it is, and what is on the host of an approved Issue.
Keeps(d) ==
    /\ issue'.claims \in Nat /\ issue.claims <= issue'.claims
    /\ attempt'.phase # None => attempt.phase # None \/ issue.claims < issue'.claims
    /\ ~overtaken' => ~overtaken
    /\ ~overtaken' /\ Approved => Approved'
    /\ ~strayed' /\ ~overtaken' /\ attempt.phase = None /\ HasStaged(d)
         => /\ ~strayed /\ tree' = tree
            /\ index = tree => index' = tree
            /\ index = tree /\ head = tree => head' = tree
    /\ ~strayed' /\ ~overtaken' /\ Approved
         => /\ ~strayed /\ issue'.commit = issue.commit
            /\ remote.branch = issue.commit => remote'.branch = issue.commit
            /\ remote.merged = issue.commit => remote'.merged = issue.commit

LEMMA StillKnows ==
    ASSUME Inv, NEW d \in Calls, calls'[d] = calls[d], Keeps(d)
    PROVE  Knows(calls[d])'
<1> DEFINE r == calls[d]
<1>0. TypeOK /\ Knows(r)
  BY DEF Inv
<1>1. r.claims \in Nat /\ issue.claims \in Nat /\ issue'.claims \in Nat
      /\ r.version \in Nat
  BY <1>0, CallFields, RowFields DEF Keeps
<1>2. r' = r
  OBVIOUS
<1>3. HasStaged(d) <=> r.action = "approve_result" /\ r.phase \notin {"begun", "checked"}
  BY DEF HasStaged
<1> HIDE DEF r
<1>4. Reads(r)'
  <2>1. Behind(Awaited(r.action))' = Behind(Awaited(r.action))
    BY <1>2
  <2>2. QED
    BY <1>0, <1>1, <1>2, <2>1 DEF Knows, Reads, Keeps
<1>5. Approves(r)'
  <2> SUFFICES ASSUME r.action = "approve_result", r.claims = issue'.claims,
                      ~strayed', ~overtaken', r.phase \notin {"begun", "checked"}
               PROVE  /\ index' = tree'
                      /\ r.phase \in {"committed", "ready", "rechecked"} => head' = tree'
                      /\ r.phase \in {"ready", "rechecked"} => r.commit = tree'
    BY <1>2 DEF Approves
  <2>1. r.claims = issue.claims /\ attempt.phase = None
    BY <1>0, <1>1, NoneIsNothing DEF Knows, Reads, Keeps, Action
  <2>2. HasStaged(d)
    BY <1>3
  <2>3. /\ ~strayed /\ ~overtaken /\ tree' = tree
        /\ index = tree => index' = tree
        /\ index = tree /\ head = tree => head' = tree
    BY <2>1, <2>2 DEF Keeps
  <2>4. /\ index = tree
        /\ r.phase \in {"committed", "ready", "rechecked"} => head = tree
        /\ r.phase \in {"ready", "rechecked"} => r.commit = tree
    BY <1>0, <2>1, <2>3 DEF Knows, Approves
  <2>5. QED
    BY <2>3, <2>4
<1>6. Publishes(r)'
  BY <1>0, <1>2 DEF Knows, Publishes, Keeps
<1>7. Knows(r)'
  BY <1>4, <1>5, <1>6 DEF Knows
<1>8. QED
  BY <1>7 DEF r

LEMMA AllKnow ==
    ASSUME Inv, UNCHANGED calls, \A d \in Calls : Keeps(d)
    PROVE  (\A c \in Calls : Knows(calls[c]))'
BY StillKnows

\* A call c that becomes r, in a step after which r can be relied on, leaves the others
\* what they rely on.
LEMMA CallStep ==
    ASSUME Inv, NEW c \in Calls, NEW r \in Call, calls' = [calls EXCEPT ![c] = r],
           Knows(r)', \A d \in Calls : Keeps(d)
    PROVE  /\ calls' \in [Calls -> Call]
           /\ (\A d \in Calls : Knows(calls[d]))'
<1>0. TypeOK
  BY DEF Inv
<1>1. /\ calls' \in [Calls -> Call] /\ calls'[c] = r
      /\ \A d \in Calls : d # c => calls'[d] = calls[d]
  BY <1>0 DEF TypeOK
<1>2. ASSUME NEW d \in Calls PROVE Knows(calls[d])'
  <2>1. CASE d = c
    BY <1>1, <2>1 DEF Knows, Reads, Approves, Publishes
  <2>2. CASE d # c
    BY <1>1, <2>2, StillKnows
  <2>3. QED
    BY <2>1, <2>2
<1>3. QED
  BY <1>1, <1>2

\* Only the call and the git state of the workspace change, and neither index nor HEAD moves
\* off the files.
LEMMA GitStep ==
    ASSUME Inv, NEW c \in Calls, NEW r \in Call, calls' = [calls EXCEPT ![c] = r],
           UNCHANGED <<others, tree, remote>>,
           index' \in Content, head' \in Content, fetched' \in 0..MaxTarget,
           index = tree => index' = tree,
           index = tree /\ head = tree => head' = tree,
           Knows(r)'
    PROVE  Inv'
<1>0. /\ TypeOK /\ Counted /\ Attempting /\ Told /\ Settled /\ OnHost
      /\ UNCHANGED <<host, issue, target, lingers, strayed, attempt, followups, overtaken>>
  BY DEF Inv, others
<1>1. issue'.claims \in Nat /\ issue.claims <= issue'.claims
  BY <1>0, RowFields
<1>2. \A d \in Calls : Keeps(d)
  BY <1>0, <1>1 DEF Keeps, Approved
<1>3. calls' \in [Calls -> Call] /\ (\A d \in Calls : Knows(calls[d]))'
  BY <1>2, CallStep
<1>4. TypeOK'
  BY <1>0, <1>3 DEF TypeOK
<1>5. Counted' /\ Attempting' /\ Told' /\ OnHost'
  BY <1>0 DEF Counted, Behind, Attempting, Told, OnHost
<1>6. Settled'
  BY <1>0 DEF Settled, Approved
<1>7. QED
  BY <1>3, <1>4, <1>5, <1>6 DEF Inv

\* Only the call changes.
LEMMA OnlyCall ==
    ASSUME Inv, NEW c \in Calls, NEW r \in Call, calls' = [calls EXCEPT ![c] = r],
           UNCHANGED <<others, files, fetched, remote>>, Knows(r)
    PROVE  Inv'
<1>1. TypeOK /\ UNCHANGED <<others, tree, remote>> /\ UNCHANGED <<index, head, fetched>>
  BY DEF Inv, files
<1>2. Knows(r)'
  BY <1>1 DEF others, Knows, Reads, Approves, Publishes, Approved
<1>3. QED
  BY <1>1, <1>2, ContentFields, GitStep

-----------------------------------------------------------------------------
(* Attempts *)

LEMMA ClaimStep == ASSUME Inv, Claim PROVE Inv'
<1> DEFINE v == issue.version + 1
           k == issue.claims + 1
<1>0. /\ TypeOK /\ Counted /\ Attempting /\ Told /\ Settled /\ OnHost
      /\ UNCHANGED <<host, target, tree, index, head, fetched, lingers, strayed, followups,
                     calls, remote, overtaken>>
      /\ issue.status = "ready"
  BY DEF Inv, Claim, desk, files
<1>1. v \in Version /\ k \in 0..MaxAttempts /\ issue.claims < k
  BY <1>0, RowFields, DeliveryConstants DEF Counted, Behind, Version, Claim
<1>2. v = issue.version + 1 /\ k = issue.claims + 1
  OBVIOUS
<1>3. issue' = [issue EXCEPT !.status = "running", !.version = v, !.claims = k]
  BY DEF Claim
<1> HIDE DEF v, k
<1>4. /\ issue' \in IssueRow /\ issue'.status = "running" /\ issue'.version = v
      /\ issue'.claims = k /\ issue'.commit = issue.commit
  BY <1>0, <1>1, <1>3 DEF TypeOK, IssueRow, IssueStatus
<1>5. attempt' \in Attempt /\ attempt'.phase = "claimed" /\ attempt'.carries = followups.next
  BY <1>0, AttemptFields DEF Claim, Attempt, AttemptPhase
<1>6. TypeOK'
  BY <1>0, <1>4, <1>5 DEF TypeOK
<1>7. Counted'
  BY <1>0, <1>2, <1>4, RowFields DEF Counted, Behind
<1>8. Attempting'
  BY <1>0, <1>4, <1>5, NoneIsNothing DEF Attempting, AttemptPhase
<1>9. Told'
  BY <1>0, <1>4 DEF Told
<1>10. ~Approved /\ ~Approved'
  BY <1>0, <1>4 DEF Approved
<1>11. Settled' /\ OnHost'
  BY <1>0, <1>4, <1>10, NoneIsNothing DEF Settled, OnHost, RequestState
<1>12. \A d \in Calls : Keeps(d)
  BY <1>0, <1>1, <1>4, <1>10, RowFields, DeliveryConstants DEF Keeps
<1>13. QED
  BY <1>0, <1>6, <1>7, <1>8, <1>9, <1>11, <1>12, AllKnow DEF Inv

LEMMA OpenThreadStep == ASSUME Inv, OpenThread PROVE Inv'
<1>0. /\ TypeOK /\ Counted /\ Attempting /\ Told /\ Settled /\ OnHost
      /\ UNCHANGED <<host, issue, target, tree, index, head, fetched, lingers, strayed,
                     followups, calls, remote, overtaken>>
      /\ attempt.phase = "claimed"
  BY DEF Inv, OpenThread, desk, files
<1>1. /\ attempt' \in Attempt /\ attempt'.phase = "thread"
      /\ attempt'.carries = attempt.carries
  BY <1>0 DEF OpenThread, TypeOK, Attempt, AttemptPhase
<1>2. TypeOK'
  BY <1>0, <1>1 DEF TypeOK
<1>3. Counted' /\ Told' /\ Settled' /\ OnHost'
  BY <1>0 DEF Counted, Behind, Told, Settled, OnHost, Approved
<1>4. Attempting'
  BY <1>0, <1>1, NoneIsNothing DEF Attempting, AttemptPhase
<1>5. \A d \in Calls : Keeps(d)
  BY <1>0, RowFields, NoneIsNothing DEF Keeps, Approved, AttemptPhase
<1>6. QED
  BY <1>0, <1>2, <1>3, <1>4, <1>5, AllKnow DEF Inv

LEMMA StartTurnStep == ASSUME Inv, StartTurn PROVE Inv'
<1>0. /\ TypeOK /\ Counted /\ Attempting /\ Told /\ Settled /\ OnHost
      /\ UNCHANGED <<host, issue, target, tree, index, head, fetched, lingers, strayed,
                     calls, remote, overtaken>>
      /\ attempt.phase = "thread"
  BY DEF Inv, StartTurn, desk, files
<1>1. /\ attempt' \in Attempt /\ attempt'.phase = "turn"
      /\ attempt'.carries = attempt.carries
  BY <1>0 DEF StartTurn, TypeOK, Attempt, AttemptPhase
<1>2. /\ followups' \in FollowUps /\ followups'.heard = followups.heard \cup attempt.carries
      /\ followups'.given = followups.given /\ followups'.next = followups.next
      /\ followups'.cut = followups.cut
  BY <1>0, AttemptFields DEF StartTurn, TypeOK, FollowUps
<1>3. TypeOK'
  BY <1>0, <1>1, <1>2 DEF TypeOK
<1>4. Counted' /\ Settled' /\ OnHost'
  BY <1>0 DEF Counted, Behind, Settled, OnHost, Approved
<1>5. Told'
  BY <1>0, <1>2 DEF Told
<1>6. Attempting'
  BY <1>0, <1>1, <1>2, NoneIsNothing DEF Attempting, AttemptPhase
<1>7. \A d \in Calls : Keeps(d)
  BY <1>0, RowFields, NoneIsNothing DEF Keeps, Approved, AttemptPhase
<1>8. QED
  BY <1>0, <1>3, <1>4, <1>5, <1>6, <1>7, AllKnow DEF Inv

\* Work in an approved workspace, or in one that is staged for approval, is written down.
LEMMA WorkStep == ASSUME Inv, Work PROVE Inv'
<1>0. /\ TypeOK /\ Counted /\ Attempting /\ Told /\ Settled /\ OnHost
      /\ UNCHANGED <<host, issue, target, fetched, lingers, attempt, followups, calls, remote,
                     overtaken>>
      /\ strayed' = (strayed \/ Approved
                       \/ (attempt.phase # "turn" /\ \E c \in Calls : HasStaged(c)))
  BY DEF Inv, Work
<1>1. tree' \in Content
  BY <1>0, ContentFields, DeliveryConstants DEF Work, Content
<1>2. index' \in Content /\ head' \in Content /\ strayed' \in BOOLEAN
  BY <1>0, <1>1, ContentFields DEF Work
<1>3. TypeOK'
  BY <1>0, <1>1, <1>2 DEF TypeOK
<1>4. Counted' /\ Told' /\ Attempting'
  BY <1>0 DEF Counted, Behind, Told, Attempting
<1>5. strayed => strayed'
  BY <1>0
<1>6. Approved => strayed'
  BY <1>0
<1>7. Settled' /\ OnHost'
  BY <1>0, <1>5, <1>6 DEF Settled, OnHost, Approved
<1>8. ASSUME NEW d \in Calls PROVE Keeps(d)
  <2>1. attempt.phase = None /\ HasStaged(d) => strayed'
    BY <1>0, NoneIsNothing DEF AttemptPhase
  <2>2. QED
    BY <1>0, <1>5, <1>6, <2>1, RowFields DEF Keeps, Approved
<1>9. QED
  BY <1>0, <1>3, <1>4, <1>7, <1>8, AllKnow DEF Inv

-----------------------------------------------------------------------------
(* The end of an Attempt *)

LEMMA OverFields ==
    ASSUME TypeOK, AttemptOver
    PROVE  /\ attempt' = NoAttempt /\ attempt' \in Attempt /\ attempt'.phase = None
           /\ followups' \in FollowUps
           /\ followups'.given = followups.given /\ followups'.heard = followups.heard
           /\ followups'.next = NextFollowUps
           /\ followups'.cut = followups.cut \cup
                (IF attempt.phase = "thread" THEN attempt.carries ELSE {})
<1> DEFINE n == NextFollowUps
           k == followups.cut \cup (IF attempt.phase = "thread" THEN attempt.carries ELSE {})
<1>1. n \in SUBSET Instruction /\ k \in SUBSET Instruction
  BY AttemptFields DEF NextFollowUps
<1>2. followups' = [followups EXCEPT !.next = n, !.cut = k]
  BY DEF AttemptOver
<1> HIDE DEF n, k
<1>3. /\ followups' \in FollowUps
      /\ followups'.given = followups.given /\ followups'.heard = followups.heard
      /\ followups'.next = n /\ followups'.cut = k
  BY <1>1, <1>2 DEF TypeOK, FollowUps
<1>4. attempt' = NoAttempt /\ attempt' \in Attempt /\ attempt'.phase = None
  BY DEF AttemptOver, NoAttempt, Attempt
<1>5. QED
  BY <1>3, <1>4 DEF n, k

\* Whatever an Attempt carried was heard, is cut off, or is handed out again.
LEMMA OverTold ==
    ASSUME Inv, AttemptOver, attempt.phase # None
    PROVE  1..followups'.given
             \subseteq followups'.heard \cup followups'.cut \cup followups'.next
<1>1. TypeOK /\ Attempting /\ Told
  BY DEF Inv
<1>2. attempt.carries = followups.next
  BY <1>1 DEF Attempting
<1>3. 1..followups.given \subseteq followups.heard \cup followups.cut \cup followups.next
  BY <1>1 DEF Told
<1>4. /\ followups'.given = followups.given /\ followups'.heard = followups.heard
      /\ followups'.next = NextFollowUps
      /\ followups'.cut = followups.cut \cup
           (IF attempt.phase = "thread" THEN attempt.carries ELSE {})
  BY <1>1, OverFields
<1>5. CASE attempt.phase = "thread"
  BY <1>2, <1>3, <1>4, <1>5
<1>6. CASE attempt.phase = "turn"
  <2>1. followups.next \subseteq followups.heard
    BY <1>1, <1>2, <1>6 DEF Attempting
  <2>2. followups.cut \subseteq followups'.cut
    BY <1>4
  <2>3. QED
    BY <1>3, <1>4, <2>1, <2>2
<1>7. CASE attempt.phase \notin {"thread", "turn"}
  <2>1. followups'.next = followups.next
    BY <1>4, <1>7 DEF NextFollowUps
  <2>2. QED
    BY <1>3, <1>4, <2>1
<1>8. QED
  BY <1>5, <1>6, <1>7

LEMMA FinishIssueStep == ASSUME Inv, FinishIssue PROVE Inv'
<1>0. /\ TypeOK /\ Counted /\ Attempting /\ Told /\ Settled /\ OnHost
      /\ UNCHANGED <<host, target, tree, index, head, fetched, calls, remote, overtaken>>
      /\ attempt.phase = "turn" /\ lingers' = TRUE /\ strayed' = FALSE
      /\ Becomes("reviewing") /\ AttemptOver
  BY DEF Inv, FinishIssue, files
<1>1. issue.status = "running" /\ attempt.phase # None
  BY <1>0, NoneIsNothing DEF Attempting, AttemptPhase
<1>2. /\ issue' \in IssueRow /\ issue'.status = "reviewing" /\ issue'.commit = issue.commit
      /\ issue'.claims = issue.claims /\ Counted'
  BY <1>0, <1>1, BecomesRow DEF IssueStatus, Behind
<1>3. /\ attempt' = NoAttempt /\ attempt' \in Attempt /\ attempt'.phase = None
      /\ followups' \in FollowUps /\ followups'.next = {}
  BY <1>0, OverFields DEF NextFollowUps
<1>4. TypeOK'
  BY <1>0, <1>2, <1>3 DEF TypeOK
<1>5. Attempting'
  BY <1>0, <1>1, <1>2, <1>3, NoneIsNothing DEF Attempting, AttemptPhase
<1>6. Told'
  BY <1>0, <1>1, <1>2, <1>3, OverTold DEF Told
<1>7. ~Approved /\ ~Approved'
  BY <1>1, <1>2 DEF Approved
<1>8. Settled' /\ OnHost'
  BY <1>0, <1>2, <1>7, NoneIsNothing DEF Settled, OnHost, RequestState
<1>9. \A d \in Calls : Keeps(d)
  BY <1>0, <1>1, <1>2, <1>3, <1>7, RowFields DEF Keeps
<1>10. QED
  BY <1>0, <1>2, <1>4, <1>5, <1>6, <1>8, <1>9, AllKnow DEF Inv

LEMMA FailAttemptStep == ASSUME Inv, FailAttempt PROVE Inv'
<1>0. /\ TypeOK /\ Counted /\ Attempting /\ Told /\ Settled /\ OnHost
      /\ UNCHANGED <<host, target, tree, index, head, fetched, strayed, calls, remote,
                     overtaken>>
      /\ lingers' \in BOOLEAN /\ Becomes("retry_queued") /\ AttemptOver
  BY DEF Inv, FailAttempt, TypeOK, files
<1>1. issue.status = "running" /\ attempt.phase # None
  BY <1>0 DEF Attempting, FailAttempt
<1>2. /\ issue' \in IssueRow /\ issue'.status = "retry_queued" /\ issue'.commit = issue.commit
      /\ issue'.claims = issue.claims /\ Counted'
  BY <1>0, <1>1, BecomesRow DEF IssueStatus, Behind
<1>3. /\ attempt' = NoAttempt /\ attempt' \in Attempt /\ attempt'.phase = None
      /\ followups' \in FollowUps
  BY <1>0, OverFields
<1>4. TypeOK'
  BY <1>0, <1>2, <1>3 DEF TypeOK
<1>5. Attempting'
  BY <1>0, <1>1, <1>2, <1>3, NoneIsNothing DEF Attempting, AttemptPhase
<1>6. Told'
  BY <1>0, <1>1, <1>2, <1>3, OverTold DEF Told
<1>7. ~Approved /\ ~Approved'
  BY <1>1, <1>2 DEF Approved
<1>8. Settled' /\ OnHost'
  BY <1>0, <1>2, <1>7, NoneIsNothing DEF Settled, OnHost, RequestState
<1>9. \A d \in Calls : Keeps(d)
  BY <1>0, <1>1, <1>2, <1>3, <1>7, RowFields DEF Keeps
<1>10. QED
  BY <1>0, <1>2, <1>4, <1>5, <1>6, <1>8, <1>9, AllKnow DEF Inv

LEMMA TakeUpStep == ASSUME Inv, TakeUp PROVE Inv'
<1>0. /\ TypeOK /\ Counted /\ Attempting /\ Told /\ Settled /\ OnHost
      /\ UNCHANGED <<host, target, tree, index, head, fetched, lingers, strayed, attempt,
                     followups, calls, remote, overtaken>>
      /\ issue.status = "retry_queued" /\ Becomes("ready")
  BY DEF Inv, TakeUp, desk, files
<1>1. /\ issue' \in IssueRow /\ issue'.status = "ready" /\ issue'.commit = issue.commit
      /\ issue'.claims = issue.claims /\ Counted'
  BY <1>0, BecomesRow DEF IssueStatus, Behind
<1>2. TypeOK'
  BY <1>0, <1>1 DEF TypeOK
<1>3. Attempting' /\ Told'
  BY <1>0, <1>1 DEF Attempting, Told
<1>4. ~Approved /\ ~Approved'
  BY <1>0, <1>1 DEF Approved
<1>5. Settled' /\ OnHost'
  BY <1>0, <1>1, <1>4, NoneIsNothing DEF Settled, OnHost, RequestState
<1>6. \A d \in Calls : Keeps(d)
  BY <1>0, <1>1, <1>4, RowFields DEF Keeps
<1>7. QED
  BY <1>0, <1>1, <1>2, <1>3, <1>5, <1>6, AllKnow DEF Inv

LEMMA LingeringEndsStep == ASSUME Inv, LingeringEnds PROVE Inv'
<1>0. /\ TypeOK /\ Counted /\ Attempting /\ Told /\ Settled /\ OnHost
      /\ UNCHANGED <<host, issue, target, tree, index, head, fetched, strayed, attempt,
                     followups, calls, remote, overtaken>>
      /\ lingers' = FALSE
  BY DEF Inv, LingeringEnds, files
<1>1. TypeOK'
  BY <1>0 DEF TypeOK
<1>2. Counted' /\ Attempting' /\ Told' /\ Settled' /\ OnHost'
  BY <1>0 DEF Counted, Behind, Attempting, Told, Settled, OnHost, Approved
<1>3. \A d \in Calls : Keeps(d)
  BY <1>0, RowFields DEF Keeps, Approved
<1>4. QED
  BY <1>0, <1>1, <1>2, <1>3, AllKnow DEF Inv

LEMMA ContinueIssueStep == ASSUME Inv, ContinueIssue PROVE Inv'
<1> DEFINE g == followups.given + 1
<1>0. /\ TypeOK /\ Counted /\ Attempting /\ Told /\ Settled /\ OnHost
      /\ UNCHANGED <<host, target, tree, index, head, fetched, lingers, strayed, attempt,
                     calls, remote, overtaken>>
      /\ issue.status = "reviewing" /\ Becomes("ready")
  BY DEF Inv, ContinueIssue, desk, files
<1>1. /\ issue' \in IssueRow /\ issue'.status = "ready" /\ issue'.commit = issue.commit
      /\ issue'.claims = issue.claims /\ Counted'
  BY <1>0, BecomesRow DEF IssueStatus, Behind
<1>2. /\ g \in 0..MaxFollowUps /\ g \in Instruction
      /\ 1..g \subseteq (1..followups.given) \cup {g}
  BY <1>0, AttemptFields, DeliveryConstants DEF ContinueIssue, Instruction
<1>3. followups' = [followups EXCEPT !.given = g, !.next = followups.next \cup {g}]
  BY <1>0 DEF ContinueIssue, TypeOK, FollowUps
<1> HIDE DEF g
<1>4. followups.next \cup {g} \in SUBSET Instruction
  BY <1>0, <1>2, AttemptFields
<1>5. /\ followups' \in FollowUps /\ followups'.given = g
      /\ followups'.next = followups.next \cup {g}
      /\ followups'.heard = followups.heard /\ followups'.cut = followups.cut
  BY <1>0, <1>2, <1>3, <1>4 DEF TypeOK, FollowUps
<1>6. TypeOK'
  BY <1>0, <1>1, <1>5 DEF TypeOK
<1>7. attempt.phase = None
  BY <1>0 DEF Attempting
<1>8. Attempting'
  BY <1>0, <1>1, <1>7, NoneIsNothing DEF Attempting, AttemptPhase
<1>9. Told'
  BY <1>0, <1>1, <1>2, <1>5 DEF Told
<1>10. ~Approved /\ ~Approved'
  BY <1>0, <1>1 DEF Approved
<1>11. Settled' /\ OnHost'
  BY <1>0, <1>1, <1>10, NoneIsNothing DEF Settled, OnHost, RequestState
<1>12. \A d \in Calls : Keeps(d)
  BY <1>0, <1>1, <1>10, RowFields DEF Keeps
<1>13. QED
  BY <1>0, <1>1, <1>6, <1>8, <1>9, <1>11, <1>12, AllKnow DEF Inv

-----------------------------------------------------------------------------
(* Outside *)

LEMMA AdvanceTargetStep == ASSUME Inv, AdvanceTarget PROVE Inv'
<1>0. /\ TypeOK /\ Counted /\ Attempting /\ Told /\ Settled /\ OnHost
      /\ UNCHANGED <<host, issue, tree, index, head, fetched, lingers, strayed, attempt,
                     followups, calls, remote, overtaken>>
  BY DEF Inv, AdvanceTarget, desk, files
<1>1. target' \in 0..MaxTarget
  BY <1>0, ContentFields, DeliveryConstants DEF AdvanceTarget
<1>2. TypeOK'
  BY <1>0, <1>1 DEF TypeOK
<1>3. Counted' /\ Attempting' /\ Told' /\ Settled' /\ OnHost'
  BY <1>0 DEF Counted, Behind, Attempting, Told, Settled, OnHost, Approved
<1>4. \A d \in Calls : Keeps(d)
  BY <1>0, RowFields DEF Keeps, Approved
<1>5. QED
  BY <1>0, <1>2, <1>3, <1>4, AllKnow DEF Inv

\* A merge or a closed request.
LEMMA HostStep == ASSUME Inv, Merge \/ CloseRequest PROVE Inv'
<1>0. /\ TypeOK /\ Counted /\ Attempting /\ Told /\ Settled /\ OnHost
      /\ UNCHANGED <<host, issue, target, tree, index, head, fetched, lingers, strayed, attempt,
                     followups, calls, overtaken>>
      /\ remote.state = "open"
  BY DEF Inv, Merge, CloseRequest, others, files
<1>1. ~overtaken /\ ~strayed => remote.branch = issue.commit
  BY <1>0, NoneIsNothing DEF OnHost, RequestState
<1>2. /\ remote' \in Remote /\ remote'.branch = remote.branch
      /\ \/ remote'.state = "merged" /\ remote'.merged = remote.branch
         \/ remote'.state = "closed" /\ remote'.merged = remote.merged
  BY <1>0, RemoteFields DEF Merge, CloseRequest, TypeOK, Remote, RequestState
<1>3. TypeOK'
  BY <1>0, <1>2 DEF TypeOK
<1>4. ~overtaken => Approved
  BY <1>0, NoneIsNothing DEF Settled, RequestState
<1>5. Counted' /\ Attempting' /\ Told' /\ Settled'
  BY <1>0, <1>4 DEF Counted, Behind, Attempting, Told, Settled, Approved
<1>6. OnHost'
  BY <1>0, <1>1, <1>2 DEF OnHost
<1>7. \A d \in Calls : Keeps(d)
  BY <1>0, <1>1, <1>2, RowFields DEF Keeps, Approved
<1>8. QED
  BY <1>0, <1>3, <1>5, <1>6, <1>7, AllKnow DEF Inv

-----------------------------------------------------------------------------
(* Steps of a delivery call that only look *)

LEMMA Awaits ==
    /\ Awaited("approve_result") = "reviewing"
    /\ Awaited("authorize_publish") = "awaiting_publish"
    /\ Awaited("confirm_merge") = "pr_open"
BY DEF Awaited

LEMMA BeginStep == ASSUME Inv, NEW c \in Calls, NEW a \in Action, Begin(c, a) PROVE Inv'
<1> DEFINE s == [action |-> a, phase |-> "begun", version |-> issue.version,
                 commit |-> issue.commit, request |-> issue.request,
                 claims |-> issue.claims]
<1>0. TypeOK /\ Counted /\ Attempting
  BY DEF Inv
<1>1. s \in Call
  BY <1>0, RowFields DEF Call, CallPhase
<1>2. /\ s.action = a /\ s.phase = "begun" /\ s.version = issue.version
      /\ s.commit = issue.commit /\ s.claims = issue.claims
  OBVIOUS
<1>3. calls' = [calls EXCEPT ![c] = s]
  BY DEF Begin
<1>4. UNCHANGED <<others, files, fetched, remote>> /\ issue.status = Awaited(a)
  BY DEF Begin
<1> HIDE DEF s
<1>5. PICK r \in Call : r = s
  BY <1>1
<1>6. Reads(r)
  <2>1. attempt.phase = None
    BY <1>0, <1>4, Awaits DEF Attempting, Action
  <2>2. QED
    BY <1>0, <1>2, <1>4, <1>5, <2>1, RowFields, NoneIsNothing DEF Reads, Counted, Action
<1>7. Approves(r)
  BY <1>2, <1>5 DEF Approves
<1>8. Publishes(r)
  BY <1>2, <1>4, <1>5, Awaits DEF Publishes, Approved
<1>9. QED
  BY <1>3, <1>4, <1>5, <1>6, <1>7, <1>8, OnlyCall DEF Knows

LEMMA GiveUpStep == ASSUME Inv, NEW c \in Calls, GiveUp(c) PROVE Inv'
<1>1. UNCHANGED <<others, files, fetched, remote>> /\ calls' = [calls EXCEPT ![c] = NoCall]
  BY DEF GiveUp, Ends
<1>2. QED
  BY <1>1, NoCallIsCall, NoCallKnows, OnlyCall

\* A call that goes on with the same version, commit and claims knows what it knew.
LEMMA GoesOn ==
    ASSUME NEW q, NEW r, Reads(q), r.action = q.action, r.phase # None => q.phase # None,
           r.version = q.version, r.claims = q.claims
    PROVE  Reads(r)
BY DEF Reads

LEMMA ApproveLookStep ==
    ASSUME Inv, NEW c \in Calls, ApproveBase(c) \/ Diff(c)
    PROVE  Inv'
<1> DEFINE q == calls[c]
<1>0. TypeOK /\ Knows(q)
  BY DEF Inv
<1>1. /\ UNCHANGED <<others, files, fetched, remote>>
      /\ q.action = "approve_result" /\ q.phase \in CallPhase
  BY DEF ApproveBase, Diff, At, CallPhase
<1>2. PICK p \in CallPhase :
         /\ Goes(c, p)
         /\ \/ p = "checked"
            \/ q.phase = "staged" /\ p = "differs"
            \/ q.phase = "staged" /\ p = "committed" /\ index = head
  BY DEF ApproveBase, Diff, At, CallPhase
<1>3. PICK r \in Call :
         /\ calls' = [calls EXCEPT ![c] = r]
         /\ r.action = q.action /\ r.phase = p
         /\ r.version = q.version /\ r.commit = q.commit /\ r.claims = q.claims
  BY <1>0, <1>2, GoesCall
<1> HIDE DEF q
<1>4. Reads(r)
  BY <1>0, <1>1, <1>3, NoneIsNothing, GoesOn DEF Knows
<1>5. Approves(r) /\ Publishes(r)
  BY <1>0, <1>1, <1>2, <1>3 DEF Knows, Approves, Publishes
<1>6. QED
  BY <1>1, <1>3, <1>4, <1>5, OnlyCall DEF Knows

LEMMA RevParseStep == ASSUME Inv, NEW c \in Calls, RevParse(c) PROVE Inv'
<1> DEFINE s == [calls[c] EXCEPT !.phase = "ready", !.commit = head]
<1>0. TypeOK /\ Knows(calls[c])
  BY DEF Inv
<1>1. /\ UNCHANGED <<others, files, fetched, remote>>
      /\ calls[c].action = "approve_result" /\ calls[c].phase = "committed"
      /\ calls' = [calls EXCEPT ![c] = s]
  BY DEF RevParse, At
<1>2. /\ s \in Call /\ s.action = "approve_result" /\ s.phase = "ready" /\ s.commit = head
      /\ s.version = calls[c].version /\ s.claims = calls[c].claims
  BY <1>0, <1>1, CallFields, ContentFields DEF Call, CallPhase
<1> HIDE DEF s
<1>3. PICK r \in Call : r = s
  BY <1>2
<1>4. Reads(r)
  BY <1>0, <1>1, <1>2, <1>3, NoneIsNothing, GoesOn DEF Knows, CallPhase
<1>5. Approves(r) /\ Publishes(r)
  BY <1>0, <1>1, <1>2, <1>3 DEF Knows, Approves, Publishes
<1>6. QED
  BY <1>1, <1>3, <1>4, <1>5, OnlyCall DEF Knows

LEMMA PublishLookStep ==
    ASSUME Inv, NEW c \in Calls, LookHead(c) \/ Ancestor(c) \/ PublishHead(c)
    PROVE  Inv'
<1> DEFINE q == calls[c]
<1>0. TypeOK /\ Knows(q)
  BY DEF Inv
<1>1. /\ UNCHANGED <<others, files, fetched, remote>>
      /\ q.action = "authorize_publish" /\ q.phase \in CallPhase
  BY DEF LookHead, Ancestor, PublishHead, At, CallPhase
<1>2. PICK p \in CallPhase : Goes(c, p) /\ p \in {"looked", "current", "headed"}
  BY DEF LookHead, Ancestor, PublishHead, CallPhase
<1>3. PICK r \in Call :
         /\ calls' = [calls EXCEPT ![c] = r]
         /\ r.action = q.action /\ r.phase = p
         /\ r.version = q.version /\ r.commit = q.commit /\ r.claims = q.claims
  BY <1>0, <1>2, GoesCall
<1> HIDE DEF q
<1>4. Reads(r)
  BY <1>0, <1>1, <1>3, NoneIsNothing, GoesOn DEF Knows
<1>5. Approves(r) /\ Publishes(r)
  BY <1>0, <1>1, <1>2, <1>3 DEF Knows, Approves, Publishes
<1>6. QED
  BY <1>1, <1>3, <1>4, <1>5, OnlyCall DEF Knows

LEMMA VerifyMergedStep == ASSUME Inv, NEW c \in Calls, VerifyMerged(c) PROVE Inv'
<1> DEFINE q == calls[c]
<1>0. TypeOK /\ Knows(q) /\ OnHost
  BY DEF Inv
<1>1. /\ UNCHANGED <<others, files, fetched, remote>>
      /\ q.action = "confirm_merge" /\ q.phase \in CallPhase
      /\ remote.state = "merged" /\ Goes(c, "ready")
  BY DEF VerifyMerged, At, CallPhase
<1>2. PICK r \in Call :
         /\ calls' = [calls EXCEPT ![c] = r]
         /\ r.action = q.action /\ r.phase = "ready"
         /\ r.version = q.version /\ r.commit = q.commit /\ r.claims = q.claims
  BY <1>0, <1>1, GoesCall DEF CallPhase
<1> HIDE DEF q
<1>3. Reads(r)
  BY <1>0, <1>1, <1>2, NoneIsNothing, GoesOn DEF Knows
<1>4. ~strayed /\ ~overtaken => remote.branch = issue.commit /\ remote.merged = issue.commit
  BY <1>0, <1>1, NoneIsNothing DEF OnHost, RequestState
<1>5. Approves(r) /\ Publishes(r)
  BY <1>0, <1>1, <1>2, <1>4 DEF Knows, Approves, Publishes
<1>6. QED
  BY <1>1, <1>2, <1>3, <1>5, OnlyCall DEF Knows

\* Before anything was overtaken, the version that is compared tells that no Attempt came
\* since the call read the Issue.
LEMMA RecheckStep == ASSUME Inv, NEW c \in Calls, Recheck(c) PROVE Inv'
<1> DEFINE q == calls[c]
           s == [q EXCEPT !.phase = "rechecked", !.claims = issue.claims]
<1>0. TypeOK /\ Knows(q) /\ Counted /\ Attempting
  BY DEF Inv
<1>1. UNCHANGED <<others, files, fetched, remote>> /\ q.phase = "ready" /\ q.action # None
  BY <1>0, NoneIsNothing DEF Recheck, Knows, Reads, CallPhase
<1>2. CASE calls' = [calls EXCEPT ![c] = NoCall]
  BY <1>1, <1>2, NoCallIsCall, NoCallKnows, OnlyCall
<1>3. CASE /\ issue.status = Awaited(q.action) /\ issue.version = q.version
           /\ calls' = [calls EXCEPT ![c] = s]
  <2>1. /\ s \in Call /\ s.action = q.action /\ s.phase = "rechecked"
        /\ s.version = q.version /\ s.commit = q.commit /\ s.claims = issue.claims
    BY <1>0, CallFields, RowFields DEF Call, CallPhase
  <2>2. q.action \in Action /\ q.claims \in Nat /\ issue.claims \in Nat /\ q.version \in Nat
    BY <1>0, <1>1, CallFields, RowFields
  <2> HIDE DEF q, s
  <2>3. PICK r \in Call : r = s
    BY <2>1
  <2>4. attempt.phase = None
    BY <1>0, <1>3, <2>2, Awaits DEF Attempting, Action
  <2>5. Reads(r)
    <3>1. /\ r.action # None /\ r.version = issue.version /\ r.claims = issue.claims
          /\ Awaited(r.action) = issue.status
      BY <1>1, <1>3, <2>1, <2>3
    <3>2. Behind(Awaited(r.action)) = Behind(issue.status)
      BY <3>1
    <3>3. QED
      BY <1>0, <2>2, <2>4, <3>1, <3>2 DEF Reads, Counted
  <2>6. ~overtaken => q.claims = issue.claims
    <3>1. ~overtaken => 3 * q.claims = 3 * issue.claims
      BY <1>0, <1>1, <1>3, <2>2 DEF Knows, Reads, Counted
    <3>2. QED
      BY <2>2, <3>1
  <2>7. Approves(r) /\ Publishes(r)
    BY <1>0, <1>1, <2>1, <2>3, <2>6 DEF Knows, Approves, Publishes
  <2>8. QED
    BY <1>1, <1>3, <2>3, <2>5, <2>7, OnlyCall DEF Knows
<1>4. QED
  BY <1>2, <1>3 DEF Recheck, Ends

-----------------------------------------------------------------------------
(* Steps of a delivery call that change something *)

\* git add, git commit and git fetch.
LEMMA GitCommandStep ==
    ASSUME Inv, NEW c \in Calls, Stage(c) \/ Commit(c) \/ Fetch(c)
    PROVE  Inv'
<1> DEFINE q == calls[c]
<1>0. TypeOK /\ Knows(q)
  BY DEF Inv
<1>1. /\ UNCHANGED <<others, tree, remote>> /\ q.phase \in CallPhase
      /\ index' \in Content /\ head' \in Content /\ fetched' \in 0..MaxTarget
      /\ index = tree => index' = tree
      /\ index = tree /\ head = tree => head' = tree
  BY <1>0, ContentFields DEF Stage, Commit, Fetch, At, CallPhase, files
<1>2. PICK p \in CallPhase :
         /\ Goes(c, p)
         /\ \/ q.action = "approve_result" /\ p = "staged" /\ index' = tree
            \/ /\ q.action = "approve_result" /\ q.phase = "differs" /\ p = "committed"
               /\ head' = index /\ index' = index
            \/ q.action = "authorize_publish" /\ p = "fetched"
  BY DEF Stage, Commit, Fetch, At, CallPhase
<1>3. PICK r \in Call :
         /\ calls' = [calls EXCEPT ![c] = r]
         /\ r.action = q.action /\ r.phase = p
         /\ r.version = q.version /\ r.commit = q.commit /\ r.claims = q.claims
  BY <1>0, <1>2, GoesCall
<1>4. /\ UNCHANGED <<host, issue, target, lingers, strayed, attempt, followups, overtaken>>
      /\ UNCHANGED <<tree, remote>>
  BY <1>1 DEF others
<1> HIDE DEF q
<1>5. Reads(r)'
  <2>1. Reads(r)
    BY <1>0, <1>1, <1>3, NoneIsNothing, GoesOn DEF Knows
  <2>2. QED
    BY <1>4, <2>1 DEF Reads
<1>6. Approves(r)' /\ Publishes(r)'
  <2>1. Publishes(r)'
    BY <1>0, <1>2, <1>3, <1>4 DEF Knows, Publishes, Approved
  <2>2. Approves(r)'
    BY <1>0, <1>2, <1>3, <1>4 DEF Knows, Approves
  <2>3. QED
    BY <2>1, <2>2
<1>7. QED
  BY <1>1, <1>3, <1>5, <1>6, GitStep DEF Knows

\* A publishing call puts what is checked out on the host, or finds what one put there.
LEMMA HostChanges ==
    ASSUME Inv, NEW c \in Calls, NEW r \in Call, calls' = [calls EXCEPT ![c] = r],
           UNCHANGED <<others, files, fetched>>,
           calls[c].action = "authorize_publish",
           r.action = "authorize_publish", r.phase \in {"pushed", "ready"},
           r.version = calls[c].version, r.commit = calls[c].commit,
           r.claims = calls[c].claims,
           remote' \in Remote, remote'.merged = remote.merged,
           \/ remote'.branch = head
           \/ remote'.branch = remote.branch /\ calls[c].phase = "pushed",
           remote'.state \in {remote.state, "open"}
    PROVE  Inv'
<1>0. /\ TypeOK /\ Counted /\ Attempting /\ Told /\ Settled /\ OnHost /\ Knows(calls[c])
      /\ UNCHANGED <<host, issue, target, tree, index, head, fetched, lingers, strayed, attempt,
                     followups, overtaken>>
  BY DEF Inv, others, files
<1>1. ~overtaken => Approved
  BY <1>0 DEF Knows, Publishes
<1>2. ~overtaken /\ ~strayed => remote'.branch = issue.commit /\ calls[c].commit = issue.commit
  BY <1>0, <1>1 DEF Knows, Publishes, Settled
<1>3. Reads(r)'
  <2>1. Reads(r)
    <3>1. r.action # None /\ calls[c].action # None
      BY NoneIsNothing DEF Action
    <3>2. QED
      BY <1>0, <3>1 DEF Knows, Reads
  <2>2. QED
    BY <1>0, <2>1 DEF Reads
<1>4. Approves(r)' /\ Publishes(r)'
  BY <1>0, <1>1, <1>2 DEF Approves, Publishes, Approved
<1>5. \A d \in Calls : Keeps(d)
  BY <1>0, <1>2, RowFields DEF Keeps, Approved
<1>6. calls' \in [Calls -> Call] /\ (\A d \in Calls : Knows(calls[d]))'
  BY <1>3, <1>4, <1>5, CallStep DEF Knows
<1>7. TypeOK'
  BY <1>0, <1>6 DEF TypeOK
<1>8. Counted' /\ Attempting' /\ Told'
  BY <1>0 DEF Counted, Behind, Attempting, Told
<1>9. Settled'
  BY <1>0, <1>1 DEF Settled, Approved
<1>10. OnHost'
  BY <1>0, <1>2 DEF OnHost
<1>11. QED
  BY <1>6, <1>7, <1>8, <1>9, <1>10 DEF Inv

LEMMA NewRequestFields ==
    ASSUME TypeOK, remote.request < MaxRequests, remote' = NewRequest
    PROVE  /\ remote' \in Remote /\ remote'.branch = head /\ remote'.merged = remote.merged
           /\ remote'.state = "open" /\ remote.request + 1 \in 0..MaxRequests
<1>1. remote.request + 1 \in 0..MaxRequests
  BY RemoteFields, DeliveryConstants
<1>2. QED
  BY <1>1, RemoteFields, ContentFields DEF NewRequest, Remote, RequestState

\* Phase and request of a publishing call.
LEMMA RequestCall ==
    ASSUME TypeOK, NEW c \in Calls, NEW n \in 0..MaxRequests,
           calls' = [calls EXCEPT ![c].phase = "ready", ![c].request = n]
    PROVE  \E r \in Call : /\ calls' = [calls EXCEPT ![c] = r]
                           /\ r.action = calls[c].action /\ r.phase = "ready"
                           /\ r.version = calls[c].version /\ r.commit = calls[c].commit
                           /\ r.claims = calls[c].claims
<1> DEFINE r == [calls[c] EXCEPT !.phase = "ready", !.request = n]
<1>1. /\ r \in Call
      /\ r.action = calls[c].action /\ r.phase = "ready"
      /\ r.version = calls[c].version /\ r.commit = calls[c].commit
      /\ r.claims = calls[c].claims
  BY CallFields DEF Call, CallPhase
<1>2. calls' = [calls EXCEPT ![c] = r]
  OBVIOUS
<1>3. QED
  BY <1>1, <1>2

LEMMA PublishStep == ASSUME Inv, NEW c \in Calls, Push(c) \/ OpenRequest(c) PROVE Inv'
<1>0. /\ TypeOK /\ UNCHANGED <<others, files, fetched>>
      /\ calls[c].action = "authorize_publish"
  BY DEF Inv, Push, OpenRequest, At
<1>1. CASE Push(c) /\ host # "push"
  <2>1. PICK r \in Call :
           /\ calls' = [calls EXCEPT ![c] = r]
           /\ r.action = calls[c].action /\ r.phase = "pushed"
           /\ r.version = calls[c].version /\ r.commit = calls[c].commit
           /\ r.claims = calls[c].claims
    BY <1>0, <1>1, GoesCall DEF Push, CallPhase
  <2>2. /\ remote' \in Remote /\ remote'.branch = head /\ remote'.merged = remote.merged
        /\ remote'.state = remote.state
    BY <1>0, <1>1, RemoteFields, ContentFields DEF Push, TypeOK, Remote
  <2>3. QED
    BY <1>0, <2>1, <2>2, HostChanges
<1>2. ASSUME remote.request < MaxRequests, remote' = NewRequest,
             calls' = [calls EXCEPT ![c].phase = "ready", ![c].request = remote.request + 1]
      PROVE  Inv'
  <2>1. /\ remote' \in Remote /\ remote'.branch = head /\ remote'.merged = remote.merged
        /\ remote'.state = "open" /\ remote.request + 1 \in 0..MaxRequests
    BY <1>0, <1>2, NewRequestFields
  <2>2. PICK r \in Call :
           /\ calls' = [calls EXCEPT ![c] = r]
           /\ r.action = calls[c].action /\ r.phase = "ready"
           /\ r.version = calls[c].version /\ r.commit = calls[c].commit
           /\ r.claims = calls[c].claims
    BY <1>0, <1>2, <2>1, RequestCall
  <2>3. QED
    BY <1>0, <2>1, <2>2, HostChanges
<1>3. CASE OpenRequest(c) /\ remote' = remote
           /\ calls' = [calls EXCEPT ![c].phase = "ready", ![c].request = remote.request]
  <2>1. PICK r \in Call :
           /\ calls' = [calls EXCEPT ![c] = r]
           /\ r.action = calls[c].action /\ r.phase = "ready"
           /\ r.version = calls[c].version /\ r.commit = calls[c].commit
           /\ r.claims = calls[c].claims
    BY <1>0, <1>3, RemoteFields, RequestCall
  <2>2. remote' \in Remote /\ calls[c].phase = "pushed"
    BY <1>0, <1>3 DEF TypeOK, OpenRequest, At
  <2>3. QED
    BY <1>0, <1>3, <2>1, <2>2, HostChanges
<1>4. QED
  BY <1>1, <1>2, <1>3 DEF Push, OpenRequest

\* What a call writes is one version further than what it read.
LEMMA Writes ==
    ASSUME NEW a \in Action
    PROVE  /\ Delivered(a) \in {"awaiting_publish", "pr_open", "done"}
           /\ Delivered(a) \in IssueStatus
           /\ Behind(Delivered(a)) + 1 = Behind(Awaited(a))
           /\ Behind(Delivered(a)) \in Nat
BY DEF Action, Delivered, Awaited, Behind, IssueStatus

\* As long as nothing is overtaken, whoever writes writes the same commit again.
LEMMA WriteStep == ASSUME Inv, NEW c \in Calls, Write(c) PROVE Inv'
<1> DEFINE q == calls[c]
           v == q.version + 1
           k == IF q.action = "approve_result" THEN q.commit ELSE issue.commit
           n == IF q.action = "authorize_publish" THEN q.request ELSE issue.request
<1>0. /\ TypeOK /\ Counted /\ Attempting /\ Told /\ Settled /\ OnHost /\ Knows(q)
      /\ UNCHANGED <<host, target, tree, index, head, fetched, lingers, strayed, attempt,
                     followups, remote>>
      /\ q.phase = "rechecked" /\ calls' = [calls EXCEPT ![c] = NoCall]
  BY DEF Inv, Write, Ends, desk, files
<1>1. CASE UNCHANGED <<issue, overtaken>>
  <2>1. UNCHANGED <<others, files, fetched, remote>>
    BY <1>0, <1>1 DEF others, files
  <2>2. QED
    BY <1>0, <2>1, NoCallIsCall, NoCallKnows, OnlyCall
<1>2. CASE ~UNCHANGED <<issue, overtaken>>
  <2>1. /\ q.action \in Action /\ q.claims \in Nat /\ q.version \in Nat
        /\ q.claims <= issue.claims /\ issue.claims \in Nat /\ issue.claims <= MaxAttempts
        /\ q.commit \in Content \cup {None} /\ q.request \in 0..MaxRequests
    BY <1>0, CallFields, RowFields, NoneIsNothing, DeliveryConstants
       DEF Knows, Reads, CallPhase
  <2>2. /\ issue.status # "running"
        /\ issue' = [issue EXCEPT !.status = Delivered(q.action), !.version = v,
                                  !.commit = k, !.request = n]
        /\ overtaken' = (overtaken \/ q.claims # issue.claims)
    BY <1>2 DEF Write
  <2>3. /\ v = q.version + 1
        /\ k = IF q.action = "approve_result" THEN q.commit ELSE issue.commit
    OBVIOUS
  <2>4. /\ v + Behind(Delivered(q.action)) <= 3 * q.claims + 2
        /\ ~overtaken => v + Behind(Delivered(q.action)) = 3 * q.claims + 2
        /\ v \in Version /\ v \in Nat
    <3>1. /\ q.version + Behind(Awaited(q.action)) <= 3 * q.claims + 2
          /\ ~overtaken => q.version + Behind(Awaited(q.action)) = 3 * q.claims + 2
      BY <1>0, <2>1, NoneIsNothing DEF Knows, Reads
    <3>2. /\ v + Behind(Delivered(q.action)) <= 3 * q.claims + 2
          /\ ~overtaken => v + Behind(Delivered(q.action)) = 3 * q.claims + 2
      BY <2>1, <3>1, Writes
    <3>3. v <= 3 * MaxAttempts + 2
      BY <2>1, <3>2, Writes, DeliveryConstants
    <3>4. QED
      BY <2>1, <3>2, <3>3, DeliveryConstants DEF Version
  <2>5. k \in Content \cup {None} /\ n \in 0..MaxRequests
    BY <1>0, <2>1, RowFields
  <2> HIDE DEF v, k, n, q
  <2>6. /\ issue' \in IssueRow /\ issue'.status = Delivered(q.action) /\ issue'.version = v
        /\ issue'.commit = k /\ issue'.claims = issue.claims
    BY <1>0, <2>1, <2>2, <2>4, <2>5, Writes DEF TypeOK, IssueRow
  <2>7. overtaken' \in BOOLEAN
    BY <1>0, <2>2 DEF TypeOK
  <2>8. Counted'
    <3>1. Behind(issue.status)' = Behind(Delivered(q.action))
      BY <2>6 DEF Behind
    <3>2. v + Behind(Delivered(q.action)) <= 3 * issue.claims + 2
      BY <2>1, <2>4, Writes
    <3>3. ~overtaken' => v + Behind(Delivered(q.action)) = 3 * issue.claims + 2
      BY <2>2, <2>4
    <3>4. QED
      BY <2>6, <3>1, <3>2, <3>3 DEF Counted
  <2>9. Approved' /\ issue'.status \notin {"running", "reviewing"}
    BY <2>1, <2>6, Writes DEF Approved
  <2>10. attempt.phase = None
    BY <1>0, <2>2 DEF Attempting
  <2>11. Attempting'
    BY <1>0, <2>9, <2>10 DEF Attempting
  <2>12. Told'
    BY <1>0, <2>9 DEF Told
  <2>13. ~overtaken' => ~overtaken /\ q.claims = issue.claims
    BY <2>2
  <2>14. ~overtaken' /\ ~strayed /\ Approved => k = issue.commit
    BY <1>0, <2>3, <2>13 DEF Knows, Approves, Settled
  <2>15. q.action # "approve_result" /\ ~overtaken => Approved
    BY <1>0, <2>1 DEF Knows, Publishes, Action
  <2>16. ~overtaken' /\ ~strayed => k = tree /\ index = tree /\ head = tree
    <3>1. CASE q.action = "approve_result"
      BY <1>0, <2>3, <2>13, <3>1 DEF Knows, Approves
    <3>2. CASE q.action # "approve_result"
      BY <1>0, <2>3, <2>13, <2>15, <3>2 DEF Settled
    <3>3. QED
      BY <3>1, <3>2
  <2>17. Settled'
    BY <1>0, <2>6, <2>9, <2>13, <2>16 DEF Settled
  <2>18. OnHost'
    <3> SUFFICES ASSUME ~overtaken', ~strayed'
                 PROVE  /\ remote.branch \in {None, k}
                        /\ issue'.status \in {"pr_open", "done"} \/ remote.state # None
                             => remote.branch = k
                        /\ remote.state = "merged" \/ issue'.status = "done"
                             => remote.merged = k
      BY <1>0, <2>6 DEF OnHost
    <3>1. ~overtaken /\ ~strayed
      BY <1>0, <2>13
    <3>2. CASE q.action = "approve_result"
      <4>1. issue'.status = "awaiting_publish"
        BY <2>6, <3>2 DEF Delivered
      <4>2. CASE Approved
        BY <1>0, <2>14, <3>1, <4>1, <4>2 DEF OnHost
      <4>3. CASE ~Approved
        BY <1>0, <3>1, <4>1, <4>3, NoneIsNothing DEF Settled, RequestState
      <4>4. QED
        BY <4>2, <4>3
    <3>3. CASE q.action = "authorize_publish"
      <4>1. issue'.status = "pr_open"
        BY <2>6, <3>3 DEF Delivered
      <4>2. remote.branch = issue.commit /\ k = issue.commit
        BY <1>0, <2>3, <3>1, <3>3 DEF Knows, Publishes
      <4>3. QED
        BY <1>0, <3>1, <4>1, <4>2 DEF OnHost
    <3>4. CASE q.action = "confirm_merge"
      <4>1. remote.branch = issue.commit /\ remote.merged = issue.commit /\ k = issue.commit
        BY <1>0, <2>3, <3>1, <3>4 DEF Knows, Publishes
      <4>2. QED
        BY <4>1
    <3>5. QED
      BY <2>1, <3>2, <3>3, <3>4 DEF Action
  <2>19. \A d \in Calls : Keeps(d)
    BY <1>0, <2>1, <2>6, <2>9, <2>13, <2>14 DEF Keeps
  <2>20. Knows(NoCall)'
    BY NoCallIsCall, NoneIsNothing DEF Knows, Reads, Approves, Publishes, Action
  <2>21. calls' \in [Calls -> Call] /\ (\A d \in Calls : Knows(calls[d]))'
    BY <1>0, <2>19, <2>20, NoCallIsCall, CallStep
  <2>22. TypeOK'
    BY <1>0, <2>6, <2>7, <2>21 DEF TypeOK
  <2>23. QED
    BY <2>8, <2>11, <2>12, <2>17, <2>18, <2>21, <2>22 DEF Inv
<1>3. QED
  BY <1>1, <1>2

-----------------------------------------------------------------------------
(* The invariant *)

LEMMA InitInv == Init => Inv
<1> SUFFICES ASSUME Init PROVE Inv
  OBVIOUS
<1>1. /\ 0 \in Version /\ 0 \in 0..MaxRequests /\ 0 \in 0..MaxTarget
      /\ 0 \in 0..MaxAttempts /\ 0 \in 0..MaxFollowUps /\ 0 \in 0..MaxEdits
  BY DeliveryConstants DEF Version
<1>2. /\ issue \in IssueRow /\ issue.status = "ready" /\ issue.version = 0
      /\ issue.claims = 0 /\ issue.commit = None
  BY <1>1 DEF Init, IssueRow, IssueStatus
<1>3. tree \in Content /\ index \in Content /\ head \in Content
      /\ target \in 0..MaxTarget /\ fetched \in 0..MaxTarget
  BY <1>1 DEF Init, Content, Source
<1>4. attempt = NoAttempt /\ attempt \in Attempt /\ attempt.phase = None
  BY DEF Init, NoAttempt, Attempt
<1>5. /\ followups \in FollowUps /\ followups.given = 0 /\ followups.next = {}
  BY <1>1 DEF Init, FollowUps
<1>6. /\ remote \in Remote /\ remote.branch = None /\ remote.state = None
      /\ remote.merged = None
  BY <1>1 DEF Init, Remote
<1>7. calls \in [Calls -> Call] /\ \A c \in Calls : calls[c] = NoCall
  BY NoCallIsCall DEF Init
<1>8. TypeOK
  BY <1>2, <1>3, <1>4, <1>5, <1>6, <1>7 DEF Init, TypeOK
<1>9. Counted
  BY <1>2 DEF Counted, Behind
<1>10. Attempting /\ Told
  BY <1>2, <1>4, <1>5, NoneIsNothing DEF Attempting, Told, AttemptPhase
<1>11. Settled /\ OnHost
  BY <1>2, <1>6, NoneIsNothing DEF Settled, OnHost, Approved, RequestState
<1>12. \A c \in Calls : Knows(calls[c])
  BY <1>7, NoCallKnows
<1>13. QED
  BY <1>8, <1>9, <1>10, <1>11, <1>12 DEF Inv

LEMMA StutterInv == ASSUME Inv, UNCHANGED vars PROVE Inv'
<1>1. UNCHANGED <<host, issue, target, tree, index, head, fetched, lingers, attempt, followups,
                  calls, remote, strayed, overtaken>>
  BY DEF vars
<1>2. TypeOK' /\ Counted' /\ Attempting' /\ Told' /\ Settled' /\ OnHost'
  BY <1>1 DEF Inv, TypeOK, Counted, Behind, Attempting, Told, Settled, OnHost, Approved
<1>3. (\A c \in Calls : Knows(calls[c]))'
  BY <1>1 DEF Inv, Knows, Reads, Approves, Publishes, Approved
<1>4. QED
  BY <1>2, <1>3 DEF Inv

LEMMA StepInv == ASSUME Inv, [Next]_vars PROVE Inv'
<1>1. CASE UNCHANGED vars
  BY <1>1, StutterInv
<1>2. CASE OfAttempt
  BY <1>2, ClaimStep, OpenThreadStep, StartTurnStep, WorkStep, FinishIssueStep,
     FailAttemptStep, TakeUpStep, LingeringEndsStep DEF OfAttempt
<1>3. CASE ContinueIssue
  BY <1>3, ContinueIssueStep
<1>4. CASE Outside
  BY <1>4, AdvanceTargetStep, HostStep DEF Outside
<1>5. ASSUME NEW c \in Calls, GiveUp(c) PROVE Inv'
  BY <1>5, GiveUpStep
<1>6. ASSUME NEW c \in Calls, Delivers(c) PROVE Inv'
  BY <1>6, ApproveLookStep, GitCommandStep, RevParseStep, PublishLookStep, PublishStep,
     VerifyMergedStep, RecheckStep, WriteStep DEF Delivers
<1>7. ASSUME NEW c \in Calls, NEW a \in Action, Begin(c, a) PROVE Inv'
  BY <1>7, BeginStep
<1>8. QED
  BY <1>1, <1>2, <1>3, <1>4, <1>5, <1>6, <1>7 DEF Next

\* The invariant holds in every reachable state, for any number of delivery calls and any
\* bounds.
THEOREM Invariant == Spec => []Inv
BY InitInv, StepInv, PTL DEF Spec

-----------------------------------------------------------------------------
(* What follows from it *)

\* Every reachable state is well typed; so the version stays within three times the claims
\* and two, whatever is written over.
THEOREM TypeCorrect == Spec => []TypeOK
<1>1. Inv => TypeOK
  BY DEF Inv
<1>2. QED
  BY <1>1, Invariant, PTL

\* What a recorded review request shows and what is merged is the approved commit, unless
\* what lingers of an Attempt changed the staged workspace, or an Attempt came between the
\* comparison and the write of a call.
THEOREM ApprovedIsPublished == Spec => []PublishedIsApproved
<1>1. Inv => PublishedIsApproved
  BY DEF Inv, OnHost, PublishedIsApproved
<1>2. QED
  BY <1>1, Invariant, PTL

\* An approved Issue has its approved commit checked out until it is published, whatever git
\* commands of other calls come between, with the same two exceptions.
THEOREM PublicationStaysPossible == Spec => []PublishStaysPossible
<1>1. Inv => PublishStaysPossible
  BY DEF Inv, Settled, Approved, PublishStaysPossible
<1>2. QED
  BY <1>1, Invariant, PTL

\* An Issue in review owes its Agent no instruction but those that were cut off.
THEOREM InstructionsAreHeard == Spec => []FollowUpsHeard
<1>1. Inv => FollowUpsHeard
  BY DEF Inv, Told, FollowUpsHeard
<1>2. QED
  BY <1>1, Invariant, PTL
=============================================================================
