------------------------- MODULE RunnerLease_proofs -------------------------
(***************************************************************************)
(* Whatever the lengths of leases, intervals and time-outs and however     *)
(* many Runners there are: an Agent that has lost its claim is ended       *)
(* within a known time, and a lease that outlasts that time never lapses   *)
(* on a Runner whose heartbeats are answered.                              *)
(***************************************************************************)
EXTENDS RunnerLease, TLAPS

\* Row i names claim k and its lease has time left.
Holding(i, k) == i.status = "running" /\ i.token = k /\ i.lease > 0

\* How long ago, at most, the control plane served a request of r with success.
SinceServed(r) ==
    IF r.phase = "stopping" THEN Unheard + r.time
    ELSE IF r.beat = "ok" THEN r.time
    ELSE IF r.beat = "asleep" THEN Timeout + r.time
    ELSE Timeout + Interval + r.time

\* A heartbeat of r was served with success.
Renews(r) == r.renewed \/ r.beat = "ok"

\* The row names a claim that was granted and that the sweep has not ended.
RowSound(i, n, l) ==
    i.status = "running" => i.token \in Token /\ i.token <= n /\ i.token \notin l

\* A Runner at work with record r, while the row is i, n claims were granted and the
\* sweep has ended those in l.
AtWork(r, i, n, l) ==
    /\ r.token \in Token /\ r.token <= n
    /\ MayLast(r, 0)
    /\ r.phase # "agent" => r.beat = "asleep"
    /\ r.phase \in {"claiming", "preparing"} => r.turn = "no" /\ ~r.renewed
    /\ Holding(i, r.token) => r.astray = 0
    /\ r.turn # "no" => r.astray <= SinceServed(r)
    /\ Renews(r) /\ i.status = "running" /\ i.token = r.token =>
         LeaseTicks <= i.lease + SinceServed(r)
    /\ LeaseOutlastsSilence /\ Renews(r) => r.token \notin l

Inv ==
    /\ TypeOK
    /\ \A k \in lapsed : k <= issued
    /\ RowSound(issue, issued, lapsed)
    /\ \A w \in Runners : Engaged(w) => AtWork(run[w], issue, issued, lapsed)

-----------------------------------------------------------------------------
(* Steps of a Runner *)

\* A Runner at work has a well-formed record.
LEMMA Record ==
    ASSUME Inv, NEW w \in Runners
    PROVE  /\ run[w] \in Run
           /\ run[w].phase # "idle" => AtWork(run[w], issue, issued, lapsed)
  BY DEF Inv, TypeOK, Engaged

\* A step that only changes the record of w keeps the invariant if the new record
\* is one of a Runner at work, or idle.
LEMMA RunnerKeeps ==
    ASSUME Inv, NEW w \in Runners, NEW r \in Run, Becomes(w, r),
           net' \subseteq Request,
           r.phase # "idle" => AtWork(r, issue, issued, lapsed)
    PROVE  Inv'
  <1>1. /\ run' = [run EXCEPT ![w] = r] /\ issue' = issue /\ issued' = issued
        /\ lapsed' = lapsed
    BY DEF Becomes
  <1>2. \A v \in Runners : run'[v] = IF v = w THEN r ELSE run[v]
    BY <1>1 DEF Inv, TypeOK
  <1>3. TypeOK'
    BY <1>1 DEF Inv, TypeOK
  <1>4. \A v \in Runners : Engaged(v)' => AtWork(run'[v], issue, issued, lapsed)
    BY <1>2 DEF Inv, Engaged
  <1> QED
    BY <1>1, <1>3, <1>4 DEF Inv

LEMMA Requests ==
    ASSUME Inv, NEW w \in Runners, run[w].phase # "idle"
    PROVE  /\ net \subseteq Request /\ Farewell(w) \subseteq Request
           /\ \A kind \in {"heartbeat", "finish", "release"} :
                net \cup {[kind |-> kind, token |-> run[w].token]} \subseteq Request
  <1>1. net \subseteq Request /\ run[w].token \in Token
    BY Record DEF Inv, TypeOK, AtWork
  <1> QED
    BY <1>1 DEF Farewell, Request

\* Leaving the Issue, with or without a release.
LEMMA Leaves ==
    ASSUME Inv, NEW w \in Runners, Becomes(w, Idle),
           run[w].phase # "idle", net' = net \/ net' = Farewell(w)
    PROVE  Inv'
  <1>1. Idle \in Run /\ Idle.phase = "idle"
    BY DEF Idle, Run
  <1> QED
    BY <1>1, Requests, RunnerKeeps

\* The Agent is being ended: what was known of it holds one answer later.
LEMMA StopKeeps ==
    ASSUME Inv, NEW w \in Runners, run[w].phase = "agent", NEW b \in BOOLEAN,
           Stop(w, b), net' \subseteq Request
    PROVE  Inv'
  <1> DEFINE old == run[w]
             r == [old EXCEPT !.phase = "stopping", !.time = 0, !.active = b,
                              !.beat = "asleep", !.tool = "none"]
  <1>1. old \in Run /\ AtWork(old, issue, issued, lapsed) /\ old.phase = "agent"
    BY Record
  <1>2. /\ r \in Run /\ r.phase = "stopping" /\ r.time = 0 /\ r.beat = "asleep"
        /\ r.token = old.token /\ r.turn = old.turn /\ r.renewed = old.renewed
        /\ r.astray = old.astray
    BY <1>1 DEF Run
  <1>3. Becomes(w, r)
    BY DEF Stop
  <1>4. issue.lease \in Int
    BY LeaseConstants DEF Inv, TypeOK, Issue
  <1> HIDE DEF old, r
  <1>5. SinceServed(old) \in Int /\ SinceServed(old) <= SinceServed(r)
        /\ SinceServed(r) \in Int
    BY <1>1, <1>2, LeaseConstants DEF AtWork, SinceServed, MayLast, Unheard, Run
  <1>6. MayLast(r, 0)
    BY <1>2, LeaseConstants DEF MayLast
  <1>7. old.astray \in Nat /\ LeaseTicks \in Nat /\ (Renews(r) => Renews(old))
    BY <1>1, <1>2, LeaseConstants DEF Run, Renews
  <1>8. r.turn # "no" => r.astray <= SinceServed(r)
    BY <1>1, <1>2, <1>5, <1>7 DEF AtWork
  <1>9. Renews(r) /\ issue.status = "running" /\ issue.token = r.token =>
          LeaseTicks <= issue.lease + SinceServed(r)
    BY <1>1, <1>2, <1>4, <1>5, <1>7 DEF AtWork
  <1>10. AtWork(r, issue, issued, lapsed)
    BY <1>1, <1>2, <1>6, <1>7, <1>8, <1>9 DEF AtWork
  <1> QED
    BY <1>2, <1>3, <1>10, RunnerKeeps

\* The steps of a Runner after the grant of its claim.
GoesOn(w) ==
    \/ ClaimAnswered(w) \/ ClaimLost(w)
    \/ Launch(w) \/ PrepareFails(w) \/ GrantContext(w) \/ StartTurn(w)
    \/ AgentEnds(w) \/ CancelRun(w)
    \/ SendHeartbeat(w) \/ HeartbeatAnswered(w) \/ HeartbeatFails(w)
    \/ SendFinish(w) \/ FinishAnswered(w)
    \/ Stopped(w) \/ Crash(w)

LEMMA GoesOnKeeps ==
    ASSUME Inv, NEW w \in Runners, GoesOn(w)
    PROVE  Inv'
  <1> DEFINE old == run[w]
  <1>1. /\ old \in Run
        /\ old.phase # "idle" => AtWork(old, issue, issued, lapsed)
    BY Record
  <1>2. /\ issue.lease \in Int /\ net \subseteq Request
        /\ Holds(old.token) <=> Holding(issue, old.token)
    BY LeaseConstants DEF Inv, TypeOK, Issue, Holds, Holding
  <1>3. CASE ClaimAnswered(w)
    <2> DEFINE r == [old EXCEPT !.phase = "preparing", !.time = 0]
    <2>1. old.phase = "claiming" /\ Becomes(w, r) /\ net' = net
      BY <1>3 DEF ClaimAnswered
    <2>2. /\ r \in Run /\ r.phase = "preparing" /\ r.time = 0 /\ r.token = old.token
          /\ r.beat = old.beat /\ r.turn = old.turn /\ r.renewed = old.renewed
          /\ r.astray = old.astray
      BY <1>1 DEF Run
    <2> HIDE DEF old, r
    <2>3. AtWork(r, issue, issued, lapsed)
      BY <1>1, <2>1, <2>2, LeaseConstants DEF AtWork, MayLast, Renews
    <2> QED
      BY <1>2, <2>1, <2>2, <2>3, RunnerKeeps
  <1>4. CASE ClaimLost(w)
    BY <1>4, Leaves DEF ClaimLost
  <1>5. CASE Launch(w)
    <2> DEFINE r == [old EXCEPT !.phase = "agent", !.time = 0]
    <2>1. old.phase = "preparing" /\ Becomes(w, r) /\ net' = net
      BY <1>5 DEF Launch
    <2>2. /\ r \in Run /\ r.phase = "agent" /\ r.time = 0 /\ r.token = old.token
          /\ r.beat = old.beat /\ r.turn = old.turn /\ r.renewed = old.renewed
          /\ r.astray = old.astray
      BY <1>1 DEF Run
    <2> HIDE DEF old, r
    <2>3. AtWork(r, issue, issued, lapsed)
      BY <1>1, <2>1, <2>2, LeaseConstants DEF AtWork, MayLast, Renews
    <2> QED
      BY <1>2, <2>1, <2>2, <2>3, RunnerKeeps
  <1>6. CASE PrepareFails(w)
    BY <1>6, Leaves DEF PrepareFails
  <1>7. CASE GrantContext(w)
    <2> DEFINE r == [old EXCEPT !.turn = "granted"]
    <2>1. old.phase = "agent" /\ Becomes(w, r) /\ net' = net /\ Holds(old.token)
      BY <1>7 DEF GrantContext
    <2>2. /\ r \in Run /\ r.phase = "agent" /\ r.time = old.time
          /\ r.token = old.token /\ r.beat = old.beat /\ r.renewed = old.renewed
          /\ r.astray = old.astray
      BY <1>1, <2>1 DEF Run
    <2> HIDE DEF old, r
    <2>3. AtWork(r, issue, issued, lapsed)
      <3>1. SinceServed(r) = SinceServed(old) /\ 0 <= SinceServed(r)
        BY <1>1, <2>1, <2>2, LeaseConstants DEF SinceServed, Unheard, Run
      <3> QED
        BY <1>1, <1>2, <2>1, <2>2, <3>1 DEF AtWork, MayLast, Renews
    <2> QED
      BY <1>2, <2>1, <2>2, <2>3, RunnerKeeps
  <1>8. CASE StartTurn(w)
    <2> DEFINE r == [old EXCEPT !.turn = "on"]
    <2>1. /\ old.phase = "agent" /\ old.turn = "granted" /\ Becomes(w, r)
          /\ net' = net
      BY <1>8 DEF StartTurn
    <2>2. /\ r \in Run /\ r.phase = "agent" /\ r.time = old.time
          /\ r.token = old.token /\ r.beat = old.beat /\ r.renewed = old.renewed
          /\ r.astray = old.astray
      BY <1>1, <2>1 DEF Run
    <2> HIDE DEF old, r
    <2>3. AtWork(r, issue, issued, lapsed)
      BY <1>1, <2>1, <2>2 DEF AtWork, MayLast, Renews, SinceServed
    <2> QED
      BY <1>2, <2>1, <2>2, <2>3, RunnerKeeps
  <1>9. CASE AgentEnds(w)
    <2>1. old.active \in BOOLEAN /\ old.phase = "agent" /\ net' \subseteq Request
      BY <1>1, <1>2, <1>9 DEF Run, AgentEnds
    <2> QED
      BY <1>9, <2>1, StopKeeps DEF AgentEnds
  <1>10. CASE CancelRun(w)
    <2>1. old.phase = "agent" /\ net' \subseteq Request
      BY <1>10, Requests DEF CancelRun
    <2> QED
      BY <1>10, <2>1, StopKeeps DEF CancelRun
  <1>11. CASE SendHeartbeat(w)
    <2> DEFINE r == [old EXCEPT !.beat = "sent", !.time = 0]
    <2>1. /\ old.phase = "agent" /\ old.beat = "asleep" /\ old.time = Interval
          /\ Becomes(w, r) /\ net' \subseteq Request
      BY <1>11, Requests DEF SendHeartbeat
    <2>2. /\ r \in Run /\ r.phase = "agent" /\ r.time = 0 /\ r.token = old.token
          /\ r.beat = "sent" /\ r.turn = old.turn /\ r.renewed = old.renewed
          /\ r.astray = old.astray
      BY <1>1, <2>1 DEF Run
    <2> HIDE DEF old, r
    <2>3. SinceServed(r) = SinceServed(old) /\ MayLast(r, 0)
      BY <2>1, <2>2, LeaseConstants DEF SinceServed, MayLast
    <2>4. AtWork(r, issue, issued, lapsed)
      BY <1>1, <2>1, <2>2, <2>3 DEF AtWork, Renews
    <2> QED
      BY <2>1, <2>2, <2>4, RunnerKeeps
  <1>12. CASE HeartbeatAnswered(w)
    <2> DEFINE r == [old EXCEPT !.beat = "asleep", !.time = 0, !.renewed = TRUE]
    <2>1. CASE old.beat = "ok" /\ Becomes(w, r)
      <3>1. old.phase = "agent" /\ net' = net
        BY <1>12 DEF HeartbeatAnswered
      <3>2. /\ r \in Run /\ r.phase = "agent" /\ r.time = 0 /\ r.token = old.token
            /\ r.beat = "asleep" /\ r.turn = old.turn /\ r.renewed
            /\ r.astray = old.astray
        BY <1>1, <3>1 DEF Run
      <3> HIDE DEF old, r
      <3>3. /\ SinceServed(old) <= SinceServed(r) /\ MayLast(r, 0)
            /\ SinceServed(old) \in Int /\ SinceServed(r) \in Int
        BY <1>1, <2>1, <3>1, <3>2, LeaseConstants
           DEF AtWork, SinceServed, MayLast, Run
      <3>4. /\ old.astray \in Nat /\ LeaseTicks \in Nat
            /\ AtWork(old, issue, issued, lapsed) /\ Renews(old)
        BY <1>1, <2>1, <3>1, LeaseConstants DEF Run, Renews
      <3>5. r.turn # "no" => r.astray <= SinceServed(r)
        BY <3>2, <3>3, <3>4 DEF AtWork
      <3>6. issue.status = "running" /\ issue.token = r.token =>
              LeaseTicks <= issue.lease + SinceServed(r)
        BY <1>2, <3>2, <3>3, <3>4 DEF AtWork
      <3>7. AtWork(r, issue, issued, lapsed)
        BY <3>2, <3>3, <3>4, <3>5, <3>6 DEF AtWork
      <3> QED
        BY <1>2, <2>1, <3>1, <3>2, <3>7, RunnerKeeps
    <2>2. CASE Stop(w, FALSE)
      BY <1>2, <1>12, <2>2, StopKeeps DEF HeartbeatAnswered
    <2> QED
      BY <1>12, <2>1, <2>2 DEF HeartbeatAnswered
  <1>13. CASE HeartbeatFails(w)
    <2>1. old.active \in BOOLEAN /\ old.phase = "agent" /\ net' \subseteq Request
      BY <1>1, <1>2, <1>13 DEF Run, HeartbeatFails
    <2> QED
      BY <1>13, <2>1, StopKeeps DEF HeartbeatFails
  <1>14. ASSUME NEW t \in {"none", "sent"},
                Becomes(w, [old EXCEPT !.tool = t]), net' \subseteq Request,
                old.phase = "agent"
         PROVE  Inv'
    <2> DEFINE r == [old EXCEPT !.tool = t]
    <2>1. /\ r \in Run /\ r.phase = "agent" /\ r.time = old.time
          /\ r.token = old.token /\ r.beat = old.beat /\ r.renewed = old.renewed
          /\ r.turn = old.turn /\ r.astray = old.astray
      BY <1>1, <1>14 DEF Run
    <2>2. Becomes(w, r)
      BY <1>14
    <2> HIDE DEF old, r
    <2>3. AtWork(r, issue, issued, lapsed)
      BY <1>1, <1>14, <2>1 DEF AtWork, MayLast, Renews, SinceServed
    <2> QED
      BY <1>14, <2>1, <2>2, <2>3, RunnerKeeps
  <1>15. CASE SendFinish(w)
    <2>1. old.phase = "agent" /\ Becomes(w, [old EXCEPT !.tool = "sent"])
      BY <1>15 DEF SendFinish
    <2>2. net' \subseteq Request
      BY <1>15, <2>1, Requests DEF SendFinish
    <2> QED
      BY <1>14, <2>1, <2>2
  <1>16. CASE FinishAnswered(w)
    <2>1. old.phase = "agent" /\ net' = net
      BY <1>16 DEF FinishAnswered
    <2>2. CASE Stop(w, FALSE)
      BY <1>2, <2>1, <2>2, StopKeeps
    <2>3. CASE Becomes(w, [old EXCEPT !.tool = "none"])
      BY <1>2, <1>14, <2>1, <2>3
    <2> QED
      BY <1>16, <2>2, <2>3 DEF FinishAnswered
  <1>17. CASE Stopped(w) \/ Crash(w)
    BY <1>17, Leaves DEF Stopped, Crash
  <1> QED
    BY <1>3, <1>4, <1>5, <1>6, <1>7, <1>8, <1>9, <1>10, <1>11, <1>12, <1>13,
       <1>15, <1>16, <1>17 DEF GoesOn

\* A grant names a claim that no Runner at work has.
LEMMA GrantKeeps ==
    ASSUME Inv, NEW w \in Runners, Grant(w)
    PROVE  Inv'
  <1> DEFINE k == issued + 1
             r == [Idle EXCEPT !.phase = "claiming", !.token = k, !.active = TRUE]
             i == [issue EXCEPT !.status = "running", !.token = k,
                                !.lease = LeaseTicks]
  <1>1. /\ k \in Token /\ issued' = k /\ issue' = i /\ net' = net
        /\ lapsed' = lapsed /\ run' = [run EXCEPT ![w] = r]
    BY DEF Grant
  <1>2. /\ issued \in Nat /\ k \in Nat /\ issued < k
        /\ LeaseTicks \in -1..LeaseTicks /\ lapsed \subseteq Int
    BY LeaseConstants DEF Inv, TypeOK, Token
  <1>3. /\ r \in Run /\ r.phase = "claiming" /\ r.token = k /\ r.time = 0
        /\ r.beat = "asleep" /\ r.turn = "no" /\ ~r.renewed /\ r.astray = 0
    BY <1>1 DEF Idle, Run
  <1>4. i \in Issue /\ i.status = "running" /\ i.token = k /\ i.lease = LeaseTicks
    BY <1>1, <1>2 DEF Inv, TypeOK, Issue
  <1>5. k \notin lapsed
    BY <1>2 DEF Inv
  <1> HIDE DEF k, r, i
  <1>6. \A v \in Runners : run'[v] = IF v = w THEN r ELSE run[v]
    BY <1>1 DEF Inv, TypeOK
  <1>7. TypeOK'
    BY <1>1, <1>3, <1>4 DEF Inv, TypeOK
  <1>8. (\A j \in lapsed : j <= k) /\ RowSound(i, k, lapsed)
    BY <1>1, <1>2, <1>4, <1>5 DEF Inv, RowSound
  <1>9. AtWork(r, i, k, lapsed)
    BY <1>1, <1>2, <1>3, LeaseConstants DEF AtWork, MayLast, Renews
  <1>10. ASSUME NEW v \in Runners, run[v].phase # "idle"
         PROVE  AtWork(run[v], i, k, lapsed)
    <2>1. AtWork(run[v], issue, issued, lapsed)
      BY <1>10, Record
    <2>2. run[v].token # k /\ run[v].token <= k
      BY <2>1, <1>2 DEF AtWork, Token
    <2> QED
      BY <2>1, <2>2, <1>4 DEF AtWork, Holding
  <1> QED
    BY <1>1, <1>6, <1>7, <1>8, <1>9, <1>10 DEF Inv, Engaged

-----------------------------------------------------------------------------
(* The control plane and time *)

\* Taking the Issue out of its claim's hands leaves nothing to account for, unless
\* the sweep does it while the holder still renews.
LEMMA Unclaims ==
    ASSUME Inv, issue' \in Issue, issue'.status # "running",
           net' \subseteq Request, issued' = issued,
           \/ lapsed' = lapsed
           \/ /\ lapsed' = lapsed \cup {issue.token} /\ issue.status = "running"
              /\ \A w \in Runners :
                   Engaged(w) /\ Renews(run[w]) /\ LeaseOutlastsSilence =>
                     run[w].token # issue.token,
           run' = run
    PROVE  Inv'
  <1>1. TypeOK'
    BY DEF Inv, TypeOK, RowSound
  <1>2. (\A k \in lapsed : k <= issued)' /\ RowSound(issue, issued, lapsed)'
    BY DEF Inv, RowSound
  <1>3. ASSUME NEW w \in Runners, run[w].phase # "idle"
        PROVE  AtWork(run[w], issue', issued, lapsed')
    <2>1. AtWork(run[w], issue, issued, lapsed)
      BY <1>3, Record
    <2> QED
      BY <2>1, <1>3 DEF AtWork, Holding, Engaged
  <1> QED
    BY <1>1, <1>2, <1>3 DEF Inv, Engaged

LEMMA Unheld ==
    \A i \in {Ready, [Ready EXCEPT !.status = "retry_queued"],
              [Ready EXCEPT !.status = "waiting"], [Ready EXCEPT !.status = "cancelled"]} :
      i \in Issue /\ i.status # "running"
  <1>1. -1 \in -1..LeaseTicks
    BY LeaseConstants
  <1> QED
    BY <1>1 DEF Ready, Issue

\* The sweep ends no claim that its holder still renews: the time since the last
\* renewal is less than the lease.
LEMMA ExpireKeeps ==
    ASSUME Inv, Expire
    PROVE  Inv'
  <1>1. ASSUME NEW w \in Runners, run[w].phase # "idle", Renews(run[w]),
               LeaseOutlastsSilence, run[w].token = issue.token
        PROVE  FALSE
    <2> DEFINE r == run[w]
    <2>1. /\ r \in Run /\ AtWork(r, issue, issued, lapsed) /\ issue.lease \in Int
          /\ issue.lease < 0 /\ issue.status = "running"
      BY <1>1, Record, LeaseConstants DEF Inv, TypeOK, Issue, Expire
    <2>2. Renews(r) /\ r.token = issue.token /\ r.phase # "idle"
      BY <1>1
    <2> HIDE DEF r
    <2>3. LeaseTicks <= issue.lease + SinceServed(r)
      BY <2>1, <2>2 DEF AtWork
    <2>4. r.phase \in {"agent", "stopping"}
      BY <2>1, <2>2 DEF AtWork, Renews, Run
    <2>5. SinceServed(r) \in Int /\ SinceServed(r) <= Unheard + StopTicks
      BY <2>1, <2>4, LeaseConstants DEF AtWork, MayLast, SinceServed, Unheard, Run
    <2> QED
      BY <1>1, <2>1, <2>3, <2>5, LeaseConstants DEF LeaseOutlastsSilence, Unheard
  <1>2. /\ issue' = [Ready EXCEPT !.status = "retry_queued"]
        /\ issue' \in Issue /\ issue'.status # "running"
        /\ lapsed' = lapsed \cup {issue.token} /\ issue.status = "running"
        /\ issued' = issued /\ run' = run /\ net' \subseteq Request
    BY Unheld DEF Expire, Inv, TypeOK
  <1> QED
    BY <1>1, <1>2, Unclaims DEF Engaged

LEMMA PassOnKeeps ==
    ASSUME Inv, TakeUp \/ SendBack \/ Cancel
    PROVE  Inv'
  <1>1. /\ issue' \in Issue /\ issue'.status # "running" /\ lapsed' = lapsed
        /\ issued' = issued /\ run' = run /\ net' \subseteq Request
    BY Unheld DEF TakeUp, SendBack, Cancel, Inv, TypeOK
  <1> QED
    BY <1>1, Unclaims

LEMMA ReleaseKeeps ==
    ASSUME Inv, NEW k \in Token, ServeRelease(k)
    PROVE  Inv'
  <1>1. net' \subseteq Request /\ issued' = issued /\ lapsed' = lapsed /\ run' = run
    BY DEF ServeRelease, Serve, Inv, TypeOK
  <1>2. CASE Holds(k)
    <2>1. issue' \in Issue /\ issue'.status # "running"
      BY <1>2, Unheld DEF ServeRelease
    <2> QED
      BY <1>1, <2>1, Unclaims
  <1>3. CASE ~Holds(k)
    <2>1. issue' = issue
      BY <1>3 DEF ServeRelease
    <2> QED
      BY <1>1, <2>1 DEF Inv, TypeOK, Engaged
  <1> QED
    BY <1>2, <1>3

\* The answer to a tool call is nothing the invariant looks at.
LEMMA ToolAnswer ==
    ASSUME Inv, NEW k \in Token, NEW answer \in {"ok", "refused"},
           run' = ToolAnswered(k, answer)
    PROVE  /\ run' \in [Runners -> Run]
           /\ \A w \in Runners : \A i, n, l :
                run[w].phase # "idle" /\ AtWork(run[w], i, n, l) =>
                  AtWork(run'[w], i, n, l)
           /\ \A w \in Runners : run'[w].phase = run[w].phase
  <1>1. run \in [Runners -> Run]
    BY DEF Inv, TypeOK
  <1>2. \A w \in Runners :
          run'[w] = run[w] \/ run'[w] = [run[w] EXCEPT !.tool = answer]
    BY DEF ToolAnswered
  <1>3. ASSUME NEW r \in Run
        PROVE  LET q == [r EXCEPT !.tool = answer]
               IN  /\ q \in Run /\ q.phase = r.phase
                   /\ \A i, n, l : AtWork(r, i, n, l) => AtWork(q, i, n, l)
    <2> DEFINE q == [r EXCEPT !.tool = answer]
    <2>1. /\ q \in Run /\ q.phase = r.phase /\ q.time = r.time /\ q.token = r.token
          /\ q.beat = r.beat /\ q.turn = r.turn /\ q.renewed = r.renewed
          /\ q.astray = r.astray
      BY DEF Run
    <2> HIDE DEF q
    <2>2. \A i, n, l : AtWork(r, i, n, l) => AtWork(q, i, n, l)
      BY <2>1 DEF AtWork, MayLast, Renews, SinceServed
    <2> QED
      BY <2>1, <2>2 DEF q
  <1>4. \A w \in Runners :
          /\ run'[w] \in Run /\ run'[w].phase = run[w].phase
          /\ \A i, n, l : AtWork(run[w], i, n, l) => AtWork(run'[w], i, n, l)
    <2> SUFFICES ASSUME NEW w \in Runners
                 PROVE  /\ run'[w] \in Run /\ run'[w].phase = run[w].phase
                        /\ \A i, n, l :
                             AtWork(run[w], i, n, l) => AtWork(run'[w], i, n, l)
      OBVIOUS
    <2>1. CASE run'[w] = run[w]
      BY <1>1, <2>1, Zenon
    <2>2. CASE run'[w] = [run[w] EXCEPT !.tool = answer]
      <3>1. PICK r \in Run : r = run[w]
        BY <1>1
      <3>2. run'[w] = [r EXCEPT !.tool = answer]
        BY <2>2, <3>1
      <3> QED
        BY <1>3, <3>1, <3>2
    <2> QED
      BY <1>2, <2>1, <2>2
  <1>5. run' = [w \in Runners |-> run'[w]]
    BY DEF ToolAnswered
  <1> QED
    BY <1>4, <1>5

LEMMA FinishKeeps ==
    ASSUME Inv, NEW k \in Token, ServeFinish(k)
    PROVE  Inv'
  <1>1. net' \subseteq Request /\ issued' = issued /\ lapsed' = lapsed
    BY DEF ServeFinish, Serve, Inv, TypeOK
  <1>2. PICK answer \in {"ok", "refused"} : run' = ToolAnswered(k, answer)
    BY DEF ServeFinish
  <1>3. /\ run' \in [Runners -> Run]
        /\ \A w \in Runners : \A i, n, l :
             run[w].phase # "idle" /\ AtWork(run[w], i, n, l) => AtWork(run'[w], i, n, l)
        /\ \A w \in Runners : run'[w].phase = run[w].phase
    BY <1>2, ToolAnswer
  <1>4. issue' = issue \/ (issue' \in Issue /\ issue'.status # "running")
    BY Unheld DEF ServeFinish
  <1>5. TypeOK'
    BY <1>1, <1>3, <1>4 DEF Inv, TypeOK
  <1>6. (\A j \in lapsed : j <= issued)' /\ RowSound(issue, issued, lapsed)'
    BY <1>1, <1>4 DEF Inv, RowSound
  <1>7. ASSUME NEW w \in Runners, run[w].phase # "idle"
        PROVE  AtWork(run'[w], issue', issued, lapsed)
    <2>1. AtWork(run[w], issue, issued, lapsed)
      BY <1>7, Record
    <2>2. AtWork(run[w], issue', issued, lapsed)
      BY <1>4, <2>1 DEF AtWork, Holding
    <2> QED
      BY <1>3, <1>7, <2>2
  <1> QED
    BY <1>1, <1>3, <1>5, <1>6, <1>7 DEF Inv, Engaged

\* A renewal makes the lease whole from the moment its answer is on its way, and the
\* claim it renews has not been ended.
LEMMA HeartbeatKeeps ==
    ASSUME Inv, NEW k \in Token, ServeHeartbeat(k)
    PROVE  Inv'
  <1>1. net' \subseteq Request /\ issued' = issued /\ lapsed' = lapsed
    BY DEF ServeHeartbeat, Serve, Inv, TypeOK
  <1>2. PICK answer \in {"ok", "refused"} :
          /\ run' = Answered(k, answer)
          /\ \/ /\ answer = "ok" /\ Holding(issue, k)
                /\ issue' = [issue EXCEPT !.lease = LeaseTicks]
             \/ answer = "refused" /\ issue' = issue
    BY DEF ServeHeartbeat, Holds, Holding
  <1>3. issue \in Issue /\ LeaseTicks \in -1..LeaseTicks
    BY LeaseConstants DEF Inv, TypeOK
  <1>4. PICK i : i = issue'
    OBVIOUS
  <1>5. /\ i \in Issue /\ i.status = issue.status /\ i.token = issue.token
        /\ issue.lease \in Int /\ i.lease \in Int
        /\ i.lease = issue.lease \/ (i.lease = LeaseTicks /\ Holding(issue, k))
        /\ answer = "ok" => i.lease = LeaseTicks /\ Holding(issue, k)
    BY <1>2, <1>3, <1>4 DEF Issue
  <1>6. ASSUME NEW r \in Run, r.phase # "idle", AtWork(r, issue, issued, lapsed)
        PROVE  AtWork(r, i, issued, lapsed)
    <2>1. SinceServed(r) \in Nat
      BY <1>6, LeaseConstants DEF SinceServed, Unheard, Run
    <2> QED
      BY <1>5, <1>6, <2>1, LeaseConstants DEF AtWork, Holding
  <1>7. ASSUME NEW r \in Run, r.phase = "agent", AtWork(r, issue, issued, lapsed),
               r.beat = "sent", r.token = k
        PROVE  LET q == [r EXCEPT !.beat = answer]
               IN  q \in Run /\ q.phase = r.phase /\ AtWork(q, i, issued, lapsed)
    <2> DEFINE q == [r EXCEPT !.beat = answer]
    <2>1. /\ q \in Run /\ q.phase = r.phase /\ q.time = r.time /\ q.token = r.token
          /\ q.beat = answer /\ q.turn = r.turn /\ q.renewed = r.renewed
          /\ q.astray = r.astray /\ r.time \in Nat
      BY DEF Run
    <2> HIDE DEF q
    <2>2. q.phase = "agent" /\ q.token = k /\ k \in Token /\ k <= issued
      BY <1>7, <2>1 DEF AtWork
    <2>3. AtWork(r, i, issued, lapsed)
      BY <1>6, <1>7
    <2>4. ASSUME answer = "ok" PROVE AtWork(q, i, issued, lapsed)
      <3>1. /\ r.astray = 0 /\ k \notin lapsed
            /\ SinceServed(q) = r.time
        BY <1>5, <1>7, <2>1, <2>4 DEF AtWork, SinceServed, Inv, RowSound, Holding
      <3>2. /\ q.turn # "no" => q.astray <= SinceServed(q)
            /\ LeaseTicks <= i.lease + SinceServed(q)
        BY <1>5, <2>1, <2>4, <3>1, LeaseConstants
      <3>3. MayLast(q, 0) /\ (Holding(i, q.token) => q.astray = 0)
        BY <1>7, <2>1, <2>4, <3>1 DEF AtWork, MayLast
      <3> QED
        BY <2>2, <3>1, <3>2, <3>3 DEF AtWork
    <2>5. ASSUME answer = "refused" PROVE AtWork(q, i, issued, lapsed)
      <3>1. SinceServed(q) = SinceServed(r) /\ MayLast(q, 0)
        BY <1>7, <2>1, <2>5 DEF AtWork, MayLast, SinceServed
      <3>2. /\ Renews(q) => Renews(r)
            /\ q.turn = r.turn /\ q.astray = r.astray /\ q.token = r.token
        BY <2>1, <2>5 DEF Renews
      <3> QED
        BY <2>2, <2>3, <3>1, <3>2 DEF AtWork
    <2>6. AtWork(q, i, issued, lapsed)
      BY <2>4, <2>5
    <2> QED
      BY <2>1, <2>6 DEF q
  <1>8. run \in [Runners -> Run]
    BY DEF Inv, TypeOK
  <1>9. ASSUME NEW w \in Runners
        PROVE  /\ run'[w] \in Run /\ run'[w].phase = run[w].phase
               /\ run[w].phase # "idle" => AtWork(run'[w], i, issued, lapsed)
    <2> DEFINE r == run[w]
    <2>1. r \in Run /\ (r.phase # "idle" => AtWork(r, issue, issued, lapsed))
      BY Record
    <2>2. run'[w] = IF r.phase = "agent" /\ r.token = k /\ r.beat = "sent"
                      THEN [r EXCEPT !.beat = answer] ELSE r
      BY <1>2 DEF Answered
    <2> HIDE DEF r
    <2>3. /\ run'[w] \in Run /\ run'[w].phase = r.phase
          /\ r.phase # "idle" => AtWork(run'[w], i, issued, lapsed)
      BY <1>6, <1>7, <2>1, <2>2
    <2> QED
      BY <2>3 DEF r
  <1>10. run' = [w \in Runners |-> run'[w]]
    BY <1>2 DEF Answered
  <1>11. run' \in [Runners -> Run]
    BY <1>9, <1>10
  <1>12. TypeOK'
    BY <1>1, <1>4, <1>5, <1>11 DEF Inv, TypeOK
  <1>13. (\A j \in lapsed : j <= issued)' /\ RowSound(issue, issued, lapsed)'
    BY <1>1, <1>4, <1>5 DEF Inv, RowSound
  <1> QED
    BY <1>1, <1>4, <1>9, <1>12, <1>13 DEF Inv, Engaged

\* Time since the claim ended, time since the last success and what is left of the
\* lease move together.
LEMMA TickKeeps ==
    ASSUME Inv, Tick
    PROVE  Inv'
  <1>1. issued' = issued /\ net' = net /\ lapsed' = lapsed
    BY DEF Tick
  <1>2. issue \in Issue /\ run \in [Runners -> Run]
    BY DEF Inv, TypeOK
  <1>3. PICK i : i = issue'
    OBVIOUS
  <1>4. /\ i \in Issue /\ i.status = issue.status /\ i.token = issue.token
        /\ i.lease \in Int /\ issue.lease \in Int
        /\ i.lease = issue.lease - 1 \/ (i.lease = -1 /\ issue.lease = -1)
    <2> DEFINE l == IF issue.lease > -1 THEN issue.lease - 1 ELSE -1
    <2>1. l \in -1..LeaseTicks /\ issue.lease \in -1..LeaseTicks
      BY <1>2, LeaseConstants DEF Issue
    <2>2. l = issue.lease - 1 \/ (l = -1 /\ issue.lease = -1)
      BY <2>1, LeaseConstants
    <2>3. issue' = [issue EXCEPT !.lease = l]
      BY DEF Tick
    <2> HIDE DEF l
    <2> QED
      BY <1>2, <1>3, <2>1, <2>2, <2>3, LeaseConstants DEF Issue
  <1>5. ASSUME NEW r \in Run, r.phase # "idle", MayLast(r, 1),
               AtWork(r, issue, issued, lapsed)
        PROVE  Older(r) \in Run /\ Older(r).phase = r.phase
               /\ AtWork(Older(r), i, issued, lapsed)
    <2> DEFINE s == IF Holds(r.token) THEN r.astray ELSE r.astray + 1
               t == r.time + 1
               q == [r EXCEPT !.time = t, !.astray = s]
    <2>1. /\ t \in Nat /\ s \in Nat /\ r.time \in Nat /\ r.astray \in Nat
          /\ s <= r.astray + 1 /\ (Holding(issue, r.token) => s = r.astray)
      BY DEF Run, Holds, Holding
    <2>2. Older(r) = q /\ t = r.time + 1
      BY DEF Older
    <2> HIDE DEF s, t
    <2>3. /\ q \in Run /\ q.phase = r.phase /\ q.time = t /\ q.token = r.token
          /\ q.beat = r.beat /\ q.turn = r.turn /\ q.renewed = r.renewed
          /\ q.astray = s
      BY <2>1 DEF Run
    <2> HIDE DEF q
    <2>4. SinceServed(r) \in Nat /\ SinceServed(q) = SinceServed(r) + 1
      BY <2>1, <2>2, <2>3, LeaseConstants DEF SinceServed, Unheard
    <2>5. MayLast(q, 0)
      BY <1>5, <2>1, <2>2, <2>3, LeaseConstants DEF MayLast
    <2>6. Holding(i, r.token) => Holding(issue, r.token)
      BY <1>4 DEF Holding
    <2>7. Renews(q) <=> Renews(r)
      BY <2>3 DEF Renews
    <2>8. q.turn # "no" => q.astray <= SinceServed(q)
      BY <1>5, <2>1, <2>3, <2>4 DEF AtWork
    <2>9. Renews(q) /\ i.status = "running" /\ i.token = q.token =>
            LeaseTicks <= i.lease + SinceServed(q)
      BY <1>4, <1>5, <2>3, <2>4, <2>7, LeaseConstants DEF AtWork
    <2>10. AtWork(q, i, issued, lapsed)
      BY <1>5, <2>1, <2>3, <2>5, <2>6, <2>7, <2>8, <2>9 DEF AtWork
    <2> QED
      BY <2>2, <2>3, <2>10
  <1>6. ASSUME NEW w \in Runners
        PROVE  /\ run'[w] \in Run /\ run'[w].phase = run[w].phase
               /\ run[w].phase # "idle" => AtWork(run'[w], i, issued, lapsed)
    <2>1. /\ run'[w] = IF run[w].phase = "idle" THEN run[w] ELSE Older(run[w])
          /\ MayLast(run[w], 1)
      BY DEF Tick
    <2> QED
      BY <1>5, <2>1, Record
  <1>7. run' = [w \in Runners |-> run'[w]]
    BY DEF Tick
  <1>8. run' \in [Runners -> Run]
    BY <1>6, <1>7
  <1>9. TypeOK'
    BY <1>1, <1>3, <1>4, <1>8 DEF Inv, TypeOK
  <1>10. (\A j \in lapsed : j <= issued)' /\ RowSound(issue, issued, lapsed)'
    BY <1>1, <1>3, <1>4 DEF Inv, RowSound
  <1> QED
    BY <1>1, <1>3, <1>6, <1>9, <1>10 DEF Inv, Engaged

-----------------------------------------------------------------------------
(* The invariant and what follows from it *)

LEMMA InitInv == Init => Inv
  <1> SUFFICES ASSUME Init PROVE Inv
    OBVIOUS
  <1>1. Idle \in Run /\ Idle.phase = "idle"
    BY DEF Idle, Run
  <1>2. Ready \in Issue /\ Ready.status = "ready"
    BY Unheld DEF Ready
  <1>3. TypeOK
    BY <1>1, <1>2 DEF Init, TypeOK
  <1> QED
    BY <1>1, <1>2, <1>3 DEF Init, Inv, Engaged, RowSound

LEMMA NextInv == Inv /\ [Next]_vars => Inv'
  <1> SUFFICES ASSUME Inv, [Next]_vars PROVE Inv'
    OBVIOUS
  <1>1. CASE UNCHANGED vars
    BY <1>1 DEF vars, Inv, TypeOK, Engaged
  <1>2. ASSUME NEW w \in Runners, OfRunner(w)
        PROVE  Inv'
    <2>1. Grant(w) \/ GoesOn(w)
      BY <1>2 DEF OfRunner, GoesOn
    <2> QED
      BY <2>1, GrantKeeps, GoesOnKeeps
  <1>3. CASE OfControlPlane
    BY <1>3, HeartbeatKeeps, FinishKeeps, ReleaseKeeps, ExpireKeeps, PassOnKeeps
       DEF OfControlPlane
  <1>4. CASE Tick
    BY <1>4, TickKeeps
  <1> QED
    BY <1>1, <1>2, <1>3, <1>4 DEF Next

LEMMA Invariance == Spec => []Inv
  BY InitInv, NextInv, PTL DEF Spec

\* Every reachable state is well typed: no sequence of heartbeats, late or repeated,
\* makes a lease longer than one lease (ServeHeartbeat, Grant).
THEOREM LeaseTypeCorrect == Spec => []TypeOK
  <1>1. Inv => TypeOK
    BY DEF Inv
  <1> QED
    BY <1>1, Invariance, PTL

\* Whatever the constants, an Agent in a Turn that has lost its claim is ended within
\* two time-outs, an interval and the time to end its processes (HeartbeatFails,
\* HeartbeatAnswered, GrantContext).
THEOREM LossIsNoticed == Spec => []LostClaimIsNoticed
  <1>1. Inv => LostClaimIsNoticed
    <2> SUFFICES ASSUME Inv, NEW w \in Runners, run[w].phase # "idle",
                        run[w].turn = "on"
                 PROVE  run[w].astray <= Unheard +
                          (IF run[w].phase = "stopping" THEN StopTicks ELSE 0)
      BY DEF LostClaimIsNoticed, Engaged
    <2> DEFINE r == run[w]
    <2>1. r \in Run /\ AtWork(r, issue, issued, lapsed) /\ r.phase # "idle"
          /\ r.turn = "on"
      BY Record
    <2> HIDE DEF r
    <2>2. r.phase \in {"agent", "stopping"} /\ r.astray <= SinceServed(r)
      BY <2>1 DEF AtWork, Run
    <2>3. /\ SinceServed(r) \in Int /\ r.astray \in Int
          /\ r.phase = "stopping" => SinceServed(r) <= Unheard + StopTicks
          /\ r.phase = "agent" => SinceServed(r) <= Unheard
      BY <2>1, <2>2, LeaseConstants DEF AtWork, MayLast, SinceServed, Unheard, Run
    <2>4. r.astray <= Unheard + (IF r.phase = "stopping" THEN StopTicks ELSE 0)
      BY <2>2, <2>3, LeaseConstants DEF Unheard
    <2> QED
      BY <2>4 DEF r
  <1> QED
    BY <1>1, Invariance, PTL

\* If the lease outlasts the longest silence of a Runner at work, as the settings of
\* WORKFLOW.md do, no sweep ends a claim that its Runner has renewed while that
\* Runner is still at it (Expire against ServeHeartbeat).
THEOREM RenewalHolds ==
    ASSUME LeaseOutlastsSilence
    PROVE  Spec => []RenewedLeaseHolds
  <1>1. Inv => RenewedLeaseHolds
    BY DEF Inv, RenewedLeaseHolds, AtWork, Renews, Engaged
  <1> QED
    BY <1>1, Invariance, PTL
=============================================================================
