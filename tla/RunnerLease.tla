---------------------------- MODULE RunnerLease ----------------------------
(***************************************************************************)
(* One Issue, several Runners and time: how long an Agent may work on an   *)
(* Issue that is no longer its Runner's, and when the lease of a Runner    *)
(* that still renews it may lapse.                                         *)
(*                                                                         *)
(* A Runner starts to renew its claim when it launches the Agent, not when *)
(* it is granted the claim, and one interval later at that.  Every request *)
(* may be lost, its answer may be lost, and the control plane may serve it *)
(* after its sender has given up.  A step takes no time; Tick lets time    *)
(* pass unless something is overdue.  An Issue that has been released or   *)
(* handed to a person may be claimed again at once: no delay is relied on. *)
(* A Runner that claims the Issue again while the process tree of its own  *)
(* cancelled Attempt is being ended counts as another Runner.              *)
(***************************************************************************)
EXTENDS Integers

CONSTANTS Runners,
          MaxAttempts,  \* bound: claims granted
          LeaseTicks,   \* lease_seconds
          Interval,     \* from one answered heartbeat to the next heartbeat
          Timeout,      \* request_timeout_seconds
          PrepTicks,    \* bound: workspace, hooks and prompt, before the launch
          StopTicks     \* bound: ending the Agent's process tree

ASSUME LeaseConstants ==
    /\ MaxAttempts \in Nat /\ LeaseTicks \in Nat /\ Interval \in Nat
    /\ Timeout \in Nat /\ PrepTicks \in Nat /\ StopTicks \in Nat

VARIABLES issue,   \* the row: status, claim, time left of the lease
          issued,  \* claims granted so far; a claim is named by its number
          lapsed,  \* history: the claims that the sweep ended
          run,     \* what each Runner does about the Issue
          net      \* requests the control plane has not served

vars == <<issue, issued, lapsed, run, net>>

Token == 1..MaxAttempts
Request == [kind : {"heartbeat", "finish", "release"}, token : Token]

\* "waiting" is any status in which a person has the next word: reviewing,
\* needs_human, blocked.
Issue == [status : {"ready", "running", "retry_queued", "waiting", "cancelled"},
          token : {0} \cup Token, lease : -1..LeaseTicks]

\* time: since the phase began; in phase "agent" since the heartbeat was sent or,
\* when beat is "asleep", since the last one was answered.  turn: "granted" when the
\* control plane has accepted the context of the Attempt.  Two are history: renewed,
\* a heartbeat was answered; astray, the time since the claim ended.
Run == [phase : {"idle", "claiming", "preparing", "agent", "stopping"},
        token : {0} \cup Token, time : Nat, active : BOOLEAN,
        turn : {"no", "granted", "on"},
        beat : {"asleep", "sent", "ok", "refused"},
        tool : {"none", "sent", "ok", "refused"},
        renewed : BOOLEAN, astray : Nat]

Idle == [phase |-> "idle", token |-> 0, time |-> 0, active |-> FALSE,
         turn |-> "no", beat |-> "asleep", tool |-> "none",
         renewed |-> FALSE, astray |-> 0]

Ready == [status |-> "ready", token |-> 0, lease |-> -1]

Init ==
    /\ issue = Ready
    /\ issued = 0
    /\ lapsed = {}
    /\ run = [w \in Runners |-> Idle]
    /\ net = {}

-----------------------------------------------------------------------------
(* The control plane *)

Holds(k) == issue.status = "running" /\ issue.token = k /\ issue.lease > 0

\* claim; the answer is on its way.
Grant(w) ==
    /\ issue.status = "ready"
    /\ run[w] = Idle
    /\ issued + 1 \in Token
    /\ issued' = issued + 1
    /\ issue' = [issue EXCEPT !.status = "running", !.token = issued + 1,
                              !.lease = LeaseTicks]
    /\ run' = [run EXCEPT ![w] = [Idle EXCEPT !.phase = "claiming",
                                              !.token = issued + 1,
                                              !.active = TRUE]]
    /\ UNCHANGED <<lapsed, net>>

\* The answer to a served request reaches a Runner that still waits for it.
Answered(k, answer) ==
    [w \in Runners |->
       IF run[w].phase = "agent" /\ run[w].token = k /\ run[w].beat = "sent"
         THEN [run[w] EXCEPT !.beat = answer] ELSE run[w]]

ToolAnswered(k, answer) ==
    [w \in Runners |->
       IF run[w].phase = "agent" /\ run[w].token = k /\ run[w].tool = "sent"
         THEN [run[w] EXCEPT !.tool = answer] ELSE run[w]]

Serve(kind, k) ==
    /\ [kind |-> kind, token |-> k] \in net
    /\ net' = net \ {[kind |-> kind, token |-> k]}
    /\ UNCHANGED <<issued, lapsed>>

\* Mutation of ServeHeartbeat: a lease is added to what is left of the last one.
ServeHeartbeatOnTop(k) ==
    /\ Serve("heartbeat", k)
    /\ \/ /\ Holds(k)
          /\ issue' = [issue EXCEPT !.lease = @ + LeaseTicks]
          /\ run' = Answered(k, "ok")
       \/ /\ ~Holds(k)
          /\ UNCHANGED issue
          /\ run' = Answered(k, "refused")

ServeHeartbeat(k) ==
    /\ Serve("heartbeat", k)
    /\ \/ /\ Holds(k)
          /\ issue' = [issue EXCEPT !.lease = LeaseTicks]
          /\ run' = Answered(k, "ok")
       \/ /\ ~Holds(k)
          /\ UNCHANGED issue
          /\ run' = Answered(k, "refused")

\* /status with agent_completed or agent_blocked, /decisions with a question.
ServeFinish(k) ==
    /\ Serve("finish", k)
    /\ \/ /\ Holds(k)
          /\ issue' = [Ready EXCEPT !.status = "waiting"]
          /\ run' = ToolAnswered(k, "ok")
       \/ /\ ~Holds(k)
          /\ UNCHANGED issue
          /\ run' = ToolAnswered(k, "refused")

ServeRelease(k) ==
    /\ Serve("release", k)
    /\ issue' = IF Holds(k)
                  THEN [Ready EXCEPT !.status = "retry_queued"]
                  ELSE issue
    /\ UNCHANGED run

\* Mutation of Expire: one renewal missed counts as a lease that has lapsed.
ExpireEarly ==
    /\ issue.status = "running"
    /\ issue.lease < LeaseTicks - Interval
    /\ issue' = [Ready EXCEPT !.status = "retry_queued"]
    /\ lapsed' = lapsed \cup {issue.token}
    /\ UNCHANGED <<issued, run, net>>

\* maintenance_tick
Expire ==
    /\ issue.status = "running"
    /\ issue.lease < 0
    /\ issue' = [Ready EXCEPT !.status = "retry_queued"]
    /\ lapsed' = lapsed \cup {issue.token}
    /\ UNCHANGED <<issued, run, net>>

\* The delay of a retry, one second after a cancelled Attempt, may be over at once.
TakeUp ==
    /\ issue.status = "retry_queued"
    /\ issue' = Ready
    /\ UNCHANGED <<issued, lapsed, run, net>>

\* An answer, a rejection of the result, a retry of a blocked Issue.
SendBack ==
    /\ issue.status = "waiting"
    /\ issue' = Ready
    /\ UNCHANGED <<issued, lapsed, run, net>>

\* A person may cancel the Issue while an Agent works on it; nothing reopens it.
Cancel ==
    /\ issue.status # "cancelled"
    /\ issue' = [Ready EXCEPT !.status = "cancelled"]
    /\ UNCHANGED <<issued, lapsed, run, net>>

-----------------------------------------------------------------------------
(* A Runner *)

Becomes(w, r) ==
    /\ run' = [run EXCEPT ![w] = r]
    /\ UNCHANGED <<issue, issued, lapsed>>

ClaimAnswered(w) ==
    /\ run[w].phase = "claiming"
    /\ Becomes(w, [run[w] EXCEPT !.phase = "preparing", !.time = 0])
    /\ UNCHANGED net

\* The answer with the token is lost: nobody holds the claim.
ClaimLost(w) ==
    /\ run[w].phase = "claiming"
    /\ Becomes(w, Idle)
    /\ UNCHANGED net

\* The Codex process and, beside it, the heartbeat loop are started.
Launch(w) ==
    /\ run[w].phase = "preparing"
    /\ Becomes(w, [run[w] EXCEPT !.phase = "agent", !.time = 0])
    /\ UNCHANGED net

\* What an Attempt that ends with an active lease sends on its way out.
Farewell(w) ==
    IF run[w].active
      THEN net \cup {[kind |-> "release", token |-> run[w].token]}
      ELSE net

PrepareFails(w) ==
    /\ run[w].phase = "preparing"
    /\ Becomes(w, Idle)
    /\ net' = Farewell(w)

\* update_attempt_context, served while the claim is held.
GrantContext(w) ==
    /\ run[w].phase = "agent"
    /\ run[w].turn = "no"
    /\ Holds(run[w].token)
    /\ Becomes(w, [run[w] EXCEPT !.turn = "granted"])
    /\ UNCHANGED net

\* The first Turn comes after the answer, whatever has become of the claim.
StartTurn(w) ==
    /\ run[w].phase = "agent"
    /\ run[w].turn = "granted"
    /\ Becomes(w, [run[w] EXCEPT !.turn = "on"])
    /\ UNCHANGED net

Stop(w, active) ==
    Becomes(w, [run[w] EXCEPT !.phase = "stopping", !.time = 0, !.active = active,
                              !.beat = "asleep", !.tool = "none"])

\* The context is refused, Turns are used up, or the Agent fails.
AgentEnds(w) ==
    /\ run[w].phase = "agent"
    /\ Stop(w, run[w].active)
    /\ UNCHANGED net

\* The Attempt is cancelled, because it stalls or the Runner shuts down: its release
\* goes out while the process tree is being ended.
CancelRun(w) ==
    /\ run[w].phase = "agent"
    /\ Stop(w, FALSE)
    /\ net' = Farewell(w)

SendHeartbeat(w) ==
    /\ run[w].phase = "agent"
    /\ run[w].beat = "asleep"
    /\ run[w].time = Interval
    /\ Becomes(w, [run[w] EXCEPT !.beat = "sent", !.time = 0])
    /\ net' = net \cup {[kind |-> "heartbeat", token |-> run[w].token]}

HeartbeatAnswered(w) ==
    /\ run[w].phase = "agent"
    /\ \/ /\ run[w].beat = "ok"
          /\ Becomes(w, [run[w] EXCEPT !.beat = "asleep", !.time = 0,
                                        !.renewed = TRUE])
       \/ /\ run[w].beat = "refused"
          /\ Stop(w, FALSE)
    /\ UNCHANGED net

\* Mutation of HeartbeatFails: the loop goes on and tries again later.
HeartbeatRetried(w) ==
    /\ run[w].phase = "agent"
    /\ run[w].beat # "asleep"
    /\ Becomes(w, [run[w] EXCEPT !.beat = "asleep", !.time = 0])
    /\ UNCHANGED net

\* No answer within the time-out, or an error that is not a conflict.
HeartbeatFails(w) ==
    /\ run[w].phase = "agent"
    /\ run[w].beat # "asleep"
    /\ Stop(w, run[w].active)
    /\ UNCHANGED net

SendFinish(w) ==
    /\ run[w].phase = "agent"
    /\ run[w].turn = "on"
    /\ run[w].tool = "none"
    /\ Becomes(w, [run[w] EXCEPT !.tool = "sent"])
    /\ net' = net \cup {[kind |-> "finish", token |-> run[w].token]}

\* A tool that fails tells the Agent so, and the Agent goes on.
FinishAnswered(w) ==
    /\ run[w].phase = "agent"
    /\ \/ run[w].tool = "ok" /\ Stop(w, FALSE)
       \/ run[w].tool # "none" /\ Becomes(w, [run[w] EXCEPT !.tool = "none"])
    /\ UNCHANGED net

Stopped(w) ==
    /\ run[w].phase = "stopping"
    /\ Becomes(w, Idle)
    /\ net' = Farewell(w)

\* The Runner process ends and the Agent with it.
Crash(w) ==
    /\ run[w].phase # "idle"
    /\ Becomes(w, Idle)
    /\ UNCHANGED net

-----------------------------------------------------------------------------
(* Time *)

\* The present phase of a Runner may last n ticks more.
MayLast(r, n) ==
    \/ r.phase = "idle"
    \/ r.phase = "claiming" /\ r.time + n <= Timeout
    \/ r.phase = "preparing" /\ r.time + n <= PrepTicks
    \/ r.phase = "agent" /\ r.beat = "asleep" /\ r.time + n <= Interval
    \/ r.phase = "agent" /\ r.beat # "asleep" /\ r.time + n <= Timeout
    \/ r.phase = "stopping" /\ r.time + n <= StopTicks

\* A claim that is not held any more is never held again.
Older(r) ==
    [r EXCEPT !.time = @ + 1, !.astray = IF Holds(r.token) THEN @ ELSE @ + 1]

Tick ==
    /\ \A w \in Runners : MayLast(run[w], 1)
    /\ run' = [w \in Runners |->
                 IF run[w].phase = "idle" THEN run[w] ELSE Older(run[w])]
    /\ issue' = [issue EXCEPT !.lease = IF @ > -1 THEN @ - 1 ELSE -1]
    /\ UNCHANGED <<issued, lapsed, net>>

OfRunner(w) ==
    \/ Grant(w) \/ ClaimAnswered(w) \/ ClaimLost(w)
    \/ Launch(w) \/ PrepareFails(w) \/ GrantContext(w) \/ StartTurn(w)
    \/ AgentEnds(w) \/ CancelRun(w)
    \/ SendHeartbeat(w) \/ HeartbeatAnswered(w) \/ HeartbeatFails(w)
    \/ SendFinish(w) \/ FinishAnswered(w)
    \/ Stopped(w) \/ Crash(w)

OfControlPlane ==
    \/ \E k \in Token : ServeHeartbeat(k) \/ ServeFinish(k) \/ ServeRelease(k)
    \/ Expire \/ TakeUp \/ SendBack \/ Cancel

Next == (\E w \in Runners : OfRunner(w)) \/ OfControlPlane \/ Tick

Spec == Init /\ [][Next]_vars

-----------------------------------------------------------------------------
(* Properties *)

\* Every variable has its type: a lease never ends later than one lease from now,
\* whichever heartbeats are served late or twice.
TypeOK ==
    /\ issue \in Issue
    /\ issued \in {0} \cup Token
    /\ lapsed \subseteq Token
    /\ run \in [Runners -> Run]
    /\ net \subseteq Request

Engaged(w) == run[w].phase # "idle"

\* How long a Runner can go on after the control plane served its last request with
\* success: the answer, an interval, a heartbeat that is refused or not answered.
Unheard == 2 * Timeout + Interval

\* An Agent in a Turn does not outlive its claim by more than that and the time it
\* takes to end its processes: whether the lease lapsed before the first heartbeat,
\* the Issue was cancelled, released or handed over with the answer lost, and though
\* by then another Runner may be at work on the Issue.
LostClaimIsNoticed ==
    \A w \in Runners : Engaged(w) /\ run[w].turn = "on" =>
      run[w].astray <= Unheard + (IF run[w].phase = "stopping" THEN StopTicks ELSE 0)

\* The lease is long enough for that: 300 s against 165 s in WORKFLOW.md.
LeaseOutlastsSilence == Unheard + StopTicks <= LeaseTicks

\* Once a heartbeat of an Attempt was answered, its lease does not lapse while its
\* Runner is still at it, however late answers are: the sweep ends only Attempts
\* that are over or that never renewed.
RenewedLeaseHolds ==
    \A w \in Runners : Engaged(w) /\ run[w].renewed => run[w].token \notin lapsed
=============================================================================
