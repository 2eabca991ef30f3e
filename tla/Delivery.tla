------------------------------ MODULE Delivery ------------------------------
(***************************************************************************)
(* From review to merge: deliver_issue and IssueDeliveryManager, which     *)
(* commit the workspace, publish the commit and confirm its merge, beside  *)
(* continue_issue, which sends an Issue back with a follow-up instruction, *)
(* and the Attempts that get the instruction and change the workspace.     *)
(*                                                                         *)
(* A delivery call reads the Issue, ends its transaction, runs one git     *)
(* command or request to the host after the other, reads the Issue again   *)
(* to compare, and writes it.  Calls overlap between any two of these      *)
(* steps, and any of them may be the last.  The other handlers are one     *)
(* step each: how they overlap is the matter of IssueServiceRaces.         *)
(* Statuses in which none of this happens are left to IssueService.        *)
(***************************************************************************)
EXTENDS Naturals, FiniteSets

CONSTANTS Calls,        \* delivery calls that can be under way at once
          Hosts,        \* how the project's remote opens review requests
          MaxTarget,    \* bound: times the target branch advances
          MaxEdits,     \* bound: changes to the workspace
          MaxAttempts,  \* bound: claims of the Issue
          MaxFollowUps, \* bound: follow-up instructions
          MaxRequests,  \* bound: review requests the host opens for the branch
          None

ASSUME DeliveryConstants ==
    /\ MaxTarget \in Nat /\ MaxEdits \in Nat /\ MaxAttempts \in Nat
    /\ MaxFollowUps \in Nat /\ MaxRequests \in Nat
    /\ Hosts \subseteq {"github", "gitlab", "push"}

VARIABLES host,     \* GitHub, GitLab's API, or GitLab's push options without a token
          issue,    \* the Issue
          target,   \* the newest commit of the target branch in the project's repository
          tree,     \* the files of the workspace
          index,    \* what is staged there
          head,     \* the commit that is checked out there
          fetched,  \* its FETCH_HEAD
          lingers,  \* the Codex or the after_run hook of an ended Attempt is still at work
          attempt,  \* the Attempt that is running
          followups,\* instructions given, still to be handed out, heard, and cut off
          calls,    \* the delivery calls
          remote,   \* the Issue's branch on the host, and its newest review request
          strayed,  \* what lingered changed the workspace after it was staged for approval
          overtaken \* an Attempt was claimed while a call was about to write the Issue

vars == <<host, issue, target, tree, index, head, fetched, lingers, attempt, followups,
          calls, remote, strayed, overtaken>>
files == <<tree, index, head>>
desk == <<files, fetched, lingers, strayed>>

\* What files or a commit contain: the target branch up to `base`, and `edit` changes.
Content == [base : 0..MaxTarget, edit : 0..MaxEdits]
Instruction == 1..MaxFollowUps
Version == 0..(3 * MaxAttempts + 2)

IssueStatus == {"ready", "running", "retry_queued", "reviewing", "awaiting_publish",
                "pr_open", "done"}
Action == {"approve_result", "authorize_publish", "confirm_merge"}
CallPhase == {"begun", "checked", "staged", "differs", "committed",
              "looked", "fetched", "current", "headed", "pushed", "ready", "rechecked"}
AttemptPhase == {"claimed", "thread", "turn"}
RequestState == {"open", "merged", "closed"}
IssueRow == [status : IssueStatus, version : Version, commit : Content \cup {None},
             request : 0..MaxRequests, claims : 0..MaxAttempts]
Attempt == [phase : AttemptPhase \cup {None}, carries : SUBSET Instruction]
FollowUps == [given : 0..MaxFollowUps, next : SUBSET Instruction,
              heard : SUBSET Instruction, cut : SUBSET Instruction]
Call == [action : Action \cup {None}, phase : CallPhase \cup {None}, version : Version,
         commit : Content \cup {None}, request : 0..MaxRequests, claims : 0..MaxAttempts]
Remote == [branch : Content \cup {None}, request : 0..MaxRequests,
           state : RequestState \cup {None}, merged : Content \cup {None}]
NoAttempt == [phase |-> None, carries |-> {}]
NoCall == [action |-> None, phase |-> None, version |-> 0, commit |-> None, request |-> 0,
           claims |-> 0]

ASSUME NoneIsNothing ==
    None \notin Content \cup Action \cup CallPhase \cup AttemptPhase \cup RequestState

TypeOK ==
    /\ host \in Hosts
    /\ issue \in IssueRow
    /\ target \in 0..MaxTarget
    /\ tree \in Content
    /\ index \in Content
    /\ head \in Content
    /\ fetched \in 0..MaxTarget
    /\ lingers \in BOOLEAN
    /\ attempt \in Attempt
    /\ followups \in FollowUps
    /\ calls \in [Calls -> Call]
    /\ remote \in Remote
    /\ strayed \in BOOLEAN
    /\ overtaken \in BOOLEAN

\* The Issue's source_commit is the commit 0 of the target branch: it is read when the
\* Issue is created and never set again.
Source == 0

Init ==
    /\ host \in Hosts
    /\ issue = [status |-> "ready", version |-> 0, commit |-> None, request |-> 0,
                claims |-> 0]
    /\ target = Source
    /\ tree = [base |-> Source, edit |-> 0]
    /\ index = tree
    /\ head = tree
    /\ fetched = Source
    /\ lingers = FALSE
    /\ attempt = NoAttempt
    /\ followups = [given |-> 0, next |-> {}, heard |-> {}, cut |-> {}]
    /\ calls = [c \in Calls |-> NoCall]
    /\ remote = [branch |-> None, request |-> 0, state |-> None, merged |-> None]
    /\ strayed = FALSE
    /\ overtaken = FALSE

-----------------------------------------------------------------------------
(* Attempts and follow-ups *)

\* Mutation of Becomes: the event of a transition raises the version once more.
BecomesTwice(s) == issue' = [issue EXCEPT !.status = s, !.version = @ + 2]

Becomes(s) == issue' = [issue EXCEPT !.status = s, !.version = @ + 1]

\* Mutation of NextFollowUps: whatever Attempt came last hides what was said before it.
NextAfterAnyAttempt == {}

\* claim hands out the instructions given after the end of the newest Attempt that has
\* a Thread.
NextFollowUps ==
    IF attempt.phase \in {"thread", "turn"} THEN {} ELSE followups.next

\* An Attempt ends: whoever had a Thread is the newest that has one.
AttemptOver ==
    /\ attempt' = NoAttempt
    /\ followups' = [followups EXCEPT
         !.next = NextFollowUps,
         !.cut = @ \cup (IF attempt.phase = "thread" THEN attempt.carries ELSE {})]

\* No Runner asks whether the hook of the last Attempt is over: it may have run on another.
Claim ==
    /\ issue.status = "ready"
    /\ issue.claims < MaxAttempts
    /\ issue' = [issue EXCEPT !.status = "running", !.version = @ + 1, !.claims = @ + 1]
    /\ attempt' = [phase |-> "claimed", carries |-> followups.next]
    /\ UNCHANGED <<host, target, desk, followups, calls, remote, overtaken>>

\* The Thread that update_attempt_context records.
OpenThread ==
    /\ attempt.phase = "claimed"
    /\ attempt' = [attempt EXCEPT !.phase = "thread"]
    /\ UNCHANGED <<host, issue, target, desk, followups, calls, remote, overtaken>>

StartTurn ==
    /\ attempt.phase = "thread"
    /\ attempt' = [attempt EXCEPT !.phase = "turn"]
    /\ followups' = [followups EXCEPT !.heard = @ \cup attempt.carries]
    /\ UNCHANGED <<host, issue, target, desk, calls, remote, overtaken>>

Approved == issue.status \in {"awaiting_publish", "pr_open", "done"}

\* Call c has staged the workspace for its approval.
HasStaged(c) ==
    calls[c].action = "approve_result" /\ calls[c].phase \notin {"begun", "checked"}

\* The Agent, or what is left of an earlier one, changes files, may integrate the target
\* branch, and may stage or commit.
Work ==
    /\ attempt.phase = "turn" \/ lingers
    /\ tree.edit < MaxEdits
    /\ \E b \in {tree.base, target} : tree' = [base |-> b, edit |-> tree.edit + 1]
    /\ index' \in {index, tree'}
    /\ head' = head \/ (head' = tree' /\ index' = tree')
    /\ strayed' = (strayed \/ Approved
                     \/ (attempt.phase # "turn" /\ \E c \in Calls : HasStaged(c)))
    /\ UNCHANGED <<host, issue, target, fetched, lingers, attempt, followups, calls,
                   remote, overtaken>>

\* The Runner ends Codex and runs after_run when the Issue is in review already.
FinishIssue ==
    /\ attempt.phase = "turn"
    /\ Becomes("reviewing")
    /\ AttemptOver
    /\ lingers' = TRUE
    /\ strayed' = FALSE
    /\ UNCHANGED <<host, target, files, fetched, calls, remote, overtaken>>

\* The Attempt fails and is released; or its Runner is lost and the lease expires.
FailAttempt ==
    /\ attempt # NoAttempt
    /\ Becomes("retry_queued")
    /\ AttemptOver
    /\ lingers' \in {lingers, TRUE}
    /\ UNCHANGED <<host, target, files, fetched, strayed, calls, remote, overtaken>>

TakeUp ==
    /\ issue.status = "retry_queued"
    /\ Becomes("ready")
    /\ UNCHANGED <<host, target, desk, attempt, followups, calls, remote, overtaken>>

\* The hook and Codex are over, or the machine they ran on is.
LingeringEnds ==
    /\ lingers
    /\ lingers' = FALSE
    /\ UNCHANGED <<host, issue, target, files, fetched, strayed, attempt, followups, calls,
                   remote, overtaken>>

ContinueIssue ==
    /\ issue.status = "reviewing"
    /\ followups.given < MaxFollowUps
    /\ Becomes("ready")
    /\ followups' = [followups EXCEPT !.given = @ + 1, !.next = @ \cup {followups.given + 1}]
    /\ UNCHANGED <<host, target, desk, attempt, calls, remote, overtaken>>

-----------------------------------------------------------------------------
(* deliver_issue *)

Awaited(a) == CASE a = "approve_result" -> "reviewing"
                [] a = "authorize_publish" -> "awaiting_publish"
                [] a = "confirm_merge" -> "pr_open"

At(c, a, p) == calls[c].action = a /\ calls[c].phase = p
Goes(c, p) == calls' = [calls EXCEPT ![c].phase = p]
Ends(c) == calls' = [calls EXCEPT ![c] = NoCall]
others == <<host, issue, target, lingers, strayed, attempt, followups, overtaken>>

\* A person who sees the newest version; the read transaction ends with this step.
Begin(c, a) ==
    /\ calls[c] = NoCall
    /\ issue.status = Awaited(a)
    /\ calls' = [calls EXCEPT ![c] =
                   [action |-> a, phase |-> "begun", version |-> issue.version,
                    commit |-> issue.commit, request |-> issue.request,
                    claims |-> issue.claims]]
    /\ UNCHANGED <<others, files, fetched, remote>>

\* A git command or a request to the host fails or refuses, or the control plane restarts.
GiveUp(c) ==
    /\ calls[c] # NoCall
    /\ Ends(c)
    /\ UNCHANGED <<others, files, fetched, remote>>

\* assert_base_unchanged
BaseUnchanged == target = Source

ApproveBase(c) ==
    /\ At(c, "approve_result", "begun")
    /\ BaseUnchanged
    /\ Goes(c, "checked")
    /\ UNCHANGED <<others, files, fetched, remote>>

\* git add: everything but the directories of the Agent and of the Runner.
Stage(c) ==
    /\ At(c, "approve_result", "checked")
    /\ index' = tree
    /\ Goes(c, "staged")
    /\ UNCHANGED <<others, tree, head, fetched, remote>>

\* git diff
Diff(c) ==
    /\ At(c, "approve_result", "staged")
    /\ Goes(c, IF index = head THEN "committed" ELSE "differs")
    /\ UNCHANGED <<others, files, fetched, remote>>

\* git commit takes what is staged by now, and fails if that is nothing.
Commit(c) ==
    /\ At(c, "approve_result", "differs")
    /\ index # head
    /\ head' = index
    /\ Goes(c, "committed")
    /\ UNCHANGED <<others, tree, index, fetched, remote>>

\* git rev-parse: the approved commit is the one that is checked out by now.
RevParse(c) ==
    /\ At(c, "approve_result", "committed")
    /\ calls' = [calls EXCEPT ![c].phase = "ready", ![c].commit = head]
    /\ UNCHANGED <<others, files, fetched, remote>>

\* Mutation of Recheck: the version is not compared again.
RecheckStatus(c) ==
    /\ calls[c].phase = "ready"
    /\ IF issue.status = Awaited(calls[c].action)
       THEN calls' = [calls EXCEPT ![c].phase = "rechecked", ![c].claims = issue.claims]
       ELSE Ends(c)
    /\ UNCHANGED <<others, files, fetched, remote>>

\* The last transaction reads the Issue again and compares.
Recheck(c) ==
    /\ calls[c].phase = "ready"
    /\ IF issue.status = Awaited(calls[c].action) /\ issue.version = calls[c].version
       THEN calls' = [calls EXCEPT ![c].phase = "rechecked", ![c].claims = issue.claims]
       ELSE Ends(c)
    /\ UNCHANGED <<others, files, fetched, remote>>

Delivered(a) == CASE a = "approve_result" -> "awaiting_publish"
                  [] a = "authorize_publish" -> "pr_open"
                  [] a = "confirm_merge" -> "done"

\* It writes what it changed by the Issue's id, whatever the row is by now.  A claimed row
\* refuses another status: ck_issues_claim_state.
Write(c) ==
    /\ calls[c].phase = "rechecked"
    /\ Ends(c)
    /\ \/ /\ issue.status = "running"
          /\ UNCHANGED <<issue, overtaken>>
       \/ /\ issue.status # "running"
          /\ issue' = [issue EXCEPT
               !.status = Delivered(calls[c].action), !.version = calls[c].version + 1,
               !.commit = IF calls[c].action = "approve_result" THEN calls[c].commit ELSE @,
               !.request = IF calls[c].action = "authorize_publish" THEN calls[c].request
                           ELSE @]
          /\ overtaken' = (overtaken \/ calls[c].claims # issue.claims)
    /\ UNCHANGED <<host, target, desk, attempt, followups, remote>>

\* assert_base_is_ancestor looks at HEAD,
LookHead(c) ==
    /\ At(c, "authorize_publish", "begun")
    /\ head = calls[c].commit
    /\ Goes(c, "looked")
    /\ UNCHANGED <<others, files, fetched, remote>>

\* fetches the target branch,
Fetch(c) ==
    /\ At(c, "authorize_publish", "looked")
    /\ fetched' = target
    /\ Goes(c, "fetched")
    /\ UNCHANGED <<others, files, remote>>

\* and compares with what this call or another one of the same workspace fetched last.
Ancestor(c) ==
    /\ At(c, "authorize_publish", "fetched")
    /\ fetched <= calls[c].commit.base
    /\ Goes(c, "current")
    /\ UNCHANGED <<others, files, fetched, remote>>

\* publish looks at HEAD again before it sets the remote.
PublishHead(c) ==
    /\ At(c, "authorize_publish", "current")
    /\ head = calls[c].commit
    /\ Goes(c, "headed")
    /\ UNCHANGED <<others, files, fetched, remote>>

NewRequest == [branch |-> head, request |-> remote.request + 1, state |-> "open",
               merged |-> remote.merged]

\* It pushes HEAD, whatever that is by now.  With push options the host opens the
\* request itself, and prints its address only when the push has news.
Push(c) ==
    /\ At(c, "authorize_publish", "headed")
    /\ \/ /\ host # "push"
          /\ remote' = [remote EXCEPT !.branch = head]
          /\ Goes(c, "pushed")
       \/ /\ host = "push"
          /\ remote.branch # head
          /\ remote.request < MaxRequests
          /\ remote' = NewRequest
          /\ calls' = [calls EXCEPT ![c].phase = "ready", ![c].request = remote.request + 1]
    /\ UNCHANGED <<others, files, fetched>>

Found == \/ host = "github" /\ remote.state # None
         \/ host = "gitlab" /\ remote.state = "open"

\* _create_github_pull_request, which finds requests in any state, and
\* _create_gitlab_merge_request, which finds open ones.  The host does not open two.
OpenRequest(c) ==
    /\ At(c, "authorize_publish", "pushed")
    /\ \/ /\ Found
          /\ calls' = [calls EXCEPT ![c].phase = "ready", ![c].request = remote.request]
          /\ UNCHANGED remote
       \/ /\ ~Found
          /\ remote.request < MaxRequests
          /\ remote' = NewRequest
          /\ calls' = [calls EXCEPT ![c].phase = "ready", ![c].request = remote.request + 1]
    /\ UNCHANGED <<others, files, fetched>>

\* Mutation of VerifyMerged: a request that was closed counts as merged.
VerifyClosed(c) ==
    /\ At(c, "confirm_merge", "begun")
    /\ host # "push"
    /\ remote.state # "open"
    /\ Goes(c, "ready")
    /\ UNCHANGED <<others, files, fetched, remote>>

\* verify_merged asks the host for the request that is recorded, and needs a token.
VerifyMerged(c) ==
    /\ At(c, "confirm_merge", "begun")
    /\ host # "push"
    /\ remote.state = "merged" /\ remote.request = calls[c].request
    /\ Goes(c, "ready")
    /\ UNCHANGED <<others, files, fetched, remote>>

-----------------------------------------------------------------------------
(* Outside *)

\* People pull into the project's repository, or commit there.
AdvanceTarget ==
    /\ target < MaxTarget
    /\ target' = target + 1
    /\ UNCHANGED <<host, issue, desk, attempt, followups, calls, remote, overtaken>>

\* The request is merged or closed on the host.
Merge ==
    /\ remote.state = "open"
    /\ remote' = [remote EXCEPT !.state = "merged", !.merged = remote.branch]
    /\ UNCHANGED <<others, files, fetched, calls>>

CloseRequest ==
    /\ remote.state = "open"
    /\ remote' = [remote EXCEPT !.state = "closed"]
    /\ UNCHANGED <<others, files, fetched, calls>>

-----------------------------------------------------------------------------
OfAttempt ==
    Claim \/ OpenThread \/ StartTurn \/ Work \/ FinishIssue \/ FailAttempt \/ TakeUp
      \/ LingeringEnds

Delivers(c) ==
    \/ ApproveBase(c) \/ Stage(c) \/ Diff(c) \/ Commit(c) \/ RevParse(c)
    \/ LookHead(c) \/ Fetch(c) \/ Ancestor(c) \/ PublishHead(c) \/ Push(c) \/ OpenRequest(c)
    \/ VerifyMerged(c)
    \/ Recheck(c) \/ Write(c)

Outside == AdvanceTarget \/ Merge \/ CloseRequest

Next ==
    \/ OfAttempt \/ ContinueIssue \/ Outside
    \/ \E c \in Calls : GiveUp(c) \/ Delivers(c) \/ \E a \in Action : Begin(c, a)

Spec == Init /\ [][Next]_vars

-----------------------------------------------------------------------------
(* Properties *)

\* What a review request shows, and what is merged, is the commit that was approved: not
\* what a call that read the Issue in an earlier review made of the workspace since.
\* Two things nothing in the code prevents are left out: what lingers of an Attempt changes
\* the workspace behind the approval, and an Attempt comes between the last comparison of
\* a call and its write.
PublishedIsApproved ==
    strayed \/ overtaken
      \/ /\ issue.status \in {"pr_open", "done"} => remote.branch = issue.commit
         /\ issue.status = "done" => remote.merged = issue.commit

\* When an Issue comes back for review, its Agent has been given every follow-up
\* instruction, even if Attempts failed in between, unless one of them ended
\* between opening its Thread and starting its first Turn.
FollowUpsHeard ==
    issue.status = "reviewing"
      => 1..followups.given \subseteq followups.heard \cup followups.cut

\* No git command of an overlapping call moves the workspace off the approved commit
\* between approval and publication.  publish would refuse it from then on, and there
\* is no way back from awaiting_publish.  The exceptions are those of PublishedIsApproved.
PublishStaysPossible ==
    issue.status = "awaiting_publish" => head = issue.commit \/ strayed \/ overtaken

\* README.md: after the target branch advanced, one continues the Issue, integrates the
\* new version and validates again.  So an Issue that was continued and is in review with
\* the target branch in its workspace must not be refused for its base.
IntegratedMayBeApproved ==
    issue.status = "reviewing" /\ followups.given > 0 /\ ~lingers /\ tree.base = target
      => BaseUnchanged

=============================================================================
