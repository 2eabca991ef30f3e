-------------------------- MODULE Projects_proofs --------------------------
(***************************************************************************)
(* Whatever calls are under way together, and whenever the control plane   *)
(* ends: an Issue keeps its Project, and a Project has one Runner at most  *)
(* that this control plane started, the one that a stop would find.        *)
(***************************************************************************)
EXTENDS Projects, TLAPS

\* What holds of a call, given the state of everything else.
Fits(r) ==
    /\ r.kind = None => r = NoCall
    /\ r.kind = "refresh" => r.phase \in {"check", "look", "judge", "record"}
    /\ r.kind = "shutdown" => /\ r.phase \in {"stop", "stopping", "down"}
                              /\ server = "closing"
    /\ r.phase = "down" => r.kind = "shutdown"
    /\ server = "down" => r.kind = None
    /\ server = "closing" => r.kind \in {None, "refresh", "shutdown"}
    /\ project.status = "absent" => /\ r.kind \in {None, "stop", "shutdown"}
                                    /\ r.phase \in {None, "stop", "down"}

\* What a call that is at work on something may rely on.
Relies(r) ==
    /\ r.phase = "patched" => r.row.status \notin {"absent", "deleted"}
    /\ r.phase = "take" => issue # None
    /\ r.phase = "forget" => project.status = "deleted"
    /\ r.phase = "spawn" => /\ r.runtime \in 1..starts
                            /\ runtimes[r.runtime].process = None
                            /\ Exists => r.runtime = registered
    /\ r.phase = "stopping" =>
         /\ r.runtime \in 1..starts
         /\ Exists /\ r.kind = "shutdown" => r.runtime = registered
    /\ Exists /\ r.phase = "down" =>
         \A i \in Runtime : ~(runtimes[i].ours /\ runtimes[i].process = "live")

\* Only a call that creates a process holds the lock from one step to the next.
Locks == \A c \in Calls : calls[c].phase = "spawn" <=> lock = c

\* Runtimes are used in order, and for a Project that there is.
Unused ==
    /\ \A i \in Runtime : i > starts => runtimes[i].process = None /\ ~runtimes[i].ours
    /\ project.status = "absent" => starts = 0

Inv ==
    /\ TypeOK
    /\ Locks
    /\ Unused
    /\ OneRunner
    /\ IssueKeepsProject
    /\ \A c \in Calls : Fits(calls[c]) /\ Relies(calls[c])

-----------------------------------------------------------------------------
(* Calls *)

LEMMA NoCallIsCall == NoCall \in Call
<1>1. NoRow \in Row
  BY DEF NoRow, Row
<1>2. 0 \in Commit /\ 0 \in 0..MaxStarts
  BY ProjectsConstants DEF Commit
<1>3. QED
  BY <1>1, <1>2 DEF NoCall, Call

LEMMA CallFields ==
    ASSUME TypeOK, NEW c \in Calls
    PROVE  /\ calls[c] \in Call
           /\ calls[c].kind \in Kind \cup {None}
           /\ calls[c].phase \in Phase \cup {None}
           /\ calls[c].row \in Row
           /\ calls[c].commit \in Commit
           /\ calls[c].good \in BOOLEAN
           /\ calls[c].runtime \in 0..MaxStarts
           /\ calls[c].quiet \in BOOLEAN
           /\ calls[c].floor \in Commit
           /\ calls[c].alone \in BOOLEAN
BY DEF TypeOK, Call

\* One call changes.
LEMMA OneCall ==
    ASSUME TypeOK, NEW c \in Calls, NEW r \in Call, calls' = [calls EXCEPT ![c] = r]
    PROVE  /\ calls' \in [Calls -> Call]
           /\ calls'[c] = r
           /\ \A d \in Calls : d # c => calls'[d] = calls[d]
BY DEF TypeOK

LEMMA GoesCall ==
    ASSUME TypeOK, NEW c \in Calls, NEW p \in Phase, Goes(c, p)
    PROVE  \E r \in Call : 
              /\ calls' = [calls EXCEPT ![c] = r]
              /\ r.kind = calls[c].kind /\ r.phase = p
              /\ r.row = calls[c].row /\ r.runtime = calls[c].runtime
              /\ r.quiet = calls[c].quiet
<1> DEFINE r == [calls[c] EXCEPT !.phase = p]
<1>1. r \in Call
  BY CallFields DEF Call
<1>2. calls' = [calls EXCEPT ![c] = r]
  BY DEF Goes
<1>3. /\ r.kind = calls[c].kind /\ r.phase = p /\ r.row = calls[c].row
      /\ r.runtime = calls[c].runtime /\ r.quiet = calls[c].quiet
  BY CallFields DEF Call
<1>4. QED
  BY <1>1, <1>2, <1>3

LEMMA ComesCall ==
    ASSUME TypeOK, NEW c \in Calls, NEW k \in Kind, NEW p \in Phase, Comes(c, k, p)
    PROVE  \E r \in Call : 
              /\ calls' = [calls EXCEPT ![c] = r]
              /\ r.kind = k /\ r.phase = p /\ r.row = NoRow /\ r.runtime = 0
              /\ r.quiet => /\ k \in {"issue", "claim", "start", "move"}
                            /\ ~project.enabled
<1> DEFINE q == k \in {"issue", "claim", "start", "move"} /\ Exists /\ ~project.enabled
           f == IF k = "issue" THEN head ELSE 0
           a == k = "issue" /\ Validating = {}
           r == [NoCall EXCEPT !.kind = k, !.phase = p, !.quiet = q, !.floor = f, !.alone = a]
<1>1. calls' = [calls EXCEPT ![c] = r]
  BY DEF Comes
<1>2. q \in BOOLEAN /\ f \in Commit /\ a \in BOOLEAN
  BY ProjectsConstants DEF TypeOK, Commit
<1> HIDE DEF q, f, a
<1>3. r \in Call
  BY <1>2, NoCallIsCall DEF Call
<1>4. r.kind = k /\ r.phase = p /\ r.row = NoRow /\ r.runtime = 0 /\ r.quiet = q
  BY DEF NoCall
<1>5. QED
  BY <1>1, <1>3, <1>4 DEF q

LEMMA EndsCall ==
    ASSUME TypeOK, NEW c \in Calls, Ends(c)
    PROVE  \E r \in Call : calls' = [calls EXCEPT ![c] = r] /\ r = NoCall
BY NoCallIsCall DEF Ends

LEMMA Events == ASSUME TypeOK, Happens PROVE events' \in 0..MaxEvents
BY ProjectsConstants DEF TypeOK, Happens

LEMMA NoCallFits == ASSUME TRUE PROVE Fits(NoCall) /\ Relies(NoCall)
BY NoneIsNothing DEF Fits, Relies, NoCall, Kind, Phase

\* A step that changes nothing but one call, which does not hold the lock.
LEMMA OnlyCall ==
    ASSUME Inv, NEW c \in Calls, NEW r \in Call, calls' = [calls EXCEPT ![c] = r],
           calls[c].phase # "spawn", r.phase # "spawn", Fits(r), Relies(r),
           UNCHANGED <<repository, project, issue, supervisor, server>>,
           events' \in 0..MaxEvents
    PROVE  Inv'
<1>1. /\ calls' \in [Calls -> Call]
      /\ calls'[c] = r
      /\ \A d \in Calls : d # c => calls'[d] = calls[d]
  BY OneCall DEF Inv
<1>2. TypeOK'
  BY <1>1 DEF Inv, TypeOK, repository, supervisor
<1>3. Locks'
  BY <1>1 DEF Inv, Locks, supervisor
<1>4. Unused' /\ OneRunner' /\ IssueKeepsProject'
  BY DEF Inv, Unused, OneRunner, IssueKeepsProject, Exists, Alive, supervisor
<1>5. ASSUME NEW d \in Calls PROVE (Fits(calls[d]) /\ Relies(calls[d]))'
  <2>1. Fits(calls'[d]) /\ Relies(calls'[d])
    BY <1>1 DEF Inv
  <2>2. QED
    BY <2>1 DEF Fits, Relies, Exists, supervisor
<1>6. QED
  BY <1>2, <1>3, <1>4, <1>5 DEF Inv

\* A call goes on to a phase in which it relies on nothing.
LEMMA GoingOn ==
    ASSUME Inv, NEW c \in Calls, NEW p \in Phase, Goes(c, p),
           calls[c].phase \notin {None, "spawn", "down"},
           p \notin {"spawn", "patched", "take", "forget", "stopping", "down"},
           calls[c].kind = "refresh" => p \in {"check", "look", "judge", "record"},
           calls[c].kind # "shutdown", Exists,
           UNCHANGED <<repository, project, issue, supervisor, process>>
    PROVE  Inv'
<1>1. PICK r \in Call : 
         /\ calls' = [calls EXCEPT ![c] = r]
         /\ r.kind = calls[c].kind /\ r.phase = p
         /\ r.row = calls[c].row /\ r.runtime = calls[c].runtime
  BY GoesCall DEF Inv
<1>2. Fits(calls[c]) /\ calls[c].kind # None
  BY DEF Inv, Fits, NoCall
<1>3. Fits(r)
  BY <1>1, <1>2 DEF Fits, Exists
<1>4. Relies(r)
  BY <1>1 DEF Relies
<1>5. events' \in 0..MaxEvents /\ server' = server
  BY DEF process, Inv, TypeOK
<1>6. QED
  BY <1>1, <1>3, <1>4, <1>5, OnlyCall

LEMMA Ending ==
    ASSUME Inv, NEW c \in Calls, Ends(c), calls[c].phase # "spawn",
           UNCHANGED <<repository, project, issue, supervisor, process>>
    PROVE  Inv'
<1>1. events' \in 0..MaxEvents /\ server' = server
  BY DEF process, Inv, TypeOK
<1>2. NoCall.phase # "spawn"
  BY NoneIsNothing DEF NoCall, Phase
<1>3. QED
  BY <1>1, <1>2, EndsCall, NoCallFits, OnlyCall DEF Inv

\* A call comes in.
LEMMA Coming ==
    ASSUME Inv, NEW c \in Calls, NEW k \in Kind, NEW p \in Phase, Comes(c, k, p),
           k \notin {"refresh", "shutdown"},
           p \notin {"spawn", "patched", "forget", "stopping", "down"},
           p = "take" => issue # None,
           Exists \/ (k = "stop" /\ p = "stop"),
           UNCHANGED <<repository, project, issue, supervisor, server>>
    PROVE  Inv'
<1>1. PICK r \in Call : 
         /\ calls' = [calls EXCEPT ![c] = r]
         /\ r.kind = k /\ r.phase = p /\ r.row = NoRow /\ r.runtime = 0
  BY ComesCall DEF Inv
<1>2. calls[c].phase # "spawn" /\ server = "up" /\ events' \in 0..MaxEvents
  BY NoneIsNothing, Events DEF Comes, Accepts, NoCall, Phase, Inv
<1>3. Fits(r)
  BY <1>1, <1>2, NoneIsNothing DEF Fits, Exists
<1>4. Relies(r)
  BY <1>1 DEF Relies
<1>5. QED
  BY <1>1, <1>2, <1>3, <1>4, OnlyCall

LEMMA RequestsKeep ==
    ASSUME Inv, NEW c \in Calls,
           \/ Validate(c) \/ Delete(c) \/ CreateIssue(c) \/ Claim(c) \/ Start(c) \/ Stop(c)
           \/ \E k \in Kind : Patch(c, k)
    PROVE  Inv'
<1>1. {"validate", "delete", "issue", "claim", "start", "stop"} \subseteq Kind
  BY DEF Kind
<1>2. {"look", "stop", "check", "take", "lock", "patch"} \subseteq Phase
  BY DEF Phase
<1>3. CASE Validate(c)
  BY <1>1, <1>2, <1>3, Coming DEF Validate
<1>4. CASE Delete(c)
  BY <1>1, <1>2, <1>4, Coming DEF Delete
<1>5. CASE CreateIssue(c)
  BY <1>1, <1>2, <1>5, Coming DEF CreateIssue
<1>6. CASE Claim(c)
  BY <1>1, <1>2, <1>6, Coming DEF Claim, Exists, Open
<1>7. CASE Start(c)
  <2>1. CASE Open(project)
    BY <1>1, <1>2, <1>7, <2>1, Coming DEF Start
  <2>2. CASE ~Open(project)
    BY <1>1, <1>2, <1>7, <2>2, Coming DEF Start
  <2>3. QED
    BY <2>1, <2>2
<1>8. CASE Stop(c)
  BY <1>1, <1>2, <1>8, Coming DEF Stop
<1>9. ASSUME NEW k \in Kind, Patch(c, k) PROVE Inv'
  <2>1. CASE k = "enable"
    BY <1>2, <1>9, <2>1, Coming DEF Patch
  <2>2. CASE k # "enable"
    BY <1>2, <1>9, <2>2, Coming DEF Patch
  <2>3. QED
    BY <2>1, <2>2
<1>10. QED
  BY <1>3, <1>4, <1>5, <1>6, <1>7, <1>8, <1>9

LEMMA RefreshKeeps == ASSUME Inv, Refresh PROVE Inv'
<1>1. PICK c \in Calls :
         /\ calls[c] = NoCall
         /\ calls' = [calls EXCEPT ![c] = [NoCall EXCEPT !.kind = "refresh", !.phase = "check"]]
  BY DEF Refresh
<1> DEFINE r == [NoCall EXCEPT !.kind = "refresh", !.phase = "check"]
<1>2. r \in Call
  BY NoCallIsCall DEF Call, Kind, Phase
<1>3. r.kind = "refresh" /\ r.phase = "check"
  BY DEF NoCall
<1> HIDE DEF r
<1>4. Fits(r) /\ Relies(r)
  BY <1>3, NoneIsNothing DEF Refresh, Fits, Relies, Exists, Kind
<1>5. calls[c].phase # "spawn"
  BY <1>1, NoneIsNothing DEF NoCall, Phase
<1>6. events' \in 0..MaxEvents /\ server' = server
        /\ UNCHANGED <<repository, project, issue, supervisor>>
  BY DEF process, Inv, TypeOK, Refresh
<1>7. calls' = [calls EXCEPT ![c] = r]
  BY <1>1 DEF r
<1>8. QED
  BY <1>2, <1>3, <1>4, <1>5, <1>6, <1>7, OnlyCall

\* The steps of a call that read, and write nothing but what the call remembers.
Reads(c) == RefreshIfChanged(c) \/ Look(c) \/ Judge(c) \/ PatchRead(c) \/ DeleteRead(c)
              \/ Bind(c)

\* Where a call is in its course when it remembers something.
LEMMA Remembering ==
    ASSUME Inv, NEW c \in Calls, NEW r \in Call, calls' = [calls EXCEPT ![c] = r],
           r.kind = calls[c].kind,
           \/ calls[c].phase \in {"look", "judge"} /\ r.phase \in {"judge", "record"}
           \/ calls[c].phase = "bind" /\ r.phase = "insert"
           \/ calls[c].phase = "patch" /\ r.phase = "patched" /\ r.row = project /\ Exists,
           UNCHANGED <<repository, project, issue, supervisor, process>>
    PROVE  Inv'
<1>1. Fits(calls[c]) /\ calls[c].kind # None
  BY NoneIsNothing DEF Inv, Fits, NoCall, Phase
<1>2. Fits(r)
  BY <1>1, NoneIsNothing DEF Fits, Phase
<1>3. Relies(r)
  BY DEF Relies, Exists
<1>4. events' \in 0..MaxEvents /\ server' = server
  BY DEF process, Inv, TypeOK
<1>5. QED
  BY <1>2, <1>3, <1>4, OnlyCall

LEMMA ReadsKeep == ASSUME Inv, NEW c \in Calls, Reads(c) PROVE Inv'
<1>1. UNCHANGED <<repository, project, issue, supervisor, process>>
  BY DEF Reads, RefreshIfChanged, Look, Judge, PatchRead, DeleteRead, Bind
<1>2. CASE Ends(c)
  <2>1. calls[c].phase # "spawn"
    BY DEF Reads, RefreshIfChanged, Look, Judge, PatchRead, DeleteRead, Bind, At
  <2>2. QED
    BY <1>1, <1>2, <2>1, Ending
<1>3. CASE RefreshIfChanged(c) /\ ~Ends(c)
  <2>1. Exists /\ calls[c].phase = "check"
    BY <1>3 DEF RefreshIfChanged, At
  <2>2. Goes(c, "look") \/ (Goes(c, "bind") /\ calls[c].kind = "issue")
    BY <1>3, NoneIsNothing DEF RefreshIfChanged, AfterRefresh, GoesOrEnds, Phase
  <2>3. calls[c].kind # "shutdown"
    BY <2>1 DEF Inv, Fits
  <2>4. "look" \in Phase /\ "bind" \in Phase /\ calls[c].phase # None
    BY <2>1, NoneIsNothing DEF Phase
  <2>5. QED
    BY <1>1, <2>1, <2>2, <2>3, <2>4, GoingOn
<1>4. CASE DeleteRead(c) /\ ~Ends(c)
  <2>1. Exists /\ calls[c].phase = "delete" /\ Goes(c, "erase")
    BY <1>4 DEF DeleteRead, At, GoesOrEnds
  <2>2. calls[c].kind \notin {"shutdown", "refresh"}
    BY <2>1 DEF Inv, Fits
  <2>3. "erase" \in Phase /\ calls[c].phase # None
    BY <2>1, NoneIsNothing DEF Phase
  <2>4. QED
    BY <1>1, <2>1, <2>2, <2>3, GoingOn
<1>5. CASE Look(c) /\ ~Ends(c)
  <2> DEFINE r == [calls[c] EXCEPT !.phase = "judge", !.commit = head]
  <2>1. calls[c].phase = "look" /\ calls' = [calls EXCEPT ![c] = r]
    BY <1>5 DEF Look, At
  <2>2. r \in Call /\ r.kind = calls[c].kind /\ r.phase = "judge"
    BY CallFields DEF Inv, TypeOK, Call, Phase
  <2>3. QED
    BY <1>1, <2>1, <2>2, Remembering
<1>6. CASE Judge(c) /\ ~Ends(c)
  <2> DEFINE w == IF KeepsRow(c) THEN calls[c].row ELSE project
             g == Passes
             r == [calls[c] EXCEPT !.phase = "record", !.good = g, !.row = w]
  <2>1. calls[c].phase = "judge" /\ calls' = [calls EXCEPT ![c] = r]
    BY <1>6 DEF Judge, At
  <2>2. w \in Row /\ g \in BOOLEAN
    BY CallFields DEF Inv, TypeOK, Passes
  <2> HIDE DEF w, g
  <2>3. r \in Call /\ r.kind = calls[c].kind /\ r.phase = "record"
    BY <2>2, CallFields DEF Inv, Call, Phase
  <2>4. QED
    BY <1>1, <2>1, <2>3, Remembering
<1>7. CASE PatchRead(c) /\ ~Ends(c)
  <2> DEFINE r == [calls[c] EXCEPT !.phase = "patched", !.row = project]
  <2>1. calls[c].phase = "patch" /\ Exists /\ calls' = [calls EXCEPT ![c] = r]
    BY <1>7 DEF PatchRead, At
  <2>2. r \in Call /\ r.kind = calls[c].kind /\ r.phase = "patched" /\ r.row = project
    BY CallFields DEF Inv, TypeOK, Call, Phase
  <2>3. QED
    BY <1>1, <2>1, <2>2, Remembering
<1>8. CASE Bind(c) /\ ~Ends(c)
  <2> DEFINE r == [calls[c] EXCEPT !.phase = "insert", !.commit = project.snapshot]
  <2>1. calls[c].phase = "bind" /\ project.snapshot # None /\ calls' = [calls EXCEPT ![c] = r]
    BY <1>8 DEF Bind, At
  <2>2. r \in Call /\ r.kind = calls[c].kind /\ r.phase = "insert"
    BY <2>1, CallFields DEF Inv, TypeOK, Call, Phase, Row
  <2>3. QED
    BY <1>1, <2>1, <2>2, Remembering
<1>9. QED
  BY <1>2, <1>3, <1>4, <1>5, <1>6, <1>7, <1>8 DEF Reads

-----------------------------------------------------------------------------
(* Writes to the Project and its Issues *)

LEMMA SavedRow ==
    ASSUME Inv, NEW c \in Calls, NEW new \in Row, Exists,
           new.status \notin {"absent", "deleted"}
    PROVE  Saved(c, new) \in Row /\ Saved(c, new).status \notin {"absent", "deleted"}
<1> DEFINE s == Column(project.status, calls[c].row.status, new.status)
           e == Column(project.enabled, calls[c].row.enabled, new.enabled)
           n == Column(project.snapshot, calls[c].row.snapshot, new.snapshot)
<1>1. s \in {"invalid", "available", "disabled"}
  BY DEF Column, Row, Exists, Inv, TypeOK
<1>2. e \in BOOLEAN /\ n \in Commit \cup {None}
  BY DEF Column, Row, Inv, TypeOK
<1>3. Saved(c, new) = [status |-> s, enabled |-> e, snapshot |-> n]
  BY DEF Saved
<1> HIDE DEF s, e, n
<1>4. QED
  BY <1>1, <1>2, <1>3 DEF Row

\* A Project that exists is written, and stays.
LEMMA ProjectWritten ==
    ASSUME Inv, NEW c \in Calls, NEW r \in Call,
           Exists, project' \in Row, project'.status \notin {"absent", "deleted"},
           calls' \in [Calls -> Call], calls'[c] = r,
           \A d \in Calls : d # c => /\ calls'[d].kind = calls[d].kind
                                     /\ calls'[d].phase = calls[d].phase
                                     /\ calls'[d].row = calls[d].row
                                     /\ calls'[d].runtime = calls[d].runtime
                                     /\ calls[d] = NoCall => calls'[d] = NoCall,
           calls[c].phase # "spawn", Fits(r),
           r.phase \notin {"spawn", "patched", "take", "forget", "stopping", "down"},
           UNCHANGED <<repository, issue, supervisor, process>>
    PROVE  Inv'
<1>1. TypeOK'
  BY DEF Inv, TypeOK, repository, supervisor, process
<1>2. Locks'
  BY DEF Inv, Locks, supervisor
<1>3. Unused' /\ OneRunner' /\ IssueKeepsProject'
  BY DEF Inv, Unused, OneRunner, IssueKeepsProject, Exists, Alive, supervisor, process
<1>4. ASSUME NEW d \in Calls PROVE (Fits(calls[d]) /\ Relies(calls[d]))'
  <2>1. Fits(calls[d]) /\ Relies(calls[d])
    BY DEF Inv
  <2>2. CASE d = c
    BY <2>2 DEF Fits, Relies, Exists, process
  <2>3. CASE d # c
    <3>1. Fits(calls[d])'
      BY <2>1, <2>3 DEF Fits, Exists, process
    <3>2. Relies(calls[d])'
      BY <2>1, <2>3 DEF Relies, Exists, supervisor
    <3>3. QED
      BY <3>1, <3>2
  <2>4. QED
    BY <2>2, <2>3
<1>5. QED
  BY <1>1, <1>2, <1>3, <1>4 DEF Inv

LEMMA OutcomeRow ==
    ASSUME NEW call \in Call
    PROVE  Outcome(call) \in Row /\ Outcome(call).status \notin {"absent", "deleted"}
<1> DEFINE s == IF ~call.row.enabled THEN "disabled"
                ELSE IF call.good THEN "available" ELSE "invalid"
           e == call.row.enabled
           n == IF call.good THEN call.commit ELSE call.row.snapshot
<1>1. s \in {"invalid", "available", "disabled"}
  OBVIOUS
<1>2. e \in BOOLEAN /\ n \in Commit \cup {None}
  BY DEF Call, Row
<1>3. Outcome(call) = [status |-> s, enabled |-> e, snapshot |-> n]
  BY DEF Outcome
<1> HIDE DEF s, e, n
<1>4. QED
  BY <1>1, <1>2, <1>3 DEF Row

LEMMA AfterValidationPhase ==
    ASSUME Inv, NEW c \in Calls, NEW row
    PROVE  /\ AfterValidation(c, row) \in {None, "bind", "lock"}
           /\ calls[c].kind \in {"refresh", "shutdown"} => AfterValidation(c, row) = None
BY DEF AfterValidation

LEMMA RecordKeeps == ASSUME Inv, NEW c \in Calls, Record(c) PROVE Inv'
<1> DEFINE new == Outcome(calls[c])
           p == AfterValidation(c, new)
           r == [calls[c] EXCEPT !.phase = p, !.row = NoRow, !.commit = 0, !.good = FALSE]
<1>1. new \in Row /\ new.status \notin {"absent", "deleted"}
  BY OutcomeRow, CallFields DEF Inv
<1>2. /\ p \in {None, "bind", "lock"}
      /\ calls[c].kind \in {"refresh", "shutdown"} => p = None
  BY AfterValidationPhase
<1>3. /\ calls[c].phase = "record"
      /\ UNCHANGED <<repository, issue, supervisor, process>>
      /\ ~Exists => Ends(c) /\ UNCHANGED project
      /\ Exists => project' = Saved(c, new)
      /\ Exists => \/ p = None /\ Ends(c)
                   \/ p # None /\ calls' = [calls EXCEPT ![c] = r]
  BY DEF Record, At
<1>4. r \in Call /\ r.kind = calls[c].kind /\ r.phase = p
  <2>1. NoRow \in Row /\ 0 \in Commit
    BY NoCallIsCall DEF NoCall, Call
  <2>2. p \in Phase \cup {None}
    BY <1>2 DEF Phase
  <2> HIDE DEF p
  <2>3. QED
    BY <2>1, <2>2, CallFields DEF Call, Inv
<1> HIDE DEF new, p, r
<1>5. CASE ~Exists
  BY <1>3, <1>5, Ending
<1>6. CASE Exists
  <2>1. project' \in Row /\ project'.status \notin {"absent", "deleted"}
    BY <1>1, <1>3, <1>6, SavedRow
  <2>2. PICK q \in Call : /\ calls' = [calls EXCEPT ![c] = q]
                          /\ q = NoCall \/ (q = r /\ p # None)
    BY <1>3, <1>4, <1>6, EndsCall DEF Inv
  <2>3. Fits(calls[c])
    BY DEF Inv
  <2>4. Fits(q) /\ q.phase \in {None, "bind", "lock"}
    <3>1. CASE q = NoCall
      BY <3>1, NoCallFits DEF NoCall
    <3>2. CASE q = r /\ p # None
      BY <3>2, <2>3, <1>2, <1>3, <1>4, <1>6, NoneIsNothing DEF Fits, Exists, NoCall, Phase
    <3>3. QED
      BY <2>2, <3>1, <3>2
  <2>5. /\ calls[c].phase # "spawn"
        /\ q.phase \notin {"spawn", "patched", "take", "forget", "stopping", "down"}
    BY <1>3, <2>4, NoneIsNothing DEF Phase
  <2>6. /\ calls' \in [Calls -> Call] /\ calls'[c] = q
        /\ \A d \in Calls : d # c => calls'[d] = calls[d]
    BY <2>2, OneCall DEF Inv
  <2>7. QED
    BY <1>3, <1>6, <2>1, <2>4, <2>5, <2>6, ProjectWritten
<1>7. QED
  BY <1>5, <1>6

LEMMA PatchWriteKeeps == ASSUME Inv, NEW c \in Calls, PatchWrite(c) PROVE Inv'
<1> DEFINE new == Patched(calls[c])
           u == calls[c].kind # "enable"
           known == [d \in Calls |-> [calls[d] EXCEPT !.quiet = @ /\ u]]
           q == IF new.enabled THEN [known[c] EXCEPT !.phase = "look", !.row = new] ELSE NoCall
<1>1. /\ calls[c].phase = "patched"
      /\ UNCHANGED <<repository, issue, supervisor, process>>
      /\ ~Exists => Ends(c) /\ UNCHANGED project
      /\ Exists => project' = Saved(c, new) /\ calls' = [known EXCEPT ![c] = q]
  BY DEF PatchWrite, At
<1>2. new \in Row /\ new.status \notin {"absent", "deleted"}
  <2> DEFINE row == calls[c].row
             e == calls[c].kind = "enable" \/ (calls[c].row.enabled /\ calls[c].kind = "move")
             s == IF e THEN row.status ELSE "disabled"
  <2>1. row \in Row /\ row.status \notin {"absent", "deleted"}
    BY <1>1, CallFields DEF Inv, Relies
  <2>2. e \in BOOLEAN
    BY <2>1 DEF Row
  <2>3. s \in {"invalid", "available", "disabled"}
    BY <2>1 DEF Row
  <2>4. new = [row EXCEPT !.enabled = e, !.status = s]
    BY DEF Patched
  <2> HIDE DEF row, e, s, new
  <2>5. QED
    BY <2>1, <2>2, <2>3, <2>4 DEF Row
<1>3. ASSUME NEW d \in Calls
      PROVE  /\ known[d] \in Call
             /\ known[d].kind = calls[d].kind /\ known[d].phase = calls[d].phase
             /\ known[d].row = calls[d].row /\ known[d].runtime = calls[d].runtime
             /\ calls[d] = NoCall => known[d] = NoCall
  <2> DEFINE b == calls[d].quiet /\ u
  <2>1. b \in BOOLEAN
    OBVIOUS
  <2>2. calls[d] = NoCall => calls[d].quiet = FALSE /\ b = FALSE
    BY DEF NoCall
  <2>3. known[d] = [calls[d] EXCEPT !.quiet = b]
    OBVIOUS
  <2> HIDE DEF known, b
  <2>4. known[d] \in Call
    BY <2>1, <2>3, CallFields DEF Inv, Call
  <2>5. /\ known[d].kind = calls[d].kind /\ known[d].phase = calls[d].phase
        /\ known[d].row = calls[d].row /\ known[d].runtime = calls[d].runtime
    BY <2>3, CallFields DEF Inv, Call
  <2>6. calls[d] = NoCall => known[d] = NoCall
    BY <2>2, <2>3 DEF NoCall
  <2>7. QED
    BY <2>4, <2>5, <2>6
<1>4. known \in [Calls -> Call] /\ new \in Row /\ new.enabled \in BOOLEAN
  BY <1>2, <1>3 DEF Row
<1> DEFINE l == [known[c] EXCEPT !.phase = "look", !.row = new]
<1>5. q = IF new.enabled THEN l ELSE NoCall
  OBVIOUS
<1> HIDE DEF known, new, q
<1>6. l \in Call /\ l.kind = calls[c].kind /\ l.phase = "look"
  BY <1>2, <1>3, CallFields DEF Inv, Call, Phase
<1> HIDE DEF l
<1>7. calls[c].phase # "spawn"
  BY <1>1
<1>8. CASE ~Exists
  BY <1>1, <1>7, <1>8, Ending
<1>9. CASE Exists
  <2>1. project' \in Row /\ project'.status \notin {"absent", "deleted"}
    BY <1>1, <1>2, <1>9, SavedRow
  <2>2. q \in Call /\ q.phase \in {None, "look"} /\ Fits(q)
    <3>1. CASE q = NoCall
      BY <3>1, NoCallIsCall, NoCallFits DEF NoCall
    <3>2. CASE q = l
      <4>1. Fits(calls[c]) /\ calls[c].kind # None
        BY <1>1, NoneIsNothing DEF Inv, Fits, NoCall, Phase
      <4>2. Fits(l)
        BY <1>1, <1>6, <1>9, <4>1 DEF Fits, Exists
      <4>3. QED
        BY <1>6, <3>2, <4>2
    <3>3. QED
      BY <1>5, <3>1, <3>2
  <2>3. q.phase \notin {"spawn", "patched", "take", "forget", "stopping", "down"}
    BY <2>2, NoneIsNothing DEF Phase
  <2>4. /\ calls' \in [Calls -> Call] /\ calls'[c] = q
        /\ \A d \in Calls : d # c => calls'[d] = known[d]
    BY <1>1, <1>4, <1>9, <2>2
  <2>5. \A d \in Calls : d # c => /\ calls'[d].kind = calls[d].kind
                                  /\ calls'[d].phase = calls[d].phase
                                  /\ calls'[d].row = calls[d].row
                                  /\ calls'[d].runtime = calls[d].runtime
                                  /\ calls[d] = NoCall => calls'[d] = NoCall
    BY <1>3, <2>4
  <2>6. QED
    BY <1>1, <1>7, <1>9, <2>1, <2>2, <2>3, <2>4, <2>5, ProjectWritten
<1>10. QED
  BY <1>8, <1>9

LEMMA CreateKeeps == ASSUME Inv, NEW c \in Calls, Create(c) PROVE Inv'
<1> DEFINE r == [NoCall EXCEPT !.kind = "create", !.phase = "look", !.row = NewRow]
<1>1. /\ project.status = "absent" /\ project' = NewRow
      /\ server = "up" /\ calls[c] = NoCall
      /\ calls' = [calls EXCEPT ![c] = r]
      /\ UNCHANGED <<repository, issue, supervisor, server>>
      /\ events' \in 0..MaxEvents
  BY Events DEF Create, Accepts, Inv
<1>2. NewRow \in Row /\ NewRow.status = "invalid"
  BY DEF NewRow, Row
<1>3. r \in Call /\ r.kind = "create" /\ r.phase = "look"
  BY <1>2, NoCallIsCall DEF Call, Kind, Phase, NoCall
<1> HIDE DEF r
<1>4. /\ calls' \in [Calls -> Call] /\ calls'[c] = r
      /\ \A d \in Calls : d # c => calls'[d] = calls[d]
  BY <1>1, <1>3, OneCall DEF Inv
<1>5. TypeOK'
  BY <1>1, <1>2, <1>4 DEF Inv, TypeOK, repository, supervisor
<1>6. starts = 0 /\ issue = None
  BY <1>1 DEF Inv, Unused, IssueKeepsProject, Exists
<1>7. calls[c].phase # "spawn"
  BY <1>1, NoneIsNothing DEF NoCall, Phase
<1>8. Locks'
  BY <1>1, <1>3, <1>4, <1>7 DEF Inv, Locks, supervisor
<1>9. \A i \in Runtime : i > starts
  BY <1>6 DEF Runtime
<1>10. Unused' /\ OneRunner' /\ IssueKeepsProject'
  BY <1>1, <1>2, <1>6, <1>9 DEF Inv, Unused, OneRunner, IssueKeepsProject, Alive, supervisor
<1>11. ASSUME NEW d \in Calls PROVE (Fits(calls[d]) /\ Relies(calls[d]))'
  <2>1. CASE d = c
    BY <1>1, <1>2, <1>3, <1>4, <2>1, NoneIsNothing DEF Fits, Relies, Kind
  <2>2. CASE d # c
    <3>1. Fits(calls[d]) /\ Relies(calls[d])
      BY DEF Inv
    <3>2. Fits(calls[d])'
      BY <1>1, <1>2, <1>4, <2>2, <3>1 DEF Fits
    <3>3. calls[d].phase \in {None, "stop", "down"} /\ calls'[d] = calls[d]
      BY <1>1, <1>4, <2>2, <3>1 DEF Fits
    <3>4. calls'[d].phase \notin {"patched", "take", "forget", "spawn", "stopping"}
      BY <3>3, NoneIsNothing DEF Phase
    <3>5. Relies(calls[d])'
      BY <1>1, <1>6, <1>9, <3>4 DEF Relies, Inv, Unused, supervisor
    <3>6. QED
      BY <3>2, <3>5
  <2>3. QED
    BY <2>1, <2>2
<1>12. QED
  BY <1>5, <1>8, <1>10, <1>11 DEF Inv

LEMMA DeleteRowKeeps == ASSUME Inv, NEW c \in Calls, DeleteRow(c) PROVE Inv'
<1>1. calls[c].phase = "erase" /\ UNCHANGED <<repository, issue, supervisor, process>>
  BY DEF DeleteRow, At
<1>2. CASE ~(Exists /\ issue = None)
  BY <1>1, <1>2, Ending DEF DeleteRow
<1>3. CASE Exists /\ issue = None
  <2>1. project' = [NoRow EXCEPT !.status = "deleted"] /\ Goes(c, "forget")
    BY <1>3 DEF DeleteRow
  <2>2. project' \in Row /\ project'.status = "deleted"
    BY <2>1, NoCallIsCall DEF Row, NoRow, NoCall, Call
  <2>3. PICK r \in Call : 
         /\ calls' = [calls EXCEPT ![c] = r]
         /\ r.kind = calls[c].kind /\ r.phase = "forget"
    BY <2>1, GoesCall DEF Inv, Phase
  <2>4. /\ calls' \in [Calls -> Call] /\ calls'[c] = r
        /\ \A d \in Calls : d # c => calls'[d] = calls[d]
    BY <2>3, OneCall DEF Inv
  <2>5. TypeOK'
    BY <1>1, <2>2, <2>4 DEF Inv, TypeOK, repository, supervisor, process
  <2>6. Locks'
    BY <1>1, <2>3, <2>4 DEF Inv, Locks, supervisor
  <2>7. Unused' /\ OneRunner' /\ IssueKeepsProject'
    BY <1>1, <1>3, <2>2 DEF Inv, Unused, OneRunner, IssueKeepsProject, Exists, supervisor
  <2>8. ASSUME NEW d \in Calls PROVE (Fits(calls[d]) /\ Relies(calls[d]))'
    <3>1. Fits(calls[d]) /\ Relies(calls[d])
      BY DEF Inv
    <3>2. CASE d = c
      <4>1. Fits(calls[d])'
        BY <1>1, <2>2, <2>3, <2>4, <3>1, <3>2, NoneIsNothing DEF Fits, process, NoCall, Phase
      <4>2. QED
        BY <2>2, <2>3, <2>4, <3>2, <4>1 DEF Relies
    <3>3. CASE d # c
      BY <1>1, <2>2, <2>4, <3>1, <3>3 DEF Fits, Relies, Exists, supervisor, process
    <3>4. QED
      BY <3>2, <3>3
  <2>9. QED
    BY <2>5, <2>6, <2>7, <2>8 DEF Inv
<1>4. QED
  BY <1>2, <1>3

\* The Issue is created or claimed by a call that ends with that.
LEMMA IssueWritten ==
    ASSUME Inv, NEW c \in Calls, Ends(c), calls[c].phase # "spawn",
           issue' \in Issue, Exists,
           UNCHANGED <<repository, project, supervisor, process>>
    PROVE  Inv'
<1>1. issue' # None
  BY NoneIsNothing
<1>2. /\ calls' \in [Calls -> Call] /\ calls'[c] = NoCall
      /\ \A d \in Calls : d # c => calls'[d] = calls[d]
  BY NoCallIsCall, OneCall DEF Inv, Ends
<1>3. TypeOK'
  BY <1>2 DEF Inv, TypeOK, repository, supervisor, process
<1>4. Locks'
  BY <1>2, NoneIsNothing DEF Inv, Locks, supervisor, NoCall, Phase
<1>5. Unused' /\ OneRunner' /\ IssueKeepsProject'
  BY DEF Inv, Unused, OneRunner, IssueKeepsProject, Exists, Alive, supervisor, process
<1>6. ASSUME NEW d \in Calls PROVE (Fits(calls[d]) /\ Relies(calls[d]))'
  <2>1. Fits(calls'[d]) /\ Relies(calls'[d])
    BY <1>2, NoCallFits DEF Inv
  <2>2. QED
    BY <1>1, <2>1 DEF Fits, Relies, Exists, supervisor, process
<1>7. QED
  BY <1>3, <1>4, <1>5, <1>6 DEF Inv

LEMMA InsertKeeps == ASSUME Inv, NEW c \in Calls, Insert(c) PROVE Inv'
<1>1. /\ calls[c].phase = "insert" /\ Ends(c)
      /\ UNCHANGED <<repository, project, supervisor, process>>
  BY DEF Insert, At
<1>2. CASE ~(Exists /\ issue = None)
  BY <1>1, <1>2, Ending DEF Insert
<1>3. CASE Exists /\ issue = None
  <2>1. issue' = [commit |-> calls[c].commit, claimed |-> FALSE]
    BY <1>3 DEF Insert
  <2>2. issue' \in Issue
    BY <2>1, CallFields DEF Inv, Issue
  <2>3. QED
    BY <1>1, <1>3, <2>2, IssueWritten
<1>4. QED
  BY <1>2, <1>3

LEMMA TakeKeeps == ASSUME Inv, NEW c \in Calls, Take(c) PROVE Inv'
<1>1. /\ calls[c].phase = "take" /\ Ends(c) /\ issue' = [issue EXCEPT !.claimed = TRUE]
      /\ UNCHANGED <<repository, project, supervisor, process>>
  BY DEF Take, At
<1>2. issue # None /\ Exists
  BY <1>1 DEF Inv, Relies, IssueKeepsProject
<1>3. issue' \in Issue
  BY <1>1, <1>2 DEF Inv, TypeOK, Issue
<1>4. QED
  BY <1>1, <1>2, <1>3, IssueWritten

-----------------------------------------------------------------------------
(* The Supervisor and its processes *)

\* A step in which no process begins, whatever it makes of the ones there are.
LEMMA NothingBegins ==
    ASSUME Inv, runtimes' \in [Runtime -> ProjectRuntime],
           \A i \in Runtime :
             /\ runtimes'[i].ours => runtimes[i].ours
             /\ runtimes'[i].process = "live" => runtimes[i].process = "live"
             /\ runtimes[i].process = None => runtimes'[i].process = None,
           calls' \in [Calls -> Call],
           \A d \in Calls :
             \/ calls'[d] = calls[d]
             \/ /\ calls[d].phase # "spawn" /\ calls'[d].phase # "spawn"
                /\ Fits(calls'[d]) /\ Relies(calls'[d]),
           UNCHANGED <<repository, project, issue, starts, registered, lock, process>>
    PROVE  Inv'
<1>1. TypeOK'
  BY DEF Inv, TypeOK, repository, process
<1>2. Locks'
  BY DEF Inv, Locks
<1>3. Unused'
  BY DEF Inv, Unused
<1>4. OneRunner'
  BY DEF Inv, OneRunner, Exists, Alive, process
<1>5. IssueKeepsProject'
  BY DEF Inv, IssueKeepsProject, Exists
<1>6. ASSUME NEW d \in Calls PROVE (Fits(calls[d]) /\ Relies(calls[d]))'
  <2>1. Fits(calls'[d]) /\ Relies(calls'[d])
    BY DEF Inv
  <2>2. Fits(calls[d])'
    BY <2>1 DEF Fits, process
  <2>3. starts \in 0..MaxStarts
    BY DEF Inv, TypeOK
  <2>4. \A i \in 1..starts : i \in Runtime
    BY <2>3, ProjectsConstants DEF Runtime
  <2>5. Relies(calls[d])'
    BY <2>1, <2>4 DEF Relies, Exists
  <2>6. QED
    BY <2>2, <2>5
<1>7. QED
  BY <1>1, <1>2, <1>3, <1>4, <1>5, <1>6 DEF Inv

\* One runtime changes, without a new process.
LEMMA OneRuntime ==
    ASSUME Inv, NEW i \in Runtime, NEW r \in ProjectRuntime,
           runtimes' = [runtimes EXCEPT ![i] = r],
           r.ours = runtimes[i].ours,
           r.process = runtimes[i].process
             \/ (r.process = "dead" /\ runtimes[i].process = "live")
    PROVE  /\ runtimes' \in [Runtime -> ProjectRuntime]
           /\ \A j \in Runtime :
                /\ runtimes'[j].ours => runtimes[j].ours
                /\ runtimes'[j].process = "live" => runtimes[j].process = "live"
                /\ runtimes[j].process = None => runtimes'[j].process = None
<1>1. runtimes \in [Runtime -> ProjectRuntime]
  BY DEF Inv, TypeOK
<1>2. QED
  BY <1>1, NoneIsNothing

LEMMA ProcessesKeep ==
    ASSUME Inv, \/ \E i \in Runtime : RunnerEnds(i) \/ WaitForExit(i)
                \/ \E c \in Calls : Terminate(c)
    PROVE  Inv'
<1>1. runtimes \in [Runtime -> ProjectRuntime] /\ calls \in [Calls -> Call]
  BY DEF Inv, TypeOK
<1>2. ASSUME NEW i \in Runtime, RunnerEnds(i) \/ WaitForExit(i) PROVE Inv'
  <2>1. PICK r \in ProjectRuntime :
          /\ runtimes' = [runtimes EXCEPT ![i] = r]
          /\ r.ours = runtimes[i].ours
          /\ r.process = runtimes[i].process
               \/ (r.process = "dead" /\ runtimes[i].process = "live")
    <3>1. CASE RunnerEnds(i)
      <4> DEFINE r == [runtimes[i] EXCEPT !.process = "dead"]
      <4>1. runtimes' = [runtimes EXCEPT ![i] = r] /\ runtimes[i].process = "live"
        BY <3>1 DEF RunnerEnds
      <4>2. r \in ProjectRuntime /\ r.ours = runtimes[i].ours /\ r.process = "dead"
        BY <1>1 DEF ProjectRuntime
      <4>3. QED
        BY <4>1, <4>2
    <3>2. CASE WaitForExit(i)
      <4> DEFINE r == [runtimes[i] EXCEPT !.state = "stopped"]
      <4>1. runtimes' = [runtimes EXCEPT ![i] = r]
        BY <3>2 DEF WaitForExit
      <4>2. /\ r \in ProjectRuntime /\ r.ours = runtimes[i].ours
            /\ r.process = runtimes[i].process
        BY <1>1 DEF ProjectRuntime
      <4>3. QED
        BY <4>1, <4>2
    <3>3. QED
      BY <1>2, <3>1, <3>2
  <2>2. UNCHANGED <<repository, project, issue, calls, starts, registered, lock, process>>
    BY <1>2 DEF RunnerEnds, WaitForExit
  <2>3. QED
    BY <1>1, <2>1, <2>2, OneRuntime, NothingBegins
<1>3. ASSUME NEW c \in Calls, Terminate(c) PROVE Inv'
  <2> DEFINE i == calls[c].runtime
             r == [runtimes[i] EXCEPT !.process = "dead"]
  <2>1. i \in 1..starts /\ starts \in 0..MaxStarts
    BY <1>3 DEF Inv, Relies, Terminate, At, TypeOK
  <2>2. i \in Runtime
    BY <2>1, ProjectsConstants DEF Runtime
  <2>3. runtimes' = [runtimes EXCEPT ![i] = r] /\ runtimes[i].process = "live"
    BY <1>3 DEF Terminate
  <2>4. r \in ProjectRuntime /\ r.ours = runtimes[i].ours /\ r.process = "dead"
    BY <1>1, <2>2 DEF ProjectRuntime
  <2>5. UNCHANGED <<repository, project, issue, calls, starts, registered, lock, process>>
    BY <1>3 DEF Terminate
  <2>6. QED
    BY <1>1, <2>2, <2>3, <2>4, <2>5, OneRuntime, NothingBegins
<1>4. QED
  BY <1>2, <1>3

LEMMA AfterStopPhase ==
    ASSUME NEW c \in Calls
    PROVE  /\ AfterStop(c) \in {None, "patch", "delete", "down"}
           /\ AfterStop(c) = "patch" => calls[c].kind \in {"disable", "move"}
           /\ AfterStop(c) = "delete" => calls[c].kind = "delete"
           /\ calls[c].kind = "shutdown" <=> AfterStop(c) = "down"
BY NoneIsNothing DEF AfterStop, Phase

\* What becomes of a call when its Runner is stopped.
LEMMA StopIsOver ==
    ASSUME Inv, NEW c \in Calls, NEW r \in Call, calls[c].phase \in {"stop", "stopping"},
           \/ r = NoCall /\ AfterStop(c) = None
           \/ /\ r.kind = calls[c].kind /\ r.phase = AfterStop(c)
              /\ AfterStop(c) # None,
           Exists /\ calls[c].kind = "shutdown" => ~Alive(registered)
    PROVE  /\ r.phase # "spawn" /\ Fits(r) /\ Relies(r)
<1>1. CASE r = NoCall
  BY <1>1, NoCallFits, NoneIsNothing DEF NoCall, Phase
<1>2. CASE r.kind = calls[c].kind /\ r.phase = AfterStop(c) /\ AfterStop(c) # None
  <2>1. r.phase \in {"patch", "delete", "down"} /\ (r.kind = "shutdown" <=> r.phase = "down")
    BY <1>2, AfterStopPhase
  <2>2. Fits(calls[c]) /\ calls[c].kind # None
    BY NoneIsNothing DEF Inv, Fits, NoCall, Phase
  <2>3. r.phase # "down" => r.kind \in {"disable", "move", "delete"}
    BY <1>2, <2>1, AfterStopPhase
  <2>4. Fits(r)
    BY <1>2, <2>1, <2>2, <2>3, NoneIsNothing DEF Fits, Kind
  <2>5. Relies(r)
    <3>1. Exists /\ r.phase = "down" =>
            \A i \in Runtime : ~(runtimes[i].ours /\ runtimes[i].process = "live")
      <4>1. Exists /\ r.phase = "down" => ~Alive(registered)
        BY <1>2, <2>1
      <4>2. \A i \in Runtime : i # 0
        BY DEF Runtime
      <4>3. QED
        BY <4>1, <4>2 DEF Inv, OneRunner, Alive
    <3>2. QED
      BY <2>1, <3>1 DEF Relies
  <2>6. QED
    BY <2>1, <2>4, <2>5
<1>3. QED
  BY <1>1, <1>2

LEMMA StopProjectKeeps == ASSUME Inv, NEW c \in Calls, StopProject(c) PROVE Inv'
<1>1. /\ calls[c].phase = "stop"
      /\ UNCHANGED <<repository, project, issue, starts, registered, lock, process>>
      /\ runtimes \in [Runtime -> ProjectRuntime] /\ registered \in 0..starts
      /\ starts \in 0..MaxStarts
  BY DEF StopProject, At, Inv, TypeOK
<1>2. CASE Alive(registered)
  <2> DEFINE r == [calls[c] EXCEPT !.phase = "stopping", !.runtime = registered]
             t == [runtimes[registered] EXCEPT !.state = "stopping"]
  <2>1. calls' = [calls EXCEPT ![c] = r] /\ runtimes' = [runtimes EXCEPT ![registered] = t]
    BY <1>2 DEF StopProject
  <2>2. registered \in 1..starts /\ registered \in Runtime /\ registered \in 0..MaxStarts
    BY <1>1, <1>2, ProjectsConstants DEF Alive, Runtime
  <2>3. r \in Call /\ r.kind = calls[c].kind /\ r.phase = "stopping" /\ r.runtime = registered
    BY <2>2, CallFields DEF Inv, Call, Phase
  <2>4. /\ t \in ProjectRuntime /\ t.ours = runtimes[registered].ours
        /\ t.process = runtimes[registered].process
    BY <1>1, <2>2 DEF ProjectRuntime
  <2> HIDE DEF r, t
  <2>5. project.status # "absent"
    BY <2>2 DEF Inv, Unused
  <2>6. Fits(calls[c]) /\ calls[c].kind # None
    BY <1>1, NoneIsNothing DEF Inv, Fits, NoCall, Phase
  <2>7. Fits(r)
    BY <1>1, <2>3, <2>5, <2>6 DEF Fits
  <2>8. Relies(r)
    BY <2>2, <2>3 DEF Relies
  <2>9. /\ calls' \in [Calls -> Call] /\ calls'[c] = r
        /\ \A d \in Calls : d # c => calls'[d] = calls[d]
    BY <2>1, <2>3, OneCall DEF Inv
  <2>10. /\ runtimes' \in [Runtime -> ProjectRuntime]
         /\ \A j \in Runtime :
              /\ runtimes'[j].ours => runtimes[j].ours
              /\ runtimes'[j].process = "live" => runtimes[j].process = "live"
              /\ runtimes[j].process = None => runtimes'[j].process = None
    BY <2>1, <2>2, <2>4, OneRuntime
  <2>11. calls[c].phase # "spawn" /\ r.phase # "spawn"
    BY <1>1, <2>3
  <2>12. QED
    BY <1>1, <2>7, <2>8, <2>9, <2>10, <2>11, NothingBegins
<1>3. CASE ~Alive(registered)
  <2>1. PICK r \in Call :
          /\ calls' = [calls EXCEPT ![c] = r]
          /\ \/ r = NoCall /\ AfterStop(c) = None
             \/ /\ r.kind = calls[c].kind /\ r.phase = AfterStop(c)
                /\ AfterStop(c) # None
    <3>1. CASE AfterStop(c) = None
      BY <1>3, <3>1, EndsCall DEF StopProject, GoesOrEnds, Inv
    <3>2. CASE AfterStop(c) # None
      <4>1. AfterStop(c) \in Phase
        BY <3>2, AfterStopPhase DEF Phase
      <4>2. Goes(c, AfterStop(c))
        BY <1>3, <3>2 DEF StopProject, GoesOrEnds
      <4>3. QED
        BY <3>2, <4>1, <4>2, GoesCall DEF Inv
    <3>3. QED
      BY <3>1, <3>2
  <2>2. r.phase # "spawn" /\ Fits(r) /\ Relies(r)
    BY <1>1, <1>3, <2>1, StopIsOver
  <2>3. /\ calls' \in [Calls -> Call] /\ calls'[c] = r
        /\ \A d \in Calls : d # c => calls'[d] = calls[d]
    BY <2>1, OneCall DEF Inv
  <2>4. runtimes' = [i \in Runtime |-> IF i = registered
                              THEN [runtimes[i] EXCEPT !.state = "stopped"]
                              ELSE runtimes[i]]
    BY <1>3 DEF StopProject
  <2>5. ASSUME NEW i \in Runtime
        PROVE  /\ runtimes'[i] \in ProjectRuntime
               /\ runtimes'[i].ours = runtimes[i].ours
               /\ runtimes'[i].process = runtimes[i].process
    BY <1>1, <2>4 DEF ProjectRuntime
  <2>6. runtimes' \in [Runtime -> ProjectRuntime]
    BY <2>4, <2>5
  <2>7. calls[c].phase # "spawn"
    BY <1>1
  <2>8. QED
    BY <1>1, <2>2, <2>3, <2>5, <2>6, <2>7, NothingBegins
<1>4. QED
  BY <1>2, <1>3

LEMMA StoppedKeeps == ASSUME Inv, NEW c \in Calls, Stopped(c) PROVE Inv'
<1> DEFINE i == calls[c].runtime
<1>1. /\ calls[c].phase = "stopping" /\ runtimes[i].process = "dead"
      /\ UNCHANGED <<repository, project, issue, supervisor, process>>
  BY DEF Stopped, At
<1>2. PICK r \in Call :
        /\ calls' = [calls EXCEPT ![c] = r]
        /\ \/ r = NoCall /\ AfterStop(c) = None
           \/ /\ r.kind = calls[c].kind /\ r.phase = AfterStop(c)
              /\ AfterStop(c) # None
  <2>1. CASE AfterStop(c) = None
    BY <2>1, EndsCall DEF Stopped, Inv
  <2>2. CASE AfterStop(c) # None
    <3> DEFINE p == AfterStop(c)
               r == [calls[c] EXCEPT !.phase = p, !.runtime = 0]
    <3>1. calls' = [calls EXCEPT ![c] = r]
      BY <2>2 DEF Stopped
    <3>2. p \in Phase /\ 0 \in 0..MaxStarts
      BY <2>2, AfterStopPhase, ProjectsConstants DEF Phase
    <3> HIDE DEF p
    <3>3. r \in Call /\ r.kind = calls[c].kind /\ r.phase = p
      BY <3>2, CallFields DEF Inv, Call
    <3>4. QED
      BY <2>2, <3>1, <3>3 DEF p
  <2>3. QED
    BY <2>1, <2>2
<1>3. Exists /\ calls[c].kind = "shutdown" => ~Alive(registered)
  BY <1>1 DEF Inv, Relies, Alive
<1>4. r.phase # "spawn" /\ Fits(r) /\ Relies(r)
  BY <1>1, <1>2, <1>3, StopIsOver
<1>5. events' \in 0..MaxEvents /\ server' = server
  BY <1>1 DEF process, Inv, TypeOK
<1>6. QED
  BY <1>1, <1>2, <1>4, <1>5, OnlyCall

\* The control plane is up when its first Runner has been started, or could not be.
LEMMA StartedServer ==
    ASSUME Inv, NEW c \in Calls, Started(c), calls[c].kind # None
    PROVE  /\ server # "down" /\ server' \in {"up", "booting", "closing"}
           /\ server' = server \/ (server # "closing" /\ server' = "up")
           /\ \E r \in Call : calls' = [calls EXCEPT ![c] = r] /\ r = NoCall
<1>1. Fits(calls[c])
  BY DEF Inv
<1>2. server # "down" /\ (calls[c].kind = "boot" => server # "closing")
  BY <1>1, NoneIsNothing DEF Fits, Kind
<1>3. QED
  BY <1>2, EndsCall DEF Started, Inv, TypeOK

\* A start is refused, for there is a Runner.
LEMMA StartRefused ==
    ASSUME Inv, NEW c \in Calls, StartProject(c), Alive(registered)
    PROVE  Inv'
<1>1. /\ calls[c].phase = "lock" /\ lock = None /\ Started(c)
      /\ UNCHANGED <<repository, project, issue, supervisor, events>>
  BY DEF StartProject, At
<1>2. calls[c].kind # None /\ calls[c].phase # "spawn"
  BY <1>1, NoneIsNothing DEF Inv, Fits, NoCall, Phase
<1>3. /\ server # "down" /\ server' \in {"up", "booting", "closing"}
      /\ server' = server \/ (server # "closing" /\ server' = "up")
      /\ \E r \in Call : calls' = [calls EXCEPT ![c] = r] /\ r = NoCall
  BY <1>1, <1>2, StartedServer
<1>4. /\ calls' \in [Calls -> Call] /\ calls'[c] = NoCall
      /\ \A d \in Calls : d # c => calls'[d] = calls[d]
  BY <1>3, OneCall DEF Inv
<1>5. TypeOK'
  BY <1>1, <1>3, <1>4 DEF Inv, TypeOK, repository, supervisor
<1>6. Locks'
  BY <1>1, <1>2, <1>4, NoneIsNothing DEF Inv, Locks, supervisor, NoCall, Phase
<1>7. Unused' /\ OneRunner' /\ IssueKeepsProject'
  BY <1>1, <1>3 DEF Inv, Unused, OneRunner, IssueKeepsProject, Exists, Alive, supervisor
<1>8. ASSUME NEW d \in Calls PROVE (Fits(calls[d]) /\ Relies(calls[d]))'
  <2>1. Fits(calls'[d]) /\ Relies(calls'[d])
    BY <1>4, NoCallFits DEF Inv
  <2>2. Fits(calls[d])'
    BY <1>1, <1>3, <2>1 DEF Fits
  <2>3. Relies(calls[d])'
    BY <1>1, <2>1 DEF Relies, Exists, supervisor
  <2>4. QED
    BY <2>2, <2>3
<1>9. QED
  BY <1>5, <1>6, <1>7, <1>8 DEF Inv

LEMMA StartProjectKeeps == ASSUME Inv, NEW c \in Calls, StartProject(c) PROVE Inv'
<1>1. CASE Alive(registered)
  BY <1>1, StartRefused
<1>2. CASE ~Alive(registered)
  <2> DEFINE n == starts + 1
             r == [calls[c] EXCEPT !.phase = "spawn", !.runtime = n]
             t == [runtimes[n] EXCEPT !.state = "starting", !.ours = TRUE]
  <2>1. /\ calls[c].phase = "lock" /\ lock = None /\ lock' = c
        /\ starts < MaxStarts /\ starts' = n /\ registered' = n
        /\ calls' = [calls EXCEPT ![c] = r]
        /\ runtimes' = [runtimes EXCEPT ![n] = t]
        /\ UNCHANGED <<repository, project, issue, process>>
    BY <1>2 DEF StartProject, At, process
  <2>2. /\ runtimes \in [Runtime -> ProjectRuntime] /\ starts \in 0..MaxStarts
        /\ registered \in 0..starts
    BY DEF Inv, TypeOK
  <2>3. n \in Runtime /\ n \in 0..MaxStarts /\ n > starts /\ n \in Nat
    BY <2>1, <2>2, ProjectsConstants DEF Runtime
  <2>4. runtimes[n].process = None
    BY <2>3 DEF Inv, Unused
  <2>5. r \in Call /\ r.kind = calls[c].kind /\ r.phase = "spawn" /\ r.runtime = n
    BY <2>3, CallFields DEF Inv, Call, Phase
  <2>6. t \in ProjectRuntime /\ t.process = None
    BY <2>2, <2>3, <2>4 DEF ProjectRuntime
  <2>7. /\ starts' \in 0..MaxStarts /\ registered' \in 0..starts' /\ n \in 1..starts'
        /\ \A k \in 1..starts : k \in 1..starts' /\ k \in Runtime /\ k # n
        /\ \A i \in Runtime : i > starts' => i > starts /\ i # n
    BY <2>1, <2>2, <2>3, ProjectsConstants DEF Runtime
  <2> HIDE DEF n, r, t
  <2>8. /\ calls' \in [Calls -> Call] /\ calls'[c] = r
        /\ \A d \in Calls : d # c => calls'[d] = calls[d]
    BY <2>1, <2>5, OneCall DEF Inv
  <2>9. /\ runtimes' \in [Runtime -> ProjectRuntime] /\ runtimes'[n] = t
        /\ \A i \in Runtime : i # n => runtimes'[i] = runtimes[i]
    BY <2>1, <2>2, <2>3, <2>6
  <2>10. Fits(calls[c]) /\ calls[c].kind # None /\ server # "down"
    BY <2>1, NoneIsNothing DEF Inv, Fits, NoCall, Phase
  <2>11. project.status # "absent"
    BY <2>1, <2>10, NoneIsNothing DEF Fits, Phase
  <2>12. calls[c].kind \notin {"refresh", "shutdown"}
    BY <2>1, <2>10 DEF Fits
  <2>13. server # "closing"
    BY <2>10, <2>12 DEF Fits
  <2>14. TypeOK'
    BY <2>1, <2>7, <2>8, <2>9 DEF Inv, TypeOK, repository, process
  <2>15. Locks'
    BY <2>1, <2>5, <2>8, NoneIsNothing DEF Inv, Locks
  <2>16. Unused'
    BY <2>1, <2>7, <2>9, <2>11 DEF Inv, Unused
  <2>17. OneRunner'
    <3>1. ASSUME NEW i \in Runtime, Exists, runtimes'[i].ours, runtimes'[i].process = "live"
          PROVE  FALSE
      <4>1. i # n
        BY <2>6, <2>9, <3>1, NoneIsNothing
      <4>2. runtimes[i].ours /\ runtimes[i].process = "live" /\ i # 0
        BY <2>9, <3>1, <4>1 DEF Runtime
      <4>3. QED
        BY <1>2, <3>1, <4>2 DEF Inv, OneRunner, Alive
    <3>2. QED
      BY <2>1, <3>1 DEF OneRunner, Exists, Alive
  <2>18. IssueKeepsProject'
    BY <2>1 DEF Inv, IssueKeepsProject, Exists
  <2>19. ASSUME NEW d \in Calls PROVE (Fits(calls[d]) /\ Relies(calls[d]))'
    <3>1. CASE d = c
      <4>1. Fits(calls[d])'
        BY <2>1, <2>5, <2>8, <2>10, <2>11, <2>12, <2>13, <3>1 DEF Fits, process
      <4>2. Relies(calls[d])'
        BY <2>1, <2>5, <2>6, <2>7, <2>8, <2>9, <3>1 DEF Relies
      <4>3. QED
        BY <4>1, <4>2
    <3>2. CASE d # c
      <4>1. Fits(calls[d]) /\ Relies(calls[d]) /\ calls'[d] = calls[d]
        BY <2>8, <3>2 DEF Inv
      <4>2. calls[d].phase # "spawn"
        BY <2>1, NoneIsNothing DEF Inv, Locks
      <4>3. calls[d].kind # "shutdown" /\ calls[d].phase # "down"
        BY <2>13, <4>1 DEF Fits
      <4>4. Fits(calls[d])'
        BY <2>1, <4>1 DEF Fits, process
      <4>5. Relies(calls[d])'
        BY <2>1, <2>7, <4>1, <4>2, <4>3 DEF Relies, Exists
      <4>6. QED
        BY <4>4, <4>5
    <3>3. QED
      BY <3>1, <3>2
  <2>20. QED
    BY <2>14, <2>15, <2>16, <2>17, <2>18, <2>19 DEF Inv
<1>3. QED
  BY <1>1, <1>2

LEMMA SpawnKeeps == ASSUME Inv, NEW c \in Calls, Spawn(c) PROVE Inv'
<1> DEFINE n == calls[c].runtime
<1>1. /\ calls[c].phase = "spawn" /\ Started(c) /\ lock' = None
      /\ UNCHANGED <<repository, project, issue, starts, registered, events>>
      /\ runtimes \in [Runtime -> ProjectRuntime] /\ starts \in 0..MaxStarts
  BY DEF Spawn, At, Inv, TypeOK
<1>2. n \in 1..starts /\ (Exists => n = registered)
  BY <1>1 DEF Inv, Relies
<1>3. n \in Runtime
  BY <1>1, <1>2, ProjectsConstants DEF Runtime
<1>4. calls[c].kind # None
  BY <1>1, NoneIsNothing DEF Inv, Fits, NoCall, Phase
<1>5. /\ server # "down" /\ server' \in {"up", "booting", "closing"}
      /\ server' = server \/ (server # "closing" /\ server' = "up")
      /\ \E r \in Call : calls' = [calls EXCEPT ![c] = r] /\ r = NoCall
  BY <1>1, <1>4, StartedServer
<1>6. /\ calls' \in [Calls -> Call] /\ calls'[c] = NoCall
      /\ \A d \in Calls : d # c => calls'[d] = calls[d]
  BY <1>5, OneCall DEF Inv
<1>7. PICK t \in ProjectRuntime :
         runtimes' = [runtimes EXCEPT ![n] = t] /\ t.ours = runtimes[n].ours
  <2> DEFINE t1 == [runtimes[n] EXCEPT !.process = "live", !.state = "running"]
             t2 == [runtimes[n] EXCEPT !.state = "stopped"]
  <2>1. runtimes' = [runtimes EXCEPT ![n] = t1] \/ runtimes' = [runtimes EXCEPT ![n] = t2]
    BY DEF Spawn
  <2>2. t1 \in ProjectRuntime /\ t1.ours = runtimes[n].ours
    BY <1>1, <1>3 DEF ProjectRuntime
  <2>3. t2 \in ProjectRuntime /\ t2.ours = runtimes[n].ours
    BY <1>1, <1>3 DEF ProjectRuntime
  <2>4. QED
    BY <2>1, <2>2, <2>3
<1>8. /\ runtimes' \in [Runtime -> ProjectRuntime]
      /\ runtimes'[n].ours = runtimes[n].ours
      /\ \A i \in Runtime : i # n => runtimes'[i] = runtimes[i]
  BY <1>1, <1>3, <1>7
<1>9. TypeOK'
  BY <1>1, <1>5, <1>6, <1>8 DEF Inv, TypeOK, repository
<1>10. \A d \in Calls : d # c => calls[d].phase # "spawn"
  BY <1>1 DEF Inv, Locks
<1>11. Locks'
  BY <1>1, <1>6, <1>10, NoneIsNothing DEF Locks, NoCall, Phase
<1>12. project.status # "absent"
  BY <1>1, NoneIsNothing DEF Inv, Fits, Phase
<1>13. \A i \in Runtime : i > starts => i # n
  BY <1>1, <1>2
<1>14. Unused'
  BY <1>1, <1>8, <1>12, <1>13 DEF Inv, Unused
<1>15. OneRunner'
  BY <1>1, <1>2, <1>5, <1>8 DEF Inv, OneRunner, Exists, Alive
<1>16. IssueKeepsProject'
  BY <1>1 DEF Inv, IssueKeepsProject, Exists
<1>17. ASSUME NEW d \in Calls PROVE (Fits(calls[d]) /\ Relies(calls[d]))'
  <2>1. Fits(calls'[d]) /\ Relies(calls'[d]) /\ calls'[d].phase # "spawn"
    <3>1. CASE d = c
      <4>1. NoCall.phase # "spawn"
        BY NoneIsNothing DEF NoCall, Phase
      <4>2. QED
        BY <1>6, <3>1, <4>1, NoCallFits
    <3>2. CASE d # c
      BY <1>6, <1>10, <3>2 DEF Inv
    <3>3. QED
      BY <3>1, <3>2
  <2>2. Fits(calls[d])'
    BY <1>1, <1>5, <2>1 DEF Fits
  <2>3. calls'[d].phase # "down"
    <3>1. calls[c].kind \notin {"refresh", "shutdown"}
      BY <1>1 DEF Inv, Fits
    <3>2. server # "closing"
      BY <1>4, <3>1 DEF Inv, Fits
    <3>3. QED
      BY <2>1, <3>2 DEF Fits
  <2>4. Relies(calls[d])'
    BY <1>1, <2>1, <2>3 DEF Relies, Exists
  <2>5. QED
    BY <2>2, <2>4
<1>18. QED
  BY <1>9, <1>11, <1>14, <1>15, <1>16, <1>17 DEF Inv

LEMMA ForgetKeeps == ASSUME Inv, NEW c \in Calls, Forget(c) PROVE Inv'
<1>1. /\ calls[c].phase = "forget" /\ Ends(c)
      /\ registered' = registered \/ registered' = 0
      /\ UNCHANGED <<repository, project, issue, runtimes, starts, lock, process>>
  BY DEF Forget, At
<1>2. project.status = "deleted"
  BY <1>1 DEF Inv, Relies
<1>3. /\ calls' \in [Calls -> Call] /\ calls'[c] = NoCall
      /\ \A d \in Calls : d # c => calls'[d] = calls[d]
  BY <1>1, NoCallIsCall, OneCall DEF Inv, Ends
<1>4. registered' \in 0..starts
  BY <1>1 DEF Inv, TypeOK
<1>5. TypeOK'
  BY <1>1, <1>3, <1>4 DEF Inv, TypeOK, repository, process
<1>6. Locks'
  BY <1>1, <1>3, NoneIsNothing DEF Inv, Locks, NoCall, Phase
<1>7. Unused' /\ OneRunner' /\ IssueKeepsProject'
  BY <1>1, <1>2 DEF Inv, Unused, OneRunner, IssueKeepsProject, Exists
<1>8. ASSUME NEW d \in Calls PROVE (Fits(calls[d]) /\ Relies(calls[d]))'
  <2>1. Fits(calls'[d]) /\ Relies(calls'[d])
    BY <1>3, NoCallFits DEF Inv
  <2>2. Fits(calls[d])'
    BY <1>1, <2>1 DEF Fits, process
  <2>3. Relies(calls[d])'
    BY <1>1, <1>2, <2>1 DEF Relies, Exists
  <2>4. QED
    BY <2>2, <2>3
<1>9. QED
  BY <1>5, <1>6, <1>7, <1>8 DEF Inv

-----------------------------------------------------------------------------
(* The control plane's process, and the outside *)

LEMMA ShutdownKeeps == ASSUME Inv, NEW c \in Calls, Shutdown(c) PROVE Inv'
<1> DEFINE r == [NoCall EXCEPT !.kind = "shutdown", !.phase = "stop"]
<1>1. /\ Idle /\ calls[c] = NoCall /\ server = "up" /\ server' = "closing"
      /\ calls' = [calls EXCEPT ![c] = r] /\ events' \in 0..MaxEvents
      /\ UNCHANGED <<repository, project, issue, supervisor>>
  BY Events DEF Shutdown, Inv
<1>2. r \in Call /\ r.kind = "shutdown" /\ r.phase = "stop"
  BY NoCallIsCall DEF Call, Kind, Phase, NoCall
<1> HIDE DEF r
<1>3. /\ calls' \in [Calls -> Call] /\ calls'[c] = r
      /\ \A d \in Calls : d # c => calls'[d] = calls[d]
  BY <1>1, <1>2, OneCall DEF Inv
<1>4. TypeOK'
  BY <1>1, <1>3 DEF Inv, TypeOK, repository, supervisor
<1>5. calls[c].phase # "spawn"
  BY <1>1, NoneIsNothing DEF NoCall, Phase
<1>6. Locks'
  BY <1>1, <1>2, <1>3, <1>5 DEF Inv, Locks, supervisor
<1>7. Unused' /\ OneRunner' /\ IssueKeepsProject'
  BY <1>1 DEF Inv, Unused, OneRunner, IssueKeepsProject, Exists, Alive, supervisor
<1>8. ASSUME NEW d \in Calls PROVE (Fits(calls[d]) /\ Relies(calls[d]))'
  <2>1. CASE d = c
    BY <1>1, <1>2, <1>3, <2>1, NoneIsNothing DEF Fits, Relies, Kind
  <2>2. CASE d # c
    <3>1. Fits(calls[d]) /\ Relies(calls[d]) /\ calls'[d] = calls[d]
      BY <1>3, <2>2 DEF Inv
    <3>2. calls[d].kind \in {None, "refresh"}
      BY <1>1 DEF Idle
    <3>3. Fits(calls[d])'
      BY <1>1, <3>1, <3>2 DEF Fits
    <3>4. Relies(calls[d])'
      BY <1>1, <3>1 DEF Relies, Exists, supervisor
    <3>5. QED
      BY <3>3, <3>4
  <2>3. QED
    BY <2>1, <2>2
<1>9. QED
  BY <1>4, <1>6, <1>7, <1>8 DEF Inv

\* Nothing is left in memory, and no process of this control plane lives.
LEMMA GoneKeeps ==
    ASSUME Inv, Gone, runtimes' \in [Runtime -> ProjectRuntime],
           \A i \in Runtime : /\ runtimes'[i].process = runtimes[i].process
                              /\ runtimes'[i].ours => runtimes[i].ours
                              /\ Exists => ~(runtimes'[i].ours /\ runtimes'[i].process = "live"),
           events' \in 0..MaxEvents, UNCHANGED <<repository, project, issue, starts>>
    PROVE  Inv'
<1>1. /\ server' = "down" /\ registered' = 0 /\ lock' = None
      /\ calls' \in [Calls -> Call] /\ \A d \in Calls : calls'[d] = NoCall
  BY NoCallIsCall DEF Gone
<1>2. 0 \in 0..starts
  BY ProjectsConstants DEF Inv, TypeOK
<1>3. TypeOK'
  BY <1>1, <1>2 DEF Inv, TypeOK, repository
<1>4. Locks'
  BY <1>1, NoneIsNothing DEF Locks, NoCall, Phase
<1>5. Unused'
  BY DEF Inv, Unused
<1>6. OneRunner'
  BY DEF Inv, OneRunner, Exists, Alive
<1>7. IssueKeepsProject'
  BY DEF Inv, IssueKeepsProject, Exists
<1>8. ASSUME NEW d \in Calls PROVE (Fits(calls[d]) /\ Relies(calls[d]))'
  <2>1. /\ calls'[d] = NoCall /\ NoCall.kind = None /\ NoCall.phase = None
    BY <1>1 DEF NoCall
  <2>2. QED
    BY <2>1, NoneIsNothing DEF Fits, Relies, Kind, Phase
<1>9. QED
  BY <1>3, <1>4, <1>5, <1>6, <1>7, <1>8 DEF Inv

LEMMA EndKeeps ==
    ASSUME Inv, Crash \/ \E c \in Calls : ShutDown(c)
    PROVE  Inv'
<1>1. runtimes \in [Runtime -> ProjectRuntime]
  BY DEF Inv, TypeOK
<1>2. ASSUME NEW c \in Calls, ShutDown(c) PROVE Inv'
  <2>1. Exists => \A i \in Runtime : ~(runtimes[i].ours /\ runtimes[i].process = "live")
    BY <1>2 DEF Inv, Relies, ShutDown, At
  <2>2. events' \in 0..MaxEvents
    BY <1>2 DEF ShutDown, Inv, TypeOK
  <2>3. QED
    BY <1>1, <1>2, <2>1, <2>2, GoneKeeps DEF ShutDown
<1>3. CASE Crash
  <2>1. runtimes' = [i \in Runtime |-> [runtimes[i] EXCEPT !.ours = FALSE, !.state = "stopped"]]
    BY <1>3 DEF Crash
  <2>2. ASSUME NEW i \in Runtime
        PROVE  /\ runtimes'[i] \in ProjectRuntime
               /\ runtimes'[i].process = runtimes[i].process
               /\ runtimes'[i].ours = FALSE
    BY <1>1, <2>1 DEF ProjectRuntime
  <2>3. runtimes' \in [Runtime -> ProjectRuntime]
    BY <2>1, <2>2
  <2>4. QED
    BY <1>3, <2>2, <2>3, Events, GoneKeeps DEF Crash, Inv
<1>4. QED
  BY <1>2, <1>3

LEMMA BootKeeps == ASSUME Inv, NEW c \in Calls, Boot(c) PROVE Inv'
<1> DEFINE r == [NoCall EXCEPT !.kind = "boot", !.phase = "lock"]
<1>1. /\ server = "down" /\ calls[c] = NoCall
      /\ \/ Exists /\ server' = "booting" /\ calls' = [calls EXCEPT ![c] = r]
         \/ server' = "up" /\ calls' = calls
      /\ UNCHANGED <<repository, project, issue, supervisor, events>>
  BY DEF Boot
<1>2. r \in Call /\ r.kind = "boot" /\ r.phase = "lock"
  BY NoCallIsCall DEF Call, Kind, Phase, NoCall
<1> HIDE DEF r
<1>3. /\ calls' \in [Calls -> Call]
      /\ \A d \in Calls : calls'[d] = calls[d] \/ (d = c /\ calls'[d] = r /\ Exists)
  BY <1>1, <1>2, OneCall DEF Inv, TypeOK
<1>4. server' \in {"up", "booting"}
  BY <1>1
<1>5. TypeOK'
  BY <1>1, <1>3, <1>4 DEF Inv, TypeOK, repository, supervisor
<1>6. calls[c].phase # "spawn"
  BY <1>1, NoneIsNothing DEF NoCall, Phase
<1>7. Locks'
  BY <1>1, <1>2, <1>3, <1>6 DEF Inv, Locks, supervisor
<1>8. Unused' /\ OneRunner' /\ IssueKeepsProject'
  BY <1>1, <1>4 DEF Inv, Unused, OneRunner, IssueKeepsProject, Exists, Alive, supervisor
<1>9. ASSUME NEW d \in Calls PROVE (Fits(calls[d]) /\ Relies(calls[d]))'
  <2>1. CASE d = c /\ calls'[d] = r /\ Exists
    BY <1>1, <1>2, <1>4, <2>1, NoneIsNothing DEF Fits, Relies, Exists, Kind
  <2>2. CASE calls'[d] = calls[d]
    <3>1. Fits(calls[d]) /\ Relies(calls[d]) /\ calls[d].kind = None
      BY <1>1 DEF Inv, Fits
    <3>2. Fits(calls[d])'
      BY <1>1, <1>4, <2>2, <3>1, NoneIsNothing DEF Fits, Kind
    <3>3. Relies(calls[d])'
      BY <1>1, <2>2, <3>1 DEF Relies, Exists, supervisor
    <3>4. QED
      BY <3>2, <3>3
  <2>3. QED
    BY <1>3, <2>1, <2>2
<1>10. QED
  BY <1>5, <1>7, <1>8, <1>9 DEF Inv

LEMMA RepositoryKeeps == ASSUME Inv, CommitHead \/ Edit PROVE Inv'
<1>1. /\ UNCHANGED <<project, issue, calls, supervisor, server>> /\ events' \in 0..MaxEvents
      /\ head' \in Commit /\ edited' \in BOOLEAN
  <2>1. head \in 0..MaxCommits /\ MaxCommits \in Nat /\ edited \in BOOLEAN
    BY ProjectsConstants DEF Inv, TypeOK, Commit
  <2>2. CASE CommitHead
    <3>1. head' = head + 1 /\ head < MaxCommits /\ edited' = FALSE /\ Happens
          /\ UNCHANGED <<project, issue, calls, supervisor, server>>
      BY <2>2 DEF CommitHead
    <3>2. head' \in Commit
      BY <2>1, <3>1 DEF Commit
    <3>3. QED
      BY <3>1, <3>2, Events DEF Inv
  <2>3. CASE Edit
    <3>1. head' = head /\ edited' = ~edited /\ Happens
          /\ UNCHANGED <<project, issue, calls, supervisor, server>>
      BY <2>3 DEF Edit
    <3>2. QED
      BY <2>1, <3>1, Events DEF Inv, Commit
  <2>4. QED
    BY <2>2, <2>3
<1>2. TypeOK'
  BY <1>1 DEF Inv, TypeOK, supervisor
<1>3. Locks' /\ Unused' /\ OneRunner' /\ IssueKeepsProject'
  BY <1>1 DEF Inv, Locks, Unused, OneRunner, IssueKeepsProject, Exists, Alive, supervisor
<1>4. ASSUME NEW d \in Calls PROVE (Fits(calls[d]) /\ Relies(calls[d]))'
  <2>1. Fits(calls[d]) /\ Relies(calls[d])
    BY DEF Inv
  <2>2. Fits(calls[d])'
    BY <1>1, <2>1 DEF Fits
  <2>3. Relies(calls[d])'
    BY <1>1, <2>1 DEF Relies, Exists, supervisor
  <2>4. QED
    BY <2>2, <2>3
<1>5. QED
  BY <1>2, <1>3, <1>4 DEF Inv

-----------------------------------------------------------------------------
(* Calls that came while the Project was disabled *)

\* Such a call is nowhere near an Issue, a Claim or a Runner, and the row it holds is
\* that of a disabled Project.
Silent(r) ==
    r.quiet =>
      /\ ~project.enabled
      /\ \/ r.kind = "issue" /\ r.phase \in {"check", "look", "judge", "record", "bind"}
         \/ r.kind = "start" /\ r.phase \in {"look", "judge", "record"}
         \/ r.kind = "move" /\ r.phase \in {"stop", "stopping", "patch", "patched"}
      /\ r.phase \in {"patched", "record"} => ~r.row.enabled

Silence == \A c \in Calls : Silent(calls[c])

LEMMA NoCallSilent == ASSUME TRUE PROVE Silent(NoCall)
BY DEF Silent, NoCall

\* One call changes, and nobody enables the Project.
LEMMA OneSilent ==
    ASSUME Inv, Silence, NEW c \in Calls, NEW r \in Call,
           calls' = [calls EXCEPT ![c] = r], Silent(r),
           project'.enabled => project.enabled
    PROVE  Silence'
<1>1. /\ calls'[c] = r
      /\ \A d \in Calls : d # c => calls'[d] = calls[d]
  BY OneCall DEF Inv
<1>2. ASSUME NEW d \in Calls PROVE Silent(calls[d])'
  <2>1. Silent(calls'[d])
    BY <1>1 DEF Silence
  <2>2. QED
    BY <2>1 DEF Silent
<1>3. QED
  BY <1>2 DEF Silence

LEMMA SilentEnds ==
    ASSUME Inv, Silence, NEW c \in Calls, Ends(c), project'.enabled => project.enabled
    PROVE  Silence'
BY EndsCall, NoCallSilent, OneSilent DEF Inv

\* A call goes on that keeps what it knows.
LEMMA SilentGoes ==
    ASSUME Inv, Silence, NEW c \in Calls, NEW p \in Phase, Goes(c, p),
           project'.enabled => project.enabled,
           \/ calls[c].kind \notin {"issue", "start", "move"}
           \/ calls[c].kind = "issue" /\ p \in {"look", "bind"}
           \/ calls[c].kind = "move" /\ p = "patch"
           \/ calls[c].phase \in {"delete", "erase"}
    PROVE  Silence'
<1>1. PICK r \in Call :
         /\ calls' = [calls EXCEPT ![c] = r]
         /\ r.kind = calls[c].kind /\ r.phase = p /\ r.quiet = calls[c].quiet
  BY GoesCall DEF Inv
<1>2. Silent(r)
  BY <1>1 DEF Silence, Silent
<1>3. QED
  BY <1>1, <1>2, OneSilent

LEMMA SilentComes ==
    ASSUME Inv, Silence, NEW c \in Calls, NEW k \in Kind, NEW p \in Phase, Comes(c, k, p),
           project' = project,
           \/ k \notin {"issue", "claim", "start", "move"}
           \/ project.enabled
           \/ k = "issue" /\ p = "check"
           \/ k = "start" /\ p = "look"
           \/ k = "move" /\ p = "stop"
    PROVE  Silence'
<1>1. PICK r \in Call :
         /\ calls' = [calls EXCEPT ![c] = r]
         /\ r.kind = k /\ r.phase = p
         /\ r.quiet => k \in {"issue", "claim", "start", "move"} /\ ~project.enabled
  BY ComesCall DEF Inv
<1>2. Silent(r)
  BY <1>1 DEF Silent
<1>3. QED
  BY <1>1, <1>2, OneSilent

LEMMA SilentRequests ==
    ASSUME Inv, Silence, NEW c \in Calls,
           \/ Validate(c) \/ Delete(c) \/ CreateIssue(c) \/ Claim(c) \/ Start(c) \/ Stop(c)
           \/ \E k \in Kind : Patch(c, k)
    PROVE  Silence'
<1>1. {"validate", "delete", "issue", "claim", "start", "stop"} \subseteq Kind
  BY DEF Kind
<1>2. {"look", "stop", "check", "take", "lock", "patch"} \subseteq Phase
  BY DEF Phase
<1>3. CASE Validate(c)
  BY <1>1, <1>2, <1>3, SilentComes DEF Validate
<1>4. CASE Delete(c)
  BY <1>1, <1>2, <1>4, SilentComes DEF Delete
<1>5. CASE CreateIssue(c)
  BY <1>1, <1>2, <1>5, SilentComes DEF CreateIssue
<1>6. CASE Claim(c)
  BY <1>1, <1>2, <1>6, SilentComes DEF Claim, Open
<1>7. CASE Start(c)
  <2>1. CASE Open(project)
    BY <1>1, <1>2, <1>7, <2>1, SilentComes DEF Start, Open
  <2>2. CASE ~Open(project)
    BY <1>1, <1>2, <1>7, <2>2, SilentComes DEF Start
  <2>3. QED
    BY <2>1, <2>2
<1>8. CASE Stop(c)
  BY <1>1, <1>2, <1>8, SilentComes DEF Stop
<1>9. ASSUME NEW k \in Kind, Patch(c, k) PROVE Silence'
  <2>1. CASE k = "enable"
    BY <1>2, <1>9, <2>1, SilentComes DEF Patch
  <2>2. CASE k # "enable"
    BY <1>2, <1>9, <2>2, SilentComes DEF Patch
  <2>3. QED
    BY <2>1, <2>2
<1>10. QED
  BY <1>3, <1>4, <1>5, <1>6, <1>7, <1>8, <1>9

\* A call remembers something of what it read.
LEMMA SilentReads ==
    ASSUME Inv, Silence, NEW c \in Calls, Reads(c)
    PROVE  Silence'
<1>1. project' = project
  BY DEF Reads, RefreshIfChanged, Look, Judge, PatchRead, DeleteRead, Bind
<1>2. CASE Ends(c)
  BY <1>1, <1>2, SilentEnds
<1>3. CASE RefreshIfChanged(c) /\ ~Ends(c)
  <2>1. calls[c].phase = "check"
    BY <1>3 DEF RefreshIfChanged, At
  <2>2. calls[c].kind \notin {"start", "move"} \/ ~calls[c].quiet
    BY <2>1 DEF Silence, Silent
  <2>3. PICK p \in {"look", "bind"} : Goes(c, p)
    BY <1>3, NoneIsNothing DEF RefreshIfChanged, AfterRefresh, GoesOrEnds, Phase
  <2>4. PICK r \in Call :
         /\ calls' = [calls EXCEPT ![c] = r]
         /\ r.kind = calls[c].kind /\ r.phase = p /\ r.quiet = calls[c].quiet
    BY <2>3, GoesCall DEF Inv, Phase
  <2>5. Silent(r)
    BY <2>1, <2>2, <2>4 DEF Silence, Silent
  <2>6. QED
    BY <1>1, <2>4, <2>5, OneSilent
<1>4. CASE DeleteRead(c) /\ ~Ends(c)
  <2>1. calls[c].phase = "delete" /\ Goes(c, "erase") /\ "erase" \in Phase
    BY <1>4 DEF DeleteRead, At, GoesOrEnds, Phase
  <2>2. QED
    BY <1>1, <2>1, SilentGoes
<1>5. CASE Look(c) /\ ~Ends(c)
  <2> DEFINE r == [calls[c] EXCEPT !.phase = "judge", !.commit = head]
  <2>1. calls[c].phase = "look" /\ calls' = [calls EXCEPT ![c] = r]
    BY <1>5 DEF Look, At
  <2>2. /\ r \in Call /\ r.kind = calls[c].kind /\ r.phase = "judge"
        /\ r.quiet = calls[c].quiet
    BY CallFields DEF Inv, TypeOK, Call, Phase
  <2> HIDE DEF r
  <2>3. Silent(r)
    BY <2>1, <2>2 DEF Silence, Silent
  <2>4. QED
    BY <1>1, <2>1, <2>2, <2>3, OneSilent
<1>6. CASE Judge(c) /\ ~Ends(c)
  <2> DEFINE w == IF KeepsRow(c) THEN calls[c].row ELSE project
             g == Passes
             r == [calls[c] EXCEPT !.phase = "record", !.good = g, !.row = w]
  <2>1. calls[c].phase = "judge" /\ calls' = [calls EXCEPT ![c] = r]
    BY <1>6 DEF Judge, At
  <2>2. w \in Row /\ g \in BOOLEAN
    BY CallFields DEF Inv, TypeOK, Passes
  <2>3. calls[c].kind \in {"issue", "start"} => w = project
    BY DEF KeepsRow
  <2> HIDE DEF w, g
  <2>4. /\ r \in Call /\ r.kind = calls[c].kind /\ r.phase = "record"
        /\ r.quiet = calls[c].quiet /\ r.row = w
    BY <2>2, CallFields DEF Inv, Call, Phase
  <2> HIDE DEF r
  <2>5. Silent(r)
    BY <2>1, <2>3, <2>4 DEF Silence, Silent
  <2>6. QED
    BY <1>1, <2>1, <2>4, <2>5, OneSilent
<1>7. CASE PatchRead(c) /\ ~Ends(c)
  <2> DEFINE r == [calls[c] EXCEPT !.phase = "patched", !.row = project]
  <2>1. calls[c].phase = "patch" /\ calls' = [calls EXCEPT ![c] = r]
    BY <1>7 DEF PatchRead, At
  <2>2. /\ r \in Call /\ r.kind = calls[c].kind /\ r.phase = "patched" /\ r.row = project
        /\ r.quiet = calls[c].quiet
    BY CallFields DEF Inv, TypeOK, Call, Phase
  <2> HIDE DEF r
  <2>3. Silent(r)
    BY <2>1, <2>2 DEF Silence, Silent
  <2>4. QED
    BY <1>1, <2>1, <2>2, <2>3, OneSilent
<1>8. CASE Bind(c) /\ ~Ends(c)
  <2> DEFINE r == [calls[c] EXCEPT !.phase = "insert", !.commit = project.snapshot]
  <2>1. /\ calls[c].phase = "bind" /\ project.snapshot # None /\ project.enabled
        /\ calls' = [calls EXCEPT ![c] = r]
    BY <1>8 DEF Bind, At, Open
  <2>2. r \in Call /\ r.quiet = calls[c].quiet
    BY <2>1, CallFields DEF Inv, TypeOK, Call, Phase, Row
  <2> HIDE DEF r
  <2>3. Silent(r)
    BY <2>1, <2>2 DEF Silence, Silent
  <2>4. QED
    BY <1>1, <2>1, <2>2, <2>3, OneSilent
<1>9. QED
  BY <1>2, <1>3, <1>4, <1>5, <1>6, <1>7, <1>8 DEF Reads

\* A validation does not enable a Project.
LEMMA SilentRecord ==
    ASSUME Inv, Silence, NEW c \in Calls, Record(c)
    PROVE  Silence'
<1> DEFINE new == Outcome(calls[c])
           p == AfterValidation(c, new)
           r == [calls[c] EXCEPT !.phase = p, !.row = NoRow, !.commit = 0, !.good = FALSE]
<1>1. /\ calls[c].phase = "record"
      /\ ~Exists => Ends(c) /\ UNCHANGED project
      /\ Exists => project' = Saved(c, new)
      /\ Exists => \/ p = None /\ Ends(c)
                   \/ p # None /\ calls' = [calls EXCEPT ![c] = r]
  BY DEF Record, At
<1>2. new.enabled = calls[c].row.enabled
  BY DEF Outcome
<1>3. Saved(c, new).enabled = project.enabled
  BY <1>2 DEF Saved, Column
<1>4. calls[c].quiet => p \in {None, "bind"} /\ (p = "bind" => calls[c].kind = "issue")
  <2>1. calls[c].quiet => calls[c].kind \in {"issue", "start", "move"}
                          /\ calls[c].kind # "move" /\ ~new.enabled
    BY <1>1, <1>2 DEF Silence, Silent
  <2> HIDE DEF new
  <2>2. calls[c].quiet => calls[c].kind \in {"issue", "start"} /\ ~Open(new)
    BY <2>1 DEF Open
  <2>3. calls[c].kind = "issue" => p = "bind"
    BY DEF AfterValidation
  <2>4. calls[c].kind = "start" /\ ~Open(new) => p = None
    BY DEF AfterValidation
  <2>5. QED
    BY <2>2, <2>3, <2>4, NoneIsNothing DEF Phase
<1>5. r \in Call /\ r.kind = calls[c].kind /\ r.phase = p /\ r.quiet = calls[c].quiet
  <2>1. NoRow \in Row /\ 0 \in Commit
    BY NoCallIsCall DEF NoCall, Call
  <2>2. p \in Phase \cup {None}
    BY AfterValidationPhase DEF Phase
  <2> HIDE DEF p
  <2>3. QED
    BY <2>1, <2>2, CallFields DEF Call, Inv
<1> HIDE DEF new, p, r
<1>6. project'.enabled = project.enabled
  BY <1>1, <1>3
<1>7. CASE Ends(c)
  BY <1>6, <1>7, SilentEnds
<1>8. CASE p # None /\ calls' = [calls EXCEPT ![c] = r]
  <2>1. Silent(r)
    BY <1>4, <1>5, <1>8 DEF Silence, Silent
  <2>2. QED
    BY <1>5, <1>6, <1>8, <2>1, OneSilent
<1>9. QED
  BY <1>1, <1>7, <1>8

\* An enabling is known to every call; other patches enable nothing.
LEMMA SilentPatchWrite ==
    ASSUME Inv, Silence, NEW c \in Calls, PatchWrite(c)
    PROVE  Silence'
<1> DEFINE new == Patched(calls[c])
           u == calls[c].kind # "enable"
           known == [d \in Calls |-> [calls[d] EXCEPT !.quiet = @ /\ u]]
           q == IF new.enabled THEN [known[c] EXCEPT !.phase = "look", !.row = new] ELSE NoCall
<1>1. /\ calls[c].phase = "patched"
      /\ ~Exists => Ends(c) /\ UNCHANGED project
      /\ Exists => project' = Saved(c, new) /\ calls' = [known EXCEPT ![c] = q]
  BY DEF PatchWrite, At
<1>2. CASE ~Exists
  BY <1>1, <1>2, SilentEnds
<1>3. CASE Exists
  <2>1. calls[c].row \in Row /\ calls[c].row.enabled \in BOOLEAN
    BY CallFields DEF Inv, Row
  <2>2. new.enabled = (calls[c].kind = "enable" \/ (calls[c].row.enabled /\ calls[c].kind = "move"))
    BY <2>1 DEF Patched, Row
  <2>3. u /\ project'.enabled => project.enabled
    <3>1. project'.enabled = Column(project.enabled, calls[c].row.enabled, new.enabled)
      BY <1>1, <1>3 DEF Saved
    <3> HIDE DEF new
    <3>2. u => new.enabled = calls[c].row.enabled \/ new.enabled = FALSE
      BY <2>1, <2>2
    <3>3. QED
      BY <3>1, <3>2 DEF Column
  <2>4. ASSUME NEW d \in Calls
        PROVE  /\ known[d].kind = calls[d].kind /\ known[d].phase = calls[d].phase
               /\ known[d].row = calls[d].row
               /\ known[d].quiet => calls[d].quiet /\ u
    <3> DEFINE b == calls[d].quiet /\ u
    <3>1. known[d] = [calls[d] EXCEPT !.quiet = b]
      OBVIOUS
    <3> HIDE DEF known, b
    <3>2. known[d].quiet = b
      BY <3>1, CallFields DEF Inv, Call
    <3>3. /\ known[d].kind = calls[d].kind /\ known[d].phase = calls[d].phase
          /\ known[d].row = calls[d].row
      BY <3>1, CallFields DEF Inv, Call
    <3>4. QED
      BY <3>2, <3>3 DEF b
  <2>5. known[c] \in Call
    <3> DEFINE b == calls[c].quiet /\ u
    <3>1. known[c] = [calls[c] EXCEPT !.quiet = b] /\ b \in BOOLEAN
      OBVIOUS
    <3> HIDE DEF known, b
    <3>2. QED
      BY <3>1, CallFields DEF Inv, Call
  <2>6. known = [d \in Calls |-> known[d]]
    OBVIOUS
  <2> DEFINE l == [known[c] EXCEPT !.phase = "look", !.row = new]
  <2>7. q = IF new.enabled THEN l ELSE NoCall
    OBVIOUS
  <2>8. calls' = [known EXCEPT ![c] = q]
    BY <1>1, <1>3
  <2> HIDE DEF known, q, new
  <2>9. l.quiet = known[c].quiet
    BY <2>5 DEF Call
  <2> HIDE DEF l
  <2>10. ~q.quiet
    <3>1. CASE q = NoCall
      BY <3>1 DEF NoCall
    <3>2. CASE q = l /\ new.enabled
      <4>1. calls[c].quiet => ~calls[c].row.enabled
        BY <1>1 DEF Silence, Silent
      <4>2. u => ~calls[c].quiet
        BY <2>2, <3>2, <4>1
      <4>3. QED
        BY <2>4, <2>9, <3>2, <4>2
    <3>3. QED
      BY <2>7, <3>1, <3>2
  <2>11. \A d \in Calls : calls'[d] = IF d = c THEN q ELSE known[d]
    BY <2>6, <2>8
  <2>12. ASSUME NEW d \in Calls PROVE Silent(calls[d])'
    <3>1. CASE d = c
      BY <2>10, <2>11, <3>1 DEF Silent
    <3>2. CASE d # c
      <4>1. calls'[d] = known[d] /\ Silent(calls[d])
        BY <2>11, <3>2 DEF Silence
      <4>2. known[d].quiet => calls[d].quiet /\ ~project'.enabled
        BY <2>3, <2>4, <4>1 DEF Silent
      <4>3. QED
        BY <2>4, <4>1, <4>2 DEF Silent
    <3>3. QED
      BY <3>1, <3>2
  <2>13. QED
    BY <2>12 DEF Silence
<1>4. QED
  BY <1>2, <1>3

LEMMA SilentCreate ==
    ASSUME Inv, Silence, NEW c \in Calls, Create(c)
    PROVE  Silence'
<1> DEFINE r == [NoCall EXCEPT !.kind = "create", !.phase = "look", !.row = NewRow]
<1>1. project.status = "absent" /\ calls' = [calls EXCEPT ![c] = r]
  BY DEF Create
<1>2. NewRow \in Row
  BY DEF NewRow, Row
<1>3. r \in Call /\ ~r.quiet
  BY <1>2, NoCallIsCall DEF Call, Kind, Phase, NoCall
<1> HIDE DEF r
<1>4. /\ calls'[c] = r /\ \A d \in Calls : d # c => calls'[d] = calls[d]
  BY <1>1, <1>3, OneCall DEF Inv
<1>5. \A d \in Calls : ~calls[d].quiet
  <2>1. ASSUME NEW d \in Calls PROVE ~calls[d].quiet
    <3>1. calls[d].kind \in {None, "stop", "shutdown"}
      BY <1>1 DEF Inv, Fits
    <3>2. calls[d].kind \notin {"issue", "start", "move"}
      BY <3>1, NoneIsNothing DEF Kind
    <3>3. QED
      BY <3>2 DEF Silence, Silent
  <2>2. QED
    BY <2>1
<1>6. QED
  BY <1>3, <1>4, <1>5 DEF Silence, Silent

LEMMA SilentWrites ==
    ASSUME Inv, Silence, NEW c \in Calls, DeleteRow(c) \/ Insert(c) \/ Take(c)
    PROVE  Silence'
<1>1. CASE DeleteRow(c)
  <2>1. CASE Exists /\ issue = None
    <3>1. /\ calls[c].phase = "erase" /\ Goes(c, "forget") /\ "forget" \in Phase
          /\ project' = [NoRow EXCEPT !.status = "deleted"]
      BY <1>1, <2>1 DEF DeleteRow, At, Phase
    <3>2. ~project'.enabled
      BY <3>1 DEF NoRow
    <3>3. QED
      BY <3>1, <3>2, SilentGoes
  <2>2. CASE ~(Exists /\ issue = None)
    BY <1>1, <2>2, SilentEnds DEF DeleteRow
  <2>3. QED
    BY <2>1, <2>2
<1>2. CASE Insert(c) \/ Take(c)
  BY <1>2, SilentEnds DEF Insert, Take
<1>3. QED
  BY <1>1, <1>2

\* No call that came while the Project was disabled starts or stops for long.
LEMMA SilentSupervises ==
    ASSUME Inv, Silence, NEW c \in Calls,
           StartProject(c) \/ Spawn(c) \/ StopProject(c) \/ Stopped(c) \/ Forget(c)
    PROVE  Silence'
<1>1. project' = project
  BY DEF StartProject, Spawn, StopProject, Stopped, Forget
<1>2. CASE Ends(c)
  BY <1>1, <1>2, SilentEnds
<1>3. CASE StartProject(c) /\ ~Ends(c)
  <2> DEFINE n == starts + 1
             r == [calls[c] EXCEPT !.phase = "spawn", !.runtime = n]
  <2>1. calls[c].phase = "lock" /\ calls' = [calls EXCEPT ![c] = r] /\ starts < MaxStarts
    BY <1>3 DEF StartProject, Started, At
  <2>2. n \in 0..MaxStarts
    BY <2>1, ProjectsConstants DEF Inv, TypeOK
  <2> HIDE DEF n
  <2>3. r \in Call /\ r.quiet = calls[c].quiet
    BY <2>2, CallFields DEF Inv, Call, Phase
  <2> HIDE DEF r
  <2>4. Silent(r)
    BY <2>1, <2>3 DEF Silence, Silent
  <2>5. QED
    BY <1>1, <2>1, <2>3, <2>4, OneSilent
<1>4. CASE StopProject(c) /\ ~Ends(c)
  <2>1. CASE Alive(registered)
    <3> DEFINE r == [calls[c] EXCEPT !.phase = "stopping", !.runtime = registered]
    <3>1. calls[c].phase = "stop" /\ calls' = [calls EXCEPT ![c] = r]
      BY <1>4, <2>1 DEF StopProject, At
    <3>2. registered \in 0..MaxStarts
      BY ProjectsConstants DEF Inv, TypeOK
    <3>3. /\ r \in Call /\ r.quiet = calls[c].quiet /\ r.kind = calls[c].kind
          /\ r.phase = "stopping"
      BY <3>2, CallFields DEF Inv, Call, Phase
    <3> HIDE DEF r
    <3>4. Silent(r)
      BY <3>1, <3>3 DEF Silence, Silent
    <3>5. QED
      BY <1>1, <3>1, <3>3, <3>4, OneSilent
  <2>2. CASE ~Alive(registered)
    <3>1. calls[c].phase = "stop" /\ Goes(c, AfterStop(c)) /\ AfterStop(c) # None
      BY <1>4, <2>2 DEF StopProject, At, GoesOrEnds
    <3>2. AfterStop(c) \in Phase
      BY <3>1, AfterStopPhase DEF Phase
    <3>3. calls[c].kind = "move" => AfterStop(c) = "patch"
      BY DEF AfterStop
    <3>4. calls[c].kind \notin {"issue", "start"}
      BY <3>1, AfterStopPhase DEF AfterStop
    <3>5. QED
      BY <1>1, <3>1, <3>2, <3>3, <3>4, SilentGoes
  <2>3. QED
    BY <2>1, <2>2
<1>5. CASE Stopped(c) /\ ~Ends(c)
  <2> DEFINE p == AfterStop(c)
             r == [calls[c] EXCEPT !.phase = p, !.runtime = 0]
  <2>1. calls' = [calls EXCEPT ![c] = r] /\ p # None
    BY <1>5 DEF Stopped
  <2>2. p \in Phase /\ 0 \in 0..MaxStarts
    BY <2>1, AfterStopPhase, ProjectsConstants DEF Phase
  <2>3. /\ calls[c].kind = "move" => p = "patch"
        /\ calls[c].kind \notin {"issue", "start"}
    BY <2>1, AfterStopPhase DEF AfterStop
  <2> HIDE DEF p
  <2>4. /\ r \in Call /\ r.quiet = calls[c].quiet /\ r.kind = calls[c].kind
        /\ r.phase = p
    BY <2>2, CallFields DEF Inv, Call
  <2> HIDE DEF r
  <2>5. Silent(r)
    BY <2>3, <2>4 DEF Silence, Silent
  <2>6. QED
    BY <1>1, <2>1, <2>4, <2>5, OneSilent
<1>6. CASE Spawn(c) \/ Forget(c)
  BY <1>1, <1>6, SilentEnds DEF Spawn, Forget, Started
<1>7. QED
  BY <1>2, <1>3, <1>4, <1>5, <1>6

\* Nothing else makes a call silent, and nothing else enables the Project.
LEMMA SilentElse ==
    ASSUME Inv, Silence,
           \/ Refresh \/ Crash \/ CommitHead \/ Edit \/ UNCHANGED vars
           \/ \E i \in Runtime : RunnerEnds(i) \/ WaitForExit(i)
           \/ \E c \in Calls : Shutdown(c) \/ ShutDown(c) \/ Boot(c) \/ Terminate(c)
    PROVE  Silence'
<1>1. project' = project
  BY DEF Refresh, Crash, CommitHead, Edit, RunnerEnds, WaitForExit, Shutdown, ShutDown, Boot,
         Terminate, vars
<1>2. \A c \in Calls : calls'[c] = calls[c] \/ ~calls'[c].quiet
  <2>1. CASE \/ CommitHead \/ Edit \/ UNCHANGED vars
             \/ \E i \in Runtime : RunnerEnds(i) \/ WaitForExit(i)
    BY <2>1 DEF CommitHead, Edit, vars, RunnerEnds, WaitForExit
  <2>2. ~NoCall.quiet
    BY DEF NoCall
  <2>3. CASE Crash \/ \E c \in Calls : ShutDown(c)
    BY <2>2, <2>3 DEF Crash, ShutDown, Gone
  <2>4. CASE \E c \in Calls : Terminate(c)
    BY <2>4 DEF Terminate
  <2>5. ASSUME NEW c \in Calls, NEW k \in Kind, NEW p \in Phase,
               calls' = [calls EXCEPT ![c] = [NoCall EXCEPT !.kind = k, !.phase = p]]
        PROVE  \A d \in Calls : calls'[d] = calls[d] \/ ~calls'[d].quiet
    <3> DEFINE r == [NoCall EXCEPT !.kind = k, !.phase = p]
    <3>1. r \in Call /\ ~r.quiet
      BY NoCallIsCall DEF Call, NoCall
    <3>2. calls' = [calls EXCEPT ![c] = r]
      BY <2>5
    <3> HIDE DEF r
    <3>3. QED
      BY <3>1, <3>2, OneCall DEF Inv
  <2>6. {"refresh", "shutdown", "boot"} \subseteq Kind /\ {"check", "stop", "lock"} \subseteq Phase
    BY DEF Kind, Phase
  <2>7. CASE Refresh
    <3>1. PICK c \in Calls :
            calls' = [calls EXCEPT ![c] = [NoCall EXCEPT !.kind = "refresh", !.phase = "check"]]
      BY <2>7 DEF Refresh
    <3>2. QED
      BY <2>5, <2>6, <3>1
  <2>8. CASE \E c \in Calls : Shutdown(c)
    BY <2>5, <2>6, <2>8 DEF Shutdown
  <2>9. CASE \E c \in Calls : Boot(c)
    BY <2>5, <2>6, <2>9 DEF Boot
  <2>10. QED
    BY <2>1, <2>3, <2>4, <2>7, <2>8, <2>9
<1>3. ASSUME NEW d \in Calls PROVE Silent(calls[d])'
  <2>1. Silent(calls'[d])
    BY <1>2 DEF Silence, Silent
  <2>2. QED
    BY <1>1, <2>1 DEF Silent
<1>4. QED
  BY <1>3 DEF Silence

-----------------------------------------------------------------------------
(* The theorems *)

LEMMA InitInv == ASSUME Init PROVE Inv
<1>1. /\ NoRow \in Row /\ NoRow.status = "absent"
  BY NoCallIsCall DEF NoRow, NoCall, Call
<1> DEFINE a == [status |-> "available", enabled |-> TRUE, snapshot |-> 0]
           free == [process |-> None, ours |-> FALSE, state |-> "stopped"]
<1>2. a \in Row /\ a.status = "available" /\ 0 \in Commit
  BY ProjectsConstants DEF Row, Commit
<1>3. free \in ProjectRuntime /\ free.process = None /\ free.ours = FALSE
  BY DEF ProjectRuntime
<1>4. /\ head = 0 /\ edited \in BOOLEAN
      /\ project = NoRow \/ project = a
      /\ project = NoRow => issue = None
      /\ issue = None \/ issue = [commit |-> 0, claimed |-> FALSE]
      /\ calls = [c \in Calls |-> NoCall]
      /\ runtimes = [i \in Runtime |-> free]
      /\ starts = 0 /\ registered = 0 /\ lock = None /\ server = "up" /\ events = 0
  BY DEF Init
<1> HIDE DEF a, free
<1>5. issue \in Issue \cup {None}
  <2>1. [commit |-> 0, claimed |-> FALSE] \in Issue
    BY <1>2 DEF Issue
  <2>2. QED
    BY <1>4, <2>1
<1>6. TypeOK
  <2>1. project \in Row /\ head \in Commit
    BY <1>1, <1>2, <1>4
  <2>2. calls \in [Calls -> Call]
    BY <1>4, NoCallIsCall
  <2>3. runtimes \in [Runtime -> ProjectRuntime]
    BY <1>3, <1>4
  <2>4. starts \in 0..MaxStarts /\ registered \in 0..starts /\ events \in 0..MaxEvents
    BY <1>4, ProjectsConstants
  <2>5. QED
    BY <1>4, <1>5, <2>1, <2>2, <2>3, <2>4 DEF TypeOK
<1>7. Locks
  BY <1>4, NoneIsNothing DEF Locks, NoCall, Phase
<1>8. Unused /\ OneRunner
  BY <1>3, <1>4 DEF Unused, OneRunner
<1>9. IssueKeepsProject
  BY <1>2, <1>4 DEF IssueKeepsProject, Exists
<1>10. \A c \in Calls : Fits(calls[c]) /\ Relies(calls[c])
  BY <1>4, NoCallFits
<1>11. QED
  BY <1>6, <1>7, <1>8, <1>9, <1>10 DEF Inv

LEMMA StepInv == ASSUME Inv, [Next]_vars PROVE Inv'
<1>1. CASE UNCHANGED vars
  <2>1. UNCHANGED <<head, edited, project, issue, calls, runtimes, starts, registered, lock,
                    server, events>>
    BY <1>1 DEF vars, repository, supervisor, process
  <2>2. ASSUME NEW d \in Calls PROVE (Fits(calls[d]) /\ Relies(calls[d]))'
    <3>1. Fits(calls[d]) /\ Relies(calls[d])
      BY DEF Inv
    <3>2. QED
      BY <2>1, <3>1 DEF Fits, Relies, Exists
  <2>3. TypeOK' /\ Locks' /\ Unused' /\ OneRunner' /\ IssueKeepsProject'
    BY <2>1 DEF Inv, TypeOK, Locks, Unused, OneRunner, IssueKeepsProject, Exists, Alive
  <2>4. QED
    BY <2>2, <2>3 DEF Inv
<1>2. CASE Refresh \/ Crash \/ Outside
  BY <1>2, RefreshKeeps, EndKeeps, RepositoryKeeps, ProcessesKeep DEF Outside
<1>3. ASSUME NEW c \in Calls, Requests(c) PROVE Inv'
  BY <1>3, CreateKeeps, RequestsKeep, ShutdownKeeps, BootKeeps DEF Requests
<1>4. ASSUME NEW c \in Calls, Validates(c) PROVE Inv'
  BY <1>4, ReadsKeep, RecordKeeps DEF Validates, Reads
<1>5. ASSUME NEW c \in Calls, Supervises(c) PROVE Inv'
  BY <1>5, StartProjectKeeps, SpawnKeeps, StopProjectKeeps, ProcessesKeep, StoppedKeeps,
     ForgetKeeps DEF Supervises
<1>6. ASSUME NEW c \in Calls, Writes(c) PROVE Inv'
  BY <1>6, ReadsKeep, PatchWriteKeeps, DeleteRowKeeps, InsertKeeps, TakeKeeps, EndKeeps
     DEF Writes, Reads
<1>7. CASE \E i \in Runtime : WaitForExit(i)
  BY <1>7, ProcessesKeep
<1>8. QED
  BY <1>1, <1>2, <1>3, <1>4, <1>5, <1>6, <1>7 DEF Next

\* The strengthened invariant.
LEMMA Invariant == Safety => []Inv
<1>1. Init => Inv
  BY InitInv
<1>2. Inv /\ [Next]_vars => Inv'
  BY StepInv
<1>3. QED
  BY <1>1, <1>2, PTL DEF Safety

\* The variables keep their types.
THEOREM TypeCorrect == Spec => []TypeOK
<1>1. Inv => TypeOK
  BY DEF Inv
<1>2. QED
  BY <1>1, Invariant, PTL DEF Spec

\* However many calls start, stop, move and delete the Project together, and whenever
\* the control plane shuts down or ends, there is at most one live process that it
\* started for the Project, it is the registered one, and a shutdown leaves none.
THEOREM OneRunnerAtMost == Spec => []OneRunner
<1>1. Inv => OneRunner
  BY DEF Inv
<1>2. QED
  BY <1>1, Invariant, PTL DEF Spec

\* No deletion takes the Project from an Issue, whatever was created between the
\* check of the deletion and its write.
THEOREM IssuesKeepTheirProject == Spec => []IssueKeepsProject
<1>1. Inv => IssueKeepsProject
  BY DEF Inv
<1>2. QED
  BY <1>1, Invariant, PTL DEF Spec

LEMMA SilentStep == ASSUME Inv, Silence, [Next]_vars PROVE Silence'
<1>1. CASE (UNCHANGED vars) \/ Refresh \/ Crash \/ Outside \/ \E i \in Runtime : WaitForExit(i)
  BY <1>1, SilentElse DEF Outside
<1>2. ASSUME NEW c \in Calls, Requests(c) PROVE Silence'
  BY <1>2, SilentCreate, SilentRequests, SilentElse DEF Requests
<1>3. ASSUME NEW c \in Calls, Validates(c) PROVE Silence'
  BY <1>3, SilentReads, SilentRecord DEF Validates, Reads
<1>4. ASSUME NEW c \in Calls, Supervises(c) PROVE Silence'
  BY <1>4, SilentSupervises, SilentElse DEF Supervises
<1>5. ASSUME NEW c \in Calls, Writes(c) PROVE Silence'
  BY <1>5, SilentReads, SilentPatchWrite, SilentWrites, SilentElse DEF Writes, Reads
<1>6. QED
  BY <1>1, <1>2, <1>3, <1>4, <1>5 DEF Next

LEMMA SilenceInvariant == Safety => []Silence
<1>1. Init => Silence
  BY NoCallSilent DEF Init, Silence
<1>2. Inv /\ Silence /\ [Next]_vars => Silence'
  BY SilentStep
<1>3. QED
  BY <1>1, <1>2, Invariant, PTL DEF Safety

\* Only a call that is about to insert, to take or to create a process grants anything.
LEMMA Granting ==
    ASSUME Inv, [Next]_vars, NEW c \in Calls, Grants(c)
    PROVE  calls[c].phase \in {"insert", "take", "spawn"}
<1>1. runtimes \in [Runtime -> ProjectRuntime]
  BY DEF Inv, TypeOK
<1>2. ASSUME NEW d \in Calls, Insert(d) \/ Take(d) \/ Spawn(d)
      PROVE  calls[c].phase \in {"insert", "take", "spawn"}
  <2>1. Ends(d) /\ calls[d].phase \in {"insert", "take", "spawn"}
    BY <1>2 DEF Insert, Take, Spawn, Started, At
  <2>2. c # d => calls'[c] = calls[c]
    BY <2>1, EndsCall, OneCall DEF Inv
  <2>3. QED
    BY <2>1, <2>2 DEF Grants
<1>3. CASE issue' # issue
  <2>1. PICK d \in Calls : Insert(d) \/ Take(d)
    <3>1. ~UNCHANGED vars /\ ~Refresh /\ ~Crash /\ ~Outside /\ \A i \in Runtime : ~WaitForExit(i)
      BY <1>3 DEF vars, Refresh, Crash, Outside, CommitHead, Edit, RunnerEnds, WaitForExit
    <3>2. ASSUME NEW d \in Calls
          PROVE  ~Requests(d) /\ ~Validates(d) /\ ~Supervises(d)
      <4>1. ~Requests(d)
        BY <1>3 DEF Requests, Create, Validate, Delete, CreateIssue, Claim, Start, Stop,
                    Shutdown, Boot, Patch
      <4>2. ~Validates(d)
        BY <1>3 DEF Validates, RefreshIfChanged, Look, Judge, Record
      <4>3. ~Supervises(d)
        BY <1>3 DEF Supervises, StartProject, Spawn, StopProject, Terminate, Stopped, Forget
      <4>4. QED
        BY <4>1, <4>2, <4>3
    <3>3. PICK d \in Calls : Writes(d)
      BY <3>1, <3>2 DEF Next
    <3>4. QED
      BY <1>3, <3>3 DEF Writes, PatchRead, PatchWrite, DeleteRead, DeleteRow, Bind, ShutDown
  <2>2. QED
    BY <1>2, <2>1
<1>4. CASE \E i \in Runtime : runtimes[i].process = None /\ runtimes'[i].process = "live"
  <2>1. PICK i \in Runtime : runtimes[i].process = None /\ runtimes'[i].process = "live"
    BY <1>4
  <2>2. runtimes' # runtimes /\ None # "live"
    BY <2>1, NoneIsNothing
  <2>3. PICK d \in Calls : Spawn(d)
    <3>1. ~UNCHANGED vars /\ ~Refresh /\ ~CommitHead /\ ~Edit
      BY <2>2 DEF vars, supervisor, Refresh, CommitHead, Edit
    <3>2. ~Crash
      <4>1. ASSUME Crash PROVE runtimes'[i].process = runtimes[i].process
        <5>1. runtimes'[i] = [runtimes[i] EXCEPT !.ours = FALSE, !.state = "stopped"]
          BY <4>1 DEF Crash
        <5>2. QED
          BY <1>1, <5>1 DEF ProjectRuntime
      <4>2. QED
        BY <2>1, <2>2, <4>1
    <3>3. \A j \in Runtime : ~RunnerEnds(j) /\ ~WaitForExit(j)
      BY <1>1, <2>1, <2>2 DEF RunnerEnds, WaitForExit, ProjectRuntime
    <3>4. ASSUME NEW d \in Calls
          PROVE  ~Requests(d) /\ ~Validates(d) /\ ~Writes(d)
      <4>1. ~Requests(d)
        BY <2>2 DEF Requests, Create, Validate, Delete, CreateIssue, Claim, Start, Stop,
                    Shutdown, Boot, Patch, supervisor
      <4>2. ~Validates(d)
        BY <2>2 DEF Validates, RefreshIfChanged, Look, Judge, Record, supervisor
      <4>3. ~Writes(d)
        BY <2>2 DEF Writes, PatchRead, PatchWrite, DeleteRead, DeleteRow, Bind, Insert, Take,
                    ShutDown, supervisor
      <4>4. QED
        BY <4>1, <4>2, <4>3
    <3>5. PICK d \in Calls : Supervises(d)
      BY <3>1, <3>2, <3>3, <3>4 DEF Next, Outside
    <3>6. ~StartProject(d)
      BY <1>1, <2>1, <2>2 DEF StartProject, ProjectRuntime, supervisor
    <3>7. ~StopProject(d)
      BY <1>1, <2>1, <2>2 DEF StopProject, ProjectRuntime
    <3>8. ~Terminate(d)
      BY <1>1, <2>1, <2>2 DEF Terminate, ProjectRuntime
    <3>9. ~Stopped(d) /\ ~Forget(d)
      BY <2>2 DEF Stopped, Forget, supervisor
    <3>10. QED
      BY <3>5, <3>6, <3>7, <3>8, <3>9 DEF Supervises
  <2>4. QED
    BY <1>2, <2>3
<1>5. QED
  BY <1>3, <1>4 DEF Grants

\* A call that came in while the Project was disabled, and was not overtaken by one
\* that enabled it, gets no Issue, no Claim and no Runner, whatever validations and
\* patches of the row are written in between.
THEOREM NothingGrantedWhileDisabled == Spec => NothingWhileDisabled
<1>1. ASSUME Inv, Silence, [Next]_vars, NEW c \in Calls, calls[c].quiet
      PROVE  ~Grants(c)
  <2>1. calls[c].phase \notin {"insert", "take", "spawn"}
    BY <1>1 DEF Silence, Silent
  <2>2. QED
    BY <1>1, <2>1, Granting
<1>2. Inv /\ Silence /\ [Next]_vars =>
        [\A c \in Calls : calls[c].quiet => ~Grants(c)]_vars
  BY <1>1
<1>3. QED
  BY <1>2, Invariant, SilenceInvariant, PTL DEF Spec, Safety, NothingWhileDisabled
=============================================================================
