----------------------- MODULE ProjectsBinding_proofs -----------------------
(***************************************************************************)
(* An Issue is bound to a commit that was the newest when it was asked     *)
(* for, or to a later one, although the request refreshes the Project in   *)
(* one transaction and reads it in another, and other validations, patches *)
(* and deletions are written in between.                                   *)
(*                                                                         *)
(* The argument: whatever is written after the request came, by a call     *)
(* that looked at the repository after it came, is as new as the request   *)
(* wants it.                                                               *)
(***************************************************************************)
EXTENDS Projects_proofs

\* A row p that there is, and a snapshot of the commit n or of a later one.
There(p) == p.status \notin {"absent", "deleted"}
AsNew(s, n) == s \in Commit /\ s >= n
Serves(p, n) == p.status = "available" => AsNew(p.snapshot, n)

\* Only a validation and a patch remember a row.
Blank(r) == r.phase \notin {"patched", "look", "judge", "record"} => r.row = NoRow

\* What the call r will write to the row p is no older than the commit n: neither the
\* commit it has looked up, nor the snapshot that it has read and may leave as it is.
Fresh(p, r, n) ==
    /\ r.phase \in {"judge", "record"} => r.commit >= n
    /\ There(p) /\ AsNew(r.row.snapshot, n) => AsNew(p.snapshot, n)

\* Where a request for an Issue can be, and what it may rely on there, with the row p
\* and the newest commit h.
Course(h, p, r) ==
    /\ r.kind = "issue"
    /\ r.phase \in {"check", "look", "judge", "record", "bind", "insert"}
    /\ r.floor <= h
    /\ r.phase = "record" /\ r.row.status # "available" => Serves(p, r.floor)
    /\ r.phase = "bind" => Serves(p, r.floor)
    /\ r.phase = "insert" => r.commit >= r.floor

AllFresh(n) == \A d \in Calls : Fresh(project, calls[d], n)

Binding ==
    \A c \in Calls :
      /\ Blank(calls[c])
      /\ calls[c].alone => Course(head, project, calls[c]) /\ AllFresh(calls[c].floor)

-----------------------------------------------------------------------------
(* Steps of the row and of one call *)

\* What becomes of the row p: q brings nothing older than n back.
Steady(p, q, n) ==
    /\ There(q) => There(p)
    /\ There(q) /\ AsNew(p.snapshot, n) => AsNew(q.snapshot, n)
    /\ q.status = "available" /\ p.status # "available" => AsNew(q.snapshot, n)

\* The same call as far as the binding goes.
Same(q, r) ==
    /\ q.kind = r.kind /\ q.phase = r.phase /\ q.row = r.row /\ q.commit = r.commit
    /\ q.floor = r.floor /\ q.alone = r.alone

LEMMA SteadyFresh ==
    ASSUME NEW p, NEW q, NEW n, NEW r, Steady(p, q, n), Fresh(p, r, n)
    PROVE  Fresh(q, r, n)
BY DEF Steady, Fresh

LEMMA SteadyServes ==
    ASSUME NEW p, NEW q, NEW n, Steady(p, q, n), Serves(p, n)
    PROVE  Serves(q, n)
BY DEF Steady, Serves, There

LEMMA SteadyCourse ==
    ASSUME NEW h \in Commit, NEW g \in Commit, h <= g,
           NEW p, NEW q, NEW r \in Call, Steady(p, q, r.floor), Course(h, p, r)
    PROVE  Course(g, q, r)
<1>1. r.floor <= g
  <2>1. r.floor \in Commit
    BY DEF Call
  <2>2. QED
    BY <2>1, ProjectsConstants DEF Course, Commit
<1>2. QED
  BY <1>1, SteadyServes DEF Course

LEMMA SameCall ==
    ASSUME NEW q, NEW r, Same(q, r)
    PROVE  /\ Blank(r) => Blank(q)
           /\ \A p, n : Fresh(p, r, n) => Fresh(p, q, n)
           /\ \A h, p : Course(h, p, r) => Course(h, p, q)
BY DEF Same, Blank, Fresh, Course

LEMMA Unchanged == ASSUME NEW p, NEW n PROVE Steady(p, p, n)
BY DEF Steady

\* One call changes, and the row perhaps with it.
LEMMA BoundStep ==
    ASSUME Inv, Binding, NEW c \in Calls, NEW r \in Call,
           calls' \in [Calls -> Call], calls'[c] = r,
           \A d \in Calls : d # c => Same(calls'[d], calls[d]),
           head' = head, Blank(r),
           \A n \in Commit :
             n <= head /\ project.status # "absent" /\ AllFresh(n)
               => Steady(project, project', n) /\ Fresh(project', r, n),
           r.alone => /\ Course(head, project', r)
                      /\ (calls[c].alone /\ r.floor = calls[c].floor) \/ AllFresh(r.floor)'
    PROVE  Binding'
<1>1. ASSUME NEW e \in Calls, calls[e].alone
      PROVE  /\ Steady(project, project', calls[e].floor)
             /\ \A d \in Calls : Fresh(project', calls'[d], calls[e].floor)
  <2> DEFINE n == calls[e].floor
  <2>1. n \in Commit /\ n <= head /\ AllFresh(n) /\ calls[e].kind = "issue"
    BY <1>1, CallFields DEF Inv, Binding, Course
  <2>2. project.status # "absent"
    BY <2>1, NoneIsNothing DEF Inv, Fits, Kind
  <2> HIDE DEF n
  <2>3. Steady(project, project', n) /\ Fresh(project', r, n)
    BY <2>1, <2>2
  <2>4. ASSUME NEW d \in Calls PROVE Fresh(project', calls'[d], n)
    <3>1. CASE d = c
      BY <2>3, <3>1
    <3>2. CASE d # c
      <4>1. Fresh(project', calls[d], n)
        BY <2>1, <2>3, SteadyFresh DEF AllFresh
      <4>2. QED
        BY <3>2, <4>1, SameCall
    <3>3. QED
      BY <3>1, <3>2
  <2>5. QED
    BY <2>3, <2>4 DEF n
<1>2. ASSUME NEW d \in Calls
      PROVE  /\ Blank(calls'[d])
             /\ calls'[d].alone => Course(head, project', calls'[d])
                                   /\ \A e \in Calls : Fresh(project', calls'[e], calls'[d].floor)
  <2>1. CASE d = c
    BY <1>1, <2>1 DEF AllFresh
  <2>2. CASE d # c
    <3>1. Same(calls'[d], calls[d]) /\ Blank(calls[d]) /\ calls[d] \in Call /\ head \in Commit
      BY <2>2, CallFields DEF Binding, Inv, TypeOK
    <3>2. Blank(calls'[d])
      BY <3>1, SameCall
    <3>3. CASE calls'[d].alone
      <4>1. calls[d].alone /\ calls'[d].floor = calls[d].floor
        BY <3>1, <3>3 DEF Same
      <4>2. Course(head, project, calls[d]) /\ head <= head
        BY <3>1, <4>1, ProjectsConstants DEF Binding, Commit
      <4>3. Course(head, project', calls[d])
        BY <1>1, <3>1, <4>1, <4>2, SteadyCourse
      <4>4. Course(head, project', calls'[d])
        BY <3>1, <4>3, SameCall
      <4>5. QED
        BY <1>1, <3>2, <4>1, <4>4
    <3>4. QED
      BY <3>2, <3>3
  <2>3. QED
    BY <2>1, <2>2
<1>3. QED
  BY <1>2 DEF Binding, AllFresh

LEMMA OneBound ==
    ASSUME Inv, Binding, NEW c \in Calls, NEW r \in Call, calls' = [calls EXCEPT ![c] = r],
           head' = head, project' = project, Blank(r),
           \A n \in Commit : n <= head /\ AllFresh(n) => Fresh(project, r, n),
           r.alone => Course(head, project, r) /\ calls[c].alone /\ r.floor = calls[c].floor
    PROVE  Binding'
<1>1. /\ calls' \in [Calls -> Call] /\ calls'[c] = r
      /\ \A d \in Calls : d # c => calls'[d] = calls[d]
  BY OneCall DEF Inv
<1>2. \A d \in Calls : d # c => Same(calls'[d], calls[d])
  BY <1>1 DEF Same
<1>3. \A n \in Commit : Steady(project, project', n)
  BY Unchanged
<1>4. QED
  BY <1>1, <1>2, <1>3, BoundStep

\* A call that is not a request under way alone, and remembers no row.
LEMMA Aside ==
    ASSUME Inv, Binding, NEW c \in Calls, NEW r \in Call, calls' = [calls EXCEPT ![c] = r],
           head' = head, project' = project,
           r.row = NoRow, ~r.alone, r.phase \notin {"judge", "record"}
    PROVE  Binding'
<1>1. Blank(r) /\ \A n \in Commit : Fresh(project, r, n)
  BY NoneIsNothing DEF Blank, Fresh, NoRow, AsNew
<1>2. QED
  BY <1>1, OneBound

LEMMA BoundEnds ==
    ASSUME Inv, Binding, NEW c \in Calls, Ends(c), head' = head, project' = project
    PROVE  Binding'
<1>1. /\ NoCall \in Call /\ NoCall.row = NoRow /\ ~NoCall.alone
      /\ NoCall.phase \notin {"judge", "record"}
  BY NoCallIsCall, NoneIsNothing DEF NoCall, Phase
<1>2. QED
  BY <1>1, Aside DEF Ends

\* A request is where Course says.
LEMMA AloneIsThere ==
    ASSUME Binding, NEW c \in Calls, calls[c].alone
    PROVE  /\ calls[c].kind = "issue"
           /\ calls[c].phase \in {"check", "look", "judge", "record", "bind", "insert"}
BY DEF Binding, Course

\* A call goes on with what it remembers.
LEMMA BoundGoes ==
    ASSUME Inv, Binding, NEW c \in Calls, NEW p \in Phase, Goes(c, p),
           head' = head, project' = project, ~calls[c].alone,
           calls[c].row = NoRow, p \notin {"judge", "record"}
    PROVE  Binding'
<1> DEFINE r == [calls[c] EXCEPT !.phase = p]
<1>1. calls' = [calls EXCEPT ![c] = r] /\ calls[c] \in Call
  BY CallFields DEF Goes, Inv
<1>2. r \in Call /\ r.row = calls[c].row /\ r.alone = calls[c].alone /\ r.phase = p
  BY <1>1 DEF Call
<1> HIDE DEF r
<1>3. QED
  BY <1>1, <1>2, Aside

-----------------------------------------------------------------------------
(* Calls that come in *)

LEMMA BoundComes ==
    ASSUME Inv, Binding, NEW c \in Calls, NEW k \in Kind, NEW p \in Phase, Comes(c, k, p),
           head' = head, project' = project,
           k = "issue" => p = "check", p \notin {"judge", "record"}
    PROVE  Binding'
<1>1. PICK r \in Call, f \in Commit, a \in BOOLEAN :
         /\ calls' = [calls EXCEPT ![c] = r]
         /\ r.kind = k /\ r.phase = p /\ r.row = NoRow /\ r.alone = a /\ r.floor = f
         /\ a => k = "issue" /\ f = head /\ Validating = {}
  <2> DEFINE q == k \in {"issue", "claim", "start", "move"} /\ Exists /\ ~project.enabled
             f == IF k = "issue" THEN head ELSE 0
             a == k = "issue" /\ Validating = {}
             r == [NoCall EXCEPT !.kind = k, !.phase = p, !.quiet = q, !.floor = f,
                                 !.alone = a]
  <2>1. calls' = [calls EXCEPT ![c] = r]
    BY DEF Comes
  <2>2. q \in BOOLEAN /\ f \in Commit /\ a \in BOOLEAN
    BY ProjectsConstants DEF Inv, TypeOK, Commit
  <2>3. a => k = "issue" /\ f = head /\ Validating = {}
    OBVIOUS
  <2> HIDE DEF q, f, a
  <2>4. r \in Call
    BY <2>2, NoCallIsCall DEF Call
  <2>5. r.kind = k /\ r.phase = p /\ r.row = NoRow /\ r.alone = a /\ r.floor = f
    BY DEF NoCall
  <2> HIDE DEF r
  <2>6. QED
    BY <2>1, <2>2, <2>3, <2>4, <2>5
<1>2. CASE ~a
  BY <1>1, <1>2, Aside
<1>3. CASE a
  <2>1. /\ calls' \in [Calls -> Call] /\ calls'[c] = r
        /\ \A d \in Calls : d # c => calls'[d] = calls[d]
    BY <1>1, OneCall DEF Inv
  <2>2. Blank(r) /\ \A n \in Commit : Fresh(project, r, n)
    BY <1>1, NoneIsNothing DEF Blank, Fresh, NoRow, AsNew
  <2>3. ASSUME NEW d \in Calls PROVE Fresh(project, calls'[d], f)
    <3>1. CASE d = c
      BY <2>1, <2>2, <3>1
    <3>2. CASE d # c
      <4>1. calls[d].phase \notin {"patched", "look", "judge", "record"}
        BY <1>1, <1>3 DEF Validating
      <4>2. calls[d].row = NoRow
        BY <4>1 DEF Binding, Blank
      <4>3. QED
        BY <2>1, <3>2, <4>1, <4>2, NoneIsNothing DEF Fresh, NoRow, AsNew
    <3>3. QED
      BY <3>1, <3>2
  <2>4. AllFresh(r.floor)'
    BY <1>1, <2>3 DEF AllFresh
  <2>5. head <= head
    BY ProjectsConstants DEF Inv, TypeOK, Commit
  <2>6. Course(head, project', r)
    BY <1>1, <1>3, <2>5 DEF Course
  <2>7. \A n \in Commit : Steady(project, project', n) /\ Fresh(project', r, n)
    BY <2>2, Unchanged
  <2>8. \A d \in Calls : d # c => Same(calls'[d], calls[d])
    BY <2>1 DEF Same
  <2>9. QED
    BY <2>1, <2>2, <2>4, <2>6, <2>7, <2>8, BoundStep
<1>4. QED
  BY <1>1, <1>2, <1>3

LEMMA BoundRequests ==
    ASSUME Inv, Binding, NEW c \in Calls,
           \/ Validate(c) \/ Delete(c) \/ CreateIssue(c) \/ Claim(c) \/ Start(c) \/ Stop(c)
           \/ \E k \in Kind : Patch(c, k)
    PROVE  Binding'
<1>1. {"validate", "delete", "issue", "claim", "start", "stop"} \subseteq Kind
  BY DEF Kind
<1>2. {"look", "stop", "check", "take", "lock", "patch"} \subseteq Phase
  BY DEF Phase
<1>3. head' = head /\ project' = project
  BY DEF Validate, Delete, CreateIssue, Claim, Start, Stop, Patch, repository
<1>4. CASE Validate(c)
  BY <1>1, <1>2, <1>3, <1>4, BoundComes DEF Validate
<1>5. CASE Delete(c)
  BY <1>1, <1>2, <1>3, <1>5, BoundComes DEF Delete
<1>6. CASE CreateIssue(c)
  BY <1>1, <1>2, <1>3, <1>6, BoundComes DEF CreateIssue
<1>7. CASE Claim(c)
  BY <1>1, <1>2, <1>3, <1>7, BoundComes DEF Claim
<1>8. CASE Start(c)
  <2>1. PICK p \in {"lock", "look"} : Comes(c, "start", p)
    BY <1>8 DEF Start
  <2>2. QED
    BY <1>1, <1>2, <1>3, <2>1, BoundComes
<1>9. CASE Stop(c)
  BY <1>1, <1>2, <1>3, <1>9, BoundComes DEF Stop
<1>10. ASSUME NEW k \in Kind, Patch(c, k) PROVE Binding'
  <2>1. PICK p \in {"patch", "stop"} : Comes(c, k, p)
    BY <1>10 DEF Patch
  <2>2. k # "issue"
    BY <1>10 DEF Patch
  <2>3. QED
    BY <1>2, <1>3, <2>1, <2>2, BoundComes
<1>11. QED
  BY <1>4, <1>5, <1>6, <1>7, <1>8, <1>9, <1>10

\* The refresher, and the start and the end of the server.
LEMMA BoundTask ==
    ASSUME Inv, Binding, NEW c \in Calls, NEW k \in Kind, NEW p \in Phase \ {"judge", "record"},
           calls' = [calls EXCEPT ![c] = [NoCall EXCEPT !.kind = k, !.phase = p]],
           head' = head, project' = project
    PROVE  Binding'
<1> DEFINE r == [NoCall EXCEPT !.kind = k, !.phase = p]
<1>1. r \in Call /\ r.row = NoRow /\ ~r.alone /\ r.phase = p
  BY NoCallIsCall DEF Call, NoCall
<1>2. calls' = [calls EXCEPT ![c] = r]
  OBVIOUS
<1> HIDE DEF r
<1>3. QED
  BY <1>1, <1>2, Aside

-----------------------------------------------------------------------------
(* Calls that read *)

LEMMA BoundReads ==
    ASSUME Inv, Binding, NEW c \in Calls, Reads(c)
    PROVE  Binding'
<1>1. head' = head /\ project' = project
  BY DEF Reads, RefreshIfChanged, Look, Judge, PatchRead, DeleteRead, Bind, repository
<1>2. CASE Ends(c)
  BY <1>1, <1>2, BoundEnds
<1>3. calls[c] \in Call /\ Blank(calls[c]) /\ head \in Commit /\ project \in Row
  BY CallFields DEF Inv, TypeOK, Binding
<1>4. /\ \A n \in Commit : AllFresh(n) => Fresh(project, calls[c], n)
      /\ calls[c].alone => Course(head, project, calls[c])
  BY DEF AllFresh, Binding
<1>5. CASE RefreshIfChanged(c) /\ ~Ends(c)
  <2>1. calls[c].phase = "check"
    BY <1>5 DEF RefreshIfChanged, At
  <2>2. PICK p \in {"look", "bind"} : /\ Goes(c, p)
                                      /\ p = "bind" => project.snapshot = head
    BY <1>5, NoneIsNothing DEF RefreshIfChanged, AfterRefresh, GoesOrEnds, Phase
  <2> DEFINE r == [calls[c] EXCEPT !.phase = p]
  <2>3. calls' = [calls EXCEPT ![c] = r]
    BY <2>2 DEF Goes
  <2>4. /\ r \in Call /\ r.kind = calls[c].kind /\ r.phase = p /\ r.row = calls[c].row
        /\ r.floor = calls[c].floor /\ r.alone = calls[c].alone
    BY <1>3 DEF Call, Phase
  <2> HIDE DEF r
  <2>5. calls[c].row = NoRow
    BY <1>3, <2>1 DEF Blank
  <2>6. Blank(r) /\ \A n \in Commit : Fresh(project, r, n)
    BY <2>4, <2>5, NoneIsNothing DEF Blank, Fresh, NoRow, AsNew
  <2>7. r.alone => Course(head, project, r)
    <3>1. p = "bind" /\ r.floor <= head => Serves(project, r.floor)
      BY <1>3, <2>2 DEF Serves, AsNew
    <3>2. QED
      BY <1>4, <2>4, <3>1 DEF Course
  <2>8. QED
    BY <1>1, <2>3, <2>4, <2>6, <2>7, OneBound
<1>6. CASE DeleteRead(c) /\ ~Ends(c)
  <2>1. calls[c].phase = "delete" /\ Goes(c, "erase") /\ "erase" \in Phase
    BY <1>6 DEF DeleteRead, At, GoesOrEnds, Phase
  <2>2. ~calls[c].alone /\ calls[c].row = NoRow
    BY <1>3, <2>1, AloneIsThere DEF Blank
  <2>3. QED
    BY <1>1, <2>1, <2>2, BoundGoes
<1>7. CASE Look(c) /\ ~Ends(c)
  <2> DEFINE r == [calls[c] EXCEPT !.phase = "judge", !.commit = head]
  <2>1. calls[c].phase = "look" /\ calls' = [calls EXCEPT ![c] = r]
    BY <1>7 DEF Look, At
  <2>2. /\ r \in Call /\ r.kind = calls[c].kind /\ r.phase = "judge" /\ r.commit = head
        /\ r.row = calls[c].row /\ r.floor = calls[c].floor /\ r.alone = calls[c].alone
    BY <1>3 DEF Call, Phase
  <2> HIDE DEF r
  <2>3. Blank(r) /\ \A n \in Commit : n <= head /\ AllFresh(n) => Fresh(project, r, n)
    BY <1>4, <2>2 DEF Blank, Fresh
  <2>4. r.alone => Course(head, project, r)
    BY <1>4, <2>2 DEF Course
  <2>5. QED
    BY <1>1, <2>1, <2>2, <2>3, <2>4, OneBound
<1>8. CASE Judge(c) /\ ~Ends(c)
  <2> DEFINE w == IF KeepsRow(c) THEN calls[c].row ELSE project
             g == Passes
             r == [calls[c] EXCEPT !.phase = "record", !.good = g, !.row = w]
  <2>1. calls[c].phase = "judge" /\ calls' = [calls EXCEPT ![c] = r]
    BY <1>8 DEF Judge, At
  <2>2. w \in Row /\ g \in BOOLEAN
    BY <1>3, CallFields DEF Inv, TypeOK, Passes
  <2>3. (calls[c].kind = "issue" => w = project) /\ w \in {project, calls[c].row}
    BY DEF KeepsRow
  <2> HIDE DEF w, g
  <2>4. /\ r \in Call /\ r.kind = calls[c].kind /\ r.phase = "record" /\ r.row = w
        /\ r.commit = calls[c].commit /\ r.floor = calls[c].floor
        /\ r.alone = calls[c].alone
    BY <1>3, <2>2 DEF Call, Phase
  <2> HIDE DEF r
  <2>5. Blank(r) /\ \A n \in Commit : n <= head /\ AllFresh(n) => Fresh(project, r, n)
    BY <1>4, <2>1, <2>3, <2>4 DEF Blank, Fresh
  <2>6. r.alone => Course(head, project, r)
    BY <1>4, <2>3, <2>4 DEF Course, Serves
  <2>7. QED
    BY <1>1, <2>1, <2>4, <2>5, <2>6, OneBound
<1>9. CASE PatchRead(c) /\ ~Ends(c)
  <2> DEFINE r == [calls[c] EXCEPT !.phase = "patched", !.row = project]
  <2>1. calls[c].phase = "patch" /\ calls' = [calls EXCEPT ![c] = r]
    BY <1>9 DEF PatchRead, At
  <2>2. /\ r \in Call /\ r.phase = "patched" /\ r.row = project
        /\ r.alone = calls[c].alone
    BY <1>3 DEF Call, Phase
  <2> HIDE DEF r
  <2>3. Blank(r) /\ ~r.alone /\ \A n \in Commit : Fresh(project, r, n)
    BY <2>1, <2>2, AloneIsThere DEF Blank, Fresh
  <2>4. QED
    BY <1>1, <2>1, <2>2, <2>3, OneBound
<1>10. CASE Bind(c) /\ ~Ends(c)
  <2> DEFINE r == [calls[c] EXCEPT !.phase = "insert", !.commit = project.snapshot]
  <2>1. /\ calls[c].phase = "bind" /\ project.snapshot # None /\ project.status = "available"
        /\ calls' = [calls EXCEPT ![c] = r]
    BY <1>10 DEF Bind, At, Open
  <2>2. project.snapshot \in Commit
    BY <1>3, <2>1 DEF Row
  <2>3. /\ r \in Call /\ r.kind = calls[c].kind /\ r.phase = "insert"
        /\ r.commit = project.snapshot
        /\ r.row = calls[c].row /\ r.floor = calls[c].floor /\ r.alone = calls[c].alone
    BY <1>3, <2>2 DEF Call, Phase
  <2> HIDE DEF r
  <2>4. Blank(r) /\ \A n \in Commit : AllFresh(n) => Fresh(project, r, n)
    BY <1>3, <1>4, <2>1, <2>3 DEF Blank, Fresh
  <2>5. r.alone => Course(head, project, r)
    BY <1>4, <2>1, <2>3 DEF Course, Serves, AsNew
  <2>6. QED
    BY <1>1, <2>1, <2>3, <2>4, <2>5, OneBound
<1>11. QED
  BY <1>2, <1>5, <1>6, <1>7, <1>8, <1>9, <1>10 DEF Reads

-----------------------------------------------------------------------------
(* Calls that write *)

\* What a session leaves of the row.
LEMMA SavedColumns ==
    ASSUME NEW c \in Calls, NEW new, project' = Saved(c, new)
    PROVE  /\ project'.status = Column(project.status, calls[c].row.status, new.status)
           /\ project'.snapshot = Column(project.snapshot, calls[c].row.snapshot, new.snapshot)
BY DEF Saved

\* A validation writes a status that says available only with a snapshot that is no
\* older than what all calls go by.
LEMMA RecordSteady ==
    ASSUME Inv, NEW c \in Calls, Record(c), Exists, NEW n \in Commit,
           Fresh(project, calls[c], n)
    PROVE  /\ Steady(project, project', n)
           /\ calls[c].row.status # "available" => (Serves(project, n) => Serves(project', n))
           /\ calls[c].row.status = "available" => Serves(project', n)
<1> DEFINE new == Outcome(calls[c])
           row == calls[c].row
<1>1. /\ calls[c].phase = "record" /\ project' = Saved(c, new)
  BY DEF Record, At
<1>2. /\ project'.status = Column(project.status, row.status, new.status)
      /\ project'.snapshot = Column(project.snapshot, row.snapshot, new.snapshot)
  BY <1>1, SavedColumns
<1>3. /\ new.status = "available" => calls[c].good
      /\ ~calls[c].good => new.snapshot = row.snapshot
      /\ calls[c].good => new.snapshot = calls[c].commit
  BY DEF Outcome
<1>4. AsNew(calls[c].commit, n)
  BY <1>1, CallFields DEF Inv, Fresh, AsNew
<1>5. There(project) /\ (AsNew(row.snapshot, n) => AsNew(project.snapshot, n))
  BY DEF There, Exists, Fresh
<1> HIDE DEF new, row
<1>6. calls[c].good => AsNew(project'.snapshot, n)
  BY <1>2, <1>3, <1>4, <1>5 DEF Column
<1>7. ~calls[c].good => project'.snapshot = project.snapshot
  BY <1>2, <1>3 DEF Column
<1>8. project'.status = "available" =>
        \/ calls[c].good
        \/ project.status = "available" /\ row.status # "available"
  BY <1>2, <1>3 DEF Column
<1>9. project'.status = "available" /\ project.status # "available" => calls[c].good
  BY <1>2, <1>3 DEF Column
<1>10. Steady(project, project', n)
  BY <1>5, <1>6, <1>7, <1>9 DEF Steady
<1>11. row.status = "available" => Serves(project', n)
  BY <1>6, <1>8 DEF Serves
<1>12. QED
  BY <1>10, <1>11, SteadyServes DEF row

LEMMA BoundRecord ==
    ASSUME Inv, Binding, NEW c \in Calls, Record(c)
    PROVE  Binding'
<1>1. head' = head /\ calls[c].phase = "record"
  BY DEF Record, repository, At
<1>2. CASE ~Exists
  BY <1>1, <1>2, BoundEnds DEF Record
<1>3. CASE Exists
  <2>1. PICK p \in {None, "bind", "lock"} : p = AfterValidation(c, Outcome(calls[c]))
    BY AfterValidationPhase
  <2> DEFINE l == [calls[c] EXCEPT !.phase = p, !.row = NoRow, !.commit = 0, !.good = FALSE]
  <2>2. calls' = [calls EXCEPT ![c] = NoCall] \/ calls' = [calls EXCEPT ![c] = l]
    BY <1>3, <2>1 DEF Record, Ends
  <2>3. /\ l \in Call /\ l.kind = calls[c].kind /\ l.phase = p /\ l.row = NoRow
        /\ l.floor = calls[c].floor /\ l.alone = calls[c].alone
    <3>1. NoRow \in Row /\ 0 \in Commit /\ p \in Phase \cup {None}
      BY NoCallIsCall DEF NoCall, Call, Phase
    <3>2. QED
      BY <3>1, CallFields DEF Inv, Call
  <2>4. calls[c].kind = "issue" => p = "bind"
    BY <2>1 DEF AfterValidation
  <2> HIDE DEF l
  <2>5. PICK r \in Call :
          /\ calls' = [calls EXCEPT ![c] = r] /\ r.row = NoRow
          /\ r.phase \in {None, "bind", "lock"}
          /\ r.alone => /\ calls[c].alone /\ r.floor = calls[c].floor
                        /\ r.kind = calls[c].kind /\ r.phase = p
    <3>1. NoCall \in Call /\ NoCall.row = NoRow /\ NoCall.phase = None /\ ~NoCall.alone
      BY NoCallIsCall DEF NoCall
    <3>2. QED
      BY <2>2, <2>3, <3>1
  <2>6. /\ calls' \in [Calls -> Call] /\ calls'[c] = r
        /\ \A d \in Calls : d # c => calls'[d] = calls[d]
    BY <2>5, OneCall DEF Inv
  <2>7. \A d \in Calls : d # c => Same(calls'[d], calls[d])
    BY <2>6 DEF Same
  <2>8. Blank(r) /\ \A n \in Commit : Fresh(project', r, n)
    BY <2>5, NoneIsNothing DEF Blank, Fresh, NoRow, AsNew, Phase
  <2>9. \A n \in Commit : AllFresh(n) => Steady(project, project', n)
    BY <1>3, RecordSteady DEF AllFresh
  <2>10. ASSUME r.alone PROVE Course(head, project', r)
    <3>1. /\ Course(head, project, calls[c]) /\ AllFresh(calls[c].floor)
          /\ calls[c].floor \in Commit
      BY <2>5, <2>10, CallFields DEF Binding, Inv
    <3>2. Serves(project', calls[c].floor)
      <4>1. calls[c].row.status # "available" => Serves(project, calls[c].floor)
        BY <1>1, <3>1 DEF Course
      <4>2. Fresh(project, calls[c], calls[c].floor)
        BY <3>1 DEF AllFresh
      <4>3. QED
        BY <1>3, <3>1, <4>1, <4>2, RecordSteady
    <3>3. r.kind = "issue" /\ r.phase = "bind" /\ r.floor = calls[c].floor
      BY <2>4, <2>5, <2>10, <3>1 DEF Course
    <3>4. QED
      BY <3>1, <3>2, <3>3 DEF Course
  <2>11. QED
    BY <1>1, <2>5, <2>6, <2>7, <2>8, <2>9, <2>10, BoundStep
<1>4. QED
  BY <1>2, <1>3

\* A patch makes no Project available, and leaves its snapshot.
LEMMA BoundPatchWrite ==
    ASSUME Inv, Binding, NEW c \in Calls, PatchWrite(c)
    PROVE  Binding'
<1> DEFINE new == Patched(calls[c])
           u == calls[c].kind # "enable"
           known == [d \in Calls |-> [calls[d] EXCEPT !.quiet = @ /\ u]]
           l == [known[c] EXCEPT !.phase = "look", !.row = new]
           q == IF new.enabled THEN l ELSE NoCall
<1>1. /\ calls[c].phase = "patched" /\ head' = head
      /\ ~Exists => Ends(c) /\ UNCHANGED project
      /\ Exists => project' = Saved(c, new) /\ calls' = [known EXCEPT ![c] = q]
  BY DEF PatchWrite, At, repository
<1>2. CASE ~Exists
  BY <1>1, <1>2, BoundEnds
<1>3. CASE Exists
  <2>1. ~calls[c].alone /\ calls[c].row \in Row
    BY <1>1, AloneIsThere, CallFields DEF Inv
  <2>2. /\ new.snapshot = calls[c].row.snapshot
        /\ new.status \in {calls[c].row.status, "disabled"}
        /\ new \in Row
    <3> DEFINE e == calls[c].kind = "enable" \/ (calls[c].row.enabled /\ calls[c].kind = "move")
               s == IF e THEN calls[c].row.status ELSE "disabled"
    <3>1. new = [calls[c].row EXCEPT !.enabled = e, !.status = s]
      BY DEF Patched
    <3>2. e \in BOOLEAN /\ s \in {calls[c].row.status, "disabled"}
      BY <2>1 DEF Row
    <3> HIDE DEF new, e, s
    <3>3. QED
      BY <2>1, <3>1, <3>2 DEF Row
  <2>3. /\ project'.status = project.status \/ project'.status = "disabled"
        /\ project'.snapshot = project.snapshot
    BY <1>1, <1>3, <2>2, SavedColumns DEF Column
  <2>4. \A n \in Commit : Steady(project, project', n)
    BY <1>3, <2>3 DEF Steady, There, Exists
  <2>5. ASSUME NEW d \in Calls
        PROVE  known[d] \in Call /\ Same(known[d], calls[d])
    <3> DEFINE b == calls[d].quiet /\ u
    <3>1. known[d] = [calls[d] EXCEPT !.quiet = b] /\ b \in BOOLEAN
      OBVIOUS
    <3> HIDE DEF known, b
    <3>2. QED
      BY <3>1, CallFields DEF Inv, Call, Same
  <2>6. known = [d \in Calls |-> known[d]]
    OBVIOUS
  <2>7. calls' = [known EXCEPT ![c] = q] /\ q \in {l, NoCall}
    BY <1>1, <1>3
  <2> HIDE DEF new, known, q
  <2>8. l \in Call /\ l.phase = "look" /\ l.row = new /\ ~l.alone
    BY <2>1, <2>2, <2>5 DEF Call, Phase, Same
  <2> HIDE DEF l
  <2>9. PICK r \in Call : r = q /\ ~r.alone /\ Blank(r)
                          /\ r.phase \notin {"judge", "record"}
                          /\ (r.row = NoRow \/ r.row = new)
    <3>1. /\ NoCall \in Call /\ NoCall.row = NoRow /\ ~NoCall.alone
          /\ NoCall.phase \notin {"judge", "record"} /\ Blank(NoCall)
      BY NoCallIsCall, NoneIsNothing DEF NoCall, Phase, Blank
    <3>2. Blank(l)
      BY <2>8 DEF Blank
    <3>3. QED
      BY <2>7, <2>8, <3>1, <3>2
  <2>10. /\ calls'[c] = r /\ calls' \in [Calls -> Call]
         /\ \A d \in Calls : d # c => calls'[d] = known[d]
    BY <2>5, <2>6, <2>7, <2>9
  <2>11. \A n \in Commit : AllFresh(n) => Fresh(project', r, n)
    <3>1. \A n : ~AsNew(NoRow.snapshot, n)
      BY NoneIsNothing DEF NoRow, AsNew
    <3>2. \A n \in Commit : AllFresh(n) => Fresh(project, calls[c], n)
      BY DEF AllFresh
    <3>3. QED
      BY <1>3, <2>2, <2>3, <2>9, <3>1, <3>2 DEF Fresh, There, Exists
  <2>12. \A d \in Calls : d # c => Same(calls'[d], calls[d])
    BY <2>5, <2>10
  <2>13. QED
    BY <1>1, <2>4, <2>9, <2>10, <2>11, <2>12, BoundStep
<1>4. QED
  BY <1>2, <1>3

LEMMA BoundCreate ==
    ASSUME Inv, Binding, NEW c \in Calls, Create(c)
    PROVE  Binding'
<1>1. /\ project.status = "absent" /\ head' = head
      /\ calls' = [calls EXCEPT ![c] = [NoCall EXCEPT !.kind = "create", !.phase = "look",
                                                      !.row = NewRow]]
  BY DEF Create, repository
<1>2. NewRow \in Row
  BY DEF NewRow, Row
<1>3. PICK r \in Call : calls' = [calls EXCEPT ![c] = r] /\ r.phase = "look" /\ ~r.alone
  <2> DEFINE s == [NoCall EXCEPT !.kind = "create", !.phase = "look", !.row = NewRow]
  <2>1. s \in Call /\ s.phase = "look" /\ ~s.alone
    BY <1>2, NoCallIsCall DEF Call, Kind, Phase, NoCall
  <2> HIDE DEF s
  <2>2. QED
    BY <1>1, <2>1 DEF s
<1>4. /\ calls' \in [Calls -> Call] /\ calls'[c] = r
      /\ \A d \in Calls : d # c => calls'[d] = calls[d]
  BY <1>3, OneCall DEF Inv
<1>5. Blank(r) /\ \A d \in Calls : d # c => Same(calls'[d], calls[d])
  BY <1>3, <1>4 DEF Blank, Same
<1>6. QED
  BY <1>1, <1>3, <1>4, <1>5, BoundStep

LEMMA BoundWrites ==
    ASSUME Inv, Binding, NEW c \in Calls, DeleteRow(c) \/ Insert(c) \/ Take(c)
    PROVE  Binding'
<1>1. head' = head /\ calls[c].phase \in {"erase", "insert", "take"}
  BY DEF DeleteRow, Insert, Take, repository, At
<1>2. CASE Ends(c) /\ project' = project
  BY <1>1, <1>2, BoundEnds
<1>3. CASE DeleteRow(c) /\ Exists /\ issue = None
  <2> DEFINE s == [calls[c] EXCEPT !.phase = "forget"]
  <2>1. /\ calls[c].phase = "erase" /\ calls' = [calls EXCEPT ![c] = s]
        /\ project' = [NoRow EXCEPT !.status = "deleted"]
    BY <1>3 DEF DeleteRow, At, Goes
  <2>2. project'.status = "deleted"
    BY <2>1 DEF NoRow
  <2>3. ~calls[c].alone /\ calls[c].row = NoRow /\ calls[c] \in Call
    BY <2>1, AloneIsThere, CallFields DEF Inv, Binding, Blank
  <2>4. s \in Call /\ s.phase = "forget" /\ s.row = NoRow /\ ~s.alone
    BY <2>3 DEF Call, Phase
  <2> HIDE DEF s
  <2>5. PICK r \in Call : /\ calls' = [calls EXCEPT ![c] = r]
                          /\ r.phase = "forget" /\ r.row = NoRow /\ ~r.alone
    BY <2>1, <2>4
  <2>6. /\ calls' \in [Calls -> Call] /\ calls'[c] = r
        /\ \A d \in Calls : d # c => calls'[d] = calls[d]
    BY <2>5, OneCall DEF Inv
  <2>7. Blank(r) /\ \A d \in Calls : d # c => Same(calls'[d], calls[d])
    BY <2>5, <2>6 DEF Blank, Same
  <2>8. \A n \in Commit : Steady(project, project', n) /\ Fresh(project', r, n)
    BY <2>2, <2>5 DEF Steady, Fresh, There
  <2>9. QED
    BY <1>1, <2>5, <2>6, <2>7, <2>8, BoundStep
<1>4. QED
  BY <1>2, <1>3 DEF DeleteRow, Insert, Take

-----------------------------------------------------------------------------
(* Everything else *)

LEMMA BoundSupervises ==
    ASSUME Inv, Binding, NEW c \in Calls,
           StartProject(c) \/ Spawn(c) \/ StopProject(c) \/ Stopped(c) \/ Forget(c)
    PROVE  Binding'
<1>1. /\ head' = head /\ project' = project
      /\ calls[c].phase \in {"lock", "spawn", "stop", "stopping", "forget"}
  BY DEF StartProject, Spawn, StopProject, Stopped, Forget, repository, At
<1>2. ~calls[c].alone /\ calls[c].row = NoRow /\ calls[c] \in Call
  BY <1>1, AloneIsThere, CallFields DEF Inv, Binding, Blank
<1>3. CASE Ends(c)
  BY <1>1, <1>3, BoundEnds
<1>4. ASSUME NEW p \in Phase, NEW n \in 0..MaxStarts,
             calls' = [calls EXCEPT ![c].phase = p, ![c].runtime = n],
             p \notin {"judge", "record"}
      PROVE  Binding'
  <2> DEFINE r == [calls[c] EXCEPT !.phase = p, !.runtime = n]
  <2>1. r \in Call /\ r.row = NoRow /\ ~r.alone /\ r.phase = p
    BY <1>2 DEF Call
  <2>2. calls' = [calls EXCEPT ![c] = r]
    BY <1>4
  <2> HIDE DEF r
  <2>3. QED
    BY <1>1, <1>4, <2>1, <2>2, Aside
<1>5. AfterStop(c) \in {"patch", "delete", "down", None}
  BY DEF AfterStop
<1>6. CASE StartProject(c) /\ ~Ends(c)
  <2>1. /\ calls' = [calls EXCEPT ![c].phase = "spawn", ![c].runtime = starts + 1]
        /\ starts < MaxStarts
    BY <1>6 DEF StartProject, Started
  <2>2. PICK n \in 0..MaxStarts : n = starts + 1
    BY <2>1, ProjectsConstants DEF Inv, TypeOK
  <2>3. "spawn" \in Phase
    BY DEF Phase
  <2>4. QED
    BY <1>4, <2>1, <2>2, <2>3
<1>7. CASE StopProject(c) /\ ~Ends(c)
  <2>1. CASE Alive(registered)
    <3>1. calls' = [calls EXCEPT ![c].phase = "stopping", ![c].runtime = registered]
      BY <1>7, <2>1 DEF StopProject
    <3>2. PICK n \in 0..MaxStarts : n = registered
      BY ProjectsConstants DEF Inv, TypeOK
    <3>3. "stopping" \in Phase
      BY DEF Phase
    <3>4. QED
      BY <1>4, <3>1, <3>2, <3>3
  <2>2. CASE ~Alive(registered)
    <3>1. Goes(c, AfterStop(c)) /\ AfterStop(c) # None
      BY <1>7, <2>2 DEF StopProject, GoesOrEnds
    <3>2. PICK p \in Phase : p = AfterStop(c) /\ p \notin {"judge", "record"}
      BY <1>5, <3>1 DEF Phase
    <3>3. QED
      BY <1>1, <1>2, <3>1, <3>2, BoundGoes
  <2>3. QED
    BY <2>1, <2>2
<1>8. CASE Stopped(c) /\ ~Ends(c)
  <2>1. /\ calls' = [calls EXCEPT ![c].phase = AfterStop(c), ![c].runtime = 0]
        /\ AfterStop(c) # None
    BY <1>8 DEF Stopped
  <2>2. PICK p \in Phase : p = AfterStop(c) /\ p \notin {"judge", "record"}
    BY <1>5, <2>1 DEF Phase
  <2>3. 0 \in 0..MaxStarts
    BY ProjectsConstants
  <2>4. QED
    BY <1>4, <2>1, <2>2, <2>3
<1>9. QED
  BY <1>3, <1>6, <1>7, <1>8 DEF Spawn, Forget, Started

\* The newest commit only gets newer, and a control plane that ends forgets its calls.
LEMMA BoundElse ==
    ASSUME Inv, Binding,
           \/ Refresh \/ Crash \/ CommitHead \/ Edit \/ UNCHANGED vars
           \/ \E i \in Runtime : RunnerEnds(i) \/ WaitForExit(i)
           \/ \E c \in Calls : Shutdown(c) \/ ShutDown(c) \/ Boot(c) \/ Terminate(c)
    PROVE  Binding'
<1>1. project' = project
  BY DEF Refresh, Crash, CommitHead, Edit, RunnerEnds, WaitForExit, Shutdown, ShutDown, Boot,
         Terminate, vars
<1>2. ASSUME calls' = calls, head' \in Commit, head <= head' PROVE Binding'
  <2>1. ASSUME NEW d \in Calls
        PROVE  /\ Blank(calls'[d])
               /\ calls'[d].alone => Course(head', project', calls'[d])
                                     /\ \A e \in Calls :
                                          Fresh(project', calls'[e], calls'[d].floor)
    <3>1. calls'[d] = calls[d] /\ Blank(calls[d]) /\ calls[d] \in Call /\ head \in Commit
      BY <1>2, CallFields DEF Binding, Inv, TypeOK
    <3>2. CASE calls[d].alone
      <4>1. Course(head, project, calls[d]) /\ AllFresh(calls[d].floor)
        BY <3>2 DEF Binding
      <4>2. Course(head', project', calls[d])
        BY <1>1, <1>2, <3>1, <4>1, Unchanged, SteadyCourse
      <4>3. QED
        BY <1>1, <1>2, <3>1, <4>1, <4>2 DEF AllFresh
    <3>3. QED
      BY <3>1, <3>2
  <2>2. QED
    BY <2>1 DEF Binding, AllFresh
<1>3. head <= head
  BY ProjectsConstants DEF Inv, TypeOK, Commit
<1>4. CASE \/ Edit \/ UNCHANGED vars
           \/ \E i \in Runtime : RunnerEnds(i) \/ WaitForExit(i)
           \/ \E c \in Calls : Terminate(c)
  <2>1. calls' = calls /\ head' = head
    BY <1>4 DEF Edit, vars, RunnerEnds, WaitForExit, Terminate, repository
  <2>2. QED
    BY <1>2, <1>3, <2>1 DEF Inv, TypeOK
<1>5. CASE CommitHead
  <2>1. calls' = calls /\ head' = head + 1 /\ head < MaxCommits
    BY <1>5 DEF CommitHead
  <2>2. head' \in Commit /\ head <= head'
    BY <2>1, ProjectsConstants DEF Inv, TypeOK, Commit
  <2>3. QED
    BY <1>2, <2>1, <2>2
<1>6. CASE Crash \/ \E c \in Calls : ShutDown(c)
  <2>1. calls' = [c \in Calls |-> NoCall]
    BY <1>6 DEF Crash, ShutDown, Gone
  <2>2. NoCall.row = NoRow /\ ~NoCall.alone
    BY DEF NoCall
  <2>3. QED
    BY <2>1, <2>2 DEF Binding, Blank
<1>7. {"refresh", "shutdown", "boot"} \subseteq Kind
        /\ {"check", "stop", "lock"} \subseteq Phase \ {"judge", "record"}
  BY DEF Kind, Phase
<1>8. CASE Refresh
  <2>1. head' = head
    BY <1>8 DEF Refresh, repository
  <2>2. PICK c \in Calls :
          calls' = [calls EXCEPT ![c] = [NoCall EXCEPT !.kind = "refresh", !.phase = "check"]]
    BY <1>8 DEF Refresh
  <2>3. QED
    BY <1>1, <1>7, <2>1, <2>2, BoundTask
<1>9. CASE \E c \in Calls : Shutdown(c)
  BY <1>1, <1>7, <1>9, BoundTask DEF Shutdown, repository
<1>10. ASSUME NEW c \in Calls, Boot(c) PROVE Binding'
  <2>1. head' = head
    BY <1>10 DEF Boot, repository
  <2>2. CASE calls' = calls
    BY <1>2, <1>3, <2>1, <2>2 DEF Inv, TypeOK
  <2>3. CASE calls' = [calls EXCEPT ![c] = [NoCall EXCEPT !.kind = "boot", !.phase = "lock"]]
    BY <1>1, <1>7, <2>1, <2>3, BoundTask
  <2>4. QED
    BY <1>10, <2>2, <2>3 DEF Boot
<1>11. QED
  BY <1>4, <1>5, <1>6, <1>8, <1>9, <1>10

-----------------------------------------------------------------------------
(* The theorem *)

LEMMA BoundNext == ASSUME Inv, Binding, [Next]_vars PROVE Binding'
<1>1. CASE (UNCHANGED vars) \/ Refresh \/ Crash \/ Outside \/ \E i \in Runtime : WaitForExit(i)
  BY <1>1, BoundElse DEF Outside
<1>2. ASSUME NEW c \in Calls, Requests(c) PROVE Binding'
  BY <1>2, BoundCreate, BoundRequests, BoundElse DEF Requests
<1>3. ASSUME NEW c \in Calls, Validates(c) PROVE Binding'
  BY <1>3, BoundReads, BoundRecord DEF Validates, Reads
<1>4. ASSUME NEW c \in Calls, Supervises(c) PROVE Binding'
  BY <1>4, BoundSupervises, BoundElse DEF Supervises
<1>5. ASSUME NEW c \in Calls, Writes(c) PROVE Binding'
  BY <1>5, BoundReads, BoundPatchWrite, BoundWrites, BoundElse DEF Writes, Reads
<1>6. QED
  BY <1>1, <1>2, <1>3, <1>4, <1>5 DEF Next

LEMMA BindingInvariant == Safety => []Binding
<1>1. Init => Binding
  BY DEF Init, Binding, Blank, NoCall
<1>2. Inv /\ Binding /\ [Next]_vars => Binding'
  BY BoundNext
<1>3. QED
  BY <1>1, <1>2, Invariant, PTL DEF Safety

\* A request for an Issue that came while no validation was under way gets an Issue
\* bound to a commit no older than the newest there was when it came, whatever is
\* validated, patched and committed between its transactions.
THEOREM IssuesAreBoundToNewest == Spec => BoundToNewest
<1>1. ASSUME Binding, NEW c \in Calls, issue = None, Insert(c), issue' # None, calls[c].alone
      PROVE  issue'.commit >= calls[c].floor
  <2>1. calls[c].phase = "insert" /\ Course(head, project, calls[c])
    BY <1>1 DEF Binding, Insert, At
  <2>2. issue'.commit = calls[c].commit
    BY <1>1 DEF Insert
  <2>3. QED
    BY <2>1, <2>2 DEF Course
<1>2. Binding /\ [Next]_vars =>
        [\A c \in Calls : issue = None /\ Insert(c) /\ issue' # None /\ calls[c].alone
                            => issue'.commit >= calls[c].floor]_vars
  BY <1>1
<1>3. QED
  BY <1>2, BindingInvariant, PTL DEF Spec, Safety, BoundToNewest
=============================================================================
