--------------------------- MODULE Runner_proofs ---------------------------
(***************************************************************************)
(* Proofs about Runner: what holds of the workspaces for any Issues, any   *)
(* capacity and any number of Attempts and of starts of the process.       *)
(***************************************************************************)
EXTENDS Runner, TLAPS

-----------------------------------------------------------------------------
(* The inductive invariant *)

Cloning == {"clone", "undo"}
Using == {"launch", "agent"}

\* An Issue that is over, or was when the removal of its workspace was decided.
Over(i) == Terminal(i) \/ i \in revived
Doomed(i) == Aimed(i) \/ i \in undoing

\* An Attempt in phase p, the directory d of its Issue, whether it is known that this
\* may be no finished clone, whether a removal is going on that nobody waits for, and
\* whether the Issue is over.  A clone is not finished as long as it is being made;
\* one that nobody is making is known not to be; and a removal that was left behind
\* meets nothing else, unless the Issue is over.
Place(p, d, known, going, over) ==
    /\ p \in Cloning => d # "whole"
    /\ p \in Using /\ d # "whole" => known
    /\ d = "partial" => p \in Cloning \/ known
    /\ going => over \/ (d = "partial" /\ p \notin Cloning)

\* An entry of the running map is empty or has an Attempt.
Numbered ==
    \A i \in Issues : IF entry[i].phase = None THEN entry[i] = Free
                                              ELSE entry[i].token \in Token

\* Whoever has an Issue in mind has one, and the answer of a refresh is only kept
\* while it is worked through.
Cancelling == pc = "cancelling" => victim.issue \in Issues
Reconciling ==
    \A i \in Issues : seen[i] # None =>
      \/ pc = "cleaning"
      \/ /\ \/ pc = "reconcile"
            \/ pc = "cancelling" /\ victim.issue # i /\ victim.back = "reconcile"
         /\ entry[i].phase # None
Archiving == archive.phase # None => archive.issue \in Issues

\* Whoever is about to remove a workspace saw that its Issue was over.
Aims == \A i \in Issues : Aimed(i) => Over(i)

Places ==
    \A i \in Issues :
      Place(entry[i].phase, dir[i], i \in broken, i \in undoing, Over(i))

IInv ==
    /\ TypeOK
    /\ Numbered
    /\ Cancelling
    /\ Reconciling
    /\ Archiving
    /\ Aims
    /\ Places

-----------------------------------------------------------------------------
(* Parts of a step *)

\* No Issue that is over comes back unnoticed while its workspace is to go.
OverStays == \A i \in Issues : Doomed(i) /\ Over(i) => Over(i)'

LEMMA KeepsRows ==
    ASSUME rows' = rows, revived' = revived
    PROVE  OverStays
BY DEF OverStays, Over, Terminal

\* An Issue that is not over changes its status.
LEMMA MovesRow ==
    ASSUME TypeOK, NEW i \in Issues, NEW s \in RowStatus, Moved(i, s)
    PROVE  /\ rows' \in [Issues -> Row]
           /\ rows'[i].status = s
           /\ \A j \in Issues : j # i => rows'[j] = rows[j]
           /\ revived' = revived /\ (~Terminal(i) \/ s = "cancelled") => OverStays
<1>1. rows \in [Issues -> Row] /\ rows[i] \in Row
  BY DEF TypeOK
<1> DEFINE r == [rows[i] EXCEPT !.status = s, !.token = 0]
<1>2. r \in Row /\ r.status = s
  BY <1>1 DEF Row
<1>3. rows' = [rows EXCEPT ![i] = r]
  BY DEF Moved
<1> HIDE DEF r
<1>4. /\ rows' \in [Issues -> Row] /\ rows'[i] = r
      /\ \A j \in Issues : j # i => rows'[j] = rows[j]
  BY <1>1, <1>2, <1>3
<1>5. QED
  BY <1>2, <1>4 DEF OverStays, Over, Terminal

\* A claim is granted: its number is that of an Attempt.
LEMMA GrantsRow ==
    ASSUME TypeOK, NEW i \in Issues, Granted(i), rows[i].status = "ready",
           issued[i] < MaxAttempts, revived' = revived
    PROVE  /\ rows' \in [Issues -> Row]
           /\ issued' \in [Issues -> 0..MaxAttempts]
           /\ issued[i] + 1 \in Token
           /\ OverStays
<1>1. /\ rows \in [Issues -> Row] /\ rows[i] \in Row
      /\ issued \in [Issues -> 0..MaxAttempts] /\ issued[i] \in 0..MaxAttempts
  BY DEF TypeOK
<1> DEFINE k == issued[i] + 1
           r == [rows[i] EXCEPT !.status = "running", !.token = k]
<1>2. k \in Token /\ k \in 0..MaxAttempts
  BY <1>1, RunnerConstants DEF Token
<1>3. rows' = [rows EXCEPT ![i] = r] /\ issued' = [issued EXCEPT ![i] = k]
  BY DEF Granted
<1> HIDE DEF k
<1>4. r \in Row /\ r.status = "running"
  BY <1>1, <1>2 DEF Row, RowStatus
<1> HIDE DEF r
<1>5. QED
  BY <1>1, <1>2, <1>3, <1>4 DEF OverStays, Over, Terminal, k

\* Nobody takes aim at a workspace in a step that leaves these alone.
LEMMA SameAims ==
    ASSUME seen' = seen \/ (\A i \in Issues : seen'[i] # "terminal"),
           pc' # "cancelling" \/ (pc' = pc /\ victim' = victim),
           archive' = archive
    PROVE  \A i \in Issues : Aimed(i)' => Aimed(i)
BY DEF Aimed

LEMMA KeepsAims ==
    ASSUME IInv, OverStays, \A i \in Issues : Aimed(i)' => Aimed(i)
    PROVE  Aims'
BY DEF IInv, Aims, OverStays, Doomed

\* Phases between which an Attempt can go with its directory as it is.
Calm(p, q) ==
    \/ p \in Cloning /\ q \in Cloning
    \/ p \notin Cloning /\ q \notin Cloning /\ (q \in Using => p \in Using)

\* What is known of a place.
LEMMA PlaceOf ==
    ASSUME IInv, OverStays, NEW i \in Issues
    PROVE  /\ entry[i].phase \in Cloning => dir[i] # "whole"
           /\ entry[i].phase \in Using /\ dir[i] # "whole" => i \in broken
           /\ dir[i] = "partial" => entry[i].phase \in Cloning \/ i \in broken
           /\ i \in undoing =>
                Over(i) \/ (dir[i] = "partial" /\ entry[i].phase \notin Cloning)
           /\ i \in undoing /\ Over(i) => Over(i)'
BY DEF IInv, Places, Place, OverStays, Doomed

LEMMA CalmPlaces ==
    ASSUME IInv, OverStays, UNCHANGED disk,
           \A i \in Issues : Calm(entry[i].phase, entry'[i].phase)
    PROVE  Places'
<1>1. ASSUME NEW i \in Issues
      PROVE  Place(entry'[i].phase, dir'[i], i \in broken', i \in undoing', Over(i)')
  <2>1. dir' = dir /\ broken' = broken /\ undoing' = undoing
    BY DEF disk
  <2>2. PICK p, q, d : p = entry[i].phase /\ q = entry'[i].phase /\ d = dir[i]
    OBVIOUS
  <2>3. /\ p \in Cloning => d # "whole"
        /\ p \in Using /\ d # "whole" => i \in broken
        /\ d = "partial" => p \in Cloning \/ i \in broken
        /\ i \in undoing => Over(i) \/ (d = "partial" /\ p \notin Cloning)
        /\ i \in undoing /\ Over(i) => Over(i)'
        /\ Calm(p, q)
    BY <2>2, PlaceOf
  <2>4. /\ q \in Cloning => d # "whole"
        /\ q \in Using /\ d # "whole" => i \in broken'
        /\ d = "partial" => q \in Cloning \/ i \in broken'
        /\ i \in undoing' => Over(i)' \/ (d = "partial" /\ q \notin Cloning)
    BY <2>1, <2>3 DEF Calm, Cloning, Using
  <2>5. QED
    BY <2>1, <2>2, <2>4 DEF Place
<1>2. QED
  BY <1>1 DEF Places

LEMMA KeepsEntries ==
    ASSUME entry' = entry
    PROVE  \A i \in Issues : Calm(entry[i].phase, entry'[i].phase)
BY DEF Calm

LEMMA KeepsSeen ==
    ASSUME IInv, seen' = seen, pc' = pc, victim' = victim,
           \A i \in Issues : entry[i].phase # None => entry'[i].phase # None
    PROVE  Reconciling'
BY DEF IInv, Reconciling

\* Outside of the clean-up and of the reconciliation the answer of the refresh has
\* been dealt with.
LEMMA NothingSeen ==
    ASSUME IInv, pc \notin {"cleaning", "reconcile", "cancelling"}
    PROVE  /\ \A i \in Issues : seen[i] = None
           /\ seen' = seen => Reconciling'
BY DEF IInv, Reconciling

\* One entry changes.
LEMMA GoesEntry ==
    ASSUME IInv, NEW i \in Issues, NEW e \in Entry, entry' = [entry EXCEPT ![i] = e],
           e.phase # None, e.token \in Token
    PROVE  /\ entry' \in [Issues -> Entry]
           /\ Numbered'
           /\ entry'[i] = e
           /\ \A j \in Issues : j # i => entry'[j] = entry[j]
BY DEF IInv, TypeOK, Numbered, Token, Free

LEMMA GoesPhase ==
    ASSUME IInv, NEW i \in Issues, NEW p \in Phase, Goes(i, p), entry[i].phase # None
    PROVE  /\ entry' \in [Issues -> Entry]
           /\ Numbered'
           /\ entry'[i].phase = p
           /\ \A j \in Issues : j # i => entry'[j] = entry[j]
<1> DEFINE e == [entry[i] EXCEPT !.phase = p]
<1>1. entry[i] \in Entry /\ entry[i].token \in Token
  BY DEF IInv, TypeOK, Numbered
<1>2. e \in Entry /\ e.token \in Token /\ e.phase = p /\ p # None
  BY <1>1, NoneIsNothing DEF Entry
<1>3. entry' = [entry EXCEPT ![i] = e]
  BY DEF Goes
<1> HIDE DEF e
<1>4. QED
  BY <1>2, <1>3, GoesEntry

\* Entries of Attempts that are done are taken out of the map.
LEMMA ReapsEntries ==
    ASSUME IInv, entry' = Reaped
    PROVE  /\ entry' \in [Issues -> Entry]
           /\ Numbered'
           /\ \A i \in Issues : Calm(entry[i].phase, entry'[i].phase)
<1>1. Free \in Entry /\ Free.phase = None
  BY DEF Free, Entry
<1>2. None \notin Cloning /\ None \notin Using
  BY NoneIsNothing DEF Cloning, Using, Phase
<1>3. \A i \in Issues : entry'[i] = entry[i] \/ (entry[i].phase = "done" /\ entry'[i] = Free)
  BY DEF Reaped
<1>4. entry' = [i \in Issues |-> entry'[i]]
  BY DEF Reaped
<1>5. QED
  BY <1>1, <1>2, <1>3, <1>4 DEF IInv, TypeOK, Numbered, Calm, Cloning, Using, Token

\* Cancelling the task of an Attempt.
LEMMA CancelsEntry ==
    ASSUME NEW e \in Entry, e.phase # None
    PROVE  /\ Cancelled(e) \in Entry
           /\ Cancelled(e).phase \in Phase
           /\ Cancelled(e).phase = CancelledPhase(e.phase)
           /\ Cancelled(e).token = e.token
<1> DEFINE p == CancelledPhase(e.phase)
<1>1. p \in Phase
  BY DEF CancelledPhase, Phase
<1>2. Cancelled(e) = [e EXCEPT !.phase = p]
  BY DEF Cancelled
<1> HIDE DEF p
<1>3. Cancelled(e) \in Entry /\ Cancelled(e).phase = p /\ Cancelled(e).token = e.token
  BY <1>1, <1>2 DEF Entry
<1>4. QED
  BY <1>1, <1>3 DEF p

\* What cancelling Attempts leaves of their places: a removal is abandoned where one
\* was waited for.
LEMMA CancelsPlaces ==
    ASSUME IInv, NEW them \in SUBSET Issues, Abandoned(them),
           rows' = rows, revived' = revived,
           \A i \in them : entry'[i].phase = CancelledPhase(entry[i].phase),
           \A i \in Issues \ them : entry'[i].phase = entry[i].phase
    PROVE  /\ dir' = dir
           /\ broken' \subseteq Issues
           /\ undoing' \subseteq Issues
           /\ Places'
<1> DEFINE left(i) == i \in them /\ entry[i].phase = "undo" /\ dir[i] = "partial"
<1>1. /\ dir' = dir
      /\ \A i \in Issues : (i \in broken' <=> i \in broken \/ left(i))
      /\ \A i \in Issues : (i \in undoing' <=> i \in undoing \/ left(i))
      /\ broken' \subseteq Issues /\ undoing' \subseteq Issues
  BY DEF Abandoned, At, IInv, TypeOK
<1>2. OverStays
  BY KeepsRows
<1>3. ASSUME NEW i \in Issues
      PROVE  Place(entry'[i].phase, dir'[i], i \in broken', i \in undoing', Over(i)')
  <2>1. PICK p, q, d : p = entry[i].phase /\ q = entry'[i].phase /\ d = dir[i]
    OBVIOUS
  <2>2. /\ p \in Cloning => d # "whole"
        /\ p \in Using /\ d # "whole" => i \in broken
        /\ d = "partial" => p \in Cloning \/ i \in broken
        /\ i \in undoing => Over(i) \/ (d = "partial" /\ p \notin Cloning)
        /\ i \in undoing /\ Over(i) => Over(i)'
    BY <1>2, <2>1, PlaceOf
  <2>3. /\ q \in Cloning => p \in Cloning
        /\ q \in Using => p \in Using
        /\ q \in Cloning \/ p \notin Cloning \/ (i \in them /\ p = "undo")
        /\ i \in them /\ p = "undo" => q \notin Cloning
    <3>1. CASE i \in them
      BY <2>1, <3>1 DEF CancelledPhase, Cloning, Using
    <3>2. CASE i \notin them
      BY <2>1, <3>2
    <3>3. QED
      BY <3>1, <3>2
  <2>4. /\ i \in broken' <=> i \in broken \/ (i \in them /\ p = "undo" /\ d = "partial")
        /\ i \in undoing' <=> i \in undoing \/ (i \in them /\ p = "undo" /\ d = "partial")
    BY <1>1, <2>1
  <2>5. /\ q \in Cloning => d # "whole"
        /\ q \in Using /\ d # "whole" => i \in broken'
        /\ d = "partial" => q \in Cloning \/ i \in broken'
        /\ i \in undoing' => Over(i)' \/ (d = "partial" /\ q \notin Cloning)
    BY <2>2, <2>3, <2>4
  <2>6. QED
    BY <1>1, <2>1, <2>5 DEF Place
<1>4. QED
  BY <1>1, <1>3 DEF Places

-----------------------------------------------------------------------------
(* Steps of the polling coroutine *)

\* A step of the polling coroutine, which leaves the tables alone.
LEMMA PollStep ==
    ASSUME IInv, UNCHANGED <<tables, agents, handlers>>,
           worker' \in Worker, pc' \in Point, registered' \in BOOLEAN,
           starts' \in 0..MaxStarts, seen' \in [Issues -> Sight \cup {None}],
           victim' \in Victim, retries' \subseteq Issues, entry' \in [Issues -> Entry],
           dir' \in [Issues -> Dir], undoing' \subseteq Issues, broken' \subseteq Issues,
           Numbered', Cancelling', Reconciling', Aims', Places'
    PROVE  IInv'
<1>1. /\ rows' = rows /\ issued' = issued /\ agents' = agents
      /\ archive' = archive /\ late' = late /\ revived' = revived
  BY DEF tables, handlers
<1>2. TypeOK'
  BY <1>1
     DEF IInv, TypeOK, Row, RowStatus, Worker, Entry, Point, Victim, Archive, Token, Dir
<1>3. Archiving'
  BY <1>1 DEF IInv, Archiving
<1>4. QED
  BY <1>2, <1>3 DEF IInv

\* What such a step keeps when it leaves the disk and the running map alone.
LEMMA StillThere ==
    ASSUME IInv, UNCHANGED <<tables, tasks, disk, handlers>>
    PROVE  /\ entry' \in [Issues -> Entry] /\ retries' \subseteq Issues
           /\ dir' \in [Issues -> Dir] /\ undoing' \subseteq Issues
           /\ broken' \subseteq Issues
           /\ UNCHANGED <<tables, agents, handlers>> /\ archive' = archive
           /\ entry' = entry
           /\ Numbered' /\ OverStays /\ Places'
<1>1. /\ entry' = entry /\ retries' = retries /\ agents' = agents /\ dir' = dir
      /\ undoing' = undoing /\ broken' = broken /\ rows' = rows /\ issued' = issued
      /\ archive' = archive /\ late' = late /\ revived' = revived
  BY DEF tables, tasks, disk, handlers
<1>2. /\ entry' \in [Issues -> Entry] /\ retries' \subseteq Issues
      /\ dir' \in [Issues -> Dir] /\ undoing' \subseteq Issues
      /\ broken' \subseteq Issues
  BY <1>1 DEF IInv, TypeOK
<1>3. Numbered'
  BY <1>1 DEF IInv, Numbered, Token, Free
<1>4. OverStays
  BY <1>1, KeepsRows
<1>5. Places'
  BY <1>1, <1>4, KeepsEntries, CalmPlaces
<1>6. QED
  BY <1>1, <1>2, <1>3, <1>4, <1>5 DEF tables, handlers

\* Of these steps, those that leave the running map and what is aimed at alone.
LEMMA QuietStep ==
    ASSUME IInv, UNCHANGED <<tables, tasks, disk, handlers, victim, seen>>,
           worker' \in Worker, registered' \in BOOLEAN, starts' \in 0..MaxStarts,
           pc' \in Point,
           \/ pc' = pc
           \/ /\ pc' # "cancelling"
              /\ \/ pc \notin {"cleaning", "reconcile", "cancelling"}
                 \/ \A i \in Issues : seen[i] = None
    PROVE  IInv'
<1>1. /\ UNCHANGED <<tables, tasks, disk, handlers>> /\ victim' = victim /\ seen' = seen
  OBVIOUS
<1>2. seen' \in [Issues -> Sight \cup {None}] /\ victim' \in Victim
  BY <1>1 DEF IInv, TypeOK
<1>3. /\ entry' \in [Issues -> Entry] /\ retries' \subseteq Issues
      /\ dir' \in [Issues -> Dir] /\ undoing' \subseteq Issues
      /\ broken' \subseteq Issues
      /\ UNCHANGED <<tables, agents, handlers>> /\ archive' = archive
      /\ entry' = entry /\ Numbered' /\ OverStays /\ Places'
  BY <1>1, StillThere
<1>4. Cancelling'
  BY <1>1 DEF IInv, Cancelling
<1>5. Aims'
  BY <1>1, <1>3, SameAims, KeepsAims
<1>6. Reconciling'
  <2>1. CASE pc' = pc
    BY <1>1, <1>3, <2>1, KeepsSeen
  <2>2. CASE pc \notin {"cleaning", "reconcile", "cancelling"}
    BY <1>1, <2>2, NothingSeen
  <2>3. CASE \A i \in Issues : seen[i] = None
    BY <1>1, <2>3 DEF Reconciling
  <2>4. QED
    BY <2>1, <2>2, <2>3
<1>7. QED
  BY <1>1, <1>2, <1>3, <1>4, <1>5, <1>6, PollStep

\* The same when the tasks that are done are reaped.
LEMMA ReapStep ==
    ASSUME IInv, UNCHANGED <<tables, worker, registered, starts, victim, retries, agents,
                             disk, handlers>>,
           entry' = Reaped, pc' \in Point \ {"cancelling"},
           \/ seen' = seen /\ pc \notin {"cleaning", "reconcile", "cancelling"}
           \/ seen' = [i \in Issues |-> None]
    PROVE  IInv'
<1>1. /\ rows' = rows /\ revived' = revived /\ worker' = worker /\ retries' = retries
      /\ dir' = dir /\ undoing' = undoing /\ broken' = broken /\ archive' = archive
      /\ victim' = victim /\ registered' = registered /\ starts' = starts
      /\ UNCHANGED <<tables, agents, handlers>> /\ UNCHANGED disk
  BY DEF tables, disk, handlers
<1>2. /\ worker' \in Worker /\ registered' \in BOOLEAN /\ starts' \in 0..MaxStarts
      /\ seen' \in [Issues -> Sight \cup {None}] /\ victim' \in Victim
      /\ retries' \subseteq Issues /\ pc' \in Point /\ dir' \in [Issues -> Dir]
      /\ undoing' \subseteq Issues /\ broken' \subseteq Issues
  BY <1>1 DEF IInv, TypeOK
<1>3. Cancelling'
  BY DEF Cancelling
<1>4. Reconciling'
  <2>1. CASE seen' = seen /\ pc \notin {"cleaning", "reconcile", "cancelling"}
    BY <2>1, NothingSeen
  <2>2. CASE seen' = [i \in Issues |-> None]
    BY <2>2 DEF Reconciling
  <2>3. QED
    BY <2>1, <2>2
<1>5. OverStays
  BY <1>1, KeepsRows
<1>6. Aims'
  BY <1>1, <1>5, NoneIsNothing, SameAims, KeepsAims DEF Sight
<1>7. /\ entry' \in [Issues -> Entry] /\ Numbered'
      /\ \A i \in Issues : Calm(entry[i].phase, entry'[i].phase)
  BY ReapsEntries
<1>8. Places'
  BY <1>1, <1>5, <1>7, CalmPlaces
<1>9. QED
  BY <1>1, <1>2, <1>3, <1>4, <1>6, <1>7, <1>8, PollStep

LEMMA QuietPolls ==
    ASSUME IInv,
           \/ Start \/ Initialized \/ Register \/ RegisterFails \/ Report \/ ReportFails
           \/ Reload \/ ReloadFails \/ DispatchEnds \/ RequestStop \/ Fade
    PROVE  IInv'
<1>1. /\ worker \in Worker /\ registered \in BOOLEAN /\ starts \in 0..MaxStarts
      /\ pc \in Point
  BY DEF IInv, TypeOK
<1>2. [worker EXCEPT !.known = TRUE, !.stop = FALSE, !.fresh = TRUE] \in Worker
  BY <1>1 DEF Worker
<1>3. [worker EXCEPT !.active = Active, !.fresh = TRUE] \in Worker
  BY <1>1 DEF Worker, Active, Running
<1>4. /\ [worker EXCEPT !.stop = TRUE] \in Worker
      /\ [worker EXCEPT !.fresh = FALSE] \in Worker
      /\ Stopped([worker EXCEPT !.known = TRUE, !.stop = FALSE]) \in Worker
  BY <1>1 DEF Worker, Stopped
<1>5. /\ pc' \in Point
      /\ \/ pc' = pc
         \/ /\ pc' # "cancelling"
            /\ \/ pc \notin {"cleaning", "reconcile", "cancelling"}
               \/ \A i \in Issues : seen[i] = None
      /\ worker' \in Worker
      /\ registered' \in BOOLEAN
      /\ starts' \in 0..MaxStarts
      /\ UNCHANGED <<tables, tasks, disk, handlers, victim, seen>>
  <2>1. CASE Start
    <3>1. starts + 1 \in 0..MaxStarts
      BY <1>1, <2>1, RunnerConstants DEF Start
    <3>2. QED
      BY <1>1, <2>1, <3>1 DEF Start, Point
  <2>2. CASE Register
    BY <1>1, <1>2, <2>2 DEF Register, Registered, Point
  <2>3. CASE RegisterFails
    BY <1>1, <2>3 DEF RegisterFails, Point
  <2>4. CASE Report
    BY <1>1, <1>3, <2>4 DEF Report, Reported, Point
  <2>5. CASE ReportFails
    BY <1>1, <2>5 DEF ReportFails, Point
  <2>6. CASE Reload
    BY <1>1, <1>2, <1>4, <2>6 DEF Reload, Registered, Point
  <2>7. CASE ReloadFails
    BY <1>1, <2>7 DEF ReloadFails, Point
  <2>8. CASE DispatchEnds
    BY <1>1, <2>8 DEF DispatchEnds, Point
  <2>9. CASE RequestStop
    BY <1>1, <1>4, <2>9 DEF RequestStop, poll
  <2>10. CASE Fade
    BY <1>1, <1>4, <2>10 DEF Fade, poll
  <2>11. CASE Initialized
    BY <1>1, <2>11 DEF Initialized, Point
  <2>12. QED
    BY <2>1, <2>2, <2>3, <2>4, <2>5, <2>6, <2>7, <2>8, <2>9, <2>10, <2>11
<1>6. QED
  BY <1>5, QuietStep

LEMMA ReapingPolls ==
    ASSUME IInv, Wake \/ RefreshFails \/ Reconciled
    PROVE  IInv'
<1>1. CASE Wake
  BY <1>1, ReapStep DEF Wake, Point
<1>2. CASE RefreshFails
  BY <1>2, ReapStep DEF RefreshFails, Point
<1>3. CASE Reconciled
  BY <1>3, ReapStep DEF Reconciled, Point
<1>4. QED
  BY <1>1, <1>2, <1>3

\* What is fetched of the Issues tells of one that is over only if it is.
LEMMA LooksStep ==
    ASSUME IInv, UNCHANGED <<tables, tasks, disk, handlers, worker, registered, starts,
                             victim>>,
           pc' \in {"reconcile", "cleaning"}, seen' \in [Issues -> Sight \cup {None}],
           \A i \in Issues : seen'[i] = "terminal" => Terminal(i),
           \A i \in Issues : seen'[i] # None => pc' = "cleaning" \/ i \in Running
    PROVE  IInv'
<1>1. /\ UNCHANGED <<tables, tasks, disk, handlers>> /\ worker' = worker
      /\ registered' = registered /\ starts' = starts /\ victim' = victim
      /\ rows' = rows /\ revived' = revived
  BY DEF tables, handlers
<1>2. /\ worker' \in Worker /\ registered' \in BOOLEAN /\ starts' \in 0..MaxStarts
      /\ victim' \in Victim /\ pc' \in Point
  BY <1>1 DEF IInv, TypeOK, Point
<1>3. /\ entry' \in [Issues -> Entry] /\ retries' \subseteq Issues
      /\ dir' \in [Issues -> Dir] /\ undoing' \subseteq Issues
      /\ broken' \subseteq Issues
      /\ UNCHANGED <<tables, agents, handlers>> /\ archive' = archive
      /\ entry' = entry /\ Numbered' /\ OverStays /\ Places'
  BY <1>1, StillThere
<1>4. Cancelling'
  BY DEF Cancelling
<1>5. Reconciling'
  <2>1. \A i \in Running : entry'[i].phase # None
    BY <1>3 DEF Running, IInv, Numbered
  <2>2. QED
    BY <2>1 DEF Reconciling, Running
<1>6. Aims'
  <2>1. ASSUME NEW i \in Issues, Aimed(i)' PROVE Over(i)'
    <3>1. CASE seen'[i] = "terminal"
      BY <1>1, <3>1 DEF Over, Terminal
    <3>2. CASE seen'[i] # "terminal"
      <4>1. Aimed(i)
        BY <1>3, <2>1, <3>2 DEF Aimed
      <4>2. QED
        BY <1>1, <4>1 DEF IInv, Aims, Over, Terminal
    <3>3. QED
      BY <3>1, <3>2
  <2>2. QED
    BY <2>1 DEF Aims
<1>7. QED
  BY <1>2, <1>3, <1>4, <1>5, <1>6, PollStep

LEMMA RefreshStep ==
    ASSUME IInv, Refresh
    PROVE  IInv'
<1>1. /\ UNCHANGED <<tables, tasks, disk, handlers, worker, registered, starts, victim>>
      /\ pc' = "reconcile"
      /\ seen' = [i \in Issues |-> IF i \in Running THEN View(i) ELSE None]
  BY DEF Refresh
<1>2. \A i \in Issues : View(i) \in Sight /\ (View(i) = "terminal" => Terminal(i))
  BY DEF View, Sight
<1>3. seen' \in [Issues -> Sight \cup {None}]
  BY <1>1, <1>2
<1>4. /\ \A i \in Issues : seen'[i] = "terminal" => Terminal(i)
      /\ \A i \in Issues : seen'[i] # None => pc' = "cleaning" \/ i \in Running
  BY <1>1, <1>2, NoneIsNothing DEF Sight
<1>5. pc' \in {"reconcile", "cleaning"}
  BY <1>1
<1>6. QED
  BY <1>1, <1>3, <1>4, <1>5, LooksStep

LEMMA InitializeStep ==
    ASSUME IInv, Initialize
    PROVE  IInv'
<1>1. /\ pc = "init"
      /\ UNCHANGED <<tables, tasks, disk, handlers, worker, registered, starts, victim>>
  BY DEF Initialize
<1>2. CASE pc' = "enter" /\ UNCHANGED seen
  <2>1. /\ worker' \in Worker /\ registered' \in BOOLEAN /\ starts' \in 0..MaxStarts
        /\ pc' \in Point
    BY <1>1, <1>2 DEF IInv, TypeOK, Point
  <2>2. QED
    BY <1>1, <1>2, <2>1, QuietStep
<1>3. CASE /\ pc' = "cleaning"
           /\ seen' = [i \in Issues |-> IF Terminal(i) THEN "terminal" ELSE None]
  <2>1. seen' \in [Issues -> Sight \cup {None}]
    BY <1>3 DEF Sight
  <2>2. \A i \in Issues : seen'[i] = "terminal" => Terminal(i)
    BY <1>3, NoneIsNothing DEF Sight
  <2>3. QED
    BY <1>1, <1>3, <2>1, <2>2, LooksStep
<1>4. QED
  BY <1>2, <1>3 DEF Initialize

\* An Attempt is cancelled; its workspace is to be removed if its Issue is over.
LEMMA BeginCancelStep ==
    ASSUME IInv, NEW i \in Issues, NEW e \in Entry, NEW cleanup \in BOOLEAN,
           BeginCancel(i, e, cleanup), e.phase = entry[i].phase,
           e.token = entry[i].token, e.phase # None, pc \in {"refresh", "reconcile"},
           cleanup => Over(i),
           UNCHANGED <<tables, worker, registered, starts, agents, handlers>>,
           retries' \subseteq Issues, seen' \in [Issues -> Sight \cup {None}],
           seen'[i] = None, \A j \in Issues : j # i => seen'[j] = seen[j]
    PROVE  IInv'
<1>1. /\ rows' = rows /\ revived' = revived /\ archive' = archive /\ worker' = worker
      /\ registered' = registered /\ starts' = starts
      /\ UNCHANGED <<tables, agents, handlers>>
      /\ Abandoned({i})
      /\ entry' = [entry EXCEPT ![i] = Cancelled(e)]
      /\ victim' = [issue |-> i, cleanup |-> cleanup, back |-> pc]
      /\ pc' = "cancelling"
  BY DEF BeginCancel, tables, handlers
<1>2. /\ worker' \in Worker /\ registered' \in BOOLEAN /\ starts' \in 0..MaxStarts
      /\ pc' \in Point /\ victim' \in Victim
  BY <1>1 DEF IInv, TypeOK, Point, Victim
<1>3. PICK c \in Entry : /\ c = Cancelled(e) /\ c.phase \in Phase /\ c.token = e.token
                         /\ c.phase = CancelledPhase(e.phase)
  BY CancelsEntry
<1>4. c.token \in Token
  BY <1>3 DEF IInv, Numbered
<1>5. /\ entry' \in [Issues -> Entry] /\ Numbered' /\ entry'[i] = c
      /\ \A j \in Issues : j # i => entry'[j] = entry[j]
  BY <1>1, <1>3, <1>4, NoneIsNothing, GoesEntry
<1>6. /\ dir' = dir /\ broken' \subseteq Issues /\ undoing' \subseteq Issues /\ Places'
  <2>1. {i} \in SUBSET Issues
    OBVIOUS
  <2>2. \A j \in {i} : entry'[j].phase = CancelledPhase(entry[j].phase)
    BY <1>3, <1>5
  <2>3. \A j \in Issues \ {i} : entry'[j].phase = entry[j].phase
    BY <1>5
  <2>4. QED
    BY <1>1, <2>1, <2>2, <2>3, CancelsPlaces
<1>7. dir' \in [Issues -> Dir]
  BY <1>6 DEF IInv, TypeOK
<1>8. Cancelling'
  BY <1>1 DEF Cancelling
<1>9. Reconciling'
  <2>1. ASSUME NEW j \in Issues, seen'[j] # None
        PROVE  pc = "reconcile" /\ j # i /\ entry'[j].phase # None
    <3>1. j # i /\ seen[j] # None
      BY <2>1
    <3>2. QED
      BY <1>1, <1>5, <3>1 DEF IInv, Reconciling
  <2>2. QED
    BY <1>1, <2>1 DEF Reconciling
<1>10. Aims'
  <2>1. ASSUME NEW j \in Issues, Aimed(j)' PROVE Over(j)'
    <3>1. CASE victim'.issue = j /\ victim'.cleanup
      BY <1>1, <3>1 DEF Over, Terminal
    <3>2. CASE ~(victim'.issue = j /\ victim'.cleanup)
      <4>1. Aimed(j)
        BY <1>1, <2>1, <3>2, NoneIsNothing DEF Aimed, Sight
      <4>2. QED
        BY <1>1, <4>1 DEF IInv, Aims, Over, Terminal
    <3>3. QED
      BY <3>1, <3>2
  <2>2. QED
    BY <2>1 DEF Aims
<1>11. QED
  BY <1>1, <1>2, <1>5, <1>6, <1>7, <1>8, <1>9, <1>10, PollStep

LEMMA StallStep ==
    ASSUME IInv, NEW i \in Issues, Stall(i)
    PROVE  IInv'
<1>1. /\ BeginCancel(i, entry[i], FALSE) /\ pc = "refresh" /\ i \in Active
      /\ UNCHANGED <<tables, worker, registered, starts, seen, retries, agents, handlers>>
  BY DEF Stall
<1>2. entry[i] \in Entry /\ entry[i].phase # None
  BY <1>1 DEF Active, Running, IInv, TypeOK, Numbered
<1>3. /\ retries' \subseteq Issues /\ seen' \in [Issues -> Sight \cup {None}]
      /\ seen'[i] = None /\ seen' = seen
  BY <1>1, NothingSeen DEF IInv, TypeOK
<1>4. QED
  BY <1>1, <1>2, <1>3, BeginCancelStep

LEMMA ReconcileEntryStep ==
    ASSUME IInv, NEW i \in Issues, ReconcileEntry(i)
    PROVE  IInv'
<1> DEFINE e == [entry[i] EXCEPT !.active = FALSE]
<1>1. /\ pc = "reconcile" /\ seen[i] \in {"off", "terminal"}
      /\ seen' = [seen EXCEPT ![i] = None]
      /\ retries' = retries \ {i}
      /\ BeginCancel(i, e, seen[i] = "terminal")
      /\ UNCHANGED <<tables, worker, registered, starts, agents, handlers>>
  BY DEF ReconcileEntry
<1>2. entry[i] \in Entry /\ entry[i].phase # None
  BY <1>1, NoneIsNothing DEF IInv, TypeOK, Reconciling, Sight
<1>3. e \in Entry /\ e.phase = entry[i].phase /\ e.token = entry[i].token
  BY <1>2 DEF Entry
<1>4. /\ seen \in [Issues -> Sight \cup {None}] /\ retries \subseteq Issues
      /\ seen[i] = "terminal" => Over(i)
  BY DEF IInv, TypeOK, Aims, Aimed
<1>5. /\ seen' \in [Issues -> Sight \cup {None}] /\ retries' \subseteq Issues
      /\ seen'[i] = None /\ \A j \in Issues : j # i => seen'[j] = seen[j]
  BY <1>1, <1>4
<1> HIDE DEF e
<1>6. PICK cleanup \in BOOLEAN : cleanup = (seen[i] = "terminal")
  OBVIOUS
<1>7. BeginCancel(i, e, cleanup) /\ (cleanup => Over(i))
  <2>1. BeginCancel(i, e, cleanup)
    BY <1>1, <1>6, Zenon
  <2>2. cleanup => Over(i)
    BY <1>4, <1>6
  <2>3. QED
    BY <2>1, <2>2
<1>8. QED
  BY <1>1, <1>2, <1>3, <1>5, <1>7, BeginCancelStep

\* The retry of an Issue is taken off the list.
LEMMA ActivateRetryStep ==
    ASSUME IInv, NEW i \in Issues, ActivateRetry(i)
    PROVE  IInv'
<1>1. /\ retries' = retries \ {i}
      /\ UNCHANGED <<tables, agents, handlers>> /\ UNCHANGED disk
      /\ rows' = rows /\ revived' = revived /\ worker' = worker /\ pc' = pc
      /\ registered' = registered /\ starts' = starts /\ seen' = seen
      /\ victim' = victim /\ entry' = entry /\ archive' = archive
      /\ dir' = dir /\ undoing' = undoing /\ broken' = broken
  BY DEF ActivateRetry, tables, poll, disk, handlers
<1>2. /\ worker' \in Worker /\ registered' \in BOOLEAN /\ starts' \in 0..MaxStarts
      /\ pc' \in Point /\ victim' \in Victim /\ seen' \in [Issues -> Sight \cup {None}]
      /\ entry' \in [Issues -> Entry] /\ retries' \subseteq Issues
      /\ dir' \in [Issues -> Dir] /\ undoing' \subseteq Issues /\ broken' \subseteq Issues
  BY <1>1 DEF IInv, TypeOK
<1>3. Numbered' /\ Cancelling'
  BY <1>1 DEF IInv, Numbered, Token, Free, Cancelling
<1>4. OverStays
  BY <1>1, KeepsRows
<1>5. Reconciling' /\ Aims' /\ Places'
  BY <1>1, <1>4, KeepsSeen, SameAims, KeepsAims, KeepsEntries, CalmPlaces
<1>6. QED
  BY <1>1, <1>2, <1>3, <1>5, PollStep

\* The tasks that are cancelled at the end, and the map that is emptied.
LEMMA CloseStep ==
    ASSUME IInv, Close
    PROVE  IInv'
<1>1. /\ pc = "closing" /\ pc' = "stopped" /\ Abandoned(Running)
      /\ entry' = [i \in Issues |-> IF i \in Running THEN Cancelled(entry[i]) ELSE Free]
      /\ UNCHANGED <<tables, agents, handlers>>
      /\ rows' = rows /\ revived' = revived /\ worker' = worker
      /\ registered' = registered /\ starts' = starts /\ seen' = seen
      /\ victim' = victim /\ retries' = retries /\ archive' = archive
  BY DEF Close, tables, handlers
<1>2. /\ worker' \in Worker /\ registered' \in BOOLEAN /\ starts' \in 0..MaxStarts
      /\ pc' \in Point /\ victim' \in Victim /\ seen' \in [Issues -> Sight \cup {None}]
      /\ retries' \subseteq Issues
  BY <1>1 DEF IInv, TypeOK, Point
<1>3. ASSUME NEW i \in Issues
      PROVE  /\ entry'[i] \in Entry
             /\ IF entry'[i].phase = None THEN entry'[i] = Free
                                          ELSE entry'[i].token \in Token
             /\ i \in Running => entry'[i].phase = CancelledPhase(entry[i].phase)
             /\ i \notin Running => entry'[i].phase = entry[i].phase
  <2>1. CASE i \in Running
    <3>1. entry[i] \in Entry /\ entry[i].phase # None /\ entry[i].token \in Token
      BY <2>1 DEF Running, IInv, TypeOK, Numbered
    <3>2. entry'[i] = Cancelled(entry[i])
      BY <1>1, <2>1
    <3>3. QED
      BY <2>1, <3>1, <3>2, CancelsEntry, NoneIsNothing
  <2>2. CASE i \notin Running
    <3>1. entry'[i] = entry[i] /\ entry[i] = Free
      BY <1>1, <2>2 DEF Running
    <3>2. QED
      BY <2>2, <3>1 DEF Free, Entry
  <2>3. QED
    BY <2>1, <2>2
<1>4. entry' \in [Issues -> Entry]
  <2>1. entry' = [i \in Issues |-> entry'[i]]
    BY <1>1
  <2>2. QED
    BY <1>3, <2>1
<1>5. Numbered'
  BY <1>3 DEF Numbered, Token, Free
<1>6. Cancelling' /\ Reconciling'
  BY <1>1, NothingSeen DEF Cancelling
<1>7. OverStays
  BY <1>1, KeepsRows
<1>8. Aims'
  BY <1>1, <1>7, SameAims, KeepsAims
<1>9. Running \in SUBSET Issues
  BY DEF Running
<1>10. /\ dir' = dir /\ broken' \subseteq Issues /\ undoing' \subseteq Issues /\ Places'
  BY <1>1, <1>3, <1>9, CancelsPlaces
<1>11. dir' \in [Issues -> Dir]
  BY <1>10 DEF IInv, TypeOK
<1>12. QED
  BY <1>1, <1>2, <1>4, <1>5, <1>6, <1>8, <1>10, <1>11, PollStep

LEMMA ExitStep ==
    ASSUME IInv, Exit
    PROVE  IInv'
<1>1. /\ pc = "stopped" /\ pc' = "exited" /\ Active = {}
      /\ entry' = [i \in Issues |-> Free]
      /\ retries' = {}
      /\ worker' \in {worker, Stopped(worker)}
      /\ UNCHANGED <<tables, agents, handlers>> /\ UNCHANGED disk
      /\ rows' = rows /\ revived' = revived
      /\ registered' = registered /\ starts' = starts /\ seen' = seen
      /\ victim' = victim /\ archive' = archive
      /\ dir' = dir /\ undoing' = undoing /\ broken' = broken
  BY DEF Exit, tables, disk, handlers
<1>2. worker' \in Worker
  <2>1. worker \in Worker
    BY DEF IInv, TypeOK
  <2>2. Stopped(worker) \in Worker
    BY <2>1 DEF Worker, Stopped
  <2>3. QED
    BY <1>1, <2>1, <2>2
<1>3. /\ registered' \in BOOLEAN /\ starts' \in 0..MaxStarts
      /\ pc' \in Point /\ victim' \in Victim /\ seen' \in [Issues -> Sight \cup {None}]
      /\ retries' \subseteq Issues /\ dir' \in [Issues -> Dir]
      /\ undoing' \subseteq Issues /\ broken' \subseteq Issues
  BY <1>1 DEF IInv, TypeOK, Point
<1>4. Free \in Entry /\ Free.phase = None
  BY DEF Free, Entry
<1>5. entry' \in [Issues -> Entry] /\ Numbered'
  BY <1>1, <1>4 DEF Numbered, Free
<1>6. ASSUME NEW i \in Issues PROVE Calm(entry[i].phase, entry'[i].phase)
  <2>1. entry'[i].phase = None
    BY <1>1, <1>4
  <2>2. entry[i] = Free \/ entry[i].phase = "done"
    BY <1>1 DEF Active, Running
  <2>3. QED
    BY <1>4, <2>1, <2>2, NoneIsNothing DEF Calm, Cloning, Using, Phase
<1>7. Cancelling' /\ Reconciling'
  BY <1>1, NothingSeen DEF Cancelling
<1>8. OverStays
  BY <1>1, KeepsRows
<1>9. Aims' /\ Places'
  BY <1>1, <1>6, <1>8, SameAims, KeepsAims, CalmPlaces
<1>10. QED
  BY <1>1, <1>2, <1>3, <1>5, <1>7, <1>9, PollStep

-----------------------------------------------------------------------------
(* Steps that the polling coroutine has no part in *)

\* An Attempt, the control plane or a person takes a step.
LEMMA TaskStep ==
    ASSUME IInv, worker' = worker, UNCHANGED poll,
           rows' \in [Issues -> Row], issued' \in [Issues -> 0..MaxAttempts],
           entry' \in [Issues -> Entry], retries' \subseteq Issues,
           agents' \in [Issues -> SUBSET Token],
           dir' \in [Issues -> Dir], undoing' \subseteq Issues, broken' \subseteq Issues,
           archive' \in Archive, late' \in [Issues -> RowStatus \cup {None}],
           revived' \subseteq Issues,
           Numbered', Archiving', Aims', Places',
           \A i \in Issues : entry[i].phase # None => entry'[i].phase # None
    PROVE  IInv'
<1>1. /\ worker' = worker /\ pc' = pc /\ registered' = registered
      /\ starts' = starts /\ seen' = seen /\ victim' = victim
  BY DEF poll
<1>2. TypeOK'
  BY <1>1
     DEF IInv, TypeOK, Row, RowStatus, Worker, Entry, Point, Victim, Archive, Token, Dir
<1>3. Cancelling' /\ Reconciling'
  BY <1>1, KeepsSeen DEF IInv, Cancelling
<1>4. QED
  BY <1>2, <1>3 DEF IInv

\* A step on the row of an Issue, or of a handler.
LEMMA RowStep ==
    ASSUME IInv, UNCHANGED <<issued, worker, poll, tasks, disk>>,
           rows' \in [Issues -> Row], OverStays,
           archive' \in Archive, late' \in [Issues -> RowStatus \cup {None}],
           revived' \subseteq Issues, Archiving', Aims'
    PROVE  IInv'
<1>1. /\ issued' = issued /\ worker' = worker /\ entry' = entry
      /\ retries' = retries /\ agents' = agents /\ dir' = dir /\ undoing' = undoing
      /\ broken' = broken /\ UNCHANGED poll /\ UNCHANGED disk
  BY DEF tasks, disk
<1>2. /\ issued' \in [Issues -> 0..MaxAttempts] /\ entry' \in [Issues -> Entry]
      /\ retries' \subseteq Issues /\ agents' \in [Issues -> SUBSET Token]
      /\ dir' \in [Issues -> Dir] /\ undoing' \subseteq Issues /\ broken' \subseteq Issues
  BY <1>1 DEF IInv, TypeOK
<1>3. Numbered'
  BY <1>1 DEF IInv, Numbered, Token, Free
<1>4. Places'
  BY <1>1, KeepsEntries, CalmPlaces
<1>5. QED
  BY <1>1, <1>2, <1>3, <1>4, TaskStep

\* One that no call of archive_issue has a part in.
LEMMA PlainRowStep ==
    ASSUME IInv, UNCHANGED <<issued, worker, poll, tasks, disk, archive>>,
           rows' \in [Issues -> Row], OverStays,
           late' \in [Issues -> RowStatus \cup {None}], revived' \subseteq Issues
    PROVE  IInv'
<1>1. archive' = archive /\ seen' = seen /\ pc' = pc /\ victim' = victim
  BY DEF poll
<1>2. archive' \in Archive /\ Archiving'
  BY <1>1 DEF IInv, TypeOK, Archiving
<1>3. Aims'
  BY <1>1, SameAims, KeepsAims
<1>4. QED
  BY <1>2, <1>3, RowStep

LEMMA RowSteps ==
    ASSUME IInv, NEW i \in Issues,
           \/ Expire(i) \/ TakeUp(i) \/ CancelIssue(i) \/ Reroute(i)
           \/ ReadBefore(i) \/ Overwrite(i)
    PROVE  IInv'
<1>1. /\ TypeOK /\ late \in [Issues -> RowStatus \cup {None}] /\ revived \subseteq Issues
  BY DEF IInv, TypeOK
<1>2. CASE Expire(i)
  <2>1. /\ Moved(i, "retry_queued") /\ ~Terminal(i) /\ late' = late /\ revived' = revived
        /\ UNCHANGED <<issued, worker, poll, tasks, disk, archive>>
    BY <1>2 DEF Expire, Terminal, handlers
  <2>2. QED
    BY <1>1, <2>1, MovesRow, PlainRowStep DEF RowStatus
<1>3. CASE TakeUp(i)
  <2>1. /\ Moved(i, "ready") /\ ~Terminal(i) /\ late' = late /\ revived' = revived
        /\ UNCHANGED <<issued, worker, poll, tasks, disk, archive>>
    BY <1>3 DEF TakeUp, Terminal, handlers
  <2>2. QED
    BY <1>1, <2>1, MovesRow, PlainRowStep DEF RowStatus
<1>4. CASE CancelIssue(i)
  <2>1. /\ Moved(i, "cancelled") /\ late' = late /\ revived' = revived
        /\ UNCHANGED <<issued, worker, poll, tasks, disk, archive>>
    BY <1>4 DEF CancelIssue, handlers
  <2>2. QED
    BY <1>1, <2>1, MovesRow, PlainRowStep DEF RowStatus
<1>5. CASE Reroute(i)
  <2> DEFINE r == [rows[i] EXCEPT !.routable = ~rows[i].routable]
  <2>1. /\ rows' = [rows EXCEPT ![i] = r]
        /\ rows \in [Issues -> Row] /\ rows[i] \in Row /\ late' = late
        /\ revived' = revived
        /\ UNCHANGED <<issued, worker, poll, tasks, disk, archive>>
    BY <1>1, <1>5 DEF Reroute, TypeOK, handlers
  <2>2. r \in Row /\ r.status = rows[i].status
    BY <2>1 DEF Row
  <2> HIDE DEF r
  <2>3. rows' \in [Issues -> Row] /\ OverStays
    BY <2>1, <2>2 DEF OverStays, Over, Terminal
  <2>4. QED
    BY <1>1, <2>1, <2>3, PlainRowStep
<1>6. CASE ReadBefore(i)
  <2>1. PICK s \in RowStatus : late' = [late EXCEPT ![i] = s]
    BY <1>6 DEF ReadBefore
  <2>2. /\ rows' = rows /\ issued' = issued /\ revived' = revived
        /\ UNCHANGED <<issued, worker, poll, tasks, disk, archive>>
    BY <1>6 DEF ReadBefore, tables
  <2>3. late' \in [Issues -> RowStatus \cup {None}] /\ rows' \in [Issues -> Row]
    BY <1>1, <2>1, <2>2 DEF TypeOK
  <2>4. QED
    BY <1>1, <2>2, <2>3, KeepsRows, PlainRowStep
<1>7. CASE Overwrite(i)
  <2>1. PICK s \in RowStatus : s = late[i]
    BY <1>1, <1>7 DEF Overwrite
  <2>2. /\ Moved(i, s) /\ late' = [late EXCEPT ![i] = None]
        /\ revived' = IF Terminal(i) /\ (Aimed(i) \/ i \in undoing)
                      THEN revived \cup {i} ELSE revived
        /\ UNCHANGED <<issued, worker, poll, tasks, disk, archive>>
    BY <1>7, <2>1 DEF Overwrite
  <2>3. /\ rows' \in [Issues -> Row]
        /\ \A j \in Issues : j # i => rows'[j] = rows[j]
    BY <1>1, <2>2, MovesRow
  <2>4. late' \in [Issues -> RowStatus \cup {None}] /\ revived' \subseteq Issues
    BY <1>1, <2>2
  <2>5. OverStays
    BY <2>2, <2>3 DEF OverStays, Over, Doomed, Terminal
  <2>6. QED
    BY <2>2, <2>3, <2>4, <2>5, PlainRowStep
<1>8. QED
  BY <1>2, <1>3, <1>4, <1>5, <1>6, <1>7

LEMMA ClaimStep ==
    ASSUME IInv, NEW i \in Issues, Claim(i)
    PROVE  IInv'
<1>1. /\ Granted(i) /\ rows[i].status = "ready" /\ issued[i] < MaxAttempts
      /\ entry[i] = Free
      /\ entry' = [entry EXCEPT ![i] = [phase |-> "prepare", token |-> issued[i] + 1,
                                        active |-> TRUE]]
      /\ worker' = worker /\ retries' = retries /\ agents' = agents /\ UNCHANGED disk
      /\ dir' = dir /\ undoing' = undoing /\ broken' = broken /\ UNCHANGED poll
      /\ archive' = archive /\ late' = late /\ revived' = revived
      /\ seen' = seen /\ pc' = pc /\ victim' = victim
      /\ TypeOK
  BY DEF Claim, Dispatchable, Running, disk, poll, handlers, IInv
<1>2. /\ retries' \subseteq Issues /\ agents' \in [Issues -> SUBSET Token]
      /\ dir' \in [Issues -> Dir] /\ undoing' \subseteq Issues /\ broken' \subseteq Issues
      /\ archive' \in Archive /\ late' \in [Issues -> RowStatus \cup {None}]
      /\ revived' \subseteq Issues
  BY <1>1 DEF TypeOK
<1>3. /\ rows' \in [Issues -> Row] /\ issued' \in [Issues -> 0..MaxAttempts]
      /\ issued[i] + 1 \in Token /\ OverStays
  BY <1>1, GrantsRow
<1> DEFINE e == [phase |-> "prepare", token |-> issued[i] + 1, active |-> TRUE]
<1>4. e \in Entry /\ e.phase = "prepare" /\ e.token \in Token
  BY <1>3 DEF Entry, Phase
<1>5. entry' = [entry EXCEPT ![i] = e]
  BY <1>1
<1>6. "prepare" # None /\ Free.phase = None
  BY NoneIsNothing DEF Phase, Free
<1> HIDE DEF e
<1>7. /\ entry' \in [Issues -> Entry] /\ Numbered' /\ entry'[i] = e
      /\ \A j \in Issues : j # i => entry'[j] = entry[j]
  BY <1>4, <1>5, <1>6, GoesEntry
<1>8. ASSUME NEW j \in Issues
      PROVE  /\ Calm(entry[j].phase, entry'[j].phase)
             /\ entry[j].phase # None => entry'[j].phase # None
  <2>1. CASE j = i
    BY <1>1, <1>4, <1>6, <1>7, <2>1, NoneIsNothing DEF Calm, Cloning, Using, Phase
  <2>2. CASE j # i
    BY <1>7, <2>2 DEF Calm
  <2>3. QED
    BY <2>1, <2>2
<1>9. Archiving' /\ Aims' /\ Places'
  <2>1. Archiving'
    BY <1>1 DEF IInv, Archiving
  <2>2. QED
    BY <1>1, <1>3, <1>8, <2>1, SameAims, KeepsAims, CalmPlaces
<1>10. QED
  BY <1>1, <1>2, <1>3, <1>7, <1>8, <1>9, TaskStep

LEMMA ClaimLostStep ==
    ASSUME IInv, NEW i \in Issues, ClaimLost(i)
    PROVE  IInv'
<1>1. /\ Granted(i) /\ rows[i].status = "ready" /\ issued[i] < MaxAttempts
      /\ pc = "dispatch" /\ pc' \in {"asleep", "closing"}
      /\ worker' = worker /\ registered' = registered /\ starts' = starts
      /\ seen' = seen /\ victim' = victim /\ entry' = entry /\ retries' = retries
      /\ agents' = agents /\ dir' = dir /\ undoing' = undoing /\ broken' = broken
      /\ archive' = archive /\ late' = late /\ revived' = revived /\ UNCHANGED disk
      /\ TypeOK
  BY DEF ClaimLost, Dispatchable, tasks, disk, handlers, IInv
<1>2. /\ rows' \in [Issues -> Row] /\ issued' \in [Issues -> 0..MaxAttempts] /\ OverStays
  BY <1>1, GrantsRow
<1>3. TypeOK'
  BY <1>1, <1>2
     DEF TypeOK, Row, RowStatus, Worker, Entry, Point, Victim, Archive, Token, Dir
<1>4. Numbered'
  BY <1>1 DEF IInv, Numbered, Token, Free
<1>5. Cancelling' /\ Reconciling' /\ Archiving'
  BY <1>1, NothingSeen DEF Cancelling, IInv, Archiving
<1>6. Aims' /\ Places'
  BY <1>1, <1>2, SameAims, KeepsAims, KeepsEntries, CalmPlaces
<1>7. QED
  BY <1>3, <1>4, <1>5, <1>6 DEF IInv

-----------------------------------------------------------------------------
(* Steps on the disk *)

\* A workspace that somebody took aim at is removed: its Issue is over.
LEMMA RemovesPlaces ==
    ASSUME IInv, NEW v \in Issues, Removed(v), Over(v), undoing' = undoing, rows' = rows,
           revived' = revived,
           \A i \in Issues : Calm(entry[i].phase, entry'[i].phase)
    PROVE  /\ dir' \in [Issues -> Dir] /\ undoing' \subseteq Issues
           /\ broken' \subseteq Issues
           /\ Places'
           /\ \A i \in Issues : dir'[i] = dir[i] \/ Over(i)
<1>1. /\ dir \in [Issues -> Dir] /\ undoing \subseteq Issues /\ broken \subseteq Issues
      /\ broken' = broken \cup {v} /\ undoing' = undoing
  BY DEF IInv, TypeOK, Removed
<1>. PICK e \in {"absent", "partial"} : dir' = [dir EXCEPT ![v] = e]
  BY DEF Removed
<1>2. /\ dir' \in [Issues -> Dir] /\ undoing' \subseteq Issues /\ broken' \subseteq Issues
  BY <1>1 DEF Dir
<1>3. OverStays
  BY KeepsRows
<1>4. ASSUME NEW i \in Issues
      PROVE  /\ Place(entry'[i].phase, dir'[i], i \in broken', i \in undoing', Over(i)')
             /\ dir'[i] = dir[i] \/ Over(i)
  <2>1. PICK p, q, d : p = entry[i].phase /\ q = entry'[i].phase /\ d = dir[i]
    OBVIOUS
  <2>2. /\ p \in Cloning => d # "whole"
        /\ p \in Using /\ d # "whole" => i \in broken
        /\ d = "partial" => p \in Cloning \/ i \in broken
        /\ i \in undoing => Over(i) \/ (d = "partial" /\ p \notin Cloning)
        /\ Calm(p, q)
    BY <1>3, <2>1, PlaceOf
  <2>3. Over(i) <=> Over(i)'
    BY DEF Over, Terminal
  <2>4. CASE i = v
    <3>1. /\ dir'[i] = e /\ i \in broken' /\ Over(i) /\ Over(i)'
      BY <1>1, <2>3, <2>4
    <3>2. dir'[i] # "whole"
      BY <3>1
    <3>3. QED
      BY <3>1, <3>2 DEF Place
  <2>5. CASE i # v
    <3>1. /\ dir'[i] = d /\ (i \in broken' <=> i \in broken)
          /\ (i \in undoing' <=> i \in undoing)
      BY <1>1, <2>1, <2>5
    <3>2. /\ q \in Cloning => d # "whole"
          /\ q \in Using /\ d # "whole" => i \in broken'
          /\ d = "partial" => q \in Cloning \/ i \in broken'
          /\ i \in undoing' => Over(i)' \/ (d = "partial" /\ q \notin Cloning)
      BY <2>2, <2>3, <3>1 DEF Calm, Cloning, Using
    <3>3. QED
      BY <2>1, <3>1, <3>2 DEF Place
  <2>6. QED
    BY <2>4, <2>5
<1>5. QED
  BY <1>2, <1>4 DEF Places

\* Nothing changes on the disk.
LEMMA KeepsPlaces ==
    ASSUME IInv, UNCHANGED disk, rows' = rows, revived' = revived,
           \A i \in Issues : Calm(entry[i].phase, entry'[i].phase)
    PROVE  /\ dir' \in [Issues -> Dir] /\ undoing' \subseteq Issues
           /\ broken' \subseteq Issues
           /\ Places'
           /\ \A i \in Issues : dir'[i] = dir[i] \/ Over(i)
<1>1. dir' = dir /\ undoing' = undoing /\ broken' = broken
  BY DEF disk
<1>2. /\ dir' \in [Issues -> Dir] /\ undoing' \subseteq Issues /\ broken' \subseteq Issues
  BY <1>1 DEF IInv, TypeOK
<1>3. Places'
  BY KeepsRows, CalmPlaces
<1>4. QED
  BY <1>1, <1>2, <1>3

\* A Runner that starts removes the workspaces of the Issues that were over.
LEMMA CleanUpStep ==
    ASSUME IInv, NEW v \in Issues, CleanUp(v)
    PROVE  /\ IInv'
           /\ \A i \in Issues : dir'[i] = dir[i] \/ Over(i)
<1>1. /\ pc = "cleaning" /\ pc' = pc /\ seen[v] = "terminal"
      /\ seen' = [seen EXCEPT ![v] = None]
      /\ Removed(v) \/ UNCHANGED disk
      /\ undoing' = undoing
      /\ UNCHANGED <<tables, agents, handlers>>
      /\ rows' = rows /\ revived' = revived /\ archive' = archive /\ worker' = worker
      /\ registered' = registered /\ starts' = starts /\ victim' = victim
      /\ entry' = entry /\ retries' = retries
  BY DEF CleanUp, tables, tasks, disk, handlers
<1>2. /\ worker' \in Worker /\ pc' \in Point /\ registered' \in BOOLEAN
      /\ starts' \in 0..MaxStarts /\ victim' \in Victim /\ retries' \subseteq Issues
      /\ entry' \in [Issues -> Entry] /\ seen' \in [Issues -> Sight \cup {None}]
  BY <1>1 DEF IInv, TypeOK
<1>3. Over(v)
  BY <1>1 DEF IInv, Aims, Aimed
<1>4. /\ dir' \in [Issues -> Dir] /\ undoing' \subseteq Issues
      /\ broken' \subseteq Issues /\ Places'
      /\ \A i \in Issues : dir'[i] = dir[i] \/ Over(i)
  BY <1>1, <1>3, KeepsEntries, RemovesPlaces, KeepsPlaces
<1>5. Numbered' /\ Cancelling' /\ Reconciling'
  BY <1>1 DEF IInv, Numbered, Token, Free, Cancelling, Reconciling
<1>6. \A i \in Issues : seen'[i] = "terminal" => seen[i] = "terminal"
  BY <1>1, NoneIsNothing DEF IInv, TypeOK, Sight
<1>7. \A i \in Issues : Aimed(i)' => Aimed(i)
  BY <1>1, <1>6 DEF Aimed
<1>8. Aims'
  BY <1>1, <1>7, KeepsRows, KeepsAims
<1>9. QED
  BY <1>1, <1>2, <1>4, <1>5, <1>8, PollStep

\* A clone that the process leaves behind is known to be broken.
LEMMA CrashStep ==
    ASSUME IInv, Crash
    PROVE  IInv'
<1>1. /\ pc' = "exited" /\ entry' = [i \in Issues |-> Free] /\ retries' = {}
      /\ seen' = [i \in Issues |-> None]
      /\ undoing' = {} /\ broken' = broken \cup {i \in Issues : dir[i] = "partial"}
      /\ UNCHANGED <<tables, agents, handlers>>
      /\ rows' = rows /\ revived' = revived /\ archive' = archive /\ worker' = worker
      /\ registered' = registered /\ starts' = starts /\ victim' = victim
      /\ dir' = dir
  BY DEF Crash, tables, handlers
<1>2. Free \in Entry /\ Free.phase = None
  BY DEF Free, Entry
<1>3. /\ worker' \in Worker /\ pc' \in Point /\ registered' \in BOOLEAN
      /\ starts' \in 0..MaxStarts /\ victim' \in Victim /\ retries' \subseteq Issues
      /\ entry' \in [Issues -> Entry] /\ seen' \in [Issues -> Sight \cup {None}]
      /\ dir' \in [Issues -> Dir] /\ undoing' \subseteq Issues /\ broken' \subseteq Issues
  BY <1>1, <1>2 DEF IInv, TypeOK, Point
<1>4. Numbered' /\ Cancelling' /\ Reconciling'
  BY <1>1, <1>2 DEF Numbered, Free, Cancelling, Reconciling
<1>5. Aims'
  <2>1. \A i \in Issues : seen'[i] # "terminal"
    BY <1>1, NoneIsNothing DEF Sight
  <2>2. QED
    BY <1>1, <2>1, SameAims, KeepsRows, KeepsAims
<1>6. ASSUME NEW i \in Issues
      PROVE  Place(entry'[i].phase, dir'[i], i \in broken', i \in undoing', Over(i)')
  <2>1. /\ entry'[i].phase \notin Cloning /\ entry'[i].phase \notin Using
        /\ dir'[i] = "partial" => i \in broken'
        /\ i \notin undoing'
    BY <1>1, <1>2, NoneIsNothing DEF Cloning, Using, Phase
  <2>2. QED
    BY <2>1 DEF Place
<1>7. Places'
  BY <1>6 DEF Places
<1>8. QED
  BY <1>1, <1>3, <1>4, <1>5, <1>7, PollStep

\* The removal after a cancellation is of an Issue that was over.
LEMMA EndCancelStep ==
    ASSUME IInv, EndCancel
    PROVE  /\ IInv'
           /\ \A i \in Issues : dir'[i] = dir[i] \/ Over(i)
<1> DEFINE v == victim.issue
<1>1. /\ pc = "cancelling" /\ entry[v].phase = "done"
      /\ entry' = [entry EXCEPT ![v] = Free]
      /\ pc' = victim.back
      /\ victim' = [issue |-> None, cleanup |-> FALSE, back |-> "refresh"]
      /\ UNCHANGED disk \/ (victim.cleanup /\ Removed(v))
      /\ undoing' = undoing
      /\ UNCHANGED <<tables, agents, handlers>>
      /\ rows' = rows /\ revived' = revived /\ archive' = archive /\ worker' = worker
      /\ registered' = registered /\ starts' = starts /\ seen' = seen
      /\ retries' = retries
  BY DEF EndCancel, At, tables, disk, handlers
<1>2. v \in Issues /\ (victim.cleanup => Over(v))
  BY <1>1 DEF IInv, Cancelling, Aims, Aimed
<1>3. Free \in Entry /\ Free.phase = None
  BY DEF Free, Entry
<1>4. /\ entry' \in [Issues -> Entry] /\ entry'[v] = Free
      /\ \A j \in Issues : j # v => entry'[j] = entry[j]
  BY <1>1, <1>2, <1>3 DEF IInv, TypeOK
<1>5. /\ pc' \in {"refresh", "reconcile"} /\ victim' \in Victim
  BY <1>1 DEF IInv, TypeOK, Victim
<1>6. /\ worker' \in Worker /\ pc' \in Point /\ registered' \in BOOLEAN
      /\ starts' \in 0..MaxStarts /\ retries' \subseteq Issues
      /\ seen' \in [Issues -> Sight \cup {None}]
  BY <1>1, <1>5 DEF IInv, TypeOK, Point
<1>7. Numbered' /\ Cancelling'
  BY <1>3, <1>4, <1>5 DEF IInv, Numbered, Token, Free, Cancelling
<1>8. Aims'
  BY <1>1, <1>5, SameAims, KeepsRows, KeepsAims
<1>9. Reconciling'
  <2>1. ASSUME NEW j \in Issues, seen'[j] # None
        PROVE  pc' = "reconcile" /\ entry'[j].phase # None
    BY <1>1, <1>4, <2>1 DEF IInv, Reconciling
  <2>2. QED
    BY <2>1 DEF Reconciling
<1>10. ASSUME NEW i \in Issues PROVE Calm(entry[i].phase, entry'[i].phase)
  <2>1. CASE i = v
    BY <1>1, <1>3, <1>4, <2>1, NoneIsNothing DEF Calm, Cloning, Using, Phase
  <2>2. CASE i # v
    BY <1>4, <2>2 DEF Calm
  <2>3. QED
    BY <2>1, <2>2
<1>11. /\ dir' \in [Issues -> Dir] /\ undoing' \subseteq Issues
       /\ broken' \subseteq Issues /\ Places'
       /\ \A i \in Issues : dir'[i] = dir[i] \/ Over(i)
  BY <1>1, <1>2, <1>10, RemovesPlaces, KeepsPlaces
<1>12. QED
  BY <1>1, <1>4, <1>5, <1>6, <1>7, <1>8, <1>9, <1>11, PollStep

-----------------------------------------------------------------------------
(* Steps of an Attempt *)

LEMMA AttemptStep ==
    ASSUME IInv, NEW i \in Issues, UNCHANGED <<issued, worker, poll, handlers>>,
           rows' \in [Issues -> Row], OverStays,
           entry' \in [Issues -> Entry], Numbered',
           \A j \in Issues : j # i => entry'[j] = entry[j],
           entry'[i].phase # None,
           retries' \subseteq Issues, agents' \in [Issues -> SUBSET Token],
           dir' \in [Issues -> Dir], undoing' = undoing, broken' \subseteq Issues,
           \A j \in Issues : j # i => /\ dir'[j] = dir[j]
                                      /\ j \in broken' <=> j \in broken,
           Place(entry'[i].phase, dir'[i], i \in broken', i \in undoing', Over(i)')
    PROVE  IInv'
<1>1. /\ issued' = issued /\ worker' = worker /\ UNCHANGED poll
      /\ archive' = archive /\ late' = late /\ revived' = revived
      /\ seen' = seen /\ pc' = pc /\ victim' = victim
  BY DEF handlers, poll
<1>2. /\ issued' \in [Issues -> 0..MaxAttempts] /\ archive' \in Archive
      /\ late' \in [Issues -> RowStatus \cup {None}] /\ revived' \subseteq Issues
      /\ undoing' \subseteq Issues
  BY <1>1 DEF IInv, TypeOK
<1>3. Archiving'
  BY <1>1 DEF IInv, Archiving
<1>4. Aims'
  BY <1>1, SameAims, KeepsAims
<1>5. \A j \in Issues : entry[j].phase # None => entry'[j].phase # None
  OBVIOUS
<1>6. ASSUME NEW j \in Issues
      PROVE  Place(entry'[j].phase, dir'[j], j \in broken', j \in undoing', Over(j)')
  <2>1. CASE j = i
    BY <2>1
  <2>2. CASE j # i
    <3>1. PICK q, d : q = entry[j].phase /\ d = dir[j]
      OBVIOUS
    <3>2. /\ q \in Cloning => d # "whole"
          /\ q \in Using /\ d # "whole" => j \in broken
          /\ d = "partial" => q \in Cloning \/ j \in broken
          /\ j \in undoing => Over(j) \/ (d = "partial" /\ q \notin Cloning)
          /\ j \in undoing /\ Over(j) => Over(j)'
      BY <3>1, PlaceOf
    <3>3. /\ entry'[j].phase = q /\ dir'[j] = d
          /\ j \in broken' <=> j \in broken
          /\ j \in undoing' <=> j \in undoing
      BY <2>2, <3>1
    <3>4. QED
      BY <3>2, <3>3 DEF Place
  <2>3. QED
    BY <2>1, <2>2
<1>7. Places'
  BY <1>6 DEF Places
<1>8. QED
  BY <1>1, <1>2, <1>3, <1>4, <1>5, <1>7, TaskStep

\* What is known of an Attempt that takes a step.
LEMMA Attempting ==
    ASSUME IInv, NEW i \in Issues, NEW p \in Phase, At(i, p), rows' = rows,
           revived' = revived
    PROVE  /\ entry[i] \in Entry /\ entry[i].phase = p /\ p # None
           /\ entry[i].token \in Token
           /\ p \in Cloning => dir[i] # "whole"
           /\ p \in Using /\ dir[i] # "whole" => i \in broken
           /\ dir[i] = "partial" => p \in Cloning \/ i \in broken
           /\ i \in undoing => Over(i) \/ (dir[i] = "partial" /\ p \notin Cloning)
           /\ Over(i) <=> Over(i)'
           /\ dir[i] \in Dir
<1>1. entry[i] \in Entry /\ entry[i].phase = p /\ p # None /\ dir[i] \in Dir
  BY NoneIsNothing DEF At, IInv, TypeOK
<1>2. entry[i].token \in Token
  BY <1>1 DEF IInv, Numbered
<1>3. OverStays
  BY KeepsRows
<1>4. /\ p \in Cloning => dir[i] # "whole"
      /\ p \in Using /\ dir[i] # "whole" => i \in broken
      /\ dir[i] = "partial" => p \in Cloning \/ i \in broken
      /\ i \in undoing => Over(i) \/ (dir[i] = "partial" /\ p \notin Cloning)
  BY <1>1, <1>3, PlaceOf
<1>5. Over(i) <=> Over(i)'
  BY DEF Over, Terminal
<1>6. QED
  BY <1>1, <1>2, <1>4, <1>5

\* An Attempt that goes on from p to q with the directory as it is.
LEMMA GoesCalmly ==
    ASSUME IInv, NEW i \in Issues, NEW p \in Phase, NEW q \in Phase, At(i, p), Calm(p, q),
           \/ Goes(i, q)
           \/ entry' = [entry EXCEPT ![i].phase = q, ![i].active = FALSE],
           UNCHANGED <<issued, worker, poll, disk, handlers>>,
           rows' \in [Issues -> Row], OverStays, retries' \subseteq Issues, agents' = agents
    PROVE  IInv'
<1>1. entry[i] \in Entry /\ entry[i].phase = p /\ p # None /\ q # None
  BY NoneIsNothing DEF At, IInv, TypeOK
<1>2. entry[i].token \in Token
  BY <1>1 DEF IInv, Numbered
<1>3. /\ entry' \in [Issues -> Entry] /\ Numbered' /\ entry'[i].phase = q
      /\ \A j \in Issues : j # i => entry'[j] = entry[j]
  <2>1. CASE Goes(i, q)
    BY <1>1, <2>1, GoesPhase
  <2>2. CASE entry' = [entry EXCEPT ![i].phase = q, ![i].active = FALSE]
    <3> DEFINE e == [entry[i] EXCEPT !.phase = q, !.active = FALSE]
    <3>1. entry' = [entry EXCEPT ![i] = e]
      BY <2>2 DEF IInv, TypeOK
    <3>2. e \in Entry /\ e.phase = q /\ e.token \in Token
      BY <1>1, <1>2 DEF Entry
    <3> HIDE DEF e
    <3>3. QED
      BY <1>1, <3>1, <3>2, GoesEntry
  <2>3. QED
    BY <2>1, <2>2
<1>4. /\ issued' = issued /\ worker' = worker /\ UNCHANGED poll /\ UNCHANGED disk
      /\ archive' = archive /\ late' = late /\ revived' = revived
      /\ dir' = dir /\ undoing' = undoing /\ broken' = broken
      /\ seen' = seen /\ pc' = pc /\ victim' = victim
  BY DEF disk, handlers, poll
<1>5. /\ issued' \in [Issues -> 0..MaxAttempts] /\ archive' \in Archive
      /\ agents' \in [Issues -> SUBSET Token]
      /\ late' \in [Issues -> RowStatus \cup {None}] /\ revived' \subseteq Issues
      /\ dir' \in [Issues -> Dir] /\ undoing' \subseteq Issues /\ broken' \subseteq Issues
  BY <1>4 DEF IInv, TypeOK
<1>6. ASSUME NEW j \in Issues
      PROVE  /\ Calm(entry[j].phase, entry'[j].phase)
             /\ entry[j].phase # None => entry'[j].phase # None
  <2>1. CASE j = i
    BY <1>1, <1>3, <2>1
  <2>2. CASE j # i
    BY <1>3, <2>2 DEF Calm
  <2>3. QED
    BY <2>1, <2>2
<1>7. Archiving'
  BY <1>4 DEF IInv, Archiving
<1>8. Aims' /\ Places'
  BY <1>4, <1>6, SameAims, KeepsAims, CalmPlaces
<1>9. QED
  BY <1>3, <1>4, <1>5, <1>6, <1>7, <1>8, TaskStep

\* The steps of an Attempt that leave the directory alone.
LEMMA CalmSteps ==
    ASSUME IInv, NEW i \in Issues,
           LaunchFails(i) \/ AgentStops(i) \/ HeartbeatRefused(i) \/ Ended(i) \/ AfterRun(i)
    PROVE  IInv'
<1>1. rows \in [Issues -> Row] /\ retries \subseteq Issues
  BY DEF IInv, TypeOK
<1>2. {"launch", "agent", "ending", "windup", "after", "done"} \subseteq Phase
  BY DEF Phase
<1>3. /\ Calm("launch", "windup") /\ Calm("agent", "ending")
      /\ Calm("ending", "windup") /\ Calm("after", "done")
  BY DEF Calm, Cloning, Using
<1>4. CASE LaunchFails(i)
  <2>1. /\ At(i, "launch") /\ Goes(i, "windup") /\ rows' = rows /\ issued' = issued
        /\ worker' = worker /\ UNCHANGED poll /\ retries' = retries
        /\ agents' = agents /\ UNCHANGED disk /\ UNCHANGED handlers /\ revived' = revived
    BY <1>4 DEF LaunchFails, tables, handlers
  <2>2. QED
    BY <1>1, <1>2, <1>3, <2>1, KeepsRows, GoesCalmly
<1>5. CASE AgentStops(i)
  <2>1. /\ At(i, "agent")
        /\ \/ Goes(i, "ending")
           \/ entry' = [entry EXCEPT ![i].phase = "ending", ![i].active = FALSE]
        /\ rows' = rows /\ issued' = issued
        /\ worker' = worker /\ UNCHANGED poll /\ retries' = retries
        /\ agents' = agents /\ UNCHANGED disk /\ UNCHANGED handlers /\ revived' = revived
    BY <1>5 DEF AgentStops, tables, handlers
  <2>2. QED
    BY <1>1, <1>2, <1>3, <2>1, KeepsRows, GoesCalmly
<1>6. CASE HeartbeatRefused(i)
  <2>1. /\ At(i, "agent")
        /\ entry' = [entry EXCEPT ![i].phase = "ending", ![i].active = FALSE]
        /\ rows' = rows /\ issued' = issued
        /\ worker' = worker /\ UNCHANGED poll /\ retries' = retries
        /\ agents' = agents /\ UNCHANGED disk /\ UNCHANGED handlers /\ revived' = revived
    BY <1>6 DEF HeartbeatRefused, tables, handlers
  <2>2. QED
    BY <1>1, <1>2, <1>3, <2>1, KeepsRows, GoesCalmly
<1>7. CASE Ended(i)
  <2>1. /\ At(i, "ending") /\ Goes(i, "windup") /\ rows' = rows /\ issued' = issued
        /\ worker' = worker /\ UNCHANGED poll /\ retries' = retries
        /\ agents' = agents /\ UNCHANGED disk /\ UNCHANGED handlers /\ revived' = revived
    BY <1>7 DEF Ended, tables, handlers
  <2>2. QED
    BY <1>1, <1>2, <1>3, <2>1, KeepsRows, GoesCalmly
<1>8. CASE AfterRun(i)
  <2>1. /\ At(i, "after") /\ Goes(i, "done") /\ rows' = rows /\ issued' = issued
        /\ worker' = worker /\ UNCHANGED poll /\ retries' = retries
        /\ agents' = agents /\ UNCHANGED disk /\ UNCHANGED handlers /\ revived' = revived
    BY <1>8 DEF AfterRun, tables, handlers
  <2>2. QED
    BY <1>1, <1>2, <1>3, <2>1, KeepsRows, GoesCalmly
<1>9. QED
  BY <1>4, <1>5, <1>6, <1>7, <1>8

LEMMA FinishStep ==
    ASSUME IInv, NEW i \in Issues, Finish(i)
    PROVE  IInv'
<1>1. /\ At(i, "agent") /\ Moved(i, "waiting") /\ ~Terminal(i) /\ TypeOK
      /\ issued' = issued /\ worker' = worker /\ UNCHANGED poll /\ retries' = retries
      /\ agents' = agents /\ UNCHANGED disk /\ UNCHANGED handlers /\ revived' = revived
  BY DEF Finish, Holds, Terminal, handlers, IInv
<1>2. rows' \in [Issues -> Row] /\ OverStays
  BY <1>1, MovesRow DEF RowStatus
<1>3. CASE entry' = [entry EXCEPT ![i].phase = "ending", ![i].active = FALSE]
  <2>1. "agent" \in Phase /\ "ending" \in Phase /\ Calm("agent", "ending")
    BY DEF Phase, Calm, Cloning, Using
  <2>2. retries' \subseteq Issues
    BY <1>1 DEF TypeOK
  <2>3. QED
    BY <1>1, <1>2, <1>3, <2>1, <2>2, GoesCalmly
<1>4. CASE UNCHANGED entry
  BY <1>1, <1>2, <1>4, PlainRowStep DEF tasks, handlers, TypeOK
<1>5. QED
  BY <1>3, <1>4 DEF Finish

LEMMA WindUpStep ==
    ASSUME IInv, NEW i \in Issues, WindUp(i)
    PROVE  IInv'
<1>1. /\ At(i, "windup") /\ Goes(i, "after") /\ TypeOK
      /\ retries' = retries \cup {i} \/ retries' = retries
      /\ (Holds(i, entry[i].token) /\ Moved(i, "retry_queued")) \/ rows' = rows
      /\ issued' = issued /\ worker' = worker /\ UNCHANGED poll
      /\ agents' = agents /\ UNCHANGED disk /\ UNCHANGED handlers /\ revived' = revived
  BY DEF WindUp, handlers, IInv
<1>2. rows' \in [Issues -> Row] /\ OverStays
  <2>1. CASE rows' = rows
    BY <1>1, <2>1, KeepsRows DEF TypeOK
  <2>2. CASE Holds(i, entry[i].token) /\ Moved(i, "retry_queued")
    BY <1>1, <2>2, MovesRow DEF RowStatus, Holds, Terminal
  <2>3. QED
    BY <1>1, <2>1, <2>2
<1>3. "windup" \in Phase /\ "after" \in Phase /\ Calm("windup", "after")
  BY DEF Phase, Calm, Cloning, Using
<1>4. retries' \subseteq Issues
  BY <1>1 DEF TypeOK
<1>5. QED
  BY <1>1, <1>2, <1>3, <1>4, GoesCalmly

\* What the steps of an Attempt on its directory leave alone.
LEMMA DirStep ==
    ASSUME IInv, NEW i \in Issues, NEW p \in Phase, NEW q \in Phase, At(i, p), Goes(i, q),
           UNCHANGED <<tables, worker, poll, retries, undoing, handlers>>,
           agents' \in [Issues -> SUBSET Token], NEW d \in Dir, dir' = [dir EXCEPT ![i] = d],
           broken' \in {broken, broken \cup {i}, broken \ {i}},
           q \in Cloning => d # "whole",
           q \in Using /\ d # "whole" => i \in broken',
           d = "partial" => q \in Cloning \/ i \in broken',
           i \in undoing => Over(i) \/ (d = "partial" /\ q \notin Cloning)
    PROVE  IInv'
<1>1. /\ rows' = rows /\ issued' = issued /\ revived' = revived /\ undoing' = undoing
      /\ retries' = retries /\ TypeOK
  BY DEF tables, handlers, IInv
<1>2. /\ rows' \in [Issues -> Row] /\ retries' \subseteq Issues /\ dir' \in [Issues -> Dir]
      /\ broken' \subseteq Issues
  BY <1>1 DEF TypeOK
<1>3. /\ dir'[i] = d
      /\ \A j \in Issues : j # i => /\ dir'[j] = dir[j]
                                    /\ j \in broken' <=> j \in broken
  BY <1>1 DEF TypeOK
<1>4. entry[i].phase # None /\ (Over(i) <=> Over(i)')
  BY <1>1, Attempting
<1>5. /\ entry' \in [Issues -> Entry] /\ Numbered' /\ entry'[i].phase = q
      /\ \A j \in Issues : j # i => entry'[j] = entry[j]
  BY <1>4, GoesPhase
<1>6. q # None
  BY NoneIsNothing
<1>7. Place(entry'[i].phase, dir'[i], i \in broken', i \in undoing', Over(i)')
  BY <1>1, <1>3, <1>4, <1>5 DEF Place
<1>8. OverStays
  BY <1>1, KeepsRows
<1>9. QED
  BY <1>1, <1>2, <1>3, <1>5, <1>6, <1>7, <1>8, AttemptStep

LEMMA PrepareStep ==
    ASSUME IInv, NEW i \in Issues, Prepare(i)
    PROVE  /\ IInv'
           /\ \A j \in Issues : dir'[j] = dir[j] \/ dir[j] = "absent"
<1>1. /\ At(i, "prepare")
      /\ UNCHANGED <<tables, worker, poll, retries, undoing, handlers>>
      /\ rows' = rows /\ revived' = revived /\ agents' = agents /\ TypeOK
  BY DEF Prepare, tables, handlers, IInv
<1>2. agents' \in [Issues -> SUBSET Token] /\ dir \in [Issues -> Dir]
  BY <1>1 DEF TypeOK
<1>3. {"prepare", "clone", "launch"} \subseteq Phase /\ {"partial", "absent"} \subseteq Dir
  BY DEF Phase, Dir
<1>4. /\ dir[i] = "partial" => i \in broken
      /\ i \in undoing => Over(i) \/ dir[i] = "partial"
      /\ dir[i] \in Dir
  BY <1>1, <1>3, Attempting DEF Cloning
<1>5. CASE /\ dir[i] = "absent" /\ dir' = [dir EXCEPT ![i] = "partial"]
           /\ broken' = broken \ {i} /\ Goes(i, "clone")
  <2>1. IInv'
    BY <1>1, <1>2, <1>3, <1>4, <1>5, DirStep DEF Cloning, Using
  <2>2. QED
    BY <1>2, <1>5, <2>1
<1>6. CASE dir[i] # "absent" /\ dir' = dir /\ broken' = broken /\ Goes(i, "launch")
  <2>1. dir' = [dir EXCEPT ![i] = dir[i]]
    BY <1>2, <1>6
  <2>2. /\ dir[i] # "whole" => i \in broken'
        /\ broken' \in {broken, broken \cup {i}, broken \ {i}}
        /\ "launch" \notin Cloning
    BY <1>4, <1>6 DEF Dir, Cloning
  <2>3. /\ i \in undoing => Over(i) \/ (dir[i] = "partial" /\ "launch" \notin Cloning)
        /\ dir[i] = "partial" => "launch" \in Cloning \/ i \in broken'
    BY <1>4, <2>2
  <2>4. IInv'
    BY <1>1, <1>2, <1>3, <1>4, <1>6, <2>1, <2>2, <2>3, DirStep
  <2>5. QED
    BY <1>6, <2>4
<1>7. QED
  BY <1>5, <1>6 DEF Prepare

LEMMA CloneEndsStep ==
    ASSUME IInv, NEW i \in Issues, CloneEnds(i)
    PROVE  /\ IInv'
           /\ \A j \in Issues : dir'[j] = dir[j] \/ dir[j] = "partial"
<1>1. /\ At(i, "clone") /\ broken' = broken
      /\ UNCHANGED <<tables, worker, poll, retries, undoing, handlers>>
      /\ rows' = rows /\ revived' = revived /\ agents' = agents /\ TypeOK
  BY DEF CloneEnds, tables, handlers, IInv
<1>2. agents' \in [Issues -> SUBSET Token] /\ dir \in [Issues -> Dir]
  BY <1>1 DEF TypeOK
<1>3. {"clone", "undo", "launch"} \subseteq Phase /\ "whole" \in Dir
  BY DEF Phase, Dir
<1>4. dir[i] # "whole" /\ (i \in undoing => Over(i)) /\ dir[i] \in Dir
  BY <1>1, <1>3, Attempting DEF Cloning
<1>5. CASE /\ dir[i] = "partial" /\ dir' = [dir EXCEPT ![i] = "whole"]
           /\ Goes(i, "launch")
  <2>1. IInv'
    BY <1>1, <1>2, <1>3, <1>4, <1>5, DirStep DEF Cloning
  <2>2. QED
    BY <1>2, <1>5, <2>1
<1>6. CASE dir' = dir /\ Goes(i, "undo")
  <2>1. dir' = [dir EXCEPT ![i] = dir[i]]
    BY <1>2, <1>6
  <2>2. IInv'
    BY <1>1, <1>2, <1>3, <1>4, <1>6, <2>1, DirStep DEF Cloning, Using
  <2>3. QED
    BY <1>6, <2>2
<1>7. QED
  BY <1>5, <1>6 DEF CloneEnds

\* What an Attempt whose clone failed removes is not a whole workspace.
LEMMA UndoCloneStep ==
    ASSUME IInv, NEW i \in Issues, UndoClone(i)
    PROVE  /\ IInv'
           /\ \A j \in Issues : dir'[j] = dir[j] \/ dir[j] # "whole"
<1>1. /\ At(i, "undo") /\ Goes(i, "windup")
      /\ UNCHANGED <<tables, worker, poll, retries, undoing, handlers>>
      /\ rows' = rows /\ revived' = revived /\ agents' = agents /\ TypeOK
  BY DEF UndoClone, tables, handlers, IInv
<1>2. agents' \in [Issues -> SUBSET Token] /\ dir \in [Issues -> Dir]
  BY <1>1 DEF TypeOK
<1>3. "undo" \in Phase /\ "windup" \in Phase /\ "absent" \in Dir
  BY DEF Phase, Dir
<1>4. dir[i] # "whole" /\ (i \in undoing => Over(i)) /\ dir[i] \in Dir
  BY <1>1, <1>3, Attempting DEF Cloning
<1>5. CASE dir' = [dir EXCEPT ![i] = "absent"] /\ broken' = broken \ {i}
  <2>1. IInv'
    BY <1>1, <1>2, <1>3, <1>4, <1>5, DirStep DEF Cloning, Using
  <2>2. QED
    BY <1>2, <1>4, <1>5, <2>1
<1>6. CASE dir' = dir /\ broken' = broken \cup {i}
  <2>1. dir' = [dir EXCEPT ![i] = dir[i]]
    BY <1>2, <1>6
  <2>2. IInv'
    BY <1>1, <1>2, <1>3, <1>4, <1>6, <2>1, DirStep DEF Cloning, Using
  <2>3. QED
    BY <1>6, <2>2
<1>7. QED
  BY <1>5, <1>6 DEF UndoClone

LEMMA LaunchStep ==
    ASSUME IInv, NEW i \in Issues, Launch(i)
    PROVE  /\ IInv'
           /\ \A j \in Issues : dir'[j] = dir[j] \/ dir[j] = "absent"
<1> DEFINE d == IF dir[i] = "absent" THEN "partial" ELSE dir[i]
<1>1. /\ At(i, "launch") /\ Goes(i, "agent")
      /\ agents' = [agents EXCEPT ![i] = agents[i] \cup {entry[i].token}]
      /\ dir' = [dir EXCEPT ![i] = d] /\ broken' = broken
      /\ UNCHANGED <<tables, worker, poll, retries, undoing, handlers>>
      /\ rows' = rows /\ revived' = revived /\ TypeOK
  BY DEF Launch, tables, handlers, IInv, TypeOK
<1>2. "launch" \in Phase /\ "agent" \in Phase /\ "partial" \in Dir
  BY DEF Phase, Dir
<1>3. /\ dir[i] # "whole" => i \in broken
      /\ i \in undoing => Over(i) \/ dir[i] = "partial"
      /\ entry[i].token \in Token /\ dir[i] \in Dir
  BY <1>1, <1>2, Attempting DEF Using, Cloning
<1>4. agents' \in [Issues -> SUBSET Token] /\ dir \in [Issues -> Dir]
  BY <1>1, <1>3 DEF TypeOK
<1>5. /\ d \in Dir /\ (d # "whole" => i \in broken)
      /\ i \in undoing => Over(i) \/ d = "partial"
  BY <1>2, <1>3
<1>6. \A j \in Issues : dir'[j] = dir[j] \/ dir[j] = "absent"
  BY <1>1, <1>4
<1> HIDE DEF d
<1>7. d = "partial" => i \in broken
  BY <1>5
<1>8. IInv'
  BY <1>1, <1>2, <1>4, <1>5, <1>7, DirStep DEF Cloning, Using
<1>9. QED
  BY <1>6, <1>8

\* What a removal that was left behind meets is no whole workspace, unless the Issue
\* is over.
LEMMA RemovalEndsStep ==
    ASSUME IInv, NEW i \in Issues, RemovalEnds(i)
    PROVE  /\ IInv'
           /\ \A j \in Issues : dir'[j] = dir[j] \/ dir[j] # "whole" \/ Over(j)
<1>1. /\ i \in undoing /\ undoing' = undoing \ {i}
      /\ \/ dir' = dir /\ broken' = broken
         \/ /\ \E e \in {"absent", "partial"} : dir' = [dir EXCEPT ![i] = e]
            /\ broken' = broken \cup {i}
      /\ rows' = rows /\ issued' = issued /\ worker' = worker /\ UNCHANGED poll
      /\ seen' = seen /\ pc' = pc /\ victim' = victim
      /\ entry' = entry /\ retries' = retries /\ agents' = agents
      /\ archive' = archive /\ late' = late /\ revived' = revived /\ TypeOK
  BY DEF RemovalEnds, Removed, tables, tasks, poll, handlers, IInv
<1>2. /\ rows' \in [Issues -> Row] /\ issued' \in [Issues -> 0..MaxAttempts]
      /\ entry' \in [Issues -> Entry] /\ retries' \subseteq Issues
      /\ agents' \in [Issues -> SUBSET Token] /\ archive' \in Archive
      /\ late' \in [Issues -> RowStatus \cup {None}] /\ revived' \subseteq Issues
      /\ undoing' \subseteq Issues
  BY <1>1 DEF TypeOK
<1>3. dir \in [Issues -> Dir] /\ broken \subseteq Issues
  BY <1>1 DEF TypeOK
<1>4. dir' \in [Issues -> Dir] /\ broken' \subseteq Issues
  BY <1>1, <1>3 DEF Dir
<1>5. OverStays
  BY <1>1, KeepsRows
<1>6. Numbered' /\ Archiving'
  BY <1>1 DEF IInv, Numbered, Token, Free, Archiving
<1>7. Aims'
  BY <1>1, <1>5, SameAims, KeepsAims
<1>8. ASSUME NEW j \in Issues
      PROVE  /\ Place(entry'[j].phase, dir'[j], j \in broken', j \in undoing', Over(j)')
             /\ dir'[j] = dir[j] \/ dir[j] # "whole" \/ Over(j)
  <2>1. PICK p, d : p = entry[j].phase /\ d = dir[j]
    OBVIOUS
  <2>2. /\ p \in Cloning => d # "whole"
        /\ p \in Using /\ d # "whole" => j \in broken
        /\ d = "partial" => p \in Cloning \/ j \in broken
        /\ j \in undoing => Over(j) \/ (d = "partial" /\ p \notin Cloning)
        /\ j \in undoing /\ Over(j) => Over(j)'
    BY <1>5, <2>1, PlaceOf
  <2>3. j \in undoing' => j \in undoing /\ j # i
    BY <1>1
  <2>4. CASE dir'[j] = dir[j] /\ (j \in broken' <=> j \in broken)
    BY <1>1, <2>1, <2>2, <2>3, <2>4 DEF Place
  <2>5. CASE j = i /\ dir'[j] # "whole" /\ j \in broken'
    <3>1. Place(entry'[j].phase, dir'[j], j \in broken', j \in undoing', Over(j)')
      BY <2>3, <2>5 DEF Place
    <3>2. QED
      BY <1>1, <2>1, <2>2, <2>5, <3>1
  <2>6. QED
    BY <1>1, <1>3, <2>4, <2>5
<1>9. Places'
  BY <1>8 DEF Places
<1>10. \A j \in Issues : entry[j].phase # None => entry'[j].phase # None
  BY <1>1
<1>11. IInv'
  BY <1>1, <1>2, <1>4, <1>6, <1>7, <1>9, <1>10, TaskStep
<1>12. QED
  BY <1>8, <1>11

LEMMA AgentGoneStep ==
    ASSUME IInv, NEW i \in Issues, NEW k \in Token, AgentGone(i, k)
    PROVE  IInv'
<1>1. /\ agents' = [agents EXCEPT ![i] = agents[i] \ {k}]
      /\ rows' = rows /\ issued' = issued /\ worker' = worker /\ UNCHANGED poll
      /\ seen' = seen /\ pc' = pc /\ victim' = victim /\ UNCHANGED disk
      /\ entry' = entry /\ retries' = retries
      /\ dir' = dir /\ undoing' = undoing /\ broken' = broken
      /\ archive' = archive /\ late' = late /\ revived' = revived /\ TypeOK
  BY DEF AgentGone, tables, disk, poll, handlers, IInv, TypeOK
<1>2. /\ rows' \in [Issues -> Row] /\ issued' \in [Issues -> 0..MaxAttempts]
      /\ entry' \in [Issues -> Entry] /\ retries' \subseteq Issues
      /\ agents' \in [Issues -> SUBSET Token]
      /\ dir' \in [Issues -> Dir] /\ undoing' \subseteq Issues /\ broken' \subseteq Issues
      /\ archive' \in Archive /\ late' \in [Issues -> RowStatus \cup {None}]
      /\ revived' \subseteq Issues
  BY <1>1 DEF TypeOK
<1>3. OverStays
  BY <1>1, KeepsRows
<1>4. Numbered' /\ Archiving'
  BY <1>1 DEF IInv, Numbered, Token, Free, Archiving
<1>5. Aims' /\ Places'
  BY <1>1, <1>3, SameAims, KeepsAims, KeepsEntries, CalmPlaces
<1>6. \A j \in Issues : entry[j].phase # None => entry'[j].phase # None
  BY <1>1
<1>7. QED
  BY <1>1, <1>2, <1>4, <1>5, <1>6, TaskStep

-----------------------------------------------------------------------------
(* Steps of archive_issue *)

\* The call has an Issue in mind, and it is about to remove the workspace of none but
\* Issues that are over.
LEMMA ArchiveStep ==
    ASSUME IInv, UNCHANGED <<issued, worker, poll, tasks, disk, late, revived>>,
           rows' \in [Issues -> Row], OverStays, archive' \in Archive, Archiving',
           (archive.phase \in {"waiting", "removing"} => Over(archive.issue))'
    PROVE  IInv'
<1>1. /\ late' = late /\ revived' = revived
      /\ seen' = seen /\ pc' = pc /\ victim' = victim
  BY DEF poll
<1>2. late' \in [Issues -> RowStatus \cup {None}] /\ revived' \subseteq Issues
  BY <1>1 DEF IInv, TypeOK
<1>3. ASSUME NEW i \in Issues, Aimed(i)'
      PROVE  Over(i)'
  <2>1. CASE seen[i] = "terminal" \/ (pc = "cancelling" /\ victim.issue = i /\ victim.cleanup)
    <3>1. Aimed(i) /\ Over(i)
      BY <2>1 DEF Aimed, IInv, Aims
    <3>2. QED
      BY <3>1 DEF OverStays, Doomed
  <2>2. CASE archive'.issue = i /\ archive'.phase \in {"waiting", "removing"}
    BY <2>2
  <2>3. QED
    BY <1>1, <1>3, <2>1, <2>2 DEF Aimed
<1>4. Aims'
  BY <1>3 DEF Aims
<1>5. QED
  BY <1>2, <1>4, RowStep

LEMMA ArchiveBeginsStep ==
    ASSUME IInv, NEW i \in Issues, ArchiveBegins(i)
    PROVE  IInv'
<1>1. /\ Moved(i, "cancelled") /\ archive' = [issue |-> i, phase |-> "waiting"]
      /\ UNCHANGED <<issued, worker, poll, tasks, disk, late, revived>> /\ TypeOK
      /\ revived' = revived
  BY DEF ArchiveBegins, IInv
<1>2. rows' \in [Issues -> Row] /\ OverStays /\ Over(i)'
  BY <1>1, MovesRow DEF RowStatus, Over, Terminal
<1>3. archive' \in Archive /\ archive'.issue = i
  BY <1>1 DEF Archive, Removal
<1>4. Archiving'
  BY <1>1 DEF Archiving
<1>5. QED
  BY <1>1, <1>2, <1>3, <1>4, ArchiveStep

LEMMA ArchiveGoesOn ==
    ASSUME IInv, ArchiveProceeds \/ ArchiveGivesUp \/ ArchiveCommits
    PROVE  IInv'
<1>1. TypeOK /\ archive \in Archive /\ rows \in [Issues -> Row]
  BY DEF IInv, TypeOK
<1>2. Idle \in Archive /\ Idle.phase = None /\ Idle.phase \notin {"waiting", "removing"}
  BY NoneIsNothing DEF Idle, Archive, Removal
<1>3. CASE ArchiveProceeds
  <2>1. /\ archive.phase = "waiting" /\ archive' = [archive EXCEPT !.phase = "removing"]
        /\ rows' = rows /\ revived' = revived
        /\ UNCHANGED <<issued, worker, poll, tasks, disk, late, revived>>
    BY <1>3 DEF ArchiveProceeds, tables
  <2>2. /\ archive' \in Archive /\ archive'.issue = archive.issue
        /\ archive.phase # None
    BY <1>1, <2>1, NoneIsNothing DEF Archive, Removal
  <2>3. archive.issue \in Issues
    BY <2>2 DEF IInv, Archiving
  <2>4. Over(archive.issue)
    BY <2>1, <2>3 DEF IInv, Aims, Aimed
  <2>5. Archiving' /\ Over(archive.issue)'
    BY <2>1, <2>2, <2>3, <2>4 DEF Archiving, Over, Terminal
  <2>6. rows' \in [Issues -> Row] /\ OverStays
    BY <1>1, <2>1, KeepsRows
  <2>7. QED
    BY <2>1, <2>2, <2>5, <2>6, ArchiveStep
<1>4. CASE ArchiveGivesUp
  <2>1. /\ archive' = Idle /\ rows' = rows /\ revived' = revived
        /\ UNCHANGED <<issued, worker, poll, tasks, disk, late, revived>>
    BY <1>4 DEF ArchiveGivesUp, tables
  <2>2. archive' \in Archive /\ Archiving'
    BY <1>2, <2>1 DEF Archiving
  <2>3. rows' \in [Issues -> Row] /\ OverStays
    BY <1>1, <2>1, KeepsRows
  <2>4. QED
    BY <1>2, <2>1, <2>2, <2>3, ArchiveStep
<1>5. CASE ArchiveCommits
  <2>1. /\ archive.phase = "removed" /\ archive' = Idle
        /\ rows' = [rows EXCEPT ![archive.issue].archived = TRUE] /\ revived' = revived
        /\ UNCHANGED <<issued, worker, poll, tasks, disk, late, revived>>
    BY <1>5 DEF ArchiveCommits
  <2>2. archive.issue \in Issues
    BY <2>1, NoneIsNothing DEF IInv, Archiving, Removal
  <2> DEFINE i == archive.issue
             r == [rows[i] EXCEPT !.archived = TRUE]
  <2>3. rows' = [rows EXCEPT ![i] = r] /\ rows[i] \in Row
    BY <1>1, <2>1, <2>2
  <2>4. r \in Row /\ r.status = rows[i].status
    BY <2>3 DEF Row
  <2> HIDE DEF r
  <2>5. rows' \in [Issues -> Row] /\ OverStays
    BY <1>1, <2>1, <2>2, <2>3, <2>4 DEF OverStays, Over, Terminal
  <2>6. archive' \in Archive /\ Archiving'
    BY <1>2, <2>1 DEF Archiving
  <2>7. QED
    BY <1>2, <2>1, <2>5, <2>6, ArchiveStep
<1>6. QED
  BY <1>3, <1>4, <1>5

\* archive_issue does not look at the Issue again before it removes the workspace.
LEMMA ArchiveRemovesStep ==
    ASSUME IInv, ArchiveRemoves
    PROVE  /\ IInv'
           /\ \A i \in Issues : dir'[i] = dir[i] \/ Over(i)
<1> DEFINE v == archive.issue
<1>1. /\ archive.phase = "removing" /\ Removed(v) /\ undoing' = undoing
      /\ archive' \in {[archive EXCEPT !.phase = "removed"], Idle}
      /\ rows' = rows /\ issued' = issued /\ worker' = worker /\ UNCHANGED poll
      /\ seen' = seen /\ pc' = pc /\ victim' = victim
      /\ entry' = entry /\ retries' = retries /\ agents' = agents
      /\ late' = late /\ revived' = revived /\ TypeOK
  BY DEF ArchiveRemoves, tables, tasks, poll, IInv
<1>2. v \in Issues
  BY <1>1, NoneIsNothing DEF IInv, Archiving, Removal
<1>3. Over(v)
  BY <1>1, <1>2 DEF IInv, Aims, Aimed
<1>4. /\ rows' \in [Issues -> Row] /\ issued' \in [Issues -> 0..MaxAttempts]
      /\ entry' \in [Issues -> Entry] /\ retries' \subseteq Issues
      /\ agents' \in [Issues -> SUBSET Token]
      /\ late' \in [Issues -> RowStatus \cup {None}] /\ revived' \subseteq Issues
  BY <1>1 DEF TypeOK
<1>5. /\ archive' \in Archive
      /\ (archive'.issue = v /\ archive'.phase = "removed") \/ archive'.phase = None
  BY <1>1 DEF TypeOK, Archive, Removal, Idle
<1>6. Numbered' /\ Archiving' /\ archive'.phase \notin {"waiting", "removing"}
  BY <1>1, <1>2, <1>5, NoneIsNothing
     DEF IInv, Numbered, Token, Free, Archiving, Removal
<1>7. \A i \in Issues : Aimed(i)' => Aimed(i)
  BY <1>1, <1>6 DEF Aimed
<1>8. Aims'
  BY <1>1, <1>7, KeepsRows, KeepsAims
<1>9. /\ dir' \in [Issues -> Dir] /\ undoing' \subseteq Issues /\ broken' \subseteq Issues
      /\ Places' /\ \A i \in Issues : dir'[i] = dir[i] \/ Over(i)
  BY <1>1, <1>2, <1>3, KeepsEntries, RemovesPlaces
<1>10. \A i \in Issues : entry[i].phase # None => entry'[i].phase # None
  BY <1>1
<1>11. IInv'
  BY <1>1, <1>4, <1>5, <1>6, <1>8, <1>9, <1>10, TaskStep
<1>12. QED
  BY <1>9, <1>11

-----------------------------------------------------------------------------
(* Theorems *)

LEMMA InitIInv == Init => IInv
<1> SUFFICES ASSUME Init PROVE IInv
  OBVIOUS
<1>1. TypeOK
  <2>1. rows \in [Issues -> Row]
    BY DEF Init, Row, RowStatus
  <2>2. issued \in [Issues -> 0..MaxAttempts] /\ starts \in 0..MaxStarts
    BY RunnerConstants DEF Init
  <2>3. worker \in Worker /\ pc \in Point /\ registered \in BOOLEAN
    BY DEF Init, Worker, Point
  <2>4. seen \in [Issues -> Sight \cup {None}] /\ victim \in Victim
    BY DEF Init, Victim
  <2>5. Free \in Entry
    BY DEF Free, Entry
  <2>6. entry \in [Issues -> Entry]
    BY <2>5 DEF Init
  <2>7. Idle \in Archive
    BY DEF Idle, Archive
  <2>8. archive \in Archive
    BY <2>7 DEF Init
  <2>9. /\ retries \subseteq Issues
        /\ agents \in [Issues -> SUBSET Token]
        /\ dir \in [Issues -> Dir]
        /\ undoing \subseteq Issues
        /\ broken \subseteq Issues
        /\ late \in [Issues -> RowStatus \cup {None}]
        /\ revived \subseteq Issues
    BY DEF Init, Dir
  <2>10. QED
    BY <2>1, <2>2, <2>3, <2>4, <2>6, <2>8, <2>9 DEF TypeOK
<1>2. Numbered /\ Cancelling /\ Reconciling /\ Archiving
  BY DEF Init, Numbered, Cancelling, Reconciling, Archiving, Free, Idle
<1>3. Aims
  <2>1. \A i \in Issues : seen[i] # "terminal"
    BY NoneIsNothing DEF Init, Sight
  <2>2. pc # "cancelling" /\ archive.phase \notin {"waiting", "removing"}
    BY NoneIsNothing DEF Init, Idle, Removal
  <2>3. QED
    BY <2>1, <2>2 DEF Aims, Aimed
<1>4. Places
  BY NoneIsNothing DEF Init, Places, Place, Free, Cloning, Using, Phase
<1>5. QED
  BY <1>1, <1>2, <1>3, <1>4 DEF IInv

LEMMA StepIInv == IInv /\ [Next]_vars => IInv'
<1> SUFFICES ASSUME IInv, [Next]_vars PROVE IInv'
  OBVIOUS
<1>1. CASE Start \/ Crash
  BY <1>1, QuietPolls, CrashStep
<1>2. CASE OfRunner
  BY <1>2, InitializeStep, QuietPolls, ReapingPolls, RefreshStep, EndCancelStep,
     CleanUpStep, CloseStep, ExitStep, StallStep, ReconcileEntryStep, ActivateRetryStep,
     ClaimStep, ClaimLostStep DEF OfRunner
<1>3. CASE OfControlPlane
  BY <1>3, QuietPolls, ArchiveGoesOn, ArchiveRemovesStep, RowSteps, ArchiveBeginsStep
     DEF OfControlPlane
<1>4. ASSUME NEW i \in Issues, OfAttempt(i)
      PROVE  IInv'
  BY <1>4, PrepareStep, CloneEndsStep, UndoCloneStep, RemovalEndsStep, LaunchStep,
     CalmSteps, FinishStep, WindUpStep, AgentGoneStep DEF OfAttempt
<1>5. CASE UNCHANGED vars
  <2>1. /\ UNCHANGED <<issued, worker, poll, tasks, disk, archive>>
        /\ rows' = rows /\ late' = late /\ revived' = revived
    BY <1>5 DEF vars, poll, tasks, disk
  <2>2. /\ rows' \in [Issues -> Row] /\ late' \in [Issues -> RowStatus \cup {None}]
        /\ revived' \subseteq Issues
    BY <2>1 DEF IInv, TypeOK
  <2>3. QED
    BY <2>1, <2>2, KeepsRows, PlainRowStep
<1>6. QED
  BY <1>1, <1>2, <1>3, <1>4, <1>5 DEF Next

LEMMA Invariant == Safety => []IInv
BY InitIInv, StepIInv, PTL DEF Safety

\* The tables, the state of the process, the running map and the workspaces keep
\* their types: no Attempt has a number that was not issued to it.
THEOREM TypeCorrect == Safety => []TypeOK
BY Invariant, PTL DEF IInv

\* An Agent works in a clone that was finished, unless one that was cut short is not
\* known to be removed, or the workspace was removed as its Issue was over: clones end,
\* fail, are cancelled and are removed beside the next Attempt, in any order.
THEOREM AgentsAreInWholeWorkspaces == Safety => []AgentsHaveWholeWorkspace
<1>1. IInv => AgentsHaveWholeWorkspace
  BY DEF IInv, Places, Place, Using, AgentsHaveWholeWorkspace, At
<1>2. QED
  BY <1>1, Invariant, PTL

\* No step of any actor loses a finished workspace of an Issue that is not over, and
\* was not when its removal was decided.
LEMMA StepSavesWork ==
    ASSUME IInv, [Next]_vars, NEW i \in Issues, dir[i] = "whole", dir'[i] # "whole"
    PROVE  Terminal(i) \/ i \in revived
<1>1. dir'[i] # dir[i]
  OBVIOUS
<1>2. CASE Start \/ Crash \/ UNCHANGED vars
  BY <1>1, <1>2 DEF Start, Crash, vars, disk
<1>3. CASE OfRunner
  <2>1. CASE EndCancel \/ \E j \in Issues : CleanUp(j)
    BY <1>1, <2>1, CleanUpStep, EndCancelStep DEF Over
  <2>2. CASE ~(EndCancel \/ \E j \in Issues : CleanUp(j))
    <3>1. dir' = dir
      BY <1>3, <2>2
         DEF OfRunner, Initialize, Initialized, Register, RegisterFails, Wake, Refresh,
             RefreshFails, Reconciled, Report, ReportFails, Reload, ReloadFails,
             DispatchEnds, Close, Exit, Stall, ReconcileEntry, BeginCancel, Abandoned,
             ActivateRetry, Claim, ClaimLost, disk
    <3>2. QED
      BY <1>1, <3>1
  <2>3. QED
    BY <2>1, <2>2
<1>4. CASE OfControlPlane
  <2>1. CASE ArchiveRemoves
    BY <1>1, <2>1, ArchiveRemovesStep DEF Over
  <2>2. CASE ~ArchiveRemoves
    <3>1. dir' = dir
      BY <1>4, <2>2
         DEF OfControlPlane, RequestStop, Fade, ArchiveProceeds, ArchiveGivesUp,
             ArchiveCommits, Expire, TakeUp, CancelIssue, Reroute, ReadBefore, Overwrite,
             ArchiveBegins, disk
    <3>2. QED
      BY <1>1, <3>1
  <2>3. QED
    BY <2>1, <2>2
<1>5. ASSUME NEW j \in Issues, OfAttempt(j)
      PROVE  Over(i)
  <2>1. CASE Prepare(j) \/ CloneEnds(j) \/ UndoClone(j) \/ RemovalEnds(j) \/ Launch(j)
    BY <1>1, <2>1, PrepareStep, CloneEndsStep, UndoCloneStep, RemovalEndsStep, LaunchStep
  <2>2. CASE ~(Prepare(j) \/ CloneEnds(j) \/ UndoClone(j) \/ RemovalEnds(j) \/ Launch(j))
    <3>1. dir' = dir
      BY <1>5, <2>2
         DEF OfAttempt, LaunchFails, Finish, AgentStops, HeartbeatRefused, Ended, WindUp,
             AfterRun, AgentGone, disk
    <3>2. QED
      BY <1>1, <3>1
  <2>3. QED
    BY <2>1, <2>2
<1>6. QED
  BY <1>2, <1>3, <1>4, <1>5 DEF Next, Over

\* What an Agent has done in a workspace is lost only when the Issue is over, or was
\* when the removal was decided, although a Runner that starts, one that reconciles, an
\* Attempt whose clone failed, what such an Attempt left behind and archive_issue all
\* remove directories on what they learned earlier.
THEOREM WorkIsNotLost == Safety => WorkSurvives
<1>1. IInv /\ [Next]_vars =>
        [\A i \in Issues : dir[i] = "whole" /\ dir'[i] # "whole"
                             => Terminal(i) \/ i \in revived]_vars
  BY StepSavesWork
<1>2. QED
  BY <1>1, Invariant, PTL DEF Safety, WorkSurvives

=============================================================================
