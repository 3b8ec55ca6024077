------------------------ MODULE DirectorySync_proofs ------------------------
(***************************************************************************)
(* Proofs about DirectorySync, for any number of accounts, processes, bad  *)
(* reads and ticks: type correctness; that nobody is suspended before the  *)
(* grace period is over; that one incomplete read suspends nobody whom the *)
(* directory vouches for; that the job never runs twice at a time; and     *)
(* what it takes for an account to be suspended and keep its access.       *)
(***************************************************************************)
EXTENDS DirectorySync, FiniteSetTheorems, TLAPS

(***************************************************************************)
(* A step of a run, and everything else that changes none.                 *)
(***************************************************************************)
StartRun(p) == \E armed \in BOOLEAN : FindDue(p, armed) \/ RunNow(p, armed)

LEMMA Steps ==
    ASSUME [Next]_vars
    PROVE  \/ \E p \in Processes : StartRun(p) \/ RunSync(p) \/ Crash(p)
           \/ LockExpires \/ World \/ UNCHANGED vars
  BY DEF Next, StartRun

(***************************************************************************)
(* Where a run is tells which locals it has.                               *)
(***************************************************************************)
LEMMA RunKinds ==
    ASSUME NEW r \in Runs
    PROVE  /\ r.at = "due" => r \in [at : {"due"}, armed : BOOLEAN]
           /\ r.at = "read" =>
                r \in [at : {"read"}, armed : BOOLEAN, held : BOOLEAN]
           /\ r.at = "judge" =>
                r \in [at : {"judge"}, armed : BOOLEAN, held : BOOLEAN,
                       read : [Users -> Entries]]
           /\ r.at = "resolve" =>
                r \in [at : {"resolve"}, armed : BOOLEAN, held : BOOLEAN,
                       count : Counts, present : SUBSET Users,
                       found : SUBSET Users, spared : SUBSET Users]
           /\ r.at = "upsert" =>
                r \in [at : {"upsert"}, armed : BOOLEAN, held : BOOLEAN,
                       count : Counts, found : SUBSET Users,
                       left : SUBSET Users, spared : SUBSET Users]
           /\ r.at = "act" =>
                r \in [at : {"act"}, armed : BOOLEAN, held : BOOLEAN,
                       count : Counts, spared : SUBSET Users,
                       left : SUBSET Users]
           /\ r.at \in Suspending =>
                r \in [at : Suspending, armed : BOOLEAN, held : BOOLEAN,
                       count : Counts, spared : SUBSET Users,
                       left : SUBSET Users, user : Users]
  BY DEF Runs, Idle, Suspending

LEMMA CountsHold ==
    ASSUME NEW S \in SUBSET Users
    PROVE  Cardinality(S) \in Counts
<1>1. IsFiniteSet(S) /\ Cardinality(S) <= Cardinality(Users)
  BY SyncAssumption, FS_Subset
<1>2. Cardinality(S) \in Nat /\ Cardinality(Users) \in Nat
  BY <1>1, SyncAssumption, FS_CardinalityType
<1> QED
  BY <1>1, <1>2 DEF Counts

-----------------------------------------------------------------------------
(***************************************************************************)
(* Type correctness.  A step of a run leaves a legal run behind ...        *)
(***************************************************************************)
LEMMA RunMoves ==
    ASSUME TypeOK, NEW p \in Processes,
           StartRun(p) \/ RunSync(p) \/ Crash(p)
    PROVE  \E r \in Runs : run' = [run EXCEPT ![p] = r]
<1> USE DEF Goto, At
<1>0. run[p] \in Runs /\ Idle \in Runs
  BY DEF TypeOK, Runs
<1>1. CASE StartRun(p)
  <2>1. PICK armed \in BOOLEAN : FindDue(p, armed) \/ RunNow(p, armed)
    BY <1>1 DEF StartRun
  <2>2. /\ [at |-> "due", armed |-> armed] \in Runs
        /\ [at |-> "read", armed |-> armed, held |-> FALSE] \in Runs
    BY DEF Runs
  <2> QED
    BY <2>1, <2>2 DEF FindDue, RunNow
<1>2. CASE Crash(p)
  BY <1>2, <1>0 DEF Crash
<1>3. CASE TakeLock(p)
  <2>1. run[p].armed \in BOOLEAN
    BY <1>0, <1>3, RunKinds DEF TakeLock
  <2>2. [at |-> "read", armed |-> run[p].armed, held |-> TRUE] \in Runs
    BY <2>1 DEF Runs
  <2> QED
    BY <1>0, <1>3, <2>2 DEF TakeLock
<1>4. ASSUME At(p, "read"), NEW d \in [Users -> Entries], ReadInto(p, d)
      PROVE  \E r \in Runs : run' = [run EXCEPT ![p] = r]
  <2>1. run[p].armed \in BOOLEAN /\ run[p].held \in BOOLEAN
    BY <1>0, <1>4, RunKinds
  <2>2. [at |-> "judge", armed |-> run[p].armed, held |-> run[p].held,
         read |-> d] \in Runs
    BY <2>1 DEF Runs
  <2> QED
    BY <1>0, <1>4, <2>2 DEF ReadInto, Finish
<1>5. CASE ReadDirectory(p)
  BY <1>4, <1>5 DEF ReadDirectory, TypeOK
<1>6. CASE ReadBadly(p)
  <2>1. PICK lost \in SUBSET Listed(directory) \ {{}} :
           ReadInto(p, [u \in Users |->
                           IF u \in lost THEN "absent" ELSE directory[u]])
    BY <1>6 DEF ReadBadly
  <2>2. [u \in Users |-> IF u \in lost THEN "absent" ELSE directory[u]]
           \in [Users -> Entries]
    BY DEF TypeOK, Entries
  <2> QED
    BY <1>4, <1>6, <2>1, <2>2 DEF ReadBadly
<1>7. CASE ReadFails(p) \/ RevokeFails(p) \/ RunDone(p)
  BY <1>0, <1>7 DEF ReadFails, RevokeFails, RunDone, Finish
<1>8. ASSUME NEW elsewhere \in SUBSET Users, JudgeIdentities(p, elsewhere)
      PROVE  \E r \in Runs : run' = [run EXCEPT ![p] = r]
  <2> DEFINE judged == {u \in Users : status[u] = "active"}
             rec == [at |-> "resolve", armed |-> run[p].armed,
                     held |-> run[p].held,
                     count |-> Cardinality(Listed(run[p].read)),
                     present |-> {u \in judged \cap Known :
                                     run[p].read[u] = "enabled"},
                     found |-> judged \cap Candidates(run[p].read),
                     spared |-> elsewhere]
  <2>1. run[p].armed \in BOOLEAN /\ run[p].held \in BOOLEAN
    BY <1>0, <1>8, RunKinds DEF JudgeIdentities
  <2>2. Cardinality(Listed(run[p].read)) \in Counts
    BY CountsHold DEF Listed
  <2>3. rec \in Runs
    BY <2>1, <2>2 DEF Runs
  <2>4. run' = [run EXCEPT ![p] = rec]
    BY <1>8 DEF JudgeIdentities
  <2> QED
    BY <2>3, <2>4
<1>9. CASE ResolvePresent(p)
  <2> DEFINE rec == [at |-> "upsert", armed |-> run[p].armed,
                     held |-> run[p].held, count |-> run[p].count,
                     found |-> run[p].found, left |-> run[p].found,
                     spared |-> run[p].spared]
  <2>1. rec \in Runs
    BY <1>0, <1>9, RunKinds DEF ResolvePresent, Runs
  <2> QED
    BY <1>9, <2>1 DEF ResolvePresent
<1>10. ASSUME NEW u \in Users, Upsert(p, u)
       PROVE  \E r \in Runs : run' = [run EXCEPT ![p] = r]
  <2>1. [run[p] EXCEPT !.left = @ \ {u}] \in Runs
    BY <1>0, <1>10, RunKinds DEF Upsert, Runs
  <2> QED
    BY <1>10, <2>1 DEF Upsert
<1>11. CASE CheckLimits(p)
  <2> DEFINE rec == [at |-> "act", armed |-> run[p].armed,
                     held |-> run[p].held, count |-> run[p].count,
                     spared |-> run[p].spared,
                     left |-> {u \in run[p].found : Lasting(u)}]
  <2>1. rec \in Runs
    BY <1>0, <1>11, RunKinds DEF CheckLimits, Runs
  <2> QED
    BY <1>0, <1>11, <2>1 DEF CheckLimits, Finish
<1>12. ASSUME NEW u \in Users,
              Ignore(p, u) \/ Flag(p, u) \/ SpareLastAdmin(p, u)
       PROVE  \E r \in Runs : run' = [run EXCEPT ![p] = r]
  <2>1. At(p, "act") /\ run' = [run EXCEPT ![p] = Past(p, u)]
    BY <1>12 DEF Ignore, Flag, SpareLastAdmin
  <2>2. Past(p, u) \in Runs
    BY <1>0, <2>1, RunKinds DEF Past, Runs
  <2> QED
    BY <2>1, <2>2
<1>13. ASSUME NEW u \in Users, Choose(p, u)
       PROVE  \E r \in Runs : run' = [run EXCEPT ![p] = r]
  <2> DEFINE rec == [at |-> "suspend", armed |-> run[p].armed,
                     held |-> run[p].held, count |-> run[p].count,
                     spared |-> run[p].spared, left |-> run[p].left,
                     user |-> u]
  <2>1. rec \in Runs
    BY <1>0, <1>13, RunKinds DEF Choose, Runs, Suspending
  <2> QED
    BY <1>13, <2>1 DEF Choose
<1>14. CASE Suspend(p) \/ RevokeAccess(p)
  <2>1. /\ [run[p] EXCEPT !.at = "revoke"] \in Runs
        /\ [run[p] EXCEPT !.at = "mark"] \in Runs
    <3>1. run[p] \in [at : Suspending, armed : BOOLEAN, held : BOOLEAN,
                      count : Counts, spared : SUBSET Users,
                      left : SUBSET Users, user : Users]
      BY <1>0, <1>14, RunKinds DEF Suspend, RevokeAccess, Suspending
    <3> QED
      BY <3>1 DEF Runs, Suspending
  <2> QED
    BY <1>14, <2>1 DEF Suspend, RevokeAccess
<1>15. CASE MarkActed(p)
  <2> DEFINE rec == [at |-> "act", armed |-> run[p].armed,
                     held |-> run[p].held, count |-> run[p].count,
                     spared |-> run[p].spared,
                     left |-> run[p].left \ {run[p].user}]
  <2>1. rec \in Runs
    BY <1>0, <1>15, RunKinds DEF MarkActed, Runs, Suspending
  <2> QED
    BY <1>15, <2>1 DEF MarkActed
<1> QED
  BY <1>1, <1>2, <1>3, <1>5, <1>6, <1>7, <1>8, <1>9, <1>10, <1>11, <1>12,
     <1>13, <1>14, <1>15 DEF RunSync

(***************************************************************************)
(* ... and legal rows.                                                     *)
(***************************************************************************)
LEMMA FindingType ==
    ASSUME NEW f \in Findings, NEW t \in Times,
           NEW s \in {"none", "open", "resolved", "ignored", "acted"}
    PROVE  /\ [f EXCEPT !.status = s] \in Findings
           /\ [f EXCEPT !.status = s, !.since = t] \in Findings
           /\ f.firstSeen \in Times /\ f.since \in Times
           /\ NoFinding \in Findings
<1>1. 0 \in Times
  BY SyncAssumption DEF Times
<1> QED
  BY <1>1 DEF Findings, NoFinding

LEMMA OpenedType ==
    ASSUME now \in Times, NEW f \in Findings
    PROVE  Opened(f) \in Findings
  BY FindingType DEF Opened, Findings

LEMMA RowMoves ==
    ASSUME TypeOK, NEW p \in Processes,
           StartRun(p) \/ RunSync(p) \/ Crash(p)
    PROVE  finding' \in [Users -> Findings]
<1>0. finding \in [Users -> Findings] /\ run[p] \in Runs /\ now \in Times
  BY DEF TypeOK
<1>1. CASE ResolvePresent(p)
  <2>1. \A u \in Users : [finding[u] EXCEPT !.status = "resolved"] \in Findings
    BY <1>0, FindingType
  <2> QED
    BY <1>0, <1>1, <2>1 DEF ResolvePresent
<1>2. ASSUME NEW u \in Users, Upsert(p, u)
      PROVE  finding' \in [Users -> Findings]
  BY <1>0, <1>2, OpenedType DEF Upsert
<1>3. ASSUME NEW u \in Users, Ignore(p, u)
      PROVE  finding' \in [Users -> Findings]
  BY <1>0, <1>3, FindingType DEF Ignore
<1>4. ASSUME NEW u \in Users, SpareLastAdmin(p, u)
      PROVE  finding' \in [Users -> Findings]
  <2> DEFINE t == IF finding[u].status = "open" THEN finding[u].since ELSE now
  <2>1. t \in Times
    BY <1>0, FindingType
  <2>2. [finding[u] EXCEPT !.status = "open", !.since = t] \in Findings
    BY <1>0, <2>1, FindingType
  <2>3. finding' = [finding EXCEPT ![u] =
                       [finding[u] EXCEPT !.status = "open", !.since = t]]
    BY <1>0, <1>4 DEF SpareLastAdmin, Findings
  <2> QED
    BY <1>0, <2>2, <2>3
<1>5. CASE MarkActed(p)
  <2>1. run[p].user \in Users
    BY <1>0, <1>5, RunKinds DEF MarkActed, At, Suspending
  <2> QED
    BY <1>0, <1>5, <2>1, FindingType DEF MarkActed
<1> QED
  BY <1>0, <1>1, <1>2, <1>3, <1>4, <1>5
     DEF StartRun, RunSync, Crash, FindDue, RunNow, TakeLock, ReadDirectory,
         ReadBadly, ReadFails, JudgeIdentities, CheckLimits, Flag, Choose,
         Suspend, RevokeAccess, RevokeFails, RunDone, accountVars

LEMMA OthersMove ==
    ASSUME TypeOK, NEW p \in Processes,
           StartRun(p) \/ RunSync(p) \/ Crash(p)
    PROVE  /\ UNCHANGED <<now, directory, edit>>
           /\ badReads' \in 0..MaxBadReads
           /\ status' \in [Users -> Statuses]
           /\ cutOff' \subseteq Users
           /\ lastGood' \in Counts
           /\ lock' \in BOOLEAN
<1> USE DEF worldVars, accountVars, Finish, Goto, At
<1>0. /\ run[p] \in Runs /\ badReads \in 0..MaxBadReads
      /\ status \in [Users -> Statuses] /\ "suspended" \in Statuses
      /\ cutOff \subseteq Users /\ lastGood \in Counts /\ lock \in BOOLEAN
  BY DEF TypeOK, Statuses
<1>1. CASE StartRun(p) \/ Crash(p) \/ TakeLock(p)
  BY <1>0, <1>1 DEF StartRun, Crash, FindDue, RunNow, TakeLock
<1>2. CASE ReadDirectory(p) \/ ReadFails(p)
  BY <1>0, <1>2 DEF ReadDirectory, ReadFails, ReadInto
<1>3. CASE ReadBadly(p)
  <2>1. badReads' \in 0..MaxBadReads
    BY <1>0, <1>3, SyncAssumption DEF ReadBadly
  <2> QED
    BY <1>0, <1>3, <2>1 DEF ReadBadly, ReadInto
<1>4. CASE \/ \E elsewhere \in SUBSET Users : JudgeIdentities(p, elsewhere)
           \/ ResolvePresent(p) \/ CheckLimits(p)
           \/ \E u \in Users : Upsert(p, u)
  BY <1>0, <1>4 DEF JudgeIdentities, ResolvePresent, CheckLimits, Upsert
<1>5. CASE \E u \in Users : \/ Ignore(p, u) \/ Flag(p, u)
                            \/ SpareLastAdmin(p, u) \/ Choose(p, u)
  BY <1>0, <1>5 DEF Ignore, Flag, SpareLastAdmin, Choose
<1>6. CASE Suspend(p) \/ RevokeAccess(p) \/ RevokeFails(p) \/ MarkActed(p)
  <2>1. run[p].user \in Users
    BY <1>0, <1>6, RunKinds
       DEF Suspend, RevokeAccess, RevokeFails, MarkActed, Suspending
  <2> QED
    BY <1>0, <1>6, <2>1 DEF Suspend, RevokeAccess, RevokeFails, MarkActed
<1>7. CASE RunDone(p)
  <2>1. run[p].count \in Counts
    BY <1>0, <1>7, RunKinds DEF RunDone
  <2> QED
    BY <1>0, <1>7, <2>1 DEF RunDone
<1> QED
  BY <1>1, <1>2, <1>3, <1>4, <1>5, <1>6, <1>7 DEF RunSync

(***************************************************************************)
(* What a request of an administrator knows, and what its steps leave.     *)
(***************************************************************************)
LEMMA EditKinds ==
    ASSUME NEW r \in Edits
    PROVE  /\ r.at = "write" =>
                r \in [at : {"write"}, user : Users, to : Statuses]
           /\ r.at = "revoke" => r \in [at : {"revoke"}, user : Users]
  BY DEF Edits, Idle

LEMMA EditMoves ==
    ASSUME TypeOK, NEW e \in Editors, Edit(e)
    PROVE  /\ UNCHANGED <<now, directory, badReads, finding, lastGood, lock,
                          run>>
           /\ status' \in [Users -> Statuses] /\ cutOff' \subseteq Users
           /\ edit' \in [Editors -> Edits]
<1> USE DEF Become, worldVars
<1>0. /\ edit \in [Editors -> Edits] /\ edit[e] \in Edits /\ Idle \in Edits
      /\ status \in [Users -> Statuses] /\ cutOff \subseteq Users
  BY DEF TypeOK, Edits
<1>1. ASSUME NEW u \in Users, NEW s \in Statuses, ReadAccount(e, u, s)
      PROVE  edit' \in [Editors -> Edits] /\ UNCHANGED <<status, cutOff>>
  <2>1. [at |-> "write", user |-> u, to |-> s] \in Edits
    BY DEF Edits
  <2> QED
    BY <1>0, <1>1, <2>1 DEF ReadAccount
<1>2. CASE WriteStatus(e)
  <2>1. edit[e].user \in Users /\ edit[e].to \in Statuses
    BY <1>0, <1>2, EditKinds DEF WriteStatus
  <2>2. [at |-> "revoke", user |-> edit[e].user] \in Edits
    BY <2>1 DEF Edits
  <2> QED
    BY <1>0, <1>2, <2>1, <2>2 DEF WriteStatus
<1>3. CASE RevokeFor(e)
  <2>1. edit[e].user \in Users
    BY <1>0, <1>3, EditKinds DEF RevokeFor
  <2> QED
    BY <1>0, <1>3, <2>1 DEF RevokeFor
<1>4. CASE EditStops(e)
  BY <1>0, <1>4 DEF EditStops
<1> QED
  BY <1>0, <1>1, <1>2, <1>3, <1>4
     DEF Edit, ReadAccount, WriteStatus, RevokeFor, EditStops

LEMMA TypeStep == TypeOK /\ [Next]_vars => TypeOK'
<1> SUFFICES ASSUME TypeOK, [Next]_vars PROVE TypeOK'
  OBVIOUS
<1>1. ASSUME NEW p \in Processes, StartRun(p) \/ RunSync(p) \/ Crash(p)
      PROVE  TypeOK'
  <2>1. run' \in [Processes -> Runs]
    BY <1>1, RunMoves DEF TypeOK
  <2> QED
    BY <1>1, <2>1, RowMoves, OthersMove DEF TypeOK
<1>2. CASE LockExpires
  BY <1>2 DEF LockExpires, TypeOK, worldVars, accountVars
<1>3. CASE World
  <2>1. CASE Tick
    <3>1. now' \in Times
      BY <2>1, SyncAssumption DEF Tick, TypeOK, Times
    <3> QED
      BY <2>1, <3>1 DEF Tick, TypeOK, worldVars, accountVars
  <2>2. ASSUME NEW u \in Users, NEW e \in Entries, ChangeDirectory(u, e)
        PROVE  TypeOK'
    BY <2>2 DEF ChangeDirectory, TypeOK, accountVars
  <2>3. ASSUME NEW e \in Editors, Edit(e)
        PROVE  TypeOK'
    BY <2>3, EditMoves DEF TypeOK
  <2> QED
    BY <1>3, <2>1, <2>2, <2>3 DEF World
<1>4. CASE UNCHANGED vars
  BY <1>4 DEF vars, worldVars, accountVars, TypeOK
<1> QED
  BY <1>1, <1>2, <1>3, <1>4, Steps

LEMMA InitType == Init => TypeOK
<1>1. NoFinding \in Findings /\ 0 \in Times
  BY SyncAssumption DEF Findings, NoFinding, Times
<1>2. Idle \in Runs
  BY DEF Runs
<1>3. 0 \in Counts /\ 0 \in 0..MaxBadReads
  BY CountsHold, FS_EmptySet, SyncAssumption DEF Counts
<1> QED
  BY <1>1, <1>2, <1>3 DEF Init, TypeOK, Entries, Statuses, Edits

(***************************************************************************)
(* Every variable keeps its type: a run has the locals that its place      *)
(* promises, and the directoryCount it remembers is never more than there  *)
(* are accounts.                                                           *)
(***************************************************************************)
THEOREM TypeCorrect == Spec => []TypeOK
  BY InitType, TypeStep, PTL DEF Spec

-----------------------------------------------------------------------------
(***************************************************************************)
(* The grace period.  What a run may hold against an account depends on    *)
(* its finding and on the time, which no other run takes back: a finding   *)
(* never goes away, its firstSeen is never written again, and the clock    *)
(* stands while a run is under way.                                        *)
(***************************************************************************)
Overdue(u, f, t) ==
    /\ u \in Known /\ f[u].status # "none"
    /\ Grace > 0 => f[u].firstSeen + Grace <= t

\* Whom a run has found is known; who has had his turn has a finding; whom
\* it is left to act upon, the one it is suspending among them, is overdue.
Sound(r, f, t) ==
    /\ r.at \in {"resolve", "upsert"} => r.found \subseteq Known
    /\ r.at = "upsert" =>
          /\ r.left \subseteq r.found
          /\ \A u \in r.found \ r.left : f[u].status # "none"
    /\ r.at \in {"act"} \cup Suspending => \A u \in r.left : Overdue(u, f, t)
    /\ r.at \in Suspending => r.user \in r.left

Grounds == \A p \in Processes : Sound(run[p], finding, now)

\* Findings of g are those of f, some of them newly made or with a new status.
Kept(f, g) ==
    \A u \in Users : f[u].status # "none" =>
        g[u].status # "none" /\ g[u].firstSeen = f[u].firstSeen

LEMMA SoundKept ==
    ASSUME NEW r \in Runs, NEW f, NEW g, NEW t, Sound(r, f, t), Kept(f, g)
    PROVE  Sound(r, g, t)
<1>1. r.at = "upsert" => r.found \subseteq Users
  BY RunKinds
<1>2. r.at \in {"act"} \cup Suspending => r.left \subseteq Users
  BY RunKinds
<1> QED
  BY <1>1, <1>2 DEF Sound, Kept, Overdue

LEMMA WorldMoves ==
    ASSUME LockExpires \/ World \/ UNCHANGED vars
    PROVE  /\ UNCHANGED <<run, finding, badReads>>
           /\ now' = now \/ \A p \in Processes : At(p, "idle")
  BY DEF LockExpires, World, ChangeDirectory, Tick, vars, worldVars,
         Edit, ReadAccount, WriteStatus, RevokeFor, EditStops

LEMMA FindingsKept ==
    ASSUME TypeOK, [Next]_vars
    PROVE  Kept(finding, finding')
<1>0. finding \in [Users -> Findings] /\ run \in [Processes -> Runs]
  BY DEF TypeOK
<1>1. ASSUME NEW f \in Findings, NEW t,
             NEW s \in {"open", "resolved", "ignored", "acted"}
      PROVE  /\ [f EXCEPT !.status = s].status # "none"
             /\ [f EXCEPT !.status = s].firstSeen = f.firstSeen
             /\ [f EXCEPT !.status = s, !.since = t].status # "none"
             /\ [f EXCEPT !.status = s, !.since = t].firstSeen = f.firstSeen
  BY DEF Findings
<1>2. ASSUME NEW p \in Processes, ResolvePresent(p)
      PROVE  Kept(finding, finding')
  BY <1>0, <1>1, <1>2 DEF ResolvePresent, Kept
<1>3. ASSUME NEW p \in Processes, NEW u \in Users, Upsert(p, u)
      PROVE  Kept(finding, finding')
  BY <1>0, <1>3 DEF Upsert, Kept, Opened
<1>4. ASSUME NEW p \in Processes, NEW u \in Users, Ignore(p, u)
      PROVE  Kept(finding, finding')
  BY <1>0, <1>1, <1>4 DEF Ignore, Kept
<1>5. ASSUME NEW p \in Processes, NEW u \in Users, SpareLastAdmin(p, u)
      PROVE  Kept(finding, finding')
  <2> DEFINE t == IF finding[u].status = "open" THEN finding[u].since ELSE now
  <2>1. finding' = [finding EXCEPT ![u] =
                       [finding[u] EXCEPT !.status = "open", !.since = t]]
    BY <1>0, <1>5 DEF SpareLastAdmin, Findings
  <2> HIDE DEF t
  <2> QED
    BY <1>0, <1>1, <2>1 DEF Kept
<1>6. ASSUME NEW p \in Processes, MarkActed(p)
      PROVE  Kept(finding, finding')
  <2>1. run[p].user \in Users
    BY <1>0, <1>6, RunKinds DEF MarkActed, At, Suspending
  <2> QED
    BY <1>0, <1>1, <1>6, <2>1 DEF MarkActed, Kept
<1>7. CASE UNCHANGED finding
  BY <1>7 DEF Kept
<1>8. CASE LockExpires \/ World \/ UNCHANGED vars
  BY <1>7, <1>8, WorldMoves
<1> QED
  BY <1>2, <1>3, <1>4, <1>5, <1>6, <1>7, <1>8, Steps
     DEF StartRun, RunSync, Crash, FindDue, RunNow, TakeLock, ReadDirectory,
         ReadBadly, ReadFails, JudgeIdentities, CheckLimits, Flag, Choose,
         Suspend, RevokeAccess, RevokeFails, RunDone, accountVars

(***************************************************************************)
(* The run that takes a step stays sound.                                  *)
(***************************************************************************)
LEMMA SoundStep ==
    ASSUME TypeOK, Grounds, NEW p \in Processes,
           StartRun(p) \/ RunSync(p) \/ Crash(p)
    PROVE  Sound(run'[p], finding', now)
<1> USE DEF Goto, At
<1>0. /\ run \in [Processes -> Runs] /\ run[p] \in Runs
      /\ Sound(run[p], finding, now)
  BY DEF TypeOK, Grounds
<1>1. ASSUME run'[p].at \in {"idle", "due", "read", "judge"}
      PROVE  Sound(run'[p], finding', now)
  BY <1>1 DEF Sound, Suspending
<1>2. CASE StartRun(p) \/ Crash(p) \/ TakeLock(p)
  BY <1>0, <1>1, <1>2 DEF StartRun, Crash, TakeLock, FindDue, RunNow, Idle
<1>3. CASE ReadDirectory(p) \/ ReadBadly(p) \/ ReadFails(p)
           \/ RevokeFails(p) \/ RunDone(p)
  <2>0. Finish(p) => run'[p].at = "idle"
    BY <1>0 DEF Finish, Idle
  <2>1. ASSUME NEW d, ReadInto(p, d)
        PROVE  run'[p].at \in {"idle", "judge"}
    <3>1. CASE Distrusted(d)
      BY <2>0, <2>1, <3>1 DEF ReadInto
    <3>2. CASE ~Distrusted(d)
      BY <1>0, <2>1, <3>2 DEF ReadInto
    <3> QED
      BY <3>1, <3>2
  <2>2. CASE ReadDirectory(p) \/ ReadBadly(p)
    BY <1>1, <2>1, <2>2 DEF ReadDirectory, ReadBadly
  <2>3. CASE ReadFails(p) \/ RevokeFails(p) \/ RunDone(p)
    BY <1>1, <2>0, <2>3 DEF ReadFails, RevokeFails, RunDone
  <2> QED
    BY <1>3, <2>2, <2>3
<1>4. ASSUME NEW elsewhere \in SUBSET Users, JudgeIdentities(p, elsewhere)
      PROVE  Sound(run'[p], finding', now)
  <2>1. /\ run'[p].at = "resolve"
        /\ run'[p].found = {u \in Users : status[u] = "active"}
                              \cap Candidates(run[p].read)
    BY <1>0, <1>4 DEF JudgeIdentities
  <2>2. run'[p].found \subseteq Known
    BY <2>1 DEF Candidates
  <2> QED
    BY <2>1, <2>2 DEF Sound, Suspending
<1>5. CASE ResolvePresent(p)
  <2>1. /\ run[p].at = "resolve" /\ run'[p].at = "upsert"
        /\ run'[p].found = run[p].found /\ run'[p].left = run[p].found
    BY <1>0, <1>5 DEF ResolvePresent
  <2> QED
    BY <1>0, <2>1 DEF Sound, Suspending
<1>6. ASSUME NEW u \in Users, Upsert(p, u)
      PROVE  Sound(run'[p], finding', now)
  <2>1. /\ run[p].at = "upsert" /\ run'[p].at = "upsert" /\ u \in run[p].left
        /\ run'[p].found = run[p].found /\ run'[p].left = run[p].left \ {u}
    BY <1>0, <1>6, RunKinds DEF Upsert
  <2>2. run[p].found \subseteq Users /\ finding \in [Users -> Findings]
    BY <1>0, <2>1, RunKinds DEF TypeOK
  <2>3. \A v \in run[p].found \ (run[p].left \ {u}) :
           finding'[v].status # "none"
    BY <1>0, <1>6, <2>1, <2>2 DEF Sound, Upsert, Opened
  <2> QED
    BY <1>0, <2>1, <2>3 DEF Sound, Suspending
<1>7. CASE CheckLimits(p)
  <2>1. CASE run'[p] = Idle
    BY <1>1, <2>1 DEF Idle
  <2>2. CASE /\ run'[p].at = "act"
             /\ run'[p].left = {u \in run[p].found : Lasting(u)}
    <3>1. /\ run[p].at = "upsert" /\ run[p].left = {}
          /\ UNCHANGED finding
      BY <1>7 DEF CheckLimits
    <3>2. \A u \in run'[p].left : Overdue(u, finding', now)
      BY <1>0, <2>2, <3>1 DEF Sound, Overdue, Lasting
    <3> QED
      BY <2>2, <3>2 DEF Sound, Suspending
  <2>3. CASE OverLimit(Cardinality(run[p].found))
    BY <1>0, <1>7, <2>1, <2>3 DEF CheckLimits, Finish
  <2>4. CASE ~OverLimit(Cardinality(run[p].found))
    BY <1>0, <1>7, <2>2, <2>4 DEF CheckLimits
  <2> QED
    BY <2>3, <2>4
<1>8. ASSUME run[p].at \in {"act"} \cup Suspending, run'[p].at = "act",
             run'[p].left \subseteq run[p].left, Kept(finding, finding')
      PROVE  Sound(run'[p], finding', now)
  <2>1. Sound(run[p], finding', now)
    BY <1>0, <1>8, SoundKept
  <2> QED
    BY <1>8, <2>1 DEF Sound, Suspending
<1>9. Kept(finding, finding')
  BY FindingsKept DEF Next, StartRun
<1>10. ASSUME NEW u \in Users,
              Ignore(p, u) \/ Flag(p, u) \/ SpareLastAdmin(p, u)
       PROVE  Sound(run'[p], finding', now)
  <2>1. run[p].at = "act" /\ run'[p] = Past(p, u)
    BY <1>0, <1>10 DEF Ignore, Flag, SpareLastAdmin
  <2>2. run'[p].at = "act" /\ run'[p].left \subseteq run[p].left
    BY <1>0, <2>1, RunKinds DEF Past
  <2> QED
    BY <1>8, <1>9, <2>1, <2>2
<1>11. CASE MarkActed(p)
  BY <1>0, <1>8, <1>9, <1>11 DEF MarkActed, Suspending
<1>12. ASSUME NEW u \in Users, Choose(p, u)
       PROVE  Sound(run'[p], finding', now)
  <2>1. /\ run[p].at = "act" /\ run'[p].at = "suspend" /\ UNCHANGED finding
        /\ run'[p].left = run[p].left /\ run'[p].user = u /\ u \in run[p].left
    BY <1>0, <1>12 DEF Choose
  <2> QED
    BY <1>0, <2>1 DEF Sound, Suspending
<1>13. CASE Suspend(p) \/ RevokeAccess(p)
  <2>1. /\ run[p].at \in Suspending /\ run'[p].at \in Suspending
        /\ UNCHANGED finding
        /\ run'[p].left = run[p].left /\ run'[p].user = run[p].user
    BY <1>0, <1>13, RunKinds DEF Suspend, RevokeAccess, Suspending
  <2> QED
    BY <1>0, <2>1 DEF Sound, Suspending
<1> QED
  BY <1>2, <1>3, <1>4, <1>5, <1>6, <1>7, <1>10, <1>11, <1>12, <1>13
     DEF RunSync

LEMMA Untouched ==
    ASSUME TypeOK, NEW p \in Processes,
           StartRun(p) \/ RunSync(p) \/ Crash(p)
    PROVE  \A q \in Processes \ {p} : run'[q] = run[q]
  BY RunMoves DEF TypeOK

LEMMA GroundsStep == TypeOK /\ Grounds /\ [Next]_vars => Grounds'
<1> SUFFICES ASSUME TypeOK, Grounds, [Next]_vars PROVE Grounds'
  OBVIOUS
<1>1. ASSUME NEW p \in Processes, StartRun(p) \/ RunSync(p) \/ Crash(p)
      PROVE  Grounds'
  <2>1. Sound(run'[p], finding', now) /\ now' = now
    BY <1>1, SoundStep, OthersMove
  <2>2. ASSUME NEW q \in Processes \ {p}
        PROVE  Sound(run'[q], finding', now)
    <3>1. run'[q] = run[q] /\ run[q] \in Runs /\ Kept(finding, finding')
      BY <1>1, Untouched, FindingsKept DEF TypeOK
    <3>2. Sound(run[q], finding', now)
      BY <3>1, SoundKept DEF Grounds
    <3> QED
      BY <3>1, <3>2
  <2> QED
    BY <2>1, <2>2 DEF Grounds
<1>2. CASE LockExpires \/ World \/ UNCHANGED vars
  <2>1. CASE now' = now
    BY <1>2, <2>1, WorldMoves DEF Grounds
  <2>2. CASE \A p \in Processes : At(p, "idle")
    BY <1>2, <2>2, WorldMoves DEF Grounds, Sound, At, Suspending
  <2> QED
    BY <1>2, <2>1, <2>2, WorldMoves
<1> QED
  BY <1>1, <1>2, Steps

LEMMA Grounded == Spec => [](TypeOK /\ Grounds)
<1>1. Init => Grounds
  BY DEF Init, Grounds, Sound, Idle, Suspending
<1> QED
  BY <1>1, InitType, TypeStep, GroundsStep, PTL DEF Spec

(***************************************************************************)
(* A run suspends only whom a run has missed, and not before the grace     *)
(* period that began there is over: also when any number of runs and of    *)
(* administrators overlap, or stop anywhere.                               *)
(***************************************************************************)
THEOREM NobodyIsHasty == Spec => NoHastySuspension
<1>1. TypeOK /\ Grounds =>
         \A p \in Processes : Suspend(p) =>
            LET u == run[p].user IN
            /\ finding[u].status # "none"
            /\ Grace > 0 => finding[u].firstSeen + Grace <= now
  BY DEF Grounds, Sound, Overdue, Suspend, At, Suspending
<1> QED
  BY <1>1, Grounded, PTL DEF NoHastySuspension

(***************************************************************************)
(* "A user whose directory id is unknown is never judged" holds where no   *)
(* such identity can be looked up by e-mail, as in a directory that has    *)
(* none (GitHub): elsewhere it is judged by its e-mail.                    *)
(***************************************************************************)
THEOREM UnknownIsSparedWithoutMail ==
    ASSUME Mailed \subseteq Linked PROVE Spec => NullIsNotAbsence
<1>1. TypeOK /\ Grounds =>
         \A p \in Processes : Suspend(p) => run[p].user \in Linked
  BY DEF Grounds, Sound, Overdue, Known, Suspend, At, Suspending
<1> QED
  BY <1>1, Grounded, PTL DEF NullIsNotAbsence

-----------------------------------------------------------------------------
(***************************************************************************)
(* One bad read.  The accounts a run holds an absence against only become  *)
(* fewer after the read.                                                   *)
(***************************************************************************)
Suspects(r) ==
    IF r.at = "judge" THEN {u \in Users : r.read[u] # "enabled"}
    ELSE IF r.at \in {"resolve", "upsert"} THEN r.found
    ELSE IF r.at \in {"act"} \cup Suspending THEN r.left
    ELSE {}

\* A run that has not come to act yet, and what it may act upon is news.
Fresh(r, f, t) ==
    /\ r.at \in {"judge", "resolve", "upsert"}
    /\ \A u \in Staff : f[u].status # "none" => f[u].firstSeen = t

\* The directory vouches for the staff; as long as it is read badly at most
\* once, only what that read has put into its run speaks against them.
VouchedFor ==
    /\ \A u \in Staff : directory[u] = "enabled"
    /\ badReads = 0 => \A u \in Staff :
          /\ finding[u].status = "none"
          /\ \A p \in Processes : u \notin Suspects(run[p])
    /\ badReads <= 1 => \A p \in Processes :
          Staff \cap Suspects(run[p]) # {} => Fresh(run[p], finding, now)

LEMMA SuspectsShrink ==
    ASSUME TypeOK, Grounds, NEW p \in Processes,
           StartRun(p) \/ RunSync(p) \/ Crash(p),
           ~ReadDirectory(p), ~ReadBadly(p)
    PROVE  Suspects(run'[p]) \subseteq Suspects(run[p])
<1> USE DEF Goto, At
<1>0. /\ run \in [Processes -> Runs] /\ run[p] \in Runs
      /\ Sound(run[p], finding, now)
  BY DEF TypeOK, Grounds
<1>1. ASSUME run'[p].at \in {"idle", "due", "read"}
      PROVE  Suspects(run'[p]) = {}
  BY <1>1 DEF Suspects, Suspending
<1>2. CASE StartRun(p) \/ Crash(p) \/ TakeLock(p)
  BY <1>0, <1>1, <1>2 DEF StartRun, Crash, TakeLock, FindDue, RunNow, Idle
<1>3. Finish(p) => run'[p].at = "idle"
  BY <1>0 DEF Finish, Idle
<1>4. CASE ReadFails(p) \/ RevokeFails(p) \/ RunDone(p)
  BY <1>1, <1>3, <1>4 DEF ReadFails, RevokeFails, RunDone
<1>5. ASSUME NEW elsewhere \in SUBSET Users, JudgeIdentities(p, elsewhere)
      PROVE  Suspects(run'[p]) \subseteq Suspects(run[p])
  <2>1. /\ run[p].at = "judge" /\ run'[p].at = "resolve"
        /\ run'[p].found = {u \in Users : status[u] = "active"}
                              \cap Candidates(run[p].read)
    BY <1>0, <1>5 DEF JudgeIdentities
  <2> QED
    BY <2>1 DEF Suspects, Candidates
<1>6. CASE ResolvePresent(p)
  <2>1. /\ run[p].at = "resolve" /\ run'[p].at = "upsert"
        /\ run'[p].found = run[p].found
    BY <1>0, <1>6 DEF ResolvePresent
  <2> QED
    BY <2>1 DEF Suspects
<1>7. ASSUME NEW u \in Users, Upsert(p, u)
      PROVE  Suspects(run'[p]) \subseteq Suspects(run[p])
  <2>1. /\ run[p].at = "upsert" /\ run'[p].at = "upsert"
        /\ run'[p].found = run[p].found
    BY <1>0, <1>7, RunKinds DEF Upsert
  <2> QED
    BY <2>1 DEF Suspects
<1>8. CASE CheckLimits(p)
  <2>1. CASE OverLimit(Cardinality(run[p].found))
    BY <1>1, <1>3, <1>8, <2>1 DEF CheckLimits
  <2>2. CASE ~OverLimit(Cardinality(run[p].found))
    <3>1. /\ run[p].at = "upsert" /\ run'[p].at = "act"
          /\ run'[p].left = {u \in run[p].found : Lasting(u)}
      BY <1>0, <1>8, <2>2 DEF CheckLimits
    <3> QED
      BY <3>1 DEF Suspects
  <2> QED
    BY <2>1, <2>2
<1>9. ASSUME NEW u \in Users,
             Ignore(p, u) \/ Flag(p, u) \/ SpareLastAdmin(p, u)
      PROVE  Suspects(run'[p]) \subseteq Suspects(run[p])
  <2>1. run[p].at = "act" /\ run'[p] = Past(p, u)
    BY <1>0, <1>9 DEF Ignore, Flag, SpareLastAdmin
  <2>2. run'[p].at = "act" /\ run'[p].left \subseteq run[p].left
    BY <1>0, <2>1, RunKinds DEF Past
  <2> QED
    BY <2>1, <2>2 DEF Suspects
<1>10. ASSUME NEW u \in Users, Choose(p, u)
       PROVE  Suspects(run'[p]) \subseteq Suspects(run[p])
  <2>1. /\ run[p].at = "act" /\ run'[p].at = "suspend"
        /\ run'[p].left = run[p].left
    BY <1>0, <1>10 DEF Choose
  <2> QED
    BY <2>1 DEF Suspects, Suspending
<1>11. CASE Suspend(p) \/ RevokeAccess(p)
  <2>1. /\ run[p].at \in Suspending /\ run'[p].at \in Suspending
        /\ run'[p].left = run[p].left
    BY <1>0, <1>11, RunKinds DEF Suspend, RevokeAccess, Suspending
  <2> QED
    BY <2>1 DEF Suspects, Suspending
<1>12. CASE MarkActed(p)
  <2>1. /\ run[p].at \in Suspending /\ run'[p].at = "act"
        /\ run'[p].left \subseteq run[p].left
    BY <1>0, <1>12 DEF MarkActed, Suspending
  <2> QED
    BY <2>1 DEF Suspects, Suspending
<1> QED
  BY <1>2, <1>4, <1>5, <1>6, <1>7, <1>8, <1>9, <1>10, <1>11, <1>12
     DEF RunSync

(***************************************************************************)
(* A finding is new only for somebody the run holds an absence against.    *)
(***************************************************************************)
LEMMA NewRows ==
    ASSUME TypeOK, Grounds, NEW p \in Processes,
           StartRun(p) \/ RunSync(p) \/ Crash(p),
           NEW v \in Users,
           finding[v].status = "none", finding'[v].status # "none"
    PROVE  v \in Suspects(run[p]) /\ finding'[v].firstSeen = now
<1> USE DEF At
<1>0. /\ finding \in [Users -> Findings] /\ run[p] \in Runs
      /\ Sound(run[p], finding, now)
  BY DEF TypeOK, Grounds
<1>1. ASSUME NEW u \in Users, Upsert(p, u)
      PROVE  v \in Suspects(run[p]) /\ finding'[v].firstSeen = now
  <2>1. v = u /\ run[p].at = "upsert" /\ v \in run[p].found
    BY <1>0, <1>1 DEF Upsert, Sound
  <2>2. finding'[v].firstSeen = now
    BY <1>0, <1>1, <2>1 DEF Upsert, Opened
  <2> QED
    BY <2>1, <2>2 DEF Suspects
<1>2. ~ResolvePresent(p)
  BY <1>0 DEF ResolvePresent
<1>3. ASSUME NEW u \in Users, Ignore(p, u) \/ SpareLastAdmin(p, u)
      PROVE  FALSE
  <2>1. run[p].at = "act" /\ u \in run[p].left
    BY <1>3 DEF Ignore, SpareLastAdmin
  <2>2. v # u
    BY <1>0, <2>1 DEF Sound, Overdue
  <2> QED
    BY <1>0, <1>3, <2>2 DEF Ignore, SpareLastAdmin
<1>4. ~MarkActed(p)
  <2> SUFFICES ASSUME MarkActed(p) PROVE FALSE
    OBVIOUS
  <2>1. run[p].at \in Suspending /\ run[p].user \in run[p].left
    BY <1>0 DEF MarkActed, Sound, Suspending
  <2>2. v # run[p].user
    BY <1>0, <2>1 DEF Sound, Overdue
  <2> QED
    BY <1>0, <2>2 DEF MarkActed
<1>5. ~UNCHANGED finding
  OBVIOUS
<1> QED
  BY <1>1, <1>2, <1>3, <1>4, <1>5
     DEF StartRun, RunSync, Crash, FindDue, RunNow, TakeLock, ReadDirectory,
         ReadBadly, ReadFails, JudgeIdentities, CheckLimits, Flag, Choose,
         Suspend, RevokeAccess, RevokeFails, RunDone, accountVars

(***************************************************************************)
(* What was news stays news, and nobody is to be acted upon for news.      *)
(***************************************************************************)
LEMMA NewsKept ==
    ASSUME TypeOK, Grounds, NEW p \in Processes,
           StartRun(p) \/ RunSync(p) \/ Crash(p),
           NEW r, Fresh(r, finding, now)
    PROVE  Fresh(r, finding', now)
<1>1. ASSUME NEW u \in Staff, finding'[u].status # "none"
      PROVE  finding'[u].firstSeen = now
  <2>0. u \in Users
    BY SyncAssumption
  <2>1. CASE finding[u].status = "none"
    BY <1>1, <2>0, <2>1, NewRows
  <2>2. CASE finding[u].status # "none"
    <3>1. Kept(finding, finding')
      BY FindingsKept DEF Next, StartRun
    <3> QED
      BY <2>0, <2>2, <3>1 DEF Kept, Fresh
  <2> QED
    BY <2>1, <2>2
<1> QED
  BY <1>1 DEF Fresh

LEMMA NewsIsNotActedUpon ==
    ASSUME TypeOK, Grounds, Grace > 0, NEW p \in Processes,
           StartRun(p) \/ RunSync(p) \/ Crash(p),
           ~ReadDirectory(p), ~ReadBadly(p),
           Fresh(run[p], finding, now)
    PROVE  \/ run'[p].at \in {"judge", "resolve", "upsert"}
           \/ Staff \cap Suspects(run'[p]) = {}
<1> USE DEF Goto, At
<1>0. /\ run \in [Processes -> Runs] /\ run[p] \in Runs
      /\ Sound(run[p], finding, now)
      /\ now \in Nat /\ Grace \in Nat
  BY SyncAssumption DEF TypeOK, Grounds, Times
<1>1. run[p].at \in {"judge", "resolve", "upsert"}
  BY DEF Fresh
<1>2. run'[p].at = "idle" => Suspects(run'[p]) = {}
  BY DEF Suspects, Suspending
<1>3. CASE StartRun(p) \/ TakeLock(p) \/ ReadFails(p) \/ Suspend(p)
           \/ RevokeAccess(p) \/ RevokeFails(p) \/ MarkActed(p) \/ RunDone(p)
  BY <1>1, <1>3
     DEF StartRun, FindDue, RunNow, TakeLock, ReadFails, Suspend,
         RevokeAccess, RevokeFails, MarkActed, RunDone
<1>4. CASE \E u \in Users : \/ Ignore(p, u) \/ Flag(p, u)
                            \/ SpareLastAdmin(p, u) \/ Choose(p, u)
  BY <1>1, <1>4 DEF Ignore, Flag, SpareLastAdmin, Choose
<1>5. CASE Crash(p)
  BY <1>0, <1>2, <1>5 DEF Crash, Idle
<1>6. CASE \E elsewhere \in SUBSET Users : JudgeIdentities(p, elsewhere)
  <2>1. run'[p].at = "resolve"
    BY <1>0, <1>6 DEF JudgeIdentities
  <2> QED
    BY <2>1
<1>7. CASE ResolvePresent(p)
  <2>1. run'[p].at = "upsert"
    BY <1>0, <1>7 DEF ResolvePresent
  <2> QED
    BY <2>1
<1>8. CASE \E u \in Users : Upsert(p, u)
  <2>1. run'[p].at = "upsert"
    BY <1>0, <1>8, RunKinds DEF Upsert
  <2> QED
    BY <2>1
<1>9. CASE CheckLimits(p)
  <2>1. CASE OverLimit(Cardinality(run[p].found))
    <3>1. run'[p].at = "idle"
      BY <1>0, <1>9, <2>1 DEF CheckLimits, Finish, Idle
    <3> QED
      BY <1>2, <3>1
  <2>2. CASE ~OverLimit(Cardinality(run[p].found))
    <3>1. /\ run[p].at = "upsert" /\ run[p].left = {}
          /\ run'[p].at = "act"
          /\ run'[p].left = {u \in run[p].found : Lasting(u)}
      BY <1>0, <1>9, <2>2 DEF CheckLimits
    <3>2. \A u \in Staff : u \in run[p].found => ~Lasting(u)
      BY <1>0, <3>1 DEF Sound, Fresh, Lasting
    <3> QED
      BY <3>1, <3>2 DEF Suspects, Suspending
  <2> QED
    BY <2>1, <2>2
<1> QED
  BY <1>3, <1>4, <1>5, <1>6, <1>7, <1>8, <1>9 DEF RunSync

(***************************************************************************)
(* The two ways to read: what is put into the run.                         *)
(***************************************************************************)
LEMMA ReadSuspects ==
    ASSUME TypeOK, NEW p \in Processes, NEW d, ReadInto(p, d)
    PROVE  \/ Suspects(run'[p]) = {}
           \/ /\ run'[p].at = "judge"
              /\ Suspects(run'[p]) = {u \in Users : d[u] # "enabled"}
<1> USE DEF Goto
<1>1. CASE Distrusted(d)
  <2>1. run'[p].at = "idle"
    BY <1>1 DEF ReadInto, Finish, Idle, TypeOK
  <2> QED
    BY <2>1 DEF Suspects, Suspending
<1>2. CASE ~Distrusted(d)
  <2>1. run'[p].at = "judge" /\ run'[p].read = d
    BY <1>2 DEF ReadInto, TypeOK
  <2> QED
    BY <2>1 DEF Suspects
<1> QED
  BY <1>1, <1>2

LEMMA VouchedStep ==
    ASSUME Grace > 0, TypeOK, Grounds, VouchedFor, [Next]_vars
    PROVE  VouchedFor'
<1>0. Staff \subseteq Users /\ badReads \in Nat
  BY SyncAssumption DEF TypeOK
<1>1. ASSUME NEW p \in Processes, StartRun(p) \/ RunSync(p) \/ Crash(p)
      PROVE  VouchedFor'
  <2>0. UNCHANGED <<now, directory>>
    BY <1>1, OthersMove
  <2>1. \A q \in Processes \ {p} : run'[q] = run[q]
    BY <1>1, Untouched
  <2>2. CASE ReadDirectory(p)
    <3>1. ReadInto(p, directory) /\ UNCHANGED <<finding, badReads>>
      BY <2>2 DEF ReadDirectory, worldVars
    <3>2. Staff \cap Suspects(run'[p]) = {}
      BY <3>1, ReadSuspects DEF VouchedFor
    <3> QED
      BY <2>0, <2>1, <3>1, <3>2 DEF VouchedFor
  <2>3. CASE ReadBadly(p)
    <3>1. /\ \E d : ReadInto(p, d)
          /\ badReads' = badReads + 1 /\ UNCHANGED finding
      BY <2>3 DEF ReadBadly
    <3>2. \/ Suspects(run'[p]) = {}
          \/ run'[p].at = "judge"
      BY <3>1, ReadSuspects
    <3>3. ASSUME badReads' <= 1, NEW q \in Processes,
                 Staff \cap Suspects(run'[q]) # {}
          PROVE  Fresh(run'[q], finding', now')
      <4>1. badReads = 0
        BY <1>0, <3>1, <3>3
      <4>2. q = p
        BY <2>1, <3>3, <4>1 DEF VouchedFor
      <4>3. \A u \in Staff : finding'[u].status = "none"
        BY <3>1, <4>1 DEF VouchedFor
      <4> QED
        BY <3>2, <3>3, <4>2, <4>3 DEF Fresh
    <3>4. badReads' # 0
      BY <1>0, <3>1
    <3> QED
      BY <2>0, <3>3, <3>4 DEF VouchedFor
  <2>4. CASE ~ReadDirectory(p) /\ ~ReadBadly(p)
    <3>1. Suspects(run'[p]) \subseteq Suspects(run[p])
      BY <1>1, <2>4, SuspectsShrink
    <3>2. badReads' = badReads
      BY <1>1, <2>4
         DEF StartRun, RunSync, Crash, FindDue, RunNow, TakeLock, ReadFails,
             JudgeIdentities, ResolvePresent, Upsert, CheckLimits, Ignore,
             Flag, SpareLastAdmin, Choose, Suspend, RevokeAccess,
             RevokeFails, MarkActed, RunDone, worldVars
    <3>3. ASSUME badReads = 0, NEW u \in Staff
          PROVE  /\ finding'[u].status = "none"
                 /\ \A q \in Processes : u \notin Suspects(run'[q])
      BY <1>0, <1>1, <2>1, <3>1, <3>3, NewRows DEF VouchedFor
    <3>4. ASSUME badReads <= 1, NEW q \in Processes,
                 Staff \cap Suspects(run'[q]) # {}
          PROVE  Fresh(run'[q], finding', now)
      <4>1. Staff \cap Suspects(run[q]) # {}
        BY <2>1, <3>1, <3>4
      <4>2. Fresh(run[q], finding, now)
        BY <3>4, <4>1 DEF VouchedFor
      <4>3. run'[q].at \in {"judge", "resolve", "upsert"}
        BY <1>1, <2>1, <2>4, <3>4, <4>2, NewsIsNotActedUpon DEF Fresh
      <4>4. Fresh(run[q], finding', now)
        BY <1>1, <4>2, NewsKept
      <4> QED
        BY <4>3, <4>4 DEF Fresh
    <3> QED
      BY <2>0, <3>2, <3>3, <3>4 DEF VouchedFor
  <2> QED
    BY <2>2, <2>3, <2>4
<1>2. CASE LockExpires \/ World \/ UNCHANGED vars
  <2>1. \A u \in Staff : directory'[u] = "enabled"
    BY <1>0, <1>2
       DEF LockExpires, World, ChangeDirectory, Tick, vars, worldVars, Edit,
           ReadAccount, WriteStatus, RevokeFor, EditStops, VouchedFor, TypeOK
  <2>2. UNCHANGED <<run, finding, badReads>>
    BY <1>2, WorldMoves
  <2>3. CASE now' = now
    BY <2>1, <2>2, <2>3 DEF VouchedFor
  <2>4. CASE \A p \in Processes : At(p, "idle")
    <3>1. \A p \in Processes : Suspects(run[p]) = {}
      BY <2>4 DEF Suspects, At, Suspending
    <3> QED
      BY <2>1, <2>2, <3>1 DEF VouchedFor
  <2> QED
    BY <1>2, <2>3, <2>4, WorldMoves
<1> QED
  BY <1>1, <1>2, Steps

(***************************************************************************)
(* "So a single bad directory read cannot suspend a soul": whom his        *)
(* directory vouched for all the time is not suspended by a run as long as *)
(* it was read badly at most once.  Without a grace period the claim is    *)
(* not made: the first absence is then enough.                             *)
(***************************************************************************)
THEOREM BadReadSuspendsNobody ==
    ASSUME Grace > 0 PROVE Spec => BadReadIsHarmless
<1>1. Init => VouchedFor
  <2> SUFFICES ASSUME Init PROVE VouchedFor
    OBVIOUS
  <2>1. \A p \in Processes : Suspects(run[p]) = {}
    BY DEF Init, Idle, Suspects, Suspending
  <2> QED
    BY <2>1, SyncAssumption DEF Init, VouchedFor, NoFinding
<1>2. TypeOK /\ Grounds /\ VouchedFor /\ [Next]_vars => VouchedFor'
  BY VouchedStep
<1>3. TypeOK /\ Grounds /\ VouchedFor =>
         \A p \in Processes :
            Suspend(p) /\ badReads <= 1 => run[p].user \notin Staff
  <2> SUFFICES ASSUME TypeOK, Grounds, VouchedFor, NEW p \in Processes,
                      Suspend(p), badReads <= 1, run[p].user \in Staff
               PROVE  FALSE
    OBVIOUS
  <2>1. run[p].at = "suspend" /\ run[p].user \in run[p].left
    BY DEF Grounds, Sound, Suspend, At, Suspending
  <2>2. run[p].user \in Suspects(run[p])
    BY <2>1 DEF Suspects, Suspending
  <2> QED
    BY <2>1, <2>2 DEF VouchedFor, Fresh
<1> QED
  BY <1>1, <1>2, <1>3, Grounded, PTL DEF Spec, BadReadIsHarmless

-----------------------------------------------------------------------------
(***************************************************************************)
(* The lock.  Whoever holds it set it, and nobody else does.               *)
(***************************************************************************)
Holding(r) == r.at # "idle" /\ r.at # "due" /\ r.held

Locked == /\ \A p \in Processes : Holding(run[p]) => lock
          /\ \A p, q \in Processes :
                Holding(run[p]) /\ Holding(run[q]) => p = q

\* A step takes the free lock, gives it back, or leaves it alone.
LEMMA LockMoves ==
    ASSUME TypeOK, NEW p \in Processes,
           StartRun(p) \/ RunSync(p) \/ Crash(p)
    PROVE  \/ ~lock /\ lock'
           \/ Holding(run[p]) /\ ~Holding(run'[p])
           \/ lock' = lock /\ (Holding(run'[p]) => Holding(run[p]))
<1> USE DEF Goto, At
<1>0. /\ run \in [Processes -> Runs] /\ run[p] \in Runs
      /\ lock \in BOOLEAN
  BY DEF TypeOK
<1>1. ASSUME run[p].at \notin {"idle", "due"}, run[p].held \in BOOLEAN,
             Finish(p)
      PROVE  \/ Holding(run[p]) /\ ~Holding(run'[p])
             \/ lock' = lock /\ ~Holding(run'[p])
  BY <1>0, <1>1 DEF Finish, Holding, Idle
<1>2. ASSUME run'[p].at \in {"idle", "due"}, lock' = lock
      PROVE  lock' = lock /\ (Holding(run'[p]) => Holding(run[p]))
  BY <1>2 DEF Holding
<1>3. ASSUME run[p].at \notin {"idle", "due"}, run'[p].held = run[p].held,
             lock' = lock
      PROVE  lock' = lock /\ (Holding(run'[p]) => Holding(run[p]))
  BY <1>3 DEF Holding
<1>4. CASE StartRun(p)
  <2>1. /\ lock' = lock
        /\ run'[p].at = "due" \/ ~run'[p].held
    BY <1>0, <1>4 DEF StartRun, FindDue, RunNow
  <2> QED
    BY <2>1 DEF Holding
<1>5. CASE Crash(p)
  BY <1>0, <1>2, <1>5 DEF Crash, Idle
<1>6. CASE TakeLock(p)
  BY <1>0, <1>2, <1>6 DEF TakeLock, LockFree, Idle
<1>7. ASSUME At(p, "read"), NEW d, ReadInto(p, d)
      PROVE  \/ Holding(run[p]) /\ ~Holding(run'[p])
             \/ lock' = lock /\ (Holding(run'[p]) => Holding(run[p]))
  <2>0. run[p].held \in BOOLEAN
    BY <1>0, <1>7, RunKinds
  <2>1. CASE Distrusted(d)
    BY <1>1, <1>7, <2>0, <2>1 DEF ReadInto
  <2>2. CASE ~Distrusted(d)
    <3>1. lock' = lock /\ run'[p].held = run[p].held
      BY <1>0, <1>7, <2>2 DEF ReadInto
    <3> QED
      BY <1>3, <1>7, <3>1
  <2> QED
    BY <2>1, <2>2
<1>8. CASE ReadDirectory(p) \/ ReadBadly(p)
  BY <1>7, <1>8 DEF ReadDirectory, ReadBadly
<1>9. CASE ReadFails(p) \/ RevokeFails(p) \/ RunDone(p)
  <2>1. run[p].at \in {"read", "revoke", "act"} /\ Finish(p)
    BY <1>9 DEF ReadFails, RevokeFails, RunDone
  <2>2. run[p].held \in BOOLEAN
    BY <1>0, <2>1, RunKinds DEF Suspending
  <2> QED
    BY <1>1, <2>1, <2>2
<1>10. CASE \E elsewhere \in SUBSET Users : JudgeIdentities(p, elsewhere)
  <2>1. /\ run[p].at = "judge" /\ lock' = lock
        /\ run'[p].held = run[p].held
    BY <1>0, <1>10 DEF JudgeIdentities
  <2> QED
    BY <1>3, <2>1
<1>11. CASE ResolvePresent(p)
  <2>1. /\ run[p].at = "resolve" /\ lock' = lock
        /\ run'[p].held = run[p].held
    BY <1>0, <1>11 DEF ResolvePresent
  <2> QED
    BY <1>3, <2>1
<1>12. CASE \E u \in Users : Upsert(p, u)
  <2>1. /\ run[p].at = "upsert" /\ lock' = lock
        /\ run'[p].held = run[p].held
    BY <1>0, <1>12, RunKinds DEF Upsert
  <2> QED
    BY <1>3, <2>1
<1>13. CASE CheckLimits(p)
  <2>0. run[p].at = "upsert" /\ run[p].held \in BOOLEAN
    BY <1>0, <1>13, RunKinds DEF CheckLimits
  <2>1. CASE OverLimit(Cardinality(run[p].found))
    BY <1>1, <1>13, <2>0, <2>1 DEF CheckLimits
  <2>2. CASE ~OverLimit(Cardinality(run[p].found))
    <3>1. lock' = lock /\ run'[p].held = run[p].held
      BY <1>0, <1>13, <2>2 DEF CheckLimits
    <3> QED
      BY <1>3, <2>0, <3>1
  <2> QED
    BY <2>1, <2>2
<1>14. CASE \E u \in Users : Ignore(p, u) \/ Flag(p, u)
                              \/ SpareLastAdmin(p, u)
  <2>1. /\ run[p].at = "act" /\ lock' = lock
        /\ \E u \in Users : run'[p] = Past(p, u)
    BY <1>0, <1>14 DEF Ignore, Flag, SpareLastAdmin
  <2>2. run'[p].held = run[p].held
    BY <1>0, <2>1, RunKinds DEF Past
  <2> QED
    BY <1>3, <2>1, <2>2
<1>15. CASE \E u \in Users : Choose(p, u)
  <2>1. /\ run[p].at = "act" /\ lock' = lock
        /\ run'[p].held = run[p].held
    BY <1>0, <1>15 DEF Choose
  <2> QED
    BY <1>3, <2>1
<1>16. CASE Suspend(p) \/ RevokeAccess(p)
  <2>1. /\ run[p].at \in Suspending /\ lock' = lock
        /\ run'[p].held = run[p].held
    BY <1>0, <1>16, RunKinds DEF Suspend, RevokeAccess, Suspending
  <2> QED
    BY <1>3, <2>1 DEF Suspending
<1>17. CASE MarkActed(p)
  <2>1. /\ run[p].at = "mark" /\ lock' = lock
        /\ run'[p].held = run[p].held
    BY <1>0, <1>17 DEF MarkActed
  <2> QED
    BY <1>3, <2>1
<1> QED
  BY <1>4, <1>5, <1>6, <1>8, <1>9, <1>10, <1>11, <1>12, <1>13, <1>14, <1>15,
     <1>16, <1>17 DEF RunSync

LEMMA LockedStep == TypeOK /\ Locked /\ [Next]_vars => Locked'
<1> SUFFICES ASSUME TypeOK, Locked, [Next]_vars PROVE Locked'
  OBVIOUS
<1>1. ASSUME NEW p \in Processes, StartRun(p) \/ RunSync(p) \/ Crash(p)
      PROVE  Locked'
  <2>1. \A q \in Processes \ {p} : run'[q] = run[q]
    BY <1>1, Untouched
  <2>2. CASE ~lock /\ lock'
    <3>1. \A q \in Processes : Holding(run'[q]) => q = p
      BY <2>1, <2>2 DEF Locked
    <3> QED
      BY <2>2, <3>1 DEF Locked
  <2>3. CASE Holding(run[p]) /\ ~Holding(run'[p])
    <3>1. \A q \in Processes : ~Holding(run'[q])
      BY <2>1, <2>3 DEF Locked
    <3> QED
      BY <3>1 DEF Locked
  <2>4. CASE lock' = lock /\ (Holding(run'[p]) => Holding(run[p]))
    <3>1. \A q \in Processes : Holding(run'[q]) => Holding(run[q])
      BY <2>1, <2>4
    <3> QED
      BY <2>4, <3>1 DEF Locked
  <2> QED
    BY <1>1, <2>2, <2>3, <2>4, LockMoves
<1>2. CASE LockExpires
  <2>1. \A p \in Processes : ~Holding(run[p])
    BY <1>2 DEF LockExpires, Holders, Holding, At
  <2> QED
    BY <1>2, <2>1 DEF LockExpires, Locked
<1>3. CASE World \/ UNCHANGED vars
  <2>1. UNCHANGED <<run, lock>>
    BY <1>3 DEF World, ChangeDirectory, Tick, vars, Edit, ReadAccount,
                WriteStatus, RevokeFor, EditStops
  <2> QED
    BY <2>1 DEF Locked
<1> QED
  BY <1>1, <1>2, <1>3, Steps

(***************************************************************************)
(* "The lock does not fail open": of the runs of the job, in whatever      *)
(* number of workers, one at a time is under way, as long as the lock out- *)
(* lives a run.  A worker that stops leaves it to expire.                  *)
(***************************************************************************)
THEOREM JobIsAlone == Spec => []JobRunsAlone
<1>1. Init => Locked
  BY DEF Init, Locked, Holding, Idle
<1>2. Locked => JobRunsAlone
  <2> SUFFICES ASSUME Locked PROVE Cardinality(Holders) <= 1
    BY DEF JobRunsAlone
  <2>1. CASE Holders = {}
    BY <2>1, FS_EmptySet
  <2>2. ASSUME NEW p \in Holders
        PROVE  Cardinality(Holders) <= 1
    <3>1. Holders = {p}
      BY <2>2 DEF Holders, Locked, Holding, At
    <3> QED
      BY <3>1, FS_Singleton
  <2> QED
    BY <2>1, <2>2
<1> QED
  BY <1>1, <1>2, InitType, TypeStep, LockedStep, PTL DEF Spec

-----------------------------------------------------------------------------
(***************************************************************************)
(* Suspended and cut off.  A step of a run takes access away, begins a     *)
(* cascade, or does neither; only the end of its own cascade does more.    *)
(***************************************************************************)
LEMMA AccountsMove ==
    ASSUME TypeOK, NEW p \in Processes,
           StartRun(p) \/ RunSync(p) \/ Crash(p)
    PROVE  \/ /\ run[p].at = "revoke" /\ run'[p] # run[p]
              /\ status' = status /\ cutOff \subseteq cutOff'
           \/ Suspend(p)
           \/ run[p].at # "revoke" /\ UNCHANGED <<status, cutOff>>
<1> USE DEF Goto, At
<1>0. run \in [Processes -> Runs] /\ run[p] \in Runs
  BY DEF TypeOK
<1>1. CASE RevokeAccess(p)
  <2>1. [run[p] EXCEPT !.at = "mark"].at = "mark"
    BY <1>0, <1>1, RunKinds DEF RevokeAccess, Suspending
  <2>2. run'[p] # run[p]
    BY <1>0, <1>1, <2>1 DEF RevokeAccess
  <2> QED
    BY <1>1, <2>2 DEF RevokeAccess
<1>2. CASE RevokeFails(p) \/ Crash(p)
  <2>1. run'[p] = Idle /\ UNCHANGED <<status, cutOff>>
    BY <1>0, <1>2 DEF RevokeFails, Crash, Finish, accountVars
  <2> QED
    BY <2>1 DEF Idle
<1>3. CASE StartRun(p) \/ TakeLock(p) \/ ReadDirectory(p) \/ ReadBadly(p)
           \/ ReadFails(p) \/ ResolvePresent(p) \/ CheckLimits(p)
           \/ MarkActed(p) \/ RunDone(p)
  BY <1>3 DEF StartRun, FindDue, RunNow, TakeLock, ReadDirectory, ReadBadly,
              ReadFails, ResolvePresent, CheckLimits, MarkActed, RunDone,
              accountVars
<1>4. CASE \E elsewhere \in SUBSET Users : JudgeIdentities(p, elsewhere)
  BY <1>4 DEF JudgeIdentities, accountVars
<1>5. CASE \E u \in Users : \/ Upsert(p, u) \/ Ignore(p, u) \/ Flag(p, u)
                            \/ SpareLastAdmin(p, u) \/ Choose(p, u)
  BY <1>5 DEF Upsert, Ignore, Flag, SpareLastAdmin, Choose, accountVars
<1> QED
  BY <1>1, <1>2, <1>3, <1>4, <1>5 DEF RunSync

Complete ==
    /\ \A p \in Processes :
          At(p, "revoke") /\ run'[p] # run[p] => run[p].user \in cutOff'
    /\ \A e \in Editors :
          edit[e].at = "revoke" /\ edit'[e] # edit[e]
             => edit[e].user \in cutOff'

LEMMA CutOffByRun ==
    ASSUME TypeOK, SuspendedIsCutOff, NEW p \in Processes,
           StartRun(p) \/ RunSync(p) \/ Crash(p), [Complete]_vars
    PROVE  SuspendedIsCutOff'
<1>0. /\ run \in [Processes -> Runs] /\ run[p] \in Runs
      /\ status \in [Users -> Statuses]
  BY DEF TypeOK
<1>1. /\ edit' = edit
      /\ \A q \in Processes \ {p} : run'[q] = run[q]
  BY OthersMove, Untouched
<1>2. CASE /\ run[p].at = "revoke" /\ run'[p] # run[p]
           /\ status' = status /\ cutOff \subseteq cutOff'
  <2>1. run[p].user \in cutOff'
    BY <1>2 DEF Complete, At, vars
  <2> QED
    BY <1>1, <1>2, <2>1 DEF SuspendedIsCutOff, InHand, At
<1>3. CASE Suspend(p)
  <2>1. /\ run[p].at = "suspend" /\ cutOff' = cutOff
        /\ status' = [status EXCEPT ![run[p].user] = "suspended"]
        /\ run'[p].at = "revoke" /\ run'[p].user = run[p].user
    BY <1>0, <1>3, RunKinds DEF Suspend, Goto, At, Suspending
  <2> QED
    BY <1>0, <1>1, <2>1 DEF SuspendedIsCutOff, InHand, At
<1>4. CASE run[p].at # "revoke" /\ UNCHANGED <<status, cutOff>>
  BY <1>1, <1>4 DEF SuspendedIsCutOff, InHand, At
<1> QED
  BY <1>2, <1>3, <1>4, AccountsMove

LEMMA CutOffByEdit ==
    ASSUME TypeOK, SuspendedIsCutOff, NEW e \in Editors, Edit(e),
           [Complete]_vars
    PROVE  SuspendedIsCutOff'
<1> USE DEF Become, SuspendedIsCutOff, InHand, At
<1>0. /\ edit \in [Editors -> Edits] /\ edit[e] \in Edits
      /\ status \in [Users -> Statuses] /\ run' = run
      /\ Idle.at = "idle"
  BY EditMoves DEF TypeOK, Idle
<1>1. CASE \E u \in Users, s \in Statuses : ReadAccount(e, u, s)
  BY <1>0, <1>1 DEF ReadAccount
<1>2. CASE WriteStatus(e)
  <2> DEFINE u == edit[e].user
  <2>1. edit[e].at = "write" /\ u \in Users /\ edit[e].to \in Statuses
    BY <1>0, <1>2, EditKinds DEF WriteStatus
  <2>2. CASE edit[e].to = "active"
    <3>1. /\ status'[u] = "active" /\ cutOff' = cutOff \ {u}
          /\ \A v \in Users \ {u} : status'[v] = status[v]
          /\ \A f \in Editors \ {e} : edit'[f] = edit[f]
      BY <1>0, <1>2, <2>1, <2>2 DEF WriteStatus
    <3> QED
      BY <1>0, <2>1, <3>1
  <2>3. CASE edit[e].to = "suspended"
    <3>1. /\ cutOff' = cutOff
          /\ \A v \in Users \ {u} : status'[v] = status[v]
          /\ edit'[e].at = "revoke" /\ edit'[e].user = u
          /\ \A f \in Editors \ {e} : edit'[f] = edit[f]
      BY <1>0, <1>2, <2>1, <2>3 DEF WriteStatus
    <3> QED
      BY <1>0, <2>1, <3>1
  <2> QED
    BY <2>1, <2>2, <2>3 DEF Statuses
<1>3. CASE RevokeFor(e)
  BY <1>0, <1>3 DEF RevokeFor
<1>4. CASE EditStops(e)
  <2>1. /\ edit'[e] = Idle /\ edit[e] # Idle
        /\ UNCHANGED <<status, cutOff>>
        /\ \A f \in Editors \ {e} : edit'[f] = edit[f]
    BY <1>0, <1>4 DEF EditStops
  <2>2. edit[e].at = "revoke" => edit[e].user \in cutOff'
    <3>1. edit' # edit
      BY <2>1
    <3> QED
      BY <2>1, <3>1 DEF Complete, vars, accountVars
  <2> QED
    BY <1>0, <2>1, <2>2
<1> QED
  BY <1>1, <1>2, <1>3, <1>4 DEF Edit

(***************************************************************************)
(* Whoever is suspended, by a run or by an administrator, has lost all     *)
(* access, whatever runs and administrators do to the same account at the  *)
(* same time, unless a cascade breaks off or leaves live terminals: then   *)
(* nothing looks at the account again, for the sync judges only the active *)
(* and updateUser ignores a status that is set already.                    *)
(***************************************************************************)
THEOREM SuspendedIsCutOffUnlessInterrupted ==
    Spec /\ CascadesComplete => []SuspendedIsCutOff
<1>1. Init => SuspendedIsCutOff
  BY DEF Init, SuspendedIsCutOff
<1>2. TypeOK /\ SuspendedIsCutOff /\ [Next]_vars /\ [Complete]_vars
         => SuspendedIsCutOff'
  <2> SUFFICES ASSUME TypeOK, SuspendedIsCutOff, [Next]_vars,
                      [Complete]_vars
               PROVE  SuspendedIsCutOff'
    OBVIOUS
  <2>1. CASE UNCHANGED <<run, edit, status, cutOff>>
    BY <2>1 DEF SuspendedIsCutOff, InHand, At
  <2> QED
    BY <2>1, Steps, CutOffByRun, CutOffByEdit
       DEF LockExpires, World, ChangeDirectory, Tick, vars, accountVars
<1> QED
  BY <1>1, <1>2, TypeCorrect, PTL DEF Spec, CascadesComplete, Complete

-----------------------------------------------------------------------------
(***************************************************************************)
(* Runs that do not overlap.                                               *)
(***************************************************************************)
InRun(r) == r.at # "idle" /\ r.at # "due"

LEMMA Alone ==
    ASSUME OneRunAtATime
    PROVE  \A p, q \in Processes : InRun(run[p]) /\ InRun(run[q]) => p = q
<1> SUFFICES ASSUME NEW p \in Processes, NEW q \in Processes,
                    InRun(run[p]), InRun(run[q]), p # q
             PROVE  FALSE
  OBVIOUS
<1> DEFINE S == {x \in Processes : ~At(x, "idle") /\ ~At(x, "due")}
<1>1. IsFiniteSet(S) /\ {p, q} \subseteq S
  BY SyncAssumption, FS_Subset DEF InRun, At
<1>2. Cardinality({p, q}) = 2
  <2>1. IsFiniteSet({p}) /\ Cardinality({p}) = 1
    BY FS_Singleton
  <2>2. Cardinality({p} \cup {q}) = Cardinality({p}) + 1
    BY <2>1, FS_AddElement
  <2>3. {p, q} = {p} \cup {q}
    OBVIOUS
  <2> QED
    BY <2>1, <2>2, <2>3
<1>3. 2 <= Cardinality(S) /\ Cardinality(S) \in Nat
  BY <1>1, <1>2, FS_Subset, FS_CardinalityType
<1> QED
  BY <1>3 DEF OneRunAtATime

(***************************************************************************)
(* A run that has not begun leaves the rows alone.                         *)
(***************************************************************************)
LEMMA Beginning ==
    ASSUME TypeOK, NEW p \in Processes, ~InRun(run[p]),
           StartRun(p) \/ RunSync(p) \/ Crash(p)
    PROVE  /\ UNCHANGED <<finding, status, cutOff>>
           /\ run'[p].at \in {"idle", "due", "read"}
<1>1. run \in [Processes -> Runs]
  BY DEF TypeOK
<1>2. StartRun(p) \/ TakeLock(p) \/ Crash(p)
  BY DEF InRun, RunSync, At, ReadDirectory, ReadBadly, ReadFails,
         JudgeIdentities, ResolvePresent, Upsert, CheckLimits, Ignore, Flag,
         SpareLastAdmin, Choose, Suspend, RevokeAccess, RevokeFails,
         MarkActed, RunDone
<1> QED
  BY <1>1, <1>2
     DEF StartRun, TakeLock, Crash, FindDue, RunNow, Goto, Idle, accountVars

-----------------------------------------------------------------------------
(***************************************************************************)
(* What the refuting configurations show needs one event each.  A finding  *)
(* that is never opened again was last opened when it was first seen.      *)
(***************************************************************************)
StaysClosed ==
    \A u \in Users :
        finding[u].status \in {"resolved", "ignored", "acted"}
           => finding'[u].status # "open"

Dated == \A u \in Users : finding[u].since = finding[u].firstSeen

LEMMA DatedStep ==
    ASSUME TypeOK, Grounds, Dated, [Next]_vars, [StaysClosed]_vars
    PROVE  Dated'
<1>0. /\ finding \in [Users -> Findings] /\ run \in [Processes -> Runs]
  BY DEF TypeOK
<1>1. \A f \in Findings :
         f.status \in {"none", "open", "resolved", "ignored", "acted"}
  BY DEF Findings
<1>2. ASSUME finding' # finding PROVE StaysClosed
  BY <1>2 DEF vars
<1>3. ASSUME NEW f \in Findings, NEW st
      PROVE  /\ [f EXCEPT !.status = st].since = f.since
             /\ [f EXCEPT !.status = st].firstSeen = f.firstSeen
  BY DEF Findings
<1>4. ASSUME NEW u \in Users, NEW st,
             finding' = [finding EXCEPT ![u].status = st]
      PROVE  Dated'
  <2>1. finding' = [finding EXCEPT ![u] = [finding[u] EXCEPT !.status = st]]
    BY <1>0, <1>4
  <2> QED
    BY <1>0, <1>3, <2>1 DEF Dated
<1>5. ASSUME NEW p \in Processes, ResolvePresent(p)
      PROVE  Dated'
  BY <1>0, <1>3, <1>5 DEF ResolvePresent, Dated
<1>6. ASSUME NEW p \in Processes, NEW u \in Users, Upsert(p, u)
      PROVE  Dated'
  <2>1. /\ finding' = [finding EXCEPT ![u] = Opened(finding[u])]
        /\ Opened(finding[u]).status = "open"
    BY <1>0, <1>6 DEF Upsert, Opened
  <2>2. finding[u].status \in {"none", "open"}
    <3>1. finding' # finding \/ finding[u].status = "open"
      BY <1>0, <2>1
    <3> QED
      BY <1>0, <1>1, <1>2, <2>1, <3>1 DEF StaysClosed
  <2>3. Opened(finding[u]).since = Opened(finding[u]).firstSeen
    BY <2>2 DEF Opened, Dated
  <2> QED
    BY <1>0, <2>1, <2>3 DEF Dated
<1>7. ASSUME NEW p \in Processes, NEW u \in Users, SpareLastAdmin(p, u)
      PROVE  Dated'
  <2>1. finding[u].status # "none"
    BY <1>7 DEF SpareLastAdmin, Grounds, Sound, Overdue, At
  <2> DEFINE t == IF finding[u].status = "open" THEN finding[u].since ELSE now
             g == [finding[u] EXCEPT !.status = "open", !.since = t]
  <2>2. /\ finding' = [finding EXCEPT ![u] = g] /\ g.status = "open"
        /\ g.since = t /\ g.firstSeen = finding[u].firstSeen
    BY <1>0, <1>7 DEF SpareLastAdmin, Findings
  <2>3. finding[u].status = "open"
    <3>1. finding' # finding \/ finding[u].status = "open"
      BY <1>0, <2>2
    <3> QED
      BY <1>0, <1>1, <1>2, <2>1, <2>2, <3>1 DEF StaysClosed
  <2> QED
    BY <1>0, <2>2, <2>3 DEF Dated
<1>8. ASSUME NEW p \in Processes, MarkActed(p)
      PROVE  Dated'
  <2>1. run[p].user \in Users
    BY <1>0, <1>8, RunKinds DEF MarkActed, At, Suspending
  <2> QED
    BY <1>4, <1>8, <2>1 DEF MarkActed
<1>9. CASE UNCHANGED finding
  BY <1>9 DEF Dated
<1>10. ASSUME NEW p \in Processes, StartRun(p) \/ RunSync(p) \/ Crash(p)
       PROVE  Dated'
  BY <1>4, <1>5, <1>6, <1>7, <1>8, <1>9, <1>10
     DEF StartRun, RunSync, Crash, FindDue, RunNow, TakeLock, ReadDirectory,
         ReadBadly, ReadFails, JudgeIdentities, CheckLimits, Ignore, Flag,
         Choose, Suspend, RevokeAccess, RevokeFails, RunDone,
         accountVars
<1> QED
  BY <1>9, <1>10, Steps, WorldMoves

(***************************************************************************)
(* docs/directory-sync.md:104, "Absence must persist past graceHours": the *)
(* reopening of a closed finding, which keeps its first date and is what   *)
(* DirectoryReappears shows, is the only way to be suspended early.        *)
(***************************************************************************)
THEOREM AbsencePersistsWhenNew ==
    Spec /\ ClosedStaysClosed => AbsenceMustPersist
<1>1. Init => Dated
  BY DEF Init, Dated, NoFinding
<1>2. TypeOK /\ Grounds /\ Dated /\ [Next]_vars /\ [StaysClosed]_vars => Dated'
  BY DatedStep
<1>3. TypeOK /\ Grounds /\ Dated =>
         [\A p \in Processes : Suspend(p) /\ Grace > 0 =>
             finding[run[p].user].since + Grace <= now]_vars
  <2> SUFFICES ASSUME TypeOK, Grounds, Dated, NEW p \in Processes,
                      Suspend(p), Grace > 0
               PROVE  finding[run[p].user].since + Grace <= now
    OBVIOUS
  <2>1. finding[run[p].user].firstSeen + Grace <= now
    BY DEF Grounds, Sound, Overdue, Suspend, At, Suspending
  <2>2. run[p].user \in Users
    BY RunKinds DEF TypeOK, Suspend, At, Suspending
  <2> QED
    BY <2>1, <2>2 DEF Dated
<1> QED
  BY <1>1, <1>2, <1>3, Grounded, PTL
     DEF Spec, ClosedStaysClosed, StaysClosed, AbsenceMustPersist

(***************************************************************************)
(* While runs do not overlap and no administrator suspends a super admin   *)
(* between a run's check and its write, whoever it has chosen is not the   *)
(* last one.                                                               *)
(***************************************************************************)
NoneMeanwhile ==
    \A e \in Editors, p \in Processes :
        WriteStatus(e) /\ edit[e].user \in Admins /\ edit[e].to = "suspended"
           => ~At(p, "suspend")

LastOf(u, st) == u \in Admins /\ \A v \in Admins \ {u} : st[v] # "active"

Chosen ==
    \A p \in Processes :
        run[p].at = "suspend" => ~LastOf(run[p].user, status)

(***************************************************************************)
(* Only Choose takes a run to its suspension.                              *)
(***************************************************************************)
LEMMA ChooseSuspends ==
    ASSUME TypeOK, NEW p \in Processes, StartRun(p) \/ RunSync(p) \/ Crash(p),
           run'[p].at = "suspend"
    PROVE  \E u \in Users : Choose(p, u)
<1> USE DEF At
<1>0. run \in [Processes -> Runs] /\ run[p] \in Runs
  BY DEF TypeOK
<1>a. ASSUME NEW r, Goto(p, r) PROVE r.at = "suspend"
  <2>1. run'[p] = r
    BY <1>0, <1>a DEF Goto
  <2> QED
    BY <2>1
<1>b. ~Goto(p, Idle) /\ ~Finish(p)
  <2>1. Idle.at # "suspend"
    BY DEF Idle
  <2>2. ~Goto(p, Idle)
    BY <1>a, <2>1
  <2> QED
    BY <2>2 DEF Finish
<1>1. CASE StartRun(p) \/ Crash(p) \/ TakeLock(p)
  <2>1. ASSUME NEW armed, FindDue(p, armed) PROVE FALSE
    <3>1. Goto(p, [at |-> "due", armed |-> armed])
      BY <2>1 DEF FindDue
    <3> QED
      BY <1>a, <3>1
  <2>2. ASSUME NEW armed, RunNow(p, armed) PROVE FALSE
    <3>1. Goto(p, [at |-> "read", armed |-> armed, held |-> FALSE])
      BY <2>2 DEF RunNow
    <3> QED
      BY <1>a, <3>1
  <2>3. ~TakeLock(p)
    BY <1>a, <1>b DEF TakeLock
  <2> QED
    BY <1>b, <1>1, <2>1, <2>2, <2>3 DEF StartRun, Crash
<1>2. CASE ReadDirectory(p) \/ ReadBadly(p) \/ ReadFails(p)
  <2>1. ASSUME NEW d PROVE ~ReadInto(p, d)
    BY <1>a, <1>b DEF ReadInto
  <2> QED
    BY <1>b, <1>2, <2>1 DEF ReadDirectory, ReadBadly, ReadFails
<1>3. ASSUME NEW elsewhere \in SUBSET Users, JudgeIdentities(p, elsewhere)
      PROVE  FALSE
  BY <1>a, <1>3 DEF JudgeIdentities
<1>4. CASE ResolvePresent(p) \/ CheckLimits(p)
  BY <1>a, <1>b, <1>4 DEF ResolvePresent, CheckLimits
<1>5. ASSUME NEW u \in Users, Upsert(p, u)
      PROVE  FALSE
  <2>1. [run[p] EXCEPT !.left = @ \ {u}].at = "upsert"
    BY <1>0, <1>5, RunKinds DEF Upsert
  <2> QED
    BY <1>a, <1>5, <2>1 DEF Upsert
<1>6. ASSUME NEW u \in Users,
             Ignore(p, u) \/ Flag(p, u) \/ SpareLastAdmin(p, u)
      PROVE  FALSE
  <2>1. run[p].at = "act" /\ Goto(p, Past(p, u))
    BY <1>6 DEF Ignore, Flag, SpareLastAdmin
  <2>2. Past(p, u).at = "act"
    BY <1>0, <2>1, RunKinds DEF Past
  <2> QED
    BY <1>a, <2>1, <2>2
<1>7. CASE Suspend(p) \/ RevokeAccess(p)
  <2>1. run[p] \in [at : Suspending, armed : BOOLEAN, held : BOOLEAN,
                    count : Counts, spared : SUBSET Users,
                    left : SUBSET Users, user : Users]
    BY <1>0, <1>7, RunKinds DEF Suspend, RevokeAccess, Suspending
  <2>2. /\ [run[p] EXCEPT !.at = "revoke"].at = "revoke"
        /\ [run[p] EXCEPT !.at = "mark"].at = "mark"
    BY <2>1
  <2> QED
    BY <1>a, <1>7, <2>2 DEF Suspend, RevokeAccess
<1>8. CASE RevokeFails(p) \/ MarkActed(p) \/ RunDone(p)
  BY <1>a, <1>b, <1>8 DEF RevokeFails, MarkActed, RunDone
<1> QED
  BY <1>1, <1>2, <1>3, <1>4, <1>5, <1>6, <1>7, <1>8 DEF RunSync

LEMMA ChosenStep ==
    ASSUME TypeOK, Chosen, OneRunAtATime, [Next]_vars, [NoneMeanwhile]_vars
    PROVE  Chosen'
<1>0. /\ run \in [Processes -> Runs] /\ Admins \subseteq Users
      /\ status \in [Users -> Statuses]
  BY SyncAssumption DEF TypeOK
<1>1. CASE UNCHANGED <<run, status>>
  BY <1>1 DEF Chosen, LastOf
<1>2. ASSUME NEW p \in Processes, StartRun(p) \/ RunSync(p) \/ Crash(p)
      PROVE  Chosen'
  <2>1. ASSUME NEW q \in Processes, q # p, run'[q].at = "suspend"
        PROVE  ~LastOf(run'[q].user, status')
    <3>1. run'[q] = run[q]
      BY <1>2, <2>1, Untouched
    <3>2. ~InRun(run[p])
      BY <2>1, <3>1, Alone DEF InRun
    <3>3. status' = status
      BY <1>2, <3>2, Beginning
    <3> QED
      BY <2>1, <3>1, <3>3 DEF Chosen, LastOf
  <2>2. ASSUME run'[p].at = "suspend"
        PROVE  ~LastOf(run'[p].user, status')
    <3>1. PICK u \in Users : Choose(p, u)
      BY <1>2, <2>2, ChooseSuspends
    <3>2. run'[p].user = u /\ status' = status /\ ~LastAdmin(u)
      BY <1>0, <3>1 DEF Choose, Goto, accountVars
    <3> QED
      BY <3>2 DEF LastAdmin, LastOf
  <2> QED
    BY <2>1, <2>2 DEF Chosen
<1>3. ASSUME NEW e \in Editors, WriteStatus(e)
      PROVE  Chosen'
  <2> DEFINE v == edit[e].user  s == edit[e].to
  <2>0. edit[e] \in Edits /\ edit \in [Editors -> Edits]
    BY DEF TypeOK
  <2>1. /\ run' = run /\ v \in Users /\ s \in Statuses
        /\ \A u \in Users : status'[u] = IF u = v THEN s ELSE status[u]
    BY <1>0, <1>3, <2>0, EditKinds DEF WriteStatus
  <2>2. CASE s = "active" \/ v \notin Admins
    BY <1>0, <2>1, <2>2 DEF Chosen, LastOf
  <2>3. CASE s = "suspended" /\ v \in Admins
    <3>1. edit' # edit
      <4>1. edit'[e].at # "write"
        BY <1>3, <2>0 DEF WriteStatus, Become, Idle
      <4> QED
        BY <1>3, <4>1 DEF WriteStatus
    <3>2. NoneMeanwhile
      BY <3>1 DEF vars, accountVars
    <3>3. \A p \in Processes : ~At(p, "suspend")
      BY <1>3, <2>3, <3>2 DEF NoneMeanwhile
    <3> QED
      BY <2>1, <3>3 DEF Chosen, At
  <2> QED
    BY <2>1, <2>2, <2>3 DEF Statuses
<1> QED
  BY <1>1, <1>2, <1>3, Steps
     DEF LockExpires, World, ChangeDirectory, Tick, vars, accountVars,
         Edit, ReadAccount, RevokeFor, EditStops

(***************************************************************************)
(* Valve 9, "The last active super admin is never suspended": it takes     *)
(* another suspension between the check and the write, by a second run or  *)
(* by an administrator as DirectoryLastAdmin shows.                        *)
(***************************************************************************)
THEOREM AnAdminStaysWithoutOverlap ==
    Spec /\ []OneRunAtATime /\ NoAdminSuspendedMeanwhile => AnAdminStays
<1>1. Init => Chosen
  BY DEF Init, Chosen, Idle
<1>2. TypeOK /\ Chosen /\ OneRunAtATime /\ [Next]_vars /\ [NoneMeanwhile]_vars
         => Chosen'
  BY ChosenStep
<1>3. Chosen =>
         [\A p \in Processes : Suspend(p) => ~LastAdmin(run[p].user)]_vars
  BY DEF Chosen, LastOf, LastAdmin, Suspend, At
<1> QED
  BY <1>1, <1>2, <1>3, TypeCorrect, PTL
     DEF Spec, NoAdminSuspendedMeanwhile, NoneMeanwhile, AnAdminStays
=============================================================================
