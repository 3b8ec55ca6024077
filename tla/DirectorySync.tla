--------------------------- MODULE DirectorySync ---------------------------
(***************************************************************************)
(* Reconciling the accounts of one sign-in provider with its directory     *)
(* (services/directory/directorySyncService.js, jobs/directorySync.js): a  *)
(* run reads the directory, opens or resolves a finding for every account  *)
(* and suspends, with the whole cascade of revocations, those whose        *)
(* absence has lasted, unless one of the safety valves stops it.           *)
(*                                                                         *)
(* A run is started by the job, under a redis lock, or by "Run now"; what  *)
(* it read is kept in run[p], and every await is a point where another     *)
(* run, an administrator or a crash may come in between.                   *)
(***************************************************************************)
EXTENDS Naturals, FiniteSets

CONSTANTS
    Users,       \* human accounts with an identity of this provider
    Linked,      \* of these, the identities with a directory id (externalId)
    Mailed,      \* those with an e-mail, where the directory has e-mails
    Staff,       \* those the directory vouches for all the time
    Admins,      \* the super admins
    Locals,      \* number of other active accounts, none a super admin
    Processes,   \* HTTP handlers and job workers that can be in a run
    Editors,     \* HTTP handlers that can be in updateUser
    Grace,       \* DirectorySync.graceHours, in ticks
    MaxCount,    \* DirectorySync.maxSuspendCount
    MaxPercent,  \* DirectorySync.maxSuspendPercent
    MaxBadReads, \* bound on the times the directory is read incompletely
    MaxTime      \* bound on the clock

ASSUME SyncAssumption ==
    /\ IsFiniteSet(Users) /\ IsFiniteSet(Processes)
    /\ Linked \subseteq Users /\ Mailed \subseteq Users
    /\ Staff \subseteq Users /\ Admins \subseteq Users
    /\ Locals \in Nat /\ Grace \in Nat
    /\ MaxCount \in Nat \ {0} /\ MaxPercent \in 1..100
    /\ MaxBadReads \in Nat /\ MaxTime \in Nat

VARIABLES
    now,        \* the clock
    directory,  \* what the directory says of every user
    badReads,   \* number of incomplete reads so far (history)
    status,     \* User.status
    cutOff,     \* users who lost all access since they were last active:
                \* tokens, requests, certificates, sessions, terminals
    edit,       \* local state of updateUser in each of its handlers
    finding,    \* the DirectorySyncFinding row of every user
    lastGood,   \* directoryCount of the last DirectorySyncRun that was ok
    lock,       \* the redis key of withLock is set
    run         \* local state of the run in each process

worldVars == <<directory, badReads>>
accountVars == <<status, cutOff, edit>>
vars == <<now, worldVars, accountVars, finding, lastGood, lock, run>>

Times == 0..MaxTime
Entries == {"enabled", "disabled", "absent"}
Statuses == {"active", "suspended"}
Idle == [at |-> "idle"]
NoFinding == [status |-> "none", firstSeen |-> 0, since |-> 0]
Findings == [status : {"none", "open", "resolved", "ignored", "acted"},
             firstSeen : Times, since : Times]

(***************************************************************************)
(* The locals of a run, which it has only from a certain point on: whether *)
(* it holds the lock, what it read, whom it is about to judge, and the one *)
(* it is suspending.                                                       *)
(***************************************************************************)
Suspending == {"suspend", "revoke", "mark"}
Counts == 0..Cardinality(Users)
Runs ==
    {Idle}
    \cup [at : {"due"}, armed : BOOLEAN]
    \cup [at : {"read"}, armed : BOOLEAN, held : BOOLEAN]
    \cup [at : {"judge"}, armed : BOOLEAN, held : BOOLEAN,
          read : [Users -> Entries]]
    \cup [at : {"resolve"}, armed : BOOLEAN, held : BOOLEAN, count : Counts,
          present : SUBSET Users, found : SUBSET Users,
          spared : SUBSET Users]
    \cup [at : {"upsert"}, armed : BOOLEAN, held : BOOLEAN, count : Counts,
          found : SUBSET Users, left : SUBSET Users, spared : SUBSET Users]
    \cup [at : {"act"}, armed : BOOLEAN, held : BOOLEAN, count : Counts,
          spared : SUBSET Users, left : SUBSET Users]
    \cup [at : Suspending, armed : BOOLEAN, held : BOOLEAN, count : Counts,
          spared : SUBSET Users, left : SUBSET Users, user : Users]

Edits ==
    {Idle}
    \cup [at : {"write"}, user : Users, to : Statuses]
    \cup [at : {"revoke"}, user : Users]

TypeOK ==
    /\ now \in Times /\ badReads \in 0..MaxBadReads
    /\ directory \in [Users -> Entries]
    /\ status \in [Users -> Statuses]
    /\ cutOff \subseteq Users /\ edit \in [Editors -> Edits]
    /\ finding \in [Users -> Findings]
    /\ lastGood \in Counts
    /\ lock \in BOOLEAN
    /\ run \in [Processes -> Runs]

Init ==
    /\ now = 0 /\ badReads = 0
    /\ directory = [u \in Users |-> "enabled"]
    /\ status = [u \in Users |-> "active"] /\ cutOff = {}
    /\ edit = [e \in Editors |-> Idle]
    /\ finding = [u \in Users |-> NoFinding] /\ lastGood = 0
    /\ lock = FALSE
    /\ run = [p \in Processes |-> Idle]

-----------------------------------------------------------------------------
At(p, where) == run[p].at = where

Goto(p, r) == run' = [run EXCEPT ![p] = r]

Listed(d) == {u \in Users : d[u] # "absent"}

\* A run is over: the key is deleted if the run is one of the job.
Finish(p) ==
    /\ lock' = IF run[p].held THEN FALSE ELSE lock
    /\ Goto(p, Idle)

(***************************************************************************)
(* How a run starts.  The job reads the rows of the active syncs that are  *)
(* due and takes the lock later; "Run now" does not look at the lock.  The *)
(* settings are read only here: a run is armed when action is "suspend"    *)
(* and dryRun is off.                                                      *)
(* The interval of the sync is left out: it may be due at any time.        *)
(***************************************************************************)
FindDue(p, armed) ==
    /\ At(p, "idle")
    /\ Goto(p, [at |-> "due", armed |-> armed])
    /\ UNCHANGED <<now, worldVars, accountVars, finding, lastGood, lock>>

LockFree == ~lock

TakeLock(p) ==
    /\ At(p, "due")
    /\ IF LockFree
       THEN /\ lock' = TRUE
            /\ Goto(p, [at |-> "read", armed |-> run[p].armed, held |-> TRUE])
       ELSE Goto(p, Idle) /\ UNCHANGED lock
    /\ UNCHANGED <<now, worldVars, accountVars, finding, lastGood>>

RunNow(p, armed) ==
    /\ At(p, "idle")
    /\ Goto(p, [at |-> "read", armed |-> armed, held |-> FALSE])
    /\ UNCHANGED <<now, worldVars, accountVars, finding, lastGood, lock>>

-----------------------------------------------------------------------------
\* Valves 2 and 3: an empty directory, and one that lost more than half.
Distrusted(d) ==
    \/ Listed(d) = {}
    \/ 2 * Cardinality(Listed(d)) < lastGood

ReadInto(p, d) ==
    IF Distrusted(d) THEN Finish(p)
    ELSE /\ Goto(p, [at |-> "judge", armed |-> run[p].armed,
                     held |-> run[p].held, read |-> d])
         /\ UNCHANGED lock

ReadDirectory(p) ==
    /\ At(p, "read")
    /\ ReadInto(p, directory)
    /\ UNCHANGED <<now, worldVars, accountVars, finding, lastGood>>

\* Paging broke off, or permissions changed: entries are missing.
ReadBadly(p) ==
    /\ At(p, "read") /\ badReads < MaxBadReads
    /\ badReads' = badReads + 1
    /\ \E lost \in SUBSET Listed(directory) \ {{}} :
          ReadInto(p, [u \in Users |->
                          IF u \in lost THEN "absent" ELSE directory[u]])
    /\ UNCHANGED <<now, directory, accountVars, finding, lastGood>>

\* Valve 1: the credential is tested first; a failure ends the run.
ReadFails(p) ==
    /\ At(p, "read")
    /\ Finish(p)
    /\ UNCHANGED <<now, worldVars, accountVars, finding, lastGood>>

\* An identity is matched by its directory id or else by its e-mail, and one
\* that matches no entry is absent to the run, also where the person is in
\* the directory under another e-mail.  Only an identity that has neither to
\* be matched by is not judged.
Known == Linked \cup Mailed

Candidates(d) == {u \in Known : d[u] # "enabled"}

\* Valve 4: only active accounts, through their identity of this provider.
\* Those linked to another active provider are looked up only here (SSO is
\* external): any may be.
JudgeIdentities(p, elsewhere) ==
    /\ At(p, "judge")
    /\ LET r == run[p]
           judged == {u \in Users : status[u] = "active"}
       IN  Goto(p, [at |-> "resolve", armed |-> r.armed, held |-> r.held,
                    count |-> Cardinality(Listed(r.read)),
                    present |-> {u \in judged \cap Known :
                                    r.read[u] = "enabled"},
                    found |-> judged \cap Candidates(r.read),
                    spared |-> elsewhere])
           /\ elsewhere \subseteq judged \cap Candidates(r.read)
    /\ UNCHANGED <<now, worldVars, accountVars, finding, lastGood, lock>>

\* Those who turned up again close their open findings.
ResolvePresent(p) ==
    /\ At(p, "resolve")
    /\ finding' = [u \in Users |->
          IF u \in run[p].present /\ finding[u].status = "open"
          THEN [finding[u] EXCEPT !.status = "resolved"] ELSE finding[u]]
    /\ LET r == run[p] IN
       Goto(p, [at |-> "upsert", armed |-> r.armed, held |-> r.held,
                count |-> r.count, found |-> r.found, left |-> r.found,
                spared |-> r.spared])
    /\ UNCHANGED <<now, worldVars, accountVars, lastGood, lock>>

\* Mutant: the row keeps the end of the period and not its beginning.
OpenedUntil(f) ==
    [status |-> "open", firstSeen |-> now + Grace, since |-> now]

\* firstSeenAt is set once; `since` is history: when the finding was last
\* opened.
Opened(f) ==
    [status |-> "open",
     firstSeen |-> IF f.status = "none" THEN now ELSE f.firstSeen,
     since |-> IF f.status = "open" THEN f.since ELSE now]

Upsert(p, u) ==
    /\ At(p, "upsert") /\ u \in run[p].left
    /\ finding' = [finding EXCEPT ![u] = Opened(@)]
    /\ Goto(p, [run[p] EXCEPT !.left = @ \ {u}])
    /\ UNCHANGED <<now, worldVars, accountVars, lastGood, lock>>

\* Valve 8; below three candidates no percentage is looked at, and it is
\* rounded to the nearest before it is compared.
OverLimit(n) ==
    LET active == Locals + Cardinality({u \in Users : status[u] = "active"})
    IN  \/ n > MaxCount
        \/ n > 2 /\ active > 0 /\ 200 * n >= (2 * MaxPercent + 1) * active

\* Mutant: the grace period is an hour short.
LastingLoose(u) == finding[u].firstSeen + Grace <= now + 1

\* Mutant: whoever was missed before is missed for good.
AnyAbsence(u) == finding[u].status = "open"

\* Valve 7.
Lasting(u) == Grace = 0 \/ finding[u].firstSeen + Grace <= now

CheckLimits(p) ==
    /\ At(p, "upsert") /\ run[p].left = {}
    /\ LET r == run[p] IN
       IF OverLimit(Cardinality(r.found)) THEN Finish(p)
       ELSE /\ Goto(p, [at |-> "act", armed |-> r.armed, held |-> r.held,
                        count |-> r.count, spared |-> r.spared,
                        left |-> {u \in r.found : Lasting(u)}])
            /\ UNCHANGED lock
    /\ UNCHANGED <<now, worldVars, accountVars, finding, lastGood>>

-----------------------------------------------------------------------------
Past(p, u) == [run[p] EXCEPT !.at = "act", !.left = @ \ {u}]

\* Valve 6, as it was when the accounts were judged.
Ignore(p, u) ==
    /\ At(p, "act") /\ u \in run[p].left \cap run[p].spared
    /\ finding' = [finding EXCEPT ![u].status = "ignored"]
    /\ Goto(p, Past(p, u))
    /\ UNCHANGED <<now, worldVars, accountVars, lastGood, lock>>

\* Valve 10: a dry run, or action "flag".
Flag(p, u) ==
    /\ At(p, "act") /\ u \in run[p].left \ run[p].spared
    /\ ~run[p].armed
    /\ Goto(p, Past(p, u))
    /\ UNCHANGED <<now, worldVars, accountVars, finding, lastGood, lock>>

\* Valve 9.
LastAdmin(u) ==
    u \in Admins /\ \A v \in Admins \ {u} : status[v] # "active"

SpareLastAdmin(p, u) ==
    /\ At(p, "act") /\ u \in run[p].left \ run[p].spared
    /\ run[p].armed /\ LastAdmin(u)
    /\ finding' = [finding EXCEPT ![u].status = "open",
                                  ![u].since =
                      IF finding[u].status = "open" THEN @ ELSE now]
    /\ Goto(p, Past(p, u))
    /\ UNCHANGED <<now, worldVars, accountVars, lastGood, lock>>

Choose(p, u) ==
    /\ At(p, "act") /\ u \in run[p].left \ run[p].spared
    /\ run[p].armed /\ ~LastAdmin(u)
    /\ LET r == run[p] IN
       Goto(p, [at |-> "suspend", armed |-> r.armed, held |-> r.held,
                count |-> r.count, spared |-> r.spared, left |-> r.left,
                user |-> u])
    /\ UNCHANGED <<now, worldVars, accountVars, finding, lastGood, lock>>

\* The account is updated by its id, whatever its status has become.
Suspend(p) ==
    /\ At(p, "suspend")
    /\ status' = [status EXCEPT ![run[p].user] = "suspended"]
    /\ Goto(p, [run[p] EXCEPT !.at = "revoke"])
    /\ UNCHANGED <<now, worldVars, cutOff, edit, finding, lastGood, lock>>

\* revokeAllAccessFor, whose parts are in AccessRequests and
\* TerminalSessions.  That live terminals could not be ended is only logged:
\* the run goes on, and some access is left.
RevokeAccess(p) ==
    /\ At(p, "revoke")
    /\ cutOff' \in {cutOff, cutOff \cup {run[p].user}}
    /\ Goto(p, [run[p] EXCEPT !.at = "mark"])
    /\ UNCHANGED <<now, worldVars, status, edit, finding, lastGood, lock>>

\* The cascade throws: the run ends there and is not recorded as ok.
RevokeFails(p) ==
    /\ At(p, "revoke")
    /\ Finish(p)
    /\ UNCHANGED <<now, worldVars, accountVars, finding, lastGood>>

MarkActed(p) ==
    /\ At(p, "mark")
    /\ LET r == run[p] IN
       /\ finding' = [finding EXCEPT ![r.user].status = "acted"]
       /\ Goto(p, [at |-> "act", armed |-> r.armed, held |-> r.held,
                   count |-> r.count, spared |-> r.spared,
                   left |-> r.left \ {r.user}])
    /\ UNCHANGED <<now, worldVars, accountVars, lastGood, lock>>

RunDone(p) ==
    /\ At(p, "act") /\ run[p].left = {}
    /\ lastGood' = run[p].count
    /\ Finish(p)
    /\ UNCHANGED <<now, worldVars, accountVars, finding>>

-----------------------------------------------------------------------------
Crash(p) ==
    /\ ~At(p, "idle")
    /\ Goto(p, Idle)
    /\ UNCHANGED <<now, worldVars, accountVars, finding, lastGood, lock>>

Holders == {p \in Processes : ~At(p, "idle") /\ ~At(p, "due") /\ run[p].held}

\* The lock is comfortably longer than a run.
LockExpires ==
    /\ lock /\ Holders = {}
    /\ lock' = FALSE
    /\ UNCHANGED <<now, worldVars, accountVars, finding, lastGood, run>>

\* External: people join, leave and are disabled in the directory.
ChangeDirectory(u, e) ==
    /\ u \notin Staff /\ directory[u] # e
    /\ directory' = [directory EXCEPT ![u] = e]
    /\ UNCHANGED <<now, badReads, accountVars, finding, lastGood, lock, run>>

(***************************************************************************)
(* userService.updateUser: an administrator suspends an account or takes   *)
(* it back.  The account and the number of super admins are read, the      *)
(* status is written by id, and the cascade follows once the audit row is  *)
(* written; a request to suspend who is suspended changes nothing.         *)
(***************************************************************************)
Become(e, r) == edit' = [edit EXCEPT ![e] = r]

ReadAccount(e, u, s) ==
    /\ edit[e] = Idle /\ status[u] # s
    /\ s = "active" \/ ~LastAdmin(u)
    /\ Become(e, [at |-> "write", user |-> u, to |-> s])
    /\ UNCHANGED <<now, worldVars, status, cutOff, finding, lastGood, lock,
                   run>>

WriteStatus(e) ==
    /\ edit[e].at = "write"
    /\ LET u == edit[e].user  s == edit[e].to IN
       /\ status' = [status EXCEPT ![u] = s]
       /\ IF s = "active"
          THEN cutOff' = cutOff \ {u} /\ Become(e, Idle)
          ELSE UNCHANGED cutOff /\ Become(e, [at |-> "revoke", user |-> u])
    /\ UNCHANGED <<now, worldVars, finding, lastGood, lock, run>>

RevokeFor(e) ==
    /\ edit[e].at = "revoke"
    /\ cutOff' = cutOff \cup {edit[e].user}
    /\ Become(e, Idle)
    /\ UNCHANGED <<now, worldVars, status, finding, lastGood, lock, run>>

\* A statement throws, the process stops, or live terminals are left.
EditStops(e) ==
    /\ edit[e] # Idle
    /\ Become(e, Idle)
    /\ UNCHANGED <<now, worldVars, status, cutOff, finding, lastGood, lock,
                   run>>

Edit(e) ==
    \/ \E u \in Users, s \in Statuses : ReadAccount(e, u, s)
    \/ WriteStatus(e) \/ RevokeFor(e) \/ EditStops(e)

\* Hours against the minutes of a run or a request.
Tick ==
    /\ now < MaxTime
    /\ \A p \in Processes : At(p, "idle")
    /\ \A e \in Editors : edit[e] = Idle
    /\ now' = now + 1
    /\ UNCHANGED <<worldVars, accountVars, finding, lastGood, lock, run>>

RunSync(p) ==
    \/ TakeLock(p) \/ ReadDirectory(p) \/ ReadBadly(p) \/ ReadFails(p)
    \/ \E elsewhere \in SUBSET Users : JudgeIdentities(p, elsewhere)
    \/ ResolvePresent(p)
    \/ \E u \in Users : Upsert(p, u)
    \/ CheckLimits(p)
    \/ \E u \in Users :
          Ignore(p, u) \/ Flag(p, u) \/ SpareLastAdmin(p, u) \/ Choose(p, u)
    \/ Suspend(p) \/ RevokeAccess(p) \/ RevokeFails(p) \/ MarkActed(p)
    \/ RunDone(p)

World ==
    \/ \E u \in Users, e \in Entries : ChangeDirectory(u, e)
    \/ \E e \in Editors : Edit(e)
    \/ Tick

Next ==
    \/ \E p \in Processes :
          \/ \E armed \in BOOLEAN : FindDue(p, armed) \/ RunNow(p, armed)
          \/ RunSync(p) \/ Crash(p)
    \/ LockExpires
    \/ World

Spec == Init /\ [][Next]_vars

-----------------------------------------------------------------------------
(***************************************************************************)
(* schema.prisma:1920 "so a single bad directory read cannot suspend a     *)
(* soul": an account its directory vouched for all the time is not         *)
(* suspended by a run, whatever one incomplete read left out, whichever    *)
(* runs overlap or stop half-way.                                          *)
(***************************************************************************)
BadReadIsHarmless ==
    [][\A p \in Processes :
          Suspend(p) /\ badReads <= 1 => run[p].user \notin Staff]_vars

(***************************************************************************)
(* Valve 7, directorySyncService.js:31 "so one bad read cannot suspend     *)
(* anyone": whoever is suspended has a finding that was first made the     *)
(* grace period before, whatever other runs and administrators did between *)
(* the run's look at the findings and its write.                           *)
(***************************************************************************)
NoHastySuspension ==
    [][\A p \in Processes : Suspend(p) =>
          LET u == run[p].user IN
          /\ finding[u].status # "none"
          /\ Grace > 0 => finding[u].firstSeen + Grace <= now]_vars

(***************************************************************************)
(* jobs/directorySync.js:54: the lock does not fail open; two runs of the  *)
(* job never act on the same accounts at the same time.                    *)
(***************************************************************************)
JobRunsAlone ==
    Cardinality(Holders) <= 1

(***************************************************************************)
(* Valve 7, docs/directory-sync.md:104: "Absence must persist past         *)
(* graceHours before anything happens": somebody who reappeared gets a new *)
(* grace period when he is missed again.                                   *)
(***************************************************************************)
AbsenceMustPersist ==
    [][\A p \in Processes : Suspend(p) /\ Grace > 0 =>
          finding[run[p].user].since + Grace <= now]_vars

(***************************************************************************)
(* Valve 9: "The last active super admin is never suspended".              *)
(***************************************************************************)
AnAdminStays ==
    [][\A p \in Processes : Suspend(p) => ~LastAdmin(run[p].user)]_vars

(***************************************************************************)
(* docs/directory-sync.md:100, "A user whose directory id is unknown is    *)
(* never judged": nobody is suspended whose identity has no directory id.  *)
(***************************************************************************)
NullIsNotAbsence ==
    [][\A p \in Processes : Suspend(p) => run[p].user \in Linked]_vars

(***************************************************************************)
(* userService.js:588 "an account that is no longer allowed in must also   *)
(* lose its signed certificates and standing access requests": who is      *)
(* suspended, by a run or an administrator, has lost all access, or        *)
(* somebody is still at it.                                                *)
(***************************************************************************)
InHand(u) ==
    \/ \E p \in Processes : At(p, "revoke") /\ run[p].user = u
    \/ \E e \in Editors : edit[e].at = "revoke" /\ edit[e].user = u

SuspendedIsCutOff ==
    \A u \in Users :
        status[u] = "suspended" /\ u \notin cutOff => InHand(u)

(***************************************************************************)
(* jobs/directorySync.js:9 "Every sync holds a Redis lock for the          *)
(* duration".                                                              *)
(***************************************************************************)
OneRunAtATime ==
    Cardinality({p \in Processes : ~At(p, "idle") /\ ~At(p, "due")}) <= 1

-----------------------------------------------------------------------------
(***************************************************************************)
(* Orders of events that nothing in the code rules out; together with      *)
(* OneRunAtATime, hypotheses of DirectorySync_proofs.                      *)
(***************************************************************************)
\* A finding that was closed is not opened again: whoever was resolved,
\* ignored or acted upon is not missed a second time.
ClosedStaysClosed ==
    [][\A u \in Users :
          finding[u].status \in {"resolved", "ignored", "acted"}
             => finding'[u].status # "open"]_vars

\* No administrator suspends a super admin while a run has chosen somebody.
NoAdminSuspendedMeanwhile ==
    [][\A e \in Editors, p \in Processes :
          WriteStatus(e) /\ edit[e].user \in Admins /\ edit[e].to = "suspended"
             => ~At(p, "suspend")]_vars

\* A cascade that was begun ends with all access gone: it does not throw,
\* the process does not stop in it, and live terminals can be ended.
CascadesComplete ==
    [][/\ \A p \in Processes :
             At(p, "revoke") /\ run'[p] # run[p] => run[p].user \in cutOff'
       /\ \A e \in Editors :
             edit[e].at = "revoke" /\ edit'[e] # edit[e]
                => edit[e].user \in cutOff']_vars
=============================================================================
