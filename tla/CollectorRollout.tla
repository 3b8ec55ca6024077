-------------------------- MODULE CollectorRollout --------------------------
(***************************************************************************)
(* The staged update of the posture collector in one organization          *)
(* (jobs/collectorRollout.js, services/collectorUpdateService.js): the job *)
(* that decides which hosts are offered the update, when a rollout widens, *)
(* halts, is cancelled or is complete; the offers hosts poll for; and the  *)
(* posture reports, the only news of how an update went.                   *)
(*                                                                         *)
(* Time is kept as ages that stop growing once nothing compares them any   *)
(* more, so that the clock has no end.  A pass of the job is short against *)
(* one tick (minutes), and its lock of five minutes covers it.  Of an      *)
(* attempt, age and reportedAt are kept while it is offered only.          *)
(***************************************************************************)
EXTENDS Naturals, FiniteSets

CONSTANTS
    Servers,       \* servers of the organization a collector can run on
    Targets,       \* collector versions an installation may ship, from 1
    Instances,     \* backend processes that run the job
    Stale,         \* of a host whose latest report is old or was refused
    Bucket,        \* bucketFor: the place of a server in a version's order
    CanaryPercent, \* PostureSettings.collectorCanaryPercent
    Grace,         \* VERIFY_GRACE_MS, 45 min
    Dwell,         \* STEP_DWELL_MS, 30 min
    MaxReports,    \* bound on the reports being recorded at a time
    MaxInactive    \* bound on the servers out of service at a time

ASSUME RolloutAssumption ==
    /\ Targets \subseteq Nat \ {0} /\ Stale \notin Nat
    /\ Bucket \in [Targets -> [Servers -> Nat]]
    /\ \A v \in Targets, s, u \in Servers :
          Bucket[v][s] = Bucket[v][u] => s = u
    /\ CanaryPercent \in 1..100
    /\ Grace \in Nat /\ Dwell \in Nat

VARIABLES
    auto,     \* PostureSettings.collectorAutoUpdate
    shipped,  \* POSTURE_COLLECTOR_VERSION of the running installation
    active,   \* servers with Server.isActive
    latest,   \* version in the latest snapshot, Stale when that is old
    rollout,  \* the CollectorRollout row of each version
    attempt,  \* the CollectorUpdateAttempt row of each version and server
    report,   \* recordReportedVersion in flight for each server
    lock,     \* the redis key of withLock is set
    pass      \* local state of the job in each instance

dbVars == <<rollout, attempt>>
hostVars == <<latest, report>>
vars == <<auto, shipped, active, hostVars, dbVars, lock, pass>>

NoRollout == [status |-> "none", percent |-> 0, stepAge |-> Dwell]
Attempt(status) == [status |-> status, age |-> 0, reported |-> FALSE]
NoReport == [verdict |-> "none"]
Idle == [at |-> "idle"]

Versions == Targets \cup {0}
Percents == {10, 25, 50, 100}                              \* PERCENT_STEPS
RolloutStatuses == {"none", "rolling", "halted", "complete", "cancelled"}
AttemptStatuses ==
    {"none", "offered", "verified", "rolled_back", "failed", "cancelled"}

TypeOK ==
    /\ auto \in BOOLEAN /\ shipped \in Targets /\ active \subseteq Servers
    /\ latest \in [Servers -> Versions \cup {Stale}]
    /\ rollout \in [Targets -> [status : RolloutStatuses, percent : 0..100,
                                stepAge : 0..Dwell]]
    /\ attempt \in [Targets -> [Servers ->
            [status : AttemptStatuses, age : 0..(Grace + 1),
             reported : BOOLEAN]]]
    /\ report \in [Servers ->
            {NoReport} \cup [verdict : {"verified", "waiting", "rolled_back"},
                             of : Targets]]
    /\ lock \in BOOLEAN
    /\ pass \in [Instances ->
            {Idle} \cup [at : {"settings"}]
            \cup [at : {"judge", "health"}, of : Targets]
            \cup [at : {"offer"}, of : Targets, step : 1..100,
                  left : SUBSET Servers, made : SUBSET Servers]]

Init ==
    /\ auto = TRUE /\ shipped \in Targets /\ active = Servers
    /\ latest = [s \in Servers |-> 0]
    /\ rollout = [v \in Targets |-> NoRollout]
    /\ attempt = [v \in Targets |-> [s \in Servers |-> Attempt("none")]]
    /\ report = [s \in Servers |-> NoReport]
    /\ lock = FALSE
    /\ pass = [i \in Instances |-> Idle]

-----------------------------------------------------------------------------
At(i, where) == pass[i].at = where

Goto(i, p) == pass' = [pass EXCEPT ![i] = p]

\* The pass is over: the lock's key is deleted, whoever set it last.
Finish(i) == Goto(i, Idle) /\ lock' = FALSE

Rolling(v) == rollout[v].status = "rolling"

With(v, status) == {s \in Servers : attempt[v][s].status = status}

Attempted(v) == Servers \ With(v, "none")

Failures(v) == With(v, "failed") \cup With(v, "rolled_back")

Judged(v) == Failures(v) \cup With(v, "verified")

\* Mutant: more than two failures are needed.
FarTooManyFailures(v) == Cardinality(Failures(v)) > 2

\* MIN_FAILURES_TO_HALT is 2 and MAX_FAILURE_RATE a fifth.
TooManyFailures(v) ==
    /\ Cardinality(Failures(v)) >= 2
    /\ 5 * Cardinality(Failures(v)) > Cardinality(Judged(v))

\* Servers that could take version v now: reporting, on an older version.
CandidatesFor(v) ==
    {s \in active : latest[s] # Stale /\ latest[s] < v}

CohortSize(total, percent) == (total * percent + 99) \div 100

LeastPercent(S) == CHOOSE p \in S : \A q \in S : p <= q

\* Mutant: steps are computed, not taken from the list.
TripledPercent(percent) ==
    IF percent = 0 THEN CanaryPercent
    ELSE IF percent >= 100 THEN 0
    ELSE 3 * percent

\* The step after `percent`; 0 when there is nowhere further.
NextPercent(percent) ==
    IF percent = 0 THEN CanaryPercent
    ELSE IF percent >= 100 THEN 0
    ELSE LeastPercent({p \in Percents : p > percent})

\* The first n of S in the order of version v.
First(S, n, v) ==
    {s \in S : Cardinality({u \in S : Bucket[v][u] < Bucket[v][s]}) < n}

Minus(a, b) == IF a > b THEN a - b ELSE 0

\* The attempts of v whose server is in S get the given status.
Marked(v, S, status) ==
    [attempt EXCEPT ![v] = [s \in Servers |->
        IF s \in S THEN Attempt(status) ELSE @[s]]]

-----------------------------------------------------------------------------
(***************************************************************************)
(* The job.  runRolloutPass visits the organizations with auto-update on,  *)
(* one at a time, each under a lock; advanceOrg reads the settings again.  *)
(***************************************************************************)

\* Mutant: the lock fails open.
AnyLock == TRUE

LockTaken == ~lock

StartPass(i) ==
    /\ At(i, "idle") /\ auto /\ LockTaken
    /\ lock' = TRUE
    /\ Goto(i, [at |-> "settings"])
    /\ UNCHANGED <<auto, shipped, active, hostVars, dbVars>>

\* Mutant: what the rollout still waited for stays offered.
CloseOnly(v, status) ==
    /\ rollout' = [rollout EXCEPT ![v].status = status]
    /\ UNCHANGED attempt

\* closeRollout: the rollout ends and what it still waited for with it.
CloseRollout(v, status) ==
    /\ rollout' = [rollout EXCEPT ![v].status = status]
    /\ attempt' = Marked(v, With(v, "offered"), "cancelled")

\* Mutant: a rollout that ended is started again.
NoneOpen(v) == ~Rolling(v)

NeverStarted(v) == rollout[v].status = "none"

CancelRollout(i) ==
    /\ At(i, "settings")
    /\ \E v \in Targets :
          /\ Rolling(v) /\ (~auto \/ v # shipped)
          /\ CloseRollout(v, "cancelled")
    /\ Finish(i)
    /\ UNCHANGED <<auto, shipped, active, hostVars>>

NothingToDo(i) ==
    /\ At(i, "settings")
    /\ \A v \in Targets : ~Rolling(v)
    /\ auto => CandidatesFor(shipped) = {} \/ ~NeverStarted(shipped)
    /\ Finish(i)
    /\ UNCHANGED <<auto, shipped, active, hostVars, dbVars>>

StartRollout(i) ==
    /\ At(i, "settings") /\ auto
    /\ \A v \in Targets : ~Rolling(v)
    /\ CandidatesFor(shipped) # {} /\ NeverStarted(shipped)
    /\ rollout' = [rollout EXCEPT ![shipped] =
                      [NoRollout EXCEPT !.status = "rolling"]]
    /\ Goto(i, [at |-> "judge", of |-> shipped])
    /\ UNCHANGED <<auto, shipped, active, hostVars, attempt, lock>>

ContinueRollout(i) ==
    /\ At(i, "settings") /\ auto /\ Rolling(shipped)
    /\ \A v \in Targets \ {shipped} : ~Rolling(v)
    /\ Goto(i, [at |-> "judge", of |-> shipped])
    /\ UNCHANGED <<auto, shipped, active, hostVars, dbVars, lock>>

\* Mutant: an offer that was never answered is not judged.
NoneSilent(v) == {}

\* failSilentAttempts: no report at all since the offer, and the grace over.
Silent(v) ==
    {s \in With(v, "offered") :
        attempt[v][s].age > Grace /\ ~attempt[v][s].reported}

\* Servers out of service are withdrawn first, then the silent ones fail.
JudgeAttempts(i) ==
    /\ At(i, "judge")
    /\ LET v == pass[i].of IN
       /\ attempt' = [attempt EXCEPT ![v] = [s \in Servers |->
             IF s \in With(v, "offered") \ active THEN Attempt("cancelled")
             ELSE IF s \in Silent(v) THEN Attempt("failed")
             ELSE @[s]]]
       /\ Goto(i, [at |-> "health", of |-> v])
    /\ UNCHANGED <<auto, shipped, active, hostVars, rollout, lock>>

Halt(i) ==
    /\ At(i, "health") /\ TooManyFailures(pass[i].of)
    /\ CloseRollout(pass[i].of, "halted")
    /\ Finish(i)
    /\ UNCHANGED <<auto, shipped, active, hostVars>>

MayWiden(v) == With(v, "offered") = {} /\ rollout[v].stepAge = Dwell

WaitOrDwell(i) ==
    /\ At(i, "health") /\ ~TooManyFailures(pass[i].of)
    /\ ~MayWiden(pass[i].of)
    /\ Finish(i)
    /\ UNCHANGED <<auto, shipped, active, hostVars, dbVars>>

NowhereFurther(v) ==
    \/ CandidatesFor(v) = {} /\ Attempted(v) # {}
    \/ NextPercent(rollout[v].percent) = 0

CompleteRollout(i) ==
    /\ At(i, "health") /\ ~TooManyFailures(pass[i].of)
    /\ LET v == pass[i].of IN
       /\ MayWiden(v) /\ NowhereFurther(v)
       /\ rollout' = [rollout EXCEPT ![v].status = "complete",
                                     ![v].percent = 100]
    /\ Finish(i)
    /\ UNCHANGED <<auto, shipped, active, hostVars, attempt>>

(***************************************************************************)
(* The cohort of the step: the candidates and the servers that had an      *)
(* offer are counted, one that rolled back as both, and it takes up its    *)
(* place in the order although it gets no second offer.                    *)
(***************************************************************************)
ToOffer(v, step) ==
    LET C == CandidatesFor(v)
        seen == Cardinality(Attempted(v))
        want == CohortSize(Cardinality(C) + seen, step)
    IN  First(C, Minus(want, seen), v)

PlanStep(i) ==
    /\ At(i, "health") /\ ~TooManyFailures(pass[i].of)
    /\ LET v == pass[i].of
           step == NextPercent(rollout[v].percent)
       IN  /\ MayWiden(v) /\ ~NowhereFurther(v)
           /\ Goto(i, [at |-> "offer", of |-> v, step |-> step,
                       left |-> ToOffer(v, step), made |-> {}])
    /\ UNCHANGED <<auto, shipped, active, hostVars, dbVars, lock>>

\* A server that has an offer of this rollout keeps it (P2002); one whose
\* offer cannot be written is passed over, and the step counts all the same.
Offer(i) ==
    /\ At(i, "offer")
    /\ LET p == pass[i] IN
       \E s \in First(p.left, 1, p.of) :
          /\ \/ UNCHANGED attempt
             \/ /\ attempt[p.of][s].status = "none"
                /\ attempt' = Marked(p.of, {s}, "offered")
          /\ Goto(i, [p EXCEPT !.left = @ \ {s}, !.made = @ \cup {s}])
    /\ UNCHANGED <<auto, shipped, active, hostVars, rollout, lock>>

RecordStep(i) ==
    /\ At(i, "offer") /\ pass[i].left = {}
    /\ rollout' = [rollout EXCEPT ![pass[i].of].percent = pass[i].step,
                                  ![pass[i].of].stepAge = 0]
    /\ Finish(i)
    /\ UNCHANGED <<auto, shipped, active, hostVars, attempt>>

LockExpires ==
    /\ lock
    /\ \A i \in Instances : At(i, "idle")
    /\ lock' = FALSE
    /\ UNCHANGED <<auto, shipped, active, hostVars, dbVars, pass>>

-----------------------------------------------------------------------------
(***************************************************************************)
(* The hosts.  External: a host that was offered a version may come to run *)
(* it, go back to the one before, or never report again.                   *)
(***************************************************************************)
MayRun(s) == {0} \cup {v \in Targets : s \in Attempted(v)}

\* classifyCollector: no snapshot for three collect intervals.
GoesStale(s) ==
    /\ latest[s] # Stale
    /\ latest' = [latest EXCEPT ![s] = Stale]
    /\ UNCHANGED <<auto, shipped, active, report, dbVars, lock, pass>>

\* What recordReportedVersion makes of a report of version r.
VerdictOn(s, v, r) ==
    IF r >= v THEN "verified"
    ELSE IF attempt[v][s].age < Grace THEN "waiting"
    ELSE "rolled_back"

\* POST /posture: the snapshot is stored and the offered attempt looked up.
Ingest(s, r) ==
    /\ report[s] = NoReport /\ r \in MayRun(s)
    /\ Cardinality({u \in Servers : report[u] # NoReport}) < MaxReports
    /\ latest' = [latest EXCEPT ![s] = r]
    /\ report' =
          LET open == {v \in Targets : attempt[v][s].status = "offered"} IN
          IF open = {} THEN report
          ELSE [report EXCEPT ![s] =
                  LET v == CHOOSE u \in open :      \* the latest offer
                              \A x \in open : attempt[u][s].age
                                                 <= attempt[x][s].age
                  IN  [verdict |-> VerdictOn(s, v, r), of |-> v]]
    /\ UNCHANGED <<auto, shipped, active, dbVars, lock, pass>>

\* The row is updated by its id, whatever became of it since it was read.
RecordReport(s) ==
    /\ report[s] # NoReport
    /\ LET v == report[s].of IN
       attempt' =
          IF report[s].verdict # "waiting"
          THEN Marked(v, {s}, report[s].verdict)
          ELSE [attempt EXCEPT ![v][s].reported =
                   (attempt[v][s].status = "offered")]
    /\ report' = [report EXCEPT ![s] = NoReport]
    /\ UNCHANGED <<auto, shipped, active, latest, rollout, lock, pass>>

-----------------------------------------------------------------------------
\* PUT /api/posture/settings.
SwitchAutoUpdate ==
    /\ auto' = ~auto
    /\ UNCHANGED <<shipped, active, hostVars, dbVars, lock, pass>>

SetServerActive(s) ==
    /\ active' = IF s \in active THEN active \ {s} ELSE active \cup {s}
    /\ Cardinality(Servers \ active') <= MaxInactive
    /\ UNCHANGED <<auto, shipped, hostVars, dbVars, lock, pass>>

\* The processes stop where they are and come back, maybe as another
\* release; a lock they held stays until it expires.
Restart ==
    /\ shipped' \in Targets
    /\ pass' = [i \in Instances |-> Idle]
    /\ report' = [s \in Servers |-> NoReport]
    /\ UNCHANGED <<auto, active, latest, dbVars, lock>>

\* One tick; no pass takes that long.
Tick ==
    /\ \A i \in Instances : At(i, "idle")
    /\ attempt' = [v \in Targets |-> [s \in Servers |->
          IF attempt[v][s].status # "offered" \/ attempt[v][s].age > Grace
          THEN attempt[v][s]
          ELSE [attempt[v][s] EXCEPT !.age = @ + 1]]]
    /\ rollout' = [v \in Targets |->
          IF rollout[v].stepAge = Dwell THEN rollout[v]
          ELSE [rollout[v] EXCEPT !.stepAge = @ + 1]]
    /\ UNCHANGED <<auto, shipped, active, hostVars, lock, pass>>

AdvanceOrg(i) ==
    \/ CancelRollout(i) \/ NothingToDo(i) \/ StartRollout(i)
    \/ ContinueRollout(i) \/ JudgeAttempts(i) \/ Halt(i) \/ WaitOrDwell(i)
    \/ CompleteRollout(i) \/ PlanStep(i) \/ Offer(i) \/ RecordStep(i)

Host(s) == GoesStale(s) \/ \E r \in Versions : Ingest(s, r)

Next ==
    \/ \E i \in Instances : StartPass(i) \/ AdvanceOrg(i)
    \/ \E s \in Servers : Host(s) \/ RecordReport(s) \/ SetServerActive(s)
    \/ LockExpires \/ SwitchAutoUpdate \/ Restart \/ Tick

Spec == Init /\ [][Next]_vars

(***************************************************************************)
(* The job runs every few minutes and its processes are not killed in the  *)
(* same place for ever; a lock nobody holds expires, and a report that     *)
(* came in is recorded.  Nothing is assumed of the hosts or of the         *)
(* administrator.                                                          *)
(***************************************************************************)
Fairness ==
    /\ WF_vars(\E i \in Instances : StartPass(i))
    /\ WF_vars(\E i \in Instances : AdvanceOrg(i))
    /\ SF_vars(\E i \in Instances : ContinueRollout(i))
    /\ SF_vars(\E i \in Instances : JudgeAttempts(i))
    /\ SF_vars(\E i \in Instances : Halt(i))
    /\ \A s \in Servers : WF_vars(RecordReport(s))
    /\ WF_vars(LockExpires) /\ SF_vars(Tick)

FairSpec == Spec /\ Fairness

-----------------------------------------------------------------------------
(***************************************************************************)
(* collectorRollout.js: a rollout widens on evidence.  A host is offered   *)
(* an update only by a rollout that is rolling, after its dwell time, and  *)
(* when no host of an earlier step still owes an answer: neither a crash   *)
(* between the offers and the record of the step nor a second instance     *)
(* runs two steps into one.                                                *)
(***************************************************************************)
OneStepAtATime ==
    [][\A v \in Targets : With(v, "none") # With(v, "none")' =>
          /\ Rolling(v) /\ rollout[v].stepAge = Dwell
          /\ \E i \in Instances :
                At(i, "offer") /\ With(v, "offered") \subseteq pass[i].made
      ]_vars

(***************************************************************************)
(* collectorRollout.js:157-160: a rollout that ended, halted above all, is *)
(* a decision waiting for a person; no later tick starts it again, and no  *)
(* host gets an offer of it.                                               *)
(***************************************************************************)
EndedIsFinal ==
    [][\A v \in Targets :
          rollout[v].status \notin {"none", "rolling"} =>
             rollout'[v].status = rollout[v].status
                /\ With(v, "none")' = With(v, "none")]_vars

(***************************************************************************)
(* closeRollout's comment: no attempt stays offered in a rollout that is   *)
(* over, where nothing would ever look at it again, not even one whose     *)
(* report was being recorded when the rollout ended.                       *)
(***************************************************************************)
NothingOfferedAfterEnd ==
    \A v \in Targets : ~Rolling(v) => With(v, "offered") = {}

(***************************************************************************)
(* failSilentAttempts: while auto-update stays on, a host that was offered *)
(* the update and never reports again is judged, whatever the other hosts  *)
(* and the processes do.                                                   *)
(***************************************************************************)
SilentIsJudged ==
    <>[]auto =>
        \A v \in Targets, s \in Servers :
            []<>(~(attempt[v][s].status = "offered"
                      /\ ~attempt[v][s].reported))

(***************************************************************************)
(* docs/collector-updates.md:102: a rollout in which at least two hosts,   *)
(* and more than 20% of those judged, came back wrong or not at all ends,  *)
(* and no crash, stuck lock or other step of the job keeps it rolling.     *)
(***************************************************************************)
BadRolloutEnds ==
    LET Bad(v) == {s \in Servers :
                      attempt[v][s].status \in {"failed", "rolled_back"}}
        Good(v) == {s \in Servers : attempt[v][s].status = "verified"}
    IN  <>[]auto => \A v \in Targets :
            []<>(Rolling(v) =>
                    \/ Cardinality(Bad(v)) < 2
                    \/ Cardinality(Good(v)) >= 4 * Cardinality(Bad(v)))

(***************************************************************************)
(* docs/collector-updates.md:139: turned off, "any rollout in progress is  *)
(* cancelled on the next tick".                                            *)
(***************************************************************************)
TurnedOffIsCancelled ==
    <>[]~auto => []<>(\A v \in Targets : ~Rolling(v))

(***************************************************************************)
(* collectorUpdateService.js:229-234: a host that took the update and then *)
(* went silent is judged, also when it reported once in the grace period.  *)
(***************************************************************************)
SilenceIsJudged ==
    <>[]auto =>
        \A v \in Targets, s \in Servers :
            []<>(attempt[v][s].status # "offered" \/ report[s] # NoReport)

(***************************************************************************)
(* collectorRollout.js:236: a rollout is complete with nothing left to     *)
(* offer.                                                                  *)
(***************************************************************************)
CompleteLeavesNobody ==
    [][\A v \in Targets :
          rollout'[v].status = "complete" /\ Rolling(v) =>
             CandidatesFor(v) \subseteq Attempted(v)]_vars

(***************************************************************************)
(* docs/collector-updates.md:121: "The blast radius of anything the host   *)
(* cannot catch is bounded by the canary step": no host beyond the canary  *)
(* is offered a version nobody has verified yet.                           *)
(***************************************************************************)
CanaryBoundsDamage ==
    \A v \in Targets :
        With(v, "verified") \cup With(v, "cancelled") = {} =>
            Cardinality(Attempted(v))
                <= CohortSize(Cardinality(Servers), CanaryPercent)
=============================================================================
