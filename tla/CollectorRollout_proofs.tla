---------------------- MODULE CollectorRollout_proofs ----------------------
(***************************************************************************)
(* Proofs about CollectorRollout: type correctness, that a rollout which   *)
(* ended stays ended and leaves nothing offered, and that no offer is made *)
(* before the step in front of it was answered.                            *)
(***************************************************************************)
EXTENDS CollectorRollout, TLAPS

AttemptRows == [status : AttemptStatuses, age : 0..(Grace + 1),
                reported : BOOLEAN]
RolloutRows == [status : RolloutStatuses, percent : 0..100,
                stepAge : 0..Dwell]
Verdicts == {"verified", "waiting", "rolled_back"}
Reports == {NoReport} \cup [verdict : Verdicts, of : Targets]

JudgeCalls == [at : {"judge", "health"}, of : Targets]
OfferCalls == [at : {"offer"}, of : Targets, step : 1..100,
               left : SUBSET Servers, made : SUBSET Servers]
Passes == {Idle} \cup [at : {"settings"}] \cup JudgeCalls \cup OfferCalls

LEMMA TypeParts ==
    ASSUME TypeOK
    PROVE  /\ rollout \in [Targets -> RolloutRows]
           /\ attempt \in [Targets -> [Servers -> AttemptRows]]
           /\ report \in [Servers -> Reports]
           /\ pass \in [Instances -> Passes]
  BY DEF TypeOK, AttemptRows, RolloutRows, Reports, Verdicts, Passes,
         JudgeCalls, OfferCalls

(***************************************************************************)
(* Where a pass is tells what it holds.                                    *)
(***************************************************************************)
LEMMA PassKinds ==
    ASSUME TypeOK, NEW i \in Instances
    PROVE  /\ pass[i] \in Passes
           /\ At(i, "judge") \/ At(i, "health") => pass[i] \in JudgeCalls
           /\ At(i, "offer") => pass[i] \in OfferCalls
           /\ At(i, "judge") \/ At(i, "health") \/ At(i, "offer")
                => pass[i].of \in Targets
  BY TypeParts DEF At, Passes, Idle, JudgeCalls, OfferCalls

LEMMA RowTypes ==
    /\ \A status \in AttemptStatuses : Attempt(status) \in AttemptRows
    /\ NoRollout \in RolloutRows
    /\ \A status : Attempt(status).status = status
  BY RolloutAssumption
     DEF Attempt, AttemptRows, NoRollout, RolloutRows, RolloutStatuses

(***************************************************************************)
(* Marked gives some attempts of one version a status.                     *)
(***************************************************************************)
LEMMA MarkedRows ==
    ASSUME TypeOK, NEW v \in Targets, NEW S, NEW status \in AttemptStatuses
    PROVE  /\ Marked(v, S, status) \in [Targets -> [Servers -> AttemptRows]]
           /\ \A u \in Targets, s \in Servers :
                 Marked(v, S, status)[u][s].status =
                    IF u = v /\ s \in S THEN status
                    ELSE attempt[u][s].status
  BY TypeParts, RowTypes DEF Marked

(***************************************************************************)
(* The steps go up to 100 per cent.                                        *)
(***************************************************************************)
LEMMA NextPercentType ==
    ASSUME NEW percent \in 0..100 PROVE NextPercent(percent) \in 0..100
<1>1. CASE percent = 0 \/ percent >= 100
  BY <1>1, RolloutAssumption DEF NextPercent
<1>2. CASE percent > 0 /\ percent < 100
  <2> DEFINE S == {p \in Percents : p > percent}
  <2>1. \E p \in S : \A q \in S : p <= q
    <3>1. CASE percent < 10
      BY <3>1 DEF Percents
    <3>2. CASE percent >= 10 /\ percent < 25
      BY <3>2 DEF Percents
    <3>3. CASE percent >= 25 /\ percent < 50
      BY <3>3 DEF Percents
    <3>4. CASE percent >= 50
      BY <1>2, <3>4 DEF Percents
    <3> QED
      BY <1>2, <3>1, <3>2, <3>3, <3>4
  <2>2. LeastPercent(S) \in S
    BY <2>1 DEF LeastPercent
  <2>3. S \subseteq 0..100
    BY DEF Percents
  <2>4. NextPercent(percent) = LeastPercent(S)
    BY <1>2 DEF NextPercent
  <2> QED
    BY <2>2, <2>3, <2>4
<1> QED
  BY <1>1, <1>2

-----------------------------------------------------------------------------
(***************************************************************************)
(* The invariant.  The lock keeps all but one pass idle, the pass that     *)
(* runs works on the one version that is rolling, and while it makes       *)
(* offers nothing is offered but what it offered itself.                   *)
(***************************************************************************)
OnePass ==
    \A i \in Instances : ~At(i, "idle") =>
        lock /\ \A j \in Instances \ {i} : At(j, "idle")

OneRolling ==
    \A u, v \in Targets : Rolling(u) /\ Rolling(v) => u = v

OnRolling ==
    \A i \in Instances :
        /\ At(i, "judge") \/ At(i, "health") \/ At(i, "offer") =>
              Rolling(pass[i].of)
        /\ At(i, "offer") =>
              /\ rollout[pass[i].of].stepAge = Dwell
              /\ \A s \in Servers :
                    attempt[pass[i].of][s].status = "offered" =>
                       s \in pass[i].made

ReportsAnswer ==
    \A s \in Servers : report[s] # NoReport =>
        attempt[report[s].of][s].status # "none"

OfferedRolling ==
    \A v \in Targets, s \in Servers :
        attempt[v][s].status = "offered" => Rolling(v)

Inv == TypeOK /\ OnePass /\ OneRolling /\ OnRolling /\ ReportsAnswer
         /\ OfferedRolling

(***************************************************************************)
(* What a step does to the attempts unless it makes an offer.              *)
(***************************************************************************)
NoOffer ==
    \A v \in Targets, s \in Servers :
        /\ attempt'[v][s].status = "none" <=> attempt[v][s].status = "none"
        /\ attempt'[v][s].status = "offered" =>
              attempt[v][s].status = "offered"

AllIdle == \A i \in Instances : At(i, "idle")

LEMMA Finished ==
    ASSUME Inv, NEW i \in Instances, ~At(i, "idle"), Finish(i)
    PROVE  /\ \A j \in Instances : pass'[j].at = "idle"
           /\ pass' \in [Instances -> Passes] /\ lock' \in BOOLEAN
<1>1. \A j \in Instances \ {i} : pass[j].at = "idle"
  BY DEF Inv, OnePass, At
<1>2. pass' = [pass EXCEPT ![i] = Idle] /\ lock' = FALSE
  BY DEF Finish, Goto
<1>3. Idle.at = "idle" /\ Idle \in Passes
  BY DEF Idle, Passes
<1>4. pass \in [Instances -> Passes]
  BY TypeParts DEF Inv
<1> QED
  BY <1>1, <1>2, <1>3, <1>4

(***************************************************************************)
(* When no pass is under way afterwards, no offer was made, and what is    *)
(* still offered belongs to the rollout that goes on, the invariant holds. *)
(***************************************************************************)
LEMMA IdleKeepsInv ==
    ASSUME Inv, TypeOK', NoOffer,
           \A i \in Instances : pass'[i].at = "idle",
           \A s \in Servers : report'[s] \in {NoReport, report[s]},
           \A v \in Targets : Rolling(v)' => Rolling(v),
           \A v \in Targets, s \in Servers :
              attempt'[v][s].status = "offered" => Rolling(v)'
    PROVE  Inv'
<1>1. OnePass' /\ OnRolling'
  BY DEF OnePass, OnRolling, At
<1>2. OneRolling'
  BY DEF Inv, OneRolling
<1>3. ReportsAnswer'
  <2> SUFFICES ASSUME NEW s \in Servers, report'[s] # NoReport
               PROVE  attempt'[report'[s].of][s].status # "none"
    BY DEF ReportsAnswer
  <2>1. report[s] # NoReport /\ report[s].of \in Targets
    BY TypeParts DEF Inv, Reports
  <2>2. attempt[report[s].of][s].status # "none"
    BY <2>1 DEF Inv, ReportsAnswer
  <2> QED
    BY <2>1, <2>2 DEF NoOffer
<1>4. OfferedRolling'
  BY DEF OfferedRolling
<1> QED
  BY <1>1, <1>2, <1>3, <1>4 DEF Inv

LEMMA TypeBack ==
    ASSUME auto' \in BOOLEAN, shipped' \in Targets, active' \subseteq Servers,
           latest' \in [Servers -> Versions \cup {Stale}],
           rollout' \in [Targets -> RolloutRows],
           attempt' \in [Targets -> [Servers -> AttemptRows]],
           report' \in [Servers -> Reports], lock' \in BOOLEAN,
           pass' \in [Instances -> Passes]
    PROVE  TypeOK'
  BY DEF TypeOK, AttemptRows, RolloutRows, Reports, Verdicts, Passes,
         JudgeCalls, OfferCalls

(***************************************************************************)
(* closeRollout leaves nothing offered.                                    *)
(***************************************************************************)
LEMMA Closing ==
    ASSUME Inv, NEW v \in Targets, Rolling(v),
           NEW status \in {"cancelled", "halted"}, CloseRollout(v, status)
    PROVE  /\ rollout' \in [Targets -> RolloutRows]
           /\ attempt' \in [Targets -> [Servers -> AttemptRows]]
           /\ NoOffer
           /\ \A u \in Targets : Rolling(u)' => Rolling(u)
           /\ \A u \in Targets, s \in Servers :
                 attempt'[u][s].status = "offered" => Rolling(u)'
<1>1. rollout \in [Targets -> RolloutRows]
  BY TypeParts DEF Inv
<1>2. /\ rollout' \in [Targets -> RolloutRows]
      /\ \A u \in Targets : rollout'[u].status =
            IF u = v THEN status ELSE rollout[u].status
  BY <1>1 DEF CloseRollout, RolloutRows, RolloutStatuses
<1>3. "cancelled" \in AttemptStatuses
  BY DEF AttemptStatuses
<1>4. /\ attempt' \in [Targets -> [Servers -> AttemptRows]]
      /\ \A u \in Targets, s \in Servers : attempt'[u][s].status =
            IF u = v /\ s \in With(v, "offered") THEN "cancelled"
            ELSE attempt[u][s].status
  BY <1>3, MarkedRows DEF CloseRollout, Inv
<1>5. NoOffer
  BY <1>4 DEF NoOffer, With
<1>6. \A u \in Targets : Rolling(u)' => Rolling(u)
  BY <1>2 DEF Rolling
<1>7. \A u \in Targets, s \in Servers :
         attempt'[u][s].status = "offered" => Rolling(u)'
  <2> SUFFICES ASSUME NEW u \in Targets, NEW s \in Servers,
                      attempt'[u][s].status = "offered"
               PROVE  Rolling(u)'
    OBVIOUS
  <2>1. u # v /\ attempt[u][s].status = "offered"
    BY <1>4 DEF With
  <2> QED
    BY <1>2, <2>1 DEF Inv, OfferedRolling, Rolling
<1> QED
  BY <1>2, <1>4, <1>5, <1>6, <1>7

(***************************************************************************)
(* The steps of the job that end its pass.                                 *)
(***************************************************************************)
LEMMA EndingSteps ==
    ASSUME Inv, NEW i \in Instances,
           \/ CancelRollout(i) \/ NothingToDo(i) \/ Halt(i) \/ WaitOrDwell(i)
           \/ CompleteRollout(i) \/ RecordStep(i)
    PROVE  Inv'
<1> USE DEF dbVars, hostVars
<1>0. /\ ~At(i, "idle") /\ Finish(i)
      /\ UNCHANGED <<auto, shipped, active, latest, report>>
  BY DEF CancelRollout, NothingToDo, Halt, WaitOrDwell, CompleteRollout,
         RecordStep, At
<1>1. /\ \A j \in Instances : pass'[j].at = "idle"
      /\ pass' \in [Instances -> Passes] /\ lock' \in BOOLEAN
  BY <1>0, Finished
<1>2. /\ auto' \in BOOLEAN /\ shipped' \in Targets /\ active' \subseteq Servers
      /\ latest' \in [Servers -> Versions \cup {Stale}]
      /\ report' \in [Servers -> Reports]
      /\ rollout \in [Targets -> RolloutRows]
      /\ attempt \in [Targets -> [Servers -> AttemptRows]]
  BY <1>0, TypeParts DEF Inv, TypeOK
<1>3. SUFFICES /\ rollout' \in [Targets -> RolloutRows]
               /\ attempt' \in [Targets -> [Servers -> AttemptRows]]
               /\ NoOffer
               /\ \A v \in Targets : Rolling(v)' => Rolling(v)
               /\ \A v \in Targets, s \in Servers :
                     attempt'[v][s].status = "offered" => Rolling(v)'
  BY <1>0, <1>1, <1>2, TypeBack, IdleKeepsInv
<1>4. CASE CancelRollout(i)
  <2>1. PICK v \in Targets : Rolling(v) /\ CloseRollout(v, "cancelled")
    BY <1>4 DEF CancelRollout
  <2> QED
    BY <2>1, Closing
<1>5. CASE Halt(i)
  <2>1. pass[i].of \in Targets /\ Rolling(pass[i].of)
    BY <1>5, PassKinds DEF Halt, Inv, OnRolling
  <2> QED
    BY <1>5, <2>1, Closing DEF Halt
<1>6. CASE NothingToDo(i) \/ WaitOrDwell(i)
  <2>1. rollout' = rollout /\ attempt' = attempt
    BY <1>6 DEF NothingToDo, WaitOrDwell
  <2> QED
    BY <1>2, <2>1 DEF NoOffer, Rolling, Inv, OfferedRolling
<1>7. CASE CompleteRollout(i) \/ RecordStep(i)
  <2>1. pass[i].of \in Targets /\ attempt' = attempt
    BY <1>7, PassKinds DEF CompleteRollout, RecordStep, Inv
  <2>2. CASE CompleteRollout(i)
    <3>1. /\ rollout' \in [Targets -> RolloutRows]
          /\ \A v \in Targets : rollout'[v].status =
                IF v = pass[i].of THEN "complete" ELSE rollout[v].status
      BY <1>2, <2>1, <2>2
         DEF CompleteRollout, RolloutRows, RolloutStatuses
    <3>2. \A s \in Servers : attempt[pass[i].of][s].status # "offered"
      BY <2>2 DEF CompleteRollout, MayWiden, With
    <3>3. \A v \in Targets, s \in Servers :
             attempt'[v][s].status = "offered" => Rolling(v)'
      BY <2>1, <3>1, <3>2 DEF Inv, OfferedRolling, Rolling
    <3> QED
      BY <1>2, <2>1, <3>1, <3>3 DEF NoOffer, Rolling
  <2>3. CASE RecordStep(i)
    <3>1. /\ pass[i].step \in 0..100 /\ 0 \in 0..Dwell
      BY <2>3, PassKinds, RolloutAssumption DEF RecordStep, Inv, OfferCalls
    <3>2. /\ rollout' \in [Targets -> RolloutRows]
          /\ \A v \in Targets : rollout'[v].status = rollout[v].status
      BY <1>2, <2>1, <2>3, <3>1 DEF RecordStep, RolloutRows
    <3> QED
      BY <1>2, <2>1, <3>2 DEF NoOffer, Rolling, Inv, OfferedRolling
  <2> QED
    BY <1>7, <2>2, <2>3
<1> QED
  BY <1>4, <1>5, <1>6, <1>7

(***************************************************************************)
(* The steps after which the pass goes on.                                 *)
(***************************************************************************)
LEMMA GoesOn ==
    ASSUME Inv, NEW i \in Instances, NEW p \in Passes, Goto(i, p),
           \A j \in Instances \ {i} : At(j, "idle")
    PROVE  /\ pass' \in [Instances -> Passes] /\ pass'[i] = p
           /\ \A j \in Instances \ {i} : pass'[j].at = "idle"
  BY TypeParts DEF Inv, Goto, At

LEMMA OthersIdle ==
    ASSUME Inv, NEW i \in Instances, ~At(i, "idle")
    PROVE  lock = TRUE /\ \A j \in Instances \ {i} : At(j, "idle")
  BY DEF Inv, OnePass, TypeOK

LEMMA OngoingKeepsInv ==
    ASSUME Inv, TypeOK', NEW i \in Instances, lock' = TRUE,
           \A j \in Instances \ {i} : pass'[j].at = "idle",
           report' = report,
           \A v \in Targets, s \in Servers :
              attempt[v][s].status # "none" => attempt'[v][s].status # "none",
           OneRolling', OfferedRolling',
           pass'[i].at \in {"judge", "health", "offer"}
              => Rolling(pass[i].of)',
           pass'[i].at = "offer" =>
              /\ rollout'[pass'[i].of].stepAge = Dwell
              /\ \A s \in Servers :
                    attempt'[pass'[i].of][s].status = "offered" =>
                       s \in pass'[i].made
    PROVE  Inv'
<1>1. OnePass'
  BY DEF OnePass, At
<1>2. OnRolling'
  <2> SUFFICES ASSUME NEW j \in Instances
               PROVE  /\ pass'[j].at \in {"judge", "health", "offer"} =>
                            Rolling(pass[j].of)'
                      /\ pass'[j].at = "offer" =>
                            /\ rollout'[pass'[j].of].stepAge = Dwell
                            /\ \A s \in Servers :
                                 attempt'[pass'[j].of][s].status = "offered"
                                   => s \in pass'[j].made
    BY DEF OnRolling, At
  <2>1. CASE j = i
    BY <2>1
  <2>2. CASE j # i
    BY <2>2
  <2> QED
    BY <2>1, <2>2
<1>3. ReportsAnswer'
  <2> SUFFICES ASSUME NEW s \in Servers, report'[s] # NoReport
               PROVE  attempt'[report'[s].of][s].status # "none"
    BY DEF ReportsAnswer
  <2>1. report[s] # NoReport /\ report[s].of \in Targets
    BY TypeParts DEF Inv, Reports
  <2> QED
    BY <2>1 DEF Inv, ReportsAnswer
<1> QED
  BY <1>1, <1>2, <1>3 DEF Inv

LEMMA SettingsSteps ==
    ASSUME Inv, NEW i \in Instances,
           StartPass(i) \/ StartRollout(i) \/ ContinueRollout(i)
    PROVE  Inv'
<1> USE DEF dbVars, hostVars
<1>0. /\ UNCHANGED <<auto, shipped, active, latest, report, attempt>>
      /\ rollout \in [Targets -> RolloutRows] /\ shipped \in Targets
      /\ auto' \in BOOLEAN /\ shipped' \in Targets /\ active' \subseteq Servers
      /\ latest' \in [Servers -> Versions \cup {Stale}]
      /\ report' \in [Servers -> Reports]
      /\ attempt' \in [Targets -> [Servers -> AttemptRows]]
  BY TypeParts DEF StartPass, StartRollout, ContinueRollout, Inv, TypeOK
<1>1. \A j \in Instances \ {i} : At(j, "idle")
  <2>1. CASE StartPass(i)
    BY <2>1 DEF StartPass, LockTaken, Inv, OnePass
  <2>2. CASE StartRollout(i) \/ ContinueRollout(i)
    BY <2>2, OthersIdle DEF StartRollout, ContinueRollout, At
  <2> QED
    BY <2>1, <2>2
<1>2. CASE StartPass(i)
  <2> DEFINE p == [at |-> "settings"]
  <2>1. p \in Passes /\ p.at = "settings"
    BY DEF Passes
  <2>2. /\ pass' \in [Instances -> Passes] /\ pass'[i] = p
        /\ \A j \in Instances \ {i} : pass'[j].at = "idle"
    BY <1>1, <1>2, <2>1, GoesOn DEF StartPass
  <2>3. lock' = TRUE /\ rollout' = rollout
    BY <1>2 DEF StartPass
  <2>4. OneRolling' /\ OfferedRolling'
    BY <1>0, <2>3 DEF Inv, OneRolling, OfferedRolling, Rolling
  <2>5. TypeOK'
    BY <1>0, <2>2, <2>3, TypeBack
  <2> QED
    BY <1>0, <2>1, <2>2, <2>3, <2>4, <2>5, OngoingKeepsInv
<1>3. CASE StartRollout(i) \/ ContinueRollout(i)
  <2> DEFINE p == [at |-> "judge", of |-> shipped]
  <2>1. p \in Passes /\ p.at = "judge" /\ p.of = shipped
    BY <1>0 DEF Passes, JudgeCalls
  <2>2. /\ pass' \in [Instances -> Passes] /\ pass'[i] = p
        /\ \A j \in Instances \ {i} : pass'[j].at = "idle"
    BY <1>1, <1>3, <2>1, GoesOn DEF StartRollout, ContinueRollout
  <2>3. lock = TRUE /\ lock' = lock
    BY <1>3, OthersIdle DEF StartRollout, ContinueRollout, At
  <2>4. /\ rollout' \in [Targets -> RolloutRows]
        /\ Rolling(shipped)'
        /\ \A v \in Targets : Rolling(v) => Rolling(v)'
        /\ OneRolling'
    <3>1. CASE StartRollout(i)
      <4>1. [NoRollout EXCEPT !.status = "rolling"] \in RolloutRows
            /\ [NoRollout EXCEPT !.status = "rolling"].status = "rolling"
        BY RowTypes DEF NoRollout, RolloutRows, RolloutStatuses
      <4>2. /\ rollout' \in [Targets -> RolloutRows]
            /\ \A v \in Targets : rollout'[v].status =
                  IF v = shipped THEN "rolling" ELSE rollout[v].status
        BY <1>0, <3>1, <4>1 DEF StartRollout
      <4> QED
        BY <1>0, <3>1, <4>2 DEF StartRollout, Rolling, OneRolling
    <3>2. CASE ContinueRollout(i)
      BY <1>0, <3>2 DEF ContinueRollout, Rolling, OneRolling, Inv
    <3> QED
      BY <1>3, <3>1, <3>2
  <2>5. OfferedRolling'
    BY <1>0, <2>4 DEF Inv, OfferedRolling
  <2>6. TypeOK'
    BY <1>0, <2>2, <2>3, <2>4, TypeBack DEF Inv, TypeOK
  <2>7. Rolling(pass[i].of)'
    BY <1>0, <2>1, <2>2, <2>4 DEF Rolling
  <2> QED
    BY <1>0, <2>1, <2>2, <2>3, <2>4, <2>5, <2>6, <2>7, OngoingKeepsInv
<1> QED
  BY <1>2, <1>3

(***************************************************************************)
(* An offer is made while everything offered was offered by the same pass. *)
(***************************************************************************)
LEMMA StepSteps ==
    ASSUME Inv, NEW i \in Instances,
           JudgeAttempts(i) \/ PlanStep(i) \/ Offer(i)
    PROVE  Inv'
<1> DEFINE v == pass[i].of
<1> USE DEF dbVars, hostVars
<1>0. /\ UNCHANGED <<auto, shipped, active, latest, report, rollout, lock>>
      /\ attempt \in [Targets -> [Servers -> AttemptRows]]
      /\ rollout \in [Targets -> RolloutRows]
      /\ auto' \in BOOLEAN /\ shipped' \in Targets /\ active' \subseteq Servers
      /\ latest' \in [Servers -> Versions \cup {Stale}]
      /\ report' \in [Servers -> Reports] /\ active \subseteq Servers
      /\ rollout' \in [Targets -> RolloutRows] /\ lock' \in BOOLEAN
  BY TypeParts DEF JudgeAttempts, PlanStep, Offer, Inv, TypeOK
<1>1. /\ lock = TRUE /\ \A j \in Instances \ {i} : At(j, "idle")
      /\ v \in Targets /\ Rolling(v)
  BY OthersIdle, PassKinds
     DEF JudgeAttempts, PlanStep, Offer, At, Inv, OnRolling
<1>2. OneRolling' /\ rollout'[v].status = "rolling"
  BY <1>0, <1>1 DEF Inv, OneRolling, Rolling
<1>3. CASE JudgeAttempts(i)
  <2> DEFINE p == [at |-> "health", of |-> v]
  <2>1. p \in Passes /\ p.at = "health" /\ p.of = v
    BY <1>1 DEF Passes, JudgeCalls
  <2>2. /\ pass' \in [Instances -> Passes] /\ pass'[i] = p
        /\ \A j \in Instances \ {i} : pass'[j].at = "idle"
    BY <1>1, <1>3, <2>1, GoesOn DEF JudgeAttempts
  <2>3. /\ Attempt("cancelled") \in AttemptRows
        /\ Attempt("failed") \in AttemptRows
        /\ Attempt("cancelled").status = "cancelled"
        /\ Attempt("failed").status = "failed"
    BY RowTypes DEF AttemptStatuses
  <2>4. attempt' = [attempt EXCEPT ![v] = [s \in Servers |->
             IF s \in With(v, "offered") \ active THEN Attempt("cancelled")
             ELSE IF s \in Silent(v) THEN Attempt("failed")
             ELSE attempt[v][s]]]
    BY <1>3 DEF JudgeAttempts
  <2>5. /\ attempt' \in [Targets -> [Servers -> AttemptRows]]
        /\ \A u \in Targets, s \in Servers :
              \/ attempt'[u][s] = attempt[u][s]
              \/ /\ attempt[u][s].status = "offered"
                 /\ attempt'[u][s].status \in {"cancelled", "failed"}
    BY <1>0, <1>1, <2>3, <2>4 DEF With, Silent
  <2>6. \A u \in Targets, s \in Servers :
           attempt[u][s].status # "none" => attempt'[u][s].status # "none"
    BY <2>5
  <2>7. OfferedRolling'
    BY <1>0, <2>5 DEF Inv, OfferedRolling, Rolling
  <2>8. TypeOK'
    BY <1>0, <2>2, <2>5, TypeBack
  <2>9. Rolling(pass[i].of)'
    BY <1>2, <2>1, <2>2 DEF Rolling
  <2> QED
    BY <1>0, <1>1, <1>2, <2>1, <2>2, <2>6, <2>7, <2>8, <2>9, OngoingKeepsInv
<1>4. CASE PlanStep(i)
  <2> DEFINE step == NextPercent(rollout[v].percent)
             p == [at |-> "offer", of |-> v, step |-> step,
                   left |-> ToOffer(v, step), made |-> {}]
  <2>1. step \in 1..100
    <3>1. step \in 0..100
      BY <1>0, <1>1, NextPercentType DEF RolloutRows
    <3>2. step # 0
      BY <1>4 DEF PlanStep, NowhereFurther
    <3> QED
      BY <3>1, <3>2
  <2>2. ToOffer(v, step) \subseteq Servers
    BY <1>0 DEF ToOffer, First, CandidatesFor
  <2>3. p \in Passes /\ p.at = "offer" /\ p.of = v
    BY <1>1, <2>1, <2>2 DEF Passes, OfferCalls
  <2>4. /\ pass' \in [Instances -> Passes] /\ pass'[i] = p
        /\ \A j \in Instances \ {i} : pass'[j].at = "idle"
    BY <1>1, <1>4, <2>3, GoesOn DEF PlanStep
  <2>5. /\ attempt' = attempt /\ rollout[v].stepAge = Dwell
        /\ \A s \in Servers : attempt[v][s].status # "offered"
    BY <1>4 DEF PlanStep, MayWiden, With
  <2>6. OfferedRolling'
    BY <1>0, <2>5 DEF Inv, OfferedRolling, Rolling
  <2>7. TypeOK'
    BY <1>0, <2>4, <2>5, TypeBack
  <2>8. pass'[i].of = v
    BY <2>3, <2>4
  <2>9. Rolling(pass[i].of)'
    BY <1>2, <2>8 DEF Rolling
  <2> QED
    BY <1>0, <1>1, <1>2, <2>4, <2>5, <2>6, <2>7, <2>8, <2>9, OngoingKeepsInv
<1>5. CASE Offer(i)
  <2>0. pass[i] \in OfferCalls
    BY <1>5, PassKinds DEF Offer, Inv
  <2>1. PICK s \in First(pass[i].left, 1, v) :
           /\ \/ attempt' = attempt
              \/ /\ attempt[v][s].status = "none"
                 /\ attempt' = Marked(v, {s}, "offered")
           /\ Goto(i, [pass[i] EXCEPT !.left = @ \ {s},
                                       !.made = @ \cup {s}])
    BY <1>5 DEF Offer
  <2> DEFINE p == [pass[i] EXCEPT !.left = @ \ {s}, !.made = @ \cup {s}]
  <2>2. s \in Servers
    BY <2>0, <2>1 DEF First, OfferCalls
  <2>3. /\ p \in Passes /\ p.at = "offer" /\ p.of = v
        /\ p.made = pass[i].made \cup {s}
    BY <2>0, <2>2 DEF Passes, OfferCalls
  <2>4. /\ pass' \in [Instances -> Passes] /\ pass'[i] = p
        /\ \A j \in Instances \ {i} : pass'[j].at = "idle"
    BY <1>1, <2>1, <2>3, GoesOn
  <2>5. /\ attempt' \in [Targets -> [Servers -> AttemptRows]]
        /\ \A u \in Targets, t \in Servers :
              \/ attempt'[u][t].status = attempt[u][t].status
              \/ /\ u = v /\ t = s /\ attempt[u][t].status = "none"
                 /\ attempt'[u][t].status = "offered"
    <3>1. CASE attempt' = attempt
      BY <1>0, <3>1
    <3>2. CASE /\ attempt[v][s].status = "none"
               /\ attempt' = Marked(v, {s}, "offered")
      <4>1. "offered" \in AttemptStatuses
        BY DEF AttemptStatuses
      <4> QED
        BY <1>1, <3>2, <4>1, MarkedRows DEF Inv
    <3> QED
      BY <2>1, <3>1, <3>2
  <2>6. \A u \in Targets, t \in Servers :
           attempt[u][t].status # "none" => attempt'[u][t].status # "none"
    BY <2>5
  <2>7. OfferedRolling'
    BY <1>0, <1>1, <2>5 DEF Inv, OfferedRolling, Rolling
  <2>8. TypeOK'
    BY <1>0, <2>4, <2>5, TypeBack
  <2>9. pass'[i].of = v /\ pass'[i].made = pass[i].made \cup {s}
    BY <2>3, <2>4
  <2>10. Rolling(pass[i].of)'
    BY <1>2, <2>9 DEF Rolling
  <2>11. /\ rollout'[pass'[i].of].stepAge = Dwell
         /\ \A t \in Servers :
               attempt'[pass'[i].of][t].status = "offered" =>
                  t \in pass'[i].made
    <3>1. /\ rollout[v].stepAge = Dwell
          /\ \A t \in Servers :
                attempt[v][t].status = "offered" => t \in pass[i].made
      BY <1>5 DEF Inv, OnRolling, Offer
    <3>2. \A t \in Servers :
             attempt'[v][t].status = "offered" =>
                t \in pass[i].made \cup {s}
      BY <1>1, <2>5, <3>1
    <3> QED
      BY <1>0, <2>9, <3>1, <3>2
  <2> QED
    BY <1>0, <1>1, <1>2, <2>4, <2>6, <2>7, <2>8, <2>10, <2>11,
       OngoingKeepsInv
<1> QED
  BY <1>3, <1>4, <1>5

(***************************************************************************)
(* Steps outside the job leave passes, lock and rollouts alone.            *)
(***************************************************************************)
LEMMA JobUntouched ==
    ASSUME Inv, TypeOK', UNCHANGED <<pass, lock, rollout>>, NoOffer,
           ReportsAnswer'
    PROVE  Inv'
<1>1. OnePass' /\ OneRolling'
  BY DEF Inv, OnePass, OneRolling, Rolling, At
<1>2. OnRolling'
  <2> SUFFICES ASSUME NEW i \in Instances,
                      At(i, "judge") \/ At(i, "health") \/ At(i, "offer")
               PROVE  /\ rollout[pass[i].of].status = "rolling"
                      /\ At(i, "offer") =>
                            /\ rollout[pass[i].of].stepAge = Dwell
                            /\ \A s \in Servers :
                                 attempt'[pass[i].of][s].status = "offered"
                                    => s \in pass[i].made
    BY DEF OnRolling, At, Rolling
  <2>1. pass[i].of \in Targets
    BY PassKinds DEF Inv
  <2> QED
    BY <2>1 DEF Inv, OnRolling, Rolling, NoOffer
<1>3. OfferedRolling'
  BY DEF Inv, OfferedRolling, NoOffer, Rolling
<1> QED
  BY <1>1, <1>2, <1>3 DEF Inv

(***************************************************************************)
(* At most one version has offers, so the report of a host is looked up    *)
(* without a choice.                                                       *)
(***************************************************************************)
LEMMA IngestStep ==
    ASSUME Inv, NEW s \in Servers, NEW r \in Versions, Ingest(s, r)
    PROVE  Inv'
<1> DEFINE open == {v \in Targets : attempt[v][s].status = "offered"}
           first == CHOOSE u \in open :
                       \A x \in open : attempt[u][s].age <= attempt[x][s].age
           new == [verdict |-> VerdictOn(s, first, r), of |-> first]
<1>1. /\ UNCHANGED <<auto, shipped, active, rollout, attempt, lock, pass>>
      /\ latest' = [latest EXCEPT ![s] = r]
      /\ report' = IF open = {} THEN report
                   ELSE [report EXCEPT ![s] = new]
  BY DEF Ingest, dbVars
<1>2. /\ report \in [Servers -> Reports]
      /\ attempt \in [Targets -> [Servers -> AttemptRows]]
      /\ latest \in [Servers -> Versions \cup {Stale}]
  BY TypeParts DEF Inv, TypeOK
<1>3. open # {} => first \in open
  <2> SUFFICES ASSUME NEW u \in open PROVE first \in open
    OBVIOUS
  <2>1. \A x \in open : x = u
    BY DEF Inv, OfferedRolling, OneRolling
  <2>2. attempt[u][s].age \in Nat
    BY <1>2, RolloutAssumption DEF AttemptRows
  <2>3. \A x \in open : attempt[u][s].age <= attempt[x][s].age
    BY <2>1, <2>2
  <2> QED
    BY <2>3
<1> HIDE DEF first
<1>4. open # {} => new \in Reports /\ new.of = first
  BY <1>3 DEF VerdictOn, Reports, Verdicts
<1>5. report' \in [Servers -> Reports]
  BY <1>1, <1>2, <1>4
<1>6. latest' \in [Servers -> Versions \cup {Stale}]
  BY <1>1, <1>2
<1>7. TypeOK'
  BY <1>1, <1>5, <1>6 DEF Inv, TypeOK, Reports, Verdicts
<1>8. ReportsAnswer'
  <2> SUFFICES ASSUME NEW t \in Servers, report'[t] # NoReport
               PROVE  attempt[report'[t].of][t].status # "none"
    BY <1>1 DEF ReportsAnswer
  <2>1. CASE report'[t] = report[t]
    BY <2>1 DEF Inv, ReportsAnswer
  <2>2. CASE report'[t] # report[t]
    <3>1. open # {} /\ t = s /\ report'[t] = new
      BY <1>1, <1>2, <2>2
    <3> HIDE DEF new
    <3>2. report'[t].of = first /\ first \in open
      BY <1>3, <1>4, <3>1
    <3> QED
      BY <3>1, <3>2
  <2> QED
    BY <2>1, <2>2
<1> QED
  BY <1>1, <1>7, <1>8, JobUntouched DEF NoOffer

LEMMA RecordReportStep ==
    ASSUME Inv, NEW s \in Servers, RecordReport(s) PROVE Inv'
<1> DEFINE v == report[s].of
<1>1. /\ UNCHANGED <<auto, shipped, active, latest, rollout, lock, pass>>
      /\ report[s] # NoReport /\ report' = [report EXCEPT ![s] = NoReport]
  BY DEF RecordReport
<1>2. /\ report \in [Servers -> Reports]
      /\ attempt \in [Targets -> [Servers -> AttemptRows]]
  BY TypeParts DEF Inv
<1>3. v \in Targets /\ report[s].verdict \in Verdicts
  BY <1>1, <1>2 DEF Reports
<1>4. attempt[v][s].status # "none"
  BY <1>1 DEF Inv, ReportsAnswer
<1>5. /\ attempt' \in [Targets -> [Servers -> AttemptRows]]
      /\ NoOffer
  <2>1. CASE report[s].verdict # "waiting"
    <3>1. /\ report[s].verdict \in AttemptStatuses
          /\ report[s].verdict \notin {"none", "offered"}
      BY <1>3, <2>1 DEF Verdicts, AttemptStatuses
    <3>2. attempt' = Marked(v, {s}, report[s].verdict)
      BY <2>1 DEF RecordReport
    <3> QED
      BY <1>3, <1>4, <3>1, <3>2, MarkedRows DEF Inv, NoOffer
  <2>2. CASE report[s].verdict = "waiting"
    <3>1. attempt' = [attempt EXCEPT ![v][s].reported =
                         (attempt[v][s].status = "offered")]
      BY <2>2 DEF RecordReport
    <3> DEFINE row == [attempt[v][s] EXCEPT !.reported =
                          (attempt[v][s].status = "offered")]
    <3>2. row \in AttemptRows /\ row.status = attempt[v][s].status
      <4>1. attempt[v][s] \in AttemptRows
        BY <1>2, <1>3
      <4> QED
        BY <4>1 DEF AttemptRows
    <3>3. attempt' = [attempt EXCEPT ![v] =
                         [attempt[v] EXCEPT ![s] = row]]
      BY <1>2, <1>3, <3>1
    <3> HIDE DEF row
    <3>4. /\ attempt' \in [Targets -> [Servers -> AttemptRows]]
          /\ \A u \in Targets, t \in Servers :
                attempt'[u][t].status = attempt[u][t].status
      BY <1>2, <1>3, <3>2, <3>3
    <3> QED
      BY <3>4 DEF NoOffer
  <2> QED
    BY <2>1, <2>2
<1>6. report' \in [Servers -> Reports]
  BY <1>1, <1>2 DEF Reports
<1>7. TypeOK'
  BY <1>1, <1>5, <1>6 DEF Inv, TypeOK, Reports, Verdicts, AttemptRows
<1>8. ReportsAnswer'
  <2> SUFFICES ASSUME NEW t \in Servers, report'[t] # NoReport
               PROVE  attempt'[report'[t].of][t].status # "none"
    BY DEF ReportsAnswer
  <2>1. report'[t] = report[t] /\ report[t].of \in Targets
    BY <1>1, <1>2 DEF Reports
  <2> QED
    BY <1>5, <2>1 DEF Inv, ReportsAnswer, NoOffer
<1> QED
  BY <1>1, <1>5, <1>7, <1>8, JobUntouched

(***************************************************************************)
(* The clock, restarts, the administrator and the lock.                    *)
(***************************************************************************)
LEMMA SurroundingSteps ==
    ASSUME Inv,
           \/ LockExpires \/ SwitchAutoUpdate \/ Restart \/ Tick
           \/ \E s \in Servers : GoesStale(s) \/ SetServerActive(s)
           \/ UNCHANGED vars
    PROVE  Inv'
<1> USE DEF dbVars, hostVars
<1>0. /\ rollout \in [Targets -> RolloutRows]
      /\ attempt \in [Targets -> [Servers -> AttemptRows]]
      /\ report \in [Servers -> Reports]
  BY TypeParts DEF Inv
<1>1. CASE LockExpires
  <2>1. TypeOK'
    BY <1>1 DEF LockExpires, Inv, TypeOK
  <2>2. \A i \in Instances : pass'[i].at = "idle"
    BY <1>1 DEF LockExpires, At
  <2> QED
    BY <1>1, <2>1, <2>2, IdleKeepsInv
       DEF LockExpires, NoOffer, Rolling, Inv, OfferedRolling
<1>2. CASE Restart
  <2>1. TypeOK'
    BY <1>2 DEF Restart, Inv, TypeOK
  <2>2. \A i \in Instances : pass'[i].at = "idle"
    BY <1>2 DEF Restart, Idle
  <2>3. \A s \in Servers : report'[s] = NoReport
    BY <1>2 DEF Restart
  <2> QED
    BY <1>2, <2>1, <2>2, <2>3, IdleKeepsInv
       DEF Restart, NoOffer, Rolling, Inv, OfferedRolling
<1>3. CASE Tick
  <2>1. \A i \in Instances : pass'[i].at = "idle"
    BY <1>3 DEF Tick, At
  <2>2. /\ attempt' \in [Targets -> [Servers -> AttemptRows]]
        /\ \A v \in Targets, s \in Servers :
              attempt'[v][s].status = attempt[v][s].status
    <3>1. ASSUME NEW v \in Targets, NEW s \in Servers
          PROVE  /\ attempt'[v][s] \in AttemptRows
                 /\ attempt'[v][s].status = attempt[v][s].status
      <4>1. attempt[v][s] \in AttemptRows
        BY <1>0
      <4>2. attempt'[v][s] =
               IF attempt[v][s].status # "offered"
                     \/ attempt[v][s].age > Grace
               THEN attempt[v][s]
               ELSE [attempt[v][s] EXCEPT !.age = @ + 1]
        BY <1>3 DEF Tick
      <4> QED
        BY <4>1, <4>2, RolloutAssumption DEF AttemptRows
    <3>2. attempt' = [v \in Targets |-> [s \in Servers |-> attempt'[v][s]]]
      BY <1>3 DEF Tick
    <3> QED
      BY <3>1, <3>2
  <2>3. /\ rollout' \in [Targets -> RolloutRows]
        /\ \A v \in Targets : rollout'[v].status = rollout[v].status
    <3>1. ASSUME NEW v \in Targets
          PROVE  /\ rollout'[v] \in RolloutRows
                 /\ rollout'[v].status = rollout[v].status
      <4>1. rollout[v] \in RolloutRows
        BY <1>0
      <4>2. rollout'[v] = IF rollout[v].stepAge = Dwell THEN rollout[v]
                          ELSE [rollout[v] EXCEPT !.stepAge = @ + 1]
        BY <1>3 DEF Tick
      <4>3. CASE rollout[v].stepAge = Dwell
        BY <4>1, <4>2, <4>3
      <4>4. CASE rollout[v].stepAge # Dwell
        <5>1. rollout[v].stepAge + 1 \in 0..Dwell
          <6>1. rollout[v].stepAge \in 0..Dwell /\ Dwell \in Nat
            BY <4>1, RolloutAssumption DEF RolloutRows
          <6> QED
            BY <4>4, <6>1
        <5>2. rollout'[v] = [status |-> rollout[v].status,
                             percent |-> rollout[v].percent,
                             stepAge |-> rollout[v].stepAge + 1]
          BY <4>1, <4>2, <4>4 DEF RolloutRows
        <5>3. /\ rollout[v].status \in RolloutStatuses
              /\ rollout[v].percent \in 0..100
          BY <4>1 DEF RolloutRows
        <5>4. [status |-> rollout[v].status,
               percent |-> rollout[v].percent,
               stepAge |-> rollout[v].stepAge + 1] \in RolloutRows
          BY <5>1, <5>3 DEF RolloutRows
        <5> QED
          BY <5>2, <5>3, <5>4
      <4> QED
        BY <4>3, <4>4
    <3>2. rollout' = [v \in Targets |-> rollout'[v]]
      BY <1>3 DEF Tick
    <3> QED
      BY <3>1, <3>2
  <2>4. TypeOK'
    BY <1>3, <2>2, <2>3 DEF Tick, Inv, TypeOK, AttemptRows, RolloutRows
  <2> QED
    BY <1>3, <2>1, <2>2, <2>3, <2>4, IdleKeepsInv
       DEF Tick, NoOffer, Rolling, Inv, OfferedRolling
<1>4. CASE \/ SwitchAutoUpdate \/ UNCHANGED vars
           \/ \E s \in Servers : GoesStale(s) \/ SetServerActive(s)
  <2>1. UNCHANGED <<pass, lock, rollout, attempt, report>>
    BY <1>4 DEF SwitchAutoUpdate, GoesStale, SetServerActive, vars
  <2>2. TypeOK'
    BY <1>4 DEF SwitchAutoUpdate, GoesStale, SetServerActive, vars, Inv,
                TypeOK
  <2> QED
    BY <2>1, <2>2, JobUntouched DEF NoOffer, Inv, ReportsAnswer
<1> QED
  BY <1>1, <1>2, <1>3, <1>4

(***************************************************************************)
(* Every step keeps the invariant.                                         *)
(***************************************************************************)
LEMMA InvStep == ASSUME Inv, [Next]_vars PROVE Inv'
<1>1. ASSUME NEW i \in Instances, StartPass(i) \/ AdvanceOrg(i) PROVE Inv'
  BY <1>1, EndingSteps, SettingsSteps, StepSteps DEF AdvanceOrg
<1>2. ASSUME NEW s \in Servers,
             Host(s) \/ RecordReport(s) \/ SetServerActive(s)
      PROVE  Inv'
  BY <1>2, IngestStep, RecordReportStep, SurroundingSteps DEF Host
<1>3. CASE \/ LockExpires \/ SwitchAutoUpdate \/ Restart \/ Tick
           \/ UNCHANGED vars
  BY <1>3, SurroundingSteps
<1> QED
  BY <1>1, <1>2, <1>3 DEF Next

LEMMA InitInv == Init => Inv
<1> SUFFICES ASSUME Init PROVE Inv
  OBVIOUS
<1>1. TypeOK
  <2>1. 0 \in Versions \cup {Stale} /\ "none" \in AttemptStatuses
    BY DEF Versions, AttemptStatuses
  <2>2. Attempt("none") \in AttemptRows /\ NoRollout \in RolloutRows
    BY <2>1, RowTypes
  <2> QED
    BY <2>1, <2>2 DEF Init, TypeOK, AttemptRows, RolloutRows
<1>2. \A i \in Instances : pass[i].at = "idle"
  BY DEF Init, Idle
<1>3. \A v \in Targets : rollout[v].status = "none"
  BY DEF Init, NoRollout
<1>4. \A v \in Targets, s \in Servers : attempt[v][s].status = "none"
  BY DEF Init, Attempt
<1>5. OnePass /\ OnRolling
  BY <1>2 DEF OnePass, OnRolling, At
<1>6. OneRolling /\ OfferedRolling
  BY <1>3, <1>4 DEF OneRolling, OfferedRolling, Rolling
<1>7. ReportsAnswer
  BY DEF Init, ReportsAnswer
<1> QED
  BY <1>1, <1>5, <1>6, <1>7 DEF Inv

-----------------------------------------------------------------------------
(***************************************************************************)
(* Every variable keeps its type.                                          *)
(***************************************************************************)
THEOREM TypeCorrect == Spec => []TypeOK
<1>1. Init => Inv
  BY InitInv
<1>2. Inv /\ [Next]_vars => Inv'
  BY InvStep
<1>3. Inv => TypeOK
  BY DEF Inv
<1> QED
  BY <1>1, <1>2, <1>3, PTL DEF Spec

(***************************************************************************)
(* closeRollout: nothing stays offered in a rollout that is over, however  *)
(* many versions, hosts and instances of the job there are.                *)
(***************************************************************************)
THEOREM NothingStaysOffered == Spec => []NothingOfferedAfterEnd
<1>1. Init => Inv
  BY InitInv
<1>2. Inv /\ [Next]_vars => Inv'
  BY InvStep
<1>3. Inv => NothingOfferedAfterEnd
  BY DEF Inv, OfferedRolling, NothingOfferedAfterEnd, With
<1> QED
  BY <1>1, <1>2, <1>3, PTL DEF Spec

(***************************************************************************)
(* The only step that makes an offer: one of a rolling rollout, past its   *)
(* dwell time, in a pass that made every offer that is still open.         *)
(***************************************************************************)
LEMMA OnlyOffers ==
    ASSUME Inv, [Next]_vars, NEW v \in Targets,
           With(v, "none") # With(v, "none")'
    PROVE  \E i \in Instances : Offer(i) /\ pass[i].of = v
<1> USE DEF dbVars, hostVars
<1>1. PICK s \in Servers :
         ~(attempt[v][s].status = "none" <=> attempt'[v][s].status = "none")
  BY DEF With
<1>2. ASSUME NEW i \in Instances, AdvanceOrg(i)
      PROVE  Offer(i) /\ pass[i].of = v
  <2>1. CASE CancelRollout(i)
    <3>1. PICK u \in Targets : Rolling(u) /\ CloseRollout(u, "cancelled")
      BY <2>1 DEF CancelRollout
    <3> QED
      BY <1>1, <3>1, Closing DEF NoOffer
  <2>2. CASE Halt(i)
    <3>1. pass[i].of \in Targets /\ Rolling(pass[i].of)
      BY <2>2, PassKinds DEF Halt, Inv, OnRolling
    <3> QED
      BY <1>1, <2>2, <3>1, Closing DEF NoOffer, Halt
  <2>3. CASE JudgeAttempts(i)
    <3>1. pass[i].of \in Targets
      BY <2>3, PassKinds DEF JudgeAttempts, Inv
    <3>2. attempt \in [Targets -> [Servers -> AttemptRows]]
      BY TypeParts DEF Inv
    <3>3. \/ attempt'[v][s] = attempt[v][s]
          \/ /\ attempt[v][s].status = "offered"
             /\ attempt'[v][s].status \in {"cancelled", "failed"}
      BY <2>3, <3>1, <3>2, RowTypes
         DEF JudgeAttempts, With, Silent, Attempt
    <3> QED
      BY <1>1, <3>3
  <2>4. CASE Offer(i)
    <3>1. pass[i].of \in Targets
      BY <2>4, PassKinds DEF Offer, Inv
    <3>2. PICK t : \/ attempt' = attempt
                   \/ attempt' = Marked(pass[i].of, {t}, "offered")
      BY <2>4 DEF Offer
    <3>3. "offered" \in AttemptStatuses
      BY DEF AttemptStatuses
    <3>4. pass[i].of = v
      BY <1>1, <3>1, <3>2, <3>3, MarkedRows DEF Inv
    <3> QED
      BY <2>4, <3>4
  <2>5. CASE \/ NothingToDo(i) \/ StartRollout(i) \/ ContinueRollout(i)
             \/ WaitOrDwell(i) \/ CompleteRollout(i) \/ PlanStep(i)
             \/ RecordStep(i)
    BY <1>1, <2>5 DEF NothingToDo, StartRollout, ContinueRollout, WaitOrDwell,
                      CompleteRollout, PlanStep, RecordStep
  <2> QED
    BY <1>2, <2>1, <2>2, <2>3, <2>4, <2>5 DEF AdvanceOrg
<1>3. ASSUME NEW t \in Servers, RecordReport(t) PROVE FALSE
  <2>1. report[t] # NoReport /\ report[t].of \in Targets
    BY <1>3, TypeParts DEF RecordReport, Inv, Reports
  <2>2. /\ report[t].verdict \in Verdicts
        /\ attempt[report[t].of][t].status # "none"
        /\ attempt \in [Targets -> [Servers -> AttemptRows]]
    BY <2>1, TypeParts DEF Inv, ReportsAnswer, Reports
  <2>3. CASE report[t].verdict # "waiting"
    <3>1. /\ report[t].verdict \in AttemptStatuses
          /\ report[t].verdict # "none"
          /\ attempt' = Marked(report[t].of, {t}, report[t].verdict)
      BY <1>3, <2>2, <2>3 DEF RecordReport, Verdicts, AttemptStatuses
    <3> QED
      BY <1>1, <2>1, <2>2, <3>1, MarkedRows DEF Inv
  <2>4. CASE report[t].verdict = "waiting"
    <3>1. attempt' = [attempt EXCEPT ![report[t].of][t].reported =
                         (attempt[report[t].of][t].status = "offered")]
      BY <1>3, <2>4 DEF RecordReport
    <3>2. attempt'[v][s].status = attempt[v][s].status
      BY <2>1, <2>2, <3>1 DEF AttemptRows
    <3> QED
      BY <1>1, <3>2
  <2> QED
    BY <2>3, <2>4
<1>4. CASE Tick
  <2>1. attempt'[v][s].status = attempt[v][s].status
    BY <1>4, TypeParts DEF Tick, Inv, AttemptRows
  <2> QED
    BY <1>1, <2>1
<1>5. CASE \/ \E i \in Instances : StartPass(i)
           \/ \E t \in Servers : Host(t) \/ SetServerActive(t)
           \/ LockExpires \/ SwitchAutoUpdate \/ Restart \/ UNCHANGED vars
  BY <1>1, <1>5 DEF StartPass, Host, GoesStale, Ingest, SetServerActive,
                    LockExpires, SwitchAutoUpdate, Restart, vars
<1> QED
  BY <1>2, <1>3, <1>4, <1>5 DEF Next

(***************************************************************************)
(* A rollout widens on evidence: whatever the hosts, the processes and the *)
(* administrator do, a host is offered an update only when no host of an   *)
(* earlier step owes an answer.                                            *)
(***************************************************************************)
THEOREM WidensOnEvidence == Spec => OneStepAtATime
<1>1. Init => Inv
  BY InitInv
<1>2. Inv /\ [Next]_vars => Inv'
  BY InvStep
<1>3. Inv /\ [Next]_vars =>
        [\A v \in Targets : With(v, "none") # With(v, "none")' =>
            /\ Rolling(v) /\ rollout[v].stepAge = Dwell
            /\ \E i \in Instances :
                  At(i, "offer") /\ With(v, "offered") \subseteq pass[i].made
        ]_vars
  <2> SUFFICES ASSUME Inv, [Next]_vars, NEW v \in Targets,
                      With(v, "none") # With(v, "none")'
               PROVE  /\ Rolling(v) /\ rollout[v].stepAge = Dwell
                      /\ \E i \in Instances :
                            /\ At(i, "offer")
                            /\ With(v, "offered") \subseteq pass[i].made
    OBVIOUS
  <2>1. PICK i \in Instances : Offer(i) /\ pass[i].of = v
    BY OnlyOffers
  <2>2. At(i, "offer")
    BY <2>1 DEF Offer
  <2> QED
    BY <2>1, <2>2 DEF Inv, OnRolling, With
<1> QED
  BY <1>1, <1>2, <1>3, PTL DEF Spec, OneStepAtATime

(***************************************************************************)
(* A rollout that ended stays as it ended and offers nothing more.         *)
(***************************************************************************)
LEMMA EndedRow ==
    ASSUME Inv, [Next]_vars, NEW v \in Targets,
           rollout[v].status \notin {"none", "rolling"}
    PROVE  rollout'[v].status = rollout[v].status
<1> USE DEF dbVars, hostVars
<1>0. rollout \in [Targets -> RolloutRows] /\ ~Rolling(v)
  BY TypeParts DEF Inv, Rolling
<1>1. ASSUME NEW i \in Instances, AdvanceOrg(i)
      PROVE  rollout'[v].status = rollout[v].status
  <2>1. CASE CancelRollout(i)
    BY <1>0, <2>1 DEF CancelRollout, CloseRollout
  <2>2. CASE Halt(i) \/ CompleteRollout(i)
    <3>1. pass[i].of \in Targets /\ Rolling(pass[i].of)
      BY <2>2, PassKinds DEF Halt, CompleteRollout, Inv, OnRolling
    <3> QED
      BY <1>0, <2>2, <3>1 DEF Halt, CompleteRollout, CloseRollout
  <2>3. CASE StartRollout(i)
    BY <1>0, <2>3 DEF StartRollout, NeverStarted
  <2>4. CASE RecordStep(i)
    BY <1>0, <2>4 DEF RecordStep, RolloutRows
  <2>5. CASE \/ NothingToDo(i) \/ ContinueRollout(i) \/ JudgeAttempts(i)
             \/ WaitOrDwell(i) \/ PlanStep(i) \/ Offer(i)
    BY <2>5 DEF NothingToDo, ContinueRollout, JudgeAttempts, WaitOrDwell,
                PlanStep, Offer
  <2> QED
    BY <1>1, <2>1, <2>2, <2>3, <2>4, <2>5 DEF AdvanceOrg
<1>2. CASE Tick
  BY <1>0, <1>2 DEF Tick, RolloutRows
<1>3. CASE \/ \E i \in Instances : StartPass(i)
           \/ \E t \in Servers : Host(t) \/ RecordReport(t)
                                    \/ SetServerActive(t)
           \/ LockExpires \/ SwitchAutoUpdate \/ Restart \/ UNCHANGED vars
  BY <1>3 DEF StartPass, Host, GoesStale, Ingest, RecordReport,
              SetServerActive, LockExpires, SwitchAutoUpdate, Restart, vars
<1> QED
  BY <1>1, <1>2, <1>3 DEF Next

THEOREM EndsForGood == Spec => EndedIsFinal
<1>1. Init => Inv
  BY InitInv
<1>2. Inv /\ [Next]_vars => Inv'
  BY InvStep
<1>3. Inv /\ [Next]_vars =>
        [\A v \in Targets :
            rollout[v].status \notin {"none", "rolling"} =>
               rollout'[v].status = rollout[v].status
                  /\ With(v, "none")' = With(v, "none")]_vars
  <2> SUFFICES ASSUME Inv, [Next]_vars, NEW v \in Targets,
                      rollout[v].status \notin {"none", "rolling"}
               PROVE  /\ rollout'[v].status = rollout[v].status
                      /\ With(v, "none")' = With(v, "none")
    OBVIOUS
  <2>1. rollout'[v].status = rollout[v].status
    BY EndedRow
  <2>2. ASSUME NEW i \in Instances, Offer(i), pass[i].of = v PROVE FALSE
    BY <2>2 DEF Offer, Inv, OnRolling, Rolling
  <2>3. With(v, "none")' = With(v, "none")
    BY <2>2, OnlyOffers
  <2> QED
    BY <2>1, <2>3
<1> QED
  BY <1>1, <1>2, <1>3, PTL DEF Spec, EndedIsFinal
=============================================================================
