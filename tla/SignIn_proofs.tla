---------------------------- MODULE SignIn_proofs ----------------------------
(***************************************************************************)
(* Proofs about SignIn: type correctness, the bound on the codes that are  *)
(* checked in the life of the throttle's counter, and what the other       *)
(* promises about counters and codes rely on.                              *)
(***************************************************************************)
EXTENDS SignIn, FiniteSetTheorems, TLAPS

Requests ==
    [at : Steps, ch : Challenges \cup {NoChallenge}, saw : 0..(Threshold - 1),
     clean : BOOLEAN, codes : SUBSET BackupCodes,
     code : Mails \cup BackupCodes \cup {NoCode}]

LEMMA IdleType == Idle \in Requests
  BY SignInAssumption DEF Idle, Requests, Steps, Admitted

(***************************************************************************)
(* A counter that is increased stays within its limit.                     *)
(***************************************************************************)
LEMMA BumpType ==
    ASSUME NEW limit \in Nat, NEW n \in 0..limit
    PROVE  Bump(n, limit) \in 0..limit
  BY DEF Bump

(***************************************************************************)
(* A request that moves stays a request.                                   *)
(***************************************************************************)
LEMMA Moves ==
    ASSUME TypeOK, NEW w \in Workers, NEW where \in Steps
    PROVE  /\ call[w] \in Requests
           /\ [call[w] EXCEPT !.at = where] \in Requests
           /\ [Idle EXCEPT !.at = where] \in Requests
           /\ \A c \in Challenges \cup {NoChallenge} :
                [Idle EXCEPT !.at = where, !.ch = c] \in Requests
           /\ Goto(w, where) \/ GoOn(w, where) \/ Finish(w) =>
                call' \in [Workers -> Requests]
<1>1. call \in [Workers -> Requests] /\ call[w] \in Requests
  BY DEF TypeOK, Requests
<1>2. /\ [call[w] EXCEPT !.at = where] \in Requests
      /\ [Idle EXCEPT !.at = where] \in Requests
      /\ \A c \in Challenges \cup {NoChallenge} :
            [Idle EXCEPT !.at = where, !.ch = c] \in Requests
  BY <1>1, IdleType DEF Requests
<1>3. Ch(w) \in Challenges \cup {NoChallenge}
  BY <1>1 DEF Ch, Requests
<1>4. Goto(w, where) => call' \in [Workers -> Requests]
  BY <1>1, <1>2 DEF Goto
<1>5. GoOn(w, where) => call' \in [Workers -> Requests]
  BY <1>1, <1>2, <1>3 DEF GoOn
<1>6. Finish(w) => call' \in [Workers -> Requests]
  BY <1>1, IdleType DEF Finish
<1> QED
  BY <1>1, <1>2, <1>4, <1>5, <1>6

(***************************************************************************)
(* login keeps TypeOK.                                                     *)
(***************************************************************************)
LEMMA LoginType ==
    ASSUME TypeOK, NEW w \in Workers, Login(w) PROVE TypeOK'
<1> USE DEF redisVars, codeVars
<1>0. call \in [Workers -> Requests]
  BY DEF TypeOK, Requests
<1>1. CASE LoginBegin(w)
  <2>1. [Idle EXCEPT !.at = "compare", !.saw = failed,
                     !.clean = (failed = 0 /\ lock = "none")] \in Requests
    BY IdleType DEF TypeOK, Requests, Steps
  <2>2. call' \in [Workers -> Requests]
    BY <1>0, <1>1, <2>1 DEF LoginBegin
  <2> QED
    BY <1>1, <2>2 DEF LoginBegin, TypeOK, Requests
<1>2. CASE LoginWrong(w)
  <2>1. call' \in [Workers -> Requests]
    BY <1>0, <1>2, IdleType DEF LoginWrong, Finish
  <2>2. failed' \in 0..(Threshold - 1)
    BY <1>0, <1>2, SignInAssumption DEF LoginWrong, CountAfter, Requests
  <2> QED
    BY <1>2, <2>1, <2>2 DEF LoginWrong, TypeOK, Requests
<1>3. ASSUME NEW c \in Challenges, LoginRight(w, c) PROVE TypeOK'
  <2>1. call' \in [Workers -> Requests]
    BY <1>0, <1>3, IdleType DEF LoginRight, Finish
  <2>2. failed' \in 0..(Threshold - 1) /\ lock' \in {"none", "locked", "past"}
    BY <1>3, SignInAssumption DEF LoginRight, TypeOK
  <2> QED
    BY <1>3, <2>1, <2>2 DEF LoginRight, TypeOK, Requests
<1> QED
  BY <1>1, <1>2, <1>3 DEF Login

(***************************************************************************)
(* completeMfaLogin keeps TypeOK, first up to the check of the code.       *)
(***************************************************************************)
LEMMA AdmissionType ==
    ASSUME TypeOK, NEW w \in Workers,
           \/ \E c \in Challenges : MfaBegin(w, c)
           \/ ReadUser(w) \/ Throttle(w) \/ SetExpiry(w)
    PROVE  TypeOK'
<1> USE DEF redisVars, codeVars
<1>0. call \in [Workers -> Requests]
  BY DEF TypeOK, Requests
<1>1. ASSUME NEW c \in Challenges, MfaBegin(w, c) PROVE TypeOK'
  <2>1. call' \in [Workers -> Requests]
    BY <1>0, <1>1, IdleType DEF MfaBegin, Requests, Steps
  <2> QED
    BY <1>1, <2>1 DEF MfaBegin, TypeOK, Requests
<1>2. CASE ReadUser(w)
  <2>1. [call[w] EXCEPT !.at = "throttle", !.codes = backup] \in Requests
    BY <1>0 DEF TypeOK, Requests, Steps
  <2>2. call' \in [Workers -> Requests]
    BY <1>0, <1>2, <2>1 DEF ReadUser
  <2> QED
    BY <1>2, <2>2 DEF ReadUser, TypeOK, Requests
<1>3. CASE Throttle(w)
  <2>1. "expire" \in Steps /\ "check" \in Steps
    BY DEF Steps, Admitted
  <2>2. call' \in [Workers -> Requests]
    BY <1>3, <2>1, Moves DEF Throttle
  <2>3. throttle' \in 0..(ThrottleMax + 1)
    BY <1>3, SignInAssumption DEF Throttle, Bump, TypeOK
  <2> QED
    BY <1>3, <2>2, <2>3 DEF Throttle, TypeOK, Requests
<1>4. CASE SetExpiry(w)
  <2>1. "check" \in Steps
    BY DEF Steps, Admitted
  <2>2. call' \in [Workers -> Requests]
    BY <1>4, <2>1, Moves DEF SetExpiry
  <2> QED
    BY <1>4, <2>2 DEF SetExpiry, TypeOK, Requests
<1> QED
  BY <1>1, <1>2, <1>3, <1>4

(***************************************************************************)
(* verifyFactor keeps TypeOK.                                              *)
(***************************************************************************)
LEMMA FactorType ==
    ASSUME TypeOK, NEW w \in Workers, VerifyFactor(w) PROVE TypeOK'
<1> USE DEF redisVars, codeVars
<1>0. call \in [Workers -> Requests]
  BY DEF TypeOK, Requests
<1>a. /\ "clear" \in Steps /\ "recordFailure" \in Steps
      /\ "useEmail" \in Steps /\ "useBackup" \in Steps
  BY DEF Steps
<1>1. ASSUME NEW ok \in BOOLEAN, CheckTotp(w, ok) PROVE TypeOK'
  <2>1. call' \in [Workers -> Requests]
    BY <1>1, <1>a, Moves DEF CheckTotp
  <2> QED
    BY <1>1, <2>1 DEF CheckTotp, TypeOK, Requests
<1>2. ASSUME NEW e \in Mails, CheckEmail(w, e) PROVE TypeOK'
  <2>1. [call[w] EXCEPT !.at = "useEmail", !.code = e] \in Requests
    BY <1>0, <1>a DEF Requests
  <2>2. call' \in [Workers -> Requests]
    BY <1>0, <1>2, <1>a, <2>1, Moves DEF CheckEmail
  <2> QED
    BY <1>2, <2>2 DEF CheckEmail, TypeOK, Requests
<1>3. CASE UseEmail(w)
  <2>1. call' \in [Workers -> Requests]
    BY <1>3, <1>a, Moves DEF UseEmail
  <2>2. mail' \in [Mails -> {"none", "valid", "used", "expired"}]
    BY <1>3 DEF UseEmail, TypeOK
  <2> QED
    BY <1>3, <2>1, <2>2 DEF UseEmail, TypeOK, Requests
<1>4. ASSUME NEW b \in BackupCodes, CheckBackup(w, b) PROVE TypeOK'
  <2>1. [call[w] EXCEPT !.at = "useBackup", !.code = b] \in Requests
    BY <1>0, <1>a DEF Requests
  <2>2. call' \in [Workers -> Requests]
    BY <1>0, <1>4, <1>a, <2>1, Moves DEF CheckBackup
  <2> QED
    BY <1>4, <2>2 DEF CheckBackup, TypeOK, Requests
<1>5. CASE UseBackup(w)
  <2>1. call' \in [Workers -> Requests]
    BY <1>5, <1>a, Moves DEF UseBackup
  <2>2. backup' \subseteq BackupCodes
    BY <1>0, <1>5 DEF UseBackup, Requests
  <2> QED
    BY <1>5, <2>1, <2>2 DEF UseBackup, TypeOK, Requests
<1> QED
  BY <1>1, <1>2, <1>3, <1>4, <1>5 DEF VerifyFactor

(***************************************************************************)
(* So do the counters of a challenge and the sending of a code.            *)
(***************************************************************************)
LEMMA OutcomeType ==
    ASSUME TypeOK, NEW w \in Workers,
           RecordChallengeFailure(w) \/ ClearChallengeAttempts(w)
    PROVE  TypeOK'
<1> USE DEF redisVars, codeVars
<1>1. "idle" \in Steps
  BY DEF Steps
<1>2. call' \in [Workers -> Requests]
  BY <1>1, Moves DEF RecordChallengeFailure, ClearChallengeAttempts
<1>3. \A n \in 0..MaxAttempts : Bump(n, MaxAttempts) \in 0..MaxAttempts
  BY BumpType, SignInAssumption
<1>4. attempts' \in [Challenges -> 0..MaxAttempts]
  BY <1>3, SignInAssumption
     DEF RecordChallengeFailure, ClearChallengeAttempts, TypeOK
<1> QED
  BY <1>2, <1>4
     DEF RecordChallengeFailure, ClearChallengeAttempts, TypeOK, Requests

LEMMA SendType ==
    ASSUME TypeOK, NEW w \in Workers, SendEmailOtp(w) PROVE TypeOK'
<1> USE DEF redisVars, codeVars
<1>0. call \in [Workers -> Requests]
  BY DEF TypeOK, Requests
<1>a. /\ "sendCount" \in Steps /\ "sendDelete" \in Steps
      /\ "sendCreate" \in Steps /\ "sendMail" \in Steps /\ "idle" \in Steps
  BY DEF Steps
<1>b. NoMail \in [Mails -> {"none", "valid", "used", "expired"}]
  BY DEF NoMail
<1>1. ASSUME NEW c \in Challenges, SendBegin(w, c) PROVE TypeOK'
  <2>1. call' \in [Workers -> Requests]
    BY <1>0, <1>1, <1>a, Moves DEF SendBegin
  <2> QED
    BY <1>1, <2>1 DEF SendBegin, TypeOK, Requests
<1>2. CASE SendCount(w)
  <2>1. call' \in [Workers -> Requests]
    BY <1>0, <1>2, <1>a, Moves DEF SendCount
  <2>2. \A n \in 0..(MaxSends + 1) :
           Bump(n, MaxSends + 1) \in 0..(MaxSends + 1)
    BY BumpType, SignInAssumption
  <2>3. sends' \in [Challenges -> 0..(MaxSends + 1)]
    BY <1>2, <2>2 DEF SendCount, TypeOK
  <2> QED
    BY <1>2, <2>1, <2>3 DEF SendCount, TypeOK, Requests
<1>3. CASE SendDelete(w)
  <2>1. call' \in [Workers -> Requests]
    BY <1>3, <1>a, Moves DEF SendDelete
  <2> QED
    BY <1>3, <1>b, <2>1 DEF SendDelete, TypeOK, Requests
<1>4. ASSUME NEW e \in Mails, SendCreate(w, e) PROVE TypeOK'
  <2>1. call' \in [Workers -> Requests]
    BY <1>4, <1>a, Moves DEF SendCreate
  <2> QED
    BY <1>4, <2>1 DEF SendCreate, TypeOK, Requests
<1>5. ASSUME NEW delivered \in BOOLEAN, SendMail(w, delivered) PROVE TypeOK'
  <2>1. call' \in [Workers -> Requests]
    BY <1>5, <1>a, Moves DEF SendMail
  <2> QED
    BY <1>5, <1>b, <2>1 DEF SendMail, TypeOK, Requests
<1> QED
  BY <1>1, <1>2, <1>3, <1>4, <1>5 DEF SendEmailOtp

(***************************************************************************)
(* Every step keeps TypeOK.                                                *)
(***************************************************************************)
LEMMA TypeStep ==
    ASSUME TypeOK, [Next]_vars PROVE TypeOK'
<1>1. ASSUME NEW w \in Workers, Login(w) \/ SendEmailOtp(w) PROVE TypeOK'
  BY <1>1, LoginType, SendType
<1>2. ASSUME NEW w \in Workers, CompleteMfaLogin(w) PROVE TypeOK'
  BY <1>2, AdmissionType, FactorType, OutcomeType DEF CompleteMfaLogin
<1> USE DEF redisVars, codeVars
<1>3. CASE UnlockUser \/ LockRunsOut
  BY <1>3, SignInAssumption DEF UnlockUser, LockRunsOut, TypeOK
<1>4. CASE ThrottleExpires
  <2>1. 0 \in 0..(ThrottleMax + 1) /\ 0 \in Nat
    BY SignInAssumption
  <2> QED
    BY <1>4, <2>1 DEF ThrottleExpires, TypeOK
<1>5. CASE Restart
  <2>1. call' \in [Workers -> Requests]
    BY <1>5, IdleType DEF Restart
  <2> QED
    BY <1>5, <2>1 DEF Restart, TypeOK, Requests
<1>6. ASSUME NEW S \in BackupSets, RegenerateBackupCodes(S) PROVE TypeOK'
  BY <1>6 DEF RegenerateBackupCodes, TypeOK, BackupCodes
<1>7. ASSUME NEW c \in Challenges, ChallengeExpires(c) \/ CountersExpire(c)
      PROVE  TypeOK'
  BY <1>7, SignInAssumption DEF ChallengeExpires, CountersExpire, TypeOK
<1>8. ASSUME NEW e \in Mails, EmailExpires(e) PROVE TypeOK'
  BY <1>8 DEF EmailExpires, TypeOK
<1>9. CASE UNCHANGED vars
  BY <1>9 DEF vars, TypeOK
<1> QED
  BY <1>1, <1>2, <1>3, <1>4, <1>5, <1>6, <1>7, <1>8, <1>9 DEF Next

LEMMA InitType == Init => TypeOK
<1>1. /\ 0 \in 0..(Threshold - 1) /\ 0 \in 0..MaxAttempts
      /\ 0 \in 0..(MaxSends + 1) /\ 0 \in 0..(ThrottleMax + 1)
  BY SignInAssumption
<1>2. \A S \in BackupSets : S \subseteq BackupCodes
  BY DEF BackupCodes
<1> SUFFICES ASSUME Init PROVE TypeOK
  OBVIOUS
<1>3. call \in [Workers -> Requests]
  BY IdleType DEF Init
<1>4. backup \subseteq BackupCodes
  BY <1>2 DEF Init
<1> QED
  BY <1>1, <1>3, <1>4 DEF Init, TypeOK, Requests

(***************************************************************************)
(* Every variable keeps its type: no counter leaves its range, and a       *)
(* request always holds codes and a count the account once had.            *)
(***************************************************************************)
THEOREM TypeCorrect == Spec => []TypeOK
<1>1. Init => TypeOK
  BY InitType
<1>2. TypeOK /\ [Next]_vars => TypeOK'
  BY TypeStep
<1> QED
  BY <1>1, <1>2, PTL DEF Spec

-----------------------------------------------------------------------------
(***************************************************************************)
(* The bound on the codes checked in a window.  `checked` alone is not     *)
(* inductive: what counts is the codes checked and those about to be, and  *)
(* each of these was either counted by the throttle or admitted before its *)
(* counter was last at zero.                                               *)
(***************************************************************************)
Waiting == {x \in Workers : call[x].at \in Admitted}

CountedSoFar == IF throttle < ThrottleMax THEN throttle ELSE ThrottleMax

WindowInv ==
    checked + Cardinality(Waiting) <= CountedSoFar + Cardinality(Workers)

LEMMA WaitingFinite ==
    /\ IsFiniteSet(Waiting) /\ Cardinality(Waiting) \in Nat
    /\ Cardinality(Workers) \in Nat
    /\ Cardinality(Waiting) <= Cardinality(Workers)
<1>1. Waiting \subseteq Workers
  BY DEF Waiting
<1> QED
  BY <1>1, FS_Subset, FS_CardinalityType, SignInAssumption

LEMMA CountedType ==
    ASSUME TypeOK PROVE CountedSoFar \in Nat /\ CountedSoFar <= ThrottleMax
  BY SignInAssumption DEF TypeOK, CountedSoFar

(***************************************************************************)
(* Steps that admit no request and check no code.                          *)
(***************************************************************************)
NobodyJoins ==
    \A x \in Workers : call'[x].at \in Admitted => call[x].at \in Admitted

LEMMA Quiet ==
    ASSUME TypeOK, WindowInv, NobodyJoins, checked' = checked,
           throttle' = throttle
    PROVE  WindowInv'
<1>1. Waiting' \subseteq Waiting
  BY DEF Waiting, NobodyJoins
<1>2. /\ IsFiniteSet(Waiting) /\ Cardinality(Waiting) \in Nat
      /\ Cardinality(Workers) \in Nat
  BY WaitingFinite
<1>3. Cardinality(Waiting') <= Cardinality(Waiting)
      /\ Cardinality(Waiting') \in Nat
  BY <1>1, <1>2, FS_Subset, FS_CardinalityType
<1>4. CountedSoFar' = CountedSoFar /\ CountedSoFar \in Nat
  BY CountedType DEF CountedSoFar
<1>5. checked \in Nat
  BY DEF TypeOK
<1> QED
  BY <1>2, <1>3, <1>4, <1>5 DEF WindowInv

LEMMA StaysOut ==
    ASSUME TypeOK, NEW w \in Workers, NEW req, req.at \notin Admitted,
           call' = [call EXCEPT ![w] = req]
    PROVE  NobodyJoins
  BY DEF TypeOK, NobodyJoins

LEMMA Leaves ==
    ASSUME TypeOK, NEW w \in Workers, NEW where, where \notin Admitted,
           Finish(w) \/ GoOn(w, where)
    PROVE  /\ call'[w].at \notin Admitted
           /\ \A x \in Workers \ {w} : call'[x] = call[x]
           /\ NobodyJoins
<1>1. call \in [Workers -> Requests]
  BY DEF TypeOK, Requests
<1>2. Idle.at \notin Admitted
  BY DEF Idle, Admitted
<1>3. [Idle EXCEPT !.at = where, !.ch = Ch(w)].at \notin Admitted
  BY DEF Idle
<1>4. CASE Finish(w)
  BY <1>1, <1>2, <1>4, StaysOut DEF Finish
<1>5. CASE GoOn(w, where)
  BY <1>1, <1>3, <1>5, StaysOut DEF GoOn
<1> QED
  BY <1>4, <1>5

LEMMA LoginWindow ==
    ASSUME TypeOK, WindowInv, NEW w \in Workers, Login(w) PROVE WindowInv'
<1>1. "compare" \notin Admitted /\ "idle" \notin Admitted
  BY DEF Admitted
<1>2. Idle.at \notin Admitted
  BY <1>1 DEF Idle
<1>3. \A n, b : [Idle EXCEPT !.at = "compare", !.saw = n,
                           !.clean = b].at \notin Admitted
  BY <1>1 DEF Idle
<1>4. NobodyJoins
  <2>1. CASE LoginBegin(w)
    BY <2>1, <1>3, StaysOut DEF LoginBegin
  <2>2. CASE LoginWrong(w) \/ \E c \in Challenges : LoginRight(w, c)
    BY <2>2, <1>2, StaysOut DEF LoginWrong, LoginRight, Finish
  <2> QED
    BY <2>1, <2>2 DEF Login
<1>5. checked' = checked /\ throttle' = throttle
  BY DEF Login, LoginBegin, LoginWrong, LoginRight, redisVars
<1> QED
  BY <1>4, <1>5, Quiet

(***************************************************************************)
(* A request that is admitted is counted, unless the counter is full.      *)
(***************************************************************************)
LEMMA ThrottleWindow ==
    ASSUME TypeOK, WindowInv, NEW w \in Workers, Throttle(w)
    PROVE  WindowInv'
<1> DEFINE W == Cardinality(Workers)
           N == Cardinality(Waiting)
<1>1. /\ call \in [Workers -> Requests] /\ checked \in Nat
      /\ throttle \in 0..(ThrottleMax + 1) /\ ThrottleMax \in Nat \ {0}
  BY SignInAssumption DEF TypeOK, Requests
<1>2. call[w].at = "throttle" /\ checked' = checked
  BY DEF Throttle, At
<1>3. w \notin Waiting
  BY <1>2 DEF Waiting, Admitted
<1>4. IsFiniteSet(Waiting) /\ N \in Nat /\ W \in Nat
  BY WaitingFinite
<1>5. checked + N <= CountedSoFar + W
  BY DEF WindowInv
<1>6. CASE throttle < ThrottleMax
  <2>1. \/ call' = [call EXCEPT ![w].at = "expire"]
        \/ call' = [call EXCEPT ![w].at = "check"]
    BY <1>1, <1>6 DEF Throttle, Goto, Counted
  <2>2. Waiting' = Waiting \cup {w}
    BY <1>1, <2>1 DEF Waiting, Admitted, Requests
  <2>3. Cardinality(Waiting') = N + 1
    BY <1>3, <1>4, <2>2, FS_AddElement
  <2>4. CountedSoFar = throttle /\ CountedSoFar' = throttle + 1
    BY <1>1, <1>6 DEF CountedSoFar, Throttle, Bump
  <2>5. checked' + Cardinality(Waiting') <= CountedSoFar' + W
    BY <1>1, <1>2, <1>4, <1>5, <2>3, <2>4
  <2> QED
    BY <2>5 DEF WindowInv
<1>7. CASE ~(throttle < ThrottleMax)
  <2>1. call' = [call EXCEPT ![w] = Idle]
    BY <1>1, <1>7 DEF Throttle, Finish, Counted
  <2>2. NobodyJoins
    BY <2>1, StaysOut DEF Idle, Admitted
  <2>3. Waiting' \subseteq Waiting
    BY <2>2 DEF Waiting, NobodyJoins
  <2>4. Cardinality(Waiting') \in Nat /\ Cardinality(Waiting') <= N
    BY <1>4, <2>3, FS_Subset, FS_CardinalityType
  <2>5. CountedSoFar = ThrottleMax /\ CountedSoFar' = ThrottleMax
    BY <1>1, <1>7 DEF CountedSoFar, Throttle, Bump
  <2>6. checked' + Cardinality(Waiting') <= CountedSoFar' + W
    BY <1>1, <1>2, <1>4, <1>5, <2>4, <2>5
  <2> QED
    BY <2>6 DEF WindowInv
<1> QED
  BY <1>6, <1>7

(***************************************************************************)
(* A code that is checked is one request less that waits to.               *)
(***************************************************************************)
ChecksCode(w) ==
    \/ \E ok \in BOOLEAN : CheckTotp(w, ok)
    \/ \E e \in Mails : CheckEmail(w, e)
    \/ \E b \in BackupCodes : CheckBackup(w, b)

LEMMA CheckWindow ==
    ASSUME TypeOK, WindowInv, NEW w \in Workers, ChecksCode(w)
    PROVE  WindowInv'
<1> DEFINE W == Cardinality(Workers)
           N == Cardinality(Waiting)
<1>1. call \in [Workers -> Requests] /\ checked \in Nat
  BY DEF TypeOK, Requests
<1>2. /\ call[w].at = "check" /\ checked' = checked + 1
      /\ throttle' = throttle
  BY DEF ChecksCode, CheckTotp, CheckEmail, CheckBackup, At, redisVars
<1>a. /\ "clear" \notin Admitted /\ "recordFailure" \notin Admitted
      /\ "useEmail" \notin Admitted /\ "useBackup" \notin Admitted
  BY DEF Admitted
<1>3. /\ call'[w].at \notin Admitted
      /\ \A x \in Workers \ {w} : call'[x] = call[x]
  <2>1. CASE GoOn(w, "clear") \/ GoOn(w, "recordFailure")
    BY <1>a, <2>1, Leaves
  <2>2. CASE \E e \in Mails :
               call' = [call EXCEPT ![w].at = "useEmail", ![w].code = e]
    BY <1>1, <1>a, <2>2 DEF Requests
  <2>3. CASE \E b \in BackupCodes :
               call' = [call EXCEPT ![w].at = "useBackup", ![w].code = b]
    BY <1>1, <1>a, <2>3 DEF Requests
  <2> QED
    BY <2>1, <2>2, <2>3 DEF ChecksCode, CheckTotp, CheckEmail, CheckBackup
<1>4. w \in Waiting /\ Waiting' = Waiting \ {w}
  BY <1>1, <1>2, <1>3 DEF Waiting, Admitted
<1>5. IsFiniteSet(Waiting) /\ N \in Nat /\ W \in Nat
  BY WaitingFinite
<1>6. Cardinality(Waiting') = N - 1
  BY <1>4, <1>5, FS_RemoveElement
<1>7. CountedSoFar' = CountedSoFar /\ CountedSoFar \in Nat
  BY <1>2, CountedType DEF CountedSoFar
<1>8. checked + N <= CountedSoFar + W
  BY DEF WindowInv
<1>9. checked' + Cardinality(Waiting') <= CountedSoFar' + W
  BY <1>1, <1>2, <1>5, <1>6, <1>7, <1>8
<1> QED
  BY <1>9 DEF WindowInv

LEMMA RestWindow ==
    ASSUME TypeOK, WindowInv, NEW w \in Workers,
           \/ CompleteMfaLogin(w) /\ ~Throttle(w) /\ ~ChecksCode(w)
           \/ SendEmailOtp(w)
    PROVE  WindowInv'
<1>1. call \in [Workers -> Requests]
  BY DEF TypeOK, Requests
<1>2. checked' = checked /\ throttle' = throttle
  BY DEF CompleteMfaLogin, ChecksCode, VerifyFactor, MfaBegin, ReadUser,
         SetExpiry, UseEmail, UseBackup, RecordChallengeFailure,
         ClearChallengeAttempts, SendEmailOtp, SendBegin, SendCount,
         SendDelete, SendCreate, SendMail, redisVars
<1>3. ASSUME \/ \E c \in Challenges : MfaBegin(w, c) \/ SendBegin(w, c)
             \/ ReadUser(w) \/ SetExpiry(w)
      PROVE  NobodyJoins
  BY <1>1, <1>3
     DEF MfaBegin, SendBegin, ReadUser, SetExpiry, Goto, At, NobodyJoins,
         Idle, Admitted, Requests
<1>4. ASSUME \/ UseEmail(w) \/ UseBackup(w) \/ RecordChallengeFailure(w)
             \/ ClearChallengeAttempts(w)
      PROVE  NobodyJoins
  <2>1. Finish(w) \/ GoOn(w, "clear")
    BY <1>4
       DEF UseEmail, UseBackup, RecordChallengeFailure,
           ClearChallengeAttempts
  <2> QED
    BY <2>1, Leaves DEF Admitted
<1>5. ASSUME \/ SendCount(w) \/ SendDelete(w)
             \/ \E e \in Mails : SendCreate(w, e)
             \/ \E delivered \in BOOLEAN : SendMail(w, delivered)
      PROVE  NobodyJoins
  BY <1>1, <1>5
     DEF SendCount, SendDelete, SendCreate, SendMail, Finish, Goto,
         NobodyJoins, Idle, Admitted, Requests
<1>6. NobodyJoins
  BY <1>3, <1>4, <1>5
     DEF CompleteMfaLogin, SendEmailOtp, VerifyFactor, ChecksCode
<1> QED
  BY <1>2, <1>6, Quiet

(***************************************************************************)
(* The window ends: whoever waits by then is one of Workers.               *)
(***************************************************************************)
LEMMA ExpiryWindow ==
    ASSUME TypeOK, WindowInv, ThrottleExpires PROVE WindowInv'
<1>1. Waiting' = Waiting /\ checked' = 0 /\ throttle' = 0
  BY DEF ThrottleExpires, Waiting
<1>2. CountedSoFar' = 0
  BY <1>1, SignInAssumption DEF CountedSoFar
<1>3. /\ Cardinality(Waiting) \in Nat /\ Cardinality(Workers) \in Nat
      /\ Cardinality(Waiting) <= Cardinality(Workers)
  BY WaitingFinite
<1>4. Cardinality(Waiting') = Cardinality(Waiting)
  BY <1>1
<1>5. checked' + Cardinality(Waiting')
        <= CountedSoFar' + Cardinality(Workers)
  BY <1>1, <1>2, <1>3, <1>4
<1> QED
  BY <1>5 DEF WindowInv

LEMMA OthersWindow ==
    ASSUME TypeOK, WindowInv,
           \/ UnlockUser \/ LockRunsOut \/ Restart
           \/ \E S \in BackupSets : RegenerateBackupCodes(S)
           \/ \E c \in Challenges : ChallengeExpires(c) \/ CountersExpire(c)
           \/ \E e \in Mails : EmailExpires(e)
           \/ UNCHANGED vars
    PROVE  WindowInv'
<1>1. checked' = checked /\ throttle' = throttle
  BY DEF UnlockUser, LockRunsOut, Restart, RegenerateBackupCodes, redisVars,
         ChallengeExpires, CountersExpire, EmailExpires, vars
<1>2. call' = call \/ call' = [x \in Workers |-> Idle]
  BY DEF UnlockUser, LockRunsOut, Restart, RegenerateBackupCodes,
         ChallengeExpires, CountersExpire, EmailExpires, vars
<1>3. NobodyJoins
  BY <1>2 DEF NobodyJoins, Idle, Admitted
<1> QED
  BY <1>1, <1>3, Quiet

LEMMA WindowStep ==
    ASSUME TypeOK, WindowInv, [Next]_vars PROVE WindowInv'
<1>1. ASSUME NEW w \in Workers,
             Login(w) \/ CompleteMfaLogin(w) \/ SendEmailOtp(w)
      PROVE  WindowInv'
  BY <1>1, LoginWindow, ThrottleWindow, CheckWindow, RestWindow
<1>2. CASE ThrottleExpires
  BY <1>2, ExpiryWindow
<1> QED
  BY <1>1, <1>2, OthersWindow DEF Next

LEMMA InitWindow == Init => WindowInv
<1> SUFFICES ASSUME Init PROVE WindowInv
  OBVIOUS
<1>1. CountedSoFar = 0 /\ checked = 0
  BY SignInAssumption DEF Init, CountedSoFar
<1>2. /\ Cardinality(Waiting) \in Nat /\ Cardinality(Workers) \in Nat
      /\ Cardinality(Waiting) <= Cardinality(Workers)
  BY WaitingFinite
<1> QED
  BY <1>1, <1>2 DEF WindowInv

LEMMA WindowBounds ==
    ASSUME TypeOK, WindowInv PROVE CodesPerWindowBounded
<1>1. CountedSoFar \in Nat /\ CountedSoFar <= ThrottleMax
  BY CountedType
<1>2. /\ Cardinality(Waiting) \in Nat /\ Cardinality(Workers) \in Nat
      /\ checked \in Nat /\ ThrottleMax \in Nat
      /\ checked + Cardinality(Waiting) <= CountedSoFar + Cardinality(Workers)
  BY WaitingFinite, SignInAssumption DEF TypeOK, WindowInv
<1>3. checked <= ThrottleMax + Cardinality(Workers)
  BY <1>1, <1>2
<1> QED
  BY <1>3 DEF CodesPerWindowBounded

(***************************************************************************)
(* isUserThrottled: whatever challenges are issued, however requests       *)
(* interleave and wherever the process stops, the codes that are checked   *)
(* in one life of the counter stay within USER_THROTTLE_MAX and the        *)
(* requests in flight.                                                     *)
(***************************************************************************)
THEOREM CodesAreBounded == Spec => []CodesPerWindowBounded
<1>1. Init => TypeOK /\ WindowInv
  BY InitType, InitWindow
<1>2. TypeOK /\ WindowInv /\ [Next]_vars => TypeOK' /\ WindowInv'
  BY TypeStep, WindowStep
<1>3. TypeOK /\ WindowInv => CodesPerWindowBounded
  BY WindowBounds
<1> QED
  BY <1>1, <1>2, <1>3, PTL DEF Spec

-----------------------------------------------------------------------------
(***************************************************************************)
(* The rest shows what the promises about counters and codes rely on: each *)
(* of them holds as long as no request works on a copy that another one    *)
(* makes stale.  First, what a step leaves alone.                          *)
(***************************************************************************)
LEMMA OthersWait ==
    ASSUME TypeOK, NEW w \in Workers,
           Login(w) \/ CompleteMfaLogin(w) \/ SendEmailOtp(w),
           NEW x \in Workers, x # w
    PROVE  call'[x] = call[x]
<1>1. call \in [Workers -> Requests]
  BY DEF TypeOK, Requests
<1>2. CASE Login(w)
  BY <1>1, <1>2 DEF Login, LoginBegin, LoginWrong, LoginRight, Finish
<1>3. CASE CompleteMfaLogin(w)
  BY <1>1, <1>3
     DEF CompleteMfaLogin, MfaBegin, ReadUser, Throttle, SetExpiry,
         VerifyFactor, CheckTotp, CheckEmail, UseEmail, CheckBackup, UseBackup,
         RecordChallengeFailure, ClearChallengeAttempts, Goto, GoOn, Finish
<1>4. CASE SendEmailOtp(w)
  BY <1>1, <1>4
     DEF SendEmailOtp, SendBegin, SendCount, SendDelete, SendCreate, SendMail,
         Goto, Finish
<1> QED
  BY <1>2, <1>3, <1>4

(***************************************************************************)
(* Where a request may go: out of login nowhere, and from one step of a    *)
(* second factor to the next.                                              *)
(***************************************************************************)
LEMMA OwnMoves ==
    ASSUME TypeOK, NEW w \in Workers
    PROVE  /\ LoginWrong(w) \/ (\E c \in Challenges : LoginRight(w, c)) =>
                call'[w].at = "idle"
           /\ SendEmailOtp(w) =>
                call'[w].at \in {"idle", "sendCount", "sendDelete",
                                 "sendCreate", "sendMail"}
           /\ CompleteMfaLogin(w) => call'[w].at # "compare"
<1>1. call \in [Workers -> Requests]
  BY DEF TypeOK, Requests
<1>2. LoginWrong(w) \/ (\E c \in Challenges : LoginRight(w, c)) =>
        call'[w].at = "idle"
  BY <1>1 DEF LoginWrong, LoginRight, Finish, Idle
<1>a. ASSUME NEW where, Goto(w, where) \/ GoOn(w, where)
      PROVE  call'[w].at = where
  BY <1>1, <1>a DEF Goto, GoOn, Idle, Requests
<1>b. Finish(w) => call'[w].at = "idle"
  BY <1>1 DEF Finish, Idle
<1>3. ASSUME SendEmailOtp(w)
      PROVE  call'[w].at \in {"idle", "sendCount", "sendDelete", "sendCreate",
                             "sendMail"}
  <2>1. CASE \E c \in Challenges : SendBegin(w, c)
    BY <1>1, <2>1 DEF SendBegin, Idle
  <2>2. CASE SendCount(w)
    BY <1>1, <1>b, <2>2 DEF SendCount, Idle
  <2>3. CASE SendDelete(w) \/ \E e \in Mails : SendCreate(w, e)
    BY <1>a, <2>3 DEF SendDelete, SendCreate
  <2>4. CASE \E delivered \in BOOLEAN : SendMail(w, delivered)
    BY <1>b, <2>4 DEF SendMail
  <2> QED
    BY <1>3, <2>1, <2>2, <2>3, <2>4 DEF SendEmailOtp
<1>4. ASSUME CompleteMfaLogin(w) PROVE call'[w].at # "compare"
  <2>1. CASE (\E c \in Challenges : MfaBegin(w, c)) \/ ReadUser(w)
    <3>1. CASE \E c \in Challenges : MfaBegin(w, c)
      BY <1>1, <3>1 DEF MfaBegin, Idle
    <3>2. CASE ReadUser(w)
      <4>1. call'[w] = [call[w] EXCEPT !.at = "throttle", !.codes = backup]
        BY <1>1, <3>2 DEF ReadUser
      <4> QED
        BY <1>1, <4>1 DEF Requests
    <3> QED
      BY <2>1, <3>1, <3>2
  <2>2. CASE Throttle(w) \/ SetExpiry(w)
    <3>1. Goto(w, "expire") \/ Goto(w, "check") \/ Finish(w)
      BY <2>2 DEF Throttle, SetExpiry
    <3> QED
      BY <1>a, <1>b, <3>1
  <2>3. CASE UseEmail(w) \/ UseBackup(w)
    BY <1>a, <1>b, <2>3 DEF UseEmail, UseBackup
  <2>4. CASE RecordChallengeFailure(w) \/ ClearChallengeAttempts(w)
    BY <1>b, <2>4 DEF RecordChallengeFailure, ClearChallengeAttempts
  <2>5. ASSUME NEW ok \in BOOLEAN, CheckTotp(w, ok)
        PROVE  call'[w].at # "compare"
    BY <1>a, <2>5 DEF CheckTotp
  <2>6. ASSUME NEW e \in Mails, CheckEmail(w, e)
        PROVE  call'[w].at # "compare"
    BY <1>1, <1>a, <2>6 DEF CheckEmail, Requests
  <2>7. ASSUME NEW b \in BackupCodes, CheckBackup(w, b)
        PROVE  call'[w].at # "compare"
    BY <1>1, <1>a, <2>7 DEF CheckBackup, Requests
  <2> QED
    BY <1>4, <2>1, <2>2, <2>3, <2>4, <2>5, <2>6, <2>7
       DEF CompleteMfaLogin, VerifyFactor
<1> QED
  BY <1>2, <1>3, <1>4

(***************************************************************************)
(* The steps of the environment move no request: they leave `call` alone,  *)
(* or make every request idle.                                             *)
(***************************************************************************)
Outside ==
    \/ UnlockUser \/ LockRunsOut \/ ThrottleExpires \/ Restart
    \/ \E S \in BackupSets : RegenerateBackupCodes(S)
    \/ \E c \in Challenges : ChallengeExpires(c) \/ CountersExpire(c)
    \/ \E e \in Mails : EmailExpires(e)
    \/ UNCHANGED vars

LEMMA OutsideMoves ==
    ASSUME TypeOK, Outside
    PROVE  \A w \in Workers : call'[w] = call[w] \/ call'[w] = Idle
  BY DEF Outside, UnlockUser, LockRunsOut, ThrottleExpires, Restart,
         RegenerateBackupCodes, ChallengeExpires, CountersExpire, EmailExpires,
         vars

(***************************************************************************)
(* Failed passwords.  Alone in comparing a password, a request writes back *)
(* the count the row still has, and finds the account unlocked.            *)
(***************************************************************************)
FreshCount == \A w \in Workers : At(w, "compare") => call[w].saw = failed
ComparedUnlocked == \A w \in Workers : At(w, "compare") => lock # "locked"

LEMMA LoginStep ==
    ASSUME TypeOK, [Next]_vars, OneLoginAtATime
    PROVE  /\ ComparedUnlocked => ComparedUnlocked'
           /\ FreshCount
              /\ [UnlockUser => \A w \in Workers : ~At(w, "compare")]_vars
                => FreshCount'
<1> DEFINE Calm == [UnlockUser => \A w \in Workers : ~At(w, "compare")]_vars
           Goal == /\ ComparedUnlocked => ComparedUnlocked'
                   /\ FreshCount /\ Calm => FreshCount'
<1>0. call \in [Workers -> Requests]
  BY DEF TypeOK, Requests
<1>1. ASSUME NEW w \in Workers, LoginBegin(w) PROVE Goal
  <2>1. /\ call'[w].saw = failed /\ failed' = failed
        /\ lock # "locked" /\ lock' = lock
    BY <1>0, <1>1 DEF LoginBegin, Idle
  <2>2. \A x \in Workers : x # w => call'[x] = call[x]
    BY <1>1, OthersWait DEF Login
  <2> QED
    BY <2>1, <2>2 DEF FreshCount, ComparedUnlocked, At
<1>2. ASSUME NEW w \in Workers,
             LoginWrong(w) \/ \E c \in Challenges : LoginRight(w, c)
      PROVE  Goal
  <2>1. At(w, "compare") /\ call'[w].at = "idle"
    BY <1>2, OwnMoves DEF LoginWrong, LoginRight
  <2>2. \A x \in Workers : x # w => call'[x] = call[x] /\ ~At(x, "compare")
    BY <1>2, <2>1, OthersWait DEF Login, OneLoginAtATime
  <2>3. \A x \in Workers : ~At(x, "compare")'
    BY <2>1, <2>2 DEF At
  <2> QED
    BY <2>3 DEF FreshCount, ComparedUnlocked
<1>3. ASSUME NEW w \in Workers, CompleteMfaLogin(w) \/ SendEmailOtp(w)
      PROVE  Goal
  <2>1. failed' = failed /\ lock' = lock
    BY <1>3
       DEF CompleteMfaLogin, MfaBegin, ReadUser, Throttle, SetExpiry,
           VerifyFactor, CheckTotp, CheckEmail, UseEmail, CheckBackup,
           UseBackup, RecordChallengeFailure, ClearChallengeAttempts,
           SendEmailOtp, SendBegin, SendCount, SendDelete, SendCreate, SendMail
  <2>2. \A x \in Workers : x # w => call'[x] = call[x]
    BY <1>3, OthersWait
  <2>3. call'[w].at # "compare"
    BY <1>3, OwnMoves
  <2> QED
    BY <2>1, <2>2, <2>3 DEF FreshCount, ComparedUnlocked, At
<1>4. ASSUME Outside PROVE Goal
  <2>1. \A w \in Workers :
           At(w, "compare")' => At(w, "compare") /\ call'[w] = call[w]
    BY <1>4, OutsideMoves DEF At, Idle
  <2>2. lock' = lock \/ lock' \in {"none", "past"}
    BY <1>4 DEF Outside, UnlockUser, LockRunsOut, ThrottleExpires, Restart,
         RegenerateBackupCodes, ChallengeExpires, CountersExpire, EmailExpires,
         vars
  <2>3. failed' = failed \/ UnlockUser
    BY <1>4 DEF Outside, LockRunsOut, ThrottleExpires, Restart,
         RegenerateBackupCodes, ChallengeExpires, CountersExpire, EmailExpires,
         vars
  <2>4. ComparedUnlocked => ComparedUnlocked'
    BY <2>1, <2>2 DEF ComparedUnlocked, At
  <2>5. ASSUME FreshCount, Calm, ~(failed' = failed)
        PROVE  \A w \in Workers : ~At(w, "compare")
    BY <2>3, <2>5 DEF vars
  <2>6. FreshCount /\ Calm => FreshCount'
    BY <2>1, <2>5 DEF FreshCount, At
  <2> QED
    BY <2>4, <2>6
<1> QED
  BY <1>1, <1>2, <1>3, <1>4 DEF Next, Login, Outside

(***************************************************************************)
(* authService.js, recordFailedLogin: a lock is taken off by an            *)
(* administrator alone, as long as passwords are compared one at a time.   *)
(***************************************************************************)
THEOREM LockStandsWithoutOverlap == Spec /\ []OneLoginAtATime => LockStands
<1>1. Init => ComparedUnlocked
  BY DEF Init, ComparedUnlocked, At, Idle
<1>2. TypeOK /\ ComparedUnlocked /\ OneLoginAtATime /\ [Next]_vars
        => ComparedUnlocked'
  BY LoginStep
<1>3. TypeOK /\ ComparedUnlocked /\ [Next]_vars
        => [lock = "locked" /\ lock' = "none" => UnlockUser]_vars
  <2> SUFFICES ASSUME TypeOK, ComparedUnlocked, [Next]_vars,
                      lock = "locked", lock' = "none"
               PROVE  UnlockUser
    OBVIOUS
  <2>1. ASSUME NEW w \in Workers, Login(w) PROVE FALSE
    BY <2>1 DEF Login, LoginBegin, LoginWrong, LoginRight, ComparedUnlocked
  <2>2. ASSUME NEW w \in Workers, CompleteMfaLogin(w) \/ SendEmailOtp(w)
        PROVE  FALSE
    BY <2>2
       DEF CompleteMfaLogin, MfaBegin, ReadUser, Throttle, SetExpiry,
           VerifyFactor, CheckTotp, CheckEmail, UseEmail, CheckBackup,
           UseBackup, RecordChallengeFailure, ClearChallengeAttempts,
           SendEmailOtp, SendBegin, SendCount, SendDelete, SendCreate, SendMail
  <2> QED
    BY <2>1, <2>2
       DEF Next, LockRunsOut, ThrottleExpires, Restart, RegenerateBackupCodes,
           ChallengeExpires, CountersExpire, EmailExpires, vars
<1> QED
  BY <1>1, <1>2, <1>3, TypeCorrect, PTL DEF Spec, LockStands

(***************************************************************************)
(* Every failed login counts, as long as passwords are compared one at a   *)
(* time and nobody unlocks the account meanwhile.                          *)
(***************************************************************************)
THEOREM FailuresCountWithoutOverlap ==
    Spec /\ []OneLoginAtATime /\ NoUnlockMeanwhile => EveryFailureCounts
<1> DEFINE Counts == \A w \in Workers :
                       LoginWrong(w) => failed' = failed + 1 \/ lock' = "locked"
<1>1. Init => FreshCount
  BY DEF Init, FreshCount, At, Idle
<1>2. TypeOK /\ FreshCount /\ OneLoginAtATime /\ [Next]_vars
        /\ [UnlockUser => \A w \in Workers : ~At(w, "compare")]_vars
          => FreshCount'
  BY LoginStep
<1>3. TypeOK /\ FreshCount => [Counts]_vars
  BY SignInAssumption DEF FreshCount, LoginWrong, CountAfter, TypeOK
<1> QED
  BY <1>1, <1>2, <1>3, TypeCorrect, PTL
     DEF Spec, NoUnlockMeanwhile, EveryFailureCounts

-----------------------------------------------------------------------------
(***************************************************************************)
(* Backup codes.  While the list changes only when nobody else holds a     *)
(* copy of it, every copy is the list, and the code about to be taken off  *)
(* is on it.                                                               *)
(***************************************************************************)
CopiesAreFresh ==
    \A w \in Workers :
        /\ HoldsCodes(w) => call[w].codes = backup
        /\ At(w, "useBackup") => call[w].code \in call[w].codes

LEMMA CodesStep ==
    ASSUME TypeOK, [Next]_vars, CopiesAreFresh, OneUseOfCodes,
           [\A S \in BackupSets :
               RegenerateBackupCodes(S) => \A w \in Workers : ~HoldsCodes(w)]_vars
    PROVE  CopiesAreFresh'
<1>0. call \in [Workers -> Requests]
  BY DEF TypeOK, Requests
<1>a. ASSUME NEW w \in Workers,
             \A x \in Workers : x # w => call'[x] = call[x],
             call'[w].at \notin Admitted \cup {"throttle", "useBackup"},
             \/ backup' = backup
             \/ \A x \in Workers : x # w => ~HoldsCodes(x)
      PROVE  CopiesAreFresh'
  <2> SUFFICES ASSUME NEW x \in Workers,
                      HoldsCodes(x)' \/ At(x, "useBackup")'
               PROVE  /\ call'[x].codes = backup'
                      /\ At(x, "useBackup")' => call'[x].code \in call'[x].codes
    BY DEF CopiesAreFresh
  <2>1. x # w /\ call'[x] = call[x]
    BY <1>a DEF HoldsCodes, At
  <2>2. HoldsCodes(x)
    BY <2>1 DEF HoldsCodes, At
  <2> QED
    BY <1>a, <2>1, <2>2 DEF CopiesAreFresh, At
<1>b. ASSUME NEW w \in Workers, NEW where, where # "useBackup",
             HoldsCodes(w), Goto(w, where), backup' = backup
      PROVE  CopiesAreFresh'
  <2>1. call'[w] = [call[w] EXCEPT !.at = where]
    BY <1>0, <1>b DEF Goto
  <2>2. call'[w].codes = call[w].codes /\ call'[w].at = where
    BY <1>0, <2>1 DEF Requests
  <2>3. \A x \in Workers : x # w => call'[x] = call[x]
    BY <1>0, <1>b DEF Goto
  <2> QED
    BY <1>b, <2>2, <2>3 DEF CopiesAreFresh, HoldsCodes, At
<1>1. ASSUME NEW w \in Workers, Login(w) \/ SendEmailOtp(w)
      PROVE  CopiesAreFresh'
  <2>1. backup' = backup
    BY <1>1 DEF Login, LoginBegin, LoginWrong, LoginRight, SendEmailOtp,
                SendBegin, SendCount, SendDelete, SendCreate, SendMail, codeVars
  <2>2. call'[w].at \notin Admitted \cup {"throttle", "useBackup"}
    <3>1. LoginBegin(w) => call'[w].at = "compare"
      BY <1>0 DEF LoginBegin, Idle
    <3> QED
      BY <1>1, <3>1, OwnMoves DEF Login, Admitted
  <2> QED
    BY <1>1, <1>a, <2>1, <2>2, OthersWait
<1>2. ASSUME NEW w \in Workers, CompleteMfaLogin(w) PROVE CopiesAreFresh'
  <2>0. \A x \in Workers : x # w => call'[x] = call[x]
    BY <1>2, OthersWait
  <2>a. ASSUME NEW where, Goto(w, where) \/ GoOn(w, where)
        PROVE  call'[w].at = where
    BY <1>0, <2>a DEF Goto, GoOn, Idle, Requests
  <2>b. Finish(w) => call'[w].at = "idle"
    BY <1>0 DEF Finish, Idle
  <2>1. ASSUME NEW c \in Challenges, MfaBegin(w, c) PROVE CopiesAreFresh'
    <3>1. call'[w].at = "readUser" /\ backup' = backup
      BY <1>0, <2>1 DEF MfaBegin, Idle, codeVars
    <3> QED
      BY <1>a, <2>0, <3>1 DEF Admitted
  <2>2. CASE ReadUser(w)
    <3>1. call'[w] = [call[w] EXCEPT !.at = "throttle", !.codes = backup]
          /\ backup' = backup
      BY <1>0, <2>2 DEF ReadUser, codeVars
    <3>2. call'[w].at = "throttle" /\ call'[w].codes = backup'
      BY <1>0, <3>1 DEF Requests
    <3> QED
      BY <2>0, <3>1, <3>2 DEF CopiesAreFresh, HoldsCodes, At
  <2>3. CASE Throttle(w) \/ SetExpiry(w)
    <3>1. /\ HoldsCodes(w) /\ backup' = backup
          /\ Goto(w, "expire") \/ Goto(w, "check") \/ Finish(w)
      BY <2>3 DEF Throttle, SetExpiry, HoldsCodes, Admitted, At, codeVars
    <3> QED
      BY <1>a, <1>b, <2>0, <2>b, <3>1 DEF Admitted
  <2>4. ASSUME NEW ok \in BOOLEAN, CheckTotp(w, ok) PROVE CopiesAreFresh'
    <3>1. call'[w].at \in {"clear", "recordFailure"} /\ backup' = backup
      BY <2>a, <2>4 DEF CheckTotp, codeVars
    <3> QED
      BY <1>a, <2>0, <3>1 DEF Admitted
  <2>5. ASSUME NEW e \in Mails, CheckEmail(w, e) PROVE CopiesAreFresh'
    <3>1. call'[w].at \in {"useEmail", "recordFailure"} /\ backup' = backup
      BY <1>0, <2>a, <2>5 DEF CheckEmail, codeVars, Requests
    <3> QED
      BY <1>a, <2>0, <3>1 DEF Admitted
  <2>6. ASSUME NEW b \in BackupCodes, CheckBackup(w, b) PROVE CopiesAreFresh'
    <3>1. backup' = backup
      BY <2>6 DEF CheckBackup, codeVars
    <3>2. CASE b \in call[w].codes
      <4>1. call'[w] = [call[w] EXCEPT !.at = "useBackup", !.code = b]
        BY <1>0, <2>6, <3>2 DEF CheckBackup
      <4>2. call'[w].codes = call[w].codes /\ call'[w].code = b
        BY <1>0, <4>1 DEF Requests
      <4>3. call[w].codes = backup
        BY <2>6 DEF CheckBackup, CopiesAreFresh, HoldsCodes, Admitted, At
      <4> QED
        BY <2>0, <3>1, <3>2, <4>2, <4>3 DEF CopiesAreFresh, HoldsCodes, At
    <3>3. CASE b \notin call[w].codes
      <4>1. call'[w].at = "recordFailure"
        BY <2>a, <2>6, <3>3 DEF CheckBackup
      <4> QED
        BY <1>a, <2>0, <3>1, <4>1 DEF Admitted
    <3> QED
      BY <3>2, <3>3
  <2>7. CASE UseEmail(w)
    <3>1. call'[w].at \in {"idle", "clear"} /\ backup' = backup
      BY <2>a, <2>b, <2>7 DEF UseEmail
    <3> QED
      BY <1>a, <2>0, <3>1 DEF Admitted
  <2>8. CASE UseBackup(w)
    <3>1. call'[w].at = "clear"
      BY <2>a, <2>8 DEF UseBackup
    <3>2. \A x \in Workers : x # w => ~HoldsCodes(x)
      BY <2>8 DEF UseBackup, OneUseOfCodes
    <3> QED
      BY <1>a, <2>0, <3>1, <3>2 DEF Admitted
  <2>9. CASE RecordChallengeFailure(w) \/ ClearChallengeAttempts(w)
    <3>1. call'[w].at = "idle" /\ backup' = backup
      BY <2>b, <2>9 DEF RecordChallengeFailure, ClearChallengeAttempts, codeVars
    <3> QED
      BY <1>a, <2>0, <3>1 DEF Admitted
  <2> QED
    BY <1>2, <2>1, <2>2, <2>3, <2>4, <2>5, <2>6, <2>7, <2>8, <2>9
       DEF CompleteMfaLogin, VerifyFactor
<1>3. ASSUME Outside PROVE CopiesAreFresh'
  <2>1. \A w \in Workers :
           HoldsCodes(w)' => HoldsCodes(w) /\ call'[w] = call[w]
    BY <1>3, OutsideMoves DEF HoldsCodes, Admitted, Idle
  <2>2. backup' = backup \/ \E S \in BackupSets : RegenerateBackupCodes(S)
    BY <1>3 DEF Outside, UnlockUser, LockRunsOut, ThrottleExpires, Restart,
         ChallengeExpires, CountersExpire, EmailExpires, codeVars, vars
  <2>3. backup' # backup => \A w \in Workers : ~HoldsCodes(w)
    BY <2>2 DEF vars, codeVars
  <2> QED
    BY <2>1, <2>3 DEF CopiesAreFresh, HoldsCodes, At
<1> QED
  BY <1>1, <1>2, <1>3 DEF Next, Outside

(***************************************************************************)
(* A backup code is accepted once, and replaced codes stay dead, as long   *)
(* as a request that takes a code off the list, or one that replaces the   *)
(* list, finds no other request holding a copy of it.                      *)
(***************************************************************************)
THEOREM BackupCodesWithoutOverlap ==
    Spec /\ []OneUseOfCodes /\ NoNewCodesMeanwhile
        => BackupCodeOnce /\ OldCodesStayDead
<1> DEFINE Once == \A w \in Workers : UseBackup(w) => call[w].code \in backup
           Dead == backup' \subseteq backup \/ RegenerateBackupCodes(backup')
<1>1. Init => CopiesAreFresh
  BY DEF Init, CopiesAreFresh, HoldsCodes, Admitted, At, Idle
<1>2. TypeOK /\ CopiesAreFresh /\ OneUseOfCodes /\ [Next]_vars
        /\ [\A S \in BackupSets :
              RegenerateBackupCodes(S) =>
                  \A w \in Workers : ~HoldsCodes(w)]_vars
          => CopiesAreFresh'
  BY CodesStep
<1>3. CopiesAreFresh => [Once]_vars
  BY DEF CopiesAreFresh, UseBackup, HoldsCodes, At
<1>4. CopiesAreFresh /\ [Next]_vars => [Dead]_vars
  <2> SUFFICES ASSUME CopiesAreFresh, [Next]_vars,
                      ~ \E S \in BackupSets : RegenerateBackupCodes(S)
               PROVE  backup' \subseteq backup
    BY DEF RegenerateBackupCodes
  <2>1. ASSUME NEW w \in Workers,
               Login(w) \/ CompleteMfaLogin(w) \/ SendEmailOtp(w)
        PROVE  backup' = backup \/ UseBackup(w)
    BY <2>1
       DEF Login, LoginBegin, LoginWrong, LoginRight,
           CompleteMfaLogin, MfaBegin, ReadUser, Throttle, SetExpiry,
           VerifyFactor, CheckTotp, CheckEmail, UseEmail, CheckBackup,
           RecordChallengeFailure, ClearChallengeAttempts, SendEmailOtp,
           SendBegin, SendCount, SendDelete, SendCreate, SendMail, codeVars
  <2>2. ASSUME NEW w \in Workers, UseBackup(w) PROVE backup' \subseteq backup
    BY <2>2 DEF UseBackup, CopiesAreFresh, HoldsCodes, At
  <2> QED
    BY <2>1, <2>2
       DEF Next, UnlockUser, LockRunsOut, ThrottleExpires, Restart,
           ChallengeExpires, CountersExpire, EmailExpires, codeVars, vars
<1> QED
  BY <1>1, <1>2, <1>3, <1>4, TypeCorrect, PTL
     DEF Spec, NoNewCodesMeanwhile, BackupCodeOnce, OldCodesStayDead

-----------------------------------------------------------------------------
(***************************************************************************)
(* E-mail codes.  Between the check of a code and the statement that marks *)
(* it used, the code is still unused, if nobody else has found the same    *)
(* one valid.                                                              *)
(***************************************************************************)
FoundUnused ==
    \A w \in Workers :
        At(w, "useEmail") =>
            call[w].code \in Mails /\ mail[call[w].code] # "used"

\* What every step but UseEmail does to the codes, and who comes to use one.
LEMMA MailSteps ==
    ASSUME TypeOK, [Next]_vars, ~ \E w \in Workers : UseEmail(w)
    PROVE  /\ \A e \in Mails : mail'[e] = "used" => mail[e] = "used"
           /\ \A w \in Workers :
                 At(w, "useEmail")' =>
                    \/ At(w, "useEmail") /\ call'[w] = call[w]
                    \/ /\ call'[w].code \in Mails
                       /\ mail[call'[w].code] = "valid"
<1> DEFINE Codes == \A e \in Mails : mail'[e] = "used" => mail[e] = "used"
           Users(w) == At(w, "useEmail")' =>
                          \/ At(w, "useEmail") /\ call'[w] = call[w]
                          \/ /\ call'[w].code \in Mails
                             /\ mail[call'[w].code] = "valid"
           Goal == Codes /\ \A w \in Workers : Users(w)
<1>0. call \in [Workers -> Requests]
  BY DEF TypeOK, Requests
<1>m. mail \in [Mails -> {"none", "valid", "used", "expired"}]
  BY DEF TypeOK
<1>1. ASSUME NEW w \in Workers, Login(w) \/ SendEmailOtp(w) PROVE Goal
  <2>1. Codes
    <3>1. CASE Login(w)
      BY <3>1 DEF Login, LoginBegin, LoginWrong, LoginRight, codeVars
    <3>2. CASE SendEmailOtp(w)
      BY <1>m, <3>2 DEF SendEmailOtp, SendBegin, SendCount, SendDelete,
                        SendCreate, SendMail, NoMail, codeVars
    <3> QED
      BY <1>1, <3>1, <3>2
  <2>2. Users(w)
    <3>1. LoginBegin(w) => call'[w].at = "compare"
      BY <1>0 DEF LoginBegin, Idle
    <3> QED
      BY <1>1, <3>1, OwnMoves DEF Login, At
  <2> QED
    BY <1>1, <2>1, <2>2, OthersWait DEF At
<1>2. ASSUME NEW w \in Workers, CompleteMfaLogin(w) PROVE Goal
  <2>0. \A x \in Workers : x # w => call'[x] = call[x]
    BY <1>2, OthersWait
  <2>a. ASSUME NEW where, Goto(w, where) \/ GoOn(w, where)
        PROVE  call'[w].at = where
    BY <1>0, <2>a DEF Goto, GoOn, Idle, Requests
  <2>b. Finish(w) => call'[w].at = "idle"
    BY <1>0 DEF Finish, Idle
  <2>1. mail' = mail
    BY <1>2 DEF CompleteMfaLogin, MfaBegin, ReadUser, Throttle, SetExpiry,
         VerifyFactor, CheckTotp, CheckEmail, CheckBackup, UseBackup,
         RecordChallengeFailure, ClearChallengeAttempts, codeVars
  <2>2. Users(w)
    <3>1. CASE \E c \in Challenges : MfaBegin(w, c)
      BY <1>0, <3>1 DEF MfaBegin, Idle, At
    <3>2. CASE ReadUser(w)
      <4>1. call'[w] = [call[w] EXCEPT !.at = "throttle", !.codes = backup]
        BY <1>0, <3>2 DEF ReadUser
      <4> QED
        BY <1>0, <4>1 DEF Requests, At
    <3>3. CASE Throttle(w) \/ SetExpiry(w)
      <4>1. Goto(w, "expire") \/ Goto(w, "check") \/ Finish(w)
        BY <3>3 DEF Throttle, SetExpiry
      <4> QED
        BY <2>a, <2>b, <4>1 DEF At
    <3>4. ASSUME NEW ok \in BOOLEAN, CheckTotp(w, ok) PROVE Users(w)
      BY <2>a, <3>4 DEF CheckTotp, At
    <3>5. ASSUME NEW e \in Mails, CheckEmail(w, e) PROVE Users(w)
      <4>1. CASE mail[e] = "valid"
        <5>1. call'[w] = [call[w] EXCEPT !.at = "useEmail", !.code = e]
          BY <1>0, <3>5, <4>1 DEF CheckEmail
        <5>2. call'[w].code = e
          BY <1>0, <5>1 DEF Requests
        <5> QED
          BY <4>1, <5>2
      <4>2. CASE mail[e] # "valid"
        BY <2>a, <3>5, <4>2 DEF CheckEmail, At
      <4> QED
        BY <4>1, <4>2
    <3>6. ASSUME NEW b \in BackupCodes, CheckBackup(w, b) PROVE Users(w)
      <4>1. CASE b \in call[w].codes
        <5>1. call'[w] = [call[w] EXCEPT !.at = "useBackup", !.code = b]
          BY <1>0, <3>6, <4>1 DEF CheckBackup
        <5> QED
          BY <1>0, <5>1 DEF Requests, At
      <4>2. CASE b \notin call[w].codes
        BY <2>a, <3>6, <4>2 DEF CheckBackup, At
      <4> QED
        BY <4>1, <4>2
    <3>7. CASE UseBackup(w)
      BY <2>a, <3>7 DEF UseBackup, At
    <3>8. CASE RecordChallengeFailure(w) \/ ClearChallengeAttempts(w)
      BY <2>b, <3>8 DEF RecordChallengeFailure, ClearChallengeAttempts, At
    <3> QED
      BY <1>2, <3>1, <3>2, <3>3, <3>4, <3>5, <3>6, <3>7, <3>8
         DEF CompleteMfaLogin, VerifyFactor
  <2> QED
    BY <2>0, <2>1, <2>2 DEF At
<1>3. ASSUME Outside PROVE Goal
  <2>1. Codes
    BY <1>m, <1>3
       DEF Outside, UnlockUser, LockRunsOut, ThrottleExpires, Restart,
           RegenerateBackupCodes, ChallengeExpires, CountersExpire,
           EmailExpires, codeVars, vars
  <2> QED
    BY <1>3, <2>1, OutsideMoves DEF At, Idle
<1> QED
  BY <1>1, <1>2, <1>3 DEF Next, Outside

LEMMA FoundUnusedStep ==
    ASSUME TypeOK, [Next]_vars, FoundUnused, OneUseOfMail PROVE FoundUnused'
<1>0. call \in [Workers -> Requests]
  BY DEF TypeOK, Requests
<1>m. mail \in [Mails -> {"none", "valid", "used", "expired"}]
  BY DEF TypeOK
<1>1. ASSUME NEW w \in Workers, UseEmail(w) PROVE FoundUnused'
  <2>1. call'[w].at \in {"idle", "clear"}
    <3>1. Finish(w) \/ GoOn(w, "clear")
      BY <1>1 DEF UseEmail
    <3>2. Finish(w) => call'[w].at = "idle"
      BY <1>0 DEF Finish, Idle
    <3>3. GoOn(w, "clear") => call'[w].at = "clear"
      BY <1>0 DEF GoOn, Idle
    <3> QED
      BY <3>1, <3>2, <3>3
  <2>2. \A x \in Workers : x # w => call'[x] = call[x]
    BY <1>1, OthersWait DEF CompleteMfaLogin, VerifyFactor
  <2>3. At(w, "useEmail")
    BY <1>1 DEF UseEmail
  <2> SUFFICES ASSUME NEW x \in Workers, x # w, At(x, "useEmail")
               PROVE  /\ call[x].code \in Mails
                      /\ mail'[call[x].code] # "used"
    BY <2>1, <2>2 DEF FoundUnused, At
  <2>4. /\ call[x].code \in Mails /\ mail[call[x].code] # "used"
        /\ call[x].code # call[w].code
    BY <2>3 DEF FoundUnused, OneUseOfMail
  <2> QED
    BY <1>m, <1>1, <2>4 DEF UseEmail
<1>2. ASSUME ~ \E w \in Workers : UseEmail(w) PROVE FoundUnused'
  <2> SUFFICES ASSUME NEW w \in Workers, At(w, "useEmail")'
               PROVE  /\ call'[w].code \in Mails
                      /\ mail'[call'[w].code] # "used"
    BY DEF FoundUnused
  <2>1. call'[w].code \in Mails /\ mail[call'[w].code] # "used"
    BY <1>2, MailSteps DEF FoundUnused
  <2>2. \A e \in Mails : mail'[e] = "used" => mail[e] = "used"
    BY <1>2, MailSteps
  <2> QED
    BY <2>1, <2>2
<1> QED
  BY <1>1, <1>2

(***************************************************************************)
(* An e-mail code is accepted once, as long as no two requests have found  *)
(* the same code valid before either has marked it used.                   *)
(***************************************************************************)
THEOREM EmailCodeWithoutOverlap == Spec /\ []OneUseOfMail => EmailCodeOnce
<1>1. Init => FoundUnused
  BY DEF Init, FoundUnused, At, Idle
<1>2. TypeOK /\ FoundUnused /\ OneUseOfMail /\ [Next]_vars => FoundUnused'
  BY FoundUnusedStep
<1>3. FoundUnused =>
        [\A w \in Workers :
            UseEmail(w) /\ call'[w].at = "clear"
               => mail[call[w].code] # "used"]_vars
  BY DEF FoundUnused, UseEmail
<1> QED
  BY <1>1, <1>2, <1>3, TypeCorrect, PTL DEF Spec, EmailCodeOnce

-----------------------------------------------------------------------------
(***************************************************************************)
(* E-mail codes that are active.  A request between the delete and the     *)
(* create has just emptied the table, and nobody else fills it.            *)
(***************************************************************************)
ActiveAlone ==
    /\ \A d, e \in Mails : mail[d] = "valid" /\ mail[e] = "valid" => d = e
    /\ \A w \in Workers : At(w, "sendCreate") =>
          \A e \in Mails : mail[e] # "valid"

\* The other requests never come to create a code.
LEMMA MovesElsewhere ==
    ASSUME TypeOK, NEW w \in Workers, Login(w) \/ CompleteMfaLogin(w)
    PROVE  call'[w].at # "sendCreate"
<1>0. call \in [Workers -> Requests]
  BY DEF TypeOK, Requests
<1>a. ASSUME NEW where, Goto(w, where) \/ GoOn(w, where)
      PROVE  call'[w].at = where
  BY <1>0, <1>a DEF Goto, GoOn, Idle, Requests
<1>b. Finish(w) => call'[w].at = "idle"
  BY <1>0 DEF Finish, Idle
<1>1. CASE Login(w)
  <2>1. LoginBegin(w) => call'[w].at = "compare"
    BY <1>0 DEF LoginBegin, Idle
  <2> QED
    BY <1>1, <2>1, OwnMoves DEF Login
<1>2. CASE \E c \in Challenges : MfaBegin(w, c)
  BY <1>0, <1>2 DEF MfaBegin, Idle
<1>3. CASE ReadUser(w)
  <2>1. call'[w] = [call[w] EXCEPT !.at = "throttle", !.codes = backup]
    BY <1>0, <1>3 DEF ReadUser
  <2> QED
    BY <1>0, <2>1 DEF Requests
<1>4. CASE Throttle(w) \/ SetExpiry(w)
  <2>1. Goto(w, "expire") \/ Goto(w, "check") \/ Finish(w)
    BY <1>4 DEF Throttle, SetExpiry
  <2> QED
    BY <1>a, <1>b, <2>1
<1>5. ASSUME NEW ok \in BOOLEAN, CheckTotp(w, ok)
      PROVE  call'[w].at # "sendCreate"
  BY <1>a, <1>5 DEF CheckTotp
<1>6. ASSUME NEW e \in Mails, CheckEmail(w, e)
      PROVE  call'[w].at # "sendCreate"
  <2>1. \/ call'[w] = [call[w] EXCEPT !.at = "useEmail", !.code = e]
        \/ GoOn(w, "recordFailure")
    BY <1>0, <1>6 DEF CheckEmail
  <2> QED
    BY <1>0, <1>a, <2>1 DEF Requests
<1>7. ASSUME NEW b \in BackupCodes, CheckBackup(w, b)
      PROVE  call'[w].at # "sendCreate"
  <2>1. \/ call'[w] = [call[w] EXCEPT !.at = "useBackup", !.code = b]
        \/ GoOn(w, "recordFailure")
    BY <1>0, <1>7 DEF CheckBackup
  <2> QED
    BY <1>0, <1>a, <2>1 DEF Requests
<1>8. CASE UseEmail(w) \/ UseBackup(w)
  BY <1>a, <1>b, <1>8 DEF UseEmail, UseBackup
<1>9. CASE RecordChallengeFailure(w) \/ ClearChallengeAttempts(w)
  BY <1>b, <1>9 DEF RecordChallengeFailure, ClearChallengeAttempts
<1> QED
  BY <1>1, <1>2, <1>3, <1>4, <1>5, <1>6, <1>7, <1>8, <1>9
     DEF CompleteMfaLogin, VerifyFactor

\* Who makes a code active, and who comes to be about to.
LEMMA SendSteps ==
    ASSUME TypeOK, [Next]_vars
    PROVE  /\ \A w \in Workers :
                 At(w, "sendCreate")' => At(w, "sendCreate") \/ mail' = NoMail
           /\ \/ \A e \in Mails : mail'[e] = "valid" => mail[e] = "valid"
              \/ \E w \in Workers, d \in Mails :
                    /\ At(w, "sendCreate") /\ ~At(w, "sendCreate")'
                    /\ \A e \in Mails \ {d} : mail'[e] = mail[e]
<1> DEFINE Comes(w) ==
              At(w, "sendCreate")' => At(w, "sendCreate") \/ mail' = NoMail
           Keeps == \A e \in Mails : mail'[e] = "valid" => mail[e] = "valid"
           Creates == \E w \in Workers, d \in Mails :
                         /\ At(w, "sendCreate") /\ ~At(w, "sendCreate")'
                         /\ \A e \in Mails \ {d} : mail'[e] = mail[e]
           Goal == (\A w \in Workers : Comes(w)) /\ (Keeps \/ Creates)
<1>0. call \in [Workers -> Requests]
  BY DEF TypeOK, Requests
<1>m. mail \in [Mails -> {"none", "valid", "used", "expired"}]
  BY DEF TypeOK
<1>1. ASSUME NEW w \in Workers, Login(w) \/ CompleteMfaLogin(w) PROVE Goal
  <2>1. Keeps
    BY <1>m, <1>1
       DEF Login, LoginBegin, LoginWrong, LoginRight, CompleteMfaLogin,
           MfaBegin, ReadUser, Throttle, SetExpiry, VerifyFactor, CheckTotp,
           CheckEmail, UseEmail, CheckBackup, UseBackup,
           RecordChallengeFailure, ClearChallengeAttempts, codeVars
  <2>2. call'[w].at # "sendCreate"
    BY <1>1, MovesElsewhere
  <2> QED
    BY <1>1, <2>1, <2>2, OthersWait DEF At
<1>2. ASSUME NEW w \in Workers, SendEmailOtp(w) PROVE Goal
  <2>0. \A x \in Workers : x # w => call'[x] = call[x]
    BY <1>2, OthersWait
  <2>1. CASE \/ \E c \in Challenges : SendBegin(w, c)
             \/ SendCount(w)
             \/ \E delivered \in BOOLEAN : SendMail(w, delivered)
    <3>1. call'[w].at # "sendCreate"
      <4>1. ASSUME NEW c \in Challenges, SendBegin(w, c)
            PROVE  call'[w].at # "sendCreate"
        BY <1>0, <4>1 DEF SendBegin, Idle
      <4>2. CASE SendCount(w)
        BY <1>0, <4>2 DEF SendCount, Finish, Idle
      <4>3. ASSUME NEW delivered \in BOOLEAN, SendMail(w, delivered)
            PROVE  call'[w].at # "sendCreate"
        BY <1>0, <4>3 DEF SendMail, Finish, Idle
      <4> QED
        BY <2>1, <4>1, <4>2, <4>3
    <3>2. Keeps
      BY <2>1 DEF SendBegin, SendCount, SendMail, NoMail, codeVars
    <3> QED
      BY <2>0, <3>1, <3>2 DEF At
  <2>2. CASE SendDelete(w)
    BY <2>0, <2>2 DEF SendDelete, NoMail, At
  <2>3. ASSUME NEW d \in Mails, SendCreate(w, d) PROVE Goal
    <3>1. call'[w].at = "sendMail"
      BY <1>0, <2>3 DEF SendCreate, Goto, Requests
    <3>2. \A e \in Mails \ {d} : mail'[e] = mail[e]
      BY <1>m, <2>3 DEF SendCreate
    <3>3. At(w, "sendCreate")
      BY <2>3 DEF SendCreate
    <3> QED
      BY <2>0, <3>1, <3>2, <3>3 DEF At
  <2> QED
    BY <1>2, <2>1, <2>2, <2>3 DEF SendEmailOtp
<1>3. ASSUME Outside PROVE Goal
  <2>1. Keeps
    BY <1>m, <1>3
       DEF Outside, UnlockUser, LockRunsOut, ThrottleExpires, Restart,
           RegenerateBackupCodes, ChallengeExpires, CountersExpire,
           EmailExpires, codeVars, vars
  <2> QED
    BY <1>3, <2>1, OutsideMoves DEF At, Idle
<1> QED
  BY <1>1, <1>2, <1>3 DEF Next, Outside

LEMMA ActiveAloneStep ==
    ASSUME TypeOK, [Next]_vars, ActiveAlone, OneSendAtATime
    PROVE  ActiveAlone'
<1>1. CASE \A e \in Mails : mail'[e] = "valid" => mail[e] = "valid"
  BY <1>1, SendSteps DEF ActiveAlone, NoMail
<1>2. CASE \E w \in Workers, d \in Mails :
              /\ At(w, "sendCreate") /\ ~At(w, "sendCreate")'
              /\ \A e \in Mails \ {d} : mail'[e] = mail[e]
  <2>1. PICK w \in Workers, d \in Mails :
               /\ At(w, "sendCreate") /\ ~At(w, "sendCreate")'
               /\ \A e \in Mails \ {d} : mail'[e] = mail[e]
    BY <1>2
  <2>2. \A e \in Mails : mail'[e] = "valid" => e = d
    BY <2>1 DEF ActiveAlone
  <2>3. ASSUME NEW x \in Workers, At(x, "sendCreate")'
        PROVE  \A e \in Mails : mail'[e] # "valid"
    <3>1. At(x, "sendCreate") \/ mail' = NoMail
      BY <2>3, SendSteps
    <3>2. CASE At(x, "sendCreate")
      BY <2>1, <2>3, <3>2 DEF OneSendAtATime
    <3> QED
      BY <3>1, <3>2 DEF NoMail
  <2> QED
    BY <2>2, <2>3 DEF ActiveAlone
<1> QED
  BY <1>1, <1>2, SendSteps

(***************************************************************************)
(* At most one e-mail code is active, as long as no two sends are between  *)
(* deleting the earlier codes and creating theirs.                         *)
(***************************************************************************)
THEOREM OneCodeWithoutOverlap == Spec /\ []OneSendAtATime => []OneActiveCode
<1>1. Init => ActiveAlone
  BY DEF Init, ActiveAlone, At, Idle
<1>2. TypeOK /\ ActiveAlone /\ OneSendAtATime /\ [Next]_vars => ActiveAlone'
  BY ActiveAloneStep
<1>3. ActiveAlone => OneActiveCode
  <2> DEFINE active == {e \in Mails : mail[e] = "valid"}
  <2> SUFFICES ASSUME ActiveAlone PROVE Cardinality(active) <= 1
    BY DEF OneActiveCode
  <2>1. CASE active = {}
    BY <2>1, FS_EmptySet
  <2>2. CASE active # {}
    <3>1. PICK d \in active : TRUE
      BY <2>2
    <3>2. active = {d}
      BY <3>1 DEF ActiveAlone
    <3> QED
      BY <3>2, FS_Singleton
  <2> QED
    BY <2>1, <2>2
<1> QED
  BY <1>1, <1>2, <1>3, TypeCorrect, PTL DEF Spec

-----------------------------------------------------------------------------
(***************************************************************************)
(* Attempts.  A request on its way to the check of a code found its        *)
(* challenge below the limit, and it stays there while nobody else tries   *)
(* a code on the same challenge.                                           *)
(***************************************************************************)
Approaching(w) == call[w].at \in Admitted \cup {"readUser", "throttle"}

BelowLimit ==
    \A w \in Workers :
        Approaching(w) =>
            Ch(w) \in Challenges /\ attempts[Ch(w)] < MaxAttempts

\* Who comes to be on the way to a check, and what the steps do to counters.
LEMMA AttemptSteps ==
    ASSUME TypeOK, [Next]_vars
    PROVE  /\ \A w \in Workers :
                 Approaching(w)' =>
                    \/ Approaching(w) /\ Ch(w)' = Ch(w)
                    \/ /\ Ch(w)' \in Challenges
                       /\ attempts[Ch(w)'] < MaxAttempts
                       /\ attempts' = attempts
           /\ \A c \in Challenges :
                 \/ attempts'[c] \in {0, attempts[c]}
                 \/ \E v \in Workers :
                       /\ At(v, "recordFailure") /\ Ch(v) = c
                       /\ call'[v].at = "idle"
                       /\ \A x \in Workers : x # v => call'[x] = call[x]
<1> DEFINE Comes(w) == Approaching(w)' =>
                          \/ Approaching(w) /\ Ch(w)' = Ch(w)
                          \/ /\ Ch(w)' \in Challenges
                             /\ attempts[Ch(w)'] < MaxAttempts
                             /\ attempts' = attempts
           Counts(c) == \/ attempts'[c] \in {0, attempts[c]}
                        \/ \E v \in Workers :
                              /\ At(v, "recordFailure") /\ Ch(v) = c
                              /\ call'[v].at = "idle"
                              /\ \A x \in Workers : x # v => call'[x] = call[x]
           Goal == /\ \A w \in Workers : Comes(w)
                   /\ \A c \in Challenges : Counts(c)
<1>0. call \in [Workers -> Requests] /\ DOMAIN attempts = Challenges
  BY DEF TypeOK, Requests
<1>1. ASSUME NEW w \in Workers, Login(w) \/ SendEmailOtp(w) PROVE Goal
  <2>1. attempts' = attempts
    BY <1>1 DEF Login, LoginBegin, LoginWrong, LoginRight, SendEmailOtp,
         SendBegin, SendCount, SendDelete, SendCreate, SendMail, redisVars
  <2>2. ~Approaching(w)'
    <3>1. LoginBegin(w) => call'[w].at = "compare"
      BY <1>0 DEF LoginBegin, Idle
    <3> QED
      <4>1. call'[w].at \in {"compare", "idle", "sendCount", "sendDelete",
                             "sendCreate", "sendMail"}
        BY <1>1, <3>1, OwnMoves DEF Login
      <4> QED
        BY <4>1 DEF Approaching, Admitted
  <2>3. \A x \in Workers : x # w => call'[x] = call[x]
    BY <1>1, OthersWait
  <2> QED
    BY <2>1, <2>2, <2>3 DEF Approaching, Ch
<1>2. ASSUME NEW w \in Workers, CompleteMfaLogin(w) PROVE Goal
  <2>0. \A x \in Workers : x # w => call'[x] = call[x]
    BY <1>2, OthersWait
  <2>a. ASSUME NEW where, Goto(w, where)
        PROVE  call'[w].at = where /\ Ch(w)' = Ch(w)
    BY <1>0, <2>a DEF Goto, Ch, Requests
  <2>b. Finish(w) => call'[w].at = "idle"
    BY <1>0 DEF Finish, Idle
  <2>c. ASSUME NEW where, GoOn(w, where) PROVE call'[w].at = where
    BY <1>0, <2>c DEF GoOn, Idle
  <2>1. Comes(w)
    <3>1. ASSUME NEW c \in Challenges, MfaBegin(w, c) PROVE Comes(w)
      <4>1. call'[w].ch = c
        BY <1>0, <3>1 DEF MfaBegin, Idle
      <4>2. attempts[c] < MaxAttempts /\ attempts' = attempts
        BY <3>1 DEF MfaBegin, redisVars
      <4> QED
        BY <4>1, <4>2 DEF Ch
    <3>2. CASE ReadUser(w)
      <4>1. call'[w] = [call[w] EXCEPT !.at = "throttle", !.codes = backup]
        BY <1>0, <3>2 DEF ReadUser
      <4>2. call'[w].ch = call[w].ch
        BY <1>0, <4>1 DEF Requests
      <4> QED
        BY <3>2, <4>2 DEF ReadUser, Approaching, Ch, At
    <3>3. CASE Throttle(w) \/ SetExpiry(w)
      <4>1. Goto(w, "expire") \/ Goto(w, "check") \/ Finish(w)
        BY <3>3 DEF Throttle, SetExpiry
      <4>2. Approaching(w)
        BY <3>3 DEF Throttle, SetExpiry, Approaching, Admitted, At
      <4> QED
        BY <2>a, <2>b, <4>1, <4>2 DEF Approaching, Admitted
    <3>4. ASSUME NEW ok \in BOOLEAN, CheckTotp(w, ok) PROVE Comes(w)
      BY <2>c, <3>4 DEF CheckTotp, Approaching, Admitted
    <3>5. ASSUME NEW e \in Mails, CheckEmail(w, e) PROVE Comes(w)
      <4>1. CASE mail[e] = "valid"
        <5>1. call'[w] = [call[w] EXCEPT !.at = "useEmail", !.code = e]
          BY <1>0, <3>5, <4>1 DEF CheckEmail
        <5>2. call'[w].at = "useEmail"
          BY <1>0, <5>1 DEF Requests
        <5> QED
          BY <5>2 DEF Approaching, Admitted
      <4>2. CASE mail[e] # "valid"
        BY <2>c, <3>5, <4>2 DEF CheckEmail, Approaching, Admitted
      <4> QED
        BY <4>1, <4>2
    <3>6. ASSUME NEW b \in BackupCodes, CheckBackup(w, b) PROVE Comes(w)
      <4>1. CASE b \in call[w].codes
        <5>1. call'[w] = [call[w] EXCEPT !.at = "useBackup", !.code = b]
          BY <1>0, <3>6, <4>1 DEF CheckBackup
        <5>2. call'[w].at = "useBackup"
          BY <1>0, <5>1 DEF Requests
        <5> QED
          BY <5>2 DEF Approaching, Admitted
      <4>2. CASE b \notin call[w].codes
        BY <2>c, <3>6, <4>2 DEF CheckBackup, Approaching, Admitted
      <4> QED
        BY <4>1, <4>2
    <3>7. CASE UseBackup(w) \/ UseEmail(w)
      BY <2>b, <2>c, <3>7 DEF UseBackup, UseEmail, Approaching, Admitted
    <3>8. CASE RecordChallengeFailure(w) \/ ClearChallengeAttempts(w)
      BY <2>b, <3>8
         DEF RecordChallengeFailure, ClearChallengeAttempts, Approaching,
             Admitted
    <3> QED
      BY <1>2, <3>1, <3>2, <3>3, <3>4, <3>5, <3>6, <3>7, <3>8
         DEF CompleteMfaLogin, VerifyFactor
  <2>2. ASSUME NEW c \in Challenges PROVE Counts(c)
    <3>1. CASE RecordChallengeFailure(w)
      <4>1. At(w, "recordFailure") /\ call'[w].at = "idle"
        BY <2>b, <3>1 DEF RecordChallengeFailure
      <4>2. Ch(w) # c => attempts'[c] = attempts[c]
        BY <1>0, <3>1 DEF RecordChallengeFailure
      <4> QED
        BY <2>0, <4>1, <4>2
    <3>2. CASE ClearChallengeAttempts(w)
      <4>1. attempts'[c] \in {0, attempts[c]}
        BY <1>0, <3>2 DEF ClearChallengeAttempts
      <4> QED
        BY <4>1
    <3>3. CASE ~RecordChallengeFailure(w) /\ ~ClearChallengeAttempts(w)
      <4>1. attempts' = attempts
        BY <1>2, <3>3
           DEF CompleteMfaLogin, MfaBegin, ReadUser, Throttle, SetExpiry,
               VerifyFactor, CheckTotp, CheckEmail, UseEmail, CheckBackup,
               UseBackup, redisVars
      <4> QED
        BY <4>1
    <3> QED
      BY <3>1, <3>2, <3>3
  <2>3. ASSUME NEW x \in Workers, x # w PROVE Comes(x)
    BY <2>0, <2>3 DEF Approaching, Ch
  <2> QED
    BY <2>1, <2>2, <2>3
<1>3. ASSUME Outside PROVE Goal
  <2>1. ASSUME NEW w \in Workers PROVE Comes(w)
    <3>1. CASE call'[w] = call[w]
      BY <3>1 DEF Approaching, Ch
    <3>2. CASE call'[w] = Idle
      BY <3>2 DEF Approaching, Admitted, Idle
    <3> QED
      BY <1>3, <3>1, <3>2, OutsideMoves
  <2>2. ASSUME NEW c \in Challenges PROVE attempts'[c] \in {0, attempts[c]}
    BY <1>0, <1>3
       DEF Outside, UnlockUser, LockRunsOut, ThrottleExpires, Restart,
           RegenerateBackupCodes, ChallengeExpires, CountersExpire,
           EmailExpires, redisVars, vars
  <2> QED
    BY <2>1, <2>2
<1> QED
  BY <1>1, <1>2, <1>3 DEF Next, Outside

LEMMA BelowLimitStep ==
    ASSUME TypeOK, [Next]_vars, BelowLimit, OneTryPerChallenge
    PROVE  BelowLimit'
<1> SUFFICES ASSUME NEW w \in Workers, Approaching(w)'
             PROVE  Ch(w)' \in Challenges /\ attempts'[Ch(w)'] < MaxAttempts
  BY DEF BelowLimit
<1>1. CASE /\ Ch(w)' \in Challenges /\ attempts[Ch(w)'] < MaxAttempts
           /\ attempts' = attempts
  BY <1>1
<1>2. CASE Approaching(w) /\ Ch(w)' = Ch(w)
  <2>1. PICK c \in Challenges : c = Ch(w)
    BY <1>2 DEF BelowLimit
  <2>2. attempts[c] < MaxAttempts
    BY <1>2, <2>1 DEF BelowLimit
  <2>3. CASE attempts'[c] \in {0, attempts[c]}
    BY <1>2, <2>1, <2>2, <2>3, SignInAssumption
  <2>4. CASE \E v \in Workers :
                /\ At(v, "recordFailure") /\ Ch(v) = c
                /\ call'[v].at = "idle"
                /\ \A x \in Workers : x # v => call'[x] = call[x]
    <3>1. PICK v \in Workers : /\ At(v, "recordFailure") /\ Ch(v) = c
                               /\ call'[v].at = "idle"
      BY <2>4
    <3>2. Trying(v) /\ Trying(w)
      BY <1>2, <3>1 DEF Trying, Approaching, At
    <3>3. v = w
      BY <2>1, <3>1, <3>2 DEF OneTryPerChallenge
    <3> QED
      BY <3>1, <3>3 DEF Approaching, Admitted
  <2> QED
    BY <2>3, <2>4, AttemptSteps
<1> QED
  BY <1>1, <1>2, AttemptSteps

(***************************************************************************)
(* No code is checked against a burned challenge, as long as one request   *)
(* at a time tries a code on it.                                           *)
(***************************************************************************)
THEOREM BurnedWithoutOverlap == Spec /\ []OneTryPerChallenge => BurnedIsRefused
<1>1. Init => BelowLimit
  BY DEF Init, BelowLimit, Approaching, Admitted, Idle
<1>2. TypeOK /\ BelowLimit /\ OneTryPerChallenge /\ [Next]_vars => BelowLimit'
  BY BelowLimitStep
<1>3. BelowLimit =>
        [\A w \in Workers :
            At(w, "check") /\ call'[w].at # "check" /\ checked' > checked
               => attempts[Ch(w)] < MaxAttempts]_vars
  BY DEF BelowLimit, Approaching, Admitted, At
<1> QED
  BY <1>1, <1>2, <1>3, TypeCorrect, PTL DEF Spec, BurnedIsRefused
=============================================================================
