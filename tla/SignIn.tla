------------------------------- MODULE SignIn -------------------------------
(***************************************************************************)
(* Signing in to one account with a password and a second factor           *)
(* (authService.js, mfaService.js): the count of failed passwords and the  *)
(* lock, the challenge a right password leads to, the counters in Redis    *)
(* that limit the codes tried against it, e-mail codes and backup codes.   *)
(* Every await is a point at which another request may run.                *)
(*                                                                         *)
(* The account is active and has an authenticator, e-mail codes and backup *)
(* codes; RefreshTokens takes over where a session is issued.  Counters in *)
(* Redis are not told apart beyond their limits.                           *)
(***************************************************************************)
EXTENDS Naturals, FiniteSets

CONSTANTS
    Workers,       \* requests that may be in flight together
    Challenges,    \* jti of the MFA challenge tokens
    Mails,         \* ids of the e-mail codes (UserToken rows)
    BackupSets,    \* the sets of backup codes an account is given in turn
    Threshold,     \* config.auth.lockoutThreshold
    MaxAttempts,   \* MFA_MAX_ATTEMPTS
    MaxSends,      \* EMAIL_OTP_MAX_SENDS_PER_CHALLENGE
    ThrottleMax,   \* USER_THROTTLE_MAX
    NoChallenge, NoCode

BackupCodes == UNION BackupSets

ASSUME SignInAssumption ==
    /\ IsFiniteSet(Workers)
    /\ NoChallenge \notin Challenges
    /\ NoCode \notin Mails \cup BackupCodes /\ BackupSets # {}
    /\ Threshold \in Nat \ {0} /\ MaxAttempts \in Nat \ {0}
    /\ MaxSends \in Nat /\ ThrottleMax \in Nat \ {0}

VARIABLES
    failed,    \* User.failedLoginCount
    lock,      \* User.lockedUntil: null, in the future, or past
    alive,     \* challenge tokens issued and not expired
    attempts,  \* mfa:attempts:<jti>, 0 when absent
    sends,     \* mfa:otp:send:<jti>, 0 when absent
    throttle,  \* mfa:userattempts:<user>, 0 when absent
    timed,     \* that key has a time to live
    mail,      \* e-mail codes
    backup,    \* User.mfaBackupCodes
    checked,   \* codes checked since that key was created (history)
    call       \* local state of every request

redisVars == <<attempts, sends, throttle, timed>>
codeVars == <<mail, backup>>
vars == <<failed, lock, alive, redisVars, codeVars, checked, call>>

Idle == [at |-> "idle", ch |-> NoChallenge, saw |-> 0, clean |-> TRUE,
         codes |-> {}, code |-> NoCode]

Admitted == {"expire", "check"}
Steps ==
    Admitted \cup {"idle", "compare", "readUser", "throttle", "useEmail",
                   "useBackup", "recordFailure", "clear", "sendCount",
                   "sendDelete", "sendCreate", "sendMail"}

TypeOK ==
    /\ failed \in 0..(Threshold - 1) /\ lock \in {"none", "locked", "past"}
    /\ alive \subseteq Challenges
    /\ attempts \in [Challenges -> 0..MaxAttempts]
    /\ sends \in [Challenges -> 0..(MaxSends + 1)]
    /\ throttle \in 0..(ThrottleMax + 1) /\ timed \in BOOLEAN
    /\ mail \in [Mails -> {"none", "valid", "used", "expired"}]
    /\ backup \subseteq BackupCodes
    /\ checked \in Nat
    /\ call \in [Workers ->
          [at : Steps, ch : Challenges \cup {NoChallenge},
           saw : 0..(Threshold - 1), clean : BOOLEAN,
           codes : SUBSET BackupCodes,
           code : Mails \cup BackupCodes \cup {NoCode}]]

Init ==
    /\ failed = 0 /\ lock = "none"
    /\ alive = {}
    /\ attempts = [c \in Challenges |-> 0]
    /\ sends = [c \in Challenges |-> 0]
    /\ throttle = 0 /\ timed = FALSE
    /\ mail = [e \in Mails |-> "none"]
    /\ backup \in BackupSets
    /\ checked = 0
    /\ call = [w \in Workers |-> Idle]

-----------------------------------------------------------------------------
At(w, where) == call[w].at = where

Ch(w) == call[w].ch

Goto(w, where) == call' = [call EXCEPT ![w].at = where]

Finish(w) == call' = [call EXCEPT ![w] = Idle]

\* A request goes on and needs nothing but its challenge from here on.
GoOn(w, where) ==
    call' = [call EXCEPT ![w] = [Idle EXCEPT !.at = where, !.ch = Ch(w)]]

Held(c) == \E w \in Workers : Ch(w) = c

\* INCR, of a counter that is compared with `limit` only.
Bump(n, limit) == IF n < limit THEN n + 1 ELSE n

(***************************************************************************)
(* login: the row is read once; the count that is written back is that of  *)
(* the row as it was read before the password was compared.                *)
(***************************************************************************)
LoginBegin(w) ==
    /\ At(w, "idle") /\ lock # "locked"
    /\ call' = [call EXCEPT ![w] =
          [Idle EXCEPT !.at = "compare", !.saw = failed,
                       !.clean = (failed = 0 /\ lock = "none")]]
    /\ UNCHANGED <<failed, lock, alive, redisVars, codeVars, checked>>

\* Mutant: the count is not taken back when the account is locked.
KeptCount(n) == n

CountAfter(n) == IF n >= Threshold THEN 0 ELSE n

\* recordFailedLogin
LoginWrong(w) ==
    /\ At(w, "compare")
    /\ LET count == call[w].saw + 1 IN
       /\ failed' = CountAfter(count)
       /\ lock' = IF count >= Threshold THEN "locked" ELSE lock
    /\ Finish(w)
    /\ UNCHANGED <<alive, redisVars, codeVars, checked>>

\* resetFailedLogin, then mfaGate signs a new challenge.
LoginRight(w, c) ==
    /\ At(w, "compare")
    /\ c \notin alive /\ attempts[c] = 0 /\ sends[c] = 0 /\ ~Held(c)
    /\ IF call[w].clean THEN UNCHANGED <<failed, lock>>
       ELSE failed' = 0 /\ lock' = "none"
    /\ alive' = alive \cup {c}
    /\ Finish(w)
    /\ UNCHANGED <<redisVars, codeVars, checked>>

\* userService.unlockUser
UnlockUser ==
    /\ failed # 0 \/ lock # "none"
    /\ failed' = 0 /\ lock' = "none"
    /\ UNCHANGED <<alive, redisVars, codeVars, checked, call>>

LockRunsOut ==
    /\ lock = "locked" /\ lock' = "past"
    /\ UNCHANGED <<failed, alive, redisVars, codeVars, checked, call>>

-----------------------------------------------------------------------------
(***************************************************************************)
(* completeMfaLogin                                                        *)
(***************************************************************************)
MfaBegin(w, c) ==
    /\ At(w, "idle") /\ c \in alive
    /\ attempts[c] < MaxAttempts                     \* isChallengeBurned
    /\ call' = [call EXCEPT ![w] = [Idle EXCEPT !.at = "readUser", !.ch = c]]
    /\ UNCHANGED <<failed, lock, alive, redisVars, codeVars, checked>>

ReadUser(w) ==
    /\ At(w, "readUser")
    /\ call' = [call EXCEPT ![w].at = "throttle", ![w].codes = backup]
    /\ UNCHANGED <<failed, lock, alive, redisVars, codeVars, checked>>

\* Mutant: the count is looked up before it is increased.
CountedBefore(n) == n

Counted(n) == n + 1

\* isUserThrottled: INCR, and EXPIRE when the key is new.
Throttle(w) ==
    /\ At(w, "throttle")
    /\ throttle' = Bump(throttle, ThrottleMax + 1)
    /\ timed' = (throttle > 0 /\ timed)
    /\ IF throttle = 0 THEN Goto(w, "expire")
       ELSE IF Counted(throttle) > ThrottleMax THEN Finish(w)
       ELSE Goto(w, "check")
    /\ UNCHANGED <<failed, lock, alive, attempts, sends, codeVars, checked>>

SetExpiry(w) ==
    /\ At(w, "expire")
    /\ timed' = (throttle > 0)
    /\ Goto(w, "check")
    /\ UNCHANGED <<failed, lock, alive, attempts, sends, throttle, codeVars,
                   checked>>

\* verifyTotp
CheckTotp(w, ok) ==
    /\ At(w, "check")
    /\ checked' = checked + 1
    /\ GoOn(w, IF ok THEN "clear" ELSE "recordFailure")
    /\ UNCHANGED <<failed, lock, alive, redisVars, codeVars>>

\* verifyEmailOtp
CheckEmail(w, e) ==
    /\ At(w, "check")
    /\ checked' = checked + 1
    /\ IF mail[e] = "valid"
       THEN call' = [call EXCEPT ![w].at = "useEmail", ![w].code = e]
       ELSE GoOn(w, "recordFailure")
    /\ UNCHANGED <<failed, lock, alive, redisVars, codeVars>>

\* The update of a row that is gone throws.
UseEmail(w) ==
    /\ At(w, "useEmail")
    /\ LET e == call[w].code IN
       IF mail[e] = "none" THEN Finish(w) /\ UNCHANGED mail
       ELSE mail' = [mail EXCEPT ![e] = "used"] /\ GoOn(w, "clear")
    /\ UNCHANGED <<failed, lock, alive, redisVars, backup, checked>>

\* verifyBackupCode, against the codes as ReadUser found them.
CheckBackup(w, b) ==
    /\ At(w, "check")
    /\ checked' = checked + 1
    /\ IF b \in call[w].codes
       THEN call' = [call EXCEPT ![w].at = "useBackup", ![w].code = b]
       ELSE GoOn(w, "recordFailure")
    /\ UNCHANGED <<failed, lock, alive, redisVars, codeVars>>

UseBackup(w) ==
    /\ At(w, "useBackup")
    /\ backup' = call[w].codes \ {call[w].code}
    /\ GoOn(w, "clear")
    /\ UNCHANGED <<failed, lock, alive, redisVars, mail, checked>>

RecordChallengeFailure(w) ==
    /\ At(w, "recordFailure")
    /\ attempts' = [attempts EXCEPT ![Ch(w)] = Bump(@, MaxAttempts)]
    /\ Finish(w)
    /\ UNCHANGED <<failed, lock, alive, sends, throttle, timed, codeVars,
                   checked>>

\* clearChallengeAttempts; the session is issued next.
ClearChallengeAttempts(w) ==
    /\ At(w, "clear")
    /\ attempts' = [attempts EXCEPT ![Ch(w)] = 0]
    /\ Finish(w)
    /\ UNCHANGED <<failed, lock, alive, sends, throttle, timed, codeVars,
                   checked>>

-----------------------------------------------------------------------------
(***************************************************************************)
(* sendEmailOtp: earlier codes are deleted, one is created and sent, and   *)
(* deleted again when it was not delivered.                                *)
(***************************************************************************)
SendBegin(w, c) ==
    /\ At(w, "idle") /\ c \in alive
    /\ call' = [call EXCEPT ![w] = [Idle EXCEPT !.at = "sendCount", !.ch = c]]
    /\ UNCHANGED <<failed, lock, alive, redisVars, codeVars, checked>>

SendCount(w) ==
    /\ At(w, "sendCount")
    /\ sends' = [sends EXCEPT ![Ch(w)] = Bump(@, MaxSends + 1)]
    /\ IF sends[Ch(w)] + 1 > MaxSends THEN Finish(w)
       ELSE call' = [call EXCEPT ![w] = [Idle EXCEPT !.at = "sendDelete"]]
    /\ UNCHANGED <<failed, lock, alive, attempts, throttle, timed, codeVars,
                   checked>>

NoMail == [e \in Mails |-> "none"]

SendDelete(w) ==
    /\ At(w, "sendDelete")
    /\ mail' = NoMail
    /\ Goto(w, "sendCreate")
    /\ UNCHANGED <<failed, lock, alive, redisVars, backup, checked>>

SendCreate(w, e) ==
    /\ At(w, "sendCreate")
    /\ mail[e] = "none" /\ \A x \in Workers : call[x].code # e
    /\ mail' = [mail EXCEPT ![e] = "valid"]
    /\ Goto(w, "sendMail")
    /\ UNCHANGED <<failed, lock, alive, redisVars, backup, checked>>

SendMail(w, delivered) ==
    /\ At(w, "sendMail")
    /\ mail' = IF delivered THEN mail ELSE NoMail
    /\ Finish(w)
    /\ UNCHANGED <<failed, lock, alive, redisVars, backup, checked>>

-----------------------------------------------------------------------------
\* regenerateBackupCodes
RegenerateBackupCodes(S) ==
    /\ backup \cap S = {}
    /\ backup' = S
    /\ UNCHANGED <<failed, lock, alive, redisVars, mail, checked, call>>

ChallengeExpires(c) ==
    /\ c \in alive /\ alive' = alive \ {c}
    /\ UNCHANGED <<failed, lock, redisVars, codeVars, checked, call>>

\* The counters of a challenge are created after it and live as long.
CountersExpire(c) ==
    /\ c \notin alive /\ (attempts[c] > 0 \/ sends[c] > 0)
    /\ attempts' = [attempts EXCEPT ![c] = 0]
    /\ sends' = [sends EXCEPT ![c] = 0]
    /\ UNCHANGED <<failed, lock, alive, throttle, timed, codeVars, checked,
                   call>>

EmailExpires(e) ==
    /\ mail[e] = "valid" /\ mail' = [mail EXCEPT ![e] = "expired"]
    /\ UNCHANGED <<failed, lock, alive, redisVars, backup, checked, call>>

\* The window of the throttle is over.
ThrottleExpires ==
    /\ throttle > 0 /\ timed
    /\ throttle' = 0 /\ timed' = FALSE /\ checked' = 0
    /\ UNCHANGED <<failed, lock, alive, attempts, sends, codeVars, call>>

Restart ==
    /\ call # [w \in Workers |-> Idle]
    /\ call' = [w \in Workers |-> Idle]
    /\ UNCHANGED <<failed, lock, alive, redisVars, codeVars, checked>>

Login(w) ==
    LoginBegin(w) \/ LoginWrong(w) \/ \E c \in Challenges : LoginRight(w, c)

VerifyFactor(w) ==
    \/ \E ok \in BOOLEAN : CheckTotp(w, ok)
    \/ \E e \in Mails : CheckEmail(w, e)
    \/ \E b \in BackupCodes : CheckBackup(w, b)
    \/ UseEmail(w) \/ UseBackup(w)

CompleteMfaLogin(w) ==
    \/ \E c \in Challenges : MfaBegin(w, c)
    \/ ReadUser(w) \/ Throttle(w) \/ SetExpiry(w) \/ VerifyFactor(w)
    \/ RecordChallengeFailure(w) \/ ClearChallengeAttempts(w)

SendEmailOtp(w) ==
    \/ \E c \in Challenges : SendBegin(w, c)
    \/ SendCount(w) \/ SendDelete(w)
    \/ \E e \in Mails : SendCreate(w, e)
    \/ \E delivered \in BOOLEAN : SendMail(w, delivered)

Next ==
    \/ \E w \in Workers : Login(w) \/ CompleteMfaLogin(w) \/ SendEmailOtp(w)
    \/ UnlockUser \/ LockRunsOut \/ ThrottleExpires \/ Restart
    \/ \E S \in BackupSets : RegenerateBackupCodes(S)
    \/ \E c \in Challenges : ChallengeExpires(c) \/ CountersExpire(c)
    \/ \E e \in Mails : EmailExpires(e)

Spec == Init /\ [][Next]_vars

(***************************************************************************)
(* A request that the process does not lose is answered, and a key with a  *)
(* time to live expires.  Nothing is assumed of users.                     *)
(***************************************************************************)
Fairness ==
    /\ \A w \in Workers : WF_vars(Throttle(w)) /\ WF_vars(SetExpiry(w))
    /\ WF_vars(ThrottleExpires)

FairSpec == Spec /\ Fairness

-----------------------------------------------------------------------------
(***************************************************************************)
(* mfaService.js, isUserThrottled: fresh sign-ins do not allow unlimited   *)
(* guesses.  However many challenges, requests in flight, crashes and      *)
(* successes there are, the codes checked in the life of the counter stay  *)
(* within USER_THROTTLE_MAX and the requests that were admitted before it. *)
(***************************************************************************)
CodesPerWindowBounded == checked <= ThrottleMax + Cardinality(Workers)

(***************************************************************************)
(* docs/auth-hardening.md:29: "5 failures → 15 min lock": every failed     *)
(* password is counted.                                                    *)
(***************************************************************************)
EveryFailureCounts ==
    [][\A w \in Workers :
          LoginWrong(w) => failed' = failed + 1 \/ lock' = "locked"]_vars

(***************************************************************************)
(* A lock stands until it runs out or an administrator takes it away; a    *)
(* sign-in that was under way does not.                                    *)
(***************************************************************************)
LockStands == [][lock = "locked" /\ lock' = "none" => UnlockUser]_vars

(***************************************************************************)
(* What the two rely on: one password is compared at a time, and nobody    *)
(* unlocks the account meanwhile.                                          *)
(***************************************************************************)
OneLoginAtATime ==
    \A v, w \in Workers : At(v, "compare") /\ At(w, "compare") => v = w

NoUnlockMeanwhile == [][UnlockUser => \A w \in Workers : ~At(w, "compare")]_vars

(***************************************************************************)
(* A backup code that is accepted is one the account has at that moment.   *)
(***************************************************************************)
BackupCodeOnce ==
    [][\A w \in Workers : UseBackup(w) => call[w].code \in backup]_vars

(***************************************************************************)
(* New backup codes replace the old ones for good.                         *)
(***************************************************************************)
OldCodesStayDead ==
    [][backup' \subseteq backup \/ RegenerateBackupCodes(backup')]_vars

(***************************************************************************)
(* What the two rely on: a backup code is taken off the list while no      *)
(* other request holds a copy of the list, and the list is replaced while  *)
(* none does.                                                              *)
(***************************************************************************)
HoldsCodes(w) == call[w].at \in Admitted \cup {"throttle", "useBackup"}

OneUseOfCodes ==
    \A v, w \in Workers : At(v, "useBackup") /\ HoldsCodes(w) => v = w

NoNewCodesMeanwhile ==
    [][\A S \in BackupSets :
          RegenerateBackupCodes(S) => \A w \in Workers : ~HoldsCodes(w)]_vars

(***************************************************************************)
(* An e-mail code that is accepted has not been used.                      *)
(***************************************************************************)
EmailCodeOnce ==
    [][\A w \in Workers :
          UseEmail(w) /\ call'[w].at = "clear" => mail[call[w].code] # "used"
      ]_vars

\* What it relies on: no two requests have found the same code valid.
OneUseOfMail ==
    \A v, w \in Workers :
        At(v, "useEmail") /\ At(w, "useEmail") /\ call[v].code = call[w].code
            => v = w

(***************************************************************************)
(* mfaService.js:147: "single active code".                                *)
(***************************************************************************)
OneActiveCode == Cardinality({e \in Mails : mail[e] = "valid"}) <= 1

\* What it relies on: one send at a time is between the delete and the create.
OneSendAtATime ==
    \A v, w \in Workers :
        At(v, "sendCreate") /\ At(w, "sendCreate") => v = w

(***************************************************************************)
(* docs/auth-hardening.md:14: five attempts per challenge, "then it is     *)
(* burned": no code is checked against a challenge that is.                *)
(***************************************************************************)
BurnedIsRefused ==
    [][\A w \in Workers :
          At(w, "check") /\ call'[w].at # "check" /\ checked' > checked
             => attempts[Ch(w)] < MaxAttempts]_vars

\* What it relies on: one request at a time tries a code on a challenge.
Trying(w) ==
    call[w].at \in Admitted \cup {"readUser", "throttle", "useEmail",
                                 "useBackup", "recordFailure", "clear"}

OneTryPerChallenge ==
    \A v, w \in Workers : Trying(v) /\ Trying(w) /\ Ch(v) = Ch(w) => v = w

(***************************************************************************)
(* The window of the throttle ends, whatever the processes do.             *)
(***************************************************************************)
ThrottleEnds == throttle > ThrottleMax ~> throttle = 0
=============================================================================
