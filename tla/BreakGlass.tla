----------------------------- MODULE BreakGlass -----------------------------
(***************************************************************************)
(* Break-glass access to one server (accessRequestService.js): startBreak- *)
(* Glass puts a challenge into Redis, verifyBreakGlass checks the second   *)
(* factor and creates the pre-approved access request.  Every await of     *)
(* verifyBreakGlass is a point at which another verification may run.      *)
(*                                                                         *)
(* The policy is the duration that the matching break-glass policy allows, *)
(* 0 when none matches, the invoker is no longer active or the organisa-   *)
(* tion has switched bypassing off: each of these refuses the same way.    *)
(***************************************************************************)
EXTENDS Naturals, FiniteSets

CONSTANTS
    Challenges,   \* challenge ids
    Requests,     \* primary keys of the break-glass AccessRequest rows
    Workers,      \* verifications that may be in flight together
    Durations,    \* durationSeconds an invoker may ask for
    PolicyMaxes,  \* maxSessionDuration of the policies, 0 for no policy
    Floor,        \* 300 s, the least duration granted
    MaxAttempts,  \* BREAK_GLASS_MAX_ATTEMPTS
    MaxTime,      \* bound on the clock
    MaxRestarts,  \* bound on process restarts
    NoChallenge

ASSUME BreakGlassAssumption ==
    /\ NoChallenge \notin Challenges
    /\ IsFiniteSet(Workers)
    /\ Durations \subseteq Nat /\ PolicyMaxes \subseteq Nat
    /\ Floor \in Nat /\ MaxAttempts \in Nat \ {0}
    /\ MaxTime \in Nat /\ MaxRestarts \in Nat

VARIABLES
    now,         \* the clock
    policyMax,   \* what the policies allow at this moment
    stored,      \* challenge keys present in Redis
    started,     \* challenges ever started
    ttl,         \* payload.ttlSeconds
    attempts,    \* the attempts key of a challenge, 0 when absent
    wrong,       \* wrong codes checked against a challenge (history)
    granted,     \* the challenge an AccessRequest was granted for
    expiresAt,   \* AccessRequest.expiresAt
    ended,       \* access requests that were revoked or swept
    restarts,    \* counter for MaxRestarts
    call         \* local state of every verification

redisVars == <<stored, started, ttl, attempts>>
rowVars == <<granted, expiresAt, ended>>
vars == <<now, policyMax, redisVars, wrong, rowVars, restarts, call>>

Idle == [at |-> "idle"]

(***************************************************************************)
(* A handler past the policy check holds the maximum it read; the step     *)
(* after a burn is known before it.                                        *)
(***************************************************************************)
NoPolicyYet == {"readChallenge", "checkPolicy"}
PolicyRead == {"checkActive", "checkCode", "countWrong", "grant"}
Calls ==
    {Idle}
    \cup [at : NoPolicyYet, ch : Challenges, max : {0}, next : {"idle"}]
    \cup [at : PolicyRead, ch : Challenges, max : PolicyMaxes \ {0},
          next : {"idle", "grant"}]
    \cup [at : {"burn"}, ch : Challenges, max : PolicyMaxes \cup {0},
          next : {"idle"}]
    \cup [at : {"burn"}, ch : Challenges, max : PolicyMaxes \ {0},
          next : {"grant"}]

TypeOK ==
    /\ now \in Nat /\ policyMax \in PolicyMaxes
    /\ stored \subseteq started /\ started \subseteq Challenges
    /\ ttl \in [Challenges -> Nat]
    /\ attempts \in [Challenges -> Nat] /\ wrong \in [Challenges -> Nat]
    /\ granted \in [Requests -> Challenges \cup {NoChallenge}]
    /\ expiresAt \in [Requests -> Nat] /\ ended \subseteq Requests
    /\ restarts \in 0..MaxRestarts
    /\ call \in [Workers -> Calls]

Init ==
    /\ now = 0 /\ policyMax \in PolicyMaxes
    /\ stored = {} /\ started = {}
    /\ ttl = [c \in Challenges |-> 0]
    /\ attempts = [c \in Challenges |-> 0]
    /\ wrong = [c \in Challenges |-> 0]
    /\ granted = [r \in Requests |-> NoChallenge]
    /\ expiresAt = [r \in Requests |-> 0] /\ ended = {} /\ restarts = 0
    /\ call = [w \in Workers |-> Idle]

-----------------------------------------------------------------------------
At(w, where) == call[w].at = where

Ch(w) == call[w].ch

Goto(w, where) == call' = [call EXCEPT ![w].at = where]

Finish(w) == call' = [call EXCEPT ![w] = Idle]

\* burnBreakGlassChallenge, and what the handler does after it.
BurnThen(w, where) == call' = [call EXCEPT ![w].at = "burn", ![w].next = where]

Least(a, b) == IF a < b THEN a ELSE b
Most(a, b) == IF a > b THEN a ELSE b

\* Math.max(300, Math.min(asked, policy.maxSessionDuration))
Clamp(asked, max) == Most(Floor, Least(asked, max))

Exists(r) == granted[r] # NoChallenge

Active(r) == Exists(r) /\ r \notin ended /\ expiresAt[r] > now

NoActiveBreakGlass == \A r \in Requests : ~Active(r)

\* Bound: a grant needs a key that is left.
RowsLeft == \E r \in Requests : ~Exists(r)

(***************************************************************************)
(* startBreakGlass, which grants nothing: its reads lead to one SET.       *)
(***************************************************************************)
StartBreakGlass(c, d) ==
    /\ c \notin started
    /\ policyMax > 0 /\ NoActiveBreakGlass
    /\ started' = started \cup {c} /\ stored' = stored \cup {c}
    /\ ttl' = [ttl EXCEPT ![c] = Clamp(d, policyMax)]
    /\ UNCHANGED <<now, policyMax, attempts, wrong, rowVars,
                   restarts, call>>

(***************************************************************************)
(* verifyBreakGlass, one action per round trip.                            *)
(***************************************************************************)
VerifyBegin(w, c) ==
    /\ At(w, "idle") /\ c \in started /\ RowsLeft
    /\ call' = [call EXCEPT ![w] =
                   [at |-> IF attempts[c] >= MaxAttempts THEN "burn"
                           ELSE "readChallenge",
                    ch |-> c, max |-> 0, next |-> "idle"]]
    /\ UNCHANGED <<now, policyMax, redisVars, wrong, rowVars, restarts>>

ReadChallenge(w) ==
    /\ At(w, "readChallenge")
    /\ IF Ch(w) \in stored THEN Goto(w, "checkPolicy") ELSE Finish(w)
    /\ UNCHANGED <<now, policyMax, redisVars, wrong, rowVars, restarts>>

\* Mutant: a policy that no longer matches is not noticed.
NeverRefused == FALSE

Refused == policyMax = 0

CheckPolicy(w) ==
    /\ At(w, "checkPolicy")
    /\ IF Refused THEN BurnThen(w, "idle")
       ELSE call' = [call EXCEPT ![w].at = "checkActive", ![w].max = policyMax]
    /\ UNCHANGED <<now, policyMax, redisVars, wrong, rowVars, restarts>>

CheckActive(w) ==
    /\ At(w, "checkActive")
    /\ IF NoActiveBreakGlass THEN Goto(w, "checkCode") ELSE BurnThen(w, "idle")
    /\ UNCHANGED <<now, policyMax, redisVars, wrong, rowVars, restarts>>

\* mfaService.verifyFactor.
CheckCode(w, ok) ==
    /\ At(w, "checkCode")
    /\ IF ok THEN BurnThen(w, "grant") ELSE Goto(w, "countWrong")
    /\ wrong' = IF ok THEN wrong ELSE [wrong EXCEPT ![Ch(w)] = @ + 1]
    /\ UNCHANGED <<now, policyMax, redisVars, rowVars, restarts>>

\* EXPIRE follows INCR in a round trip of its own and writes nothing else:
\* AttemptsExpire may come at any time or not at all, whenever that was.
CountWrong(w) ==
    /\ At(w, "countWrong")
    /\ attempts' = [attempts EXCEPT ![Ch(w)] = @ + 1]
    /\ IF attempts'[Ch(w)] >= MaxAttempts THEN BurnThen(w, "idle")
       ELSE Finish(w)
    /\ UNCHANGED <<now, policyMax, stored, started, ttl, wrong, rowVars,
                   restarts>>

\* Mutant: burning forgets the challenge itself and only resets the counter.
StillStored(c) == stored

LeftStored(c) == stored \ {c}

\* Two DELs sent together on one connection.
Burn(w) ==
    /\ At(w, "burn")
    /\ stored' = LeftStored(Ch(w))
    /\ attempts' = [attempts EXCEPT ![Ch(w)] = 0]
    /\ IF call[w].next = "idle" THEN Finish(w) ELSE Goto(w, call[w].next)
    /\ UNCHANGED <<now, policyMax, started, ttl, wrong, rowVars, restarts>>

Grant(w, r) ==
    /\ At(w, "grant")
    /\ ~Exists(r)
    /\ granted' = [granted EXCEPT ![r] = Ch(w)]
    /\ expiresAt' = [expiresAt EXCEPT ![r] =
                        now + Clamp(ttl[Ch(w)], call[w].max)]
    /\ Finish(w)
    /\ UNCHANGED <<now, policyMax, redisVars, wrong, ended, restarts>>

(***************************************************************************)
(* Everything else: the challenge's keys expire after five minutes, the    *)
(* policy is edited, a grant is revoked or swept, time passes, the process *)
(* stops in the middle of its verifications.                               *)
(***************************************************************************)
ChallengeExpires(c) ==
    /\ c \in stored
    /\ stored' = stored \ {c}
    /\ UNCHANGED <<now, policyMax, started, ttl, attempts, wrong, rowVars,
                   restarts, call>>

\* The counter has the same life but starts later than the challenge.
AttemptsExpire(c) ==
    /\ c \notin stored /\ attempts[c] > 0
    /\ attempts' = [attempts EXCEPT ![c] = 0]
    /\ UNCHANGED <<now, policyMax, stored, started, ttl, wrong, rowVars,
                   restarts, call>>

EditPolicy(max) ==
    /\ max # policyMax
    /\ policyMax' = max
    /\ UNCHANGED <<now, redisVars, wrong, rowVars,
                   restarts, call>>

EndGrant(r) ==
    /\ Exists(r) /\ r \notin ended
    /\ ended' = ended \cup {r}
    /\ UNCHANGED <<now, policyMax, redisVars, wrong, granted, expiresAt,
                   restarts, call>>

Tick ==
    /\ now < MaxTime
    /\ now' = now + 1
    /\ UNCHANGED <<policyMax, redisVars, wrong, rowVars,
                   restarts, call>>

Restart ==
    /\ restarts < MaxRestarts
    /\ restarts' = restarts + 1
    /\ call' = [w \in Workers |-> Idle]
    /\ UNCHANGED <<now, policyMax, redisVars, wrong, rowVars>>

VerifyBreakGlass(w) ==
    \/ \E c \in Challenges : VerifyBegin(w, c)
    \/ ReadChallenge(w) \/ CheckPolicy(w) \/ CheckActive(w)
    \/ \E ok \in BOOLEAN : CheckCode(w, ok)
    \/ CountWrong(w) \/ Burn(w)
    \/ \E r \in Requests : Grant(w, r)

Next ==
    \/ \E c \in Challenges, d \in Durations : StartBreakGlass(c, d)
    \/ \E w \in Workers : VerifyBreakGlass(w)
    \/ \E c \in Challenges : ChallengeExpires(c) \/ AttemptsExpire(c)
    \/ \E max \in PolicyMaxes : EditPolicy(max)
    \/ \E r \in Requests : EndGrant(r)
    \/ Tick \/ Restart

Spec == Init /\ [][Next]_vars

-----------------------------------------------------------------------------
(***************************************************************************)
(* A challenge is burned after BREAK_GLASS_MAX_ATTEMPTS wrong codes.       *)
(* Verifications in flight together may each have a code checked before    *)
(* the first of them counts, and a restart loses what they had not counted *)
(* yet, but no more than that: burning resets the counter without opening  *)
(* the challenge again.                                                    *)
(***************************************************************************)
WrongCodesBounded ==
    \A c \in Challenges :
        wrong[c] <= MaxAttempts - 1 + Cardinality(Workers) * (1 + restarts)

(***************************************************************************)
(* A challenge is used up before anything is granted for it: whatever      *)
(* happens in between, no state has both the access request and a          *)
(* challenge that could be presented again.                                *)
(***************************************************************************)
GrantedIsBurned ==
    \A r \in Requests : Exists(r) => granted[r] \notin stored

(***************************************************************************)
(* "Single-use: the challenge is burned on success (so it can't be         *)
(* replayed)": one challenge leads to at most one access request.          *)
(***************************************************************************)
OneGrantPerChallenge ==
    \A r, s \in Requests : Exists(r) /\ granted[r] = granted[s] => r = s

\* Between reading the challenge and burning it for a right code.
Using(w) ==
    \/ call[w].at \in {"checkPolicy", "checkActive", "checkCode"}
    \/ At(w, "burn") /\ call[w].next = "grant"

OneUsePerChallenge ==
    \A v, w \in Workers : Using(v) /\ Using(w) /\ Ch(v) = Ch(w) => v = w

(***************************************************************************)
(* "No two overlapping break-glass sessions on the same server", of which  *)
(* verify() is "the authoritative check, right before granting".           *)
(***************************************************************************)
NoOverlap == \A r, s \in Requests : Active(r) /\ Active(s) => r = s

\* Between finding no active access and granting one.
Admitted(w) ==
    \/ At(w, "checkCode") \/ At(w, "grant")
    \/ At(w, "burn") /\ call[w].next = "grant"

OneAdmittedAtATime ==
    \A v, w \in Workers : Admitted(v) /\ Admitted(w) => v = w

(***************************************************************************)
(* routes/accessRequests.js: "the true ceiling is the matched isBreakGlass *)
(* policy's maxSessionDuration, enforced in the service".                  *)
(***************************************************************************)
WithinPolicyCeiling ==
    [][\A w \in Workers, r \in Requests :
          Grant(w, r) => expiresAt'[r] - now <= call[w].max]_vars
=============================================================================
