-------------------------- MODULE BreakGlass_proofs --------------------------
(***************************************************************************)
(* Proofs about emergency access.  First BreakGlass, the challenge and its *)
(* verification: type correctness, that a challenge is burned before any-  *)
(* thing is granted for it, and the bound on wrong codes.  Then Policy-    *)
(* Evaluation, which authorises it, for every set of policies, servers and *)
(* principals: that an answer always exists, what each answer implies, and *)
(* that a policy found for an emergency never allows zero seconds, which   *)
(* is what BreakGlass takes for "no policy".                               *)
(***************************************************************************)
EXTENDS BreakGlass, PolicyEvaluation, FiniteSetTheorems,
        WellFoundedInduction, TLAPS

(***************************************************************************)
(* Where a verification is tells what it holds.                            *)
(***************************************************************************)
LEMMA CallKinds ==
    ASSUME NEW cr \in Calls
    PROVE  /\ cr.at = "idle" => cr = Idle
           /\ cr.at \in NoPolicyYet =>
                cr \in [at : NoPolicyYet, ch : Challenges, max : {0},
                        next : {"idle"}]
           /\ cr.at \in PolicyRead =>
                cr \in [at : PolicyRead, ch : Challenges,
                        max : PolicyMaxes \ {0}, next : {"idle", "grant"}]
           /\ cr.at = "burn" =>
                \/ cr \in [at : {"burn"}, ch : Challenges,
                           max : PolicyMaxes \cup {0}, next : {"idle"}]
                \/ cr \in [at : {"burn"}, ch : Challenges,
                           max : PolicyMaxes \ {0}, next : {"grant"}]
  BY DEF Calls, Idle, NoPolicyYet, PolicyRead

(***************************************************************************)
(* What verifyBreakGlass grants is a number of seconds.                    *)
(***************************************************************************)
LEMMA ClampNat ==
    ASSUME NEW asked \in Nat, NEW max \in Nat PROVE Clamp(asked, max) \in Nat
  BY BreakGlassAssumption DEF Clamp, Most, Least

(***************************************************************************)
(* Moving one handler to a legal state keeps all of them legal.            *)
(***************************************************************************)
LEMMA MoveType ==
    ASSUME call \in [Workers -> Calls], NEW w \in Workers, NEW cr \in Calls,
           call' = [call EXCEPT ![w] = cr]
    PROVE  /\ call' \in [Workers -> Calls]
           /\ call'[w] = cr
           /\ \A x \in Workers : x # w => call'[x] = call[x]
  OBVIOUS

(***************************************************************************)
(* The state verifyBreakGlass leaves a handler in, at each of its steps.   *)
(***************************************************************************)
LEMMA VerifyMoves ==
    ASSUME TypeOK, NEW w \in Workers, VerifyBreakGlass(w)
    PROVE  \E cr \in Calls : call' = [call EXCEPT ![w] = cr]
<1> USE DEF TypeOK, At, Ch
<1>1. ASSUME NEW c \in Challenges, VerifyBegin(w, c)
      PROVE  \E cr \in Calls : call' = [call EXCEPT ![w] = cr]
  BY <1>1 DEF VerifyBegin, Calls, NoPolicyYet
<1>2. CASE ReadChallenge(w)
  <2>1. call[w] \in [at : NoPolicyYet, ch : Challenges, max : {0},
                     next : {"idle"}]
    BY <1>2, CallKinds DEF ReadChallenge, NoPolicyYet
  <2>2. [call[w] EXCEPT !.at = "checkPolicy"] \in Calls /\ Idle \in Calls
    BY <2>1 DEF Calls, NoPolicyYet
  <2> QED
    BY <1>2, <2>2 DEF ReadChallenge, Goto, Finish
<1>3. CASE CheckPolicy(w)
  <2>1. call[w] \in [at : NoPolicyYet, ch : Challenges, max : {0},
                     next : {"idle"}]
    BY <1>3, CallKinds DEF CheckPolicy, NoPolicyYet
  <2>2. [call[w] EXCEPT !.at = "burn", !.next = "idle"] \in Calls
    BY <2>1 DEF Calls
  <2>3. ASSUME policyMax # 0
        PROVE  [call[w] EXCEPT !.at = "checkActive", !.max = policyMax]
                  \in Calls
    BY <2>1, <2>3 DEF Calls, PolicyRead
  <2> QED
    BY <1>3, <2>2, <2>3 DEF CheckPolicy, Refused, BurnThen
<1>4. CASE CheckActive(w)
  <2>1. call[w] \in [at : PolicyRead, ch : Challenges, max : PolicyMaxes \ {0},
                     next : {"idle", "grant"}]
    BY <1>4, CallKinds DEF CheckActive, PolicyRead
  <2>2. /\ [call[w] EXCEPT !.at = "checkCode"] \in Calls
        /\ [call[w] EXCEPT !.at = "burn", !.next = "idle"] \in Calls
    BY <2>1 DEF Calls, PolicyRead
  <2> QED
    BY <1>4, <2>2 DEF CheckActive, Goto, BurnThen
<1>5. ASSUME NEW ok \in BOOLEAN, CheckCode(w, ok)
      PROVE  \E cr \in Calls : call' = [call EXCEPT ![w] = cr]
  <2>1. call[w] \in [at : PolicyRead, ch : Challenges, max : PolicyMaxes \ {0},
                     next : {"idle", "grant"}]
    BY <1>5, CallKinds DEF CheckCode, PolicyRead
  <2>2. /\ [call[w] EXCEPT !.at = "countWrong"] \in Calls
        /\ [call[w] EXCEPT !.at = "burn", !.next = "grant"] \in Calls
    BY <2>1 DEF Calls, PolicyRead
  <2> QED
    BY <1>5, <2>2 DEF CheckCode, Goto, BurnThen
<1>6. CASE CountWrong(w)
  <2>1. call[w] \in [at : PolicyRead, ch : Challenges, max : PolicyMaxes \ {0},
                     next : {"idle", "grant"}]
    BY <1>6, CallKinds DEF CountWrong, PolicyRead
  <2>2. /\ [call[w] EXCEPT !.at = "burn", !.next = "idle"] \in Calls
        /\ Idle \in Calls
    BY <2>1 DEF Calls
  <2> QED
    BY <1>6, <2>2 DEF CountWrong, BurnThen, Finish
<1>7. CASE Burn(w)
  <2>1. CASE call[w].next = "idle"
    BY <1>7, <2>1 DEF Burn, Finish, Calls
  <2>2. CASE call[w].next # "idle"
    <3>1. call[w] \in [at : {"burn"}, ch : Challenges,
                       max : PolicyMaxes \ {0}, next : {"grant"}]
      BY <1>7, <2>2, CallKinds DEF Burn
    <3>2. [call[w] EXCEPT !.at = "grant"] \in Calls
      BY <3>1 DEF Calls, PolicyRead
    <3> QED
      BY <1>7, <3>1, <3>2 DEF Burn, Goto
  <2> QED
    BY <2>1, <2>2
<1>8. ASSUME NEW r \in Requests, Grant(w, r)
      PROVE  \E cr \in Calls : call' = [call EXCEPT ![w] = cr]
  BY <1>8 DEF Grant, Finish, Calls
<1> QED
  BY <1>1, <1>2, <1>3, <1>4, <1>5, <1>6, <1>7, <1>8 DEF VerifyBreakGlass

(***************************************************************************)
(* Every step of a verification keeps TypeOK.                              *)
(***************************************************************************)
LEMMA VerifyType ==
    ASSUME TypeOK, NEW w \in Workers, VerifyBreakGlass(w) PROVE TypeOK'
<1>1. call' \in [Workers -> Calls]
  BY VerifyMoves, MoveType DEF TypeOK
<1> USE DEF TypeOK, redisVars, rowVars
<1>2. ASSUME NEW c \in Challenges, VerifyBegin(w, c) PROVE TypeOK'
  BY <1>1, <1>2 DEF VerifyBegin
<1>3. CASE ReadChallenge(w) \/ CheckPolicy(w) \/ CheckActive(w)
  BY <1>1, <1>3 DEF ReadChallenge, CheckPolicy, CheckActive
<1>4. ASSUME NEW ok \in BOOLEAN, CheckCode(w, ok) PROVE TypeOK'
  <2>1. Ch(w) \in Challenges
    BY <1>4, CallKinds DEF CheckCode, At, Ch, PolicyRead
  <2>2. wrong' \in [Challenges -> Nat]
    BY <1>4, <2>1 DEF CheckCode
  <2> QED
    BY <1>1, <1>4, <2>2 DEF CheckCode
<1>5. CASE CountWrong(w)
  <2>1. Ch(w) \in Challenges
    BY <1>5, CallKinds DEF CountWrong, At, Ch, PolicyRead
  <2>2. attempts' \in [Challenges -> Nat]
    BY <1>5, <2>1 DEF CountWrong
  <2> QED
    BY <1>1, <1>5, <2>2 DEF CountWrong
<1>6. CASE Burn(w)
  BY <1>1, <1>6 DEF Burn, LeftStored
<1>7. ASSUME NEW r \in Requests, Grant(w, r) PROVE TypeOK'
  <2>1. call[w] \in [at : PolicyRead, ch : Challenges, max : PolicyMaxes \ {0},
                     next : {"idle", "grant"}]
    BY <1>7, CallKinds DEF Grant, At, PolicyRead
  <2>2. Clamp(ttl[Ch(w)], call[w].max) \in Nat
    BY <2>1, ClampNat, BreakGlassAssumption DEF Ch
  <2>3. expiresAt' \in [Requests -> Nat]
    BY <1>7, <2>2 DEF Grant
  <2> QED
    BY <1>1, <1>7, <2>1, <2>3 DEF Grant, Ch
<1> QED
  BY <1>2, <1>3, <1>4, <1>5, <1>6, <1>7 DEF VerifyBreakGlass

(***************************************************************************)
(* So does every other step.                                               *)
(***************************************************************************)
LEMMA TypeStep ==
    ASSUME TypeOK, [Next]_vars PROVE TypeOK'
<1>1. ASSUME NEW w \in Workers, VerifyBreakGlass(w) PROVE TypeOK'
  BY <1>1, VerifyType
<1> USE DEF TypeOK, redisVars, rowVars
<1>2. ASSUME NEW c \in Challenges, NEW d \in Durations, StartBreakGlass(c, d)
      PROVE  TypeOK'
  <2>1. Clamp(d, policyMax) \in Nat
    BY ClampNat, BreakGlassAssumption
  <2> QED
    BY <1>2, <2>1 DEF StartBreakGlass
<1>3. ASSUME NEW c \in Challenges, ChallengeExpires(c) \/ AttemptsExpire(c)
      PROVE  TypeOK'
  BY <1>3 DEF ChallengeExpires, AttemptsExpire
<1>4. ASSUME NEW max \in PolicyMaxes, EditPolicy(max) PROVE TypeOK'
  BY <1>4 DEF EditPolicy
<1>5. ASSUME NEW r \in Requests, EndGrant(r) PROVE TypeOK'
  BY <1>5 DEF EndGrant
<1>6. CASE Tick
  BY <1>6 DEF Tick
<1>7. CASE Restart
  BY <1>7, BreakGlassAssumption DEF Restart, Calls
<1>8. CASE UNCHANGED vars
  BY <1>8 DEF vars
<1> QED
  BY <1>1, <1>2, <1>3, <1>4, <1>5, <1>6, <1>7, <1>8 DEF Next

LEMMA InitType == Init => TypeOK
  BY BreakGlassAssumption DEF Init, TypeOK, Calls

(***************************************************************************)
(* Every variable keeps its type; a verification that may grant holds a    *)
(* policy's maximum and not "no policy".                                   *)
(***************************************************************************)
THEOREM TypeCorrect == Spec => []TypeOK
<1>1. Init => TypeOK
  BY InitType
<1>2. TypeOK /\ [Next]_vars => TypeOK'
  BY TypeStep
<1> QED
  BY <1>1, <1>2, PTL DEF Spec

-----------------------------------------------------------------------------
(***************************************************************************)
(* GrantedIsBurned is not inductive.  BurnInv adds the handler between     *)
(* burning its challenge and granting, and that challenges are never       *)
(* started again.                                                          *)
(***************************************************************************)
BurnInv ==
    /\ \A w \in Workers : ~At(w, "idle") =>
          /\ Ch(w) \in started
          /\ At(w, "grant") => Ch(w) \notin stored
    /\ \A r \in Requests : Exists(r) => granted[r] \in started \ stored

(***************************************************************************)
(* A step of a verification: its challenge stays the one it began with.    *)
(***************************************************************************)
LEMMA VerifyBurn ==
    ASSUME TypeOK, BurnInv, NEW w \in Workers, VerifyBreakGlass(w)
    PROVE  BurnInv'
<1> USE DEF TypeOK, BurnInv, At, Ch, Exists, redisVars, rowVars
<1>0. PICK cr \in Calls : call' = [call EXCEPT ![w] = cr]
  BY VerifyMoves
<1>a. /\ call'[w] = cr
      /\ \A x \in Workers : x # w => call'[x] = call[x]
  BY <1>0, MoveType
<1>1. ASSUME NEW c \in Challenges, VerifyBegin(w, c) PROVE BurnInv'
  BY <1>1, <1>a DEF VerifyBegin
<1>2. CASE ReadChallenge(w) \/ CheckPolicy(w) \/ CheckActive(w)
  <2>1. cr.at = "idle" \/ (cr.ch = call[w].ch /\ cr.at # "grant")
    BY <1>2, <1>a, CallKinds DEF ReadChallenge, CheckPolicy, CheckActive,
       Goto, Finish, BurnThen, Idle, Calls
  <2> QED
    BY <1>2, <1>a, <2>1 DEF ReadChallenge, CheckPolicy, CheckActive
<1>3. ASSUME NEW ok \in BOOLEAN, CheckCode(w, ok) PROVE BurnInv'
  <2>1. cr.ch = call[w].ch /\ cr.at # "grant"
    BY <1>3, <1>a, CallKinds DEF CheckCode, Goto, BurnThen, Calls
  <2> QED
    BY <1>3, <1>a, <2>1 DEF CheckCode
<1>4. CASE CountWrong(w)
  <2>1. cr.at = "idle" \/ (cr.ch = call[w].ch /\ cr.at # "grant")
    BY <1>4, <1>a DEF CountWrong, Finish, BurnThen, Idle, Calls
  <2> QED
    BY <1>4, <1>a, <2>1 DEF CountWrong
<1>5. CASE Burn(w)
  <2>1. cr.at = "idle" \/ cr.ch = call[w].ch
    BY <1>5, <1>a DEF Burn, Finish, Goto, Idle, Calls
  <2> QED
    BY <1>5, <1>a, <2>1 DEF Burn, LeftStored
<1>6. ASSUME NEW r \in Requests, Grant(w, r) PROVE BurnInv'
  BY <1>6, <1>a DEF Grant, Finish, Idle
<1> QED
  BY <1>1, <1>2, <1>3, <1>4, <1>5, <1>6 DEF VerifyBreakGlass

(***************************************************************************)
(* Every step keeps BurnInv.                                               *)
(***************************************************************************)
LEMMA BurnStep ==
    ASSUME TypeOK, BurnInv, [Next]_vars PROVE BurnInv'
<1>1. ASSUME NEW w \in Workers, VerifyBreakGlass(w) PROVE BurnInv'
  BY <1>1, VerifyBurn
<1> USE DEF TypeOK, BurnInv, At, Ch, Exists, redisVars, rowVars
<1>2. ASSUME NEW c \in Challenges, NEW d \in Durations, StartBreakGlass(c, d)
      PROVE  BurnInv'
  BY <1>2 DEF StartBreakGlass
<1>3. ASSUME NEW c \in Challenges, ChallengeExpires(c) \/ AttemptsExpire(c)
      PROVE  BurnInv'
  BY <1>3 DEF ChallengeExpires, AttemptsExpire
<1>4. ASSUME NEW max \in PolicyMaxes, EditPolicy(max) PROVE BurnInv'
  BY <1>4 DEF EditPolicy
<1>5. ASSUME NEW r \in Requests, EndGrant(r) PROVE BurnInv'
  BY <1>5 DEF EndGrant
<1>6. CASE Tick \/ UNCHANGED vars
  BY <1>6 DEF Tick, vars
<1>7. CASE Restart
  BY <1>7 DEF Restart, Idle
<1> QED
  BY <1>1, <1>2, <1>3, <1>4, <1>5, <1>6, <1>7 DEF Next

(***************************************************************************)
(* The invariant of both.                                                  *)
(***************************************************************************)
LEMMA Burned == Spec => [](TypeOK /\ BurnInv)
<1>1. Init => TypeOK /\ BurnInv
  BY InitType DEF Init, BurnInv, At, Idle, Exists
<1>2. TypeOK /\ BurnInv /\ [Next]_vars => TypeOK' /\ BurnInv'
  BY TypeStep, BurnStep
<1> QED
  BY <1>1, <1>2, PTL DEF Spec

(***************************************************************************)
(* verifyBreakGlass burns the challenge before it grants, and nothing      *)
(* brings the challenge back, for any number of verifications in flight.   *)
(***************************************************************************)
THEOREM BurnedBeforeGranted == Spec => []GrantedIsBurned
<1>1. BurnInv => GrantedIsBurned
  BY DEF BurnInv, GrantedIsBurned
<1> QED
  BY <1>1, Burned, PTL
-----------------------------------------------------------------------------
(***************************************************************************)
(* WrongCodesBounded is not inductive.  Held counts the verifications that *)
(* are at certain steps for one challenge, Lost the most that restarts may *)
(* have kept from counting.                                                *)
(***************************************************************************)
HeldBy(cr, A, c) == cr.at \in A /\ cr.ch = c

Held(A, c) == {x \in Workers : HeldBy(call[x], A, c)}

Checking == {"checkPolicy", "checkActive", "checkCode"}
Counting == {"countWrong"}
Ending == {"countWrong", "burn"}

Uncounted(c) == Cardinality(Held(Counting, c))
Stopping(c) == Cardinality(Held(Ending, c))
StillChecking(c) == Cardinality(Held(Checking, c))

Lost == Cardinality(Workers) * restarts

(***************************************************************************)
(* While the challenge is stored every wrong code is counted, about to be, *)
(* or lost, and the verifications past the limit wait to burn it.  Once it *)
(* is gone only those past readChallenge may still check a code.           *)
(***************************************************************************)
WrongFor(c) ==
    /\ c \notin started => wrong[c] = 0
    /\ c \in stored =>
          /\ wrong[c] <= attempts[c] + Uncounted(c) + Lost
          /\ wrong[c] <= MaxAttempts - 1 + Stopping(c) + Lost
    /\ c \notin stored =>
          wrong[c] + StillChecking(c)
              <= MaxAttempts - 1 + Cardinality(Workers) + Lost

WrongInv == \A c \in Challenges : WrongFor(c)

(***************************************************************************)
(* The counts are numbers no greater than the number of verifications.     *)
(***************************************************************************)
LEMMA HeldFinite ==
    ASSUME NEW A, NEW c
    PROVE  /\ IsFiniteSet(Held(A, c)) /\ Cardinality(Held(A, c)) \in Nat
           /\ Cardinality(Workers) \in Nat
           /\ Cardinality(Held(A, c)) <= Cardinality(Workers)
<1>1. Held(A, c) \subseteq Workers
  BY DEF Held
<1> QED
  BY <1>1, FS_Subset, FS_CardinalityType, BreakGlassAssumption

LEMMA Counts ==
    ASSUME NEW c
    PROVE  /\ Uncounted(c) \in Nat /\ Stopping(c) \in Nat
           /\ StillChecking(c) \in Nat /\ Cardinality(Workers) \in Nat
           /\ Stopping(c) + StillChecking(c) <= Cardinality(Workers)
           /\ StillChecking(c) <= Cardinality(Workers)
           /\ Uncounted(c) <= Stopping(c)
<1>1. Uncounted(c) \in Nat /\ Stopping(c) \in Nat /\ StillChecking(c) \in Nat
      /\ Cardinality(Workers) \in Nat
      /\ StillChecking(c) <= Cardinality(Workers)
  BY HeldFinite DEF Uncounted, Stopping, StillChecking
<1> DEFINE S == Held(Ending, c)
           K == Held(Checking, c)
<1>2. S \cap K = {} /\ S \cup K \subseteq Workers
  BY DEF Held, HeldBy, Checking, Ending
<1>3. IsFiniteSet(S) /\ IsFiniteSet(K)
  BY HeldFinite
<1>4. Cardinality(S \cup K) <= Cardinality(Workers)
  BY <1>2, FS_Subset, BreakGlassAssumption
<1>5. Cardinality(S \cup K) = Cardinality(S) + Cardinality(K)
  <2> HIDE DEF S, K
  <2>1. Cardinality(S \cap K) = 0
    BY <1>2, FS_EmptySet
  <2>2. /\ Cardinality(S \cup K)
             = Cardinality(S) + Cardinality(K) - Cardinality(S \cap K)
        /\ Cardinality(S) \in Nat /\ Cardinality(K) \in Nat
    BY <1>3, FS_Union, FS_CardinalityType
  <2> QED
    BY <2>1, <2>2
<1>6. Cardinality(Held(Counting, c)) <= Cardinality(S)
  <2>1. Held(Counting, c) \subseteq S
    BY DEF Held, HeldBy, Counting, Ending
  <2> QED
    BY <1>3, <2>1, FS_Subset
<1> QED
  BY <1>1, <1>4, <1>5, <1>6 DEF Uncounted, Stopping, StillChecking

LEMMA WorkersNat == Cardinality(Workers) \in Nat
  BY FS_CardinalityType, BreakGlassAssumption

LEMMA LostNat ==
    ASSUME TypeOK
    PROVE  /\ Lost \in Nat
           /\ restarts' = restarts + 1 => Lost' = Lost + Cardinality(Workers)
<1> DEFINE W == Cardinality(Workers)
<1>1. W \in Nat /\ restarts \in Nat
  BY WorkersNat, BreakGlassAssumption DEF TypeOK
<1> HIDE DEF W
<1>2. W * restarts \in Nat /\ W * (restarts + 1) = W * restarts + W
  BY <1>1
<1>3. Lost = W * restarts /\ Lost' = W * restarts'
  BY DEF Lost, W
<1> QED
  BY <1>2, <1>3 DEF W

(***************************************************************************)
(* One verification moves: each count follows it.                          *)
(***************************************************************************)
LEMMA HeldMoves ==
    ASSUME call \in [Workers -> Calls], NEW w \in Workers, NEW cr \in Calls,
           call' = [call EXCEPT ![w] = cr], NEW A, NEW c
    PROVE  /\ (HeldBy(call[w], A, c) <=> HeldBy(cr, A, c)) =>
                Cardinality(Held(A, c)') = Cardinality(Held(A, c))
           /\ ~HeldBy(call[w], A, c) /\ HeldBy(cr, A, c) =>
                Cardinality(Held(A, c)') = Cardinality(Held(A, c)) + 1
           /\ HeldBy(call[w], A, c) /\ ~HeldBy(cr, A, c) =>
                Cardinality(Held(A, c)') = Cardinality(Held(A, c)) - 1
<1>0. IsFiniteSet(Held(A, c)) /\ Cardinality(Held(A, c)) \in Nat
  BY HeldFinite
<1>1. ASSUME (HeldBy(call[w], A, c) <=> HeldBy(cr, A, c))
      PROVE  Held(A, c)' = Held(A, c)
  BY <1>1, MoveType DEF Held, HeldBy
<1>2. ASSUME ~HeldBy(call[w], A, c), HeldBy(cr, A, c)
      PROVE  Cardinality(Held(A, c)') = Cardinality(Held(A, c)) + 1
  <2>1. Held(A, c)' = Held(A, c) \cup {w} /\ w \notin Held(A, c)
    BY <1>2, MoveType DEF Held, HeldBy
  <2> QED
    BY <1>0, <2>1, FS_AddElement
<1>3. ASSUME HeldBy(call[w], A, c), ~HeldBy(cr, A, c)
      PROVE  Cardinality(Held(A, c)') = Cardinality(Held(A, c)) - 1
  <2>1. Held(A, c)' = Held(A, c) \ {w} /\ w \in Held(A, c)
    BY <1>3, MoveType DEF Held, HeldBy
  <2> QED
    BY <1>0, <2>1, FS_RemoveElement
<1> QED
  BY <1>1, <1>2, <1>3

(***************************************************************************)
(* A step of a verification keeps WrongFor of every challenge.             *)
(***************************************************************************)
LEMMA VerifyWrong ==
    ASSUME TypeOK, BurnInv, NEW w \in Workers, VerifyBreakGlass(w),
           NEW c \in Challenges, WrongFor(c)
    PROVE  WrongFor(c)'
<1>0. PICK cr \in Calls : call' = [call EXCEPT ![w] = cr]
  BY VerifyMoves
<1>a. call'[w] = cr
  BY <1>0, MoveType DEF TypeOK
<1> DEFINE
      In(A) == HeldBy(call[w], A, c)
      Will(A) == HeldBy(cr, A, c)
      W == Cardinality(Workers)
<1>b. /\ (In(Counting) <=> Will(Counting)) =>
            Uncounted(c)' = Uncounted(c)
      /\ ~In(Counting) /\ Will(Counting) =>
            Uncounted(c)' = Uncounted(c) + 1
      /\ In(Counting) /\ ~Will(Counting) =>
            Uncounted(c)' = Uncounted(c) - 1
  BY <1>0, HeldMoves DEF TypeOK, Uncounted
<1>c. /\ (In(Ending) <=> Will(Ending)) =>
            Stopping(c)' = Stopping(c)
      /\ ~In(Ending) /\ Will(Ending) =>
            Stopping(c)' = Stopping(c) + 1
      /\ In(Ending) /\ ~Will(Ending) =>
            Stopping(c)' = Stopping(c) - 1
  BY <1>0, HeldMoves DEF TypeOK, Stopping
<1>d. /\ (In(Checking) <=> Will(Checking)) =>
            StillChecking(c)' = StillChecking(c)
      /\ ~In(Checking) /\ Will(Checking) =>
            StillChecking(c)' = StillChecking(c) + 1
      /\ In(Checking) /\ ~Will(Checking) =>
            StillChecking(c)' = StillChecking(c) - 1
  BY <1>0, HeldMoves DEF TypeOK, StillChecking
<1>e. /\ Uncounted(c) \in Nat /\ Stopping(c) \in Nat
      /\ StillChecking(c) \in Nat /\ W \in Nat /\ Lost \in Nat
      /\ Stopping(c) + StillChecking(c) <= W /\ Uncounted(c) <= Stopping(c)
      /\ attempts[c] \in Nat /\ wrong[c] \in Nat
      /\ MaxAttempts \in Nat \ {0}
      /\ stored \subseteq started
  BY Counts, LostNat, BreakGlassAssumption DEF TypeOK
<1>f. restarts' = restarts => Lost' = Lost
  BY DEF Lost
<1> HIDE DEF W
<1> USE DEF At, Ch, HeldBy, Checking, Counting, Ending, redisVars, rowVars
<1>1. ASSUME NEW b \in Challenges, VerifyBegin(w, b) PROVE WrongFor(c)'
  <2>1. /\ ~In(Counting) /\ ~In(Ending)
        /\ ~In(Checking)
        /\ ~Will(Counting) /\ ~Will(Checking)
    BY <1>1, <1>a DEF VerifyBegin
  <2>2. /\ Uncounted(c)' = Uncounted(c)
        /\ Stopping(c)' \in {Stopping(c), Stopping(c) + 1}
        /\ StillChecking(c)' = StillChecking(c)
    BY <2>1, <1>b, <1>c, <1>d, Zenon
  <2> QED
    BY <1>1, <2>2, <1>e, <1>f DEF VerifyBegin, WrongFor, W
<1>2. CASE ReadChallenge(w)
  <2>1. /\ ~In(Counting) /\ ~In(Ending)
        /\ ~In(Checking)
        /\ ~Will(Counting) /\ ~Will(Ending)
        /\ c \notin stored => ~Will(Checking)
    BY <1>2, <1>a, CallKinds
       DEF ReadChallenge, Goto, Finish, Idle, TypeOK, NoPolicyYet
  <2>2. /\ Uncounted(c)' = Uncounted(c) /\ Stopping(c)' = Stopping(c)
        /\ c \notin stored => StillChecking(c)' = StillChecking(c)
    BY <2>1, <1>b, <1>c, <1>d, Zenon
  <2> QED
    BY <1>2, <2>2, <1>e, <1>f DEF ReadChallenge, WrongFor, W
<1>3. CASE CheckPolicy(w) \/ CheckActive(w)
  <2>1. /\ ~In(Counting) /\ ~In(Ending)
        /\ ~Will(Counting)
        /\ ~In(Checking) => ~Will(Checking)
    BY <1>3, <1>a, CallKinds
       DEF CheckPolicy, CheckActive, Goto, BurnThen, TypeOK, NoPolicyYet,
           PolicyRead
  <2>2. /\ Uncounted(c)' = Uncounted(c)
        /\ Stopping(c)' \in {Stopping(c), Stopping(c) + 1}
        /\ StillChecking(c)' \in {StillChecking(c), StillChecking(c) - 1}
    BY <2>1, <1>b, <1>c, <1>d, Zenon
  <2> QED
    BY <1>3, <2>2, <1>e, <1>f DEF CheckPolicy, CheckActive, WrongFor, W
<1>4. ASSUME NEW ok \in BOOLEAN, CheckCode(w, ok) PROVE WrongFor(c)'
  <2>0. UNCHANGED <<stored, started, attempts, restarts>>
    BY <1>4 DEF CheckCode
  <2>1. CASE Ch(w) # c
    <3>1. /\ ~In(Counting) /\ ~In(Ending)
          /\ ~In(Checking) /\ ~Will(Counting)
          /\ ~Will(Ending) /\ ~Will(Checking)
          /\ wrong'[c] = wrong[c]
      BY <1>4, <1>a, <2>1, CallKinds
         DEF CheckCode, Goto, BurnThen, TypeOK, PolicyRead
    <3>2. /\ Uncounted(c)' = Uncounted(c) /\ Stopping(c)' = Stopping(c)
          /\ StillChecking(c)' = StillChecking(c)
      BY <3>1, <1>b, <1>c, <1>d, Zenon
    <3> QED
      BY <3>1, <3>2, <2>0, <1>e, <1>f DEF WrongFor, W
  <2>2. CASE Ch(w) = c /\ ok
    <3>1. /\ ~In(Counting) /\ ~In(Ending)
          /\ In(Checking) /\ ~Will(Counting)
          /\ Will(Ending) /\ ~Will(Checking)
          /\ wrong'[c] = wrong[c]
      BY <1>4, <1>a, <2>2, CallKinds
         DEF CheckCode, Goto, BurnThen, TypeOK, PolicyRead
    <3>2. /\ Uncounted(c)' = Uncounted(c) /\ Stopping(c)' = Stopping(c) + 1
          /\ StillChecking(c)' = StillChecking(c) - 1
      BY <3>1, <1>b, <1>c, <1>d, Zenon
    <3> QED
      BY <3>1, <3>2, <2>0, <1>e, <1>f DEF WrongFor, W
  <2>3. CASE Ch(w) = c /\ ~ok
    <3>1. /\ ~In(Counting) /\ ~In(Ending)
          /\ In(Checking) /\ Will(Counting)
          /\ Will(Ending) /\ ~Will(Checking)
          /\ wrong'[c] = wrong[c] + 1
          /\ c \in started
      BY <1>4, <1>a, <2>3, CallKinds
         DEF CheckCode, Goto, BurnThen, TypeOK, PolicyRead, BurnInv
    <3>2. /\ Uncounted(c)' = Uncounted(c) + 1
          /\ Stopping(c)' = Stopping(c) + 1
          /\ StillChecking(c)' = StillChecking(c) - 1
      BY <3>1, <1>b, <1>c, <1>d, Zenon
    <3> QED
      BY <3>1, <3>2, <2>0, <1>e, <1>f DEF WrongFor, W
  <2> QED
    BY <2>1, <2>2, <2>3
<1>5. CASE CountWrong(w)
  <2>0. UNCHANGED <<stored, started, wrong, restarts>>
    BY <1>5 DEF CountWrong
  <2>1. CASE Ch(w) # c
    <3>1. /\ ~In(Counting) /\ ~In(Ending)
          /\ ~In(Checking) /\ ~Will(Counting)
          /\ ~Will(Ending) /\ ~Will(Checking)
          /\ attempts'[c] = attempts[c]
      BY <1>5, <1>a, <2>1, CallKinds
         DEF CountWrong, Finish, BurnThen, TypeOK, Idle, PolicyRead
    <3>2. /\ Uncounted(c)' = Uncounted(c) /\ Stopping(c)' = Stopping(c)
          /\ StillChecking(c)' = StillChecking(c)
      BY <3>1, <1>b, <1>c, <1>d, Zenon
    <3> QED
      BY <3>1, <3>2, <2>0, <1>e, <1>f DEF WrongFor, W
  <2>2. CASE Ch(w) = c
    <3>1. /\ In(Counting) /\ In(Ending)
          /\ ~In(Checking) /\ ~Will(Counting) /\ ~Will(Checking)
          /\ attempts'[c] = attempts[c] + 1
          /\ attempts'[c] >= MaxAttempts => Will(Ending)
      BY <1>5, <1>a, <2>2, CallKinds
         DEF CountWrong, Finish, BurnThen, TypeOK, Idle, PolicyRead
    <3>2. /\ Uncounted(c)' = Uncounted(c) - 1
          /\ attempts'[c] >= MaxAttempts => Stopping(c)' = Stopping(c)
          /\ Stopping(c)' \in {Stopping(c), Stopping(c) - 1}
          /\ StillChecking(c)' = StillChecking(c)
      BY <3>1, <1>b, <1>c, <1>d, Zenon
    <3> QED
      BY <3>1, <3>2, <2>0, <1>e, <1>f DEF WrongFor, W
  <2> QED
    BY <2>1, <2>2
<1>6. CASE Burn(w)
  <2>0. /\ UNCHANGED <<started, wrong, restarts>>
        /\ stored' = stored \ {Ch(w)}
    BY <1>6 DEF Burn, LeftStored
  <2>1. /\ ~In(Counting) /\ ~In(Checking)
        /\ ~Will(Counting) /\ ~Will(Checking)
        /\ Ch(w) # c => /\ ~In(Ending)
                        /\ ~Will(Ending)
                        /\ attempts'[c] = attempts[c]
    BY <1>6, <1>a, CallKinds DEF Burn, Finish, Goto, TypeOK, Idle
  <2>2. /\ Uncounted(c)' = Uncounted(c)
        /\ StillChecking(c)' = StillChecking(c)
        /\ Ch(w) # c => Stopping(c)' = Stopping(c)
    BY <2>1, <1>b, <1>c, <1>d, Zenon
  <2>3. CASE Ch(w) # c
    BY <2>0, <2>1, <2>2, <2>3, <1>e, <1>f DEF WrongFor, W
  <2>4. CASE Ch(w) = c
    BY <2>0, <2>2, <2>4, <1>e, <1>f DEF WrongFor, W
  <2> QED
    BY <2>3, <2>4
<1>7. ASSUME NEW r \in Requests, Grant(w, r) PROVE WrongFor(c)'
  <2>1. /\ ~In(Counting) /\ ~In(Ending)
        /\ ~In(Checking) /\ ~Will(Counting)
        /\ ~Will(Ending) /\ ~Will(Checking)
    BY <1>7, <1>a DEF Grant, Finish, Idle, TypeOK
  <2>2. /\ Uncounted(c)' = Uncounted(c) /\ Stopping(c)' = Stopping(c)
        /\ StillChecking(c)' = StillChecking(c)
    BY <2>1, <1>b, <1>c, <1>d, Zenon
  <2> QED
    BY <1>7, <2>2, <1>e, <1>f DEF Grant, WrongFor, W
<1> QED
  BY <1>1, <1>2, <1>3, <1>4, <1>5, <1>6, <1>7 DEF VerifyBreakGlass

(***************************************************************************)
(* Every other step leaves the verifications where they are, or stops them *)
(* all at once.                                                            *)
(***************************************************************************)
LEMMA WrongStep ==
    ASSUME TypeOK, BurnInv, WrongInv, [Next]_vars PROVE WrongInv'
<1> SUFFICES ASSUME NEW c \in Challenges PROVE WrongFor(c)'
  BY DEF WrongInv
<1>0. WrongFor(c)
  BY DEF WrongInv
<1>1. ASSUME NEW w \in Workers, VerifyBreakGlass(w) PROVE WrongFor(c)'
  BY <1>0, <1>1, VerifyWrong
<1>a. /\ Uncounted(c) \in Nat /\ Stopping(c) \in Nat
      /\ StillChecking(c) \in Nat /\ Cardinality(Workers) \in Nat
      /\ Lost \in Nat
      /\ Stopping(c) + StillChecking(c) <= Cardinality(Workers)
      /\ StillChecking(c) <= Cardinality(Workers)
      /\ attempts[c] \in Nat /\ wrong[c] \in Nat
      /\ MaxAttempts \in Nat \ {0}
      /\ stored \subseteq started
  BY Counts, LostNat, BreakGlassAssumption DEF TypeOK
<1>b. ASSUME UNCHANGED <<call, restarts>>
      PROVE  /\ Uncounted(c)' = Uncounted(c) /\ Stopping(c)' = Stopping(c)
             /\ StillChecking(c)' = StillChecking(c) /\ Lost' = Lost
  BY <1>b DEF Uncounted, Stopping, StillChecking, Held, Lost
<1> USE DEF redisVars, rowVars
<1>2. ASSUME NEW b \in Challenges, NEW d \in Durations, StartBreakGlass(b, d)
      PROVE  WrongFor(c)'
  <2>1. UNCHANGED <<call, restarts, wrong, attempts>>
    BY <1>2 DEF StartBreakGlass
  <2>2. CASE b = c
    BY <1>0, <1>2, <1>a, <1>b, <2>1, <2>2 DEF StartBreakGlass, WrongFor
  <2>3. CASE b # c
    BY <1>0, <1>2, <1>a, <1>b, <2>1, <2>3 DEF StartBreakGlass, WrongFor
  <2> QED
    BY <2>2, <2>3
<1>3. ASSUME NEW b \in Challenges, ChallengeExpires(b) PROVE WrongFor(c)'
  BY <1>0, <1>3, <1>a, <1>b DEF ChallengeExpires, WrongFor
<1>4. ASSUME NEW b \in Challenges, AttemptsExpire(b) PROVE WrongFor(c)'
  <2>1. c \in stored => attempts'[c] = attempts[c]
    BY <1>4 DEF AttemptsExpire, TypeOK
  <2> QED
    BY <1>0, <1>4, <1>a, <1>b, <2>1 DEF AttemptsExpire, WrongFor
<1>5. ASSUME UNCHANGED <<stored, started, attempts, wrong, restarts, call>>
      PROVE  WrongFor(c)'
  BY <1>0, <1>5, <1>b DEF WrongFor
<1>6. ASSUME NEW max \in PolicyMaxes, EditPolicy(max) PROVE WrongFor(c)'
  BY <1>5, <1>6 DEF EditPolicy
<1>7. ASSUME NEW r \in Requests, EndGrant(r) PROVE WrongFor(c)'
  BY <1>5, <1>7 DEF EndGrant
<1>8. CASE Tick \/ UNCHANGED vars
  BY <1>5, <1>8 DEF Tick, vars
<1>9. CASE Restart
  <2>1. /\ Held(Counting, c)' = {}
        /\ Held(Ending, c)' = {}
        /\ Held(Checking, c)' = {}
    BY <1>9 DEF Restart, Held, HeldBy, Checking, Counting, Ending, Idle
  <2>2. Uncounted(c)' = 0 /\ Stopping(c)' = 0 /\ StillChecking(c)' = 0
    BY <2>1, FS_EmptySet DEF Uncounted, Stopping, StillChecking
  <2>3. Uncounted(c) <= Cardinality(Workers)
    BY HeldFinite DEF Uncounted
  <2>4. Lost' = Lost + Cardinality(Workers)
    BY <1>9, LostNat DEF Restart
  <2>5. UNCHANGED <<stored, started, attempts, wrong>>
    BY <1>9 DEF Restart
  <2> QED
    BY <1>0, <1>a, <2>2, <2>3, <2>4, <2>5 DEF WrongFor
<1> QED
  BY <1>1, <1>2, <1>3, <1>4, <1>6, <1>7, <1>8, <1>9 DEF Next

(***************************************************************************)
(* The number of wrong codes that can be tried against one challenge is    *)
(* bounded, for any number of verifications in flight and restarts.        *)
(***************************************************************************)
THEOREM WrongCodesAreBounded == Spec => []WrongCodesBounded
<1>1. Init => WrongInv
  <2> SUFFICES ASSUME Init, NEW c \in Challenges PROVE WrongFor(c)
    BY DEF WrongInv
  <2>1. /\ StillChecking(c) \in Nat /\ Cardinality(Workers) \in Nat
        /\ StillChecking(c) <= Cardinality(Workers) /\ Lost \in Nat
        /\ MaxAttempts \in Nat \ {0}
    BY Counts, LostNat, InitType, BreakGlassAssumption
  <2> QED
    BY <2>1 DEF Init, WrongFor
<1>2. TypeOK /\ BurnInv /\ WrongInv /\ [Next]_vars => WrongInv'
  BY WrongStep
<1>3. ASSUME TypeOK, WrongInv PROVE WrongCodesBounded
  <2> SUFFICES ASSUME NEW c \in Challenges
               PROVE  wrong[c] <= MaxAttempts - 1
                                    + Cardinality(Workers) * (1 + restarts)
    BY DEF WrongCodesBounded
  <2> DEFINE W == Cardinality(Workers)
  <2>1. /\ W \in Nat /\ restarts \in Nat /\ MaxAttempts \in Nat
        /\ wrong[c] \in Nat /\ StillChecking(c) \in Nat
        /\ Stopping(c) \in Nat /\ Lost \in Nat
        /\ Stopping(c) + StillChecking(c) <= W
    BY <1>3, Counts, LostNat, BreakGlassAssumption DEF TypeOK
  <2>2. Lost = W * restarts
    BY DEF Lost
  <2>3. wrong[c] <= MaxAttempts - 1 + W + Lost
    BY <1>3, <2>1 DEF WrongInv, WrongFor
  <2> HIDE DEF W
  <2>4. W * (1 + restarts) = W + W * restarts
    BY <2>1
  <2> QED
    BY <2>1, <2>2, <2>3, <2>4 DEF W
<1> QED
  BY <1>1, <1>2, <1>3, Burned, PTL DEF Spec
-----------------------------------------------------------------------------
(***************************************************************************)
(* What the verifications would ensure if they did not overlap.  First,    *)
(* one grant per challenge: while a challenge is being used, and until it  *)
(* is granted for, nothing else has been or is about to be granted for it. *)
(***************************************************************************)
Claims(w) == Using(w) \/ At(w, "grant")

Unclaimed ==
    /\ \A w \in Workers : Claims(w) =>
          \A r \in Requests : Exists(r) => granted[r] # Ch(w)
    /\ \A v, w \in Workers :
          At(v, "grant") /\ Claims(w) /\ Ch(v) = Ch(w) => v = w

UseInv == Unclaimed /\ OneGrantPerChallenge

(***************************************************************************)
(* A step that starts no use and grants nothing keeps UseInv.              *)
(***************************************************************************)
LEMMA UseKept ==
    ASSUME UseInv, UNCHANGED granted,
           \A w \in Workers :
              /\ Claims(w)' => Claims(w) /\ Ch(w)' = Ch(w)
              /\ At(w, "grant")' => At(w, "grant")
    PROVE  UseInv'
<1>1. OneGrantPerChallenge'
  BY DEF UseInv, OneGrantPerChallenge, Exists
<1>2. ASSUME NEW w \in Workers, Claims(w)', NEW r \in Requests, Exists(r)'
      PROVE  granted'[r] # Ch(w)'
  BY <1>2 DEF UseInv, Unclaimed, Exists
<1>3. ASSUME NEW v \in Workers, NEW w \in Workers,
             At(v, "grant")', Claims(w)', Ch(v)' = Ch(w)'
      PROVE  v = w
  <2>1. At(v, "grant") /\ Claims(v)' /\ Claims(w)
    BY <1>3 DEF Claims
  <2>2. Ch(v) = Ch(w)
    BY <1>3, <2>1
  <2> QED
    BY <2>1, <2>2 DEF UseInv, Unclaimed
<1>4. Unclaimed'
  BY <1>2, <1>3 DEF Unclaimed
<1> QED
  BY <1>1, <1>4 DEF UseInv

(***************************************************************************)
(* ReadChallenge finds the challenge stored, so nothing was granted for    *)
(* it; burning it for a right code leaves its user alone with it.          *)
(***************************************************************************)
LEMMA VerifyUse ==
    ASSUME TypeOK, BurnInv, UseInv, OneUsePerChallenge,
           NEW w \in Workers, VerifyBreakGlass(w)
    PROVE  UseInv'
<1>0. PICK cr \in Calls : call' = [call EXCEPT ![w] = cr]
  BY VerifyMoves
<1>a. /\ call'[w] = cr
      /\ \A x \in Workers : x # w => call'[x] = call[x]
  BY <1>0, MoveType DEF TypeOK
<1> USE DEF Claims, Using, At, Ch
<1>1. ASSUME NEW c \in Challenges, VerifyBegin(w, c) PROVE UseInv'
  <2>1. cr.at \in {"burn", "readChallenge"} /\ cr.next = "idle"
    BY <1>1, <1>a DEF VerifyBegin, TypeOK
  <2>2. UNCHANGED granted
    BY <1>1 DEF VerifyBegin, rowVars
  <2> QED
    BY <1>a, <2>1, <2>2, UseKept
<1>2. CASE ReadChallenge(w)
  <2>1. UNCHANGED granted /\ call[w].at = "readChallenge"
    BY <1>2 DEF ReadChallenge, rowVars
  <2>2. CASE Ch(w) \in stored
    <3>1. cr = [call[w] EXCEPT !.at = "checkPolicy"]
      BY <1>2, <1>a, <2>2 DEF ReadChallenge, Goto, TypeOK
    <3>2. cr.at = "checkPolicy" /\ cr.ch = call[w].ch
      BY <2>1, <3>1, CallKinds DEF TypeOK, NoPolicyYet
    <3>3. \A r \in Requests : Exists(r) => granted[r] # cr.ch
      BY <2>2, <3>2 DEF BurnInv
    <3>4. \A v \in Workers : At(v, "grant") => Ch(v) # cr.ch
      BY <2>2, <3>2 DEF BurnInv
    <3> QED
      BY <1>a, <2>1, <3>2, <3>3, <3>4
         DEF UseInv, Unclaimed, OneGrantPerChallenge, Exists
  <2>3. CASE Ch(w) \notin stored
    <3>1. cr = Idle
      BY <1>2, <1>a, <2>3 DEF ReadChallenge, Finish, TypeOK
    <3> QED
      BY <1>a, <2>1, <3>1, UseKept DEF Idle
  <2> QED
    BY <2>2, <2>3
<1>3. CASE CheckPolicy(w) \/ CheckActive(w)
  <2>1. UNCHANGED granted /\ Using(w)
    BY <1>3 DEF CheckPolicy, CheckActive, rowVars
  <2>2. cr.ch = call[w].ch /\ cr.at # "grant"
    BY <1>3, <1>a, CallKinds
       DEF CheckPolicy, CheckActive, Goto, BurnThen, TypeOK, NoPolicyYet,
           PolicyRead
  <2> QED
    BY <1>a, <2>1, <2>2, UseKept
<1>4. ASSUME NEW ok \in BOOLEAN, CheckCode(w, ok) PROVE UseInv'
  <2>1. UNCHANGED granted /\ Using(w)
    BY <1>4 DEF CheckCode, rowVars
  <2>2. cr.ch = call[w].ch /\ cr.at # "grant"
    BY <1>4, <1>a, CallKinds DEF CheckCode, Goto, BurnThen, TypeOK, PolicyRead
  <2> QED
    BY <1>a, <2>1, <2>2, UseKept
<1>5. CASE CountWrong(w)
  <2>1. UNCHANGED granted
    BY <1>5 DEF CountWrong, rowVars
  <2>2. cr.at = "idle" \/ (cr.at = "burn" /\ cr.next = "idle")
    BY <1>5, <1>a, CallKinds
       DEF CountWrong, Finish, BurnThen, Idle, TypeOK, PolicyRead
  <2> QED
    BY <1>a, <2>1, <2>2, UseKept
<1>6. CASE Burn(w)
  <2>1. UNCHANGED granted /\ call[w].at = "burn"
    BY <1>6 DEF Burn, rowVars
  <2>2. CASE call[w].next = "idle"
    <3>1. cr = Idle
      BY <1>6, <1>a, <2>2 DEF Burn, Finish, TypeOK
    <3> QED
      BY <1>a, <2>1, <3>1, UseKept DEF Idle
  <2>3. CASE call[w].next # "idle"
    <3>1. call[w].next = "grant"
      BY <2>1, <2>3, CallKinds DEF TypeOK
    <3>2. cr.at = "grant" /\ cr.ch = call[w].ch
      BY <1>6, <1>a, <3>1, CallKinds DEF Burn, Goto, TypeOK
    <3>3. Using(w)
      BY <2>1, <3>1
    <3>4. \A v \in Workers : Claims(v) /\ Ch(v) = Ch(w) => v = w
      BY <3>3 DEF OneUsePerChallenge, UseInv, Unclaimed
    <3> QED
      BY <1>a, <2>1, <3>2, <3>3, <3>4
         DEF UseInv, Unclaimed, OneGrantPerChallenge, Exists
  <2> QED
    BY <2>2, <2>3
<1>7. ASSUME NEW r \in Requests, Grant(w, r) PROVE UseInv'
  <2>1. cr = Idle /\ At(w, "grant")
    BY <1>7, <1>a DEF Grant, Finish, TypeOK
  <2>2. ~Exists(r) /\ granted' = [granted EXCEPT ![r] = Ch(w)]
    BY <1>7 DEF Grant
  <2>3. /\ granted'[r] = Ch(w)
        /\ \A s \in Requests : s # r => granted'[s] = granted[s]
    BY <2>2 DEF TypeOK
  <2>4. \A s \in Requests : s # r /\ Exists(s) => granted[s] # Ch(w)
    BY <2>1 DEF UseInv, Unclaimed
  <2>5. OneGrantPerChallenge'
    BY <2>3, <2>4 DEF UseInv, OneGrantPerChallenge, Exists
  <2>6. \A v \in Workers : Claims(v)' =>
           v # w /\ Claims(v) /\ Ch(v)' = Ch(v) /\ Ch(v) # Ch(w)
    BY <1>a, <2>1 DEF UseInv, Unclaimed, Idle
  <2>7. Unclaimed'
    BY <1>a, <2>3, <2>6 DEF UseInv, Unclaimed, Exists
  <2> QED
    BY <2>5, <2>7 DEF UseInv
<1> QED
  BY <1>1, <1>2, <1>3, <1>4, <1>5, <1>6, <1>7 DEF VerifyBreakGlass

(***************************************************************************)
(* So does every other step, which moves no verification on.               *)
(***************************************************************************)
LEMMA UseStep ==
    ASSUME TypeOK, BurnInv, UseInv, OneUsePerChallenge, [Next]_vars
    PROVE  UseInv'
<1>1. ASSUME NEW w \in Workers, VerifyBreakGlass(w) PROVE UseInv'
  BY <1>1, VerifyUse
<1>2. CASE Restart
  BY <1>2, UseKept DEF Restart, Claims, Using, At, Idle, rowVars
<1>3. CASE UNCHANGED <<granted, call>>
  BY <1>3, UseKept DEF Claims, Using, At, Ch
<1>4. CASE (\E c \in Challenges, d \in Durations : StartBreakGlass(c, d))
           \/ (\E c \in Challenges : ChallengeExpires(c) \/ AttemptsExpire(c))
           \/ (\E max \in PolicyMaxes : EditPolicy(max))
           \/ (\E r \in Requests : EndGrant(r)) \/ Tick
  BY <1>3, <1>4 DEF StartBreakGlass, ChallengeExpires, AttemptsExpire,
     EditPolicy, EndGrant, Tick, rowVars
<1> QED
  BY <1>1, <1>2, <1>3, <1>4 DEF Next, vars, rowVars

(***************************************************************************)
(* "Single-use": as long as no two verifications are between reading the   *)
(* same challenge and burning it, one challenge leads to one access        *)
(* request.  Nothing but that overlap can break it: not restarts, expiring *)
(* keys, policy edits, or verifications of other challenges.               *)
(***************************************************************************)
THEOREM SingleUseWithoutOverlap ==
    Spec /\ []OneUsePerChallenge => []OneGrantPerChallenge
<1>1. Init => UseInv
  BY DEF Init, UseInv, Unclaimed, OneGrantPerChallenge, Exists, Claims,
     Using, At, Idle
<1>2. TypeOK /\ BurnInv /\ UseInv /\ OneUsePerChallenge /\ [Next]_vars
      => UseInv'
  BY UseStep
<1>3. UseInv => OneGrantPerChallenge
  BY DEF UseInv
<1> QED
  BY <1>1, <1>2, <1>3, Burned, PTL DEF Spec

(***************************************************************************)
(* Second, one active access per server: whoever found none still finds    *)
(* none.                                                                   *)
(***************************************************************************)
AdmitInv == NoOverlap /\ \A w \in Workers : Admitted(w) => NoActiveBreakGlass

LEMMA AdmitKept ==
    ASSUME AdmitInv,
           \A r \in Requests : Active(r)' => Active(r),
           \A w \in Workers : Admitted(w)' => Admitted(w)
    PROVE  AdmitInv'
  BY DEF AdmitInv, NoOverlap, NoActiveBreakGlass

(***************************************************************************)
(* checkActive admits, a grant uses the admission up.                      *)
(***************************************************************************)
LEMMA VerifyAdmit ==
    ASSUME TypeOK, AdmitInv, OneAdmittedAtATime,
           NEW w \in Workers, VerifyBreakGlass(w)
    PROVE  AdmitInv'
<1>0. PICK cr \in Calls : call' = [call EXCEPT ![w] = cr]
  BY VerifyMoves
<1>a. /\ call'[w] = cr
      /\ \A x \in Workers : x # w => call'[x] = call[x]
  BY <1>0, MoveType DEF TypeOK
<1> USE DEF Admitted, At, Ch
<1>1. ASSUME UNCHANGED <<now, rowVars>>, Admitted(w)' => Admitted(w)
      PROVE  AdmitInv'
  <2>1. \A v \in Workers : Admitted(v)' => Admitted(v)
    BY <1>1, <1>a
  <2>2. \A r \in Requests : Active(r)' => Active(r)
    BY <1>1 DEF Active, Exists, rowVars
  <2> QED
    BY <2>1, <2>2, AdmitKept
<1>2. ASSUME NEW c \in Challenges, VerifyBegin(w, c) PROVE AdmitInv'
  <2>1. cr.at \in {"burn", "readChallenge"} /\ cr.next = "idle"
    BY <1>2, <1>a DEF VerifyBegin, TypeOK
  <2> QED
    BY <1>1, <1>2, <1>a, <2>1 DEF VerifyBegin
<1>3. CASE ReadChallenge(w)
  <2>1. cr.at \in {"checkPolicy", "idle"}
    BY <1>3, <1>a, CallKinds
       DEF ReadChallenge, Goto, Finish, Idle, TypeOK, NoPolicyYet
  <2> QED
    BY <1>1, <1>3, <1>a, <2>1 DEF ReadChallenge
<1>4. CASE CheckPolicy(w)
  <2>1. cr.at = "checkActive" \/ (cr.at = "burn" /\ cr.next = "idle")
    BY <1>4, <1>a, CallKinds DEF CheckPolicy, BurnThen, TypeOK, NoPolicyYet
  <2> QED
    BY <1>1, <1>4, <1>a, <2>1 DEF CheckPolicy
<1>5. CASE CheckActive(w)
  <2>1. UNCHANGED <<now, rowVars>>
    BY <1>5 DEF CheckActive
  <2>2. CASE NoActiveBreakGlass
    <3>1. \A r \in Requests : ~Active(r)'
      BY <2>1, <2>2 DEF NoActiveBreakGlass, Active, Exists, rowVars
    <3> QED
      BY <3>1 DEF AdmitInv, NoOverlap, NoActiveBreakGlass
  <2>3. CASE ~NoActiveBreakGlass
    <3>1. cr.at = "burn" /\ cr.next = "idle"
      BY <1>5, <1>a, <2>3, CallKinds
         DEF CheckActive, BurnThen, TypeOK, PolicyRead
    <3> QED
      BY <1>1, <1>a, <2>1, <3>1
  <2> QED
    BY <2>2, <2>3
<1>6. ASSUME NEW ok \in BOOLEAN, CheckCode(w, ok) PROVE AdmitInv'
  BY <1>1, <1>6 DEF CheckCode
<1>7. CASE CountWrong(w)
  <2>1. cr.at = "idle" \/ (cr.at = "burn" /\ cr.next = "idle")
    BY <1>7, <1>a, CallKinds
       DEF CountWrong, Finish, BurnThen, Idle, TypeOK, PolicyRead
  <2> QED
    BY <1>1, <1>7, <1>a, <2>1 DEF CountWrong
<1>8. CASE Burn(w)
  <2>1. Admitted(w)' => Admitted(w)
    <3>1. CASE call[w].next = "idle"
      BY <1>8, <1>a, <3>1 DEF Burn, Finish, Idle, TypeOK
    <3>2. CASE call[w].next # "idle"
      BY <1>8, <3>2, CallKinds DEF Burn, TypeOK
    <3> QED
      BY <3>1, <3>2
  <2> QED
    BY <1>1, <1>8, <2>1 DEF Burn
<1>9. ASSUME NEW r \in Requests, Grant(w, r) PROVE AdmitInv'
  <2>1. Admitted(w) /\ cr = Idle
    BY <1>9, <1>a DEF Grant, Finish, TypeOK
  <2>2. \A v \in Workers : ~Admitted(v)'
    BY <1>a, <2>1 DEF OneAdmittedAtATime, Idle
  <2>3. \A s \in Requests : ~Active(s)
    BY <2>1 DEF AdmitInv, NoActiveBreakGlass
  <2>4. \A s \in Requests : s # r => ~Active(s)'
    BY <1>9, <2>3 DEF Grant, Active, Exists, TypeOK
  <2> QED
    BY <2>2, <2>4 DEF AdmitInv, NoOverlap
<1> QED
  BY <1>2, <1>3, <1>4, <1>5, <1>6, <1>7, <1>8, <1>9 DEF VerifyBreakGlass

(***************************************************************************)
(* Every other step only ends accesses or stops verifications.             *)
(***************************************************************************)
LEMMA AdmitStep ==
    ASSUME TypeOK, AdmitInv, OneAdmittedAtATime, [Next]_vars
    PROVE  AdmitInv'
<1>1. ASSUME NEW w \in Workers, VerifyBreakGlass(w) PROVE AdmitInv'
  BY <1>1, VerifyAdmit
<1>2. ASSUME UNCHANGED call, \A r \in Requests : Active(r)' => Active(r)
      PROVE  AdmitInv'
  BY <1>2, AdmitKept DEF Admitted, At
<1>3. ASSUME UNCHANGED <<now, granted, expiresAt>>, ended \subseteq ended'
      PROVE  \A r \in Requests : Active(r)' => Active(r)
  BY <1>3 DEF Active, Exists
<1>4. CASE (\E c \in Challenges, d \in Durations : StartBreakGlass(c, d))
           \/ (\E c \in Challenges : ChallengeExpires(c) \/ AttemptsExpire(c))
           \/ (\E max \in PolicyMaxes : EditPolicy(max))
           \/ (\E r \in Requests : EndGrant(r)) \/ UNCHANGED vars
  BY <1>2, <1>3, <1>4 DEF StartBreakGlass, ChallengeExpires, AttemptsExpire,
     EditPolicy, EndGrant, vars, rowVars
<1>5. CASE Tick
  BY <1>2, <1>5 DEF Tick, Active, Exists, rowVars, TypeOK
<1>6. CASE Restart
  <2>1. \A w \in Workers : ~Admitted(w)'
    BY <1>6 DEF Restart, Admitted, At, Idle
  <2> QED
    BY <1>3, <1>6, <2>1, AdmitKept DEF Restart, rowVars
<1> QED
  BY <1>1, <1>4, <1>5, <1>6 DEF Next

(***************************************************************************)
(* "No two overlapping break-glass sessions on the same server": as long   *)
(* as no two verifications are between finding no active access and        *)
(* granting one, there is at most one active access.  A lock around that   *)
(* part of verifyBreakGlass would be enough.                               *)
(***************************************************************************)
THEOREM NoOverlapWithoutRace ==
    Spec /\ []OneAdmittedAtATime => []NoOverlap
<1>1. Init => AdmitInv
  BY DEF Init, AdmitInv, NoOverlap, Active, Exists, Admitted, At, Idle
<1>2. TypeOK /\ AdmitInv /\ OneAdmittedAtATime /\ [Next]_vars => AdmitInv'
  BY AdmitStep
<1>3. AdmitInv => NoOverlap
  BY DEF AdmitInv
<1> QED
  BY <1>1, <1>2, <1>3, TypeCorrect, PTL DEF Spec

(***************************************************************************)
(* "The true ceiling is the matched isBreakGlass policy's                  *)
(* maxSessionDuration": so it is, whatever a caller asks for, as long as   *)
(* no policy sets a ceiling below the 300 seconds of Math.max.             *)
(***************************************************************************)
THEOREM CeilingHoldsAboveFloor ==
    ASSUME \A max \in PolicyMaxes \ {0} : Floor <= max
    PROVE  Spec => WithinPolicyCeiling
<1>1. ASSUME TypeOK, NEW w \in Workers, NEW r \in Requests, Grant(w, r)
      PROVE  expiresAt'[r] - now <= call[w].max
  <2>1. call[w] \in [at : PolicyRead, ch : Challenges, max : PolicyMaxes \ {0},
                     next : {"idle", "grant"}]
    BY <1>1, CallKinds DEF Grant, At, PolicyRead, TypeOK
  <2>2. call[w].max \in PolicyMaxes \ {0} /\ Ch(w) \in Challenges
    BY <2>1 DEF Ch
  <2>3. /\ call[w].max \in Nat /\ Floor <= call[w].max
        /\ ttl[Ch(w)] \in Nat /\ now \in Nat /\ Floor \in Nat
    BY <1>1, <2>2, BreakGlassAssumption DEF TypeOK
  <2>4. Clamp(ttl[Ch(w)], call[w].max) <= call[w].max
    <3> DEFINE m == call[w].max
               t == ttl[Ch(w)]
    <3>1. m \in Nat /\ t \in Nat /\ Floor \in Nat /\ Floor <= m
      BY <2>3
    <3> HIDE DEF m, t
    <3>2. Clamp(t, m) <= m
      BY <3>1 DEF Clamp, Most, Least
    <3> QED
      BY <3>2 DEF m, t
  <2>5. expiresAt'[r] = now + Clamp(ttl[Ch(w)], call[w].max)
    BY <1>1 DEF Grant, TypeOK
  <2>6. Clamp(ttl[Ch(w)], call[w].max) \in Nat
    BY <2>3, ClampNat
  <2> QED
    BY <2>3, <2>4, <2>5, <2>6
<1>2. TypeOK /\ [Next]_vars =>
         [\A w \in Workers, r \in Requests :
             Grant(w, r) => expiresAt'[r] - now <= call[w].max]_vars
  BY <1>1
<1> QED
  BY <1>2, TypeCorrect, PTL DEF Spec, WithinPolicyCeiling
-----------------------------------------------------------------------------
(***************************************************************************)
(* What authorises an emergency, and every other access: PolicyEvaluation. *)
(*                                                                         *)
(* Policies that are rows have a best one among them.                      *)
(***************************************************************************)
LEMMA BestExists ==
    ASSUME NEW S \in SUBSET Candidates, S # {}
    PROVE  Best(S) # {}
<1> DEFINE ranks == {p.priority : p \in S}
           less == OpToRel(<, Nat)
<1>1. ranks \subseteq Nat /\ ranks # {}
  BY PolicyAssumption DEF IsPolicy
<1>0. IsWellFoundedOn(less, Nat)
  BY NatLessThanWellFounded
<1> HIDE DEF ranks, less
<1>2. PICK n \in ranks : \A m \in ranks : ~(<<m, n>> \in less)
  BY <1>1, <1>0, WFMin
<1>3. \A m \in ranks : n <= m
  <2> SUFFICES ASSUME NEW m \in ranks PROVE n <= m
    OBVIOUS
  <2>1. m \in Nat /\ n \in Nat /\ ~(<<m, n>> \in less)
    BY <1>1, <1>2
  <2>2. ~(m < n)
    BY <2>1 DEF less, OpToRel
  <2> QED
    BY <2>1, <2>2
<1> USE DEF ranks
<1>4. PICK p \in S : p.priority = n
  BY <1>2
<1> QED
  BY <1>3, <1>4 DEF Best

(***************************************************************************)
(* What evaluate may answer.                                               *)
(***************************************************************************)
LEMMA AllowedRecord ==
    ASSUME NEW needs, NEW duration
    PROVE  [allowed |-> TRUE, requiresApproval |-> needs,
            maxTtl |-> duration]
              # Refusal
  BY DEF Refusal

LEMMA Answers ==
    ASSUME NEW s, NEW pr, NEW e \in Evaluate(s, pr)
    PROVE  \/ e = Refusal
           \/ /\ Denies(FilterPolicies(s, pr)) = {}
              /\ BypassesPolicies(s)
              /\ e = [allowed |-> TRUE, requiresApproval |-> FALSE,
                      maxTtl |-> DayTTL]
           \/ /\ Denies(FilterPolicies(s, pr)) = {}
              /\ \E p \in Best(Allows(FilterPolicies(s, pr))) :
                    e = [allowed |-> TRUE,
                         requiresApproval |-> NeedsApproval(p, s),
                         maxTtl |-> p.maxSessionDuration]
  BY DEF Evaluate

-----------------------------------------------------------------------------
(***************************************************************************)
(* The configuration is made of rows.                                      *)
(***************************************************************************)
Rows == /\ policies \subseteq Candidates /\ permissions \subseteq Permissions
        /\ bypassOn \in BOOLEAN

LEMMA RowsInit == PolicyInit => Rows
  BY DEF PolicyInit, Rows

LEMMA RowsStep == Rows /\ [PolicyNext]_policyVars => Rows'
  BY DEF Rows, PolicyNext, CreatePolicy, DeletePolicy, ChangePermissions,
         FlipBypassSwitch, policyVars

LEMMA RowsAnswer ==
    ASSUME Rows, NEW s \in Servers, NEW pr \in Asked
    PROVE  /\ Evaluate(s, pr) # {}
           /\ \A e \in Evaluate(s, pr) :
                 IF e.allowed THEN e.maxTtl > 0 ELSE ~e.requiresApproval
<1> DEFINE matching == FilterPolicies(s, pr)
<1>1. matching \subseteq Candidates
  BY DEF FilterPolicies, Rows
<1>2. Allows(matching) # {} => Best(Allows(matching)) # {}
  BY <1>1, BestExists DEF Allows
<1>3. Evaluate(s, pr) # {}
  <2> HIDE DEF matching
  <2>1. CASE Denies(matching) # {} \/ BypassesPolicies(s)
               \/ Allows(matching) = {}
    BY <2>1 DEF Evaluate, matching
  <2>2. CASE ~(Denies(matching) # {} \/ BypassesPolicies(s)
                  \/ Allows(matching) = {})
    BY <1>2, <2>2 DEF Evaluate, matching
  <2> QED
    BY <2>1, <2>2
<1>4. ASSUME NEW e \in Evaluate(s, pr)
      PROVE  IF e.allowed THEN e.maxTtl > 0 ELSE ~e.requiresApproval
  <2>1. CASE e = Refusal
    BY <2>1 DEF Refusal
  <2>2. CASE e = [allowed |-> TRUE, requiresApproval |-> FALSE,
                  maxTtl |-> DayTTL]
    BY <2>2, PolicyAssumption
  <2>3. ASSUME NEW p \in Best(Allows(matching)),
               e = [allowed |-> TRUE,
                    requiresApproval |-> NeedsApproval(p, s),
                    maxTtl |-> p.maxSessionDuration]
        PROVE  e.allowed /\ e.maxTtl > 0
    <3>1. p \in Candidates
      BY <1>1 DEF Best, Allows
    <3>2. p.maxSessionDuration \in Nat \ {0}
      BY <3>1, PolicyAssumption DEF IsPolicy
    <3> QED
      BY <2>3, <3>2
  <2> QED
    BY <2>1, <2>2, <2>3, Answers
<1> QED
  BY <1>3, <1>4

(***************************************************************************)
(* evaluate always answers: a refusal asks for no approval, and what is    *)
(* allowed has a duration.                                                 *)
(***************************************************************************)
THEOREM PolicyTypeCorrect == PolicySpec => []PolicyTypeOK
<1>1. Rows => PolicyTypeOK
  BY RowsAnswer DEF Rows, PolicyTypeOK
<1> QED
  BY <1>1, RowsInit, RowsStep, PTL DEF PolicySpec

(***************************************************************************)
(* No policy, whatever its effect, rank and flags, gives production access *)
(* without a review.                                                       *)
(***************************************************************************)
THEOREM ProductionReviewed == PolicySpec => []ProductionIsReviewed
<1>1. ProductionIsReviewed
  <2> SUFFICES ASSUME NEW s \in Servers, NEW pr \in Asked,
                      NEW e \in Evaluate(s, pr),
                      Prod(s), e.allowed, ~e.requiresApproval
               PROVE  CanBypassProdApproval
    BY DEF ProductionIsReviewed
  <2>1. e # Refusal
    BY DEF Refusal
  <2>2. CASE BypassesPolicies(s)
    BY <2>2 DEF BypassesPolicies
  <2>3. ASSUME NEW p,
               e = [allowed |-> TRUE,
                    requiresApproval |-> NeedsApproval(p, s),
                    maxTtl |-> p.maxSessionDuration]
        PROVE  CanBypassProdApproval
    BY <2>3 DEF NeedsApproval
  <2> QED
    BY <2>1, <2>2, <2>3, Answers
<1> QED
  BY <1>1, PTL

(***************************************************************************)
(* The list agrees with the request: evaluateBulk takes the same way       *)
(* through the same policies as evaluate without a principal.  Only that   *)
(* policies are rows with a rank is needed: among them one is best.        *)
(***************************************************************************)
THEOREM ListAgrees == PolicySpec => []BulkAgrees
<1>1. Rows => BulkAgrees
  <2> SUFFICES ASSUME Rows, NEW s \in Servers
               PROVE  EvaluateRow(s) =
                         {<<e.allowed, e.requiresApproval>> :
                             e \in Evaluate(s, NoPrincipal)}
    BY DEF BulkAgrees
  <2> DEFINE matching == FilterPolicies(s, NoPrincipal)
             best == Best(Allows(matching))
             answer(p) == [allowed |-> TRUE,
                           requiresApproval |-> NeedsApproval(p, s),
                           maxTtl |-> p.maxSessionDuration]
  <2>1. CASE \/ Denies(matching) # {}
             \/ ~BypassesPolicies(s) /\ Allows(matching) = {}
    <3>1. Evaluate(s, NoPrincipal) = {Refusal}
      BY <2>1 DEF Evaluate
    <3>2. Best({}) = {}
      BY DEF Best
    <3>3. EvaluateRow(s) = {<<FALSE, FALSE>>}
      BY <2>1, <3>2 DEF EvaluateRow, DeniedRow
    <3>4. Refusal.allowed = FALSE /\ Refusal.requiresApproval = FALSE
      BY DEF Refusal
    <3> QED
      BY <3>1, <3>3, <3>4
  <2>2. CASE Denies(matching) = {} /\ BypassesPolicies(s)
    <3> DEFINE e == [allowed |-> TRUE, requiresApproval |-> FALSE,
                     maxTtl |-> DayTTL]
    <3>1. Evaluate(s, NoPrincipal) = {e}
      BY <2>2 DEF Evaluate
    <3>2. EvaluateRow(s) = {<<TRUE, FALSE>>}
      BY <2>2 DEF EvaluateRow, DeniedRow
    <3>3. e.allowed = TRUE /\ e.requiresApproval = FALSE
      OBVIOUS
    <3> HIDE DEF e
    <3> QED
      BY <3>1, <3>2, <3>3
  <2>3. CASE /\ Denies(matching) = {} /\ ~BypassesPolicies(s)
             /\ Allows(matching) # {}
    <3>1. Evaluate(s, NoPrincipal) = {answer(p) : p \in best}
      BY <2>3 DEF Evaluate
    <3>2. EvaluateRow(s) = IF best = {} THEN {<<FALSE, FALSE>>}
                           ELSE {<<TRUE, NeedsApproval(p, s)>> : p \in best}
      BY <2>3 DEF EvaluateRow, DeniedRow
    <3>3. best # {}
      <4>1. Allows(matching) \in SUBSET Candidates
        BY DEF Allows, FilterPolicies, Rows
      <4> QED
        BY <2>3, <4>1, BestExists
    <3>4. \A p : /\ answer(p).allowed = TRUE
                 /\ answer(p).requiresApproval = NeedsApproval(p, s)
      OBVIOUS
    <3> HIDE DEF answer, best
    <3> QED
      BY <3>1, <3>2, <3>3, <3>4
  <2> QED
    BY <2>1, <2>2, <2>3
<1> QED
  BY <1>1, RowsInit, RowsStep, PTL DEF PolicySpec

(***************************************************************************)
(* An emergency reaches nothing that an ordinary request would be refused. *)
(***************************************************************************)
THEOREM EmergenciesAreAuthorised == PolicySpec => []BreakGlassIsAuthorised
<1>1. BreakGlassIsAuthorised
  <2> SUFFICES ASSUME NEW s \in Servers, NEW p \in FindBreakGlassPolicy(s)
               PROVE  /\ p.isBreakGlass /\ p.effect = "ALLOW"
                      /\ Refusal \notin Evaluate(s, NoPrincipal)
    BY DEF BreakGlassIsAuthorised
  <2> DEFINE matching == FilterPolicies(s, NoPrincipal)
  <2>1. /\ Denies(matching) = {} /\ p \in Allows(matching)
        /\ p.isBreakGlass
    BY DEF FindBreakGlassPolicy, Best, Marked
  <2>2. p.effect = "ALLOW"
    BY <2>1 DEF Allows
  <2>3. Refusal \notin Evaluate(s, NoPrincipal)
    BY <2>1, AllowedRecord DEF Evaluate
  <2> QED
    BY <2>1, <2>2, <2>3
<1> QED
  BY <1>1, PTL

(***************************************************************************)
(* A DENY that matches wins over everything.                               *)
(***************************************************************************)
THEOREM DenialsWin == PolicySpec => []DenyWins
<1>1. DenyWins
  BY DEF DenyWins, Evaluate, EvaluateRow, DeniedRow, FindBreakGlassPolicy,
         Denies
<1> QED
  BY <1>1, PTL

(***************************************************************************)
(* policyMax of BreakGlass is the duration of the policy that is found: it *)
(* is a number and never 0, so that 0 may stand for the refusal.           *)
(***************************************************************************)
Ceilings(s) == {p.maxSessionDuration : p \in FindBreakGlassPolicy(s)}

THEOREM CeilingIsPositive ==
    PolicySpec => [](\A s \in Servers : Ceilings(s) \subseteq Nat \ {0})
<1>1. Rows => \A s \in Servers : Ceilings(s) \subseteq Nat \ {0}
  <2> SUFFICES ASSUME Rows, NEW s \in Servers,
                      NEW p \in FindBreakGlassPolicy(s)
               PROVE  p.maxSessionDuration \in Nat \ {0}
    BY DEF Ceilings
  <2>1. p \in Candidates
    BY DEF FindBreakGlassPolicy, Best, Allows, FilterPolicies, Rows
  <2> QED
    BY <2>1, PolicyAssumption DEF IsPolicy
<1> QED
  BY <1>1, RowsInit, RowsStep, PTL DEF PolicySpec
=============================================================================
