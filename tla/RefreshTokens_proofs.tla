------------------------ MODULE RefreshTokens_proofs ------------------------
(***************************************************************************)
(* Proofs about RefreshTokens: type correctness, that signing out every-   *)
(* where holds against rotations in flight, that rotations do not extend   *)
(* the absolute lifetime of a session; and, of what the code does not      *)
(* ensure, that overlapping refreshes are the only way to use a token      *)
(* twice or to keep a family that was revoked.                             *)
(***************************************************************************)
EXTENDS RefreshTokens, Integers, TLAPS

(***************************************************************************)
(* Where a handler is tells what it holds.                                 *)
(***************************************************************************)
LEMMA CallKinds ==
    ASSUME NEW cr \in Calls
    PROVE  /\ cr.at \in {"readUser", "rotate", "expire"} =>
                /\ cr \in [at : {"readUser", "rotate", "expire"},
                           tok : Tokens, began : Nat]
                /\ cr.tok \in Tokens /\ cr.began \in Nat
           /\ cr.at \in {"revokeFamily", "cleanup"} => cr.fam \in Families
           /\ cr.at = "revokeOthers" =>
                /\ cr \in [at : {"revokeOthers"}, left : SUBSET Families]
                /\ cr.left \subseteq Families
           /\ cr.at \in {"revokeAll", "bump"} =>
                /\ cr \in [at : {"revokeAll", "bump"}, relogin : BOOLEAN]
                /\ cr.relogin \in BOOLEAN
  BY DEF Calls, Idle

(***************************************************************************)
(* Setting the state of one handler to a legal one keeps all of them legal *)
(* and leaves the others where they were.                                  *)
(***************************************************************************)
LEMMA GotoType ==
    ASSUME call \in [Workers -> Calls], NEW w \in Workers,
           NEW cr \in Calls, Goto(w, cr)
    PROVE  /\ call' \in [Workers -> Calls]
           /\ call'[w] = cr
           /\ \A x \in Workers : x # w => call'[x] = call[x]
  BY DEF Goto

(***************************************************************************)
(* The states a handler goes to are legal.                                 *)
(***************************************************************************)
LEMMA CallsAre ==
    /\ Idle \in Calls
    /\ [at |-> "issue"] \in Calls
    /\ \A t \in Tokens, n \in Nat, where \in {"readUser", "rotate", "expire"} :
          [at |-> where, tok |-> t, began |-> n] \in Calls
    /\ \A f \in Families, where \in {"revokeFamily", "cleanup"} :
          [at |-> where, fam |-> f] \in Calls
    /\ \A S \in SUBSET Families : [at |-> "revokeOthers", left |-> S] \in Calls
    /\ \A b \in BOOLEAN, where \in {"revokeAll", "bump"} :
          [at |-> where, relogin |-> b] \in Calls
  BY DEF Calls, Idle

(***************************************************************************)
(* Cutting a time to the second loses less than a second.                  *)
(***************************************************************************)
LEMMA CutToSecond ==
    ASSUME NEW n \in Nat
    PROVE  /\ (n \div Second) * Second \in Nat
           /\ (n \div Second) * Second <= n
           /\ n < (n \div Second) * Second + Second
<1>1. Second \in Nat \ {0}
  BY TokenAssumption
<1>2. /\ n \div Second \in Int
      /\ n = Second * (n \div Second) + (n % Second)
      /\ n % Second \in 0..(Second - 1)
  BY <1>1, SMT
<1>3. n \div Second \in Nat
  BY <1>1, SMT
<1>4. Second * (n \div Second) = (n \div Second) * Second
  BY <1>1, <1>3, SMT
<1>5. (n \div Second) * Second \in Nat
  BY <1>1, <1>3, SMT
<1> QED
  BY <1>1, <1>2, <1>4, <1>5, SMT

-----------------------------------------------------------------------------
(***************************************************************************)
(* Type correctness.  The clock is past 0, so that a session that starts   *)
(* now has a start; and the token a rotation holds has been created (its   *)
(* row may be gone), so that it has a family.                              *)
(***************************************************************************)
HasFamily ==
    \A w \in Workers : Refreshing(w) => family[call[w].tok] \in Families

TypeInv == TypeOK /\ now >= 1 /\ HasFamily

LEMMA TypeInit == Init => TypeInv
  BY CallsAre, TokenAssumption
  DEF Init, TypeInv, TypeOK, HasFamily, Refreshing, Idle

(***************************************************************************)
(* A new row keeps the columns and the rows well typed.                    *)
(***************************************************************************)
LEMMA NewRowType ==
    ASSUME TypeInv, now' = now, NEW t \in Tokens, NEW f \in Families,
           NEW s \in 1..now, NEW used \in Nat, NewRow(t, f, s, used)
    PROVE  /\ rows' \subseteq Tokens
           /\ family' \in [Tokens -> Families \cup {NoFamily}]
           /\ startedAt' \in [Tokens -> Nat] /\ usedAt' \in [Tokens -> Nat]
           /\ expiresAt' \in [Tokens -> Nat]
           /\ \A u \in rows' : family'[u] \in Families
                               /\ startedAt'[u] \in 1..now'
<1>1. now + TokenTTL \in Nat /\ s \in Nat
  BY TokenAssumption DEF TypeInv, TypeOK
<1>2. /\ rows' \subseteq Tokens
      /\ family' \in [Tokens -> Families \cup {NoFamily}]
      /\ startedAt' \in [Tokens -> Nat] /\ usedAt' \in [Tokens -> Nat]
      /\ expiresAt' \in [Tokens -> Nat]
  BY <1>1 DEF TypeInv, TypeOK, NewRow
<1>3. ASSUME NEW u \in rows'
      PROVE  family'[u] \in Families /\ startedAt'[u] \in 1..now'
  <2>1. CASE u = t
    BY <2>1 DEF TypeInv, TypeOK, NewRow
  <2>2. CASE u # t
    BY <2>2 DEF TypeInv, TypeOK, NewRow
  <2> QED
    BY <2>1, <2>2
<1> QED
  BY <1>2, <1>3

(***************************************************************************)
(* Revoking rows keeps the column well typed.                              *)
(***************************************************************************)
LEMMA RevokedNowType ==
    ASSUME TypeInv, NEW S
    PROVE  RevokedNow(S) \in [Tokens -> Nat]
  BY DEF TypeInv, TypeOK, RevokedNow

(***************************************************************************)
(* A handler that moves to a legal state with a created token, while no    *)
(* token loses its family, keeps the handlers legal.                       *)
(***************************************************************************)
LEMMA MoveHandler ==
    ASSUME TypeInv, NEW w \in Workers, NEW cr \in Calls, Goto(w, cr),
           cr.at \in {"readUser", "rotate"} => family[cr.tok] \in Families,
           \A t \in Tokens : family[t] \in Families => family'[t] = family[t]
    PROVE  call' \in [Workers -> Calls] /\ HasFamily'
<1>1. /\ call' \in [Workers -> Calls] /\ call'[w] = cr
      /\ \A x \in Workers : x # w => call'[x] = call[x]
  BY GotoType DEF TypeInv, TypeOK
<1>2. ASSUME NEW x \in Workers, Refreshing(x)'
      PROVE  family'[call'[x].tok] \in Families
  <2>1. CASE x = w
    <3>1. cr.tok \in Tokens /\ family[cr.tok] \in Families
      BY <1>1, <1>2, <2>1, CallKinds DEF Refreshing
    <3> QED
      BY <1>1, <2>1, <3>1
  <2>2. CASE x # w
    <3>1. call'[x] = call[x] /\ Refreshing(x) /\ call[x] \in Calls
      BY <1>1, <1>2, <2>2 DEF Refreshing, TypeInv, TypeOK
    <3>2. call[x].tok \in Tokens /\ family[call[x].tok] \in Families
      BY <3>1, CallKinds DEF Refreshing, TypeInv, HasFamily
    <3> QED
      BY <3>1, <3>2
  <2> QED
    BY <2>1, <2>2
<1> QED
  BY <1>1, <1>2 DEF HasFamily

(***************************************************************************)
(* The steps that change no column: they move one handler to a legal state *)
(* or change the user.                                                     *)
(***************************************************************************)
LEMMA MoveType ==
    ASSUME TypeInv, NEW w \in Workers, NEW cr \in Calls, Goto(w, cr),
           cr.at \in {"readUser", "rotate"} => family[cr.tok] \in Families,
           UNCHANGED <<now, tokenVars, closed>>,
           active' \in BOOLEAN, validFrom' \in Nat
    PROVE  TypeInv'
  BY MoveHandler DEF TypeInv, TypeOK, tokenVars

(***************************************************************************)
(* The steps that only revoke rows or delete them.                         *)
(***************************************************************************)
LEMMA RevokeType ==
    ASSUME TypeInv, NEW w \in Workers, NEW cr \in Calls, Goto(w, cr),
           cr.at \notin {"readUser", "rotate"},
           UNCHANGED <<now, userVars, family, startedAt, usedAt, expiresAt>>,
           rows' \subseteq rows, revokedAt' \in [Tokens -> Nat],
           closed' \subseteq Families
    PROVE  TypeInv'
  BY MoveHandler DEF TypeInv, TypeOK, userVars

LEMMA RefreshReadType ==
    ASSUME TypeInv, NEW w \in Workers, NEW t \in Tokens, RefreshRead(w, t)
    PROVE  TypeInv'
<1>1. t \in rows /\ family[t] \in Families /\ now \in Nat
  BY DEF RefreshRead, TypeInv, TypeOK
<1> DEFINE next == IF ReusedToken(t)
                   THEN [at |-> "revokeFamily", fam |-> family[t]]
                   ELSE IF expiresAt[t] < now
                   THEN [at |-> "expire", tok |-> t, began |-> now]
                   ELSE IF Outlived(t)
                   THEN [at |-> "revokeFamily", fam |-> family[t]]
                   ELSE [at |-> "readUser", tok |-> t, began |-> now]
<1>2. /\ [at |-> "revokeFamily", fam |-> family[t]] \in Calls
      /\ [at |-> "expire", tok |-> t, began |-> now] \in Calls
      /\ [at |-> "readUser", tok |-> t, began |-> now] \in Calls
  BY <1>1, CallsAre
<1>3. next \in Calls /\ (next.at = "readUser" => next.tok = t)
      /\ next.at # "rotate"
  BY <1>2
<1>4. Goto(w, next) /\ UNCHANGED <<now, userVars, tokenVars, closed>>
  BY DEF RefreshRead
<1>5. active' \in BOOLEAN /\ validFrom' \in Nat
  BY <1>4 DEF userVars, TypeInv, TypeOK
<1> HIDE DEF next
<1> QED
  BY <1>1, <1>3, <1>4, <1>5, MoveType

LEMMA RefreshUserType ==
    ASSUME TypeInv, NEW w \in Workers, RefreshUser(w)
    PROVE  TypeInv'
<1> DEFINE t == call[w].tok
           next == IF ~active THEN Idle
                   ELSE IF SignedOutEarlier(t)
                   THEN [at |-> "revokeFamily", fam |-> family[t]]
                   ELSE [call[w] EXCEPT !.at = "rotate"]
<1>1. call[w] \in Calls /\ call[w].at = "readUser" /\ Refreshing(w)
  BY DEF TypeInv, TypeOK, RefreshUser, At, Refreshing
<1>2. /\ call[w] \in [at : {"readUser", "rotate", "expire"},
                      tok : Tokens, began : Nat]
      /\ t \in Tokens /\ family[t] \in Families
  BY <1>1, CallKinds DEF TypeInv, HasFamily
<1>3. /\ [call[w] EXCEPT !.at = "rotate"]
             \in [at : {"readUser", "rotate", "expire"},
                  tok : Tokens, began : Nat]
      /\ [call[w] EXCEPT !.at = "rotate"].tok = t
  BY <1>2
<1>4. /\ [call[w] EXCEPT !.at = "rotate"] \in Calls
      /\ [at |-> "revokeFamily", fam |-> family[t]] \in Calls
      /\ Idle \in Calls
  BY <1>2, <1>3, CallsAre DEF Calls
<1>5. next \in Calls /\ (next.at = "rotate" => next.tok = t)
      /\ next.at # "readUser"
  BY <1>2, <1>3, <1>4 DEF Idle
<1>6. Goto(w, next) /\ UNCHANGED <<now, userVars, tokenVars, closed>>
  BY DEF RefreshUser
<1>7. active' \in BOOLEAN /\ validFrom' \in Nat
  BY <1>6 DEF userVars, TypeInv, TypeOK
<1> HIDE DEF next
<1> QED
  BY <1>2, <1>5, <1>6, <1>7, MoveType

(***************************************************************************)
(* The two steps that create a row take a token that has no family.        *)
(***************************************************************************)
LEMMA CreateType ==
    ASSUME TypeInv, NEW w \in Workers, NEW cr \in Calls, Goto(w, cr),
           cr.at \notin {"readUser", "rotate"},
           NEW t \in Tokens, NEW f \in Families, NEW s \in 1..now,
           NEW used \in Nat, NewRow(t, f, s, used),
           UNCHANGED <<now, userVars, closed>>,
           revokedAt' \in [Tokens -> Nat]
    PROVE  TypeInv'
<1>1. \A u \in Tokens : family[u] \in Families => family'[u] = family[u]
  BY TokenAssumption DEF NewRow, Unused, TypeInv, TypeOK
<1>2. call' \in [Workers -> Calls] /\ HasFamily'
  BY <1>1, MoveHandler
<1>3. /\ rows' \subseteq Tokens
      /\ family' \in [Tokens -> Families \cup {NoFamily}]
      /\ startedAt' \in [Tokens -> Nat] /\ usedAt' \in [Tokens -> Nat]
      /\ expiresAt' \in [Tokens -> Nat]
      /\ \A u \in rows' : family'[u] \in Families
                          /\ startedAt'[u] \in 1..now'
  BY NewRowType
<1> QED
  BY <1>2, <1>3 DEF TypeInv, TypeOK, userVars

LEMMA IssueType ==
    ASSUME TypeInv, NEW w \in Workers, NEW t \in Tokens, NEW f \in Families,
           IssueSession(w, t, f)
    PROVE  TypeInv'
<1>1. now \in 1..now /\ now \in Nat /\ revokedAt' \in [Tokens -> Nat]
  BY DEF TypeInv, TypeOK, IssueSession
<1>2. /\ Idle \in Calls /\ Idle.at \notin {"readUser", "rotate"}
      /\ Goto(w, Idle) /\ NewRow(t, f, now, now)
      /\ UNCHANGED <<now, userVars, closed>>
  BY CallsAre DEF IssueSession, Idle
<1> QED
  BY <1>1, <1>2, CreateType

LEMMA RotateType ==
    ASSUME TypeInv, NEW w \in Workers, NEW new \in Tokens,
           RefreshRotate(w, new)
    PROVE  TypeInv'
<1> DEFINE t == call[w].tok
           next == [at |-> "cleanup", fam |-> family[t]]
<1>1. call[w] \in Calls /\ call[w].at = "rotate"
  BY DEF TypeInv, TypeOK, RefreshRotate, At
<1>2. t \in Tokens /\ call[w].began \in Nat
  BY <1>1, CallKinds
<1>3. t \in rows /\ NewRow(new, family[t], startedAt[t], call[w].began)
      /\ revokedAt' = [revokedAt EXCEPT ![t] = call[w].began]
      /\ Goto(w, next) /\ UNCHANGED <<now, userVars, closed>>
  BY DEF RefreshRotate, StartOf
<1>4. family[t] \in Families /\ startedAt[t] \in 1..now
  BY <1>3 DEF TypeInv, TypeOK
<1>5. next \in Calls /\ next.at \notin {"readUser", "rotate"}
  BY <1>4, CallsAre
<1>6. revokedAt' \in [Tokens -> Nat]
  BY <1>2, <1>3 DEF TypeInv, TypeOK
<1> HIDE DEF next, t
<1> QED
  BY <1>2, <1>3, <1>4, <1>5, <1>6, CreateType

LEMMA MarkExpiredType ==
    ASSUME TypeInv, NEW w \in Workers, MarkExpired(w)
    PROVE  TypeInv'
<1>1. call[w].began \in Nat
  BY CallKinds DEF MarkExpired, At, TypeInv, TypeOK
<1>2. revokedAt' \in [Tokens -> Nat]
  BY <1>1 DEF MarkExpired, TypeInv, TypeOK
<1>3. Idle \in Calls /\ Idle.at \notin {"readUser", "rotate"}
  BY CallsAre DEF Idle
<1>4. /\ Goto(w, Idle) /\ rows' \subseteq rows /\ closed' \subseteq Families
      /\ UNCHANGED <<now, userVars, family, startedAt, usedAt, expiresAt>>
  BY DEF MarkExpired, TypeInv, TypeOK
<1> QED
  BY <1>2, <1>3, <1>4, RevokeType

LEMMA CleanupType ==
    ASSUME TypeInv, NEW w \in Workers, CleanupOldRevoked(w)
    PROVE  TypeInv'
<1>1. Idle \in Calls /\ Idle.at \notin {"readUser", "rotate"}
  BY CallsAre DEF Idle
<1>2. /\ Goto(w, Idle) /\ rows' \subseteq rows /\ closed' \subseteq Families
      /\ revokedAt' \in [Tokens -> Nat]
      /\ UNCHANGED <<now, userVars, family, startedAt, usedAt, expiresAt>>
  BY DEF CleanupOldRevoked, TypeInv, TypeOK
<1> QED
  BY <1>1, <1>2, RevokeType

LEMMA RefreshType ==
    ASSUME TypeInv, NEW w \in Workers, Refresh(w)
    PROVE  TypeInv'
<1>1. ASSUME RotateFails(w)
      PROVE  TypeInv'
  <2>1. Idle \in Calls /\ Idle.at \notin {"readUser", "rotate"}
    BY CallsAre DEF Idle
  <2>2. /\ Goto(w, Idle) /\ UNCHANGED <<now, tokenVars, closed>>
        /\ active' \in BOOLEAN /\ validFrom' \in Nat
    BY <1>1 DEF RotateFails, userVars, TypeInv, TypeOK
  <2> QED
    BY <2>1, <2>2, MoveType
<1> QED
  BY <1>1, RefreshReadType, RotateType, MarkExpiredType, RefreshUserType,
     CleanupType DEF Refresh

(***************************************************************************)
(* The handlers that only note what they are about to do.                  *)
(***************************************************************************)
LEMMA StartType ==
    ASSUME TypeInv, NEW w \in Workers,
           \/ Login(w)
           \/ \E t \in Tokens : Logout(w, t)
           \/ \E keep \in Families : RevokeOthers(w, keep)
           \/ \E relogin \in BOOLEAN : SignOutEverywhere(w, relogin)
           \/ Disable(w)
           \/ BumpSessionsValidFrom(w)
    PROVE  TypeInv'
<1>1. SUFFICES \E cr \in Calls :
                  /\ Goto(w, cr) /\ cr.at \notin {"readUser", "rotate"}
                  /\ UNCHANGED <<now, tokenVars, closed>>
                  /\ active' \in BOOLEAN /\ validFrom' \in Nat
  BY <1>1, MoveType
<1>2. active \in BOOLEAN /\ validFrom \in Nat /\ now \in Nat
  BY DEF TypeInv, TypeOK
<1>3. CASE Login(w)
  <2>1. [at |-> "issue"] \in Calls
    BY CallsAre
  <2> QED
    BY <1>2, <1>3, <2>1 DEF Login, userVars
<1>4. ASSUME NEW t \in Tokens, Logout(w, t)
      PROVE  \E cr \in Calls :
                /\ Goto(w, cr) /\ cr.at \notin {"readUser", "rotate"}
                /\ UNCHANGED <<now, tokenVars, closed>>
                /\ active' \in BOOLEAN /\ validFrom' \in Nat
  <2>1. [at |-> "revokeFamily", fam |-> family[t]] \in Calls
    BY <1>4, CallsAre DEF Logout, TypeInv, TypeOK
  <2> QED
    BY <1>2, <1>4, <2>1 DEF Logout, userVars
<1>5. ASSUME NEW keep \in Families, RevokeOthers(w, keep)
      PROVE  \E cr \in Calls :
                /\ Goto(w, cr) /\ cr.at \notin {"readUser", "rotate"}
                /\ UNCHANGED <<now, tokenVars, closed>>
                /\ active' \in BOOLEAN /\ validFrom' \in Nat
  <2> DEFINE others == {family[t] : t \in {u \in rows : Live(u)}} \ {keep}
  <2>1. others \in SUBSET Families
    BY DEF TypeInv, TypeOK
  <2>2. [at |-> "revokeOthers", left |-> others] \in Calls
    BY <2>1, CallsAre
  <2>3. Goto(w, [at |-> "revokeOthers", left |-> others])
    BY <1>5 DEF RevokeOthers
  <2> HIDE DEF others
  <2> QED
    BY <1>2, <1>5, <2>2, <2>3 DEF RevokeOthers, userVars
<1>6. ASSUME NEW relogin \in BOOLEAN, SignOutEverywhere(w, relogin)
      PROVE  \E cr \in Calls :
                /\ Goto(w, cr) /\ cr.at \notin {"readUser", "rotate"}
                /\ UNCHANGED <<now, tokenVars, closed>>
                /\ active' \in BOOLEAN /\ validFrom' \in Nat
  <2>1. [at |-> "revokeAll", relogin |-> relogin] \in Calls
    BY CallsAre
  <2> QED
    BY <1>2, <1>6, <2>1 DEF SignOutEverywhere, userVars
<1>7. CASE Disable(w)
  <2>1. [at |-> "revokeAll", relogin |-> FALSE] \in Calls
    BY CallsAre
  <2> QED
    BY <1>2, <1>7, <2>1 DEF Disable
<1>8. CASE BumpSessionsValidFrom(w)
  <2>1. [at |-> "issue"] \in Calls /\ Idle \in Calls
    BY CallsAre
  <2>2. (now \div Second) * Second \in Nat
    BY <1>2, CutToSecond
  <2>3. \E cr \in {[at |-> "issue"], Idle} : Goto(w, cr)
    BY <1>8 DEF BumpSessionsValidFrom
  <2>4. /\ UNCHANGED <<now, tokenVars, closed>>
        /\ active' \in BOOLEAN /\ validFrom' \in Nat
    BY <1>2, <1>8, <2>2 DEF BumpSessionsValidFrom
  <2>5. /\ [at |-> "issue"].at \notin {"readUser", "rotate"}
        /\ Idle.at \notin {"readUser", "rotate"}
    BY DEF Idle
  <2> QED
    BY <2>1, <2>3, <2>4, <2>5
<1> QED
  BY <1>3, <1>4, <1>5, <1>6, <1>7, <1>8

(***************************************************************************)
(* The handlers that revoke tokens.                                        *)
(***************************************************************************)
LEMMA RevokingType ==
    ASSUME TypeInv, NEW w \in Workers,
           RevokeFamily(w) \/ RevokeOther(w) \/ RevokeAllFamilies(w)
    PROVE  TypeInv'
<1>1. call[w] \in Calls /\ Idle \in Calls
      /\ Idle.at \notin {"readUser", "rotate"}
  BY CallsAre DEF TypeInv, TypeOK, Idle
<1>2. /\ closed \subseteq Families /\ revokedAt \in [Tokens -> Nat]
      /\ active \in BOOLEAN /\ validFrom \in Nat
  BY DEF TypeInv, TypeOK
<1>3. CASE RevokeFamily(w)
  <2>1. call[w].fam \in Families
    BY <1>1, <1>3, CallKinds DEF RevokeFamily, At
  <2>2. revokedAt' \in [Tokens -> Nat] /\ closed' \subseteq Families
    BY <1>2, <1>3, <2>1, RevokedNowType DEF RevokeFamily
  <2>3. /\ Goto(w, Idle) /\ rows' \subseteq rows
        /\ UNCHANGED <<now, userVars, family, startedAt, usedAt, expiresAt>>
    BY <1>3 DEF RevokeFamily
  <2> QED
    BY <1>1, <2>2, <2>3, RevokeType
<1>4. CASE RevokeOther(w)
  <2> DEFINE next(f) == [call[w] EXCEPT !.left = @ \ {f}]
  <2>1. /\ call[w] \in [at : {"revokeOthers"}, left : SUBSET Families]
        /\ call[w].at = "revokeOthers" /\ call[w].left \subseteq Families
    BY <1>1, <1>4, CallKinds DEF RevokeOther, At
  <2>2. CASE call[w].left = {}
    <3>1. /\ Goto(w, Idle) /\ UNCHANGED <<now, tokenVars, closed>>
          /\ active' \in BOOLEAN /\ validFrom' \in Nat
      BY <1>2, <1>4, <2>2 DEF RevokeOther, tokenVars, userVars
    <3> QED
      BY <1>1, <3>1, MoveType
  <2>3. CASE call[w].left # {}
    <3>1. PICK f \in call[w].left :
             /\ revokedAt' = RevokedNow(InFamily(f))
             /\ closed' = closed \cup {f}
             /\ Goto(w, next(f))
      BY <1>4, <2>3 DEF RevokeOther
    <3>2. next(f) \in [at : {"revokeOthers"}, left : SUBSET Families]
      BY <2>1
    <3>3. next(f) \in Calls /\ next(f).at \notin {"readUser", "rotate"}
      BY <3>2 DEF Calls
    <3>4. revokedAt' \in [Tokens -> Nat] /\ closed' \subseteq Families
      BY <1>2, <2>1, <3>1, RevokedNowType
    <3>5. /\ rows' \subseteq rows
          /\ UNCHANGED <<now, userVars, family, startedAt, usedAt, expiresAt>>
      BY <1>4 DEF RevokeOther
    <3> HIDE DEF next
    <3> QED
      BY <3>1, <3>3, <3>4, <3>5, RevokeType
  <2> QED
    BY <2>2, <2>3
<1>5. CASE RevokeAllFamilies(w)
  <2> DEFINE next == [call[w] EXCEPT !.at = "bump"]
  <2>1. call[w] \in [at : {"revokeAll", "bump"}, relogin : BOOLEAN]
    BY <1>1, <1>5, CallKinds DEF RevokeAllFamilies, At
  <2>2. next \in [at : {"revokeAll", "bump"}, relogin : BOOLEAN]
    BY <2>1
  <2>3. next \in Calls /\ next.at \notin {"readUser", "rotate"}
    BY <2>2 DEF Calls
  <2>4. revokedAt' \in [Tokens -> Nat] /\ closed' \subseteq Families
    BY <1>2, <1>5, RevokedNowType DEF RevokeAllFamilies
  <2>5. /\ Goto(w, next) /\ rows' \subseteq rows
        /\ UNCHANGED <<now, userVars, family, startedAt, usedAt, expiresAt>>
    BY <1>5 DEF RevokeAllFamilies
  <2> HIDE DEF next
  <2> QED
    BY <2>3, <2>4, <2>5, RevokeType
<1> QED
  BY <1>3, <1>4, <1>5

(***************************************************************************)
(* The steps of no handler: the user, the clock and the process.           *)
(***************************************************************************)
LEMMA WorldType ==
    ASSUME TypeInv, Reactivate \/ Tick \/ Restart
    PROVE  TypeInv'
<1>1. CASE Reactivate
  BY <1>1 DEF Reactivate, TypeInv, TypeOK, tokenVars, HasFamily, Refreshing
<1>2. CASE Tick
  BY <1>2 DEF Tick, TypeInv, TypeOK, tokenVars, userVars, HasFamily,
              Refreshing
<1>3. CASE Restart
  <2>1. call' \in [Workers -> Calls] /\ \A w \in Workers : ~Refreshing(w)'
    BY <1>3, CallsAre DEF Restart, Refreshing, Idle
  <2> QED
    BY <1>3, <2>1 DEF Restart, TypeInv, TypeOK, tokenVars, userVars, HasFamily
<1> QED
  BY <1>1, <1>2, <1>3

LEMMA TypeStep ==
    ASSUME TypeInv, [Next]_vars
    PROVE  TypeInv'
<1>1. CASE UNCHANGED vars
  BY <1>1 DEF vars, userVars, tokenVars, TypeInv, TypeOK, HasFamily,
              Refreshing
<1>2. ASSUME NEW w \in Workers, SignOut(w)
      PROVE  TypeInv'
  BY <1>2, StartType, RevokingType DEF SignOut
<1> QED
  BY <1>1, <1>2, StartType, IssueType, RefreshType, WorldType DEF Next

(***************************************************************************)
(* The columns of the RefreshToken table and the state of the handlers     *)
(* keep their types: a row in the table always has a family and a start    *)
(* that is not in the future.                                              *)
(***************************************************************************)
THEOREM TypeCorrect == Spec => []TypeOK
<1>1. Init => TypeInv
  BY TypeInit
<1>2. TypeInv /\ [Next]_vars => TypeInv'
  BY TypeStep
<1>3. TypeInv => TypeOK
  BY DEF TypeInv
<1> QED
  BY <1>1, <1>2, <1>3, PTL DEF Spec

-----------------------------------------------------------------------------
(***************************************************************************)
(* What signing out everywhere and the absolute lifetime rest on: no time  *)
(* on record is in the future, and a rotation in flight took its clock     *)
(* reading within the lifetime of its session, and, once it has been let   *)
(* past sessionsValidFrom, before the second of a later sign-out was over. *)
(***************************************************************************)
ClockInv == validFrom <= now /\ \A t \in rows : usedAt[t] <= now

Timely(cr) ==
    /\ cr.began <= now
    /\ cr.began <= startedAt[cr.tok] + AbsoluteTTL
    /\ cr.at = "rotate" /\ startedAt[cr.tok] < validFrom =>
          cr.began < validFrom + Second

HandlerInv == \A w \in Workers : Refreshing(w) => Timely(call[w])

SafeInv ==
    TypeInv /\ ClockInv /\ HandlerInv
    /\ SignedOutIsUnused /\ WithinAbsoluteLifetime

LEMMA SafeInit == Init => SafeInv
<1> SUFFICES ASSUME Init PROVE SafeInv
  OBVIOUS
<1>1. TypeInv
  BY TypeInit
<1>2. ClockInv /\ SignedOutIsUnused /\ WithinAbsoluteLifetime
  BY DEF Init, ClockInv, SignedOutIsUnused, WithinAbsoluteLifetime, InFamily
<1>3. HandlerInv
  BY DEF Init, HandlerInv, Refreshing, Idle
<1> QED
  BY <1>1, <1>2, <1>3 DEF SafeInv

(***************************************************************************)
(* A step that creates no row, and sends no handler on but with a timely   *)
(* reading, disturbs nothing.                                              *)
(***************************************************************************)
LEMMA NoNewRow ==
    ASSUME SafeInv, TypeInv', rows' \subseteq rows,
           UNCHANGED <<now, validFrom, family, startedAt, usedAt>>,
           \A x \in Workers : Refreshing(x)' => \/ call'[x] = call[x]
                                                \/ Timely(call'[x])
    PROVE  SafeInv'
<1>1. ClockInv' /\ SignedOutIsUnused' /\ WithinAbsoluteLifetime'
  BY DEF SafeInv, ClockInv, SignedOutIsUnused, WithinAbsoluteLifetime,
         InFamily
<1>2. ASSUME NEW x \in Workers, Refreshing(x)'
      PROVE  Timely(call[x])'
  <2>1. Timely(call'[x])
    BY <1>2 DEF SafeInv, HandlerInv, Refreshing
  <2> QED
    BY <2>1 DEF Timely
<1> QED
  BY <1>1, <1>2 DEF SafeInv, HandlerInv

(***************************************************************************)
(* A handler that goes to a state that is not one of a rotation leaves the *)
(* rotations in flight as they were.                                       *)
(***************************************************************************)
LEMMA GotoQuiet ==
    ASSUME TypeInv, NEW w \in Workers, NEW cr, Goto(w, cr),
           cr.at \notin {"readUser", "rotate"}
    PROVE  \A x \in Workers : Refreshing(x)' => call'[x] = call[x]
  BY DEF TypeInv, TypeOK, Goto, Refreshing

LEMMA RefreshReadSafe ==
    ASSUME SafeInv, TypeInv', NEW w \in Workers, NEW t \in Tokens,
           RefreshRead(w, t)
    PROVE  SafeInv'
<1> DEFINE next == IF ReusedToken(t)
                   THEN [at |-> "revokeFamily", fam |-> family[t]]
                   ELSE IF expiresAt[t] < now
                   THEN [at |-> "expire", tok |-> t, began |-> now]
                   ELSE IF Outlived(t)
                   THEN [at |-> "revokeFamily", fam |-> family[t]]
                   ELSE [at |-> "readUser", tok |-> t, began |-> now]
<1>1. /\ t \in rows /\ Goto(w, next)
      /\ UNCHANGED <<now, userVars, tokenVars, closed>>
  BY DEF RefreshRead
<1>2. /\ now \in Nat /\ startedAt[t] \in 1..now /\ AbsoluteTTL \in Nat
      /\ call \in [Workers -> Calls]
  BY <1>1, TokenAssumption DEF SafeInv, TypeInv, TypeOK
<1>3. next.at \in {"readUser", "rotate"} => Timely(next)
  <2>1. ASSUME ~Outlived(t)
        PROVE  Timely([at |-> "readUser", tok |-> t, began |-> now])
    <3>1. now <= startedAt[t] + AbsoluteTTL
      BY <1>2, <2>1 DEF Outlived
    <3> QED
      BY <1>2, <3>1 DEF Timely
  <2>2. CASE ReusedToken(t) \/ expiresAt[t] < now \/ Outlived(t)
    BY <2>2
  <2>3. CASE ~(ReusedToken(t) \/ expiresAt[t] < now \/ Outlived(t))
    BY <2>1, <2>3
  <2> QED
    BY <2>2, <2>3
<1> HIDE DEF next
<1>4. \A x \in Workers : Refreshing(x)' => \/ call'[x] = call[x]
                                           \/ Timely(call'[x])
  BY <1>1, <1>2, <1>3 DEF Goto, Refreshing
<1> QED
  BY <1>1, <1>4, NoNewRow DEF userVars, tokenVars

LEMMA RefreshUserSafe ==
    ASSUME SafeInv, TypeInv', NEW w \in Workers, RefreshUser(w)
    PROVE  SafeInv'
<1> DEFINE t == call[w].tok
           next == IF ~active THEN Idle
                   ELSE IF SignedOutEarlier(t)
                   THEN [at |-> "revokeFamily", fam |-> family[t]]
                   ELSE [call[w] EXCEPT !.at = "rotate"]
<1>1. /\ Goto(w, next) /\ Refreshing(w) /\ call[w].at = "readUser"
      /\ UNCHANGED <<now, userVars, tokenVars, closed>>
  BY DEF RefreshUser, Refreshing, At
<1>2. Timely(call[w]) /\ call \in [Workers -> Calls]
  BY <1>1 DEF SafeInv, HandlerInv, TypeInv, TypeOK
<1>3. call[w] \in [at : {"readUser", "rotate", "expire"},
                   tok : Tokens, began : Nat]
  BY <1>1, <1>2, CallKinds
<1>4. next.at \in {"readUser", "rotate"} => Timely(next)
  <2>1. ASSUME ~SignedOutEarlier(t)
        PROVE  Timely([call[w] EXCEPT !.at = "rotate"])
    BY <1>2, <1>3, <2>1 DEF Timely, SignedOutEarlier
  <2>2. CASE ~active \/ SignedOutEarlier(t)
    BY <2>2 DEF Idle
  <2>3. CASE ~(~active \/ SignedOutEarlier(t))
    BY <2>1, <2>3
  <2> QED
    BY <2>2, <2>3
<1> HIDE DEF next
<1>5. \A x \in Workers : Refreshing(x)' => \/ call'[x] = call[x]
                                           \/ Timely(call'[x])
  BY <1>1, <1>2, <1>4 DEF Goto, Refreshing
<1> QED
  BY <1>1, <1>5, NoNewRow DEF userVars, tokenVars

(***************************************************************************)
(* A new row that is timely itself, in a family whose rows all started     *)
(* when it did, disturbs nothing: its token is not the one of a rotation   *)
(* in flight.                                                              *)
(***************************************************************************)
LEMMA CreateSafe ==
    ASSUME SafeInv, TypeInv', NEW w \in Workers, NEW cr, Goto(w, cr),
           cr.at \notin {"readUser", "rotate"},
           NEW t \in Tokens, NEW f \in Families, NEW s \in 1..now,
           NEW used \in 0..now, NewRow(t, f, s, used),
           UNCHANGED <<now, validFrom>>,
           used <= s + AbsoluteTTL,
           s < validFrom => used < validFrom + Second,
           \A u \in rows : family[u] = f => startedAt[u] = s
    PROVE  SafeInv'
<1>1. /\ rows' = rows \cup {t} /\ t \notin rows
      /\ family'[t] = f /\ startedAt'[t] = s /\ usedAt'[t] = used
      /\ \A u \in Tokens : u # t => /\ family'[u] = family[u]
                                    /\ startedAt'[u] = startedAt[u]
                                    /\ usedAt'[u] = usedAt[u]
  BY TokenAssumption DEF NewRow, Unused, SafeInv, TypeInv, TypeOK
<1>2. rows \subseteq Tokens
  BY DEF SafeInv, TypeInv, TypeOK
<1>3. ClockInv'
  BY <1>1, <1>2 DEF ClockInv, SafeInv
<1>4. SignedOutIsUnused'
  BY <1>1, <1>2 DEF SignedOutIsUnused, SafeInv
<1>5. WithinAbsoluteLifetime'
  <2>1. ASSUME NEW u \in rows'
        PROVE  usedAt'[u] <= startedAt'[u] + AbsoluteTTL
    BY <1>1, <1>2, <2>1 DEF SafeInv, WithinAbsoluteLifetime
  <2>2. ASSUME NEW u \in rows', NEW v \in rows', family'[v] = family'[u]
        PROVE  startedAt'[v] = startedAt'[u]
    BY <1>1, <1>2, <2>2 DEF SafeInv, WithinAbsoluteLifetime, InFamily
  <2> QED
    BY <2>1, <2>2 DEF WithinAbsoluteLifetime, InFamily
<1>6. HandlerInv'
  <2>1. ASSUME NEW x \in Workers, Refreshing(x)'
        PROVE  Timely(call[x])'
    <3>1. call'[x] = call[x] /\ Refreshing(x) /\ call[x] \in Calls
      BY <2>1, GotoQuiet DEF SafeInv, TypeInv, TypeOK, Refreshing
    <3>2. call[x].tok \in Tokens /\ family[call[x].tok] \in Families
      BY <3>1, CallKinds DEF Refreshing, SafeInv, TypeInv, HasFamily
    <3>3. call[x].tok # t
      BY <3>2, TokenAssumption DEF NewRow, Unused
    <3>4. startedAt'[call[x].tok] = startedAt[call[x].tok]
      BY <1>1, <3>2, <3>3
    <3>5. Timely(call[x])
      BY <3>1 DEF SafeInv, HandlerInv
    <3> QED
      BY <3>1, <3>4, <3>5 DEF Timely
  <2> QED
    BY <2>1 DEF HandlerInv
<1> QED
  BY <1>3, <1>4, <1>5, <1>6 DEF SafeInv

LEMMA IssueSafe ==
    ASSUME SafeInv, TypeInv', NEW w \in Workers, NEW t \in Tokens,
           NEW f \in Families, IssueSession(w, t, f)
    PROVE  SafeInv'
<1>1. /\ now \in Nat /\ now >= 1 /\ validFrom \in Nat /\ validFrom <= now
      /\ rows \subseteq Tokens /\ AbsoluteTTL \in Nat
  BY TokenAssumption DEF SafeInv, TypeInv, TypeOK, ClockInv
<1>2. /\ now \in 1..now /\ now \in 0..now /\ now <= now + AbsoluteTTL
      /\ now < validFrom => now < validFrom + Second
  BY <1>1
<1>3. \A u \in rows : family[u] = f => startedAt[u] = now
  BY <1>1 DEF IssueSession
<1>4. Goto(w, Idle) /\ NewRow(t, f, now, now) /\ UNCHANGED <<now, validFrom>>
  BY DEF IssueSession, userVars
<1>5. Idle.at \notin {"readUser", "rotate"}
  BY DEF Idle
<1> QED
  BY <1>2, <1>3, <1>4, <1>5, CreateSafe

LEMMA RotateSafe ==
    ASSUME SafeInv, TypeInv', NEW w \in Workers, NEW new \in Tokens,
           RefreshRotate(w, new)
    PROVE  SafeInv'
<1> DEFINE t == call[w].tok
           used == call[w].began
           next == [at |-> "cleanup", fam |-> family[t]]
<1>1. /\ call[w] \in Calls /\ call[w].at = "rotate" /\ Refreshing(w)
  BY DEF SafeInv, TypeInv, TypeOK, RefreshRotate, At, Refreshing
<1>2. used \in Nat /\ Timely(call[w])
  BY <1>1, CallKinds DEF SafeInv, HandlerInv
<1>3. /\ t \in rows /\ NewRow(new, family[t], startedAt[t], used)
      /\ Goto(w, next) /\ UNCHANGED <<now, validFrom>>
  BY DEF RefreshRotate, StartOf, userVars
<1>4. family[t] \in Families /\ startedAt[t] \in 1..now /\ now \in Nat
  BY <1>3 DEF SafeInv, TypeInv, TypeOK
<1>5. /\ used \in 0..now /\ used <= startedAt[t] + AbsoluteTTL
      /\ startedAt[t] < validFrom => used < validFrom + Second
  BY <1>1, <1>2, <1>4 DEF Timely
<1>6. \A u \in rows : family[u] = family[t] => startedAt[u] = startedAt[t]
  BY <1>3 DEF SafeInv, WithinAbsoluteLifetime, InFamily
<1>7. next.at \notin {"readUser", "rotate"}
  OBVIOUS
<1> HIDE DEF next, t, used
<1> QED
  BY <1>3, <1>4, <1>5, <1>6, <1>7, CreateSafe

LEMMA SecondLater ==
    ASSUME NEW a \in Nat, NEW b \in Nat, NEW c \in Nat, NEW d \in Nat,
           a <= b, b < c + d
    PROVE  a < c + d
  OBVIOUS

(***************************************************************************)
(* A sign-out everywhere moves sessionsValidFrom: whatever has been used   *)
(* by then was used before the second is over.                             *)
(***************************************************************************)
LEMMA BumpSafe ==
    ASSUME SafeInv, TypeInv', NEW w \in Workers, BumpSessionsValidFrom(w)
    PROVE  SafeInv'
<1>1. /\ now \in Nat /\ now' = now /\ call \in [Workers -> Calls]
      /\ UNCHANGED <<rows, family, startedAt, usedAt>>
      /\ rows \subseteq Tokens /\ usedAt \in [Tokens -> Nat]
  BY DEF SafeInv, TypeInv, TypeOK, BumpSessionsValidFrom, tokenVars
<1>2. /\ validFrom' \in Nat /\ Second \in Nat
      /\ validFrom' <= now /\ now < validFrom' + Second
  BY <1>1, CutToSecond, TokenAssumption DEF BumpSessionsValidFrom
<1>3. ClockInv'
  BY <1>1, <1>2 DEF SafeInv, ClockInv
<1>4. SignedOutIsUnused'
  <2>1. ASSUME NEW t \in rows
        PROVE  usedAt[t] < validFrom' + Second
    <3>1. usedAt[t] <= now /\ usedAt[t] \in Nat
      BY <1>1 DEF SafeInv, ClockInv
    <3> QED
      BY <1>1, <1>2, <3>1, SecondLater
  <2> QED
    BY <1>1, <2>1 DEF SignedOutIsUnused
<1>5. WithinAbsoluteLifetime'
  BY <1>1 DEF SafeInv, WithinAbsoluteLifetime, InFamily
<1>6. ASSUME NEW x \in Workers, Refreshing(x)'
      PROVE  Timely(call[x])'
  <2>1. \E cr \in {[at |-> "issue"], Idle} : Goto(w, cr)
    BY DEF BumpSessionsValidFrom
  <2>2. /\ [at |-> "issue"].at \notin {"readUser", "rotate"}
        /\ Idle.at \notin {"readUser", "rotate"}
    BY DEF Idle
  <2>3. call'[x] = call[x] /\ Refreshing(x)
    BY <1>6, <2>1, <2>2, GotoQuiet DEF SafeInv, Refreshing
  <2>4. Timely(call[x]) /\ call[x].began \in Nat
    BY <1>1, <2>3, CallKinds DEF SafeInv, HandlerInv, Refreshing
  <2>5. call[x].began < validFrom' + Second
    <3>1. call[x].began <= now
      BY <2>4 DEF Timely
    <3> QED
      BY <1>1, <1>2, <2>4, <3>1, SecondLater
  <2> QED
    BY <1>1, <2>3, <2>4, <2>5 DEF Timely
<1> QED
  BY <1>3, <1>4, <1>5, <1>6 DEF SafeInv, HandlerInv

(***************************************************************************)
(* The steps after which a handler holds no token.                         *)
(***************************************************************************)
LEMMA QuietMoves ==
    ASSUME TypeInv, NEW w \in Workers,
           \/ Login(w)
           \/ MarkExpired(w) \/ RotateFails(w) \/ CleanupOldRevoked(w)
           \/ \E t \in Tokens : Logout(w, t)
           \/ \E keep \in Families : RevokeOthers(w, keep)
           \/ \E relogin \in BOOLEAN : SignOutEverywhere(w, relogin)
           \/ Disable(w)
           \/ RevokeFamily(w) \/ RevokeOther(w) \/ RevokeAllFamilies(w)
    PROVE  \E cr : /\ Goto(w, cr)
                   /\ cr.at \notin {"readUser", "rotate", "expire"}
<1>1. Idle.at = "idle"
  BY DEF Idle
<1>2. CASE RevokeOther(w)
  <2>1. call[w] \in [at : {"revokeOthers"}, left : SUBSET Families]
    BY <1>2, CallKinds DEF RevokeOther, At, TypeInv, TypeOK
  <2>2. \A f : [call[w] EXCEPT !.left = @ \ {f}].at = "revokeOthers"
    BY <2>1
  <2> QED
    BY <1>1, <1>2, <2>2 DEF RevokeOther
<1>3. CASE RevokeAllFamilies(w)
  <2>1. call[w] \in [at : {"revokeAll", "bump"}, relogin : BOOLEAN]
    BY <1>3, CallKinds DEF RevokeAllFamilies, At, TypeInv, TypeOK
  <2>2. [call[w] EXCEPT !.at = "bump"].at = "bump"
    BY <2>1
  <2> QED
    BY <1>3, <2>2 DEF RevokeAllFamilies
<1>4. CASE MarkExpired(w) \/ RotateFails(w) \/ CleanupOldRevoked(w)
           \/ RevokeFamily(w)
  BY <1>1, <1>4
  DEF MarkExpired, RotateFails, CleanupOldRevoked, RevokeFamily
<1>5. CASE Login(w)
  BY <1>5 DEF Login
<1>6. CASE Disable(w)
  BY <1>6 DEF Disable
<1>7. CASE \E t \in Tokens : Logout(w, t)
  BY <1>7 DEF Logout
<1>8. CASE \E relogin \in BOOLEAN : SignOutEverywhere(w, relogin)
  BY <1>8 DEF SignOutEverywhere
<1>9. CASE \E keep \in Families : RevokeOthers(w, keep)
  BY <1>9 DEF RevokeOthers
<1> QED
  BY <1>2, <1>3, <1>4, <1>5, <1>6, <1>7, <1>8, <1>9

(***************************************************************************)
(* The other steps of the handlers.                                        *)
(***************************************************************************)
LEMMA QuietSafe ==
    ASSUME SafeInv, TypeInv', NEW w \in Workers,
           \/ Login(w)
           \/ MarkExpired(w) \/ RotateFails(w) \/ CleanupOldRevoked(w)
           \/ \E t \in Tokens : Logout(w, t)
           \/ \E keep \in Families : RevokeOthers(w, keep)
           \/ \E relogin \in BOOLEAN : SignOutEverywhere(w, relogin)
           \/ Disable(w)
           \/ RevokeFamily(w) \/ RevokeOther(w) \/ RevokeAllFamilies(w)
    PROVE  SafeInv'
<1>1. /\ rows' \subseteq rows
      /\ UNCHANGED <<now, validFrom, family, startedAt, usedAt>>
  BY DEF Login, MarkExpired, RotateFails, CleanupOldRevoked, Logout,
         RevokeOthers, SignOutEverywhere, Disable, RevokeFamily,
         RevokeOther, RevokeAllFamilies, tokenVars, userVars
<1>2. \E cr : Goto(w, cr) /\ cr.at \notin {"readUser", "rotate"}
  BY QuietMoves DEF SafeInv
<1>3. \A x \in Workers : Refreshing(x)' => call'[x] = call[x]
  BY <1>2, GotoQuiet DEF SafeInv
<1> QED
  BY <1>1, <1>3, NoNewRow

LEMMA WorldSafe ==
    ASSUME SafeInv, TypeInv', Reactivate \/ Tick \/ Restart \/ UNCHANGED vars
    PROVE  SafeInv'
<1>1. CASE Reactivate \/ Restart \/ UNCHANGED vars
  <2>1. /\ rows' \subseteq rows
        /\ UNCHANGED <<now, validFrom, family, startedAt, usedAt>>
    BY <1>1 DEF Reactivate, Restart, vars, userVars, tokenVars
  <2>2. \A x \in Workers : Refreshing(x)' => call'[x] = call[x]
    BY <1>1 DEF Reactivate, Restart, vars, Refreshing, Idle
  <2> QED
    BY <2>1, <2>2, NoNewRow
<1>2. CASE Tick
  <2>1. /\ now \in Nat /\ now' = now + 1 /\ validFrom \in Nat
        /\ UNCHANGED <<validFrom, rows, family, startedAt, usedAt, call>>
        /\ rows \subseteq Tokens /\ usedAt \in [Tokens -> Nat]
    BY <1>2 DEF Tick, SafeInv, TypeInv, TypeOK, userVars, tokenVars
  <2>2. ClockInv'
    BY <2>1 DEF SafeInv, ClockInv
  <2>3. SignedOutIsUnused' /\ WithinAbsoluteLifetime'
    BY <2>1 DEF SafeInv, SignedOutIsUnused, WithinAbsoluteLifetime, InFamily
  <2>4. ASSUME NEW x \in Workers, Refreshing(x)'
        PROVE  Timely(call[x])'
    <3>1. call'[x] = call[x] /\ Refreshing(x) /\ call[x] \in Calls
      BY <2>1, <2>4 DEF Refreshing, SafeInv, TypeInv, TypeOK
    <3>2. Timely(call[x]) /\ call[x].began \in Nat
      BY <3>1, CallKinds DEF SafeInv, HandlerInv, Refreshing
    <3> QED
      BY <2>1, <3>1, <3>2 DEF Timely
  <2> QED
    BY <2>2, <2>3, <2>4 DEF SafeInv, HandlerInv
<1> QED
  BY <1>1, <1>2

LEMMA SafeStep ==
    ASSUME SafeInv, [Next]_vars
    PROVE  SafeInv'
<1>1. TypeInv'
  BY TypeStep DEF SafeInv
<1>2. ASSUME NEW w \in Workers, Refresh(w)
      PROVE  SafeInv'
  BY <1>1, <1>2, RefreshReadSafe, RotateSafe, RefreshUserSafe, QuietSafe
  DEF Refresh
<1>3. ASSUME NEW w \in Workers, SignOut(w)
      PROVE  SafeInv'
  BY <1>1, <1>3, QuietSafe, BumpSafe DEF SignOut
<1>4. ASSUME NEW w \in Workers, Login(w)
      PROVE  SafeInv'
  BY <1>1, <1>4, QuietSafe
<1> QED
  BY <1>1, <1>2, <1>3, <1>4, IssueSafe, WorldSafe DEF Next

LEMMA Safe == Spec => []SafeInv
<1>1. Init => SafeInv
  BY SafeInit
<1>2. SafeInv /\ [Next]_vars => SafeInv'
  BY SafeStep
<1> QED
  BY <1>1, <1>2, PTL DEF Spec

(***************************************************************************)
(* revokeAllSessions against refreshes in flight: for any number of tabs,  *)
(* handlers and crashes, no token of a family that started before          *)
(* sessionsValidFrom was used after the second of the sign-out.            *)
(***************************************************************************)
THEOREM SignedOutStaysUnused == Spec => []SignedOutIsUnused
<1>1. SafeInv => SignedOutIsUnused
  BY DEF SafeInv
<1> QED
  BY <1>1, Safe, PTL

(***************************************************************************)
(* A rotation carries sessionStartedAt over and is refused past            *)
(* sessionAbsoluteTtlMs: no chain of rotations, however interleaved,       *)
(* outlives the session it began with.                                     *)
(***************************************************************************)
THEOREM LifetimeIsAbsolute == Spec => []WithinAbsoluteLifetime
<1>1. SafeInv => WithinAbsoluteLifetime
  BY DEF SafeInv
<1> QED
  BY <1>1, Safe, PTL
-----------------------------------------------------------------------------
(***************************************************************************)
(* What the handlers would ensure if they did not overlap.  A token is     *)
(* usable while it is live or some handler, having found it live, is still *)
(* going to replace it; only a login and a rotation make a token usable.   *)
(* The clock reading a handler will write into revokedAt is not 0, which   *)
(* stands for null.                                                        *)
(***************************************************************************)
Usable(t) == Live(t) \/ \E w \in Workers : Refreshing(w) /\ call[w].tok = t

Began ==
    \A w \in Workers :
        call[w].at \in {"readUser", "rotate", "expire"} => call[w].began >= 1

NothingRevived == \A t \in Tokens : Usable(t)' => Usable(t)

LEMMA Moves ==
    ASSUME TypeInv, Began, NEW w \in Workers, NEW cr, Goto(w, cr),
           cr.at \in {"readUser", "rotate", "expire"} => cr.began >= 1,
           cr.at \in {"readUser", "rotate"} => Usable(cr.tok),
           \A t \in Tokens : Live(t)' => Live(t)
    PROVE  Began' /\ NothingRevived
<1>1. /\ call'[w] = cr
      /\ \A x \in Workers : x # w => call'[x] = call[x]
  BY DEF Goto, TypeInv, TypeOK
<1>2. Began'
  BY <1>1 DEF Began
<1>3. ASSUME NEW t \in Tokens, NEW x \in Workers,
             Refreshing(x)', call'[x].tok = t
      PROVE  Usable(t)
  BY <1>1, <1>3 DEF Refreshing, Usable
<1> QED
  BY <1>2, <1>3 DEF NothingRevived, Usable

(***************************************************************************)
(* A refresh that looks its token up, or the user.                         *)
(***************************************************************************)
LEMMA LookupsReviveNothing ==
    ASSUME TypeInv, Began, NEW w \in Workers,
           RefreshUser(w) \/ \E t \in Tokens : RefreshRead(w, t)
    PROVE  Began' /\ NothingRevived
<1>1. UNCHANGED <<now, rows, revokedAt>>
  BY DEF RefreshUser, RefreshRead, tokenVars
<1>2. \A t \in Tokens : Live(t)' => Live(t)
  BY <1>1 DEF Live
<1>3. ASSUME NEW t \in Tokens, RefreshRead(w, t)
      PROVE  Began' /\ NothingRevived
  <2>1. now >= 1 /\ t \in rows
    BY <1>3 DEF TypeInv, RefreshRead
  <2>2. \/ Goto(w, [at |-> "revokeFamily", fam |-> family[t]])
        \/ Goto(w, [at |-> "expire", tok |-> t, began |-> now])
        \/ /\ ~ReusedToken(t)
           /\ Goto(w, [at |-> "readUser", tok |-> t, began |-> now])
    BY <1>3 DEF RefreshRead
  <2>3. CASE Goto(w, [at |-> "revokeFamily", fam |-> family[t]])
    BY <1>2, <2>3, Moves
  <2>4. CASE Goto(w, [at |-> "expire", tok |-> t, began |-> now])
    BY <1>2, <2>1, <2>4, Moves
  <2>5. CASE /\ ~ReusedToken(t)
             /\ Goto(w, [at |-> "readUser", tok |-> t, began |-> now])
    <3>1. Usable(t)
      BY <2>1, <2>5 DEF ReusedToken, Usable, Live
    <3> QED
      BY <1>2, <2>1, <2>5, <3>1, Moves
  <2> QED
    BY <2>2, <2>3, <2>4, <2>5
<1>4. CASE RefreshUser(w)
  <2>1. call[w].at = "readUser" /\ call[w] \in Calls
    BY <1>4 DEF RefreshUser, At, TypeInv, TypeOK
  <2>2. call[w] \in [at : {"readUser", "rotate", "expire"},
                     tok : Tokens, began : Nat]
    BY <2>1, CallKinds
  <2>3. Usable(call[w].tok) /\ call[w].began >= 1
    BY <2>1 DEF Usable, Refreshing, Began
  <2> DEFINE cr == [call[w] EXCEPT !.at = "rotate"]
  <2>4. cr.tok = call[w].tok /\ cr.began = call[w].began
    BY <2>2
  <2>5. \/ Goto(w, Idle)
        \/ Goto(w, [at |-> "revokeFamily", fam |-> family[call[w].tok]])
        \/ Goto(w, cr)
    BY <1>4 DEF RefreshUser
  <2> HIDE DEF cr
  <2>6. CASE Goto(w, Idle)
    BY <1>2, <2>6, Moves DEF Idle
  <2>7. CASE Goto(w, [at |-> "revokeFamily", fam |-> family[call[w].tok]])
    BY <1>2, <2>7, Moves
  <2>8. CASE Goto(w, cr)
    BY <1>2, <2>3, <2>4, <2>8, Moves
  <2> QED
    BY <2>5, <2>6, <2>7, <2>8
<1> QED
  BY <1>3, <1>4

(***************************************************************************)
(* Revoking rows and deleting them makes none live.                        *)
(***************************************************************************)
LEMMA QuietRevivesNothing ==
    ASSUME TypeInv, Began, NEW w \in Workers,
           \/ Login(w)
           \/ MarkExpired(w) \/ RotateFails(w) \/ CleanupOldRevoked(w)
           \/ \E t \in Tokens : Logout(w, t)
           \/ \E keep \in Families : RevokeOthers(w, keep)
           \/ \E relogin \in BOOLEAN : SignOutEverywhere(w, relogin)
           \/ Disable(w)
           \/ RevokeFamily(w) \/ RevokeOther(w) \/ RevokeAllFamilies(w)
    PROVE  Began' /\ NothingRevived
<1>1. PICK cr : /\ Goto(w, cr)
                /\ cr.at \notin {"readUser", "rotate", "expire"}
  BY QuietMoves
<1>2. ASSUME NEW S, revokedAt' = RevokedNow(S), rows' = rows
      PROVE  \A t \in Tokens : Live(t)' => Live(t)
  BY <1>2 DEF Live, RevokedNow, TypeInv, TypeOK
<1>3. ASSUME rows' \subseteq rows, revokedAt' = revokedAt
      PROVE  \A t \in Tokens : Live(t)' => Live(t)
  BY <1>3 DEF Live
<1>4. \A t \in Tokens : Live(t)' => Live(t)
  <2>1. CASE MarkExpired(w)
    <3>1. call[w].began >= 1
      BY <2>1 DEF MarkExpired, At, Began
    <3> QED
      BY <2>1, <3>1 DEF MarkExpired, Live, TypeInv, TypeOK
  <2>2. CASE RevokeFamily(w) \/ RevokeAllFamilies(w)
    BY <1>2, <2>2 DEF RevokeFamily, RevokeAllFamilies
  <2>3. CASE RevokeOther(w)
    BY <1>2, <1>3, <2>3 DEF RevokeOther
  <2>4. CASE \/ Login(w) \/ RotateFails(w) \/ CleanupOldRevoked(w)
             \/ \E t \in Tokens : Logout(w, t)
             \/ \E keep \in Families : RevokeOthers(w, keep)
             \/ \E relogin \in BOOLEAN : SignOutEverywhere(w, relogin)
             \/ Disable(w)
    BY <1>3, <2>4 DEF Login, RotateFails, CleanupOldRevoked, Logout,
       RevokeOthers, SignOutEverywhere, Disable, tokenVars
  <2> QED
    BY <2>1, <2>2, <2>3, <2>4
<1> QED
  BY <1>1, <1>4, Moves

(***************************************************************************)
(* A new row makes its own token usable and no other.                      *)
(***************************************************************************)
LEMMA CreateRevivesOne ==
    ASSUME TypeInv, Began, NEW w \in Workers, NEW cr, Goto(w, cr),
           cr.at \notin {"readUser", "rotate", "expire"},
           NEW t \in Tokens, NEW f \in Families, NEW s, NEW used,
           NewRow(t, f, s, used),
           \A u \in rows : u # t /\ revokedAt'[u] = 0 => revokedAt[u] = 0
    PROVE  /\ Began'
           /\ family'[t] = f
           /\ \A u \in Tokens : u # t => /\ Usable(u)' => Usable(u)
                                         /\ family'[u] = family[u]
<1>1. \A x \in Workers : Refreshing(x)' => call'[x] = call[x]
  BY GotoQuiet
<1>2. Began'
  BY DEF Goto, Began, TypeInv, TypeOK
<1>3. family'[t] = f /\ \A u \in Tokens : u # t => family'[u] = family[u]
  BY DEF NewRow, TypeInv, TypeOK
<1>4. \A u \in Tokens : u # t => (Live(u)' => Live(u))
  BY DEF NewRow, Live
<1>5. ASSUME NEW u \in Tokens, u # t, Usable(u)' PROVE Usable(u)
  <2>1. CASE Live(u)'
    BY <1>4, <1>5, <2>1 DEF Usable
  <2>2. CASE ~Live(u)'
    <3>1. PICK x \in Workers : Refreshing(x)' /\ call'[x].tok = u
      BY <1>5, <2>2 DEF Usable
    <3> QED
      BY <1>1, <3>1 DEF Usable, Refreshing
  <2> QED
    BY <2>1, <2>2
<1> QED
  BY <1>2, <1>3, <1>5

(***************************************************************************)
(* Every step but a login and a rotation revives nothing.                  *)
(***************************************************************************)
LEMMA OtherStepsReviveNothing ==
    ASSUME TypeInv, Began, [Next]_vars,
           ~\E w \in Workers, t \in Tokens : RefreshRotate(w, t),
           ~\E w \in Workers, t \in Tokens, f \in Families :
               IssueSession(w, t, f)
    PROVE  Began' /\ NothingRevived /\ UNCHANGED family
<1>1. ASSUME NEW w \in Workers, BumpSessionsValidFrom(w)
      PROVE  Began' /\ NothingRevived
  <2>1. \A t \in Tokens : Live(t)' => Live(t)
    BY <1>1 DEF BumpSessionsValidFrom, tokenVars, Live
  <2>2. Goto(w, [at |-> "issue"]) \/ Goto(w, Idle)
    BY <1>1 DEF BumpSessionsValidFrom
  <2> QED
    BY <2>1, <2>2, Moves DEF Idle
<1>2. ASSUME Reactivate \/ Tick \/ UNCHANGED vars
      PROVE  Began' /\ NothingRevived
  <2>1. UNCHANGED <<rows, revokedAt, call>>
    BY <1>2 DEF Reactivate, Tick, vars, tokenVars
  <2> QED
    <3>1. Began'
      BY <2>1 DEF Began
    <3>2. \A t \in Tokens : Live(t)' => Live(t)
      BY <2>1 DEF Live
    <3>3. ASSUME NEW t \in Tokens, NEW x \in Workers,
                 Refreshing(x)', call'[x].tok = t
          PROVE  Usable(t)
      BY <2>1, <3>3 DEF Refreshing, Usable
    <3> QED
      BY <3>1, <3>2, <3>3 DEF NothingRevived, Usable
<1>3. ASSUME Restart PROVE Began' /\ NothingRevived
  BY <1>3 DEF Restart, Idle, Began, NothingRevived, Usable, Live,
     Refreshing, tokenVars
<1>4. ASSUME NEW w \in Workers, Login(w) \/ Refresh(w) \/ SignOut(w)
      PROVE  Began' /\ NothingRevived
  BY <1>1, <1>4, QuietRevivesNothing, LookupsReviveNothing DEF Refresh, SignOut
<1>5. Began' /\ NothingRevived
  BY <1>2, <1>3, <1>4 DEF Next
<1>6. UNCHANGED family
  <2>1. ASSUME NEW w \in Workers, Refresh(w) PROVE UNCHANGED family
    BY <2>1 DEF Refresh, RefreshRead, RefreshUser, MarkExpired, RotateFails,
       CleanupOldRevoked, tokenVars
  <2>2. ASSUME NEW w \in Workers, SignOut(w) PROVE UNCHANGED family
    BY <2>2 DEF SignOut, Logout, RevokeFamily, RevokeOthers, RevokeOther,
       SignOutEverywhere, Disable, RevokeAllFamilies, BumpSessionsValidFrom,
       tokenVars
  <2>3. CASE Reactivate \/ Tick \/ Restart \/ UNCHANGED vars
    BY <2>3 DEF Reactivate, Tick, Restart, vars, tokenVars
  <2> QED
    BY <2>1, <2>2, <2>3 DEF Next, Login, tokenVars
<1> QED
  BY <1>5, <1>6
(***************************************************************************)
(* What a login and a rotation make usable.  A rotation puts the new token *)
(* in the place of the old one, which is left to whoever else holds it.    *)
(***************************************************************************)
LEMMA IssueRevivesOne ==
    ASSUME TypeInv, Began, NEW w \in Workers, NEW t \in Tokens,
           NEW f \in Families, IssueSession(w, t, f)
    PROVE  /\ Began' /\ family'[t] = f /\ \A u \in Tokens : family[u] # f
           /\ \A u \in Tokens : u # t => /\ Usable(u)' => Usable(u)
                                         /\ family'[u] = family[u]
<1>1. /\ Goto(w, Idle) /\ NewRow(t, f, now, now) /\ revokedAt' = revokedAt
      /\ \A u \in Tokens : family[u] # f
  BY DEF IssueSession
<1>2. Idle.at \notin {"readUser", "rotate", "expire"}
  BY DEF Idle
<1> QED
  BY <1>1, <1>2, CreateRevivesOne

LEMMA RotateReplaces ==
    ASSUME TypeInv, Began, NEW w \in Workers, NEW new \in Tokens,
           RefreshRotate(w, new), NEW t, t = call[w].tok
    PROVE  /\ Began'
           /\ t \in Tokens /\ Refreshing(w) /\ Usable(t)
           /\ family[t] \in Families /\ family'[new] = family[t] /\ t # new
           /\ \A u \in Tokens : u # new => /\ Usable(u)' => Usable(u)
                                           /\ family'[u] = family[u]
           /\ (\A v \in Workers :
                  Refreshing(v) /\ call[v].tok = t => v = w) => ~Usable(t)'
<1> DEFINE next == [at |-> "cleanup", fam |-> family[t]]
           used == call[w].began
<1>1. call[w].at = "rotate" /\ call[w] \in Calls /\ Refreshing(w)
  BY DEF RefreshRotate, At, TypeInv, TypeOK, Refreshing
<1>2. used >= 1 /\ used \in Nat /\ t \in Tokens /\ Usable(t)
  BY <1>1, CallKinds DEF Began, Usable
<1>3. /\ t \in rows /\ NewRow(new, family[t], startedAt[t], used)
      /\ revokedAt' = [revokedAt EXCEPT ![t] = used] /\ Goto(w, next)
  BY DEF RefreshRotate, StartOf
<1>4. family[t] \in Families /\ family[new] = NoFamily
  BY <1>3 DEF TypeInv, TypeOK, NewRow, Unused
<1>5. t # new
  BY <1>4, TokenAssumption
<1>6. next.at \notin {"readUser", "rotate", "expire"}
  OBVIOUS
<1>7. \A u \in rows : u # new /\ revokedAt'[u] = 0 => revokedAt[u] = 0
  BY <1>2, <1>3 DEF TypeInv, TypeOK
<1> HIDE DEF next, used
<1>8. /\ Began' /\ family'[new] = family[t]
      /\ \A u \in Tokens : u # new => /\ Usable(u)' => Usable(u)
                                      /\ family'[u] = family[u]
  BY <1>3, <1>4, <1>6, <1>7, CreateRevivesOne
<1>9. ASSUME \A v \in Workers : Refreshing(v) /\ call[v].tok = t => v = w
      PROVE  ~Usable(t)'
  <2>1. revokedAt'[t] = used
    BY <1>2, <1>3 DEF TypeInv, TypeOK
  <2>2. ~Live(t)'
    BY <1>2, <2>1 DEF Live
  <2>3. \A v \in Workers : Refreshing(v)' => v # w /\ call'[v] = call[v]
    <3>1. call'[w] = next
      BY <1>3 DEF Goto, TypeInv, TypeOK
    <3> QED
      BY <1>3, <1>6, <3>1, GotoQuiet DEF Refreshing
  <2>4. \A v \in Workers : Refreshing(v)' => call'[v].tok # t
    BY <1>9, <2>3 DEF Refreshing
  <2> QED
    BY <2>2, <2>4 DEF Usable
<1> QED
  BY <1>1, <1>2, <1>4, <1>5, <1>8, <1>9

(***************************************************************************)
(* Each family has at most one usable token.                               *)
(***************************************************************************)
OneUsable ==
    \A t, u \in Tokens :
        Usable(t) /\ Usable(u) /\ family[t] = family[u] => t = u

LEMMA OneUsableStep ==
    ASSUME TypeInv, Began, OneUsable, OneRefreshPerToken, [Next]_vars
    PROVE  Began' /\ OneUsable'
<1>1. ASSUME NEW w \in Workers, NEW new \in Tokens, RefreshRotate(w, new)
      PROVE  Began' /\ OneUsable'
  <2>0. call[w] \in Calls /\ call[w].at = "rotate"
    BY <1>1 DEF RefreshRotate, At, TypeInv, TypeOK
  <2> PICK t \in Tokens : t = call[w].tok
    BY <2>0, CallKinds
  <2>1. /\ Began'
        /\ t \in Tokens /\ Refreshing(w) /\ Usable(t)
        /\ family'[new] = family[t] /\ t # new
        /\ \A u \in Tokens : u # new => /\ Usable(u)' => Usable(u)
                                        /\ family'[u] = family[u]
        /\ (\A v \in Workers :
               Refreshing(v) /\ call[v].tok = t => v = w) => ~Usable(t)'
    BY <1>1, RotateReplaces
  <2>2. ~Usable(t)'
    BY <2>1 DEF OneRefreshPerToken
  <2>3. \A u \in Tokens :
           u # new /\ Usable(u)' => u # t /\ Usable(u) /\ family[u] # family[t]
    BY <2>1, <2>2 DEF OneUsable
  <2>4. ASSUME NEW u \in Tokens, NEW v \in Tokens, Usable(u)', Usable(v)',
               family'[u] = family'[v]
        PROVE  u = v
    BY <2>1, <2>3, <2>4 DEF OneUsable
  <2> QED
    BY <2>1, <2>4 DEF OneUsable
<1>2. ASSUME NEW w \in Workers, NEW t \in Tokens, NEW f \in Families,
             IssueSession(w, t, f)
      PROVE  Began' /\ OneUsable'
  BY <1>2, IssueRevivesOne DEF OneUsable
<1>3. CASE /\ ~\E w \in Workers, t \in Tokens : RefreshRotate(w, t)
           /\ ~\E w \in Workers, t \in Tokens, f \in Families :
                  IssueSession(w, t, f)
  BY <1>3, OtherStepsReviveNothing DEF OneUsable, NothingRevived
<1> QED
  BY <1>1, <1>2, <1>3

(***************************************************************************)
(* docs/auth-hardening.md calls a refresh token single-use.  It is as long *)
(* as no two refreshes are between finding the same token usable and       *)
(* replacing it; logins, sign-outs, crashes and refreshes with other       *)
(* tokens of the family may overlap as they like.                          *)
(***************************************************************************)
THEOREM SingleUseWithoutOverlap ==
    Spec /\ []OneRefreshPerToken => []SingleUse
<1>1. Init => TypeInv /\ Began /\ OneUsable
  BY TypeInit DEF Init, Began, OneUsable, Usable, Live, Refreshing, Idle
<1>2. TypeInv /\ Began /\ OneUsable /\ OneRefreshPerToken /\ [Next]_vars
      => TypeInv' /\ Began' /\ OneUsable'
  BY TypeStep, OneUsableStep
<1>3. TypeInv /\ OneUsable => SingleUse
  BY DEF OneUsable, SingleUse, Usable, TypeInv, TypeOK
<1> QED
  BY <1>1, <1>2, <1>3, PTL DEF Spec

(***************************************************************************)
(* Families are ended one way: what is ended, or is about to be, is a      *)
(* family that has had a token, and no login starts it again.              *)
(***************************************************************************)
HadToken(f) == \E t \in Tokens : family[t] = f

EndedHadToken ==
    /\ closed \subseteq Families /\ \A f \in closed : HadToken(f)
    /\ \A w \in Workers, f \in Families : Revoking(w, f) => HadToken(f)

ClosedInv ==
    /\ EndedHadToken
    /\ \A t \in Tokens : family[t] \in closed => ~Usable(t)
LEMMA HadTokenStays ==
    ASSUME TypeInv, Began, [Next]_vars, NEW f \in Families, HadToken(f)
    PROVE  HadToken(f)'
<1>1. PICK t \in Tokens : family[t] = f
  BY DEF HadToken
<1>2. ASSUME NEW u \in Tokens, Unused(u) PROVE u # t
  BY <1>1, <1>2, TokenAssumption DEF Unused
<1>3. family'[t] = f
  <2>1. ASSUME NEW w \in Workers, NEW u \in Tokens, RefreshRotate(w, u)
        PROVE  family'[t] = f
    BY <1>1, <1>2, <2>1 DEF RefreshRotate, NewRow, TypeInv, TypeOK
  <2>2. ASSUME NEW w \in Workers, NEW u \in Tokens, NEW g \in Families,
               IssueSession(w, u, g)
        PROVE  family'[t] = f
    BY <1>1, <1>2, <2>2 DEF IssueSession, NewRow, TypeInv, TypeOK
  <2> QED
    BY <1>1, <2>1, <2>2, OtherStepsReviveNothing
<1> QED
  BY <1>3 DEF HadToken

(***************************************************************************)
(* A handler that moves on, aiming only at families that had a token.      *)
(***************************************************************************)
AimsAt(cr, f) ==
    \/ cr.at = "revokeFamily" /\ cr.fam = f
    \/ cr.at = "revokeOthers" /\ f \in cr.left

LEMMA AimKept ==
    ASSUME TypeInv, TypeInv', EndedHadToken,
           \A f \in Families : HadToken(f) => HadToken(f)',
           NEW w \in Workers, NEW cr, Goto(w, cr),
           \A f \in Families : AimsAt(cr, f) => HadToken(f),
           \A f \in closed' : f \in closed \/ HadToken(f)
    PROVE  EndedHadToken'
<1>1. /\ call'[w] = cr
      /\ \A x \in Workers : x # w => call'[x] = call[x]
  BY DEF Goto, TypeInv, TypeOK
<1>2. closed' \subseteq Families
  BY DEF TypeInv, TypeOK
<1>3. \A f \in closed' : HadToken(f)'
  BY <1>2 DEF EndedHadToken
<1>4. ASSUME NEW x \in Workers, NEW f \in Families, Revoking(x, f)'
      PROVE  HadToken(f)
  BY <1>1, <1>4 DEF Revoking, AimsAt, At, EndedHadToken
<1> QED
  BY <1>2, <1>3, <1>4 DEF EndedHadToken

(***************************************************************************)
(* The steps that set out to end families: each takes them from tokens.    *)
(***************************************************************************)
LEMMA AimStep ==
    ASSUME TypeInv, TypeInv', Began, EndedHadToken, NEW w \in Workers,
           Login(w) \/ Refresh(w) \/ SignOut(w)
           \/ \E t \in Tokens, f \in Families : IssueSession(w, t, f)
    PROVE  EndedHadToken'
<1>1. \A f \in Families : HadToken(f) => HadToken(f)'
  BY HadTokenStays DEF Next
<1>2. ASSUME NEW cr, Goto(w, cr), UNCHANGED closed,
             cr.at \notin {"revokeFamily", "revokeOthers"}
      PROVE  EndedHadToken'
  BY <1>1, <1>2, AimKept DEF AimsAt
<1>3. ASSUME NEW t \in Tokens, UNCHANGED closed,
             Goto(w, [at |-> "revokeFamily", fam |-> family[t]])
      PROVE  EndedHadToken'
  BY <1>1, <1>3, AimKept DEF AimsAt, HadToken
<1>4. ASSUME NEW t \in Tokens, RefreshRead(w, t)
      PROVE  EndedHadToken'
  <2>1. /\ UNCHANGED closed
        /\ \/ Goto(w, [at |-> "revokeFamily", fam |-> family[t]])
           \/ Goto(w, [at |-> "expire", tok |-> t, began |-> now])
           \/ Goto(w, [at |-> "readUser", tok |-> t, began |-> now])
    BY <1>4 DEF RefreshRead
  <2> QED
    BY <1>2, <1>3, <2>1
<1>5. CASE RefreshUser(w)
  <2>1. call[w].at = "readUser" /\ call[w] \in Calls
    BY <1>5 DEF RefreshUser, At, TypeInv, TypeOK
  <2>2. /\ call[w] \in [at : {"readUser", "rotate", "expire"},
                        tok : Tokens, began : Nat]
        /\ call[w].tok \in Tokens
    BY <2>1, CallKinds
  <2>3. [call[w] EXCEPT !.at = "rotate"].at = "rotate"
    BY <2>2
  <2>4. /\ UNCHANGED closed
        /\ \/ Goto(w, Idle)
           \/ Goto(w, [at |-> "revokeFamily", fam |-> family[call[w].tok]])
           \/ Goto(w, [call[w] EXCEPT !.at = "rotate"])
    BY <1>5 DEF RefreshUser
  <2> QED
    BY <1>2, <1>3, <2>2, <2>3, <2>4 DEF Idle
<1>6. ASSUME NEW t \in Tokens, Logout(w, t)
      PROVE  EndedHadToken'
  BY <1>3, <1>6 DEF Logout
<1>7. CASE RevokeFamily(w)
  <2>1. call[w].at = "revokeFamily" /\ call[w].fam \in Families
    BY <1>7, CallKinds DEF RevokeFamily, At, TypeInv, TypeOK
  <2>2. HadToken(call[w].fam)
    BY <2>1 DEF EndedHadToken, Revoking, At
  <2>3. Goto(w, Idle) /\ closed' = closed \cup {call[w].fam}
    BY <1>7 DEF RevokeFamily
  <2> QED
    BY <1>1, <2>2, <2>3, AimKept DEF AimsAt, Idle
<1>8. ASSUME NEW keep \in Families, RevokeOthers(w, keep)
      PROVE  EndedHadToken'
  <2> DEFINE S == {family[t] : t \in {u \in rows : Live(u)}} \ {keep}
  <2>1. Goto(w, [at |-> "revokeOthers", left |-> S]) /\ UNCHANGED closed
    BY <1>8 DEF RevokeOthers
  <2>2. \A f \in S : HadToken(f)
    BY DEF HadToken, TypeInv, TypeOK
  <2> HIDE DEF S
  <2> QED
    BY <1>1, <2>1, <2>2, AimKept DEF AimsAt
<1>9. CASE RevokeOther(w)
  <2>1. /\ call[w].at = "revokeOthers"
        /\ call[w] \in [at : {"revokeOthers"}, left : SUBSET Families]
    BY <1>9, CallKinds DEF RevokeOther, At, TypeInv, TypeOK
  <2>2. \A f \in call[w].left : HadToken(f)
    BY <2>1 DEF EndedHadToken, Revoking, At
  <2>3. CASE Goto(w, Idle) /\ UNCHANGED closed
    BY <1>2, <2>3 DEF Idle
  <2>4. ASSUME NEW f \in call[w].left, closed' = closed \cup {f},
               Goto(w, [call[w] EXCEPT !.left = @ \ {f}])
        PROVE  EndedHadToken'
    <3>1. /\ [call[w] EXCEPT !.left = @ \ {f}].at = "revokeOthers"
          /\ [call[w] EXCEPT !.left = @ \ {f}].left = call[w].left \ {f}
      BY <2>1
    <3> QED
      BY <1>1, <2>2, <2>4, <3>1, AimKept DEF AimsAt
  <2> QED
    BY <1>9, <2>3, <2>4 DEF RevokeOther
<1>10. CASE RevokeAllFamilies(w)
  <2>1. call[w] \in [at : {"revokeAll", "bump"}, relogin : BOOLEAN]
    BY <1>10, CallKinds DEF RevokeAllFamilies, At, TypeInv, TypeOK
  <2>2. [call[w] EXCEPT !.at = "bump"].at = "bump"
    BY <2>1
  <2> QED
    BY <1>2, <1>10, <2>2 DEF RevokeAllFamilies
<1>11. CASE \/ Login(w) \/ MarkExpired(w) \/ RotateFails(w)
            \/ CleanupOldRevoked(w) \/ Disable(w)
            \/ \E relogin \in BOOLEAN : SignOutEverywhere(w, relogin)
            \/ BumpSessionsValidFrom(w)
  BY <1>2, <1>11 DEF Login, MarkExpired, RotateFails, CleanupOldRevoked,
     Disable, SignOutEverywhere, BumpSessionsValidFrom, Idle
<1>12. ASSUME NEW t \in Tokens, RefreshRotate(w, t) PROVE EndedHadToken'
  BY <1>2, <1>12 DEF RefreshRotate
<1>13. ASSUME NEW t \in Tokens, NEW f \in Families, IssueSession(w, t, f)
       PROVE  EndedHadToken'
  BY <1>2, <1>13 DEF IssueSession, Idle
<1> QED
  BY <1>4, <1>5, <1>6, <1>7, <1>8, <1>9, <1>10, <1>11, <1>12, <1>13
  DEF Refresh, SignOut
(***************************************************************************)
(* The statement that ends a family leaves none of its tokens usable,      *)
(* unless a refresh of the family is in flight.                            *)
(***************************************************************************)
LEMMA EndsFamily ==
    ASSUME TypeInv, NoRefreshOfRevoked, NEW w \in Workers, NEW f \in Families,
           Revoking(w, f), revokedAt' = RevokedNow(InFamily(f)),
           UNCHANGED <<rows, family>>,
           \A x \in Workers : Refreshing(x)' => call'[x] = call[x],
           NEW t \in Tokens, family[t] = f
    PROVE  ~Usable(t)'
<1>1. ~Live(t)'
  BY DEF Live, RevokedNow, InFamily, TypeInv, TypeOK
<1>2. ASSUME NEW x \in Workers, Refreshing(x)', call'[x].tok = t
      PROVE  FALSE
  <2>1. Refreshing(x) /\ family[call[x].tok] = f
    BY <1>2 DEF Refreshing
  <2> QED
    BY <2>1 DEF NoRefreshOfRevoked
<1> QED
  BY <1>1, <1>2 DEF Usable

LEMMA ClosedStep ==
    ASSUME TypeInv, TypeInv', Began, ClosedInv, NoRefreshOfRevoked,
           [Next]_vars
    PROVE  Began' /\ ClosedInv'
<1> DEFINE Dead == \A t \in Tokens : family[t] \in closed => ~Usable(t)
<1>1. EndedHadToken'
  <2>1. \A f \in Families : HadToken(f) => HadToken(f)'
    BY HadTokenStays
  <2>2. ASSUME UNCHANGED <<family, closed>>,
               call' = call \/ call' = [w \in Workers |-> Idle]
        PROVE  EndedHadToken'
    <3>1. \A w \in Workers, f \in Families : Revoking(w, f)' => Revoking(w, f)
      BY <2>2 DEF Revoking, At, Idle
    <3>2. \A f \in Families : HadToken(f)' <=> HadToken(f)
      BY <2>2 DEF HadToken
    <3> QED
      BY <2>2, <3>1, <3>2 DEF ClosedInv, EndedHadToken
  <2>3. CASE Reactivate \/ Tick \/ Restart \/ UNCHANGED vars
    BY <2>2, <2>3 DEF Reactivate, Tick, Restart, vars, tokenVars
  <2> QED
    BY <2>3, AimStep DEF Next, ClosedInv
<1>2. ASSUME NEW w \in Workers, NEW new \in Tokens, RefreshRotate(w, new)
      PROVE  Began' /\ Dead'
  <2>1. call[w] \in Calls /\ call[w].at = "rotate" /\ UNCHANGED closed
    BY <1>2 DEF RefreshRotate, At, TypeInv, TypeOK
  <2> PICK t \in Tokens : t = call[w].tok
    BY <2>1, CallKinds
  <2>2. /\ Began' /\ Usable(t) /\ family'[new] = family[t]
        /\ \A u \in Tokens : u # new => /\ Usable(u)' => Usable(u)
                                        /\ family'[u] = family[u]
    BY <1>2, RotateReplaces
  <2> QED
    BY <2>1, <2>2 DEF ClosedInv
<1>3. ASSUME NEW w \in Workers, NEW t \in Tokens, NEW f \in Families,
             IssueSession(w, t, f)
      PROVE  Began' /\ Dead'
  <2>1. /\ Began' /\ family'[t] = f /\ ~HadToken(f) /\ UNCHANGED closed
        /\ \A u \in Tokens : u # t => /\ Usable(u)' => Usable(u)
                                      /\ family'[u] = family[u]
    BY <1>3, IssueRevivesOne DEF IssueSession, HadToken
  <2> QED
    BY <2>1 DEF ClosedInv, EndedHadToken
<1>4. ASSUME ~\E w \in Workers, t \in Tokens : RefreshRotate(w, t),
             ~\E w \in Workers, t \in Tokens, f \in Families :
                 IssueSession(w, t, f)
      PROVE  Began' /\ Dead'
  <2>1. Began' /\ NothingRevived /\ UNCHANGED family
    BY <1>4, OtherStepsReviveNothing
  <2>2. ASSUME closed' \subseteq closed PROVE Dead'
    BY <2>1, <2>2 DEF NothingRevived, ClosedInv
  <2>3. ASSUME NEW w \in Workers, NEW f \in Families, Revoking(w, f),
               closed' = closed \cup {f},
               revokedAt' = RevokedNow(InFamily(f)), rows' = rows,
               RevokeFamily(w) \/ RevokeOther(w)
        PROVE  Dead'
    <3>1. \A x \in Workers : Refreshing(x)' => call'[x] = call[x]
      BY <2>3, QuietMoves, GotoQuiet
    <3>2. \A t \in Tokens : family[t] = f => ~Usable(t)'
      BY <2>1, <2>3, <3>1, EndsFamily
    <3> QED
      BY <2>1, <2>3, <3>2 DEF NothingRevived, ClosedInv
  <2>4. ASSUME NEW w \in Workers, RevokeFamily(w) PROVE Dead'
    <3>1. call[w].at = "revokeFamily" /\ call[w].fam \in Families
      BY <2>4, CallKinds DEF RevokeFamily, At, TypeInv, TypeOK
    <3> QED
      BY <2>3, <2>4, <3>1 DEF RevokeFamily, Revoking, At
  <2>5. ASSUME NEW w \in Workers, RevokeOther(w) PROVE Dead'
    <3>1. call[w].at = "revokeOthers" /\ call[w].left \subseteq Families
      BY <2>5, CallKinds DEF RevokeOther, At, TypeInv, TypeOK
    <3>2. CASE UNCHANGED closed
      BY <2>2, <3>2
    <3>3. ASSUME NEW f \in call[w].left, closed' = closed \cup {f},
                 revokedAt' = RevokedNow(InFamily(f))
          PROVE  Dead'
      BY <2>3, <2>5, <3>1, <3>3 DEF RevokeOther, Revoking, At
    <3> QED
      BY <2>5, <3>2, <3>3 DEF RevokeOther
  <2>6. ASSUME NEW w \in Workers, Login(w) \/ Refresh(w) PROVE UNCHANGED closed
    BY <2>6 DEF Login, Refresh, RefreshRead, RefreshRotate, RefreshUser,
       MarkExpired, RotateFails, CleanupOldRevoked
  <2>7. ASSUME NEW w \in Workers, SignOut(w), ~RevokeFamily(w), ~RevokeOther(w)
        PROVE  UNCHANGED closed
    BY <2>7 DEF SignOut, Logout, RevokeOthers, SignOutEverywhere, Disable,
       RevokeAllFamilies, BumpSessionsValidFrom
  <2>8. ASSUME Reactivate \/ Tick \/ Restart \/ UNCHANGED vars
        PROVE  UNCHANGED closed
    BY <2>8 DEF Reactivate, Tick, Restart, vars
  <2> HIDE DEF Dead
  <2>9. Dead'
    BY <1>4, <2>2, <2>4, <2>5, <2>6, <2>7, <2>8 DEF Next
  <2> QED
    BY <2>1, <2>9
<1> HIDE DEF Dead
<1>5. Began' /\ Dead'
  BY <1>2, <1>3, <1>4
<1> QED
  BY <1>1, <1>5 DEF ClosedInv, Dead

(***************************************************************************)
(* docs/auth-hardening.md: logout, and the reuse of a rotated token,       *)
(* revoke the family.  They do as long as no refresh of the family is in   *)
(* flight when the statement that revokes it runs: from then on no token   *)
(* of the family is live, whatever other requests and crashes do.          *)
(***************************************************************************)
THEOREM RevokedForGoodWithoutOverlap ==
    Spec /\ []NoRefreshOfRevoked => []RevokedFamilyIsDead
<1>1. Init => TypeInv /\ Began /\ ClosedInv
  <2>1. Init => Began /\ ClosedInv
    BY DEF Init, Began, ClosedInv, EndedHadToken, Revoking, At, Idle
  <2> QED
    BY <2>1, TypeInit
<1>2. TypeInv /\ Began /\ ClosedInv /\ NoRefreshOfRevoked /\ [Next]_vars
      => TypeInv' /\ Began' /\ ClosedInv'
  BY TypeStep, ClosedStep
<1>3. TypeInv /\ ClosedInv => RevokedFamilyIsDead
  BY DEF ClosedInv, RevokedFamilyIsDead, Usable, TypeInv, TypeOK
<1> QED
  BY <1>1, <1>2, <1>3, PTL DEF Spec
=============================================================================
