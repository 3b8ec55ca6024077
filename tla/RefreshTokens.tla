--------------------------- MODULE RefreshTokens ---------------------------
(***************************************************************************)
(* The browser sessions of one user (authService.js): families of refresh  *)
(* tokens, each rotation adding a row to its family; reuse detection with  *)
(* a grace period; logout and the other ways to end one family, all other  *)
(* families or every family of the user; and sessionsValidFrom, the time   *)
(* before which a family must have started to be refused.                  *)
(*                                                                         *)
(* Tokens are verified and hashed before they are looked up; a token here  *)
(* is its row.  Anybody who holds an old token may present it at any time, *)
(* so every handler starts from any row.  Rows from before there were      *)
(* families, whose familyId or sessionStartedAt is null, are left out:     *)
(* nothing creates one any more, and they expire within REFRESH_TTL_MS.    *)
(***************************************************************************)
EXTENDS Naturals, FiniteSets

CONSTANTS
    Tokens,      \* primary keys of RefreshToken rows
    Families,    \* refresh-token family ids
    Workers,     \* HTTP handlers that may be in flight together
    NoFamily,    \* of a token whose row has not been created
    Second,      \* ticks in a second: sessionsValidFrom is cut to seconds
    Grace,       \* refreshReuseGraceMs, 10 s
    TokenTTL,    \* REFRESH_TTL_MS
    AbsoluteTTL, \* sessionAbsoluteTtlMs, 30 days
    CleanAge,    \* 24 h: age at which a revoked row is deleted
    MaxTime      \* bound on the clock

ASSUME TokenAssumption ==
    /\ NoFamily \notin Families
    /\ Second \in Nat \ {0} /\ MaxTime \in Nat
    /\ Grace \in Nat /\ TokenTTL \in Nat /\ AbsoluteTTL \in Nat
    /\ CleanAge \in Nat

VARIABLES
    now,        \* the clock, from 1; 0 stands for null in the columns below
    active,     \* User.status = 'active'
    validFrom,  \* User.sessionsValidFrom
    rows,       \* the RefreshToken rows in the table
    family,     \* RefreshToken.familyId, NoFamily before the row is created
    startedAt,  \* RefreshToken.sessionStartedAt
    usedAt,     \* RefreshToken.lastUsedAt
    expiresAt,  \* RefreshToken.expiresAt
    revokedAt,  \* RefreshToken.revokedAt
    closed,     \* families that revokeFamily has been run on (history)
    call        \* local state of every HTTP handler

tokenVars == <<rows, family, startedAt, usedAt, expiresAt, revokedAt>>
userVars == <<active, validFrom>>
vars == <<now, userVars, tokenVars, closed, call>>

Idle == [at |-> "idle"]
Calls ==
    {Idle}
    \cup [at : {"readUser", "rotate", "expire"}, tok : Tokens, began : Nat]
    \cup [at : {"revokeFamily", "cleanup"}, fam : Families]
    \cup [at : {"revokeOthers"}, left : SUBSET Families]
    \cup [at : {"revokeAll", "bump"}, relogin : BOOLEAN]
    \cup [at : {"issue"}]

TypeOK ==
    /\ now \in Nat /\ active \in BOOLEAN /\ validFrom \in Nat
    /\ rows \subseteq Tokens
    /\ family \in [Tokens -> Families \cup {NoFamily}]
    /\ startedAt \in [Tokens -> Nat] /\ usedAt \in [Tokens -> Nat]
    /\ expiresAt \in [Tokens -> Nat] /\ revokedAt \in [Tokens -> Nat]
    /\ \A t \in rows : family[t] \in Families /\ startedAt[t] \in 1..now
    /\ closed \subseteq Families
    /\ call \in [Workers -> Calls]

Init ==
    /\ now = 1 /\ active = TRUE /\ validFrom = 0
    /\ rows = {}
    /\ family = [t \in Tokens |-> NoFamily]
    /\ startedAt = [t \in Tokens |-> 0] /\ usedAt = [t \in Tokens |-> 0]
    /\ expiresAt = [t \in Tokens |-> 0] /\ revokedAt = [t \in Tokens |-> 0]
    /\ closed = {}
    /\ call = [w \in Workers |-> Idle]

-----------------------------------------------------------------------------
At(w, where) == call[w].at = where

Goto(w, c) == call' = [call EXCEPT ![w] = c]

InFamily(f) == {t \in rows : family[t] = f}

Live(t) == t \in rows /\ revokedAt[t] = 0

\* Bound: a row can be created while keys are left.
Unused(t) == family[t] = NoFamily

\* A new row of family f, whose session started at s, written by a handler
\* that took its clock reading at `used`.
NewRow(t, f, s, used) ==
    /\ Unused(t)
    /\ rows' = rows \cup {t}
    /\ family' = [family EXCEPT ![t] = f]
    /\ startedAt' = [startedAt EXCEPT ![t] = s]
    /\ usedAt' = [usedAt EXCEPT ![t] = used]
    /\ expiresAt' = [expiresAt EXCEPT ![t] = now + TokenTTL]

\* updateMany of the rows of S that are not revoked yet.
RevokedNow(S) ==
    [t \in Tokens |-> IF t \in S /\ Live(t) THEN now ELSE revokedAt[t]]

(***************************************************************************)
(* login, and the other ways in: the account is found active, later        *)
(* issueSession starts a family of its own.                                *)
(***************************************************************************)
Login(w) ==
    /\ At(w, "idle") /\ active
    /\ Goto(w, [at |-> "issue"])
    /\ UNCHANGED <<now, userVars, tokenVars, closed>>

IssueSession(w, t, f) ==
    /\ At(w, "issue")
    /\ \A u \in Tokens : family[u] # f
    /\ NewRow(t, f, now, now)
    /\ Goto(w, Idle)
    /\ UNCHANGED <<now, userVars, revokedAt, closed>>

(***************************************************************************)
(* refresh: look the token up, look the user up, rotate in a transaction.  *)
(* Only the first lookup sees revokedAt; the rotation writes the revokedAt *)
(* of the old row unconditionally, with the clock reading taken then.      *)
(***************************************************************************)
Outlived(t) == now - startedAt[t] > AbsoluteTTL

ReusedToken(t) == revokedAt[t] # 0

RefreshRead(w, t) ==
    /\ At(w, "idle") /\ t \in rows
    /\ ReusedToken(t) => now - revokedAt[t] > Grace
    /\ Goto(w, IF ReusedToken(t)
               THEN [at |-> "revokeFamily", fam |-> family[t]]
               ELSE IF expiresAt[t] < now
               THEN [at |-> "expire", tok |-> t, began |-> now]
               ELSE IF Outlived(t)
               THEN [at |-> "revokeFamily", fam |-> family[t]]
               ELSE [at |-> "readUser", tok |-> t, began |-> now])
    /\ UNCHANGED <<now, userVars, tokenVars, closed>>

\* prisma's update throws when the row has been deleted meanwhile.
MarkExpired(w) ==
    /\ At(w, "expire")
    /\ revokedAt' = [t \in Tokens |->
                        IF t = call[w].tok /\ t \in rows THEN call[w].began
                        ELSE revokedAt[t]]
    /\ Goto(w, Idle)
    /\ UNCHANGED <<now, userVars, rows, family, startedAt, usedAt, expiresAt,
                   closed>>

\* Mutant: the family's start is not compared with sessionsValidFrom.
NeverSignedOut(t) == FALSE

SignedOutEarlier(t) == startedAt[t] < validFrom

RefreshUser(w) ==
    /\ At(w, "readUser")
    /\ LET t == call[w].tok IN
          Goto(w, IF ~active THEN Idle
                  ELSE IF SignedOutEarlier(t)
                  THEN [at |-> "revokeFamily", fam |-> family[t]]
                  ELSE [call[w] EXCEPT !.at = "rotate"])
    /\ UNCHANGED <<now, userVars, tokenVars, closed>>

\* Mutant: a rotation does not carry the start of the session over.
StartLost(t) == 0

\* Mutant: a rotation starts the session again.
StartedAgain(t) == now

StartOf(t) == startedAt[t]

RefreshRotate(w, new) ==
    /\ At(w, "rotate")
    /\ LET t == call[w].tok IN
          /\ t \in rows
          /\ NewRow(new, family[t], StartOf(t), call[w].began)
          /\ revokedAt' = [revokedAt EXCEPT ![t] = call[w].began]
          /\ Goto(w, [at |-> "cleanup", fam |-> family[t]])
    /\ UNCHANGED <<now, userVars, closed>>

\* The old row has been cleaned up: the transaction rolls back.
RotateFails(w) ==
    /\ At(w, "rotate") /\ call[w].tok \notin rows
    /\ Goto(w, Idle)
    /\ UNCHANGED <<now, userVars, tokenVars, closed>>

CleanupOldRevoked(w) ==
    /\ At(w, "cleanup")
    /\ rows' = rows \ {t \in InFamily(call[w].fam) :
                          revokedAt[t] # 0 /\ revokedAt[t] + CleanAge < now}
    /\ Goto(w, Idle)
    /\ UNCHANGED <<now, userVars, family, startedAt, usedAt, expiresAt,
                   revokedAt, closed>>

(***************************************************************************)
(* Ending one family: logout looks the token up first, the self-service    *)
(* page names the family.                                                  *)
(***************************************************************************)
Logout(w, t) ==
    /\ At(w, "idle") /\ t \in rows
    /\ Goto(w, [at |-> "revokeFamily", fam |-> family[t]])
    /\ UNCHANGED <<now, userVars, tokenVars, closed>>

RevokeFamily(w) ==
    /\ At(w, "revokeFamily")
    /\ revokedAt' = RevokedNow(InFamily(call[w].fam))
    /\ closed' = closed \cup {call[w].fam}
    /\ Goto(w, Idle)
    /\ UNCHANGED <<now, userVars, rows, family, startedAt, usedAt, expiresAt>>

\* revokeOtherFamilies: find the families, then end them one by one.
RevokeOthers(w, keep) ==
    /\ At(w, "idle")
    /\ Goto(w, [at |-> "revokeOthers",
                left |-> {family[t] : t \in {u \in rows : Live(u)}} \ {keep}])
    /\ UNCHANGED <<now, userVars, tokenVars, closed>>

RevokeOther(w) ==
    /\ At(w, "revokeOthers")
    /\ IF call[w].left = {}
       THEN Goto(w, Idle) /\ UNCHANGED <<revokedAt, closed>>
       ELSE \E f \in call[w].left :
               /\ revokedAt' = RevokedNow(InFamily(f))
               /\ closed' = closed \cup {f}
               /\ Goto(w, [call[w] EXCEPT !.left = @ \ {f}])
    /\ UNCHANGED <<now, userVars, rows, family, startedAt, usedAt, expiresAt>>

(***************************************************************************)
(* revokeAllSessions: every family of the user, then sessionsValidFrom.    *)
(* A password change goes on to issueSession; disabling the account marks  *)
(* it first.                                                               *)
(***************************************************************************)
SignOutEverywhere(w, relogin) ==
    /\ At(w, "idle")
    /\ Goto(w, [at |-> "revokeAll", relogin |-> relogin])
    /\ UNCHANGED <<now, userVars, tokenVars, closed>>

Disable(w) ==
    /\ At(w, "idle") /\ active
    /\ active' = FALSE
    /\ Goto(w, [at |-> "revokeAll", relogin |-> FALSE])
    /\ UNCHANGED <<now, validFrom, tokenVars, closed>>

Reactivate ==
    /\ ~active
    /\ active' = TRUE
    /\ UNCHANGED <<now, validFrom, tokenVars, closed, call>>

RevokeAllFamilies(w) ==
    /\ At(w, "revokeAll")
    /\ revokedAt' = RevokedNow(rows)
    /\ Goto(w, [call[w] EXCEPT !.at = "bump"])
    /\ UNCHANGED <<now, userVars, rows, family, startedAt, usedAt, expiresAt,
                   closed>>

BumpSessionsValidFrom(w) ==
    /\ At(w, "bump")
    /\ validFrom' = (now \div Second) * Second
    /\ Goto(w, IF call[w].relogin THEN [at |-> "issue"] ELSE Idle)
    /\ UNCHANGED <<now, active, tokenVars, closed>>

Tick ==
    /\ now < MaxTime
    /\ now' = now + 1
    /\ UNCHANGED <<userVars, tokenVars, closed, call>>

\* The process dies: every handler in flight stops between two statements.
Restart ==
    /\ \E w \in Workers : ~At(w, "idle")
    /\ call' = [w \in Workers |-> Idle]
    /\ UNCHANGED <<now, userVars, tokenVars, closed>>

Refresh(w) ==
    \/ \E t \in Tokens : RefreshRead(w, t) \/ RefreshRotate(w, t)
    \/ MarkExpired(w) \/ RefreshUser(w) \/ RotateFails(w)
    \/ CleanupOldRevoked(w)

SignOut(w) ==
    \/ \E t \in Tokens : Logout(w, t)
    \/ RevokeFamily(w)
    \/ \E f \in Families : RevokeOthers(w, f)
    \/ RevokeOther(w)
    \/ \E relogin \in BOOLEAN : SignOutEverywhere(w, relogin)
    \/ Disable(w) \/ RevokeAllFamilies(w) \/ BumpSessionsValidFrom(w)

Next ==
    \/ \E w \in Workers :
          \/ Login(w)
          \/ \E t \in Tokens, f \in Families : IssueSession(w, t, f)
          \/ Refresh(w)
          \/ SignOut(w)
    \/ Reactivate \/ Tick \/ Restart

Spec == Init /\ [][Next]_vars

-----------------------------------------------------------------------------
(***************************************************************************)
(* Signing out everywhere holds for rotations in flight as well: a family  *)
(* that started before sessionsValidFrom was never refreshed by a request  *)
(* that came in after the second of the sign-out.                          *)
(***************************************************************************)
SignedOutIsUnused ==
    \A t \in rows : startedAt[t] < validFrom => usedAt[t] < validFrom + Second

(***************************************************************************)
(* However often it is rotated, a family is not used beyond its absolute   *)
(* lifetime: all its tokens carry the start of its first one.              *)
(***************************************************************************)
WithinAbsoluteLifetime ==
    \A t \in rows :
        /\ usedAt[t] <= startedAt[t] + AbsoluteTTL
        /\ \A u \in InFamily(family[t]) : startedAt[u] = startedAt[t]

(***************************************************************************)
(* docs/auth-hardening.md: a refresh token is single-use and a rotation    *)
(* stays in the family; so a family never has two usable tokens.           *)
(***************************************************************************)
SingleUse ==
    \A t, u \in rows : Live(t) /\ Live(u) /\ family[t] = family[u] => t = u

\* Between finding the token usable and replacing it.
Refreshing(w) == call[w].at \in {"readUser", "rotate"}

OneRefreshPerToken ==
    \A v, w \in Workers :
        Refreshing(v) /\ Refreshing(w) /\ call[v].tok = call[w].tok => v = w

(***************************************************************************)
(* docs/auth-hardening.md: logout revokes the caller's refresh family, and *)
(* reuse of a rotated token the whole family; so with no request under way *)
(* no token of such a family is live.                                      *)
(***************************************************************************)
RevokedFamilyIsDead ==
    (\A w \in Workers : At(w, "idle")) =>
        \A t \in rows : family[t] \in closed => ~Live(t)

\* About to end family f.
Revoking(w, f) ==
    \/ At(w, "revokeFamily") /\ call[w].fam = f
    \/ At(w, "revokeOthers") /\ f \in call[w].left

NoRefreshOfRevoked ==
    \A v, w \in Workers : Refreshing(v) => ~Revoking(w, family[call[v].tok])
=============================================================================
