--------------------------- MODULE AccessRequests ---------------------------
(***************************************************************************)
(* The access-request lifecycle of the backend: accessRequestService.js    *)
(* (submit, review, generateSshCredentials, revoke and the two expiry      *)
(* sweeps), the certificate rows these operations create and revoke        *)
(* (caService.js, certificateService.js), and the cascade that cuts off a  *)
(* disabled account (userService.js).                                      *)
(*                                                                         *)
(* Every `await` of a handler is a point at which another handler may run, *)
(* so a handler is a sequence of actions: the first reads the request row  *)
(* and keeps what it read in call[w], the later ones act on that copy.     *)
(* Each action is one database statement (or one transaction).             *)
(***************************************************************************)
EXTENDS Naturals, Sequences, FiniteSets

CONSTANTS
    Users,         \* requesters and approvers
    Requests,      \* primary keys of AccessRequest rows
    Certs,         \* primary keys of Certificate rows
    Workers,       \* HTTP handlers that may be in flight together
    Durations,     \* durations that requesters ask for and approvers grant
    PolicyMaxes,   \* possible maxSessionDuration / maxTtl values; 0 is "none"
    PendingTTL,    \* 24 h: age at which a PENDING request is swept
    MinRemaining,  \* 60 s: least remaining life for which a cert is signed
    MaxTime,       \* bound on the clock
    NoUser, NoRequest, NoCert

ASSUME ConstantsAssumption ==
    /\ NoUser \notin Users
    /\ NoRequest \notin Requests
    /\ NoCert \notin Certs
    /\ Durations \subseteq Nat \ {0}
    /\ PolicyMaxes \subseteq Nat
    /\ PendingTTL \in Nat
    /\ MinRemaining \in Nat
    /\ MaxTime \in Nat

VARIABLES
    now,          \* the wall clock (seconds in the code, ticks here)
    enabled,      \* users whose status is not suspended / deleted
    status,       \* AccessRequest.status, "NONE" for a row not yet created
    requester,    \* AccessRequest.requesterId
    reviewer,     \* AccessRequest.reviewerId
    approvers,    \* the AccessRequestApprover rows of the request
    createdAt,    \* AccessRequest.createdAt
    expiresAt,    \* AccessRequest.expiresAt, 0 for null
    certificate,  \* AccessRequest.certificateId, the last linked certificate
    certStatus,   \* Certificate.status, "NONE" for a row not yet created
    certRequest,  \* the request in Certificate.keyId ("ar-<id>")
    validBefore,  \* Certificate.validBefore
    signedUntil,  \* the end of life written into Certificate.signedCert
    decisions,    \* audit rows access_request.approved / .denied, per request
    call,         \* local state of every HTTP handler
    expireTodo,   \* markExpired: rows found and not yet processed
    expireCert,   \* markExpired: certificateId of a row when it was found
    expireNow,    \* markExpired: the row whose certificate is still to revoke
    pendingTodo   \* markPendingExpired: rows found and not yet processed

rowVars == <<status, requester, reviewer, approvers, createdAt, expiresAt,
             certificate>>
certVars == <<certStatus, certRequest, validBefore, signedUntil>>
jobVars == <<expireTodo, expireCert, expireNow, pendingTodo>>
vars == <<now, enabled, rowVars, certVars, decisions, call, jobVars>>

Live == {"PENDING", "APPROVED"}
Final == {"DENIED", "EXPIRED", "REVOKED"}
Statuses == {"NONE"} \cup Live \cup Final
CertStatuses == {"NONE", "ACTIVE", "REVOKED", "EXPIRED"}
Verdicts == {"approve", "deny"}
Cascade == {"mark", "requests", "certs"}

(***************************************************************************)
(* The local state of a handler: where it is (`at`), and what it holds.    *)
(***************************************************************************)
Idle == [at |-> "idle"]
SubmitCalls ==
    [at : {"createPending"}, by : Users,
     team : (SUBSET Users) \ {{}}, primary : Users]
    \cup [at : {"createApproved"}, by : Users, until : Nat]
ReviewCalls == [at : {"checkApprover", "claim", "auditDecision"},
                req : Requests, by : Users, verdict : Verdicts,
                dur : Nat, start : Nat]
CredentialCalls ==
    [at : {"sign"}, req : Requests, start : Nat, remaining : Nat]
    \cup [at : {"createCert"}, req : Requests, until : Nat, signed : Nat]
LinkCalls == [at : {"linkCert"}, req : Requests, cert : Certs]
RevokeCalls == [at : {"writeRevoked", "revokeCert"},
                req : Requests, cert : Certs \cup {NoCert}]
DisableCalls == [at : {"disable"}, user : Users,
                 order : {"suspend", "delete"}, left : SUBSET Cascade]
Calls == {Idle} \cup SubmitCalls \cup ReviewCalls \cup CredentialCalls
           \cup LinkCalls \cup RevokeCalls \cup DisableCalls

(***************************************************************************)
(* One type invariant: every row and every handler holds what its columns  *)
(* and locals may hold.                                                    *)
(***************************************************************************)
TypeOK ==
    /\ now \in Nat
    /\ enabled \subseteq Users
    /\ status \in [Requests -> Statuses]
    /\ requester \in [Requests -> Users \cup {NoUser}]
    /\ reviewer \in [Requests -> Users \cup {NoUser}]
    /\ approvers \in [Requests -> SUBSET Users]
    /\ createdAt \in [Requests -> Nat]
    /\ expiresAt \in [Requests -> Nat]
    /\ certificate \in [Requests -> Certs \cup {NoCert}]
    /\ certStatus \in [Certs -> CertStatuses]
    /\ certRequest \in [Certs -> Requests \cup {NoRequest}]
    /\ validBefore \in [Certs -> Nat]
    /\ signedUntil \in [Certs -> Nat]
    /\ decisions \in [Requests -> Seq(Users \X Verdicts)]
    /\ call \in [Workers -> Calls]
    /\ expireTodo \subseteq Requests
    /\ expireCert \in [Requests -> Certs \cup {NoCert}]
    /\ expireNow \in Requests \cup {NoRequest}
    /\ pendingTodo \subseteq Requests

Init ==
    /\ now = 0
    /\ enabled = Users
    /\ status = [r \in Requests |-> "NONE"]
    /\ requester = [r \in Requests |-> NoUser]
    /\ reviewer = [r \in Requests |-> NoUser]
    /\ approvers = [r \in Requests |-> {}]
    /\ createdAt = [r \in Requests |-> 0]
    /\ expiresAt = [r \in Requests |-> 0]
    /\ certificate = [r \in Requests |-> NoCert]
    /\ certStatus = [c \in Certs |-> "NONE"]
    /\ certRequest = [c \in Certs |-> NoRequest]
    /\ validBefore = [c \in Certs |-> 0]
    /\ signedUntil = [c \in Certs |-> 0]
    /\ decisions = [r \in Requests |-> <<>>]
    /\ call = [w \in Workers |-> Idle]
    /\ expireTodo = {}
    /\ expireCert = [r \in Requests |-> NoCert]
    /\ expireNow = NoRequest
    /\ pendingTodo = {}

-----------------------------------------------------------------------------
(***************************************************************************)
(* Helpers                                                                 *)
(***************************************************************************)
At(w, where) == call[w].at = where

Goto(w, c) == call' = [call EXCEPT ![w] = c]

\* A duration is never longer than the policy's maximum, where there is one.
Clamp(dur, max) == IF max > 0 /\ dur > max THEN max ELSE dur

\* Who may decide: the primary reviewer or a member of the approver set.
IsEligibleApprover(r, u) == u = reviewer[r] \/ u \in approvers[r]

(***************************************************************************)
(* submit: evaluate the policy, resolve the approvers, create the row.     *)
(* What the policy says is an input: approval required (the approver set   *)
(* is then some active users other than the requester), or allowed         *)
(* outright, for at most the policy's maximum.  A denial writes nothing.   *)
(***************************************************************************)
\* Bound: submit is not tried once the finitely many rows are used up.
RowsLeft == \E r \in Requests : status[r] = "NONE"

\* Mutant: the requester is not left out of the approver set.
ResolveAnyApprovers(u) == (SUBSET enabled) \ {{}}

ResolveApprovers(u) == (SUBSET (enabled \ {u})) \ {{}}

SubmitForApproval(w, u) ==
    /\ At(w, "idle") /\ RowsLeft
    /\ u \in enabled
    /\ \E team \in ResolveApprovers(u) : \E primary \in team :
          Goto(w, [at |-> "createPending", by |-> u,
                   team |-> team, primary |-> primary])
    /\ UNCHANGED <<now, enabled, rowVars, certVars, decisions, jobVars>>

SubmitAllowed(w, u, d, max) ==
    /\ At(w, "idle") /\ RowsLeft
    /\ u \in enabled
    /\ Goto(w, [at |-> "createApproved", by |-> u,
                until |-> now + Clamp(d, max)])
    /\ UNCHANGED <<now, enabled, rowVars, certVars, decisions, jobVars>>

CreatePending(w, r) ==
    /\ At(w, "createPending")
    /\ status[r] = "NONE"
    /\ status' = [status EXCEPT ![r] = "PENDING"]
    /\ requester' = [requester EXCEPT ![r] = call[w].by]
    /\ reviewer' = [reviewer EXCEPT ![r] = call[w].primary]
    /\ approvers' = [approvers EXCEPT ![r] = call[w].team]
    /\ createdAt' = [createdAt EXCEPT ![r] = now]
    /\ Goto(w, Idle)
    /\ UNCHANGED <<now, enabled, expiresAt, certificate, certVars, decisions,
                   jobVars>>

CreateApproved(w, r) ==
    /\ At(w, "createApproved")
    /\ status[r] = "NONE"
    /\ status' = [status EXCEPT ![r] = "APPROVED"]
    /\ requester' = [requester EXCEPT ![r] = call[w].by]
    /\ createdAt' = [createdAt EXCEPT ![r] = now]
    /\ expiresAt' = [expiresAt EXCEPT ![r] = call[w].until]
    /\ Goto(w, Idle)
    /\ UNCHANGED <<now, enabled, reviewer, approvers, certificate, certVars,
                   decisions, jobVars>>

(***************************************************************************)
(* review: read the row; check that the approver is still active; claim    *)
(* the row with an UPDATE ... WHERE status = 'PENDING'; write the audit    *)
(* row.  An approver who names no duration grants the requested one.       *)
(***************************************************************************)
ReviewRead(w, r, u, verdict, d) ==
    /\ At(w, "idle")
    /\ status[r] = "PENDING"
    /\ IsEligibleApprover(r, u)
    /\ Goto(w, [at |-> "checkApprover", req |-> r, by |-> u,
                verdict |-> verdict, dur |-> d, start |-> 0])
    /\ UNCHANGED <<now, enabled, rowVars, certVars, decisions, jobVars>>

ReviewCheckApprover(w) ==
    /\ At(w, "checkApprover")
    /\ Goto(w, IF call[w].by \in enabled
               THEN [call[w] EXCEPT !.at = "claim", !.start = now]
               ELSE Idle)
    /\ UNCHANGED <<now, enabled, rowVars, certVars, decisions, jobVars>>

\* Mutant: a plain update instead of one with the status in its WHERE.
ClaimsAnyRow(r) == status[r] # "NONE"

\* The WHERE clause of the claim.
ClaimsRow(r) == status[r] = "PENDING"

ReviewClaim(w, max) ==
    /\ At(w, "claim")
    /\ LET r == call[w].req IN
          /\ ClaimsRow(r)
          /\ reviewer' = [reviewer EXCEPT ![r] = call[w].by]
          /\ IF call[w].verdict = "approve"
             THEN /\ status' = [status EXCEPT ![r] = "APPROVED"]
                  /\ expiresAt' = [expiresAt EXCEPT ![r] =
                                     call[w].start + Clamp(call[w].dur, max)]
             ELSE /\ status' = [status EXCEPT ![r] = "DENIED"]
                  /\ UNCHANGED expiresAt
    /\ Goto(w, [call[w] EXCEPT !.at = "auditDecision"])
    /\ UNCHANGED <<now, enabled, requester, approvers, createdAt,
                   certificate, certVars, decisions, jobVars>>

\* claimed.count = 0: answered 409, nothing is written.
ReviewLost(w) ==
    /\ At(w, "claim")
    /\ ~ClaimsRow(call[w].req)
    /\ Goto(w, Idle)
    /\ UNCHANGED <<now, enabled, rowVars, certVars, decisions, jobVars>>

ReviewAudit(w) ==
    /\ At(w, "auditDecision")
    /\ decisions' = [decisions EXCEPT ![call[w].req] =
                        Append(@, <<call[w].by, call[w].verdict>>)]
    /\ Goto(w, Idle)
    /\ UNCHANGED <<now, enabled, rowVars, certVars, jobVars>>

(***************************************************************************)
(* generateSshCredentials: check the row and compute the time that         *)
(* remains; make a key pair, look up the CA and sign for that long; create *)
(* the certificate row; link it to the request (overwriting the link to a  *)
(* certificate issued earlier).  The answer, with the signed certificate   *)
(* in it, leaves the process after the last step only.                     *)
(***************************************************************************)
\* Mutant: credentials are handed out for a request that is about to end.
AnyTimeLeft(r) == TRUE

EnoughTimeLeft(r) ==
    expiresAt[r] > now /\ expiresAt[r] - now >= MinRemaining

CredentialsRead(w, r) ==
    /\ At(w, "idle")
    /\ requester[r] \in enabled
    /\ status[r] = "APPROVED"
    /\ EnoughTimeLeft(r)
    /\ Goto(w, [at |-> "sign", req |-> r,
                start |-> now, remaining |-> expiresAt[r] - now])
    /\ UNCHANGED <<now, enabled, rowVars, certVars, decisions, jobVars>>

\* Mutant: the row, too, counts from the moment of the signature.
ValidFromSignature(cr) == now + cr.remaining

\* The row's validBefore is counted from the moment the request was read.
ValidUntil(cr) == cr.start + cr.remaining

\* ssh-keygen -V +<remaining>s: the key's life runs from the signature.
Sign(w) ==
    /\ At(w, "sign")
    /\ Goto(w, [at |-> "createCert", req |-> call[w].req,
                until |-> ValidUntil(call[w]),
                signed |-> now + call[w].remaining])
    /\ UNCHANGED <<now, enabled, rowVars, certVars, decisions, jobVars>>

CreateCert(w, c) ==
    /\ At(w, "createCert")
    /\ certStatus[c] = "NONE"
    /\ certStatus' = [certStatus EXCEPT ![c] = "ACTIVE"]
    /\ certRequest' = [certRequest EXCEPT ![c] = call[w].req]
    /\ validBefore' = [validBefore EXCEPT ![c] = call[w].until]
    /\ signedUntil' = [signedUntil EXCEPT ![c] = call[w].signed]
    /\ Goto(w, [at |-> "linkCert", req |-> call[w].req, cert |-> c])
    /\ UNCHANGED <<now, enabled, rowVars, decisions, jobVars>>

LinkCert(w) ==
    /\ At(w, "linkCert")
    /\ certificate' = [certificate EXCEPT ![call[w].req] = call[w].cert]
    /\ Goto(w, Idle)
    /\ UNCHANGED <<now, enabled, status, requester, reviewer, approvers,
                   createdAt, expiresAt, certVars, decisions, jobVars>>

\* ssh-keygen, the CA or the insert fails: it throws, nothing was written.
SignFails(w) ==
    /\ At(w, "sign") \/ At(w, "createCert")
    /\ Goto(w, Idle)
    /\ UNCHANGED <<now, enabled, rowVars, certVars, decisions, jobVars>>

(***************************************************************************)
(* revoke: read the row, write REVOKED whatever the status has become,     *)
(* revoke the certificate that the row named when it was read.             *)
(***************************************************************************)
RevokeRead(w, r) ==
    /\ At(w, "idle")
    /\ status[r] \notin {"NONE", "REVOKED"}
    /\ Goto(w, [at |-> "writeRevoked", req |-> r, cert |-> certificate[r]])
    /\ UNCHANGED <<now, enabled, rowVars, certVars, decisions, jobVars>>

RevokeWrite(w) ==
    /\ At(w, "writeRevoked")
    /\ status' = [status EXCEPT ![call[w].req] = "REVOKED"]
    /\ Goto(w, [call[w] EXCEPT !.at = "revokeCert"])
    /\ UNCHANGED <<now, enabled, requester, reviewer, approvers,
                   createdAt, expiresAt, certificate, certVars, decisions,
                   jobVars>>

\* caService.revokeCertificate; "already revoked" and "not found" are ignored.
CertRevoked(c) ==
    [x \in Certs |-> IF x = c /\ certStatus[x] # "NONE"
                     THEN "REVOKED" ELSE certStatus[x]]

RevokeCertOf(w) ==
    /\ At(w, "revokeCert")
    /\ certStatus' = CertRevoked(call[w].cert)
    /\ Goto(w, Idle)
    /\ UNCHANGED <<now, enabled, rowVars, certRequest, validBefore, signedUntil,
                   decisions, jobVars>>

(***************************************************************************)
(* certificateService: an administrator revokes one certificate; the       *)
(* certExpiry job retires every certificate that has run out.              *)
(***************************************************************************)
AdminRevokeCert(c) ==
    /\ certStatus[c] \in {"ACTIVE", "EXPIRED"}
    /\ certStatus' = CertRevoked(c)
    /\ UNCHANGED <<now, enabled, rowVars, certRequest, validBefore, signedUntil,
                   decisions, call, jobVars>>

MarkCertsExpired ==
    /\ certStatus' = [c \in Certs |->
                        IF certStatus[c] = "ACTIVE" /\ validBefore[c] < now
                        THEN "EXPIRED" ELSE certStatus[c]]
    /\ certStatus' # certStatus
    /\ UNCHANGED <<now, enabled, rowVars, certRequest, validBefore, signedUntil,
                   decisions, call, jobVars>>

(***************************************************************************)
(* markExpired, the job that runs every minute with concurrency 1: find    *)
(* the rows, then for each one write EXPIRED and revoke the certificate    *)
(* the row named when it was found.                                        *)
(***************************************************************************)
\* Mutant: only requests that have a certificate are looked for.
DueWithCert(r) == /\ status[r] = "APPROVED" /\ expiresAt[r] < now
                  /\ certificate[r] # NoCert

DueForExpiry(r) == status[r] = "APPROVED" /\ expiresAt[r] < now

ExpireFind ==
    /\ expireTodo = {} /\ expireNow = NoRequest
    /\ expireTodo' = {r \in Requests : DueForExpiry(r)}
    /\ expireTodo' # {}
    /\ expireCert' = [r \in Requests |->
                        IF r \in expireTodo' THEN certificate[r] ELSE NoCert]
    /\ UNCHANGED <<now, enabled, rowVars, certVars, decisions, call, expireNow,
                   pendingTodo>>

ExpireWrite(r) ==
    /\ r \in expireTodo /\ expireNow = NoRequest
    /\ status' = [status EXCEPT ![r] = "EXPIRED"]
    /\ expireTodo' = expireTodo \ {r}
    /\ expireNow' = r
    /\ UNCHANGED <<now, enabled, requester, reviewer, approvers,
                   createdAt, expiresAt, certificate, certVars, decisions,
                   call, expireCert, pendingTodo>>

ExpireRevokeCert ==
    /\ expireNow # NoRequest
    /\ certStatus' = CertRevoked(expireCert[expireNow])
    /\ expireCert' = [expireCert EXCEPT ![expireNow] = NoCert]
    /\ expireNow' = NoRequest
    /\ UNCHANGED <<now, enabled, rowVars, certRequest, validBefore, signedUntil,
                   decisions, call, expireTodo, pendingTodo>>

(***************************************************************************)
(* markPendingExpired, the job that runs every five minutes.               *)
(***************************************************************************)
PendingFind ==
    /\ pendingTodo = {}
    /\ pendingTodo' = {r \in Requests : status[r] = "PENDING"
                                        /\ createdAt[r] + PendingTTL < now}
    /\ pendingTodo' # {}
    /\ UNCHANGED <<now, enabled, rowVars, certVars, decisions, call,
                   expireTodo, expireCert, expireNow>>

PendingWrite(r) ==
    /\ r \in pendingTodo
    /\ status' = [status EXCEPT ![r] = "EXPIRED"]
    /\ pendingTodo' = pendingTodo \ {r}
    /\ UNCHANGED <<now, enabled, requester, reviewer, approvers,
                   createdAt, expiresAt, certificate, certVars, decisions,
                   call, expireTodo, expireCert, expireNow>>

(***************************************************************************)
(* userService: disabling an account.  updateUser marks the account first  *)
(* and then runs revokeAllAccessFor; softDeleteSelf runs the cascade first *)
(* and marks the account last.  The cascade's two updateMany run in        *)
(* parallel, so they commit in either order.                               *)
(***************************************************************************)
DisableStart(w, u, order) ==
    /\ At(w, "idle")
    /\ u \in enabled
    /\ Goto(w, [at |-> "disable", user |-> u, order |-> order,
                left |-> Cascade])
    /\ UNCHANGED <<now, enabled, rowVars, certVars, decisions, jobVars>>

Done(w, step) ==
    Goto(w, IF call[w].left = {step} THEN Idle
            ELSE [call[w] EXCEPT !.left = @ \ {step}])

DisableMark(w) ==
    /\ At(w, "disable") /\ "mark" \in call[w].left
    /\ call[w].order = "delete" => call[w].left = {"mark"}
    /\ enabled' = enabled \ {call[w].user}
    /\ Done(w, "mark")
    /\ UNCHANGED <<now, rowVars, certVars, decisions, jobVars>>

CascadeMayRun(w, step) ==
    /\ At(w, "disable") /\ step \in call[w].left
    /\ call[w].order = "suspend" => "mark" \notin call[w].left

DisableRevokeRequests(w) ==
    /\ CascadeMayRun(w, "requests")
    /\ status' = [r \in Requests |->
                    IF requester[r] = call[w].user /\ status[r] \in Live
                    THEN "REVOKED" ELSE status[r]]
    /\ Done(w, "requests")
    /\ UNCHANGED <<now, enabled, requester, reviewer, approvers,
                   createdAt, expiresAt, certificate, certVars, decisions,
                   jobVars>>

Owner(c) == IF certRequest[c] \in Requests THEN requester[certRequest[c]]
            ELSE NoUser

DisableRevokeCerts(w) ==
    /\ CascadeMayRun(w, "certs")
    /\ certStatus' = [c \in Certs |->
                        IF certStatus[c] = "ACTIVE" /\ Owner(c) = call[w].user
                        THEN "REVOKED" ELSE certStatus[c]]
    /\ Done(w, "certs")
    /\ UNCHANGED <<now, enabled, rowVars, certRequest, validBefore, signedUntil,
                   decisions, jobVars>>

(***************************************************************************)
(* The environment: time passes, and the backend process may be restarted, *)
(* which drops every handler and job run in flight between two statements. *)
(***************************************************************************)
Tick ==
    /\ now < MaxTime
    /\ now' = now + 1
    /\ UNCHANGED <<enabled, rowVars, certVars, decisions, call, jobVars>>

Restart ==
    /\ \/ \E w \in Workers : ~At(w, "idle")
       \/ expireTodo # {} \/ expireNow # NoRequest \/ pendingTodo # {}
    /\ call' = [w \in Workers |-> Idle]
    /\ expireTodo' = {} /\ expireNow' = NoRequest /\ pendingTodo' = {}
    /\ expireCert' = [r \in Requests |-> NoCert]
    /\ UNCHANGED <<now, enabled, rowVars, certVars, decisions>>

-----------------------------------------------------------------------------
Submit(w) ==
    \/ \E u \in Users :
          \/ SubmitForApproval(w, u)
          \/ \E d \in Durations, max \in PolicyMaxes :
                SubmitAllowed(w, u, d, max)
    \/ \E r \in Requests : CreatePending(w, r) \/ CreateApproved(w, r)

Review(w) ==
    \/ \E r \in Requests, u \in Users :
          \/ ReviewRead(w, r, u, "deny", 0)
          \/ \E d \in Durations : ReviewRead(w, r, u, "approve", d)
    \/ ReviewCheckApprover(w)
    \/ \E max \in PolicyMaxes : ReviewClaim(w, max)
    \/ ReviewLost(w)
    \/ ReviewAudit(w)

GenerateSshCredentials(w) ==
    \/ \E r \in Requests : CredentialsRead(w, r)
    \/ Sign(w)
    \/ \E c \in Certs : CreateCert(w, c)
    \/ LinkCert(w)
    \/ SignFails(w)

Revoke(w) ==
    \/ \E r \in Requests : RevokeRead(w, r)
    \/ RevokeWrite(w)
    \/ RevokeCertOf(w)

MarkExpired == ExpireFind \/ (\E r \in Requests : ExpireWrite(r))
               \/ ExpireRevokeCert

MarkPendingExpired == PendingFind \/ (\E r \in Requests : PendingWrite(r))

Disable(w) ==
    \/ \E u \in Users, order \in {"suspend", "delete"} :
          DisableStart(w, u, order)
    \/ DisableMark(w)
    \/ DisableRevokeRequests(w)
    \/ DisableRevokeCerts(w)

Next ==
    \/ \E w \in Workers :
          Submit(w) \/ Review(w) \/ GenerateSshCredentials(w) \/ Revoke(w)
             \/ Disable(w)
    \/ \E c \in Certs : AdminRevokeCert(c)
    \/ MarkCertsExpired
    \/ MarkExpired
    \/ MarkPendingExpired
    \/ Tick
    \/ Restart

Spec == Init /\ [][Next]_vars

(***************************************************************************)
(* Fairness: the event loop runs a handler that waits for the database     *)
(* again, BullMQ repeats both sweeps and the certificate job, and restarts *)
(* do not hit every single run of a sweep (the strong fairness).           *)
(***************************************************************************)
Finishes(w) ==
    \/ ReviewCheckApprover(w) \/ ReviewLost(w) \/ ReviewAudit(w)
    \/ \E max \in PolicyMaxes : ReviewClaim(w, max)
    \/ SignFails(w) \/ LinkCert(w)
    \/ RevokeWrite(w) \/ RevokeCertOf(w)
    \/ DisableMark(w) \/ DisableRevokeRequests(w) \/ DisableRevokeCerts(w)

Fairness ==
    /\ WF_vars(Tick)
    /\ \A w \in Workers : WF_vars(Finishes(w))
    /\ WF_vars(MarkExpired)
    /\ \A r \in Requests : SF_vars(ExpireWrite(r))
    /\ WF_vars(MarkPendingExpired)
    /\ WF_vars(MarkCertsExpired)

FairSpec == Spec /\ Fairness

-----------------------------------------------------------------------------
(***************************************************************************)
(* certificateService.verify, the question sshd's check-principals asks on *)
(* the host.  With a per-host agent token (perHost) the access request     *)
(* that names the certificate is looked up as well; when that look-up      *)
(* throws (lookupFails) the answer stands without it.  ownerChecked is     *)
(* config.certificates.checkUserStatus.                                    *)
(***************************************************************************)
Verifies(c, perHost, lookupFails, ownerChecked) ==
    /\ certStatus[c] = "ACTIVE"
    /\ ownerChecked => Owner(c) \in enabled
    /\ validBefore[c] > now
    /\ perHost /\ ~lookupFails =>
          \A r \in Requests : certificate[r] = c =>
             status[r] = "APPROVED" /\ expiresAt[r] > now

(***************************************************************************)
(* "Exactly one writer wins": however many approvers decide at once, a     *)
(* request gets at most one access_request.approved / .denied audit row.   *)
(***************************************************************************)
OneDecision == \A r \in Requests : Len(decisions[r]) <= 1

(***************************************************************************)
(* The decision on record was taken by a member of the approver set that   *)
(* submit resolved, never by the requester, and it is the decision the row *)
(* carries: the row names that reviewer, and a denied request was never    *)
(* granted an expiry time.                                                 *)
(***************************************************************************)
DecisionOnRecord ==
    \A r \in Requests : \A i \in 1..Len(decisions[r]) :
        /\ decisions[r][i][1] \in approvers[r] \ {requester[r]}
        /\ decisions[r][i][1] = reviewer[r]
        /\ decisions[r][i][2] = "approve" <=> expiresAt[r] > 0

(***************************************************************************)
(* A certificate exists only for a request that was approved, and what     *)
(* verify answers by, its row, never outlives the grant, whatever happened *)
(* to the request between generateSshCredentials' read and its writes: a   *)
(* host that asks lets nobody in after the grant, for as long as the key   *)
(* itself may last.  Nor does the row promise more life than was signed.   *)
(***************************************************************************)
CertWithinGrant ==
    \A c \in Certs : certStatus[c] # "NONE" =>
        /\ status[certRequest[c]] \in {"APPROVED", "EXPIRED", "REVOKED"}
        /\ validBefore[c] <= expiresAt[certRequest[c]]
        /\ validBefore[c] <= signedUntil[c]

(***************************************************************************)
(* docs/rbac/access-policies.md: the certificate's TTL equals the          *)
(* request's remaining time.  That would bound the life in the key itself, *)
(* which is all that a host without check-principals goes by.  It holds if *)
(* no time passes between the read of the request and the signature.       *)
(***************************************************************************)
SignedWithinGrant ==
    \A c \in Certs : certStatus[c] # "NONE" =>
        signedUntil[c] <= expiresAt[certRequest[c]]

SigningTakesNoTime ==
    [][\A w \in Workers : At(w, "sign") => now' = now]_vars

(***************************************************************************)
(* A request that was denied, revoked or expired never comes back: no step *)
(* of any handler makes it PENDING or APPROVED again.                      *)
(***************************************************************************)
FinalStaysFinal ==
    [][\A r \in Requests : status[r] \in Final => status'[r] \in Final]_vars

(***************************************************************************)
(* An approval is granted once: while a request is APPROVED no step gives  *)
(* it another expiry time, reviewer or approver set.                       *)
(***************************************************************************)
GrantFixed ==
    [][\A r \in Requests : status[r] \in Final \cup {"APPROVED"} =>
          /\ expiresAt'[r] = expiresAt[r]
          /\ reviewer'[r] = reviewer[r]
          /\ approvers'[r] = approvers[r]]_vars

(***************************************************************************)
(* The whole lifecycle, with its handlers, sweeps, cascade and restarts,   *)
(* implements Grants: asked once, granted once, over for good, no key      *)
(* without a grant and none that is honoured beyond its end.               *)
(***************************************************************************)
Stage(r) ==
    CASE status[r] = "NONE" -> "new"
      [] status[r] = "PENDING" -> "asked"
      [] status[r] = "APPROVED" -> "granted"
      [] OTHER -> "over"

Promise == INSTANCE Grants WITH
    Keys <- Certs, Nobody <- NoRequest,
    stage <- [r \in Requests |-> Stage(r)],
    until <- expiresAt, holder <- certRequest, honoured <- validBefore,
    lasts <- signedUntil,
    dead <- {c \in Certs : certStatus[c] \in {"REVOKED", "EXPIRED"}}

ImplementsGrants == Promise!Spec

(***************************************************************************)
(* A grant that has run out is taken back: every request left APPROVED     *)
(* past expiresAt leaves that status.                                      *)
(***************************************************************************)
ExpiryIsSwept ==
    \A r \in Requests :
        (status[r] = "APPROVED" /\ now > expiresAt[r])
            ~> status[r] # "APPROVED"

(***************************************************************************)
(* docs/rbac/access-policies.md: on the host a certificate is rejected     *)
(* once its request is no longer APPROVED (per-host-token mode).  Stated   *)
(* for a moment at which no handler or sweep is under way, and for a       *)
(* look-up of the request that does not throw.                             *)
(***************************************************************************)
Quiet == /\ \A w \in Workers : At(w, "idle")
         /\ expireTodo = {} /\ expireNow = NoRequest /\ pendingTodo = {}

RejectedOnceNotApproved ==
    Quiet => \A c \in Certs, ownerChecked \in BOOLEAN :
                Verifies(c, TRUE, FALSE, ownerChecked)
                    => status[certRequest[c]] = "APPROVED"

(***************************************************************************)
(* What it takes for that sentence to hold: a request is issued one        *)
(* certificate at most, and the process does not stop between the          *)
(* statement that creates a certificate and the one that links it.         *)
(***************************************************************************)
OneCertPerRequest ==
    \A c, d \in Certs :
        /\ certStatus[c] # "NONE" /\ certStatus[d] # "NONE"
        /\ certRequest[c] = certRequest[d]
        => c = d

EveryCertIsLinked == [][\A w \in Workers : At(w, "linkCert") => ~Restart]_vars

(***************************************************************************)
(* docs/rbac/access-policies.md: an APPROVED request becomes EXPIRED at    *)
(* expiresAt, not before.                                                  *)
(***************************************************************************)
ApprovedUntilExpiry ==
    [][\A r \in Requests :
          status[r] = "APPROVED" /\ status'[r] = "EXPIRED"
              => expiresAt[r] <= now]_vars

(***************************************************************************)
(* markExpired's contract: the rows it turns to EXPIRED are APPROVED ones; *)
(* in particular a revocation is not rewritten into an expiry.             *)
(***************************************************************************)
SweepTakesApproved ==
    [][\A r \in Requests : ExpireWrite(r) => status[r] = "APPROVED"]_vars

(***************************************************************************)
(* What the two sweeps rely on, and the code does not ensure: nobody       *)
(* grants a request that the sweep of pending requests has found and not   *)
(* yet reached; nobody revokes a request that markExpired has found and    *)
(* not yet reached, by hand or with its requester's account.               *)
(***************************************************************************)
NoGrantOfSwept ==
    \A w \in Workers :
        At(w, "claim") /\ call[w].verdict = "approve"
            => call[w].req \notin pendingTodo

NoRevocationOfSwept ==
    \A r \in expireTodo, w \in Workers :
        /\ At(w, "writeRevoked") => call[w].req # r
        /\ At(w, "disable") /\ "requests" \in call[w].left
              => call[w].user # requester[r]
=============================================================================
