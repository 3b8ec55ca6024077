----------------------- MODULE AccessRequests_proofs ------------------------
(***************************************************************************)
(* Proofs about AccessRequests: type correctness, that a final request     *)
(* stays final, that no certificate outlives its grant, that a request is  *)
(* decided at most once and as its audit row says, and that the whole      *)
(* lifecycle implements Grants.  At the end, what the sweeps and the       *)
(* rejection of a revoked certificate rely on.                             *)
(***************************************************************************)
EXTENDS AccessRequests, TLAPS

(***************************************************************************)
(* Where a handler is tells what it holds: the value of `at` picks one of  *)
(* the record sets that make up Calls.                                     *)
(***************************************************************************)
LEMMA CallKinds ==
    ASSUME NEW cr \in Calls
    PROVE  /\ cr.at = "createPending" =>
                cr \in [at : {"createPending"}, by : Users,
                        team : (SUBSET Users) \ {{}}, primary : Users]
           /\ cr.at = "createApproved" =>
                cr \in [at : {"createApproved"}, by : Users, until : Nat]
           /\ cr.at \in {"checkApprover", "claim", "auditDecision"} =>
                cr \in ReviewCalls
           /\ cr.at = "sign" =>
                cr \in [at : {"sign"}, req : Requests, start : Nat,
                        remaining : Nat]
           /\ cr.at = "createCert" =>
                cr \in [at : {"createCert"}, req : Requests, until : Nat,
                        signed : Nat]
           /\ cr.at = "linkCert" => cr \in LinkCalls
           /\ cr.at \in {"writeRevoked", "revokeCert"} => cr \in RevokeCalls
           /\ cr.at = "disable" => cr \in DisableCalls
  BY DEF Calls, Idle, SubmitCalls, ReviewCalls, CredentialCalls, LinkCalls,
         RevokeCalls, DisableCalls

(***************************************************************************)
(* Setting the state of one handler to a legal one keeps all of them legal *)
(* and leaves the others where they were.                                  *)
(***************************************************************************)
LEMMA GotoType ==
    ASSUME call \in [Workers -> Calls], NEW w \in Workers, NEW cr \in Calls,
           Goto(w, cr)
    PROVE  /\ call' \in [Workers -> Calls]
           /\ call'[w] = cr
           /\ \A x \in Workers : x # w => call'[x] = call[x]
  BY DEF Goto

(***************************************************************************)
(* A handler that ends is in a legal state.                                *)
(***************************************************************************)
LEMMA IdleIsCall == Idle \in Calls
  BY DEF Calls

(***************************************************************************)
(* A duration, clamped to a policy maximum, is still a natural number.     *)
(***************************************************************************)
LEMMA ClampNat ==
    ASSUME NEW d \in Nat, NEW max \in Nat PROVE Clamp(d, max) \in Nat
  BY DEF Clamp

-----------------------------------------------------------------------------
(***************************************************************************)
(* TypeOK is preserved by every step of a handler.                         *)
(***************************************************************************)
LEMMA SubmitType ==
    ASSUME TypeOK, NEW w \in Workers, Submit(w) PROVE TypeOK'
<1> USE DEF TypeOK, rowVars, certVars, jobVars
<1>1. ASSUME NEW u \in Users, SubmitForApproval(w, u) PROVE TypeOK'
  <2>1. PICK team \in ResolveApprovers(u) : \E primary \in team :
           Goto(w, [at |-> "createPending", by |-> u,
                    team |-> team, primary |-> primary])
    BY <1>1 DEF SubmitForApproval
  <2>2. PICK primary \in team :
           Goto(w, [at |-> "createPending", by |-> u,
                    team |-> team, primary |-> primary])
    BY <2>1
  <2>3. [at |-> "createPending", by |-> u, team |-> team, primary |-> primary]
           \in Calls
    BY DEF Calls, SubmitCalls, ResolveApprovers
  <2>4. call' \in [Workers -> Calls]
    BY <2>2, <2>3, GotoType
  <2> QED
    BY <1>1, <2>4 DEF SubmitForApproval
<1>2. ASSUME NEW u \in Users, NEW d \in Durations, NEW max \in PolicyMaxes,
             SubmitAllowed(w, u, d, max)
      PROVE  TypeOK'
  <2>1. now + Clamp(d, max) \in Nat
    <3>1. d \in Nat /\ max \in Nat
      BY ConstantsAssumption
    <3>2. Clamp(d, max) \in Nat
      BY <3>1, ClampNat
    <3> QED
      BY <3>2
  <2>2. [at |-> "createApproved", by |-> u, until |-> now + Clamp(d, max)]
           \in Calls
    BY <2>1 DEF Calls, SubmitCalls
  <2>3. call' \in [Workers -> Calls]
    BY <1>2, <2>2, GotoType DEF SubmitAllowed
  <2> QED
    BY <1>2, <2>3 DEF SubmitAllowed
<1>3. ASSUME NEW r \in Requests, CreatePending(w, r) PROVE TypeOK'
  <2>1. call[w] \in [at : {"createPending"}, by : Users,
                     team : (SUBSET Users) \ {{}}, primary : Users]
    BY <1>3, CallKinds DEF CreatePending, At
  <2>2. call' \in [Workers -> Calls]
    BY <1>3, IdleIsCall, GotoType DEF CreatePending
  <2> QED
    BY <1>3, <2>1, <2>2 DEF CreatePending, Statuses, Live
<1>4. ASSUME NEW r \in Requests, CreateApproved(w, r) PROVE TypeOK'
  <2>1. call[w] \in [at : {"createApproved"}, by : Users, until : Nat]
    BY <1>4, CallKinds DEF CreateApproved, At
  <2>2. call' \in [Workers -> Calls]
    BY <1>4, IdleIsCall, GotoType DEF CreateApproved
  <2> QED
    BY <1>4, <2>1, <2>2 DEF CreateApproved, Statuses, Live
<1> QED
  BY <1>1, <1>2, <1>3, <1>4 DEF Submit

(***************************************************************************)
(* review keeps TypeOK: the copy of the row it holds is one of the legal   *)
(* ones at every stage, and the expiry time it writes is a number.         *)
(***************************************************************************)
LEMMA ReviewType ==
    ASSUME TypeOK, NEW w \in Workers, Review(w) PROVE TypeOK'
<1> USE DEF TypeOK, rowVars, certVars, jobVars
<1>1. ASSUME NEW r \in Requests, NEW u \in Users, NEW verdict \in Verdicts,
             NEW d \in Durations \cup {0}, ReviewRead(w, r, u, verdict, d)
      PROVE  TypeOK'
  <2>1. [at |-> "checkApprover", req |-> r, by |-> u, verdict |-> verdict,
         dur |-> d, start |-> 0] \in Calls
    BY ConstantsAssumption DEF Calls, ReviewCalls
  <2>2. call' \in [Workers -> Calls]
    BY <1>1, <2>1, GotoType DEF ReviewRead
  <2> QED
    BY <1>1, <2>2 DEF ReviewRead
<1>2. CASE ReviewCheckApprover(w)
  <2>1. call[w] \in ReviewCalls
    BY <1>2, CallKinds DEF ReviewCheckApprover, At
  <2>2. [call[w] EXCEPT !.at = "claim", !.start = now] \in Calls
    BY <2>1 DEF Calls, ReviewCalls
  <2>3. call' \in [Workers -> Calls]
    BY <1>2, <2>2, IdleIsCall, GotoType DEF ReviewCheckApprover
  <2> QED
    BY <1>2, <2>3 DEF ReviewCheckApprover
<1>3. ASSUME NEW max \in PolicyMaxes, ReviewClaim(w, max) PROVE TypeOK'
  <2>1. call[w] \in ReviewCalls
    BY <1>3, CallKinds DEF ReviewClaim, At
  <2>2. call[w].start + Clamp(call[w].dur, max) \in Nat
    <3>1. call[w].start \in Nat /\ call[w].dur \in Nat /\ max \in Nat
      BY <2>1, ConstantsAssumption DEF ReviewCalls
    <3>2. Clamp(call[w].dur, max) \in Nat
      BY <3>1, ClampNat
    <3> QED
      BY <3>1, <3>2
  <2>3. [call[w] EXCEPT !.at = "auditDecision"] \in Calls
    BY <2>1 DEF Calls, ReviewCalls
  <2>4. call' \in [Workers -> Calls]
    BY <1>3, <2>3, GotoType DEF ReviewClaim
  <2>5. reviewer' \in [Requests -> Users \cup {NoUser}]
    BY <1>3, <2>1 DEF ReviewClaim, ReviewCalls
  <2>6. status' \in [Requests -> Statuses]
    BY <1>3, <2>1 DEF ReviewClaim, ReviewCalls, Statuses, Live, Final
  <2>7. expiresAt' \in [Requests -> Nat]
    BY <1>3, <2>1, <2>2 DEF ReviewClaim, ReviewCalls
  <2> QED
    BY <1>3, <2>4, <2>5, <2>6, <2>7 DEF ReviewClaim
<1>4. CASE ReviewLost(w)
  BY <1>4, IdleIsCall, GotoType DEF ReviewLost
<1>5. CASE ReviewAudit(w)
  <2>1. call[w] \in ReviewCalls
    BY <1>5, CallKinds DEF ReviewAudit, At
  <2>2. <<call[w].by, call[w].verdict>> \in Users \X Verdicts
    BY <2>1 DEF ReviewCalls
  <2>3. Append(decisions[call[w].req], <<call[w].by, call[w].verdict>>)
           \in Seq(Users \X Verdicts)
    BY <2>1, <2>2 DEF ReviewCalls
  <2>4. decisions' \in [Requests -> Seq(Users \X Verdicts)]
    BY <1>5, <2>3 DEF ReviewAudit
  <2>5. call' \in [Workers -> Calls]
    BY <1>5, IdleIsCall, GotoType DEF ReviewAudit
  <2> QED
    BY <1>5, <2>4, <2>5 DEF ReviewAudit
<1> QED
  BY <1>1, <1>2, <1>3, <1>4, <1>5 DEF Review, Verdicts

(***************************************************************************)
(* generateSshCredentials keeps TypeOK; the remaining time is a number     *)
(* because the row was read before its expiry.                             *)
(***************************************************************************)
LEMMA CredentialsType ==
    ASSUME TypeOK, NEW w \in Workers, GenerateSshCredentials(w) PROVE TypeOK'
<1> USE DEF TypeOK, rowVars, certVars, jobVars
<1>1. ASSUME NEW r \in Requests, CredentialsRead(w, r) PROVE TypeOK'
  <2>1. expiresAt[r] - now \in Nat
    BY <1>1 DEF CredentialsRead, EnoughTimeLeft
  <2>2. [at |-> "sign", req |-> r, start |-> now,
         remaining |-> expiresAt[r] - now] \in Calls
    BY <2>1 DEF Calls, CredentialCalls
  <2>3. call' \in [Workers -> Calls]
    BY <1>1, <2>2, GotoType DEF CredentialsRead
  <2> QED
    BY <1>1, <2>3 DEF CredentialsRead
<1>2. ASSUME NEW c \in Certs, CreateCert(w, c) PROVE TypeOK'
  <2>1. /\ call[w].req \in Requests
        /\ call[w].until \in Nat /\ call[w].signed \in Nat
    BY <1>2, CallKinds DEF CreateCert, At
  <2>2. [at |-> "linkCert", req |-> call[w].req, cert |-> c] \in Calls
    BY <2>1 DEF Calls, LinkCalls
  <2>3. call' \in [Workers -> Calls]
    BY <1>2, <2>2, GotoType DEF CreateCert
  <2> QED
    BY <1>2, <2>1, <2>3 DEF CreateCert, CertStatuses
<1>3. CASE LinkCert(w)
  <2>1. call[w] \in LinkCalls
    BY <1>3, CallKinds DEF LinkCert, At
  <2>2. call' \in [Workers -> Calls]
    BY <1>3, IdleIsCall, GotoType DEF LinkCert
  <2>3. certificate' \in [Requests -> Certs \cup {NoCert}]
    BY <1>3, <2>1 DEF LinkCert, LinkCalls
  <2> QED
    BY <1>3, <2>2, <2>3 DEF LinkCert
<1>4. CASE SignFails(w)
  BY <1>4, IdleIsCall, GotoType DEF SignFails
<1>5. CASE Sign(w)
  <2>1. call[w] \in [at : {"sign"}, req : Requests, start : Nat,
                     remaining : Nat]
    BY <1>5, CallKinds DEF Sign, At
  <2>2. [at |-> "createCert", req |-> call[w].req,
         until |-> ValidUntil(call[w]),
         signed |-> now + call[w].remaining] \in Calls
    BY <2>1 DEF Calls, CredentialCalls, ValidUntil
  <2> QED
    BY <1>5, <2>2, GotoType DEF Sign
<1> QED
  BY <1>1, <1>2, <1>3, <1>4, <1>5 DEF GenerateSshCredentials

(***************************************************************************)
(* revoke keeps TypeOK.                                                    *)
(***************************************************************************)
LEMMA RevokeType ==
    ASSUME TypeOK, NEW w \in Workers, Revoke(w) PROVE TypeOK'
<1> USE DEF TypeOK, rowVars, certVars, jobVars
<1>1. ASSUME NEW r \in Requests, RevokeRead(w, r) PROVE TypeOK'
  <2>1. [at |-> "writeRevoked", req |-> r, cert |-> certificate[r]] \in Calls
    BY DEF Calls, RevokeCalls
  <2>2. call' \in [Workers -> Calls]
    BY <1>1, <2>1, GotoType DEF RevokeRead
  <2> QED
    BY <1>1, <2>2 DEF RevokeRead
<1>2. CASE RevokeWrite(w)
  <2>1. call[w] \in RevokeCalls
    BY <1>2, CallKinds DEF RevokeWrite, At
  <2>2. [call[w] EXCEPT !.at = "revokeCert"] \in Calls
    BY <2>1 DEF Calls, RevokeCalls
  <2>3. call' \in [Workers -> Calls]
    BY <1>2, <2>2, GotoType DEF RevokeWrite
  <2>4. status' \in [Requests -> Statuses]
    BY <1>2 DEF RevokeWrite, Statuses, Final
  <2> QED
    BY <1>2, <2>3, <2>4 DEF RevokeWrite
<1>3. CASE RevokeCertOf(w)
  <2>1. call' \in [Workers -> Calls]
    BY <1>3, IdleIsCall, GotoType DEF RevokeCertOf
  <2> QED
    BY <1>3, <2>1 DEF RevokeCertOf, CertRevoked, CertStatuses
<1> QED
  BY <1>1, <1>2, <1>3 DEF Revoke

(***************************************************************************)
(* A disabling handler that finishes one part of its cascade either goes   *)
(* on with a smaller one or ends.                                          *)
(***************************************************************************)
LEMMA DoneType ==
    ASSUME TypeOK, NEW w \in Workers, At(w, "disable"), NEW step, Done(w, step)
    PROVE  call' \in [Workers -> Calls]
<1>1. call[w] \in DisableCalls
  BY CallKinds DEF At, TypeOK
<1>2. [call[w] EXCEPT !.left = @ \ {step}] \in Calls
  BY <1>1 DEF Calls, DisableCalls
<1> QED
  BY <1>2, IdleIsCall, GotoType DEF Done, TypeOK

(***************************************************************************)
(* Disabling an account (updateUser, softDeleteSelf) keeps TypeOK.         *)
(***************************************************************************)
LEMMA DisableType ==
    ASSUME TypeOK, NEW w \in Workers, Disable(w) PROVE TypeOK'
<1> USE DEF TypeOK, rowVars, certVars, jobVars
<1>1. ASSUME NEW u \in Users, NEW order \in {"suspend", "delete"},
             DisableStart(w, u, order)
      PROVE  TypeOK'
  <2>1. [at |-> "disable", user |-> u, order |-> order, left |-> Cascade]
           \in Calls
    BY DEF Calls, DisableCalls
  <2>2. call' \in [Workers -> Calls]
    BY <1>1, <2>1, GotoType DEF DisableStart
  <2> QED
    BY <1>1, <2>2 DEF DisableStart
<1>2. CASE DisableMark(w)
  <2>1. call' \in [Workers -> Calls]
    BY <1>2, DoneType DEF DisableMark
  <2> QED
    BY <1>2, <2>1 DEF DisableMark
<1>3. CASE DisableRevokeRequests(w)
  <2>1. call' \in [Workers -> Calls]
    BY <1>3, DoneType DEF DisableRevokeRequests, CascadeMayRun
  <2> QED
    BY <1>3, <2>1 DEF DisableRevokeRequests, Statuses, Final
<1>4. CASE DisableRevokeCerts(w)
  <2>1. call' \in [Workers -> Calls]
    BY <1>4, DoneType DEF DisableRevokeCerts, CascadeMayRun
  <2> QED
    BY <1>4, <2>1 DEF DisableRevokeCerts, CertStatuses
<1> QED
  BY <1>1, <1>2, <1>3, <1>4 DEF Disable

(***************************************************************************)
(* TypeOK is preserved by the jobs, by the administrator and by the        *)
(* environment, and so by every step.                                      *)
(***************************************************************************)
LEMMA TypeStep ==
    ASSUME TypeOK, [Next]_vars PROVE TypeOK'
<1>1. ASSUME NEW w \in Workers,
             Submit(w) \/ Review(w) \/ GenerateSshCredentials(w) \/ Revoke(w)
               \/ Disable(w)
      PROVE  TypeOK'
  BY <1>1, SubmitType, ReviewType, CredentialsType, RevokeType, DisableType
<1> USE DEF TypeOK, rowVars, certVars, jobVars
<1>2. ASSUME NEW c \in Certs, AdminRevokeCert(c) PROVE TypeOK'
  BY <1>2 DEF AdminRevokeCert, CertRevoked, CertStatuses
<1>3. CASE MarkCertsExpired
  BY <1>3 DEF MarkCertsExpired, CertStatuses
<1>4. CASE MarkExpired
  <2>1. CASE ExpireFind
    BY <2>1 DEF ExpireFind
  <2>2. ASSUME NEW r \in Requests, ExpireWrite(r) PROVE TypeOK'
    BY <2>2 DEF ExpireWrite, Statuses, Final
  <2>3. CASE ExpireRevokeCert
    BY <2>3 DEF ExpireRevokeCert, CertRevoked, CertStatuses
  <2> QED
    BY <1>4, <2>1, <2>2, <2>3 DEF MarkExpired
<1>5. CASE MarkPendingExpired
  <2>1. CASE PendingFind
    BY <2>1 DEF PendingFind
  <2>2. ASSUME NEW r \in Requests, PendingWrite(r) PROVE TypeOK'
    BY <2>2 DEF PendingWrite, Statuses, Final
  <2> QED
    BY <1>5, <2>1, <2>2 DEF MarkPendingExpired
<1>6. CASE Tick
  BY <1>6 DEF Tick
<1>7. CASE Restart
  BY <1>7, IdleIsCall DEF Restart
<1>8. CASE UNCHANGED vars
  BY <1>8 DEF vars
<1> QED
  BY <1>1, <1>2, <1>3, <1>4, <1>5, <1>6, <1>7, <1>8 DEF Next

(***************************************************************************)
(* Every row, handler and job of the access-request service always holds   *)
(* what its columns and locals may hold.                                   *)
(***************************************************************************)
THEOREM TypeCorrect == Spec => []TypeOK
<1>1. Init => TypeOK
  BY DEF Init, TypeOK, Statuses, CertStatuses, Calls
<1>2. TypeOK /\ [Next]_vars => TypeOK'
  BY TypeStep
<1> QED
  BY <1>1, <1>2, PTL DEF Spec

-----------------------------------------------------------------------------
(***************************************************************************)
(* What a step may do to a row that has left PENDING.  A granted one stays *)
(* granted (expired and revoked grants included), a final one stays final, *)
(* and neither its expiry time nor its reviewer is written again.          *)
(***************************************************************************)
Granted == {"APPROVED", "EXPIRED", "REVOKED"}
Decided == Final \cup {"APPROVED"}

RowKept(r) ==
    /\ expiresAt'[r] = expiresAt[r]
    /\ reviewer'[r] = reviewer[r]
    /\ approvers'[r] = approvers[r]
    /\ status[r] \in Final => status'[r] \in Final
    /\ status[r] \in Granted => status'[r] \in Granted

(***************************************************************************)
(* Every step keeps a decided row in the sense of RowKept.  Only a claim   *)
(* writes reviewer and expiresAt of an existing row, and only a PENDING    *)
(* row can be claimed.                                                     *)
(***************************************************************************)
LEMMA DecidedRowKept ==
    ASSUME TypeOK, [Next]_vars, NEW r \in Requests, status[r] \in Decided
    PROVE  RowKept(r)
<1> USE DEF TypeOK, rowVars, RowKept, Final, Granted, Decided
<1>1. ASSUME NEW w \in Workers, Submit(w) PROVE RowKept(r)
  <2>1. ASSUME NEW q \in Requests, CreatePending(w, q) PROVE RowKept(r)
    BY <2>1 DEF CreatePending
  <2>2. ASSUME NEW q \in Requests, CreateApproved(w, q) PROVE RowKept(r)
    BY <2>2 DEF CreateApproved
  <2> QED
    BY <1>1, <2>1, <2>2 DEF Submit, SubmitForApproval, SubmitAllowed
<1>2. ASSUME NEW w \in Workers, Review(w) PROVE RowKept(r)
  <2>1. ASSUME NEW max \in PolicyMaxes, ReviewClaim(w, max)
        PROVE  RowKept(r)
    <3>1. call[w].req # r
      BY <2>1 DEF ReviewClaim, ClaimsRow
    <3> QED
      BY <2>1, <3>1 DEF ReviewClaim
  <2> QED
    BY <1>2, <2>1 DEF Review, ReviewRead, ReviewCheckApprover, ReviewLost,
                      ReviewAudit
<1>3. ASSUME NEW w \in Workers, GenerateSshCredentials(w) PROVE RowKept(r)
  BY <1>3 DEF GenerateSshCredentials, CredentialsRead, Sign, CreateCert,
              LinkCert, SignFails
<1>4. ASSUME NEW w \in Workers, Revoke(w) PROVE RowKept(r)
  BY <1>4 DEF Revoke, RevokeRead, RevokeWrite, RevokeCertOf
<1>5. ASSUME NEW w \in Workers, Disable(w) PROVE RowKept(r)
  BY <1>5 DEF Disable, DisableStart, DisableMark, DisableRevokeRequests,
              DisableRevokeCerts
<1>6. CASE MarkExpired
  BY <1>6 DEF MarkExpired, ExpireFind, ExpireWrite, ExpireRevokeCert
<1>7. CASE MarkPendingExpired
  BY <1>7 DEF MarkPendingExpired, PendingFind, PendingWrite
<1>8. CASE (\E c \in Certs : AdminRevokeCert(c)) \/ MarkCertsExpired \/ Tick
             \/ Restart \/ UNCHANGED vars
  BY <1>8 DEF AdminRevokeCert, MarkCertsExpired, Tick, Restart, vars
<1> QED
  BY <1>1, <1>2, <1>3, <1>4, <1>5, <1>6, <1>7, <1>8 DEF Next

(***************************************************************************)
(* A denied, expired or revoked request never becomes live again.          *)
(***************************************************************************)
THEOREM FinalIsFinal == Spec => FinalStaysFinal
<1>1. TypeOK /\ [Next]_vars =>
        [\A r \in Requests : status[r] \in Final => status'[r] \in Final]_vars
  BY DecidedRowKept DEF RowKept, Decided
<1> QED
  BY <1>1, TypeCorrect, PTL DEF Spec, FinalStaysFinal

(***************************************************************************)
(* An approved request keeps the expiry time and reviewer it was approved  *)
(* with, for ever.                                                         *)
(***************************************************************************)
THEOREM GrantIsFixed == Spec => GrantFixed
<1>1. TypeOK /\ [Next]_vars =>
        [\A r \in Requests : status[r] \in Final \cup {"APPROVED"} =>
            /\ expiresAt'[r] = expiresAt[r]
            /\ reviewer'[r] = reviewer[r]
            /\ approvers'[r] = approvers[r]]_vars
  BY DecidedRowKept DEF RowKept, Decided
<1> QED
  BY <1>1, TypeCorrect, PTL DEF Spec, GrantFixed

-----------------------------------------------------------------------------
(***************************************************************************)
(* No certificate is honoured beyond its grant.  Not inductive by itself:  *)
(* a handler that has read the request and is still signing holds the end  *)
(* it will write, so the invariant must say that this is the end of the    *)
(* grant, that the request it read was granted, and that what was signed   *)
(* in the meantime ends no earlier.                                        *)
(***************************************************************************)
SigningAt == {"sign", "createCert"}

SignsWithinGrant(w) ==
    /\ status[call[w].req] \in Granted
    /\ call[w].at = "sign" =>
          /\ ValidUntil(call[w]) = expiresAt[call[w].req]
          /\ call[w].start <= now
    /\ call[w].at = "createCert" =>
          /\ call[w].until = expiresAt[call[w].req]
          /\ call[w].until <= call[w].signed

CertInGrant(c) ==
    /\ certRequest[c] \in Requests
    /\ status[certRequest[c]] \in Granted
    /\ validBefore[c] <= expiresAt[certRequest[c]]
    /\ validBefore[c] <= signedUntil[c]

GrantInv ==
    /\ \A w \in Workers : call[w].at \in SigningAt => SignsWithinGrant(w)
    /\ \A c \in Certs : certStatus[c] # "NONE" => CertInGrant(c)

(***************************************************************************)
(* A step that neither starts or makes a signature nor creates a           *)
(* certificate.                                                            *)
(***************************************************************************)
NothingSigned ==
    /\ \A w \in Workers : call'[w].at \in SigningAt => call'[w] = call[w]
    /\ now <= now'
    /\ certRequest' = certRequest
    /\ validBefore' = validBefore
    /\ signedUntil' = signedUntil
    /\ \A c \in Certs : certStatus[c] = "NONE" => certStatus'[c] = "NONE"

(***************************************************************************)
(* A handler and a certificate that a step leaves alone keep their part of *)
(* GrantInv, because a granted row stays granted and keeps its expiry time *)
(* and the clock does not run backwards.                                   *)
(***************************************************************************)
LEMMA SignsWithinGrantKept ==
    ASSUME TypeOK, [Next]_vars, now <= now', now' \in Nat, NEW w \in Workers,
           call[w].at \in SigningAt, SignsWithinGrant(w), call'[w] = call[w]
    PROVE  SignsWithinGrant(w)'
<1>1. call[w].req \in Requests
  BY CallKinds DEF TypeOK, SigningAt
<1>2. status[call[w].req] \in Decided
  BY DEF SignsWithinGrant, Granted, Decided, Final
<1>3. RowKept(call[w].req)
  BY <1>1, <1>2, DecidedRowKept
<1>4. call[w].at = "sign" => call[w].start \in Nat
  BY CallKinds DEF TypeOK
<1>5. now \in Nat
  BY DEF TypeOK
<1> QED
  BY <1>3, <1>4, <1>5 DEF SignsWithinGrant, RowKept, ValidUntil

LEMMA CertInGrantKept ==
    ASSUME TypeOK, [Next]_vars, NEW c \in Certs, CertInGrant(c),
           certRequest'[c] = certRequest[c], validBefore'[c] = validBefore[c],
           signedUntil'[c] = signedUntil[c]
    PROVE  CertInGrant(c)'
<1>1. RowKept(certRequest[c])
  BY DecidedRowKept DEF CertInGrant, Granted, Decided, Final
<1> QED
  BY <1>1 DEF CertInGrant, RowKept

LEMMA NothingSignedKeepsGrantInv ==
    ASSUME TypeOK, TypeOK', [Next]_vars, GrantInv, NothingSigned
    PROVE  GrantInv'
<1>1. ASSUME NEW w \in Workers, call'[w].at \in SigningAt
      PROVE  SignsWithinGrant(w)'
  <2>1. call'[w] = call[w]
    BY <1>1 DEF NothingSigned
  <2>2. SignsWithinGrant(w) /\ call[w].at \in SigningAt
    BY <1>1, <2>1 DEF GrantInv
  <2> QED
    BY <2>1, <2>2, SignsWithinGrantKept DEF NothingSigned, TypeOK
<1>2. ASSUME NEW c \in Certs, certStatus'[c] # "NONE" PROVE CertInGrant(c)'
  BY <1>2, CertInGrantKept DEF NothingSigned, GrantInv
<1> QED
  BY <1>1, <1>2 DEF GrantInv, SigningAt

(***************************************************************************)
(* The three steps of generateSshCredentials that matter: the read starts  *)
(* a signature within the grant, the signature ends no earlier than the    *)
(* time that was computed, the create writes the end that was carried.     *)
(***************************************************************************)
LEMMA GrantInvCredentials ==
    ASSUME TypeOK, TypeOK', [Next]_vars, GrantInv, NEW w \in Workers,
           GenerateSshCredentials(w)
    PROVE  GrantInv'
<1> USE DEF rowVars, certVars
<1>0. ASSUME now' = now, NEW x \in Workers, call'[x] = call[x],
             call'[x].at \in SigningAt
      PROVE  SignsWithinGrant(x)'
  <2>1. now \in Nat /\ now <= now'
    BY <1>0 DEF TypeOK
  <2> QED
    BY <1>0, <2>1, SignsWithinGrantKept DEF GrantInv
<1>1. ASSUME NEW r \in Requests, CredentialsRead(w, r) PROVE GrantInv'
  <2>1. call' = [call EXCEPT ![w] = [at |-> "sign", req |-> r,
                     start |-> now, remaining |-> expiresAt[r] - now]]
    BY <1>1 DEF CredentialsRead, Goto
  <2>2. now + (expiresAt[r] - now) = expiresAt[r] /\ now <= now
    BY DEF TypeOK
  <2>3. call'[w] = [at |-> "sign", req |-> r,
                    start |-> now, remaining |-> expiresAt[r] - now]
    BY <2>1 DEF TypeOK
  <2>4. SignsWithinGrant(w)'
    BY <1>1, <2>2, <2>3
       DEF CredentialsRead, SignsWithinGrant, ValidUntil, Granted
  <2>5. \A x \in Workers : x # w => call'[x] = call[x]
    BY <2>1 DEF TypeOK
  <2>6. \A x \in Workers : call'[x].at \in SigningAt => SignsWithinGrant(x)'
    BY <1>0, <1>1, <2>4, <2>5 DEF CredentialsRead
  <2>7. \A c \in Certs : certStatus'[c] # "NONE" => CertInGrant(c)'
    BY <1>1, CertInGrantKept DEF CredentialsRead, GrantInv
  <2> QED
    BY <2>6, <2>7 DEF GrantInv, SigningAt
<1>2. CASE Sign(w)
  <2>1. /\ SignsWithinGrant(w)
        /\ call[w].at = "sign"
        /\ call[w].start \in Nat /\ call[w].remaining \in Nat
    BY <1>2, CallKinds DEF Sign, At, GrantInv, SigningAt, TypeOK
  <2>2. call'[w] = [at |-> "createCert", req |-> call[w].req,
                    until |-> ValidUntil(call[w]),
                    signed |-> now + call[w].remaining]
    BY <1>2 DEF Sign, Goto, TypeOK
  <2>3. ValidUntil(call[w]) <= now + call[w].remaining
    BY <2>1 DEF SignsWithinGrant, ValidUntil, TypeOK
  <2>4. SignsWithinGrant(w)'
    BY <1>2, <2>1, <2>2, <2>3 DEF Sign, SignsWithinGrant
  <2>5. \A x \in Workers : x # w => call'[x] = call[x]
    BY <1>2 DEF Sign, Goto, TypeOK
  <2>6. \A x \in Workers : call'[x].at \in SigningAt => SignsWithinGrant(x)'
    BY <1>0, <1>2, <2>4, <2>5 DEF Sign
  <2>7. \A c \in Certs : certStatus'[c] # "NONE" => CertInGrant(c)'
    BY <1>2, CertInGrantKept DEF Sign, GrantInv
  <2> QED
    BY <2>6, <2>7 DEF GrantInv, SigningAt
<1>3. ASSUME NEW c \in Certs, CreateCert(w, c) PROVE GrantInv'
  <2>1. /\ SignsWithinGrant(w)
        /\ call[w].at = "createCert"
        /\ call[w].req \in Requests
    BY <1>3, CallKinds DEF CreateCert, At, GrantInv, SigningAt, TypeOK
  <2>2. /\ call'[w].at = "linkCert"
        /\ \A x \in Workers : x # w => call'[x] = call[x]
    BY <1>3 DEF CreateCert, Goto, TypeOK
  <2>3. \A x \in Workers : call'[x].at \in SigningAt => SignsWithinGrant(x)'
    BY <1>0, <1>3, <2>2 DEF CreateCert, SigningAt
  <2>4. CertInGrant(c)'
    BY <1>3, <2>1 DEF CreateCert, SignsWithinGrant, CertInGrant, TypeOK
  <2>5. ASSUME NEW x \in Certs, x # c, certStatus'[x] # "NONE"
        PROVE  CertInGrant(x)'
    BY <1>3, <2>5, CertInGrantKept DEF CreateCert, GrantInv, TypeOK
  <2> QED
    BY <2>3, <2>4, <2>5 DEF GrantInv, SigningAt
<1>4. CASE LinkCert(w) \/ SignFails(w)
  <2>1. NothingSigned
    BY <1>4 DEF LinkCert, SignFails, NothingSigned, Goto, Idle, TypeOK,
                SigningAt
  <2> QED
    BY <2>1, NothingSignedKeepsGrantInv
<1> QED
  BY <1>1, <1>2, <1>3, <1>4 DEF GenerateSshCredentials

(***************************************************************************)
(* Outside generateSshCredentials no handler, job or restart signs a       *)
(* certificate or comes to hold a request it would sign for.               *)
(***************************************************************************)
LEMMA OtherStepsSignNothing ==
    ASSUME TypeOK, [Next]_vars,
           ~ \E w \in Workers : GenerateSshCredentials(w)
    PROVE  NothingSigned
<1> USE DEF TypeOK, rowVars, certVars, NothingSigned, SigningAt
<1>1. ASSUME NEW w \in Workers, Submit(w) PROVE NothingSigned
  <2>1. ASSUME NEW u \in Users, SubmitForApproval(w, u) PROVE NothingSigned
    BY <2>1 DEF SubmitForApproval, Goto
  <2>2. ASSUME NEW u \in Users, NEW d \in Durations, NEW max \in PolicyMaxes,
               SubmitAllowed(w, u, d, max)
        PROVE  NothingSigned
    BY <2>2 DEF SubmitAllowed, Goto
  <2>3. ASSUME NEW r \in Requests, CreatePending(w, r) \/ CreateApproved(w, r)
        PROVE  NothingSigned
    BY <2>3 DEF CreatePending, CreateApproved, Goto, Idle
  <2> QED
    BY <1>1, <2>1, <2>2, <2>3 DEF Submit
<1>2. ASSUME NEW w \in Workers, Review(w) PROVE NothingSigned
  <2>1. ASSUME NEW r \in Requests, NEW u \in Users, NEW verdict, NEW d,
               ReviewRead(w, r, u, verdict, d)
        PROVE  NothingSigned
    BY <2>1 DEF ReviewRead, Goto
  <2>2. CASE ReviewCheckApprover(w)
    <3>1. call[w] \in ReviewCalls
      BY <2>2, CallKinds DEF ReviewCheckApprover, At
    <3>2. call'[w].at \in {"claim", "idle"}
      BY <2>2, <3>1 DEF ReviewCheckApprover, Goto, Idle, ReviewCalls
    <3> QED
      BY <2>2, <3>2 DEF ReviewCheckApprover, Goto
  <2>3. ASSUME NEW max \in PolicyMaxes, ReviewClaim(w, max)
        PROVE  NothingSigned
    <3>1. call[w] \in ReviewCalls
      BY <2>3, CallKinds DEF ReviewClaim, At
    <3>2. call'[w].at = "auditDecision"
      BY <2>3, <3>1 DEF ReviewClaim, Goto, ReviewCalls
    <3> QED
      BY <2>3, <3>2 DEF ReviewClaim, Goto
  <2>4. CASE ReviewLost(w) \/ ReviewAudit(w)
    BY <2>4 DEF ReviewLost, ReviewAudit, Goto, Idle
  <2> QED
    BY <1>2, <2>1, <2>2, <2>3, <2>4 DEF Review
<1>3. ASSUME NEW w \in Workers, Revoke(w) PROVE NothingSigned
  <2>1. ASSUME NEW r \in Requests, RevokeRead(w, r) PROVE NothingSigned
    BY <2>1 DEF RevokeRead, Goto
  <2>2. CASE RevokeWrite(w)
    <3>1. call[w] \in RevokeCalls
      BY <2>2, CallKinds DEF RevokeWrite, At
    <3>2. call'[w].at = "revokeCert"
      BY <2>2, <3>1 DEF RevokeWrite, Goto, RevokeCalls
    <3> QED
      BY <2>2, <3>2 DEF RevokeWrite, Goto
  <2>3. CASE RevokeCertOf(w)
    BY <2>3 DEF RevokeCertOf, CertRevoked, Goto, Idle
  <2> QED
    BY <1>3, <2>1, <2>2, <2>3 DEF Revoke
<1>4. ASSUME NEW w \in Workers, Disable(w) PROVE NothingSigned
  <2>1. ASSUME NEW u \in Users, NEW order, DisableStart(w, u, order)
        PROVE  NothingSigned
    BY <2>1 DEF DisableStart, Goto
  <2>2. ASSUME At(w, "disable"), NEW step, Done(w, step)
        PROVE  \A x \in Workers :
                  call'[x].at \in SigningAt => call'[x] = call[x]
    <3>1. call[w] \in DisableCalls
      BY <2>2, CallKinds DEF At
    <3>2. call'[w].at \in {"idle", "disable"}
      BY <2>2, <3>1 DEF Done, Goto, Idle, DisableCalls
    <3> QED
      BY <2>2, <3>2 DEF Done, Goto
  <2>3. CASE DisableMark(w)
    BY <2>2, <2>3 DEF DisableMark
  <2>4. CASE DisableRevokeRequests(w)
    BY <2>2, <2>4 DEF DisableRevokeRequests, CascadeMayRun
  <2>5. CASE DisableRevokeCerts(w)
    BY <2>2, <2>5 DEF DisableRevokeCerts, CascadeMayRun
  <2> QED
    BY <1>4, <2>1, <2>3, <2>4, <2>5 DEF Disable
<1>5. CASE MarkExpired \/ MarkPendingExpired
  BY <1>5 DEF MarkExpired, ExpireFind, ExpireWrite, ExpireRevokeCert,
              CertRevoked, MarkPendingExpired, PendingFind, PendingWrite
<1>6. CASE (\E c \in Certs : AdminRevokeCert(c)) \/ MarkCertsExpired
  BY <1>6 DEF AdminRevokeCert, CertRevoked, MarkCertsExpired
<1>7. CASE Tick \/ UNCHANGED vars
  BY <1>7 DEF Tick, vars
<1>8. CASE Restart
  BY <1>8 DEF Restart, Idle
<1> QED
  BY <1>1, <1>2, <1>3, <1>4, <1>5, <1>6, <1>7, <1>8 DEF Next

(***************************************************************************)
(* Every certificate belongs to a request that was approved, and the end   *)
(* that verify goes by is no later than the grant's, nor than the end that *)
(* was signed.                                                             *)
(***************************************************************************)
THEOREM CertsStayWithinGrant == Spec => []CertWithinGrant
<1>1. Init => GrantInv
  BY DEF Init, GrantInv, SigningAt, Idle
<1>2. TypeOK /\ TypeOK' /\ GrantInv /\ [Next]_vars => GrantInv'
  BY GrantInvCredentials, OtherStepsSignNothing, NothingSignedKeepsGrantInv
<1>3. GrantInv => CertWithinGrant
  BY DEF GrantInv, CertInGrant, CertWithinGrant, Granted
<1> QED
  BY <1>1, <1>2, <1>3, TypeCorrect, PTL DEF Spec

(***************************************************************************)
(* The life in the key itself.  It is bounded by the grant as long as no   *)
(* time passes between the read of the request and the signature: then a   *)
(* handler that is about to sign has just read the clock.                  *)
(***************************************************************************)
SignedInv ==
    /\ \A w \in Workers :
          /\ At(w, "sign") =>
                call[w].start = now
          /\ At(w, "createCert") => call[w].signed = call[w].until
    /\ \A c \in Certs : certStatus[c] # "NONE" =>
          signedUntil[c] = validBefore[c]

InstantStep == \A w \in Workers : At(w, "sign") => now' = now

LEMMA SignedInvCredentials ==
    ASSUME TypeOK, SignedInv, NEW w \in Workers, GenerateSshCredentials(w)
    PROVE  SignedInv'
<1> USE DEF TypeOK, rowVars, certVars, SignedInv, At
<1>1. ASSUME NEW r \in Requests, CredentialsRead(w, r) PROVE SignedInv'
  <2>1. call' = [call EXCEPT ![w] = [at |-> "sign", req |-> r,
                     start |-> now, remaining |-> expiresAt[r] - now]]
    BY <1>1 DEF CredentialsRead, Goto
  <2> QED
    BY <1>1, <2>1 DEF CredentialsRead
<1>2. CASE Sign(w)
  <2>1. call' = [call EXCEPT ![w] =
                    [at |-> "createCert", req |-> call[w].req,
                     until |-> ValidUntil(call[w]),
                     signed |-> now + call[w].remaining]]
    BY <1>2 DEF Sign, Goto
  <2>2. ValidUntil(call[w]) = now + call[w].remaining
    BY <1>2 DEF Sign, ValidUntil
  <2> QED
    BY <1>2, <2>1, <2>2 DEF Sign
<1>3. ASSUME NEW c \in Certs, CreateCert(w, c) PROVE SignedInv'
  <2>1. call'[w].at = "linkCert" /\ \A x \in Workers : x # w => call'[x] = call[x]
    BY <1>3 DEF CreateCert, Goto
  <2> QED
    BY <1>3, <2>1 DEF CreateCert
<1>4. CASE LinkCert(w) \/ SignFails(w)
  BY <1>4 DEF LinkCert, SignFails, Goto, Idle
<1> QED
  BY <1>1, <1>2, <1>3, <1>4 DEF GenerateSshCredentials

(***************************************************************************)
(* Elsewhere only the clock could disturb it.                              *)
(***************************************************************************)
LEMMA SignedInvElsewhere ==
    ASSUME TypeOK, SignedInv, NothingSigned, InstantStep PROVE SignedInv'
<1>1. ASSUME NEW w \in Workers, At(w, "sign")' PROVE call'[w].start = now'
  BY <1>1 DEF NothingSigned, SignedInv, InstantStep, At, SigningAt
<1>2. ASSUME NEW w \in Workers, At(w, "createCert")'
      PROVE  call'[w].signed = call'[w].until
  BY <1>2 DEF NothingSigned, SignedInv, At, SigningAt
<1>3. ASSUME NEW c \in Certs, certStatus'[c] # "NONE"
      PROVE  signedUntil'[c] = validBefore'[c]
  BY <1>3 DEF NothingSigned, SignedInv
<1> QED
  BY <1>1, <1>2, <1>3 DEF SignedInv, At

(***************************************************************************)
(* The certificate's TTL equals the request's remaining time, as the       *)
(* document says, exactly when the signature comes at the moment of the    *)
(* read; the code has a key generation, two file reads and a look-up of    *)
(* the CA in between.                                                      *)
(***************************************************************************)
THEOREM SignedWithinGrantIfInstant ==
    Spec /\ SigningTakesNoTime => []SignedWithinGrant
<1>1. Init => SignedInv
  BY DEF Init, SignedInv, At, Idle
<1>2. TypeOK /\ SignedInv /\ [Next]_vars /\ [InstantStep]_vars => SignedInv'
  <2> SUFFICES ASSUME TypeOK, SignedInv, [Next]_vars, [InstantStep]_vars
               PROVE  SignedInv'
    OBVIOUS
  <2>1. CASE \E w \in Workers : GenerateSshCredentials(w)
    BY <2>1, SignedInvCredentials
  <2>2. CASE ~ \E w \in Workers : GenerateSshCredentials(w)
    <3>1. NothingSigned
      BY <2>2, OtherStepsSignNothing
    <3>2. InstantStep
      BY DEF InstantStep, vars
    <3> QED
      BY <3>1, <3>2, SignedInvElsewhere
  <2> QED
    BY <2>1, <2>2
<1>3. SignedInv /\ CertWithinGrant => SignedWithinGrant
  BY DEF SignedInv, CertWithinGrant, SignedWithinGrant
<1> QED
  BY <1>1, <1>2, <1>3, TypeCorrect, CertsStayWithinGrant, PTL
     DEF Spec, SigningTakesNoTime, InstantStep

-----------------------------------------------------------------------------
(***************************************************************************)
(* One decision.  The audit row is written in a step of its own after the  *)
(* claim, so the invariant follows the claim: a handler about to write the *)
(* row is the only one for its request, the request has left PENDING and   *)
(* has no such row yet.                                                    *)
(***************************************************************************)
Open == {"NONE", "PENDING"}

DecisionInv ==
    /\ \A r \in Requests : status[r] \in Open => decisions[r] = <<>>
    /\ \A w \in Workers : At(w, "auditDecision") =>
          /\ status[call[w].req] \notin Open
          /\ decisions[call[w].req] = <<>>
    /\ \A v, w \in Workers :
          (At(v, "auditDecision") /\ At(w, "auditDecision") /\ v # w)
             => call[v].req # call[w].req
    /\ OneDecision

(***************************************************************************)
(* A step that neither claims a request nor writes an audit row.           *)
(***************************************************************************)
NothingDecided ==
    /\ decisions' = decisions
    /\ \A w \in Workers : call'[w].at = "auditDecision" => call'[w] = call[w]
    /\ \A r \in Requests : status'[r] \in Open => status[r] \in Open

(***************************************************************************)
(* Such a step keeps DecisionInv.                                          *)
(***************************************************************************)
LEMMA NothingDecidedKeepsDecisionInv ==
    ASSUME TypeOK, DecisionInv, NothingDecided PROVE DecisionInv'
<1>1. \A w \in Workers : At(w, "auditDecision")' =>
         call'[w] = call[w] /\ At(w, "auditDecision")
  BY DEF NothingDecided, At
<1>2. \A w \in Workers : At(w, "auditDecision") => call[w].req \in Requests
  BY CallKinds DEF TypeOK, At, ReviewCalls
<1>3. \A r \in Requests : status'[r] \in Open => decisions'[r] = <<>>
  BY DEF NothingDecided, DecisionInv
<1>4. \A w \in Workers : At(w, "auditDecision")' =>
         /\ status'[call'[w].req] \notin Open
         /\ decisions'[call'[w].req] = <<>>
  BY <1>1, <1>2 DEF NothingDecided, DecisionInv
<1>5. \A v, w \in Workers :
         (At(v, "auditDecision")' /\ At(w, "auditDecision")' /\ v # w)
            => call'[v].req # call'[w].req
  BY <1>1 DEF DecisionInv
<1>6. OneDecision'
  BY DEF NothingDecided, DecisionInv, OneDecision
<1> QED
  BY <1>3, <1>4, <1>5, <1>6 DEF DecisionInv

(***************************************************************************)
(* review keeps DecisionInv: a claim finds the row PENDING, hence without  *)
(* an audit row and without another handler about to write one; the audit  *)
(* row is then the first.                                                  *)
(***************************************************************************)
LEMMA DecisionInvReview ==
    ASSUME TypeOK, DecisionInv, NEW w \in Workers, Review(w)
    PROVE  DecisionInv'
<1> USE DEF TypeOK, rowVars, certVars
<1>0. \A x \in Workers : At(x, "auditDecision") => call[x].req \in Requests
  BY CallKinds DEF At, ReviewCalls
<1>1. ASSUME NEW r \in Requests, NEW u \in Users, NEW verdict, NEW d,
             ReviewRead(w, r, u, verdict, d)
      PROVE  DecisionInv'
  <2>1. NothingDecided
    BY <1>1 DEF ReviewRead, Goto, NothingDecided
  <2> QED
    BY <2>1, NothingDecidedKeepsDecisionInv
<1>2. CASE ReviewCheckApprover(w)
  <2>1. call[w] \in ReviewCalls
    BY <1>2, CallKinds DEF ReviewCheckApprover, At
  <2>2. call'[w].at \in {"claim", "idle"}
    BY <1>2, <2>1 DEF ReviewCheckApprover, Goto, Idle, ReviewCalls
  <2>3. NothingDecided
    BY <1>2, <2>2 DEF ReviewCheckApprover, Goto, NothingDecided
  <2> QED
    BY <2>3, NothingDecidedKeepsDecisionInv
<1>3. ASSUME NEW max \in PolicyMaxes, ReviewClaim(w, max)
      PROVE  DecisionInv'
  <2> DEFINE q == call[w].req
  <2>1. call[w] \in ReviewCalls /\ q \in Requests
    BY <1>3, CallKinds DEF ReviewClaim, At, ReviewCalls
  <2>2. /\ call'[w].at = "auditDecision" /\ call'[w].req = q
        /\ \A x \in Workers : x # w => call'[x] = call[x]
    BY <1>3, <2>1 DEF ReviewClaim, Goto, ReviewCalls
  <2>3. /\ status[q] = "PENDING" /\ decisions[q] = <<>>
        /\ status'[q] \notin Open
        /\ \A r \in Requests : r # q => status'[r] = status[r]
        /\ decisions' = decisions
    BY <1>3, <2>1 DEF ReviewClaim, ClaimsRow, DecisionInv, Open
  <2>4. \A x \in Workers : At(x, "auditDecision") => call[x].req # q
    BY <2>3 DEF DecisionInv, Open
  <2>5. \A r \in Requests : status'[r] \in Open => decisions'[r] = <<>>
    BY <2>3 DEF DecisionInv
  <2>6. \A x \in Workers : At(x, "auditDecision")' =>
           /\ status'[call'[x].req] \notin Open
           /\ decisions'[call'[x].req] = <<>>
    <3> SUFFICES ASSUME NEW x \in Workers, call'[x].at = "auditDecision"
                 PROVE  /\ status'[call'[x].req] \notin Open
                        /\ decisions'[call'[x].req] = <<>>
      BY DEF At
    <3>1. CASE x = w
      BY <2>2, <2>3, <3>1
    <3>2. CASE x # w
      <4>1. call'[x] = call[x] /\ At(x, "auditDecision")
        BY <2>2, <3>2 DEF At
      <4>2. /\ call[x].req \in Requests /\ call[x].req # q
            /\ status[call[x].req] \notin Open
            /\ decisions[call[x].req] = <<>>
        BY <1>0, <2>4, <4>1 DEF DecisionInv
      <4> QED
        BY <2>3, <4>1, <4>2
    <3> QED
      BY <3>1, <3>2
  <2>7. \A v, x \in Workers :
           (At(v, "auditDecision")' /\ At(x, "auditDecision")' /\ v # x)
              => call'[v].req # call'[x].req
    BY <2>2, <2>4 DEF DecisionInv, At
  <2>8. OneDecision'
    BY <2>3 DEF DecisionInv, OneDecision
  <2> QED
    BY <2>5, <2>6, <2>7, <2>8 DEF DecisionInv
<1>4. CASE ReviewLost(w)
  <2>1. NothingDecided
    BY <1>4 DEF ReviewLost, Goto, Idle, NothingDecided
  <2> QED
    BY <2>1, NothingDecidedKeepsDecisionInv
<1>5. CASE ReviewAudit(w)
  <2> DEFINE q == call[w].req
  <2>1. call[w] \in ReviewCalls /\ q \in Requests
    BY <1>5, CallKinds DEF ReviewAudit, At, ReviewCalls
  <2>2. /\ call'[w].at = "idle"
        /\ \A x \in Workers : x # w => call'[x] = call[x]
        /\ status' = status
    BY <1>5 DEF ReviewAudit, Goto, Idle
  <2>3. /\ decisions[q] = <<>> /\ status[q] \notin Open
        /\ \A r \in Requests : r # q => decisions'[r] = decisions[r]
        /\ decisions'[q] = Append(<<>>, <<call[w].by, call[w].verdict>>)
    BY <1>5, <2>1 DEF ReviewAudit, DecisionInv
  <2>4. Len(decisions'[q]) = 1
    <3>1. <<call[w].by, call[w].verdict>> \in Users \X Verdicts
      BY <2>1 DEF ReviewCalls
    <3> QED
      BY <2>3, <3>1
  <2>5. \A r \in Requests : status'[r] \in Open => decisions'[r] = <<>>
    BY <2>2, <2>3 DEF DecisionInv
  <2>6. \A x \in Workers : At(x, "auditDecision")' =>
           /\ x # w
           /\ At(x, "auditDecision")
           /\ call'[x].req # q
    BY <1>5, <2>2 DEF DecisionInv, ReviewAudit, At
  <2>7. \A x \in Workers : At(x, "auditDecision")' =>
           /\ status'[call'[x].req] \notin Open
           /\ decisions'[call'[x].req] = <<>>
    BY <1>0, <2>2, <2>3, <2>6 DEF DecisionInv
  <2>8. \A v, x \in Workers :
           (At(v, "auditDecision")' /\ At(x, "auditDecision")' /\ v # x)
              => call'[v].req # call'[x].req
    BY <2>2, <2>6 DEF DecisionInv
  <2>9. OneDecision'
    <3> SUFFICES ASSUME NEW r \in Requests PROVE Len(decisions'[r]) <= 1
      BY DEF OneDecision
    <3>1. CASE r = q
      <4>1. Len(decisions'[r]) = 1
        BY <2>4, <3>1, Zenon
      <4> QED
        BY <4>1, SMT
    <3>2. CASE r # q
      BY <2>3, <3>2 DEF DecisionInv, OneDecision
    <3> QED
      BY <3>1, <3>2
  <2> QED
    BY <2>5, <2>7, <2>8, <2>9 DEF DecisionInv
<1> QED
  BY <1>1, <1>2, <1>3, <1>4, <1>5 DEF Review

(***************************************************************************)
(* No other handler, job or restart decides a request, writes an audit row *)
(* or makes a decided request PENDING again.                               *)
(***************************************************************************)
LEMMA OtherStepsDecideNothing ==
    ASSUME TypeOK, [Next]_vars, ~ \E w \in Workers : Review(w)
    PROVE  NothingDecided
<1> USE DEF TypeOK, rowVars, certVars, NothingDecided, Open
<1>1. ASSUME NEW w \in Workers, Submit(w) PROVE NothingDecided
  <2>1. ASSUME NEW u \in Users, SubmitForApproval(w, u) PROVE NothingDecided
    BY <2>1 DEF SubmitForApproval, Goto
  <2>2. ASSUME NEW u \in Users, NEW d \in Durations, NEW max \in PolicyMaxes,
               SubmitAllowed(w, u, d, max)
        PROVE  NothingDecided
    BY <2>2 DEF SubmitAllowed, Goto
  <2>3. ASSUME NEW r \in Requests, CreatePending(w, r) \/ CreateApproved(w, r)
        PROVE  NothingDecided
    BY <2>3 DEF CreatePending, CreateApproved, Goto, Idle
  <2> QED
    BY <1>1, <2>1, <2>2, <2>3 DEF Submit
<1>2. ASSUME NEW w \in Workers, GenerateSshCredentials(w)
      PROVE  NothingDecided
  <2>1. ASSUME NEW r \in Requests, CredentialsRead(w, r) PROVE NothingDecided
    BY <2>1 DEF CredentialsRead, Goto
  <2>2. ASSUME NEW c \in Certs, CreateCert(w, c) PROVE NothingDecided
    BY <2>2 DEF CreateCert, Goto
  <2>3. CASE Sign(w) \/ LinkCert(w) \/ SignFails(w)
    BY <2>3 DEF Sign, LinkCert, SignFails, Goto, Idle
  <2> QED
    BY <1>2, <2>1, <2>2, <2>3 DEF GenerateSshCredentials
<1>3. ASSUME NEW w \in Workers, Revoke(w) PROVE NothingDecided
  <2>1. ASSUME NEW r \in Requests, RevokeRead(w, r) PROVE NothingDecided
    BY <2>1 DEF RevokeRead, Goto
  <2>2. CASE RevokeWrite(w)
    <3>1. call[w] \in RevokeCalls
      BY <2>2, CallKinds DEF RevokeWrite, At
    <3>2. call'[w].at = "revokeCert"
      BY <2>2, <3>1 DEF RevokeWrite, Goto, RevokeCalls
    <3>3. \A x \in Workers :
             call'[x].at = "auditDecision" => call'[x] = call[x]
      BY <2>2, <3>2 DEF RevokeWrite, Goto
    <3>4. \A r \in Requests : status'[r] \in Open => status[r] \in Open
      BY <2>2 DEF RevokeWrite
    <3> QED
      BY <2>2, <3>3, <3>4 DEF RevokeWrite
  <2>3. CASE RevokeCertOf(w)
    BY <2>3 DEF RevokeCertOf, Goto, Idle
  <2> QED
    BY <1>3, <2>1, <2>2, <2>3 DEF Revoke
<1>4. ASSUME NEW w \in Workers, Disable(w) PROVE NothingDecided
  <2>1. ASSUME NEW u \in Users, NEW order, DisableStart(w, u, order)
        PROVE  NothingDecided
    BY <2>1 DEF DisableStart, Goto
  <2>2. ASSUME At(w, "disable"), NEW step, Done(w, step)
        PROVE  \A x \in Workers :
                  call'[x].at = "auditDecision" => call'[x] = call[x]
    <3>1. call[w] \in DisableCalls
      BY <2>2, CallKinds DEF At
    <3>2. call'[w].at \in {"idle", "disable"}
      BY <2>2, <3>1 DEF Done, Goto, Idle, DisableCalls
    <3> QED
      BY <2>2, <3>2 DEF Done, Goto
  <2>3. CASE DisableMark(w)
    BY <2>2, <2>3 DEF DisableMark
  <2>4. CASE DisableRevokeRequests(w)
    BY <2>2, <2>4 DEF DisableRevokeRequests, CascadeMayRun
  <2>5. CASE DisableRevokeCerts(w)
    BY <2>2, <2>5 DEF DisableRevokeCerts, CascadeMayRun
  <2> QED
    BY <1>4, <2>1, <2>3, <2>4, <2>5 DEF Disable
<1>5. CASE MarkExpired \/ MarkPendingExpired
  BY <1>5 DEF MarkExpired, ExpireFind, ExpireWrite, ExpireRevokeCert,
              MarkPendingExpired, PendingFind, PendingWrite
<1>6. CASE (\E c \in Certs : AdminRevokeCert(c)) \/ MarkCertsExpired
             \/ Tick \/ UNCHANGED vars
  BY <1>6 DEF AdminRevokeCert, MarkCertsExpired, Tick, vars
<1>7. CASE Restart
  BY <1>7 DEF Restart, Idle
<1> QED
  BY <1>1, <1>2, <1>3, <1>4, <1>5, <1>6, <1>7 DEF Next

(***************************************************************************)
(* However many approvers answer at once, a request is decided once.       *)
(***************************************************************************)
THEOREM DecidedOnce == Spec => []OneDecision
<1>1. Init => DecisionInv
  BY DEF Init, DecisionInv, OneDecision, At, Idle
<1>2. TypeOK /\ DecisionInv /\ [Next]_vars => DecisionInv'
  BY DecisionInvReview, OtherStepsDecideNothing, NothingDecidedKeepsDecisionInv
<1>3. DecisionInv => OneDecision
  BY DEF DecisionInv
<1> QED
  BY <1>1, <1>2, <1>3, TypeCorrect, PTL DEF Spec

-----------------------------------------------------------------------------
(***************************************************************************)
(* AccessRequests implements Grants.  A step of Grants needs to know what  *)
(* a handler or a sweep remembers: that a row it is about to end exists,   *)
(* and that a certificate not yet created belongs to nobody.               *)
(***************************************************************************)
KnownInv ==
    /\ \A c \in Certs : certStatus[c] = "NONE" => certRequest[c] = NoRequest
    /\ \A w \in Workers :
          At(w, "writeRevoked") => status[call[w].req] # "NONE"
    /\ \A r \in expireTodo \cup pendingTodo : status[r] # "NONE"

(***************************************************************************)
(* A step that takes up no row for revocation or expiry and creates no     *)
(* certificate keeps KnownInv, because rows are not deleted.               *)
(***************************************************************************)
RowsStay == \A r \in Requests : status[r] # "NONE" => status'[r] # "NONE"

NothingTakenUp ==
    /\ \A w \in Workers : call'[w].at = "writeRevoked" => call'[w] = call[w]
    /\ expireTodo' \subseteq expireTodo /\ pendingTodo' \subseteq pendingTodo
    /\ certRequest' = certRequest
    /\ \A c \in Certs : certStatus'[c] = "NONE" => certStatus[c] = "NONE"

LEMMA NothingTakenUpKeepsKnownInv ==
    ASSUME TypeOK, KnownInv, RowsStay, NothingTakenUp PROVE KnownInv'
<1>1. \A c \in Certs : certStatus'[c] = "NONE" => certRequest'[c] = NoRequest
  BY DEF KnownInv, NothingTakenUp
<1>2. \A w \in Workers :
         At(w, "writeRevoked")' => status'[call'[w].req] # "NONE"
  <2> SUFFICES ASSUME NEW w \in Workers, At(w, "writeRevoked")'
               PROVE  status'[call'[w].req] # "NONE"
    OBVIOUS
  <2>1. call'[w] = call[w] /\ At(w, "writeRevoked")
    BY DEF NothingTakenUp, At
  <2>2. call[w].req \in Requests
    BY <2>1, CallKinds DEF TypeOK, At, RevokeCalls
  <2> QED
    BY <2>1, <2>2 DEF KnownInv, RowsStay
<1>3. \A r \in expireTodo' \cup pendingTodo' : status'[r] # "NONE"
  BY DEF TypeOK, KnownInv, RowsStay, NothingTakenUp
<1> QED
  BY <1>1, <1>2, <1>3 DEF KnownInv, At

LEMMA RowsAreKept ==
    ASSUME TypeOK, [Next]_vars PROVE RowsStay
<1> USE DEF TypeOK, rowVars, RowsStay, Live
<1>1. ASSUME NEW w \in Workers, Submit(w) PROVE RowsStay
  BY <1>1 DEF Submit, SubmitForApproval, SubmitAllowed, CreatePending,
              CreateApproved
<1>2. ASSUME NEW w \in Workers, Review(w) PROVE RowsStay
  BY <1>2 DEF Review, ReviewRead, ReviewCheckApprover, ReviewClaim,
              ReviewLost, ReviewAudit
<1>3. ASSUME NEW w \in Workers, GenerateSshCredentials(w) PROVE RowsStay
  BY <1>3 DEF GenerateSshCredentials, CredentialsRead, Sign, CreateCert,
              LinkCert, SignFails
<1>4. ASSUME NEW w \in Workers, Revoke(w) PROVE RowsStay
  BY <1>4 DEF Revoke, RevokeRead, RevokeWrite, RevokeCertOf
<1>5. ASSUME NEW w \in Workers, Disable(w) PROVE RowsStay
  BY <1>5 DEF Disable, DisableStart, DisableMark, DisableRevokeRequests,
              DisableRevokeCerts
<1>6. CASE MarkExpired \/ MarkPendingExpired
  BY <1>6 DEF MarkExpired, ExpireFind, ExpireWrite, ExpireRevokeCert,
              MarkPendingExpired, PendingFind, PendingWrite
<1>7. CASE (\E c \in Certs : AdminRevokeCert(c)) \/ MarkCertsExpired \/ Tick
             \/ Restart \/ UNCHANGED vars
  BY <1>7 DEF AdminRevokeCert, MarkCertsExpired, Tick, Restart, vars
<1> QED
  BY <1>1, <1>2, <1>3, <1>4, <1>5, <1>6, <1>7 DEF Next

(***************************************************************************)
(* Every step keeps KnownInv.                                              *)
(***************************************************************************)
LEMMA KnownStep ==
    ASSUME TypeOK, KnownInv, [Next]_vars PROVE KnownInv'
<1> USE DEF TypeOK, rowVars, certVars, jobVars
<1>0. /\ RowsStay
      /\ NothingTakenUp => KnownInv'
  BY RowsAreKept, NothingTakenUpKeepsKnownInv
<1>1. ASSUME NEW w \in Workers, Submit(w) PROVE NothingTakenUp
  <2>1. ASSUME NEW u \in Users, SubmitForApproval(w, u) PROVE NothingTakenUp
    BY <2>1 DEF SubmitForApproval, Goto, NothingTakenUp
  <2>2. ASSUME NEW u \in Users, NEW d \in Durations, NEW max \in PolicyMaxes,
               SubmitAllowed(w, u, d, max)
        PROVE  NothingTakenUp
    BY <2>2 DEF SubmitAllowed, Goto, NothingTakenUp
  <2>3. ASSUME NEW r \in Requests, CreatePending(w, r) \/ CreateApproved(w, r)
        PROVE  NothingTakenUp
    BY <2>3 DEF CreatePending, CreateApproved, Goto, Idle, NothingTakenUp
  <2> QED
    BY <1>1, <2>1, <2>2, <2>3 DEF Submit
<1>2. ASSUME NEW w \in Workers, Review(w) PROVE NothingTakenUp
  <2>1. ASSUME NEW r \in Requests, NEW u \in Users, NEW verdict, NEW d,
               ReviewRead(w, r, u, verdict, d)
        PROVE  NothingTakenUp
    BY <2>1 DEF ReviewRead, Goto, NothingTakenUp
  <2>2. CASE ReviewCheckApprover(w)
    <3>1. call[w] \in ReviewCalls
      BY <2>2, CallKinds DEF ReviewCheckApprover, At
    <3>2. call'[w].at \in {"claim", "idle"}
      BY <2>2, <3>1 DEF ReviewCheckApprover, Goto, Idle, ReviewCalls
    <3> QED
      BY <2>2, <3>2 DEF ReviewCheckApprover, Goto, NothingTakenUp
  <2>3. ASSUME NEW max \in PolicyMaxes, ReviewClaim(w, max)
        PROVE  NothingTakenUp
    <3>1. call[w] \in ReviewCalls
      BY <2>3, CallKinds DEF ReviewClaim, At
    <3>2. call'[w].at = "auditDecision"
      BY <2>3, <3>1 DEF ReviewClaim, Goto, ReviewCalls
    <3> QED
      BY <2>3, <3>2 DEF ReviewClaim, Goto, NothingTakenUp
  <2>4. CASE ReviewLost(w) \/ ReviewAudit(w)
    BY <2>4 DEF ReviewLost, ReviewAudit, Goto, Idle, NothingTakenUp
  <2> QED
    BY <1>2, <2>1, <2>2, <2>3, <2>4 DEF Review
<1>3. ASSUME NEW w \in Workers, GenerateSshCredentials(w) PROVE KnownInv'
  <2>1. ASSUME NEW r \in Requests, CredentialsRead(w, r) PROVE NothingTakenUp
    BY <2>1 DEF CredentialsRead, Goto, NothingTakenUp
  <2>2. ASSUME NEW c \in Certs, CreateCert(w, c) PROVE KnownInv'
    <3>1. call' = [call EXCEPT ![w] =
                     [at |-> "linkCert", req |-> call[w].req, cert |-> c]]
      BY <2>2 DEF CreateCert, Goto
    <3>2. \A x \in Workers :
             At(x, "writeRevoked")' => call'[x] = call[x] /\ x # w
      BY <3>1 DEF At
    <3>3. \A x \in Certs :
             certStatus'[x] = "NONE" => certRequest'[x] = NoRequest
      BY <2>2 DEF CreateCert, KnownInv
    <3> QED
      BY <2>2, <3>2, <3>3 DEF CreateCert, KnownInv, At
  <2>3. CASE Sign(w) \/ LinkCert(w) \/ SignFails(w)
    BY <1>0, <2>3
       DEF Sign, LinkCert, SignFails, Goto, Idle, NothingTakenUp
  <2> QED
    BY <1>0, <1>3, <2>1, <2>2, <2>3 DEF GenerateSshCredentials
<1>4. ASSUME NEW w \in Workers, Revoke(w) PROVE KnownInv'
  <2>1. ASSUME NEW r \in Requests, RevokeRead(w, r) PROVE KnownInv'
    <3>1. call' = [call EXCEPT ![w] =
             [at |-> "writeRevoked", req |-> r, cert |-> certificate[r]]]
      BY <2>1 DEF RevokeRead, Goto
    <3>2. call'[w].req = r
          /\ \A x \in Workers : x # w => call'[x] = call[x]
      BY <3>1
    <3> QED
      BY <2>1, <3>2 DEF RevokeRead, KnownInv, At
  <2>2. CASE RevokeWrite(w)
    <3>1. call[w] \in RevokeCalls
      BY <2>2, CallKinds DEF RevokeWrite, At
    <3>2. call'[w].at = "revokeCert"
      BY <2>2, <3>1 DEF RevokeWrite, Goto, RevokeCalls
    <3> QED
      BY <1>0, <2>2, <3>2 DEF RevokeWrite, Goto, NothingTakenUp
  <2>3. CASE RevokeCertOf(w)
    BY <1>0, <2>3 DEF RevokeCertOf, CertRevoked, Goto, Idle, NothingTakenUp
  <2> QED
    BY <1>4, <2>1, <2>2, <2>3 DEF Revoke
<1>5. ASSUME NEW w \in Workers, Disable(w) PROVE NothingTakenUp
  <2>1. ASSUME NEW u \in Users, NEW order, DisableStart(w, u, order)
        PROVE  NothingTakenUp
    BY <2>1 DEF DisableStart, Goto, NothingTakenUp
  <2>2. ASSUME At(w, "disable"), NEW step, Done(w, step)
        PROVE  \A x \in Workers :
                  call'[x].at = "writeRevoked" => call'[x] = call[x]
    <3>1. call[w] \in DisableCalls
      BY <2>2, CallKinds DEF At
    <3>2. call'[w].at \in {"idle", "disable"}
      BY <2>2, <3>1 DEF Done, Goto, Idle, DisableCalls
    <3> QED
      BY <2>2, <3>2 DEF Done, Goto
  <2>3. CASE DisableMark(w)
    BY <2>2, <2>3 DEF DisableMark, NothingTakenUp
  <2>4. CASE DisableRevokeRequests(w)
    BY <2>2, <2>4 DEF DisableRevokeRequests, CascadeMayRun, NothingTakenUp
  <2>5. CASE DisableRevokeCerts(w)
    BY <2>2, <2>5 DEF DisableRevokeCerts, CascadeMayRun, NothingTakenUp
  <2> QED
    BY <1>5, <2>1, <2>3, <2>4, <2>5 DEF Disable
<1>6. CASE ExpireFind \/ PendingFind
  BY <1>6 DEF ExpireFind, PendingFind, DueForExpiry, KnownInv, At
<1>7. CASE \/ \E r \in Requests : ExpireWrite(r) \/ PendingWrite(r)
           \/ ExpireRevokeCert
  BY <1>0, <1>7 DEF ExpireWrite, PendingWrite, ExpireRevokeCert, CertRevoked,
              NothingTakenUp
<1>8. CASE (\E c \in Certs : AdminRevokeCert(c)) \/ MarkCertsExpired
             \/ Tick \/ UNCHANGED vars
  BY <1>0, <1>8 DEF AdminRevokeCert, CertRevoked, MarkCertsExpired, Tick, vars,
              NothingTakenUp
<1>9. CASE Restart
  BY <1>0, <1>9 DEF Restart, Idle, NothingTakenUp
<1> QED
  BY <1>0, <1>1, <1>2, <1>3, <1>4, <1>5, <1>6, <1>7, <1>8, <1>9
     DEF Next, MarkExpired, MarkPendingExpired

(***************************************************************************)
(* The kinds of steps Grants allows, in the terms of AccessRequests.       *)
(***************************************************************************)
StageOf == [r \in Requests |-> Stage(r)]
Dead == {c \in Certs : certStatus[c] \in {"REVOKED", "EXPIRED"}}

LEMMA StageType ==
    ASSUME TypeOK
    PROVE  /\ \A r \in Requests : status[r] \in Statuses
           /\ \A r \in Requests :
                /\ Stage(r) = "new" <=> status[r] = "NONE"
                /\ Stage(r) = "asked" <=> status[r] = "PENDING"
                /\ Stage(r) = "granted" <=> status[r] = "APPROVED"
                /\ Stage(r) = "over" <=> status[r] \in Final
  BY DEF TypeOK, Stage, Statuses, Live, Final

\* Nothing that Grants speaks of changes.
LEMMA SameGrants ==
    ASSUME UNCHANGED <<status, expiresAt, certVars>>
    PROVE  UNCHANGED Promise!vars
  BY DEF Promise!vars, Stage, certVars

\* Some rows end.
Ends(S) ==
    /\ \A r \in S : status[r] # "NONE" /\ status'[r] \in Final
    /\ \A r \in Requests \ S : status'[r] = status[r]
    /\ UNCHANGED <<expiresAt, certVars>>

LEMMA EndingCloses ==
    ASSUME TypeOK, TypeOK', NEW S \in SUBSET Requests, Ends(S)
    PROVE  Promise!Next
<1> DEFINE T == {r \in S : status[r] \in Live}
<1>1. \A r \in T : Stage(r) \in {"asked", "granted"}
  BY StageType DEF Live
<1>2. \A r \in Requests :
         Stage(r)' = IF r \in T THEN "over" ELSE Stage(r)
  <2> SUFFICES ASSUME NEW r \in Requests
               PROVE  Stage(r)' = IF r \in T THEN "over" ELSE Stage(r)
    OBVIOUS
  <2>1. CASE r \in T
    BY <2>1 DEF Ends, Final, Stage
  <2>2. CASE r \in S \ T
    <3>1. status[r] \in Final /\ status'[r] \in Final
      BY <2>2, StageType DEF Ends, Statuses, Live, Final
    <3> QED
      BY <2>2, <3>1 DEF Stage, Final
  <2>3. CASE r \notin S
    BY <2>3 DEF Ends, Stage
  <2> QED
    BY <2>1, <2>2, <2>3
<1>3. StageOf' = [r \in Requests |-> IF r \in T THEN "over" ELSE Stage(r)]
  BY <1>2 DEF StageOf
<1>4. Promise!Close(T)
  BY <1>1, <1>3 DEF Promise!Close, Ends, StageOf, certVars
<1> QED
  BY <1>4 DEF Promise!Next

\* Some certificates are withdrawn or run out.
Withdraws ==
    /\ UNCHANGED <<status, expiresAt, certRequest, validBefore, signedUntil>>
    /\ \A c \in Certs : certStatus[c] = "NONE" => certStatus'[c] = "NONE"
    /\ Dead \subseteq Dead'

LEMMA WithdrawingKills ==
    ASSUME TypeOK, GrantInv, Withdraws PROVE Promise!Next
<1>1. Dead' \subseteq Certs /\ Dead' = Dead \cup Dead'
  BY DEF Dead, Withdraws
<1>2. \A c \in Dead' : certRequest[c] # NoRequest
  BY ConstantsAssumption DEF Dead, Withdraws, GrantInv, CertInGrant
<1>3. UNCHANGED <<StageOf, expiresAt, certRequest, validBefore, signedUntil>>
  BY DEF Withdraws, StageOf, Stage
<1>4. PICK S \in SUBSET Certs : S = Dead'
  BY <1>1
<1>5. Promise!Kill(S)
  BY <1>1, <1>2, <1>3, <1>4 DEF Promise!Kill, Dead, StageOf
<1> QED
  BY <1>5 DEF Promise!Next

LEMMA SubmitRefines ==
    ASSUME TypeOK, TypeOK', NEW w \in Workers, Submit(w)
    PROVE  Promise!Next \/ UNCHANGED Promise!vars
<1>1. ASSUME NEW r \in Requests, CreatePending(w, r) PROVE Promise!Next
  <2>1. StageOf' = [StageOf EXCEPT ![r] = "asked"] /\ StageOf[r] = "new"
    BY <1>1 DEF CreatePending, StageOf, Stage, TypeOK
  <2>2. Promise!Ask(r)
    BY <1>1, <2>1 DEF CreatePending, Promise!Ask, StageOf, certVars
  <2> QED
    BY <2>2 DEF Promise!Next
<1>2. ASSUME NEW r \in Requests, CreateApproved(w, r) PROVE Promise!Next
  <2>1. StageOf' = [StageOf EXCEPT ![r] = "granted"] /\ StageOf[r] = "new"
    BY <1>2 DEF CreateApproved, StageOf, Stage, TypeOK
  <2>2. /\ expiresAt' = [expiresAt EXCEPT ![r] = expiresAt'[r]]
        /\ expiresAt'[r] \in Nat
    BY <1>2 DEF CreateApproved, TypeOK
  <2>3. Promise!Grant(r)
    BY <1>2, <2>1, <2>2 DEF CreateApproved, Promise!Grant, StageOf, certVars
  <2> QED
    BY <2>3 DEF Promise!Next
<1>3. ASSUME NEW u \in Users,
             \/ SubmitForApproval(w, u)
             \/ \E d \in Durations, max \in PolicyMaxes :
                   SubmitAllowed(w, u, d, max)
      PROVE  UNCHANGED Promise!vars
  BY <1>3, SameGrants DEF SubmitForApproval, SubmitAllowed, rowVars
<1> QED
  BY <1>1, <1>2, <1>3 DEF Submit

LEMMA ReviewRefines ==
    ASSUME TypeOK, TypeOK', NEW w \in Workers, Review(w)
    PROVE  Promise!Next \/ UNCHANGED Promise!vars
<1>1. ASSUME NEW max \in PolicyMaxes, ReviewClaim(w, max) PROVE Promise!Next
  <2> DEFINE q == call[w].req
  <2>0. q \in Requests /\ status[q] = "PENDING"
    BY <1>1, CallKinds DEF ReviewClaim, ClaimsRow, At, TypeOK, ReviewCalls
  <2>1. CASE call[w].verdict = "approve"
    <3>1. /\ status' = [status EXCEPT ![q] = "APPROVED"]
          /\ expiresAt' = [expiresAt EXCEPT ![q] = expiresAt'[q]]
          /\ expiresAt'[q] \in Nat
      BY <1>1, <2>0, <2>1 DEF ReviewClaim, TypeOK
    <3>2. /\ StageOf' = [StageOf EXCEPT ![q] = "granted"]
          /\ StageOf[q] = "asked"
      BY <2>0, <3>1 DEF StageOf, Stage, TypeOK
    <3>3. Promise!Grant(q)
      BY <1>1, <2>0, <3>1, <3>2
         DEF ReviewClaim, Promise!Grant, StageOf, certVars
    <3> QED
      BY <2>0, <3>3 DEF Promise!Next
  <2>2. CASE call[w].verdict # "approve"
    <3>1. Ends({q})
      BY <1>1, <2>0, <2>2 DEF ReviewClaim, Ends, Final, TypeOK
    <3> QED
      BY <2>0, <3>1, EndingCloses
  <2> QED
    BY <2>1, <2>2
<1>2. ASSUME NEW r \in Requests, NEW u \in Users, NEW verdict, NEW d,
             ReviewRead(w, r, u, verdict, d)
      PROVE  UNCHANGED Promise!vars
  BY <1>2, SameGrants DEF ReviewRead, rowVars
<1>3. CASE ReviewCheckApprover(w) \/ ReviewLost(w) \/ ReviewAudit(w)
  BY <1>3, SameGrants
     DEF ReviewCheckApprover, ReviewLost, ReviewAudit, rowVars
<1> QED
  BY <1>1, <1>2, <1>3 DEF Review

LEMMA CredentialsRefine ==
    ASSUME TypeOK, TypeOK', GrantInv, GrantInv', KnownInv,
           NEW w \in Workers, GenerateSshCredentials(w)
    PROVE  Promise!Next \/ UNCHANGED Promise!vars
<1>1. ASSUME NEW c \in Certs, CreateCert(w, c) PROVE Promise!Next
  <2> DEFINE q == call[w].req
  <2>1. q \in Requests /\ status[q] \in Granted
    BY <1>1, CallKinds
       DEF CreateCert, At, TypeOK, GrantInv, SigningAt, SignsWithinGrant
  <2>2. /\ certRequest[c] = NoRequest
        /\ certRequest' = [certRequest EXCEPT ![c] = q]
        /\ validBefore' = [validBefore EXCEPT ![c] = validBefore'[c]]
        /\ signedUntil' = [signedUntil EXCEPT ![c] = signedUntil'[c]]
    BY <1>1 DEF CreateCert, KnownInv, TypeOK
  <2>3. /\ validBefore'[c] \in 0..expiresAt[q]
        /\ signedUntil'[c] \in Nat /\ signedUntil'[c] >= validBefore'[c]
    <3>1. certStatus'[c] # "NONE" /\ certRequest'[c] = q
      BY <1>1, <2>2 DEF CreateCert, TypeOK
    <3>2. /\ validBefore'[c] <= expiresAt'[q] /\ validBefore'[c] \in Nat
          /\ validBefore'[c] <= signedUntil'[c] /\ signedUntil'[c] \in Nat
      BY <3>1 DEF GrantInv, CertInGrant, TypeOK
    <3>3. expiresAt' = expiresAt /\ expiresAt[q] \in Nat
      BY <1>1, <2>1 DEF CreateCert, rowVars, TypeOK
    <3> QED
      BY <3>2, <3>3
  <2>4. StageOf[q] \in {"granted", "over"} /\ StageOf' = StageOf
    BY <1>1, <2>1, StageType
       DEF CreateCert, rowVars, StageOf, Stage, Granted, Final
  <2>5. Dead' = Dead
    BY <1>1 DEF CreateCert, Dead, TypeOK
  <2>6. Promise!Issue(c, q)
    BY <1>1, <2>1, <2>2, <2>3, <2>4, <2>5
       DEF CreateCert, rowVars, Promise!Issue, StageOf, Dead
  <2> QED
    BY <2>1, <2>6 DEF Promise!Next
<1>2. ASSUME \/ \E r \in Requests : CredentialsRead(w, r)
             \/ Sign(w) \/ LinkCert(w) \/ SignFails(w)
      PROVE  UNCHANGED Promise!vars
  BY <1>2, SameGrants DEF CredentialsRead, Sign, LinkCert, SignFails, rowVars
<1> QED
  BY <1>1, <1>2 DEF GenerateSshCredentials

LEMMA RevokeRefines ==
    ASSUME TypeOK, TypeOK', GrantInv, KnownInv, NEW w \in Workers, Revoke(w)
    PROVE  Promise!Next \/ UNCHANGED Promise!vars
<1>1. ASSUME NEW r \in Requests, RevokeRead(w, r)
      PROVE  UNCHANGED Promise!vars
  BY <1>1, SameGrants DEF RevokeRead, rowVars
<1>2. CASE RevokeWrite(w)
  <2>1. call[w].req \in Requests /\ status[call[w].req] # "NONE"
    BY <1>2, CallKinds DEF RevokeWrite, At, TypeOK, RevokeCalls, KnownInv
  <2>2. Ends({call[w].req})
    BY <1>2, <2>1 DEF RevokeWrite, Ends, Final, TypeOK
  <2> QED
    BY <2>1, <2>2, EndingCloses
<1>3. CASE RevokeCertOf(w)
  <2>1. Withdraws
    BY <1>3 DEF RevokeCertOf, CertRevoked, Withdraws, Dead, rowVars
  <2> QED
    BY <2>1, WithdrawingKills
<1> QED
  BY <1>1, <1>2, <1>3 DEF Revoke

LEMMA DisableRefines ==
    ASSUME TypeOK, TypeOK', GrantInv, NEW w \in Workers, Disable(w)
    PROVE  Promise!Next \/ UNCHANGED Promise!vars
<1>1. ASSUME \/ \E u \in Users, order \in {"suspend", "delete"} :
                   DisableStart(w, u, order)
             \/ DisableMark(w)
      PROVE  UNCHANGED Promise!vars
  BY <1>1, SameGrants DEF DisableStart, DisableMark, rowVars
<1>2. CASE DisableRevokeRequests(w)
  <2> DEFINE S == {r \in Requests : requester[r] = call[w].user
                                      /\ status[r] \in Live}
  <2>1. Ends(S)
    BY <1>2 DEF DisableRevokeRequests, Ends, Final, Live, TypeOK
  <2> QED
    BY <2>1, EndingCloses
<1>3. CASE DisableRevokeCerts(w)
  <2>1. Withdraws
    BY <1>3 DEF DisableRevokeCerts, Withdraws, Dead, rowVars
  <2> QED
    BY <2>1, WithdrawingKills
<1> QED
  BY <1>1, <1>2, <1>3 DEF Disable

LEMMA SweepsRefine ==
    ASSUME TypeOK, TypeOK', GrantInv, KnownInv,
           MarkExpired \/ MarkPendingExpired
    PROVE  Promise!Next \/ UNCHANGED Promise!vars
<1>1. CASE ExpireFind \/ PendingFind
  BY <1>1, SameGrants DEF ExpireFind, PendingFind, rowVars
<1>2. ASSUME NEW r \in Requests, ExpireWrite(r) \/ PendingWrite(r)
      PROVE  Promise!Next
  <2>1. Ends({r})
    BY <1>2 DEF ExpireWrite, PendingWrite, Ends, Final, KnownInv, TypeOK
  <2> QED
    BY <2>1, EndingCloses
<1>3. CASE ExpireRevokeCert
  <2>1. Withdraws
    BY <1>3 DEF ExpireRevokeCert, CertRevoked, Withdraws, Dead, rowVars
  <2> QED
    BY <2>1, WithdrawingKills
<1> QED
  BY <1>1, <1>2, <1>3 DEF MarkExpired, MarkPendingExpired

(***************************************************************************)
(* Every step of AccessRequests is a step of Grants or changes nothing     *)
(* there.                                                                  *)
(***************************************************************************)
LEMMA StepRefines ==
    ASSUME TypeOK, TypeOK', GrantInv, GrantInv', KnownInv, [Next]_vars
    PROVE  [Promise!Next]_(Promise!vars)
<1>1. ASSUME NEW w \in Workers,
             \/ Submit(w) \/ Review(w) \/ GenerateSshCredentials(w)
             \/ Revoke(w) \/ Disable(w)
      PROVE  Promise!Next \/ UNCHANGED Promise!vars
  BY <1>1, SubmitRefines, ReviewRefines, CredentialsRefine, RevokeRefines,
     DisableRefines
<1>2. CASE MarkExpired \/ MarkPendingExpired
  BY <1>2, SweepsRefine
<1>3. CASE (\E c \in Certs : AdminRevokeCert(c)) \/ MarkCertsExpired
  <2>1. Withdraws
    BY <1>3 DEF AdminRevokeCert, CertRevoked, MarkCertsExpired, Withdraws,
                Dead, rowVars
  <2> QED
    BY <2>1, WithdrawingKills
<1>4. CASE Tick \/ Restart \/ UNCHANGED vars
  BY <1>4, SameGrants DEF Tick, Restart, rowVars, vars
<1> QED
  BY <1>1, <1>2, <1>3, <1>4 DEF Next

LEMMA InitRefines == Init => Promise!Init
  BY DEF Init, Promise!Init, Stage

(***************************************************************************)
(* The lifecycle with its handlers, sweeps, cascade and restarts           *)
(* implements Grants.                                                      *)
(***************************************************************************)
THEOREM Refinement == Spec => ImplementsGrants
<1>1. Init => TypeOK /\ GrantInv /\ KnownInv /\ Promise!Init
  <2>1. Init => TypeOK
    BY DEF Init, TypeOK, Statuses, CertStatuses, Calls
  <2>2. Init => GrantInv /\ KnownInv
    BY DEF Init, GrantInv, SigningAt, KnownInv, At, Idle
  <2> QED
    BY <2>1, <2>2, InitRefines
<1>2. TypeOK /\ GrantInv /\ KnownInv /\ [Next]_vars
        => TypeOK' /\ GrantInv' /\ KnownInv'
  BY TypeStep, GrantInvCredentials, OtherStepsSignNothing,
     NothingSignedKeepsGrantInv, KnownStep
<1>3. TypeOK /\ TypeOK' /\ GrantInv /\ GrantInv' /\ KnownInv /\ [Next]_vars
        => [Promise!Next]_(Promise!vars)
  BY StepRefines
<1> QED
  BY <1>1, <1>2, <1>3, PTL DEF Spec, ImplementsGrants, Promise!Spec

-----------------------------------------------------------------------------
(***************************************************************************)
(* The decision on record.  The audit row names who decided and how, in a  *)
(* step after the claim, so the invariant carries what it will say from    *)
(* the handler's first read on: the reviewer is an approver of the row,    *)
(* the requester is none, and the claim left the row as the audit row will *)
(* report it.                                                              *)
(***************************************************************************)
Reviewing == {"checkApprover", "claim", "auditDecision"}

RecordInv ==
    /\ \A r \in Requests : status[r] \in Open => expiresAt[r] = 0
    /\ \A r \in Requests : status[r] = "NONE" => approvers[r] = {}
    /\ \A r \in Requests :
          status[r] = "PENDING" => reviewer[r] \in approvers[r]
    /\ \A r \in Requests : requester[r] \notin approvers[r]
    /\ \A w \in Workers : At(w, "createPending") =>
          call[w].primary \in call[w].team /\ call[w].by \notin call[w].team
    /\ \A w \in Workers : call[w].at \in Reviewing =>
          /\ status[call[w].req] # "NONE"
          /\ call[w].by \in approvers[call[w].req]
          /\ call[w].verdict = "approve" => call[w].dur > 0
    /\ \A w \in Workers : At(w, "auditDecision") =>
          /\ call[w].by = reviewer[call[w].req]
          /\ call[w].verdict = "approve" <=> expiresAt[call[w].req] > 0
    /\ DecisionOnRecord

(***************************************************************************)
(* A step that starts no review or submission, claims nothing and writes   *)
(* no audit row.                                                           *)
(***************************************************************************)
RecordUntouched ==
    /\ UNCHANGED <<requester, reviewer, approvers, expiresAt, decisions>>
    /\ \A r \in Requests : status'[r] \in Open => status'[r] = status[r]
    /\ \A w \in Workers :
          call'[w].at \in Reviewing \cup {"createPending"}
             => call'[w] = call[w]

LEMMA ReviewersRow ==
    ASSUME TypeOK, NEW w \in Workers, call[w].at \in Reviewing
    PROVE  call[w] \in ReviewCalls /\ call[w].req \in Requests
  BY CallKinds DEF TypeOK, Reviewing, ReviewCalls

LEMMA UntouchedKeepsRecordInv ==
    ASSUME TypeOK, RecordInv, RowsStay, RecordUntouched PROVE RecordInv'
<1>1. /\ \A r \in Requests : status'[r] \in Open => expiresAt'[r] = 0
      /\ \A r \in Requests : status'[r] = "NONE" => approvers'[r] = {}
      /\ \A r \in Requests :
            status'[r] = "PENDING" => reviewer'[r] \in approvers'[r]
      /\ \A r \in Requests : requester'[r] \notin approvers'[r]
  BY DEF RecordInv, RecordUntouched, Open
<1>2. \A w \in Workers : At(w, "createPending")' =>
         call'[w].primary \in call'[w].team /\ call'[w].by \notin call'[w].team
  BY DEF RecordInv, RecordUntouched, At
<1>3. \A w \in Workers : call'[w].at \in Reviewing =>
         /\ status'[call'[w].req] # "NONE"
         /\ call'[w].by \in approvers'[call'[w].req]
         /\ call'[w].verdict = "approve" => call'[w].dur > 0
  BY ReviewersRow DEF RecordInv, RecordUntouched, RowsStay
<1>4. \A w \in Workers : At(w, "auditDecision")' =>
         /\ call'[w].by = reviewer'[call'[w].req]
         /\ call'[w].verdict = "approve" <=> expiresAt'[call'[w].req] > 0
  BY DEF RecordInv, RecordUntouched, At, Reviewing
<1>5. DecisionOnRecord'
  BY DEF RecordInv, RecordUntouched, DecisionOnRecord
<1> QED
  BY <1>1, <1>2, <1>3, <1>4, <1>5 DEF RecordInv, At

(***************************************************************************)
(* submit keeps RecordInv: the team it resolves leaves the requester out.  *)
(***************************************************************************)
LEMMA RecordInvSubmit ==
    ASSUME TypeOK, RecordInv, DecisionInv, RowsStay,
           NEW w \in Workers, Submit(w)
    PROVE  RecordInv'
<1> USE DEF TypeOK, rowVars
<1>0. \A x \in Workers : call[x].at \in Reviewing =>
         call[x].req \in Requests /\ status[call[x].req] # "NONE"
  BY ReviewersRow DEF RecordInv
<1>1. ASSUME NEW u \in Users, SubmitForApproval(w, u) PROVE RecordInv'
  <2>a. PICK team \in ResolveApprovers(u) : \E primary \in team :
           call' = [call EXCEPT ![w] = [at |-> "createPending", by |-> u,
                                        team |-> team, primary |-> primary]]
    BY <1>1 DEF SubmitForApproval, Goto
  <2>1. PICK primary \in team :
           call' = [call EXCEPT ![w] = [at |-> "createPending", by |-> u,
                                        team |-> team, primary |-> primary]]
    BY <2>a
  <2>2. /\ call'[w].primary \in call'[w].team
        /\ call'[w].by \notin call'[w].team
        /\ call'[w].at = "createPending"
        /\ \A x \in Workers : x # w => call'[x] = call[x]
    BY <2>1 DEF ResolveApprovers
  <2>3. UNCHANGED <<rowVars, decisions>>
    BY <1>1 DEF SubmitForApproval
  <2>4. \A x \in Workers : At(x, "createPending")' =>
           /\ call'[x].primary \in call'[x].team
           /\ call'[x].by \notin call'[x].team
    BY <2>2 DEF RecordInv, At
  <2>5. \A x \in Workers : call'[x].at \in Reviewing => call'[x] = call[x]
    BY <2>2 DEF Reviewing
  <2>6. /\ \A r \in Requests : status'[r] \in Open => expiresAt'[r] = 0
        /\ \A r \in Requests : status'[r] = "NONE" => approvers'[r] = {}
        /\ \A r \in Requests :
              status'[r] = "PENDING" => reviewer'[r] \in approvers'[r]
        /\ \A r \in Requests : requester'[r] \notin approvers'[r]
        /\ DecisionOnRecord'
    BY <2>3 DEF RecordInv, DecisionOnRecord
  <2>7. \A x \in Workers : call'[x].at \in Reviewing =>
           /\ status'[call'[x].req] # "NONE"
           /\ call'[x].by \in approvers'[call'[x].req]
           /\ call'[x].verdict = "approve" => call'[x].dur > 0
    BY <2>3, <2>5 DEF RecordInv
  <2>8. \A x \in Workers : At(x, "auditDecision")' =>
           /\ call'[x].by = reviewer'[call'[x].req]
           /\ call'[x].verdict = "approve" <=> expiresAt'[call'[x].req] > 0
    BY <2>3, <2>5 DEF RecordInv, At, Reviewing
  <2> QED
    BY <2>4, <2>6, <2>7, <2>8 DEF RecordInv, At
<1>2. ASSUME NEW u \in Users, NEW d \in Durations, NEW max \in PolicyMaxes,
             SubmitAllowed(w, u, d, max)
      PROVE  RecordInv'
  <2>1. RecordUntouched
    BY <1>2 DEF SubmitAllowed, Goto, RecordUntouched, Reviewing
  <2> QED
    BY <2>1, UntouchedKeepsRecordInv
<1>3. ASSUME NEW r \in Requests, CreatePending(w, r) \/ CreateApproved(w, r)
      PROVE  RecordInv'
  <2>1. \A x \in Workers :
           call'[x].at \in Reviewing \cup {"createPending"} =>
              call'[x] = call[x]
    BY <1>3 DEF CreatePending, CreateApproved, Goto, Idle, Reviewing
  <2>2. status[r] = "NONE" /\ decisions[r] = <<>> /\ decisions' = decisions
    BY <1>3 DEF CreatePending, CreateApproved, DecisionInv, Open
  <2>3. \A q \in Requests \ {r} :
           /\ status'[q] = status[q] /\ requester'[q] = requester[q]
           /\ reviewer'[q] = reviewer[q] /\ approvers'[q] = approvers[q]
           /\ expiresAt'[q] = expiresAt[q]
    BY <1>3 DEF CreatePending, CreateApproved
  <2>4. /\ status'[r] \in Open => expiresAt'[r] = 0
        /\ status'[r] # "NONE"
        /\ status'[r] = "PENDING" => reviewer'[r] \in approvers'[r]
        /\ requester'[r] \notin approvers'[r]
    <3>1. CASE CreatePending(w, r)
      BY <3>1, <2>2 DEF CreatePending, RecordInv, Open
    <3>2. CASE CreateApproved(w, r)
      BY <3>2, <2>2 DEF CreateApproved, RecordInv, Open
    <3> QED
      BY <1>3, <3>1, <3>2
  <2>5. \A x \in Workers : call'[x].at \in Reviewing =>
           call[x].req \in Requests \ {r}
    BY <1>0, <2>1, <2>2
  <2>6. \A q \in Requests :
           /\ status'[q] \in Open => expiresAt'[q] = 0
           /\ status'[q] = "NONE" => approvers'[q] = {}
           /\ status'[q] = "PENDING" => reviewer'[q] \in approvers'[q]
           /\ requester'[q] \notin approvers'[q]
    <3> SUFFICES ASSUME NEW q \in Requests
                 PROVE  /\ status'[q] \in Open => expiresAt'[q] = 0
                        /\ status'[q] = "NONE" => approvers'[q] = {}
                        /\ status'[q] = "PENDING" =>
                             reviewer'[q] \in approvers'[q]
                        /\ requester'[q] \notin approvers'[q]
      OBVIOUS
    <3>1. CASE q = r
      BY <2>4, <3>1
    <3>2. CASE q # r
      BY <2>3, <3>2 DEF RecordInv
    <3> QED
      BY <3>1, <3>2
  <2>7. \A x \in Workers : call'[x].at \in Reviewing =>
           /\ status'[call'[x].req] # "NONE"
           /\ call'[x].by \in approvers'[call'[x].req]
           /\ call'[x].verdict = "approve" => call'[x].dur > 0
    BY <2>1, <2>3, <2>5 DEF RecordInv
  <2>8. \A x \in Workers : At(x, "auditDecision")' =>
           /\ call'[x].by = reviewer'[call'[x].req]
           /\ call'[x].verdict = "approve" <=> expiresAt'[call'[x].req] > 0
    BY <2>1, <2>3, <2>5 DEF RecordInv, At, Reviewing
  <2>9. DecisionOnRecord'
    <3> SUFFICES ASSUME NEW q \in Requests, NEW i \in 1..Len(decisions'[q])
                 PROVE  /\ decisions'[q][i][1]
                             \in approvers'[q] \ {requester'[q]}
                        /\ decisions'[q][i][1] = reviewer'[q]
                        /\ decisions'[q][i][2] = "approve"
                             <=> expiresAt'[q] > 0
      BY DEF DecisionOnRecord
    <3>1. q # r
      BY <2>2
    <3> QED
      BY <2>2, <2>3, <3>1 DEF RecordInv, DecisionOnRecord
  <2> QED
    BY <2>1, <2>6, <2>7, <2>8, <2>9 DEF RecordInv, At
<1> QED
  BY <1>1, <1>2, <1>3 DEF Submit

LEMMA ClampPositive ==
    ASSUME NEW d \in Nat, d > 0, NEW max \in Nat PROVE Clamp(d, max) > 0
  BY DEF Clamp

(***************************************************************************)
(* review keeps RecordInv: the reviewer was an approver when the handler   *)
(* began, the claim writes what the audit row will say.                    *)
(***************************************************************************)
LEMMA RecordInvClaim ==
    ASSUME TypeOK, RecordInv, DecisionInv, RowsStay, NEW w \in Workers,
           NEW max \in PolicyMaxes, ReviewClaim(w, max)
    PROVE  RecordInv'
<1> DEFINE q == call[w].req
<1> USE DEF TypeOK, rowVars
<1>1. call[w] \in ReviewCalls /\ q \in Requests
  BY ReviewersRow DEF ReviewClaim, At, Reviewing
<1>2. /\ call[w].at = "claim" /\ status[q] = "PENDING"
      /\ decisions' = decisions /\ decisions[q] = <<>>
      /\ UNCHANGED <<requester, approvers>>
  BY <1>1 DEF ReviewClaim, At, ClaimsRow, DecisionInv, Open
<1>3. /\ call[w].by \in approvers[q]
      /\ call[w].verdict = "approve" => call[w].dur > 0
      /\ expiresAt[q] = 0
  BY <1>1, <1>2 DEF RecordInv, Reviewing, Open
<1>4. /\ call'[w] = [call[w] EXCEPT !.at = "auditDecision"]
      /\ \A x \in Workers : x # w => call'[x] = call[x]
  BY DEF ReviewClaim, Goto
<1>5. /\ \A r \in Requests \ {q} :
            /\ status'[r] = status[r] /\ reviewer'[r] = reviewer[r]
            /\ expiresAt'[r] = expiresAt[r]
      /\ status'[q] \in {"APPROVED", "DENIED"} /\ reviewer'[q] = call[w].by
  BY <1>1 DEF ReviewClaim
<1>6. call[w].verdict = "approve" <=> expiresAt'[q] > 0
  <2>1. CASE call[w].verdict = "approve"
    <3>1. Clamp(call[w].dur, max) > 0 /\ Clamp(call[w].dur, max) \in Nat
      BY <1>1, <1>3, <2>1, ClampPositive, ClampNat, ConstantsAssumption
         DEF ReviewCalls
    <3>2. expiresAt'[q] = call[w].start + Clamp(call[w].dur, max)
      BY <1>1, <2>1 DEF ReviewClaim
    <3> QED
      BY <1>1, <2>1, <3>1, <3>2 DEF ReviewCalls
  <2>2. CASE call[w].verdict # "approve"
    BY <1>3, <2>2 DEF ReviewClaim
  <2> QED
    BY <2>1, <2>2
<1>7. \A r \in Requests :
         /\ status'[r] \in Open => expiresAt'[r] = 0
         /\ status'[r] = "NONE" => approvers'[r] = {}
         /\ status'[r] = "PENDING" => reviewer'[r] \in approvers'[r]
         /\ requester'[r] \notin approvers'[r]
  <2> SUFFICES ASSUME NEW r \in Requests
               PROVE  /\ status'[r] \in Open => expiresAt'[r] = 0
                      /\ status'[r] = "NONE" => approvers'[r] = {}
                      /\ status'[r] = "PENDING" =>
                           reviewer'[r] \in approvers'[r]
                      /\ requester'[r] \notin approvers'[r]
    OBVIOUS
  <2>1. CASE r = q
    BY <1>2, <1>5, <2>1 DEF RecordInv, Open
  <2>2. CASE r # q
    BY <1>2, <1>5, <2>2 DEF RecordInv
  <2> QED
    BY <2>1, <2>2
<1>8. \A x \in Workers : At(x, "createPending")' =>
         call'[x].primary \in call'[x].team /\ call'[x].by \notin call'[x].team
  BY <1>1, <1>4 DEF RecordInv, At, ReviewCalls
<1>9. \A x \in Workers : call'[x].at \in Reviewing =>
         /\ status'[call'[x].req] # "NONE"
         /\ call'[x].by \in approvers'[call'[x].req]
         /\ call'[x].verdict = "approve" => call'[x].dur > 0
  <2> SUFFICES ASSUME NEW x \in Workers, call'[x].at \in Reviewing
               PROVE  /\ status'[call'[x].req] # "NONE"
                      /\ call'[x].by \in approvers'[call'[x].req]
                      /\ call'[x].verdict = "approve" => call'[x].dur > 0
    OBVIOUS
  <2>1. CASE x = w
    <3>1. /\ call'[x].req = q /\ call'[x].by = call[w].by
          /\ call'[x].verdict = call[w].verdict /\ call'[x].dur = call[w].dur
      BY <1>1, <1>4, <2>1 DEF ReviewCalls
    <3> QED
      BY <1>2, <1>3, <1>5, <3>1
  <2>2. CASE x # w
    BY <1>2, <1>4, <1>5, <2>2, ReviewersRow DEF RecordInv, RowsStay
  <2> QED
    BY <2>1, <2>2
<1>10. \A x \in Workers : At(x, "auditDecision")' =>
          /\ call'[x].by = reviewer'[call'[x].req]
          /\ call'[x].verdict = "approve" <=> expiresAt'[call'[x].req] > 0
  <2> SUFFICES ASSUME NEW x \in Workers, call'[x].at = "auditDecision"
               PROVE  /\ call'[x].by = reviewer'[call'[x].req]
                      /\ call'[x].verdict = "approve"
                           <=> expiresAt'[call'[x].req] > 0
    BY DEF At
  <2>1. CASE x = w
    <3>1. /\ call'[x].req = q /\ call'[x].by = call[w].by
          /\ call'[x].verdict = call[w].verdict
      BY <1>1, <1>4, <2>1 DEF ReviewCalls
    <3> QED
      BY <1>5, <1>6, <3>1
  <2>2. CASE x # w
    <3>1. call'[x] = call[x] /\ At(x, "auditDecision")
      BY <1>4, <2>2 DEF At
    <3>2. call[x].req \in Requests \ {q}
      BY <1>2, <3>1, ReviewersRow DEF DecisionInv, Open, At, Reviewing
    <3> QED
      BY <1>5, <3>1, <3>2 DEF RecordInv
  <2> QED
    BY <2>1, <2>2
<1>11. DecisionOnRecord'
  <2> SUFFICES ASSUME NEW r \in Requests, NEW i \in 1..Len(decisions'[r])
               PROVE  /\ decisions'[r][i][1]
                           \in approvers'[r] \ {requester'[r]}
                      /\ decisions'[r][i][1] = reviewer'[r]
                      /\ decisions'[r][i][2] = "approve" <=> expiresAt'[r] > 0
    BY DEF DecisionOnRecord
  <2>1. r # q
    BY <1>2
  <2> QED
    BY <1>2, <1>5, <2>1 DEF RecordInv, DecisionOnRecord
<1> QED
  BY <1>7, <1>8, <1>9, <1>10, <1>11 DEF RecordInv, At

LEMMA RecordInvAudit ==
    ASSUME TypeOK, RecordInv, DecisionInv, RowsStay, NEW w \in Workers,
           ReviewAudit(w)
    PROVE  RecordInv'
<1> DEFINE q == call[w].req
           row == <<call[w].by, call[w].verdict>>
<1>1. call[w] \in ReviewCalls /\ q \in Requests /\ At(w, "auditDecision")
  BY ReviewersRow DEF ReviewAudit, At, Reviewing
<1>2. /\ call'[w].at = "idle"
      /\ \A x \in Workers : x # w => call'[x] = call[x]
  BY DEF ReviewAudit, Goto, Idle, TypeOK
<1>3. UNCHANGED rowVars
  BY DEF ReviewAudit
<1>4. /\ row[1] \in approvers[q] \ {requester[q]}
      /\ row[1] = reviewer[q]
      /\ row[2] = "approve" <=> expiresAt[q] > 0
  BY <1>1 DEF RecordInv, At, Reviewing
<1>5. /\ decisions[q] = <<>>
      /\ decisions'[q] = Append(<<>>, row)
      /\ \A r \in Requests \ {q} : decisions'[r] = decisions[r]
  BY <1>1 DEF ReviewAudit, DecisionInv, TypeOK
<1>6. row \in Users \X Verdicts
  BY <1>1 DEF ReviewCalls
<1>7. Len(decisions'[q]) = 1 /\ decisions'[q][1] = row
  <2> HIDE DEF row
  <2> QED
    BY <1>5, <1>6
<1>8. DecisionOnRecord'
  <2> SUFFICES ASSUME NEW r \in Requests, NEW i \in 1..Len(decisions'[r])
               PROVE  /\ decisions'[r][i][1]
                           \in approvers'[r] \ {requester'[r]}
                      /\ decisions'[r][i][1] = reviewer'[r]
                      /\ decisions'[r][i][2] = "approve" <=> expiresAt'[r] > 0
    BY DEF DecisionOnRecord
  <2>1. CASE r = q
    <3>a. Len(decisions'[r]) = 1
      BY <1>7, <2>1, Zenon
    <3>1. i = 1
      BY <3>a, SMT
    <3>2. decisions'[r][i] = row
      BY <1>7, <2>1, <3>1
    <3> QED
      BY <1>3, <1>4, <2>1, <3>2 DEF rowVars
  <2>2. CASE r # q
    BY <1>3, <1>5, <2>2 DEF RecordInv, DecisionOnRecord, rowVars
  <2> QED
    BY <2>1, <2>2
<1>9. /\ \A x \in Workers : At(x, "createPending")' =>
            /\ call'[x].primary \in call'[x].team
            /\ call'[x].by \notin call'[x].team
      /\ \A x \in Workers : call'[x].at \in Reviewing =>
            /\ status'[call'[x].req] # "NONE"
            /\ call'[x].by \in approvers'[call'[x].req]
            /\ call'[x].verdict = "approve" => call'[x].dur > 0
      /\ \A x \in Workers : At(x, "auditDecision")' =>
            /\ call'[x].by = reviewer'[call'[x].req]
            /\ call'[x].verdict = "approve" <=> expiresAt'[call'[x].req] > 0
  BY <1>2, <1>3 DEF RecordInv, At, Reviewing, rowVars
<1> QED
  BY <1>3, <1>8, <1>9 DEF RecordInv, At, rowVars

LEMMA RecordInvReview ==
    ASSUME TypeOK, RecordInv, DecisionInv, RowsStay,
           NEW w \in Workers, Review(w)
    PROVE  RecordInv'
<1> USE DEF rowVars
<1>1. ASSUME NEW r \in Requests, NEW u \in Users, NEW verdict, NEW d,
             ReviewRead(w, r, u, verdict, d),
             verdict = "approve" => d > 0
      PROVE  RecordInv'
  <2>1. call' = [call EXCEPT ![w] = [at |-> "checkApprover", req |-> r,
                    by |-> u, verdict |-> verdict, dur |-> d, start |-> 0]]
    BY <1>1 DEF ReviewRead, Goto
  <2>2. /\ call'[w].req = r /\ call'[w].by = u /\ call'[w].dur = d
        /\ call'[w].verdict = verdict /\ call'[w].at = "checkApprover"
        /\ \A x \in Workers : x # w => call'[x] = call[x]
    BY <2>1 DEF TypeOK
  <2>3. UNCHANGED <<rowVars, decisions>>
    BY <1>1 DEF ReviewRead
  <2>4. status[r] = "PENDING" /\ u \in approvers[r]
    BY <1>1 DEF ReviewRead, IsEligibleApprover, RecordInv
  <2>5. \A x \in Workers : call'[x].at \in Reviewing =>
           /\ status'[call'[x].req] # "NONE"
           /\ call'[x].by \in approvers'[call'[x].req]
           /\ call'[x].verdict = "approve" => call'[x].dur > 0
    BY <1>1, <2>2, <2>3, <2>4 DEF RecordInv
  <2>6. \A x \in Workers :
           At(x, "createPending")' \/ At(x, "auditDecision")'
              => call'[x] = call[x]
    BY <2>2 DEF At
  <2> QED
    BY <2>3, <2>5, <2>6 DEF RecordInv, DecisionOnRecord, At
<1>2. CASE ReviewCheckApprover(w)
  <2>1. /\ call[w] \in ReviewCalls /\ call[w].req \in Requests
        /\ call[w].at \in Reviewing
    BY <1>2, ReviewersRow DEF ReviewCheckApprover, At, Reviewing
  <2>2. \A x \in Workers : x # w => call'[x] = call[x]
    BY <1>2 DEF ReviewCheckApprover, Goto, TypeOK
  <2>3. UNCHANGED <<rowVars, decisions>>
    BY <1>2 DEF ReviewCheckApprover
  <2>4. \/ call'[w] = Idle
        \/ call'[w] = [call[w] EXCEPT !.at = "claim", !.start = now]
    BY <1>2 DEF ReviewCheckApprover, Goto, TypeOK
  <2>5. \/ call'[w].at = "idle"
        \/ /\ call'[w].at = "claim" /\ call'[w].req = call[w].req
           /\ call'[w].by = call[w].by /\ call'[w].dur = call[w].dur
           /\ call'[w].verdict = call[w].verdict
    <3>1. CASE call'[w] = Idle
      BY <3>1 DEF Idle
    <3>2. CASE call'[w] = [call[w] EXCEPT !.at = "claim", !.start = now]
      BY <2>1, <3>2 DEF ReviewCalls
    <3> QED
      BY <2>4, <3>1, <3>2
  <2>6. \A x \in Workers : call'[x].at \in Reviewing =>
           /\ status'[call'[x].req] # "NONE"
           /\ call'[x].by \in approvers'[call'[x].req]
           /\ call'[x].verdict = "approve" => call'[x].dur > 0
    BY <2>1, <2>2, <2>3, <2>5 DEF RecordInv, Reviewing
  <2>7. \A x \in Workers :
           At(x, "createPending")' \/ At(x, "auditDecision")'
              => call'[x] = call[x]
    BY <2>2, <2>5 DEF At
  <2> QED
    BY <2>3, <2>6, <2>7 DEF RecordInv, DecisionOnRecord, At
<1>3. ASSUME NEW max \in PolicyMaxes, ReviewClaim(w, max) PROVE RecordInv'
  BY <1>3, RecordInvClaim
<1>4. CASE ReviewLost(w)
  <2>1. RecordUntouched
    BY <1>4 DEF ReviewLost, Goto, Idle, RecordUntouched, Reviewing, TypeOK
  <2> QED
    BY <2>1, UntouchedKeepsRecordInv
<1>5. CASE ReviewAudit(w)
  BY <1>5, RecordInvAudit
<1>6. \A d \in Durations : d > 0
  BY ConstantsAssumption
<1> QED
  BY <1>1, <1>2, <1>3, <1>4, <1>5, <1>6 DEF Review

(***************************************************************************)
(* Every other step leaves what the record is about alone.                 *)
(***************************************************************************)
LEMMA OtherStepsLeaveRecord ==
    ASSUME TypeOK, [Next]_vars,
           ~ \E w \in Workers : Submit(w) \/ Review(w)
    PROVE  RecordUntouched
<1> USE DEF TypeOK, rowVars, certVars, RecordUntouched, Open, Reviewing
<1>1. ASSUME NEW w \in Workers, GenerateSshCredentials(w)
      PROVE  RecordUntouched
  <2>1. ASSUME NEW r \in Requests, CredentialsRead(w, r)
        PROVE  RecordUntouched
    BY <2>1 DEF CredentialsRead, Goto
  <2>2. ASSUME NEW c \in Certs, CreateCert(w, c) PROVE RecordUntouched
    BY <2>2 DEF CreateCert, Goto
  <2>3. CASE Sign(w) \/ LinkCert(w) \/ SignFails(w)
    BY <2>3 DEF Sign, LinkCert, SignFails, Goto, Idle
  <2> QED
    BY <1>1, <2>1, <2>2, <2>3 DEF GenerateSshCredentials
<1>2. ASSUME NEW w \in Workers, Revoke(w) PROVE RecordUntouched
  <2>1. ASSUME NEW r \in Requests, RevokeRead(w, r) PROVE RecordUntouched
    BY <2>1 DEF RevokeRead, Goto
  <2>2. CASE RevokeWrite(w)
    <3>1. call[w] \in RevokeCalls
      BY <2>2, CallKinds DEF RevokeWrite, At
    <3>2. call'[w].at = "revokeCert"
      BY <2>2, <3>1 DEF RevokeWrite, Goto, RevokeCalls
    <3>3. \A x \in Workers : call'[x].at \in Reviewing \cup {"createPending"}
             => call'[x] = call[x]
      BY <2>2, <3>2 DEF RevokeWrite, Goto
    <3>4. \A r \in Requests : status'[r] \in Open => status'[r] = status[r]
      BY <2>2 DEF RevokeWrite
    <3> QED
      BY <2>2, <3>3, <3>4 DEF RevokeWrite
  <2>3. CASE RevokeCertOf(w)
    BY <2>3 DEF RevokeCertOf, Goto, Idle
  <2> QED
    BY <1>2, <2>1, <2>2, <2>3 DEF Revoke
<1>3. ASSUME NEW w \in Workers, Disable(w) PROVE RecordUntouched
  <2>1. ASSUME NEW u \in Users, NEW order, DisableStart(w, u, order)
        PROVE  RecordUntouched
    BY <2>1 DEF DisableStart, Goto
  <2>2. ASSUME At(w, "disable"), NEW step, Done(w, step)
        PROVE  \A x \in Workers :
                  call'[x].at \in Reviewing \cup {"createPending"}
                     => call'[x] = call[x]
    <3>1. call[w] \in DisableCalls
      BY <2>2, CallKinds DEF At
    <3>2. call'[w].at \in {"idle", "disable"}
      BY <2>2, <3>1 DEF Done, Goto, Idle, DisableCalls
    <3> QED
      BY <2>2, <3>2 DEF Done, Goto
  <2>3. CASE DisableMark(w)
    BY <2>2, <2>3 DEF DisableMark
  <2>4. CASE DisableRevokeRequests(w)
    BY <2>2, <2>4 DEF DisableRevokeRequests, CascadeMayRun
  <2>5. CASE DisableRevokeCerts(w)
    BY <2>2, <2>5 DEF DisableRevokeCerts, CascadeMayRun
  <2> QED
    BY <1>3, <2>1, <2>3, <2>4, <2>5 DEF Disable
<1>4. CASE MarkExpired \/ MarkPendingExpired
  BY <1>4 DEF MarkExpired, ExpireFind, ExpireWrite, ExpireRevokeCert,
              MarkPendingExpired, PendingFind, PendingWrite
<1>5. CASE (\E c \in Certs : AdminRevokeCert(c)) \/ MarkCertsExpired
             \/ Tick \/ UNCHANGED vars
  BY <1>5 DEF AdminRevokeCert, MarkCertsExpired, Tick, vars
<1>6. CASE Restart
  BY <1>6 DEF Restart, Idle
<1> QED
  BY <1>1, <1>2, <1>3, <1>4, <1>5, <1>6 DEF Next

(***************************************************************************)
(* The decision on record was taken by an approver other than the          *)
(* requester, the row names the same person, and it has an expiry time     *)
(* exactly when it was approved.                                           *)
(***************************************************************************)
THEOREM RecordIsTrue == Spec => []DecisionOnRecord
<1>1. Init => RecordInv /\ DecisionInv
  <2> SUFFICES ASSUME Init PROVE RecordInv /\ DecisionInv
    OBVIOUS
  <2>1. DecisionInv
    BY DEF Init, DecisionInv, OneDecision, At, Idle
  <2>2. DecisionOnRecord
    BY DEF Init, DecisionOnRecord
  <2>3. RecordInv
    BY <2>2, ConstantsAssumption
       DEF Init, RecordInv, Open, Reviewing, At, Idle
  <2> QED
    BY <2>1, <2>3
<1>2. TypeOK /\ DecisionInv /\ RecordInv /\ [Next]_vars
        => DecisionInv' /\ RecordInv'
  BY RowsAreKept, DecisionInvReview, OtherStepsDecideNothing,
     NothingDecidedKeepsDecisionInv, RecordInvSubmit, RecordInvReview,
     OtherStepsLeaveRecord, UntouchedKeepsRecordInv
<1>3. RecordInv => DecisionOnRecord
  BY DEF RecordInv
<1> QED
  BY <1>1, <1>2, <1>3, TypeCorrect, PTL DEF Spec

-----------------------------------------------------------------------------
(***************************************************************************)
(* The sweeps write rows they have looked at earlier.  What follows shows  *)
(* that the steps excluded by NoGrantOfSwept and NoRevocationOfSwept are   *)
(* the only ones that spoil what they saw.  First: who grants a request,   *)
(* and who takes a granted one out of APPROVED.                            *)
(***************************************************************************)
LEMMA WhoGrants ==
    ASSUME TypeOK, [Next]_vars, NEW r \in Requests,
           status[r] \notin {"NONE", "APPROVED"}, status'[r] = "APPROVED"
    PROVE  \E w \in Workers : /\ At(w, "claim")
                              /\ call[w].verdict = "approve"
                              /\ call[w].req = r
<1> DEFINE Goal == \E w \in Workers : /\ At(w, "claim")
                                      /\ call[w].verdict = "approve"
                                      /\ call[w].req = r
<1> USE DEF TypeOK, rowVars
<1>1. ASSUME NEW w \in Workers, Submit(w) PROVE Goal
  BY <1>1 DEF Submit, SubmitForApproval, SubmitAllowed, CreatePending,
              CreateApproved
<1>2. ASSUME NEW w \in Workers, Review(w) PROVE Goal
  <2>1. ASSUME NEW max \in PolicyMaxes, ReviewClaim(w, max) PROVE Goal
    <3>1. At(w, "claim") /\ call[w].verdict = "approve" /\ call[w].req = r
      BY <2>1 DEF ReviewClaim
    <3> QED
      BY <3>1
  <2> QED
    BY <1>2, <2>1 DEF Review, ReviewRead, ReviewCheckApprover, ReviewLost,
                      ReviewAudit
<1>3. ASSUME NEW w \in Workers, GenerateSshCredentials(w) PROVE Goal
  BY <1>3 DEF GenerateSshCredentials, CredentialsRead, Sign, CreateCert,
              LinkCert, SignFails
<1>4. ASSUME NEW w \in Workers, Revoke(w) PROVE Goal
  BY <1>4 DEF Revoke, RevokeRead, RevokeWrite, RevokeCertOf
<1>5. ASSUME NEW w \in Workers, Disable(w) PROVE Goal
  BY <1>5 DEF Disable, DisableStart, DisableMark, DisableRevokeRequests,
              DisableRevokeCerts
<1>6. CASE MarkExpired \/ MarkPendingExpired
  BY <1>6 DEF MarkExpired, ExpireFind, ExpireWrite, ExpireRevokeCert,
              MarkPendingExpired, PendingFind, PendingWrite
<1>7. CASE (\E c \in Certs : AdminRevokeCert(c)) \/ MarkCertsExpired \/ Tick
             \/ Restart \/ UNCHANGED vars
  BY <1>7 DEF AdminRevokeCert, MarkCertsExpired, Tick, Restart, vars
<1> QED
  BY <1>1, <1>2, <1>3, <1>4, <1>5, <1>6, <1>7 DEF Next

LEMMA WhoEnds ==
    ASSUME TypeOK, [Next]_vars, NEW r \in Requests,
           status[r] = "APPROVED", status'[r] # "APPROVED"
    PROVE  \/ /\ status'[r] = "REVOKED"
              /\ \E w \in Workers :
                    \/ At(w, "writeRevoked") /\ call[w].req = r
                    \/ /\ At(w, "disable") /\ "requests" \in call[w].left
                       /\ call[w].user = requester[r]
           \/ ExpireWrite(r)
           \/ PendingWrite(r)
<1> DEFINE Revoker(w) ==
             \/ At(w, "writeRevoked") /\ call[w].req = r
             \/ /\ At(w, "disable") /\ "requests" \in call[w].left
                /\ call[w].user = requester[r]
           Goal == \/ /\ status'[r] = "REVOKED"
                      /\ \E w \in Workers : Revoker(w)
                   \/ ExpireWrite(r)
                   \/ PendingWrite(r)
<1> USE DEF TypeOK, rowVars
<1>1. ASSUME NEW w \in Workers, Submit(w) PROVE Goal
  BY <1>1 DEF Submit, SubmitForApproval, SubmitAllowed, CreatePending,
              CreateApproved
<1>2. ASSUME NEW w \in Workers, Review(w) PROVE Goal
  BY <1>2 DEF Review, ReviewRead, ReviewCheckApprover, ReviewClaim, ClaimsRow,
              ReviewLost, ReviewAudit
<1>3. ASSUME NEW w \in Workers, GenerateSshCredentials(w) PROVE Goal
  BY <1>3 DEF GenerateSshCredentials, CredentialsRead, Sign, CreateCert,
              LinkCert, SignFails
<1>4. ASSUME NEW w \in Workers, Revoke(w) PROVE Goal
  <2>1. RevokeWrite(w)
    BY <1>4 DEF Revoke, RevokeRead, RevokeCertOf
  <2>2. Revoker(w) /\ status'[r] = "REVOKED"
    BY <2>1 DEF RevokeWrite
  <2> QED
    BY <2>2
<1>5. ASSUME NEW w \in Workers, Disable(w) PROVE Goal
  <2>1. DisableRevokeRequests(w)
    BY <1>5 DEF Disable, DisableStart, DisableMark, DisableRevokeCerts
  <2>2. Revoker(w) /\ status'[r] = "REVOKED"
    BY <2>1 DEF DisableRevokeRequests, CascadeMayRun
  <2> QED
    BY <2>2
<1>6. CASE MarkExpired
  BY <1>6 DEF MarkExpired, ExpireFind, ExpireWrite, ExpireRevokeCert
<1>7. CASE MarkPendingExpired
  BY <1>7 DEF MarkPendingExpired, PendingFind, PendingWrite
<1>8. CASE (\E c \in Certs : AdminRevokeCert(c)) \/ MarkCertsExpired \/ Tick
             \/ Restart \/ UNCHANGED vars
  BY <1>8 DEF AdminRevokeCert, MarkCertsExpired, Tick, Restart, vars
<1> QED
  BY <1>1, <1>2, <1>3, <1>4, <1>5, <1>6, <1>7, <1>8 DEF Next

(***************************************************************************)
(* What the sweeps' lists are worth: the rows markExpired has found ran    *)
(* out, whatever became of them; while nobody grants a request under the   *)
(* sweep of pending ones, the rows that sweep has found are not APPROVED.  *)
(***************************************************************************)
SweepInv ==
    /\ \A r \in expireTodo : status[r] \in Decided /\ expiresAt[r] < now
    /\ \A r \in pendingTodo : status[r] \notin {"NONE", "APPROVED"}

(***************************************************************************)
(* The clock never goes back.  A job adds to its list by its find alone.   *)
(***************************************************************************)
LEMMA JobLists ==
    ASSUME TypeOK, [Next]_vars
    PROVE  /\ now' \in Nat /\ now <= now'
           /\ expireTodo' \subseteq expireTodo \/ ExpireFind
           /\ pendingTodo' \subseteq pendingTodo \/ PendingFind
<1> DEFINE Same == /\ now' = now
                   /\ expireTodo' = expireTodo /\ pendingTodo' = pendingTodo
<1>1. ASSUME NEW w \in Workers, Submit(w) PROVE Same
  BY <1>1 DEF Submit, SubmitForApproval, SubmitAllowed, CreatePending,
              CreateApproved, jobVars
<1>2. ASSUME NEW w \in Workers, Review(w) PROVE Same
  <2>1. ASSUME NEW max \in PolicyMaxes, ReviewClaim(w, max) PROVE Same
    BY <2>1 DEF ReviewClaim, jobVars
  <2>2. CASE ReviewCheckApprover(w) \/ ReviewLost(w) \/ ReviewAudit(w)
    BY <2>2 DEF ReviewCheckApprover, ReviewLost, ReviewAudit, jobVars
  <2>3. ASSUME NEW r, NEW u, NEW verdict, NEW d, ReviewRead(w, r, u, verdict, d)
        PROVE  Same
    BY <2>3 DEF ReviewRead, jobVars
  <2> QED
    BY <1>2, <2>1, <2>2, <2>3 DEF Review
<1>3. ASSUME NEW w \in Workers, GenerateSshCredentials(w) PROVE Same
  BY <1>3 DEF GenerateSshCredentials, CredentialsRead, Sign, CreateCert,
              LinkCert, SignFails, jobVars
<1>4. ASSUME NEW w \in Workers, Revoke(w) PROVE Same
  BY <1>4 DEF Revoke, RevokeRead, RevokeWrite, RevokeCertOf, jobVars
<1>5. ASSUME NEW w \in Workers, Disable(w) PROVE Same
  <2>1. CASE DisableMark(w) \/ DisableRevokeRequests(w)
               \/ DisableRevokeCerts(w)
    BY <2>1 DEF DisableMark, DisableRevokeRequests, DisableRevokeCerts, jobVars
  <2>2. ASSUME NEW u, NEW order, DisableStart(w, u, order) PROVE Same
    BY <2>2 DEF DisableStart, jobVars
  <2> QED
    BY <1>5, <2>1, <2>2 DEF Disable
<1>6. ASSUME MarkExpired \/ MarkPendingExpired
      PROVE  /\ now' = now
             /\ expireTodo' \subseteq expireTodo \/ ExpireFind
             /\ pendingTodo' \subseteq pendingTodo \/ PendingFind
  BY <1>6 DEF MarkExpired, ExpireFind, ExpireWrite, ExpireRevokeCert,
              MarkPendingExpired, PendingFind, PendingWrite
<1>7. CASE (\E c \in Certs : AdminRevokeCert(c)) \/ MarkCertsExpired
             \/ UNCHANGED vars
  <2>1. Same
    BY <1>7 DEF AdminRevokeCert, MarkCertsExpired, vars, jobVars
  <2> QED
    BY <2>1 DEF TypeOK
<1>8. CASE Tick \/ Restart
  BY <1>8 DEF Tick, Restart, TypeOK, jobVars
<1>9. CASE \E w \in Workers :
              Submit(w) \/ Review(w) \/ GenerateSshCredentials(w) \/ Revoke(w)
                 \/ Disable(w)
  <2>1. Same
    BY <1>1, <1>2, <1>3, <1>4, <1>5, <1>9
  <2> QED
    BY <2>1 DEF TypeOK
<1> QED
  BY <1>6, <1>7, <1>8, <1>9 DEF Next, TypeOK

LEMMA SweepStep ==
    ASSUME TypeOK, [Next]_vars, SweepInv, NoGrantOfSwept
    PROVE  SweepInv'
<1>1. \A r \in expireTodo' : status'[r] \in Decided /\ expiresAt'[r] < now'
  <2> SUFFICES ASSUME NEW r \in expireTodo'
               PROVE  status'[r] \in Decided /\ expiresAt'[r] < now'
    OBVIOUS
  <2>1. CASE expireTodo' \subseteq expireTodo
    <3>1. /\ r \in Requests /\ status[r] \in Decided /\ expiresAt[r] < now
          /\ now \in Nat /\ expiresAt[r] \in Nat
      BY <2>1 DEF SweepInv, TypeOK
    <3>2. RowKept(r)
      BY <3>1, DecidedRowKept
    <3> QED
      BY <3>1, <3>2, JobLists DEF RowKept, Decided, Granted, Final
  <2>2. CASE ExpireFind
    BY <2>2 DEF ExpireFind, DueForExpiry, Decided, rowVars
  <2> QED
    BY <2>1, <2>2, JobLists
<1>2. \A r \in pendingTodo' : status'[r] \notin {"NONE", "APPROVED"}
  <2> SUFFICES ASSUME NEW r \in pendingTodo'
               PROVE  status'[r] \notin {"NONE", "APPROVED"}
    OBVIOUS
  <2>1. CASE pendingTodo' \subseteq pendingTodo
    <3>1. r \in Requests /\ r \in pendingTodo
          /\ status[r] \notin {"NONE", "APPROVED"}
      BY <2>1 DEF SweepInv, TypeOK
    <3>2. status'[r] # "NONE"
      BY <3>1, RowsAreKept DEF RowsStay
    <3>3. status'[r] # "APPROVED"
      BY <3>1, WhoGrants DEF NoGrantOfSwept
    <3> QED
      BY <3>2, <3>3
  <2>2. CASE PendingFind
    BY <2>2 DEF PendingFind, rowVars
  <2> QED
    BY <2>1, <2>2, JobLists
<1> QED
  BY <1>1, <1>2 DEF SweepInv

(***************************************************************************)
(* Nobody loses a grant before its end to a sweep, as long as no reviewer  *)
(* grants a request the sweep of pending ones is on its way to: the trace  *)
(* of AccessRequestsPending.cfg is the only kind there is.                 *)
(***************************************************************************)
THEOREM ApprovedLastsWithoutOverlap ==
    Spec /\ []NoGrantOfSwept => ApprovedUntilExpiry
<1> DEFINE Kept == \A r \in Requests :
                      status[r] = "APPROVED" /\ status'[r] = "EXPIRED"
                          => expiresAt[r] <= now
<1>1. Init => SweepInv
  BY DEF Init, SweepInv
<1>2. TypeOK /\ SweepInv /\ NoGrantOfSwept /\ [Next]_vars => SweepInv'
  BY SweepStep
<1>3. TypeOK /\ SweepInv /\ [Next]_vars => [Kept]_vars
  <2> SUFFICES ASSUME TypeOK, SweepInv, [Next]_vars, NEW r \in Requests,
                      status[r] = "APPROVED", status'[r] = "EXPIRED"
               PROVE  expiresAt[r] <= now
    OBVIOUS
  <2>1. ExpireWrite(r) \/ PendingWrite(r)
    BY WhoEnds
  <2>2. r \notin pendingTodo
    BY DEF SweepInv
  <2>3. r \in expireTodo
    BY <2>1, <2>2 DEF ExpireWrite, PendingWrite
  <2> QED
    BY <2>3 DEF SweepInv, TypeOK
<1> QED
  BY <1>1, <1>2, <1>3, TypeCorrect, PTL DEF Spec, ApprovedUntilExpiry

(***************************************************************************)
(* markExpired turns APPROVED rows to EXPIRED and no others, as long as    *)
(* nobody revokes a request it is on its way to (and nobody grants one     *)
(* under the other sweep, which could then reach it in the list as well).  *)
(***************************************************************************)
FoundApproved == \A r \in expireTodo : status[r] = "APPROVED"

LEMMA FoundApprovedStep ==
    ASSUME TypeOK, [Next]_vars, SweepInv, FoundApproved, NoRevocationOfSwept
    PROVE  FoundApproved'
<1> SUFFICES ASSUME NEW r \in expireTodo' PROVE status'[r] = "APPROVED"
  BY DEF FoundApproved
<1>1. CASE expireTodo' \subseteq expireTodo
  <2>1. r \in Requests /\ r \in expireTodo /\ status[r] = "APPROVED"
    BY <1>1 DEF FoundApproved, TypeOK
  <2>2. ~ExpireWrite(r)
    BY DEF ExpireWrite
  <2>3. ~PendingWrite(r)
    BY <2>1 DEF PendingWrite, SweepInv
  <2> QED
    BY <2>1, <2>2, <2>3, WhoEnds DEF NoRevocationOfSwept
<1>2. CASE ExpireFind
  BY <1>2 DEF ExpireFind, DueForExpiry, rowVars
<1> QED
  BY <1>1, <1>2, JobLists

THEOREM SweepIsRightWithoutOverlap ==
    Spec /\ []NoGrantOfSwept /\ []NoRevocationOfSwept => SweepTakesApproved
<1>1. Init => SweepInv /\ FoundApproved
  BY DEF Init, SweepInv, FoundApproved
<1>2. TypeOK /\ SweepInv /\ NoGrantOfSwept /\ [Next]_vars => SweepInv'
  BY SweepStep
<1>3. TypeOK /\ SweepInv /\ FoundApproved /\ NoRevocationOfSwept
        /\ [Next]_vars => FoundApproved'
  BY FoundApprovedStep
<1>4. FoundApproved =>
        [\A r \in Requests : ExpireWrite(r) => status[r] = "APPROVED"]_vars
  BY DEF FoundApproved, ExpireWrite
<1> QED
  BY <1>1, <1>2, <1>3, <1>4, TypeCorrect, PTL DEF Spec, SweepTakesApproved

-----------------------------------------------------------------------------
(***************************************************************************)
(* A certificate follows its request while the request names it.  That is  *)
(* lost where a second certificate takes over the link, and where the      *)
(* process stops before the link is written, and nowhere else: a handler   *)
(* that is about to write the link holds the certificate it has created,   *)
(* and every other certificate is the one its request names.               *)
(***************************************************************************)
Linking(w, c) == /\ At(w, "linkCert")
                 /\ call[w].cert = c /\ call[w].req = certRequest[c]

LinkInv ==
    /\ \A w \in Workers : At(w, "linkCert") =>
          /\ certStatus[call[w].cert] # "NONE"
          /\ certRequest[call[w].cert] = call[w].req
    /\ \A c \in Certs : certStatus[c] # "NONE" =>
          \/ certificate[certRequest[c]] = c
          \/ \E w \in Workers : Linking(w, c)

(***************************************************************************)
(* A step that creates and links no certificate and leaves those who are   *)
(* about to link one where they are; such a step keeps LinkInv.            *)
(***************************************************************************)
LinksUntouched ==
    /\ \A w \in Workers : At(w, "linkCert") \/ call'[w].at = "linkCert"
                             => call'[w] = call[w]
    /\ certRequest' = certRequest /\ certificate' = certificate
    /\ \A c \in Certs : certStatus'[c] = "NONE" <=> certStatus[c] = "NONE"

LEMMA UntouchedKeepsLinkInv ==
    ASSUME TypeOK, LinkInv, LinksUntouched PROVE LinkInv'
<1>1. \A w \in Workers : At(w, "linkCert")' =>
         /\ certStatus'[call'[w].cert] # "NONE"
         /\ certRequest'[call'[w].cert] = call'[w].req
  <2> SUFFICES ASSUME NEW w \in Workers, At(w, "linkCert")'
               PROVE  /\ certStatus'[call'[w].cert] # "NONE"
                      /\ certRequest'[call'[w].cert] = call'[w].req
    OBVIOUS
  <2>1. call'[w] = call[w] /\ At(w, "linkCert")
    BY DEF LinksUntouched, At
  <2>2. call[w].cert \in Certs
    BY <2>1, CallKinds DEF TypeOK, At, LinkCalls
  <2> QED
    BY <2>1, <2>2 DEF LinkInv, LinksUntouched, Linking, At
<1>2. \A c \in Certs : certStatus'[c] # "NONE" =>
         \/ certificate'[certRequest'[c]] = c
         \/ \E w \in Workers : Linking(w, c)'
  BY DEF LinkInv, LinksUntouched, Linking, At
<1> QED
  BY <1>1, <1>2 DEF LinkInv, LinksUntouched, Linking, At

LEMMA OtherStepsLeaveLinks ==
    ASSUME TypeOK, [Next]_vars,
           ~ \E w \in Workers : LinkCert(w) \/ \E c \in Certs : CreateCert(w, c),
           [\A w \in Workers : At(w, "linkCert") => ~Restart]_vars
    PROVE  LinksUntouched
<1> USE DEF TypeOK, rowVars, certVars, LinksUntouched
<1>1. ASSUME NEW w \in Workers, Submit(w) PROVE LinksUntouched
  <2>1. ASSUME NEW u \in Users, SubmitForApproval(w, u) PROVE LinksUntouched
    BY <2>1 DEF SubmitForApproval, Goto, At
  <2>2. ASSUME NEW u \in Users, NEW d \in Durations, NEW max \in PolicyMaxes,
               SubmitAllowed(w, u, d, max)
        PROVE  LinksUntouched
    BY <2>2 DEF SubmitAllowed, Goto, At
  <2>3. ASSUME NEW r \in Requests, CreatePending(w, r) \/ CreateApproved(w, r)
        PROVE  LinksUntouched
    BY <2>3 DEF CreatePending, CreateApproved, Goto, Idle, At
  <2> QED
    BY <1>1, <2>1, <2>2, <2>3 DEF Submit
<1>2. ASSUME NEW w \in Workers, Review(w) PROVE LinksUntouched
  <2>1. ASSUME NEW r \in Requests, NEW u \in Users, NEW verdict, NEW d,
               ReviewRead(w, r, u, verdict, d)
        PROVE  LinksUntouched
    BY <2>1 DEF ReviewRead, Goto, At
  <2>2. CASE ReviewCheckApprover(w)
    <3>1. call[w] \in ReviewCalls
      BY <2>2, CallKinds DEF ReviewCheckApprover, At
    <3>2. call'[w].at \in {"claim", "idle"}
      BY <2>2, <3>1 DEF ReviewCheckApprover, Goto, Idle, ReviewCalls
    <3> QED
      BY <2>2, <3>2 DEF ReviewCheckApprover, Goto, At
  <2>3. ASSUME NEW max \in PolicyMaxes, ReviewClaim(w, max)
        PROVE  LinksUntouched
    <3>1. call[w] \in ReviewCalls
      BY <2>3, CallKinds DEF ReviewClaim, At
    <3>2. call'[w].at = "auditDecision"
      BY <2>3, <3>1 DEF ReviewClaim, Goto, ReviewCalls
    <3> QED
      BY <2>3, <3>2 DEF ReviewClaim, Goto, At
  <2>4. CASE ReviewLost(w) \/ ReviewAudit(w)
    BY <2>4 DEF ReviewLost, ReviewAudit, Goto, Idle, At
  <2> QED
    BY <1>2, <2>1, <2>2, <2>3, <2>4 DEF Review
<1>3. ASSUME NEW w \in Workers, Revoke(w) PROVE LinksUntouched
  <2>1. ASSUME NEW r \in Requests, RevokeRead(w, r) PROVE LinksUntouched
    BY <2>1 DEF RevokeRead, Goto, At
  <2>2. CASE RevokeWrite(w)
    <3>1. call[w] \in RevokeCalls
      BY <2>2, CallKinds DEF RevokeWrite, At
    <3>2. call'[w].at = "revokeCert"
      BY <2>2, <3>1 DEF RevokeWrite, Goto, RevokeCalls
    <3> QED
      BY <2>2, <3>2 DEF RevokeWrite, Goto, At
  <2>3. CASE RevokeCertOf(w)
    BY <2>3 DEF RevokeCertOf, CertRevoked, Goto, Idle, At
  <2> QED
    BY <1>3, <2>1, <2>2, <2>3 DEF Revoke
<1>4. ASSUME NEW w \in Workers, Disable(w) PROVE LinksUntouched
  <2>1. ASSUME NEW u \in Users, NEW order, DisableStart(w, u, order)
        PROVE  LinksUntouched
    BY <2>1 DEF DisableStart, Goto, At
  <2>2. ASSUME At(w, "disable"), NEW step, Done(w, step)
        PROVE  \A x \in Workers :
                  At(x, "linkCert") \/ call'[x].at = "linkCert"
                     => call'[x] = call[x]
    <3>1. call[w] \in DisableCalls
      BY <2>2, CallKinds DEF At
    <3>2. call'[w].at \in {"idle", "disable"}
      BY <2>2, <3>1 DEF Done, Goto, Idle, DisableCalls
    <3> QED
      BY <2>2, <3>2 DEF Done, Goto, At
  <2>3. CASE DisableMark(w)
    BY <2>2, <2>3 DEF DisableMark
  <2>4. CASE DisableRevokeRequests(w)
    BY <2>2, <2>4 DEF DisableRevokeRequests, CascadeMayRun
  <2>5. CASE DisableRevokeCerts(w)
    BY <2>2, <2>5 DEF DisableRevokeCerts, CascadeMayRun
  <2> QED
    BY <1>4, <2>1, <2>3, <2>4, <2>5 DEF Disable
<1>5. ASSUME NEW w \in Workers, GenerateSshCredentials(w) PROVE LinksUntouched
  <2>1. ASSUME NEW r \in Requests, CredentialsRead(w, r) PROVE LinksUntouched
    BY <2>1 DEF CredentialsRead, Goto, At
  <2>2. CASE Sign(w) \/ SignFails(w)
    BY <2>2 DEF Sign, SignFails, Goto, Idle, At
  <2> QED
    BY <1>5, <2>1, <2>2 DEF GenerateSshCredentials
<1>6. CASE MarkExpired \/ MarkPendingExpired
  BY <1>6 DEF MarkExpired, ExpireFind, ExpireWrite, ExpireRevokeCert,
              CertRevoked, MarkPendingExpired, PendingFind, PendingWrite
<1>7. CASE (\E c \in Certs : AdminRevokeCert(c)) \/ MarkCertsExpired
  BY <1>7 DEF AdminRevokeCert, CertRevoked, MarkCertsExpired
<1>8. CASE Tick \/ UNCHANGED vars
  BY <1>8 DEF Tick, vars
<1>9. CASE Restart
  <2>1. vars' # vars \/ UNCHANGED vars
    OBVIOUS
  <2>2. ASSUME \A w \in Workers : At(w, "linkCert") => ~Restart
        PROVE  LinksUntouched
    BY <1>9, <2>2 DEF Restart, Idle
  <2> QED
    BY <1>8, <2>2
<1> QED
  BY <1>1, <1>2, <1>3, <1>4, <1>5, <1>6, <1>7, <1>8, <1>9 DEF Next

(***************************************************************************)
(* Creating a certificate: its maker is about to link it.                  *)
(***************************************************************************)
LEMMA LinkInvCreate ==
    ASSUME TypeOK, LinkInv, NEW w \in Workers, NEW c \in Certs,
           CreateCert(w, c)
    PROVE  LinkInv'
<1> USE DEF TypeOK, rowVars, certVars
<1>1. call[w].req \in Requests
  BY CallKinds DEF CreateCert, At
<1>2. /\ call' = [call EXCEPT ![w] =
                    [at |-> "linkCert", req |-> call[w].req, cert |-> c]]
      /\ certStatus[c] = "NONE" /\ certStatus'[c] = "ACTIVE"
      /\ certRequest'[c] = call[w].req /\ certificate' = certificate
      /\ \A d \in Certs \ {c} : /\ certStatus'[d] = certStatus[d]
                                /\ certRequest'[d] = certRequest[d]
  BY DEF CreateCert, Goto
<1>3. Linking(w, c)' /\ call'[w].cert = c
  BY <1>2 DEF Linking, At
<1>4. ASSUME NEW x \in Workers, x # w
      PROVE  /\ At(x, "linkCert") => call[x].cert \in Certs \ {c}
             /\ \A d \in Certs \ {c} : Linking(x, d)' <=> Linking(x, d)
             /\ call'[x] = call[x]
  <2>1. At(x, "linkCert") => call[x].cert \in Certs
    BY CallKinds DEF At, LinkCalls
  <2>2. At(x, "linkCert") => certStatus[call[x].cert] # "NONE"
    BY DEF LinkInv
  <2>3. call'[x] = call[x]
    BY <1>2, <1>4
  <2> QED
    BY <1>2, <2>1, <2>2, <2>3 DEF Linking, At
<1>5. \A x \in Workers : At(x, "linkCert")' =>
         /\ certStatus'[call'[x].cert] # "NONE"
         /\ certRequest'[call'[x].cert] = call'[x].req
  <2> SUFFICES ASSUME NEW x \in Workers, At(x, "linkCert")', x # w
               PROVE  /\ certStatus'[call'[x].cert] # "NONE"
                      /\ certRequest'[call'[x].cert] = call'[x].req
    BY <1>2, <1>3 DEF Linking, At
  <2>1. call'[x] = call[x] /\ At(x, "linkCert") /\ call[x].cert \in Certs \ {c}
    BY <1>4 DEF At
  <2> QED
    BY <1>2, <2>1 DEF LinkInv, Linking
<1>6. ASSUME NEW d \in Certs, certStatus'[d] # "NONE"
      PROVE  \/ certificate'[certRequest'[d]] = d
             \/ \E x \in Workers : Linking(x, d)'
  <2>1. CASE d = c
    BY <1>3, <2>1
  <2>2. CASE d # c
    <3>1. ASSUME NEW x \in Workers, Linking(x, d) PROVE Linking(x, d)'
      <4>1. x # w
        BY <3>1 DEF Linking, CreateCert, At
      <4> QED
        BY <1>4, <2>2, <3>1, <4>1
    <3> QED
      BY <1>2, <1>6, <2>2, <3>1 DEF LinkInv
  <2> QED
    BY <2>1, <2>2
<1> QED
  BY <1>5, <1>6 DEF LinkInv, Linking, At

(***************************************************************************)
(* Linking a certificate takes the link from no other one, since its       *)
(* request has no other.                                                   *)
(***************************************************************************)
LEMMA LinkInvLink ==
    ASSUME TypeOK, LinkInv, OneCertPerRequest, NEW w \in Workers, LinkCert(w)
    PROVE  LinkInv'
<1> USE DEF TypeOK, rowVars, certVars
<1>1. call[w] \in LinkCalls
  BY CallKinds DEF LinkCert, At
<1>2. PICK c \in Certs : c = call[w].cert
  BY <1>1 DEF LinkCalls
<1>3. PICK r \in Requests : r = call[w].req
  BY <1>1 DEF LinkCalls
<1>4. /\ certificate' = [certificate EXCEPT ![r] = c]
      /\ call' = [call EXCEPT ![w] = Idle]
      /\ certStatus' = certStatus /\ certRequest' = certRequest
  BY <1>2, <1>3 DEF LinkCert, Goto
<1>5. certStatus[c] # "NONE" /\ certRequest[c] = r
  BY <1>2, <1>3 DEF LinkInv, Linking, LinkCert
<1>6. \A x \in Workers : /\ x # w => call'[x] = call[x]
                         /\ At(x, "linkCert")' => x # w
  BY <1>4 DEF At, Idle
<1>7. \A x \in Workers : At(x, "linkCert")' =>
         /\ certStatus'[call'[x].cert] # "NONE"
         /\ certRequest'[call'[x].cert] = call'[x].req
  BY <1>4, <1>6 DEF LinkInv, Linking, At
<1>8. ASSUME NEW d \in Certs, certStatus'[d] # "NONE"
      PROVE  \/ certificate'[certRequest'[d]] = d
             \/ \E x \in Workers : Linking(x, d)'
  <2>1. CASE certRequest[d] = r
    <3>1. d = c
      BY <1>4, <1>5, <1>8, <2>1 DEF OneCertPerRequest
    <3> QED
      BY <1>4, <2>1, <3>1
  <2>2. CASE certRequest[d] # r
    <3>1. ASSUME NEW x \in Workers, Linking(x, d) PROVE Linking(x, d)'
      <4>1. x # w
        BY <1>3, <2>2, <3>1 DEF Linking
      <4> QED
        BY <1>4, <1>6, <3>1, <4>1 DEF Linking, At
    <3> QED
      BY <1>4, <1>8, <2>2, <3>1 DEF LinkInv
  <2> QED
    BY <2>1, <2>2
<1> QED
  BY <1>7, <1>8 DEF LinkInv, Linking, At

(***************************************************************************)
(* A host rejects every certificate whose request is no longer APPROVED,   *)
(* once nothing is under way, as long as requests are issued one           *)
(* certificate each and no crash comes between creating and linking it.    *)
(***************************************************************************)
THEOREM RejectedWithoutReissue ==
    Spec /\ []OneCertPerRequest /\ EveryCertIsLinked
        => []RejectedOnceNotApproved
<1>1. Init => LinkInv
  BY DEF Init, LinkInv, At, Idle
<1>2. TypeOK /\ LinkInv /\ OneCertPerRequest /\ [Next]_vars
        /\ [\A w \in Workers : At(w, "linkCert") => ~Restart]_vars
          => LinkInv'
  BY LinkInvCreate, LinkInvLink, OtherStepsLeaveLinks, UntouchedKeepsLinkInv
<1>3. Init => GrantInv
  BY DEF Init, GrantInv, SigningAt, Idle
<1>4. TypeOK /\ TypeOK' /\ GrantInv /\ [Next]_vars => GrantInv'
  BY GrantInvCredentials, OtherStepsSignNothing, NothingSignedKeepsGrantInv
<1>5. LinkInv /\ GrantInv => RejectedOnceNotApproved
  <2> SUFFICES ASSUME LinkInv, GrantInv, Quiet,
                      NEW c \in Certs, NEW ownerChecked \in BOOLEAN,
                      Verifies(c, TRUE, FALSE, ownerChecked)
               PROVE  status[certRequest[c]] = "APPROVED"
    BY DEF RejectedOnceNotApproved
  <2>1. certStatus[c] # "NONE" /\ certRequest[c] \in Requests
    BY DEF Verifies, GrantInv, CertInGrant
  <2>2. certificate[certRequest[c]] = c
    BY <2>1 DEF LinkInv, Linking, Quiet, At
  <2> QED
    BY <2>1, <2>2 DEF Verifies
<1> QED
  BY <1>1, <1>2, <1>3, <1>4, <1>5, TypeCorrect, PTL DEF Spec, EveryCertIsLinked
=============================================================================
