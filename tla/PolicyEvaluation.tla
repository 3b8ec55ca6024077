-------------------------- MODULE PolicyEvaluation --------------------------
(***************************************************************************)
(* Who may do what to a server (policyService.js): evaluate decides one    *)
(* request, evaluateBulk the rows of a list, findBreakGlassPolicy finds    *)
(* the policy an emergency may rely on.  All load the active policies that *)
(* have the user as a subject, filter them by server, and let a DENY win   *)
(* over every ALLOW.                                                       *)
(*                                                                         *)
(* The state is what administrators edit: which of the Candidates are      *)
(* active policies with the user among their subjects, the permissions of  *)
(* the user's role, and the organisation's production-bypass switch.       *)
(* Policies of equal priority come in an order the database chooses, so    *)
(* an evaluation has a set of possible outcomes.                           *)
(***************************************************************************)
EXTENDS Naturals, FiniteSets

CONSTANTS
    Candidates,  \* AccessPolicy rows that may exist
    Servers,     \* Server rows
    Principals,  \* Unix accounts a request may name
    NoPrincipal, \* a list row has chosen none yet
    OrgWide,     \* customerId null
    DayTTL       \* 24 h, the maxTtl of a policy bypass

Permissions == {"access.bypass_policies", "access.prod_bypass"}

Environments == {"prod", "staging"}

IsPolicy(p) ==
    /\ p.effect \in {"ALLOW", "DENY"}
    /\ p.targetEnvironments \subseteq Environments
    /\ p.allowedPrincipals \subseteq Principals
    /\ p.priority \in Nat /\ p.maxSessionDuration \in Nat \ {0}
    /\ p.requireApproval \in BOOLEAN /\ p.isBreakGlass \in BOOLEAN

ASSUME PolicyAssumption ==
    /\ NoPrincipal \notin Principals
    /\ DayTTL \in Nat \ {0}
    /\ \A p \in Candidates : IsPolicy(p)
    /\ \A s \in Servers : /\ s.environment \in Environments
                          /\ s.customerId # OrgWide
                          /\ s.authMode \in {"certificate", "credential"}

VARIABLES
    policies,   \* active policies with this user, a group or role of his
    permissions,\* of the user's role
    bypassOn    \* isProdBypassEnabled of the organisation

policyVars == <<policies, permissions, bypassOn>>

PolicyInit ==
    /\ policies = {}
    /\ permissions \in SUBSET Permissions
    /\ bypassOn \in BOOLEAN

-----------------------------------------------------------------------------
TargetsEnvironment(p, server) ==
    p.targetEnvironments = {} \/ server.environment \in p.targetEnvironments

\* Principals are not an issue where a stored credential names the account.
AllowsPrincipal(p, server, principal) ==
    \/ principal = NoPrincipal \/ p.allowedPrincipals = {}
    \/ server.authMode = "credential"
    \/ principal \in p.allowedPrincipals

FilterPolicies(server, principal) ==
    {p \in policies :
        /\ p.customerId \in {OrgWide, server.customerId}
        /\ TargetsEnvironment(p, server)
        /\ p.targetLabels \subseteq server.labels
        /\ p.targetServerIds = {} \/ server.id \in p.targetServerIds
        /\ AllowsPrincipal(p, server, principal)}

\* Mutant: a DENY counts only where no ALLOW has a better priority.
OutrankingDenies(matching) ==
    {p \in matching : p.effect = "DENY"
                      /\ \A q \in matching : p.priority <= q.priority}

Denies(matching) == {p \in matching : p.effect = "DENY"}

Allows(matching) == {p \in matching : p.effect = "ALLOW"}

\* Mutant: policies of equal priority knock each other out.
BestAlone(allow) ==
    {p \in allow : \A q \in allow \ {p} : p.priority < q.priority}

\* What the sort may put first: any policy of the lowest priority number.
Best(allow) == {p \in allow : \A q \in allow : p.priority <= q.priority}

CanBypassProdApproval == "access.prod_bypass" \in permissions /\ bypassOn

Prod(server) == server.environment = "prod"

BypassesPolicies(server) ==
    /\ "access.bypass_policies" \in permissions
    /\ Prod(server) => CanBypassProdApproval

Refusal == [allowed |-> FALSE, requiresApproval |-> FALSE, maxTtl |-> 0]

\* Mutant: on production the policy's own flag decides.
PolicyDecidesApproval(p, server) == p.requireApproval

NeedsApproval(p, server) ==
    IF Prod(server) THEN ~CanBypassProdApproval ELSE p.requireApproval

(***************************************************************************)
(* evaluate, in its org-wide mode: the set of its possible outcomes.       *)
(***************************************************************************)
Evaluate(server, principal) ==
    LET matching == FilterPolicies(server, principal) IN
    IF Denies(matching) # {} THEN {Refusal}
    ELSE IF BypassesPolicies(server)
    THEN {[allowed |-> TRUE, requiresApproval |-> FALSE, maxTtl |-> DayTTL]}
    ELSE IF Allows(matching) = {} THEN {Refusal}
    ELSE {[allowed |-> TRUE, requiresApproval |-> NeedsApproval(p, server),
           maxTtl |-> p.maxSessionDuration] : p \in Best(Allows(matching))}

\* Mutant: the bypass is looked at before the denials.
BypassFirst(server, matching) ==
    ~BypassesPolicies(server) /\ Denies(matching) # {}

DeniedRow(server, matching) == Denies(matching) # {}

(***************************************************************************)
(* evaluateBulk, for one row: no principal, no duration.                   *)
(***************************************************************************)
EvaluateRow(server) ==
    LET matching == FilterPolicies(server, NoPrincipal)
        best == Best(Allows(matching)) IN
    IF DeniedRow(server, matching) THEN {<<FALSE, FALSE>>}
    ELSE IF BypassesPolicies(server) THEN {<<TRUE, FALSE>>}
    ELSE IF best = {} THEN {<<FALSE, FALSE>>}
    ELSE {<<TRUE, NeedsApproval(p, server)>> : p \in best}

\* Mutant: an ordinary ALLOW policy will do.
MarkedOrNot(p) == TRUE

Marked(p) == p.isBreakGlass

FindBreakGlassPolicy(server) ==
    LET matching == FilterPolicies(server, NoPrincipal) IN
    IF Denies(matching) # {} THEN {}
    ELSE Best({p \in Allows(matching) : Marked(p)})

-----------------------------------------------------------------------------
(***************************************************************************)
(* Editing: create, update and delete of policies and their subjects, a    *)
(* change of role or of its permissions, the organisation's switch.        *)
(***************************************************************************)
CreatePolicy(p) ==
    /\ p \notin policies
    /\ policies' = policies \cup {p}
    /\ UNCHANGED <<permissions, bypassOn>>

DeletePolicy(p) ==
    /\ p \in policies
    /\ policies' = policies \ {p}
    /\ UNCHANGED <<permissions, bypassOn>>

ChangePermissions(P) ==
    /\ P # permissions
    /\ permissions' = P
    /\ UNCHANGED <<policies, bypassOn>>

FlipBypassSwitch ==
    /\ bypassOn' = ~bypassOn
    /\ UNCHANGED <<policies, permissions>>

PolicyNext ==
    \/ \E p \in Candidates : CreatePolicy(p) \/ DeletePolicy(p)
    \/ \E P \in SUBSET Permissions : ChangePermissions(P)
    \/ FlipBypassSwitch

PolicySpec == PolicyInit /\ [][PolicyNext]_policyVars

-----------------------------------------------------------------------------
Asked == Principals \cup {NoPrincipal}

(***************************************************************************)
(* Types, and the shape of every answer: there is one in every state, a    *)
(* refusal asks for no approval, and what is allowed has a duration.       *)
(***************************************************************************)
PolicyTypeOK ==
    /\ policies \subseteq Candidates
    /\ permissions \subseteq Permissions
    /\ bypassOn \in BOOLEAN
    /\ \A s \in Servers, pr \in Asked :
          /\ Evaluate(s, pr) # {}
          /\ \A e \in Evaluate(s, pr) :
                IF e.allowed THEN e.maxTtl > 0 ELSE ~e.requiresApproval

(***************************************************************************)
(* No policy can grant unreviewed access to production: without approval   *)
(* it is given only to holders of access.prod_bypass, and only while the   *)
(* organisation permits it.                                                *)
(***************************************************************************)
ProductionIsReviewed ==
    \A s \in Servers, pr \in Asked : \A e \in Evaluate(s, pr) :
        Prod(s) /\ e.allowed /\ ~e.requiresApproval => CanBypassProdApproval

(***************************************************************************)
(* The list shows what a request would get: a row offers to connect, or to *)
(* ask for approval, exactly when evaluate would before any principal is   *)
(* chosen, whatever policies, permissions and switch are at work.          *)
(***************************************************************************)
BulkAgrees ==
    \A s \in Servers :
        EvaluateRow(s) = {<<e.allowed, e.requiresApproval>> :
                              e \in Evaluate(s, NoPrincipal)}

(***************************************************************************)
(* policyService.js:531-537: break-glass reaches only servers that an      *)
(* ALLOW policy marked for it names, and never one for which an ordinary   *)
(* request would be refused.  The document says the opposite; see          *)
(* EmergencyIgnoresPolicies.                                               *)
(***************************************************************************)
BreakGlassIsAuthorised ==
    \A s \in Servers : \A p \in FindBreakGlassPolicy(s) :
        /\ p.isBreakGlass /\ p.effect = "ALLOW"
        /\ Refusal \notin Evaluate(s, NoPrincipal)

(***************************************************************************)
(* A DENY that matches wins whatever its priority, over every ALLOW, over  *)
(* the permission to bypass policies, and over a break-glass policy, as    *)
(* policyService.js:202 has it.  The document exempts these two; see       *)
(* BypassIgnoresDenials and EmergencyIgnoresPolicies.                      *)
(***************************************************************************)
DenyWins ==
    \A d \in policies : d.effect = "DENY" =>
        \A s \in Servers :
            /\ \A pr \in Asked : d \in FilterPolicies(s, pr) =>
                  Evaluate(s, pr) = {Refusal}
            /\ d \in FilterPolicies(s, NoPrincipal) =>
                  /\ EvaluateRow(s) = {<<FALSE, FALSE>>}
                  /\ FindBreakGlassPolicy(s) = {}

-----------------------------------------------------------------------------
(***************************************************************************)
(* What docs/rbac/access-policies.md says and the code does not do.        *)
(*                                                                         *)
(* Line 127: a matching DENY refuses, except to super admins off           *)
(* production or on bypassed production (also lines 54, 121, 195).         *)
(***************************************************************************)
BypassIgnoresDenials ==
    \A s \in Servers, pr \in Asked :
        BypassesPolicies(s) => Refusal \notin Evaluate(s, pr)

(***************************************************************************)
(* Line 148: the break-glass endpoint reaches any server and ignores       *)
(* policies and DENY (also lines 127, 188).                                *)
(***************************************************************************)
EmergencyIgnoresPolicies == \A s \in Servers : FindBreakGlassPolicy(s) # {}
=============================================================================
