------------------------- MODULE MCPolicyEvaluation -------------------------
(***************************************************************************)
(* An instance of PolicyEvaluation for TLC: policies that differ from each *)
(* other in every aspect the filter and the ranking look at.               *)
(***************************************************************************)
EXTENDS PolicyEvaluation

OpenAllow ==
    [name |-> "open", effect |-> "ALLOW", customerId |-> OrgWide,
     targetEnvironments |-> {}, targetLabels |-> {}, targetServerIds |-> {},
     allowedPrincipals |-> {}, priority |-> 2, maxSessionDuration |-> 8,
     requireApproval |-> FALSE, isBreakGlass |-> FALSE]

MCCandidates ==
    {OpenAllow,
     [OpenAllow EXCEPT !.name = "tied", !.requireApproval = TRUE],
     [OpenAllow EXCEPT !.name = "acme", !.customerId = "acme",
                       !.priority = 1, !.maxSessionDuration = 2],
     [OpenAllow EXCEPT !.name = "staging", !.priority = 1,
                       !.targetEnvironments = {"staging"},
                       !.requireApproval = TRUE],
     [OpenAllow EXCEPT !.name = "emergency", !.priority = 3,
                       !.targetServerIds = {"db"}, !.isBreakGlass = TRUE,
                       !.maxSessionDuration = 1],
     [OpenAllow EXCEPT !.name = "noroot", !.effect = "DENY", !.priority = 3,
                       !.allowedPrincipals = {"root"}],
     [OpenAllow EXCEPT !.name = "freeze", !.effect = "DENY",
                       !.targetLabels = {"tier:data"}, !.priority = 1]}

MCServers ==
    {[id |-> "db", customerId |-> "acme", environment |-> "prod",
      labels |-> {"tier:data"}, authMode |-> "certificate"],
     [id |-> "web", customerId |-> "acme", environment |-> "prod",
      labels |-> {}, authMode |-> "credential"],
     [id |-> "ci", customerId |-> "initech", environment |-> "staging",
      labels |-> {"tier:build"}, authMode |-> "certificate"]}
=============================================================================
