------------------------ MODULE MCRemediationWorkflow ------------------------
(* Evidence that leads to a plan and evidence that leads to none, and the     *)
(* approvals a human, a stale console or a forger could send.                 *)
EXTENDS RemediationWorkflow, TLC

CONSTANTS w, e0, e1, h1, h2

MCPlanFor == (e1 :> h1) @@ (e0 :> NoHash)

Approval(plan_hash, genuine) ==
    [workflow_id |-> w, plan_hash |-> plan_hash, complete |-> TRUE,
     genuine |-> genuine]

MCSignals == {Approval(h1, TRUE), Approval(h1, FALSE), Approval(h2, TRUE)}

=============================================================================
