-------------------------- MODULE RunbookAdapter --------------------------
(***************************************************************************)
(* KubernetesActionAdapter of remediation/kubernetes_adapter.py: what the  *)
(* preconditions, actions, signals and rollbacks of a runbook read and     *)
(* change of a deployment, and the clone KubernetesDigitalTwin             *)
(* (remediation/digital_twin.py) makes of it.                              *)
(*                                                                         *)
(* A deployment is the sequence of its rollout revisions (the last is the  *)
(* current one), what its pods report, and its annotations.  A template is *)
(* an image and a memory profile.  No revision at all is no deployment.    *)
(***************************************************************************)
EXTENDS Naturals, Sequences

Memory == {"given", "profile", "previous"}

Template == [image: Nat, memory: Memory]

Pods ==
    [ready: BOOLEAN, available: BOOLEAN,
     reasons: SUBSET {"CrashLoopBackOff", "OOMKilled"}]

\* The annotations: memory-profile-approved, memory-limit and -request,
\* memory-previous-limit and -request.
Deployment ==
    [history: Seq(Template), pods: Pods,
     approved: BOOLEAN, profile: BOOLEAN, previous: BOOLEAN]

NoDeployment ==
    [history |-> <<>>, pods |-> [ready |-> FALSE, available |-> FALSE, reasons |-> {}],
     approved |-> FALSE, profile |-> FALSE, previous |-> FALSE]

Exists(d) == d.history # <<>>

Current(d) == d.history[Len(d.history)]

-----------------------------------------------------------------------------
(* remediation/catalog.py *)

Entry(id, environments, radius, level, signal, rollback, preconditions) ==
    [id |-> id, environments |-> environments, max_blast_radius |-> radius,
     required_level |-> level, verify_signal |-> signal, rollback |-> rollback,
     preconditions |-> preconditions]

\* default_catalog.
DefaultCatalog ==
    LET anywhere == {"dev", "stage", "prod"}
        released == {"stage", "prod"}
    IN {Entry("aks.rollout.undo", anywhere, 10, 3,
              "deployment.available_replicas", "aks.rollout.redo",
              {"deployment.exists", "rollout.history_available", "deployment.degraded"}),
        Entry("aks.rollback.readiness", released, 5, 3,
              "deployment.ready_replicas", "aks.rollout.redo",
              {"deployment.exists", "rollout.history_available", "deployment.degraded"}),
        Entry("aks.restart.workload", anywhere, 5, 3,
              "deployment.ready_replicas", "none",
              {"deployment.exists", "deployment.degraded"}),
        Entry("aks.restart.crashloop", released, 3, 3,
              "deployment.ready_replicas", "none",
              {"deployment.exists", "pods.crashloop_present"}),
        Entry("aks.restart.oom", released, 3, 3,
              "deployment.ready_replicas", "none",
              {"deployment.exists", "pods.oomkilled_present"}),
        Entry("aks.scale.memory", {"dev", "stage"}, 5, 4,
              "container.oom_count", "aks.scale.memory.rollback",
              {"deployment.exists", "pods.oomkilled_present",
               "memory.profile_preapproved"}),
        Entry("k8s.etcd.defrag_and_alarm_clear", released, 1, 3,
              "etcd.alarm_absent", "k8s.etcd.restore_snapshot",
              {"etcd.member_healthy", "etcd.alarm_present"}),
        Entry("k8s.webhook.bypass_deadlock", anywhere, 5, 3,
              "apiserver.admission_healthy", "k8s.webhook.restore",
              {"webhook.failing_closed", "webhook.endpoint_unreachable"}),
        Entry("k8s.coredns.autopath_scale", anywhere, 10, 3,
              "dns.query_latency_normal", "k8s.coredns.rollback",
              {"dns.query_drop_rate_high", "coredns.cpu_saturated"}),
        Entry("k8s.node.drain_with_pdb_eviction", released, 5, 3,
              "node.unschedulable_and_empty", "k8s.node.uncordon",
              {"node.ready", "pdb.budget_available"})}

-----------------------------------------------------------------------------
(* remediation/kubernetes_adapter.py *)

\* _is_degraded: fewer ready or available replicas than desired.
Degraded(d) == ~(d.pods.ready /\ d.pods.available)

\* _pod_reason_present.
PodReason(d, reason) == reason \in d.pods.reasons

Holds(condition, d) ==
    CASE condition = "deployment.exists"         -> TRUE
      [] condition = "deployment.degraded"       -> Degraded(d)
      [] condition = "rollout.history_available" -> Len(d.history) >= 2
      [] condition = "pods.crashloop_present"    -> PodReason(d, "CrashLoopBackOff")
      [] condition = "pods.oomkilled_present"    -> PodReason(d, "OOMKilled")
      [] condition = "memory.profile_preapproved" -> d.approved
      [] OTHER                                   -> FALSE

\* preflight: conditions the adapter was told to trust are not looked at.
PreconditionsHold(runbook, trusted, d) ==
    LET pending == runbook.preconditions \ trusted
    IN  pending = {} \/ (Exists(d) /\ \A c \in pending : Holds(c, d))

-----------------------------------------------------------------------------
\* kubectl, as the adapter uses it: every change of the template is a new
\* revision, and `rollout undo' makes the one before the current one newest.
Rolled(d, template) == [d EXCEPT !.history = Append(@, template)]

Undone(d) ==
    LET n == Len(d.history)
    IN  [d EXCEPT !.history = SubSeq(@, 1, n - 2) \o <<@[n], @[n - 1]>>]

\* execute: the deployment after the fixed command of a runbook id, or nothing
\* where the adapter or kubectl raises before any change.
Executed(id, d) ==
    CASE id \in {"aks.rollout.undo", "aks.rollback.readiness"} ->
            IF Len(d.history) >= 2 THEN {Undone(d)} ELSE {}
      [] id \in {"aks.restart.workload", "aks.restart.crashloop", "aks.restart.oom"} ->
            IF Exists(d) THEN {Rolled(d, Current(d))} ELSE {}
      [] id = "aks.scale.memory" ->
            IF Exists(d) /\ d.profile
            THEN {Rolled(d, [Current(d) EXCEPT !.memory = "profile"])} ELSE {}
      [] OTHER -> {}

\* verify: a signal the adapter does not know raises, which counts as unverified.
VerifySignal(signal, d) ==
    CASE signal = "deployment.available_replicas" -> d.pods.available
      [] signal = "deployment.ready_replicas"     -> d.pods.ready
      [] signal = "container.oom_count"           -> ~PodReason(d, "OOMKilled")
      [] OTHER                                    -> FALSE

\* rollback: `redo' always raises, and the previous memory profile is the one
\* the annotations name.
Restored(id, d) ==
    IF id = "aks.scale.memory.rollback" /\ Exists(d) /\ d.previous
    THEN {Rolled(d, [Current(d) EXCEPT !.memory = "previous"])} ELSE {}

-----------------------------------------------------------------------------
\* _sanitize_deployment: the clone has the source's template and desired
\* replicas, none of its annotations, and no revision but its first.
Clone(d, pods) ==
    [NoDeployment EXCEPT !.history = <<Current(d)>>, !.pods = pods]

=============================================================================
