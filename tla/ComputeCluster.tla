--------------------------- MODULE ComputeCluster ---------------------------
(***************************************************************************)
(* What the compute-node operator acts on, for one ComputeNodeOpenStack    *)
(* CR: the OCP nodes of the CR's role with their machines and blocker      *)
(* pods, the drain jobs with the two scripts they run, and Nova's view of  *)
(* the compute hosts.  Everything here lives outside the operator process. *)
(* The actions are those of the other actors: the machine controller, the  *)
(* administrator, Nova and the job pods.  NodeDrain adds the operator.     *)
(***************************************************************************)
EXTENDS Naturals, FiniteSets

CONSTANTS
    Nodes,      \* names of the hosts that can carry the CR's worker role
    Mishaps     \* which of MishapKinds this cluster may suffer

(***************************************************************************)
(* "foreign_cordon": a node is made unschedulable although its machine     *)
(*     stays (a machine-config rollout, `oc adm cordon`), and back.        *)
(* "name_reuse": a host that was removed joins again under its name.       *)
(* "forced_removal": a machine disappears while its node is still there,   *)
(*     without waiting for the pods of the node.                           *)
(* "job_failure": a drain job uses up its back-off limit.                  *)
(* "spec_edit": the administrator edits the CR, at any point of a pass.    *)
(* "overlapping_removal": machines are scaled down while the whole CR is   *)
(*     being deleted.                                                      *)
(* "cache_lag": the informer has not yet shown the operator the last       *)
(*     change of a blocker pod.                                            *)
(***************************************************************************)
MishapKinds == {"foreign_cordon", "name_reuse", "forced_removal", "job_failure",
                "spec_edit", "overlapping_removal", "cache_lag"}

ASSUME MishapsAssumption == Mishaps \subseteq MishapKinds

VARIABLES
    present,        \* nodes registered with the role's label
    cordoned,       \* nodes with spec.unschedulable
    tainted,        \* nodes with the StopDaemonSetPods NoExecute taint
    machine,        \* machine[n]: the machine behind node n
    blocker,        \* blocker[n]: the pod <n>-blocker-pod
    job,            \* job[n][p]: the job <n>-drain-job-<p>
    disables,       \* disables[n]: the hosts n's pre job has still to disable
    service,        \* service[n]: the nova-compute service of host n
    instances,      \* hosts that carry at least one instance
    unmodified      \* nodes whose resourceVersion is the one last listed

clusterVars == <<present, cordoned, tainted, machine, unmodified>>
jobVars     == <<job, disables>>
novaVars    == <<service, instances>>
envVars     == <<clusterVars, blocker, jobVars, novaVars>>

Phases         == {"pre", "post"}
MachineStates  == {"none", "running", "deleting", "gone"}
\* "held" and "terminating" carry the finalizer, "released" does not any more.
BlockerStates  == {"none", "held", "terminating", "released"}
\* "pending": created, but the job controller has not started a pod yet.
JobStates      == {"absent", "pending", "active", "succeeded", "failed"}
ServiceStates  == {"enabled", "disabled", "deleted"}

ClusterTypeOK ==
    /\ present \subseteq Nodes
    /\ cordoned \subseteq Nodes
    /\ tainted \subseteq Nodes
    /\ unmodified \subseteq Nodes
    /\ machine \in [Nodes -> MachineStates]
    /\ blocker \in [Nodes -> BlockerStates]
    /\ job \in [Nodes -> [Phases -> JobStates]]
    /\ disables \in [Nodes -> SUBSET Nodes]
    /\ service \in [Nodes -> ServiceStates]
    /\ instances \subseteq Nodes

\* The sample CR starts with `workers: 0`: no machine, node or job exists.
ClusterInit ==
    /\ present = {} /\ cordoned = {} /\ tainted = {} /\ unmodified = {}
    /\ machine = [n \in Nodes |-> "none"]
    /\ blocker = [n \in Nodes |-> "none"]
    /\ job = [n \in Nodes |-> [p \in Phases |-> "absent"]]
    /\ disables = [n \in Nodes |-> {}]
    /\ service = [n \in Nodes |-> "deleted"]
    /\ instances = {}

\* The finalizer keeps the pod, and with it the machine's drain, in place.
Held(n)   == blocker[n] \in {"held", "terminating"}
HasJob(n) == \E p \in Phases : job[n][p] # "absent"

-----------------------------------------------------------------------------
(* Nodes and machines: the machine controller and the administrator.       *)

\* A provisioned host registers and its nova-compute is put into service.
NodeJoins(n) ==
    /\ n \notin present
    /\ machine[n] = "none" \/ (machine[n] = "gone" /\ "name_reuse" \in Mishaps)
    /\ present' = present \cup {n}
    /\ machine' = [machine EXCEPT ![n] = "running"]
    /\ service' = [service EXCEPT ![n] = "enabled"]
    /\ UNCHANGED <<cordoned, tainted, unmodified, blocker, jobVars, instances>>

\* Scale down: the machine gets its deletion timestamp.
MachineMarkedDeleted(n) ==
    /\ n \in present /\ machine[n] = "running"
    /\ machine' = [machine EXCEPT ![n] = "deleting"]
    /\ UNCHANGED <<present, cordoned, tainted, unmodified, blocker, jobVars, novaVars>>

\* The machine controller cordons before it drains; others may cordon any time.
NodeCordoned(n) ==
    /\ n \in present \ cordoned
    /\ machine[n] = "deleting" \/ "foreign_cordon" \in Mishaps
    /\ cordoned' = cordoned \cup {n}
    /\ unmodified' = unmodified \ {n}
    /\ UNCHANGED <<present, tainted, machine, blocker, jobVars, novaVars>>

NodeUncordoned(n) ==
    /\ n \in cordoned /\ machine[n] = "running"
    /\ cordoned' = cordoned \ {n}
    /\ unmodified' = unmodified \ {n}
    /\ UNCHANGED <<present, tainted, machine, blocker, jobVars, novaVars>>

\* A drain (or the pod GC of a vanished node) deletes the blocker pod: with
\* the finalizer it stays as a terminating pod, without it it goes.
BlockerPodEvicted(n) ==
    /\ n \in cordoned \/ n \notin present
    /\ blocker[n] \in {"held", "released"}
    /\ blocker' = [blocker EXCEPT ![n] = IF @ = "held" THEN "terminating" ELSE "none"]
    /\ UNCHANGED <<clusterVars, jobVars, novaVars>>

\* The machine controller deletes the node when its drain has finished, that
\* is when no blocker pod is left; a node without a machine vanishes freely.
NodeLeaves(n) ==
    /\ n \in present
    /\ \/ machine[n] = "deleting" /\ n \in cordoned /\ blocker[n] = "none"
       \/ machine[n] = "gone"
    /\ present' = present \ {n}
    /\ cordoned' = cordoned \ {n}
    /\ tainted' = tainted \ {n}
    /\ unmodified' = unmodified \ {n}
    /\ instances' = instances \ {n}
    /\ UNCHANGED <<machine, blocker, jobVars, service>>

MachineGone(n) ==
    /\ machine[n] = "deleting"
    /\ n \notin present \/ "forced_removal" \in Mishaps
    /\ machine' = [machine EXCEPT ![n] = "gone"]
    /\ UNCHANGED <<present, cordoned, tainted, unmodified, blocker, jobVars, novaVars>>

-----------------------------------------------------------------------------
(* Nova: instances are scheduled to hosts whose service is enabled.        *)

InstanceStarts(n) ==
    /\ n \in present /\ service[n] = "enabled"
    /\ instances' = instances \cup {n}
    /\ UNCHANGED <<clusterVars, blocker, jobVars, service>>

\* The last instance of the host is deleted.
InstancesLeave(n) ==
    /\ n \in instances
    /\ instances' = instances \ {n}
    /\ UNCHANGED <<clusterVars, blocker, jobVars, service>>

\* A migration between two hosts; m may carry instances already.
InstanceMoves(n, m) ==
    /\ n \in instances
    /\ m \in present /\ service[m] = "enabled"
    /\ instances' = (instances \ {n}) \cup {m}
    /\ UNCHANGED <<clusterVars, blocker, jobVars, service>>

-----------------------------------------------------------------------------
(* The drain jobs and the scripts they run.                                *)

JobStarts(n, p) ==
    /\ job[n][p] = "pending"
    /\ job' = [job EXCEPT ![n][p] = "active"]
    /\ UNCHANGED <<clusterVars, blocker, disables, novaVars>>

JobFails(n, p) ==
    /\ "job_failure" \in Mishaps
    /\ job[n][p] = "active"
    /\ job' = [job EXCEPT ![n][p] = "failed"]
    /\ UNCHANGED <<clusterVars, blocker, disables, novaVars>>

\* scaledownpre.sh goes through DISABLE_COMPUTE_SERVICES ...
ScaleDownPreDisables(n, m) ==
    /\ job[n]["pre"] = "active"
    /\ m \in disables[n]
    /\ disables' = [disables EXCEPT ![n] = @ \ {m}]
    /\ service' = [service EXCEPT ![m] = IF @ = "enabled" THEN "disabled" ELSE @]
    /\ UNCHANGED <<clusterVars, blocker, job, instances>>

\* ... and then waits until its own host carries no instance.
ScaleDownPreExits(n) ==
    /\ job[n]["pre"] = "active"
    /\ disables[n] = {}
    /\ n \notin instances
    /\ job' = [job EXCEPT ![n]["pre"] = "succeeded"]
    /\ UNCHANGED <<clusterVars, blocker, disables, novaVars>>

\* scaledownpost.sh deletes the service of its host, whatever runs there.
ScaleDownPostDeletes(n) ==
    /\ job[n]["post"] = "active"
    /\ service[n] # "deleted"
    /\ service' = [service EXCEPT ![n] = "deleted"]
    /\ UNCHANGED <<clusterVars, blocker, jobVars, instances>>

ScaleDownPostExits(n) ==
    /\ job[n]["post"] = "active"
    /\ service[n] = "deleted"
    /\ job' = [job EXCEPT ![n]["post"] = "succeeded"]
    /\ UNCHANGED <<clusterVars, blocker, disables, novaVars>>

-----------------------------------------------------------------------------

MachineSteps(n) ==
    \/ NodeJoins(n) \/ MachineMarkedDeleted(n)
    \/ NodeCordoned(n) \/ NodeUncordoned(n)
    \/ BlockerPodEvicted(n) \/ NodeLeaves(n) \/ MachineGone(n)

NovaSteps(n) == InstanceStarts(n) \/ InstancesLeave(n) \/ \E m \in Nodes : InstanceMoves(n, m)

JobSteps(n) ==
    \/ \E p \in Phases : JobStarts(n, p) \/ JobFails(n, p)
    \/ \E m \in Nodes : ScaleDownPreDisables(n, m)
    \/ ScaleDownPreExits(n)
    \/ ScaleDownPostDeletes(n) \/ ScaleDownPostExits(n)

EnvironmentSteps(n) == MachineSteps(n) \/ NovaSteps(n) \/ JobSteps(n)
=============================================================================
