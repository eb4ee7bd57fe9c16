------------------------------ MODULE NodeDrain ------------------------------
(***************************************************************************)
(* updateNodesStatus of the ComputeNodeOpenStack controller: the pass over *)
(* the role's nodes that puts a blocker pod on every new node and drains a *)
(* node whose machine is being deleted: pre job, taint, post job, clean    *)
(* up, and only then the blocker pod's finalizer.                          *)
(*                                                                         *)
(* The controller has one worker, so at most one pass runs; the cluster    *)
(* moves between any two of its API calls.  pc names the next call.  What  *)
(* the pass holds in memory (the listed nodes, the CR as read, the node    *)
(* statuses collected so far) is lost when the pass returns an error and   *)
(* when the operator restarts.  The next pass comes from the rate-limited  *)
(* requeue, from an event or from the resync period.                       *)
(***************************************************************************)
EXTENDS ComputeCluster

CONSTANTS
    NoNode,         \* stands for "no node is being handled"
    MaxFailures     \* bound on failed calls and operator crashes

ASSUME NoNodeAssumption == NoNode \notin Nodes
ASSUME MaxFailuresAssumption == MaxFailures \in Nat

VARIABLES
    statusNodes,    \* Status.Nodes of the CR: the last recorded node status
    nodesToDelete,  \* Spec.NodesToDelete of the CR
    cachedBlocker,  \* the blocker pods as the informer cache shows them
    pc,             \* the next call of the pass
    cur,            \* the node the pass is handling
    todo,           \* listed nodes the pass has not come to yet
    draft,          \* nodesStatus: what the pass will record
    seenCordoned,   \* listed nodes with spec.unschedulable
    seenTainted,    \* listed nodes with the taint
    seenToDelete,   \* Spec.NodesToDelete as read
    fresh,          \* nobody else has written the CR since it was read
    failures        \* failed calls and crashes so far

crVars   == <<statusNodes, nodesToDelete>>
listVars == <<seenCordoned, seenTainted>>
passVars == <<pc, cur, todo, draft, listVars, seenToDelete, fresh>>
vars     == <<envVars, crVars, cachedBlocker, passVars, failures>>

\* "Ready" stands for "NotReady" too: the pass treats them alike but for a count.
NodeStates == {"None", "Ready", "SchedulingDisabled"}

\* The calls made for one node, in their order.
DrainCalls == {"blocker", "machine", "finalizer", "trigger_pre", "drained_pre", "taint",
               "trigger_post", "drained_post", "delete_post", "delete_pre", "unblock",
               "nodes_to_delete"}
PassPoints == {"idle", "loop", "panicked"} \cup DrainCalls

NothingKnown == [n \in Nodes |-> "None"]

TypeOK ==
    /\ ClusterTypeOK
    /\ statusNodes \in [Nodes -> NodeStates]
    /\ nodesToDelete \subseteq Nodes
    /\ cachedBlocker \in [Nodes -> BlockerStates]
    /\ pc \in PassPoints
    /\ cur \in Nodes \cup {NoNode}
    /\ pc \in DrainCalls => cur \in Nodes
    /\ todo \subseteq Nodes
    /\ draft \in [Nodes -> NodeStates]
    /\ seenCordoned \subseteq Nodes
    /\ seenTainted \subseteq Nodes
    /\ seenToDelete \subseteq Nodes
    /\ fresh \in BOOLEAN
    /\ failures \in 0..MaxFailures

PassInit ==
    /\ pc = "idle" /\ cur = NoNode /\ todo = {} /\ draft = NothingKnown
    /\ seenCordoned = {} /\ seenTainted = {} /\ seenToDelete = {} /\ fresh = TRUE

Init ==
    /\ ClusterInit
    /\ statusNodes = NothingKnown
    /\ nodesToDelete = {}
    /\ cachedBlocker = [n \in Nodes |-> "none"]
    /\ PassInit
    /\ failures = 0

SeenBlocker(n) == IF "cache_lag" \in Mishaps THEN cachedBlocker[n] ELSE blocker[n]

-----------------------------------------------------------------------------
(* How a pass moves on.                                                    *)

Proceed(next) ==
    /\ pc' = next
    /\ UNCHANGED <<cur, todo, draft, listVars, seenToDelete, fresh>>

\* On to the next node, with st recorded for this one ("None": not listed).
NextNode(st) ==
    /\ pc' = "loop" /\ cur' = NoNode
    /\ draft' = [draft EXCEPT ![cur] = st]
    /\ UNCHANGED <<todo, listVars, seenToDelete, fresh>>

\* The pass is over, by its end or by an error; its memory is gone.
PassEnds(next) ==
    /\ pc' = next /\ cur' = NoNode /\ todo' = {} /\ draft' = NothingKnown
    /\ seenCordoned' = {} /\ seenTainted' = {} /\ seenToDelete' = {} /\ fresh' = TRUE

-----------------------------------------------------------------------------
(* The pass.                                                               *)

ListNodes ==
    /\ pc = "idle"
    /\ pc' = "loop" /\ cur' = NoNode /\ draft' = NothingKnown
    /\ todo' = present
    /\ seenCordoned' = cordoned /\ seenTainted' = tainted
    /\ seenToDelete' = nodesToDelete /\ fresh' = TRUE
    /\ unmodified' = present
    /\ UNCHANGED <<present, cordoned, tainted, machine, blocker, jobVars, novaVars,
                   crVars, cachedBlocker, failures>>

\* getNodeStatus: the cordon as listed, the machine as it is by now.
BeingRemoved(n) == n \in seenCordoned \/ machine[n] # "running"

Take(n) == pc = "loop" /\ n \in todo /\ todo' = todo \ {n}

\* A schedulable node is recorded; a new one gets a blocker pod first.
RecordNode(n) ==
    /\ Take(n) /\ ~BeingRemoved(n)
    /\ draft' = [draft EXCEPT ![n] = "Ready"]
    /\ IF statusNodes[n] = "None" THEN pc' = "blocker" /\ cur' = n
                                  ELSE pc' = "loop" /\ cur' = NoNode
    /\ UNCHANGED <<envVars, crVars, cachedBlocker, listVars, seenToDelete, fresh, failures>>

\* Faulty: an error of the create call is swallowed.
CreateBlockerPod_ErrorSwallowed ==
    /\ pc = "blocker"
    /\ blocker' \in {blocker, [blocker EXCEPT ![cur] = IF @ = "none" THEN "held" ELSE @]}
    /\ pc' = "loop" /\ cur' = NoNode
    /\ UNCHANGED <<clusterVars, jobVars, novaVars, crVars, cachedBlocker, todo, draft,
                   listVars, seenToDelete, fresh, failures>>

CreateBlockerPod ==
    /\ pc = "blocker"
    /\ blocker' = [blocker EXCEPT ![cur] = IF @ = "none" THEN "held" ELSE @]
    /\ pc' = "loop" /\ cur' = NoNode
    /\ UNCHANGED <<clusterVars, jobVars, novaVars, crVars, cachedBlocker, todo, draft,
                   listVars, seenToDelete, fresh, failures>>

\* "If previous status is None, blocker pod was not created, nothing to do".
SkipUnlisted(n) ==
    /\ Take(n) /\ BeingRemoved(n) /\ statusNodes[n] = "None"
    /\ UNCHANGED <<envVars, crVars, cachedBlocker, pc, cur, draft, listVars, seenToDelete,
                   fresh, failures>>

ConsiderDrain(n) ==
    /\ Take(n) /\ BeingRemoved(n) /\ statusNodes[n] # "None"
    /\ pc' = "machine" /\ cur' = n
    /\ UNCHANGED <<envVars, crVars, cachedBlocker, draft, listVars, seenToDelete, fresh,
                   failures>>

\* Faulty: a cordon alone starts the drain.
IsMachineBeingDeleted_Assumed ==
    /\ pc = "machine"
    /\ IF cur \in present THEN Proceed("finalizer") ELSE PassEnds("idle")
    /\ UNCHANGED <<envVars, crVars, cachedBlocker, failures>>

\* A vanished node is an error; a vanished machine is dereferenced.
IsMachineBeingDeleted ==
    /\ pc = "machine"
    /\ \/ cur \notin present /\ PassEnds("idle")
       \/ cur \in present /\ machine[cur] = "gone" /\ PassEnds("panicked")
       \/ cur \in present /\ machine[cur] = "running" /\ NextNode("None")
       \/ cur \in present /\ machine[cur] = "deleting" /\ Proceed("finalizer")
    /\ UNCHANGED <<envVars, crVars, cachedBlocker, failures>>

IsBlockerPodFinalizerDeleted ==
    /\ pc = "finalizer"
    /\ IF SeenBlocker(cur) \in {"none", "released"} THEN NextNode("None")
                                                   ELSE Proceed("trigger_pre")
    /\ UNCHANGED <<envVars, crVars, cachedBlocker, failures>>

\* Faulty: the node itself is left out.
ServicesToDisable_OthersOnly(n) == {m \in Nodes : machine[m] = "deleting"} \ {n}

\* Faulty: the deletion timestamp is not looked at.
ServicesToDisable_AllMachines(n) == {m \in Nodes : machine[m] \in {"running", "deleting"}}

\* The hosts whose service the pre job disables: those whose machine is being
\* deleted, or the node alone if there is none.
ServicesToDisable(n) ==
    LET deleted == {m \in Nodes : machine[m] = "deleting"}
    IN  IF deleted = {} THEN {n} ELSE deleted

\* _triggerNodeDrain: create the job unless it exists.  Only the pre script
\* reads DISABLE_COMPUTE_SERVICES.
JobCreated(n, p) ==
    /\ job' = [job EXCEPT ![n][p] = IF @ = "absent" THEN "pending" ELSE @]
    /\ disables' = IF p = "pre" /\ job[n][p] = "absent"
                   THEN [disables EXCEPT ![n] = ServicesToDisable(n)] ELSE disables

TriggerNodeDrain(p, here, next) ==
    /\ pc = here
    /\ JobCreated(cur, p)
    /\ Proceed(next)
    /\ UNCHANGED <<clusterVars, blocker, novaVars, crVars, cachedBlocker, failures>>

\* Faulty: a job counts as done once it runs.
IsNodeDrained_ActiveIsDone(p, here, next) ==
    /\ pc = here
    /\ IF job[cur][p] \in {"active", "succeeded"} THEN Proceed(next) ELSE PassEnds("idle")
    /\ UNCHANGED <<envVars, crVars, cachedBlocker, failures>>

\* Faulty: a node that has to wait for its job is not added to the status.
IsNodeDrained_NotRecorded(p, here, next) ==
    /\ pc = here
    /\ \/ job[cur][p] = "succeeded" /\ Proceed(next)
       \/ job[cur][p] = "active" /\ NextNode("None")
       \/ job[cur][p] \notin {"succeeded", "active"} /\ PassEnds("idle")
    /\ UNCHANGED <<envVars, crVars, cachedBlocker, failures>>

\* isNodeDrained: wait while the job is active; a job that is neither active
\* nor succeeded is an error that ends the pass.
IsNodeDrained(p, here, next) ==
    /\ pc = here
    /\ \/ job[cur][p] = "succeeded" /\ Proceed(next)
       \/ job[cur][p] = "active" /\ NextNode("SchedulingDisabled")
       \/ job[cur][p] \notin {"succeeded", "active"} /\ PassEnds("idle")
    /\ UNCHANGED <<envVars, crVars, cachedBlocker, failures>>

TriggerPreDrain  == TriggerNodeDrain("pre", "trigger_pre", "drained_pre")
IsNodePreDrained == IsNodeDrained("pre", "drained_pre", "taint")

\* Updates the node as listed: a conflict if it was written since.
AddToBeRemovedTaint ==
    /\ pc = "taint"
    /\ \/ cur \in seenTainted /\ Proceed("trigger_post") /\ UNCHANGED clusterVars
       \/ /\ cur \notin seenTainted /\ cur \in unmodified
          /\ tainted' = tainted \cup {cur}
          /\ unmodified' = unmodified \ {cur}
          /\ Proceed("trigger_post")
          /\ UNCHANGED <<present, cordoned, machine>>
       \/ /\ cur \notin seenTainted /\ cur \notin unmodified
          /\ PassEnds("idle") /\ UNCHANGED clusterVars
    /\ UNCHANGED <<blocker, jobVars, novaVars, crVars, cachedBlocker, failures>>

TriggerPostDrain  == TriggerNodeDrain("post", "trigger_post", "drained_post")
IsNodePostDrained == IsNodeDrained("post", "drained_post", "delete_post")

\* Only a succeeded job is deleted.
JobDeleted(n, p) ==
    job' = [job EXCEPT ![n][p] = IF @ = "succeeded" THEN "absent" ELSE @]

DeleteJobWithName(p, here, next) ==
    /\ pc = here
    /\ JobDeleted(cur, p)
    /\ Proceed(next)
    /\ UNCHANGED <<clusterVars, blocker, disables, novaVars, crVars, cachedBlocker, failures>>

\* Faulty: the pre job goes first.
DeletePostJob_PreFirst == DeleteJobWithName("pre", "delete_post", "delete_pre")

DeletePostJob == DeleteJobWithName("post", "delete_post", "delete_pre")
DeletePreJob  == DeleteJobWithName("pre", "delete_pre", "unblock")

Unblocked(n) ==
    blocker' = [blocker EXCEPT ![n] = CASE @ = "terminating" -> "none"
                                        [] @ = "held"        -> "released"
                                        [] OTHER             -> @]

\* The cached pod is written back without finalizers: a conflict if it is stale.
DeleteBlockerPodFinalizer ==
    /\ pc = "unblock"
    /\ \/ SeenBlocker(cur) = "none" /\ UNCHANGED blocker /\ Proceed("nodes_to_delete")
       \/ SeenBlocker(cur) # "none" /\ SeenBlocker(cur) = blocker[cur]
          /\ Unblocked(cur) /\ Proceed("nodes_to_delete")
       \/ SeenBlocker(cur) # "none" /\ SeenBlocker(cur) # blocker[cur]
          /\ UNCHANGED blocker /\ PassEnds("idle")
    /\ UNCHANGED <<clusterVars, jobVars, novaVars, crVars, cachedBlocker, failures>>

\* The node's entry leaves Spec.NodesToDelete by an update of the CR as read.
RemoveNodeToDelete ==
    /\ pc = "nodes_to_delete"
    /\ IF cur \in seenToDelete /\ ~fresh
       THEN PassEnds("idle") /\ UNCHANGED nodesToDelete
       ELSE /\ nodesToDelete' = IF cur \in seenToDelete THEN nodesToDelete \ {cur}
                                                        ELSE nodesToDelete
            /\ NextNode("None")
    /\ UNCHANGED <<envVars, statusNodes, cachedBlocker, failures>>

\* The end of the loop: record the statuses, unless the CR was written since.
UpdateStatus ==
    /\ pc = "loop" /\ todo = {}
    /\ statusNodes' = IF fresh THEN draft ELSE statusNodes
    /\ PassEnds("idle")
    /\ UNCHANGED <<envVars, nodesToDelete, cachedBlocker, failures>>

-----------------------------------------------------------------------------
(* What goes wrong, and the other writers.                                 *)

\* A call fails, or the operator crashes or loses its lease, between two calls.
Abort ==
    /\ pc \notin {"idle", "panicked"} /\ failures < MaxFailures
    /\ failures' = failures + 1
    /\ PassEnds("idle")
    /\ UNCHANGED <<envVars, crVars, cachedBlocker>>

RestartAfterPanic ==
    /\ pc = "panicked"
    /\ PassEnds("idle")
    /\ UNCHANGED <<envVars, crVars, cachedBlocker, failures>>

\* Before scaling down, the administrator names the node in Spec.NodesToDelete.
ListForDeletion(n) ==
    /\ "spec_edit" \in Mishaps
    /\ machine[n] = "running" /\ n \notin nodesToDelete
    /\ nodesToDelete' = nodesToDelete \cup {n}
    /\ fresh' = (pc = "idle")
    /\ UNCHANGED <<envVars, statusNodes, cachedBlocker, pc, cur, todo, draft, listVars,
                   seenToDelete, failures>>

CacheCatchesUp(n) ==
    /\ "cache_lag" \in Mishaps /\ cachedBlocker[n] # blocker[n]
    /\ cachedBlocker' = [cachedBlocker EXCEPT ![n] = blocker[n]]
    /\ UNCHANGED <<envVars, crVars, passVars, failures>>

-----------------------------------------------------------------------------

DrainStep ==
    \/ IsMachineBeingDeleted \/ IsBlockerPodFinalizerDeleted
    \/ TriggerPreDrain \/ IsNodePreDrained \/ AddToBeRemovedTaint
    \/ TriggerPostDrain \/ IsNodePostDrained
    \/ DeletePostJob \/ DeletePreJob \/ DeleteBlockerPodFinalizer \/ RemoveNodeToDelete

PassStep ==
    \/ ListNodes
    \/ \E n \in Nodes : RecordNode(n) \/ SkipUnlisted(n) \/ ConsiderDrain(n)
    \/ CreateBlockerPod
    \/ DrainStep
    \/ UpdateStatus

ClusterStep(n) == EnvironmentSteps(n) /\ UNCHANGED <<crVars, cachedBlocker, passVars, failures>>

Next ==
    \/ PassStep \/ Abort \/ RestartAfterPanic
    \/ \E n \in Nodes : ClusterStep(n) \/ ListForDeletion(n) \/ CacheCatchesUp(n)

Spec == Init /\ [][Next]_vars

-----------------------------------------------------------------------------
(***************************************************************************)
(* Fairness.  A failed pass is requeued, a finished one comes back after   *)
(* ResyncPeriod at the latest, so the pass keeps going.  The job controller*)
(* starts pods, the scripts run to their ends, and the instances of a      *)
(* disabled host are migrated off (drain) or removed by their owner.  The  *)
(* informer delivers.  Nothing is assumed of the machine controller, of    *)
(* the administrator or of the failures.                                   *)
(***************************************************************************)
Running(A) == A /\ UNCHANGED <<crVars, cachedBlocker, passVars, failures>>

Fairness ==
    /\ WF_vars(PassStep \/ RestartAfterPanic)
    /\ \A n \in Nodes :
        /\ WF_vars(Running(InstancesLeave(n)))
        /\ WF_vars(Running(\E p \in Phases : JobStarts(n, p)))
        /\ WF_vars(Running(\E m \in Nodes : ScaleDownPreDisables(n, m)))
        /\ WF_vars(Running(ScaleDownPreExits(n)))
        /\ WF_vars(Running(ScaleDownPostDeletes(n) \/ ScaleDownPostExits(n)))
        /\ WF_vars(CacheCatchesUp(n))

FairSpec == Spec /\ Fairness

-----------------------------------------------------------------------------
(* Safety.                                                                 *)

\* A host whose DaemonSet pods (libvirt, nova-compute, OVS) are about to be
\* stopped by the taint carries no instance and cannot get a new one.
TaintedNodeIsEmpty ==
    \A n \in tainted : n \notin instances /\ service[n] # "enabled"

\* A compute service is removed from Nova only when the host is empty: the post
\* script does not look, the order of the jobs has to see to it.
DeletedServiceIsEmpty ==
    \A n \in Nodes : service[n] = "deleted" => n \notin instances

\* A drain job exists only for a guarded node that is really being removed,
\* and so never survives into the next host with that name; a cordon alone
\* (a machine-config rollout) drains nothing.
JobsOnlyForGuardedRemoval ==
    \A n \in Nodes : HasJob(n) => Held(n) /\ n \in present /\ machine[n] = "deleting"

\* A node that counts as known, and so gets no blocker pod any more, has one
\* for as long as its machine stays.
KnownNodeIsGuarded ==
    \A n \in present : statusNodes[n] # "None" /\ machine[n] = "running" => Held(n)

\* Only the removal of a host takes its compute service out of use: no drain
\* ever disables the service of a host that stays.
StayingHostKeepsService ==
    \A n \in present : machine[n] = "running" => service[n] = "enabled"

\* The finalizer, the only thing that holds back the machine's deletion, is
\* taken off only when Nova has forgotten the host and nothing runs there.
ReleasedOnlyWhenDrained ==
    [][\A n \in Nodes : Held(n) /\ ~Held(n)' =>
            /\ machine[n] = "deleting"
            /\ service[n] = "deleted" /\ n \notin instances /\ ~HasJob(n)]_vars

-----------------------------------------------------------------------------
(* The drain implements the removal of hosts as NodeRemoval promises it.   *)

\* The machine is on its way out, or out.
Going(n) == machine[n] \in {"deleting", "gone"}

Removal == INSTANCE NodeRemoval WITH
    known    <- {n \in Nodes : machine[n] # "none"},
    doomed   <- {n \in Nodes : Going(n)},
    guarded  <- {n \in present : Held(n)},
    serving  <- {n \in Nodes : service[n] = "enabled"},
    retired  <- {n \in Nodes : machine[n] # "none" /\ service[n] = "deleted"},
    occupied <- instances

\* Every step of the cluster and of the operator is a step of NodeRemoval or
\* none at all, as long as machines are not forced away and no name is reused.
ImplementsNodeRemoval == Removal!Spec

-----------------------------------------------------------------------------
(***************************************************************************)
(* Why the safety properties hold: the jobs of a host record how far its   *)
(* drain has come (DrainOrder), the pass never runs ahead of that record   *)
(* (PassRecord), and a host that is guarded cannot slip away under the     *)
(* pass (PassGuarded, NodeHasMachine).  Inductive unless machines are      *)
(* forced away or the cache lags.                                          *)
(***************************************************************************)

NodeHasMachine ==
    \A n \in Nodes :
        /\ n \in present => machine[n] \in {"running", "deleting"}
        /\ n \notin present => machine[n] # "running" /\ n \notin tainted

DrainOrder ==
    \A n \in Nodes :
        /\ job[n]["pre"] \in {"pending", "active"} => n \in disables[n] \/ service[n] # "enabled"
        /\ job[n]["pre"] = "succeeded" => service[n] # "enabled" /\ n \notin instances
        /\ job[n]["post"] # "absent" => job[n]["pre"] = "succeeded"
        /\ job[n]["post"] = "succeeded" => service[n] = "deleted"

\* The calls by what is known of the node when they are made.
GuardedCalls == {"trigger_pre", "drained_pre", "taint", "trigger_post", "drained_post",
                 "delete_post", "delete_pre", "unblock"}
PreDrainedCalls == {"taint", "trigger_post", "drained_post", "delete_post", "delete_pre"}
PostDrainedCalls == {"delete_post", "delete_pre", "unblock"}

PassGuarded ==
    /\ pc = "finalizer" /\ Held(cur) => cur \in present /\ machine[cur] = "deleting"
    /\ pc \in GuardedCalls => Held(cur) /\ cur \in present /\ machine[cur] = "deleting"

PassRecord ==
    /\ pc \in PreDrainedCalls => job[cur]["pre"] = "succeeded"
    /\ pc = "delete_post" => job[cur]["post"] = "succeeded"
    /\ pc \in PostDrainedCalls => service[cur] = "deleted"
    /\ pc = "delete_pre" => job[cur]["post"] = "absent"
    /\ pc = "unblock" => ~HasJob(cur)

DrainInv ==
    /\ TypeOK
    /\ NodeHasMachine
    /\ DeletedServiceIsEmpty
    /\ TaintedNodeIsEmpty
    /\ JobsOnlyForGuardedRemoval
    /\ DrainOrder
    /\ PassGuarded
    /\ PassRecord

(***************************************************************************)
(* Without name reuse, but whatever else happens: who joined is running or *)
(* going, the drain and its scripts only ever touch hosts that are going,  *)
(* and a host the pass is about to record has its pod, or gets it next.    *)
(***************************************************************************)

\* What a host has not joined yet, nobody has anything to do with.
NotYetJoined(n) ==
    /\ n \notin todo /\ n # cur /\ n \notin present
    /\ statusNodes[n] = "None" /\ draft[n] = "None"
    /\ blocker[n] = "none" /\ cachedBlocker[n] = "none"

StayInv ==
    /\ StayingHostKeepsService
    /\ KnownNodeIsGuarded
    /\ \A n \in Nodes :
        /\ machine[n] = "none" => NotYetJoined(n)
        /\ machine[n] = "running" => n \in present
        /\ blocker[n] = "released" \/ HasJob(n) => Going(n)
        /\ \A m \in disables[n] : Going(m)
    /\ \A n \in present : draft[n] # "None" /\ machine[n] = "running" =>
            Held(n) \/ (pc = "blocker" /\ cur = n)
    /\ pc \in DrainCalls \ {"blocker", "machine"} => Going(cur)

(***************************************************************************)
(* With a cache that lags, the pass may handle a host that was released    *)
(* and has left.  What makes up for the lost guard is that Nova has        *)
(* forgotten such a host, and does not learn of it again unless its name   *)
(* is reused.  Inductive, with StayInv, unless machines are forced away.   *)
(***************************************************************************)

GuardedOrForgotten(n) == (Held(n) /\ n \in present) \/ service[n] = "deleted"

LagInv ==
    /\ TypeOK
    /\ StayInv
    /\ NodeHasMachine
    /\ unmodified \subseteq present
    /\ DeletedServiceIsEmpty
    /\ TaintedNodeIsEmpty
    /\ DrainOrder
    /\ PassRecord
    /\ \A n \in Nodes :
        /\ HasJob(n) => GuardedOrForgotten(n)
        /\ cachedBlocker[n] \in {"held", "terminating"} => Held(n) \/ service[n] = "deleted"
    /\ pc \in GuardedCalls => GuardedOrForgotten(cur)
    /\ pc \in GuardedCalls \cup {"finalizer"} /\ Held(cur) => cur \in present

-----------------------------------------------------------------------------
(* Liveness.                                                               *)

\* A known node whose machine is being deleted is drained and released in the
\* end, whatever calls failed, whoever edited the CR and whichever other host is
\* on its way out too.  Only a job that has used up its back-off limit stops it:
\* isNodeDrained makes an error of it that ends every pass, so a failed job of
\* any host may keep the passes from coming to this one.
RemovalCompletes ==
    \A n \in Nodes :
        (n \in present /\ machine[n] = "deleting" /\ statusNodes[n] # "None" /\ Held(n))
            ~> (~Held(n) \/ \E m \in Nodes, p \in Phases : job[m][p] = "failed")

-----------------------------------------------------------------------------
(* What comments in the code say and the code does not do.                 *)

\* controller.go, "If previous status is None, blocker pod was not created,
\* nothing to do": a node passed over for that reason has no blocker pod.
NoneMeansNoBlockerPod ==
    [][\A n \in Nodes : SkipUnlisted(n) => ~Held(n)]_vars

\* machine.go, "if Machine not found it got deleted": a missing machine is an
\* answer like any other, not the end of the operator.
MissingMachineIsDeleted == pc # "panicked"

\* controller.go, "If blocker pod finalizer was already deleted, there is nothing
\* extra to do either": the entry in NodesToDelete is gone as well by then.
NothingExtraToDo ==
    [][pc = "finalizer" /\ pc' = "loop" => cur \notin seenToDelete]_vars

\* controller.go, "Predraining: disable nova service, ..., wait until there is no
\* VMs": the pass goes on to the taint and the post job only for an empty host.
PreDrainedMeansNoInstances == pc = "taint" => cur \notin instances
=============================================================================
