----------------------------- MODULE CRDeletion -----------------------------
(***************************************************************************)
(* The deletion of a ComputeNodeOpenStack CR: deleteAllBlockerPodFinalizer *)
(* drains every guarded node in three rounds with a barrier after each     *)
(* (all pre jobs, then all taints and post jobs, then the clean up), and   *)
(* Reconcile then deletes the owned objects and takes its finalizer off.   *)
(* Until somebody deletes the CR, NodeDrain runs.                          *)
(*                                                                         *)
(* A round that has to wait for a job returns without asking to be called  *)
(* again: the next call comes from an event, so the work queue is part of  *)
(* the model.                                                              *)
(***************************************************************************)
EXTENDS NodeDrain

VARIABLES
    crState,    \* "live", "deleting" (deletion timestamp set) or "gone"
    queued,     \* the CR waits in the work queue
    round,      \* the round under way, "idle" between two calls of Reconcile
    call,       \* the next call for node, "none" between two nodes
    node,       \* the node of the round that is being handled
    left,       \* the nodes the round has not come to yet
    listed,     \* the nodes listed when Reconcile started
    allDone     \* no job of the round is still running

roundVars    == <<round, call, node, left, listed, allDone>>
deletionVars == <<crState, queued, roundVars>>
allVars      == <<vars, deletionVars>>

Rounds == {"pre", "post", "cleanup"}
Calls  == {"finalizer", "taint", "trigger", "drained", "delete_post", "delete_pre", "unblock"}

DeletionTypeOK ==
    /\ TypeOK
    /\ crState \in {"live", "deleting", "gone"}
    /\ queued \in BOOLEAN
    /\ round \in Rounds \cup {"idle", "objects"}
    /\ call \in Calls \cup {"none"}
    /\ node \in Nodes \cup {NoNode}
    /\ call # "none" => node \in Nodes /\ round \in Rounds
    /\ left \subseteq listed /\ listed \subseteq Nodes
    /\ allDone \in BOOLEAN
    /\ round # "idle" => crState = "deleting" /\ pc = "idle"
    /\ crState = "gone" => pc = "idle"

RoundInit == round = "idle" /\ call = "none" /\ node = NoNode /\ left = {} /\ listed = {} /\ allDone = TRUE

DeletionInit == Init /\ crState = "live" /\ queued = FALSE /\ RoundInit

\* What the other actors and the NodeDrain pass see unchanged.
DrainVars == <<crVars, cachedBlocker, passVars, failures>>

-----------------------------------------------------------------------------
(* How Reconcile moves on.                                                 *)

Call(next) == call' = next /\ UNCHANGED <<crState, round, node, left, listed, allDone>>

\* Faulty: the last node decides whether the round has to wait.
NodeDone_LastCounts(done) ==
    /\ call' = "none" /\ node' = NoNode
    /\ allDone' = done
    /\ UNCHANGED <<crState, round, left, listed>>

NodeDone(done) ==
    /\ call' = "none" /\ node' = NoNode
    /\ allDone' = (allDone /\ done)
    /\ UNCHANGED <<crState, round, left, listed>>

Return == round' = "idle" /\ call' = "none" /\ node' = NoNode /\ left' = {} /\ listed' = {} /\ allDone' = TRUE

\* An error puts the CR back into the queue, with a delay.
ReturnError == Return /\ queued' = TRUE /\ UNCHANGED crState

\* Faulty: the controller does not watch its jobs.
JobEvent_NotWatched == queued' = queued

\* Job events put the CR into the queue, also while Reconcile is running.
JobEvent == queued' = (queued \/ (crState = "deleting" /\ job' # job))

-----------------------------------------------------------------------------
(* deleteAllBlockerPodFinalizer.                                           *)

DeleteCR ==
    /\ crState = "live"
    /\ "overlapping_removal" \in Mishaps \/ \A n \in Nodes : machine[n] # "deleting"
    /\ crState' = "deleting" /\ queued' = TRUE
    /\ fresh' = (pc = "idle")
    /\ UNCHANGED <<envVars, crVars, cachedBlocker, pc, cur, todo, draft, listVars, seenToDelete,
                   failures, roundVars>>

\* "if nodes already got scaled down, no need to run cleanup".
ListAllNodes ==
    /\ crState = "deleting" /\ queued /\ pc = "idle" /\ round = "idle"
    /\ queued' = FALSE
    /\ round' = IF present = {} THEN "objects" ELSE "pre"
    /\ left' = present /\ listed' = present
    /\ unmodified' = present
    /\ UNCHANGED <<present, cordoned, tainted, machine, blocker, jobVars, novaVars, DrainVars,
                   crState, call, node, allDone>>

TakeNode(n) ==
    /\ round \in Rounds /\ call = "none" /\ n \in left
    /\ left' = left \ {n} /\ node' = n /\ call' = "finalizer"
    /\ UNCHANGED <<envVars, DrainVars, crState, queued, round, listed, allDone>>

\* Faulty: the clean up is done for a node as soon as its turn comes.
CheckFinalizer_NoBarrier ==
    /\ call = "finalizer"
    /\ IF SeenBlocker(node) \in {"none", "released"}
       THEN NodeDone(TRUE)
       ELSE Call(CASE round = "pre" -> "trigger"
                   [] round = "post" -> IF job[node]["post"] = "succeeded" THEN "delete_post" ELSE "taint"
                   [] round = "cleanup" -> "delete_post")
    /\ UNCHANGED <<envVars, DrainVars, queued>>

\* A node without blocker pod finalizer has no part in any round.
CheckFinalizer ==
    /\ call = "finalizer"
    /\ IF SeenBlocker(node) \in {"none", "released"}
       THEN NodeDone(TRUE)
       ELSE Call(CASE round = "pre" -> "trigger" [] round = "post" -> "taint"
                   [] round = "cleanup" -> "delete_post")
    /\ UNCHANGED <<envVars, DrainVars, queued>>

\* A pass taints a node once, so the taint as listed is the taint there is.
TaintNode ==
    /\ call = "taint"
    /\ \/ node \in tainted /\ Call("trigger") /\ UNCHANGED <<clusterVars, queued>>
       \/ /\ node \in unmodified \ tainted
          /\ tainted' = tainted \cup {node}
          /\ unmodified' = unmodified \ {node}
          /\ Call("trigger")
          /\ UNCHANGED <<present, cordoned, machine, queued>>
       \/ node \notin unmodified \cup tainted /\ ReturnError /\ UNCHANGED clusterVars
    /\ UNCHANGED <<blocker, jobVars, novaVars, DrainVars>>

TriggerJob ==
    /\ call = "trigger"
    /\ JobCreated(node, round) /\ JobEvent
    /\ Call("drained")
    /\ UNCHANGED <<clusterVars, blocker, novaVars, DrainVars>>

\* Faulty: a running job does not keep the round open.
CheckJob_RunningIsDone ==
    /\ call = "drained"
    /\ IF job[node][round] \in {"succeeded", "active"} THEN NodeDone(TRUE) /\ UNCHANGED queued ELSE ReturnError
    /\ UNCHANGED <<envVars, DrainVars>>

\* Faulty: a job that has not started yet is waited for as well.
CheckJob_WaitForPending ==
    /\ call = "drained"
    /\ NodeDone(job[node][round] = "succeeded")
    /\ UNCHANGED <<envVars, DrainVars, queued>>

CheckJob ==
    /\ call = "drained"
    /\ \/ job[node][round] \in {"succeeded", "active"}
          /\ NodeDone(job[node][round] = "succeeded") /\ UNCHANGED queued
       \/ job[node][round] \notin {"succeeded", "active"} /\ ReturnError
    /\ UNCHANGED <<envVars, DrainVars>>

DeleteJob(p, here, next) ==
    /\ call = here
    /\ JobDeleted(node, p) /\ JobEvent
    /\ Call(next)
    /\ UNCHANGED <<clusterVars, blocker, disables, novaVars, DrainVars>>

UnblockNode ==
    /\ call = "unblock"
    /\ \/ SeenBlocker(node) = "none" /\ UNCHANGED <<blocker, queued>> /\ NodeDone(TRUE)
       \/ SeenBlocker(node) # "none" /\ SeenBlocker(node) = blocker[node]
          /\ Unblocked(node) /\ NodeDone(TRUE) /\ UNCHANGED queued
       \/ SeenBlocker(node) # "none" /\ SeenBlocker(node) # blocker[node]
          /\ UNCHANGED blocker /\ ReturnError
    /\ UNCHANGED <<clusterVars, jobVars, novaVars, DrainVars>>

RoundDone == round \in Rounds /\ call = "none" /\ left = {}

\* Not all jobs are done: return an AlreadyExists error that Reconcile drops.
WaitForJobs ==
    /\ RoundDone /\ ~allDone
    /\ Return
    /\ UNCHANGED <<envVars, DrainVars, crState, queued>>

\* Faulty: the nodes already handled are not gone through again.
NextRound_LeftNotReset ==
    /\ RoundDone /\ allDone
    /\ round' = CASE round = "pre" -> "post" [] round = "post" -> "cleanup"
                  [] round = "cleanup" -> "objects"
    /\ UNCHANGED <<envVars, DrainVars, crState, queued, call, node, left, listed, allDone>>

NextRound ==
    /\ RoundDone /\ allDone
    /\ round' = CASE round = "pre" -> "post" [] round = "post" -> "cleanup"
                  [] round = "cleanup" -> "objects"
    /\ left' = listed
    /\ UNCHANGED <<envVars, DrainVars, crState, queued, call, node, listed, allDone>>

\* deleteOwnerRefLabeledObjects, and the finalizer of the CR.
RemoveCRFinalizer ==
    /\ round = "objects"
    /\ crState' = "gone" /\ queued' = FALSE
    /\ Return
    /\ UNCHANGED <<envVars, DrainVars>>

DeletionStep ==
    \/ ListAllNodes \/ \E n \in Nodes : TakeNode(n)
    \/ CheckFinalizer \/ TaintNode \/ TriggerJob \/ CheckJob
    \/ DeleteJob("post", "delete_post", "delete_pre") \/ DeleteJob("pre", "delete_pre", "unblock")
    \/ UnblockNode
    \/ WaitForJobs \/ NextRound \/ RemoveCRFinalizer

-----------------------------------------------------------------------------

\* A failed call, or a crash: the restarted operator lists the CR.
DeletionAborts ==
    /\ round # "idle" /\ failures < MaxFailures
    /\ failures' = failures + 1
    /\ ReturnError
    /\ UNCHANGED <<envVars, crVars, cachedBlocker, passVars>>

\* The machines of a CR that is being deleted stay until its MachineSets go;
\* then no new ones come.
MachineSetBound ==
    /\ crState = "deleting" /\ "overlapping_removal" \notin Mishaps =>
            \A n \in Nodes : machine[n] = "running" => machine'[n] = "running"
    /\ crState = "gone" => \A n \in Nodes : machine[n] # "running" => machine'[n] # "running"

ClusterMoves(n) ==
    /\ ClusterStep(n) /\ MachineSetBound /\ JobEvent
    /\ UNCHANGED <<crState, roundVars>>

\* A pass that is under way when the CR is deleted goes on to its end.
LivePass ==
    /\ crState = "live" \/ pc # "idle"
    /\ PassStep \/ Abort \/ RestartAfterPanic
    /\ JobEvent
    /\ UNCHANGED <<crState, roundVars>>

DeletionNext ==
    \/ LivePass \/ DeleteCR \/ DeletionStep \/ DeletionAborts
    \/ \E n \in Nodes : ClusterMoves(n)
    \/ \E n \in Nodes : (ListForDeletion(n) \/ CacheCatchesUp(n)) /\ UNCHANGED deletionVars

DeletionSpec == DeletionInit /\ [][DeletionNext]_allVars

\* The worker takes what is queued, the scripts run, disabled hosts are emptied.
DeletionFairness ==
    /\ WF_allVars(LivePass) /\ WF_allVars(DeletionStep)
    /\ \A n \in Nodes :
        /\ WF_allVars(ClusterMoves(n) /\ InstancesLeave(n))
        /\ WF_allVars(ClusterMoves(n) /\ \E p \in Phases : JobStarts(n, p))
        /\ WF_allVars(ClusterMoves(n) /\ \E m \in Nodes : ScaleDownPreDisables(n, m))
        /\ WF_allVars(ClusterMoves(n) /\ ScaleDownPreExits(n))
        /\ WF_allVars(ClusterMoves(n) /\ (ScaleDownPostDeletes(n) \/ ScaleDownPostExits(n)))

FairDeletionSpec == DeletionSpec /\ DeletionFairness

-----------------------------------------------------------------------------
(* Properties.                                                             *)

\* The barrier: no node is let go while another guarded one still has its
\* compute service, so the instances of one never move to the next.
NoReleaseBeforeAllDrained ==
    [][\A n \in Nodes : (crState = "deleting" /\ Held(n) /\ ~Held(n)') =>
        \A m \in listed : Held(m) => service[m] = "deleted" /\ m \notin instances]_allVars

\* The barrier on services, whatever becomes of the machines: also when some of them
\* are scaled down or forced away between two rounds, the rounds let the first host
\* go only when Nova has forgotten every guarded host, so none of them can take
\* the instances of another.
ServicesGoTogether ==
    [][\A n \in Nodes : (round # "idle" /\ Held(n) /\ ~Held(n)') =>
        \A m \in present : Held(m) => service[m] = "deleted"]_allVars

\* When the CR is gone nobody is left to finish a drain: no node may still
\* wait for a finalizer or carry a drain job.
NothingLeftBehind ==
    crState = "gone" => \A n \in present : ~Held(n) /\ ~HasJob(n)

\* The dropped AlreadyExists error costs no wake-up: when Reconcile has returned
\* and the CR is not queued, a running job is there to queue it.
WaitingHasACause ==
    crState = "deleting" /\ pc = "idle" /\ round = "idle" /\ ~queued =>
        \E n \in Nodes, p \in Phases : job[n][p] = "active"

\* A CR that is deleted goes away.
DeletionCompletes == crState = "deleting" ~> crState = "gone"

-----------------------------------------------------------------------------
(* The deletion implements the removal of a fleet as FleetRemoval promises. *)

Fleet == INSTANCE FleetRemoval WITH
    known    <- {n \in Nodes : machine[n] # "none"},
    doomed   <- {n \in Nodes : Going(n)},
    guarded  <- {n \in present : Held(n)},
    serving  <- {n \in Nodes : service[n] = "enabled"},
    retired  <- {n \in Nodes : machine[n] # "none" /\ service[n] = "deleted"},
    occupied <- instances,
    phase    <- crState

\* Every step of the rounds, of the passes before them and of the cluster is a step
\* of FleetRemoval or none at all, as long as no machine is scaled down or forced
\* away meanwhile, no name is reused and the informer keeps up.
ImplementsFleetRemoval == Fleet!FleetSpec

-----------------------------------------------------------------------------
(***************************************************************************)
(* Why they hold.  Unless names come back or caches lag, each round finds  *)
(* its nodes where the one before has left them: it goes by their jobs and *)
(* blocker pods, and those move in one direction whatever becomes of the   *)
(* machines (RoundInv).                                                    *)
(***************************************************************************)

\* The nodes this round has been through.
Passed(n) == n \in listed \ left /\ (call # "none" => n # node)

CallOrder ==
    /\ call # "none" => node \in listed \ left
    /\ call \in Calls \ {"finalizer"} => Held(node)
    /\ call \in {"trigger", "drained"} => round \in {"pre", "post"}
    /\ call = "taint" => round = "post"
    /\ call \in {"delete_post", "delete_pre", "unblock"} => round = "cleanup"
    /\ call = "delete_pre" => job[node]["post"] = "absent"
    /\ call = "unblock" => ~HasJob(node)

RoundOrder ==
    /\ round # "idle" => \A n \in present : Held(n) => n \in listed
    /\ round \notin {"pre", "post"} => allDone
    /\ \A n \in listed : Held(n) =>
        /\ round \in Rounds /\ allDone /\ Passed(n) => round # "cleanup" /\ job[n][round] = "succeeded"
        /\ round = "post" => job[n]["pre"] = "succeeded"
        /\ round = "cleanup" => /\ service[n] = "deleted"
                                /\ \A p \in Phases : job[n][p] \in {"absent", "succeeded"}
        /\ round # "objects"

\* What the jobs of a host say of its drain, however its machine ends.
JobOrder ==
    \A n \in Nodes :
        /\ job[n]["post"] # "absent" => job[n]["pre"] = "succeeded"
        /\ job[n]["post"] = "succeeded" => service[n] = "deleted"

\* A host has neither guard nor job before it joins; a job of a node that is
\* there is that of a guarded one; a CR that is gone leaves no guard.
GuardsAndJobs ==
    /\ \A n \in Nodes : machine[n] = "none" =>
            /\ ~Held(n) /\ ~HasJob(n)
            /\ n \notin present \cup todo \cup listed /\ n # cur
    /\ \A n \in present : HasJob(n) => Held(n)
    /\ crState = "gone" => \A n \in present : ~Held(n)
    /\ pc \in GuardedCalls => Held(cur)

RoundInv ==
    /\ DeletionTypeOK
    /\ JobOrder /\ GuardsAndJobs
    /\ PassRecord /\ CallOrder /\ RoundOrder

(***************************************************************************)
(* If, besides, machines are neither forced away nor scaled down at the    *)
(* same time, no machine is on its way out when the CR is deleted, each    *)
(* pre job disables its own host, and nobody leaves during the rounds.     *)
(***************************************************************************)

JobsByState ==
    \A n \in Nodes :
        /\ HasJob(n) => Held(n) /\ n \in present
        /\ crState = "live" \/ pc # "idle" => (HasJob(n) => machine[n] = "deleting")
        /\ crState # "live" /\ HasJob(n) => disables[n] \subseteq {n}
        /\ crState = "deleting" => machine[n] # "deleting"
        /\ crState = "gone" => ~HasJob(n)

DeletionInv ==
    /\ RoundInv
    /\ NodeHasMachine /\ DeletedServiceIsEmpty /\ TaintedNodeIsEmpty
    /\ DrainOrder /\ PassGuarded
    /\ round # "idle" => listed \subseteq present
    /\ JobsByState

-----------------------------------------------------------------------------
(* What comments say of the drain, and the deletion does not do.           *)

\* scaledownpre.sh, "Disable all compute worker nodes to not have the
\* nova-scheduler to pick a node which is going to be removed next": while a
\* script empties its host Nova has none of the hosts of this CR to turn to.
AllGoingHostsDisabled ==
    \A n \in Nodes : crState = "deleting" /\ job[n]["pre"] = "active" /\ disables[n] = {} =>
        \A m \in present : Held(m) => service[m] # "enabled"

\* controller.go, "Predraining: disable nova service, ..., wait until there is no
\* VMs", of the deletion as well: the post job runs on an empty host.
PreDrainedForDeletion == call = "taint" => service[node] # "enabled"
=============================================================================
