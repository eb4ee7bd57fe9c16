--------------------------- MODULE CRDeletionProofs ---------------------------
(***************************************************************************)
(* What holds of the deletion of a CR for any number of hosts, of failed   *)
(* calls and of crashes, proved.                                           *)
(***************************************************************************)
EXTENDS CRDeletion, NodeDrainProofs

-----------------------------------------------------------------------------
(* Type correctness.                                                       *)

LEMMA DeletionTypeInit == DeletionInit => DeletionTypeOK
  BY TypeInit DEF DeletionInit, RoundInit, DeletionTypeOK, Init, PassInit

\* What a step of the deletion leaves of the drain's types.
LEMMA DrainTypeKept ==
  ASSUME TypeOK, ClusterTypeOK', UNCHANGED <<crVars, cachedBlocker, passVars>>,
         failures' \in 0..MaxFailures
  PROVE  TypeOK'
  BY DEF TypeOK, crVars, passVars, listVars

LEMMA DeletionTypeRounds ==
  ASSUME DeletionTypeOK, DeletionStep
  PROVE  DeletionTypeOK'
<1> USE DEF DeletionTypeOK, Rounds, Calls
<1>0. TypeOK /\ ClusterTypeOK /\ failures \in 0..MaxFailures BY DEF TypeOK
<1>1. ASSUME ClusterTypeOK', UNCHANGED DrainVars PROVE TypeOK'
  BY <1>0, <1>1, DrainTypeKept DEF DrainVars
<1>2. ASSUME UNCHANGED <<envVars, DrainVars>> PROVE TypeOK'
  BY <1>0, <1>1, <1>2, UnchangedCluster
<1>3. UNCHANGED DrainVars => pc' = pc BY DEF DrainVars, passVars
<1>4. CASE ListAllNodes
  <2>1. ClusterTypeOK' BY <1>0, <1>4 DEF ListAllNodes, ClusterTypeOK, jobVars, novaVars
  <2>2. present \subseteq Nodes BY <1>0 DEF ClusterTypeOK
  <2> QED BY <1>1, <1>3, <1>4, <2>1, <2>2 DEF ListAllNodes
<1>5. ASSUME NEW n \in Nodes, TakeNode(n) PROVE DeletionTypeOK'
  BY <1>2, <1>3, <1>5 DEF TakeNode
<1>6. CASE CheckFinalizer
  BY <1>2, <1>3, <1>6 DEF CheckFinalizer, NodeDone, Call
<1>7. CASE TaintNode
  <2>1. ClusterTypeOK'
    BY <1>0, <1>7 DEF TaintNode, ClusterTypeOK, clusterVars, jobVars, novaVars
  <2> QED BY <1>1, <1>3, <1>7, <2>1 DEF TaintNode, ReturnError, Return, Call
<1>8. CASE TriggerJob
  <2>1. ClusterTypeOK'
    BY <1>0, <1>8 DEF TriggerJob, JobCreated, ServicesToDisable, ClusterTypeOK, Phases, JobStates,
                      clusterVars, novaVars
  <2> QED BY <1>1, <1>3, <1>8, <2>1 DEF TriggerJob, JobEvent, Call
<1>9. CASE CheckJob
  BY <1>2, <1>3, <1>9 DEF CheckJob, NodeDone, ReturnError, Return
<1>10. ASSUME NEW p \in Phases, NEW here \in Calls, NEW next \in Calls, DeleteJob(p, here, next)
       PROVE  DeletionTypeOK'
  <2>1. ClusterTypeOK'
    BY <1>0, <1>10 DEF DeleteJob, JobDeleted, ClusterTypeOK, Phases, JobStates, clusterVars, novaVars
  <2> QED BY <1>1, <1>3, <1>10, <2>1 DEF DeleteJob, JobEvent, Call
<1>11. CASE UnblockNode
  <2>1. ClusterTypeOK'
    BY <1>0, <1>11 DEF UnblockNode, Unblocked, ClusterTypeOK, BlockerStates, clusterVars, jobVars, novaVars
  <2> QED BY <1>1, <1>3, <1>11, <2>1 DEF UnblockNode, NodeDone, ReturnError, Return
<1>12. CASE WaitForJobs BY <1>2, <1>3, <1>12 DEF WaitForJobs, Return
<1>13. CASE NextRound BY <1>2, <1>3, <1>13 DEF NextRound, RoundDone
<1>14. CASE RemoveCRFinalizer BY <1>2, <1>3, <1>14 DEF RemoveCRFinalizer, Return
<1> QED
  BY <1>4, <1>5, <1>6, <1>7, <1>8, <1>9, <1>10, <1>11, <1>12, <1>13, <1>14
  DEF DeletionStep, Phases

LEMMA DeletionTypeStep == DeletionTypeOK /\ [DeletionNext]_allVars => DeletionTypeOK'
<1> SUFFICES ASSUME DeletionTypeOK, [DeletionNext]_allVars PROVE DeletionTypeOK'
  OBVIOUS
<1> USE DEF DeletionTypeOK, roundVars
<1>1. CASE LivePass
  <2>1. TypeOK' BY <1>1, TypeStep DEF LivePass, Next
  <2>2. round = "idle" BY <1>1 DEF LivePass
  <2> QED BY <1>1, <2>1, <2>2 DEF LivePass, JobEvent
<1>2. CASE DeleteCR
  <2>1. TypeOK' BY <1>2, UnchangedCluster DEF DeleteCR, TypeOK, crVars, listVars
  <2> QED BY <1>2, <2>1 DEF DeleteCR
<1>3. CASE DeletionStep BY <1>3, DeletionTypeRounds
<1>4. CASE DeletionAborts
  <2>1. failures' \in 0..MaxFailures
    BY <1>4, MaxFailuresAssumption DEF DeletionAborts, TypeOK
  <2>2. TypeOK' BY <1>4, <2>1, UnchangedCluster, DrainTypeKept DEF DeletionAborts
  <2> QED BY <1>4, <2>2 DEF DeletionAborts, ReturnError, Return, passVars
<1>5. ASSUME NEW n \in Nodes, ClusterMoves(n) PROVE DeletionTypeOK'
  <2>1. TypeOK' BY <1>5, TypeStep DEF ClusterMoves, Next
  <2> QED BY <1>5, <2>1 DEF ClusterMoves, ClusterStep, JobEvent, passVars
<1>6. ASSUME NEW n \in Nodes, ListForDeletion(n) \/ CacheCatchesUp(n), UNCHANGED deletionVars
      PROVE  DeletionTypeOK'
  <2>1. TypeOK' BY <1>6, TypeStep DEF Next
  <2> QED BY <1>6, <2>1 DEF ListForDeletion, CacheCatchesUp, deletionVars, passVars
<1>7. CASE UNCHANGED allVars
  <2>1. TypeOK' BY <1>7, TypeStep DEF allVars
  <2> QED BY <1>7, <2>1 DEF allVars, deletionVars, vars, passVars
<1> QED BY <1>1, <1>2, <1>3, <1>4, <1>5, <1>6, <1>7 DEF DeletionNext

\* The rounds, too, keep their types, whatever the cluster suffers.
THEOREM DeletionTypeCorrect == DeletionSpec => []DeletionTypeOK
  BY DeletionTypeInit, DeletionTypeStep, PTL DEF DeletionSpec

-----------------------------------------------------------------------------
(* No wake-up is lost.                                                     *)

AJobRuns == \E n \in Nodes, p \in Phases : job[n][p] = "active"

(***************************************************************************)
(* A CR that is being deleted and not queued has Reconcile at work, or a   *)
(* job that was running when Reconcile looked and has not moved since.     *)
(***************************************************************************)
WakeUpInv ==
    /\ DeletionTypeOK
    /\ round = "idle" => allDone
    /\ call \in {"taint", "trigger", "drained"} => round \in Phases
    /\ crState = "deleting" /\ ~queued =>
          /\ pc = "idle"
          /\ round = "idle" \/ ~allDone => AJobRuns

LEMMA WakeUpInit == DeletionInit => WakeUpInv
  BY DeletionTypeInit DEF DeletionInit, RoundInit, WakeUpInv

LEMMA WakeUpStep == WakeUpInv /\ [DeletionNext]_allVars => WakeUpInv'
<1> SUFFICES ASSUME WakeUpInv, [DeletionNext]_allVars PROVE WakeUpInv'
  OBVIOUS
<1>0. DeletionTypeOK' BY DeletionTypeStep DEF WakeUpInv
<1>1. UNCHANGED job => AJobRuns' = AJobRuns BY DEF AJobRuns
<1> USE DEF WakeUpInv
<1>2. CASE LivePass
  <2>1. round = "idle" BY <1>2 DEF LivePass, DeletionTypeOK
  <2>2. crState = "deleting" => queued BY <1>2 DEF LivePass
  <2> QED BY <1>0, <1>2, <2>1, <2>2 DEF LivePass, JobEvent, roundVars
<1>3. CASE DeleteCR BY <1>0, <1>3 DEF DeleteCR, roundVars, DeletionTypeOK
<1>4. CASE DeletionStep
  <2>0. UNCHANGED DrainVars => pc' = pc BY DEF DrainVars, passVars
  <2>1. UNCHANGED envVars => UNCHANGED job BY DEF envVars, jobVars
  <2>2. CASE ListAllNodes
    BY <1>0, <2>2 DEF ListAllNodes, DrainVars, passVars, DeletionTypeOK, Rounds
  <2>3. ASSUME NEW n \in Nodes, TakeNode(n) PROVE WakeUpInv'
    BY <1>0, <1>1, <2>0, <2>1, <2>3 DEF TakeNode, Rounds
  <2>4. CASE CheckFinalizer
    BY <1>0, <1>1, <2>0, <2>1, <2>4 DEF CheckFinalizer, NodeDone, Call, Phases, DeletionTypeOK, Rounds
  <2>5. CASE TaintNode
    BY <1>0, <1>1, <2>0, <2>5 DEF TaintNode, Call, ReturnError, Return, jobVars
  <2>6. CASE TriggerJob
    BY <1>0, <1>1, <2>0, <2>6 DEF TriggerJob, JobEvent, Call
  <2>7. CASE CheckJob
    <3>1. node \in Nodes /\ round \in Phases /\ round # "idle" BY <2>7 DEF CheckJob, DeletionTypeOK, Phases
    <3>2. job[node][round] = "active" => AJobRuns BY <3>1 DEF AJobRuns
    <3> QED BY <1>0, <1>1, <2>0, <2>1, <2>7, <3>1, <3>2 DEF CheckJob, NodeDone, ReturnError, Return
  <2>8. ASSUME NEW p \in Phases, NEW here \in Calls, NEW next \in {"delete_pre", "unblock"},
               DeleteJob(p, here, next)
        PROVE  WakeUpInv'
    BY <1>0, <1>1, <2>0, <2>8 DEF DeleteJob, JobEvent, Call
  <2>9. CASE UnblockNode
    BY <1>0, <1>1, <2>0, <2>9 DEF UnblockNode, NodeDone, ReturnError, Return, jobVars
  <2>10. CASE WaitForJobs
    BY <1>0, <1>1, <2>0, <2>1, <2>10 DEF WaitForJobs, Return
  <2>11. CASE NextRound
    BY <1>0, <1>1, <2>0, <2>1, <2>11 DEF NextRound, RoundDone, Rounds
  <2>12. CASE RemoveCRFinalizer BY <1>0, <2>12 DEF RemoveCRFinalizer, Return
  <2> QED
    BY <1>4, <2>2, <2>3, <2>4, <2>5, <2>6, <2>7, <2>8, <2>9, <2>10, <2>11, <2>12
    DEF DeletionStep, Phases, Calls
<1>5. CASE DeletionAborts
  BY <1>0, <1>5 DEF DeletionAborts, ReturnError, Return
<1>6. ASSUME NEW n \in Nodes, ClusterMoves(n) PROVE WakeUpInv'
  BY <1>0, <1>1, <1>6 DEF ClusterMoves, ClusterStep, JobEvent, roundVars, passVars
<1>7. ASSUME NEW n \in Nodes, ListForDeletion(n) \/ CacheCatchesUp(n), UNCHANGED deletionVars
      PROVE  WakeUpInv'
  BY <1>0, <1>1, <1>7
  DEF ListForDeletion, CacheCatchesUp, deletionVars, roundVars, passVars, envVars, jobVars
<1>8. CASE UNCHANGED allVars
  BY <1>0, <1>1, <1>8
  DEF allVars, vars, deletionVars, roundVars, passVars, envVars, jobVars
<1> QED BY <1>2, <1>3, <1>4, <1>5, <1>6, <1>7, <1>8 DEF DeletionNext

\* For any number of hosts, whatever the cluster suffers: Reconcile never leaves a
\* CR that is being deleted without a job whose next event brings it back.
THEOREM WakeUpsAreKept == DeletionSpec => []WaitingHasACause
<1>1. WakeUpInv => WaitingHasACause BY DEF WakeUpInv, WaitingHasACause, AJobRuns
<1> QED BY <1>1, WakeUpInit, WakeUpStep, PTL DEF DeletionSpec

-----------------------------------------------------------------------------
(* The rounds, whatever becomes of the machines.                           *)

\* No name is reused, and the operator sees every pod as it is.
FreshView == FreshNames /\ "cache_lag" \notin Mishaps

LEMMA SeenAsItIs == FreshView => \A n \in Nodes : SeenBlocker(n) = blocker[n]
  BY DEF FreshView, SeenBlocker

LEMMA RoundInvInit == DeletionInit => RoundInv
<1> SUFFICES ASSUME DeletionInit PROVE RoundInv OBVIOUS
<1>1. DeletionTypeOK BY DeletionTypeInit
<1>2. \A n \in Nodes : ~HasJob(n) /\ ~Held(n) /\ n # NoNode
  BY NoNodeAssumption DEF DeletionInit, Init, ClusterInit, HasJob, Held, Phases
<1>3. JobOrder BY <1>2 DEF JobOrder, HasJob, Phases
<1>4. GuardsAndJobs
  BY <1>2 DEF GuardsAndJobs, DeletionInit, RoundInit, Init, ClusterInit, PassInit, GuardedCalls
<1>5. PassRecord BY DEF PassRecord, DeletionInit, Init, PassInit, PreDrainedCalls, PostDrainedCalls
<1>6. CallOrder /\ RoundOrder BY DEF CallOrder, RoundOrder, DeletionInit, RoundInit, Calls, Rounds
<1> QED BY <1>1, <1>3, <1>4, <1>5, <1>6 DEF RoundInv

\* A pass makes jobs for guarded hosts, and lets a host go when it has none.
LEMMA PassKeepsOrder ==
  ASSUME FreshView, RoundInv, crState = "live" \/ pc # "idle", round = "idle",
         PassStep \/ Abort \/ RestartAfterPanic, UNCHANGED <<crState, listed>>
  PROVE  JobOrder' /\ GuardsAndJobs' /\ PassRecord'
<1> USE DEF RoundInv, DeletionTypeOK, TypeOK, ClusterTypeOK, JobOrder, GuardsAndJobs, PassRecord, HasJob,
      Phases, Held, GuardedCalls, PreDrainedCalls, PostDrainedCalls, DrainCalls
<1> USE DEF envVars, clusterVars, jobVars, novaVars, PassEnds, NextNode, Proceed
<1>0. \A n \in Nodes : n # NoNode BY NoNodeAssumption
<1>00. crState # "gone" OBVIOUS
<1>1. CASE ListNodes BY <1>0, <1>00, <1>1 DEF ListNodes
<1>2. ASSUME NEW n \in Nodes, RecordNode(n) \/ SkipUnlisted(n) \/ ConsiderDrain(n)
      PROVE  JobOrder' /\ GuardsAndJobs' /\ PassRecord'
  BY <1>0, <1>00, <1>2 DEF RecordNode, SkipUnlisted, ConsiderDrain, Take
<1>3. CASE CreateBlockerPod BY <1>0, <1>00, <1>3 DEF CreateBlockerPod
<1>4. CASE UpdateStatus \/ Abort \/ RestartAfterPanic
  BY <1>0, <1>00, <1>4 DEF UpdateStatus, Abort, RestartAfterPanic
<1>5. CASE IsMachineBeingDeleted BY <1>0, <1>00, <1>5 DEF IsMachineBeingDeleted
<1>6. CASE IsBlockerPodFinalizerDeleted
  BY <1>0, <1>00, <1>6, SeenAsItIs DEF IsBlockerPodFinalizerDeleted, BlockerStates
<1>7. CASE TriggerPreDrain
  BY <1>0, <1>00, <1>7 DEF TriggerPreDrain, TriggerNodeDrain, JobCreated
<1>8. CASE TriggerPostDrain
  BY <1>0, <1>00, <1>8 DEF TriggerPostDrain, TriggerNodeDrain, JobCreated
<1>9. CASE IsNodePreDrained \/ IsNodePostDrained
  BY <1>0, <1>00, <1>9 DEF IsNodePreDrained, IsNodePostDrained, IsNodeDrained
<1>10. CASE AddToBeRemovedTaint BY <1>0, <1>00, <1>10 DEF AddToBeRemovedTaint
<1>11. CASE DeletePostJob BY <1>0, <1>00, <1>11 DEF DeletePostJob, DeleteJobWithName, JobDeleted
<1>12. CASE DeletePreJob BY <1>0, <1>00, <1>12 DEF DeletePreJob, DeleteJobWithName, JobDeleted
<1>13. CASE DeleteBlockerPodFinalizer
  <2>1. \A n \in Nodes : n # cur => blocker'[n] = blocker[n]
    BY <1>13 DEF DeleteBlockerPodFinalizer, Unblocked
  <2>2. ~HasJob(cur) /\ machine[cur] # "none" /\ cur \in Nodes
    BY <1>13 DEF DeleteBlockerPodFinalizer
  <2>3. UNCHANGED <<clusterVars, jobVars, novaVars>> /\ pc' \in {"nodes_to_delete", "idle"}
        /\ todo' \subseteq todo /\ cur' \in {cur, NoNode}
    BY <1>13 DEF DeleteBlockerPodFinalizer
  <2> QED BY <1>0, <1>00, <2>1, <2>2, <2>3
<1>14. CASE RemoveNodeToDelete BY <1>0, <1>00, <1>14 DEF RemoveNodeToDelete
<1> QED
  BY <1>1, <1>2, <1>3, <1>4, <1>5, <1>6, <1>7, <1>8, <1>9, <1>10, <1>11, <1>12, <1>13, <1>14
  DEF PassStep, DrainStep

LEMMA RoundInvPass ==
  ASSUME FreshView, RoundInv, LivePass
  PROVE  RoundInv'
<1>1. DeletionTypeOK' BY DeletionTypeStep DEF RoundInv, DeletionNext
<1>2. round = "idle" /\ UNCHANGED <<crState, round, call, listed, allDone>> /\ allDone
  BY DEF LivePass, roundVars, RoundInv, DeletionTypeOK, RoundOrder
<1>3. CallOrder' /\ RoundOrder' BY <1>1, <1>2 DEF CallOrder, RoundOrder, DeletionTypeOK, Rounds, Calls
<1>4. JobOrder' /\ GuardsAndJobs' /\ PassRecord' BY <1>2, PassKeepsOrder DEF LivePass
<1> QED BY <1>1, <1>3, <1>4 DEF RoundInv

\* The other actors neither take a guard away nor give a job to anybody.
LEMMA OthersKeepGuards ==
  ASSUME TypeOK, NEW n \in Nodes, ClusterStep(n)
  PROVE  /\ \A m \in Nodes : Held(m)' = Held(m)
         /\ \A m \in Nodes, p \in Phases : /\ job'[m][p] = "absent" <=> job[m][p] = "absent"
                                           /\ job[m][p] = "succeeded" => job'[m][p] = "succeeded"
         /\ \A m \in Nodes : job'[m]["post"] = "succeeded" =>
                             job[m]["post"] = "succeeded" \/ service[m] = "deleted"
         /\ UNCHANGED <<pc, cur, todo>>
<1> USE DEF TypeOK, ClusterTypeOK, Held, BlockerStates
<1> USE DEF clusterVars, jobVars, novaVars, passVars
<1>1. CASE MachineSteps(n)
  <2>1. CASE BlockerPodEvicted(n) BY <2>1 DEF BlockerPodEvicted, ClusterStep
  <2> QED BY <1>1, <2>1 DEF MachineSteps, ClusterStep, NodeJoins, MachineMarkedDeleted, NodeCordoned,
                            NodeUncordoned, NodeLeaves, MachineGone
<1>2. CASE NovaSteps(n)
  BY <1>2 DEF NovaSteps, InstanceStarts, InstancesLeave, InstanceMoves, ClusterStep
<1>3. CASE JobSteps(n)
  <2>1. ASSUME NEW p \in Phases, JobStarts(n, p) \/ JobFails(n, p)
        PROVE  \A m \in Nodes, q \in Phases : /\ job'[m][q] = "absent" <=> job[m][q] = "absent"
                                              /\ job[m][q] = "succeeded" => job'[m][q] = "succeeded"
                                              /\ job'[m][q] = "succeeded" => job[m][q] = "succeeded"
    BY <2>1 DEF JobStarts, JobFails
  <2>2. CASE ScaleDownPreExits(n)
    <3>1. job[n]["pre"] = "active" /\ job' = [job EXCEPT ![n]["pre"] = "succeeded"] /\ UNCHANGED blocker
      BY <2>2 DEF ScaleDownPreExits
    <3> QED BY <3>1 DEF ClusterStep, Phases
  <2>3. CASE ScaleDownPostExits(n)
    <3>1. /\ job[n]["post"] = "active" /\ job' = [job EXCEPT ![n]["post"] = "succeeded"]
          /\ service[n] = "deleted" /\ UNCHANGED blocker
      BY <2>3 DEF ScaleDownPostExits
    <3> QED BY <3>1 DEF ClusterStep, Phases
  <2>4. CASE (\E m \in Nodes : ScaleDownPreDisables(n, m)) \/ ScaleDownPostDeletes(n)
    BY <2>4 DEF ClusterStep, ScaleDownPreDisables, ScaleDownPostDeletes
  <2>5. CASE \E p \in Phases : JobStarts(n, p) \/ JobFails(n, p)
    BY <2>1, <2>5 DEF ClusterStep, JobStarts, JobFails, Phases
  <2> QED BY <1>3, <2>2, <2>3, <2>4, <2>5 DEF JobSteps
<1> QED BY <1>1, <1>2, <1>3 DEF ClusterStep, EnvironmentSteps

\* Who joins is new, and Nova never learns again of a host it has forgotten.
LEMMA OthersAddNewHosts ==
  ASSUME FreshNames, TypeOK, NEW n \in Nodes, ClusterStep(n)
  PROVE  /\ \A m \in Nodes : machine'[m] = "none" => machine[m] = "none" /\ (m \in present' => m \in present)
         /\ \A m \in Nodes : m \in present' /\ m \notin present =>
               machine[m] = "none" /\ machine'[m] = "running"
         /\ \A m \in Nodes : service[m] = "deleted" /\ machine[m] # "none" => service'[m] = "deleted"
<1> USE DEF FreshNames, TypeOK, ClusterTypeOK
<1> USE DEF clusterVars, jobVars, novaVars
<1>1. CASE MachineSteps(n)
  <2>1. CASE NodeJoins(n) BY <2>1 DEF NodeJoins
  <2>2. CASE MachineMarkedDeleted(n) BY <2>2 DEF MachineMarkedDeleted
  <2>3. CASE NodeCordoned(n) \/ NodeUncordoned(n) BY <2>3 DEF NodeCordoned, NodeUncordoned
  <2>4. CASE BlockerPodEvicted(n) BY <2>4 DEF BlockerPodEvicted
  <2>5. CASE NodeLeaves(n) BY <2>5 DEF NodeLeaves
  <2>6. CASE MachineGone(n) BY <2>6 DEF MachineGone
  <2> QED BY <1>1, <2>1, <2>2, <2>3, <2>4, <2>5, <2>6 DEF MachineSteps
<1>2. CASE NovaSteps(n)
  BY <1>2 DEF NovaSteps, InstanceStarts, InstancesLeave, InstanceMoves
<1>3. CASE JobSteps(n)
  BY <1>3 DEF JobSteps, JobStarts, JobFails, ScaleDownPreDisables, ScaleDownPreExits,
              ScaleDownPostDeletes, ScaleDownPostExits
<1> QED BY <1>1, <1>2, <1>3 DEF ClusterStep, EnvironmentSteps

LEMMA RoundInvCluster ==
  ASSUME FreshView, RoundInv, NEW n \in Nodes, ClusterMoves(n)
  PROVE  RoundInv'
<1>0. ClusterStep(n) /\ MachineSetBound /\ UNCHANGED <<crState, round, call, node, left, listed, allDone>>
  BY DEF ClusterMoves, roundVars
<1>1. DeletionTypeOK' BY DeletionTypeStep DEF RoundInv, DeletionNext
<1>2. TypeOK /\ listed \subseteq Nodes /\ present \subseteq Nodes /\ present' \subseteq Nodes
  BY <1>1 DEF RoundInv, DeletionTypeOK, TypeOK, ClusterTypeOK
<1>3. /\ \A m \in Nodes : Held(m)' = Held(m) /\ HasJob(m)' = HasJob(m)
      /\ UNCHANGED <<pc, cur, todo>>
  BY <1>0, <1>2, OthersKeepGuards DEF HasJob
<1>4. \A m \in Nodes : machine[m] = "none" => ~Held(m) /\ ~HasJob(m) /\ m \notin present \cup todo \cup listed /\ m # cur
  BY DEF RoundInv, GuardsAndJobs
<1>5. \A m \in Nodes :
         /\ \A p \in Phases : /\ job'[m][p] = "absent" <=> job[m][p] = "absent"
                              /\ job[m][p] = "succeeded" => job'[m][p] = "succeeded"
         /\ m \in present' /\ (Held(m) \/ HasJob(m)) => m \in present
         /\ service[m] = "deleted" /\ (Held(m) \/ HasJob(m) \/ m = cur) => service'[m] = "deleted"
  BY <1>0, <1>2, <1>4, OthersAddNewHosts, OthersKeepGuards DEF FreshView
<1>6. JobOrder'
  <2> SUFFICES ASSUME NEW m \in Nodes
               PROVE  /\ job'[m]["post"] # "absent" => job'[m]["pre"] = "succeeded"
                      /\ job'[m]["post"] = "succeeded" => service'[m] = "deleted"
    BY DEF JobOrder
  <2>1. job[m]["post"] # "absent" => job[m]["pre"] = "succeeded" /\ HasJob(m)
    BY DEF RoundInv, JobOrder, HasJob, Phases
  <2>2. job[m]["post"] = "succeeded" => service[m] = "deleted" BY DEF RoundInv, JobOrder
  <2>3. job'[m]["post"] = "succeeded" => job[m]["post"] = "succeeded" \/ service[m] = "deleted"
    BY <1>0, <1>2, OthersKeepGuards
  <2> QED BY <1>5, <2>1, <2>2, <2>3 DEF Phases
<1>7. GuardsAndJobs'
  <2>1. \A m \in Nodes : machine'[m] = "none" => machine[m] = "none" /\ (m \in present' => m \in present)
    BY <1>0, <1>2, OthersAddNewHosts DEF FreshView
  <2> QED BY <1>0, <1>2, <1>3, <1>4, <1>5, <2>1 DEF RoundInv, GuardsAndJobs, DeletionTypeOK, TypeOK, DrainCalls, GuardedCalls
<1>8. PassRecord'
  <2>1. pc \in PreDrainedCalls \cup PostDrainedCalls => cur \in Nodes
    BY <1>2 DEF TypeOK, DrainCalls, PreDrainedCalls, PostDrainedCalls
  <2> QED BY <1>3, <1>5, <2>1 DEF RoundInv, PassRecord, PreDrainedCalls, PostDrainedCalls, Phases
<1>9. CallOrder'
  <2>1. call # "none" => node \in Nodes BY DEF RoundInv, DeletionTypeOK
  <2>2. CallOrder BY DEF RoundInv
  <2> QED BY <1>0, <1>3, <1>5, <2>1, <2>2 DEF CallOrder, Calls, Phases
<1>10. RoundOrder'
  <2>1. RoundOrder BY DEF RoundInv
  <2>2. round' # "idle" => \A m \in present' : Held(m)' => m \in listed'
    BY <1>0, <1>2, <1>3, <1>5, <2>1 DEF RoundOrder
  <2>3. ASSUME NEW m \in listed, Held(m)
        PROVE  /\ round \in Rounds /\ allDone /\ Passed(m) => round # "cleanup" /\ job'[m][round] = "succeeded"
               /\ round = "post" => job'[m]["pre"] = "succeeded"
               /\ round = "cleanup" => /\ service'[m] = "deleted"
                                       /\ \A p \in Phases : job'[m][p] \in {"absent", "succeeded"}
               /\ round # "objects"
    BY <1>2, <1>5, <2>1, <2>3 DEF RoundOrder, Phases, Rounds
  <2> QED BY <1>0, <1>2, <1>3, <2>1, <2>2, <2>3 DEF RoundOrder, Passed
<1> QED BY <1>1, <1>6, <1>7, <1>8, <1>9, <1>10 DEF RoundInv

\* The part of the invariant that is not about calls, rounds and passes.
GuardOrder == JobOrder /\ GuardsAndJobs

\* A step of a round moves neither machines nor the pass.
LEMMA RoundsLeaveMachines ==
  ASSUME DeletionTypeOK, DeletionStep
  PROVE  /\ crState = "deleting" /\ pc = "idle" /\ (call # "none" => node \in Nodes)
         /\ ListAllNodes \/ round # "idle"
         /\ UNCHANGED <<present, machine, pc, cur, todo>>
<1> USE DEF DrainVars, passVars, envVars, clusterVars, Rounds, Calls
<1>1. \/ ListAllNodes \/ (\E n \in Nodes : TakeNode(n)) \/ CheckFinalizer \/ CheckJob \/ WaitForJobs
      \/ NextRound \/ RemoveCRFinalizer
      => UNCHANGED <<present, machine, pc, cur, todo>>
  BY DEF ListAllNodes, TakeNode, CheckFinalizer, CheckJob, WaitForJobs, NextRound, RemoveCRFinalizer
<1>2. TaintNode \/ TriggerJob \/ UnblockNode => UNCHANGED <<present, machine, pc, cur, todo>>
  BY DEF TaintNode, TriggerJob, UnblockNode
<1>3. \A p \in Phases, here, next \in Calls :
         DeleteJob(p, here, next) => UNCHANGED <<present, machine, pc, cur, todo>>
  BY DEF DeleteJob
<1>4. UNCHANGED <<present, machine, pc, cur, todo>>
  BY <1>1, <1>2, <1>3 DEF DeletionStep, Phases
<1>5. ListAllNodes \/ round # "idle"
  BY DEF DeletionStep, TakeNode, CheckFinalizer, TaintNode, TriggerJob, CheckJob, DeleteJob, UnblockNode,
         WaitForJobs, NextRound, RoundDone, RemoveCRFinalizer, DeletionTypeOK
<1> QED BY <1>4, <1>5 DEF ListAllNodes, DeletionTypeOK

LEMMA RoundInvRounds ==
  ASSUME FreshView, RoundInv, DeletionStep
  PROVE  RoundInv'
<1>1. DeletionTypeOK' BY DeletionTypeStep DEF RoundInv, DeletionNext
<1>2. /\ crState = "deleting" /\ pc = "idle" /\ (call # "none" => node \in Nodes)
      /\ UNCHANGED <<present, machine, pc, cur, todo>>
  BY RoundsLeaveMachines DEF RoundInv
<1>3. PassRecord' BY <1>2 DEF PassRecord, PreDrainedCalls, PostDrainedCalls
<1>4. SUFFICES GuardOrder' /\ CallOrder' /\ RoundOrder'
  BY <1>1, <1>3 DEF RoundInv, GuardOrder
<1>5. \A n \in Nodes : SeenBlocker(n) = blocker[n]
  BY SeenAsItIs
<1>6. CallOrder /\ RoundOrder /\ GuardOrder /\ DeletionTypeOK BY DEF RoundInv, GuardOrder
<1>7. /\ present \subseteq Nodes /\ left \subseteq listed /\ listed \subseteq Nodes
      /\ blocker \in [Nodes -> BlockerStates] /\ job \in [Nodes -> [Phases -> JobStates]]
  BY <1>6 DEF DeletionTypeOK, TypeOK, ClusterTypeOK
<1>8. ASSUME UNCHANGED <<envVars, crState>>, listed' \in {listed, {}, present}
      PROVE  GuardOrder' /\ UNCHANGED <<blocker, job, service>>
             /\ \A n \in Nodes : Held(n)' = Held(n) /\ HasJob(n)' = HasJob(n)
  <2>1. UNCHANGED <<blocker, job, service>> BY <1>8 DEF envVars, jobVars, novaVars
  <2> QED BY <1>2, <1>6, <1>8, <2>1 DEF GuardOrder, JobOrder, GuardsAndJobs, Held, HasJob, GuardedCalls
<1>9. CASE ListAllNodes
  <2>1. UNCHANGED <<blocker, job, service, call, node, crState>>
        /\ call = "none" /\ listed' = present /\ left' = present /\ round' \in {"pre", "objects"}
        /\ (round' = "objects" => present = {}) /\ allDone' = allDone
    BY <1>9, <1>6 DEF ListAllNodes, jobVars, novaVars, DeletionTypeOK, Rounds
  <2>2. GuardOrder'
    BY <1>2, <1>6, <2>1 DEF GuardOrder, JobOrder, GuardsAndJobs, HasJob, Held, GuardedCalls
  <2>3. CallOrder' BY <2>1 DEF CallOrder, Calls
  <2>4. RoundOrder'
    <3>1. present' = present BY <1>2
    <3>2. listed' \ left' = {} BY <2>1
    <3>3. allDone BY <1>6, <1>9 DEF ListAllNodes, RoundOrder
    <3> QED BY <2>1, <3>1, <3>2, <3>3 DEF RoundOrder, Passed
  <2> QED BY <2>2, <2>3, <2>4
<1>10. ASSUME NEW n \in Nodes, TakeNode(n) PROVE GuardOrder' /\ CallOrder' /\ RoundOrder'
  <2>1. UNCHANGED <<envVars, crState, round, listed, allDone>> /\ n \in left /\ call = "none"
        /\ left' = left \ {n} /\ node' = n /\ call' = "finalizer"
    BY <1>10 DEF TakeNode
  <2>2. GuardOrder' /\ UNCHANGED <<blocker, job, service>> /\ \A m \in Nodes : Held(m)' = Held(m)
    BY <1>8, <2>1
  <2>3. CallOrder' BY <1>7, <2>1 DEF CallOrder, Calls
  <2>4. \A m \in listed : Passed(m)' => Passed(m) BY <2>1 DEF Passed
  <2>5. RoundOrder' BY <1>2, <1>6, <1>7, <2>1, <2>2, <2>4 DEF RoundOrder
  <2> QED BY <2>2, <2>3, <2>5
<1>11. CASE CheckFinalizer
  <2>1. UNCHANGED <<envVars, crState, round, left, listed>> /\ call = "finalizer" /\ round \in Rounds
    BY <1>6, <1>11 DEF CheckFinalizer, NodeDone, Call, DeletionTypeOK
  <2>2. GuardOrder' /\ UNCHANGED <<blocker, job, service>> /\ \A m \in Nodes : Held(m)' = Held(m)
    BY <1>8, <2>1
  <2>3. CASE blocker[node] \in {"none", "released"}
    <3>1. ~Held(node) /\ call' = "none" /\ allDone' = allDone
      BY <1>2, <1>5, <1>6, <1>11, <2>1, <2>3 DEF CheckFinalizer, NodeDone, Held, DeletionTypeOK
    <3>2. CallOrder' BY <3>1 DEF CallOrder, Calls
    <3>3. \A m \in listed : Held(m) /\ Passed(m)' => Passed(m) BY <2>1, <3>1 DEF Passed
    <3>4. RoundOrder' BY <1>2, <1>6, <1>7, <2>1, <2>2, <3>1, <3>3 DEF RoundOrder
    <3> QED BY <2>2, <3>2, <3>4
  <2>4. CASE blocker[node] \notin {"none", "released"}
    <3>1. Held(node) BY <1>2, <1>7, <2>1, <2>4 DEF Held, BlockerStates
    <3>2. /\ UNCHANGED <<node, allDone>>
          /\ call' = (CASE round = "pre" -> "trigger" [] round = "post" -> "taint"
                        [] round = "cleanup" -> "delete_post")
      BY <1>2, <1>5, <1>11, <2>1, <2>4 DEF CheckFinalizer, Call
    <3>3. node \in listed \ left BY <1>6, <2>1 DEF CallOrder
    <3>4. CallOrder' BY <1>2, <2>1, <2>2, <3>1, <3>2, <3>3 DEF CallOrder, Calls, Rounds
    <3>5. \A m \in listed : Passed(m)' => Passed(m)
      <4>1. call' # "none" BY <2>1, <3>2 DEF Rounds
      <4> QED BY <2>1, <3>2, <4>1 DEF Passed
    <3>6. RoundOrder' BY <1>2, <1>6, <1>7, <2>1, <2>2, <3>2, <3>5 DEF RoundOrder
    <3> QED BY <2>2, <3>4, <3>6
  <2> QED BY <2>3, <2>4
<1>12. CASE TaintNode
  <2>1. UNCHANGED <<blocker, job, service, crState>> /\ call = "taint" /\ listed' \in {listed, {}}
    BY <1>12, <1>2 DEF TaintNode, Call, ReturnError, Return, jobVars, novaVars
  <2>2. \A m \in Nodes : Held(m)' = Held(m) /\ HasJob(m)' = HasJob(m) BY <2>1 DEF Held, HasJob
  <2>3. GuardOrder'
    BY <1>2, <1>6, <1>7, <2>1, <2>2 DEF GuardOrder, JobOrder, GuardsAndJobs, GuardedCalls
  <2>4. node \in Nodes /\ Held(node) /\ node \in listed \ left
    BY <1>2, <1>6, <2>1 DEF CallOrder, Calls
  <2>5. CASE Call("trigger")
    <3>1. CallOrder' BY <1>2, <1>6, <2>1, <2>2, <2>4, <2>5 DEF Call, CallOrder, Calls
    <3>2. \A m \in listed : Passed(m)' => Passed(m) BY <2>1, <2>5 DEF Call, Passed
    <3>3. RoundOrder' BY <1>2, <1>6, <1>7, <2>1, <2>2, <2>5, <3>2 DEF Call, RoundOrder
    <3> QED BY <2>3, <3>1, <3>3
  <2>6. CASE ReturnError
    BY <1>2, <2>3, <2>6 DEF ReturnError, Return, CallOrder, RoundOrder, Calls, Rounds
  <2> QED BY <1>12, <2>5, <2>6 DEF TaintNode
<1>13. CASE TriggerJob
  <2>1. /\ UNCHANGED <<blocker, service, crState, round, node, left, listed, allDone>>
        /\ call = "trigger" /\ call' = "drained"
        /\ job' = [job EXCEPT ![node][round] = IF @ = "absent" THEN "pending" ELSE @]
    BY <1>13, <1>2 DEF TriggerJob, JobCreated, Call, novaVars
  <2>2. node \in Nodes /\ Held(node) /\ round \in Phases /\ node \in listed \ left
    BY <1>2, <1>6, <2>1 DEF CallOrder, Calls, Phases
  <2>3. round = "post" => job[node]["pre"] = "succeeded" BY <1>6, <2>2 DEF RoundOrder
  <2>4. \A m \in Nodes : Held(m)' = Held(m) BY <2>1 DEF Held
  <2>5. \A m \in Nodes, p \in Phases : /\ (m # node \/ p # round) => job'[m][p] = job[m][p]
                                       /\ job[m][p] # "absent" => job'[m][p] = job[m][p]
                                       /\ job'[m][p] # job[m][p] => job'[m][p] = "pending"
    BY <1>7, <2>1, <2>2 DEF Phases
  <2>6. GuardOrder'
    <3>1. JobOrder' BY <1>6, <2>1, <2>2, <2>3, <2>5 DEF GuardOrder, JobOrder, Phases
    <3>2. \A m \in Nodes : HasJob(m)' => HasJob(m) \/ m = node BY <2>5 DEF HasJob
    <3>3. node \in Nodes => machine[node] # "none" BY <1>6, <2>2 DEF GuardOrder, GuardsAndJobs
    <3> QED BY <1>2, <1>6, <1>7, <2>1, <2>2, <2>4, <3>1, <3>2, <3>3
            DEF GuardOrder, GuardsAndJobs, GuardedCalls
  <2>7. CallOrder' BY <1>2, <2>1, <2>2, <2>4 DEF CallOrder, Calls, Phases
  <2>8. \A m \in listed : Passed(m)' => Passed(m) BY <2>1 DEF Passed
  <2>9. RoundOrder'
    BY <1>2, <1>6, <1>7, <2>1, <2>2, <2>4, <2>5, <2>8 DEF RoundOrder, Phases, Rounds
  <2> QED BY <2>6, <2>7, <2>9
<1>14. CASE CheckJob
  <2>1. UNCHANGED <<envVars, crState>> /\ call = "drained" /\ listed' \in {listed, {}}
    BY <1>2, <1>14 DEF CheckJob, NodeDone, ReturnError, Return
  <2>2. GuardOrder' /\ UNCHANGED <<blocker, job, service>> /\ \A m \in Nodes : Held(m)' = Held(m)
    BY <1>8, <2>1
  <2>3. CASE NodeDone(job[node][round] = "succeeded")
    <3>1. CallOrder' BY <2>3 DEF NodeDone, CallOrder, Calls
    <3>2. round \in Phases BY <1>6, <2>1 DEF CallOrder, Phases
    <3>3. UNCHANGED <<round, left, listed>> /\ call' = "none"
          /\ allDone' = (allDone /\ job[node][round] = "succeeded")
      BY <2>3 DEF NodeDone
    <3>4. \A m \in listed : Passed(m)' /\ m # node => Passed(m) BY <3>3 DEF Passed
    <3> QED BY <1>2, <1>6, <1>7, <2>2, <3>1, <3>2, <3>3, <3>4 DEF RoundOrder, Phases
  <2>4. CASE ReturnError
    BY <1>2, <2>2, <2>4 DEF ReturnError, Return, CallOrder, RoundOrder, Calls, Rounds
  <2> QED BY <1>14, <2>3, <2>4 DEF CheckJob
<1>15. ASSUME NEW p \in Phases, NEW here \in Calls, NEW next \in Calls, DeleteJob(p, here, next),
              <<p, here, next>> \in {<<"post", "delete_post", "delete_pre">>, <<"pre", "delete_pre", "unblock">>}
       PROVE  GuardOrder' /\ CallOrder' /\ RoundOrder'
  <2>1. /\ UNCHANGED <<blocker, service, crState, round, node, left, listed, allDone>>
        /\ call = here /\ call' = next
        /\ job' = [job EXCEPT ![node][p] = IF @ = "succeeded" THEN "absent" ELSE @]
    BY <1>15, <1>2 DEF DeleteJob, JobDeleted, Call, novaVars
  <2>2. node \in Nodes /\ Held(node) /\ round = "cleanup" /\ node \in listed \ left
    BY <1>2, <1>6, <1>15, <2>1 DEF CallOrder, Calls
  <2>3. \A q \in Phases : job[node][q] \in {"absent", "succeeded"}
    BY <1>6, <2>2 DEF RoundOrder
  <2>4. \A m \in Nodes, q \in Phases : /\ (m # node \/ q # p) => job'[m][q] = job[m][q]
                                       /\ m = node /\ q = p => job'[m][q] = "absent"
    BY <1>7, <2>1, <2>2, <2>3 DEF Phases
  <2>5. p = "pre" => job[node]["post"] = "absent" BY <1>6, <1>15, <2>1 DEF CallOrder
  <2>6. \A m \in Nodes : Held(m)' = Held(m) /\ (HasJob(m)' => HasJob(m))
    BY <2>1, <2>4 DEF Held, HasJob
  <2>7. GuardOrder'
    <3>1. JobOrder' BY <1>6, <1>15, <2>1, <2>4, <2>5 DEF GuardOrder, JobOrder, Phases
    <3> QED BY <1>2, <1>6, <1>7, <2>1, <2>6, <3>1 DEF GuardOrder, GuardsAndJobs, GuardedCalls
  <2>8. next = "unblock" => ~HasJob(node)' BY <1>15, <2>1, <2>2, <2>4, <2>5 DEF HasJob, Phases
  <2>9. next = "delete_pre" => job'[node]["post"] = "absent" BY <1>15, <2>2, <2>4
  <2>10. CallOrder' BY <1>2, <1>15, <2>1, <2>2, <2>6, <2>8, <2>9 DEF CallOrder
  <2>11. \A m \in listed : Passed(m)' => Passed(m) BY <1>15, <2>1 DEF Passed
  <2>12. RoundOrder' BY <1>2, <1>6, <1>7, <2>1, <2>2, <2>4, <2>6, <2>11 DEF RoundOrder, Rounds
  <2> QED BY <2>7, <2>10, <2>12
<1>16. CASE UnblockNode
  <2>1. /\ UNCHANGED <<job, service, crState>>
        /\ call = "unblock" /\ NodeDone(TRUE)
        /\ blocker' = [blocker EXCEPT ![node] = CASE @ = "terminating" -> "none" [] @ = "held" -> "released"
                                                  [] OTHER -> @]
    BY <1>2, <1>5, <1>7, <1>16 DEF UnblockNode, Unblocked, novaVars, jobVars, NodeDone
  <2>2. node \in Nodes /\ round = "cleanup" /\ node \in listed \ left /\ ~HasJob(node)
    BY <1>2, <1>6, <2>1 DEF CallOrder, Calls
  <2>3. /\ \A m \in Nodes : m # node => Held(m)' = Held(m)
        /\ \A m \in Nodes : m = node => ~Held(m)'
        /\ \A m \in Nodes : HasJob(m)' = HasJob(m)
    BY <1>7, <2>1, <2>2 DEF Held, HasJob, BlockerStates
  <2>4. UNCHANGED <<round, left, listed>> /\ call' = "none" /\ allDone' = allDone
    BY <1>6, <2>1 DEF NodeDone, DeletionTypeOK
  <2>5. GuardOrder'
    BY <1>2, <1>6, <1>7, <2>1, <2>2, <2>3, <2>4 DEF GuardOrder, JobOrder, GuardsAndJobs, GuardedCalls
  <2>6. CallOrder' BY <2>4 DEF CallOrder, Calls
  <2>7. \A m \in listed : Passed(m)' /\ m # node => Passed(m) BY <2>4 DEF Passed
  <2>8. RoundOrder' BY <1>2, <1>6, <1>7, <2>1, <2>2, <2>3, <2>4, <2>7 DEF RoundOrder, Rounds
  <2> QED BY <2>5, <2>6, <2>8
<1>17. CASE WaitForJobs
  <2>1. GuardOrder' BY <1>8, <1>17 DEF WaitForJobs, Return
  <2> QED BY <2>1, <1>17 DEF WaitForJobs, Return, CallOrder, RoundOrder, Calls, Rounds
<1>18. CASE NextRound
  <2>1. /\ UNCHANGED <<envVars, crState, call, node, listed, allDone>>
        /\ round \in Rounds /\ call = "none" /\ left = {} /\ allDone /\ left' = listed
        /\ round' = CASE round = "pre" -> "post" [] round = "post" -> "cleanup" [] round = "cleanup" -> "objects"
    BY <1>18 DEF NextRound, RoundDone
  <2>2. GuardOrder' /\ UNCHANGED <<blocker, job, service>> /\ \A m \in Nodes : Held(m)' = Held(m)
    BY <1>8, <2>1
  <2>3. CallOrder' BY <2>1 DEF CallOrder, Calls
  <2>4. \A m \in listed : Passed(m) /\ ~Passed(m)' BY <2>1 DEF Passed
  <2>5. \A m \in listed : Held(m) => round # "cleanup" /\ job[m][round] = "succeeded"
    BY <1>6, <2>1, <2>4 DEF RoundOrder
  <2>6. RoundOrder'
    <3>1. CASE round = "pre"
      BY <1>2, <1>6, <1>7, <2>1, <2>2, <2>4, <2>5, <3>1 DEF RoundOrder, Rounds
    <3>2. CASE round = "post"
      <4>1. \A m \in listed : Held(m) => /\ job[m]["pre"] = "succeeded" /\ job[m]["post"] = "succeeded"
                                         /\ service[m] = "deleted"
        BY <1>6, <1>7, <2>5, <3>2 DEF RoundOrder, GuardOrder, JobOrder
      <4> QED BY <1>2, <1>6, <1>7, <2>1, <2>2, <2>4, <3>2, <4>1 DEF RoundOrder, Rounds, Phases
    <3>3. CASE round = "cleanup"
      BY <1>2, <1>6, <1>7, <2>1, <2>2, <2>5, <3>3 DEF RoundOrder, Rounds
    <3> QED BY <2>1, <3>1, <3>2, <3>3 DEF Rounds
  <2> QED BY <2>2, <2>3, <2>6
<1>19. CASE RemoveCRFinalizer
  <2>1. /\ UNCHANGED envVars /\ round = "objects" /\ crState' = "gone" /\ round' = "idle" /\ call' = "none"
        /\ listed' = {} /\ allDone'
    BY <1>19 DEF RemoveCRFinalizer, Return
  <2>2. CallOrder' /\ RoundOrder' BY <2>1 DEF CallOrder, RoundOrder, Calls, Rounds
  <2>3. \A m \in present : ~Held(m) BY <1>6, <2>1 DEF RoundOrder
  <2>4. GuardOrder'
    BY <1>2, <1>6, <2>1, <2>3
    DEF GuardOrder, JobOrder, GuardsAndJobs, HasJob, Held, GuardedCalls, envVars, jobVars, novaVars
  <2> QED BY <2>2, <2>4
<1> QED
  BY <1>9, <1>10, <1>11, <1>12, <1>13, <1>14, <1>15, <1>16, <1>17, <1>18, <1>19
  DEF DeletionStep, Phases, Calls

LEMMA RoundInvStep ==
  ASSUME FreshView, RoundInv, [DeletionNext]_allVars
  PROVE  RoundInv'
<1>1. CASE LivePass BY <1>1, RoundInvPass
<1>2. CASE DeletionStep BY <1>2, RoundInvRounds
<1>3. ASSUME NEW n \in Nodes, ClusterMoves(n) PROVE RoundInv'
  BY <1>3, RoundInvCluster
<1>0. DeletionTypeOK' BY DeletionTypeStep DEF RoundInv
<1> USE DEF RoundInv, JobOrder, GuardsAndJobs, PassRecord, CallOrder, RoundOrder, HasJob, Held, Passed
<1> USE DEF envVars, clusterVars, jobVars, novaVars, passVars, roundVars, deletionVars
<1>4. CASE DeleteCR
  <2>1. round = "idle" /\ call = "none" BY <1>4 DEF DeleteCR, DeletionTypeOK, Rounds
  <2> QED BY <1>0, <1>4, <2>1 DEF DeleteCR, Rounds, Calls
<1>5. CASE DeletionAborts
  <2>1. crState = "deleting" /\ pc = "idle" BY <1>5 DEF DeletionAborts, DeletionTypeOK
  <2>2. round' = "idle" /\ call' = "none" /\ listed' = {} /\ allDone' /\ UNCHANGED crState
    BY <1>5 DEF DeletionAborts, ReturnError, Return
  <2> QED BY <1>0, <1>5, <2>1, <2>2 DEF DeletionAborts, Rounds, Calls
<1>6. ASSUME NEW n \in Nodes, ListForDeletion(n) \/ CacheCatchesUp(n), UNCHANGED deletionVars
      PROVE  RoundInv'
  BY <1>0, <1>6 DEF ListForDeletion, CacheCatchesUp
<1>7. CASE UNCHANGED allVars
  BY <1>0, <1>7 DEF allVars, vars
<1> QED BY <1>1, <1>2, <1>3, <1>4, <1>5, <1>6, <1>7 DEF DeletionNext

\* The rounds of a deletion find their nodes where the one before has left them,
\* for any number of hosts, failed calls and crashes, and whoever forces machines
\* away or scales them down meanwhile.
THEOREM RoundInvariant == FreshView => (DeletionSpec => []RoundInv)
<1> SUFFICES ASSUME FreshView PROVE DeletionSpec => []RoundInv
  OBVIOUS
<1>1. RoundInv /\ [DeletionNext]_allVars => RoundInv'
  BY RoundInvStep
<1> QED BY RoundInvInit, <1>1, PTL DEF DeletionSpec

\* When the CR is gone no node is left waiting, and no job, also if machines were
\* scaled down or forced away during the rounds.
THEOREM NothingIsLeft == FreshView => (DeletionSpec => []NothingLeftBehind)
<1> SUFFICES ASSUME FreshView PROVE DeletionSpec => []NothingLeftBehind
  OBVIOUS
<1>1. RoundInv => NothingLeftBehind
  BY DEF RoundInv, GuardsAndJobs, NothingLeftBehind, DeletionTypeOK, TypeOK, ClusterTypeOK
<1> QED BY <1>1, RoundInvariant, PTL

-----------------------------------------------------------------------------
(* The hosts, when nobody takes machines away during the rounds.           *)

\* Machines wait for their pods, and none is scaled down while the CR is deleted.
OrderlyDeletion == FreshView /\ OrderlyCluster /\ "overlapping_removal" \notin Mishaps

\* The part of the invariant that is neither about rounds nor about passes.
HostsOrder == NodeHasMachine /\ DeletedServiceIsEmpty /\ TaintedNodeIsEmpty /\ DrainOrder /\ JobsByState

LEMMA DeletionInvInit == DeletionInit => DeletionInv
<1> SUFFICES ASSUME DeletionInit PROVE DeletionInv OBVIOUS
<1>1. RoundInv BY RoundInvInit
<1>2. DrainInv BY DrainInvInit DEF DeletionInit
<1>3. \A n \in Nodes : ~HasJob(n)
  BY DEF DeletionInit, Init, ClusterInit, HasJob, Phases
<1>4. JobsByState BY <1>3 DEF JobsByState, DeletionInit, Init, PassInit
<1>5. round = "idle" BY DEF DeletionInit, RoundInit
<1> QED BY <1>1, <1>2, <1>4, <1>5 DEF DeletionInv, DrainInv

\* As long as the CR is live, or a pass is still under way, the drain's own
\* invariant holds.
LEMMA DrainInvUnderPass ==
  ASSUME DeletionInv, crState = "live" \/ pc # "idle"
  PROVE  DrainInv
  BY DEF DeletionInv, RoundInv, DeletionTypeOK, DrainInv, JobsByState, JobsOnlyForGuardedRemoval

\* A pass leaves the machines alone.
LEMMA PassLeavesMachines ==
  ASSUME PassStep \/ Abort \/ RestartAfterPanic
  PROVE  UNCHANGED <<present, machine>>
<1> USE DEF envVars, clusterVars
<1>1. CASE ListNodes \/ CreateBlockerPod \/ UpdateStatus \/ Abort \/ RestartAfterPanic
  BY <1>1 DEF ListNodes, CreateBlockerPod, UpdateStatus, Abort, RestartAfterPanic
<1>2. CASE \E n \in Nodes : RecordNode(n) \/ SkipUnlisted(n) \/ ConsiderDrain(n)
  BY <1>2 DEF RecordNode, SkipUnlisted, ConsiderDrain
<1>3. CASE DrainStep
  BY <1>3
  DEF DrainStep, IsMachineBeingDeleted, IsBlockerPodFinalizerDeleted, TriggerPreDrain, TriggerPostDrain,
      TriggerNodeDrain, IsNodePreDrained, IsNodePostDrained, IsNodeDrained, AddToBeRemovedTaint,
      DeletePostJob, DeletePreJob, DeleteJobWithName, DeleteBlockerPodFinalizer, RemoveNodeToDelete
<1> QED BY <1>1, <1>2, <1>3 DEF PassStep

LEMMA DeletionInvPass ==
  ASSUME OrderlyDeletion, DeletionInv, LivePass
  PROVE  DeletionInv'
<1>1. RoundInv' BY RoundInvPass DEF DeletionInv, OrderlyDeletion
<1>2. DrainInv'
  <2>1. DrainInv BY DrainInvUnderPass DEF LivePass
  <2> QED BY <2>1, DrainInvStep DEF LivePass, Next, OrderlyDeletion
<1>3. round' = "idle" /\ UNCHANGED crState
  BY DEF LivePass, roundVars, DeletionInv, RoundInv, DeletionTypeOK
<1>4. UNCHANGED machine BY PassLeavesMachines DEF LivePass
<1>5. crState # "gone" BY DEF LivePass, DeletionInv, RoundInv, DeletionTypeOK
<1>6. \A n \in Nodes : /\ HasJob(n)' => Held(n)' /\ n \in present' /\ machine[n] = "deleting"
                       /\ crState = "deleting" => machine[n] # "deleting"
  BY <1>2, <1>4 DEF DrainInv, JobsOnlyForGuardedRemoval, JobsByState, DeletionInv
<1>7. crState \in {"live", "deleting"} BY <1>5 DEF DeletionInv, RoundInv, DeletionTypeOK
<1>8. JobsByState' BY <1>3, <1>4, <1>6, <1>7 DEF JobsByState
<1> QED BY <1>1, <1>2, <1>3, <1>8 DEF DeletionInv, DrainInv

\* What the drain's invariant says of hosts and scripts survives their steps also
\* when jobs have been made for machines that stay.
LEMMA DrainPartCluster ==
  ASSUME OrderlyDeletion, DeletionInv, NEW n \in Nodes, ClusterStep(n)
  PROVE  NodeHasMachine' /\ DeletedServiceIsEmpty' /\ TaintedNodeIsEmpty' /\ DrainOrder'
<1> USE DEF OrderlyDeletion, OrderlyCluster, DeletionInv, RoundInv, DeletionTypeOK, NodeHasMachine,
      DeletedServiceIsEmpty, TaintedNodeIsEmpty, JobsByState, HasJob, Phases, DrainOrder, Held, TypeOK,
      ClusterTypeOK
<1> USE DEF clusterVars, jobVars, novaVars
<1>1. CASE MachineSteps(n)
  <2>1. CASE NodeJoins(n) BY <2>1 DEF NodeJoins
  <2>2. CASE MachineMarkedDeleted(n) BY <2>2 DEF MachineMarkedDeleted
  <2>3. CASE NodeCordoned(n) \/ NodeUncordoned(n) BY <2>3 DEF NodeCordoned, NodeUncordoned
  <2>4. CASE BlockerPodEvicted(n) BY <2>4 DEF BlockerPodEvicted
  <2>5. CASE NodeLeaves(n) BY <2>5 DEF NodeLeaves
  <2>6. CASE MachineGone(n) BY <2>6 DEF MachineGone
  <2> QED BY <1>1, <2>1, <2>2, <2>3, <2>4, <2>5, <2>6 DEF MachineSteps
<1>2. CASE NovaSteps(n)
  BY <1>2 DEF NovaSteps, InstanceStarts, InstancesLeave, InstanceMoves
<1>3. CASE JobSteps(n)
  <2>1. ASSUME NEW p \in Phases, JobStarts(n, p)
        PROVE  NodeHasMachine' /\ DeletedServiceIsEmpty' /\ TaintedNodeIsEmpty' /\ DrainOrder'
    BY <2>1 DEF JobStarts
  <2>2. ASSUME NEW p \in Phases, JobFails(n, p)
        PROVE  NodeHasMachine' /\ DeletedServiceIsEmpty' /\ TaintedNodeIsEmpty' /\ DrainOrder'
    BY <2>2 DEF JobFails
  <2>3. ASSUME NEW m \in Nodes, ScaleDownPreDisables(n, m)
        PROVE  NodeHasMachine' /\ DeletedServiceIsEmpty' /\ TaintedNodeIsEmpty' /\ DrainOrder'
    BY <2>3 DEF ScaleDownPreDisables
  <2>4. CASE ScaleDownPreExits(n) BY <2>4 DEF ScaleDownPreExits
  <2>5. CASE ScaleDownPostDeletes(n) BY <2>5 DEF ScaleDownPostDeletes
  <2>6. CASE ScaleDownPostExits(n) BY <2>6 DEF ScaleDownPostExits
  <2> QED BY <1>3, <2>1, <2>2, <2>3, <2>4, <2>5, <2>6 DEF JobSteps
<1> QED BY <1>1, <1>2, <1>3 DEF ClusterStep, EnvironmentSteps

\* How machines and nodes move under the others' steps.
LEMMA OthersMoveHosts ==
  ASSUME OrderlyDeletion, DeletionInv, NEW n \in Nodes, ClusterStep(n)
  PROVE  /\ \A m \in Nodes : m \in present /\ Held(m) => m \in present'
         /\ \A m \in Nodes : m \in present /\ machine[m] = "running" => m \in present'
         /\ \A m \in Nodes : machine[m] = "deleting" /\ m \in present => machine'[m] = "deleting"
         /\ \A m \in Nodes : machine'[m] = "deleting" => machine[m] \in {"deleting", "running"}
         /\ \A m \in Nodes : disables'[m] \subseteq disables[m]
<1> USE DEF OrderlyDeletion, OrderlyCluster, DeletionInv, RoundInv, DeletionTypeOK, NodeHasMachine,
      TypeOK, ClusterTypeOK, Held
<1> USE DEF clusterVars, jobVars, novaVars
<1>1. CASE MachineSteps(n)
  <2>1. CASE NodeJoins(n) BY <2>1 DEF NodeJoins
  <2>2. CASE MachineMarkedDeleted(n) BY <2>2 DEF MachineMarkedDeleted
  <2>3. CASE NodeCordoned(n) \/ NodeUncordoned(n) BY <2>3 DEF NodeCordoned, NodeUncordoned
  <2>4. CASE BlockerPodEvicted(n) BY <2>4 DEF BlockerPodEvicted
  <2>5. CASE NodeLeaves(n) BY <2>5 DEF NodeLeaves
  <2>6. CASE MachineGone(n) BY <2>6 DEF MachineGone
  <2> QED BY <1>1, <2>1, <2>2, <2>3, <2>4, <2>5, <2>6 DEF MachineSteps
<1>2. CASE NovaSteps(n)
  BY <1>2 DEF NovaSteps, InstanceStarts, InstancesLeave, InstanceMoves
<1>3. CASE JobSteps(n)
  BY <1>3 DEF JobSteps, JobStarts, JobFails, ScaleDownPreDisables, ScaleDownPreExits,
              ScaleDownPostDeletes, ScaleDownPostExits
<1> QED BY <1>1, <1>2, <1>3 DEF ClusterStep, EnvironmentSteps

LEMMA DeletionInvCluster ==
  ASSUME OrderlyDeletion, DeletionInv, NEW n \in Nodes, ClusterMoves(n)
  PROVE  DeletionInv'
<1>0. ClusterStep(n) /\ MachineSetBound /\ UNCHANGED <<crState, round, listed>>
  BY DEF ClusterMoves, roundVars
<1>1. RoundInv' BY RoundInvCluster DEF DeletionInv, OrderlyDeletion
<1>2. NodeHasMachine' /\ DeletedServiceIsEmpty' /\ TaintedNodeIsEmpty' /\ DrainOrder'
  BY <1>0, DrainPartCluster
<1>3. TypeOK /\ listed \subseteq Nodes BY DEF DeletionInv, RoundInv, DeletionTypeOK
<1>4. /\ \A m \in Nodes : Held(m)' = Held(m) /\ HasJob(m)' = HasJob(m)
      /\ UNCHANGED pc
  BY <1>0, <1>3, OthersKeepGuards DEF HasJob
<1>5. PassGuarded'
  <2>1. CASE pc = "idle" BY <1>4, <2>1 DEF PassGuarded, GuardedCalls
  <2>2. CASE pc # "idle"
    <3>1. DrainInv BY <2>2, DrainInvUnderPass
    <3>2. DrainInv' BY <1>0, <3>1, DrainInvStep DEF Next, OrderlyDeletion
    <3> QED BY <3>2 DEF DrainInv
  <2> QED BY <2>1, <2>2
<1>6. round' # "idle" => listed' \subseteq present'
  <2>1. round # "idle" => \A m \in listed : m \in present /\ machine[m] = "running"
    BY <1>3 DEF DeletionInv, RoundInv, DeletionTypeOK, JobsByState, NodeHasMachine
  <2> QED BY <1>0, <1>3, <2>1, OthersMoveHosts
<1>7. JobsByState'
  <2>1. crState = "deleting" => \A m \in Nodes : machine[m] = "running" => machine'[m] = "running"
    BY <1>0 DEF MachineSetBound, OrderlyDeletion
  <2>2. crState = "deleting" => \A m \in Nodes : machine'[m] # "deleting"
    BY <1>0, <2>1, OthersMoveHosts DEF DeletionInv, JobsByState
  <2> QED BY <1>0, <1>4, <2>2, OthersMoveHosts DEF JobsByState, DeletionInv
<1> QED BY <1>1, <1>2, <1>5, <1>6, <1>7 DEF DeletionInv

\* As long as a round leaves the cluster alone, the hosts are as they were.
LEMMA HostsOrderKept ==
  ASSUME HostsOrder, crState = "deleting", pc = "idle",
         UNCHANGED <<envVars, pc>>, crState' # "live",
         crState' = "gone" => \A n \in Nodes : ~HasJob(n)
  PROVE  HostsOrder'
  BY DEF HostsOrder, NodeHasMachine, DeletedServiceIsEmpty, TaintedNodeIsEmpty, DrainOrder,
         JobsByState, HasJob, Held, envVars, clusterVars, jobVars, novaVars

LEMMA DeletionInvRounds ==
  ASSUME OrderlyDeletion, DeletionInv, DeletionStep
  PROVE  DeletionInv'
<1>1. RoundInv' BY RoundInvRounds DEF DeletionInv, OrderlyDeletion
<1>2. /\ crState = "deleting" /\ pc = "idle" /\ (call # "none" => node \in Nodes)
      /\ ListAllNodes \/ round # "idle"
      /\ UNCHANGED <<present, machine, pc>>
  BY RoundsLeaveMachines DEF DeletionInv, RoundInv
<1>3. CallOrder /\ RoundOrder /\ GuardsAndJobs /\ JobOrder /\ HostsOrder /\ DeletionTypeOK
  BY DEF DeletionInv, RoundInv, HostsOrder
<1>4. /\ present \subseteq Nodes /\ listed \subseteq Nodes
      /\ blocker \in [Nodes -> BlockerStates] /\ job \in [Nodes -> [Phases -> JobStates]]
      /\ disables \in [Nodes -> SUBSET Nodes]
  BY <1>3 DEF DeletionTypeOK, TypeOK, ClusterTypeOK
<1>5. PassGuarded' BY <1>2 DEF PassGuarded, GuardedCalls
<1>6. /\ \A n \in Nodes : TakeNode(n) => listed' = listed
      /\ CheckFinalizer \/ TriggerJob \/ NextRound \/ UnblockNode => listed' \in {listed, {}}
      /\ TaintNode \/ CheckJob => listed' \in {listed, {}}
      /\ ListAllNodes => listed' = present
      /\ WaitForJobs \/ RemoveCRFinalizer => listed' = {}
      /\ \A p \in Phases, here, next \in Calls : DeleteJob(p, here, next) => listed' = listed
  BY DEF TakeNode, CheckFinalizer, TriggerJob, NextRound, UnblockNode, TaintNode, CheckJob, ListAllNodes,
         WaitForJobs, RemoveCRFinalizer, DeleteJob, NodeDone, Call, Return, ReturnError
<1>7. round' # "idle" => listed' \subseteq present'
  <2>1. listed' \in {listed, {}, present} BY <1>6 DEF DeletionStep, Phases, Calls
  <2> QED BY <1>2, <1>6, <2>1 DEF DeletionInv
<1>8. HostsOrder'
  <2>1. CASE \/ (\E n \in Nodes : TakeNode(n)) \/ CheckFinalizer \/ CheckJob \/ WaitForJobs \/ NextRound
    BY <1>2, <1>3, <2>1, HostsOrderKept
    DEF TakeNode, CheckFinalizer, CheckJob, WaitForJobs, NextRound, NodeDone, Call, Return, ReturnError
  <2>2. CASE ListAllNodes
    BY <1>2, <1>3, <2>2 DEF ListAllNodes, HostsOrder, NodeHasMachine, DeletedServiceIsEmpty, TaintedNodeIsEmpty,
       DrainOrder, JobsByState, HasJob, Held, jobVars, novaVars
  <2>3. CASE TaintNode
    <3>1. UNCHANGED <<blocker, job, disables, service, instances, crState>> /\ call = "taint"
      BY <2>3, <1>2 DEF TaintNode, Call, ReturnError, Return, jobVars, novaVars
    <3>2. tainted' \subseteq tainted \cup {node}
      BY <2>3 DEF TaintNode, clusterVars
    <3>3. \A m \in Nodes : Held(m)' = Held(m) /\ HasJob(m)' = HasJob(m) BY <3>1 DEF Held, HasJob
    <3>4. node \in present /\ job[node]["pre"] = "succeeded"
      BY <1>2, <1>3, <3>1 DEF CallOrder, RoundOrder, Calls, DeletionInv
    <3>5. node \notin instances /\ service[node] # "enabled"
      BY <1>2, <1>3, <3>1, <3>4 DEF HostsOrder, DrainOrder
    <3> QED BY <1>2, <1>3, <3>1, <3>2, <3>3, <3>4, <3>5
            DEF HostsOrder, NodeHasMachine, DeletedServiceIsEmpty, TaintedNodeIsEmpty, DrainOrder, JobsByState
  <2>4. CASE TriggerJob
    <3>1. /\ UNCHANGED <<blocker, service, instances, tainted, crState>>
          /\ call = "trigger" /\ JobCreated(node, round)
      BY <2>4, <1>2 DEF TriggerJob, Call, novaVars, clusterVars
    <3>2. node \in Nodes /\ Held(node) /\ round \in Phases /\ node \in listed \ left /\ node \in present
      BY <1>2, <1>3, <3>1 DEF CallOrder, Calls, Phases, DeletionInv
    <3>3. round = "post" => job[node]["pre"] = "succeeded" BY <1>3, <3>2 DEF RoundOrder
    <3>4. \A m \in Nodes : Held(m)' = Held(m) BY <3>1 DEF Held
    <3>5. /\ job' = [job EXCEPT ![node][round] = IF @ = "absent" THEN "pending" ELSE @]
          /\ disables' = IF round = "pre" /\ job[node][round] = "absent"
                         THEN [disables EXCEPT ![node] = {node}] ELSE disables
      <4>1. {m \in Nodes : machine[m] = "deleting"} = {} BY <1>2, <1>3 DEF HostsOrder, JobsByState
      <4> QED BY <3>1, <4>1 DEF JobCreated, ServicesToDisable
    <3>6. \A m \in Nodes, p \in Phases : /\ (m # node \/ p # round) => job'[m][p] = job[m][p]
                                         /\ job[m][p] # "absent" => job'[m][p] = job[m][p]
                                         /\ job'[m][p] # job[m][p] => job'[m][p] = "pending"
      BY <1>4, <3>2, <3>5 DEF Phases
    <3>7. DrainOrder' BY <1>3, <1>4, <3>1, <3>2, <3>3, <3>5, <3>6 DEF HostsOrder, DrainOrder, Phases
    <3>8. \A m \in Nodes : HasJob(m)' => HasJob(m) \/ m = node BY <3>6 DEF HasJob
    <3>9. \A m \in Nodes : m = node => disables'[m] \subseteq {m}
      <4>1. CASE round = "pre" /\ job[node][round] = "absent" BY <1>4, <3>2, <3>5, <4>1
      <4>2. CASE ~(round = "pre" /\ job[node][round] = "absent")
        <5>1. HasJob(node) BY <3>2, <3>3, <4>2 DEF HasJob, Phases
        <5> QED BY <1>2, <1>3, <3>2, <3>5, <4>2, <5>1 DEF HostsOrder, JobsByState
      <4> QED BY <4>1, <4>2
    <3>10. \A m \in Nodes : m # node => disables'[m] = disables[m] BY <1>4, <3>5
    <3>11. JobsByState'
      BY <1>2, <1>3, <3>1, <3>2, <3>4, <3>8, <3>9, <3>10 DEF HostsOrder, JobsByState
    <3> QED BY <1>2, <1>3, <3>1, <3>7, <3>11
            DEF HostsOrder, NodeHasMachine, DeletedServiceIsEmpty, TaintedNodeIsEmpty
  <2>5. ASSUME NEW p \in Phases, NEW here \in Calls, NEW next \in Calls, DeleteJob(p, here, next),
               <<p, here, next>> \in {<<"post", "delete_post", "delete_pre">>, <<"pre", "delete_pre", "unblock">>}
        PROVE  HostsOrder'
    <3>1. /\ UNCHANGED <<blocker, disables, service, instances, tainted, crState>>
          /\ job' = [job EXCEPT ![node][p] = IF @ = "succeeded" THEN "absent" ELSE @]
          /\ node \in Nodes
      BY <2>5, <1>2 DEF DeleteJob, JobDeleted, Call, novaVars, clusterVars, Calls
    <3>2. \A m \in Nodes, q \in Phases : job'[m][q] \in {job[m][q], "absent"}
      BY <1>4, <3>1
    <3>3. \A m \in Nodes : Held(m)' = Held(m) /\ (HasJob(m)' => HasJob(m))
      BY <3>1, <3>2 DEF Held, HasJob
    <3>4. JobOrder' BY <1>1 DEF RoundInv
    <3>5. DrainOrder' BY <1>3, <3>1, <3>2, <3>4 DEF HostsOrder, DrainOrder, JobOrder, Phases
    <3> QED BY <1>2, <1>3, <3>1, <3>3, <3>5
            DEF HostsOrder, NodeHasMachine, DeletedServiceIsEmpty, TaintedNodeIsEmpty, JobsByState
  <2>6. CASE UnblockNode
    <3>1. /\ UNCHANGED <<job, disables, service, instances, tainted, crState>> /\ call = "unblock"
      BY <1>2, <2>6 DEF UnblockNode, novaVars, clusterVars, jobVars, NodeDone, ReturnError, Return
    <3>2. \A m \in Nodes : m # node => blocker'[m] = blocker[m]
      BY <1>4, <2>6 DEF UnblockNode, Unblocked
    <3>3. ~HasJob(node) BY <1>3, <3>1 DEF CallOrder
    <3>4. \A m \in Nodes : HasJob(m)' = HasJob(m) /\ (HasJob(m) => Held(m)' = Held(m))
      BY <3>1, <3>2, <3>3 DEF Held, HasJob
    <3> QED BY <1>2, <1>3, <3>1, <3>4
            DEF HostsOrder, NodeHasMachine, DeletedServiceIsEmpty, TaintedNodeIsEmpty, DrainOrder, JobsByState
  <2>7. CASE RemoveCRFinalizer
    <3>1. UNCHANGED envVars /\ round = "objects" /\ crState' = "gone"
      BY <2>7 DEF RemoveCRFinalizer
    <3>2. \A m \in present : ~Held(m) BY <1>3, <3>1 DEF RoundOrder
    <3>3. \A m \in Nodes : ~HasJob(m) BY <1>3, <3>2 DEF HostsOrder, JobsByState
    <3> QED BY <1>2, <1>3, <3>1, <3>3, HostsOrderKept
  <2> QED BY <2>1, <2>2, <2>3, <2>4, <2>5, <2>6, <2>7 DEF DeletionStep, Phases, Calls
<1> QED BY <1>1, <1>5, <1>7, <1>8 DEF DeletionInv, HostsOrder

LEMMA DeletionInvStep ==
  ASSUME OrderlyDeletion, DeletionInv, [DeletionNext]_allVars
  PROVE  DeletionInv'
<1>0. RoundInv' BY RoundInvStep DEF DeletionInv, OrderlyDeletion
<1>1. CASE LivePass BY <1>1, DeletionInvPass
<1>2. CASE DeletionStep BY <1>2, DeletionInvRounds
<1>3. ASSUME NEW n \in Nodes, ClusterMoves(n) PROVE DeletionInv'
  BY <1>3, DeletionInvCluster
<1> USE DEF DeletionInv, NodeHasMachine, DeletedServiceIsEmpty, TaintedNodeIsEmpty, DrainOrder, PassGuarded,
      JobsByState, HasJob, Held
<1> USE DEF envVars, clusterVars, jobVars, novaVars, passVars, roundVars, deletionVars
<1>4. CASE DeleteCR
  <2>1. \A n \in Nodes : machine[n] # "deleting" BY <1>4 DEF DeleteCR, OrderlyDeletion
  <2>2. round' = "idle" BY <1>4 DEF DeleteCR, RoundInv, DeletionTypeOK, Rounds
  <2>3. \A n \in Nodes : ~HasJob(n) BY <1>4, <2>1 DEF DeleteCR
  <2> QED BY <1>0, <1>4, <2>1, <2>2, <2>3 DEF DeleteCR
<1>5. CASE DeletionAborts
  <2>1. crState = "deleting" /\ pc = "idle" BY <1>5 DEF DeletionAborts, RoundInv, DeletionTypeOK
  <2>2. round' = "idle" /\ UNCHANGED crState
    BY <1>5 DEF DeletionAborts, ReturnError, Return
  <2> QED BY <1>0, <1>5, <2>1, <2>2 DEF DeletionAborts
<1>6. ASSUME NEW n \in Nodes, ListForDeletion(n) \/ CacheCatchesUp(n), UNCHANGED deletionVars
      PROVE  DeletionInv'
  BY <1>0, <1>6 DEF ListForDeletion, CacheCatchesUp
<1>7. CASE UNCHANGED allVars
  BY <1>0, <1>7 DEF allVars, vars
<1> QED BY <1>1, <1>2, <1>3, <1>4, <1>5, <1>6, <1>7 DEF DeletionNext

\* While nobody takes machines away during the rounds, each pre job disables its
\* own host, nobody leaves, and the hosts are emptied as in a single drain.
THEOREM DeletionInvariant == OrderlyDeletion => (DeletionSpec => []DeletionInv)
<1> SUFFICES ASSUME OrderlyDeletion PROVE DeletionSpec => []DeletionInv
  OBVIOUS
<1>1. DeletionInv /\ [DeletionNext]_allVars => DeletionInv'
  BY DeletionInvStep
<1> QED BY DeletionInvInit, <1>1, PTL DEF DeletionSpec

\* Neither the taint nor the post job of a deletion hits a host with instances.
THEOREM DeletionIsSafe == OrderlyDeletion => (DeletionSpec => [](TaintedNodeIsEmpty /\ DeletedServiceIsEmpty))
<1> SUFFICES ASSUME OrderlyDeletion PROVE DeletionSpec => [](TaintedNodeIsEmpty /\ DeletedServiceIsEmpty)
  OBVIOUS
<1>1. DeletionInv => TaintedNodeIsEmpty /\ DeletedServiceIsEmpty BY DEF DeletionInv
<1> QED BY <1>1, DeletionInvariant, PTL

-----------------------------------------------------------------------------
(* The barrier.                                                            *)

\* Among the steps of the rounds only the clean up releases a host.
LEMMA RoundsReleaseInCleanUp ==
  ASSUME CallOrder, DeletionStep, NEW n \in Nodes, Held(n), ~Held(n)'
  PROVE  round = "cleanup"
<1> USE DEF Held, envVars, clusterVars
<1>1. UnblockNode => round = "cleanup"
  BY DEF UnblockNode, CallOrder
<1>2. ~(TaintNode \/ TriggerJob) BY DEF TaintNode, TriggerJob
<1>3. \A p \in Phases, here, next \in Calls : ~DeleteJob(p, here, next)
  BY DEF DeleteJob
<1>4. ~(\/ ListAllNodes \/ (\E m \in Nodes : TakeNode(m)) \/ CheckFinalizer \/ CheckJob \/ WaitForJobs
        \/ NextRound \/ RemoveCRFinalizer)
  BY DEF ListAllNodes, TakeNode, CheckFinalizer, CheckJob, WaitForJobs, NextRound, RemoveCRFinalizer
<1> QED BY <1>1, <1>2, <1>3, <1>4 DEF DeletionStep, Phases, Calls

\* A host goes by a pass or by the rounds, and by these in the clean up alone.
LEMMA WhoReleases ==
  ASSUME DeletionTypeOK, CallOrder, [DeletionNext]_allVars, NEW n \in Nodes, Held(n), ~Held(n)'
  PROVE  \/ round = "idle" /\ pc = "unblock" /\ n = cur
         \/ round = "cleanup"
<1>0. TypeOK /\ blocker' # blocker BY DEF Held, DeletionTypeOK
<1>1. CASE LivePass
  <2>1. [Next]_vars BY <1>1 DEF LivePass, Next
  <2>2. pc = "unblock" /\ n = cur BY <1>0, <2>1, OnlyUnblockReleases
  <2> QED BY <1>1, <2>2 DEF LivePass, DeletionTypeOK
<1>2. CASE DeletionStep BY <1>2, RoundsReleaseInCleanUp
<1>3. ASSUME NEW m \in Nodes, ClusterMoves(m) PROVE FALSE
  BY <1>0, <1>3, OthersKeepGuards DEF ClusterMoves
<1>4. ~(DeleteCR \/ DeletionAborts \/ \E m \in Nodes : ListForDeletion(m) \/ CacheCatchesUp(m))
  BY <1>0 DEF DeleteCR, DeletionAborts, ListForDeletion, CacheCatchesUp, envVars
<1> QED BY <1>0, <1>1, <1>2, <1>3, <1>4 DEF DeletionNext, allVars, vars, envVars

\* The barrier between the post jobs and the clean up holds even for machines that
\* are scaled down or forced away during the rounds.
THEOREM ForgottenTogether == FreshView => (DeletionSpec => ServicesGoTogether)
<1> SUFFICES ASSUME FreshView PROVE DeletionSpec => ServicesGoTogether
  OBVIOUS
<1> DEFINE Together == \A n \in Nodes : (round # "idle" /\ Held(n) /\ ~Held(n)') =>
                         \A m \in present : Held(m) => service[m] = "deleted"
<1>1. ASSUME RoundInv, [DeletionNext]_allVars PROVE [Together]_allVars
  <2> SUFFICES ASSUME NEW n \in Nodes, round # "idle", Held(n), ~Held(n)',
                      NEW m \in present, Held(m)
               PROVE  service[m] = "deleted"
    OBVIOUS
  <2>1. round = "cleanup" BY <1>1, WhoReleases DEF RoundInv
  <2> QED BY <1>1, <2>1 DEF RoundInv, RoundOrder
<1> QED BY <1>1, RoundInvariant, PTL DEF DeletionSpec, ServicesGoTogether

\* While the CR is deleted no host is released before the service of every other
\* guarded one is gone and its instances with it.
THEOREM BarrierHolds == OrderlyDeletion => (DeletionSpec => NoReleaseBeforeAllDrained)
<1> SUFFICES ASSUME OrderlyDeletion PROVE DeletionSpec => NoReleaseBeforeAllDrained
  OBVIOUS
<1> DEFINE Barrier == \A n \in Nodes : (crState = "deleting" /\ Held(n) /\ ~Held(n)') =>
                        \A m \in listed : Held(m) => service[m] = "deleted" /\ m \notin instances
<1>1. ASSUME DeletionInv, [DeletionNext]_allVars PROVE [Barrier]_allVars
  <2> SUFFICES ASSUME NEW n \in Nodes, crState = "deleting", Held(n), ~Held(n)'
               PROVE  \A m \in listed : Held(m) => service[m] = "deleted" /\ m \notin instances
    OBVIOUS
  <2>1. RoundInv BY <1>1 DEF DeletionInv
  <2>2. ~(pc = "unblock" /\ n = cur)
    BY <1>1 DEF DeletionInv, PassGuarded, GuardedCalls, JobsByState
  <2>3. round = "cleanup" BY <1>1, <2>1, <2>2, WhoReleases DEF RoundInv
  <2>4. listed \subseteq Nodes BY <2>1 DEF RoundInv, DeletionTypeOK
  <2> QED BY <1>1, <2>1, <2>3, <2>4 DEF RoundInv, RoundOrder, DeletionInv, DeletedServiceIsEmpty
<1> QED BY <1>1, DeletionInvariant, PTL DEF DeletionSpec, NoReleaseBeforeAllDrained

-----------------------------------------------------------------------------
(* Until the CR is deleted.                                                *)

Alive == crState = "live" \/ pc # "idle"

\* As long as a pass may run, the steps are those of NodeDrain, but for the
\* deletion of the CR itself.
LEMMA AliveIsNodeDrain ==
  ASSUME DeletionTypeOK, [DeletionNext]_allVars, Alive'
  PROVE  Alive /\ ([Next]_vars \/ DeleteCR)
<1> USE DEF Alive, DeletionTypeOK
<1>1. CASE LivePass BY <1>1 DEF LivePass, Next
<1>2. CASE DeletionStep
  <2>1. crState = "deleting" /\ pc = "idle" /\ UNCHANGED pc BY <1>2, RoundsLeaveMachines
  <2>2. crState' # "live"
    BY <1>2, <2>1
    DEF DeletionStep, ListAllNodes, TakeNode, CheckFinalizer, TaintNode, TriggerJob, CheckJob, DeleteJob,
        UnblockNode, WaitForJobs, NextRound, RemoveCRFinalizer, NodeDone, Call, Return, ReturnError
  <2> QED BY <2>1, <2>2
<1>3. CASE DeletionAborts
  BY <1>3 DEF DeletionAborts, ReturnError, passVars
<1>4. ASSUME NEW n \in Nodes, ClusterMoves(n) PROVE Alive /\ [Next]_vars
  BY <1>4 DEF ClusterMoves, ClusterStep, Next, passVars
<1>5. ASSUME NEW n \in Nodes, ListForDeletion(n) \/ CacheCatchesUp(n), UNCHANGED deletionVars
      PROVE  Alive /\ [Next]_vars
  BY <1>5 DEF ListForDeletion, CacheCatchesUp, deletionVars, passVars, Next
<1>6. CASE DeleteCR BY <1>6 DEF DeleteCR
<1>7. CASE UNCHANGED allVars BY <1>7 DEF allVars, deletionVars, vars, passVars
<1> QED BY <1>1, <1>2, <1>3, <1>4, <1>5, <1>6, <1>7 DEF DeletionNext

LEMMA AliveStay ==
  ASSUME FreshNames, DeletionTypeOK, Alive => StayInv, [DeletionNext]_allVars
  PROVE  Alive' => StayInv'
<1> SUFFICES ASSUME Alive' PROVE StayInv' OBVIOUS
<1>1. Alive /\ StayInv BY AliveIsNodeDrain
<1>2. CASE [Next]_vars BY <1>1, <1>2, StayInvStep DEF DeletionTypeOK
<1>3. CASE DeleteCR
  BY <1>1, <1>3
  DEF DeleteCR, StayInv, StayingHostKeepsService, KnownNodeIsGuarded, NotYetJoined, Going, Held, HasJob,
      envVars, clusterVars, jobVars, novaVars, crVars
<1> QED BY <1>2, <1>3, AliveIsNodeDrain

LEMMA AliveLag ==
  ASSUME SettledCluster, DeletionTypeOK, DeletionTypeOK', Alive => LagInv, [DeletionNext]_allVars
  PROVE  Alive' => LagInv'
<1> SUFFICES ASSUME Alive' PROVE LagInv' OBVIOUS
<1>1. Alive /\ LagInv BY AliveIsNodeDrain
<1>2. CASE [Next]_vars BY <1>1, <1>2, LagInvStep
<1>3. CASE DeleteCR
  <2>1. TypeOK' /\ StayInv'
    BY <1>1, <1>3, AliveStay DEF DeletionTypeOK, LagInv, SettledCluster
  <2> QED
    BY <1>1, <1>3, <2>1
    DEF DeleteCR, LagInv, NodeHasMachine, DeletedServiceIsEmpty, TaintedNodeIsEmpty, DrainOrder, PassRecord,
        GuardedOrForgotten, Held, HasJob, envVars, clusterVars, jobVars, novaVars
<1> QED BY <1>2, <1>3, AliveIsNodeDrain

-----------------------------------------------------------------------------
(* The refinement.                                                         *)

FleetMoves == [Fleet!FleetNext]_Fleet!fleetVars

\* What a step leaves alone of what FleetRemoval speaks about.
LEMMA FleetStutters ==
  UNCHANGED <<present, machine, blocker, service, instances, crState>> => UNCHANGED Fleet!fleetVars
  BY DEF Fleet!fleetVars, Fleet!removalVars, Held, Going

\* Both abstractions see the hosts alike.
LEMMA FleetIsRemoval ==
  /\ Removal!Next => Fleet!Next
  /\ UNCHANGED Removal!removalVars => UNCHANGED Fleet!removalVars
<1>1. Removal!Next => Fleet!Next
  BY DEF Removal!Next, Removal!Join, Removal!Guard, Removal!Doom, Removal!Occupy, Removal!Vacate, Removal!Move,
         Removal!Close, Removal!Retire, Removal!Release,
         Fleet!Next, Fleet!Join, Fleet!Guard, Fleet!Doom, Fleet!Occupy, Fleet!Vacate, Fleet!Move,
         Fleet!Close, Fleet!Retire, Fleet!Release
<1>2. UNCHANGED Removal!removalVars => UNCHANGED Fleet!removalVars
  BY DEF Removal!removalVars, Fleet!removalVars
<1> QED BY <1>1, <1>2

\* While the CR is live every host is removed on its own.
LEMMA FleetLive ==
  ASSUME SettledCluster, LagInv, [Next]_vars, crState = "live", UNCHANGED crState
  PROVE  FleetMoves
<1>1. Removal!Next \/ UNCHANGED Removal!removalVars BY RemovalStep
<1>2. Fleet!Next \/ UNCHANGED Fleet!removalVars BY <1>1, FleetIsRemoval
<1> QED BY <1>2 DEF FleetMoves, Fleet!FleetNext, Fleet!fleetVars

\* A pass that is still under way when the CR is deleted can only guard a host.
LEMMA FleetPass ==
  ASSUME DeletionInv, LagInv, crState = "deleting", UNCHANGED crState,
         PassStep \/ Abort \/ RestartAfterPanic
  PROVE  FleetMoves
<1> USE DEF LagInv, TypeOK, ClusterTypeOK, DrainCalls, Held
<1> USE DEF clusterVars, jobVars, novaVars, envVars
<1>1. CASE CreateBlockerPod
  <2>1. CASE blocker[cur] = "none" /\ cur \in present
    <3>1. PICK n \in Nodes : n = cur BY <1>1 DEF CreateBlockerPod
    <3>2. \A m \in present : machine[m] = "running" /\ service[m] = "enabled"
      BY DEF NodeHasMachine, DeletionInv, JobsByState, StayInv, StayingHostKeepsService
    <3>3. {m \in present : Held(m)}' = {m \in present : Held(m)} \cup {n}
      BY <1>1, <2>1, <3>1 DEF CreateBlockerPod
    <3>4. Fleet!Guard(n)
      BY <1>1, <2>1, <3>1, <3>2, <3>3 DEF CreateBlockerPod, Fleet!Guard, Going
    <3>5. {m \in present : Held(m)} \cap {m \in Nodes : machine[m] # "none" /\ service[m] = "deleted"} = {}
      BY <3>2
    <3>6. Fleet!GuardLate(n) BY <3>4, <3>5 DEF Fleet!GuardLate
    <3> QED BY <3>6 DEF FleetMoves, Fleet!FleetNext
  <2>2. CASE ~(blocker[cur] = "none" /\ cur \in present)
    <3>1. \A n \in present : blocker'[n] = blocker[n]
      BY <1>1, <2>2 DEF CreateBlockerPod
    <3> QED BY <1>1, <3>1 DEF CreateBlockerPod, FleetMoves, Fleet!fleetVars, Fleet!removalVars, Going
  <2> QED BY <2>1, <2>2
<1>2. ~DeleteBlockerPodFinalizer \/ ~Held(cur)
  BY DEF DeleteBlockerPodFinalizer, DeletionInv, PassGuarded, GuardedCalls, JobsByState
<1>3. CASE DeleteBlockerPodFinalizer
  <2>1. \A n \in Nodes : Held(n)' <=> Held(n)
    BY <1>2, <1>3 DEF DeleteBlockerPodFinalizer, Unblocked
  <2> QED BY <1>3, <2>1
          DEF DeleteBlockerPodFinalizer, FleetMoves, Fleet!fleetVars, Fleet!removalVars, Going
<1>4. CASE UNCHANGED <<present, machine, blocker, service, instances>>
  BY <1>4, FleetStutters DEF FleetMoves
<1>5. CASE DrainStep
  BY <1>3, <1>4, <1>5
  DEF DrainStep, IsMachineBeingDeleted, IsBlockerPodFinalizerDeleted, TriggerPreDrain, TriggerPostDrain,
      TriggerNodeDrain, IsNodePreDrained, IsNodePostDrained, IsNodeDrained, AddToBeRemovedTaint,
      DeletePostJob, DeletePreJob, DeleteJobWithName, RemoveNodeToDelete
<1> QED
  BY <1>1, <1>4, <1>5
  DEF PassStep, ListNodes, RecordNode, SkipUnlisted, ConsiderDrain, UpdateStatus, Abort, RestartAfterPanic

\* The scripts close and forget guarded hosts; instances come and go.
LEMMA FleetScripts ==
  ASSUME DeletionInv, crState = "deleting", UNCHANGED crState,
         NEW n \in Nodes, NovaSteps(n) \/ JobSteps(n)
  PROVE  FleetMoves
<1> USE DEF DeletionInv, RoundInv, DeletionTypeOK, TypeOK, ClusterTypeOK, Held, Going
<1> USE DEF clusterVars, jobVars, novaVars, envVars
<1>1. CASE InstanceStarts(n)
  <2>1. Fleet!Occupy(n) BY <1>1 DEF InstanceStarts, Fleet!Occupy
  <2> QED BY <2>1 DEF FleetMoves, Fleet!FleetNext, Fleet!Use
<1>2. CASE InstancesLeave(n)
  <2>1. Fleet!Vacate(n) BY <1>2 DEF InstancesLeave, Fleet!Vacate
  <2> QED BY <2>1 DEF FleetMoves, Fleet!FleetNext, Fleet!Use
<1>3. ASSUME NEW m \in Nodes, InstanceMoves(n, m) PROVE FleetMoves
  <2>1. Fleet!Move(n, m) BY <1>3 DEF InstanceMoves, Fleet!Move
  <2> QED BY <2>1 DEF FleetMoves, Fleet!FleetNext, Fleet!Use
<1>4. ASSUME NEW m \in Nodes, ScaleDownPreDisables(n, m) PROVE FleetMoves
  <2>1. HasJob(n) BY <1>4 DEF ScaleDownPreDisables, HasJob, Phases
  <2>2. m = n /\ n \in present /\ Held(n) BY <1>4, <2>1 DEF ScaleDownPreDisables, JobsByState
  <2>3. Fleet!CloseGuarded(n)
    BY <1>4, <2>2 DEF ScaleDownPreDisables, Fleet!CloseGuarded
  <2> QED BY <2>3 DEF FleetMoves, Fleet!FleetNext
<1>5. CASE ScaleDownPostDeletes(n)
  <2>1. HasJob(n) /\ n \notin instances /\ service[n] # "enabled"
    BY <1>5 DEF ScaleDownPostDeletes, DrainOrder, HasJob, Phases
  <2>2. n \in present /\ Held(n) /\ machine[n] # "none"
    BY <2>1 DEF JobsByState, NodeHasMachine
  <2>3. Fleet!RetireGuarded(n)
    BY <1>5, <2>1, <2>2 DEF ScaleDownPostDeletes, Fleet!RetireGuarded
  <2> QED BY <2>3 DEF FleetMoves, Fleet!FleetNext
<1>6. CASE UNCHANGED <<present, machine, blocker, service, instances>>
  BY <1>6, FleetStutters DEF FleetMoves
<1> QED
  BY <1>1, <1>2, <1>3, <1>4, <1>5, <1>6
  DEF NovaSteps, JobSteps, JobStarts, JobFails, ScaleDownPreExits, ScaleDownPostExits

\* The machines stay until the CR is gone.
LEMMA FleetCluster ==
  ASSUME OrderlyDeletion, DeletionInv, crState # "live", NEW n \in Nodes, ClusterMoves(n)
  PROVE  FleetMoves
<1> USE DEF OrderlyDeletion, FreshView, FreshNames, OrderlyCluster, DeletionInv, RoundInv, DeletionTypeOK,
      TypeOK, ClusterTypeOK, Held, Going
<1> USE DEF clusterVars, jobVars, novaVars, envVars
<1>0. ClusterStep(n) /\ MachineSetBound /\ UNCHANGED crState BY DEF ClusterMoves
<1>1. CASE NodeJoins(n)
  <2>1. machine[n] = "none" /\ machine'[n] = "running" /\ crState = "deleting"
    BY <1>0, <1>1 DEF NodeJoins, MachineSetBound
  <2>2. ~Held(n) BY <2>1 DEF GuardsAndJobs
  <2>3. Fleet!Join(n) BY <1>1, <2>1, <2>2 DEF NodeJoins, Fleet!Join
  <2> QED BY <1>0, <2>1, <2>3 DEF FleetMoves, Fleet!FleetNext
<1>2. CASE MachineMarkedDeleted(n)
  <2>1. crState = "gone"
    BY <1>0, <1>2 DEF MachineMarkedDeleted, MachineSetBound
  <2>2. Fleet!Doom(n) BY <1>2 DEF MachineMarkedDeleted, Fleet!Doom
  <2> QED BY <1>0, <2>1, <2>2 DEF FleetMoves, Fleet!FleetNext
<1>3. CASE NodeLeaves(n)
  <2>1. ~Held(n) /\ crState = "gone" BY <1>3 DEF NodeLeaves, NodeHasMachine, JobsByState
  <2>2. Fleet!Vacate(n) BY <1>3, <2>1 DEF NodeLeaves, Fleet!Vacate
  <2> QED BY <1>0, <2>1, <2>2 DEF FleetMoves, Fleet!FleetNext, Fleet!Use
<1>4. CASE BlockerPodEvicted(n) \/ MachineGone(n)
  BY <1>0, <1>4 DEF BlockerPodEvicted, MachineGone, FleetMoves, Fleet!fleetVars, Fleet!removalVars
<1>5. CASE NodeCordoned(n) \/ NodeUncordoned(n)
  BY <1>0, <1>5, FleetStutters DEF NodeCordoned, NodeUncordoned, FleetMoves
<1>6. CASE NovaSteps(n) \/ JobSteps(n)
  <2>1. CASE crState = "deleting" BY <1>0, <1>6, <2>1, FleetScripts
  <2>2. CASE crState = "gone"
    <3>1. ~HasJob(n) BY <2>2 DEF JobsByState
    <3>2. ~JobSteps(n)
      BY <3>1 DEF HasJob, Phases, JobSteps, JobStarts, JobFails, ScaleDownPreDisables, ScaleDownPreExits,
                  ScaleDownPostDeletes, ScaleDownPostExits
    <3>3. InstanceStarts(n) => Fleet!Occupy(n) BY DEF InstanceStarts, Fleet!Occupy
    <3>4. InstancesLeave(n) => Fleet!Vacate(n) BY DEF InstancesLeave, Fleet!Vacate
    <3>5. \A m \in Nodes : InstanceMoves(n, m) => Fleet!Move(n, m) BY DEF InstanceMoves, Fleet!Move
    <3>6. Fleet!Use(n) BY <1>6, <3>2, <3>3, <3>4, <3>5 DEF NovaSteps, Fleet!Use
    <3> QED BY <1>0, <2>2, <3>6 DEF FleetMoves, Fleet!FleetNext
  <2> QED BY <2>1, <2>2
<1> QED
  BY <1>0, <1>1, <1>2, <1>3, <1>4, <1>5, <1>6 DEF ClusterStep, EnvironmentSteps, MachineSteps

\* The rounds let their hosts go together, and the CR after the last one.
LEMMA FleetRounds ==
  ASSUME OrderlyDeletion, DeletionInv, DeletionStep
  PROVE  FleetMoves
<1> USE DEF envVars, clusterVars, jobVars, novaVars
<1>0. DeletionTypeOK /\ CallOrder /\ RoundOrder /\ crState = "deleting" /\ (call # "none" => node \in Nodes)
      /\ present \subseteq Nodes
  BY RoundsLeaveMachines DEF DeletionInv, RoundInv, DeletionTypeOK, TypeOK, ClusterTypeOK
<1>1. CASE UnblockNode
  <2>1. UNCHANGED <<present, machine, service, instances, crState>> /\ call = "unblock" /\ node \in Nodes
    BY <1>0, <1>1 DEF UnblockNode, NodeDone, ReturnError, Return
  <2>2. CASE blocker' = blocker BY <2>1, <2>2, FleetStutters DEF FleetMoves
  <2>3. CASE blocker' # blocker
    <3>1. Held(node) /\ node \in present /\ round = "cleanup"
      BY <1>0, <2>1 DEF CallOrder, Calls, DeletionInv
    <3>2. \A m \in present : Held(m) => /\ machine[m] # "none" /\ service[m] = "deleted"
                                      /\ m \notin instances
      BY <1>0, <3>1 DEF RoundOrder, DeletionInv, NodeHasMachine, DeletedServiceIsEmpty
    <3>3. \A m \in Nodes : Held(m)' <=> Held(m) /\ m # node
      BY <1>1, <2>3, <1>0
      DEF UnblockNode, Unblocked, Held, BlockerStates, DeletionTypeOK, TypeOK, ClusterTypeOK
    <3>4. Fleet!ReleaseTogether(node)
      BY <1>0, <2>1, <3>1, <3>2, <3>3 DEF Fleet!ReleaseTogether, Going
    <3> QED BY <1>0, <2>1, <3>4 DEF FleetMoves, Fleet!FleetNext
  <2> QED BY <2>2, <2>3
<1>2. CASE RemoveCRFinalizer
  <2>1. UNCHANGED envVars /\ round = "objects" /\ crState' = "gone" BY <1>2 DEF RemoveCRFinalizer
  <2>2. \A m \in present : ~Held(m) BY <1>0, <2>1 DEF RoundOrder
  <2>3. Fleet!FleetGone
    BY <1>0, <2>1, <2>2 DEF Fleet!FleetGone, Fleet!removalVars, Held, Going
  <2> QED BY <2>3 DEF FleetMoves, Fleet!FleetNext
<1>3. CASE UNCHANGED <<present, machine, blocker, service, instances, crState>>
  BY <1>3, FleetStutters DEF FleetMoves
<1>4. CASE ListAllNodes \/ (\E n \in Nodes : TakeNode(n)) \/ CheckFinalizer \/ CheckJob \/ WaitForJobs
           \/ NextRound
  BY <1>3, <1>4
  DEF ListAllNodes, TakeNode, CheckFinalizer, CheckJob, WaitForJobs, NextRound, NodeDone, Call, Return, ReturnError
<1>5. CASE TaintNode BY <1>3, <1>5 DEF TaintNode, Call, Return, ReturnError
<1>6. CASE TriggerJob BY <1>3, <1>6 DEF TriggerJob, Call
<1>7. ASSUME NEW p \in Phases, NEW here \in Calls, NEW next \in Calls, DeleteJob(p, here, next)
      PROVE  FleetMoves
  BY <1>3, <1>7 DEF DeleteJob, Call
<1> QED BY <1>1, <1>2, <1>4, <1>5, <1>6, <1>7 DEF DeletionStep, Phases, Calls

LEMMA FleetStep ==
  ASSUME OrderlyDeletion, DeletionInv, Alive => LagInv, [DeletionNext]_allVars
  PROVE  FleetMoves
<1>0. DeletionTypeOK BY DEF DeletionInv, RoundInv
<1>1. CASE LivePass
  <2>1. LagInv /\ [Next]_vars /\ UNCHANGED crState BY <1>1 DEF LivePass, Alive, Next
  <2>2. CASE crState = "live"
    BY <2>1, <2>2, FleetLive DEF OrderlyDeletion, SettledCluster, FreshView, OrderlyCluster
  <2>3. CASE crState = "deleting" BY <1>1, <2>1, <2>3, FleetPass DEF LivePass
  <2> QED BY <1>0, <1>1, <2>2, <2>3 DEF LivePass, DeletionTypeOK
<1>2. CASE DeleteCR
  <2>1. Fleet!DeleteFleet
    BY <1>2 DEF DeleteCR, Fleet!DeleteFleet, Fleet!removalVars, envVars, clusterVars, novaVars, Held, Going
  <2> QED BY <2>1 DEF FleetMoves, Fleet!FleetNext
<1>3. CASE DeletionStep BY <1>3, FleetRounds
<1>4. ASSUME NEW n \in Nodes, ClusterMoves(n) PROVE FleetMoves
  <2>1. CASE crState = "live"
    <3>1. LagInv /\ [Next]_vars /\ UNCHANGED crState BY <1>4, <2>1 DEF ClusterMoves, Alive, Next
    <3> QED BY <2>1, <3>1, FleetLive DEF OrderlyDeletion, SettledCluster, FreshView, OrderlyCluster
  <2>2. CASE crState # "live" BY <1>4, <2>2, FleetCluster
  <2> QED BY <2>1, <2>2
<1>5. CASE \/ DeletionAborts
           \/ (\E n \in Nodes : ListForDeletion(n) \/ CacheCatchesUp(n)) /\ UNCHANGED deletionVars
  BY <1>5, FleetStutters
  DEF DeletionAborts, ReturnError, ListForDeletion, CacheCatchesUp, envVars, clusterVars, novaVars,
      deletionVars, FleetMoves
<1>6. CASE UNCHANGED allVars
  BY <1>6, FleetStutters DEF allVars, vars, envVars, clusterVars, novaVars, deletionVars, FleetMoves
<1> QED BY <1>1, <1>2, <1>3, <1>4, <1>5, <1>6 DEF DeletionNext

\* The deletion of a CR implements the promised removal of the whole fleet, for any
\* number of hosts, failed calls and crashes, and from any moment on.
THEOREM DeletionImplementsFleet == OrderlyDeletion => (DeletionSpec => ImplementsFleetRemoval)
<1> SUFFICES ASSUME OrderlyDeletion PROVE DeletionSpec => ImplementsFleetRemoval
  OBVIOUS
<1>1. DeletionInit => Fleet!FleetInit
  BY DEF DeletionInit, Init, ClusterInit, Fleet!FleetInit, Held, Going
<1>2. DeletionInit => (Alive => LagInv) BY LagInvInit DEF DeletionInit
<1>3. SettledCluster BY DEF OrderlyDeletion, SettledCluster, FreshView, OrderlyCluster
<1>4. DeletionTypeOK /\ DeletionTypeOK' /\ (Alive => LagInv) /\ [DeletionNext]_allVars => (Alive => LagInv)'
  BY <1>3, AliveLag
<1>5. DeletionInv /\ (Alive => LagInv) /\ [DeletionNext]_allVars => [Fleet!FleetNext]_Fleet!fleetVars
  BY FleetStep DEF FleetMoves
<1> QED
  BY <1>1, <1>2, <1>4, <1>5, DeletionTypeCorrect, DeletionInvariant, PTL
  DEF DeletionSpec, ImplementsFleetRemoval, Fleet!FleetSpec
=============================================================================
