--------------------------- MODULE NodeDrainProofs ---------------------------
(***************************************************************************)
(* What holds of NodeDrain for any number of hosts, of failed calls and of *)
(* crashes, proved.                                                        *)
(***************************************************************************)
EXTENDS NodeDrain, TLAPS

\* Type correctness holds whatever the cluster suffers.
LEMMA TypeInit == Init => TypeOK
  BY NoNodeAssumption, MaxFailuresAssumption
  DEF Init, ClusterInit, PassInit, TypeOK, ClusterTypeOK, NothingKnown, PassPoints,
      DrainCalls, NodeStates, MachineStates, BlockerStates, JobStates, Phases, ServiceStates

LEMMA TypeEnvironment ==
  ASSUME TypeOK, NEW n \in Nodes, EnvironmentSteps(n)
  PROVE  ClusterTypeOK'
<1> USE DEF TypeOK, ClusterTypeOK, MachineStates, BlockerStates, JobStates, Phases, ServiceStates,
            envVars, clusterVars, jobVars, novaVars
<1>1. CASE MachineSteps(n)
  <2>1. CASE NodeJoins(n) BY <2>1 DEF NodeJoins
  <2>2. CASE MachineMarkedDeleted(n) BY <2>2 DEF MachineMarkedDeleted
  <2>3. CASE NodeCordoned(n) \/ NodeUncordoned(n) BY <2>3 DEF NodeCordoned, NodeUncordoned
  <2>4. CASE BlockerPodEvicted(n) BY <2>4 DEF BlockerPodEvicted
  <2>5. CASE NodeLeaves(n) BY <2>5 DEF NodeLeaves
  <2>6. CASE MachineGone(n) BY <2>6 DEF MachineGone
  <2> QED BY <1>1, <2>1, <2>2, <2>3, <2>4, <2>5, <2>6 DEF MachineSteps
<1>2. CASE NovaSteps(n)
  BY <1>2 DEF NovaSteps, InstanceStarts, InstancesLeave, InstanceMoves
<1>3. CASE JobSteps(n)
  <2>1. ASSUME NEW p \in Phases, JobStarts(n, p) \/ JobFails(n, p) PROVE ClusterTypeOK'
    BY <2>1 DEF JobStarts, JobFails
  <2>2. ASSUME NEW m \in Nodes, ScaleDownPreDisables(n, m) PROVE ClusterTypeOK'
    BY <2>2 DEF ScaleDownPreDisables
  <2>3. CASE ScaleDownPreExits(n) BY <2>3 DEF ScaleDownPreExits
  <2>4. CASE ScaleDownPostDeletes(n) BY <2>4 DEF ScaleDownPostDeletes
  <2>5. CASE ScaleDownPostExits(n) BY <2>5 DEF ScaleDownPostExits
  <2> QED BY <1>3, <2>1, <2>2, <2>3, <2>4, <2>5 DEF JobSteps
<1> QED BY <1>1, <1>2, <1>3 DEF EnvironmentSteps

\* The memory of the pass, however it moves on.
LEMMA TypePassMoves ==
  ASSUME TypeOK
  PROVE  /\ \A next \in PassPoints : Proceed(next) /\ pc \in DrainCalls /\ ClusterTypeOK'
                /\ UNCHANGED <<crVars, cachedBlocker, failures>> => TypeOK'
         /\ \A st \in NodeStates : NextNode(st) /\ ClusterTypeOK'
                /\ UNCHANGED <<statusNodes, cachedBlocker, failures>>
                /\ nodesToDelete' \subseteq Nodes => TypeOK'
         /\ \A next \in {"idle", "panicked"} : PassEnds(next) /\ ClusterTypeOK'
                /\ statusNodes' \in [Nodes -> NodeStates] /\ nodesToDelete' \subseteq Nodes
                /\ UNCHANGED cachedBlocker /\ failures' \in 0..MaxFailures => TypeOK'
<1> USE DEF TypeOK, NodeStates, PassPoints, DrainCalls, crVars, listVars
<1>1. \A next \in PassPoints : Proceed(next) /\ pc \in DrainCalls /\ ClusterTypeOK'
        /\ UNCHANGED <<crVars, cachedBlocker, failures>> => TypeOK'
  BY DEF Proceed
<1>2. \A st \in NodeStates : NextNode(st) /\ ClusterTypeOK'
        /\ UNCHANGED <<statusNodes, cachedBlocker, failures>>
        /\ nodesToDelete' \subseteq Nodes => TypeOK'
  BY DEF NextNode
<1>3. \A next \in {"idle", "panicked"} : PassEnds(next) /\ ClusterTypeOK'
        /\ statusNodes' \in [Nodes -> NodeStates] /\ nodesToDelete' \subseteq Nodes
        /\ UNCHANGED cachedBlocker /\ failures' \in 0..MaxFailures => TypeOK'
  BY DEF PassEnds, NothingKnown
<1> QED BY <1>1, <1>2, <1>3

LEMMA UnchangedCluster == TypeOK /\ UNCHANGED envVars => ClusterTypeOK'
  BY DEF TypeOK, ClusterTypeOK, envVars, clusterVars, jobVars, novaVars

LEMMA TypeDrain == TypeOK /\ DrainStep => TypeOK'
<1> SUFFICES ASSUME TypeOK, DrainStep PROVE TypeOK'
  OBVIOUS
<1> USE TypePassMoves
<1>1. CASE IsMachineBeingDeleted
  BY <1>1, UnchangedCluster DEF IsMachineBeingDeleted, PassPoints, DrainCalls, NodeStates, TypeOK, crVars
<1>2. CASE IsBlockerPodFinalizerDeleted
  BY <1>2, UnchangedCluster
  DEF IsBlockerPodFinalizerDeleted, PassPoints, DrainCalls, NodeStates, TypeOK, crVars
<1>3. ASSUME NEW p \in Phases, NEW here \in DrainCalls, NEW next \in DrainCalls,
             TriggerNodeDrain(p, here, next)
      PROVE  TypeOK'
  <2>1. ClusterTypeOK'
    BY <1>3 DEF TriggerNodeDrain, JobCreated, ServicesToDisable, TypeOK, ClusterTypeOK, DrainCalls,
                Phases, JobStates, clusterVars, novaVars
  <2> QED BY <1>3, <2>1 DEF TriggerNodeDrain, PassPoints
<1>4. ASSUME NEW p \in Phases, NEW here \in DrainCalls, NEW next \in DrainCalls,
             IsNodeDrained(p, here, next)
      PROVE  TypeOK'
  BY <1>4, UnchangedCluster DEF IsNodeDrained, PassPoints, NodeStates, TypeOK, crVars
<1>5. CASE AddToBeRemovedTaint
  <2>1. ClusterTypeOK'
    BY <1>5 DEF AddToBeRemovedTaint, TypeOK, ClusterTypeOK, DrainCalls, clusterVars, jobVars, novaVars
  <2> QED BY <1>5, <2>1 DEF AddToBeRemovedTaint, PassPoints, DrainCalls, TypeOK, crVars
<1>6. ASSUME NEW p \in Phases, NEW here \in DrainCalls, NEW next \in DrainCalls,
             DeleteJobWithName(p, here, next)
      PROVE  TypeOK'
  <2>1. ClusterTypeOK'
    BY <1>6 DEF DeleteJobWithName, JobDeleted, TypeOK, ClusterTypeOK, DrainCalls,
                Phases, JobStates, clusterVars, novaVars
  <2> QED BY <1>6, <2>1 DEF DeleteJobWithName, PassPoints
<1>7. CASE DeleteBlockerPodFinalizer
  <2>1. ClusterTypeOK'
    BY <1>7 DEF DeleteBlockerPodFinalizer, Unblocked, TypeOK, ClusterTypeOK, DrainCalls, BlockerStates,
                clusterVars, jobVars, novaVars
  <2> QED BY <1>7, <2>1 DEF DeleteBlockerPodFinalizer, PassPoints, DrainCalls, TypeOK, crVars
<1>8. CASE RemoveNodeToDelete
  BY <1>8, UnchangedCluster DEF RemoveNodeToDelete, NodeStates, TypeOK
<1> QED
  BY <1>1, <1>2, <1>3, <1>4, <1>5, <1>6, <1>7, <1>8
  DEF DrainStep, TriggerPreDrain, TriggerPostDrain, IsNodePreDrained, IsNodePostDrained,
      DeletePostJob, DeletePreJob, Phases, DrainCalls

LEMMA TypeStep == TypeOK /\ [Next]_vars => TypeOK'
<1> SUFFICES ASSUME TypeOK, [Next]_vars PROVE TypeOK'
  OBVIOUS
<1>1. CASE ListNodes
  BY <1>1 DEF ListNodes, TypeOK, ClusterTypeOK, PassPoints, DrainCalls, NothingKnown, NodeStates,
              jobVars, novaVars, crVars
<1>2. ASSUME NEW n \in Nodes, RecordNode(n) \/ SkipUnlisted(n) \/ ConsiderDrain(n) PROVE TypeOK'
  BY <1>2, UnchangedCluster
  DEF RecordNode, SkipUnlisted, ConsiderDrain, Take, TypeOK, PassPoints, DrainCalls, NodeStates,
      listVars, crVars
<1>3. CASE CreateBlockerPod
  BY <1>3 DEF CreateBlockerPod, TypeOK, ClusterTypeOK, PassPoints, DrainCalls, BlockerStates,
              clusterVars, jobVars, novaVars, listVars, crVars
<1>4. CASE DrainStep
  BY <1>4, TypeDrain
<1>5. CASE UpdateStatus
  BY <1>5, UnchangedCluster, TypePassMoves DEF UpdateStatus, TypeOK
<1>6. CASE Abort \/ RestartAfterPanic
  BY <1>6, UnchangedCluster, TypePassMoves, MaxFailuresAssumption
  DEF Abort, RestartAfterPanic, TypeOK, crVars
<1>7. ASSUME NEW n \in Nodes, ClusterStep(n) PROVE TypeOK'
  BY <1>7, TypeEnvironment DEF ClusterStep, TypeOK, crVars, passVars, listVars
<1>8. ASSUME NEW n \in Nodes, ListForDeletion(n) \/ CacheCatchesUp(n) PROVE TypeOK'
  BY <1>8, UnchangedCluster
  DEF ListForDeletion, CacheCatchesUp, TypeOK, ClusterTypeOK, crVars, passVars, listVars
<1>9. CASE UNCHANGED vars
  BY <1>9, UnchangedCluster DEF vars, TypeOK, crVars, passVars, listVars
<1> QED BY <1>1, <1>2, <1>3, <1>4, <1>5, <1>6, <1>7, <1>8, <1>9 DEF Next, PassStep

\* Every variable keeps its type in every behaviour, whatever the cluster suffers.
THEOREM TypeCorrect == Spec => []TypeOK
  BY TypeInit, TypeStep, PTL DEF Spec

-----------------------------------------------------------------------------
(* The drain invariant.                                                    *)

\* A cluster in which machines wait for their pods and caches keep up.
OrderlyCluster == "forced_removal" \notin Mishaps /\ "cache_lag" \notin Mishaps

LEMMA DrainInvInit == Init => DrainInv
  BY TypeInit
  DEF Init, ClusterInit, PassInit, DrainInv, NodeHasMachine, DeletedServiceIsEmpty, TaintedNodeIsEmpty,
      JobsOnlyForGuardedRemoval, HasJob, Phases, DrainOrder, PassGuarded, PassRecord, GuardedCalls, PreDrainedCalls,
      PostDrainedCalls

\* The other actors leave the drain's record alone: a guarded host being removed
\* stays where it is until the operator releases it.
LEMMA DrainInvCluster ==
  ASSUME OrderlyCluster, DrainInv, NEW n \in Nodes, ClusterStep(n)
  PROVE  DrainInv'
<1> USE DEF OrderlyCluster, DrainInv, NodeHasMachine, DeletedServiceIsEmpty, TaintedNodeIsEmpty,
      JobsOnlyForGuardedRemoval, HasJob, Phases, DrainOrder, PassGuarded, PassRecord, GuardedCalls, PreDrainedCalls,
      PostDrainedCalls, Held, TypeOK, ClusterTypeOK, DrainCalls
<1> USE DEF clusterVars, jobVars, novaVars, envVars, passVars
<1>0. TypeOK'
  BY TypeStep DEF ClusterStep, Next
<1>1. CASE MachineSteps(n)
  <2>1. CASE NodeJoins(n) BY <1>0, <2>1 DEF NodeJoins, ClusterStep
  <2>2. CASE MachineMarkedDeleted(n) BY <1>0, <2>2 DEF MachineMarkedDeleted, ClusterStep
  <2>3. CASE NodeCordoned(n) \/ NodeUncordoned(n) BY <1>0, <2>3 DEF NodeCordoned, NodeUncordoned, ClusterStep
  <2>4. CASE BlockerPodEvicted(n) BY <1>0, <2>4 DEF BlockerPodEvicted, ClusterStep
  <2>5. CASE NodeLeaves(n) BY <1>0, <2>5 DEF NodeLeaves, ClusterStep
  <2>6. CASE MachineGone(n) BY <1>0, <2>6 DEF MachineGone, ClusterStep
  <2> QED BY <1>1, <2>1, <2>2, <2>3, <2>4, <2>5, <2>6 DEF MachineSteps
<1>2. CASE NovaSteps(n)
  BY <1>0, <1>2 DEF NovaSteps, InstanceStarts, InstancesLeave, InstanceMoves, ClusterStep
<1>3. CASE JobSteps(n)
  <2>1. ASSUME NEW p \in Phases, JobStarts(n, p) PROVE DrainInv'
    BY <1>0, <2>1 DEF JobStarts, ClusterStep
  <2>2. ASSUME NEW p \in Phases, JobFails(n, p) PROVE DrainInv'
    BY <1>0, <2>2 DEF JobFails, ClusterStep
  <2>3. ASSUME NEW m \in Nodes, ScaleDownPreDisables(n, m) PROVE DrainInv'
    BY <1>0, <2>3 DEF ScaleDownPreDisables, ClusterStep
  <2>4. CASE ScaleDownPreExits(n) BY <1>0, <2>4 DEF ScaleDownPreExits, ClusterStep
  <2>5. CASE ScaleDownPostDeletes(n) BY <1>0, <2>5 DEF ScaleDownPostDeletes, ClusterStep
  <2>6. CASE ScaleDownPostExits(n) BY <1>0, <2>6 DEF ScaleDownPostExits, ClusterStep
  <2> QED BY <1>3, <2>1, <2>2, <2>3, <2>4, <2>5, <2>6 DEF JobSteps
<1> QED BY <1>1, <1>2, <1>3 DEF ClusterStep, EnvironmentSteps

\* Each call of a drain leads to the next only when its part is done.
LEMMA DrainInvDrain ==
  ASSUME OrderlyCluster, DrainInv, DrainStep
  PROVE  DrainInv'
<1> USE DEF OrderlyCluster, DrainInv, NodeHasMachine, DeletedServiceIsEmpty, TaintedNodeIsEmpty,
      JobsOnlyForGuardedRemoval, HasJob, Phases, DrainOrder, PassGuarded, PassRecord, GuardedCalls, PreDrainedCalls,
      PostDrainedCalls, Held, TypeOK, ClusterTypeOK, DrainCalls
<1> USE DEF clusterVars, jobVars, novaVars, envVars, Proceed, NextNode, PassEnds
<1>0. TypeOK'
  BY TypeDrain
<1>1. CASE IsMachineBeingDeleted BY <1>0, <1>1 DEF IsMachineBeingDeleted
<1>2. CASE IsBlockerPodFinalizerDeleted
  BY <1>0, <1>2 DEF IsBlockerPodFinalizerDeleted, SeenBlocker, BlockerStates
<1>3. CASE TriggerPreDrain
  BY <1>0, <1>3 DEF TriggerPreDrain, TriggerNodeDrain, JobCreated, ServicesToDisable
<1>4. CASE IsNodePreDrained BY <1>0, <1>4 DEF IsNodePreDrained, IsNodeDrained
<1>5. CASE AddToBeRemovedTaint BY <1>0, <1>5 DEF AddToBeRemovedTaint
<1>6. CASE TriggerPostDrain
  BY <1>0, <1>6 DEF TriggerPostDrain, TriggerNodeDrain, JobCreated
<1>7. CASE IsNodePostDrained BY <1>0, <1>7 DEF IsNodePostDrained, IsNodeDrained
<1>8. CASE DeletePostJob BY <1>0, <1>8 DEF DeletePostJob, DeleteJobWithName, JobDeleted
<1>9. CASE DeletePreJob BY <1>0, <1>9 DEF DeletePreJob, DeleteJobWithName, JobDeleted
<1>10. CASE DeleteBlockerPodFinalizer
  <2>1. \A n \in Nodes : n # cur => blocker'[n] = blocker[n]
    BY <1>10 DEF DeleteBlockerPodFinalizer, Unblocked
  <2>2. ~HasJob(cur) /\ pc' # "unblock" /\ pc' \notin GuardedCalls /\ pc' # "finalizer"
    BY <1>10 DEF DeleteBlockerPodFinalizer
  <2>3. UNCHANGED <<clusterVars, jobVars, novaVars>>
    BY <1>10 DEF DeleteBlockerPodFinalizer
  <2> QED BY <1>0, <2>1, <2>2, <2>3
<1>11. CASE RemoveNodeToDelete BY <1>0, <1>11 DEF RemoveNodeToDelete
<1> QED
  BY <1>1, <1>2, <1>3, <1>4, <1>5, <1>6, <1>7, <1>8, <1>9, <1>10, <1>11 DEF DrainStep

LEMMA DrainInvStep ==
  ASSUME OrderlyCluster, DrainInv, [Next]_vars
  PROVE  DrainInv'
<1> USE DEF DrainInv, NodeHasMachine, DeletedServiceIsEmpty, TaintedNodeIsEmpty,
      JobsOnlyForGuardedRemoval, HasJob, Phases, DrainOrder, PassGuarded, PassRecord, GuardedCalls, PreDrainedCalls,
      PostDrainedCalls, Held
<1> USE DEF clusterVars, jobVars, novaVars, envVars
<1>0. TypeOK'
  BY TypeStep
<1>1. CASE ListNodes BY <1>0, <1>1 DEF ListNodes
<1>2. ASSUME NEW n \in Nodes, RecordNode(n) \/ SkipUnlisted(n) \/ ConsiderDrain(n) PROVE DrainInv'
  BY <1>0, <1>2 DEF RecordNode, SkipUnlisted, ConsiderDrain, Take
<1>3. CASE CreateBlockerPod
  BY <1>0, <1>3 DEF CreateBlockerPod, TypeOK, ClusterTypeOK, DrainCalls
<1>4. CASE DrainStep BY <1>4, DrainInvDrain
<1>5. CASE UpdateStatus BY <1>0, <1>5 DEF UpdateStatus, PassEnds
<1>6. CASE Abort \/ RestartAfterPanic BY <1>0, <1>6 DEF Abort, RestartAfterPanic, PassEnds
<1>7. ASSUME NEW n \in Nodes, ClusterStep(n) PROVE DrainInv'
  BY <1>7, DrainInvCluster
<1>8. ASSUME NEW n \in Nodes, ListForDeletion(n) \/ CacheCatchesUp(n) PROVE DrainInv'
  BY <1>0, <1>8 DEF ListForDeletion, CacheCatchesUp, passVars
<1>9. CASE UNCHANGED vars
  BY <1>0, <1>9 DEF vars, passVars
<1> QED BY <1>1, <1>2, <1>3, <1>4, <1>5, <1>6, <1>7, <1>8, <1>9 DEF Next, PassStep

\* The drain invariant, and with it the order of every drain, holds for any
\* number of hosts, failed calls, crashes, foreign cordons, failed jobs, CR
\* edits and hosts that come back under an old name.
THEOREM DrainInvariant == OrderlyCluster => (Spec => []DrainInv)
<1> SUFFICES ASSUME OrderlyCluster PROVE Spec => []DrainInv
  OBVIOUS
<1>1. DrainInv /\ [Next]_vars => DrainInv'
  BY DrainInvStep
<1> QED BY DrainInvInit, <1>1, PTL DEF Spec

\* Jobs never outlive the removal they were made for.
THEOREM JobsEndWithRemoval == OrderlyCluster => (Spec => []JobsOnlyForGuardedRemoval)
<1> SUFFICES ASSUME OrderlyCluster PROVE Spec => []JobsOnlyForGuardedRemoval
  OBVIOUS
<1> QED BY DrainInvariant, PTL DEF DrainInv

-----------------------------------------------------------------------------
(* The hosts that stay.                                                    *)

\* No host comes back under its old name.
FreshNames == "name_reuse" \notin Mishaps

LEMMA StayInvInit == Init => StayInv
  BY NoNodeAssumption
  DEF Init, ClusterInit, PassInit, StayInv, StayingHostKeepsService, KnownNodeIsGuarded, NothingKnown,
      NotYetJoined, HasJob, Phases, DrainCalls

\* The other actors, and the scripts, put no host that stays out of service.
LEMMA StayInvCluster ==
  ASSUME FreshNames, TypeOK, StayInv, NEW n \in Nodes, ClusterStep(n)
  PROVE  StayInv'
<1> USE DEF FreshNames, HasJob, Phases, Held, Going, NotYetJoined, TypeOK, ClusterTypeOK, StayInv,
      StayingHostKeepsService, KnownNodeIsGuarded
<1> USE DEF clusterVars, jobVars, novaVars, envVars, passVars, crVars
<1>1. CASE MachineSteps(n)
  <2>1. CASE NodeJoins(n) BY <2>1 DEF NodeJoins, ClusterStep
  <2>2. CASE MachineMarkedDeleted(n) BY <2>2 DEF MachineMarkedDeleted, ClusterStep
  <2>3. CASE NodeCordoned(n) \/ NodeUncordoned(n) BY <2>3 DEF NodeCordoned, NodeUncordoned, ClusterStep
  <2>4. CASE BlockerPodEvicted(n) BY <2>4 DEF BlockerPodEvicted, ClusterStep
  <2>5. CASE NodeLeaves(n) BY <2>5 DEF NodeLeaves, ClusterStep
  <2>6. CASE MachineGone(n) BY <2>6 DEF MachineGone, ClusterStep
  <2> QED BY <1>1, <2>1, <2>2, <2>3, <2>4, <2>5, <2>6 DEF MachineSteps
<1>2. CASE NovaSteps(n)
  BY <1>2 DEF NovaSteps, InstanceStarts, InstancesLeave, InstanceMoves, ClusterStep
<1>3. CASE JobSteps(n)
  <2>1. ASSUME NEW p \in Phases, JobStarts(n, p) \/ JobFails(n, p) PROVE StayInv'
    <3>1. \A m \in Nodes : HasJob(m)' => HasJob(m)
      BY <2>1 DEF JobStarts, JobFails
    <3>2. UNCHANGED <<clusterVars, blocker, disables, novaVars>>
      BY <2>1 DEF JobStarts, JobFails
    <3> HIDE DEF HasJob
    <3> QED BY <3>1, <3>2 DEF ClusterStep
  <2>2. ASSUME NEW m \in Nodes, ScaleDownPreDisables(n, m) PROVE StayInv'
    BY <2>2 DEF ScaleDownPreDisables, ClusterStep
  <2>3. CASE ScaleDownPreExits(n) BY <2>3 DEF ScaleDownPreExits, ClusterStep
  <2>4. CASE ScaleDownPostDeletes(n) BY <2>4 DEF ScaleDownPostDeletes, ClusterStep
  <2>5. CASE ScaleDownPostExits(n) BY <2>5 DEF ScaleDownPostExits, ClusterStep
  <2> QED BY <1>3, <2>1, <2>2, <2>3, <2>4, <2>5 DEF JobSteps
<1> QED BY <1>1, <1>2, <1>3 DEF ClusterStep, EnvironmentSteps

\* The calls of a drain are all about a host whose machine is going.
LEMMA StayInvDrain ==
  ASSUME TypeOK, StayInv, DrainStep
  PROVE  StayInv'
<1> USE DEF HasJob, Phases, Held, Going, NotYetJoined, TypeOK, ClusterTypeOK, StayInv,
      StayingHostKeepsService, KnownNodeIsGuarded, DrainCalls
<1> USE NoNodeAssumption
    DEF clusterVars, jobVars, novaVars, envVars, crVars, Proceed, NextNode, PassEnds, NothingKnown
<1>1. CASE IsMachineBeingDeleted BY <1>1 DEF IsMachineBeingDeleted
<1>2. CASE IsBlockerPodFinalizerDeleted BY <1>2 DEF IsBlockerPodFinalizerDeleted
<1>3. CASE TriggerPreDrain
  BY <1>3 DEF TriggerPreDrain, TriggerNodeDrain, JobCreated, ServicesToDisable
<1>4. CASE IsNodePreDrained BY <1>4 DEF IsNodePreDrained, IsNodeDrained
<1>5. CASE AddToBeRemovedTaint BY <1>5 DEF AddToBeRemovedTaint
<1>6. CASE TriggerPostDrain BY <1>6 DEF TriggerPostDrain, TriggerNodeDrain, JobCreated
<1>7. CASE IsNodePostDrained BY <1>7 DEF IsNodePostDrained, IsNodeDrained
<1>8. CASE DeletePostJob BY <1>8 DEF DeletePostJob, DeleteJobWithName, JobDeleted
<1>9. CASE DeletePreJob BY <1>9 DEF DeletePreJob, DeleteJobWithName, JobDeleted
<1>10. CASE DeleteBlockerPodFinalizer
  <2>1. \A n \in Nodes : n # cur => blocker'[n] = blocker[n]
    BY <1>10 DEF DeleteBlockerPodFinalizer, Unblocked
  <2>2. UNCHANGED <<clusterVars, jobVars, novaVars, crVars, cachedBlocker>> /\ Going(cur) /\ pc # "blocker"
    BY <1>10 DEF DeleteBlockerPodFinalizer
  <2>3. todo' \subseteq todo /\ (draft' = draft \/ draft' = NothingKnown) /\ cur' \in {cur, NoNode}
    BY <1>10 DEF DeleteBlockerPodFinalizer
  <2>4. pc' \in DrainCalls => cur' = cur
    BY <1>10 DEF DeleteBlockerPodFinalizer
  <2> QED BY <2>1, <2>2, <2>3, <2>4
<1>11. CASE RemoveNodeToDelete BY <1>11 DEF RemoveNodeToDelete
<1> QED
  BY <1>1, <1>2, <1>3, <1>4, <1>5, <1>6, <1>7, <1>8, <1>9, <1>10, <1>11 DEF DrainStep

LEMMA StayInvStep ==
  ASSUME FreshNames, TypeOK, StayInv, [Next]_vars
  PROVE  StayInv'
<1> USE DEF HasJob, Phases, Held, Going, NotYetJoined, TypeOK, ClusterTypeOK, StayInv,
      StayingHostKeepsService, KnownNodeIsGuarded, DrainCalls
<1> USE NoNodeAssumption DEF clusterVars, jobVars, novaVars, envVars, crVars, NothingKnown
<1>1. CASE ListNodes
  <2>1. /\ \A n \in Nodes : draft'[n] = "None" /\ (machine[n] = "none" => n \notin todo')
        /\ pc' = "loop"
    BY <1>1 DEF ListNodes
  <2>2. UNCHANGED <<present, machine, blocker, jobVars, service, statusNodes, cachedBlocker>> /\ cur' = NoNode
    BY <1>1 DEF ListNodes
  <2> QED BY <2>1, <2>2
<1>2. ASSUME NEW n \in Nodes, RecordNode(n) PROVE StayInv'
  BY <1>2 DEF RecordNode, Take, BeingRemoved
<1>3. ASSUME NEW n \in Nodes, SkipUnlisted(n) \/ ConsiderDrain(n) PROVE StayInv'
  BY <1>3 DEF SkipUnlisted, ConsiderDrain, Take
<1>4. CASE CreateBlockerPod
  <2>1. \A n \in Nodes : Held(n) => Held(n)'
    BY <1>4 DEF CreateBlockerPod
  <2>2. blocker[cur] # "released" => blocker'[cur] \in {"held", "terminating"}
    BY <1>4 DEF CreateBlockerPod, BlockerStates
  <2>3. \A n \in Nodes : blocker'[n] = "released" => blocker[n] = "released"
    BY <1>4 DEF CreateBlockerPod
  <2>4. \A n \in Nodes : n # cur => blocker'[n] = blocker[n]
    BY <1>4 DEF CreateBlockerPod
  <2>5. /\ UNCHANGED <<present, machine, jobVars, service, statusNodes, cachedBlocker, todo, draft>>
        /\ pc = "blocker" /\ pc' = "loop" /\ cur \in Nodes /\ cur' = NoNode
    BY <1>4 DEF CreateBlockerPod
  <2> QED BY <2>1, <2>2, <2>3, <2>4, <2>5
<1>5. CASE DrainStep BY <1>5, StayInvDrain
<1>6. CASE UpdateStatus BY <1>6 DEF UpdateStatus, PassEnds
<1>7. CASE Abort \/ RestartAfterPanic BY <1>7 DEF Abort, RestartAfterPanic, PassEnds
<1>8. ASSUME NEW n \in Nodes, ClusterStep(n) PROVE StayInv'
  BY <1>8, StayInvCluster
<1>9. ASSUME NEW n \in Nodes, ListForDeletion(n) \/ CacheCatchesUp(n) PROVE StayInv'
  BY <1>9 DEF ListForDeletion, CacheCatchesUp, passVars
<1>10. CASE UNCHANGED vars
  BY <1>10 DEF vars, passVars
<1> QED BY <1>1, <1>2, <1>3, <1>4, <1>5, <1>6, <1>7, <1>8, <1>9, <1>10 DEF Next, PassStep

\* Whatever else the cluster suffers, forced removals and a lagging cache
\* included, the drain only ever touches hosts that are going.
THEOREM StayInvariant == FreshNames => (Spec => []StayInv)
<1> SUFFICES ASSUME FreshNames PROVE Spec => []StayInv
  OBVIOUS
<1>1. TypeOK /\ StayInv /\ [Next]_vars => StayInv'
  BY StayInvStep
<1> QED BY StayInvInit, TypeCorrect, <1>1, PTL DEF Spec

\* No drain disables the compute service of a host that is not being removed.
THEOREM StayingHostServes == FreshNames => (Spec => []StayingHostKeepsService)
<1> SUFFICES ASSUME FreshNames PROVE Spec => []StayingHostKeepsService
  OBVIOUS
<1> QED BY StayInvariant, PTL DEF StayInv

\* The controller never takes for guarded a staying host that is not.
THEOREM KnownIsGuarded == FreshNames => (Spec => []KnownNodeIsGuarded)
<1> SUFFICES ASSUME FreshNames PROVE Spec => []KnownNodeIsGuarded
  OBVIOUS
<1> QED BY StayInvariant, PTL DEF StayInv

-----------------------------------------------------------------------------
(* A cache that lags.                                                      *)

\* Machines wait for their pods and no name is reused; the cache may lag.
SettledCluster == "forced_removal" \notin Mishaps /\ FreshNames

LEMMA LagInvInit == Init => LagInv
  BY TypeInit, StayInvInit
  DEF Init, ClusterInit, PassInit, LagInv, NodeHasMachine, DeletedServiceIsEmpty, TaintedNodeIsEmpty,
      DrainOrder, PassRecord, HasJob, Phases, GuardedCalls, PreDrainedCalls, PostDrainedCalls

\* What StayInv says of a host that joins, and of one whose job the operator makes.
LEMMA StayFacts ==
  ASSUME StayInv
  PROVE  /\ \A n \in Nodes : machine[n] = "none" => NotYetJoined(n) /\ ~HasJob(n)
         /\ pc \in GuardedCalls => Going(cur)
  BY DEF StayInv, NotYetJoined, Going, GuardedCalls, DrainCalls

\* A node leaves only without a pod, and without a pod it is forgotten.
LEMMA LagInvCluster ==
  ASSUME SettledCluster, LagInv, NEW n \in Nodes, ClusterStep(n)
  PROVE  LagInv'
<1> USE DEF SettledCluster, FreshNames, LagInv, NodeHasMachine, DeletedServiceIsEmpty, TaintedNodeIsEmpty,
      DrainOrder, PassRecord, HasJob, Phases, GuardedOrForgotten, GuardedCalls, PreDrainedCalls,
      PostDrainedCalls, Held, TypeOK, ClusterTypeOK, DrainCalls
<1> USE DEF clusterVars, jobVars, novaVars, envVars, passVars
<1>0. TypeOK' /\ StayInv'
  BY TypeStep, StayInvCluster DEF ClusterStep, Next
<1>1. CASE MachineSteps(n)
  <2>1. CASE NodeJoins(n)
    BY <1>0, <2>1, StayFacts DEF NodeJoins, NotYetJoined, ClusterStep
  <2>2. CASE MachineMarkedDeleted(n) BY <1>0, <2>2 DEF MachineMarkedDeleted, ClusterStep
  <2>3. CASE NodeCordoned(n) \/ NodeUncordoned(n) BY <1>0, <2>3 DEF NodeCordoned, NodeUncordoned, ClusterStep
  <2>4. CASE BlockerPodEvicted(n) BY <1>0, <2>4 DEF BlockerPodEvicted, ClusterStep
  <2>5. CASE NodeLeaves(n) BY <1>0, <2>5 DEF NodeLeaves, ClusterStep
  <2>6. CASE MachineGone(n) BY <1>0, <2>6 DEF MachineGone, ClusterStep
  <2> QED BY <1>1, <2>1, <2>2, <2>3, <2>4, <2>5, <2>6 DEF MachineSteps
<1>2. CASE NovaSteps(n)
  BY <1>0, <1>2 DEF NovaSteps, InstanceStarts, InstancesLeave, InstanceMoves, ClusterStep
<1>3. CASE JobSteps(n)
  <2>1. ASSUME NEW p \in Phases, JobStarts(n, p) PROVE LagInv'
    BY <1>0, <2>1 DEF JobStarts, ClusterStep
  <2>2. ASSUME NEW p \in Phases, JobFails(n, p) PROVE LagInv'
    BY <1>0, <2>2 DEF JobFails, ClusterStep
  <2>3. ASSUME NEW m \in Nodes, ScaleDownPreDisables(n, m) PROVE LagInv'
    BY <1>0, <2>3 DEF ScaleDownPreDisables, ClusterStep
  <2>4. CASE ScaleDownPreExits(n) BY <1>0, <2>4 DEF ScaleDownPreExits, ClusterStep
  <2>5. CASE ScaleDownPostDeletes(n) BY <1>0, <2>5 DEF ScaleDownPostDeletes, ClusterStep
  <2>6. CASE ScaleDownPostExits(n) BY <1>0, <2>6 DEF ScaleDownPostExits, ClusterStep
  <2> QED BY <1>3, <2>1, <2>2, <2>3, <2>4, <2>5, <2>6 DEF JobSteps
<1> QED BY <1>1, <1>2, <1>3 DEF ClusterStep, EnvironmentSteps

\* The cached pod may be gone, but then the drain goes over what is done.
LEMMA LagInvDrain ==
  ASSUME LagInv, DrainStep
  PROVE  LagInv'
<1> USE DEF LagInv, NodeHasMachine, DeletedServiceIsEmpty, TaintedNodeIsEmpty,
      DrainOrder, PassRecord, HasJob, Phases, GuardedOrForgotten, GuardedCalls, PreDrainedCalls,
      PostDrainedCalls, Held, TypeOK, ClusterTypeOK, DrainCalls
<1> USE DEF clusterVars, jobVars, novaVars, envVars, Proceed, NextNode, PassEnds
<1>0. TypeOK' /\ StayInv'
  BY TypeDrain, StayInvDrain
<1>1. CASE IsMachineBeingDeleted BY <1>0, <1>1 DEF IsMachineBeingDeleted
<1>2. CASE IsBlockerPodFinalizerDeleted
  BY <1>0, <1>2 DEF IsBlockerPodFinalizerDeleted, SeenBlocker, BlockerStates
<1>3. CASE TriggerPreDrain
  BY <1>0, <1>3, StayFacts DEF TriggerPreDrain, TriggerNodeDrain, JobCreated, ServicesToDisable, Going
<1>4. CASE IsNodePreDrained BY <1>0, <1>4 DEF IsNodePreDrained, IsNodeDrained
<1>5. CASE AddToBeRemovedTaint BY <1>0, <1>5 DEF AddToBeRemovedTaint
<1>6. CASE TriggerPostDrain
  BY <1>0, <1>6 DEF TriggerPostDrain, TriggerNodeDrain, JobCreated
<1>7. CASE IsNodePostDrained BY <1>0, <1>7 DEF IsNodePostDrained, IsNodeDrained
<1>8. CASE DeletePostJob BY <1>0, <1>8 DEF DeletePostJob, DeleteJobWithName, JobDeleted
<1>9. CASE DeletePreJob BY <1>0, <1>9 DEF DeletePreJob, DeleteJobWithName, JobDeleted
<1>10. CASE DeleteBlockerPodFinalizer
  <2>1. \A n \in Nodes : n # cur => blocker'[n] = blocker[n]
    BY <1>10 DEF DeleteBlockerPodFinalizer, Unblocked
  <2>2. /\ ~HasJob(cur) /\ service[cur] = "deleted"
        /\ pc' \notin GuardedCalls \cup {"finalizer"}
    BY <1>10 DEF DeleteBlockerPodFinalizer
  <2>3. UNCHANGED <<clusterVars, jobVars, novaVars, cachedBlocker>>
    BY <1>10 DEF DeleteBlockerPodFinalizer
  <2> QED BY <1>0, <2>1, <2>2, <2>3
<1>11. CASE RemoveNodeToDelete BY <1>0, <1>11 DEF RemoveNodeToDelete
<1> QED
  BY <1>1, <1>2, <1>3, <1>4, <1>5, <1>6, <1>7, <1>8, <1>9, <1>10, <1>11 DEF DrainStep

LEMMA LagInvStep ==
  ASSUME SettledCluster, LagInv, [Next]_vars
  PROVE  LagInv'
<1> USE DEF LagInv, NodeHasMachine, DeletedServiceIsEmpty, TaintedNodeIsEmpty,
      DrainOrder, PassRecord, HasJob, Phases, GuardedOrForgotten, GuardedCalls, PreDrainedCalls,
      PostDrainedCalls, Held
<1> USE DEF clusterVars, jobVars, novaVars, envVars
<1>0. TypeOK' /\ StayInv'
  BY TypeStep, StayInvStep DEF SettledCluster
<1>1. CASE ListNodes BY <1>0, <1>1 DEF ListNodes
<1>2. ASSUME NEW n \in Nodes, RecordNode(n) \/ SkipUnlisted(n) \/ ConsiderDrain(n) PROVE LagInv'
  BY <1>0, <1>2 DEF RecordNode, SkipUnlisted, ConsiderDrain, Take
<1>3. CASE CreateBlockerPod
  BY <1>0, <1>3 DEF CreateBlockerPod, TypeOK, ClusterTypeOK, DrainCalls
<1>4. CASE DrainStep BY <1>4, LagInvDrain
<1>5. CASE UpdateStatus BY <1>0, <1>5 DEF UpdateStatus, PassEnds
<1>6. CASE Abort \/ RestartAfterPanic BY <1>0, <1>6 DEF Abort, RestartAfterPanic, PassEnds
<1>7. ASSUME NEW n \in Nodes, ClusterStep(n) PROVE LagInv'
  BY <1>7, LagInvCluster
<1>8. ASSUME NEW n \in Nodes, ListForDeletion(n) PROVE LagInv'
  BY <1>0, <1>8 DEF ListForDeletion
<1>9. ASSUME NEW n \in Nodes, CacheCatchesUp(n) PROVE LagInv'
  BY <1>0, <1>9 DEF CacheCatchesUp, passVars, TypeOK
<1>10. CASE UNCHANGED vars
  BY <1>0, <1>10 DEF vars, passVars
<1> QED BY <1>1, <1>2, <1>3, <1>4, <1>5, <1>6, <1>7, <1>8, <1>9, <1>10 DEF Next, PassStep

\* A cache that lags makes a drain go over what is done, but never skips ahead.
THEOREM LagInvariant == SettledCluster => (Spec => []LagInv)
<1> SUFFICES ASSUME SettledCluster PROVE Spec => []LagInv
  OBVIOUS
<1>1. LagInv /\ [Next]_vars => LagInv'
  BY LagInvStep
<1> QED BY LagInvInit, <1>1, PTL DEF Spec

\* Machines wait for their pods, and not both do names come back and caches lag.
WaitingCluster == OrderlyCluster \/ SettledCluster

\* Nothing runs on a host whose pods the taint stops, and none can start there.
THEOREM TaintedIsEmpty == WaitingCluster => (Spec => []TaintedNodeIsEmpty)
<1>1. CASE OrderlyCluster BY <1>1, DrainInvariant, PTL DEF DrainInv
<1>2. CASE SettledCluster BY <1>2, LagInvariant, PTL DEF LagInv
<1> QED BY <1>1, <1>2 DEF WaitingCluster

\* The post job never takes the compute service from under an instance.
THEOREM DeletedIsEmpty == WaitingCluster => (Spec => []DeletedServiceIsEmpty)
<1>1. CASE OrderlyCluster BY <1>1, DrainInvariant, PTL DEF DrainInv
<1>2. CASE SettledCluster BY <1>2, LagInvariant, PTL DEF LagInv
<1> QED BY <1>1, <1>2 DEF WaitingCluster

Drained(n) ==
    /\ machine[n] = "deleting"
    /\ service[n] = "deleted" /\ n \notin instances /\ ~HasJob(n)

\* Only the last call of a drain takes a finalizer off.
LEMMA OnlyUnblockReleases ==
  ASSUME TypeOK, [Next]_vars, NEW n \in Nodes, Held(n), ~Held(n)'
  PROVE  pc = "unblock" /\ n = cur
<1> USE DEF TypeOK, ClusterTypeOK, Held, BlockerStates
<1>1. CASE DeleteBlockerPodFinalizer
  BY <1>1 DEF DeleteBlockerPodFinalizer, Unblocked, DrainCalls
<1>2. CASE UNCHANGED blocker
  BY <1>2
<1>3. CASE CreateBlockerPod
  BY <1>3 DEF CreateBlockerPod, DrainCalls
<1>4. ASSUME NEW m \in Nodes, BlockerPodEvicted(m) PROVE FALSE
  BY <1>4 DEF BlockerPodEvicted
<1> USE DEF envVars
<1>5. CASE DrainStep
  BY <1>1, <1>2, <1>5
  DEF DrainStep, IsMachineBeingDeleted, IsBlockerPodFinalizerDeleted, TriggerPreDrain, TriggerPostDrain,
      TriggerNodeDrain, IsNodePreDrained, IsNodePostDrained, IsNodeDrained, AddToBeRemovedTaint,
      DeletePostJob, DeletePreJob, DeleteJobWithName, RemoveNodeToDelete
<1>6. CASE \E m \in Nodes : ClusterStep(m)
  BY <1>2, <1>4, <1>6
  DEF ClusterStep, EnvironmentSteps, MachineSteps, NovaSteps, JobSteps, NodeJoins, MachineMarkedDeleted,
      NodeCordoned, NodeUncordoned, NodeLeaves, MachineGone, InstanceStarts, InstancesLeave, InstanceMoves,
      JobStarts, JobFails, ScaleDownPreDisables, ScaleDownPreExits, ScaleDownPostDeletes,
      ScaleDownPostExits
<1> QED
  BY <1>2, <1>3, <1>5, <1>6
  DEF Next, PassStep, ListNodes, RecordNode, SkipUnlisted, ConsiderDrain, UpdateStatus, Abort,
      RestartAfterPanic, ListForDeletion, CacheCatchesUp, vars

\* The finalizer of a blocker pod is removed by the last call of a drain alone,
\* at a moment when Nova has forgotten the host and nothing runs there.
THEOREM ReleaseIsSafe == WaitingCluster => (Spec => ReleasedOnlyWhenDrained)
<1> DEFINE UnblocksDrained == pc = "unblock" /\ Held(cur) => Drained(cur)
           Releases == \A n \in Nodes : Held(n) /\ ~Held(n)' => Drained(n)
<1> USE DEF Drained, PassRecord, PostDrainedCalls, GuardedCalls, DeletedServiceIsEmpty, TypeOK, DrainCalls
<1>1. DrainInv => UnblocksDrained
  BY DEF DrainInv, PassGuarded
<1>2. LagInv => UnblocksDrained
  BY StayFacts DEF LagInv, NodeHasMachine, Going
<1>3. TypeOK /\ UnblocksDrained /\ [Next]_vars => [Releases]_vars
  BY OnlyUnblockReleases
<1> HIDE DEF UnblocksDrained
<1>4. CASE OrderlyCluster BY <1>1, <1>3, <1>4, DrainInvariant, TypeCorrect, PTL DEF Spec, ReleasedOnlyWhenDrained
<1>5. CASE SettledCluster BY <1>2, <1>3, <1>5, LagInvariant, TypeCorrect, PTL DEF Spec, ReleasedOnlyWhenDrained
<1> QED BY <1>4, <1>5 DEF WaitingCluster

-----------------------------------------------------------------------------
(* The refinement.                                                         *)

LEMMA RemovalInit == Init => Removal!Init
  BY DEF Init, ClusterInit, Removal!Init, Held, Going

\* What a step leaves alone of what NodeRemoval speaks about.
LEMMA RemovalStutters ==
  UNCHANGED <<present, machine, blocker, service, instances>> => UNCHANGED Removal!removalVars
  BY DEF Removal!removalVars, Held, Going

LEMMA RemovalCluster ==
  ASSUME SettledCluster, LagInv, NEW n \in Nodes, EnvironmentSteps(n)
  PROVE  Removal!Next \/ UNCHANGED Removal!removalVars
<1> USE DEF SettledCluster, FreshNames, LagInv, NodeHasMachine, TypeOK, ClusterTypeOK, Held, Going
<1> USE DEF clusterVars, jobVars, novaVars, envVars
<1>1. CASE NodeJoins(n)
  <2>1. Removal!Join(n) BY <1>1, StayFacts DEF NodeJoins, NotYetJoined, Removal!Join
  <2> QED BY <2>1 DEF Removal!Next
<1>2. CASE MachineMarkedDeleted(n)
  <2>1. Removal!Doom(n) BY <1>2 DEF MachineMarkedDeleted, Removal!Doom
  <2> QED BY <2>1 DEF Removal!Next
<1>3. CASE NodeLeaves(n)
  <2>1. ~Held(n) BY <1>3 DEF NodeLeaves
  <2>2. Removal!Vacate(n) BY <1>3, <2>1 DEF NodeLeaves, Removal!Vacate
  <2> QED BY <2>2 DEF Removal!Next
<1>4. CASE InstancesLeave(n)
  <2>1. Removal!Vacate(n) BY <1>4 DEF InstancesLeave, Removal!Vacate
  <2> QED BY <2>1 DEF Removal!Next
<1>5. CASE InstanceStarts(n)
  <2>1. Removal!Occupy(n) BY <1>5 DEF InstanceStarts, Removal!Occupy
  <2> QED BY <2>1 DEF Removal!Next
<1>6. ASSUME NEW m \in Nodes, InstanceMoves(n, m)
      PROVE  Removal!Next \/ UNCHANGED Removal!removalVars
  <2>1. Removal!Move(n, m) BY <1>6 DEF InstanceMoves, Removal!Move
  <2> QED BY <2>1 DEF Removal!Next
<1>7. ASSUME NEW m \in Nodes, ScaleDownPreDisables(n, m)
      PROVE  Removal!Next \/ UNCHANGED Removal!removalVars
  <2>1. Removal!Close(m) BY <1>7 DEF ScaleDownPreDisables, Removal!Close, StayInv
  <2> QED BY <2>1 DEF Removal!Next
<1>8. CASE ScaleDownPostDeletes(n)
  <2>1. HasJob(n) /\ n \notin instances /\ service[n] # "enabled"
    BY <1>8 DEF ScaleDownPostDeletes, DrainOrder, HasJob, Phases
  <2>2. Removal!Retire(n)
    BY <1>8, <2>1 DEF ScaleDownPostDeletes, Removal!Retire, GuardedOrForgotten, StayInv
  <2> QED BY <2>2 DEF Removal!Next
<1>9. CASE BlockerPodEvicted(n) \/ MachineGone(n)
  BY <1>9 DEF BlockerPodEvicted, MachineGone, Removal!removalVars
<1>10. CASE UNCHANGED <<present, machine, blocker, service, instances>>
  BY <1>10, RemovalStutters
<1> QED
  BY <1>1, <1>2, <1>3, <1>4, <1>5, <1>6, <1>7, <1>8, <1>9, <1>10
  DEF EnvironmentSteps, MachineSteps, NovaSteps, JobSteps, NodeCordoned, NodeUncordoned, JobStarts, JobFails,
      ScaleDownPreExits, ScaleDownPostExits

LEMMA RemovalStep ==
  ASSUME SettledCluster, LagInv, [Next]_vars
  PROVE  Removal!Next \/ UNCHANGED Removal!removalVars
<1> USE DEF LagInv, TypeOK, ClusterTypeOK, DrainCalls, Held, Going
<1> USE DEF clusterVars, jobVars, novaVars, envVars
<1>1. CASE CreateBlockerPod
  <2>1. CASE blocker[cur] = "none" /\ cur \in present
    <3>1. PICK n \in Nodes : n = cur BY <1>1 DEF CreateBlockerPod
    <3>2. Removal!Guard(n)
      BY <1>1, <2>1, <3>1 DEF CreateBlockerPod, Removal!Guard, NodeHasMachine
    <3> QED BY <3>2 DEF Removal!Next
  <2>2. CASE ~(blocker[cur] = "none" /\ cur \in present)
    <3>1. \A n \in present : blocker'[n] = blocker[n]
      BY <1>1, <2>2 DEF CreateBlockerPod
    <3> QED BY <1>1, <3>1 DEF CreateBlockerPod, Removal!removalVars
  <2> QED BY <2>1, <2>2
<1>2. CASE DeleteBlockerPodFinalizer
  <2>1. CASE ~Held(cur)
    <3>1. \A n \in Nodes : Held(n)' <=> Held(n)
      BY <1>2, <2>1 DEF DeleteBlockerPodFinalizer, Unblocked
    <3> QED BY <1>2, <3>1 DEF DeleteBlockerPodFinalizer, Removal!removalVars
  <2>2. CASE blocker' = blocker
    BY <1>2, <2>2, RemovalStutters DEF DeleteBlockerPodFinalizer
  <2>3. CASE Held(cur) /\ blocker' # blocker
    <3>1. PICK n \in Nodes : n = cur BY <1>2 DEF DeleteBlockerPodFinalizer
    <3>2. n \in present /\ service[n] = "deleted"
      BY <1>2, <2>3, <3>1 DEF DeleteBlockerPodFinalizer, PassRecord, GuardedCalls, PostDrainedCalls
    <3>3. Removal!Release(n)
      BY <1>2, <2>3, <3>1, <3>2 DEF DeleteBlockerPodFinalizer, Unblocked, Removal!Release, NodeHasMachine
    <3> QED BY <3>3 DEF Removal!Next
  <2> QED BY <2>1, <2>2, <2>3
<1>3. ASSUME NEW n \in Nodes, ClusterStep(n) PROVE Removal!Next \/ UNCHANGED Removal!removalVars
  BY <1>3, RemovalCluster DEF ClusterStep
<1>4. CASE UNCHANGED <<present, machine, blocker, service, instances>>
  BY <1>4, RemovalStutters
<1>5. CASE DrainStep
  BY <1>2, <1>4, <1>5
  DEF DrainStep, IsMachineBeingDeleted, IsBlockerPodFinalizerDeleted, TriggerPreDrain, TriggerPostDrain,
      TriggerNodeDrain, IsNodePreDrained, IsNodePostDrained, IsNodeDrained, AddToBeRemovedTaint,
      DeletePostJob, DeletePreJob, DeleteJobWithName, RemoveNodeToDelete
<1> QED
  BY <1>1, <1>3, <1>4, <1>5
  DEF Next, PassStep, ListNodes, RecordNode, SkipUnlisted, ConsiderDrain, UpdateStatus, Abort,
      RestartAfterPanic, ListForDeletion, CacheCatchesUp, vars

\* The passes, jobs, taints and finalizers implement the promised removal, with
\* any delay between a blocker pod and its image in the cache.
THEOREM DrainImplementsRemoval == SettledCluster => (Spec => ImplementsNodeRemoval)
<1> SUFFICES ASSUME SettledCluster PROVE Spec => ImplementsNodeRemoval
  OBVIOUS
<1>1. LagInv /\ [Next]_vars => [Removal!Next]_Removal!removalVars
  BY RemovalStep
<1> QED BY RemovalInit, <1>1, LagInvariant, PTL DEF Spec, ImplementsNodeRemoval, Removal!Spec
=============================================================================
