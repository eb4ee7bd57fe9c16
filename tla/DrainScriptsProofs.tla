------------------------- MODULE DrainScriptsProofs -------------------------
(***************************************************************************)
(* What the two scripts achieve, for any hosts, instances, restarts and    *)
(* back-off limit, and that ComputeCluster's account of them is right.     *)
(***************************************************************************)
EXTENDS DrainScripts, TLAPS

-----------------------------------------------------------------------------
(* The invariant.                                                          *)

\* A script runs in the pod of an active job, the post script when the pre script
\* has succeeded; what its loops still have to do is for as long as they run.
RunsOf(h) ==
    /\ pc[h] \in {"disable", "migrate"} <=> job[h]["pre"] = "active"
    /\ pc[h] \in {"service", "provider"} <=> job[h]["post"] = "active"
    /\ job[h]["post"] # "absent" => job[h]["pre"] = "succeeded"
    /\ pc[h] # "disable" => todo[h] = {}
    /\ pc[h] # "migrate" => toMigrate[h] = {}

\* All runs of h's pre script together have come to all the services on its list
\* before any of them asks for a migration, and no service comes back.
Disabling(h) ==
    /\ \A m \in reached[h] : service[m] # "enabled"
    /\ job[h]["pre"] = "absent" => reached[h] = {}
    /\ job[h]["pre"] # "absent" => h \in toDisable[h] /\ h \in going
    /\ todo[h] \subseteq toDisable[h]
    /\ pc[h] = "disable" => toDisable[h] \subseteq todo[h] \cup reached[h]
    /\ pc[h] = "migrate" \/ job[h]["pre"] = "succeeded" => toDisable[h] \subseteq reached[h]

\* Only h's own post script makes Nova and Placement forget h.
Forgetting(h) ==
    /\ service[h] = "deleted" => job[h]["post"] # "absent"
    /\ pc[h] = "provider" \/ job[h]["post"] = "succeeded" => service[h] = "deleted"
    /\ h \notin provider => service[h] = "deleted"
    /\ job[h]["post"] = "succeeded" => h \notin provider
    /\ Punctual /\ job[h]["pre"] = "succeeded" => OnHost(h) = {}

ScriptsInv == \A h \in Hosts : RunsOf(h) /\ Disabling(h) /\ Forgetting(h)

-----------------------------------------------------------------------------
(* Types.                                                                  *)

LEMMA ScriptsTypeInit == Init => ScriptsTypeOK
  BY ScriptsAssumption DEF Init, ScriptsTypeOK, Phases

LEMMA ExitKeepsTypes ==
  ASSUME ScriptsTypeOK, NEW h \in Hosts, NEW p \in Phases, ExitsWithError(h, p)
  PROVE  ScriptsTypeOK'
<1> USE ScriptsAssumption DEF ScriptsTypeOK, novaVars, Phases
<1>1. CASE restarts[h] < BackoffLimit /\ restarts' = [restarts EXCEPT ![h] = @ + 1]
           /\ FromTheTop(h, p) /\ UNCHANGED job
  <2>1. restarts' \in [Hosts -> 0..BackoffLimit] BY <1>1
  <2> QED BY <1>1, <2>1 DEF FromTheTop, First, ExitsWithError
<1>2. CASE JobEnds(h, p, "failed") BY <1>2 DEF JobEnds, ExitsWithError
<1> QED BY <1>1, <1>2 DEF ExitsWithError

LEMMA ScriptsTypeStep == ScriptsTypeOK /\ [Next]_vars => ScriptsTypeOK'
<1> SUFFICES ASSUME ScriptsTypeOK, [Next]_vars PROVE ScriptsTypeOK' OBVIOUS
<1> USE ScriptsAssumption DEF ScriptsTypeOK, novaVars, jobVars, scriptVars, Phases
<1>1. CASE UNCHANGED vars BY <1>1 DEF vars
<1>2. ASSUME NEW h \in Hosts, MachineMarkedDeleted(h) \/ TriggerPre(h) \/ TriggerPost(h) PROVE ScriptsTypeOK'
  <2>1. CASE MachineMarkedDeleted(h) BY <2>1 DEF MachineMarkedDeleted
  <2>2. CASE TriggerPre(h) BY <2>2 DEF TriggerPre
  <2>3. CASE TriggerPost(h) BY <2>3 DEF TriggerPost
  <2> QED BY <1>2, <2>1, <2>2, <2>3
<1>3. ASSUME NEW h \in Hosts, NEW p \in Phases, JobStarts(h, p) PROVE ScriptsTypeOK'
  BY <1>3 DEF JobStarts, FromTheTop, First
<1>4. ASSUME NEW h \in Hosts, NEW p \in Phases, ExitsWithError(h, p) PROVE ScriptsTypeOK'
  BY <1>4, ExitKeepsTypes
<1>5. ASSUME NEW h \in Hosts, NEW m \in Hosts, DisableService(h, m) PROVE ScriptsTypeOK'
  BY <1>5 DEF DisableService
<1>6. ASSUME NEW h \in Hosts, ListInstances(h) PROVE ScriptsTypeOK'
  BY <1>6 DEF ListInstances, OnHost
<1>7. ASSUME NEW h \in Hosts, NEW i \in Instances, LiveMigrate(h, i) PROVE ScriptsTypeOK'
  <2>1. CASE ExitsWithError(h, "pre") BY <1>4, <2>1
  <2>2. CASE offered' = [offered EXCEPT ![i] = Enabled \ {at[i]}]
             /\ toMigrate' = [toMigrate EXCEPT ![h] = @ \ {i}]
             /\ UNCHANGED <<mishaps, config, going, at, active, service, provider, stale, jobVars, pc,
                            todo, reached, restarts>>
    BY <2>2 DEF Enabled
  <2> QED BY <1>7, <2>1, <2>2 DEF LiveMigrate
<1>8. ASSUME NEW h \in Hosts, ScaleDownPreExits(h) \/ ScaleDownPostExits(h) PROVE ScriptsTypeOK'
  <2>1. CASE ScaleDownPreExits(h) BY <2>1 DEF ScaleDownPreExits, JobEnds
  <2>2. CASE ScaleDownPostExits(h) BY <2>2 DEF ScaleDownPostExits, JobEnds
  <2> QED BY <1>8, <2>1, <2>2
<1>9. ASSUME NEW h \in Hosts, DeleteService(h) \/ DeleteProvider(h) PROVE ScriptsTypeOK'
  BY <1>9 DEF DeleteService, DeleteProvider
<1>10. ASSUME NEW i \in Instances, NovaStep(i) PROVE ScriptsTypeOK'
  <2>1. CASE Boots(i) BY <2>1 DEF Boots, Enabled
  <2>2. CASE MovedByHand(i) BY <2>2 DEF MovedByHand, Enabled
  <2>3. ASSUME NEW h \in Hosts, Arrives(i, h) PROVE ScriptsTypeOK' BY <2>3 DEF Arrives
  <2>4. CASE MoveFails(i) BY <2>4 DEF MoveFails
  <2>5. CASE Deleted(i) BY <2>5 DEF Deleted
  <2>6. CASE PowerSwitched(i) BY <2>6 DEF PowerSwitched
  <2> QED BY <1>10, <2>1, <2>2, <2>3, <2>4, <2>5, <2>6 DEF NovaStep
<1> QED BY <1>1, <1>2, <1>3, <1>4, <1>5, <1>6, <1>7, <1>8, <1>9, <1>10 DEF Next, ScriptStep

\* Hosts, instances, jobs and scripts keep their types.
THEOREM ScriptsTypeCorrect == Spec => []ScriptsTypeOK
<1>1. ScriptsTypeOK /\ [Next]_vars => ScriptsTypeOK' BY ScriptsTypeStep
<1> QED BY ScriptsTypeInit, <1>1, PTL DEF Spec

-----------------------------------------------------------------------------
(* The steps that keep the invariant.                                      *)

LEMMA ScriptsInvInit == Init => ScriptsInv
  BY DEF Init, ScriptsInv, RunsOf, Disabling, Forgetting, Phases

LEMMA ExitKeepsInv ==
  ASSUME ScriptsTypeOK, ScriptsInv, NEW h \in Hosts, NEW p \in Phases, ExitsWithError(h, p)
  PROVE  ScriptsInv'
<1> USE DEF ScriptsTypeOK, ScriptsInv, RunsOf, Disabling, Forgetting, novaVars, Phases, OnHost, Punctual
<1>1. CASE FromTheTop(h, p) /\ UNCHANGED job BY <1>1 DEF FromTheTop, First, ExitsWithError
<1>2. CASE JobEnds(h, p, "failed") BY <1>2 DEF JobEnds, ExitsWithError
<1> QED BY <1>1, <1>2 DEF ExitsWithError

LEMMA ScriptsInvStep == ScriptsTypeOK /\ ScriptsInv /\ [Next]_vars => ScriptsInv'
<1> SUFFICES ASSUME ScriptsTypeOK, ScriptsInv, [Next]_vars PROVE ScriptsInv' OBVIOUS
<1> USE DEF ScriptsTypeOK, ScriptsInv, RunsOf, Disabling, Forgetting, novaVars, jobVars, scriptVars, Phases,
            OnHost, Punctual
<1>1. CASE UNCHANGED vars BY <1>1 DEF vars
<1>2. ASSUME NEW h \in Hosts, MachineMarkedDeleted(h) \/ TriggerPre(h) \/ TriggerPost(h) PROVE ScriptsInv'
  <2>1. CASE MachineMarkedDeleted(h) BY <2>1 DEF MachineMarkedDeleted
  <2>2. CASE TriggerPre(h) BY <2>2 DEF TriggerPre
  <2>3. CASE TriggerPost(h) BY <2>3 DEF TriggerPost
  <2> QED BY <1>2, <2>1, <2>2, <2>3
<1>3. ASSUME NEW h \in Hosts, NEW p \in Phases, JobStarts(h, p) PROVE ScriptsInv'
  BY <1>3 DEF JobStarts, FromTheTop, First
<1>4. ASSUME NEW h \in Hosts, NEW p \in Phases, ExitsWithError(h, p) PROVE ScriptsInv'
  BY <1>4, ExitKeepsInv
<1>5. ASSUME NEW h \in Hosts, NEW m \in Hosts, DisableService(h, m) PROVE ScriptsInv'
  BY <1>5 DEF DisableService
<1>6. ASSUME NEW h \in Hosts, ListInstances(h) PROVE ScriptsInv'
  BY <1>6 DEF ListInstances
<1>7. ASSUME NEW h \in Hosts, NEW i \in Instances, LiveMigrate(h, i) PROVE ScriptsInv'
  <2>1. CASE ExitsWithError(h, "pre") BY <1>4, <2>1
  <2>2. CASE /\ pc[h] = "migrate" /\ toMigrate' = [toMigrate EXCEPT ![h] = @ \ {i}]
             /\ UNCHANGED <<mishaps, config, going, at, active, service, provider, stale, jobVars, pc,
                            todo, reached, restarts>>
    BY <2>2
  <2> QED BY <1>7, <2>1, <2>2 DEF LiveMigrate
<1>8. ASSUME NEW h \in Hosts, ScaleDownPreExits(h) PROVE ScriptsInv'
  BY <1>8 DEF ScaleDownPreExits, JobEnds
<1>9. ASSUME NEW h \in Hosts, ScaleDownPostExits(h) PROVE ScriptsInv'
  BY <1>9 DEF ScaleDownPostExits, JobEnds
<1>10. ASSUME NEW h \in Hosts, DeleteService(h) PROVE ScriptsInv'
  BY <1>10 DEF DeleteService
<1>11. ASSUME NEW h \in Hosts, DeleteProvider(h) PROVE ScriptsInv'
  BY <1>11 DEF DeleteProvider
<1>12. ASSUME NEW i \in Instances, NovaStep(i) PROVE ScriptsInv'
  <2>1. CASE Boots(i) \/ MovedByHand(i) \/ PowerSwitched(i) BY <2>1 DEF Boots, MovedByHand, PowerSwitched
  <2>2. ASSUME NEW h \in Hosts, Arrives(i, h) PROVE ScriptsInv' BY <2>2 DEF Arrives
  <2>3. CASE MoveFails(i) BY <2>3 DEF MoveFails
  <2>4. CASE Deleted(i) BY <2>4, ScriptsAssumption DEF Deleted
  <2> QED BY <1>12, <2>1, <2>2, <2>3, <2>4 DEF NovaStep
<1> QED
  BY <1>1, <1>2, <1>3, <1>4, <1>5, <1>6, <1>7, <1>8, <1>9, <1>10, <1>11, <1>12 DEF Next, ScriptStep

LEMMA ScriptsInvariant == Spec => [](ScriptsTypeOK /\ ScriptsInv)
<1>1. ScriptsTypeOK /\ ScriptsInv /\ [Next]_vars => ScriptsInv' BY ScriptsInvStep
<1> QED BY ScriptsTypeCorrect, ScriptsInvInit, <1>1, PTL DEF Spec

-----------------------------------------------------------------------------
(* What follows for hosts and instances.                                   *)

\* A pre job that is done has disabled all hosts of its list and left its own host
\* empty, however often its script was restarted, and it stays so (punctual Nova).
THEOREM HostsAreDrained == Spec => []PreDrained
<1>1. ScriptsTypeOK /\ ScriptsInv => PreDrained
  BY DEF ScriptsInv, ScriptsTypeOK, Disabling, Forgetting, PreDrained, AlwaysPreDrained, OnHost
<1> QED BY ScriptsInvariant, <1>1, PTL

\* The post script forgets the service of a host first, then its provider, and only
\* when nothing is left on the host.
THEOREM HostsAreForgotten == Spec => []ForgottenInOrder
<1>1. ScriptsInv => ForgottenInOrder
  BY DEF ScriptsInv, RunsOf, Forgetting, ForgottenInOrder
<1> QED BY ScriptsInvariant, <1>1, PTL

\* Nothing is sent to a host of the list: the migration loop of any run starts when
\* the runs so far have disabled all of it.
THEOREM NextToGoIsSpared == Spec => NextToGoIsNotPicked
<1> DEFINE A(h, i) == pc[h] = "migrate" /\ i \in toMigrate[h] \ toMigrate'[h] /\ pc'[h] = "migrate" =>
                        offered'[i] \cap toDisable[h] = {}
<1>1. ASSUME ScriptsTypeOK, ScriptsInv, [Next]_vars, NEW h \in Hosts, NEW i \in Instances,
             pc[h] = "migrate", i \in toMigrate[h] \ toMigrate'[h], pc'[h] = "migrate"
      PROVE  offered'[i] \cap toDisable[h] = {}
  <2> USE DEF ScriptsTypeOK, novaVars, jobVars, scriptVars, Phases
  <2>1. CASE UNCHANGED vars BY <1>1, <2>1 DEF vars
  <2>2. ASSUME NEW g \in Hosts, MachineMarkedDeleted(g) \/ TriggerPre(g) \/ TriggerPost(g) PROVE FALSE
    BY <1>1, <2>2 DEF MachineMarkedDeleted, TriggerPre, TriggerPost
  <2>3. ASSUME NEW g \in Hosts, NEW p \in Phases, FromTheTop(g, p) PROVE FALSE
    BY <1>1, <2>3 DEF FromTheTop, First
  <2>4. ASSUME NEW g \in Hosts, NEW p \in Phases, NEW r, JobEnds(g, p, r) PROVE FALSE
    BY <1>1, <2>4 DEF JobEnds
  <2>5. ASSUME NEW g \in Hosts, NEW m \in Hosts, DisableService(g, m) PROVE FALSE
    BY <1>1, <2>5 DEF DisableService
  <2>6. ASSUME NEW g \in Hosts, ListInstances(g) PROVE FALSE
    BY <1>1, <2>6 DEF ListInstances
  <2>7. ASSUME NEW g \in Hosts, NEW j \in Instances, LiveMigrate(g, j)
        PROVE  offered'[i] \cap toDisable[h] = {}
    <3>1. CASE ExitsWithError(g, "pre") BY <2>3, <2>4, <3>1 DEF ExitsWithError
    <3>2. CASE /\ offered' = [offered EXCEPT ![j] = Enabled \ {at[j]}]
               /\ toMigrate' = [toMigrate EXCEPT ![g] = @ \ {j}]
      <4>1. g = h /\ j = i BY <1>1, <3>2
      <4>2. toDisable[h] \subseteq reached[h] BY <1>1 DEF ScriptsInv, Disabling
      <4>3. \A m \in reached[h] : service[m] # "enabled" BY <1>1 DEF ScriptsInv, Disabling
      <4>4. offered'[i] = Enabled \ {at[i]} BY <1>1, <3>2, <4>1
      <4> QED BY <4>2, <4>3, <4>4 DEF Enabled
    <3> QED BY <2>7, <3>1, <3>2 DEF LiveMigrate
  <2>8. ASSUME NEW g \in Hosts, DeleteService(g) \/ DeleteProvider(g) PROVE FALSE
    BY <1>1, <2>8 DEF DeleteService, DeleteProvider
  <2>9. ASSUME NEW j \in Instances, NovaStep(j) PROVE FALSE
    BY <1>1, <2>9 DEF NovaStep, Boots, MovedByHand, Arrives, MoveFails, Deleted, PowerSwitched
  <2> QED
    BY <1>1, <2>1, <2>2, <2>3, <2>4, <2>5, <2>6, <2>7, <2>8, <2>9
    DEF Next, ScriptStep, JobStarts, ExitsWithError, ScaleDownPreExits, ScaleDownPostExits
<1>2. ScriptsTypeOK /\ ScriptsInv /\ [Next]_vars => [\A h \in Hosts, i \in Instances : A(h, i)]_vars
  BY <1>1
<1> QED BY ScriptsInvariant, <1>2, PTL DEF Spec, NextToGoIsNotPicked

-----------------------------------------------------------------------------
(* Nothing else than what ComputeCluster says.                             *)

\* The job that a script is restarted in stays what it was.
LEMMA ExitIsCluster ==
  ASSUME ScriptsTypeOK, NEW h \in Hosts, NEW p \in Phases, ExitsWithError(h, p)
  PROVE  Cluster!JobSteps(h) \/ UNCHANGED Cluster!envVars
<1> USE DEF ScriptsTypeOK, novaVars, Phases
<1>1. CASE FromTheTop(h, p) /\ UNCHANGED job
  <2>1. UNCHANGED <<going, at, service, job, toDisable, reached>> BY <1>1 DEF ExitsWithError
  <2> QED BY <2>1 DEF Cluster!envVars, Cluster!clusterVars, Cluster!jobVars, Cluster!novaVars
<1>2. CASE JobEnds(h, p, "failed")
  <2>1. job[h][p] = "active" /\ job' = [job EXCEPT ![h][p] = "failed"]
    BY <1>2 DEF ExitsWithError, JobEnds
  <2>2. UNCHANGED <<going, at, service, toDisable, reached>> BY DEF ExitsWithError
  <2>3. Cluster!JobFails(h, p)
    BY <2>1, <2>2 DEF Cluster!JobFails, Cluster!clusterVars, Cluster!novaVars
  <2> QED BY <2>3 DEF Cluster!JobSteps, Cluster!Phases
<1> QED BY <1>1, <1>2 DEF ExitsWithError

LEMMA ScriptIsCluster ==
  ASSUME ScriptsTypeOK, ScriptsInv, NEW h \in Hosts, ScriptStep(h)
  PROVE  Cluster!JobSteps(h) \/ UNCHANGED Cluster!envVars
<1> USE DEF ScriptsTypeOK, ScriptsInv, RunsOf, Disabling, novaVars, jobVars, scriptVars, Phases
<1> DEFINE Unseen == UNCHANGED <<going, at, service, job, toDisable, reached>>
<1>1. Unseen => UNCHANGED Cluster!envVars
  BY DEF Cluster!envVars, Cluster!clusterVars, Cluster!jobVars, Cluster!novaVars
<1> USE DEF Cluster!JobSteps, Cluster!clusterVars, Cluster!jobVars, Cluster!novaVars, Cluster!Phases
<1>2. ASSUME NEW p \in Phases, JobStarts(h, p) PROVE Cluster!JobSteps(h)
  <2>1. Cluster!JobStarts(h, p) BY <1>2 DEF JobStarts, Cluster!JobStarts
  <2> QED BY <2>1
<1>3. ASSUME NEW m \in Hosts, DisableService(h, m)
      PROVE  Cluster!JobSteps(h) \/ UNCHANGED Cluster!envVars
  <2>1. CASE m \in reached[h]
    <3>1. service' = service BY <1>3, <2>1 DEF DisableService
    <3>2. reached' = reached BY <1>3, <2>1 DEF DisableService
    <3> QED BY <1>1, <1>3, <3>1, <3>2 DEF DisableService
  <2>2. CASE m \notin reached[h]
    <3>1. job[h]["pre"] = "active" /\ m \in toDisable[h] \ reached[h] BY <1>3, <2>2 DEF DisableService
    <3>2. [g \in Hosts |-> toDisable'[g] \ reached'[g]]
            = [[g \in Hosts |-> toDisable[g] \ reached[g]] EXCEPT ![h] = @ \ {m}]
      BY <1>3 DEF DisableService
    <3>3. UNCHANGED <<going, at, job>> /\ service' = [service EXCEPT ![m] = IF @ = "enabled" THEN "disabled" ELSE @]
      BY <1>3 DEF DisableService
    <3>4. Cluster!ScaleDownPreDisables(h, m) BY <3>1, <3>2, <3>3 DEF Cluster!ScaleDownPreDisables
    <3> QED BY <3>4
  <2> QED BY <2>1, <2>2
<1>4. ASSUME ListInstances(h) PROVE UNCHANGED Cluster!envVars
  BY <1>1, <1>4 DEF ListInstances
<1>5. ASSUME NEW i \in Instances, LiveMigrate(h, i)
      PROVE  Cluster!JobSteps(h) \/ UNCHANGED Cluster!envVars
  BY <1>1, <1>5, ExitIsCluster DEF LiveMigrate
<1>6. ASSUME ScaleDownPreExits(h) PROVE Cluster!JobSteps(h)
  <2>1. job[h]["pre"] = "active" /\ toDisable[h] \ reached[h] = {} BY <1>6 DEF ScaleDownPreExits
  <2>2. h \notin {at[i] : i \in Instances} \ {NoHost} BY <1>6 DEF ScaleDownPreExits, OnHost
  <2>3. UNCHANGED <<going, at, service, toDisable, reached>> /\ job' = [job EXCEPT ![h]["pre"] = "succeeded"]
    BY <1>6 DEF ScaleDownPreExits, JobEnds
  <2>4. Cluster!ScaleDownPreExits(h) BY <2>1, <2>2, <2>3 DEF Cluster!ScaleDownPreExits
  <2> QED BY <2>4
<1>7. ASSUME DeleteService(h) PROVE Cluster!JobSteps(h) \/ UNCHANGED Cluster!envVars
  <2>1. CASE service[h] = "deleted"
    <3>1. service' = service BY <1>7, <2>1 DEF DeleteService
    <3> QED BY <1>1, <1>7, <3>1 DEF DeleteService
  <2>2. CASE service[h] # "deleted"
    <3>1. Cluster!ScaleDownPostDeletes(h) BY <1>7, <2>2 DEF DeleteService, Cluster!ScaleDownPostDeletes
    <3> QED BY <3>1
  <2> QED BY <2>1, <2>2
<1>8. ASSUME DeleteProvider(h) PROVE UNCHANGED Cluster!envVars
  BY <1>1, <1>8 DEF DeleteProvider
<1>9. ASSUME ScaleDownPostExits(h) PROVE Cluster!JobSteps(h)
  <2>1. job[h]["post"] = "active" /\ service[h] = "deleted"
    BY <1>9 DEF ScaleDownPostExits, Forgetting
  <2>2. UNCHANGED <<going, at, service, toDisable, reached>> /\ job' = [job EXCEPT ![h]["post"] = "succeeded"]
    BY <1>9 DEF ScaleDownPostExits, JobEnds
  <2>3. Cluster!ScaleDownPostExits(h) BY <2>1, <2>2 DEF Cluster!ScaleDownPostExits
  <2> QED BY <2>3
<1> QED BY <1>2, <1>3, <1>4, <1>5, <1>6, <1>7, <1>8, <1>9 DEF ScriptStep

LEMMA NovaIsCluster ==
  ASSUME ScriptsTypeOK, NEW i \in Instances, NovaStep(i), Punctual
  PROVE  (\E h \in Hosts : Cluster!NovaSteps(h)) \/ UNCHANGED Cluster!envVars
<1> USE ScriptsAssumption DEF ScriptsTypeOK, jobVars, scriptVars
<1> DEFINE Carrying == {at[j] : j \in Instances} \ {NoHost}
           Unseen   == UNCHANGED <<going, at, service, job, toDisable, reached>>
<1>1. Unseen => UNCHANGED Cluster!envVars
  BY DEF Cluster!envVars, Cluster!clusterVars, Cluster!jobVars, Cluster!novaVars
<1> USE DEF Cluster!NovaSteps, Cluster!clusterVars, Cluster!jobVars, Cluster!novaVars, Cluster!envVars
<1>2. CASE Boots(i) \/ MovedByHand(i) \/ MoveFails(i) \/ PowerSwitched(i)
  BY <1>1, <1>2 DEF Boots, MovedByHand, MoveFails, PowerSwitched
<1>3. ASSUME NEW h \in Hosts, Arrives(i, h) PROVE \E g \in Hosts : Cluster!NovaSteps(g)
  <2>1. service[h] = "enabled" /\ at' = [at EXCEPT ![i] = h]
        /\ UNCHANGED <<going, service, job, toDisable, reached>>
    BY <1>3 DEF Arrives, Punctual
  <2>2. CASE at[i] = NoHost \/ \E j \in Instances \ {i} : at[j] = at[i]
    <3>1. Carrying' = Carrying \cup {h} BY <2>1, <2>2
    <3>2. Cluster!InstanceStarts(h) BY <2>1, <3>1 DEF Cluster!InstanceStarts
    <3> QED BY <3>2
  <2>3. CASE at[i] # NoHost /\ \A j \in Instances \ {i} : at[j] # at[i]
    <3>1. at[i] \in Hosts /\ at[i] \in Carrying BY <2>3
    <3>2. Carrying' = (Carrying \ {at[i]}) \cup {h} BY <2>1, <2>3
    <3>3. Cluster!InstanceMoves(at[i], h) BY <2>1, <3>1, <3>2 DEF Cluster!InstanceMoves
    <3> QED BY <3>1, <3>3
  <2> QED BY <2>2, <2>3
<1>4. ASSUME Deleted(i) PROVE (\E h \in Hosts : Cluster!NovaSteps(h)) \/ UNCHANGED Cluster!envVars
  <2>1. at' = [at EXCEPT ![i] = NoHost] /\ UNCHANGED <<going, service, job, toDisable, reached>>
    BY <1>4 DEF Deleted
  <2>2. CASE at[i] = NoHost \/ \E j \in Instances \ {i} : at[j] = at[i]
    <3>1. Carrying' = Carrying BY <2>1, <2>2
    <3>2. UNCHANGED Cluster!envVars BY <2>1, <3>1
    <3> QED BY <3>2
  <2>3. CASE at[i] # NoHost /\ \A j \in Instances \ {i} : at[j] # at[i]
    <3>1. PICK g \in Hosts : at[i] = g BY <2>3
    <3>2. g \in Carrying BY <2>3, <3>1
    <3>3. Carrying' = Carrying \ {g} BY <2>1, <2>3, <3>1
    <3>4. Cluster!InstancesLeave(g) BY <2>1, <3>2, <3>3 DEF Cluster!InstancesLeave
    <3> QED BY <3>4
  <2> QED BY <2>2, <2>3
<1> QED BY <1>2, <1>3, <1>4 DEF NovaStep

LEMMA MarkIsCluster ==
  ASSUME ScriptsTypeOK, NEW h \in Hosts, MachineMarkedDeleted(h)
  PROVE  Cluster!MachineMarkedDeleted(h)
<1>1. h \notin going /\ going' = going \cup {h} /\ UNCHANGED <<at, service, job, toDisable, reached>>
  BY DEF MachineMarkedDeleted, novaVars, jobVars, scriptVars
<1>2. [g \in Hosts |-> IF g \in going' THEN "deleting" ELSE "running"]
        = [[g \in Hosts |-> IF g \in going THEN "deleting" ELSE "running"] EXCEPT ![h] = "deleting"]
  BY <1>1
<1> QED BY <1>1, <1>2 DEF Cluster!MachineMarkedDeleted, Cluster!jobVars, Cluster!novaVars

\* With a punctual Nova, all that the scripts, Nova and its users do is, at the
\* level the operator's model looks at, a step of ComputeCluster or none at all.
THEOREM ScriptsImplementCluster == Spec => ImplementsCluster
<1> DEFINE A == Punctual => \E h \in Hosts :
                    \/ Cluster!NovaSteps(h) \/ Cluster!JobSteps(h) \/ Cluster!MachineMarkedDeleted(h)
                    \/ TriggerPre(h) \/ TriggerPost(h)
<1>1. ScriptsTypeOK /\ ScriptsInv /\ [Next]_vars => [A]_(Cluster!envVars)
  <2> SUFFICES ASSUME ScriptsTypeOK, ScriptsInv, [Next]_vars, Punctual PROVE A \/ UNCHANGED Cluster!envVars
    OBVIOUS
  <2>1. CASE UNCHANGED vars
    BY <2>1 DEF vars, novaVars, jobVars, scriptVars,
                Cluster!envVars, Cluster!clusterVars, Cluster!jobVars, Cluster!novaVars
  <2>2. ASSUME NEW h \in Hosts, MachineMarkedDeleted(h) PROVE A BY <2>2, MarkIsCluster
  <2>3. ASSUME NEW h \in Hosts, TriggerPre(h) \/ TriggerPost(h) PROVE A BY <2>3
  <2>4. ASSUME NEW h \in Hosts, ScriptStep(h) PROVE A \/ UNCHANGED Cluster!envVars BY <2>4, ScriptIsCluster
  <2>5. ASSUME NEW h \in Hosts, NEW p \in Phases, ExitsWithError(h, p) PROVE A \/ UNCHANGED Cluster!envVars
    BY <2>5, ExitIsCluster
  <2>6. ASSUME NEW i \in Instances, NovaStep(i) PROVE A \/ UNCHANGED Cluster!envVars BY <2>6, NovaIsCluster
  <2> QED BY <2>1, <2>2, <2>3, <2>4, <2>5, <2>6 DEF Next
<1> QED BY ScriptsInvariant, <1>1, PTL DEF Spec, ImplementsCluster
=============================================================================
