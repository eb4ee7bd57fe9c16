---------------------------- MODULE DrainScripts ----------------------------
(***************************************************************************)
(* The two scripts that the drain jobs run on behalf of a host, and what   *)
(* Nova and its users do meanwhile.  scaledownpre.sh disables the compute  *)
(* services of the hosts that are going, asks Nova to live migrate what is *)
(* ACTIVE on its own host and waits until nothing is left there;           *)
(* scaledownpost.sh deletes the compute service and the placement resource *)
(* provider.  Any command that fails ends the script (`set -e`); the       *)
(* container is restarted from the top, up to the job's back-off limit.    *)
(*                                                                         *)
(* The list of hosts to disable and the migration switch are fixed in the  *)
(* job's environment when _triggerNodeDrain creates it.  ComputeCluster    *)
(* keeps of all this what the operator can tell apart.                     *)
(***************************************************************************)
EXTENDS Naturals, FiniteSets

CONSTANTS
    Hosts,          \* compute hosts of the role
    Stays,          \* the one host that is never removed: somewhere to migrate to
    Instances,      \* instances, by ID
    NoHost,         \* stands for "on no host"
    BackoffLimit,   \* restarts of a script before its job fails (20 in the code)
    Configs,        \* the drain settings of the CR to look at
    Scenarios       \* which of MishapKinds may happen together

(***************************************************************************)
(* "late_mark": a machine is marked for deletion after jobs were created.  *)
(* "failed_move": a migration or a build fails, and may leave its          *)
(*     allocation on a host it was meant for.                              *)
(* "power_off": an instance is stopped, and started again.                 *)
(* "slow_arrival": an instance that was scheduled to a host arrives there  *)
(*     after the host was disabled.                                        *)
(***************************************************************************)
MishapKinds == {"late_mark", "failed_move", "power_off", "slow_arrival"}

ASSUME ScriptsAssumption ==
    /\ Stays \in Hosts /\ NoHost \notin Hosts
    /\ BackoffLimit \in Nat
    /\ Scenarios \subseteq SUBSET MishapKinds

VARIABLES
    mishaps,        \* the mishaps this cloud lives with
    config,         \* [enabled: Spec.Drain.Enabled, on, off: hosts listed with drain true, false]
    going,          \* hosts whose machine has a deletion timestamp
    at,             \* at[i]: the host instance i is on
    offered,        \* offered[i]: the hosts the scheduler may have chosen for i, while it moves
    active,         \* instances in state ACTIVE
    service,        \* service[h]: the nova-compute service of h
    provider,       \* hosts with a placement resource provider
    stale,          \* hosts with an allocation that belongs to nothing
    job,            \* job[h][p]: h's drain job of phase p
    toDisable,      \* DISABLE_COMPUTE_SERVICES of h's pre job
    live,           \* hosts whose pre job has LIVE_MIGRATION_ENABLED
    pc,             \* pc[h]: where the script of h's running job is
    todo,           \* todo[h]: services the disable loop has not come to yet
    reached,        \* reached[h]: services some run of the loop has come to
    toMigrate,      \* toMigrate[h]: what the migration loop has not come to yet
    restarts        \* restarts[h]: of the running job's container

novaVars   == <<at, offered, active, service, provider, stale>>
jobVars    == <<job, toDisable, live>>
scriptVars == <<pc, todo, reached, toMigrate, restarts>>
vars       == <<mishaps, config, going, novaVars, jobVars, scriptVars>>

Phases == {"pre", "post"}
First  == [pre |-> "disable", post |-> "service"]

ScriptsTypeOK ==
    /\ mishaps \in Scenarios /\ config \in Configs
    /\ going \subseteq Hosts
    /\ at \in [Instances -> Hosts \cup {NoHost}]
    /\ offered \in [Instances -> SUBSET Hosts]
    /\ active \subseteq {i \in Instances : at[i] # NoHost}
    /\ service \in [Hosts -> {"enabled", "disabled", "deleted"}]
    /\ provider \subseteq Hosts /\ stale \subseteq Hosts /\ live \subseteq Hosts
    /\ job \in [Hosts -> [Phases -> {"absent", "pending", "active", "succeeded", "failed"}]]
    /\ pc \in [Hosts -> {"none", "disable", "migrate", "service", "provider"}]
    /\ {toDisable, todo, reached} \subseteq [Hosts -> SUBSET Hosts]
    /\ toMigrate \in [Hosts -> SUBSET Instances]
    /\ restarts \in [Hosts -> 0..BackoffLimit]

\* Some machines have been marked; their jobs are about to be created.
Init ==
    /\ mishaps \in Scenarios /\ config \in Configs
    /\ going \in SUBSET (Hosts \ {Stays}) \ {{}}
    /\ at \in [Instances -> Hosts] /\ active = Instances
    /\ offered = [i \in Instances |-> {}]
    /\ service = [h \in Hosts |-> "enabled"] /\ provider = Hosts /\ stale = {}
    /\ job = [h \in Hosts |-> [p \in Phases |-> "absent"]]
    /\ toDisable = [h \in Hosts |-> {}] /\ live = {}
    /\ pc = [h \in Hosts |-> "none"] /\ restarts = [h \in Hosts |-> 0]
    /\ todo = [h \in Hosts |-> {}] /\ reached = todo
    /\ toMigrate = [h \in Hosts |-> {}]

Enabled     == {h \in Hosts : service[h] = "enabled"}
OnHost(h)   == {i \in Instances : at[i] = h}
Moving(i)   == offered[i] # {}
Ended(h, p) == job[h][p] \in {"succeeded", "failed"}

-----------------------------------------------------------------------------
(* The jobs.                                                               *)

\* All hosts with a deletion timestamp, and the switch, as they are by now.
TriggerPre(h) ==
    /\ h \in going /\ job[h]["pre"] = "absent"
    /\ job' = [job EXCEPT ![h]["pre"] = "pending"]
    /\ toDisable' = [toDisable EXCEPT ![h] = going]
    /\ live' = IF config.enabled \/ h \in config.on THEN live \cup {h} ELSE live
    /\ UNCHANGED <<mishaps, config, going, novaVars, scriptVars>>

TriggerPost(h) ==
    /\ job[h]["pre"] = "succeeded" /\ job[h]["post"] = "absent"
    /\ job' = [job EXCEPT ![h]["post"] = "pending"]
    /\ restarts' = [restarts EXCEPT ![h] = 0]
    /\ UNCHANGED <<mishaps, config, going, novaVars, toDisable, live, pc, todo, reached, toMigrate>>

FromTheTop(h, p) ==
    /\ pc' = [pc EXCEPT ![h] = First[p]]
    /\ todo' = [todo EXCEPT ![h] = IF p = "pre" THEN toDisable[h] ELSE {}]
    /\ toMigrate' = [toMigrate EXCEPT ![h] = {}]

JobStarts(h, p) ==
    /\ job[h][p] = "pending"
    /\ job' = [job EXCEPT ![h][p] = "active"]
    /\ FromTheTop(h, p)
    /\ UNCHANGED <<mishaps, config, going, novaVars, toDisable, live, reached, restarts>>

JobEnds(h, p, result) ==
    /\ job' = [job EXCEPT ![h][p] = result]
    /\ pc' = [pc EXCEPT ![h] = "none"]
    /\ todo' = [todo EXCEPT ![h] = {}] /\ toMigrate' = [toMigrate EXCEPT ![h] = {}]
    /\ UNCHANGED restarts

\* `set -e`, RestartPolicy OnFailure, BackoffLimit.
ExitsWithError(h, p) ==
    /\ job[h][p] = "active"
    /\ \/ /\ restarts[h] < BackoffLimit
          /\ restarts' = [restarts EXCEPT ![h] = @ + 1]
          /\ FromTheTop(h, p) /\ UNCHANGED job
       \/ restarts[h] = BackoffLimit /\ JobEnds(h, p, "failed")
    /\ UNCHANGED <<mishaps, config, going, novaVars, toDisable, live, reached>>

-----------------------------------------------------------------------------
(* scaledownpre.sh                                                         *)

\* Faulty: the script disables the service of its own host only.
DisableService_OwnHost(h, m) ==
    /\ pc[h] = "disable" /\ m \in todo[h]
    /\ service' = IF m = h THEN [service EXCEPT ![m] = IF @ = "enabled" THEN "disabled" ELSE @]
                           ELSE service
    /\ todo' = [todo EXCEPT ![h] = @ \ {m}] /\ reached' = [reached EXCEPT ![h] = @ \cup {m}]
    /\ UNCHANGED <<mishaps, config, going, at, offered, active, provider, stale, jobVars, pc,
                   toMigrate, restarts>>

DisableService(h, m) ==
    /\ pc[h] = "disable" /\ m \in todo[h]
    /\ service' = [service EXCEPT ![m] = IF @ = "enabled" THEN "disabled" ELSE @]
    /\ todo' = [todo EXCEPT ![h] = @ \ {m}] /\ reached' = [reached EXCEPT ![h] = @ \cup {m}]
    /\ UNCHANGED <<mishaps, config, going, at, offered, active, provider, stale, jobVars, pc,
                   toMigrate, restarts>>

\* Faulty: what an earlier run has seen to is not looked at again.
ListInstances_FirstRunOnly(h) ==
    /\ pc[h] = "disable" /\ todo[h] = {}
    /\ toMigrate' = [toMigrate EXCEPT ![h] =
                        IF h \in live /\ restarts[h] = 0 THEN {i \in OnHost(h) \cap active : ~Moving(i)}
                        ELSE {}]
    /\ pc' = [pc EXCEPT ![h] = "migrate"]
    /\ UNCHANGED <<mishaps, config, going, novaVars, jobVars, todo, reached, restarts>>

\* The ACTIVE instances; one that moves is in state MIGRATING or BUILD.
ListInstances(h) ==
    /\ pc[h] = "disable" /\ todo[h] = {}
    /\ toMigrate' = [toMigrate EXCEPT ![h] =
                        IF h \in live THEN {i \in OnHost(h) \cap active : ~Moving(i)} ELSE {}]
    /\ pc' = [pc EXCEPT ![h] = "migrate"]
    /\ UNCHANGED <<mishaps, config, going, novaVars, jobVars, todo, reached, restarts>>

\* The request names no source host: Nova takes it for an ACTIVE instance, wherever
\* that is by now, and answers before it has found a host.  One that is gone, off
\* or on its way is an error.
LiveMigrate(h, i) ==
    /\ pc[h] = "migrate" /\ i \in toMigrate[h]
    /\ \/ /\ i \in active /\ ~Moving(i)
          /\ offered' = [offered EXCEPT ![i] = Enabled \ {at[i]}]
          /\ toMigrate' = [toMigrate EXCEPT ![h] = @ \ {i}]
          /\ UNCHANGED <<mishaps, config, going, at, active, service, provider, stale, jobVars, pc,
                         todo, reached, restarts>>
       \/ ~(i \in active /\ ~Moving(i)) /\ ExitsWithError(h, "pre")

\* Faulty: only what is ACTIVE is waited for.
ScaleDownPreExits_ActiveOnly(h) ==
    /\ pc[h] = "migrate" /\ toMigrate[h] = {}
    /\ OnHost(h) \cap active = {}
    /\ JobEnds(h, "pre", "succeeded")
    /\ UNCHANGED <<mishaps, config, going, novaVars, toDisable, live, reached>>

\* Whatever state the instances are in, the script waits for them to be gone.
ScaleDownPreExits(h) ==
    /\ pc[h] = "migrate" /\ toMigrate[h] = {}
    /\ OnHost(h) = {}
    /\ JobEnds(h, "pre", "succeeded")
    /\ UNCHANGED <<mishaps, config, going, novaVars, toDisable, live, reached>>

-----------------------------------------------------------------------------
(* scaledownpost.sh                                                        *)

DeleteService(h) ==
    /\ pc[h] = "service"
    /\ service' = [service EXCEPT ![h] = "deleted"]
    /\ pc' = [pc EXCEPT ![h] = "provider"]
    /\ UNCHANGED <<mishaps, config, going, at, offered, active, provider, stale, jobVars, todo,
                   reached, toMigrate, restarts>>

\* Placement refuses to delete a provider with allocations (HTTP 409); the
\* script does not mind and tries again.
DeleteProvider(h) ==
    /\ pc[h] = "provider" /\ h \in provider
    /\ OnHost(h) = {} /\ h \notin stale
    /\ provider' = provider \ {h}
    /\ UNCHANGED <<mishaps, config, going, at, offered, active, service, stale, jobVars, scriptVars>>

\* Faulty: one attempt is enough.
ScaleDownPostExits_OneTry(h) ==
    /\ pc[h] = "provider"
    /\ JobEnds(h, "post", "succeeded")
    /\ UNCHANGED <<mishaps, config, going, novaVars, toDisable, live, reached>>

ScaleDownPostExits(h) ==
    /\ pc[h] = "provider" /\ h \notin provider
    /\ JobEnds(h, "post", "succeeded")
    /\ UNCHANGED <<mishaps, config, going, novaVars, toDisable, live, reached>>

ScriptStep(h) ==
    \/ \E p \in Phases : JobStarts(h, p)
    \/ (\E m \in Hosts : DisableService(h, m)) \/ ListInstances(h)
    \/ (\E i \in Instances : LiveMigrate(h, i)) \/ ScaleDownPreExits(h)
    \/ DeleteService(h) \/ DeleteProvider(h) \/ ScaleDownPostExits(h)

-----------------------------------------------------------------------------
(* Nova, its users and administrators.                                     *)

Boots(i) ==
    /\ at[i] = NoHost /\ ~Moving(i)
    /\ offered' = [offered EXCEPT ![i] = Enabled]
    /\ UNCHANGED <<mishaps, config, going, at, active, service, provider, stale, jobVars, scriptVars>>

\* A migration by hand, of an instance in any state.
MovedByHand(i) ==
    /\ at[i] # NoHost /\ ~Moving(i)
    /\ offered' = [offered EXCEPT ![i] = Enabled \ {at[i]}]
    /\ UNCHANGED <<mishaps, config, going, at, active, service, provider, stale, jobVars, scriptVars>>

Arrives(i, h) ==
    /\ h \in offered[i]
    /\ service[h] = "enabled" \/ "slow_arrival" \in mishaps
    /\ at' = [at EXCEPT ![i] = h] /\ offered' = [offered EXCEPT ![i] = {}]
    /\ active' = IF at[i] = NoHost THEN active \cup {i} ELSE active
    /\ UNCHANGED <<mishaps, config, going, service, provider, stale, jobVars, scriptVars>>

MoveFails(i) ==
    /\ "failed_move" \in mishaps /\ Moving(i)
    /\ offered' = [offered EXCEPT ![i] = {}]
    /\ \/ UNCHANGED stale
       \/ \E h \in offered[i] \cap provider : stale' = stale \cup {h}
    /\ UNCHANGED <<mishaps, config, going, at, active, service, provider, jobVars, scriptVars>>

Deleted(i) ==
    /\ at[i] # NoHost \/ Moving(i)
    /\ at' = [at EXCEPT ![i] = NoHost] /\ offered' = [offered EXCEPT ![i] = {}]
    /\ active' = active \ {i}
    /\ UNCHANGED <<mishaps, config, going, service, provider, stale, jobVars, scriptVars>>

PowerSwitched(i) ==
    /\ "power_off" \in mishaps /\ at[i] # NoHost /\ ~Moving(i)
    /\ active' = IF i \in active THEN active \ {i} ELSE active \cup {i}
    /\ UNCHANGED <<mishaps, config, going, at, offered, service, provider, stale, jobVars, scriptVars>>

NovaStep(i) ==
    \/ Boots(i) \/ MovedByHand(i) \/ (\E h \in Hosts : Arrives(i, h)) \/ MoveFails(i)
    \/ Deleted(i) \/ PowerSwitched(i)

MachineMarkedDeleted(h) ==
    /\ "late_mark" \in mishaps
    /\ h \notin going \cup {Stays}
    /\ going' = going \cup {h}
    /\ UNCHANGED <<mishaps, config, novaVars, jobVars, scriptVars>>

Next ==
    \/ \E h \in Hosts :
        \/ MachineMarkedDeleted(h) \/ TriggerPre(h) \/ TriggerPost(h)
        \/ ScriptStep(h) \/ \E p \in Phases : ExitsWithError(h, p)
    \/ \E i \in Instances : NovaStep(i)

Spec == Init /\ [][Next]_vars

\* The pods run and Nova finishes what it began; users do as they please.
FairSpec ==
    /\ Spec
    /\ \A h \in Hosts : WF_vars(ScriptStep(h))
    /\ \A i \in Instances : WF_vars(\E h \in Hosts : Arrives(i, h))

-----------------------------------------------------------------------------
(* Properties.                                                             *)

Punctual == "slow_arrival" \notin mishaps

\* controller.go, "disable nova service, (optional) migrate VMs, wait until there
\* is no VMs": when the pre job is done, its hosts are disabled and its own host
\* is empty, and stays so.
AlwaysPreDrained ==
    \A h \in Hosts : job[h]["pre"] = "succeeded" =>
        /\ \A m \in toDisable[h] : service[m] # "enabled"
        /\ OnHost(h) = {}

\* The same as long as nothing arrives at a host that was disabled meanwhile.
PreDrained == Punctual => AlwaysPreDrained

\* scaledownpre.sh, "Disable all compute worker nodes to not have the
\* nova-scheduler to pick a node which is going to be removed next": whatever the
\* restarts, no request to migrate lets Nova choose a host of the job's list.
NextToGoIsNotPicked ==
    [][\A h \in Hosts, i \in Instances :
        pc[h] = "migrate" /\ i \in toMigrate[h] \ toMigrate'[h] /\ pc'[h] = "migrate" =>
            offered'[i] \cap toDisable[h] = {}]_vars

\* The post script forgets a host in the order service, provider, and only when
\* nothing is left there.
ForgottenInOrder ==
    \A h \in Hosts :
        /\ h \notin provider => service[h] = "deleted"
        /\ job[h]["post"] = "succeeded" => h \notin provider
        /\ Punctual /\ service[h] = "deleted" => OnHost(h) = {}

\* What the operator's model takes the scripts and Nova to be: every step is one
\* of ComputeCluster's, or none that the operator could tell.
Cluster == INSTANCE ComputeCluster WITH
    Nodes <- Hosts, Mishaps <- {"job_failure"},
    present <- Hosts, cordoned <- {}, tainted <- {}, unmodified <- {},
    machine <- [h \in Hosts |-> IF h \in going THEN "deleting" ELSE "running"],
    blocker <- [h \in Hosts |-> "held"],
    disables <- [h \in Hosts |-> toDisable[h] \ reached[h]],
    instances <- {at[i] : i \in Instances} \ {NoHost}

ImplementsCluster ==
    [][Punctual =>
        \E h \in Hosts :
            \/ Cluster!NovaSteps(h) \/ Cluster!JobSteps(h) \/ Cluster!MachineMarkedDeleted(h)
            \/ TriggerPre(h) \/ TriggerPost(h)]_(Cluster!envVars)

\* With live migration on, the scripts need nobody's help: each job ends, though
\* users boot, delete and move instances all the time, unless a migration fails,
\* an instance is stopped or one arrives late.
JobsEnd ==
    mishaps \subseteq {"late_mark"} =>
        \A h \in Hosts : \A p \in Phases :
            (job[h][p] \in {"pending", "active"} /\ h \in live) ~> Ended(h, p)

\* README, `nodesToDelete`: "enable disable live migration for this node. If not
\* specified the global setting from the `drain:` section is used".
NodeSettingCounts ==
    \A h \in Hosts : job[h]["pre"] # "absent" =>
        /\ h \in config.on => h \in live
        /\ h \in config.off => h \notin live
=============================================================================
