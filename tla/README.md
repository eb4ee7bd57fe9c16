# The compute-node operator in TLA+

This directory models the control logic of the compute-node operator: the
controller that creates OpenStack compute workers from a `ComputeNodeOpenStack`
CR, keeps the number of machines in step with it, and takes workers away without
losing the instances that run on them. TLC checks the models on small instances;
TLAPS proves nearly all their safety properties for any number of hosts, CRs,
instances and failures. Liveness is TLC's alone.

Source references are to `controllers/computenodeopenstack_controller.go` unless
another file is named.

## 1. The system

One operator process, leader elected (`main.go`), one worker: one `Reconcile` of
a CR runs at a time. Typed reads of the controller's client come from an informer
cache; writes, reads with the client-go `Kclient` and reads of unstructured
objects go to the API server. A write of an object that somebody else wrote since
it was read is a conflict, and an error. An error ends `Reconcile` and requeues
the CR. The events that wake it are those of the CR, of the MachineSet, of the
scripts ConfigMap and of the drain jobs; nodes and blocker pods are not watched,
for them the resync period (10 minutes) has to do.

| Component | State | Operations | Works with |
|---|---|---|---|
| Node pass, `updateNodesStatus` (528-692) | `Status.Nodes`, `Status.NodesToDelete` and `Spec.NodesToDelete`; per node a blocker pod with finalizer, two jobs, one taint | record a node, guard it with a blocker pod, drain it step by step, let it go | machines, nodes, jobs, API cache |
| Drain scripts (`templates/drainpod/bin/*.sh`) | Nova's services and instances | disable services, migrate, wait, delete the service and its resource provider | Nova, the pass (by job status) |
| CR deletion, drain (`deleteAllBlockerPodFinalizer`, 1226-1365) | the same objects, none of its own | three rounds over all nodes: pre jobs; taints and post jobs; clean up | work queue, job events |
| CR deletion, objects (100-163, 1376-1451) | finalizer, owner labels | add the finalizer, delete by label, remove the finalizer | API cache, the other writers |
| Worker count and machine selection (180-206, 1017-1088) | `Spec.Workers`, `Status.SpecMDS`, the MachineSet, the delete annotation | decide who edited last, annotate, scale | administrator, machineset controller |
| Infra DaemonSets (429-526) | copies of DaemonSets in the infra namespaces | create, update, remove by entry | spec and status of the CR |
| Rendering and apply (330-428, `pkg/bindata_util`, `bindata/`) | user-data secret, MachineConfig, pool, MachineSet | render templates, create or merge | API server |
| Scripts ConfigMap (1137-1178), client information (1180-1200) | one ConfigMap | create or update by hash; read endpoints | the jobs' volumes |
| Hash (`pkg/util`), set up (`main.go`), API types | - | hash of a spec; watches and cache | - |

What is hard about it:

* **Interleaving.** A pass over the nodes makes up to a dozen calls per node;
  machines are deleted, nodes cordoned, instances scheduled, jobs finished and the
  CR edited between any two of them. The decisions rest on what was read earlier.
* **State spread over objects.** How far the drain of a host has come is not
  recorded: each pass works it out from jobs, taint and finalizer. A crash or a
  failed call leaves any prefix of the steps done.
* **Who edited last** is told from a hash and a comparison with a cached object.
* **Waiting without a timer.** On CR deletion a round that waits returns without
  requeue.
* **Names made of the role.** Finalizer, DaemonSets and rendered objects.
* **Shared names.** All CRs of a namespace have one scripts ConfigMap, owned by the
  CR that came first.
* **Scripts that start over.** A drain script ends at the first command that
  fails, and the container runs it again from the top, among instances that come,
  go and move.

What makes each part correct:

* drain: a host is tainted only when empty and closed, its service is deleted only
  then, it is released only after that, its jobs do not outlive it; a host that
  stays is left alone; a recorded host is guarded; a removal ends;
* CR deletion: the barriers between the rounds hold, no wake-up is lost, nothing
  is left, the CR goes;
* worker count: the last editor wins, what is recorded was applied, named machines
  are annotated before the scale down, all sides agree in the end;
* owned objects: nothing outlives the CR, the DaemonSets follow spec and originals;
* scripts: a host whose pre job is done is empty and stays so, Nova never moves an
  instance to a host that goes next, the host is forgotten in order, jobs end;
* apply: others' labels survive, what is recorded is in the cluster, machines are
  not made before their configuration, drift is repaired;
* shared ConfigMap: jobs run the scripts of their operator, and find them.

The hazards behind these are listed in `PROJECT.json`, each at its line, with the
properties that cover it or the reason why none does.

## 2. The modules

| Module | What it models |
|---|---|
| `ComputeCluster` | everything outside of the operator that the drain acts on: nodes, machines, blocker pods, jobs with their scripts, Nova; actions of the machine controller, administrator, Nova and job pods |
| `NodeDrain` (extends it) | `updateNodesStatus` with all it calls, and the CR's `Nodes`/`NodesToDelete` |
| `NodeRemoval` | the abstract promise: a host being removed is closed, emptied, forgotten by Nova, let go, in that order; others are left alone. `NodeDrain` implements it (`ImplementsNodeRemoval`) |
| `DrainScripts` | the two drain scripts command by command, their jobs, and instances one by one. Implements the scripts and Nova of `ComputeCluster` (`ImplementsCluster`) |
| `CRDeletion` (extends `NodeDrain`) | deletion of the CR at any point of a pass, work queue and job events included |
| `FleetRemoval` (extends `NodeRemoval`) | the abstract promise of a CR's deletion: the guarded hosts are closed, emptied and forgotten, and only when this is so of all of them is the first let go; the CR goes last. `CRDeletion` implements it (`ImplementsFleetRemoval`) |
| `MachineSetSync` | `Reconcile` as the arbiter between CR and MachineSet, machine selection, status update |
| `OwnedObjects` | finalizer, rendered objects, infra DaemonSets and their clean up |
| `ManifestApply` | render inputs, choice and order of the manifests, read, merge and conditional write of each |
| `SharedScripts` | the scripts ConfigMap and the client information, several CRs and operator upgrades |
| `MCNodeDrain`, `MCCRDeletion`, `MCDrainScripts` | symmetry, configurations, and initial states from which two hosts are within reach of TLC |
| `NodeDrainProofs`, `CRDeletionProofs`, `DrainScriptsProofs`, `MachineSetSyncProofs`, `OwnedObjectsProofs`, `ManifestApplyProofs`, `SharedScriptsProofs` | theorems about the module each is named after |

`NodeDrain` stands on `DrainScripts` below it and implements `NodeRemoval` above it:
the promise of the top rests on the commands at the bottom, with one refinement at
each border. `CRDeletion` and `FleetRemoval` are the same pair for all hosts of a CR:
before the deletion `FleetRemoval` is `NodeRemoval`, so one specification covers a
CR's whole life.

### Correspondence

*A step is a call.* The variable `pc` (in `CRDeletion` also `round` and `call`)
names the API call the pass makes next. Each action is one call of the code with
the decisions the code makes between it and the next one, so that every other
actor can come in wherever the code talks to the API server. What the code keeps
in local variables is a variable of the model (`draft`, `seenToDelete`, `todo`,
`mine`, ...), taken when the code reads it: a pass acts on stale values here as it
does there. `fresh` and `unmodified` stand for resource versions: an update of an
object that is no longer the one that was read fails.

*NodeDrain.* `ListNodes` takes the nodes of the role with the CR's spec and
status. `RecordNode`, `SkipUnlisted` and `ConsiderDrain` are the cases of the
switch at 544-582; nodes come in any order, as a map is iterated. `CreateBlockerPod`
follows for a node that was not known. The drain of a cordoned node is the chain
`IsMachineBeingDeleted`, `IsBlockerPodFinalizerDeleted`, `TriggerPreDrain`,
`IsNodePreDrained`, `AddToBeRemovedTaint`, `TriggerPostDrain`, `IsNodePostDrained`,
`DeletePostJob`, `DeletePreJob`, `DeleteBlockerPodFinalizer`, `RemoveNodeToDelete`
(582-676). `UpdateStatus` writes the collected states. `Abort` is a call that fails
or a crash at any point: nothing but the API objects survives a pass, so the two
are the same for the model. A job that is neither active nor succeeded is an error of
`IsNodeDrained` and ends the pass.

*ComputeCluster.* `ScaleDownPreDisables(n, m)` is one turn of the disable loop of
n's pre script, `ScaleDownPreExits` the end of its wait, `ScaleDownPostDeletes`/
`ScaleDownPostExits` the post script. `disables[n]` is the list of hosts baked into
the job when it was created (`getDeletedOspWorkerNodes`, 1202-1224). Instances
start on, and move to, hosts with an enabled service (`InstanceStarts`,
`InstanceMoves`), and leave one host at a time.

*DrainScripts.* Each action is one command of the script that runs for host `h`:
`DisableService` (a turn of the loop), `ListInstances` (what is ACTIVE), `LiveMigrate`
(a turn; the request names no source host, so Nova takes it for an ACTIVE instance
wherever that is by now), `ScaleDownPreExits` (the wait); `DeleteService`, `DeleteProvider`,
`ScaleDownPostExits`. A command that fails ends the script (`set -e`,
`ExitsWithError`), and the container starts at the top, up to `BackoffLimit` times;
then the job has failed. The list of hosts and the migration switch are fixed when the
job is created, from the machines marked and the drain settings at that time.
Instances boot, stop, start, are deleted and are moved by their owners. A migration is
first offered to the hosts enabled at that moment (`offered`) and arrives at one of
them later. In the refinement, `disables` becomes `toDisable[h] \ reached[h]`: the
abstract script ticks each host off once, the real one goes through the list again
after each restart.

*CRDeletion.* One node's calls in a round are `CheckFinalizer`, then per round
`TriggerJob`/`CheckJob`, `TaintNode` first in the post round, `DeleteJob` and
`UnblockNode` in the clean up. `WaitForJobs` is the `AlreadyExists` that Reconcile
drops (134-140): Reconcile returns and the CR is in the queue only if something
put it there, which is what `queued` and `JobEvent` follow.

*MachineSetSync.* `Reconcile` reads the CR and branches on `SpecMDS` (180-199):
either `EnsureMachineSetSync` (through the cache) and the node pass, of which only
the removal of drained names from the spec is kept (`NodeDrained`, `NodesUpdated`),
or `ListMachines`, `MarkMachine`..., `ApplyMachineSet`, `UpdateStatus`.

*ManifestApply.* The pass looks at the nodes if the spec is the one recorded, reads
user data and the image of the base MachineSet, and goes through `todo`, the manifests
that render to anything, in the order of the walk: `GetExisting`, then `ApplyObject`:
create, merge or replace with the resource version that was read. `cluster[f]` is what
the manifest says (`is`, a set of field and value pairs) and what others have put on
the object (`notes`). `merge.go` keeps the notes and overwrites the rest.

*SharedScripts.* One worker serves all CRs in turn. `GetScriptsConfigMap` and
`EnsureScriptsConfigMap` are the read and the create or update, `found` is what was
read. Scripts are versions, `image` is that of the running operator, and
`OperatorUpgraded` replaces it at any point. The pass over a deleted CR looks at the client
information only. A CR has one worker node here and its drain is one job
(`waiting` until it can mount scripts and client information): all the rest
is in `NodeDrain` and `CRDeletion`.

*OwnedObjects.* `ApplyObject` per kind in the order of `bindata/worker-osp`, the
two loops over infra DaemonSets, `UpdateStatus`; on deletion the DaemonSets of the
namespaces in spec and status, then MachineSets, secrets, pools and configs by
label. The contents of a copy are the version of its original. Lists come from
the cache: they can be outdated (`cache_lag`), and those of cluster-wide kinds can
hold each object twice (`many_namespaces`).

### Mishaps

What may go wrong around the operator is chosen by the configuration, so that each
claim names its conditions. `ComputeCluster`, `NodeDrain` and `CRDeletion` have the
constant `Mishaps`. `MachineSetSync`, `OwnedObjects`, `DrainScripts` and
`ManifestApply` have the constant `Scenarios`, a set of combinations, of which a behaviour
picks one at the start (the variable `mishaps`): one run covers them all, and
each property says from which mishaps it must be spared. The theorems hold for
every constant value.

| | |
|---|---|
| `foreign_cordon` | a node is cordoned while its machine stays, and uncordoned |
| `name_reuse` | a removed host joins again under its name |
| `forced_removal` | a machine disappears although its node's pods are still there |
| `job_failure` | a drain job uses up its back-off limit |
| `spec_edit`, `hasty_edit`, `machineset_edit`, `role_edit` | edits of the CR or the MachineSet, `hasty_edit`: before the last one was recorded |
| `early_name` | a node is named in the CR before its machine has joined |
| `overlapping_removal` | machines are scaled down while the CR is being deleted |
| `cache_lag` | the informer shows an older object |
| `foreign_removal`, `foreign_change`, `foreign_notes` | somebody else deletes, changes, labels an owned object |
| `originals_change` | an original DaemonSet is updated or removed |
| `inputs_change` | user data and image change, go away and come back |
| `many_namespaces` | `WATCH_NAMESPACE` is a list, as in the repository's README |
| `late_mark` | a machine is marked for deletion after drain jobs were created |
| `failed_move` | a migration or a build fails and may leave an allocation |
| `power_off` | an instance is stopped, and started again |
| `slow_arrival` | an instance arrives at a host after that host was disabled |

Failed calls and crashes need no mishap; `MaxFailures` bounds them. In
`SharedScripts` upgrades and the loss of the client information are bounded by
`MaxImage` and `MaxRemovals`.

## 3. What is checked

State counts are distinct states; all runs are exhaustive within their bounds.

| Run | Instance | What it shows |
|---|---|---|
| `drain_two_hosts` | 2 hosts, foreign cordons, no failures; 1.5 M | `TaintedNodeIsEmpty`, `DeletedServiceIsEmpty`: no instance is lost to a taint or a deleted service; `JobsOnlyForGuardedRemoval`: a cordon alone drains nothing, no job outlives its host; `KnownNodeIsGuarded`, `StayingHostKeepsService`; `ReleasedOnlyWhenDrained`; `ImplementsNodeRemoval`: every step is a step of `NodeRemoval` or none |
| `removal_completes` | 2 hosts (see below), fair, CR edits, failed jobs, 1 failure; 304 k | `DrainInv`, the inductive invariant of section 6; `RemovalCompletes`: a known, guarded host whose machine is being deleted is let go, or some host has a failed job |
| `forced_and_lagging` | 1 host, machines forced away, outdated cache, foreign cordons, CR edits, 1 failure; 67 k | `StayInv`, the inductive invariant about hosts that stay: whatever happens to others, they keep their service, and known ones their guard. The operator may crash on a missing machine and restarts |
| `deletion_mid_drain` | 1 host, CR deleted at any moment of joins, drains, failed jobs, forced removals and overlapping scale downs, 1 failure; or 2 hosts, CR just deleted, scaled down and forced away during the rounds; 2.0 M | `NothingLeftBehind`: no node waits for a finalizer and no job is left when the CR is gone; `WaitingHasACause`: a CR that is not queued waits for a running job; `ServicesGoTogether`: no round lets a host go before Nova has forgotten every guarded one, whatever becomes of the machines |
| `deletion_completes` | 2 guarded hosts, CR just deleted, fair, 2 failures; 15 k | `DeletionCompletes`, `NoReleaseBeforeAllDrained` (the barrier), `ImplementsFleetRemoval`, and `DeletionInv`, the inductive invariant |
| `workers_in_step` | 2 hosts, up to 2 workers, 3 edits, three scenarios, fair, 1 failure; 1.1 M | `TakenOverFromEdit`: Workers is taken from the MachineSet only if that was edited last; `RecordedIsApplied`; `SelectionFollowsSpec`, `SelectedBeforeScaleDown`: the named machines, and only they, are annotated before the scale down; `WorkersAgree` |
| `objects_in_step` | 2 roles, 2 infra DaemonSets, 2 edits, four scenarios, fair, 1 failure; 459 k | `NothingOwnedLeft`: no CR goes before its labelled objects; `DaemonSetsFollowSpec`; `CRGoes`; `AppliedInTheEnd`: the spec is recorded and the copies are those of the originals, however often these change |
| `scripts_in_step` | 3 hosts (one stays), 1 instance, 1 restart, three scenarios, fair; 250 k | `PreDrained`, `ForgottenInOrder`, `NextToGoIsNotPicked`; `JobsEnd`; `ImplementsCluster` |
| `shared_scripts` | 2 CRs, 1 upgrade, 1 loss of the client information, fair; 146 k | `CurrentScripts`: no job of a live CR runs older scripts than its operator; `ScriptsKept`: with a live CR the scripts are there in the end; `DeletionEnds`; type |
| `manifests_in_step` | 6 manifests, 1 foreign note, 3 moves of others, three scenarios, fair, 1 failure; 550 k | `NotesKept`; `RecordedIsRendered`; `ConfiguredBeforeMachines`; `RenderedInTheEnd`: drift is repaired; `NodesLookedAt`: nodes are looked at for ever, if the inputs are there or the spec was recorded before they went |
| `skipped_with_blocker` | 1 host, 1 failure | violated, see below |
| `listed_twice` | 1 role, duplicate lists | violated, see below |

*Why these bounds.* The drain of a host depends on another host in three ways
only: the list of services a pre job disables, the hosts instances can move to,
and an error that ends the pass. Two hosts give every one of them; the scripts need a
third as somewhere to move to while two go. One instance is enough there because
scripts treat each on its own. Failures: the second one can hit the recovery of the
first. Three edits are the least that make a value, its change and its return.
Few failures with two hosts, and scenarios that combine the mishaps
that act on the same state, keep each run to a minute or two.
Two runs start in two ways, each within reach of TLC: with one host from its joining on,
and with two hosts half way. In `removal_completes` (`RemovalSpec`) the half way is the
moment when the machine controller has cordoned one or both of two recorded hosts;
a host that stays at first is scaled down once the other has left. What the two
can do to each other's drain is all ahead at that point: the list of services, the
instances that move, the error that ends the pass. In `deletion_mid_drain`
(`MidDrainSpec`) it is the deletion of the CR, with nothing but removals from then on.
The theorems of section 6 have none of these bounds.

What a run leaves out of its invariants was checked apart before it was proved:
`LagInv` with an outdated cache among foreign cordons, CR edits and failed jobs (one
host, 44 k states), and with two hosts (13 M), `RoundInv` with two hosts, overlapping and
forced removals (8 M), `DeletionInv` and `ImplementsFleetRemoval` with two hosts
whose CR is deleted at any moment (724 k).

*Types.* The type invariants of all modules are theorems, and only
`SharedTypeOK` is listed in a run. `DrainInv` and `DeletionInv` contain theirs.

*Limits.* Properties with a condition on `mishaps` claim nothing in the scenarios
they exclude; section 4 shows for nearly each condition that it is needed. With
`role_edit` a deleted CR whose role was edited never goes, so `NothingOwnedLeft`
then speaks of the CRs that go. No host is provisioned twice in `MachineSetSync`.
`WorkersAgree` needs a cache that keeps up: with an outdated MachineSet the
operator can take over its own old write again and again. With hasty edits it
holds, because an edit is always followed by a pass. `JobsEnd` is about hosts with live
migration; without it the pre script waits for the owners of the instances.

Two runs are expected to fail, each against a comment in the code:

* `skipped_with_blocker`. "If previous status is None, blocker pod was not
  created, nothing to do" (573). In the trace a node joins, the pass creates its blocker
  pod and fails before it writes the status (681), and then the machine is marked deleted.
  The previous status is `None`, so every later pass skips the node; as
  `getNodeStatus` answers `SchedulingDisabled` for a machine with a deletion timestamp
  (706-711), uncordoning it changes nothing. The host is not drained and the finalizer
  holds the machine back for as long as the CR lives. A cordoned node whose machine
  stays is dropped from the status (587) and ends the same way, if its machine is
  deleted before it is uncordoned.
* `listed_twice`. With a list of namespaces to watch, each MachineConfigPool is
  listed once per namespace; the second delete is NotFound, which ends
  `deleteOwnerRefLabeledObjects`, is ignored (151), and the MachineConfigs stay.

## 4. Other disagreements between the code and its comments

Each of these is reproduced by TLC in under a minute with the named `.cfg`, which
checks the one property named here; they are not part of the list of runs. They
bound what the passing runs may claim.

| cfg | module, property | what happens |
|---|---|---|
| `machine_not_found` | `MCNodeDrain`, `MissingMachineIsDeleted` | `machine.go:28` treats a missing machine as deleted, line 35 dereferences it |
| `entry_left_behind` | `MCNodeDrain`, `NothingExtraToDo` | finalizer removed (655), then the update of `Spec.NodesToDelete` (668) conflicts: later passes find "nothing extra to do" (590) and the entry stays |
| `stale_pre_job` | `MCNodeDrain`, `PreDrainedMeansNoInstances` | the succeeded pre job of a host that was forced away answers for the next host of that name, which is then tainted with instances on it |
| `forced_to_others` | `MCNodeDrain`, `TaintedNodeIsEmpty` | a machine is forced away between the check of its deletion and the creation of its pre job, while another one is on its way out: the list of services (1202-1224) then holds the other host only, and the node of the job is tainted with its service enabled |
| `stale_cache_forgets` | `MCNodeDrain`, `RemovalCompletes` | a cordoned node whose pod the cache does not show yet is taken for released (776) and drops out of the status; no later pass drains it |
| `deletion_overlap` | `MCCRDeletion`, `PreDrainedForDeletion` | with another machine being scaled down, the pre job of a CR deletion disables that host only and not its own |
| `overlap_moves_on` | `MCCRDeletion`, `DeletedServiceIsEmpty` | the same with two hosts: the host left open takes an instance between its pre and its post job, and Nova forgets it with that |
| `deletion_stale_pod` | `MCCRDeletion`, `PreDrainedForDeletion` | a pod the cache does not show in the pre round and shows in the post round: the node is tainted without pre drain |
| `deletion_disables_one` | `MCCRDeletion`, `AllGoingHostsDisabled` | each pre job of a CR deletion disables its own host; `scaledownpre.sh:32` wants all of them closed first |
| `deletion_forgets_host` | `MCCRDeletion`, `NothingLeftBehind` | a pod created by the last pass before the deletion that the cache does not show yet: all rounds take its node for released, the CR goes, and the finalizer holds the machine for ever |
| `annotation_left` | `MachineSetSync`, `AlwaysSelectionFollowsSpec` | an edit between annotation and status update leaves a machine annotated that nobody names |
| `named_too_early` | `MachineSetSync`, `AlwaysSelectionFollowsSpec` | a name given before its node is there is recorded, and its machine is not annotated when it comes |
| `named_machine_missed` | `MachineSetSync`, `AlwaysSelectedBeforeScaleDown` | a name withdrawn and added again counts as annotated |
| `recorded_not_applied` | `MachineSetSync`, `AlwaysRecordedIsApplied` | an edit applied but taken back before it is recorded: `SpecMDS` matches, the MachineSet does not |
| `stale_machineset` | `MachineSetSync`, `AlwaysTakenOverFromEdit` | the operator reads its own write late and reverts the administrator's Workers |
| `infra_left_behind` | `OwnedObjects`, `AlwaysNothingOwnedLeft` | a DaemonSet created but never recorded survives the CR |
| `not_found_skips` | `OwnedObjects`, `AlwaysNothingOwnedLeft` | one object already deleted by hand ends the clean up, and the CR goes |
| `stale_list` | `OwnedObjects`, `AlwaysNothingOwnedLeft` | the cache does not show an object yet that the last pass before the deletion created: it is not listed, and stays |
| `old_role_left` | `OwnedObjects`, `AlwaysDaemonSetsFollowSpec` | after a role edit the DaemonSets of the old role stay |
| `role_edit_sticks` | `OwnedObjects`, `LastStepFinishes` | after a role edit the finalizer of the old role keeps the deleted CR |
| `late_arrival` | `MCDrainScripts`, `AlwaysPreDrained` | an instance scheduled to the host before it was disabled arrives when the script has stopped waiting |
| `node_setting_ignored` | `MCDrainScripts`, `NodeSettingCounts` | `drain: false` for a node does not override the global setting (872) |
| `last_one_waits` | `SharedScripts`, `AlwaysDeletionEnds` | the ConfigMap went with the CR that owned it: the drain jobs of the last CR, itself being deleted, can never start |
| `old_scripts` | `SharedScripts`, `AlwaysCurrentScripts` | the pass over a deleted CR does not update the ConfigMap: after an upgrade its jobs run the old scripts |
| `config_left` | `ManifestApply`, `NothingElseLeft` | a MachineConfig that the edited spec no longer renders stays |
| `nodes_forgotten` | `ManifestApply`, `AlwaysNodesLookedAt` | an edit while an input is missing: no node is drained for as long as it is |

Further limits of the liveness claims: `RemovalCompletes` needs that nobody else
cordons (a node that dropped from the status and whose machine is then deleted is never
drained). A job that fails for good is an error of every pass (1005-1014, 607 and 632) and
is never replaced: no pass comes to the nodes listed after its host, and none writes
the status. So the failed job of one host excuses the other as well; with the host's own
job as the only excuse TLC finds the property violated in the instance of `removal_completes`.
With two hosts and a reused name, a node whose pass keeps failing can keep another
one from being recorded.

## 5. Fairness

* *The pass* (`WF(PassStep ...)`). A failed pass is requeued with back-off, a
  finished one comes back after the resync period at the latest (284, manager
  defaults), and the elected leader is restarted when it crashes. Failures are
  bounded by `MaxFailures`; without a bound nothing would ever complete.
* *CR deletion*. The worker takes what is queued; what is queued comes from
  errors and job events only. The resync period is left out on purpose: a
  round that returns `AlreadyExists` gives no `RequeueAfter`, and a lost wake-up would
  be found by nobody.
* *Jobs* start, and each loop of the scripts goes on (Kubernetes restarts pods up
  to the back-off limit). *Instances* of a disabled host leave: the pre script
  migrates them, or waits for their owners.
* *Scripts*. In `DrainScripts` each script step of a host is weakly fair, and an
  instance that Nova moves arrives in the end. That users boot, delete or move
  instances, or that a move fails, is never assumed.
* *Several CRs* (`SharedScripts`). Strong fairness for the turn of each CR, as the one
  worker serves the others in between, and for the start of a waiting pod, as
  scripts and client information can come and go. Upgrades are bounded by `MaxImage`.
* *The informer* delivers in the end. In `MachineSetSync` that is strong fairness,
  as the operator's own writes can make the cache current and outdated in turn. In
  `OwnedObjects` nothing is assumed of it.
* Nothing is assumed of machine controllers, administrator, cordons or edits.

## 6. What is proved

All theorems hold for every value of the constants: any number of hosts, instances,
CRs, roles, edits and failures, and every combination of mishaps. The only other
assumptions are those in the third column (and the `ASSUME`s of the modules, which
say no more than that bounds are naturals and the model values differ). A property
that names its mishaps itself needs no assumption.

| Module | Theorem | Assumes | Establishes |
|---|---|---|---|
| `NodeDrainProofs` | `TypeCorrect` | - | `TypeOK` |
| | `DrainInvariant`, `JobsEndWithRemoval` | `OrderlyCluster` | `DrainInv`, `JobsOnlyForGuardedRemoval` |
| | `StayInvariant`, `StayingHostServes`, `KnownIsGuarded` | `FreshNames` | what the operator leaves alone, and the guard of recorded nodes |
| | `LagInvariant` | `SettledCluster` | `LagInv` |
| | `TaintedIsEmpty`, `DeletedIsEmpty`, `ReleaseIsSafe` | `WaitingCluster` | no instance is lost to a taint, a deleted service, an early release |
| | `DrainImplementsRemoval` | `SettledCluster` | `ImplementsNodeRemoval` |
| `CRDeletionProofs` | `DeletionTypeCorrect`, `WakeUpsAreKept` | - | types; `WaitingHasACause` |
| | `RoundInvariant`, `NothingIsLeft`, `ForgottenTogether` | `FreshView` | `RoundInv`, `NothingLeftBehind`, and the barrier on services: no round lets a host go before Nova has forgotten all that are guarded |
| | `DeletionInvariant`, `DeletionIsSafe`, `BarrierHolds` | `OrderlyDeletion` | `DeletionInv`, the two emptiness invariants, `NoReleaseBeforeAllDrained` |
| | `DeletionImplementsFleet` | `OrderlyDeletion` | `ImplementsFleetRemoval` |
| `DrainScriptsProofs` | `ScriptsTypeCorrect`, `HostsAreDrained`, `HostsAreForgotten`, `NextToGoIsSpared` | - | types, `PreDrained`, `ForgottenInOrder`, `NextToGoIsNotPicked` |
| | `ScriptsImplementCluster` | - | `ImplementsCluster` |
| `MachineSetSyncProofs` | `SyncTypeCorrect`, `RecordedWasApplied`, `SelectionIsFollowed`, `TakenOverRightly`, `SelectedFirst` | - | types and the four safety properties |
| `OwnedObjectsProofs` | `OwnedTypeCorrect`, `NothingOwnedStays`, `CopiesFollowSpec` | - | types, `NothingOwnedLeft`, `DaemonSetsFollowSpec` |
| `ManifestApplyProofs` | `ManifestTypeCorrect`, `NotesSurvive`, `RecordedStays`, `MachinesComeLast` | - | types, `NotesKept`, `RecordedIsRendered`, `ConfiguredBeforeMachines` |
| `SharedScriptsProofs` | `SharedTypeCorrect`, `ScriptsAreCurrent` | - | types, `CurrentScripts` |

What the assumptions leave out:

| | forced removal | outdated cache | name reuse | overlapping scale down |
|---|---|---|---|---|
| `OrderlyCluster` | out | out | | |
| `FreshNames` | | | out | |
| `SettledCluster` | out | | out | |
| `WaitingCluster` | `OrderlyCluster` or `SettledCluster` | | | |
| `FreshView` | | out | out | |
| `OrderlyDeletion` | out | out | out | out |

Foreign cordons, failed jobs, CR edits, failures and crashes are always admitted.
The assumptions are needed where section 4 has a counterexample:
`forced_to_others` for the forced removals of `WaitingCluster`, `stale_pre_job` for the
combination of forced removals and reused names, `deletion_forgets_host` for the cache
in `FreshView`, `deletion_overlap` and `overlap_moves_on` for the last column.
`FreshNames` is needed because a late blocker pod of a host that left is in the way of
one that comes back under its name.

### The arguments

*The drain.* The safety properties are not inductive: nothing in "tainted hosts are
empty" says why the pass is entitled to taint. `DrainInv` adds the reasons.
`DrainOrder`: the jobs of a host record how far its drain has come. A pre job that runs
has its own host still to disable, or has done so; a succeeded one means that the
service is not enabled and there is no instance; a post job exists only after that, and
a succeeded one means that the service is deleted. `PassRecord`: the pass never runs
ahead of that record. `PassGuarded`: at each call the machine is still being
deleted and its pod still held, because only the pass removes that finalizer.
`NodeHasMachine` ties nodes to machines. The proof goes action by action:
`DrainInvCluster` for the environment, `DrainInvDrain` for the calls of the drain,
`DrainInvStep` for the rest.

*Hosts that stay.* `StayInv` stands on its own: scripts disable hosts that are going
only, a node is recorded only with its pod or the pod is the next call, and who has not
joined is known to nobody. It needs neither `DrainInv` nor its assumptions.

*A cache that lags.* With an outdated pod `PassGuarded` is false: the pass may drain a
host a second time that was released and has left. `LagInv` puts `GuardedOrForgotten`
in its place: a host the pass works on, or that has a job, is still guarded or Nova has
forgotten it. As a forgotten host takes no instances, and `StayInv` says that no new
host stands under its name, doing the drain again does no harm. Two inductive invariants
thus give the same safety properties under different assumptions (`WaitingCluster`).

*The refinement of `NodeRemoval`* maps each action to one of its steps or a stutter,
from `LagInv` and `StayInv`: `Close` needs that scripts disable doomed hosts only,
`Retire` that the post job follows the pre job, `Release` that the service is gone.

*CR deletion.* When the CR is deleted the reasons of the drain change: machines are
not marked any more. The invariant is in two layers. `RoundInv` holds whatever becomes of the
machines: `JobOrder` is what jobs say of services, `CallOrder` is `PassRecord` for the
calls of the rounds, and `RoundOrder` is the barrier: in the post round every listed
node that is still guarded has a succeeded pre job, in the clean up its service is
deleted and no job of it is running. `NothingIsLeft` and `ForgottenTogether` need no
more. `DeletionInv` adds what instances depend on: each pre job disables its own
host, nobody leaves during the rounds, and `JobsByState` says which jobs can exist when,
those of hosts on their way out as long as the CR lives, those of guarded hosts after
that, none when it is gone. `WaitingHasACause` is a proof of its own: only
`WaitForJobs` leaves the queue empty, and the job it waits for puts the CR back.

*The refinement of `FleetRemoval`.* As long as the CR lives every step is one of
`NodeRemoval` by the refinement above (`FleetLive`, with `AliveLag` carrying `LagInv`
up to the deletion). After that a pass under way can only guard hosts (`FleetPass`), the
scripts close and retire guarded ones (`FleetScripts`), and a finalizer goes only in the
clean up, when `RoundOrder` says that all are retired and `DeletionInv` that they are
empty (`FleetRounds`): `ReleaseTogether`.

*Scripts.* `RunsOf` ties the script's place to its job. `Disabling` is what makes restarts
harmless: all runs together have come to all services of the list before any of
them asks for a migration, and no service is enabled again. `Forgetting` keeps
the order of the post script. The refinement has one lemma for each group of steps
(`ExitIsCluster`, `ScriptIsCluster`, `NovaIsCluster`, `MarkIsCluster`).

*Who edited last.* `PassFollowsCR` says what the pass holds of the CR at each of its
calls if edits wait for the last one to be recorded, `MarksFollowCR` which
machines are annotated at which point of the selection; `SyncInv` joins them.

*Owned objects.* `PassOrder` and `KindsDeleted` say what the clean up has behind it at
each call; `RolesGuarded` that an object exists only under a role whose finalizer is
on the CR; `CopiesKnown` that every copy is named by the spec, the status or the pass
under way, so that the clean up looks where it is; `CopiesFollow` gives the copies
after an apply.

*Manifests.* `RecordedInv` follows a pass through the manifests: those already applied
are as `mine` wants them, those to come as the recorded spec had them. `ConfigInv` is
the same about what is there, and in which order it came. `NotesSurvive` needs
neither: the write is conditional on what was read, and the merge keeps what was read.

*Shared scripts.* What a deleted CR leaves to chance a live one does not: its pass has
brought the ConfigMap up to `image` before it creates a job, and the version never
goes down.

### What stays with TLC

All liveness properties (`RemovalCompletes`, `DeletionCompletes`, `WorkersAgree`,
`CRGoes`, `AppliedInTheEnd`, `JobsEnd`, `ScriptsKept`, `DeletionEnds`,
`RenderedInTheEnd`, `NodesLookedAt`), as liveness under fairness and `ENABLED` are beyond
this prover. No operator here is recursive, so no fact about data needs induction
over it.

## 7. What is not modelled

* the text of templates and rendered manifests: a manifest is the set of inputs it
  refers to; which fields of an object an update drops that somebody else set;
* `ReadyWorkers`, which only counts; log and events;
* `updateMachineDeletionSelection` replacing all annotations of a machine (1059),
  which matters to other controllers only;
* nodes of the role without the machine annotation (702), an index out of range that
  brings the operator down;
* owner references and finalizers that others put on the objects;
* an outdated cached read of the scripts ConfigMap: the update conflicts and is
  tried again, which `EnsureScriptsConfigMap` has;
* collisions of the hash of a spec: the hash is taken to be the spec;
* live migration itself, and the allocations of the placement provider beyond
  whether one is left;
* the CSV generator, deployment manifests, generated deep copies, flags and logging of
  `main.go`: build time or static.

## 8. What could follow

1. An abstract specification of `MachineSetSync` (the last editor decides), with a
   refinement, and hosts provisioned again under a listed name.
2. An abstract specification of `OwnedObjects` (everything that carries the CR's name
   is created after its finalizer and removed before it), with a refinement.
3. The deletion of a CR with an outdated cache: which hosts a round may miss, and what
   holds of the others.
