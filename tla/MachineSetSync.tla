--------------------------- MODULE MachineSetSync ---------------------------
(***************************************************************************)
(* How many workers there are, and which of them go first: Reconcile keeps *)
(* the CR, the MachineSet and the delete annotation of the machines in     *)
(* step.  Who edited last decides: a pass that finds the CR as it recorded *)
(* it (Status.SpecMDS) takes Workers over from the MachineSet and looks at *)
(* the nodes; any other pass selects the machines to delete and writes     *)
(* Workers to the MachineSet.                                              *)
(*                                                                         *)
(* One pass runs at a time, on a copy of the CR read at its start; a write *)
(* of a copy that is no longer current is a conflict and ends the pass.    *)
(* NodeDrain details the node pass, of which this module keeps only the    *)
(* removal of drained nodes from Spec.NodesToDelete.                       *)
(***************************************************************************)
EXTENDS Naturals, FiniteSets

CONSTANTS
    Hosts,          \* hosts that can become worker nodes
    MaxWorkers,     \* bound on Workers and on the replicas
    MaxEdits,       \* bound on the edits of the CR and of the MachineSet
    MaxFailures,    \* bound on failed calls and operator crashes
    Missing,        \* stands for a MachineSet, or a hash, that does not exist
    Scenarios       \* which of MishapKinds may happen together

(***************************************************************************)
(* "hasty_edit": the CR is edited before the last edit has been recorded.  *)
(* "machineset_edit": the MachineSet is scaled or deleted by hand.         *)
(* "cache_lag": ensureMachineSetSync reads an outdated MachineSet.         *)
(* "early_name": a node is named in the CR before its machine has joined.  *)
(***************************************************************************)
MishapKinds == {"hasty_edit", "machineset_edit", "cache_lag", "early_name"}

ASSUME SyncAssumption ==
    /\ MaxWorkers \in Nat /\ MaxEdits \in Nat /\ MaxFailures \in Nat
    /\ Missing \notin Nat
    /\ Scenarios \subseteq SUBSET MishapKinds

VARIABLES
    mishaps,        \* the mishaps this CR lives with
    spec,           \* the CR's spec: [workers, nodesToDelete]
    status,         \* the CR's status: [workers, nodesToDelete, specMDS]
    machineSet,     \* replicas of the MachineSet, or Missing
    cachedSet,      \* the replicas as the informer cache shows them
    state,          \* state[h]: the machine on host h
    marked,         \* hosts whose machine has the delete annotation set to "1"
    drained,        \* hosts whose blocker pod has lost its finalizer
    pc,             \* where the pass is
    mine,           \* the spec as the pass holds it
    specMDS,        \* the hash of the spec as read
    toMark,         \* listed machines still to be annotated
    fresh,          \* nobody else has written the CR since it was read
    edits,          \* edits so far
    lastEdit,       \* what was edited last, "cr" or "machineset"
    failures        \* failed calls and crashes so far

passVars == <<pc, mine, specMDS, toMark, fresh>>
setVars  == <<machineSet, cachedSet>>
nodeVars == <<state, marked, drained>>
editVars == <<edits, lastEdit>>
vars     == <<mishaps, spec, status, setVars, nodeVars, passVars, editVars, failures>>

Counts == 0..MaxWorkers
Specs  == [workers : Counts, nodesToDelete : SUBSET Hosts]

\* "No hash yet" is the hash of no spec.
ASSUME HashAssumption == Missing \notin Specs

TypeOK ==
    /\ mishaps \in Scenarios
    /\ spec \in Specs /\ mine \in Specs
    /\ status \in [workers : Counts, nodesToDelete : SUBSET Hosts, specMDS : Specs \cup {Missing}]
    /\ machineSet \in Counts \cup {Missing} /\ cachedSet \in Counts \cup {Missing}
    /\ state \in [Hosts -> {"none", "new", "running", "deleting", "gone"}]
    /\ marked \subseteq Hosts /\ drained \subseteq Hosts /\ toMark \subseteq Hosts
    /\ pc \in {"idle", "sync", "nodes", "select", "mark", "apply", "status"}
    /\ specMDS \in Specs \cup {Missing}
    /\ fresh \in BOOLEAN
    /\ edits \in 0..MaxEdits /\ lastEdit \in {"cr", "machineset"}
    /\ failures \in 0..MaxFailures

Blank == [workers |-> 0, nodesToDelete |-> {}]

PassInit == pc = "idle" /\ mine = Blank /\ specMDS = Missing /\ toMark = {} /\ fresh = TRUE

\* A new CR, as in the sample: no workers, nothing recorded.
Init ==
    /\ mishaps \in Scenarios
    /\ spec = Blank
    /\ status = [workers |-> 0, nodesToDelete |-> {}, specMDS |-> Missing]
    /\ machineSet = Missing /\ cachedSet = Missing
    /\ state = [h \in Hosts |-> "none"] /\ marked = {} /\ drained = {}
    /\ PassInit
    /\ edits = 0 /\ lastEdit = "cr" /\ failures = 0

SeenSet == IF "cache_lag" \in mishaps THEN cachedSet ELSE machineSet

-----------------------------------------------------------------------------
(* The pass: Reconcile of a CR that is not being deleted.                  *)

Proceed(next) == pc' = next /\ UNCHANGED <<mine, specMDS, toMark, fresh>>

PassEnds == pc' = "idle" /\ mine' = Blank /\ specMDS' = Missing /\ toMark' = {} /\ fresh' = TRUE

\* Which branch is taken: the hash is of the spec as read.
Reconcile ==
    /\ pc = "idle"
    /\ pc' = CASE spec = status.specMDS -> "sync"
               [] spec # status.specMDS /\ (spec.nodesToDelete # status.nodesToDelete
                                            \/ spec.workers < status.workers) -> "select"
               [] OTHER -> "apply"
    /\ mine' = spec /\ specMDS' = spec /\ toMark' = {} /\ fresh' = TRUE
    /\ UNCHANGED <<spec, status, setVars, nodeVars, editVars, failures>>

\* The CR is written, and so checked for a conflict, when the MachineSet does
\* not exist or has another number of replicas.
EnsureMachineSetSync ==
    /\ pc = "sync"
    /\ \/ SeenSet = mine.workers /\ Proceed("nodes") /\ UNCHANGED spec
       \/ SeenSet = Missing /\ fresh /\ Proceed("nodes") /\ UNCHANGED spec
       \/ /\ SeenSet \notin {mine.workers, Missing} /\ fresh
          /\ spec' = [spec EXCEPT !.workers = SeenSet]
          /\ mine' = [mine EXCEPT !.workers = SeenSet]
          /\ pc' = "nodes" /\ UNCHANGED <<specMDS, toMark, fresh>>
       \/ SeenSet # mine.workers /\ ~fresh /\ PassEnds /\ UNCHANGED spec
    /\ UNCHANGED <<status, setVars, nodeVars, editVars, failures>>

\* updateNodesStatus: the drain of a node is finished, its entry goes.
NodeDrained(h) ==
    /\ pc = "nodes" /\ state[h] = "deleting" /\ h \notin drained
    /\ drained' = drained \cup {h}
    /\ \/ h \notin mine.nodesToDelete /\ UNCHANGED <<spec, passVars>>
       \/ /\ h \in mine.nodesToDelete /\ fresh
          /\ spec' = [spec EXCEPT !.nodesToDelete = @ \ {h}]
          /\ mine' = [mine EXCEPT !.nodesToDelete = @ \ {h}]
          /\ UNCHANGED <<pc, specMDS, toMark, fresh>>
       \/ h \in mine.nodesToDelete /\ ~fresh /\ PassEnds /\ UNCHANGED spec
    /\ UNCHANGED <<status, setVars, state, marked, editVars, failures>>

\* The node statuses are written if they changed: a conflict again.
NodesUpdated ==
    /\ pc = "nodes"
    /\ \/ Proceed("apply")
       \/ ~fresh /\ PassEnds
    /\ UNCHANGED <<spec, status, setVars, nodeVars, editVars, failures>>

\* "Add" for the names that are new in the spec, "Remove" for those that were
\* in the status only; what is in both is left as it is.
Selected   == mine.nodesToDelete \ status.nodesToDelete
Deselected == status.nodesToDelete \ mine.nodesToDelete

\* updateMachineDeletionSelection: machines that have a node by now.
ListMachines ==
    /\ pc = "select"
    /\ toMark' = {h \in Selected \cup Deselected : state[h] \in {"running", "deleting"}}
    /\ pc' = "mark"
    /\ UNCHANGED <<spec, status, setVars, nodeVars, mine, specMDS, fresh, editVars, failures>>

\* Faulty: the annotation of a machine that is no longer named stays.
MarkMachine_NeverRemoved(h) ==
    /\ pc = "mark" /\ h \in toMark
    /\ \/ /\ state[h] \in {"running", "deleting"}
          /\ marked' = IF h \in Selected THEN marked \cup {h} ELSE marked
          /\ toMark' = toMark \ {h}
          /\ UNCHANGED <<pc, mine, specMDS, fresh>>
       \/ state[h] \notin {"running", "deleting"} /\ PassEnds /\ UNCHANGED marked
    /\ UNCHANGED <<spec, status, setVars, state, drained, editVars, failures>>

\* The update of a machine that is gone fails.
MarkMachine(h) ==
    /\ pc = "mark" /\ h \in toMark
    /\ \/ /\ state[h] \in {"running", "deleting"}
          /\ marked' = IF h \in Selected THEN marked \cup {h} ELSE marked \ {h}
          /\ toMark' = toMark \ {h}
          /\ UNCHANGED <<pc, mine, specMDS, fresh>>
       \/ state[h] \notin {"running", "deleting"} /\ PassEnds /\ UNCHANGED marked
    /\ UNCHANGED <<spec, status, setVars, state, drained, editVars, failures>>

\* Faulty: the MachineSet is scaled before the machines are annotated.
SelectionUpdated_TooEarly ==
    /\ pc = "mark"
    /\ Proceed("apply")
    /\ UNCHANGED <<spec, status, setVars, nodeVars, editVars, failures>>

SelectionUpdated ==
    /\ pc = "mark" /\ toMark = {}
    /\ Proceed("apply")
    /\ UNCHANGED <<spec, status, setVars, nodeVars, editVars, failures>>

\* Faulty: an existing MachineSet is left alone.
ApplyMachineSet_CreateOnly ==
    /\ pc = "apply"
    /\ machineSet' = IF machineSet = Missing THEN mine.workers ELSE machineSet
    /\ Proceed("status")
    /\ UNCHANGED <<spec, status, cachedSet, nodeVars, editVars, failures>>

\* The rendered MachineSet is created or overwrites the one there is.
ApplyMachineSet ==
    /\ pc = "apply"
    /\ machineSet' = mine.workers
    /\ Proceed("status")
    /\ UNCHANGED <<spec, status, cachedSet, nodeVars, editVars, failures>>

\* Faulty: the hash is recorded for a new CR only.
UpdateStatus_HashOutdated ==
    /\ pc = "status"
    /\ status' = IF fresh
                 THEN [workers |-> mine.workers, nodesToDelete |-> mine.nodesToDelete,
                       specMDS |-> IF status.specMDS = Missing THEN specMDS ELSE status.specMDS]
                 ELSE status
    /\ PassEnds
    /\ UNCHANGED <<spec, setVars, nodeVars, editVars, failures>>

\* SpecMDS is the hash of the spec as read, not of the spec as applied.
UpdateStatus ==
    /\ pc = "status"
    /\ status' = IF fresh
                 THEN [workers |-> mine.workers, nodesToDelete |-> mine.nodesToDelete,
                       specMDS |-> specMDS]
                 ELSE status
    /\ PassEnds
    /\ UNCHANGED <<spec, setVars, nodeVars, editVars, failures>>

PassStep ==
    \/ Reconcile
    \/ EnsureMachineSetSync \/ (\E h \in Hosts : NodeDrained(h)) \/ NodesUpdated
    \/ ListMachines \/ (\E h \in Hosts : MarkMachine(h)) \/ SelectionUpdated
    \/ ApplyMachineSet \/ UpdateStatus

\* A call fails, or the operator crashes.
Abort ==
    /\ pc # "idle" /\ failures < MaxFailures
    /\ failures' = failures + 1
    /\ PassEnds
    /\ UNCHANGED <<spec, status, setVars, nodeVars, editVars>>

-----------------------------------------------------------------------------
(* The administrator.                                                      *)

Recorded == spec = status.specMDS
Nameable == {h \in Hosts : state[h] = "running" \/ (state[h] = "new" /\ "early_name" \in mishaps)}

EditCR ==
    /\ edits < MaxEdits
    /\ "hasty_edit" \in mishaps \/ (pc = "idle" /\ Recorded)
    /\ \E w \in Counts, d \in SUBSET Nameable :
        /\ spec' = [workers |-> w, nodesToDelete |-> d]
        /\ spec' # spec
    /\ fresh' = (pc = "idle")
    /\ edits' = edits + 1 /\ lastEdit' = "cr"
    /\ UNCHANGED <<status, setVars, nodeVars, pc, mine, specMDS, toMark, failures>>

\* `oc scale machineset`.
ScaleMachineSet ==
    /\ "machineset_edit" \in mishaps /\ edits < MaxEdits /\ machineSet # Missing
    /\ machineSet' \in Counts \ {machineSet}
    /\ edits' = edits + 1 /\ lastEdit' = "machineset"
    /\ UNCHANGED <<spec, status, cachedSet, nodeVars, passVars, failures>>

\* `oc delete machineset`: its machines go with it.
DeleteMachineSet ==
    /\ "machineset_edit" \in mishaps /\ edits < MaxEdits /\ machineSet # Missing
    /\ machineSet' = Missing
    /\ state' = [h \in Hosts |-> CASE state[h] = "running" -> "deleting"
                                   [] state[h] = "new" -> "gone"
                                   [] OTHER -> state[h]]
    /\ edits' = edits + 1 /\ lastEdit' = "machineset"
    /\ UNCHANGED <<spec, status, cachedSet, marked, drained, passVars, failures>>

-----------------------------------------------------------------------------
(* The machine controllers.                                                *)

Active == {h \in Hosts : state[h] \in {"new", "running"}}

MachineCreated(h) ==
    /\ machineSet # Missing /\ Cardinality(Active) < machineSet
    /\ state[h] = "none"
    /\ state' = [state EXCEPT ![h] = "new"]
    /\ UNCHANGED <<spec, status, setVars, marked, drained, passVars, editVars, failures>>

MachineJoins(h) ==
    /\ state[h] = "new"
    /\ state' = [state EXCEPT ![h] = "running"]
    /\ UNCHANGED <<spec, status, setVars, marked, drained, passVars, editVars, failures>>

\* Annotated machines go first.
MachineScaledDown(h) ==
    /\ machineSet # Missing /\ Cardinality(Active) > machineSet
    /\ h \in Active /\ (marked \cap Active # {} => h \in marked)
    /\ state' = [state EXCEPT ![h] = IF @ = "new" THEN "gone" ELSE "deleting"]
    /\ UNCHANGED <<spec, status, setVars, marked, drained, passVars, editVars, failures>>

MachineLeaves(h) ==
    /\ state[h] = "deleting" /\ h \in drained
    /\ state' = [state EXCEPT ![h] = "gone"]
    /\ marked' = marked \ {h}
    /\ UNCHANGED <<spec, status, setVars, drained, passVars, editVars, failures>>

CacheCatchesUp ==
    /\ "cache_lag" \in mishaps /\ cachedSet # machineSet
    /\ cachedSet' = machineSet
    /\ UNCHANGED <<spec, status, machineSet, nodeVars, passVars, editVars, failures>>

-----------------------------------------------------------------------------

Next ==
    /\ UNCHANGED mishaps
    /\ \/ PassStep \/ Abort
       \/ EditCR \/ ScaleMachineSet \/ DeleteMachineSet
       \/ \E h \in Hosts : MachineCreated(h) \/ MachineJoins(h) \/ MachineScaledDown(h) \/ MachineLeaves(h)
       \/ CacheCatchesUp

Spec == Init /\ [][Next]_vars

\* A pass that ended is followed by the next: by a requeue, by the event of its
\* own write or by the resync period.  The informer delivers in the end.
FairSpec == Spec /\ WF_vars(Next /\ PassStep) /\ SF_vars(Next /\ CacheCatchesUp)

-----------------------------------------------------------------------------
(* Properties.                                                             *)

Settled  == "hasty_edit" \notin mishaps
Known    == "early_name" \notin mishaps
UpToDate == "cache_lag" \notin mishaps

\* The README's way to remove a chosen worker, naming it and lowering Workers:
\* the MachineSet is not scaled down before the machines that are named carry
\* the annotation by which the machine controller chooses.
NamedAreMarked == \A h \in mine.nodesToDelete : state[h] = "running" => h \in marked
ScalesDown     == pc = "apply" /\ machineSet \in Nat /\ mine.workers < machineSet

SelectedBeforeScaleDown       == [][Settled /\ Known /\ ScalesDown => NamedAreMarked]_vars
AlwaysSelectedBeforeScaleDown == [][ScalesDown => NamedAreMarked]_vars

\* controller.go, "We need to delete the old cluster-api-delete-machine labels
\* and add the new ones": once the selection is recorded, exactly the machines
\* that are named are annotated.
AlwaysSelectionFollowsSpec ==
    Recorded => \A h \in Hosts : state[h] = "running" => (h \in marked <=> h \in spec.nodesToDelete)

\* The same when every edit of the CR waits for the last one to be recorded, and
\* names nodes that exist.
SelectionFollowsSpec == Settled /\ Known => AlwaysSelectionFollowsSpec

\* controller.go, "MachineSet has been updated, force CRD re-sync to match the
\* machineset replicas": Workers is only taken over from a MachineSet that was
\* edited after the CR.
AlwaysTakenOverFromEdit ==
    [][pc = "sync" /\ spec'.workers # spec.workers => lastEdit = "machineset"]_vars

\* The same as long as the informer keeps up and edits are settled.
TakenOverFromEdit ==
    [][Settled /\ UpToDate /\ pc = "sync" /\ spec'.workers # spec.workers
        => lastEdit = "machineset"]_vars

\* Status.SpecMDS, the "Applied Spec": an edited CR that is recorded as applied
\* is what the MachineSet was told.
AlwaysRecordedIsApplied ==
    Recorded /\ lastEdit = "cr" => machineSet = spec.workers

\* The same when the edits are settled, whatever the informer shows.
RecordedIsApplied == Settled => AlwaysRecordedIsApplied

\* When the edits are over, the CR, its status and the MachineSet agree.  (With
\* an informer that is always one write behind the operator chases itself.)
WorkersAgree == UpToDate => <>[](Recorded /\ machineSet = spec.workers)
=============================================================================
