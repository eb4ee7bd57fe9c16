------------------------ MODULE MachineSetSyncProofs ------------------------
(***************************************************************************)
(* What MachineSetSync promises while every edit of the CR waits for the   *)
(* last one to be recorded, for any hosts, any counts and any failures.    *)
(***************************************************************************)
EXTENDS MachineSetSync, TLAPS

-----------------------------------------------------------------------------
(* Types.                                                                  *)

LEMMA BlankIsSpec == Blank \in Specs
  BY SyncAssumption DEF Blank, Specs, Counts

LEMMA SyncTypeInit == Init => TypeOK
  BY BlankIsSpec, SyncAssumption DEF Init, PassInit, TypeOK, Blank, Counts

LEMMA SyncTypeStep == TypeOK /\ [Next]_vars => TypeOK'
<1> SUFFICES ASSUME TypeOK, [Next]_vars PROVE TypeOK' OBVIOUS
<1> USE BlankIsSpec, SyncAssumption
<1> USE DEF TypeOK, setVars, nodeVars, passVars, editVars, PassEnds, Proceed
<1>1. CASE UNCHANGED vars BY <1>1 DEF vars
<1>2. mishaps' = mishaps \/ UNCHANGED vars BY DEF Next
<1>3. CASE Reconcile /\ mishaps' = mishaps BY <1>3 DEF Reconcile
<1>4. CASE EnsureMachineSetSync /\ mishaps' = mishaps
  <2>1. SeenSet \in Counts \cup {Missing} BY DEF SeenSet
  <2>2. SeenSet # Missing => [spec EXCEPT !.workers = SeenSet] \in Specs
                             /\ [mine EXCEPT !.workers = SeenSet] \in Specs
    BY <2>1 DEF Specs
  <2> QED BY <1>4, <2>1, <2>2 DEF EnsureMachineSetSync
<1>5. ASSUME NEW h \in Hosts, NodeDrained(h), mishaps' = mishaps PROVE TypeOK'
  <2>1. [spec EXCEPT !.nodesToDelete = @ \ {h}] \in Specs /\ [mine EXCEPT !.nodesToDelete = @ \ {h}] \in Specs
    BY DEF Specs
  <2> QED BY <1>5, <2>1 DEF NodeDrained
<1>6. CASE (NodesUpdated \/ ListMachines \/ SelectionUpdated) /\ mishaps' = mishaps
  <2>1. CASE NodesUpdated BY <1>6, <2>1 DEF NodesUpdated
  <2>2. CASE ListMachines
    <3>1. Selected \cup Deselected \subseteq Hosts BY DEF Selected, Deselected, Specs
    <3> QED BY <1>6, <2>2, <3>1 DEF ListMachines
  <2>3. CASE SelectionUpdated BY <1>6, <2>3 DEF SelectionUpdated
  <2> QED BY <1>6, <2>1, <2>2, <2>3
<1>7. ASSUME NEW h \in Hosts, MarkMachine(h), mishaps' = mishaps PROVE TypeOK'
  BY <1>7 DEF MarkMachine
<1>8. CASE ApplyMachineSet /\ mishaps' = mishaps
  BY <1>8 DEF ApplyMachineSet, Specs
<1>9. CASE UpdateStatus /\ mishaps' = mishaps
  BY <1>9 DEF UpdateStatus, Specs
<1>10. CASE Abort /\ mishaps' = mishaps
  BY <1>10 DEF Abort
<1>11. CASE EditCR /\ mishaps' = mishaps
  <2>1. spec' \in Specs BY <1>11 DEF EditCR, Specs, Nameable
  <2> QED BY <1>11, <2>1 DEF EditCR
<1>12. CASE (ScaleMachineSet \/ DeleteMachineSet) /\ mishaps' = mishaps
  BY <1>12 DEF ScaleMachineSet, DeleteMachineSet
<1>13. ASSUME NEW h \in Hosts, mishaps' = mishaps,
              MachineCreated(h) \/ MachineJoins(h) \/ MachineScaledDown(h) \/ MachineLeaves(h)
       PROVE  TypeOK'
  BY <1>13 DEF MachineCreated, MachineJoins, MachineScaledDown, MachineLeaves
<1>14. CASE CacheCatchesUp /\ mishaps' = mishaps BY <1>14 DEF CacheCatchesUp
<1> QED BY <1>1, <1>2, <1>3, <1>4, <1>5, <1>6, <1>7, <1>8, <1>9, <1>10, <1>11, <1>12, <1>13, <1>14 DEF Next, PassStep

\* CR, MachineSet, machines and pass keep their types, whatever happens to them.
THEOREM SyncTypeCorrect == Spec => []TypeOK
<1>1. TypeOK /\ [Next]_vars => TypeOK' BY SyncTypeStep
<1> QED BY SyncTypeInit, <1>1, PTL DEF Spec

-----------------------------------------------------------------------------
(* Who is believed.                                                        *)

(***************************************************************************)
(* While edits wait: a pass works for the CR as it is, on a copy that is   *)
(* current.  It looks at the MachineSet only if the CR is recorded, and    *)
(* then changes the CR in nothing but the number of workers and the names  *)
(* it takes out, so that the CR, once changed, stays unrecorded until the  *)
(* pass has written it to the MachineSet.                                  *)
(***************************************************************************)
PassFollowsCR ==
    /\ fresh
    /\ pc # "idle" => mine = spec
    /\ pc \in {"sync", "nodes"} =>
          specMDS = status.specMDS /\ mine.nodesToDelete \subseteq specMDS.nodesToDelete
    /\ pc = "sync" => Recorded
    /\ pc = "status" /\ lastEdit = "cr" => machineSet = mine.workers
    /\ Recorded /\ lastEdit = "cr" => machineSet = spec.workers

(***************************************************************************)
(* And if names are given to nodes only: names of the CR and of the status *)
(* are of hosts that have joined; their machines are annotated as far as   *)
(* both agree, and all of them once a pass has been through its selection. *)
(***************************************************************************)
MarksFollowCR ==
    /\ \A h \in Hosts : state[h] \in {"none", "new"} =>
          h \notin spec.nodesToDelete \cup status.nodesToDelete \cup marked
    /\ \A h \in Hosts : state[h] = "running" =>
          /\ h \in spec.nodesToDelete \cap status.nodesToDelete => h \in marked
          /\ h \in marked => h \in spec.nodesToDelete \cup status.nodesToDelete
          /\ pc = "mark" => h \in toMark \/ (h \in marked <=> h \in spec.nodesToDelete)
          /\ pc \in {"nodes", "apply", "status"} => (h \in marked <=> h \in spec.nodesToDelete)
    /\ pc = "mark" => toMark \subseteq Selected \cup Deselected
    /\ Recorded => spec.nodesToDelete = status.nodesToDelete

SyncInv == Settled => PassFollowsCR /\ (Known => MarksFollowCR)

LEMMA SyncInvInit == Init => SyncInv
  BY BlankIsSpec, HashAssumption DEF Init, PassInit, SyncInv, PassFollowsCR, MarksFollowCR, Recorded, Blank

\* The steps of a pass and of the others, for the first half of the invariant.
LEMMA PassFollowsStep ==
  ASSUME TypeOK, Settled, PassFollowsCR, [Next]_vars
  PROVE  PassFollowsCR'
<1> USE DEF TypeOK, Settled, PassFollowsCR, Recorded, setVars, nodeVars, passVars, editVars, PassEnds, Proceed
<1>1. CASE UNCHANGED vars BY <1>1 DEF vars
<1>2. CASE Reconcile BY <1>2 DEF Reconcile
<1>3. CASE EnsureMachineSetSync
  <2>1. pc = "sync" /\ spec = mine /\ specMDS = mine /\ spec = status.specMDS
    BY <1>3 DEF EnsureMachineSetSync
  <2>2. CASE spec' = spec BY <1>3, <2>1, <2>2 DEF EnsureMachineSetSync
  <2>3. CASE spec' # spec
    <3>1. /\ spec' = [spec EXCEPT !.workers = SeenSet] /\ mine' = [mine EXCEPT !.workers = SeenSet]
          /\ pc' = "nodes" /\ UNCHANGED <<specMDS, toMark, fresh, status, machineSet, lastEdit>>
      BY <1>3, <2>3 DEF EnsureMachineSetSync
    <3>2. mine'.nodesToDelete = mine.nodesToDelete BY <3>1 DEF Specs
    <3> QED BY <2>1, <2>3, <3>1, <3>2
  <2> QED BY <2>2, <2>3
<1>4. ASSUME NEW h \in Hosts, NodeDrained(h) PROVE PassFollowsCR'
  <2>1. pc = "nodes" /\ spec = mine /\ UNCHANGED <<status, machineSet, lastEdit>> BY <1>4 DEF NodeDrained
  <2>2. CASE UNCHANGED <<spec, passVars>> BY <2>1, <2>2
  <2>3. CASE /\ h \in mine.nodesToDelete
             /\ spec' = [spec EXCEPT !.nodesToDelete = @ \ {h}]
             /\ mine' = [mine EXCEPT !.nodesToDelete = @ \ {h}]
             /\ UNCHANGED <<pc, specMDS, toMark, fresh>>
    <3>1. mine'.nodesToDelete = mine.nodesToDelete \ {h} /\ spec' = mine' BY <2>1, <2>3 DEF Specs
    <3>2. spec' # status.specMDS BY <2>1, <2>3, <3>1
    <3> QED BY <2>1, <2>3, <3>1, <3>2
  <2> QED BY <1>4, <2>2, <2>3 DEF NodeDrained
<1>5. CASE NodesUpdated BY <1>5 DEF NodesUpdated
<1>6. CASE ListMachines BY <1>6 DEF ListMachines
<1>7. ASSUME NEW h \in Hosts, MarkMachine(h) PROVE PassFollowsCR' BY <1>7 DEF MarkMachine
<1>8. CASE SelectionUpdated BY <1>8 DEF SelectionUpdated
<1>9. CASE ApplyMachineSet BY <1>9 DEF ApplyMachineSet
<1>10. CASE UpdateStatus BY <1>10 DEF UpdateStatus
<1>11. CASE Abort BY <1>11 DEF Abort
<1>12. CASE EditCR BY <1>12 DEF EditCR
<1>13. CASE ScaleMachineSet \/ DeleteMachineSet BY <1>13 DEF ScaleMachineSet, DeleteMachineSet
<1>14. ASSUME NEW h \in Hosts,
              MachineCreated(h) \/ MachineJoins(h) \/ MachineScaledDown(h) \/ MachineLeaves(h)
       PROVE  PassFollowsCR'
  BY <1>14 DEF MachineCreated, MachineJoins, MachineScaledDown, MachineLeaves
<1>15. CASE CacheCatchesUp BY <1>15 DEF CacheCatchesUp
<1> QED
  BY <1>1, <1>2, <1>3, <1>4, <1>5, <1>6, <1>7, <1>8, <1>9, <1>10, <1>11, <1>12, <1>13, <1>14, <1>15
  DEF Next, PassStep

\* The same for the second half.
LEMMA MarksFollowStep ==
  ASSUME TypeOK, Settled, Known, PassFollowsCR, MarksFollowCR, [Next]_vars
  PROVE  MarksFollowCR'
<1> USE DEF TypeOK, PassFollowsCR, MarksFollowCR, Recorded, setVars, nodeVars, passVars, editVars,
            PassEnds, Proceed, Selected, Deselected
<1>1. CASE UNCHANGED vars BY <1>1 DEF vars
<1>2. CASE Reconcile BY <1>2 DEF Reconcile
<1>3. CASE EnsureMachineSetSync
  <2>1. pc = "sync" /\ spec = mine /\ Recorded BY <1>3 DEF EnsureMachineSetSync
  <2>2. CASE spec' = spec BY <1>3, <2>1, <2>2 DEF EnsureMachineSetSync
  <2>3. CASE spec' # spec
    <3>1. /\ spec' = [spec EXCEPT !.workers = SeenSet]
          /\ pc' = "nodes" /\ UNCHANGED <<status, state, marked>>
      BY <1>3, <2>3 DEF EnsureMachineSetSync
    <3>2. spec'.nodesToDelete = spec.nodesToDelete BY <3>1 DEF Specs
    <3> QED BY <2>1, <2>3, <3>1, <3>2
  <2> QED BY <2>2, <2>3
<1>4. ASSUME NEW h \in Hosts, NodeDrained(h) PROVE MarksFollowCR'
  <2>1. pc = "nodes" /\ spec = mine /\ state[h] = "deleting" /\ UNCHANGED <<status, state, marked>>
    BY <1>4 DEF NodeDrained
  <2>2. CASE UNCHANGED <<spec, passVars>> BY <2>1, <2>2
  <2>3. CASE /\ h \in mine.nodesToDelete
             /\ spec' = [spec EXCEPT !.nodesToDelete = @ \ {h}]
             /\ mine' = [mine EXCEPT !.nodesToDelete = @ \ {h}]
             /\ UNCHANGED <<pc, specMDS, toMark, fresh>>
    <3>1. spec'.nodesToDelete = spec.nodesToDelete \ {h} BY <2>1, <2>3 DEF Specs
    <3>2. spec' # status.specMDS BY <2>1, <2>3, <3>1
    <3> QED BY <2>1, <2>3, <3>1, <3>2
  <2> QED BY <1>4, <2>2, <2>3 DEF NodeDrained
<1>5. CASE NodesUpdated BY <1>5 DEF NodesUpdated
<1>6. CASE ListMachines BY <1>6 DEF ListMachines
<1>7. ASSUME NEW h \in Hosts, MarkMachine(h) PROVE MarksFollowCR'
  <2>1. /\ pc = "mark" /\ h \in toMark /\ toMark \subseteq Selected \cup Deselected /\ mine = spec
        /\ UNCHANGED <<spec, status, state>>
    BY <1>7 DEF MarkMachine
  <2>2. CASE PassEnds /\ UNCHANGED marked BY <2>1, <2>2
  <2>3. CASE /\ state[h] \in {"running", "deleting"}
             /\ marked' = IF h \in Selected THEN marked \cup {h} ELSE marked \ {h}
             /\ toMark' = toMark \ {h}
             /\ UNCHANGED <<pc, mine>>
    <3>1. \A g \in Hosts \ {h} : g \in marked' <=> g \in marked BY <2>3
    <3>2. h \in marked' <=> h \in spec.nodesToDelete BY <2>1, <2>3
    <3>3. h \in (spec.nodesToDelete \cup status.nodesToDelete)
          /\ h \notin (spec.nodesToDelete \cap status.nodesToDelete)
      BY <2>1
    <3> QED BY <2>1, <2>3, <3>1, <3>2, <3>3
  <2> QED BY <1>7, <2>2, <2>3 DEF MarkMachine
<1>8. CASE SelectionUpdated BY <1>8 DEF SelectionUpdated
<1>9. CASE ApplyMachineSet BY <1>9 DEF ApplyMachineSet
<1>10. CASE UpdateStatus
  <2>1. status'.nodesToDelete = spec.nodesToDelete /\ pc = "status" /\ pc' = "idle"
        /\ UNCHANGED <<spec, state, marked>>
    BY <1>10 DEF UpdateStatus
  <2> QED BY <2>1
<1>11. CASE Abort BY <1>11 DEF Abort
<1>12. CASE EditCR
  <2>1. pc = "idle" /\ Recorded /\ spec' # spec /\ UNCHANGED <<status, state, marked, pc>>
    BY <1>12 DEF EditCR, Settled
  <2>2. spec'.nodesToDelete \subseteq Nameable BY <1>12 DEF EditCR
  <2>3. \A h \in Nameable : state[h] = "running" BY DEF Nameable, Known
  <2> QED BY <2>1, <2>2, <2>3
<1>13. CASE ScaleMachineSet BY <1>13 DEF ScaleMachineSet
<1>14. CASE DeleteMachineSet BY <1>14 DEF DeleteMachineSet
<1>15. ASSUME NEW h \in Hosts,
              MachineCreated(h) \/ MachineJoins(h) \/ MachineScaledDown(h) \/ MachineLeaves(h)
       PROVE  MarksFollowCR'
  BY <1>15 DEF MachineCreated, MachineJoins, MachineScaledDown, MachineLeaves, Active
<1>16. CASE CacheCatchesUp BY <1>16 DEF CacheCatchesUp
<1> QED
  BY <1>1, <1>2, <1>3, <1>4, <1>5, <1>6, <1>7, <1>8, <1>9, <1>10, <1>11, <1>12, <1>13, <1>14, <1>15, <1>16
  DEF Next, PassStep

LEMMA SyncInvStep == TypeOK /\ SyncInv /\ [Next]_vars => SyncInv'
<1> SUFFICES ASSUME TypeOK, SyncInv, [Next]_vars, Settled' PROVE PassFollowsCR' /\ (Known' => MarksFollowCR')
  BY DEF SyncInv
<1>1. mishaps' = mishaps BY DEF Next, vars
<1>2. Settled /\ (Known' => Known) BY <1>1 DEF Settled, Known
<1> QED BY <1>2, PassFollowsStep, MarksFollowStep DEF SyncInv

LEMMA SyncInvariant == Spec => [](TypeOK /\ SyncInv)
<1>1. TypeOK /\ SyncInv /\ [Next]_vars => SyncInv' BY SyncInvStep
<1> QED BY SyncTypeCorrect, SyncInvInit, <1>1, PTL DEF Spec

\* An edited CR that is recorded as applied is what the MachineSet was told.
THEOREM RecordedWasApplied == Spec => []RecordedIsApplied
<1>1. SyncInv => RecordedIsApplied BY DEF SyncInv, PassFollowsCR, RecordedIsApplied, AlwaysRecordedIsApplied
<1> QED BY <1>1, SyncInvariant, PTL

\* Once the selection is recorded, the running machines that are annotated are
\* those of the hosts that are named.
THEOREM SelectionIsFollowed == Spec => []SelectionFollowsSpec
<1>1. TypeOK /\ SyncInv => SelectionFollowsSpec
  BY DEF SyncInv, MarksFollowCR, SelectionFollowsSpec, AlwaysSelectionFollowsSpec
<1> QED BY <1>1, SyncInvariant, PTL

\* The operator takes Workers over from a MachineSet only if that was edited last.
THEOREM TakenOverRightly == Spec => TakenOverFromEdit
<1>1. TypeOK /\ SyncInv /\ [Next]_vars =>
        [Settled /\ UpToDate /\ pc = "sync" /\ spec'.workers # spec.workers => lastEdit = "machineset"]_vars
  <2> SUFFICES ASSUME TypeOK, SyncInv, Next, Settled, UpToDate, pc = "sync", spec'.workers # spec.workers
               PROVE  lastEdit = "machineset"
    BY DEF vars
  <2>1. EnsureMachineSetSync
    BY DEF Next, PassStep, Reconcile, NodeDrained, NodesUpdated, ListMachines, MarkMachine, SelectionUpdated,
           ApplyMachineSet, UpdateStatus, Abort, EditCR, Settled, ScaleMachineSet, DeleteMachineSet,
           MachineCreated, MachineJoins, MachineScaledDown, MachineLeaves, CacheCatchesUp
  <2>2. SeenSet = machineSet BY DEF SeenSet, UpToDate
  <2>3. machineSet # spec.workers BY <2>1, <2>2 DEF EnsureMachineSetSync, SyncInv, PassFollowsCR
  <2> QED BY <2>3 DEF SyncInv, PassFollowsCR, TypeOK
<1> QED BY <1>1, SyncInvariant, PTL DEF Spec, TakenOverFromEdit

\* No machine is scaled away before those that are named are annotated.
THEOREM SelectedFirst == Spec => SelectedBeforeScaleDown
<1>1. TypeOK /\ SyncInv => (Settled /\ Known /\ ScalesDown => NamedAreMarked)
  BY DEF SyncInv, PassFollowsCR, MarksFollowCR, ScalesDown, NamedAreMarked, TypeOK, Specs
<1> QED BY <1>1, SyncInvariant, PTL DEF SelectedBeforeScaleDown
=============================================================================
