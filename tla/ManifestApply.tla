---------------------------- MODULE ManifestApply ----------------------------
(***************************************************************************)
(* Every pass over a live CR renders all manifests anew, from the spec and *)
(* from two objects of the cluster, and applies them one by one: the       *)
(* object is read, created or merged with what was found, and written with *)
(* the resource version that was read.  The spec is recorded as applied    *)
(* when the last one is through; only then do passes look at the nodes     *)
(* again, and they do so before they render.                               *)
(*                                                                         *)
(* Others write the same objects: their labels and annotations (notes) are *)
(* merged, their changes of what the manifest says are overwritten.        *)
(* Workers is MachineSetSync's, the clean up OwnedObjects', and the steps  *)
(* before and after are SharedScripts' and OwnedObjects'.                  *)
(***************************************************************************)
EXTENDS Naturals, FiniteSets, Sequences

CONSTANTS
    Notes,          \* labels and annotations of others
    MaxEdits,       \* bound on the moves of everybody but the operator
    MaxFailures,    \* bound on failed calls and operator crashes
    Scenarios       \* which of MishapKinds may happen together

(***************************************************************************)
(* "hasty_edit": the CR is edited before the last edit has been recorded.  *)
(* "foreign_change": others change or delete the objects.                  *)
(* "foreign_notes": others label and annotate them.                        *)
(* "inputs_change": user data and image change, go away and come back.     *)
(***************************************************************************)
MishapKinds == {"hasty_edit", "foreign_change", "foreign_notes", "inputs_change"}

ASSUME ManifestAssumption ==
    /\ MaxEdits \in Nat /\ MaxFailures \in Nat
    /\ Scenarios \subseteq SUBSET MishapKinds

VARIABLES
    mishaps,        \* the mishaps this CR lives with
    spec,           \* [cpus, selinux]: NovaComputeCPUDedicatedSet, SelinuxDisabled
    recorded,       \* Status.SpecMDS: {} or {the spec last recorded as applied}
    inputs,         \* [userData, image]: the worker-user-data secret, the base MachineSet
    cluster,        \* cluster[f]: the object of manifest f, [is, notes]
    pc,             \* the next call of the pass
    mine,           \* the spec as the pass read it
    data,           \* the render data so far
    todo,           \* manifests that are not applied yet, by their place in Files
    found,          \* the object at hand as the pass read it
    fresh,          \* nobody else has written the CR since it was read
    edits,          \* moves of others so far
    failures        \* failed calls and crashes so far

crVars   == <<spec, recorded>>
passVars == <<pc, mine, data, todo, found, fresh>>
vars     == <<mishaps, crVars, inputs, cluster, passVars, edits, failures>>

Specs  == [cpus : {"none", "2-5"}, selinux : {"enabled", "disabled"}]
Inputs == [userData : {"u1", "u2", "gone"}, image : {"i1", "i2", "gone"}]
Blank  == [cpus |-> "none", selinux |-> "enabled"]
Fields == {"cpus", "selinux", "userData", "image", "role"}

\* In the order of the walk; "compute" stands for the manifests of nova and neutron.
Files == <<"user-data", "pinning", "selinuxoff", "pool", "machineset", "compute">>
Names == {Files[i] : i \in DOMAIN Files}

\* What a manifest refers to.
Uses(f) == CASE f = "user-data"  -> {"role", "userData"}
             [] f = "pinning"    -> {"role", "cpus"}
             [] f = "selinuxoff" -> {"role", "selinux"}
             [] f = "pool"       -> {"role"}
             [] f = "machineset" -> {"role", "image"}
             [] f = "compute"    -> {"role", "cpus"}

\* A manifest that renders to white space is no object.
Rendered(s) == {f \in Names : /\ f = "pinning" => s.cpus # "none"
                              /\ f = "selinuxoff" => s.selinux = "disabled"}

\* Values: a set of pairs <<field, value>>.
Of(s)           == {<<"role", "r">>, <<"cpus", s.cpus>>, <<"selinux", s.selinux>>}
Read(in)        == {<<"userData", in.userData>>, <<"image", in.image>>}
Content(f, vs)  == {v \in vs : v[1] \in Uses(f)}
Changed         == {<<"role", "changed">>}
Values          == Fields \X {"r", "changed", "none", "2-5", "enabled", "disabled", "u1", "u2", "i1", "i2"}
Objects         == [is : SUBSET Values, notes : SUBSET Notes]
Absent          == [is |-> {}, notes |-> {}]
AllThere        == inputs.userData # "gone" /\ inputs.image # "gone"

\* Faulty: the MachineSet comes before the MachineConfigs.
FirstOf_SetBeforeConfigs(S) ==
    IF 5 \in S THEN 5 ELSE CHOOSE i \in S : \A j \in S : i <= j

FirstOf(S) == CHOOSE i \in S : \A j \in S : i <= j
Current    == Files[FirstOf(todo)]

ManifestTypeOK ==
    /\ mishaps \in Scenarios
    /\ spec \in Specs /\ mine \in Specs /\ recorded \in {{}} \cup {{s} : s \in Specs}
    /\ inputs \in Inputs
    /\ cluster \in [Names -> Objects] /\ found \in Objects
    /\ data \subseteq Values
    /\ pc \in {"idle", "nodes", "userdata", "image", "get", "write", "status"}
    /\ todo \subseteq DOMAIN Files /\ (todo # {} <=> pc \in {"get", "write"})
    /\ fresh \in BOOLEAN
    /\ edits \in 0..MaxEdits /\ failures \in 0..MaxFailures

PassInit == pc = "idle" /\ mine = Blank /\ data = {} /\ todo = {} /\ found = Absent /\ fresh = TRUE

Init ==
    /\ mishaps \in Scenarios
    /\ spec \in Specs /\ recorded = {}
    /\ inputs = [userData |-> "u1", image |-> "i1"]
    /\ cluster = [f \in Names |-> Absent]
    /\ PassInit
    /\ edits = 0 /\ failures = 0

Proceed(next) == pc' = next /\ UNCHANGED <<mine, data, todo, found, fresh>>

PassEnds ==
    /\ pc' = "idle" /\ mine' = Blank /\ data' = {} /\ todo' = {} /\ found' = Absent /\ fresh' = TRUE

-----------------------------------------------------------------------------
(* The pass.                                                               *)

\* Faulty: the nodes are not looked at until the inputs are there.
Reconcile_RendersFirst ==
    /\ pc = "idle"
    /\ mine' = spec /\ pc' = IF AllThere /\ recorded = {spec} THEN "nodes" ELSE "userdata"
    /\ UNCHANGED <<crVars, inputs, cluster, data, todo, found, fresh, failures>>

\* Nodes are looked at when the spec is the one recorded as applied.
Reconcile ==
    /\ pc = "idle"
    /\ mine' = spec /\ pc' = IF recorded = {spec} THEN "nodes" ELSE "userdata"
    /\ UNCHANGED <<crVars, inputs, cluster, data, todo, found, fresh, failures>>

\* updateNodesStatus, as a whole; NodeDrain has its calls.
NodePass ==
    /\ pc = "nodes"
    /\ Proceed("userdata")
    /\ UNCHANGED <<crVars, inputs, cluster, failures>>

\* getRenderData: the spec with its defaults, then the user data ...
GetUserData ==
    /\ pc = "userdata"
    /\ \/ inputs.userData = "gone" /\ PassEnds
       \/ /\ inputs.userData # "gone"
          /\ data' = Of(mine) \cup {v \in Read(inputs) : v[1] = "userData"}
          /\ pc' = "image" /\ UNCHANGED <<mine, todo, found, fresh>>
    /\ UNCHANGED <<crVars, inputs, cluster, failures>>

\* ... and the image of the base MachineSet; then all manifests are rendered.
RenderManifests ==
    /\ pc = "image"
    /\ \/ inputs.image = "gone" /\ PassEnds
       \/ /\ inputs.image # "gone"
          /\ data' = data \cup {v \in Read(inputs) : v[1] = "image"}
          /\ todo' = {i \in DOMAIN Files : Files[i] \in Rendered(mine)}
          /\ pc' = "get" /\ UNCHANGED <<mine, found, fresh>>
    /\ UNCHANGED <<crVars, inputs, cluster, failures>>

GetExisting ==
    /\ pc = "get"
    /\ found' = cluster[Current]
    /\ pc' = "write" /\ UNCHANGED <<mine, data, todo, fresh>>
    /\ UNCHANGED <<crVars, inputs, cluster, failures>>

Applied(f, object) ==
    /\ cluster' = [cluster EXCEPT ![f] = object]
    /\ todo' = todo \ {FirstOf(todo)}
    /\ pc' = IF todo' = {} THEN "status" ELSE "get"
    /\ found' = Absent
    /\ UNCHANGED <<mine, data, fresh>>

\* Faulty: the resource version found is not sent along.
ApplyObject_LastWriteWins(f) ==
    /\ pc = "write" /\ f = Current
    /\ Applied(f, [is |-> Content(f, data), notes |-> found.notes])
    /\ UNCHANGED <<crVars, inputs, failures>>

\* Faulty: an object that is there already is left as it is.
ApplyObject_CreateOnly(f) ==
    /\ pc = "write" /\ f = Current
    /\ Applied(f, IF found = Absent THEN [is |-> Content(f, data), notes |-> {}] ELSE cluster[f])
    /\ UNCHANGED <<crVars, inputs, failures>>

\* Faulty: an object that cannot be written is left for the next pass.
ApplyObject_ConflictIgnored(f) ==
    /\ pc = "write" /\ f = Current
    /\ Applied(f, IF cluster[f] = found THEN [is |-> Content(f, data), notes |-> found.notes]
                                        ELSE cluster[f])
    /\ UNCHANGED <<crVars, inputs, failures>>

\* Whatever was written since the read refuses the write and ends the pass; an
\* object that is as it should be may need no write (the server's own fields count).
ApplyObject(f) ==
    /\ pc = "write" /\ f = Current
    /\ LET wanted == [is |-> Content(f, data), notes |-> found.notes] IN
       \/ cluster[f] = found /\ Applied(f, wanted)
       \/ found = wanted /\ Applied(f, cluster[f])
       \/ cluster[f] # found /\ PassEnds /\ UNCHANGED cluster
    /\ UNCHANGED <<crVars, inputs, failures>>

UpdateStatus ==
    /\ pc = "status"
    /\ recorded' = IF fresh THEN {mine} ELSE recorded
    /\ PassEnds
    /\ UNCHANGED <<spec, inputs, cluster, failures>>

PassStep ==
    /\ \/ Reconcile \/ NodePass \/ GetUserData \/ RenderManifests \/ GetExisting
       \/ (\E f \in Names : ApplyObject(f)) \/ UpdateStatus
    /\ UNCHANGED edits

\* A call fails, or the operator crashes.
Abort ==
    /\ pc # "idle" /\ failures < MaxFailures
    /\ failures' = failures + 1
    /\ PassEnds
    /\ UNCHANGED <<crVars, inputs, cluster, edits>>

-----------------------------------------------------------------------------
(* The others.                                                             *)

EditCR ==
    /\ "hasty_edit" \in mishaps \/ (pc = "idle" /\ recorded = {spec})
    /\ spec' \in Specs \ {spec}
    /\ fresh' = (pc = "idle")
    /\ UNCHANGED <<recorded, inputs, cluster, pc, mine, data, todo, found>>

InputChanges(k) ==
    /\ "inputs_change" \in mishaps
    /\ inputs' \in {[inputs EXCEPT ![k] = v] : v \in {"u1", "u2", "i1", "i2", "gone"}}
    /\ inputs' \in Inputs \ {inputs}
    /\ UNCHANGED <<crVars, cluster, passVars>>

ObjectAnnotated(f, n) ==
    /\ "foreign_notes" \in mishaps
    /\ cluster[f] # Absent /\ n \notin cluster[f].notes
    /\ cluster' = [cluster EXCEPT ![f].notes = @ \cup {n}]
    /\ UNCHANGED <<crVars, inputs, passVars>>

ObjectChanged(f) ==
    /\ "foreign_change" \in mishaps
    /\ cluster[f] # Absent /\ cluster[f].is # Changed
    /\ cluster' = [cluster EXCEPT ![f].is = Changed]
    /\ UNCHANGED <<crVars, inputs, passVars>>

ObjectRemoved(f) ==
    /\ "foreign_change" \in mishaps
    /\ cluster[f] # Absent
    /\ cluster' = [cluster EXCEPT ![f] = Absent]
    /\ UNCHANGED <<crVars, inputs, passVars>>

OthersMove ==
    /\ edits < MaxEdits /\ edits' = edits + 1 /\ UNCHANGED failures
    /\ \/ EditCR
       \/ \E k \in {"userData", "image"} : InputChanges(k)
       \/ \E f \in Names : \/ ObjectChanged(f) \/ ObjectRemoved(f)
                           \/ \E n \in Notes : ObjectAnnotated(f, n)

Next == UNCHANGED mishaps /\ (PassStep \/ Abort \/ OthersMove)

Spec == Init /\ [][Next]_vars

\* There is always a next pass: a requeue after an error, the resync after success.
FairSpec == Spec /\ WF_vars(Next /\ PassStep)

-----------------------------------------------------------------------------
(* Properties.                                                             *)

\* bindata/worker-osp numbers its files: the MachineSet, which has machines made,
\* is not there before user data and pool, nor, on the first pass that gets so
\* far, before the MachineConfigs its spec renders.
ConfiguredBeforeMachines ==
    "foreign_change" \notin mishaps /\ cluster["machineset"] # Absent =>
        /\ \A f \in {"user-data", "pool"} : cluster[f] # Absent
        /\ "hasty_edit" \notin mishaps /\ recorded = {} =>
              \A f \in Rendered(spec) \cap {"pinning", "selinuxoff"} : cluster[f] # Absent

\* computenodeopenstack_types.go, SpecMDS, "Applied Spec": as long as edits wait
\* for the last one to be recorded, what the recorded spec renders is in the
\* cluster as the spec wants it, also in the middle of a later pass.
RecordedIsRendered ==
    mishaps \cap {"hasty_edit", "foreign_change"} = {} /\ recorded = {spec} =>
        \A f \in Rendered(spec) : Content(f, Of(spec)) \subseteq cluster[f].is

\* merge.go, "copies over any annotations from current to updated": no pass takes
\* from an object what somebody else has noted on it, however late they did.
NotesKept ==
    [][edits' = edits => \A f \in Names : cluster[f].notes \subseteq cluster'[f].notes]_vars

\* Whatever others did to the objects: with the inputs there every rendered object
\* becomes, and stays, what spec and inputs say.
RenderedInTheEnd ==
    <>[]AllThere =>
        <>[](recorded = {spec} /\ \A f \in Rendered(spec) :
                                     cluster[f].is = Content(f, Of(spec) \cup Read(inputs)))

\* Nodes are looked at again and again ...
AlwaysNodesLookedAt == []<><<NodePass>>_vars

\* ... if the inputs are there in the end, or if the spec was recorded before they
\* went away.
NodesLookedAt == (<>[]AllThere \/ <>[](recorded = {spec})) => AlwaysNodesLookedAt

\* What the recorded spec does not render is not there.
NothingElseLeft ==
    pc = "idle" /\ recorded = {spec} =>
        \A f \in Names \ Rendered(spec) : cluster[f] = Absent
=============================================================================
