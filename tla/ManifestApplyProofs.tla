------------------------- MODULE ManifestApplyProofs -------------------------
(***************************************************************************)
(* What holds of ManifestApply whatever others do to the objects, and      *)
(* however often.                                                          *)
(***************************************************************************)
EXTENDS ManifestApply, TLAPS

-----------------------------------------------------------------------------
(* The manifests and their order.                                          *)

LEMMA SixFiles == DOMAIN Files = 1..6 /\ Names = {Files[i] : i \in 1..6}
  BY DEF Files, Names

\* The first of the manifests that are left is one of them.
LEMMA FirstIsLeft ==
  ASSUME NEW S \in SUBSET (1..6), S # {}
  PROVE  FirstOf(S) \in S /\ \A j \in S : FirstOf(S) <= j
<1>1. \E i \in S : \A j \in S : i <= j
  <2>1. CASE 1 \in S BY <2>1
  <2>2. CASE 1 \notin S /\ 2 \in S BY <2>2
  <2>3. CASE 1 \notin S /\ 2 \notin S /\ 3 \in S BY <2>3
  <2>4. CASE 1 \notin S /\ 2 \notin S /\ 3 \notin S /\ 4 \in S BY <2>4
  <2>5. CASE 1 \notin S /\ 2 \notin S /\ 3 \notin S /\ 4 \notin S /\ 5 \in S BY <2>5
  <2>6. CASE 1 \notin S /\ 2 \notin S /\ 3 \notin S /\ 4 \notin S /\ 5 \notin S
    <3>1. 1..6 = {1, 2, 3, 4, 5, 6} OBVIOUS
    <3>2. S = {6} BY <2>6, <3>1
    <3> QED BY <3>2
  <2> QED BY <2>1, <2>2, <2>3, <2>4, <2>5, <2>6
<1> QED BY <1>1 DEF FirstOf

LEMMA CurrentIsManifest ==
  ASSUME todo \subseteq DOMAIN Files, todo # {}
  PROVE  FirstOf(todo) \in todo /\ Current \in Names
  BY SixFiles, FirstIsLeft DEF Current

LEMMA UserDataIsRendered ==
  ASSUME NEW s \in Specs
  PROVE  {i \in DOMAIN Files : Files[i] \in Rendered(s)} # {}
<1>1. 1 \in DOMAIN Files /\ Files[1] = "user-data" BY DEF Files
<1>2. "user-data" \in Rendered(s) BY <1>1, SixFiles DEF Rendered
<1> QED BY <1>1, <1>2

LEMMA SpecHasValues == ASSUME NEW s \in Specs PROVE Of(s) \subseteq Values
<1>1. s.cpus \in {"none", "2-5"} /\ s.selinux \in {"enabled", "disabled"} BY DEF Specs
<1>2. <<"role", "r">> \in Values BY DEF Values, Fields
<1>3. <<"cpus", s.cpus>> \in Values BY <1>1 DEF Values, Fields
<1>4. <<"selinux", s.selinux>> \in Values BY <1>1 DEF Values, Fields
<1> QED BY <1>2, <1>3, <1>4 DEF Of

LEMMA UserDataHasValue ==
  ASSUME inputs \in Inputs, inputs.userData # "gone"
  PROVE  {v \in Read(inputs) : v[1] = "userData"} \subseteq Values
<1>1. inputs.userData \in {"u1", "u2"} BY DEF Inputs
<1>2. <<"userData", inputs.userData>> \in Values BY <1>1 DEF Values, Fields
<1>3. <<"image", inputs.image>>[1] # "userData" OBVIOUS
<1> QED BY <1>2, <1>3 DEF Read

LEMMA ImageHasValue ==
  ASSUME inputs \in Inputs, inputs.image # "gone"
  PROVE  {v \in Read(inputs) : v[1] = "image"} \subseteq Values
<1>1. inputs.image \in {"i1", "i2"} BY DEF Inputs
<1>2. <<"image", inputs.image>> \in Values BY <1>1 DEF Values, Fields
<1>3. <<"userData", inputs.userData>>[1] # "image" OBVIOUS
<1> QED BY <1>2, <1>3 DEF Read

-----------------------------------------------------------------------------
(* Type correctness.                                                       *)

LEMMA ManifestTypeInit == Init => ManifestTypeOK
<1> SUFFICES ASSUME Init PROVE ManifestTypeOK OBVIOUS
<1>1. Blank \in Specs BY DEF Blank, Specs
<1>2. Absent \in Objects BY DEF Absent, Objects
<1> QED BY <1>1, <1>2, ManifestAssumption
        DEF Init, PassInit, ManifestTypeOK, Inputs

\* Where the pass ends, its memory is blank again.
LEMMA BlankPass ==
  ASSUME PassEnds
  PROVE  /\ pc' = "idle" /\ mine' \in Specs /\ data' \subseteq Values
         /\ todo' = {} /\ found' \in Objects /\ fresh' \in BOOLEAN
  BY DEF PassEnds, Blank, Specs, Absent, Objects

\* The object at hand has what the manifest says, and what was noted on it.
LEMMA ManifestTypeApplied ==
  ASSUME ManifestTypeOK, pc = "write", NEW o \in Objects,
         Applied(Current, o), UNCHANGED <<mishaps, crVars, inputs, edits, failures>>
  PROVE  ManifestTypeOK'
<1> USE DEF ManifestTypeOK
<1>1. todo # {} /\ Current \in Names BY CurrentIsManifest
<1>2. /\ cluster' = [cluster EXCEPT ![Current] = o]
      /\ todo' \subseteq DOMAIN Files /\ (todo' # {} <=> pc' \in {"get", "write"})
      /\ pc' \in {"status", "get"}
      /\ found' = Absent /\ UNCHANGED <<mine, data, fresh>>
  BY DEF Applied
<1>3. Absent \in Objects BY DEF Absent, Objects
<1> QED BY <1>1, <1>2, <1>3 DEF crVars

LEMMA ManifestTypeStep == ManifestTypeOK /\ [Next]_vars => ManifestTypeOK'
<1> SUFFICES ASSUME ManifestTypeOK, [Next]_vars PROVE ManifestTypeOK' OBVIOUS
<1> USE DEF ManifestTypeOK
<1>1. CASE UNCHANGED vars BY <1>1 DEF vars, crVars, passVars
<1>2. ASSUME UNCHANGED <<mishaps, edits>>, Reconcile PROVE ManifestTypeOK'
  BY <1>2 DEF Reconcile, crVars
<1>3. ASSUME UNCHANGED <<mishaps, edits>>, NodePass PROVE ManifestTypeOK'
  BY <1>3 DEF NodePass, Proceed, crVars
<1>4. ASSUME UNCHANGED <<mishaps, edits>>, GetUserData PROVE ManifestTypeOK'
  <2>1. CASE PassEnds BY <1>4, <2>1, BlankPass DEF GetUserData, crVars
  <2>2. CASE ~PassEnds
    <3>1. data' \subseteq Values
      BY <1>4, <2>2, SpecHasValues, UserDataHasValue DEF GetUserData
    <3> QED BY <1>4, <2>2, <3>1 DEF GetUserData, crVars
  <2> QED BY <2>1, <2>2
<1>5. ASSUME UNCHANGED <<mishaps, edits>>, RenderManifests PROVE ManifestTypeOK'
  <2>1. CASE PassEnds BY <1>5, <2>1, BlankPass DEF RenderManifests, crVars
  <2>2. CASE ~PassEnds
    <3>1. data' \subseteq Values BY <1>5, <2>2, ImageHasValue DEF RenderManifests
    <3>2. todo' # {} BY <1>5, <2>2, UserDataIsRendered DEF RenderManifests
    <3> QED BY <1>5, <2>2, <3>1, <3>2 DEF RenderManifests, crVars
  <2> QED BY <2>1, <2>2
<1>6. ASSUME UNCHANGED <<mishaps, edits>>, GetExisting PROVE ManifestTypeOK'
  BY <1>6, CurrentIsManifest DEF GetExisting, crVars
<1>7. ASSUME UNCHANGED <<mishaps, edits>>, NEW f \in Names, ApplyObject(f) PROVE ManifestTypeOK'
  <2>1. f = Current /\ f \in Names /\ pc = "write" /\ UNCHANGED <<crVars, inputs, failures>>
    BY <1>7 DEF ApplyObject
  <2>2. [is |-> Content(f, data), notes |-> found.notes] \in Objects BY DEF Content, Objects
  <2>3. CASE Applied(f, [is |-> Content(f, data), notes |-> found.notes])
    BY <1>7, <2>1, <2>2, <2>3, ManifestTypeApplied
  <2>4. CASE Applied(f, cluster[f]) BY <1>7, <2>1, <2>4, ManifestTypeApplied
  <2>5. CASE PassEnds /\ UNCHANGED cluster BY <1>7, <2>1, <2>5, BlankPass DEF crVars
  <2> QED BY <1>7, <2>3, <2>4, <2>5 DEF ApplyObject
<1>8. ASSUME UNCHANGED <<mishaps, edits>>, UpdateStatus PROVE ManifestTypeOK'
  <2>1. recorded' \in {{}} \cup {{s} : s \in Specs}
    BY <1>8 DEF UpdateStatus
  <2> QED BY <1>8, <2>1, BlankPass DEF UpdateStatus
<1>9. ASSUME UNCHANGED mishaps, Abort PROVE ManifestTypeOK'
  BY <1>9, BlankPass, ManifestAssumption DEF Abort, crVars
<1>10. ASSUME UNCHANGED mishaps, OthersMove PROVE ManifestTypeOK'
  <2>1. edits' \in 0..MaxEdits /\ UNCHANGED failures BY <1>10, ManifestAssumption DEF OthersMove
  <2>2. CASE EditCR BY <1>10, <2>1, <2>2 DEF EditCR
  <2>3. ASSUME NEW k \in {"userData", "image"}, InputChanges(k) PROVE ManifestTypeOK'
    BY <1>10, <2>1, <2>3 DEF InputChanges, crVars, passVars
  <2>4. ASSUME NEW f \in Names, ObjectChanged(f) PROVE ManifestTypeOK'
    <3>1. Changed \subseteq Values BY DEF Changed, Values, Fields
    <3>2. [cluster[f] EXCEPT !.is = Changed] \in Objects BY <3>1 DEF Objects
    <3> QED BY <1>10, <2>1, <2>4, <3>2 DEF ObjectChanged, crVars, passVars
  <2>5. ASSUME NEW f \in Names, ObjectRemoved(f) PROVE ManifestTypeOK'
    <3>1. Absent \in Objects BY DEF Absent, Objects
    <3> QED BY <1>10, <2>1, <2>5, <3>1 DEF ObjectRemoved, crVars, passVars
  <2>6. ASSUME NEW f \in Names, NEW n \in Notes, ObjectAnnotated(f, n) PROVE ManifestTypeOK'
    <3>1. [cluster[f] EXCEPT !.notes = @ \cup {n}] \in Objects BY DEF Objects
    <3> QED BY <1>10, <2>1, <2>6, <3>1 DEF ObjectAnnotated, crVars, passVars
  <2> QED BY <1>10, <2>2, <2>3, <2>4, <2>5, <2>6 DEF OthersMove
<1> QED BY <1>1, <1>2, <1>3, <1>4, <1>5, <1>6, <1>7, <1>8, <1>9, <1>10 DEF Next, PassStep

\* Everything the pass and the cluster hold is of its kind, whatever the others do.
THEOREM ManifestTypeCorrect == Spec => []ManifestTypeOK
<1>1. Init => ManifestTypeOK BY ManifestTypeInit
<1>2. ManifestTypeOK /\ [Next]_vars => ManifestTypeOK' BY ManifestTypeStep
<1> QED BY <1>1, <1>2, PTL DEF Spec

-----------------------------------------------------------------------------
(* The notes of others survive every pass.                                 *)

\* The object that is replaced had no notes but those on the one written.
LEMMA AppliedKeepsNotes ==
  ASSUME ManifestTypeOK, NEW f \in Names, NEW o \in Objects, Applied(f, o),
         cluster[f].notes \subseteq o.notes
  PROVE  \A g \in Names : cluster[g].notes \subseteq cluster'[g].notes
  BY DEF Applied, ManifestTypeOK

LEMMA NotesKeptStep ==
  ASSUME ManifestTypeOK, [Next]_vars, edits' = edits
  PROVE  \A f \in Names : cluster[f].notes \subseteq cluster'[f].notes
<1>1. edits \in Nat BY ManifestAssumption DEF ManifestTypeOK
<1>2. ~OthersMove BY <1>1 DEF OthersMove
<1>3. CASE UNCHANGED cluster BY <1>3
<1>4. ASSUME NEW f \in Names, ApplyObject(f)
      PROVE  \A g \in Names : cluster[g].notes \subseteq cluster'[g].notes
  <2>1. cluster[f] \in Objects BY DEF ManifestTypeOK
  <2>2. [is |-> Content(f, data), notes |-> found.notes] \in Objects
    BY DEF Content, Objects, ManifestTypeOK
  <2>3. CASE cluster[f] = found /\ Applied(f, [is |-> Content(f, data), notes |-> found.notes])
    BY <2>2, <2>3, AppliedKeepsNotes
  <2>4. CASE Applied(f, cluster[f]) BY <2>1, <2>4, AppliedKeepsNotes
  <2>5. CASE UNCHANGED cluster BY <2>5
  <2> QED BY <1>4, <2>3, <2>4, <2>5 DEF ApplyObject
<1>5. UNCHANGED cluster \/ \E f \in Names : ApplyObject(f)
  BY <1>2 DEF Next, PassStep, Abort, Reconcile, NodePass, GetUserData, RenderManifests,
              GetExisting, UpdateStatus, vars
<1> QED BY <1>3, <1>4, <1>5

\* However others write and delete the objects between the operator's read and its
\* write, no pass takes a label or an annotation of theirs away.
THEOREM NotesSurvive == Spec => NotesKept
<1>1. ManifestTypeOK /\ [Next]_vars =>
        [edits' = edits => \A f \in Names : cluster[f].notes \subseteq cluster'[f].notes]_vars
  BY NotesKeptStep
<1> QED BY <1>1, ManifestTypeCorrect, PTL DEF Spec, NotesKept

-----------------------------------------------------------------------------
(* What is recorded is in the cluster.                                     *)

\* The manifest f is as the pass wants it.
Done(f) == Content(f, Of(mine)) \subseteq cluster[f].is

(***************************************************************************)
(* While edits wait and nobody else writes the objects: the pass works for *)
(* the spec of the CR; what it has walked past is as that spec wants it;   *)
(* and once the spec is recorded all of it is, so that the writes of later *)
(* passes leave it so.                                                     *)
(***************************************************************************)
RecordedInv ==
    mishaps \cap {"hasty_edit", "foreign_change"} = {} =>
        /\ pc # "idle" => mine = spec
        /\ pc \in {"image", "get", "write"} => Of(mine) \subseteq data
        /\ pc = "status" => \A f \in Rendered(mine) : Done(f)
        /\ pc \in {"get", "write"} =>
              \A i \in DOMAIN Files \ todo : Files[i] \in Rendered(mine) => Done(Files[i])
        /\ pc = "write" => found.is = cluster[Current].is
        /\ recorded = {spec} =>
              \A f \in Rendered(spec) : Content(f, Of(spec)) \subseteq cluster[f].is

LEMMA RecordedInvInit == Init => RecordedInv
  BY DEF Init, PassInit, RecordedInv

\* A write of what the data say changes none of the objects that were done.
LEMMA AppliedIsDone ==
  ASSUME ManifestTypeOK, RecordedInv, mishaps \cap {"hasty_edit", "foreign_change"} = {},
         pc = "write", NEW f \in Names, f = Current, NEW o \in Objects,
         Content(f, Of(mine)) \subseteq o.is, Applied(f, o), UNCHANGED <<mishaps, crVars>>
  PROVE  RecordedInv'
<1> USE DEF ManifestTypeOK
<1> DEFINE k == FirstOf(todo)
<1>1. k \in todo /\ f = Files[k] BY CurrentIsManifest DEF Current
<1>2. /\ mine = spec /\ Of(mine) \subseteq data
      /\ \A i \in DOMAIN Files \ todo : Files[i] \in Rendered(mine) => Done(Files[i])
      /\ recorded = {spec} => \A g \in Rendered(spec) : Content(g, Of(spec)) \subseteq cluster[g].is
  BY DEF RecordedInv
<1>3. /\ mine' = mine /\ data' = data /\ spec' = spec /\ recorded' = recorded
      /\ cluster' = [cluster EXCEPT ![f] = o]
      /\ todo' = todo \ {k} /\ pc' = (IF todo' = {} THEN "status" ELSE "get")
  BY DEF Applied, crVars
<1>4. \A g \in Names : Done(g) => Done(g)'
  BY <1>3 DEF Done
<1>5. Done(f)' BY <1>3 DEF Done
<1>6. \A i \in DOMAIN Files \ todo' : Files[i] \in Rendered(mine)' => Done(Files[i])'
  <2> SUFFICES ASSUME NEW i \in DOMAIN Files \ todo', Files[i] \in Rendered(mine)'
               PROVE  Done(Files[i])'
    OBVIOUS
  <2>1. Files[i] \in Names /\ Files[i] \in Rendered(mine) BY <1>3 DEF Names, Rendered
  <2>2. CASE i = k BY <1>1, <1>5, <2>2
  <2>3. CASE i # k BY <1>2, <1>3, <1>4, <2>1, <2>3
  <2> QED BY <2>2, <2>3
<1>7. pc' = "status" => \A g \in Rendered(mine)' : Done(g)'
  BY <1>3, <1>6 DEF Rendered, Names
<1>8. recorded' = {spec'} => \A g \in Rendered(spec') : Content(g, Of(spec')) \subseteq cluster'[g].is
  BY <1>2, <1>3, <1>4 DEF Done, Rendered
<1> QED BY <1>2, <1>3, <1>6, <1>7, <1>8 DEF RecordedInv

LEMMA RecordedInvStep == ManifestTypeOK /\ RecordedInv /\ [Next]_vars => RecordedInv'
<1> SUFFICES ASSUME ManifestTypeOK, RecordedInv, [Next]_vars,
                    mishaps \cap {"hasty_edit", "foreign_change"} = {}
             PROVE  RecordedInv'
  BY DEF RecordedInv, Next, vars
<1> USE DEF ManifestTypeOK
<1>1. CASE UNCHANGED vars
  BY <1>1 DEF vars, crVars, passVars, RecordedInv, Done, Current
<1>2. ASSUME UNCHANGED <<spec, recorded, cluster>>, pc' = "idle" PROVE RecordedInv'
  BY <1>2 DEF RecordedInv
<1>3. CASE PassStep /\ UNCHANGED mishaps
  <2>1. CASE Reconcile BY <2>1 DEF Reconcile, crVars, RecordedInv
  <2>2. CASE NodePass BY <2>2 DEF NodePass, Proceed, crVars, RecordedInv
  <2>3. CASE GetUserData BY <1>2, <2>3 DEF GetUserData, PassEnds, crVars, RecordedInv
  <2>4. CASE RenderManifests
    <3>1. CASE pc' = "idle" BY <1>2, <2>4, <3>1 DEF RenderManifests, crVars
    <3>2. CASE pc' # "idle"
      <4>1. /\ mine' = mine /\ spec' = spec /\ recorded' = recorded /\ cluster' = cluster
            /\ pc' = "get" /\ data \subseteq data'
            /\ todo' = {i \in DOMAIN Files : Files[i] \in Rendered(mine)}
        BY <2>4, <3>2 DEF RenderManifests, PassEnds, crVars
      <4>2. pc = "image" BY <2>4 DEF RenderManifests
      <4> QED BY <4>1, <4>2 DEF RecordedInv
    <3> QED BY <3>1, <3>2
  <2>5. CASE GetExisting
    <3>1. /\ found' = cluster[Current] /\ pc = "get" /\ pc' = "write"
          /\ UNCHANGED <<mine, data, todo, fresh, spec, recorded, cluster>>
      BY <2>5 DEF GetExisting, crVars
    <3>2. \A f \in Names : Done(f)' <=> Done(f) BY <3>1 DEF Done
    <3>3. found'.is = cluster'[Current'].is BY <3>1 DEF Current
    <3>4. \A i \in DOMAIN Files : Files[i] \in Names BY DEF Names
    <3> QED BY <3>1, <3>2, <3>3, <3>4 DEF RecordedInv
  <2>6. ASSUME NEW f \in Names, ApplyObject(f) PROVE RecordedInv'
    <3> DEFINE wanted == [is |-> Content(f, data), notes |-> found.notes]
    <3>1. pc = "write" /\ f = Current /\ Of(mine) \subseteq data /\ found.is = cluster[f].is
          /\ UNCHANGED crVars
      BY <2>6 DEF ApplyObject, RecordedInv
    <3>2. wanted \in Objects BY DEF Content, Objects
    <3>3. Content(f, Of(mine)) \subseteq Content(f, data) BY <3>1 DEF Content
    <3>4. CASE Applied(f, wanted) BY <1>3, <3>1, <3>2, <3>3, <3>4, AppliedIsDone
    <3>5. CASE found = wanted /\ Applied(f, cluster[f])
      <4>1. cluster[f] \in Objects /\ Content(f, Of(mine)) \subseteq cluster[f].is
        BY <3>1, <3>3, <3>5
      <4> QED BY <1>3, <3>1, <3>5, <4>1, AppliedIsDone
    <3>6. CASE PassEnds /\ UNCHANGED cluster BY <1>2, <3>1, <3>6 DEF PassEnds, crVars
    <3> QED BY <2>6, <3>4, <3>5, <3>6 DEF ApplyObject
  <2>7. CASE UpdateStatus
    <3>1. pc = "status" /\ mine = spec /\ \A f \in Rendered(mine) : Done(f)
      BY <2>7 DEF UpdateStatus, RecordedInv
    <3> QED BY <2>7, <3>1 DEF UpdateStatus, PassEnds, RecordedInv, Done
  <2> QED BY <1>3, <2>1, <2>2, <2>3, <2>4, <2>5, <2>6, <2>7 DEF PassStep
<1>4. CASE Abort BY <1>2, <1>4 DEF Abort, PassEnds, crVars
<1>5. CASE OthersMove /\ UNCHANGED mishaps
  <2>1. CASE EditCR
    <3>1. pc = "idle" /\ pc' = "idle" /\ recorded = {spec} /\ recorded' = recorded /\ spec' # spec
      BY <2>1 DEF EditCR
    <3> QED BY <3>1 DEF RecordedInv
  <2>2. ASSUME NEW k \in {"userData", "image"}, InputChanges(k) PROVE RecordedInv'
    BY <1>5, <2>2 DEF InputChanges, crVars, passVars, RecordedInv, Done, Current
  <2>3. ASSUME NEW f \in Names, ObjectChanged(f) \/ ObjectRemoved(f) PROVE FALSE
    BY <2>3 DEF ObjectChanged, ObjectRemoved
  <2>4. ASSUME NEW f \in Names, NEW n \in Notes, ObjectAnnotated(f, n) PROVE RecordedInv'
    <3>1. cluster' = [cluster EXCEPT ![f].notes = @ \cup {n}] /\ UNCHANGED <<crVars, passVars>>
      BY <2>4 DEF ObjectAnnotated
    <3>2. \A g \in Names : cluster'[g].is = cluster[g].is BY <3>1 DEF Objects
    <3>3. Current \in Names \/ todo = {} BY CurrentIsManifest
    <3>4. \A i \in DOMAIN Files : Files[i] \in Names BY DEF Names
    <3> QED BY <1>5, <3>1, <3>2, <3>3, <3>4 DEF crVars, passVars, RecordedInv, Done, Current, Rendered
  <2> QED BY <1>5, <2>1, <2>2, <2>3, <2>4 DEF OthersMove
<1> QED BY <1>1, <1>3, <1>4, <1>5 DEF Next

\* As long as edits wait for the last one to be recorded and nobody else writes the
\* objects, the spec that is recorded as applied is applied, whatever pass is under
\* way and wherever the last one failed.
THEOREM RecordedStays == Spec => []RecordedIsRendered
<1>1. Init => RecordedInv BY RecordedInvInit
<1>2. ManifestTypeOK /\ RecordedInv /\ [Next]_vars => RecordedInv' BY RecordedInvStep
<1>3. RecordedInv => RecordedIsRendered BY DEF RecordedInv, RecordedIsRendered
<1> QED BY <1>1, <1>2, <1>3, ManifestTypeCorrect, PTL DEF Spec

-----------------------------------------------------------------------------
(* Machines are made from a complete configuration.                        *)

There(f) == cluster[f] # Absent

(***************************************************************************)
(* While nobody takes objects away: what the pass has walked past is there *)
(* and an object that was found still is; before the first spec is         *)
(* recorded there is no other spec a pass could have worked for.           *)
(***************************************************************************)
ConfigInv ==
    "foreign_change" \notin mishaps =>
        /\ pc \in {"image", "get", "write"} => <<"role", "r">> \in data
        /\ pc \in {"get", "write", "status"} =>
              \A i \in DOMAIN Files \ todo : Files[i] \in Rendered(mine) => There(Files[i])
        /\ pc = "write" /\ found # Absent => There(Current)
        /\ There("machineset") => There("user-data") /\ There("pool")
        /\ "hasty_edit" \notin mishaps /\ recorded = {} =>
              /\ pc # "idle" => mine = spec
              /\ There("machineset") =>
                    \A f \in Rendered(spec) \cap {"pinning", "selinuxoff"} : There(f)

LEMMA ConfigInvInit == Init => ConfigInv
<1>1. "machineset" \in Names BY SixFiles DEF Files
<1> QED BY <1>1 DEF Init, PassInit, ConfigInv, There

LEMMA FilesInOrder ==
  /\ Files[1] = "user-data" /\ Files[2] = "pinning" /\ Files[3] = "selinuxoff"
  /\ Files[4] = "pool" /\ Files[5] = "machineset" /\ Files[6] = "compute"
  BY DEF Files

\* The MachineSet is written after everything it relies on.
LEMMA AppliedInOrder ==
  ASSUME ManifestTypeOK, ConfigInv, "foreign_change" \notin mishaps,
         pc = "write", NEW f \in Names, f = Current, NEW o \in Objects, o # Absent,
         Applied(f, o), UNCHANGED <<mishaps, crVars>>
  PROVE  ConfigInv'
<1> USE DEF ManifestTypeOK
<1> DEFINE k == FirstOf(todo)
<1>1. k \in todo /\ f = Files[k] /\ \A j \in todo : k <= j
  BY CurrentIsManifest, SixFiles, FirstIsLeft DEF Current
<1>2. /\ mine' = mine /\ data' = data /\ spec' = spec /\ recorded' = recorded /\ mishaps' = mishaps
      /\ cluster' = [cluster EXCEPT ![f] = o] /\ found' = Absent
      /\ todo' = todo \ {k} /\ pc' \in {"status", "get"}
  BY DEF Applied, crVars
<1>3. <<"role", "r">> \in data BY DEF ConfigInv
<1>4. There(f)' /\ \A g \in Names : There(g) => There(g)' BY <1>2 DEF There
<1>5. \A i \in DOMAIN Files \ todo' : Files[i] \in Rendered(mine)' => There(Files[i])'
  <2> SUFFICES ASSUME NEW i \in DOMAIN Files \ todo', Files[i] \in Rendered(mine)'
               PROVE  There(Files[i])'
    OBVIOUS
  <2>1. Files[i] \in Names /\ Files[i] \in Rendered(mine) BY <1>2 DEF Names, Rendered
  <2>2. CASE i = k BY <1>1, <1>4, <2>2
  <2>3. CASE i # k BY <1>2, <1>4, <2>1, <2>3 DEF ConfigInv
  <2> QED BY <2>2, <2>3
<1>6. CASE f # "machineset"
  <2>1. There("machineset")' => There("machineset") BY <1>2, <1>6, SixFiles, FilesInOrder DEF There
  <2>2. {"user-data", "pinning", "selinuxoff", "pool"} \subseteq Names BY SixFiles, FilesInOrder
  <2> QED BY <1>2, <1>3, <1>4, <1>5, <2>1, <2>2 DEF ConfigInv, Rendered
<1>7. CASE f = "machineset"
  <2>1. k = 5
    <3>1. k \in {1, 2, 3, 4, 5, 6} BY <1>1, SixFiles
    <3> QED BY <1>1, <1>7, <3>1, FilesInOrder
  <2>2. 1 \notin todo /\ 2 \notin todo /\ 3 \notin todo /\ 4 \notin todo BY <1>1, <2>1
  <2>3. \A i \in {1, 2, 3, 4} : Files[i] \in Rendered(mine) => There(Files[i])'
    BY <1>4, <2>2, SixFiles DEF ConfigInv
  <2>4. "user-data" \in Rendered(mine) /\ "pool" \in Rendered(mine)
    BY SixFiles, FilesInOrder DEF Rendered
  <2>5. There("user-data")' /\ There("pool")' BY <2>3, <2>4, FilesInOrder
  <2>6. \A g \in Rendered(mine) \cap {"pinning", "selinuxoff"} : There(g)' BY <2>3, FilesInOrder
  <2>7. "hasty_edit" \notin mishaps /\ recorded = {} => mine = spec BY DEF ConfigInv
  <2> QED BY <1>2, <1>3, <1>5, <2>5, <2>6, <2>7 DEF ConfigInv, Rendered
<1> QED BY <1>6, <1>7

LEMMA ConfigInvStep == ManifestTypeOK /\ ConfigInv /\ [Next]_vars => ConfigInv'
<1> SUFFICES ASSUME ManifestTypeOK, ConfigInv, [Next]_vars, "foreign_change" \notin mishaps
             PROVE  ConfigInv'
  BY DEF ConfigInv, Next, vars
<1> USE DEF ManifestTypeOK
<1>1. CASE UNCHANGED vars
  BY <1>1 DEF vars, crVars, passVars, ConfigInv, There, Current
<1>2. ASSUME UNCHANGED <<mishaps, spec, cluster>>, recorded' = recorded \/ recorded' # {}, pc' = "idle"
      PROVE  ConfigInv'
  BY <1>2 DEF ConfigInv, There, Rendered
<1>3. CASE PassStep /\ UNCHANGED mishaps
  <2>1. CASE Reconcile BY <1>3, <2>1 DEF Reconcile, crVars, ConfigInv, There, Rendered
  <2>2. CASE NodePass BY <1>3, <2>2 DEF NodePass, Proceed, crVars, ConfigInv, There, Rendered
  <2>3. CASE GetUserData
    <3>1. CASE PassEnds BY <1>2, <1>3, <2>3, <3>1 DEF GetUserData, PassEnds, crVars
    <3>2. CASE ~PassEnds
      <4>1. pc = "userdata" /\ pc' = "image" /\ UNCHANGED <<mine, spec, recorded, cluster>>
            /\ Of(mine) \subseteq data'
        BY <2>3, <3>2 DEF GetUserData, crVars
      <4> QED BY <1>3, <4>1 DEF Of, ConfigInv, There, Rendered
    <3> QED BY <3>1, <3>2
  <2>4. CASE RenderManifests
    <3>1. CASE PassEnds BY <1>2, <1>3, <2>4, <3>1 DEF RenderManifests, PassEnds, crVars
    <3>2. CASE ~PassEnds
      <4>1. /\ mine' = mine /\ spec' = spec /\ recorded' = recorded /\ cluster' = cluster
            /\ pc = "image" /\ pc' = "get" /\ data \subseteq data'
            /\ todo' = {i \in DOMAIN Files : Files[i] \in Rendered(mine)}
        BY <2>4, <3>2 DEF RenderManifests, crVars
      <4> QED BY <1>3, <4>1 DEF ConfigInv, There, Rendered
    <3> QED BY <3>1, <3>2
  <2>5. CASE GetExisting
    <3>1. /\ found' = cluster[Current] /\ pc = "get" /\ pc' = "write"
          /\ UNCHANGED <<mine, data, todo, fresh, spec, recorded, cluster>>
      BY <2>5 DEF GetExisting, crVars
    <3> QED BY <1>3, <3>1 DEF ConfigInv, There, Rendered, Current
  <2>6. ASSUME NEW f \in Names, ApplyObject(f) PROVE ConfigInv'
    <3> DEFINE wanted == [is |-> Content(f, data), notes |-> found.notes]
    <3>1. pc = "write" /\ f = Current /\ <<"role", "r">> \in data /\ UNCHANGED crVars
      BY <2>6 DEF ApplyObject, ConfigInv
    <3>2. wanted \in Objects BY DEF Content, Objects
    <3>3. "role" \in Uses(f) BY SixFiles, FilesInOrder DEF Uses
    <3>4. wanted # Absent
      <4>1. <<"role", "r">> \in Content(f, data) BY <3>1, <3>3 DEF Content
      <4> QED BY <4>1 DEF Absent
    <3>5. CASE Applied(f, wanted) BY <1>3, <3>1, <3>2, <3>4, <3>5, AppliedInOrder
    <3>6. CASE found = wanted /\ Applied(f, cluster[f])
      <4>1. cluster[f] \in Objects /\ cluster[f] # Absent BY <3>1, <3>4, <3>6 DEF ConfigInv, There
      <4> QED BY <1>3, <3>1, <3>6, <4>1, AppliedInOrder
    <3>7. CASE PassEnds /\ UNCHANGED cluster BY <1>2, <1>3, <3>1, <3>7 DEF PassEnds, crVars
    <3> QED BY <2>6, <3>5, <3>6, <3>7 DEF ApplyObject
  <2>7. CASE UpdateStatus
    BY <1>2, <1>3, <2>7 DEF UpdateStatus, PassEnds
  <2> QED BY <1>3, <2>1, <2>2, <2>3, <2>4, <2>5, <2>6, <2>7 DEF PassStep
<1>4. CASE Abort /\ UNCHANGED mishaps BY <1>2, <1>4 DEF Abort, PassEnds, crVars
<1>5. CASE OthersMove /\ UNCHANGED mishaps
  <2>1. CASE EditCR
    <3>1. UNCHANGED <<recorded, cluster, pc, mine, data, todo, found>>
          /\ ("hasty_edit" \in mishaps \/ recorded # {})
      BY <2>1 DEF EditCR
    <3> QED BY <1>5, <3>1 DEF ConfigInv, There, Rendered, Current
  <2>2. ASSUME NEW j \in {"userData", "image"}, InputChanges(j) PROVE ConfigInv'
    BY <1>5, <2>2 DEF InputChanges, crVars, passVars, ConfigInv, There, Current, Rendered
  <2>3. ASSUME NEW f \in Names, ObjectChanged(f) \/ ObjectRemoved(f) PROVE FALSE
    BY <2>3 DEF ObjectChanged, ObjectRemoved
  <2>4. ASSUME NEW f \in Names, NEW n \in Notes, ObjectAnnotated(f, n) PROVE ConfigInv'
    <3>1. cluster' = [cluster EXCEPT ![f].notes = @ \cup {n}] /\ UNCHANGED <<crVars, passVars>>
          /\ cluster[f] # Absent
      BY <2>4 DEF ObjectAnnotated
    <3>2. cluster'[f] # Absent BY <3>1 DEF Absent, Objects
    <3>3. \A g \in Names : There(g)' <=> There(g) BY <3>1, <3>2 DEF There
    <3>4. todo # {} => Current \in Names BY CurrentIsManifest
    <3>5. \A i \in DOMAIN Files : Files[i] \in Names BY DEF Names
    <3>6. {"user-data", "pinning", "selinuxoff", "pool", "machineset"} \subseteq Names
      BY SixFiles, FilesInOrder
    <3>7. Current' = Current BY <3>1 DEF passVars, Current
    <3> QED BY <1>5, <3>1, <3>3, <3>4, <3>5, <3>6, <3>7 DEF crVars, passVars, ConfigInv, Rendered
  <2> QED BY <1>5, <2>1, <2>2, <2>3, <2>4 DEF OthersMove
<1> QED BY <1>1, <1>3, <1>4, <1>5 DEF Next

\* As long as nobody takes objects away, the MachineSet is not there before the user
\* data, the pool and, on the way to the first spec that is recorded, the
\* MachineConfigs of that spec: wherever passes fail, however inputs come and go.
THEOREM MachinesComeLast == Spec => []ConfiguredBeforeMachines
<1>1. ManifestTypeOK /\ ConfigInv /\ [Next]_vars => ConfigInv' BY ConfigInvStep
<1>2. ConfigInv => ConfiguredBeforeMachines BY DEF ConfigInv, There, ConfiguredBeforeMachines
<1> QED BY ConfigInvInit, <1>1, <1>2, ManifestTypeCorrect, PTL DEF Spec
=============================================================================
