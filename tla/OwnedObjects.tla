---------------------------- MODULE OwnedObjects ----------------------------
(***************************************************************************)
(* The objects Reconcile creates outside the CR's namespace.  Owner        *)
(* references do not reach there, so the operator marks them with the      *)
(* owner labels, keeps a finalizer on the CR and deletes them itself: the  *)
(* rendered objects (user-data secret, MachineConfig, MachineConfigPool,   *)
(* MachineSet) by label, the copies of the infra DaemonSets by label in    *)
(* the namespaces that the CR's spec and status name.                      *)
(*                                                                         *)
(* The names of all of them, and of the finalizer, contain the role.  One  *)
(* pass runs at a time, on a copy of the CR read at its start.  The drain  *)
(* of the nodes that precedes the deletion is CRDeletion's.                *)
(***************************************************************************)
EXTENDS Naturals, FiniteSets

CONSTANTS
    Roles,          \* values of Spec.RoleName
    Infra,          \* infra DaemonSets, each in a namespace of its own
    MaxEdits,       \* bound on the edits of the CR and of what others own
    MaxFailures,    \* bound on failed calls and operator crashes
    Scenarios       \* which of MishapKinds may happen together

(***************************************************************************)
(* "role_edit": Spec.RoleName is edited.                                   *)
(* "hasty_edit": the CR is edited before the last edit has been recorded.  *)
(* "foreign_removal": somebody else deletes an owned object.               *)
(* "originals_change": an original DaemonSet is updated or removed.        *)
(* "cache_lag": the lists of the deletion show outdated objects.           *)
(* "many_namespaces": WATCH_NAMESPACE is a list, as in the README, and the *)
(*     cached client lists every object without namespace once for each.   *)
(***************************************************************************)
MishapKinds == {"role_edit", "hasty_edit", "foreign_removal", "originals_change", "cache_lag",
                "many_namespaces"}

ASSUME ObjectsAssumption ==
    /\ Roles # {}
    /\ MaxEdits \in Nat /\ MaxFailures \in Nat
    /\ Scenarios \subseteq SUBSET MishapKinds

VARIABLES
    mishaps,        \* the mishaps this CR lives with
    crState,        \* "live", "deleting" (deletion timestamp set) or "gone"
    spec,           \* [role, infra]: Spec.RoleName and Spec.InfraDaemonSets
    status,         \* [infra, specMDS]: Status.InfraDaemonSets, and the spec last applied
    finalizers,     \* the roles whose finalizer is on the CR
    objects,        \* rendered objects <<kind, role>> with the owner labels
    seen,           \* the rendered objects as the informer cache shows them, if it lags
    original,       \* original[e]: the version of the original DaemonSet, or "gone"
    daemonSets,     \* copies <<infra, role, version>> with the owner labels
    pc,             \* the next call of the pass
    mine,           \* the spec as the pass read it
    todo,           \* infra DaemonSets the loop at hand has not come to yet
    listed,         \* what the list to be deleted still holds: <<object, copy>>
    fresh,          \* nobody else has written the CR since it was read
    edits,          \* edits and foreign removals so far
    failures        \* failed calls and crashes so far

crVars   == <<crState, spec, status, finalizers>>
ownVars  == <<objects, daemonSets>>
passVars == <<pc, mine, todo, listed, fresh>>
vars     == <<mishaps, original, crVars, ownVars, seen, passVars, edits, failures>>

\* The kinds in the order of bindata/worker-osp.
Kinds == {"secret", "config", "pool", "set"}
After == [secret |-> "config", config |-> "pool", pool |-> "set", set |-> "infra"]
Specs == [role : Roles, infra : SUBSET Infra]
Blank == [role |-> CHOOSE r \in Roles : TRUE, infra |-> {}]

Versions == {"v1", "v2"}

OwnedTypeOK ==
    /\ mishaps \in Scenarios
    /\ original \in [Infra -> Versions \cup {"gone"}]
    /\ crState \in {"live", "deleting", "gone"}
    /\ spec \in Specs /\ mine \in Specs
    /\ status \in [infra : SUBSET Infra, specMDS : SUBSET Specs]
    /\ finalizers \subseteq Roles
    /\ {objects, seen} \subseteq SUBSET (Kinds \X Roles) /\ listed \subseteq (Kinds \X Roles) \X {1, 2}
    /\ daemonSets \subseteq Infra \X Roles \X Versions
    /\ \A d, f \in daemonSets : d[1] = f[1] /\ d[2] = f[2] => d = f
    /\ pc \in Kinds \cup {"idle", "finalizer", "infra", "extra", "status", "daemonsets", "list_set",
                          "delete_set", "delete_secret", "list_pool", "delete_pool", "list_config",
                          "delete_config", "finish"}
    /\ todo \subseteq Infra
    /\ todo # {} => pc \in {"infra", "extra", "daemonsets"}
    /\ listed # {} => pc \in {"delete_set", "delete_pool", "delete_config", "finish"}
    /\ fresh \in BOOLEAN
    /\ pc = "finalizer" /\ fresh => crState = "live"
    /\ crState = "gone" => finalizers = {}

PassInit == pc = "idle" /\ mine = Blank /\ todo = {} /\ listed = {} /\ fresh = TRUE

Init ==
    /\ mishaps \in Scenarios /\ original = [e \in Infra |-> "v1"]
    /\ crState = "live" /\ spec \in Specs
    /\ status = [infra |-> {}, specMDS |-> {}] /\ finalizers = {}
    /\ objects = {} /\ seen = {} /\ daemonSets = {}
    /\ PassInit
    /\ edits = 0 /\ failures = 0

Proceed(next) == pc' = next /\ UNCHANGED <<mine, todo, listed, fresh>>

PassEnds == pc' = "idle" /\ mine' = Blank /\ todo' = {} /\ listed' = {} /\ fresh' = TRUE

-----------------------------------------------------------------------------
(* The pass over a live CR.                                                *)

Reconcile ==
    /\ pc = "idle" /\ crState = "live"
    /\ pc' = IF spec.role \in finalizers THEN "secret" ELSE "finalizer"
    /\ mine' = spec /\ todo' = {} /\ listed' = {} /\ fresh' = TRUE
    /\ UNCHANGED <<crVars, ownVars, edits, failures>>

\* Faulty: the finalizer is forgotten.
AddFinalizer_Forgotten ==
    /\ pc = "finalizer"
    /\ Proceed("secret")
    /\ UNCHANGED <<crVars, ownVars, edits, failures>>

AddFinalizer ==
    /\ pc = "finalizer"
    /\ IF fresh THEN finalizers' = finalizers \cup {mine.role} /\ Proceed("secret")
                ELSE PassEnds /\ UNCHANGED finalizers
    /\ UNCHANGED <<crState, spec, status, ownVars, edits, failures>>

\* ApplyObject: create the rendered object, or overwrite it.
ApplyObject(k) ==
    /\ pc = k
    /\ objects' = objects \cup {<<k, mine.role>>}
    /\ pc' = After[k] /\ todo' = IF k = "set" THEN mine.infra ELSE {}
    /\ UNCHANGED <<crVars, daemonSets, mine, listed, fresh, edits, failures>>

Copy(e, role) == {d \in daemonSets : d[1] = e /\ d[2] = role}

\* Faulty: a copy that is there already is left as it is.
EnsureInfraDaemonSet_NoUpdate(e) ==
    /\ pc = "infra" /\ e \in todo
    /\ \/ original[e] = "gone" /\ PassEnds /\ UNCHANGED daemonSets
       \/ /\ original[e] # "gone"
          /\ daemonSets' = IF Copy(e, mine.role) # {} THEN daemonSets
                           ELSE daemonSets \cup {<<e, mine.role, original[e]>>}
          /\ todo' = todo \ {e} /\ UNCHANGED <<pc, mine, listed, fresh>>
    /\ UNCHANGED <<crVars, objects, edits, failures>>

\* ensureInfraDaemonsets: first the copies that the spec asks for are created or
\* brought up to their originals; without its original a copy is an error ...
EnsureInfraDaemonSet(e) ==
    /\ pc = "infra" /\ e \in todo
    /\ \/ original[e] = "gone" /\ PassEnds /\ UNCHANGED daemonSets
       \/ /\ original[e] # "gone"
          /\ daemonSets' = (daemonSets \ Copy(e, mine.role)) \cup {<<e, mine.role, original[e]>>}
          /\ todo' = todo \ {e} /\ UNCHANGED <<pc, mine, listed, fresh>>
    /\ UNCHANGED <<crVars, objects, edits, failures>>

InfraDaemonSetsEnsured ==
    /\ pc = "infra" /\ todo = {}
    /\ pc' = "extra" /\ todo' = status.infra \ mine.infra
    /\ UNCHANGED <<crVars, ownVars, mine, listed, fresh, edits, failures>>

\* Faulty: the DaemonSet is deleted by the name of its original.
RemoveExtraDaemonSet_WrongName(e) ==
    /\ pc = "extra" /\ e \in todo
    /\ todo' = todo \ {e}
    /\ UNCHANGED <<crVars, ownVars, pc, mine, listed, fresh, edits, failures>>

\* ... then away with those that only the status knows, under today's role.
RemoveExtraDaemonSet(e) ==
    /\ pc = "extra" /\ e \in todo
    /\ daemonSets' = daemonSets \ Copy(e, mine.role)
    /\ todo' = todo \ {e}
    /\ UNCHANGED <<crVars, objects, pc, mine, listed, fresh, edits, failures>>

ExtraDaemonSetsRemoved ==
    /\ pc = "extra" /\ todo = {}
    /\ Proceed("status")
    /\ UNCHANGED <<crVars, ownVars, edits, failures>>

UpdateStatus ==
    /\ pc = "status"
    /\ status' = IF fresh THEN [infra |-> mine.infra, specMDS |-> {mine}] ELSE status
    /\ PassEnds
    /\ UNCHANGED <<crState, spec, finalizers, ownVars, edits, failures>>

-----------------------------------------------------------------------------
(* The pass over a CR that is being deleted: deleteOwnerRefLabeledObjects. *)

\* Without today's finalizer there is nothing to do.
ReconcileDeleted ==
    /\ pc = "idle" /\ crState = "deleting" /\ spec.role \in finalizers
    /\ pc' = "daemonsets" /\ mine' = spec /\ todo' = status.infra \cup spec.infra
    /\ listed' = {} /\ fresh' = TRUE
    /\ UNCHANGED <<crVars, ownVars, edits, failures>>

\* By label, so of every role, but only in the namespaces that are known.
DeleteDaemonSets(e) ==
    /\ pc = "daemonsets" /\ e \in todo
    /\ daemonSets' = {d \in daemonSets : d[1] # e}
    /\ todo' = todo \ {e}
    /\ UNCHANGED <<crVars, objects, pc, mine, listed, fresh, edits, failures>>

DaemonSetsDeleted ==
    /\ pc = "daemonsets" /\ todo = {}
    /\ Proceed("list_set")
    /\ UNCHANGED <<crVars, ownVars, edits, failures>>

Copies(k) == IF "many_namespaces" \in mishaps /\ k \in {"pool", "config"} THEN {1, 2} ELSE {1}

\* The lists come from the informer cache.
SeenObjects == IF "cache_lag" \in mishaps THEN seen ELSE objects

List(k, here, next) ==
    /\ pc = here
    /\ pc' = next /\ listed' = {o \in SeenObjects : o[1] = k} \X Copies(k)
    /\ UNCHANGED <<crVars, ownVars, mine, todo, fresh, edits, failures>>

\* Faulty: an object that is gone is tried over and over again.
DeleteListed_NotFoundRetried(here, next) ==
    /\ pc = here
    /\ \/ \E i \in listed :
            /\ i[1] \in objects
            /\ objects' = objects \ {i[1]} /\ listed' = listed \ {i}
            /\ UNCHANGED <<pc, mine, todo, fresh>>
       \/ listed = {} /\ Proceed(next) /\ UNCHANGED objects
    /\ UNCHANGED <<crVars, daemonSets, edits, failures>>

\* One by one.  A NotFound is returned, and Reconcile takes it for success.
DeleteListed(here, next) ==
    /\ pc = here
    /\ \/ \E i \in listed :
            /\ i[1] \in objects
            /\ objects' = objects \ {i[1]} /\ listed' = listed \ {i}
            /\ UNCHANGED <<pc, mine, todo, fresh>>
       \/ (\E i \in listed : i[1] \notin objects) /\ Proceed("finish") /\ UNCHANGED objects
       \/ listed = {} /\ Proceed(next) /\ UNCHANGED objects
    /\ UNCHANGED <<crVars, daemonSets, edits, failures>>

DeleteSecrets ==
    /\ pc = "delete_secret"
    /\ objects' = {o \in objects : o[1] # "secret"}
    /\ Proceed("list_pool")
    /\ UNCHANGED <<crVars, daemonSets, edits, failures>>

RemoveFinalizer ==
    /\ pc = "finish"
    /\ finalizers' = IF fresh THEN finalizers \ {mine.role} ELSE finalizers
    /\ crState' = IF finalizers' = {} THEN "gone" ELSE crState
    /\ PassEnds
    /\ UNCHANGED <<spec, status, ownVars, edits, failures>>

LivePassStep ==
    \/ Reconcile \/ AddFinalizer \/ \E k \in Kinds : ApplyObject(k)
    \/ (\E e \in Infra : EnsureInfraDaemonSet(e)) \/ InfraDaemonSetsEnsured
    \/ (\E e \in Infra : RemoveExtraDaemonSet(e)) \/ ExtraDaemonSetsRemoved
    \/ UpdateStatus

DeletionStep ==
    \/ ReconcileDeleted
    \/ (\E e \in Infra : DeleteDaemonSets(e)) \/ DaemonSetsDeleted
    \/ List("set", "list_set", "delete_set") \/ DeleteListed("delete_set", "delete_secret")
    \/ DeleteSecrets
    \/ List("pool", "list_pool", "delete_pool") \/ DeleteListed("delete_pool", "list_config")
    \/ List("config", "list_config", "delete_config") \/ DeleteListed("delete_config", "finish")
    \/ RemoveFinalizer

-----------------------------------------------------------------------------
(* What goes wrong, and the other writers.                                 *)

\* A call fails, or the operator crashes.
Abort ==
    /\ pc # "idle" /\ failures < MaxFailures
    /\ failures' = failures + 1
    /\ PassEnds
    /\ UNCHANGED <<crVars, ownVars, edits>>

Recorded == status.specMDS = {spec}

EditCR ==
    /\ crState = "live" /\ edits < MaxEdits
    /\ "hasty_edit" \in mishaps \/ (pc = "idle" /\ Recorded)
    /\ spec' \in Specs \ {spec}
    /\ "role_edit" \in mishaps \/ spec'.role = spec.role
    /\ fresh' = (pc = "idle") /\ edits' = edits + 1
    /\ UNCHANGED <<crState, status, finalizers, ownVars, pc, mine, todo, listed, failures>>

\* A CR without finalizer goes at once.
DeleteCR ==
    /\ crState = "live"
    /\ crState' = IF finalizers = {} THEN "gone" ELSE "deleting"
    /\ fresh' = (pc = "idle")
    /\ UNCHANGED <<spec, status, finalizers, ownVars, pc, mine, todo, listed, edits, failures>>

RemovedByOthers(o) ==
    /\ "foreign_removal" \in mishaps /\ edits < MaxEdits
    /\ o \in objects
    /\ objects' = objects \ {o}
    /\ edits' = edits + 1
    /\ UNCHANGED <<crVars, daemonSets, passVars, failures>>

\* Whoever owns the original DaemonSet rolls out a new version, or drops it.
OriginalChanges(e) ==
    /\ "originals_change" \in mishaps /\ edits < MaxEdits
    /\ original[e] # "gone"
    /\ \E v \in {"v2", "gone"} : original' = [original EXCEPT ![e] = v]
    /\ edits' = edits + 1
    /\ UNCHANGED <<crVars, ownVars, passVars, failures>>

\* Each kind has an informer of its own.
CacheCatchesUp(k) ==
    /\ "cache_lag" \in mishaps
    /\ seen' = {o \in seen : o[1] # k} \cup {o \in objects : o[1] = k}
    /\ UNCHANGED <<original, crVars, ownVars, passVars, edits, failures>>

Next ==
    /\ UNCHANGED mishaps
    /\ \/ /\ LivePassStep \/ DeletionStep \/ Abort \/ EditCR \/ DeleteCR
             \/ \E o \in Kinds \X Roles : RemovedByOthers(o)
          /\ UNCHANGED <<original, seen>>
       \/ (\E e \in Infra : OriginalChanges(e)) /\ UNCHANGED seen
       \/ \E k \in Kinds : CacheCatchesUp(k)

Spec == Init /\ [][Next]_vars

\* A pass that ended early is requeued.
FairSpec == Spec /\ WF_vars(Next /\ (LivePassStep \/ DeletionStep))

-----------------------------------------------------------------------------
(* Properties.                                                             *)

\* deleteOwnerRefLabeledObjects "cleans up namespaced objects outside the
\* default namespace": when the CR is gone, and with it whoever would clean up
\* later, no object with its owner labels is left.
AlwaysNothingOwnedLeft == crState = "gone" => objects = {} /\ daemonSets = {}

\* The same when edits wait for the last one to be recorded, nobody else deletes
\* the objects and the lists are exact.
NothingOwnedLeft ==
    mishaps \cap {"hasty_edit", "foreign_removal", "cache_lag", "many_namespaces"} = {}
        => AlwaysNothingOwnedLeft

\* controller.go, "Only create the new ones, deleting the old ones not needed
\* anymore": once a spec is recorded as applied, the copies of the infra
\* DaemonSets are those it asks for.
AlwaysDaemonSetsFollowSpec ==
    crState = "live" /\ pc = "idle" /\ Recorded =>
        {<<d[1], d[2]>> : d \in daemonSets} = spec.infra \X {spec.role}

\* The same as long as the role is not edited.
DaemonSetsFollowSpec ==
    mishaps \cap {"role_edit", "hasty_edit"} = {} => AlwaysDaemonSetsFollowSpec

\* controller.go, "as last step remove the finalizer on the operator CR to
\* finish delete": that step finishes it.
LastStepFinishes == [][finalizers' # finalizers /\ pc = "finish" => crState' = "gone"]_vars

\* A deleted CR goes, also without the original DaemonSets; only an edited role
\* may keep it.
CRGoes == "role_edit" \notin mishaps => (crState = "deleting" ~> crState = "gone")

\* A CR that lives on, with its originals, is recorded as applied in the end, and
\* its copies are what the originals are by then.
AppliedInTheEnd ==
    <>[](crState = "live" /\ \A e \in spec.infra : original[e] # "gone") =>
        <>[](Recorded /\ \A e \in spec.infra : Copy(e, spec.role) = {<<e, spec.role, original[e]>>})
=============================================================================
