------------------------- MODULE OwnedObjectsProofs -------------------------
(***************************************************************************)
(* What OwnedObjects leaves behind, and why it is nothing, for any roles,  *)
(* infra DaemonSets and failures: while edits of the CR wait, a pass works *)
(* for the CR as it is and the status knows where copies can be.           *)
(***************************************************************************)
EXTENDS OwnedObjects, TLAPS

Waiting == "hasty_edit" \notin mishaps
Quiet   == mishaps \cap {"hasty_edit", "foreign_removal", "cache_lag", "many_namespaces"} = {}
OneRole == mishaps \cap {"role_edit", "hasty_edit"} = {}

-----------------------------------------------------------------------------
(* The invariants.                                                         *)

LiveCalls     == Kinds \cup {"infra", "extra", "status"}
\* The calls of a deletion after those that delete DaemonSets, MachineSets, ...
AfterCopies   == {"list_set", "delete_set", "delete_secret", "list_pool", "delete_pool",
                  "list_config", "delete_config", "finish"}
AfterSets     == AfterCopies \ {"list_set", "delete_set"}
AfterSecrets  == AfterSets \ {"delete_secret"}
AfterPools    == AfterSecrets \ {"list_pool", "delete_pool"}
DeletionCalls == {"daemonsets"} \cup AfterCopies

\* A pass works for the CR as it is; it creates nothing before its finalizer is on
\* the CR, and nothing deletes for a CR that lives.
PassOrder ==
    /\ pc # "idle" => mine = spec
    /\ pc \in LiveCalls \cup DeletionCalls => spec.role \in finalizers
    /\ pc \in DeletionCalls => crState = "deleting"
    /\ crState = "gone" => pc \in {"idle", "finalizer"}
    /\ pc = "infra" => todo \subseteq spec.infra
    /\ pc = "extra" => todo \subseteq status.infra \ spec.infra
    /\ crState = "live" /\ Recorded => spec.role \in finalizers /\ status.infra = spec.infra

\* The CR has a finalizer for every role of which there is an object.
RolesGuarded ==
    crState = "live" \/ spec.role \in finalizers =>
        /\ \A o \in objects : o[2] \in finalizers
        /\ \A d \in daemonSets : d[2] \in finalizers

\* As long as the CR has had one role only, spec and status know every namespace
\* with a copy, and the loops of a pass narrow them down.
CopiesKnown ==
    finalizers \subseteq {spec.role} /\ (crState = "live" \/ spec.role \in finalizers) =>
        /\ \A d \in daemonSets : d[1] \in spec.infra \cup status.infra
        /\ pc = "extra" => \A d \in daemonSets : d[1] \in spec.infra \cup todo
        /\ pc = "status" => \A d \in daemonSets : d[1] \in spec.infra
        /\ pc = "daemonsets" => \A d \in daemonSets : d[1] \in todo
        /\ pc \in AfterCopies => daemonSets = {}

OfKind(k) == {o \in objects : o[1] = k}

\* The deletion goes by kind, and nobody creates or deletes objects besides it.
KindsDeleted ==
    /\ pc = "delete_set" => listed = OfKind("set") \X {1}
    /\ pc = "delete_pool" => listed = OfKind("pool") \X {1}
    /\ pc = "delete_config" => listed = OfKind("config") \X {1}
    /\ pc \in AfterSets => OfKind("set") = {}
    /\ pc \in AfterSecrets => OfKind("secret") = {}
    /\ pc \in AfterPools => OfKind("pool") = {}
    /\ pc = "finish" => OfKind("config") = {}

\* With one role: the copies there are, and those that have to be there.
CopiesFollow ==
    crState = "live" =>
        /\ \A d \in daemonSets : d[2] = spec.role /\ d[1] \in spec.infra \cup status.infra
        /\ pc = "infra" => \A e \in spec.infra \ todo : Copy(e, spec.role) # {}
        /\ pc = "extra" => \A d \in daemonSets : d[1] \in spec.infra \cup todo
        /\ pc = "status" => \A d \in daemonSets : d[1] \in spec.infra
        /\ pc \in {"extra", "status"} \/ Recorded => \A e \in spec.infra : Copy(e, spec.role) # {}

OwnedInv ==
    /\ Waiting => PassOrder
    /\ Quiet => RolesGuarded /\ CopiesKnown /\ KindsDeleted /\ NothingOwnedLeft
    /\ OneRole => CopiesFollow

-----------------------------------------------------------------------------
(* Types.                                                                  *)

LEMMA BlankIsSpec == Blank \in Specs
<1>1. (CHOOSE r \in Roles : TRUE) \in Roles BY ObjectsAssumption
<1> QED BY <1>1 DEF Blank, Specs

LEMMA OwnedTypeInit == Init => OwnedTypeOK
  BY BlankIsSpec, ObjectsAssumption DEF Init, PassInit, OwnedTypeOK, Versions, Kinds

LEMMA OwnedTypeStep == OwnedTypeOK /\ [Next]_vars => OwnedTypeOK'
<1> SUFFICES ASSUME OwnedTypeOK, [Next]_vars PROVE OwnedTypeOK' OBVIOUS
<1> USE BlankIsSpec, ObjectsAssumption
<1> USE DEF OwnedTypeOK, crVars, ownVars, passVars, PassEnds, Proceed, Kinds
<1>1. CASE UNCHANGED vars BY <1>1 DEF vars
<1>2. mishaps' = mishaps \/ UNCHANGED vars BY DEF Next
<1> USE <1>2
<1>3. CASE (Reconcile \/ AddFinalizer) /\ UNCHANGED <<mishaps, original, seen>>
  <2>1. CASE Reconcile BY <1>3, <2>1 DEF Reconcile, Specs
  <2>2. CASE AddFinalizer BY <1>3, <2>2 DEF AddFinalizer, Specs
  <2> QED BY <1>3, <2>1, <2>2
<1>4. ASSUME NEW k \in Kinds, ApplyObject(k), UNCHANGED <<mishaps, original, seen>> PROVE OwnedTypeOK'
  BY <1>4 DEF ApplyObject, Specs, After
<1>5. ASSUME NEW e \in Infra, EnsureInfraDaemonSet(e), UNCHANGED <<mishaps, original, seen>> PROVE OwnedTypeOK'
  <2>1. CASE PassEnds /\ UNCHANGED daemonSets BY <1>5, <2>1 DEF EnsureInfraDaemonSet
  <2>2. CASE ~(PassEnds /\ UNCHANGED daemonSets)
    <3>1. original[e] \in Versions /\ mine.role \in Roles
      BY <1>5, <2>2 DEF EnsureInfraDaemonSet, Specs
    <3>2. daemonSets' = (daemonSets \ Copy(e, mine.role)) \cup {<<e, mine.role, original[e]>>}
      BY <1>5, <2>2 DEF EnsureInfraDaemonSet
    <3>3. /\ daemonSets' \subseteq Infra \X Roles \X Versions
          /\ \A d, f \in daemonSets' : d[1] = f[1] /\ d[2] = f[2] => d = f
      BY <3>1, <3>2 DEF Copy
    <3> QED BY <1>5, <2>2, <3>3 DEF EnsureInfraDaemonSet
  <2> QED BY <2>1, <2>2
<1>6. CASE (InfraDaemonSetsEnsured \/ ExtraDaemonSetsRemoved) /\ UNCHANGED <<mishaps, original, seen>>
  BY <1>6 DEF InfraDaemonSetsEnsured, ExtraDaemonSetsRemoved
<1>7. ASSUME NEW e \in Infra, RemoveExtraDaemonSet(e) \/ DeleteDaemonSets(e),
             UNCHANGED <<mishaps, original, seen>>
      PROVE OwnedTypeOK'
  BY <1>7 DEF RemoveExtraDaemonSet, DeleteDaemonSets
<1>8. CASE UpdateStatus /\ UNCHANGED <<mishaps, original, seen>> BY <1>8 DEF UpdateStatus, Specs
<1>9. CASE (ReconcileDeleted \/ DaemonSetsDeleted \/ DeleteSecrets) /\ UNCHANGED <<mishaps, original, seen>>
  <2>1. CASE ReconcileDeleted BY <1>9, <2>1 DEF ReconcileDeleted, Specs
  <2>2. CASE DaemonSetsDeleted BY <1>9, <2>2 DEF DaemonSetsDeleted
  <2>3. CASE DeleteSecrets BY <1>9, <2>3 DEF DeleteSecrets
  <2> QED BY <1>9, <2>1, <2>2, <2>3
<1>10. ASSUME NEW k \in Kinds, NEW here, NEW next \in {"delete_set", "delete_pool", "delete_config"},
              List(k, here, next), UNCHANGED <<mishaps, original, seen>>, todo = {}
       PROVE  OwnedTypeOK'
  BY <1>10 DEF List, Copies, SeenObjects
<1>11. ASSUME NEW here \in {"delete_set", "delete_pool", "delete_config"},
              NEW next \in {"delete_secret", "list_config", "finish"},
              DeleteListed(here, next), UNCHANGED <<mishaps, original, seen>>
       PROVE  OwnedTypeOK'
  BY <1>11 DEF DeleteListed
<1>12. CASE (RemoveFinalizer \/ Abort) /\ UNCHANGED <<mishaps, original, seen>>
  BY <1>12 DEF RemoveFinalizer, Abort
<1>13. CASE (EditCR \/ DeleteCR) /\ UNCHANGED <<mishaps, original, seen>>
  BY <1>13 DEF EditCR, DeleteCR
<1>14. ASSUME NEW o \in Kinds \X Roles, RemovedByOthers(o), UNCHANGED <<mishaps, original, seen>>
       PROVE OwnedTypeOK'
  BY <1>14 DEF RemovedByOthers
<1>15. ASSUME NEW e \in Infra, OriginalChanges(e), UNCHANGED <<mishaps, seen>> PROVE OwnedTypeOK'
  BY <1>15 DEF OriginalChanges, Versions
<1>18. ASSUME NEW k \in Kinds, CacheCatchesUp(k), UNCHANGED mishaps PROVE OwnedTypeOK'
  BY <1>18 DEF CacheCatchesUp
<1>16. CASE LivePassStep /\ UNCHANGED <<mishaps, original, seen>>
  BY <1>3, <1>4, <1>5, <1>6, <1>7, <1>8, <1>16 DEF LivePassStep
<1>17. CASE DeletionStep /\ UNCHANGED <<mishaps, original, seen>>
  <2>1. ~(pc \in {"list_set", "list_pool", "list_config"} /\ todo # {}) OBVIOUS
  <2> QED BY <1>7, <1>9, <1>10, <1>11, <1>12, <1>17, <2>1 DEF DeletionStep, List
<1> QED BY <1>1, <1>12, <1>13, <1>14, <1>15, <1>16, <1>17, <1>18 DEF Next

\* The objects there are, and what a pass holds of them, keep their types.
THEOREM OwnedTypeCorrect == Spec => []OwnedTypeOK
<1>1. OwnedTypeOK /\ [Next]_vars => OwnedTypeOK' BY OwnedTypeStep
<1> QED BY OwnedTypeInit, <1>1, PTL DEF Spec

-----------------------------------------------------------------------------
(* The steps that keep the invariants.                                     *)

LEMMA OwnedInvInit == Init => OwnedInv
  BY DEF Init, PassInit, OwnedInv, PassOrder, RolesGuarded, CopiesKnown, KindsDeleted, OfKind, CopiesFollow,
         NothingOwnedLeft, AlwaysNothingOwnedLeft, Recorded, LiveCalls, DeletionCalls, AfterCopies, AfterSets,
         AfterSecrets, AfterPools, Kinds

LEMMA PassOrderStep ==
  ASSUME OwnedTypeOK, Waiting, PassOrder, Next
  PROVE  PassOrder'
<1> USE DEF OwnedTypeOK, PassOrder, Waiting, LiveCalls, DeletionCalls, AfterCopies, Kinds, Recorded, crVars,
            passVars, PassEnds, Proceed
<1>1. CASE Reconcile BY <1>1 DEF Reconcile
<1>2. CASE AddFinalizer BY <1>2 DEF AddFinalizer
<1>3. ASSUME NEW k \in Kinds, ApplyObject(k) PROVE PassOrder' BY <1>3 DEF ApplyObject, After
<1>4. ASSUME NEW e \in Infra,
             EnsureInfraDaemonSet(e) \/ RemoveExtraDaemonSet(e) \/ DeleteDaemonSets(e)
      PROVE  PassOrder'
  BY <1>4 DEF EnsureInfraDaemonSet, RemoveExtraDaemonSet, DeleteDaemonSets
<1>5. CASE InfraDaemonSetsEnsured \/ ExtraDaemonSetsRemoved \/ UpdateStatus
  <2>1. CASE InfraDaemonSetsEnsured BY <2>1 DEF InfraDaemonSetsEnsured
  <2>2. CASE ExtraDaemonSetsRemoved BY <2>2 DEF ExtraDaemonSetsRemoved
  <2>3. CASE UpdateStatus BY <2>3 DEF UpdateStatus
  <2> QED BY <1>5, <2>1, <2>2, <2>3
<1>6. CASE ReconcileDeleted BY <1>6 DEF ReconcileDeleted
<1>7. CASE DaemonSetsDeleted \/ DeleteSecrets BY <1>7 DEF DaemonSetsDeleted, DeleteSecrets
<1>8. \A k \in Kinds : \A here \in DeletionCalls, next \in DeletionCalls : List(k, here, next) => PassOrder'
  BY DEF List
<1>9. \A here \in DeletionCalls, next \in DeletionCalls : DeleteListed(here, next) => PassOrder'
  BY DEF DeleteListed
<1>10. CASE RemoveFinalizer \/ Abort BY <1>10 DEF RemoveFinalizer, Abort
<1>11. CASE EditCR BY <1>11 DEF EditCR
<1>12. CASE DeleteCR BY <1>12 DEF DeleteCR
<1>13. ASSUME NEW o \in Kinds \X Roles, RemovedByOthers(o) PROVE PassOrder' BY <1>13 DEF RemovedByOthers
<1>14. ASSUME NEW e \in Infra, OriginalChanges(e) PROVE PassOrder' BY <1>14 DEF OriginalChanges
<1>15. ASSUME NEW k \in Kinds, CacheCatchesUp(k) PROVE PassOrder' BY <1>15 DEF CacheCatchesUp
<1> QED
  BY <1>1, <1>2, <1>3, <1>4, <1>5, <1>6, <1>7, <1>8, <1>9, <1>10, <1>11, <1>12, <1>13, <1>14, <1>15
  DEF Next, LivePassStep, DeletionStep

LEMMA RolesGuardedStep ==
  ASSUME OwnedTypeOK, Quiet, PassOrder, RolesGuarded, Next
  PROVE  RolesGuarded'
<1> USE DEF OwnedTypeOK, PassOrder, RolesGuarded, Quiet, LiveCalls, DeletionCalls, AfterCopies, Kinds, crVars,
            ownVars, passVars, PassEnds, Proceed
<1>1. CASE Reconcile \/ InfraDaemonSetsEnsured \/ ExtraDaemonSetsRemoved \/ UpdateStatus
  BY <1>1 DEF Reconcile, InfraDaemonSetsEnsured, ExtraDaemonSetsRemoved, UpdateStatus
<1>2. CASE AddFinalizer BY <1>2 DEF AddFinalizer
<1>3. ASSUME NEW k \in Kinds, ApplyObject(k) PROVE RolesGuarded' BY <1>3 DEF ApplyObject
<1>4. ASSUME NEW e \in Infra, EnsureInfraDaemonSet(e) PROVE RolesGuarded'
  BY <1>4 DEF EnsureInfraDaemonSet, Copy
<1>5. ASSUME NEW e \in Infra, RemoveExtraDaemonSet(e) \/ DeleteDaemonSets(e) PROVE RolesGuarded'
  BY <1>5 DEF RemoveExtraDaemonSet, DeleteDaemonSets
<1>6. CASE ReconcileDeleted \/ DaemonSetsDeleted \/ DeleteSecrets \/ Abort
  BY <1>6 DEF ReconcileDeleted, DaemonSetsDeleted, DeleteSecrets, Abort
<1>7. \A k, here, next : List(k, here, next) => RolesGuarded'
  BY DEF List
<1>8. \A here, next : DeleteListed(here, next) => RolesGuarded'
  BY DEF DeleteListed
<1>9. CASE RemoveFinalizer BY <1>9 DEF RemoveFinalizer
<1>10. CASE EditCR BY <1>10 DEF EditCR
<1>11. CASE DeleteCR BY <1>11 DEF DeleteCR
<1>12. ASSUME NEW o \in Kinds \X Roles, RemovedByOthers(o) PROVE RolesGuarded' BY <1>12 DEF RemovedByOthers
<1>13. ASSUME NEW e \in Infra, OriginalChanges(e) PROVE RolesGuarded' BY <1>13 DEF OriginalChanges
<1>14. ASSUME NEW k \in Kinds, CacheCatchesUp(k) PROVE RolesGuarded' BY <1>14 DEF CacheCatchesUp
<1> QED
  BY <1>1, <1>2, <1>3, <1>4, <1>5, <1>6, <1>7, <1>8, <1>9, <1>10, <1>11, <1>12, <1>13, <1>14
  DEF Next, LivePassStep, DeletionStep

LEMMA CopiesKnownStep ==
  ASSUME OwnedTypeOK, Quiet, PassOrder, RolesGuarded, CopiesKnown, Next
  PROVE  CopiesKnown'
<1> USE DEF OwnedTypeOK, PassOrder, RolesGuarded, CopiesKnown, Quiet, LiveCalls, DeletionCalls, AfterCopies,
            Kinds, crVars, ownVars, passVars, PassEnds, Proceed
<1>1. CASE Reconcile BY <1>1 DEF Reconcile
<1>2. CASE AddFinalizer BY <1>2 DEF AddFinalizer
<1>3. ASSUME NEW k \in Kinds, ApplyObject(k) PROVE CopiesKnown' BY <1>3 DEF ApplyObject, After
<1>4. ASSUME NEW e \in Infra, EnsureInfraDaemonSet(e) PROVE CopiesKnown'
  BY <1>4 DEF EnsureInfraDaemonSet, Copy
<1>5. CASE InfraDaemonSetsEnsured BY <1>5 DEF InfraDaemonSetsEnsured
<1>6. ASSUME NEW e \in Infra, RemoveExtraDaemonSet(e) PROVE CopiesKnown'
  BY <1>6 DEF RemoveExtraDaemonSet, Copy
<1>7. CASE ExtraDaemonSetsRemoved BY <1>7 DEF ExtraDaemonSetsRemoved
<1>8. CASE UpdateStatus BY <1>8 DEF UpdateStatus
<1>9. CASE ReconcileDeleted BY <1>9 DEF ReconcileDeleted
<1>10. ASSUME NEW e \in Infra, DeleteDaemonSets(e) PROVE CopiesKnown'
  BY <1>10 DEF DeleteDaemonSets
<1>11. CASE DaemonSetsDeleted BY <1>11 DEF DaemonSetsDeleted
<1>12. CASE DeleteSecrets BY <1>12 DEF DeleteSecrets
<1>13. \A k \in Kinds : \A here, next \in AfterCopies : List(k, here, next) => CopiesKnown'
  BY DEF List
<1>14. \A here, next \in AfterCopies : DeleteListed(here, next) => CopiesKnown'
  BY DEF DeleteListed
<1>15. CASE RemoveFinalizer \/ Abort
  <2>1. CASE RemoveFinalizer BY <2>1 DEF RemoveFinalizer
  <2>2. CASE Abort BY <2>2 DEF Abort
  <2> QED BY <1>15, <2>1, <2>2
<1>16. CASE EditCR BY <1>16 DEF EditCR, Recorded
<1>17. CASE DeleteCR BY <1>17 DEF DeleteCR
<1>18. ASSUME NEW o \in Kinds \X Roles, RemovedByOthers(o) PROVE CopiesKnown' BY <1>18 DEF RemovedByOthers
<1>19. ASSUME NEW e \in Infra, OriginalChanges(e) PROVE CopiesKnown' BY <1>19 DEF OriginalChanges
<1>20. ASSUME NEW k \in Kinds, CacheCatchesUp(k) PROVE CopiesKnown' BY <1>20 DEF CacheCatchesUp
<1> QED
  BY <1>1, <1>2, <1>3, <1>4, <1>5, <1>6, <1>7, <1>8, <1>9, <1>10, <1>11, <1>12, <1>13, <1>14, <1>15, <1>16,
     <1>17, <1>18, <1>19, <1>20
  DEF Next, LivePassStep, DeletionStep

LEMMA KindsDeletedStep ==
  ASSUME OwnedTypeOK, Quiet, PassOrder, KindsDeleted, Next
  PROVE  KindsDeleted'
<1> USE DEF OwnedTypeOK, PassOrder, KindsDeleted, OfKind, Quiet, LiveCalls, DeletionCalls, AfterCopies,
            AfterSets, AfterSecrets, AfterPools, Kinds, crVars, ownVars, passVars, PassEnds, Proceed
<1>1. CASE Reconcile \/ InfraDaemonSetsEnsured \/ ExtraDaemonSetsRemoved \/ UpdateStatus
  BY <1>1 DEF Reconcile, InfraDaemonSetsEnsured, ExtraDaemonSetsRemoved, UpdateStatus
<1>2. CASE AddFinalizer BY <1>2 DEF AddFinalizer
<1>3. ASSUME NEW k \in Kinds, ApplyObject(k) PROVE KindsDeleted' BY <1>3 DEF ApplyObject, After
<1>4. ASSUME NEW e \in Infra,
             EnsureInfraDaemonSet(e) \/ RemoveExtraDaemonSet(e) \/ DeleteDaemonSets(e)
      PROVE  KindsDeleted'
  BY <1>4 DEF EnsureInfraDaemonSet, RemoveExtraDaemonSet, DeleteDaemonSets
<1>5. CASE ReconcileDeleted \/ DaemonSetsDeleted BY <1>5 DEF ReconcileDeleted, DaemonSetsDeleted
<1>6. \A k \in Kinds : Copies(k) = {1} BY DEF Copies
<1>7. CASE List("set", "list_set", "delete_set") BY <1>6, <1>7 DEF List, SeenObjects
<1>8. CASE List("pool", "list_pool", "delete_pool") BY <1>6, <1>8 DEF List, SeenObjects
<1>9. CASE List("config", "list_config", "delete_config") BY <1>6, <1>9 DEF List, SeenObjects
<1>10. ASSUME NEW k \in Kinds, NEW here \in DeletionCalls, NEW next \in DeletionCalls,
              DeleteListed(here, next), pc = here, listed = OfKind(k) \X {1}
       PROVE  \/ /\ pc' = here /\ listed' = OfKind(k)' \X {1}
                 /\ \A g \in Kinds \ {k} : OfKind(g)' = OfKind(g)
              \/ pc' = next /\ UNCHANGED objects /\ OfKind(k) = {} /\ listed' = {}
  <2>1. \A i \in listed : i[1] \in objects BY <1>10
  <2>2. ASSUME NEW i \in listed, objects' = objects \ {i[1]}, listed' = listed \ {i}, UNCHANGED pc
        PROVE  /\ pc' = here /\ listed' = OfKind(k)' \X {1}
               /\ \A g \in Kinds \ {k} : OfKind(g)' = OfKind(g)
    <3>1. i[1][1] = k /\ i = <<i[1], 1>> BY <1>10, <2>2
    <3> QED BY <1>10, <2>2, <3>1
  <2>3. ASSUME listed = {} PROVE OfKind(k) = {}
    <3>1. \A o \in OfKind(k) : <<o, 1>> \in listed BY <1>10
    <3> QED BY <2>3, <3>1
  <2> QED BY <1>10, <2>1, <2>2, <2>3 DEF DeleteListed
<1>11. CASE DeleteListed("delete_set", "delete_secret")
  <2>1. pc = "delete_set" /\ listed = OfKind("set") \X {1} BY <1>11 DEF DeleteListed
  <2>2. \/ /\ pc' = "delete_set" /\ listed' = OfKind("set")' \X {1}
           /\ \A g \in Kinds \ {"set"} : OfKind(g)' = OfKind(g)
        \/ pc' = "delete_secret" /\ UNCHANGED objects /\ OfKind("set") = {} /\ listed' = {}
    BY <1>10, <1>11, <2>1
  <2> QED BY <2>1, <2>2
<1>12. CASE DeleteListed("delete_pool", "list_config")
  <2>1. pc = "delete_pool" /\ listed = OfKind("pool") \X {1} BY <1>12 DEF DeleteListed
  <2>2. \/ /\ pc' = "delete_pool" /\ listed' = OfKind("pool")' \X {1}
           /\ \A g \in Kinds \ {"pool"} : OfKind(g)' = OfKind(g)
        \/ pc' = "list_config" /\ UNCHANGED objects /\ OfKind("pool") = {} /\ listed' = {}
    BY <1>10, <1>12, <2>1
  <2> QED BY <2>1, <2>2
<1>13. CASE DeleteListed("delete_config", "finish")
  <2>1. pc = "delete_config" /\ listed = OfKind("config") \X {1} BY <1>13 DEF DeleteListed
  <2>2. \/ /\ pc' = "delete_config" /\ listed' = OfKind("config")' \X {1}
           /\ \A g \in Kinds \ {"config"} : OfKind(g)' = OfKind(g)
        \/ pc' = "finish" /\ UNCHANGED objects /\ OfKind("config") = {} /\ listed' = {}
    BY <1>10, <1>13, <2>1
  <2> QED BY <2>1, <2>2
<1>14. CASE DeleteSecrets BY <1>14 DEF DeleteSecrets
<1>15. CASE RemoveFinalizer \/ Abort BY <1>15 DEF RemoveFinalizer, Abort
<1>16. CASE EditCR \/ DeleteCR BY <1>16 DEF EditCR, DeleteCR
<1>17. ASSUME NEW o \in Kinds \X Roles, RemovedByOthers(o) PROVE KindsDeleted' BY <1>17 DEF RemovedByOthers
<1>18. ASSUME NEW e \in Infra, OriginalChanges(e) PROVE KindsDeleted' BY <1>18 DEF OriginalChanges
<1>19. ASSUME NEW k \in Kinds, CacheCatchesUp(k) PROVE KindsDeleted' BY <1>19 DEF CacheCatchesUp
<1> QED
  BY <1>1, <1>2, <1>3, <1>4, <1>5, <1>7, <1>8, <1>9, <1>11, <1>12, <1>13, <1>14, <1>15, <1>16, <1>17,
     <1>18, <1>19
  DEF Next, LivePassStep, DeletionStep

LEMMA CopiesFollowStep ==
  ASSUME OwnedTypeOK, OneRole, PassOrder, CopiesFollow, Next
  PROVE  CopiesFollow'
<1> USE DEF OwnedTypeOK, PassOrder, CopiesFollow, OneRole, LiveCalls, DeletionCalls, AfterCopies, Kinds, crVars,
            ownVars, passVars, PassEnds, Proceed, Recorded, Copy
<1>1. CASE Reconcile BY <1>1 DEF Reconcile
<1>2. CASE AddFinalizer BY <1>2 DEF AddFinalizer
<1>3. ASSUME NEW k \in Kinds, ApplyObject(k) PROVE CopiesFollow' BY <1>3 DEF ApplyObject, After
<1>4. ASSUME NEW e \in Infra, EnsureInfraDaemonSet(e) PROVE CopiesFollow'
  <2>1. CASE PassEnds /\ UNCHANGED daemonSets BY <1>4, <2>1 DEF EnsureInfraDaemonSet
  <2>2. CASE /\ daemonSets' = (daemonSets \ Copy(e, mine.role)) \cup {<<e, mine.role, original[e]>>}
             /\ todo' = todo \ {e} /\ UNCHANGED <<pc, mine, listed, fresh>>
    <3>1. pc = "infra" /\ mine = spec /\ todo \subseteq spec.infra /\ e \in todo /\ UNCHANGED crVars
      BY <1>4 DEF EnsureInfraDaemonSet
    <3>2. <<e, spec.role, original[e]>> \in daemonSets' BY <2>2, <3>1
    <3>3. \A d \in daemonSets : d[1] # e => d \in daemonSets' BY <2>2
    <3>4. \A d \in daemonSets' : d \in daemonSets \/ (d[1] = e /\ d[2] = spec.role) BY <2>2, <3>1
    <3>5. \A g \in Infra : g = e \/ Copy(g, spec.role) # {} => Copy(g, spec.role)' # {}
      BY <3>1, <3>2, <3>3
    <3>6. spec.infra \subseteq Infra BY DEF Specs
    <3> QED BY <2>2, <3>1, <3>4, <3>5, <3>6
  <2> QED BY <1>4, <2>1, <2>2 DEF EnsureInfraDaemonSet
<1>5. CASE InfraDaemonSetsEnsured BY <1>5 DEF InfraDaemonSetsEnsured
<1>6. ASSUME NEW e \in Infra, RemoveExtraDaemonSet(e) PROVE CopiesFollow'
  BY <1>6 DEF RemoveExtraDaemonSet
<1>7. CASE ExtraDaemonSetsRemoved BY <1>7 DEF ExtraDaemonSetsRemoved
<1>8. CASE UpdateStatus BY <1>8 DEF UpdateStatus
<1>9. CASE DeletionStep
  <2>1. crState' # "live"
    BY <1>9 DEF DeletionStep, ReconcileDeleted, DeleteDaemonSets, DaemonSetsDeleted, List, DeleteListed,
                DeleteSecrets, RemoveFinalizer
  <2> QED BY <2>1
<1>10. CASE Abort BY <1>10 DEF Abort
<1>11. CASE EditCR
  <2>1. pc = "idle" /\ Recorded /\ crState = "live" /\ spec' # spec /\ spec'.role = spec.role
        /\ UNCHANGED <<crState, status, daemonSets, pc>>
    BY <1>11 DEF EditCR
  <2> QED BY <2>1
<1>12. CASE DeleteCR BY <1>12 DEF DeleteCR
<1>13. ASSUME NEW o \in Kinds \X Roles, RemovedByOthers(o) PROVE CopiesFollow' BY <1>13 DEF RemovedByOthers
<1>14. ASSUME NEW e \in Infra, OriginalChanges(e) PROVE CopiesFollow' BY <1>14 DEF OriginalChanges
<1>15. ASSUME NEW k \in Kinds, CacheCatchesUp(k) PROVE CopiesFollow' BY <1>15 DEF CacheCatchesUp
<1> QED
  BY <1>1, <1>2, <1>3, <1>4, <1>5, <1>6, <1>7, <1>8, <1>9, <1>10, <1>11, <1>12, <1>13, <1>14, <1>15
  DEF Next, LivePassStep

\* Nobody owns anything once the CR is gone, and nobody makes anything then.
LEMMA NothingOwnedStep ==
  ASSUME OwnedTypeOK, Quiet, PassOrder, RolesGuarded, CopiesKnown, KindsDeleted, NothingOwnedLeft, Next
  PROVE  NothingOwnedLeft'
<1> SUFFICES ASSUME crState' = "gone" PROVE objects' = {} /\ daemonSets' = {}
  BY DEF NothingOwnedLeft, AlwaysNothingOwnedLeft
<1> USE DEF OwnedTypeOK, PassOrder, LiveCalls, DeletionCalls, AfterCopies, Kinds, crVars, ownVars
<1>1. CASE crState = "gone"
  <2>1. objects = {} /\ daemonSets = {}
    BY <1>1 DEF NothingOwnedLeft, AlwaysNothingOwnedLeft, Quiet
  <2>2. pc \in {"idle", "finalizer"} BY <1>1
  <2>3. UNCHANGED <<objects, daemonSets>>
    BY <1>1, <2>1, <2>2 DEF Next, LivePassStep, DeletionStep, Reconcile, AddFinalizer, ApplyObject,
       EnsureInfraDaemonSet, InfraDaemonSetsEnsured, RemoveExtraDaemonSet, ExtraDaemonSetsRemoved, UpdateStatus,
       ReconcileDeleted, DeleteDaemonSets, DaemonSetsDeleted, List, DeleteListed, DeleteSecrets,
       RemoveFinalizer, Abort, EditCR, DeleteCR, RemovedByOthers, OriginalChanges, CacheCatchesUp
  <2> QED BY <2>1, <2>3
<1>2. CASE crState # "gone"
  <2>1. DeleteCR \/ RemoveFinalizer
    BY <1>2 DEF Next, LivePassStep, DeletionStep, Reconcile, AddFinalizer, ApplyObject,
       EnsureInfraDaemonSet, InfraDaemonSetsEnsured, RemoveExtraDaemonSet, ExtraDaemonSetsRemoved, UpdateStatus,
       ReconcileDeleted, DeleteDaemonSets, DaemonSetsDeleted, List, DeleteListed, DeleteSecrets,
       Abort, EditCR, RemovedByOthers, OriginalChanges, CacheCatchesUp
  <2>2. CASE DeleteCR
    <3>1. crState = "live" /\ finalizers = {} /\ UNCHANGED ownVars BY <2>2 DEF DeleteCR
    <3> QED BY <3>1 DEF RolesGuarded
  <2>3. CASE RemoveFinalizer
    <3>1. pc = "finish" /\ mine = spec /\ finalizers \subseteq {mine.role} /\ UNCHANGED ownVars
      BY <1>2, <2>3 DEF RemoveFinalizer
    <3>2. daemonSets = {} BY <3>1 DEF CopiesKnown
    <3>3. \A k \in Kinds : OfKind(k) = {}
      BY <3>1 DEF KindsDeleted, AfterSets, AfterSecrets, AfterPools
    <3>4. objects = {} BY <3>3 DEF OfKind
    <3> QED BY <3>1, <3>2, <3>4
  <2> QED BY <2>1, <2>2, <2>3
<1> QED BY <1>1, <1>2

LEMMA OwnedInvStep == OwnedTypeOK /\ OwnedInv /\ [Next]_vars => OwnedInv'
<1> SUFFICES ASSUME OwnedTypeOK, OwnedInv, [Next]_vars PROVE OwnedInv' OBVIOUS
<1>1. CASE UNCHANGED vars
  BY <1>1 DEF OwnedInv, Waiting, Quiet, OneRole, PassOrder, RolesGuarded, CopiesKnown, KindsDeleted, OfKind,
              CopiesFollow, NothingOwnedLeft, AlwaysNothingOwnedLeft, Recorded, Copy, vars, crVars, ownVars,
              passVars
<1>2. CASE Next
  <2>1. mishaps' = mishaps BY <1>2 DEF Next
  <2>2. (Waiting' => Waiting) /\ (Quiet' => Quiet /\ Waiting) /\ (OneRole' => OneRole /\ Waiting)
    BY <2>1 DEF Waiting, Quiet, OneRole
  <2>3. Waiting' => PassOrder' BY <1>2, <2>2, PassOrderStep DEF OwnedInv
  <2>4. Quiet' => RolesGuarded' /\ CopiesKnown' /\ KindsDeleted' /\ NothingOwnedLeft'
    BY <1>2, <2>2, RolesGuardedStep, CopiesKnownStep, KindsDeletedStep, NothingOwnedStep DEF OwnedInv
  <2>5. OneRole' => CopiesFollow' BY <1>2, <2>2, CopiesFollowStep DEF OwnedInv
  <2> QED BY <2>3, <2>4, <2>5 DEF OwnedInv
<1> QED BY <1>1, <1>2

LEMMA OwnedInvariant == Spec => [](OwnedTypeOK /\ OwnedInv)
<1>1. OwnedTypeOK /\ OwnedInv /\ [Next]_vars => OwnedInv' BY OwnedInvStep
<1> QED BY OwnedTypeCorrect, OwnedInvInit, <1>1, PTL DEF Spec

\* Nothing with the owner labels outlives the CR, whatever role edits, failures and
\* vanished originals it has seen.
THEOREM NothingOwnedStays == Spec => []NothingOwnedLeft
<1>1. OwnedTypeOK /\ OwnedInv => NothingOwnedLeft
  BY DEF OwnedInv, Quiet, NothingOwnedLeft
<1> QED BY <1>1, OwnedInvariant, PTL

\* Once a spec is recorded the copies are those it asks for.
THEOREM CopiesFollowSpec == Spec => []DaemonSetsFollowSpec
<1>1. OwnedTypeOK /\ OwnedInv => DaemonSetsFollowSpec
  <2> SUFFICES ASSUME OwnedTypeOK, OwnedInv, OneRole, crState = "live", pc = "idle", Recorded
               PROVE  {<<d[1], d[2]>> : d \in daemonSets} = spec.infra \X {spec.role}
    BY DEF DaemonSetsFollowSpec, AlwaysDaemonSetsFollowSpec, OneRole
  <2>1. PassOrder /\ CopiesFollow BY DEF OwnedInv, OneRole, Waiting
  <2>2. \A d \in daemonSets : d[1] \in spec.infra /\ d[2] = spec.role
    BY <2>1 DEF PassOrder, CopiesFollow
  <2>3. \A e \in spec.infra : \E d \in daemonSets : d[1] = e /\ d[2] = spec.role
    BY <2>1 DEF CopiesFollow, Copy
  <2> QED BY <2>2, <2>3
<1> QED BY <1>1, OwnedInvariant, PTL
=============================================================================
