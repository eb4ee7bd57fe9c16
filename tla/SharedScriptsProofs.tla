------------------------- MODULE SharedScriptsProofs -------------------------
(***************************************************************************)
(* What holds of SharedScripts for any number of CRs that share the        *)
(* ConfigMap, and of upgrades and outages.                                 *)
(***************************************************************************)
EXTENDS SharedScripts, TLAPS

\* Why a CR is done when its finalizer goes: a pass keeps what it knows of its CR,
\* because nobody brings a deleted CR or a node that left back.
PassOrder ==
    /\ cur # NoOne => crState[cur] \in {"live", "deleting"}
    /\ \A c \in CRs : node[c] = "none" => job[c] = NoJob
    /\ pc \in {"get", "ensure"} => branch = "live"
    /\ cur # NoOne /\ branch = "deleting" => crState[cur] = "deleting"
    /\ pc \in {"client", "drain"} /\ branch = "deleting" => node[cur] # "none"
    /\ pc = "finish" => branch = "deleting" /\ node[cur] = "none"

SharedInv == SharedTypeOK /\ PassOrder

\* Why a job's scripts are current: the live branch looks at the ConfigMap first, and
\* between there and the job nothing but its removal can happen to it.
ScriptsInv ==
    /\ scripts # NoOne => scripts.version <= image
    /\ pc = "ensure" => scripts \in {NoOne, found}
    /\ pc \in {"client", "drain"} /\ branch = "live" => scripts = NoOne \/ scripts.version = image
    /\ \A c \in CRs :
        /\ job[c].since <= image
        /\ job[c].state = "waiting" /\ job[c].by = "live" =>
              scripts = NoOne \/ scripts.version >= job[c].since
    /\ CurrentScripts

LEMMA SharedInit == Init => SharedInv /\ ScriptsInv
  BY SharedAssumption
  DEF Init, PassInit, SharedInv, SharedTypeOK, PassOrder, ScriptsInv, CurrentScripts, NoJob, Maps,
      Versions

\* Types, and what the pass knows of its CR, survive the pass ...
LEMMA SharedInvPass ==
  ASSUME SharedInv, PassStep \/ \E c \in CRs : Reconcile(c)
  PROVE  SharedInv'
<1> USE SharedAssumption
    DEF SharedInv, SharedTypeOK, PassOrder, NoJob, Maps, Versions, Proceed, PassEnds
<1>1. ASSUME NEW c \in CRs, Reconcile(c) PROVE SharedInv' BY <1>1 DEF Reconcile
<1>2. CASE GetScriptsConfigMap BY <1>2 DEF GetScriptsConfigMap
<1>3. CASE EnsureScriptsConfigMap
  <2>1. scripts' \in Maps BY <1>3 DEF EnsureScriptsConfigMap
  <2> QED BY <1>3, <2>1 DEF EnsureScriptsConfigMap
<1>4. CASE GetOpenStackClientInformation BY <1>4 DEF GetOpenStackClientInformation
<1>5. CASE DrainNode BY <1>5 DEF DrainNode
<1>6. CASE RemoveFinalizer BY <1>6 DEF RemoveFinalizer
<1> QED BY <1>1, <1>2, <1>3, <1>4, <1>5, <1>6 DEF PassStep

\* ... and everybody else.
LEMMA SharedInvOthers ==
  ASSUME SharedInv,
         \/ OperatorUpgraded \/ GarbageCollected \/ ClientInfoSwitched
         \/ \E c \in CRs : PodStarts(c) \/ JobSucceeds(c) \/ CRCreated(c) \/ CRDeleted(c) \/ NodeMoves(c)
  PROVE  SharedInv'
<1> USE SharedAssumption DEF SharedInv, SharedTypeOK, PassOrder, NoJob, Maps, Versions, passVars
<1>1. CASE OperatorUpgraded BY <1>1 DEF OperatorUpgraded, PassEnds
<1>2. CASE GarbageCollected BY <1>2 DEF GarbageCollected
<1>3. CASE ClientInfoSwitched BY <1>3 DEF ClientInfoSwitched
<1>4. ASSUME NEW c \in CRs, PodStarts(c) PROVE SharedInv' BY <1>4 DEF PodStarts
<1>5. ASSUME NEW c \in CRs, JobSucceeds(c) PROVE SharedInv' BY <1>5 DEF JobSucceeds
<1>6. ASSUME NEW c \in CRs, CRCreated(c) PROVE SharedInv' BY <1>6 DEF CRCreated
<1>7. ASSUME NEW c \in CRs, CRDeleted(c) PROVE SharedInv' BY <1>7 DEF CRDeleted
<1>8. ASSUME NEW c \in CRs, NodeMoves(c) PROVE SharedInv' BY <1>8 DEF NodeMoves
<1> QED BY <1>1, <1>2, <1>3, <1>4, <1>5, <1>6, <1>7, <1>8

LEMMA SharedInvStep == SharedInv /\ [Next]_vars => SharedInv'
<1> SUFFICES ASSUME SharedInv, [Next]_vars PROVE SharedInv' OBVIOUS
<1>1. CASE Next BY <1>1, SharedInvPass, SharedInvOthers DEF Next
<1>2. CASE UNCHANGED vars
  BY <1>2 DEF vars, passVars, SharedInv, SharedTypeOK, PassOrder
<1> QED BY <1>1, <1>2

\* Only the pass over a live CR writes the scripts, and it writes today's.
LEMMA ScriptsInvStep == SharedInv /\ ScriptsInv /\ [Next]_vars => ScriptsInv'
<1> SUFFICES ASSUME SharedInv, ScriptsInv, [Next]_vars PROVE ScriptsInv' OBVIOUS
<1> USE SharedAssumption
    DEF SharedInv, SharedTypeOK, PassOrder, ScriptsInv, CurrentScripts, NoJob, Maps, Versions, passVars
<1>1. CASE \E c \in CRs : Reconcile(c)
  <2> PICK c \in CRs : Reconcile(c) BY <1>1
  <2> QED BY DEF Reconcile
<1>2. CASE GetScriptsConfigMap BY <1>2 DEF GetScriptsConfigMap
<1>3. CASE EnsureScriptsConfigMap
  <2>1. scripts' # NoOne => scripts'.version \in Versions /\ scripts'.version <= image
    BY <1>3 DEF EnsureScriptsConfigMap
  <2>2. scripts' # NoOne /\ scripts' # scripts => scripts'.version = image
    BY <1>3 DEF EnsureScriptsConfigMap
  <2>3. pc' = "client" => scripts' = NoOne \/ scripts'.version = image
    BY <1>3 DEF EnsureScriptsConfigMap, Proceed, PassEnds
  <2>4. UNCHANGED <<job, image>> /\ pc' \in {"client", "idle"}
    BY <1>3 DEF EnsureScriptsConfigMap, Proceed, PassEnds
  <2> QED BY <2>1, <2>2, <2>3, <2>4
<1>4. CASE GetOpenStackClientInformation
  BY <1>4 DEF GetOpenStackClientInformation, Proceed, PassEnds
<1>5. CASE DrainNode BY <1>5 DEF DrainNode, Proceed, PassEnds
<1>6. CASE RemoveFinalizer BY <1>6 DEF RemoveFinalizer, PassEnds
<1>7. CASE OperatorUpgraded BY <1>7 DEF OperatorUpgraded, PassEnds
<1>8. CASE GarbageCollected BY <1>8 DEF GarbageCollected
<1>9. CASE ClientInfoSwitched BY <1>9 DEF ClientInfoSwitched
<1>10. ASSUME NEW c \in CRs, PodStarts(c) PROVE ScriptsInv' BY <1>10 DEF PodStarts
<1>11. ASSUME NEW c \in CRs, JobSucceeds(c) PROVE ScriptsInv' BY <1>11 DEF JobSucceeds
<1>12. ASSUME NEW c \in CRs, CRCreated(c) \/ CRDeleted(c) \/ NodeMoves(c) PROVE ScriptsInv'
  BY <1>12 DEF CRCreated, CRDeleted, NodeMoves
<1>13. CASE UNCHANGED vars BY <1>13 DEF vars
<1> QED BY <1>1, <1>2, <1>3, <1>4, <1>5, <1>6, <1>7, <1>8, <1>9, <1>10, <1>11, <1>12, <1>13
        DEF Next, PassStep

\* Type correctness; with it, a CR that is gone has no node and no job left.
THEOREM SharedTypeCorrect == Spec => []SharedTypeOK
<1>1. Spec => []SharedInv BY SharedInit, SharedInvStep, PTL DEF Spec
<1> QED BY <1>1, PTL DEF SharedInv

\* However many CRs come and go, upgrades included, no pod of a live CR's drain
\* starts with older scripts than the operator had when it created the job.
THEOREM ScriptsAreCurrent == Spec => []CurrentScripts
<1>1. Spec => [](SharedInv /\ ScriptsInv)
  BY SharedInit, SharedInvStep, ScriptsInvStep, PTL DEF Spec
<1>2. ScriptsInv => CurrentScripts BY DEF ScriptsInv
<1> QED BY <1>1, <1>2, PTL
=============================================================================
