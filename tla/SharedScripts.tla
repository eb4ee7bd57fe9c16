---------------------------- MODULE SharedScripts ----------------------------
(***************************************************************************)
(* The ConfigMap with the drain scripts.  Its name contains nothing but    *)
(* the kind, so all ComputeNodeOpenStack CRs of a namespace share one; the *)
(* pass over a live CR creates it, as its controller owner, or brings its  *)
(* scripts up to those of the operator's image.  Kubernetes deletes it     *)
(* with its owner.  A drain job's pod starts when it can mount it and the  *)
(* OpenStack client information; the pass over a deleted CR needs both,    *)
(* but looks at the client information only.                               *)
(*                                                                         *)
(* The controller has one worker for all CRs.  A CR has one worker node    *)
(* here, whose drain is one job: NodeDrain and CRDeletion have the rest.   *)
(***************************************************************************)
EXTENDS Naturals, FiniteSets

CONSTANTS
    CRs,            \* ComputeNodeOpenStack CRs of the namespace, by UID
    NoOne,          \* stands for no CR, and for a ConfigMap that does not exist
    MaxImage,       \* bound on operator upgrades that bring new scripts
    MaxRemovals     \* bound on removals of the client information

ASSUME SharedAssumption ==
    /\ NoOne \notin CRs
    /\ MaxImage \in Nat /\ MaxRemovals \in Nat

VARIABLES
    crState,        \* crState[c]: "absent", "live", "deleting" or "gone"
    node,           \* node[c]: the worker node, "none", "up" or "going" (being scaled down)
    job,            \* job[c]: its drain job [state, by, since, runs]
    scripts,        \* the ConfigMap [owner, version], or NoOne
    image,          \* version of the scripts in the operator's image
    clientInfo,     \* the OpenStack client secret and ConfigMap exist
    removals,       \* removals of the client information so far
    pc,             \* the next call of the pass
    cur,            \* the CR of the pass
    branch,         \* whether the pass read it as "live" or "deleting"
    found           \* the ConfigMap as the pass read it

passVars == <<pc, cur, branch, found>>
vars     == <<crState, node, job, scripts, image, clientInfo, removals, passVars>>

Versions == 0..MaxImage
NoJob    == [state |-> "none", by |-> "live", since |-> 0, runs |-> 0]
Maps     == [owner : CRs, version : Versions] \cup {NoOne}

SharedTypeOK ==
    /\ crState \in [CRs -> {"absent", "live", "deleting", "gone"}]
    /\ node \in [CRs -> {"none", "up", "going"}]
    /\ job \in [CRs -> [state : {"none", "waiting", "running", "succeeded"}, by : {"live", "deleting"},
                        since : Versions, runs : Versions]]
    /\ scripts \in Maps /\ found \in Maps
    /\ image \in Versions /\ clientInfo \in BOOLEAN /\ removals \in 0..MaxRemovals
    /\ pc \in {"idle", "get", "ensure", "client", "drain", "finish"}
    /\ cur \in CRs \cup {NoOne} /\ (cur = NoOne <=> pc = "idle")
    /\ branch \in {"live", "deleting"}
    /\ \A c \in CRs : crState[c] \in {"absent", "gone"} => node[c] = "none" /\ job[c] = NoJob

PassInit == pc = "idle" /\ cur = NoOne /\ branch = "live" /\ found = NoOne

Init ==
    /\ crState = [c \in CRs |-> "absent"] /\ node = [c \in CRs |-> "none"]
    /\ job = [c \in CRs |-> NoJob]
    /\ scripts = NoOne /\ image = 0 /\ clientInfo = TRUE /\ removals = 0
    /\ PassInit

Proceed(next) == pc' = next /\ UNCHANGED <<cur, branch, found>>
PassEnds      == pc' = "idle" /\ cur' = NoOne /\ branch' = "live" /\ found' = NoOne

-----------------------------------------------------------------------------
(* The pass.                                                               *)

\* Faulty: a deleted CR is let go with its nodes.
Reconcile_NoCleanUp(c) ==
    /\ pc = "idle" /\ crState[c] \in {"live", "deleting"}
    /\ pc' = IF crState[c] = "live" THEN "get" ELSE "finish"
    /\ cur' = c /\ branch' = crState[c] /\ found' = NoOne
    /\ UNCHANGED <<crState, node, job, scripts, image, clientInfo, removals>>

\* A CR in deletion without nodes is done; with nodes it needs no scripts to go on.
Reconcile(c) ==
    /\ pc = "idle" /\ crState[c] \in {"live", "deleting"}
    /\ pc' = CASE crState[c] = "live" -> "get"
               [] crState[c] = "deleting" /\ node[c] = "none" -> "finish"
               [] OTHER -> "client"
    /\ cur' = c /\ branch' = crState[c] /\ found' = NoOne
    /\ UNCHANGED <<crState, node, job, scripts, image, clientInfo, removals>>

GetScriptsConfigMap ==
    /\ pc = "get"
    /\ found' = scripts /\ pc' = "ensure"
    /\ UNCHANGED <<crState, node, job, scripts, image, clientInfo, removals, cur, branch>>

\* Faulty: a ConfigMap that is there already is left as it is.
EnsureScriptsConfigMap_CreateOnly ==
    /\ pc = "ensure"
    /\ scripts' = IF found = NoOne THEN [owner |-> cur, version |-> image] ELSE scripts
    /\ Proceed("client")
    /\ UNCHANGED <<crState, node, job, image, clientInfo, removals>>

\* Faulty: the ConfigMap is made for the first node of a CR, and never again.
EnsureScriptsConfigMap_BeforeNodesOnly ==
    /\ pc = "ensure"
    /\ scripts' = IF found = NoOne /\ node[cur] = "none"
                  THEN [owner |-> cur, version |-> image] ELSE scripts
    /\ Proceed("client")
    /\ UNCHANGED <<crState, node, job, image, clientInfo, removals>>

\* Create it, or update the scripts in it; the owner stays who it was.
EnsureScriptsConfigMap ==
    /\ pc = "ensure"
    /\ \/ /\ found = NoOne
          /\ scripts' = [owner |-> cur, version |-> image] /\ Proceed("client")
       \/ /\ found # NoOne /\ found.version = image
          /\ Proceed("client") /\ UNCHANGED scripts
       \/ /\ found # NoOne /\ found.version # image /\ scripts = found
          /\ scripts' = [scripts EXCEPT !.version = image] /\ Proceed("client")
       \/ /\ found # NoOne /\ found.version # image /\ scripts # found
          /\ PassEnds /\ UNCHANGED scripts
    /\ UNCHANGED <<crState, node, job, image, clientInfo, removals>>

GetOpenStackClientInformation ==
    /\ pc = "client"
    /\ IF clientInfo THEN Proceed("drain") ELSE PassEnds
    /\ UNCHANGED <<crState, node, job, scripts, image, clientInfo, removals>>

\* The node pass, or the rounds of the deletion: create the job, wait for it, and
\* let the node go.
DrainNode ==
    /\ pc = "drain"
    /\ LET wanted == node[cur] = "going" \/ branch = "deleting" IN
       \/ /\ wanted /\ job[cur].state = "none"
          /\ job' = [job EXCEPT ![cur] = [state |-> "waiting", by |-> branch, since |-> image, runs |-> 0]]
          /\ PassEnds /\ UNCHANGED node
       \/ /\ wanted /\ job[cur].state = "succeeded"
          /\ job' = [job EXCEPT ![cur] = NoJob] /\ node' = [node EXCEPT ![cur] = "none"]
          /\ IF branch = "deleting" THEN Proceed("finish") ELSE PassEnds
       \/ /\ ~wanted \/ job[cur].state \in {"waiting", "running"}
          /\ PassEnds /\ UNCHANGED <<job, node>>
    /\ UNCHANGED <<crState, scripts, image, clientInfo, removals>>

RemoveFinalizer ==
    /\ pc = "finish"
    /\ crState' = [crState EXCEPT ![cur] = "gone"]
    /\ PassEnds
    /\ UNCHANGED <<node, job, scripts, image, clientInfo, removals>>

PassStep ==
    \/ GetScriptsConfigMap \/ EnsureScriptsConfigMap \/ GetOpenStackClientInformation
    \/ DrainNode \/ RemoveFinalizer

\* A new version of the operator is rolled out; whatever was under way is lost.
OperatorUpgraded ==
    /\ image < MaxImage
    /\ image' = image + 1
    /\ PassEnds
    /\ UNCHANGED <<crState, node, job, scripts, clientInfo, removals>>

-----------------------------------------------------------------------------
(* Kubernetes and the administrator.                                       *)

\* The garbage collector removes what no owner is left of.
GarbageCollected ==
    /\ scripts # NoOne /\ crState[scripts.owner] = "gone"
    /\ scripts' = NoOne
    /\ UNCHANGED <<crState, node, job, image, clientInfo, removals, passVars>>

\* The kubelet mounts scripts, client ConfigMap and secret, or tries again.
PodStarts(c) ==
    /\ job[c].state = "waiting" /\ scripts # NoOne /\ clientInfo
    /\ job' = [job EXCEPT ![c].state = "running", ![c].runs = scripts.version]
    /\ UNCHANGED <<crState, node, scripts, image, clientInfo, removals, passVars>>

JobSucceeds(c) ==
    /\ job[c].state = "running"
    /\ job' = [job EXCEPT ![c].state = "succeeded"]
    /\ UNCHANGED <<crState, node, scripts, image, clientInfo, removals, passVars>>

CRCreated(c) ==
    /\ crState[c] = "absent"
    /\ crState' = [crState EXCEPT ![c] = "live"]
    /\ UNCHANGED <<node, job, scripts, image, clientInfo, removals, passVars>>

CRDeleted(c) ==
    /\ crState[c] = "live"
    /\ crState' = [crState EXCEPT ![c] = "deleting"]
    /\ UNCHANGED <<node, job, scripts, image, clientInfo, removals, passVars>>

NodeMoves(c) ==
    /\ crState[c] = "live" /\ node[c] \in {"none", "up"}
    /\ node' = [node EXCEPT ![c] = IF @ = "none" THEN "up" ELSE "going"]
    /\ UNCHANGED <<crState, job, scripts, image, clientInfo, removals, passVars>>

ClientInfoSwitched ==
    /\ clientInfo => removals < MaxRemovals
    /\ clientInfo' = ~clientInfo
    /\ removals' = IF clientInfo THEN removals + 1 ELSE removals
    /\ UNCHANGED <<crState, node, job, scripts, image, passVars>>

Next ==
    \/ PassStep \/ OperatorUpgraded \/ GarbageCollected \/ ClientInfoSwitched
    \/ \E c \in CRs : \/ Reconcile(c) \/ PodStarts(c) \/ JobSucceeds(c)
                      \/ CRCreated(c) \/ CRDeleted(c) \/ NodeMoves(c)

Spec == Init /\ [][Next]_vars

\* Every CR has its turn: by events, errors and the resync.  Kubernetes does its
\* part; nobody is obliged to create, delete or restore anything.
FairSpec ==
    /\ Spec
    /\ WF_vars(PassStep) /\ WF_vars(GarbageCollected)
    /\ \A c \in CRs : SF_vars(Reconcile(c)) /\ SF_vars(PodStarts(c)) /\ WF_vars(JobSucceeds(c))

-----------------------------------------------------------------------------
(* Properties.                                                             *)

\* controller.go, "if scripts got update in operator image, also update the
\* existing configmap": no pod runs older scripts than its operator had when the
\* job was created.
AlwaysCurrentScripts ==
    \A c \in CRs : job[c].state = "running" => job[c].runs >= job[c].since

\* The same for the jobs of live CRs, whichever CR owns the ConfigMap.
CurrentScripts ==
    \A c \in CRs : job[c].state = "running" /\ job[c].by = "live" => job[c].runs >= job[c].since

\* As long as one CR lives on, the others may come and go: in the end the scripts
\* are there, and those of the operator.
ScriptsKept ==
    (<>[]\E c \in CRs : crState[c] = "live") => <>[](scripts # NoOne /\ scripts.version = image)

\* controller.go, "we want to wait for the event of the drain jobs": the event
\* comes, and a deleted CR goes.
AlwaysDeletionEnds ==
    <>[]clientInfo => \A c \in CRs : crState[c] = "deleting" ~> crState[c] = "gone"

\* The same if another CR of the namespace lives on.
DeletionEnds ==
    (<>[]clientInfo /\ <>[]\E c \in CRs : crState[c] = "live") =>
        \A c \in CRs : crState[c] = "deleting" ~> crState[c] = "gone"
=============================================================================
