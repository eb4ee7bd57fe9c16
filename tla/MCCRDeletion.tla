---------------------------- MODULE MCCRDeletion ----------------------------
(* CRDeletion for TLC. *)
EXTENDS CRDeletion, TLC

NodeSymmetry == Permutations(Nodes)

\* Between two passes every host is up, known and guarded.
Settled ==
    /\ present = Nodes /\ cordoned = {} /\ tainted = {} /\ unmodified = {}
    /\ machine = [n \in Nodes |-> "running"]
    /\ blocker = [n \in Nodes |-> "held"]
    /\ job = [n \in Nodes |-> [p \in Phases |-> "absent"]]
    /\ disables = [n \in Nodes |-> {}]
    /\ service = [n \in Nodes |-> "enabled"]
    /\ instances = {}
    /\ statusNodes = [n \in Nodes |-> "Ready"]
    /\ nodesToDelete = {}
    /\ cachedBlocker = blocker
    /\ PassInit
    /\ failures = 0
    /\ RoundInit

\* Any moment from here on somebody may delete the CR.
SettledInit == Settled /\ crState = "live" /\ queued = FALSE
SettledSpec == SettledInit /\ [][DeletionNext]_allVars

\* Somebody deletes the CR at once.
DeletedNext == DeletionNext /\ (crState = "live" => DeleteCR)
DeletedSpec == SettledInit /\ [][DeletedNext]_allVars /\ DeletionFairness

\* One host from its joining on, with all mishaps, the CR deleted at any moment; or
\* all hosts from the deletion of the CR on, scaled down and forced away meanwhile.
OneJoins == present' \subseteq present \/ \A n \in Nodes : machine[n] = "none"
OnlyRemovals ==
    /\ failures' = failures /\ nodesToDelete' = nodesToDelete
    /\ \A n \in cordoned' \ cordoned : machine[n] = "deleting"
    /\ \A n \in Nodes, p \in Phases : job'[n][p] # "failed"
Bounded == OneJoins /\ ((\A n \in Nodes : machine[n] # "none") => OnlyRemovals)

MidDrainInit == DeletionInit \/ (Settled /\ crState = "deleting" /\ queued = TRUE)
MidDrainSpec == MidDrainInit /\ [][DeletionNext /\ Bounded]_allVars
=============================================================================
