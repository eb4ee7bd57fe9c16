---------------------------- MODULE MCNodeDrain ----------------------------
(* NodeDrain for TLC: the hosts are interchangeable. *)
EXTENDS NodeDrain, TLC

NodeSymmetry == Permutations(Nodes)

\* Between two passes all hosts are up, known and guarded, and some are on their
\* way out: the machine controller has cordoned them and evicts the blocker pods.
RemovalBegun ==
    /\ present = Nodes /\ tainted = {} /\ unmodified = {}
    /\ cordoned \in SUBSET Nodes \ {{}}
    /\ machine = [n \in Nodes |-> IF n \in cordoned THEN "deleting" ELSE "running"]
    /\ blocker = [n \in Nodes |-> IF n \in cordoned THEN "terminating" ELSE "held"]
    /\ job = [n \in Nodes |-> [p \in Phases |-> "absent"]]
    /\ disables = [n \in Nodes |-> {}]
    /\ service = [n \in Nodes |-> "enabled"]
    /\ instances = Nodes
    /\ statusNodes = [n \in Nodes |-> "Ready"]
    /\ nodesToDelete = {}
    /\ cachedBlocker = blocker
    /\ PassInit
    /\ failures = 0

\* Either one host from its joining on, or all from the time their removal has
\* begun, where one that stays is scaled down once the others have left.
OneJoins == present' \subseteq present \/ \A n \in Nodes : machine[n] = "none"
LastOneGoes == \A n \in Nodes : machine[n] = "running" /\ present # {n} => machine'[n] = "running"

RemovalSpec == (Init \/ RemovalBegun) /\ [][Next /\ OneJoins /\ LastOneGoes]_vars /\ Fairness
=============================================================================
