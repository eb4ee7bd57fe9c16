---------------------------- MODULE NodeRemoval ----------------------------
(***************************************************************************)
(* What the operator promises about the removal of compute hosts, in the   *)
(* terms of the people who use it: a guarded host whose machine is being   *)
(* deleted is first closed to new instances, then emptied, then forgotten  *)
(* by Nova, and only then let go; a host that stays is left alone.         *)
(* NodeDrain implements this with passes, jobs, taints and finalizers.     *)
(***************************************************************************)
CONSTANT Nodes

VARIABLES
    known,      \* hosts that have joined
    doomed,     \* hosts whose machine is being deleted, or gone
    guarded,    \* hosts whose machine may not go yet
    serving,    \* hosts Nova schedules instances to
    retired,    \* hosts Nova has forgotten
    occupied    \* hosts with instances

removalVars == <<known, doomed, guarded, serving, retired, occupied>>

Init ==
    /\ known = {} /\ doomed = {} /\ guarded = {}
    /\ serving = {} /\ retired = {} /\ occupied = {}

Join(n) ==
    /\ n \notin known
    /\ known' = known \cup {n} /\ serving' = serving \cup {n}
    /\ UNCHANGED <<doomed, guarded, retired, occupied>>

Guard(n) ==
    /\ n \in known
    /\ guarded' = guarded \cup {n}
    /\ UNCHANGED <<known, doomed, serving, retired, occupied>>

Doom(n) ==
    /\ n \in known \ doomed
    /\ doomed' = doomed \cup {n}
    /\ UNCHANGED <<known, guarded, serving, retired, occupied>>

Occupy(n) ==
    /\ n \in serving
    /\ occupied' = occupied \cup {n}
    /\ UNCHANGED <<known, doomed, guarded, serving, retired>>

\* The instances leave, or go down with a host that was never guarded.
Vacate(n) ==
    /\ occupied' = occupied \ {n}
    /\ UNCHANGED <<known, doomed, guarded, serving, retired>>

Move(n, m) ==
    /\ n \in occupied /\ m \in serving
    /\ occupied' = (occupied \ {n}) \cup {m}
    /\ UNCHANGED <<known, doomed, guarded, serving, retired>>

Close(n) ==
    /\ n \in doomed
    /\ serving' = serving \ {n}
    /\ UNCHANGED <<known, doomed, guarded, retired, occupied>>

Retire(n) ==
    /\ n \in doomed \cap guarded
    /\ n \notin serving /\ n \notin occupied
    /\ retired' = retired \cup {n}
    /\ UNCHANGED <<known, doomed, guarded, serving, occupied>>

Release(n) ==
    /\ n \in guarded \cap retired
    /\ guarded' = guarded \ {n}
    /\ UNCHANGED <<known, doomed, serving, retired, occupied>>

Next == \E n \in Nodes :
    \/ Join(n) \/ Guard(n) \/ Doom(n) \/ Occupy(n) \/ Vacate(n)
    \/ Close(n) \/ Retire(n) \/ Release(n) \/ \E m \in Nodes : Move(n, m)

Spec == Init /\ [][Next]_removalVars
=============================================================================
