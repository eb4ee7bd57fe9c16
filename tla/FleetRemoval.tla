---------------------------- MODULE FleetRemoval ----------------------------
(***************************************************************************)
(* What the operator promises about the deletion of a whole CR.  Until     *)
(* then each host is removed on its own, as in NodeRemoval.  Afterwards    *)
(* the guarded hosts go together: each one is closed, emptied and          *)
(* forgotten by Nova, and only when this is so of all of them may the      *)
(* first be let go.  The CR is gone when no host is guarded any more.      *)
(***************************************************************************)
EXTENDS NodeRemoval

VARIABLE phase      \* of the CR: "live", "deleting" or "gone"

fleetVars == <<removalVars, phase>>

\* A fleet in service, of any size.
FleetInit ==
    /\ phase = "live"
    /\ guarded \subseteq known /\ serving = known
    /\ doomed = {} /\ retired = {} /\ occupied = {}

Use(n) == Occupy(n) \/ Vacate(n) \/ \E m \in Nodes : Move(n, m)

DeleteFleet == phase = "live" /\ phase' = "deleting" /\ UNCHANGED removalVars

\* Whoever is late in guarding a host is not so late that others are drained.
GuardLate(n) == Guard(n) /\ guarded \cap retired = {}

CloseGuarded(n) ==
    /\ n \in guarded
    /\ serving' = serving \ {n}
    /\ UNCHANGED <<known, doomed, guarded, retired, occupied>>

RetireGuarded(n) ==
    /\ n \in guarded \ (serving \cup occupied)
    /\ retired' = retired \cup {n}
    /\ UNCHANGED <<known, doomed, guarded, serving, occupied>>

\* The barrier: nobody is let go before all are forgotten and empty.
ReleaseTogether(n) ==
    /\ n \in guarded
    /\ guarded \subseteq retired \ (serving \cup occupied)
    /\ guarded' = guarded \ {n}
    /\ UNCHANGED <<known, doomed, serving, retired, occupied>>

FleetGone ==
    /\ phase = "deleting" /\ guarded = {}
    /\ phase' = "gone" /\ UNCHANGED removalVars

\* The machines stay until the CR is gone.
FleetNext ==
    \/ phase = "live" /\ Next /\ UNCHANGED phase
    \/ DeleteFleet \/ FleetGone
    \/ \E n \in Nodes :
        /\ UNCHANGED phase
        /\ \/ phase = "deleting" /\ (\/ Join(n) \/ GuardLate(n) \/ Use(n)
                                     \/ CloseGuarded(n) \/ RetireGuarded(n) \/ ReleaseTogether(n))
           \/ phase = "gone" /\ (Doom(n) \/ Use(n))

FleetSpec == FleetInit /\ [][FleetNext]_fleetVars
=============================================================================
