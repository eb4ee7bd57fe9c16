--------------------------- MODULE MCDrainScripts ---------------------------
(* DrainScripts for TLC: the settings of `drain` and `nodesToDelete`. *)
EXTENDS DrainScripts

Setting(enabled, on, off) == [enabled |-> enabled, on |-> on, off |-> off]

\* Migration for one host only: what is on the other one is moved by hand.
MCConfigs == {Setting(FALSE, {"h1"}, {"h2"})}

\* Migration for all hosts but one.
MCOverride == {Setting(TRUE, {}, {"h1"})}
=============================================================================
