----------------------------- MODULE MCPowerSave -----------------------------
(* Small instances of PowerSave for TLC. *)
EXTENDS PowerSave, TLC

Symmetry == Permutations(Nodes)
=============================================================================
