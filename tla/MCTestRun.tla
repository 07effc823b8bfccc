------------------------------ MODULE MCTestRun ------------------------------
(* Small instances of TestRun for TLC. *)
EXTENDS TestRun

CONSTANTS c1, c2, c3

MCClients ==
  [m \in Modes |-> IF m = "clients" THEN <<c1>> ELSE <<c1, c2>>]
=============================================================================
