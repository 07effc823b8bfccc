--------------------------- MODULE MCTestbedLock ---------------------------
(***************************************************************************)
(* Two tests of the same directory, one hosts.alive, one cpkrn2tftpdir and *)
(* one operator; all but the tests run any number of times.                *)
(***************************************************************************)
EXTENDS TestbedLock
=============================================================================
