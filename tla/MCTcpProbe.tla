----------------------------- MODULE MCTcpProbe -----------------------------
(* Small instances of TcpProbe for TLC. *)
EXTENDS TcpProbe, TLC

CONSTANTS p1, p2

\* Two packets tell order, loss and duplication apart; p2 has the wider record.
MCCwnd(s)  == IF s = p1 THEN 1 ELSE 2
MCWidth(s) == IF s = p1 THEN 1 ELSE 2
MCReaders == Permutations(Readers)
=============================================================================
