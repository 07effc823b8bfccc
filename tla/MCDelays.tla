------------------------------ MODULE MCDelays ------------------------------
(* A small instance of Delays for TLC. *)
EXTENDS Delays

\* Second 0 has three stamps: 0000000, one with a 9, and 0000010, which is 8:
\* read as nothing wrong, not at all, and too small.
MCOctal(s) == IF s = 0 THEN 0 ELSE IF s = 1 THEN -1 ELSE 1
=============================================================================
