------------------------------- MODULE MCAthTx -------------------------------
(* Small instances of AthTx for TLC. *)
EXTENDS AthTx, TLC

CONSTANTS tcp, frag, arp, reply, mgmt, plain, null

\* A unicast TCP packet, one sent in two fragments, a broadcast ARP request
\* and the unicast reply to one; management frames to a node with QoS and to
\* one without, and a null data frame.
MCFrags(p) == IF p = frag THEN 2 ELSE 1
MCQueue(p) == IF p = mgmt THEN "VO" ELSE IF p \in {arp, plain} THEN "BE" ELSE "VI"
MCTcp(p) == p \in {tcp, frag}
MCBufs == Permutations(Bufs)
=============================================================================
