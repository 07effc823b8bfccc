------------------------------ MODULE ProbeLog ------------------------------
(***************************************************************************)
(* What /proc/net/tcpprobe promises to the people who read it: a bounded   *)
(* first-in first-out log of packet samples.  A sample enters at the back  *)
(* unless the log is full, and leaves from the front into the hands of one *)
(* reader.  The log is emptied by opening the file and by reloading the    *)
(* module, which nobody can do to an open file, and by nothing else.       *)
(***************************************************************************)
EXTENDS Naturals, Sequences

CONSTANTS
  Samples,    \* the packet samples the hook may log
  Readers,    \* the processes that read the file
  Capacity,   \* how many samples the log holds
  NoSample    \* what a reader holds between two records

VARIABLES
  queue,      \* the samples in the log, oldest first
  got,        \* the sample each reader has taken and is copying out
  opened      \* the readers that have the file open
vars == <<queue, got, opened>>

Init ==
  /\ queue = << >>
  /\ got = [r \in Readers |-> NoSample]
  /\ opened = {}

Enter(s) ==
  /\ Len(queue) < Capacity
  /\ queue' = Append(queue, s)
  /\ UNCHANGED <<got, opened>>

Open(r) ==
  /\ r \notin opened
  /\ opened' = opened \cup {r}
  /\ queue' = << >>
  /\ UNCHANGED got

Close(r) ==
  /\ r \in opened
  /\ opened' = opened \ {r}
  /\ UNCHANGED <<queue, got>>

Take(r) ==
  /\ r \in opened
  /\ queue # << >>
  /\ got' = [got EXCEPT ![r] = Head(queue)]
  /\ queue' = Tail(queue)
  /\ UNCHANGED opened

Done(r) ==
  /\ got' = [got EXCEPT ![r] = NoSample]
  /\ UNCHANGED <<queue, opened>>

Reload ==
  /\ opened = {}
  /\ queue' = << >>
  /\ UNCHANGED <<got, opened>>

Next ==
  \/ \E s \in Samples : Enter(s)
  \/ \E r \in Readers : Open(r) \/ Close(r) \/ Take(r) \/ Done(r)
  \/ Reload

Spec == Init /\ [][Next]_vars
=============================================================================
