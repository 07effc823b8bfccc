------------------------------ MODULE TcpProbe ------------------------------
(***************************************************************************)
(* tcp_probe.c: the kernel module that samples every TCP packet received   *)
(* by an established connection into a ring buffer, and hands the samples  *)
(* to the readers of /proc/net/tcpprobe.                                   *)
(*                                                                         *)
(* The hook runs on several CPUs at once; each read() runs in a process of *)
(* its own.  A spinlock makes the ring's critical sections atomic; what    *)
(* the code does outside it (the test of lastcwnd, the wake-up, the test   *)
(* of wait_event, the copy to the user) is a step of its own here.         *)
(***************************************************************************)
EXTENDS Integers, Sequences, FiniteSets

CONSTANTS
  CPUs,        \* the processors the hook runs on
  Readers,     \* the processes that open the file
  Samples,     \* the packets whose port matches the `port' parameter
  Cwnd(_),     \* snd_cwnd of the connection at a packet
  Width(_),    \* how many characters the record of a packet is printed in
  Lens,        \* the lengths user programs pass to read()
  BufSize,     \* the `bufsize' parameter
  WordMod,     \* 2^(bits of an unsigned long)
  NoSample     \* what kcalloc leaves in a slot

ASSUME BufSizeAssumption == BufSize \in Nat \ {0} /\ WordMod \in Nat \ {0}
ASSUME SampleAssumption ==
  /\ NoSample \notin Samples
  /\ \A s \in Samples : Cwnd(s) \in Nat
  /\ \A s \in Samples \cup {NoSample} : Width(s) \in Nat \ {0}
ASSUME LensAssumption == Lens \subseteq Nat \ {0}

VARIABLES
  loaded,      \* the module is in the kernel
  full,        \* the `full' parameter it was loaded with
  head, tail,  \* tcp_probe.head, tcp_probe.tail
  log,         \* tcp_probe.log
  lastcwnd,    \* tcp_probe.lastcwnd
  hpc, hpkt,   \* where the hook is on each CPU, and with which packet
  rpc,         \* where each reader is
  rlen, rcnt,  \* len and cnt of its read()
  rsaw,        \* the index its unlocked test of the ring has loaded so far
  woken,       \* the readers woken since they joined the wait queue
  rbuf         \* the record it has taken and not yet copied (tbuf)

ringVars == <<head, tail, log>>
hookVars == <<hpc, hpkt>>
readVars == <<rpc, rlen, rcnt, rsaw, woken, rbuf>>
vars == <<loaded, full, head, tail, log, lastcwnd,
          hpc, hpkt, rpc, rlen, rcnt, rsaw, woken, rbuf>>

Slots == 0 .. BufSize - 1

-----------------------------------------------------------------------------
(* The ring: unsigned long subtraction wraps at WordMod before % bufsize.  *)

(* A bug: the difference is not reduced to the ring. *)
UsedUnreduced(h, t) == (h - t) % WordMod
UsedOf(h, t) == ((h - t) % WordMod) % BufSize
Avail == BufSize - UsedOf(head, tail)

-----------------------------------------------------------------------------
(* The types of the variables: the indices stay inside the log, whatever   *)
(* hooks, readers and reloads do.                                          *)
TypeOK ==
  /\ loaded \in BOOLEAN /\ full \in BOOLEAN
  /\ head \in Slots /\ tail \in Slots
  /\ log \in [Slots -> Samples \cup {NoSample}]
  /\ lastcwnd \in Nat
  /\ hpc \in [CPUs -> {"idle", "log", "wake"}]
  /\ hpkt \in [CPUs -> Samples \cup {NoSample}]
  /\ rpc \in [Readers -> {"closed", "open", "wait", "sawhead", "sawtail",
                        "asleep", "take", "copy"}]
  /\ rsaw \in [Readers -> Slots]
  /\ woken \subseteq Readers
  /\ rlen \in [Readers -> Nat] /\ rcnt \in [Readers -> Nat]
  /\ rbuf \in [Readers -> Samples \cup {NoSample}]

Init ==
  /\ loaded = TRUE /\ full \in BOOLEAN
  /\ head = 0 /\ tail = 0
  /\ log = [i \in Slots |-> NoSample]
  /\ lastcwnd = 0
  /\ hpc = [c \in CPUs |-> "idle"] /\ hpkt = [c \in CPUs |-> NoSample]
  /\ rpc = [r \in Readers |-> "closed"]
  /\ rlen = [r \in Readers |-> 0] /\ rcnt = [r \in Readers |-> 0]
  /\ rsaw = [r \in Readers |-> 0] /\ woken = {}
  /\ rbuf = [r \in Readers |-> NoSample]

-----------------------------------------------------------------------------
(* The hook, jtcp_rcv_established.  A packet that fails the test leaves no  *)
(* trace, so only those that pass it are steps.                            *)

HookTest(c, s) ==
  /\ loaded /\ hpc[c] = "idle"
  /\ full \/ Cwnd(s) # lastcwnd
  /\ hpc' = [hpc EXCEPT ![c] = "log"]
  /\ hpkt' = [hpkt EXCEPT ![c] = s]
  /\ UNCHANGED <<loaded, full, ringVars, lastcwnd, readVars>>

(* A bug: head runs past the end of the log. *)
StoreUnwrapped(s) ==
  /\ log' = [log EXCEPT ![head] = s]
  /\ head' = head + 1
  /\ UNCHANGED tail

Store(s) ==
  /\ log' = [log EXCEPT ![head] = s]
  /\ head' = (head + 1) % BufSize
  /\ UNCHANGED tail

(* A bug: the last free slot is used, and a full ring looks empty. *)
StoreOverTail(c) ==
  /\ hpc[c] = "log"
  /\ IF Avail > 0 THEN Store(hpkt[c]) ELSE UNCHANGED ringVars
  /\ lastcwnd' = Cwnd(hpkt[c])
  /\ hpc' = [hpc EXCEPT ![c] = "wake"]
  /\ UNCHANGED <<loaded, full, hpkt, readVars>>

(* Under the lock: store the sample, or drop it silently. *)
HookLog(c) ==
  /\ hpc[c] = "log"
  /\ IF Avail > 1 THEN Store(hpkt[c]) ELSE UNCHANGED ringVars
  /\ lastcwnd' = Cwnd(hpkt[c])
  /\ hpc' = [hpc EXCEPT ![c] = "wake"]
  /\ UNCHANGED <<loaded, full, hpkt, readVars>>

(* wake_up(), after the unlock, wakes every process on the wait queue: the *)
(* sleepers, and those still at their test, who will not go to sleep.      *)
Awake(R) ==
  /\ rpc' = [r \in Readers |->
               IF r \in R /\ rpc[r] = "asleep" THEN "wait" ELSE rpc[r]]
  /\ woken' = woken \cup {r \in R : rpc[r] \in {"sawhead", "sawtail"}}

(* A bug: the processes still at their test are not told. *)
WakeSleepersOnly == Awake({r \in Readers : rpc[r] = "asleep"})
WakeUp == Awake(Readers)

HookWake(c) ==
  /\ hpc[c] = "wake"
  /\ hpc' = [hpc EXCEPT ![c] = "idle"]
  /\ hpkt' = [hpkt EXCEPT ![c] = NoSample]
  /\ WakeUp
  /\ UNCHANGED <<loaded, full, ringVars, lastcwnd, rlen, rcnt, rsaw, rbuf>>

-----------------------------------------------------------------------------
(* The file.                                                               *)

At(r, pc) == rpc' = [rpc EXCEPT ![r] = pc]

Return(r) ==
  /\ At(r, "open")
  /\ rlen' = [rlen EXCEPT ![r] = 0]
  /\ rcnt' = [rcnt EXCEPT ![r] = 0]

KeepRing == UNCHANGED <<loaded, full, ringVars, lastcwnd, hookVars>>

(* tcpprobe_open empties the log, whoever else has it open. *)
Open(r) ==
  /\ loaded /\ rpc[r] = "closed"
  /\ head' = 0 /\ tail' = 0
  /\ At(r, "open")
  /\ UNCHANGED <<loaded, full, log, lastcwnd, hookVars, rlen, rcnt, rsaw, woken, rbuf>>

Close(r) ==
  /\ rpc[r] = "open"
  /\ At(r, "closed")
  /\ KeepRing /\ UNCHANGED <<rlen, rcnt, rsaw, woken, rbuf>>

Read(r, len) ==
  /\ rpc[r] = "open"
  /\ At(r, "wait")
  /\ rlen' = [rlen EXCEPT ![r] = len]
  /\ KeepRing /\ UNCHANGED <<rcnt, rsaw, woken, rbuf>>

(* wait_event_interruptible joins the wait queue and tests the ring, with  *)
(* no lock: it loads the two indices one after the other, in either order. *)
Look(r) ==
  /\ rpc[r] = "wait"
  /\ \/ At(r, "sawhead") /\ rsaw' = [rsaw EXCEPT ![r] = head]
     \/ At(r, "sawtail") /\ rsaw' = [rsaw EXCEPT ![r] = tail]
  /\ KeepRing /\ UNCHANGED <<rlen, rcnt, woken, rbuf>>

Seen(r) == CASE rpc[r] = "sawhead" -> UsedOf(rsaw[r], tail)
             [] rpc[r] = "sawtail" -> UsedOf(head, rsaw[r])

Leave(r) == rsaw' = [rsaw EXCEPT ![r] = 0] /\ woken' = woken \ {r}

(* On a false test it sleeps, unless it was woken since it joined. *)
Judge(r) ==
  /\ rpc[r] \in {"sawhead", "sawtail"}
  /\ At(r, IF Seen(r) > 0 THEN "take"
            ELSE IF r \in woken THEN "wait" ELSE "asleep")
  /\ Leave(r)
  /\ KeepRing /\ UNCHANGED <<rlen, rcnt, rbuf>>

(* A signal wakes the sleeper, who tests again and, on a false test, *)
(* returns what it has.                                              *)
SignalWakes(r) ==
  /\ rpc[r] = "asleep"
  /\ At(r, "wait")
  /\ KeepRing /\ UNCHANGED <<rlen, rcnt, rsaw, woken, rbuf>>

Interrupted(r) ==
  /\ rpc[r] \in {"sawhead", "sawtail"} /\ Seen(r) = 0
  /\ Return(r) /\ Leave(r)
  /\ KeepRing /\ UNCHANGED rbuf

(* "multiple readers race?": the log was emptied since the test. *)
RaceLost(r) ==
  /\ rpc[r] = "take" /\ head = tail
  /\ At(r, "wait")
  /\ KeepRing /\ UNCHANGED <<rlen, rcnt, rsaw, woken, rbuf>>

TakeRecord(r) ==
  /\ rpc[r] = "take" /\ head # tail
  /\ Width(log[tail]) < rlen[r]
  /\ rbuf' = [rbuf EXCEPT ![r] = log[tail]]
  /\ tail' = (tail + 1) % BufSize
  /\ At(r, "copy")
  /\ UNCHANGED <<loaded, full, head, log, lastcwnd, hookVars, rlen, rcnt, rsaw, woken>>

TooWide(r) ==
  /\ rpc[r] = "take" /\ head # tail
  /\ Width(log[tail]) >= rlen[r]
  /\ Return(r)
  /\ KeepRing /\ UNCHANGED <<rsaw, woken, rbuf>>

(* The while loop goes on as long as cnt < len. *)
Copy(r) ==
  LET cnt == rcnt[r] + Width(rbuf[r]) IN
  /\ rpc[r] = "copy"
  /\ IF cnt < rlen[r]
     THEN /\ At(r, "wait")
          /\ rcnt' = [rcnt EXCEPT ![r] = cnt]
          /\ UNCHANGED rlen
     ELSE Return(r)
  /\ rbuf' = [rbuf EXCEPT ![r] = NoSample]
  /\ KeepRing /\ UNCHANGED <<rsaw, woken>>

(* copy_to_user fails after the record has left the ring. *)
CopyFault(r) ==
  /\ rpc[r] = "copy"
  /\ Return(r)
  /\ rbuf' = [rbuf EXCEPT ![r] = NoSample]
  /\ KeepRing /\ UNCHANGED <<rsaw, woken>>

-----------------------------------------------------------------------------
(* rmmod: an open file pins the module, and unregister_jprobe waits for the *)
(* hooks that run.  insmod starts from fresh static data.                  *)

Unload ==
  /\ loaded
  /\ \A r \in Readers : rpc[r] = "closed"
  /\ \A c \in CPUs : hpc[c] = "idle"
  /\ loaded' = FALSE
  /\ UNCHANGED <<full, ringVars, lastcwnd, hookVars, readVars>>

Load ==
  /\ ~loaded /\ loaded' = TRUE
  /\ full' \in BOOLEAN
  /\ head' = 0 /\ tail' = 0
  /\ log' = [i \in Slots |-> NoSample]
  /\ lastcwnd' = 0
  /\ UNCHANGED <<hookVars, readVars>>

-----------------------------------------------------------------------------
Hook(c) == HookLog(c) \/ HookWake(c)
Loop(r) == Look(r) \/ Judge(r) \/ RaceLost(r) \/ TakeRecord(r) \/ TooWide(r) \/ Copy(r)

Next ==
  \/ \E c \in CPUs : Hook(c) \/ \E s \in Samples : HookTest(c, s)
  \/ \E r \in Readers :
       \/ Loop(r) \/ Open(r) \/ Close(r) \/ SignalWakes(r) \/ Interrupted(r) \/ CopyFault(r)
       \/ \E len \in Lens : Read(r, len)
  \/ Unload \/ Load

Spec == Init /\ [][Next]_vars

(* A hook that has started runs to its end, and a process in read() that   *)
(* can run is scheduled; nothing forces packets, reads or signals to come. *)
FairSpec ==
  /\ Spec
  /\ \A c \in CPUs : WF_vars(Hook(c))
  /\ \A r \in Readers : WF_vars(Loop(r))

-----------------------------------------------------------------------------
(* What must hold.                                                         *)

(* The unsigned subtraction is right when bufsize divides 2^bits.          *)
SizeDividesWord == WordMod % BufSize = 0

(* The samples in the ring, from tail round to head.                       *)
Held == IF head >= tail THEN head - tail ELSE head - tail + BufSize
Slot(t, i) == IF t + i < BufSize THEN t + i ELSE t + i - BufSize
Queue == [i \in 1 .. Held |-> log[Slot(tail, i - 1)]]
Opened == {r \in Readers : rpc[r] # "closed"}

(* The ring with its two indices is the bounded FIFO of ProbeLog: no sample *)
(* is overwritten, read twice, read by two readers or read out of order,   *)
(* and none disappears while a reader has the file open and none opens it. *)
Abs == INSTANCE ProbeLog WITH
         queue <- Queue, got <- rbuf, opened <- Opened, Capacity <- BufSize - 1
AbsSpec == Abs!Spec

(* "If log fills, just silently drop": a sample that passed the test is    *)
(* stored whenever fewer than bufsize - 1 others are waiting.              *)
StoredUnlessFull ==
  \A c \in CPUs :
    (hpc[c] = "log" /\ hpc'[c] # "log" /\ Held < BufSize - 1)
      => /\ log'[head] = hpkt[c]
         /\ Held' = Held + 1
StoresUnlessFull == [][StoredUnlessFull]_vars

(* A reader sleeps on a log that holds something only while some hook is   *)
(* on its way from its unlock to its wake_up.                              *)
NoLostWakeup ==
  \A r \in Readers : (rpc[r] = "asleep" /\ Held > 0)
                        => \E c \in CPUs : hpc[c] = "wake"

(* Records do not lie in the log while readers wait for them: again and    *)
(* again the log is empty, or no reader waits, or one of them takes a      *)
(* record or gives up on it.  (Which of the readers is nobody's promise.)  *)
Waiting(r) == rpc[r] \in {"wait", "sawhead", "sawtail", "asleep", "take"}
Takes(r) == rpc[r] = "take" /\ rpc'[r] \in {"copy", "open"}
ReaderServed ==
  \/ []<>(Held = 0 \/ \A r \in Readers : ~Waiting(r))
  \/ []<><<\E r \in Readers : Takes(r)>>_vars

(* "if record greater than space available return partial buffer (so far)":*)
(* a record is copied only into the space that is left.                    *)
FitsInSpaceLeft ==
  \A r \in Readers : rpc[r] = "copy" => rcnt[r] + Width(rbuf[r]) <= rlen[r]

=============================================================================
