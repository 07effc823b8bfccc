--------------------------- MODULE TcpProbe_proofs ---------------------------
(***************************************************************************)
(* Proofs about TcpProbe for every number of processors, readers and       *)
(* samples and every ring size: type correctness, and, when the ring size  *)
(* divides the range of an unsigned long, that no wake-up is lost, that a   *)
(* sample is dropped only by a full log, and that the ring implements      *)
(* ProbeLog.                                                               *)
(***************************************************************************)
EXTENDS TcpProbe, TLAPS

-----------------------------------------------------------------------------
(* Remainders.                                                             *)

\* The remainder of a multiple of n plus r is r.
LEMMA ModUnique ==
  ASSUME NEW n \in Nat \ {0}, NEW q \in Int, NEW r \in 0 .. n - 1
  PROVE  (q * n + r) % n = r
OBVIOUS

\* The index arithmetic of the ring: the slot after i.
LEMMA NextSlot ==
  ASSUME NEW i \in Slots
  PROVE  /\ (i + 1) % BufSize = IF i + 1 = BufSize THEN 0 ELSE i + 1
         /\ (i + 1) % BufSize \in Slots
BY BufSizeAssumption DEF Slots

\* tcp_probe_used() is the number of records between its two indices.
LEMMA UsedIsHeld ==
  ASSUME SizeDividesWord, NEW h \in Slots, NEW t \in Slots
  PROVE  UsedOf(h, t) = IF h >= t THEN h - t ELSE h - t + BufSize
<1>1. PICK k \in Int : WordMod = k * BufSize
  BY BufSizeAssumption DEF SizeDividesWord
<1>2. WordMod >= BufSize
  BY BufSizeAssumption DEF SizeDividesWord
<1>3. CASE h >= t
  <2>1. (h - t) % WordMod = h - t
    BY <1>2, <1>3, BufSizeAssumption DEF Slots
  <2>2. QED
    BY <1>3, <2>1, BufSizeAssumption DEF Slots, UsedOf
<1>4. CASE ~(h >= t)
  <2>1. (h - t) % WordMod = WordMod + (h - t)
    BY <1>2, <1>4, BufSizeAssumption DEF Slots
  <2>2. WordMod + (h - t) = (k - 1) * BufSize + (h - t + BufSize)
    BY <1>1, BufSizeAssumption DEF Slots
  <2>3. ((k - 1) * BufSize + (h - t + BufSize)) % BufSize = h - t + BufSize
    BY <1>4, ModUnique, BufSizeAssumption DEF Slots
  <2>4. QED
    BY <1>4, <2>1, <2>2, <2>3 DEF UsedOf
<1>5. QED
  BY <1>3, <1>4

-----------------------------------------------------------------------------
(* Type correctness.                                                       *)

\* A hook past its test holds a packet, so lastcwnd is always a cwnd.
HookHolds == \A c \in CPUs : hpc[c] # "idle" => hpkt[c] \in Samples

TypeInv == TypeOK /\ HookHolds

\* The types hold in the freshly loaded module.
LEMMA TypeInit == Init => TypeInv
BY BufSizeAssumption DEF Init, TypeInv, TypeOK, HookHolds, Slots

\* Every step of a hook, a reader or the loader keeps the types.
LEMMA TypeStep == TypeInv /\ [Next]_vars => TypeInv'
<1> SUFFICES ASSUME TypeInv, [Next]_vars
             PROVE  TypeInv'
  OBVIOUS
<1> USE DEF TypeInv, TypeOK, HookHolds
<1>1. ASSUME NEW c \in CPUs, NEW s \in Samples, HookTest(c, s)
      PROVE  TypeInv'
  BY <1>1 DEF HookTest, ringVars, readVars
<1>2. ASSUME NEW c \in CPUs, HookLog(c)
      PROVE  TypeInv'
  BY <1>2, NextSlot, SampleAssumption DEF HookLog, Store, ringVars, readVars
<1>3. ASSUME NEW c \in CPUs, HookWake(c)
      PROVE  TypeInv'
  BY <1>3 DEF HookWake, WakeUp, Awake, ringVars
<1>4. ASSUME NEW r \in Readers, Open(r)
      PROVE  TypeInv'
  BY <1>4, BufSizeAssumption DEF Open, At, hookVars, Slots
<1>5. ASSUME NEW r \in Readers, Close(r)
      PROVE  TypeInv'
  BY <1>5 DEF Close, At, KeepRing, ringVars, hookVars
<1>6. ASSUME NEW r \in Readers, NEW len \in Lens, Read(r, len)
      PROVE  TypeInv'
  BY <1>6, LensAssumption DEF Read, At, KeepRing, ringVars, hookVars
<1>7. ASSUME NEW r \in Readers, Look(r)
      PROVE  TypeInv'
  BY <1>7 DEF Look, At, KeepRing, ringVars, hookVars
<1>8. ASSUME NEW r \in Readers, Judge(r)
      PROVE  TypeInv'
  BY <1>8, BufSizeAssumption DEF Judge, Leave, At, KeepRing, ringVars, hookVars, Slots
<1>9. ASSUME NEW r \in Readers, SignalWakes(r)
      PROVE  TypeInv'
  BY <1>9 DEF SignalWakes, At, KeepRing, ringVars, hookVars
<1>10. ASSUME NEW r \in Readers, Interrupted(r)
      PROVE  TypeInv'
  BY <1>10, BufSizeAssumption
     DEF Interrupted, Return, Leave, At, KeepRing, ringVars, hookVars, Slots
<1>11. ASSUME NEW r \in Readers, RaceLost(r)
      PROVE  TypeInv'
  BY <1>11 DEF RaceLost, At, KeepRing, ringVars, hookVars
<1>12. ASSUME NEW r \in Readers, TakeRecord(r)
      PROVE  TypeInv'
  BY <1>12, NextSlot DEF TakeRecord, At, hookVars
<1>13. ASSUME NEW r \in Readers, TooWide(r)
      PROVE  TypeInv'
  BY <1>13 DEF TooWide, Return, At, KeepRing, ringVars, hookVars
<1>14. ASSUME NEW r \in Readers, Copy(r)
      PROVE  TypeInv'
  <2>1. rcnt[r] + Width(rbuf[r]) \in Nat
    BY SampleAssumption
  <2>2. QED
    BY <1>14, <2>1 DEF Copy, Return, At, KeepRing, ringVars, hookVars
<1>15. ASSUME NEW r \in Readers, CopyFault(r)
      PROVE  TypeInv'
  BY <1>15 DEF CopyFault, Return, At, KeepRing, ringVars, hookVars
<1>16. CASE Unload
  BY <1>16 DEF Unload, ringVars, hookVars, readVars
<1>17. CASE Load
  BY <1>17, BufSizeAssumption DEF Load, hookVars, readVars, Slots
<1>18. CASE UNCHANGED vars
  BY <1>18 DEF vars
<1>19. QED
  BY <1>1, <1>2, <1>3, <1>4, <1>5, <1>6, <1>7, <1>8, <1>9, <1>10, <1>11,
     <1>12, <1>13, <1>14, <1>15, <1>16, <1>17, <1>18 DEF Next, Hook, Loop

\* Every index stays in the ring and every counter stays a number, whatever
\* the size of the ring.
THEOREM TypeCorrect == Spec => []TypeOK
<1>1. TypeInv => TypeOK
  BY DEF TypeInv
<1>2. QED
  BY TypeInit, TypeStep, <1>1, PTL DEF Spec

-----------------------------------------------------------------------------
(* No lost wake-up.  A reader tests the ring without the lock, so the      *)
(* invariant has to say what a half-finished test knows: unless somebody   *)
(* is about to wake the reader, or has done so, the head it loaded is      *)
(* still the head, and a tail it loaded that was not the head still isn't. *)

Waking == \E c \in CPUs : hpc[c] = "wake"

TestKnows(r) ==
  /\ rpc[r] = "sawhead" => rsaw[r] = head \/ head = tail
  /\ rpc[r] = "sawtail" => rsaw[r] # head \/ head = tail

WakeInv ==
  \/ Waking
  \/ \A r \in Readers : /\ r \in woken \/ TestKnows(r)
                        /\ rpc[r] = "asleep" => head = tail

\* The wake-up invariant holds in the freshly loaded module.
LEMMA WakeInit == Init => WakeInv
BY DEF Init, WakeInv, TestKnows

\* No step leaves a reader asleep beside a record nobody will wake it for.
LEMMA WakeStep ==
  SizeDividesWord /\ TypeInv /\ WakeInv /\ [Next]_vars => WakeInv'
<1> SUFFICES ASSUME SizeDividesWord, TypeInv, WakeInv, [Next]_vars
             PROVE  WakeInv'
  OBVIOUS
<1> USE DEF WakeInv, Waking, TestKnows, TypeInv, TypeOK
<1>1. ASSUME NEW c \in CPUs, NEW s \in Samples, HookTest(c, s)
      PROVE  WakeInv'
  BY <1>1 DEF HookTest, ringVars, readVars
<1>2. ASSUME NEW c \in CPUs, HookLog(c)
      PROVE  WakeInv'
  BY <1>2 DEF HookLog
<1>3. ASSUME NEW c \in CPUs, HookWake(c)
      PROVE  WakeInv'
  <2>1. \A r \in Readers : rpc'[r] # "asleep"
    BY <1>3 DEF HookWake, WakeUp, Awake
  <2>2. \A r \in Readers : rpc'[r] \in {"sawhead", "sawtail"} => r \in woken'
    BY <1>3 DEF HookWake, WakeUp, Awake
  <2>3. QED
    BY <2>1, <2>2
<1>4. ASSUME NEW r \in Readers, Open(r)
      PROVE  WakeInv'
  BY <1>4 DEF Open, At, hookVars
<1>5. ASSUME NEW r \in Readers, Close(r)
      PROVE  WakeInv'
  BY <1>5 DEF Close, At, KeepRing, ringVars, hookVars
<1>6. ASSUME NEW r \in Readers, NEW len \in Lens, Read(r, len)
      PROVE  WakeInv'
  BY <1>6 DEF Read, At, KeepRing, ringVars, hookVars
<1>7. ASSUME NEW r \in Readers, Look(r)
      PROVE  WakeInv'
  BY <1>7 DEF Look, At, KeepRing, ringVars, hookVars
<1>8. ASSUME NEW r \in Readers, Judge(r)
      PROVE  WakeInv'
  <2>1. rpc'[r] = "asleep" => Waking \/ head = tail
    <3>1. SUFFICES ASSUME ~(Seen(r) > 0), r \notin woken, ~Waking
                   PROVE  head = tail
      BY <1>8 DEF Judge, At
    <3>2. CASE rpc[r] = "sawhead"
      <4>1. ~(UsedOf(rsaw[r], tail) > 0)
        BY <3>1, <3>2 DEF Seen
      <4>2. UsedOf(rsaw[r], tail)
              = IF rsaw[r] >= tail THEN rsaw[r] - tail ELSE rsaw[r] - tail + BufSize
        BY UsedIsHeld
      <4>3. rsaw[r] = tail
        BY <4>1, <4>2, BufSizeAssumption DEF Slots
      <4>4. QED
        BY <3>1, <3>2, <4>3
    <3>3. CASE rpc[r] = "sawtail"
      <4>1. ~(UsedOf(head, rsaw[r]) > 0)
        BY <3>1, <3>3 DEF Seen
      <4>2. UsedOf(head, rsaw[r])
              = IF head >= rsaw[r] THEN head - rsaw[r] ELSE head - rsaw[r] + BufSize
        BY UsedIsHeld
      <4>3. rsaw[r] = head
        BY <4>1, <4>2, BufSizeAssumption DEF Slots
      <4>4. QED
        BY <3>1, <3>3, <4>3
    <3>4. QED
      BY <1>8, <3>2, <3>3 DEF Judge
  <2>2. rpc'[r] \notin {"sawhead", "sawtail"}
    BY <1>8 DEF Judge, At
  <2>3. \A q \in Readers \ {r} : /\ rpc'[q] = rpc[q] /\ rsaw'[q] = rsaw[q]
                                 /\ q \in woken <=> q \in woken'
    BY <1>8 DEF Judge, At, Leave
  <2>4. UNCHANGED <<head, tail, hpc>>
    BY <1>8 DEF Judge, KeepRing, ringVars, hookVars
  <2>5. QED
    BY <2>1, <2>2, <2>3, <2>4
<1>9. ASSUME NEW r \in Readers, SignalWakes(r)
      PROVE  WakeInv'
  BY <1>9 DEF SignalWakes, At, KeepRing, ringVars, hookVars
<1>10. ASSUME NEW r \in Readers, Interrupted(r)
       PROVE  WakeInv'
  BY <1>10 DEF Interrupted, Return, Leave, At, KeepRing, ringVars, hookVars
<1>11. ASSUME NEW r \in Readers, RaceLost(r)
       PROVE  WakeInv'
  BY <1>11 DEF RaceLost, At, KeepRing, ringVars, hookVars
<1>12. ASSUME NEW r \in Readers, TakeRecord(r)
       PROVE  WakeInv'
  BY <1>12 DEF TakeRecord, At, hookVars
<1>13. ASSUME NEW r \in Readers, TooWide(r)
       PROVE  WakeInv'
  BY <1>13 DEF TooWide, Return, At, KeepRing, ringVars, hookVars
<1>14. ASSUME NEW r \in Readers, Copy(r)
       PROVE  WakeInv'
  BY <1>14 DEF Copy, Return, At, KeepRing, ringVars, hookVars
<1>15. ASSUME NEW r \in Readers, CopyFault(r)
       PROVE  WakeInv'
  BY <1>15 DEF CopyFault, Return, At, KeepRing, ringVars, hookVars
<1>16. CASE Unload
  BY <1>16 DEF Unload, ringVars, hookVars, readVars
<1>17. CASE Load
  BY <1>17 DEF Load, hookVars, readVars
<1>18. CASE UNCHANGED vars
  BY <1>18 DEF vars
<1>19. QED
  BY <1>1, <1>2, <1>3, <1>4, <1>5, <1>6, <1>7, <1>8, <1>9, <1>10, <1>11,
     <1>12, <1>13, <1>14, <1>15, <1>16, <1>17, <1>18 DEF Next, Hook, Loop

\* A reader of tcpprobe_read sleeps on a log that holds records only while a
\* hook is between its unlock and its wake_up, for any number of CPUs and readers.
THEOREM WakeUpsAreNotLost == SizeDividesWord => (Spec => []NoLostWakeup)
<1> SUFFICES ASSUME SizeDividesWord
             PROVE  Spec => []NoLostWakeup
  OBVIOUS
<1>1. TypeInv /\ WakeInv => NoLostWakeup
  BY DEF TypeInv, TypeOK, WakeInv, Waking, NoLostWakeup, Held, Slots
<1>2. Init => TypeInv /\ WakeInv
  BY TypeInit, WakeInit
<1>3. TypeInv /\ WakeInv /\ [Next]_vars => (TypeInv /\ WakeInv)'
  BY TypeStep, WakeStep
<1>4. QED
  BY <1>1, <1>2, <1>3, PTL DEF Spec

-----------------------------------------------------------------------------
(* An open file pins the module.                                           *)

Pinned == ~loaded => \A r \in Readers : rpc[r] = "closed"

\* Only a step of the loader changes loaded, and without the module a closed
\* file stays closed.
LEMMA PinnedStep == TypeInv /\ Pinned /\ [Next]_vars => Pinned'
<1> SUFFICES ASSUME TypeInv, Pinned, [Next]_vars
             PROVE  Pinned'
  OBVIOUS
<1> USE DEF TypeInv, TypeOK, Pinned
<1>1. ASSUME NEW c \in CPUs, Hook(c) \/ \E s \in Samples : HookTest(c, s)
      PROVE  Pinned'
  BY <1>1 DEF Hook, HookTest, HookLog, HookWake, WakeUp, Awake, readVars
<1>2. ASSUME NEW r \in Readers, Open(r)
      PROVE  Pinned'
  BY <1>2 DEF Open
<1>3. ASSUME NEW r \in Readers,
             \/ Loop(r) \/ Close(r) \/ SignalWakes(r) \/ Interrupted(r) \/ CopyFault(r)
             \/ \E len \in Lens : Read(r, len)
      PROVE  Pinned'
  <2>1. (loaded' = loaded /\ rpc[r] # "closed") \/ UNCHANGED <<loaded, rpc>>
    BY <1>3 DEF Loop, Look, Judge, RaceLost, TakeRecord, TooWide, Copy, Close,
                SignalWakes, Interrupted, CopyFault, Read, KeepRing
  <2>2. QED
    BY <2>1
<1>4. CASE Unload
  BY <1>4 DEF Unload, readVars
<1>5. CASE Load
  BY <1>5 DEF Load
<1>6. CASE UNCHANGED vars
  BY <1>6 DEF vars
<1>7. QED
  BY <1>1, <1>2, <1>3, <1>4, <1>5, <1>6 DEF Next

-----------------------------------------------------------------------------
(* The ring is a bounded FIFO.                                             *)

\* The number of waiting records is a number below the size of the ring.
LEMMA HeldType ==
  ASSUME TypeInv
  PROVE  Held \in 0 .. BufSize - 1
BY BufSizeAssumption DEF TypeInv, TypeOK, Held, Slots

\* It is what tcp_probe_used() computes.
LEMMA HeldIsUsed ==
  ASSUME SizeDividesWord, TypeInv
  PROVE  Avail = BufSize - Held
<1>1. head \in Slots /\ tail \in Slots
  BY DEF TypeInv, TypeOK
<1>2. UsedOf(head, tail) = Held
  BY <1>1, UsedIsHeld DEF Held
<1>3. QED
  BY <1>2 DEF Avail

\* Storing a sample in a ring that has room appends it to the queue.
LEMMA StoreAppends ==
  ASSUME TypeInv, NEW s \in Samples, Held < BufSize - 1, Store(s)
  PROVE  /\ Held' = Held + 1
         /\ Queue' = Append(Queue, s)
<1> USE DEF TypeInv, TypeOK
<1>1. head' = IF head + 1 = BufSize THEN 0 ELSE head + 1
  BY NextSlot DEF Store
<1>2. tail' = tail
  BY DEF Store
<1>3. Held' = Held + 1
  BY <1>1, <1>2, BufSizeAssumption DEF Held, Slots
<1>4. Held \in Nat
  BY HeldType
<1>5. ASSUME NEW i \in 1 .. Held + 1
      PROVE  log'[Slot(tail, i - 1)] = IF i = Held + 1 THEN s ELSE log[Slot(tail, i - 1)]
  <2>1. Slot(tail, i - 1) \in Slots
    BY HeldType, BufSizeAssumption DEF Slot, Slots, Held
  <2>2. Slot(tail, i - 1) = head <=> i = Held + 1
    BY HeldType, BufSizeAssumption DEF Slot, Slots, Held
  <2>3. QED
    BY <2>1, <2>2 DEF Store
<1>6. Queue' = [i \in 1 .. Held + 1 |->
                  IF i = Held + 1 THEN s ELSE log[Slot(tail, i - 1)]]
  BY <1>2, <1>3, <1>5 DEF Queue, Slot
<1>7. Append(Queue, s) = [i \in 1 .. Held + 1 |->
                            IF i = Held + 1 THEN s ELSE log[Slot(tail, i - 1)]]
  BY <1>4 DEF Queue
<1>8. QED
  BY <1>3, <1>6, <1>7

\* Moving tail on removes the queue's head.
LEMMA TakeRemovesHead ==
  ASSUME TypeInv, head # tail,
         tail' = (tail + 1) % BufSize, head' = head, log' = log
  PROVE  /\ Queue # << >>
         /\ Head(Queue) = log[tail]
         /\ Queue' = Tail(Queue)
<1>1. /\ head \in 0 .. BufSize - 1
      /\ tail \in 0 .. BufSize - 1
      /\ BufSize \in Nat \ {0}
  BY BufSizeAssumption DEF TypeInv, TypeOK, Slots
<1>2. tail' = IF tail + 1 = BufSize THEN 0 ELSE tail + 1
  BY <1>1, NextSlot DEF Slots
<1>3. Held \in Nat \ {0}
  BY <1>1 DEF Held
<1>4. Held' = Held - 1
  BY <1>1, <1>2 DEF Held
<1>5. Slot(tail, 0) = tail
  BY <1>1 DEF Slot
<1>6. Queue # << >> /\ Head(Queue) = log[tail]
  <2>1. 1 \in DOMAIN Queue /\ Queue[1] = log[tail]
    BY <1>3, <1>5 DEF Queue
  <2>2. QED
    BY <2>1
<1>7. ASSUME NEW i \in 1 .. Held - 1
      PROVE  Slot(tail', i - 1) = Slot(tail, i)
  <2>1. i \in Nat /\ Held \in Nat /\ 1 <= i /\ i < Held /\ Held < BufSize
    BY <1>1, <1>3 DEF Held
  <2>2. CASE tail + 1 = BufSize
    <3>1. tail' = 0 /\ i - 1 < BufSize /\ i - 1 \in Nat
      BY <1>1, <1>2, <2>1, <2>2
    <3>2. Slot(tail', i - 1) = i - 1
      BY <3>1 DEF Slot
    <3>3. Slot(tail, i) = i - 1
      BY <1>1, <2>1, <2>2 DEF Slot
    <3>4. QED
      BY <3>2, <3>3
  <2>3. CASE tail + 1 # BufSize
    BY <1>1, <1>2, <2>1, <2>3 DEF Slot
  <2>4. QED
    BY <2>2, <2>3
<1>8. Queue' = [i \in 1 .. Held - 1 |-> log[Slot(tail, i)]]
  BY <1>4, <1>7 DEF Queue
<1>9. Tail(Queue) = [i \in 1 .. Held - 1 |-> log[Slot(tail, i)]]
  BY <1>3 DEF Queue
<1>10. QED
  BY <1>6, <1>8, <1>9

\* An emptied ring maps to the empty log.
LEMMA EmptyQueue == head = 0 /\ tail = 0 => Queue = << >>
BY DEF Queue, Held

\* The initial states of the ring map to initial states of the log.
LEMMA AbsInit == Init => Abs!Init
BY EmptyQueue DEF Init, Abs!Init, Opened

\* Every step of the ring maps to a step of the log, or to a stutter.
LEMMA AbsStep ==
  SizeDividesWord /\ TypeInv /\ Pinned /\ [Next]_vars => [Abs!Next]_(Abs!vars)
<1> SUFFICES ASSUME SizeDividesWord, TypeInv, Pinned, [Next]_vars
             PROVE  [Abs!Next]_(Abs!vars)
  OBVIOUS
<1> DEFINE Stutter == UNCHANGED <<head, tail, log, rbuf, Opened>>
           Discard(r) == /\ UNCHANGED <<head, tail, log, Opened>>
                         /\ rbuf' = [rbuf EXCEPT ![r] = NoSample]
<1>1. Stutter => UNCHANGED Abs!vars
  BY DEF Abs!vars, Queue, Held
<1>2. ASSUME NEW r \in Readers, Discard(r)
      PROVE  Abs!Done(r)
  BY <1>2 DEF Abs!Done, Queue, Held
<1>3. ASSUME NEW c \in CPUs, NEW s \in Samples, HookTest(c, s)
      PROVE  Stutter
  BY <1>3 DEF HookTest, ringVars, readVars, Opened
<1>4. ASSUME NEW c \in CPUs, HookLog(c)
      PROVE  Abs!Enter(hpkt[c]) \/ Stutter
  <2>1. CASE Avail > 1
    <3>1. Held < BufSize - 1
      BY <2>1, HeldIsUsed, HeldType, BufSizeAssumption
    <3>2. Store(hpkt[c]) /\ hpkt[c] \in Samples /\ rbuf' = rbuf
      BY <1>4, <2>1 DEF HookLog, readVars, TypeInv, HookHolds
    <3>5. Opened' = Opened
      BY <1>4 DEF HookLog, readVars, Opened
    <3>3. Len(Queue) = Held
      BY HeldType DEF Queue
    <3>4. QED
      BY <3>1, <3>2, <3>3, <3>5, StoreAppends DEF Abs!Enter
  <2>2. CASE ~(Avail > 1)
    BY <1>4, <2>2 DEF HookLog, ringVars, readVars, Opened
  <2>3. QED
    BY <2>1, <2>2
<1>5. ASSUME NEW c \in CPUs, HookWake(c)
      PROVE  Stutter
  <2>1. \A r \in Readers : rpc'[r] = "closed" <=> rpc[r] = "closed"
    BY <1>5 DEF HookWake, WakeUp, Awake
  <2>2. Opened' = Opened
    BY <2>1 DEF Opened
  <2>3. QED
    BY <1>5, <2>2 DEF HookWake, ringVars
<1>6. ASSUME NEW r \in Readers, Open(r)
      PROVE  Abs!Open(r)
  <2>1. head' = 0 /\ tail' = 0 /\ rbuf' = rbuf
    BY <1>6 DEF Open
  <2>2. r \notin Opened /\ Opened' = Opened \cup {r}
    BY <1>6 DEF Open, At, Opened, TypeInv, TypeOK
  <2>3. Queue' = << >>
    BY <2>1 DEF Queue, Held
  <2>4. QED
    BY <2>1, <2>2, <2>3 DEF Abs!Open
<1>16. ASSUME NEW r \in Readers, Close(r)
       PROVE  Abs!Close(r)
  <2>1. r \in Opened /\ Opened' = Opened \ {r}
    BY <1>16 DEF Close, At, Opened, TypeInv, TypeOK
  <2>2. Queue' = Queue /\ rbuf' = rbuf
    BY <1>16 DEF Close, KeepRing, ringVars, Queue, Held
  <2>3. QED
    BY <2>1, <2>2 DEF Abs!Close
<1>7. ASSUME NEW r \in Readers,
             \/ Look(r) \/ Judge(r) \/ SignalWakes(r)
             \/ Interrupted(r) \/ RaceLost(r) \/ TooWide(r)
             \/ \E len \in Lens : Read(r, len)
      PROVE  Stutter
  <2>1. \A q \in Readers : rpc'[q] = "closed" <=> rpc[q] = "closed"
    BY <1>7 DEF Look, Judge, SignalWakes, Interrupted, RaceLost, TooWide, Read,
                At, Return, TypeInv, TypeOK
  <2>2. Opened' = Opened
    BY <2>1 DEF Opened
  <2>3. QED
    BY <1>7, <2>2 DEF Look, Judge, SignalWakes, Interrupted, RaceLost, TooWide,
                      Read, KeepRing, ringVars
<1>8. ASSUME NEW r \in Readers, TakeRecord(r)
      PROVE  Abs!Take(r)
  <2>1. /\ head # tail /\ tail' = (tail + 1) % BufSize
        /\ head' = head /\ log' = log
        /\ rbuf' = [rbuf EXCEPT ![r] = log[tail]]
    BY <1>8 DEF TakeRecord
  <2>2. r \in Opened /\ Opened' = Opened
    BY <1>8 DEF TakeRecord, At, Opened, TypeInv, TypeOK
  <2>3. QED
    BY <2>1, <2>2, TakeRemovesHead DEF Abs!Take
<1>9. ASSUME NEW r \in Readers, Copy(r) \/ CopyFault(r)
      PROVE  Discard(r)
  <2>1. \A q \in Readers : rpc'[q] = "closed" <=> rpc[q] = "closed"
    BY <1>9 DEF Copy, CopyFault, At, Return, TypeInv, TypeOK
  <2>2. Opened' = Opened
    BY <2>1 DEF Opened
  <2>3. QED
    BY <1>9, <2>2 DEF Copy, CopyFault, KeepRing, ringVars
<1>10. CASE Unload
  BY <1>1, <1>10 DEF Unload, ringVars, readVars, Opened
<1>11. CASE Load
  <2>1. head' = 0 /\ tail' = 0 /\ rbuf' = rbuf
    BY <1>11 DEF Load, readVars
  <2>2. Opened = {} /\ Opened' = {}
    BY <1>11 DEF Load, readVars, Opened, Pinned
  <2>3. Abs!Reload
    BY <2>1, <2>2 DEF Abs!Reload, Queue, Held
  <2>4. QED
    BY <2>3 DEF Abs!Next
<1>12. CASE UNCHANGED vars
  BY <1>1, <1>12 DEF vars, Opened
<1>13. ASSUME NEW c \in CPUs, HookLog(c)
       PROVE  [Abs!Next]_(Abs!vars)
  <2>1. Abs!Enter(hpkt[c]) => Abs!Next
    BY <1>13 DEF Abs!Next, HookLog, TypeInv, HookHolds
  <2>2. QED
    BY <1>1, <1>4, <1>13, <2>1
<1>14. ASSUME NEW r \in Readers, Abs!Open(r) \/ Abs!Close(r) \/ Abs!Take(r) \/ Abs!Done(r)
       PROVE  Abs!Next
  BY <1>14 DEF Abs!Next
<1> HIDE DEF Stutter, Discard
<1>15. QED
  BY <1>1, <1>2, <1>3, <1>5, <1>6, <1>7, <1>8, <1>9, <1>10, <1>11, <1>12,
     <1>13, <1>14, <1>16 DEF Next, Hook, Loop

\* The ring buffer of tcp_probe, its hook on any number of CPUs and any number
\* of concurrent readers, implement the bounded FIFO, provided that bufsize
\* divides the range of an unsigned long.
THEOREM RingImplementsLog == SizeDividesWord => (Spec => AbsSpec)
<1> SUFFICES ASSUME SizeDividesWord
             PROVE  Spec => AbsSpec
  OBVIOUS
<1>1. TypeInv /\ Pinned /\ [Next]_vars => [Abs!Next]_(Abs!vars)
  BY AbsStep
<1>2. Init => Pinned
  BY DEF Init, Pinned
<1>3. QED
  BY <1>1, <1>2, AbsInit, TypeInit, TypeStep, PinnedStep, PTL DEF Spec, AbsSpec, Abs!Spec

\* "If log fills, just silently drop": a sample that passed the hook's test is
\* stored whenever fewer than bufsize - 1 records wait to be read.
THEOREM DropsOnlyWhenFull == SizeDividesWord => (Spec => StoresUnlessFull)
<1> SUFFICES ASSUME SizeDividesWord
             PROVE  Spec => StoresUnlessFull
  OBVIOUS
<1>1. TypeInv /\ [Next]_vars => [StoredUnlessFull]_vars
  <2> SUFFICES ASSUME TypeInv, Next, NEW c \in CPUs,
                      hpc[c] = "log", hpc'[c] # "log", Held < BufSize - 1
               PROVE  log'[head] = hpkt[c] /\ Held' = Held + 1
    BY DEF StoredUnlessFull
  <2>1. HookLog(c)
    BY DEF Next, Hook, Loop, HookTest, HookLog, HookWake, Open, Close, Read,
           Look, Judge, SignalWakes, Interrupted, RaceLost, TakeRecord, TooWide,
           Copy, CopyFault, Unload, Load, KeepRing, hookVars, TypeInv, TypeOK
  <2>2. Avail > 1
    BY HeldIsUsed, HeldType, BufSizeAssumption
  <2>3. Store(hpkt[c]) /\ hpkt[c] \in Samples
    BY <2>1, <2>2 DEF HookLog, TypeInv, HookHolds
  <2>4. log'[head] = hpkt[c]
    BY <2>3 DEF Store, TypeInv, TypeOK
  <2>5. QED
    BY <2>3, <2>4, StoreAppends
<1>2. QED
  BY <1>1, TypeInit, TypeStep, PTL DEF Spec, StoresUnlessFull
=============================================================================
