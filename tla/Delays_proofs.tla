------------------------------ MODULE Delays_proofs ------------------------------
(* Proofs about Delays, for any clock and any number of frames.            *)
EXTENDS Delays, FiniteSetTheorems, WellFoundedInduction, TLAPS

USE DelaysAssumption

(* Frames are queued and reaped in the course of the test, and the log is  *)
(* in the order of the latter.                                             *)
Ordered ==
  /\ \A i \in 1 .. Len(queue) : began <= queue[i].q /\ queue[i].q <= now
  /\ \A i \in 1 .. Len(log) : began <= log[i].q /\ log[i].q <= log[i].a /\ log[i].a <= now
  /\ \A i \in 2 .. Len(log) : log[i - 1].a <= log[i].a
IInv == TypeOK /\ Ordered

-----------------------------------------------------------------------------
(* Stamps.                                                                 *)

LEMMA ModUnique ==
  ASSUME NEW n \in Nat \ {0}, NEW q \in Int, NEW r \in 0 .. n - 1
  PROVE  (q * n + r) % n = r /\ (q * n + r) \div n = q
OBVIOUS

(* A number that is less than a turn from the clock's range.               *)
LEMMA ModTurn ==
  ASSUME NEW t \in Int, -Clock <= t, t < 2 * Clock
  PROVE  /\ t < 0 => t % Clock = t + Clock
         /\ 0 <= t /\ t < Clock => t % Clock = t /\ t \div Clock = 0
         /\ Clock <= t => t % Clock = t - Clock /\ t \div Clock = 1
<1>1. Clock \in Nat \ {0}
  BY DEF DelaysAssumption
<1>2. CASE t < 0
  <2>1. t + Clock \in 0 .. Clock - 1
    BY <1>1, <1>2
  <2>2. ((-1) * Clock + (t + Clock)) % Clock = t + Clock
    BY <1>1, <2>1, ModUnique
  <2>3. (-1) * Clock + (t + Clock) = t
    BY <1>1
  <2>4. QED
    BY <1>1, <1>2, <2>2, <2>3
<1>3. CASE 0 <= t /\ t < Clock
  <2>1. (0 * Clock + t) % Clock = t /\ (0 * Clock + t) \div Clock = 0
    BY <1>1, <1>3, ModUnique
  <2>2. 0 * Clock + t = t
    BY <1>1
  <2>3. QED
    BY <1>1, <1>3, <2>1, <2>2
<1>4. CASE Clock <= t
  <2>1. t - Clock \in 0 .. Clock - 1
    BY <1>1, <1>4
  <2>2. (1 * Clock + (t - Clock)) % Clock = t - Clock /\ (1 * Clock + (t - Clock)) \div Clock = 1
    BY <1>1, <2>1, ModUnique
  <2>3. 1 * Clock + (t - Clock) = t
    BY <1>1
  <2>4. QED
    BY <1>1, <1>4, <2>2, <2>3
<1>5. QED
  BY <1>1, <1>2, <1>3, <1>4

(* A time is the stamp and the turns of the clock before it.               *)
LEMMA StampOf ==
  ASSUME NEW t \in Nat
  PROVE  /\ Stamp(t) \in Nat /\ Stamp(t) < Clock /\ Period(t) \in Nat
         /\ Period(t) * Clock \in Nat /\ t = Period(t) * Clock + Stamp(t)
<1>1. Clock \in Nat /\ Clock > 0
  BY DEF DelaysAssumption
<1>2. t % Clock \in 0 .. Clock - 1 /\ t \div Clock \in Nat
  BY <1>1
<1>3. t = Clock * (t \div Clock) + (t % Clock)
  BY <1>1
<1> DEFINE p == t \div Clock
<1>4. p \in Nat
  BY <1>2
<1> HIDE DEF p
<1>5. p * Clock = Clock * p /\ p * Clock \in Nat
  BY <1>1, <1>4
<1>6. QED
  BY <1>1, <1>2, <1>3, <1>4, <1>5 DEF Stamp, Period, p

LEMMA Multiples ==
  ASSUME NEW m \in Nat, NEW n \in Nat, NEW c \in Nat
  PROVE  /\ m * c \in Nat /\ n * c \in Nat /\ (n - m) * c = n * c - m * c
         /\ n < m => n * c <= m * c - c
         /\ n = m + 1 => n * c = m * c + c
         /\ n > m + 1 => n * c >= m * c + 2 * c
<1>1. m * c \in Nat /\ n * c \in Nat /\ (n - m) * c = n * c - m * c
  OBVIOUS
<1>2. ASSUME NEW k \in Nat, NEW d \in Nat PROVE (k + d) * c = k * c + d * c /\ d * c \in Nat
  OBVIOUS
<1>3. ASSUME n < m PROVE n * c <= m * c - c
  <2> DEFINE d == m - n - 1
  <2>1. d \in Nat /\ m = (n + 1) + d
    BY <1>3
  <2>2. m * c = (n + 1) * c + d * c /\ d * c \in Nat
    <3>1. n + 1 \in Nat
      OBVIOUS
    <3> HIDE DEF d
    <3>2. QED
      BY <1>2, <2>1, <3>1
  <2>3. (n + 1) * c = n * c + c
    OBVIOUS
  <2>4. QED
    BY <1>1, <2>2, <2>3
<1>4. n = m + 1 => n * c = m * c + c
  OBVIOUS
<1>5. ASSUME n > m + 1 PROVE n * c >= m * c + 2 * c
  <2> DEFINE d == n - m - 2
  <2>1. d \in Nat /\ n = (m + 2) + d
    BY <1>5
  <2>2. n * c = (m + 2) * c + d * c /\ d * c \in Nat
    <3>1. m + 2 \in Nat
      OBVIOUS
    <3> HIDE DEF d
    <3>2. QED
      BY <1>2, <2>1, <3>1
  <2>3. (m + 2) * c = m * c + 2 * c
    OBVIOUS
  <2>4. QED
    BY <1>1, <2>2, <2>3
<1>6. QED
  BY <1>1, <1>3, <1>4, <1>5

(* Two times and their stamps.                                             *)
LEMMA Turns ==
  ASSUME NEW s \in Nat, NEW t \in Nat
  PROVE  /\ Period(s) = Period(t) => t - s = Stamp(t) - Stamp(s)
         /\ Period(t) = Period(s) + 1 => t - s = Clock + Stamp(t) - Stamp(s)
         /\ t - s = Period(t) * Clock - Period(s) * Clock + Stamp(t) - Stamp(s)
         /\ s <= t => Period(s) <= Period(t)
         /\ s <= t /\ t < s + Clock => Period(t) = Period(s) \/ Period(t) = Period(s) + 1
         /\ s <= t /\ Stamp(t) < Stamp(s) => Period(s) + 1 <= Period(t)
<1> DEFINE m == Period(s)
           n == Period(t)
           x == m * Clock
           y == n * Clock
           u == Stamp(s)
           v == Stamp(t)
<1>1. /\ u \in Nat /\ u < Clock /\ m \in Nat /\ x \in Nat /\ s = x + u
      /\ v \in Nat /\ v < Clock /\ n \in Nat /\ y \in Nat /\ t = y + v
  BY StampOf
<1>2. Clock \in Nat /\ Clock > 0
  BY DEF DelaysAssumption
<1> HIDE DEF m, n, u, v
<1>3. /\ n < m => y <= x - Clock
      /\ n = m + 1 => y = x + Clock
      /\ n > m + 1 => y >= x + 2 * Clock
  BY <1>1, <1>2, Multiples
<1>4. n = m => y = x
  OBVIOUS
<1> HIDE DEF x, y
<1>5. t - s = y - x + v - u
  BY <1>1
<1>6. n < m => t < s
  BY <1>1, <1>2, <1>3
<1>7. n > m + 1 => t >= s + Clock
  BY <1>1, <1>2, <1>3
<1>8. n = m + 1 => t - s = Clock + v - u
  BY <1>1, <1>2, <1>3
<1>9. m = n => t - s = v - u
  BY <1>1, <1>4
<1>10. s <= t => m <= n
  BY <1>1, <1>6
<1>11. s <= t /\ t < s + Clock => n = m \/ n = m + 1
  BY <1>1, <1>2, <1>6, <1>7
<1>12. s <= t /\ v < u => m + 1 <= n
  BY <1>1, <1>9, <1>10
<1>13. QED
  BY <1>5, <1>8, <1>9, <1>10, <1>11, <1>12 DEF m, n, x, y, u, v

(* Within a turn the difference of the stamps is that of the times, or a   *)
(* turn less.                                                              *)
LEMMA WithinTurn ==
  ASSUME NEW s \in Nat, NEW t \in Nat, s <= t, t < s + Clock
  PROVE  /\ Stamp(t) - Stamp(s) = t - s \/ Stamp(t) - Stamp(s) = t - s - Clock
         /\ Stamp(s) \in 0 .. Clock - 1 /\ Stamp(t) \in 0 .. Clock - 1
<1>1. /\ Stamp(s) \in Nat /\ Stamp(s) < Clock
      /\ Stamp(t) \in Nat /\ Stamp(t) < Clock
  BY StampOf
<1>2. Clock \in Nat
  BY DEF DelaysAssumption
<1>3. Period(t) = Period(s) \/ Period(t) = Period(s) + 1
  BY Turns
<1>4. t - s = Stamp(t) - Stamp(s) \/ t - s = Clock + Stamp(t) - Stamp(s)
  BY <1>3, Turns
<1>5. QED
  BY <1>1, <1>2, <1>4

(* The times of a frame.                                                   *)
LEMMA Times ==
  ASSUME IInv, NEW i \in 1 .. Len(log)
  PROVE  log[i].q \in Nat /\ log[i].a \in Nat /\ log[i].q <= log[i].a
<1>1. log[i] \in Reaped
  BY DEF IInv, TypeOK
<1>2. QED
  BY <1>1 DEF Reaped

LEMMA StampType ==
  ASSUME IInv, NEW i \in 1 .. Len(log)
  PROVE  Enq(i) \in Nat /\ Ack(i) \in Nat /\ Enq(i) < Clock /\ Ack(i) < Clock
BY Times, StampOf DEF Enq, Ack

LEMMA PrevType ==
  ASSUME IInv, NEW i \in 1 .. Len(log)
  PROVE  PrevAck(i) \in Nat /\ PrevAck(i) < Clock
<1>1. CASE i = 1
  BY <1>1 DEF PrevAck, DelaysAssumption
<1>2. CASE i # 1
  <2>1. i - 1 \in 1 .. Len(log)
    BY <1>2 DEF IInv, TypeOK
  <2>2. QED
    BY <1>2, <2>1, StampType DEF PrevAck
<1>3. QED
  BY <1>1, <1>2

(* What bash reads is no more than the stamp, by less than a second, and   *)
(* in the order of the stamps.                                             *)
LEMMA ReadInt ==
  ASSUME NEW s \in Nat
  PROVE  Read(s) \in Int
<1>1. Second \in Nat /\ \A x \in 0 .. Second - 1 : Octal(x) \in -1 .. x
  BY OctalAssumption DEF OctalAssumption, DelaysAssumption
<1>2. QED
  BY <1>1 DEF Read

LEMMA ReadOrder ==
  ASSUME NEW s \in Nat, NEW t \in Nat, Readable(s), Readable(t)
  PROVE  /\ Read(s) \in s - Second + 1 .. s
         /\ s < t => Read(s) < Read(t)
<1>1. Second \in Nat /\ Second > 0
  BY OctalAssumption DEF OctalAssumption, DelaysAssumption
<1>2. \A x \in 0 .. Second - 1 : Octal(x) \in -1 .. x
  BY OctalAssumption DEF OctalAssumption
<1>3. \A x, y \in 0 .. Second - 1 :
        0 <= Octal(x) /\ 0 <= Octal(y) /\ x < y => Octal(x) < Octal(y)
  BY OctalAssumption DEF OctalAssumption
<1>4. \A x \in Nat : Readable(x) => Read(x) \in x - Second + 1 .. x
  BY <1>1, <1>2 DEF Readable, Read
<1>5. ASSUME s < t PROVE Read(s) < Read(t)
  <2>1. CASE t < Second
    <3>1. s \in 0 .. Second - 1 /\ t \in 0 .. Second - 1 /\ ~(s >= Second) /\ ~(t >= Second)
      BY <1>1, <1>5, <2>1
    <3>2. 0 <= Octal(s) /\ 0 <= Octal(t)
      BY <1>2, <3>1 DEF Readable
    <3>3. QED
      BY <1>3, <1>5, <3>1, <3>2 DEF Read
  <2>2. CASE t >= Second /\ s < Second
    <3>1. Read(s) <= s /\ Read(s) \in Int /\ Read(t) = t
      BY <1>1, <1>4, <2>2 DEF Read
    <3>2. QED
      BY <1>1, <1>5, <3>1
  <2>3. CASE s >= Second
    BY <1>1, <1>5, <2>3 DEF Read
  <2>4. QED
    BY <1>1, <2>1, <2>2, <2>3
<1>6. QED
  BY <1>4, <1>5

-----------------------------------------------------------------------------
(* The invariant.                                                          *)

LEMMA StepInv ==
  ASSUME IInv, [Next]_vars
  PROVE  IInv'
<1> USE DEF IInv
<1>1. CASE Tick
  <2>1. TypeOK'
    BY <1>1 DEF Tick, TypeOK, DelaysAssumption
  <2>2. now \in Nat /\ now' = now + 1 /\ UNCHANGED <<began, queue, log>>
    BY <1>1 DEF Tick, TypeOK
  <2>3. \A i \in 1 .. Len(queue) : queue[i].q \in Nat
    <3>1. \A i \in 1 .. Len(queue) : queue[i] \in Queued
      BY DEF TypeOK
    <3>2. QED
      BY <3>1 DEF Queued
  <2>4. \A i \in 1 .. Len(log) : log[i].a \in Nat
    BY Times
  <2>5. QED
    BY <2>1, <2>2, <2>3, <2>4 DEF Ordered
<1>2. CASE Enqueue
  <2> DEFINE f == [q |-> now, met |-> Len(queue)]
  <2>1. f \in Queued /\ queue' = Append(queue, f)
    BY <1>2 DEF Enqueue, TypeOK, Queued
  <2>2. TypeOK'
    BY <1>2, <2>1 DEF Enqueue, TypeOK
  <2>3. \A i \in 1 .. Len(queue') : began <= queue'[i].q /\ queue'[i].q <= now
    BY <2>1 DEF TypeOK, Ordered
  <2>4. QED
    BY <1>2, <2>2, <2>3 DEF Enqueue, Ordered
<1>3. CASE Reap
  <2> DEFINE h == Head(queue)
             r == [q |-> h.q, met |-> h.met, a |-> now]
  <2>1. h \in Queued /\ h = queue[1] /\ Len(queue) \in Nat \ {0}
    BY <1>3 DEF Reap, TypeOK
  <2>2. began <= h.q /\ h.q <= now
    BY <2>1 DEF Ordered
  <2>3. r \in Reaped
    BY <2>1, <2>2 DEF Queued, Reaped, TypeOK
  <2>4. log' = Append(log, r) /\ queue' = Tail(queue)
    BY <1>3 DEF Reap
  <2>5. TypeOK'
    BY <1>3, <2>3, <2>4 DEF Reap, TypeOK
  <2>6. \A i \in 1 .. Len(queue') : began <= queue'[i].q /\ queue'[i].q <= now
    BY <2>1, <2>4 DEF TypeOK, Ordered
  <2>7. \A i \in 1 .. Len(log') : /\ began <= log'[i].q /\ log'[i].q <= log'[i].a
                                  /\ log'[i].a <= now
    BY <2>2, <2>3, <2>4 DEF TypeOK, Ordered
  <2>8. \A i \in 2 .. Len(log') : log'[i - 1].a <= log'[i].a
    <3>1. TAKE i \in 2 .. Len(log')
    <3>2. CASE i = Len(log) + 1
      BY <2>4, <3>2 DEF TypeOK, Ordered
    <3>3. CASE i # Len(log) + 1
      BY <2>4, <3>3 DEF TypeOK, Ordered
    <3>4. QED
      BY <3>2, <3>3
  <2>9. UNCHANGED <<began, now>>
    BY <1>3 DEF Reap
  <2>10. QED
    BY <2>5, <2>6, <2>7, <2>8, <2>9 DEF Ordered
<1>4. CASE UNCHANGED vars
  BY <1>4 DEF vars, TypeOK, Ordered
<1>5. QED
  BY <1>1, <1>2, <1>3, <1>4 DEF Next

LEMMA InitInv == Init => IInv
BY DEF Init, IInv, TypeOK, Ordered, DelaysAssumption

LEMMA Invariant == Spec => []IInv
<1>1. IInv /\ [Next]_vars => IInv'
  BY StepInv
<1>2. QED
  BY <1>1, InitInv, PTL DEF Spec

(* The types, and that no frame is reaped before it was queued.            *)
THEOREM TypeCorrect == Spec => []TypeOK
<1>1. IInv => TypeOK
  BY DEF IInv
<1>2. QED
  BY <1>1, Invariant, PTL

-----------------------------------------------------------------------------
(* What the programs compute.                                              *)

(* The stamps of a frame whose times lie within a turn of the clock.       *)
LEMMA FrameTurn ==
  ASSUME IInv, NEW i \in 1 .. Len(log), OneTurn(i)
  PROVE  /\ \/ Ack(i) - Enq(i) = log[i].a - log[i].q
            \/ Ack(i) - Enq(i) = log[i].a - log[i].q - Clock
         /\ i = 1 => Before(i) = 0 /\ PrevAck(i) = 0
         /\ i # 1 => /\ Before(i) = log[i - 1].a /\ PrevAck(i) = Ack(i - 1)
                     /\ Before(i) \in Nat /\ Before(i) <= log[i].a
                     /\ \/ Ack(i) - PrevAck(i) = log[i].a - Before(i)
                        \/ Ack(i) - PrevAck(i) = log[i].a - Before(i) - Clock
<1>1. /\ log[i].q \in Nat /\ log[i].a \in Nat /\ log[i].q <= log[i].a
      /\ log[i].a < log[i].q + Clock
  BY Times DEF OneTurn
<1>2. \/ Ack(i) - Enq(i) = log[i].a - log[i].q
      \/ Ack(i) - Enq(i) = log[i].a - log[i].q - Clock
  BY <1>1, WithinTurn DEF Ack, Enq
<1>3. CASE i = 1
  BY <1>2, <1>3 DEF Before, PrevAck
<1>4. CASE i # 1
  <2>1. i - 1 \in 1 .. Len(log) /\ i \in 2 .. Len(log) /\ i > 1
    BY <1>4 DEF IInv, TypeOK
  <2>2. Before(i) = log[i - 1].a /\ PrevAck(i) = Ack(i - 1)
    BY <1>4 DEF Before, PrevAck
  <2>3. log[i - 1].a \in Nat /\ log[i - 1].a <= log[i].a /\ log[i].a < log[i - 1].a + Clock
    BY <2>1, Times DEF IInv, Ordered, OneTurn
  <2>4. \/ Ack(i) - Ack(i - 1) = log[i].a - log[i - 1].a
        \/ Ack(i) - Ack(i - 1) = log[i].a - log[i - 1].a - Clock
    BY <1>1, <2>3, WithinTurn DEF Ack
  <2>5. QED
    BY <1>2, <1>4, <2>2, <2>3, <2>4
<1>5. QED
  BY <1>3, <1>4

(* If no stamp is above the last one, the differences are right.           *)
LEMMA Decimal ==
  ASSUME IInv, NEW i \in 1 .. Len(log), OneTurn(i),
         Enq(i) <= Ack(i), PrevAck(i) <= Ack(i)
  PROVE  /\ Took(i) = Ack(i) - (IF PrevAck(i) > Enq(i) THEN PrevAck(i) ELSE Enq(i))
         /\ Waited(i) = IF PrevAck(i) > Enq(i) THEN PrevAck(i) - Enq(i) ELSE 0
<1> DEFINE q == log[i].q
           a == log[i].a
           p == Before(i)
           e == Enq(i)
           c == Ack(i)
           b == PrevAck(i)
<1>1. q \in Nat /\ a \in Nat /\ q <= a
  BY Times
<1>2. e \in Nat /\ c \in Nat /\ b \in Nat /\ e < Clock /\ c < Clock /\ b < Clock
  BY StampType, PrevType
<1>3. e <= c /\ b <= c
  OBVIOUS
<1>4. c - e = a - q \/ c - e = a - q - Clock
  BY FrameTurn
<1>5. i = 1 => p = 0 /\ b = 0
  BY FrameTurn
<1>6. i # 1 => p \in Nat /\ p <= a /\ (c - b = a - p \/ c - b = a - p - Clock)
  BY FrameTurn
<1>7. /\ Took(i) = a - (IF q > p THEN q ELSE p)
      /\ Waited(i) = IF 0 > p - q THEN 0 ELSE p - q
  BY DEF Took, Waited, Later
<1>8. Clock \in Nat /\ a < q + Clock /\ (i # 1 => a < p + Clock)
  <2>1. i # 1 => i > 1 /\ p = log[i - 1].a
    BY FrameTurn DEF IInv, TypeOK
  <2>2. QED
    BY <2>1 DEF OneTurn, DelaysAssumption
<1> HIDE DEF q, a, p, e, c, b
<1>9. CASE i = 1
  BY <1>1, <1>2, <1>3, <1>4, <1>5, <1>7, <1>8, <1>9 DEF e, c, b
<1>10. CASE i # 1
  <2>1. c - e = a - q /\ c - b = a - p /\ p \in Nat
    BY <1>1, <1>2, <1>3, <1>4, <1>6, <1>8, <1>10
  <2>2. /\ Took(i) = c - (IF b > e THEN b ELSE e)
        /\ Waited(i) = IF b > e THEN b - e ELSE 0
    BY <1>1, <1>2, <1>7, <2>1
  <2>3. QED
    BY <2>2 DEF e, c, b
<1>11. QED
  BY <1>9, <1>10

(* A delay that is not negative is right, and the time waited with it, for *)
(* any clock and any time of a test; but for stamps of second 0, where it  *)
(* is less than a second off, whatever bash reads for them.                *)
THEOREM DelaysRight == Spec => []RightOrNegative
<1>1. IInv => RightOrNegative
  <2>1. SUFFICES ASSUME IInv, NEW i \in 1 .. Len(log), OneTurn(i)
                 PROVE  \/ MacDelay(i) = Took(i) /\ QueueDelay(i) = Waited(i)
                        \/ MacDelay(i) < 0
                        \/ /\ SecondZero(i)
                           /\ i \in Computed => /\ Almost(MacDelay(i), Took(i))
                                                /\ Almost(QueueDelay(i), Waited(i))
    BY DEF RightOrNegative, Frames, IInv, TypeOK
  <2> DEFINE e == Enq(i)
             c == Ack(i)
             b == PrevAck(i)
             from == IF b > e THEN b ELSE e
  <2>2. e \in Nat /\ c \in Nat /\ b \in Nat
    BY <2>1, StampType, PrevType
  <2>3. Second \in Nat /\ Second > 0 /\ Read(0) = 0 /\ Readable(0)
    BY OctalAssumption DEF OctalAssumption, DelaysAssumption, Read, Readable
  <2>4. c >= e /\ c >= b => /\ Took(i) = c - from
                            /\ Waited(i) = IF b > e THEN b - e ELSE 0
    BY <2>1, <2>2, Decimal
  <2>5. /\ MacDelay(i) = Read(c) - Read(IF Greater(b, e) THEN b ELSE e)
        /\ QueueDelay(i) = IF Greater(b, e) THEN Read(b) - Read(e) ELSE 0
    BY DEF MacDelay, QueueDelay
  <2>6. i = 1 => b = 0
    BY DEF PrevAck
  <2>7. CASE Readable(e) /\ Readable(c) /\ Readable(b)
    <3>1. Greater(b, e) <=> b > e
      <4>1. b > e => Read(b) > Read(e)
        BY <2>2, <2>7, ReadOrder, ReadInt
      <4>2. e > b => Read(e) > Read(b)
        BY <2>2, <2>7, ReadOrder, ReadInt
      <4>3. Read(b) \in Int /\ Read(e) \in Int
        BY <2>2, ReadInt
      <4>4. CASE b = e
        BY <2>2, <4>3, <4>4 DEF Greater
      <4>5. CASE b > e
        BY <2>7, <4>1, <4>5 DEF Greater
      <4>6. CASE e > b
        BY <2>2, <4>2, <4>3, <4>6 DEF Greater
      <4>7. QED
        BY <2>2, <4>4, <4>5, <4>6
    <3>2. /\ MacDelay(i) = Read(c) - Read(from)
          /\ QueueDelay(i) = IF b > e THEN Read(b) - Read(e) ELSE 0
      BY <2>5, <3>1
    <3>3. from \in Nat /\ Readable(from) /\ from >= e /\ from >= b
      BY <2>2, <2>7
    <3> DEFINE re == Read(e)
               rc == Read(c)
               rb == Read(b)
               rf == Read(from)
    <3>4. /\ re \in e - Second + 1 .. e /\ rc \in c - Second + 1 .. c
          /\ rb \in b - Second + 1 .. b /\ rf \in from - Second + 1 .. from
      BY <2>2, <2>7, <3>3, ReadOrder
    <3>5. CASE c < from
      <4>1. rc < rf
        BY <2>2, <2>7, <3>3, <3>5, ReadOrder
      <4> HIDE DEF e, c, b, from, rc, rf, re, rb
      <4>2. rc - rf < 0
        BY <2>2, <2>3, <3>3, <3>4, <4>1
      <4>3. QED
        BY <3>2, <4>2 DEF rc, rf
    <3>6. CASE ~(c < from)
      <4>1. c >= e /\ c >= b
        BY <2>2, <3>3, <3>6
      <4>2. /\ Took(i) = c - from
            /\ Waited(i) = IF b > e THEN b - e ELSE 0
        BY <2>4, <4>1
      <4>3. CASE SecondZero(i)
        <5>1. MacDelay(i) = rc - rf /\ QueueDelay(i) = IF b > e THEN rb - re ELSE 0
          BY <3>2
        <5> HIDE DEF e, c, b, from, rc, rf, re, rb
        <5>2. Almost(MacDelay(i), Took(i)) /\ Almost(QueueDelay(i), Waited(i))
          BY <2>2, <2>3, <3>3, <3>4, <4>2, <5>1 DEF Almost
        <5>3. QED
          BY <4>3, <5>2
      <4>4. CASE ~SecondZero(i)
        <5>1. e >= Second /\ c >= Second /\ (i = 1 \/ b >= Second)
          BY <2>1, <2>2, <2>3, <4>4 DEF SecondZero, IInv, TypeOK
        <5>2. Read(e) = e /\ Read(c) = c /\ Read(b) = b
          BY <2>3, <2>6, <5>1 DEF Read
        <5>3. Read(from) = from
          BY <5>2
        <5>4. QED
          BY <3>2, <4>2, <5>2, <5>3
      <4>5. QED
        BY <4>3, <4>4
    <3>7. QED
      BY <3>5, <3>6
  <2>8. CASE ~(Readable(e) /\ Readable(c) /\ Readable(b))
    <3>1. SecondZero(i)
      <4>1. CASE ~Readable(e)
        BY <2>2, <2>3, <4>1 DEF Readable, SecondZero
      <4>2. CASE ~Readable(c)
        BY <2>2, <2>3, <4>2 DEF Readable, SecondZero
      <4>3. CASE ~Readable(b)
        <5>1. i # 1 /\ i > 1
          BY <2>1, <2>3, <2>6, <4>3 DEF IInv, TypeOK
        <5>2. QED
          BY <2>2, <2>3, <4>3, <5>1 DEF Readable, SecondZero
      <4>4. QED
        BY <2>8, <4>1, <4>2, <4>3
    <3>2. i \notin Computed
      <4>1. SUFFICES ASSUME i \in Computed PROVE FALSE
        OBVIOUS
      <4>2. \A j \in 1 .. i : Readable(Enq(j)) /\ Readable(Ack(j))
        BY <2>1, <4>1 DEF Computed, IInv, TypeOK
      <4>3. i \in 1 .. i /\ (i # 1 => i - 1 \in 1 .. i)
        BY <2>1 DEF IInv, TypeOK
      <4>4. Readable(b)
        BY <2>3, <2>6, <4>2, <4>3 DEF PrevAck
      <4>5. QED
        BY <2>8, <4>2, <4>3, <4>4
    <3>3. QED
      BY <3>1, <3>2
  <2>9. QED
    BY <2>7, <2>8
<1>2. QED
  BY <1>1, Invariant, PTL

(* process.delays does not understate the time a frame took, for any clock *)
(* and any time of a test.                                                 *)
THEOREM DelaysNotUnderstated == Spec => []NeverTooFast
<1>1. IInv => NeverTooFast
  <2>1. SUFFICES ASSUME IInv, NEW i \in 2 .. Len(log), OneTurn(i)
                 PROVE  \/ ServiceDelay(i) = Took(i)
                        \/ /\ ServiceDelay(i) > Took(i)
                           /\ Period(log[i].q) # Period(log[i - 1].a)
    BY DEF NeverTooFast, Frames, IInv, TypeOK
  <2> DEFINE q == log[i].q
             a == log[i].a
             p == log[i - 1].a
             e == Enq(i)
             c == Ack(i)
             b == Ack(i - 1)
             start == IF e >= b THEN e ELSE b
             d == c - start
  <2>2. i \in 1 .. Len(log) /\ i - 1 \in 1 .. Len(log) /\ i # 1
    BY <2>1 DEF IInv, TypeOK
  <2>3. /\ q \in Nat /\ a \in Nat /\ p \in Nat /\ q <= a
        /\ e \in Nat /\ c \in Nat /\ b \in Nat /\ e < Clock /\ c < Clock /\ b < Clock
    BY <2>1, <2>2, Times, StampType
  <2>4. /\ p <= a /\ (c - e = a - q \/ c - e = a - q - Clock)
        /\ c - b = a - p \/ c - b = a - p - Clock
    BY <2>1, <2>2, FrameTurn
  <2>5. Period(q) = Period(p) => p - q = b - e
    BY <2>3, Turns DEF Enq, Ack
  <2>6. Clock \in Nat /\ a < q + Clock /\ a < p + Clock
    BY <2>1, <2>2 DEF DelaysAssumption, OneTurn, IInv, TypeOK
  <2>7. Took(i) = a - (IF q > p THEN q ELSE p)
    BY <2>2 DEF Took, Later, Before
  <2>8. ServiceDelay(i) = d % Clock
    BY DEF ServiceDelay
  <2> HIDE DEF q, a, p, e, c, b
  <2>9. d \in Int /\ -Clock <= d /\ d < 2 * Clock
    BY <2>3, <2>6
  <2>10. /\ d < 0 => d % Clock = d + Clock
         /\ 0 <= d /\ d < Clock => d % Clock = d
    BY <2>9, ModTurn
  <2>11. CASE e >= b
    <3>1. ServiceDelay(i) = a - q
      <4>1. d = c - e
        BY <2>11
      <4> HIDE DEF d
      <4>2. QED
        BY <2>3, <2>4, <2>6, <2>8, <2>10, <4>1, <2>9
    <3>2. p > q => Period(q) # Period(p)
      BY <2>3, <2>5, <2>11
    <3>3. ServiceDelay(i) = Took(i) \/ (ServiceDelay(i) > Took(i) /\ Period(q) # Period(p))
      BY <2>3, <2>7, <3>1, <3>2
    <3>4. QED
      BY <3>3 DEF q, p
  <2>12. CASE ~(e >= b)
    <3>1. ServiceDelay(i) = a - p
      <4>1. d = c - b
        BY <2>12
      <4> HIDE DEF d
      <4>2. QED
        BY <2>3, <2>4, <2>6, <2>8, <2>10, <4>1, <2>9
    <3>2. q > p => Period(q) # Period(p)
      BY <2>3, <2>5, <2>12
    <3>3. ServiceDelay(i) = Took(i) \/ (ServiceDelay(i) > Took(i) /\ Period(q) # Period(p))
      BY <2>3, <2>7, <3>1, <3>2
    <3>4. QED
      BY <3>3 DEF q, p
  <2>13. QED
    BY <2>11, <2>12
<1>2. QED
  BY <1>1, Invariant, PTL

-----------------------------------------------------------------------------
(* How long the queue was.                                                 *)

(* Frames are reaped in the order in which they were queued.               *)
InOrder ==
  /\ \A i, j \in 1 .. Len(log) : i <= j => log[i].q <= log[j].q
  /\ \A i, j \in 1 .. Len(queue) : i <= j => queue[i].q <= queue[j].q
  /\ \A i \in 1 .. Len(log), j \in 1 .. Len(queue) : log[i].q <= queue[j].q

(* The i-th frame ever queued met the ones before it, less those that were *)
(* gone: the first of the log, and no other was reaped before that time.   *)
Gone(i, f, l) ==
  /\ i - 1 - f.met \in 0 .. Len(l)
  /\ \A j \in 1 .. Len(l) : IF j <= i - 1 - f.met THEN l[j].a <= f.q ELSE f.q <= l[j].a

MetTrue ==
  /\ \A i \in 1 .. Len(log) : Gone(i, log[i], log)
  /\ \A i \in 1 .. Len(queue) : Gone(Len(log) + i, queue[i], log)

LEMMA GoneAppend ==
  ASSUME NEW l \in Seq(Reaped), NEW r \in Reaped, NEW i \in Nat, NEW f,
         f.met \in Nat, f.q \in Nat, f.q <= r.a, Gone(i, f, l)
  PROVE  Gone(i, f, Append(l, r))
<1>1. Len(l) \in Nat /\ Len(Append(l, r)) = Len(l) + 1
  OBVIOUS
<1>2. \A j \in 1 .. Len(l) + 1 :
        Append(l, r)[j] = IF j = Len(l) + 1 THEN r ELSE l[j]
  OBVIOUS
<1> DEFINE m == i - 1 - f.met
<1>3. m \in Int /\ m \in 0 .. Len(l) /\ m \in 0 .. Len(l) + 1
  BY <1>1 DEF Gone
<1>4. \A j \in 1 .. Len(l) : IF j <= m THEN l[j].a <= f.q ELSE f.q <= l[j].a
  BY DEF Gone
<1> HIDE DEF m
<1>5. \A j \in 1 .. Len(l) + 1 :
        IF j <= m THEN Append(l, r)[j].a <= f.q ELSE f.q <= Append(l, r)[j].a
  <2> SUFFICES ASSUME NEW j \in 1 .. Len(l) + 1
               PROVE  IF j <= m THEN Append(l, r)[j].a <= f.q ELSE f.q <= Append(l, r)[j].a
    OBVIOUS
  <2>1. CASE j = Len(l) + 1
    BY <1>1, <1>2, <1>3, <2>1
  <2>2. CASE j # Len(l) + 1
    <3>1. j \in 1 .. Len(l) /\ Append(l, r)[j] = l[j]
      BY <1>1, <1>2, <2>2
    <3>2. QED
      BY <1>4, <3>1
  <2>3. QED
    BY <2>1, <2>2
<1>6. QED
  BY <1>1, <1>3, <1>5 DEF Gone, m

LEMMA FrameTypes ==
  ASSUME TypeOK
  PROVE  /\ Len(queue) \in Nat /\ Len(log) \in Nat /\ now \in Nat
         /\ \A i \in 1 .. Len(queue) : queue[i].q \in Nat /\ queue[i].met \in Nat
         /\ \A i \in 1 .. Len(log) : /\ log[i].q \in Nat /\ log[i].met \in Nat
                                     /\ log[i].a \in Nat
<1>1. \A i \in 1 .. Len(queue) : queue[i] \in Queued
  BY DEF TypeOK
<1>2. \A i \in 1 .. Len(log) : log[i] \in Reaped
  BY DEF TypeOK
<1>3. QED
  BY <1>1, <1>2 DEF TypeOK, Queued, Reaped

LEMMA StepMet ==
  ASSUME IInv, InOrder, MetTrue, [Next]_vars
  PROVE  InOrder' /\ MetTrue'
<1> USE DEF IInv
<1>1. CASE Enqueue
  <2> DEFINE f == [q |-> now, met |-> Len(queue)]
             n == Len(queue) + 1
  <2>1. queue' = Append(queue, f) /\ log' = log
    BY <1>1 DEF Enqueue
  <2>2. Len(queue') = n /\ queue'[n] = f /\ \A i \in 1 .. Len(queue) : queue'[i] = queue[i]
    BY <2>1 DEF TypeOK
  <2>3. \A i \in 1 .. n : i = n \/ i \in 1 .. Len(queue)
    BY FrameTypes
  <2>4. \A i \in 1 .. Len(log) : log[i].q <= now /\ log[i].a <= now
    BY FrameTypes DEF Ordered
  <2>5. \A i \in 1 .. Len(queue) : queue[i].q <= now
    BY DEF Ordered
  <2>6. InOrder'
    <3>1. \A i, j \in 1 .. n : i <= j => queue'[i].q <= queue'[j].q
      <4> SUFFICES ASSUME NEW i \in 1 .. n, NEW j \in 1 .. n, i <= j
                   PROVE  queue'[i].q <= queue'[j].q
        OBVIOUS
      <4>1. CASE j = n
        <5>1. now \in Nat /\ queue'[j].q = now
          BY <2>2, <4>1, FrameTypes
        <5>2. CASE i = n
          BY <4>1, <5>1, <5>2
        <5>3. CASE i \in 1 .. Len(queue)
          BY <2>2, <2>5, <5>1, <5>3
        <5>4. QED
          BY <2>3, <5>2, <5>3
      <4>2. CASE j # n
        <5>1. i \in 1 .. Len(queue) /\ j \in 1 .. Len(queue)
          BY <2>3, <4>2, FrameTypes
        <5>2. queue[i].q <= queue[j].q
          BY <5>1 DEF InOrder
        <5>3. QED
          BY <2>2, <5>1, <5>2
      <4>3. QED
        BY <4>1, <4>2
    <3>2. \A i \in 1 .. Len(log), j \in 1 .. n : log[i].q <= queue'[j].q
      BY <2>2, <2>3, <2>4 DEF InOrder
    <3>3. QED
      BY <2>1, <2>2, <3>1, <3>2 DEF InOrder
  <2>7. Gone(Len(log) + n, f, log)
    <3>1. Len(log) + n - 1 - f.met = Len(log)
      BY FrameTypes
    <3>2. QED
      BY <2>4, <3>1, FrameTypes DEF Gone
  <2>8. MetTrue'
    <3>1. \A i \in 1 .. n : Gone(Len(log) + i, queue'[i], log)
      BY <2>2, <2>3, <2>7 DEF MetTrue
    <3>2. QED
      BY <2>1, <2>2, <3>1 DEF MetTrue
  <2>9. QED
    BY <2>6, <2>8
<1>2. CASE Reap
  <2> DEFINE h == Head(queue)
             r == [q |-> h.q, met |-> h.met, a |-> now]
             n == Len(log) + 1
  <2>1. log' = Append(log, r) /\ queue' = Tail(queue) /\ queue # << >>
    BY <1>2 DEF Reap
  <2>2. /\ Len(queue) \in Nat \ {0} /\ h = queue[1] /\ Len(queue') = Len(queue) - 1
        /\ \A i \in 1 .. Len(queue') : i + 1 \in 1 .. Len(queue) /\ queue'[i] = queue[i + 1]
    BY <2>1 DEF TypeOK
  <2>3. Len(log') = n /\ log'[n] = r /\ \A i \in 1 .. Len(log) : log'[i] = log[i]
    BY <2>1 DEF TypeOK
  <2>4. \A i \in 1 .. n : i = n \/ i \in 1 .. Len(log)
    BY FrameTypes
  <2>5. h.q \in Nat /\ h.met \in Nat /\ h.q <= now /\ r \in Reaped
    BY <2>2, FrameTypes DEF Ordered, Reaped
  <2>6. InOrder'
    <3>1. \A i, j \in 1 .. n : i <= j => log'[i].q <= log'[j].q
      <4> SUFFICES ASSUME NEW i \in 1 .. n, NEW j \in 1 .. n, i <= j
                   PROVE  log'[i].q <= log'[j].q
        OBVIOUS
      <4>1. CASE j = n /\ i # n
        <5>1. i \in 1 .. Len(log) /\ 1 \in 1 .. Len(queue)
          BY <2>2, <2>4, <4>1
        <5>2. log[i].q <= queue[1].q
          BY <5>1 DEF InOrder
        <5>3. log'[i] = log[i] /\ log'[j].q = queue[1].q
          BY <2>2, <2>3, <4>1, <5>1
        <5>4. QED
          BY <5>2, <5>3
      <4>2. CASE j = n /\ i = n
        BY <2>3, <2>5, <4>2
      <4>3. CASE j # n
        <5>1. i \in 1 .. Len(log) /\ j \in 1 .. Len(log)
          BY <2>4, <4>3, FrameTypes
        <5>2. log[i].q <= log[j].q
          BY <5>1 DEF InOrder
        <5>3. QED
          BY <2>3, <5>1, <5>2
      <4>4. QED
        BY <4>1, <4>2, <4>3
    <3>2. \A i, j \in 1 .. Len(queue') : i <= j => queue'[i].q <= queue'[j].q
      BY <2>2 DEF InOrder
    <3>3. \A i \in 1 .. n, j \in 1 .. Len(queue') : log'[i].q <= queue'[j].q
      <4> SUFFICES ASSUME NEW i \in 1 .. n, NEW j \in 1 .. Len(queue')
                   PROVE  log'[i].q <= queue'[j].q
        OBVIOUS
      <4>1. CASE i = n
        BY <2>2, <2>3, <4>1 DEF InOrder
      <4>2. CASE i # n
        BY <2>2, <2>3, <2>4, <4>2 DEF InOrder
      <4>3. QED
        BY <4>1, <4>2
    <3>4. QED
      BY <2>3, <3>1, <3>2, <3>3 DEF InOrder
  <2>7. \A i \in 1 .. Len(log) : Gone(i, log'[i], log')
    <3>1. TAKE i \in 1 .. Len(log)
    <3>2. log[i].q <= now /\ log[i].q \in Nat /\ log[i].met \in Nat
      BY FrameTypes DEF Ordered
    <3>3. Gone(i, log[i], log)
      BY DEF MetTrue
    <3>4. QED
      BY <2>1, <2>3, <2>5, <3>2, <3>3, GoneAppend DEF TypeOK
  <2>8. Gone(n, log'[n], log')
    <3>1. Gone(n, h, log)
      BY <2>2, FrameTypes DEF MetTrue
    <3>2. Gone(n, r, log)
      BY <3>1 DEF Gone
    <3>3. n \in Nat
      BY FrameTypes
    <3>4. Gone(n, r, Append(log, r))
      BY <2>5, <3>2, <3>3, GoneAppend DEF TypeOK
    <3>5. QED
      BY <2>1, <2>3, <3>4
  <2>9. \A i \in 1 .. Len(queue') : Gone(Len(log') + i, queue'[i], log')
    <3>1. TAKE i \in 1 .. Len(queue')
    <3>2. /\ i + 1 \in 1 .. Len(queue) /\ queue'[i] = queue[i + 1]
          /\ queue[i + 1].q <= now
          /\ queue[i + 1].q \in Nat /\ queue[i + 1].met \in Nat
      BY <2>2, FrameTypes DEF Ordered
    <3>3. Gone(Len(log) + (i + 1), queue[i + 1], log)
      BY <3>2 DEF MetTrue
    <3>4. Len(log) + (i + 1) \in Nat /\ Len(log') + i = Len(log) + (i + 1)
      BY <2>3, <3>2, FrameTypes
    <3>5. Gone(Len(log) + (i + 1), queue[i + 1], Append(log, r))
      BY <2>5, <3>2, <3>3, <3>4, GoneAppend DEF TypeOK
    <3>6. QED
      BY <2>1, <3>2, <3>4, <3>5
  <2>10. MetTrue'
    BY <2>3, <2>4, <2>7, <2>8, <2>9 DEF MetTrue
  <2>11. QED
    BY <2>6, <2>10
<1>3. CASE Tick \/ UNCHANGED vars
  BY <1>3 DEF Tick, vars, InOrder, MetTrue
<1>4. QED
  BY <1>1, <1>2, <1>3 DEF Next

LEMMA MetInvariant == Spec => [](InOrder /\ MetTrue)
<1>1. Init => InOrder /\ MetTrue
  BY DEF Init, InOrder, MetTrue
<1>2. IInv /\ InOrder /\ MetTrue /\ [Next]_vars => (InOrder /\ MetTrue)'
  BY StepMet
<1>3. QED
  BY <1>1, <1>2, Invariant, PTL DEF Spec

(* Stamps of one turn of the clock are in the order of the true times.     *)
LEMMA SamePeriod ==
  ASSUME IInv, InOrder, \A i \in Frames : Period(log[i].a) = Period(log[1].q),
         NEW i \in 1 .. Len(log), NEW j \in 1 .. Len(log)
  PROVE  /\ Enq(j) < Enq(i) <=> log[j].q < log[i].q
         /\ Enq(j) = Enq(i) <=> log[j].q = log[i].q
         /\ Ack(j) < Enq(i) <=> log[j].a < log[i].q
         /\ Ack(j) = Enq(i) <=> log[j].a = log[i].q
<1>1. 1 \in 1 .. Len(log) /\ Frames = 1 .. Len(log)
  BY DEF Frames, IInv, TypeOK
<1>2. \A k \in 1 .. Len(log) : /\ log[1].q <= log[k].q /\ log[k].q <= log[k].a
                               /\ log[k].q \in Nat /\ log[k].a \in Nat
  BY <1>1, Times DEF InOrder
<1>3. ASSUME NEW k \in 1 .. Len(log)
      PROVE  Period(log[k].q) = Period(log[1].q) /\ Period(log[k].a) = Period(log[1].q)
  <2>1. Period(log[k].a) = Period(log[1].q)
    BY <1>1
  <2>2. Period(log[1].q) <= Period(log[k].q) /\ Period(log[k].q) <= Period(log[k].a)
    BY <1>1, <1>2, Turns
  <2>3. Period(log[1].q) \in Nat /\ Period(log[k].q) \in Nat
    BY <1>1, <1>2, StampOf
  <2>4. QED
    BY <2>1, <2>2, <2>3
<1> DEFINE q == log[i].q
           q2 == log[j].q
           a2 == log[j].a
<1>4. q \in Nat /\ q2 \in Nat /\ a2 \in Nat
  BY <1>2
<1>5. Period(q) = Period(q2) /\ Period(q) = Period(a2)
  BY <1>3
<1>6. Enq(i) = Stamp(q) /\ Enq(j) = Stamp(q2) /\ Ack(j) = Stamp(a2)
  BY DEF Enq, Ack
<1> HIDE DEF q, q2, a2
<1>7. q2 - q = Stamp(q2) - Stamp(q) /\ a2 - q = Stamp(a2) - Stamp(q)
  BY <1>4, <1>5, Turns
<1>8. Stamp(q) \in Nat /\ Stamp(q2) \in Nat /\ Stamp(a2) \in Nat
  BY <1>4, StampOf
<1>9. /\ Stamp(q2) < Stamp(q) <=> q2 < q
      /\ Stamp(q2) = Stamp(q) <=> q2 = q
      /\ Stamp(a2) < Stamp(q) <=> a2 < q
      /\ Stamp(a2) = Stamp(q) <=> a2 = q
  BY <1>4, <1>7, <1>8
<1>10. QED
  BY <1>6, <1>9 DEF q, q2, a2

(* The first r frames, and those that differ from them in a set S.         *)
LEMMA AboutFirst ==
  ASSUME NEW r \in Nat, NEW G, NEW S, IsFiniteSet(S), IsFiniteSet(G)
  PROVE  /\ Cardinality(G) \in Nat /\ Cardinality(S) \in Nat
         /\ G \subseteq 1 .. r /\ 1 .. r \subseteq G \cup S
              => Cardinality(G) \in r - Cardinality(S) .. r
         /\ 1 .. r \subseteq G /\ G \subseteq (1 .. r) \cup S
              => Cardinality(G) \in r .. r + Cardinality(S)
<1> DEFINE R == 1 .. r
<1>1. IsFiniteSet(R) /\ Cardinality(R) = r
  BY FS_Interval
<1>2. Cardinality(G) \in Nat /\ Cardinality(S) \in Nat
  BY FS_CardinalityType
<1> HIDE DEF R
<1>3. ASSUME NEW A, NEW B, NEW C, IsFiniteSet(A), IsFiniteSet(B), IsFiniteSet(C),
             A \subseteq B \cup C
      PROVE  Cardinality(A) <= Cardinality(B) + Cardinality(C)
  <2>1. /\ IsFiniteSet(B \cup C)
        /\ Cardinality(B \cup C) = Cardinality(B) + Cardinality(C) - Cardinality(B \cap C)
    BY <1>3, FS_Union
  <2>2. IsFiniteSet(B \cap C)
    <3>1. B \cap C \in SUBSET B
      OBVIOUS
    <3>2. QED
      BY <1>3, <3>1, FS_Subset
  <2>3. /\ Cardinality(A) \in Nat /\ Cardinality(B) \in Nat
        /\ Cardinality(C) \in Nat /\ Cardinality(B \cap C) \in Nat
    BY <1>3, <2>2, FS_CardinalityType
  <2>4. Cardinality(A) <= Cardinality(B \cup C)
    BY <1>3, <2>1, FS_Subset
  <2>5. QED
    BY <2>1, <2>3, <2>4
<1>4. ASSUME G \subseteq R, R \subseteq G \cup S
      PROVE  Cardinality(G) \in r - Cardinality(S) .. r
  <2>1. Cardinality(G) <= r
    BY <1>1, <1>4, FS_Subset
  <2>2. r <= Cardinality(G) + Cardinality(S)
    BY <1>1, <1>3, <1>4
  <2>3. QED
    BY <1>2, <2>1, <2>2
<1>5. ASSUME R \subseteq G, G \subseteq R \cup S
      PROVE  Cardinality(G) \in r .. r + Cardinality(S)
  <2>1. r <= Cardinality(G)
    BY <1>1, <1>5, FS_Subset
  <2>2. Cardinality(G) <= r + Cardinality(S)
    BY <1>1, <1>3, <1>5
  <2>3. QED
    BY <1>2, <2>1, <2>2
<1>6. QED
  BY <1>2, <1>4, <1>5 DEF R

(* The length of the queue that is computed from the log is the one that   *)
(* the frame found, up to the frames reaped in the same unit of time,      *)
(* however sort orders the events of that unit, for any clock and any log  *)
(* within one of its turns.                                                *)
THEOREM OccupancyRight == Spec => []OccupancyTrue
<1>1. IInv /\ InOrder /\ MetTrue => OccupancyTrue
  <2>1. SUFFICES ASSUME IInv, InOrder, MetTrue, NEW i \in 1 .. Len(log), NEW plusFirst \in BOOLEAN,
                        \A k \in Frames : Period(log[k].a) = Period(log[1].q)
                 PROVE  LET same == Cardinality({j \in Frames : log[j].a = log[i].q}) IN
                        Occupancy(i, plusFirst)
                          \in IF plusFirst THEN log[i].met .. log[i].met + same
                              ELSE log[i].met - same .. log[i].met
    <3>1. IInv => Frames = 1 .. Len(log)
      BY DEF Frames, IInv, TypeOK
    <3>2. QED
      BY <3>1 DEF OccupancyTrue
  <2> DEFINE n == Len(log)
             before == {j \in DOMAIN log : Enq(j) < Enq(i) \/ (Enq(j) = Enq(i) /\ j < i)}
             gone == {j \in DOMAIN log : Ack(j) < Enq(i) \/ (~plusFirst /\ Ack(j) = Enq(i))}
             same == {j \in Frames : log[j].a = log[i].q}
             m == log[i].met
             r == i - 1 - m
  <2>2. n \in Nat /\ DOMAIN log = 1 .. n /\ Frames = 1 .. n /\ i \in Int /\ m \in Nat
    BY <2>1, FrameTypes DEF Frames, IInv, TypeOK
  <2>3. \A j \in 1 .. n : log[j].q \in Nat /\ log[j].a \in Nat
    BY <2>1, FrameTypes DEF IInv
  <2>4. before = 1 .. i - 1
    <3>1. \A j \in 1 .. n :
            (Enq(j) < Enq(i) \/ (Enq(j) = Enq(i) /\ j < i)) <=> j < i
      <4>1. TAKE j \in 1 .. n
      <4>2. /\ Enq(j) < Enq(i) <=> log[j].q < log[i].q
            /\ Enq(j) = Enq(i) <=> log[j].q = log[i].q
        BY <2>1, SamePeriod
      <4>3. (j <= i => log[j].q <= log[i].q) /\ (i <= j => log[i].q <= log[j].q)
        BY <2>1 DEF InOrder
      <4>4. QED
        BY <2>1, <2>2, <2>3, <4>2, <4>3
    <3>2. QED
      BY <2>1, <2>2, <3>1
  <2>5. gone = {j \in 1 .. n : log[j].a < log[i].q \/ (~plusFirst /\ log[j].a = log[i].q)}
    BY <2>1, <2>2, SamePeriod
  <2>6. /\ r \in 0 .. n
        /\ \A j \in 1 .. n : IF j <= r THEN log[j].a <= log[i].q ELSE log[i].q <= log[j].a
    BY <2>1 DEF MetTrue, Gone
  <2>7. Cardinality(before) = i - 1
    <3>1. i - 1 \in Int /\ i >= 1
      BY <2>1, <2>2
    <3>2. Cardinality(1 .. i - 1) = IF 1 > i - 1 THEN 0 ELSE i - 1 - 1 + 1
      BY <3>1, FS_Interval
    <3> HIDE DEF before
    <3>3. QED
      BY <2>2, <2>4, <3>1, <3>2
  <2>8. i \in 1 .. n /\ r = i - 1 - m
    BY <2>1
  <2>9. same = {j \in 1 .. n : log[j].a = log[i].q}
    BY <2>2
  <2>10. Occupancy(i, plusFirst) = Cardinality(before) - Cardinality(gone)
    BY DEF Occupancy, before, gone
  <2> HIDE DEF before, m, r, n
  <2>11. IsFiniteSet(gone) /\ IsFiniteSet(same)
    <3>1. gone \in SUBSET (1 .. n) /\ same \in SUBSET (1 .. n)
      BY <2>2
    <3> HIDE DEF gone, same
    <3>2. IsFiniteSet(1 .. n)
      BY <2>2, FS_Interval
    <3>3. QED
      BY <3>1, <3>2, FS_Subset
  <2> HIDE DEF gone, same
  <2>12. \A j \in 1 .. n : /\ log[j].a < log[i].q => j <= r
                           /\ j <= r => log[j].a < log[i].q \/ log[j].a = log[i].q
    BY <2>3, <2>6, <2>8
  <2>13. \A j \in 1 .. r : j \in 1 .. n /\ j <= r
    BY <2>2, <2>6
  <2>14. r \in Nat /\ \A j \in 1 .. n : j <= r => j \in 1 .. r
    BY <2>2, <2>6
  <2> DEFINE g == Cardinality(gone)
             s == Cardinality(same)
  <2>15. g \in Nat /\ s \in Nat
    BY <2>11, FS_CardinalityType
  <2>16. CASE plusFirst
    <3>1. gone \subseteq 1 .. r
      BY <2>5, <2>12, <2>14, <2>16
    <3>2. 1 .. r \subseteq gone \cup same
      BY <2>5, <2>9, <2>12, <2>13
    <3>3. g \in r - s .. r
      BY <2>11, <2>14, <3>1, <3>2, AboutFirst
    <3> HIDE DEF g, s
    <3>4. i - 1 - g \in m .. m + s
      BY <2>2, <2>8, <2>14, <2>15, <3>3
    <3>5. QED
      BY <2>7, <2>10, <2>16, <3>4 DEF g, s, m, same
  <2>17. CASE ~plusFirst
    <3>1. 1 .. r \subseteq gone
      BY <2>5, <2>12, <2>13, <2>17
    <3>2. gone \subseteq (1 .. r) \cup same
      BY <2>5, <2>9, <2>12, <2>14
    <3>3. g \in r .. r + s
      BY <2>11, <2>14, <3>1, <3>2, AboutFirst
    <3> HIDE DEF g, s
    <3>4. i - 1 - g \in m - s .. m
      BY <2>2, <2>8, <2>14, <2>15, <3>3
    <3>5. QED
      BY <2>7, <2>10, <2>17, <3>4 DEF g, s, m, same
  <2>18. QED
    BY <2>16, <2>17
<1>2. QED
  BY <1>1, Invariant, MetInvariant, PTL

-----------------------------------------------------------------------------
(* What is defined by recursion.                                           *)

(* Induction, for a set: no least number is outside of it.                 *)
LEMMA Induct ==
  ASSUME NEW S, 0 \in S, \A n \in Nat : n \in S => n + 1 \in S
  PROVE  Nat \subseteq S
<1> DEFINE T == Nat \ S
           R == OpToRel(<, Nat)
<1>1. SUFFICES ASSUME T # {} PROVE FALSE
  OBVIOUS
<1>2. IsWellFoundedOn(R, Nat)
  BY NatLessThanWellFounded
<1>3. \A x, y \in Nat : <<x, y>> \in R <=> x < y
  BY DEF OpToRel
<1>4. T \subseteq Nat
  OBVIOUS
<1> HIDE DEF R
<1>5. PICK m \in T : \A k \in T : ~ (<<k, m>> \in R)
  BY <1>1, <1>2, <1>4, WFMin
<1>6. m \in Nat /\ m # 0 /\ m - 1 \in Nat /\ m - 1 < m
  BY <1>5
<1>7. m - 1 \in S
  BY <1>3, <1>5, <1>6
<1>8. (m - 1) + 1 \in S
  BY <1>6, <1>7
<1>9. QED
  BY <1>5, <1>6, <1>8

(* Whatever each value is computed to from the one before, the function    *)
(* that has them all exists.                                               *)
Computes(f, n, b, g) == f = [k \in 0 .. n |-> IF k = 0 THEN b ELSE g[<<k, f[k - 1]>>]]

LEMMA RecursionExists ==
  ASSUME NEW B, NEW b \in B, NEW g \in [Nat \X B -> B], NEW n \in Nat
  PROVE  \E f \in [0 .. n -> B] : Computes(f, n, b, g)
<1> DEFINE S == {m \in Nat : \E f \in [0 .. m -> B] : Computes(f, m, b, g)}
<1>1. 0 \in S
  <2> DEFINE f == [k \in 0 .. 0 |-> b]
  <2>1. f \in [0 .. 0 -> B] /\ Computes(f, 0, b, g)
    BY DEF Computes
  <2>2. QED
    BY <2>1
<1>2. ASSUME NEW m \in Nat, m \in S PROVE m + 1 \in S
  <2>1. PICK f \in [0 .. m -> B] : Computes(f, m, b, g)
    BY <1>2
  <2> DEFINE h == [k \in 0 .. m + 1 |-> IF k = m + 1 THEN g[<<m + 1, f[m]>>] ELSE f[k]]
  <2>2. h \in [0 .. m + 1 -> B]
    BY <2>1
  <2>3. \A k \in 0 .. m + 1 : h[k] = IF k = 0 THEN b ELSE g[<<k, h[k - 1]>>]
    <3>1. TAKE k \in 0 .. m + 1
    <3>2. CASE k = m + 1
      <4>1. h[k] = g[<<m + 1, f[m]>>] /\ h[k - 1] = f[m] /\ k # 0
        BY <3>2
      <4>2. QED
        BY <3>2, <4>1
    <3>3. CASE k # m + 1
      <4>1. k \in 0 .. m /\ h[k] = f[k] /\ (k # 0 => k - 1 \in 0 .. m /\ h[k - 1] = f[k - 1])
        BY <3>3
      <4>2. f[k] = IF k = 0 THEN b ELSE g[<<k, f[k - 1]>>]
        BY <2>1, <4>1 DEF Computes
      <4>3. QED
        BY <4>1, <4>2
    <3>4. QED
      BY <3>2, <3>3
  <2> HIDE DEF h
  <2>4. h = [k \in 0 .. m + 1 |-> IF k = 0 THEN b ELSE g[<<k, h[k - 1]>>]]
    BY <2>2, <2>3
  <2>5. Computes(h, m + 1, b, g)
    BY <2>4 DEF Computes
  <2>6. QED
    BY <2>2, <2>5
<1> HIDE DEF S
<1>3. Nat \subseteq S
  BY <1>1, <1>2, Induct
<1>4. QED
  BY <1>3 DEF S

-----------------------------------------------------------------------------
(* The run time.                                                           *)

(* The function of time_wrap_counter.                                      *)
Unwrapped == [n |-> 0, last |-> IF log = << >> THEN 0 ELSE Enq(1)]
Counts(w) ==
  w = [i \in 0 .. Len(log) |->
        IF i <= 1 THEN Unwrapped
        ELSE IF Enq(i) < w[i - 1].last THEN [n |-> w[i - 1].n + 1, last |-> Enq(i)]
        ELSE w[i - 1]]

LEMMA WrapsIs == Wraps = (CHOOSE w : Counts(w))[Len(log)].n
BY Zenon DEF Wraps, Counts, Unwrapped

LEMMA CountExists ==
  ASSUME IInv
  PROVE  \E w : Counts(w)
<1> DEFINE B == [n : Nat, last : Nat]
           g == [x \in Nat \X B |->
                  IF x[1] <= 1 \/ x[1] \notin 1 .. Len(log) THEN Unwrapped
                  ELSE IF Enq(x[1]) < x[2].last THEN [n |-> x[2].n + 1, last |-> Enq(x[1])]
                  ELSE x[2]]
<1>1. Len(log) \in Nat /\ (log # << >> => 1 \in 1 .. Len(log))
  BY DEF IInv, TypeOK
<1>2. Unwrapped \in B
  BY <1>1, StampType DEF Unwrapped
<1>3. g \in [Nat \X B -> B]
  BY <1>2, StampType
<1>4. \A i \in Nat, v \in B :
        g[<<i, v>>] = IF i <= 1 \/ i \notin 1 .. Len(log) THEN Unwrapped
                      ELSE IF Enq(i) < v.last THEN [n |-> v.n + 1, last |-> Enq(i)]
                      ELSE v
  OBVIOUS
<1> HIDE DEF g
<1>5. PICK w \in [0 .. Len(log) -> B] : Computes(w, Len(log), Unwrapped, g)
  BY <1>1, <1>2, <1>3, RecursionExists
<1>6. \A i \in 0 .. Len(log) :
        w[i] = IF i <= 1 THEN Unwrapped
               ELSE IF Enq(i) < w[i - 1].last THEN [n |-> w[i - 1].n + 1, last |-> Enq(i)]
               ELSE w[i - 1]
  <2>1. TAKE i \in 0 .. Len(log)
  <2>2. w[i] = IF i = 0 THEN Unwrapped ELSE g[<<i, w[i - 1]>>]
    BY <1>5 DEF Computes
  <2>3. i # 0 => i \in Nat /\ w[i - 1] \in B /\ i \in 1 .. Len(log)
    BY <1>1, <1>5
  <2>4. i # 0 => g[<<i, w[i - 1]>>] =
          IF i <= 1 THEN Unwrapped
          ELSE IF Enq(i) < w[i - 1].last THEN [n |-> w[i - 1].n + 1, last |-> Enq(i)]
          ELSE w[i - 1]
    BY <1>4, <2>3
  <2>5. QED
    BY <2>2, <2>4
<1>7. Counts(w)
  BY <1>5, <1>6 DEF Counts
<1>8. QED
  BY <1>7

(* Every wrap that is counted is one of the clock; and in a test within a  *)
(* turn of it, the first frame queued after the wrap is noticed.           *)
LEMMA WrapsCounted ==
  ASSUME IInv, InOrder, Len(log) > 0
  PROVE  /\ Wraps \in Nat
         /\ Wraps <= Period(log[Len(log)].q) - Period(log[1].q)
         /\ log[Len(log)].q < log[1].q + Clock
              => Wraps = Period(log[Len(log)].q) - Period(log[1].q)
<1> DEFINE w == CHOOSE v : Counts(v)
           P(i) == Period(log[i].q)
           Short(i) == log[i].q < log[1].q + Clock
           Bounded(i) == \E j \in 1 .. i : w[i].last = Enq(j) /\ w[i].n <= P(j) - P(1)
           Exact(i) == /\ w[i].n = P(i) - P(1) /\ w[i].last <= Enq(i)
                       /\ w[i].n = 0 => w[i].last = Enq(1)
           Right(i) == /\ w[i].n \in Nat /\ w[i].last \in Nat
                       /\ Bounded(i) /\ (Short(i) => Exact(i))
           S == {k \in Nat : k + 1 \in 1 .. Len(log) => Right(k + 1)}
<1>1. Counts(w)
  BY CountExists
<1> HIDE DEF w
<1>2. Len(log) \in Nat /\ 1 \in 1 .. Len(log) /\ log # << >>
  BY DEF IInv, TypeOK
<1>3. \A i \in 1 .. Len(log) :
        w[i] = IF i <= 1 THEN Unwrapped
               ELSE IF Enq(i) < w[i - 1].last THEN [n |-> w[i - 1].n + 1, last |-> Enq(i)]
               ELSE w[i - 1]
  BY <1>1, <1>2 DEF Counts
<1>4. \A i \in 1 .. Len(log) : log[i].q \in Nat /\ Enq(i) \in Nat /\ P(i) \in Nat
  BY Times, StampType, StampOf
<1>5. \A i, j \in 1 .. Len(log) : j <= i =>
        /\ log[j].q <= log[i].q /\ P(j) <= P(i)
        /\ Enq(i) < Enq(j) => P(j) + 1 <= P(i)
        /\ P(i) = P(j) => log[i].q - log[j].q = Enq(i) - Enq(j)
        /\ P(i) = P(j) + 1 => log[i].q - log[j].q = Clock + Enq(i) - Enq(j)
        /\ log[i].q < log[j].q + Clock => P(i) = P(j) \/ P(i) = P(j) + 1
  <2>1. TAKE i, j \in 1 .. Len(log)
  <2>2. HAVE j <= i
  <2>3. log[j].q \in Nat /\ log[i].q \in Nat /\ log[j].q <= log[i].q
    BY <1>4, <2>2 DEF InOrder
  <2>4. QED
    BY <2>3, Turns DEF Enq
<1>6. Clock \in Nat
  BY DEF DelaysAssumption
<1> HIDE DEF P
<1>7. 0 \in S
  <2>1. w[1] = [n |-> 0, last |-> Enq(1)]
    <3>1. w[1] = Unwrapped
      <4>1. 1 <= 1
        OBVIOUS
      <4>2. QED
        BY <1>2, <1>3, <4>1, Zenon
    <3>2. Unwrapped = [n |-> 0, last |-> Enq(1)]
      BY <1>2 DEF Unwrapped
    <3>3. QED
      BY <3>1, <3>2
  <2>2. P(1) \in Nat /\ Enq(1) \in Nat
    BY <1>2, <1>4
  <2>3. w[1].n = 0 /\ w[1].last = Enq(1)
    BY <2>1
  <2>4. w[1].n <= P(1) - P(1) /\ w[1].n = P(1) - P(1) /\ w[1].last <= Enq(1) /\ 1 \in 1 .. 1
    BY <2>2, <2>3
  <2>5. Right(1)
    BY <2>2, <2>3, <2>4
  <2>6. QED
    BY <2>5
<1>8. ASSUME NEW k \in Nat, k \in S PROVE k + 1 \in S
  <2>1. SUFFICES ASSUME k + 2 \in 1 .. Len(log) PROVE Right(k + 2)
    OBVIOUS
  <2> DEFINE i == k + 2
             j == k + 1
             m == w[j].n
             l == w[j].last
  <2>2. /\ i \in 1 .. Len(log) /\ j \in 1 .. Len(log) /\ j = i - 1 /\ i # 1 /\ ~(i <= 1)
        /\ j <= i /\ 1 <= i /\ 1 <= j /\ \A x \in 1 .. j : x \in 1 .. Len(log) /\ x \in 1 .. i
    BY <1>2, <2>1
  <2>3. Right(j)
    BY <1>8, <2>2
  <2>4. w[i] = IF Enq(i) < l THEN [n |-> m + 1, last |-> Enq(i)] ELSE w[j]
    BY <1>3, <2>2
  <2>5. m \in Nat /\ l \in Nat
    BY <2>3
  <2>6. PICK x \in 1 .. j : l = Enq(x) /\ m <= P(x) - P(1)
    BY <2>3
  <2>7. x \in 1 .. Len(log) /\ x \in 1 .. i /\ x <= i /\ i \in 1 .. i
    BY <2>2
  <2>8. P(x) \in Nat /\ P(i) \in Nat /\ P(1) \in Nat /\ Enq(i) \in Nat
    BY <1>2, <1>4, <2>2, <2>7
  <2>9. Short(i) => Short(j) /\ Exact(j)
    <3>1. log[j].q <= log[i].q
      BY <1>5, <2>2
    <3>2. log[i].q \in Nat /\ log[j].q \in Nat /\ log[1].q \in Nat
      BY <1>2, <1>4, <2>2
    <3> DEFINE y == log[i].q
               z == log[j].q
               t == log[1].q + Clock
    <3>3. y < t => z < t
      <4> HIDE DEF y, z, t
      <4>1. y \in Nat /\ z \in Nat /\ t \in Nat /\ z <= y
        BY <1>6, <3>1, <3>2 DEF y, z, t
      <4>2. QED
        BY <4>1
    <3>4. QED
      BY <2>3, <3>3
  <2> DEFINE e1 == Enq(1)
             ej == Enq(j)
             ei == Enq(i)
             p1 == P(1)
             pj == P(j)
             pi == P(i)
             q1 == log[1].q
             qj == log[j].q
             qi == log[i].q
  <2>10. /\ e1 \in Nat /\ ej \in Nat /\ ei \in Nat /\ p1 \in Nat /\ pj \in Nat /\ pi \in Nat
         /\ q1 \in Nat /\ qj \in Nat /\ qi \in Nat
    BY <1>2, <1>4, <2>2
  <2>11. /\ q1 <= qj /\ qj <= qi /\ p1 <= pj /\ pj <= pi
         /\ ei < ej => pj + 1 <= pi
         /\ pi = pj => qi - qj = ei - ej
         /\ pi = p1 => qi - q1 = ei - e1
         /\ pi = p1 + 1 => qi - q1 = Clock + ei - e1
         /\ qi < q1 + Clock => pi = p1 \/ pi = p1 + 1
    BY <1>2, <1>5, <2>2
  <2>12. Short(i) => /\ qi < q1 + Clock
                     /\ m = pj - p1 /\ l <= ej /\ (m = 0 => l = e1)
    BY <2>9
  <2> HIDE DEF e1, ej, ei, p1, pj, pi, q1, qj, qi, m, l
  <2>13. CASE ei < l
    <3>1. w[i].n = m + 1 /\ w[i].last = ei
      BY <2>4, <2>13 DEF ei
    <3>2. P(x) + 1 <= P(i)
      BY <1>5, <2>2, <2>6, <2>7, <2>13 DEF ei
    <3>3. m + 1 <= pi - p1
      BY <2>5, <2>6, <2>8, <3>2 DEF pi, p1
    <3>4. Bounded(i)
      BY <2>7, <3>1, <3>3 DEF ei, pi, p1
    <3>5. Short(i) => Exact(i)
      <4>1. SUFFICES ASSUME Short(i) PROVE Exact(i)
        OBVIOUS
      <4>2. m + 1 = pi - p1
        BY <1>6, <2>5, <2>10, <2>11, <2>12, <2>13, <4>1
      <4>3. m + 1 # 0 /\ ei <= ei
        BY <2>5, <2>10
      <4>4. QED
        BY <3>1, <4>2, <4>3 DEF ei, pi, p1
    <3>6. m + 1 \in Nat
      BY <2>5
    <3>7. QED
      BY <2>10, <3>1, <3>4, <3>5, <3>6 DEF i
  <2>14. CASE ~(ei < l)
    <3>1. w[i].n = m /\ w[i].last = l
      BY <2>4, <2>14 DEF ei, m, l
    <3>2. Bounded(i)
      BY <2>6, <2>7, <3>1
    <3>3. Short(i) => Exact(i)
      <4>1. SUFFICES ASSUME Short(i) PROVE Exact(i)
        OBVIOUS
      <4>2. l <= ei /\ m = pi - p1
        BY <1>6, <2>5, <2>10, <2>11, <2>12, <2>14, <4>1
      <4>3. m = 0 => l = e1
        BY <2>12, <4>1
      <4>4. QED
        BY <3>1, <4>2, <4>3 DEF ei, e1, pi, p1
    <3>4. QED
      BY <2>5, <3>1, <3>2, <3>3 DEF i
  <2>15. QED
    BY <2>13, <2>14
<1>9. Nat \subseteq S
  <2> HIDE DEF S
  <2>1. QED
    BY <1>7, <1>8, Induct
<1>10. Right(Len(log))
  <2>1. Len(log) - 1 \in Nat /\ (Len(log) - 1) + 1 = Len(log) /\ Len(log) \in 1 .. Len(log)
    BY <1>2
  <2>2. Len(log) - 1 \in S
    BY <1>9, <2>1
  <2>3. QED
    BY <2>1, <2>2
<1>11. Wraps = w[Len(log)].n
  BY WrapsIs DEF w
<1>12. Wraps <= P(Len(log)) - P(1)
  <2> DEFINE n == Len(log)
  <2>1. PICK j \in 1 .. n : w[n].n <= P(j) - P(1)
    BY <1>10
  <2>2. j <= n /\ j \in 1 .. Len(log) /\ n \in 1 .. Len(log)
    BY <1>2
  <2>3. P(j) <= P(n) /\ P(j) \in Nat /\ P(n) \in Nat /\ P(1) \in Nat
    BY <1>2, <1>4, <1>5, <2>2
  <2>4. Wraps \in Nat /\ Wraps <= P(j) - P(1)
    BY <1>10, <1>11, <2>1
  <2> HIDE DEF n
  <2>5. Wraps <= P(n) - P(1)
    BY <2>3, <2>4
  <2>6. QED
    BY <2>5 DEF n
<1>13. QED
  BY <1>10, <1>11, <1>12 DEF P

(* The run time is never too long, for any clock and any log; and in a     *)
(* test within one turn it is short by a unit for each wrap and no more,   *)
(* if the last frame was not queued before the wrap it was reaped after.   *)
THEOREM RunTimeShort == Spec => []RunTimeRight
<1>1. IInv /\ InOrder => RunTimeRight
  <2> DEFINE n == Len(log)
             q == log[n].q
             a == log[n].a
             f == log[1].q
             d == Period(q) - Period(f)
  <2>1. SUFFICES ASSUME IInv, InOrder, n > 0
                 PROVE  /\ RunTime <= a - f
                        /\ a < f + Clock /\ Period(q) = Period(a)
                             => RunTime = a - f - (Period(a) - Period(f))
    BY DEF RunTimeRight
  <2>2. n \in 1 .. Len(log) /\ 1 \in 1 .. Len(log)
    BY <2>1 DEF IInv, TypeOK
  <2>3. a \in Nat /\ q \in Nat /\ f \in Nat /\ f <= q /\ q <= a
    <3>1. f <= q
      BY <2>1, <2>2 DEF InOrder
    <3>2. QED
      BY <2>1, <2>2, <3>1, Times
  <2>4. Wraps \in Nat /\ Wraps <= d /\ (q < f + Clock => Wraps = d)
    BY <2>1, WrapsCounted
  <2>5. Clock \in Nat /\ Clock > 0
    BY DEF DelaysAssumption
  <2> DEFINE u == Stamp(f)
             v == Stamp(a)
  <2>6. RunTime = v - u + Wraps * (Clock - 1)
    BY DEF RunTime, Enq, Ack
  <2>7. u \in Nat /\ v \in Nat
    BY <2>3, StampOf
  <2>8. /\ Period(f) \in Nat /\ Period(q) \in Nat /\ Period(a) \in Nat
        /\ Period(f) <= Period(q) /\ Period(q) <= Period(a)
    BY <2>3, Turns, StampOf
  <2> DEFINE pf == Period(f)
             pa == Period(a)
             x == pf * Clock
             y == pa * Clock
             z == Wraps * Clock
  <2>9. a - f = y - x + v - u /\ x \in Nat /\ y \in Nat
    BY <2>3, Turns, StampOf
  <2>10. pa - pf \in Nat /\ Wraps <= pa - pf /\ y - x = (pa - pf) * Clock
    <3>1. pa - pf \in Nat /\ Wraps <= pa - pf
      BY <2>4, <2>8
    <3>2. (pa - pf) * Clock = y - x
      BY <2>5, <2>8, Multiples
    <3>3. QED
      BY <3>1, <3>2
  <2>11. z \in Nat /\ z <= y - x /\ (Wraps = pa - pf => z = y - x)
    <3> DEFINE t == pa - pf
    <3>1. t \in Nat /\ Wraps <= t /\ y - x = t * Clock
      BY <2>10
    <3> HIDE DEF t, x, y
    <3>2. z \in Nat /\ (Wraps < t => z <= t * Clock - Clock) /\ t * Clock \in Nat
      BY <2>4, <2>5, <3>1, Multiples
    <3>3. Wraps < t => z <= t * Clock
      BY <2>5, <3>2
    <3>4. Wraps = t => z = t * Clock
      OBVIOUS
    <3>5. Wraps < t \/ Wraps = t
      BY <2>4, <3>1
    <3>6. QED
      BY <3>1, <3>2, <3>3, <3>4, <3>5 DEF t
  <2>12. Wraps * (Clock - 1) = z - Wraps
    BY <2>4, <2>5
  <2> DEFINE r == RunTime
  <2>13. r = v - u + (z - Wraps)
    BY <2>6, <2>12
  <2>14. a < f + Clock /\ Period(q) = Period(a) => Wraps = pa - pf
    BY <2>3, <2>4, <2>5
  <2> HIDE DEF n, q, a, f, u, v, x, y, z, r, pf, pa
  <2>15. r <= a - f
    BY <2>3, <2>4, <2>7, <2>9, <2>11, <2>13
  <2>16. Wraps = pa - pf => r = a - f - (pa - pf)
    BY <2>3, <2>4, <2>7, <2>9, <2>11, <2>13
  <2>17. QED
    BY <2>14, <2>15, <2>16 DEF r, pf, pa
<1>2. QED
  BY <1>1, Invariant, MetInvariant, PTL

-----------------------------------------------------------------------------
(* The boundary of the delays.                                             *)

LEMMA CardDisjoint ==
  ASSUME NEW S, IsFiniteSet(S), NEW T, IsFiniteSet(T), S \cap T = {}
  PROVE  /\ Cardinality(S) \in Nat /\ Cardinality(T) \in Nat
         /\ Cardinality(S \cup T) = Cardinality(S) + Cardinality(T)
<1>1. Cardinality(S) \in Nat /\ Cardinality(T) \in Nat
  BY FS_CardinalityType
<1>2. Cardinality(S \cup T) = Cardinality(S) + Cardinality(T) - Cardinality(S \cap T)
  BY FS_Union
<1>3. Cardinality(S \cap T) = 0
  BY FS_EmptySet
<1>4. QED
  BY <1>1, <1>2, <1>3

(* The lines of the histogram are as many as the delays, and each frame    *)
(* with a delay is on one.                                                 *)
LEMMA LinesCount ==
  ASSUME IInv
  PROVE  /\ IsFiniteSet(Computed) /\ Lines \in Nat /\ DOMAIN LineOf = Computed
         /\ \A i \in Computed : LineOf[i] \in Nat /\ LineOf[i] > 0
<1>1. DOMAIN log = 1 .. Len(log) /\ Len(log) \in Nat
  BY DEF IInv, TypeOK
<1>2. IsFiniteSet(Computed)
  <2>1. Computed \in SUBSET (1 .. Len(log))
    BY <1>1 DEF Computed
  <2>2. IsFiniteSet(1 .. Len(log))
    BY <1>1, FS_Interval
  <2>3. QED
    BY <2>1, <2>2, FS_Subset
<1> DEFINE f == [i \in Computed |-> MacDelay(i)]
<1>3. DelaysSeen = {f[i] : i \in Computed}
  BY DEF DelaysSeen
<1>4. f \in Surjection(Computed, DelaysSeen)
  BY <1>3 DEF Surjection
<1>5. IsFiniteSet(DelaysSeen)
  BY <1>2, <1>4, FS_Surjection
<1>6. \A i \in Computed : MacDelay(i) \in Int
  <2>1. TAKE i \in Computed
  <2>2. i \in 1 .. Len(log)
    BY <1>1 DEF Computed
  <2>3. Enq(i) \in Nat /\ Ack(i) \in Nat /\ PrevAck(i) \in Nat
    BY <2>2, StampType, PrevType
  <2>4. /\ Read(Ack(i)) \in Int
        /\ Read(IF Greater(PrevAck(i), Enq(i)) THEN PrevAck(i) ELSE Enq(i)) \in Int
    BY <2>3, ReadInt
  <2>5. QED
    BY <2>4 DEF MacDelay
<1>7. Lines \in Nat
  BY <1>5, FS_CardinalityType DEF Lines
<1>8. ASSUME NEW i \in Computed PROVE LineOf[i] \in Nat /\ LineOf[i] > 0
  <2> DEFINE d == MacDelay(i)
             below == {e \in DelaysSeen : e <= d}
  <2>1. d \in DelaysSeen /\ d <= d
    BY <1>6 DEF DelaysSeen
  <2>2. d \in below
    BY <2>1
  <2>3. below \in SUBSET DelaysSeen
    OBVIOUS
  <2>4. LineOf[i] = Cardinality(below)
    BY DEF LineOf
  <2> HIDE DEF below, d
  <2>5. IsFiniteSet(below) /\ Cardinality(below) \in Nat
    BY <1>5, <2>3, FS_Subset, FS_CardinalityType
  <2>6. Cardinality(below) # 0
    BY <2>2, <2>5, FS_EmptySet
  <2>7. QED
    BY <2>4, <2>5, <2>6
<1>9. DOMAIN LineOf = Computed
  BY DEF LineOf
<1>10. QED
  BY <1>2, <1>7, <1>8, <1>9

(* The window slides by a line: the packets of one come, of another go.    *)
LEMMA WindowSlides ==
  ASSUME IInv, NEW k \in Nat
  PROVE  /\ Sum(k) \in Nat /\ Packets(k) \in Nat /\ Packets(k - Gap) \in Nat
         /\ k > 0 => Sum(k) = Sum(k - 1) - Packets(k - Gap) + Packets(k)
         /\ k <= Gap => Packets(k - Gap) = 0
         /\ k = 0 => Sum(k) = 0
<1> DEFINE Win(j) == {i \in Computed : LineOf[i] \in j - Gap + 1 .. j}
           On(j) == {i \in Computed : LineOf[i] = j}
<1>1. Gap \in Nat /\ Gap > 0
  BY DEF DelaysAssumption
<1>2. IsFiniteSet(Computed) /\ \A i \in Computed : LineOf[i] \in Nat /\ LineOf[i] > 0
  BY LinesCount
<1>3. \A j : Sum(j) = Cardinality(Win(j)) /\ Packets(j) = Cardinality(On(j))
  BY LinesCount DEF Sum, Packets
<1>4. \A j : Win(j) \in SUBSET Computed /\ On(j) \in SUBSET Computed
  OBVIOUS
<1>5. \A j : /\ IsFiniteSet(Win(j)) /\ Cardinality(Win(j)) \in Nat
             /\ IsFiniteSet(On(j)) /\ Cardinality(On(j)) \in Nat
  BY <1>2, <1>4, FS_Subset, FS_CardinalityType
<1>6. Win(k) \cap On(k - Gap) = {} /\ Win(k - 1) \cap On(k) = {}
  BY <1>1, <1>2
<1>7. Win(k) \cup On(k - Gap) = Win(k - 1) \cup On(k)
  <2>1. \A i \in Computed : /\ LineOf[i] \in k - Gap + 1 .. k \/ LineOf[i] = k - Gap
                                <=> LineOf[i] \in k - Gap .. k
                            /\ LineOf[i] \in k - 1 - Gap + 1 .. k - 1 \/ LineOf[i] = k
                                <=> LineOf[i] \in k - Gap .. k
    BY <1>1, <1>2
  <2>2. QED
    BY <2>1
<1>8. k <= Gap => On(k - Gap) = {}
  BY <1>1, <1>2
<1>9. k = 0 => Win(k) = {}
  BY <1>1, <1>2
<1> HIDE DEF Win, On
<1>10. Cardinality(Win(k)) + Cardinality(On(k - Gap))
        = Cardinality(Win(k - 1)) + Cardinality(On(k))
  BY <1>5, <1>6, <1>7, CardDisjoint
<1>11. Sum(k) + Packets(k - Gap) = Sum(k - 1) + Packets(k)
  BY <1>3, <1>10
<1>12. /\ Sum(k) \in Nat /\ Sum(k - 1) \in Nat
       /\ Packets(k) \in Nat /\ Packets(k - Gap) \in Nat
  BY <1>3, <1>5
<1>13. k <= Gap => Packets(k - Gap) = 0
  BY <1>3, <1>8, FS_EmptySet
<1>14. k = 0 => Sum(k) = 0
  BY <1>3, <1>9, FS_EmptySet
<1>15. Sum(k) = Sum(k - 1) - Packets(k - Gap) + Packets(k)
  BY <1>11, <1>12
<1>16. QED
  BY <1>12, <1>13, <1>14, <1>15

(* The function of madwifi_find_boundry_of_delay: a step, and the scan.    *)
Fresh == [sum |-> 0, max |-> 0, last |-> 0]
Slid(k, b) == b.sum - Packets(k - Gap) + Packets(k)
ScanStep(k, b) ==
  IF k <= Gap
  THEN [sum |-> b.sum + Packets(k), max |-> b.sum + Packets(k), last |-> 0]
  ELSE IF Slid(k, b) > b.max THEN [sum |-> Slid(k, b), max |-> Slid(k, b), last |-> k]
  ELSE [b EXCEPT !.sum = Slid(k, b)]
Scans(s) == s = [k \in 0 .. Lines |-> IF k = 0 THEN Fresh ELSE ScanStep(k, s[k - 1])]

LEMMA BoundaryIs == Boundary = (CHOOSE s : Scans(s))[Lines].last
BY Zenon DEF Boundary, Scans, ScanStep, Slid, Fresh

LEMMA ScanExists ==
  ASSUME IInv
  PROVE  \E s : Scans(s)
<1> DEFINE B == [sum : Int, max : Int, last : Nat]
           g == [x \in Nat \X B |-> ScanStep(x[1], x[2])]
<1>1. Lines \in Nat
  BY LinesCount
<1>2. Fresh \in B
  BY DEF Fresh
<1>3. ASSUME NEW k \in Nat, NEW b \in B PROVE ScanStep(k, b) \in B
  <2>1. Packets(k) \in Int /\ Packets(k - Gap) \in Int
    BY WindowSlides
  <2>2. Slid(k, b) \in Int
    BY <2>1 DEF Slid
  <2>3. b.sum + Packets(k) \in Int
    BY <2>1
  <2>4. QED
    BY <2>2, <2>3 DEF ScanStep
<1>4. g \in [Nat \X B -> B]
  BY <1>3
<1>5. \A k \in Nat, b \in B : g[<<k, b>>] = ScanStep(k, b)
  OBVIOUS
<1> HIDE DEF g
<1>6. PICK s \in [0 .. Lines -> B] : Computes(s, Lines, Fresh, g)
  BY <1>1, <1>2, <1>4, RecursionExists
<1>7. \A k \in 0 .. Lines : s[k] = IF k = 0 THEN Fresh ELSE ScanStep(k, s[k - 1])
  <2>1. TAKE k \in 0 .. Lines
  <2>2. s[k] = IF k = 0 THEN Fresh ELSE g[<<k, s[k - 1]>>]
    BY <1>6 DEF Computes
  <2>3. k # 0 => k \in Nat /\ s[k - 1] \in B
    BY <1>1, <1>6
  <2>4. QED
    BY <1>5, <2>2, <2>3
<1>8. Scans(s)
  BY <1>6, <1>7 DEF Scans
<1>9. QED
  BY <1>8

(* After line k the sum is that of its window; the largest so far is that  *)
(* of the first window, or of a later one that has more.                   *)
ScanRight(k, v) ==
  /\ v.sum = Sum(k)
  /\ k <= Gap => v.max = Sum(k) /\ v.last = 0
  /\ k > Gap => /\ \A j \in Gap .. k : Sum(j) <= v.max
                /\ \/ v.last = 0 /\ v.max = Sum(Gap)
                   \/ v.last \in Gap + 1 .. k /\ v.max = Sum(v.last) /\ v.max > Sum(Gap)

LEMMA ScanStepRight ==
  ASSUME IInv, NEW k \in Nat \ {0}, NEW b \in [sum : Int, max : Int, last : Nat],
         ScanRight(k - 1, b)
  PROVE  ScanRight(k, ScanStep(k, b)) /\ ScanStep(k, b) \in [sum : Int, max : Int, last : Nat]
<1>1. Gap \in Nat /\ Gap > 0
  BY DEF DelaysAssumption
<1>2. \A j \in Nat : Sum(j) \in Nat
  BY WindowSlides
<1>3. /\ Sum(k) = Sum(k - 1) - Packets(k - Gap) + Packets(k)
      /\ Packets(k) \in Nat /\ Packets(k - Gap) \in Nat
      /\ k <= Gap => Packets(k - Gap) = 0
  BY WindowSlides
<1>4. b.sum = Sum(k - 1) /\ Sum(k) \in Nat /\ Sum(k - 1) \in Nat /\ Sum(Gap) \in Nat
  BY <1>1, <1>2 DEF ScanRight
<1>5. Slid(k, b) = Sum(k)
  BY <1>3, <1>4 DEF Slid
<1>6. CASE k <= Gap
  <2>1. b.sum + Packets(k) = Sum(k)
    BY <1>3, <1>4, <1>6
  <2>2. ScanStep(k, b) = [sum |-> Sum(k), max |-> Sum(k), last |-> 0]
    BY <1>6, <2>1 DEF ScanStep
  <2>3. QED
    BY <1>1, <1>4, <1>6, <2>2 DEF ScanRight
<1>7. CASE k > Gap
  <2>1. /\ \A j \in Gap .. k - 1 : Sum(j) <= b.max
        /\ \/ b.last = 0 /\ b.max = Sum(Gap)
           \/ b.last \in Gap + 1 .. k - 1 /\ b.max = Sum(b.last) /\ b.max > Sum(Gap)
    <3>1. CASE k - 1 = Gap
      BY <1>1, <1>4, <3>1 DEF ScanRight
    <3>2. CASE k - 1 > Gap
      BY <3>2 DEF ScanRight
    <3>3. QED
      BY <1>1, <1>7, <3>1, <3>2
  <2>2. \A j \in Gap .. k : j = k \/ j \in Gap .. k - 1
    BY <1>1
  <2>3. ~(k <= Gap)
    BY <1>1, <1>7
  <2>4. b.max \in Int /\ Sum(Gap) <= b.max
    BY <1>1, <1>4, <1>7, <2>1
  <2>5. CASE Sum(k) > b.max
    <3> DEFINE v == [sum |-> Sum(k), max |-> Sum(k), last |-> k]
    <3>1. ScanStep(k, b) = v
      BY <1>5, <2>3, <2>5 DEF ScanStep
    <3>2. \A j \in Gap .. k : Sum(j) <= Sum(k)
      <4>1. TAKE j \in Gap .. k
      <4>2. Sum(j) \in Nat
        BY <1>1, <1>2
      <4>3. QED
        BY <1>4, <2>1, <2>2, <2>4, <2>5, <4>2
    <3>3. Sum(k) > Sum(Gap) /\ k \in Gap + 1 .. k
      BY <1>1, <1>4, <1>7, <2>4, <2>5
    <3>4. QED
      BY <1>4, <2>3, <3>1, <3>2, <3>3 DEF ScanRight
  <2>6. CASE ~(Sum(k) > b.max)
    <3> DEFINE v == [b EXCEPT !.sum = Sum(k)]
    <3>1. ScanStep(k, b) = v
      BY <1>5, <2>3, <2>6 DEF ScanStep
    <3>2. v.sum = Sum(k) /\ v.max = b.max /\ v.last = b.last /\ v \in [sum : Int, max : Int, last : Nat]
      BY <1>4
    <3>3. \A j \in Gap .. k : Sum(j) <= b.max
      BY <1>4, <2>1, <2>2, <2>4, <2>6
    <3>4. b.last \in Gap + 1 .. k - 1 => b.last \in Gap + 1 .. k
      BY <1>1
    <3> HIDE DEF v
    <3>5. QED
      BY <2>1, <2>3, <3>1, <3>2, <3>3, <3>4 DEF ScanRight
  <2>7. QED
    BY <2>5, <2>6
<1>8. QED
  BY <1>1, <1>6, <1>7

(* A window after the first that has more packets than it is found, with   *)
(* the most packets, and shown whole, for any log and any width of the     *)
(* window; where the first has the most, nothing is found, and no more     *)
(* than the first PadEnd lines are shown.                                  *)
THEOREM WindowIsBusiest == Spec => []BusiestWindow
<1>1. IInv => BusiestWindow
  <2> SUFFICES ASSUME IInv PROVE BusiestWindow
    OBVIOUS
  <2> DEFINE s == CHOOSE v : Scans(v)
             B == [sum : Int, max : Int, last : Nat]
             S == {k \in Nat : k \in 0 .. Lines => ScanRight(k, s[k]) /\ s[k] \in B}
  <2>1. Scans(s)
    BY ScanExists
  <2>2. Boundary = s[Lines].last
    BY BoundaryIs
  <2> HIDE DEF s
  <2>3. Lines \in Nat /\ Gap \in Nat /\ Gap > 0
    BY LinesCount DEF DelaysAssumption
  <2>4. \A k \in 0 .. Lines : s[k] = IF k = 0 THEN Fresh ELSE ScanStep(k, s[k - 1])
    BY <2>1 DEF Scans
  <2>5. 0 \in S
    <3>1. s[0] = Fresh
      BY <2>3, <2>4
    <3>2. Sum(0) = 0
      BY WindowSlides
    <3>3. QED
      BY <2>3, <3>1, <3>2 DEF ScanRight, Fresh
  <2>6. ASSUME NEW k \in Nat, k \in S PROVE k + 1 \in S
    <3>1. SUFFICES ASSUME k + 1 \in 0 .. Lines
                   PROVE  ScanRight(k + 1, s[k + 1]) /\ s[k + 1] \in B
      OBVIOUS
    <3>2. k \in 0 .. Lines /\ (k + 1) - 1 = k /\ k + 1 \in Nat \ {0} /\ k + 1 # 0
      BY <2>3, <3>1
    <3>3. ScanRight((k + 1) - 1, s[k]) /\ s[k] \in B
      BY <2>6, <3>2
    <3>4. s[k + 1] = ScanStep(k + 1, s[k])
      BY <2>4, <3>1, <3>2
    <3>5. QED
      BY <3>2, <3>3, <3>4, ScanStepRight
  <2>7. Lines \in S
    <3> HIDE DEF S
    <3>1. Nat \subseteq S
      BY <2>5, <2>6, Induct
    <3>2. QED
      BY <2>3, <3>1
  <2> DEFINE v == s[Lines]
  <2>8. ScanRight(Lines, v) /\ v \in B
    BY <2>3, <2>7
  <2>9. Boundary = v.last
    BY <2>2
  <2> HIDE DEF v
  <2>10. \A k \in Nat : Sum(k) \in Nat
    BY WindowSlides
  <2>11. PadStart \in Nat /\ PadEnd \in Nat /\ PadEnd <= PadStart
    BY DEF DelaysAssumption
  <2> DEFINE end == IF Boundary + PadEnd < Lines THEN Boundary + PadEnd ELSE Lines
  <2>12. Zoom(Boundary) = {k \in 1 .. end : k > end - (Gap + PadStart)}
    BY DEF Zoom
  <2>13. CASE \E k \in Gap + 1 .. Lines : Sum(k) > Sum(Gap)
    <3>1. PICK k \in Gap + 1 .. Lines : Sum(k) > Sum(Gap)
      BY <2>13
    <3>2. Lines > Gap /\ k \in Gap .. Lines /\ Sum(k) \in Nat /\ Sum(Gap) \in Nat
      BY <2>3, <2>10, <3>1
    <3>3. /\ \A j \in Gap .. Lines : Sum(j) <= v.max
          /\ \/ Boundary = 0 /\ v.max = Sum(Gap)
             \/ Boundary \in Gap + 1 .. Lines /\ v.max = Sum(Boundary) /\ v.max > Sum(Gap)
      BY <2>8, <2>9, <3>2 DEF ScanRight
    <3>4. v.max # Sum(Gap)
      BY <3>1, <3>2, <3>3
    <3>5. Boundary \in Gap + 1 .. Lines /\ v.max = Sum(Boundary)
      BY <3>3, <3>4
    <3>6. Boundary - Gap + 1 .. Boundary \subseteq Zoom(Boundary)
      <4>1. SUFFICES ASSUME NEW j \in Boundary - Gap + 1 .. Boundary
                     PROVE  j \in 1 .. end /\ j > end - (Gap + PadStart)
        BY <2>12
      <4> HIDE DEF v
      <4>2. QED
        BY <2>3, <2>11, <3>5
    <3>7. QED
      BY <2>13, <3>3, <3>5, <3>6 DEF BusiestWindow
  <2>14. CASE ~ \E k \in Gap + 1 .. Lines : Sum(k) > Sum(Gap)
    <3>1. Boundary = 0
      <4>1. CASE Lines <= Gap
        BY <2>3, <2>8, <2>9, <4>1 DEF ScanRight
      <4>2. CASE Lines > Gap
        <5>1. \/ Boundary = 0
              \/ Boundary \in Gap + 1 .. Lines /\ v.max = Sum(Boundary) /\ v.max > Sum(Gap)
          BY <2>8, <2>9, <4>2 DEF ScanRight
        <5>2. QED
          BY <2>14, <5>1
      <4>3. QED
        BY <2>3, <4>1, <4>2
    <3>2. \A k \in Zoom(Boundary) : k <= PadEnd
      BY <2>3, <2>11, <2>12, <3>1
    <3>3. QED
      BY <2>14, <3>1, <3>2 DEF BusiestWindow
  <2>15. QED
    BY <2>13, <2>14
<1>2. QED
  BY <1>1, Invariant, PTL
=============================================================================
