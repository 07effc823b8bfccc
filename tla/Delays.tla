--------------------------------- MODULE Delays ---------------------------------
(***************************************************************************)
(* What the testbed makes of the log of the driver.  The driver stamps a   *)
(* frame when it joins the transmit queue and again when it is reaped, and *)
(* logs both stamps; the shell functions of lib/madwifi compute from them  *)
(* how long frames waited, how long they took, and how long the queue was; *)
(* process.delays does it for the older driver, and counts how often the   *)
(* clock wrapped.                                                          *)
(*                                                                         *)
(* Times in the state are true times; the programs see stamps, which are   *)
(* below Clock: 2^32 microseconds in the older driver, 2^16 seconds in the *)
(* present one.                                                            *)
(***************************************************************************)
EXTENDS Integers, Sequences, FiniteSets

CONSTANTS
  Clock,       \* the stamps are below this
  Second,      \* a stamp below this is printed with zeros in front
  Octal(_),    \* what bash takes such a stamp for, or -1 if it has an 8 or a 9
  Gap,         \* MADWIFI_DELAY_MAX_SPIKES_GAP: lines of the histogram in a window
  PadStart, PadEnd, \* ..._PEDDING_START, _PEDDING_END: lines shown around it
  MaxFrames,   \* bound of the model: frames of a test
  Span         \* bound of the model: how long a test lasts

ASSUME DelaysAssumption ==
  /\ Clock \in Nat \ {0} /\ Gap \in Nat \ {0} /\ MaxFrames \in Nat /\ Span \in Nat
  /\ PadEnd \in Nat /\ PadStart \in Nat /\ PadEnd <= PadStart

(* The same digits to a smaller base are a smaller number, in the same     *)
(* order.                                                                  *)
ASSUME OctalAssumption ==
  /\ Second \in 1 .. Clock /\ Octal(0) = 0
  /\ \A s \in 0 .. Second - 1 : Octal(s) \in -1 .. s
  /\ \A s, t \in 0 .. Second - 1 : 0 <= Octal(s) /\ 0 <= Octal(t) /\ s < t => Octal(s) < Octal(t)

VARIABLES
  began, now,  \* when the test began, and the present
  queue,       \* the frames in the transmit queue
  log          \* the frames reaped, in the order of the log

vars == <<began, now, queue, log>>

(* A frame: when it was queued, how many it found there, when it was reaped. *)
Queued == [q : Nat, met : Nat]
Reaped == {r \in [q : Nat, met : Nat, a : Nat] : r.q <= r.a}

TypeOK ==
  /\ began \in 0 .. Clock - 1 /\ now \in began .. began + Span
  /\ queue \in Seq(Queued) /\ log \in Seq(Reaped)

Init ==
  /\ began \in 0 .. Clock - 1 /\ now = began
  /\ queue = << >> /\ log = << >>

-----------------------------------------------------------------------------
(* The driver.                                                             *)

Tick ==
  /\ now < began + Span
  /\ now' = now + 1
  /\ UNCHANGED <<began, queue, log>>

(* ath_tx_txqaddbuf, under the queue's lock. *)
Enqueue ==
  /\ Len(queue) + Len(log) < MaxFrames
  /\ queue' = Append(queue, [q |-> now, met |-> Len(queue)])
  /\ UNCHANGED <<began, now, log>>

(* A bug: the time is taken once, before the frames are reaped. *)
ReapStale ==
  /\ queue # << >>
  /\ queue' = Tail(queue)
  /\ log' = Append(log, [q |-> Head(queue).q, met |-> Head(queue).met,
                        a |-> IF log = << >> THEN began ELSE log[Len(log)].a])
  /\ UNCHANGED <<began, now>>

(* ath_tx_processq, which may reap several frames in one unit of time. *)
Reap ==
  /\ queue # << >>
  /\ queue' = Tail(queue)
  /\ log' = Append(log, [q |-> Head(queue).q, met |-> Head(queue).met, a |-> now])
  /\ UNCHANGED <<began, now>>

Next == Tick \/ Enqueue \/ Reap
Spec == Init /\ [][Next]_vars

-----------------------------------------------------------------------------
(* lib/madwifi.  Shell numbers have 64 bits and a sign, and base 8 if they *)
(* begin with a zero, as the stamps of second 0 do: "%lu%06ld".            *)

Stamp(t) == t % Clock
Enq(i) == Stamp(log[i].q)
Ack(i) == Stamp(log[i].a)
PrevAck(i) == IF i = 1 THEN 0 ELSE Ack(i - 1)

Readable(s) == s >= Second \/ Octal(s) >= 0
Read(s) == IF s >= Second THEN s ELSE Octal(s)

(* [[ s -gt t ]], which is false after an error message. *)
Greater(s, t) == Readable(s) /\ Readable(t) /\ Read(s) > Read(t)

(* An error in $(( )) ends the loop: the frames before it have delays. *)
Computed ==
  LET failed == {i \in DOMAIN log : ~Readable(Enq(i)) \/ ~Readable(Ack(i))}
  IN {i \in DOMAIN log : \A j \in failed : i < j}

(* A bug: it does not look at the frame before. *)
MacDelayAlone(i) == Read(Ack(i)) - Read(Enq(i))

(* madwifi_calculate_delays_from_timestamps: from the end of the previous  *)
(* frame, if this one was queued before that.                              *)
MacDelay(i) ==
  Read(Ack(i)) - Read(IF Greater(PrevAck(i), Enq(i)) THEN PrevAck(i) ELSE Enq(i))

(* madwifi_generate_queue_delays_vs_tcp_sequence and                       *)
(* madwifi_calculate_queue_occupancy_vs_queueing_delay.                    *)
QueueDelay(i) ==
  IF Greater(PrevAck(i), Enq(i)) THEN Read(PrevAck(i)) - Read(Enq(i)) ELSE 0

(* A bug: ++queue for queue++, the count after the event. *)
OccupancyAfter(i, plusFirst) ==
  Cardinality({j \in DOMAIN log : Enq(j) < Enq(i) \/ (Enq(j) = Enq(i) /\ j <= i)})
    - Cardinality({j \in DOMAIN log : Ack(j) < Enq(i) \/ (~plusFirst /\ Ack(j) = Enq(i))})

(* madwifi_generate_calculated_queue_in_time_data: the events are sorted   *)
(* by stamp, as decimal numbers, and each line prints the count before it. *)
(* Of equal stamps the locale decides whether "++" comes before "--".      *)
Occupancy(i, plusFirst) ==
  Cardinality({j \in DOMAIN log : Enq(j) < Enq(i) \/ (Enq(j) = Enq(i) /\ j < i)})
    - Cardinality({j \in DOMAIN log : Ack(j) < Enq(i) \/ (~plusFirst /\ Ack(j) = Enq(i))})

(* madwifi_generate_histogram_data_for_delay_frequency: one line for each  *)
(* delay that occurs, in ascending order, with the number of its packets.  *)
DelaysSeen == {MacDelay(i) : i \in Computed}
LineOf ==
  LET seen == DelaysSeen
      Rank(d) == Cardinality({e \in seen : e <= d})
  IN [i \in Computed |-> Rank(MacDelay(i))]
Lines == Cardinality(DelaysSeen)
Packets(k) == LET line == LineOf IN Cardinality({i \in DOMAIN line : line[i] = k})

(* A bug: the line that drops out of the window is the one before it. *)
BoundaryLate ==
  LET scan[k \in 0 .. Lines] ==
        IF k = 0 THEN [sum |-> 0, max |-> 0, last |-> 0]
        ELSE LET b == scan[k - 1] IN
             IF k <= Gap
             THEN LET s == b.sum + Packets(k) IN [sum |-> s, max |-> s, last |-> 0]
             ELSE LET s == b.sum - Packets(k - Gap - 1) + Packets(k) IN
                  IF s > b.max THEN [sum |-> s, max |-> s, last |-> k]
                  ELSE [b EXCEPT !.sum = s]
  IN scan[Lines].last

(* madwifi_find_boundry_of_delay: the last line of the window of Gap lines *)
(* with the most packets, or 0, nothing, if that is the first window.      *)
Boundary ==
  LET scan[k \in 0 .. Lines] ==
        IF k = 0 THEN [sum |-> 0, max |-> 0, last |-> 0]
        ELSE LET b == scan[k - 1] IN
             IF k <= Gap
             THEN LET s == b.sum + Packets(k) IN [sum |-> s, max |-> s, last |-> 0]
             ELSE LET s == b.sum - Packets(k - Gap) + Packets(k) IN
                  IF s > b.max THEN [sum |-> s, max |-> s, last |-> k]
                  ELSE [b EXCEPT !.sum = s]
  IN scan[Lines].last

(* madwifi_generate_delay_histogram_zoom_datafile: head to a few lines     *)
(* after that one, tail to the window and some lines before it.            *)
Zoom(boundary) ==
  LET end == IF boundary + PadEnd < Lines THEN boundary + PadEnd ELSE Lines
  IN {k \in 1 .. end : k > end - (Gap + PadStart)}

-----------------------------------------------------------------------------
(* process.delays, whose numbers are unsigned and wrap with the clock.     *)

(* A bug: the numbers have a sign. *)
ServiceDelaySigned(i) ==
  IF Enq(i) >= Ack(i - 1) THEN Ack(i) - Enq(i) ELSE Ack(i) - Ack(i - 1)

(* The delay of every frame but the first. *)
ServiceDelay(i) ==
  (Ack(i) - (IF Enq(i) >= Ack(i - 1) THEN Enq(i) ELSE Ack(i - 1))) % Clock

(* A bug: it compares with the start all the time. *)
WrapsFromStart ==
  Cardinality({i \in DOMAIN log : Enq(i) < Enq(1)})

(* time_wrap_counter: frames queued below the first one since the last wrap. *)
Wraps ==
  LET w[i \in 0 .. Len(log)] ==
        IF i <= 1 THEN [n |-> 0, last |-> IF log = << >> THEN 0 ELSE Enq(1)]
        ELSE IF Enq(i) < w[i - 1].last THEN [n |-> w[i - 1].n + 1, last |-> Enq(i)]
        ELSE w[i - 1]
  IN w[Len(log)].n

(* run_time; WRAP_TIME is one less than the range of the clock. *)
RunTime == Ack(Len(log)) - Enq(1) + Wraps * (Clock - 1)

-----------------------------------------------------------------------------
(* What should come out.                                                   *)

Frames == DOMAIN log
Later(s, t) == IF s > t THEN s ELSE t
Before(i) == IF i = 1 THEN 0 ELSE log[i - 1].a
Took(i) == log[i].a - Later(log[i].q, Before(i))
Waited(i) == Later(0, Before(i) - log[i].q)
Period(t) == t \div Clock

(* The last times of a frame lie within one turn of the clock.             *)
OneTurn(i) == log[i].a < log[i].q + Clock /\ (i > 1 => log[i].a < log[i - 1].a + Clock)

(* A stamp the delay is computed from is of second 0.                      *)
SecondZero(i) ==
  Enq(i) < Second \/ Ack(i) < Second \/ (i > 1 /\ PrevAck(i) < Second)
Almost(x, y) == x - y \in 1 - Second .. Second - 1

(* A wrap of the clock makes a wrong delay that looks like a right one in  *)
(* one way only.  Unless the histogram would say "Delay value is           *)
(* negative", the time the frame took is right, and so is the time it      *)
(* waited, which other functions plot without a look at the former -       *)
(* except in the second after the wrap, whose stamps bash misreads: there, *)
(* so far as the loop gets, both are off, by less than a second.           *)
RightOrNegative ==
  \A i \in Frames : OneTurn(i) =>
    \/ MacDelay(i) = Took(i) /\ QueueDelay(i) = Waited(i)
    \/ MacDelay(i) < 0
    \/ /\ SecondZero(i)
       /\ i \in Computed => Almost(MacDelay(i), Took(i)) /\ Almost(QueueDelay(i), Waited(i))

(* process.delays never makes a frame faster than it was; and it is right  *)
(* across a wrap, but for a frame queued on the other side of it than the  *)
(* end of the frame before.                                                *)
NeverTooFast ==
  \A i \in Frames \ {1} : OneTurn(i) =>
    \/ ServiceDelay(i) = Took(i)
    \/ ServiceDelay(i) > Took(i) /\ Period(log[i].q) # Period(log[i - 1].a)

(* The queue that is computed from the frames that left it is the queue    *)
(* each of them found, in either order of the events of one unit of time   *)
(* up to the frames reaped in it, unless the clock wrapped during the test. *)
OccupancyTrue ==
  (\A i \in Frames : Period(log[i].a) = Period(log[1].q)) =>
    \A i \in Frames, plusFirst \in BOOLEAN :
      LET same == Cardinality({j \in Frames : log[j].a = log[i].q}) IN
      Occupancy(i, plusFirst) \in IF plusFirst THEN log[i].met .. log[i].met + same
                                  ELSE log[i].met - same .. log[i].met

(* A window after the first that has more packets than it is found, and    *)
(* then one with the most: the plot shows the whole of it.  The first      *)
(* window is never found: where it has the most packets, the plot shows    *)
(* the first PadEnd lines.                                                 *)
Sum(k) ==
  LET line == LineOf IN Cardinality({i \in DOMAIN line : line[i] \in k - Gap + 1 .. k})
BusiestWindow ==
  LET found == Boundary IN
  IF \E k \in Gap + 1 .. Lines : Sum(k) > Sum(Gap)
  THEN /\ found \in Gap + 1 .. Lines
       /\ \A k \in Gap .. Lines : Sum(k) <= Sum(found)
       /\ found - Gap + 1 .. found \subseteq Zoom(found)
  ELSE found = 0 /\ \A k \in Zoom(found) : k <= PadEnd

(* "find the 640 (32*20 usec) slots in delay file that have the most       *)
(* packets": whichever they are.                                           *)
FindsBusiest ==
  Lines >= Gap =>
    Boundary \in Gap .. Lines /\ \A k \in Gap .. Lines : Sum(k) <= Sum(Boundary)

(* The run time is never longer than the time from the first stamp to the  *)
(* last; and in a test within one turn of the clock it is that time, less  *)
(* one unit for a wrap - if the last frame was not still queued then.      *)
RunTimeRight ==
  LET n == Len(log)
      first == log[1].q
      last == log[n].a IN
  n > 0 =>
    /\ RunTime <= last - first
    /\ last < first + Clock /\ Period(log[n].q) = Period(last)
         => RunTime = last - first - (Period(last) - Period(first))

(* "Need to watch for wrap around time for long runs": every wrap between  *)
(* two frames is counted.                                                  *)
WrapsWatched ==
  LET n == Len(log) IN
  n > 0 => Wraps = Period(log[n].q) - Period(log[1].q)
=============================================================================
