-------------------------------- MODULE AthTx --------------------------------
(***************************************************************************)
(* The transmit path of the instrumented MadWifi driver (if_ath.c), in the *)
(* build its Makefile makes for the experiments: QUEUE_SIZE, TIMING_INFO   *)
(* and MADWIFI_TCP_INFO defined, ATH_SUPERG_FF not.                        *)
(*                                                                         *)
(* A transmit buffer moves between lists: the free pool sc_txbuf, the      *)
(* hardware queues, and the lists in the hands of ath_hardstart, of        *)
(* ath_mgtstart, of the transmit tasklet and of ath_reset.  Those four run *)
(* concurrently and meet only under the spinlocks, so each critical        *)
(* section is one step.  Every frame holds a reference to its node.        *)
(***************************************************************************)
EXTENDS Integers, Sequences, FiniteSets

CONSTANTS
  Bufs,        \* the transmit buffers (ATH_TXBUF of them)
  Packets,     \* the kinds of data packets the 802.11 layer sends
  Mgmts,       \* the kinds of frames ath_mgtstart sends: management, null data
  NoFrame,     \* "no frame": a free buffer, or no sequence number yet
  Frags(_),    \* how many frames a packet is fragmented into
  Queue(_),    \* the hardware queue ath_tx_start chooses for a frame
  Tcp(_),      \* whether the frame's skb has a transport header
  StartErrors, \* which calls of ath_tx_start may fail
  TailDrop,    \* TAIL_DROP_COUNT
  FreeThreshold, \* ATH_TXBUF_FREE_THRESHOLD
  MaxRefs      \* bound of the model: packets are sent below this many references

Queues == {"BE", "VI", "VO"}
Lists == Queues \cup {"pool", "sender", "mgmt", "tasklet", "reset"}
Frames == Packets \cup Mgmts

ASSUME FrameAssumption ==
  /\ Packets # {} /\ NoFrame \notin Frames /\ Packets \cap Mgmts = {}
  /\ \A p \in Packets : Frags(p) \in Nat \ {0} /\ Queue(p) \in {"BE", "VI"}
  /\ \A m \in Mgmts : Queue(m) \in Queues
  /\ \A f \in Frames : Tcp(f) \in BOOLEAN
ASSUME ParameterAssumption ==
  /\ StartErrors \subseteq {"single", "fragment", "mgmt"}
  /\ TailDrop \in Nat /\ FreeThreshold \in Nat /\ MaxRefs \in Nat
  /\ IsFiniteSet(Bufs)

VARIABLES
  list,        \* the buffers on each list, first one first
  frame,       \* the frame in each buffer (bf_skb)
  refs,        \* references to the node the frames are for
  done,        \* how many frames at the head of a queue the hardware finished
  intr,        \* the queues with a transmit interrupt not yet looked at
  sched,       \* the transmit tasklet is scheduled
  stopped,     \* netif_stop_queue: the kernel sends no packet
  devstopped, reaped, \* sc_devstopped, sc_reapcount
  spc, pkt, left,     \* ath_hardstart: where, which packet, frames to start
  mpc,         \* ath_mgtstart: where
  tpc, tq, seq,       \* tasklet: where, which queue, tcp_seq
  rpc, rq      \* ath_reset: where, which queue

senderVars == <<spc, pkt, left>>
taskletVars == <<tpc, tq, seq>>
resetVars == <<rpc, rq>>
flowVars == <<stopped, devstopped, reaped>>
hwVars == <<done, intr>>
vars == <<list, frame, refs, done, intr, sched, stopped, devstopped, reaped,
          spc, pkt, left, mpc, tpc, tq, seq, rpc, rq>>

Order == <<"BE", "VI", "VO">>

(* The types of the buffers' state, of what sends and of what reaps; the   *)
(* frames the hardware has finished of a queue are on that queue.          *)
BufferTypes ==
  /\ list \in [Lists -> Seq(Bufs)]
  /\ frame \in [Bufs -> Frames \cup {NoFrame}]
  /\ refs \in Int
  /\ done \in [Queues -> Nat] /\ \A q \in Queues : done[q] <= Len(list[q])
HostTypes ==
  /\ intr \subseteq Queues
  /\ sched \in BOOLEAN /\ stopped \in BOOLEAN /\ devstopped \in BOOLEAN
  /\ reaped \in Nat
  /\ spc \in {"idle", "check", "requeued", "get", "encap", "alloc", "start",
              "fail", "panic"}
  /\ pkt \in Packets \cup {NoFrame} /\ left \in Nat
  /\ mpc \in {"idle", "start"}
ReapTypes ==
  /\ tpc \in {"idle", "queue", "reap", "free", "put"} /\ tq \in 1 .. 4
  /\ seq \in Frames \cup {NoFrame}
  /\ rpc \in {"idle", "drain", "free"} /\ rq \in 1 .. 4
TypeOK == BufferTypes /\ HostTypes /\ ReapTypes

Once(s) == \A i, j \in DOMAIN s : s[i] = s[j] => i = j
Apart(s, t) == \A i \in DOMAIN s, j \in DOMAIN t : s[i] # t[j]
On(b, s) == \E i \in DOMAIN s : s[i] = b

(* ath_desc_alloc has put every buffer into the pool. *)
Init ==
  /\ \E pool \in [1 .. Cardinality(Bufs) -> Bufs] :
       /\ Once(pool) /\ \A b \in Bufs : On(b, pool)
       /\ list = [l \in Lists |-> IF l = "pool" THEN pool ELSE << >>]
  /\ frame = [b \in Bufs |-> NoFrame]
  /\ refs = 0
  /\ done = [q \in Queues |-> 0] /\ intr = {}
  /\ sched = FALSE /\ stopped = FALSE /\ devstopped = FALSE /\ reaped = 0
  /\ spc = "idle" /\ pkt = NoFrame /\ left = 0
  /\ mpc = "idle"
  /\ tpc = "idle" /\ tq = 1 /\ seq = NoFrame
  /\ rpc = "idle" /\ rq = 1

-----------------------------------------------------------------------------
(* Lists.                                                                  *)

(* STAILQ_REMOVE_HEAD from one list and STAILQ_INSERT_TAIL on another. *)
Move(from, to) ==
  list' = [list EXCEPT ![from] = Tail(@), ![to] = Append(@, Head(list[from]))]

SetFrame(b, f) == frame' = [frame EXCEPT ![b] = f]

(* A bug: the queue is stopped and the tasklet is not scheduled. *)
StopUnscheduled(pool) ==
  IF pool = << >>
  THEN stopped' = TRUE /\ devstopped' = TRUE /\ UNCHANGED sched
  ELSE UNCHANGED <<stopped, devstopped, sched>>

(* The pool is found empty after a buffer was, or could not be, taken: stop *)
(* the queue and have the tasklet look for buffers to reap.                *)
StopIfEmpty(pool) ==
  IF pool = << >>
  THEN stopped' = TRUE /\ devstopped' = TRUE /\ sched' = TRUE
  ELSE UNCHANGED <<stopped, devstopped, sched>>

-----------------------------------------------------------------------------
(* ath_hardstart.  The kernel serialises its calls; a packet comes with a  *)
(* reference to its node, taken by the 802.11 layer.                       *)

Xmit(p) ==
  /\ spc = "idle" /\ ~stopped /\ refs < MaxRefs
  /\ spc' = "check" /\ pkt' = p /\ refs' = refs + 1
  /\ UNCHANGED <<list, frame, hwVars, sched, flowVars, left, mpc, taskletVars, resetVars>>

(* NETDEV_TX_BUSY: the kernel keeps the packet and offers it again. *)
Retry ==
  /\ spc = "requeued" /\ ~stopped
  /\ spc' = "check"
  /\ UNCHANGED <<list, frame, refs, hwVars, sched, flowVars, pkt, left, mpc, taskletVars,
                 resetVars>>

(* A bug: no tail drop. *)
CheckLoosely ==
  /\ spc = "check"
  /\ spc' = "get"
  /\ UNCHANGED <<list, frame, refs, hwVars, sched, flowVars, pkt, left, mpc, taskletVars,
                 resetVars>>

(* The depth of the video queue is read without its lock. *)
CheckDepth ==
  /\ spc = "check"
  /\ spc' = IF Len(list["VI"]) > TailDrop THEN "requeued" ELSE "get"
  /\ UNCHANGED <<list, frame, refs, hwVars, sched, flowVars, pkt, left, mpc, taskletVars,
                 resetVars>>

(* ATH_HARDSTART_GET_TX_BUF_WITH_LOCK puts the buffer on bf_head itself. *)
GetBuf ==
  /\ spc = "get"
  /\ IF list["pool"] # << >> THEN Move("pool", "sender") ELSE UNCHANGED list
  /\ StopIfEmpty(list'["pool"])
  /\ spc' = "encap"
  /\ UNCHANGED <<frame, refs, hwVars, reaped, pkt, left, mpc, taskletVars, resetVars>>

Encap ==
  /\ spc = "encap"
  /\ \/ spc' = "fail" /\ UNCHANGED left
     \/ spc' = (IF Frags(pkt) > 1 THEN "alloc" ELSE "start") /\ left' = Frags(pkt)
  /\ UNCHANGED <<list, frame, refs, hwVars, sched, flowVars, pkt, mpc, taskletVars, resetVars>>

(* A bug: no node reference for the further fragments. *)
AllocUnreferenced ==
  LET n == Frags(pkt) - 1
      pool == list["pool"] IN
  /\ spc = "alloc" /\ Len(pool) >= n
  /\ list' = [list EXCEPT !["sender"] = @ \o SubSeq(pool, 1, n),
                          !["pool"] = SubSeq(pool, n + 1, Len(pool))]
  /\ spc' = "start"
  /\ UNCHANGED <<frame, refs, hwVars, sched, flowVars, pkt, left, mpc, taskletVars, resetVars>>

(* One more buffer, and one more node reference, for each further fragment. *)
AllocFrags ==
  LET n == Frags(pkt) - 1
      pool == list["pool"] IN
  /\ spc = "alloc" /\ Len(pool) >= n
  /\ list' = [list EXCEPT !["sender"] = @ \o SubSeq(pool, 1, n),
                          !["pool"] = SubSeq(pool, n + 1, Len(pool))]
  /\ refs' = refs + n
  /\ spc' = "start"
  /\ UNCHANGED <<frame, hwVars, sched, flowVars, pkt, left, mpc, taskletVars, resetVars>>

(* Too few buffers: they all go back to the pool, the references taken for *)
(* them stay, and hardstart_fail finds bf_head empty.                      *)
AllocShort ==
  LET pool == list["pool"] IN
  /\ spc = "alloc" /\ Len(pool) < Frags(pkt) - 1
  /\ list' = [list EXCEPT !["pool"] = list["sender"] \o pool, !["sender"] = << >>]
  /\ refs' = refs + Len(pool)
  /\ spc' = "fail"
  /\ UNCHANGED <<frame, hwVars, sched, flowVars, pkt, left, mpc, taskletVars, resetVars>>

(* ath_tx_start with ath_tx_txqaddbuf; on bf = NULL it is an oops. *)
StartFrame ==
  /\ spc = "start" /\ left > 0 /\ list["sender"] # << >>
  /\ SetFrame(Head(list["sender"]), pkt)
  /\ Move("sender", Queue(pkt))
  /\ left' = left - 1
  /\ UNCHANGED <<refs, hwVars, sched, flowVars, spc, pkt, mpc, taskletVars, resetVars>>

StartNull ==
  /\ spc = "start" /\ Frags(pkt) = 1 /\ left = 1 /\ list["sender"] = << >>
  /\ spc' = "panic"
  /\ UNCHANGED <<list, frame, refs, hwVars, sched, flowVars, pkt, left, mpc, taskletVars,
                 resetVars>>

(* All frames started, or no buffer left for the next. *)
Started ==
  /\ spc = "start" /\ (left = 0 \/ (list["sender"] = << >> /\ Frags(pkt) > 1))
  /\ spc' = "idle" /\ pkt' = NoFrame /\ left' = 0
  /\ UNCHANGED <<list, frame, refs, hwVars, sched, flowVars, mpc, taskletVars, resetVars>>

(* A bug: a buffer that has left bf_head is not taken off it. *)
StartFailsKept ==
  LET bufs == list["sender"] IN
  /\ spc = "start" /\ left > 0 /\ bufs # << >>
  /\ (IF Frags(pkt) = 1 THEN "single" ELSE "fragment") \in StartErrors
  /\ list' = [list EXCEPT !["sender"] = Append(bufs, Head(bufs))]
  /\ spc' = "fail"
  /\ UNCHANGED <<frame, refs, hwVars, sched, flowVars, pkt, left, mpc, taskletVars, resetVars>>

(* The buffer goes (back) to the tail of bf_head.  That of an unfragmented *)
(* packet has never left it, so it is then on bf_head twice.               *)
StartFails ==
  LET single == Frags(pkt) = 1
      bufs == list["sender"] IN
  /\ spc = "start" /\ left > 0 /\ bufs # << >>
  /\ (IF single THEN "single" ELSE "fragment") \in StartErrors
  /\ list' = [list EXCEPT !["sender"] =
                Append(IF single THEN bufs ELSE Tail(bufs), Head(bufs))]
  /\ spc' = "fail"
  /\ UNCHANGED <<frame, refs, hwVars, sched, flowVars, pkt, left, mpc, taskletVars, resetVars>>

(* hardstart_fail: a reference and a buffer for every element of bf_head. *)
HardstartFail ==
  LET bufs == list["sender"] IN
  /\ spc = "fail"
  /\ list' = [list EXCEPT !["pool"] = @ \o bufs, !["sender"] = << >>]
  /\ frame' = [b \in Bufs |-> IF On(b, bufs) THEN NoFrame ELSE frame[b]]
  /\ refs' = refs - Len(bufs)
  /\ spc' = "idle" /\ pkt' = NoFrame /\ left' = 0
  /\ UNCHANGED <<hwVars, sched, flowVars, mpc, taskletVars, resetVars>>

-----------------------------------------------------------------------------
(* ath_mgtstart: a management or null data frame, in interrupt context,    *)
(* without regard to the stopped queue or to the depth of the one it joins *)
(* (VI for null data, VO or, without QoS, BE for the others).  With no     *)
(* buffer the frame is dropped, and with it the reference in its control   *)
(* block.                                                                  *)

MgtStart ==
  /\ mpc = "idle" /\ refs < MaxRefs
  /\ refs' = refs + 1
  /\ IF list["pool"] # << >>
     THEN Move("pool", "mgmt") /\ mpc' = "start"
     ELSE UNCHANGED <<list, mpc>>
  /\ StopIfEmpty(list'["pool"])
  /\ UNCHANGED <<frame, hwVars, reaped, senderVars, taskletVars, resetVars>>

MgtSend ==
  /\ mpc = "start"
  /\ \E m \in Mgmts : SetFrame(Head(list["mgmt"]), m) /\ Move("mgmt", Queue(m))
  /\ mpc' = "idle"
  /\ UNCHANGED <<refs, hwVars, sched, flowVars, senderVars, taskletVars, resetVars>>

MgtFails ==
  /\ mpc = "start" /\ "mgmt" \in StartErrors
  /\ Move("mgmt", "pool")
  /\ refs' = refs - 1
  /\ mpc' = "idle"
  /\ UNCHANGED <<frame, hwVars, sched, flowVars, senderVars, taskletVars, resetVars>>

-----------------------------------------------------------------------------
(* The hardware (external): it finishes the frames of a queue in order     *)
(* and, as TIMING_INFO asks for it on every descriptor, interrupts for     *)
(* each; the interrupt handler schedules the tasklet.  From the stop of    *)
(* its DMA to the end of a reset it finishes nothing.                      *)

(* A bug: a frame is finished without an interrupt. *)
HwDoneQuietly(q) ==
  /\ rpc = "idle" /\ done[q] < Len(list[q])
  /\ done' = [done EXCEPT ![q] = @ + 1]
  /\ UNCHANGED <<list, frame, refs, intr, sched, flowVars, senderVars, mpc, taskletVars, resetVars>>

HwDone(q) ==
  /\ rpc = "idle" /\ done[q] < Len(list[q])
  /\ done' = [done EXCEPT ![q] = @ + 1]
  /\ intr' = intr \cup {q}
  /\ sched' = TRUE
  /\ UNCHANGED <<list, frame, refs, flowVars, senderVars, mpc, taskletVars, resetVars>>

-----------------------------------------------------------------------------
(* The transmit tasklet.                                                   *)

TxStart ==
  /\ tpc = "idle" /\ sched
  /\ sched' = FALSE
  /\ tpc' = "queue" /\ tq' = 1
  /\ UNCHANGED <<list, frame, refs, hwVars, flowVars, senderVars, mpc, seq, resetVars>>

(* txqactive asks, and clears, the interrupt status of the queue. *)
TxQueue ==
  /\ tpc = "queue" /\ tq <= Len(Order)
  /\ intr' = intr \ {Order[tq]}
  /\ IF Order[tq] \in intr
     THEN tpc' = "reap" /\ seq' = NoFrame /\ UNCHANGED tq
     ELSE tq' = tq + 1 /\ UNCHANGED <<tpc, seq>>
  /\ UNCHANGED <<list, frame, refs, done, sched, flowVars, senderVars, mpc, resetVars>>

(* Under the queue's lock the finished frame is taken off; its TCP sequence *)
(* number is read if its skb has a transport header.                       *)
TxReap ==
  LET q == Order[tq]
      b == Head(list[q]) IN
  /\ tpc = "reap"
  /\ IF done[q] > 0
     THEN /\ Move(q, "tasklet")
          /\ done' = [done EXCEPT ![q] = @ - 1]
          /\ seq' = IF Tcp(frame[b]) THEN frame[b] ELSE seq
          /\ tpc' = "free" /\ UNCHANGED tq
     ELSE /\ tpc' = "queue" /\ tq' = tq + 1
          /\ UNCHANGED <<list, done, seq>>
  /\ UNCHANGED <<frame, refs, intr, sched, flowVars, senderVars, mpc, resetVars>>

(* The log line is printed and the node released. *)
TxFree ==
  /\ tpc = "free"
  /\ refs' = refs - 1
  /\ SetFrame(list["tasklet"][1], NoFrame)
  /\ tpc' = "put"
  /\ UNCHANGED <<list, hwVars, sched, flowVars, senderVars, mpc, tq, seq, resetVars>>

(* Under the pool's lock: a stopped queue restarts after enough buffers. *)
TxPut ==
  /\ tpc = "put"
  /\ Move("tasklet", "pool")
  /\ IF ~devstopped
     THEN UNCHANGED <<flowVars, sched>>
     ELSE IF reaped + 1 > FreeThreshold
     THEN stopped' = FALSE /\ devstopped' = FALSE /\ reaped' = 0 /\ UNCHANGED sched
     ELSE reaped' = reaped + 1 /\ sched' = TRUE /\ UNCHANGED <<stopped, devstopped>>
  /\ tpc' = "reap"
  /\ UNCHANGED <<frame, refs, hwVars, senderVars, mpc, tq, seq, resetVars>>

(* netif_wake_queue, whether or not there are buffers. *)
TxWake ==
  /\ tpc = "queue" /\ tq > Len(Order)
  /\ stopped' = FALSE
  /\ tpc' = "idle" /\ tq' = 1 /\ seq' = NoFrame
  /\ UNCHANGED <<list, frame, refs, hwVars, sched, devstopped, reaped, senderVars, mpc, resetVars>>

-----------------------------------------------------------------------------
(* ath_reset, from the watchdog or an ioctl: DMA and interrupts are off, a *)
(* running tasklet is not waited for.                                      *)

(* What the hardware has finished stays finished: the status is in the     *)
(* descriptors, where the tasklet and the drain race for the frames.       *)
ResetStart ==
  /\ rpc = "idle"
  /\ stopped' = FALSE
  /\ rpc' = "drain" /\ rq' = 1
  /\ UNCHANGED <<list, frame, refs, hwVars, sched, devstopped, reaped, senderVars, mpc,
                 taskletVars>>

(* A bug: a finished frame is taken from the tasklet's head of the queue   *)
(* and still counts as finished.                                           *)
DrainUncounted ==
  LET q == Order[rq] IN
  /\ rpc = "drain" /\ rq <= Len(Order)
  /\ IF list[q] # << >>
     THEN Move(q, "reset") /\ rpc' = "free" /\ UNCHANGED rq
     ELSE rq' = rq + 1 /\ UNCHANGED <<list, rpc>>
  /\ UNCHANGED <<frame, refs, hwVars, sched, flowVars, senderVars, mpc, taskletVars>>

(* The head of the queue, finished or not, under the queue's lock. *)
Drain ==
  LET q == Order[rq] IN
  /\ rpc = "drain" /\ rq <= Len(Order)
  /\ IF list[q] # << >>
     THEN /\ Move(q, "reset")
          /\ done' = [done EXCEPT ![q] = IF @ > 0 THEN @ - 1 ELSE 0]
          /\ rpc' = "free" /\ UNCHANGED rq
     ELSE rq' = rq + 1 /\ UNCHANGED <<list, done, rpc>>
  /\ UNCHANGED <<frame, refs, intr, sched, flowVars, senderVars, mpc, taskletVars>>

DrainFree ==
  /\ rpc = "free"
  /\ refs' = refs - 1
  /\ SetFrame(list["reset"][1], NoFrame)
  /\ Move("reset", "pool")
  /\ rpc' = "drain"
  /\ UNCHANGED <<hwVars, sched, flowVars, senderVars, mpc, taskletVars, rq>>

ResetWake ==
  /\ rpc = "drain" /\ rq > Len(Order)
  /\ stopped' = FALSE
  /\ rpc' = "idle" /\ rq' = 1
  /\ UNCHANGED <<list, frame, refs, hwVars, sched, devstopped, reaped, senderVars, mpc, taskletVars>>

-----------------------------------------------------------------------------
Sender == Retry \/ CheckDepth \/ GetBuf \/ Encap \/ AllocFrags \/ AllocShort \/ StartFrame
            \/ StartNull \/ Started \/ StartFails \/ HardstartFail
Tasklet == TxStart \/ TxQueue \/ TxReap \/ TxFree \/ TxPut \/ TxWake
Reset == Drain \/ DrainFree \/ ResetWake

(* A panic stops the machine. *)
Next ==
  /\ spc # "panic"
  /\ \/ \E p \in Packets : Xmit(p)
     \/ Sender \/ MgtStart \/ MgtSend \/ MgtFails
     \/ \E q \in Queues : HwDone(q)
     \/ Tasklet \/ ResetStart \/ Reset

Spec == Init /\ [][Next]_vars

(* Softirqs run to their end and a scheduled tasklet runs; the hardware    *)
(* finishes what it is given.  Nobody has to send, and resets may stop.    *)
FairSpec ==
  /\ Spec
  /\ WF_vars(Tasklet /\ spc # "panic")
  /\ WF_vars(Reset /\ spc # "panic")
  /\ \A q \in Queues : WF_vars(HwDone(q) /\ spc # "panic")

-----------------------------------------------------------------------------
(* What must hold.                                                         *)

(* No transmit buffer is lost or duplicated, whoever of the sender, the    *)
(* interrupts, the tasklet and a reset handles it: each is on one list, at *)
(* one place of it.                                                        *)
Conserved(L) ==
  /\ \A l \in Lists : Once(L[l])
  /\ \A l, m \in Lists : l # m => Apart(L[l], L[m])
  /\ \A b \in Bufs : \E l \in Lists : On(b, L[l])
BuffersConserved == Conserved(list)

(* Every frame the driver still has holds a reference: the node a queued   *)
(* frame points at is never freed before the frame is.                     *)
Min2(a, b) == IF a <= b THEN a ELSE b
SenderRefs ==
  CASE spc \in {"check", "requeued", "get", "encap", "alloc"} -> 1
    [] spc \in {"start", "panic"} -> Min2(left, Len(list["sender"]))
    [] spc = "fail" -> Len(list["sender"])
    [] OTHER -> 0
OtherRefs ==
  Len(list["BE"]) + Len(list["VI"]) + Len(list["VO"])
    + Len(list["mgmt"]) + Len(list["reset"]) + (IF tpc = "free" THEN 1 ELSE 0)
RefsCover == refs >= SenderRefs + OtherRefs

(* The tail drop bounds the packets in the video queue: it never holds     *)
(* more than the fragments of one packet beyond TAIL_DROP_COUNT, although  *)
(* its depth is read without the lock.  Null data frames come on top.      *)
PacketDepth == Cardinality({i \in DOMAIN list["VI"] : frame[list["VI"][i]] \in Packets})
DepthBounded == \E p \in Packets : PacketDepth <= TailDrop + Frags(p)

(* "maximum number of queued frames allowed". *)
WithinTailDrop == Len(list["VI"]) <= TailDrop

(* "NB: should not happen": a packet is sent on with a buffer. *)
BufferThere == spc = "encap" => list["sender"] # << >>

(* "we get the sequence and ack number of the tcp packet": a log line has  *)
(* the sequence number of its own frame, or none.                          *)
OwnSequence ==
  tpc = "free" => seq \in {NoFrame, frame[list["tasklet"][1]]}

(* A stopped queue is restarted: stopping it schedules the tasklet.        *)
QueueRestarts == stopped ~> (~stopped \/ spc = "panic")

(* When the senders have gone quiet every queued frame is reaped or        *)
(* drained: no finished frame is forgotten between the tasklet's looks at  *)
(* the interrupt status, or between a reset and the tasklet.               *)
QueuesDrain ==
  <>[](spc = "idle" /\ mpc = "idle") => []<>(\A q \in Queues : list[q] = << >>)
=============================================================================
