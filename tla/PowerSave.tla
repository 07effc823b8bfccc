------------------------------- MODULE PowerSave -------------------------------
(***************************************************************************)
(* Power save in an access point of the MadWifi 802.11 layer: the frames   *)
(* saved for sleeping stations, the TIM bitmap of the beacon that tells    *)
(* the stations of them, and the life of the nodes the frames refer to     *)
(* (ieee80211_power.c, and the parts of ieee80211_output.c, _input.c,      *)
(* _node.c and _wireless.c that meet there).                               *)
(*                                                                         *)
(* The output path, the receive tasklet, the inactivity timer and ioctls   *)
(* run concurrently, as the locks of the code expect.  A section under the *)
(* lock of a node's queue, of the 802.11 layer or of the node table is one *)
(* step; so is a lone access outside the locks.  iv_ps_sta, which has no   *)
(* lock, is read and written in two steps.                                 *)
(*                                                                         *)
(* Three defects of the code destroy the state they meet: a node released   *)
(* while it is still used, a node that is left twice, and an update of      *)
(* iv_ps_sta that is lost.  The model runs up to the first of them, and     *)
(* records it in fault.                                                     *)
(***************************************************************************)
EXTENDS Integers, Sequences, FiniteSets, FiniteSetsExt

CONSTANTS
  Nodes,       \* memory for nodes
  NoNode,      \* "no node": who an idle handler works for
  MaxAid,      \* iv_max_aid: association ids are below it
  MaxQueue,    \* IEEE80211_PS_MAX_QUEUE
  Lifetimes,   \* how long a frame is kept, by the station's listen interval
  Wait,        \* IEEE80211_INACT_WAIT, in the same unit
  AgeMod,      \* skb_age is csum_offset, an unsigned number below this
  Ioctls,      \* processes in an ioctl that makes a station leave
  MaxRefs      \* bound of the model: nodes are looked up below this many references

Handlers == {"rx", "timer"} \cup Ioctls
Aids == 1 .. MaxAid - 1

(* Where a handler is: what it found the node for, and the places of the   *)
(* code in which it leaves a node, or holds the lock of the node table.    *)
RxJobs == {"poll", "sleep", "wake", "assoc", "leave"}
Leaving == {"unlist", "cleanup", "cleaned", "drain", "drained", "forget", "reclaim"}
TimerHolds == {"check", "timclear", "probe", "expire"}
Places == {"idle", "put", "slept", "woken", "flush", "clear"}
            \cup RxJobs \cup Leaving \cup TimerHolds

ASSUME PowerSaveAssumption ==
  /\ MaxAid \in Nat \ {0} /\ MaxQueue \in Nat \ {0} /\ MaxRefs \in Nat
  /\ AgeMod \in Nat \ {0} /\ Wait \in Nat \ {0}
  /\ Lifetimes # {} /\ Lifetimes \subseteq 0 .. AgeMod - 1
  /\ IsFiniteSet(Nodes) /\ NoNode \notin Nodes
  /\ IsFiniteSet(Ioctls) /\ Ioctls \cap {"rx", "timer"} = {}

VARIABLES
  node,        \* the nodes: where, association, power state, saved frames, references
  tim,         \* iv_tim_bitmap, as the set of the bits that are set
  pending,     \* iv_ps_pending
  aids,        \* iv_aid_bitmap
  psSta,       \* iv_ps_sta
  opc, onode,  \* ieee80211_hardstart: where, for which node
  pc, who,     \* per handler: where, for which node
  reg,         \* per handler: the value of iv_ps_sta it has read
  locked,      \* the timer holds the lock of the node table
  fault        \* the defect that ended the run

output == <<opc, onode>>
handler == <<pc, who, reg>>
bss == <<tim, pending, aids, psSta>>
vars == <<node, bss, output, handler, locked, fault>>

(* A saved frame: its age field, and how many passes of the timer it saw.  *)
Frame == [age : 0 .. AgeMod - 1, passes : Nat]
(* "sent" counts the frames handed to the driver and not yet released.     *)
Node == [st : {"free", "table", "gone"}, aid : 0 .. MaxAid - 1, life : Lifetimes,
         pwr : BOOLEAN, saved : Seq(Frame), refs : Int, sent : Nat]

TypeOK ==
  /\ node \in [Nodes -> Node]
  /\ tim \subseteq 0 .. MaxAid - 1 /\ aids \subseteq Aids
  /\ pending \in Int /\ psSta \in Int
  /\ opc \in {"idle", "test", "save", "tim"}
  /\ onode \in Nodes \cup {NoNode}
  /\ pc \in [Handlers -> Places]
  /\ who \in [Handlers -> Nodes \cup {NoNode}] /\ reg \in [Handlers -> Int]
  /\ locked \in BOOLEAN /\ fault \in {"none", "freed", "twice", "lost"}

Life == CHOOSE l \in Lifetimes : TRUE
Blank == [st |-> "free", aid |-> 0, life |-> Life, pwr |-> FALSE, saved |-> << >>,
          refs |-> 0, sent |-> 0]

Init ==
  /\ node = [n \in Nodes |-> Blank]
  /\ tim = {} /\ pending = 0 /\ aids = {} /\ psSta = 0
  /\ opc = "idle" /\ onode = NoNode
  /\ pc = [h \in Handlers |-> "idle"] /\ who = [h \in Handlers |-> NoNode]
  /\ reg = [h \in Handlers |-> 0]
  /\ locked = FALSE /\ fault = "none"

-----------------------------------------------------------------------------
(* Helpers.                                                                *)

Goto(h, l) == pc' = [pc EXCEPT ![h] = l]
Return == opc' = "idle" /\ onode' = NoNode

(* A bug: the counter moves whether or not the bit does. *)
SetTimAlways(n, on) ==
  /\ tim' = IF on THEN tim \cup {node[n].aid} ELSE tim \ {node[n].aid}
  /\ pending' = IF on THEN pending + 1 ELSE pending - 1

(* ieee80211_set_tim: the bit of the node's present association id.        *)
SetTim(n, on) ==
  LET aid == node[n].aid IN
  IF on = (aid \in tim) THEN UNCHANGED <<tim, pending>>
  ELSE IF on THEN tim' = tim \cup {aid} /\ pending' = pending + 1
  ELSE tim' = tim \ {aid} /\ pending' = pending - 1

(* ieee80211_free_node.  The last reference frees the node's memory, its   *)
(* association id, and, through node_cleanup, its place in iv_ps_sta.      *)
Last(n) == node[n].refs = 1
Release(n, r) ==
  /\ node' = [node EXCEPT ![n] = IF Last(n) THEN Blank ELSE [r EXCEPT !.refs = @ - 1]]
  /\ aids' = IF Last(n) THEN aids \ {node[n].aid} ELSE aids
  /\ psSta' = IF Last(n) /\ node[n].pwr THEN psSta - 1 ELSE psSta
Unref(n) == Release(n, node[n])

(* A handler writes iv_ps_sta and the station's power state, which another *)
(* may have written since it read them.                                    *)
SetPower(h, asleep) ==
  LET n == who[h] IN
  /\ psSta' = IF asleep THEN reg[h] + 1 ELSE reg[h] - 1
  /\ reg' = [reg EXCEPT ![h] = 0]
  /\ node' = [node EXCEPT ![n].pwr = asleep]
  /\ fault' = IF reg[h] = psSta /\ node[n].pwr # asleep THEN fault ELSE "lost"

(* A saved frame goes to the driver, with its reference. *)
HandOver(n) == node' = [node EXCEPT ![n].saved = Tail(@), ![n].sent = @ + 1]

(* A bug: the new frame's age does not count from the tail's. *)
SavedAbsolute(r) ==
  [r EXCEPT !.saved = Append(@, [age |-> r.life, passes |-> 0])]

(* The frame goes behind the tail, with its age less the tail's.           *)
Saved(r) ==
  LET s == r.saved
      age == IF s = << >> THEN r.life ELSE r.life - s[Len(s)].age IN
  [r EXCEPT !.saved = Append(s, [age |-> age % AgeMod, passes |-> 0])]

(* ieee80211_node_saveq_age: the first k frames, all younger than Wait, are *)
(* discarded, and the next one's age is reduced by Wait.                   *)
Stale(s) ==
  CHOOSE k \in 0 .. Len(s) :
    /\ \A i \in 1 .. k : s[i].age < Wait
    /\ k < Len(s) => s[k + 1].age >= Wait

(* A bug: the whole queue is aged, not its head. *)
AgedAll(s) ==
  LET rest == SubSeq(s, Stale(s) + 1, Len(s)) IN
  [i \in DOMAIN rest |-> [age |-> rest[i].age - Wait, passes |-> rest[i].passes + 1]]

(* A bug: the age of the frame that stays is not reduced. *)
AgedInVain(s) ==
  LET rest == SubSeq(s, Stale(s) + 1, Len(s)) IN
  [i \in DOMAIN rest |-> [rest[i] EXCEPT !.passes = @ + 1]]

(* A bug: the queue is not aged. *)
AgedNever(s) == s

Aged(s) ==
  LET rest == SubSeq(s, Stale(s) + 1, Len(s)) IN
  [i \in DOMAIN rest |->
     [age |-> IF i = 1 THEN rest[i].age - Wait ELSE rest[i].age,
      passes |-> rest[i].passes + 1]]

-----------------------------------------------------------------------------
(* ieee80211_hardstart, ieee80211_pwrsave: a frame for a station.          *)

OutFind(n) ==
  /\ opc = "idle" /\ ~locked
  /\ node[n].st = "table" /\ node[n].refs < MaxRefs
  /\ node' = [node EXCEPT ![n].refs = @ + 1]
  /\ opc' = "test" /\ onode' = n
  /\ UNCHANGED <<bss, handler, locked, fault>>

(* Whether the station sleeps is tested outside any lock.                  *)
OutTest ==
  /\ opc = "test"
  /\ IF node[onode].pwr
     THEN opc' = "save" /\ UNCHANGED <<onode, node>>
     ELSE Return /\ node' = [node EXCEPT ![onode].sent = @ + 1]
  /\ UNCHANGED <<bss, handler, locked, fault>>

(* Under the queue's lock.  A frame that finds the queue full is freed; the *)
(* reference it came with is not.                                          *)
OutSave ==
  /\ opc = "save"
  /\ IF Len(node[onode].saved) >= MaxQueue
     THEN Return /\ UNCHANGED node
     ELSE /\ node' = [node EXCEPT ![onode] = Saved(@)]
          /\ IF node[onode].saved = << >> THEN opc' = "tim" /\ UNCHANGED onode ELSE Return
  /\ UNCHANGED <<bss, handler, locked, fault>>

(* The frame is on the queue, and may have left it with its reference.     *)
OutTim ==
  /\ opc = "tim"
  /\ IF node[onode].st = "free"
     THEN fault' = "freed" /\ UNCHANGED <<tim, pending, output>>
     ELSE SetTim(onode, TRUE) /\ Return /\ UNCHANGED fault
  /\ UNCHANGED <<node, aids, psSta, handler, locked>>

(* The driver (ath_tx_processq) has sent a frame and releases its node.    *)
DriverDone(n) ==
  /\ node[n].sent > 0
  /\ Release(n, [node[n] EXCEPT !.sent = @ - 1])
  /\ UNCHANGED <<tim, pending, output, handler, locked, fault>>

-----------------------------------------------------------------------------
(* The receive tasklet.                                                    *)

(* The first authentication of a station makes a node, with one reference. *)
Auth(n) ==
  /\ pc["rx"] = "idle" /\ ~locked /\ node[n].st = "free"
  /\ node' = [node EXCEPT ![n].st = "table", ![n].refs = 1]
  /\ UNCHANGED <<bss, output, handler, locked, fault>>

(* The receive tasklet, or the ioctl, looks a node up, with a reference.   *)
Find(h, n, j) ==
  /\ pc[h] = "idle" /\ ~locked
  /\ h = "rx" \/ (h \in Ioctls /\ j = "leave")
  /\ node[n].st = "table" /\ node[n].refs < MaxRefs
  /\ node' = [node EXCEPT ![n].refs = @ + 1]
  /\ Goto(h, j) /\ who' = [who EXCEPT ![h] = n]
  /\ UNCHANGED <<bss, output, reg, locked, fault>>

(* ieee80211_free_node at the end of a handler. *)
Put(h) ==
  /\ pc[h] = "put"
  /\ Unref(who[h])
  /\ Goto(h, "idle") /\ who' = [who EXCEPT ![h] = NoNode]
  /\ UNCHANGED <<tim, pending, output, reg, locked, fault>>

(* ieee80211_recv_pspoll: one saved frame, or a null frame, is sent. *)
Poll ==
  LET n == who["rx"]
      r == node[n] IN
  /\ pc["rx"] = "poll"
  /\ IF r.aid = 0 THEN Goto("rx", "put") /\ UNCHANGED node
     ELSE IF r.saved = << >>
     THEN /\ node' = [node EXCEPT ![n].refs = @ + 1, ![n].sent = @ + 1]
          /\ Goto("rx", "clear")
     ELSE HandOver(n) /\ Goto("rx", IF Len(r.saved) = 1 THEN "clear" ELSE "put")
  /\ UNCHANGED <<bss, output, who, reg, locked, fault>>

Clear ==
  /\ pc["rx"] = "clear"
  /\ SetTim(who["rx"], FALSE)
  /\ Goto("rx", "put")
  /\ UNCHANGED <<node, aids, psSta, output, who, reg, locked, fault>>

(* ieee80211_input, ieee80211_node_pwrsave: a data frame of an associated  *)
(* station changes its power state; iv_ps_sta is read, then written.       *)
SleepRead ==
  LET r == node[who["rx"]] IN
  /\ pc["rx"] = "sleep"
  /\ IF r.aid = 0 \/ r.pwr
     THEN Goto("rx", "put") /\ UNCHANGED reg
     ELSE Goto("rx", "slept") /\ reg' = [reg EXCEPT !["rx"] = psSta]
  /\ UNCHANGED <<node, bss, output, who, locked, fault>>

SleepWrite ==
  /\ pc["rx"] = "slept"
  /\ SetPower("rx", TRUE)
  /\ Goto("rx", "put")
  /\ UNCHANGED <<tim, pending, aids, output, who, locked>>

WakeRead ==
  LET r == node[who["rx"]] IN
  /\ pc["rx"] = "wake"
  /\ IF r.aid = 0 \/ ~r.pwr
     THEN Goto("rx", "put") /\ UNCHANGED reg
     ELSE Goto("rx", "woken") /\ reg' = [reg EXCEPT !["rx"] = psSta]
  /\ UNCHANGED <<node, bss, output, who, locked, fault>>

WakeWrite ==
  /\ pc["rx"] = "woken"
  /\ SetPower("rx", FALSE)
  /\ Goto("rx", "flush")
  /\ UNCHANGED <<tim, pending, aids, output, who, locked>>

(* The saved frames are sent one by one; then, or at once if there are     *)
(* none, the TIM bit is cleared.                                           *)
Flush ==
  LET n == who["rx"] IN
  /\ pc["rx"] = "flush"
  /\ IF node[n].saved = << >>
     THEN Goto("rx", "clear") /\ UNCHANGED node
     ELSE HandOver(n) /\ UNCHANGED pc
  /\ UNCHANGED <<bss, output, who, reg, locked, fault>>

(* ieee80211_node_join, also for a station that associates once more; the  *)
(* listen interval is the request's.                                       *)
Assoc ==
  LET n == who["rx"]
      unused == Aids \ aids IN
  /\ pc["rx"] = "assoc"
  /\ IF node[n].aid # 0
     THEN /\ \E l \in Lifetimes : node' = [node EXCEPT ![n].life = l]
          /\ Goto("rx", "put") /\ UNCHANGED aids
     ELSE IF unused = {}
     THEN Goto("rx", "leave") /\ UNCHANGED <<node, aids>>
     ELSE /\ \E l \in Lifetimes :
               node' = [node EXCEPT ![n].life = l, ![n].aid = Min(unused)]
          /\ aids' = aids \cup {Min(unused)}
          /\ Goto("rx", "put")
  /\ UNCHANGED <<tim, pending, psSta, output, who, reg, locked, fault>>

-----------------------------------------------------------------------------
(* ieee80211_node_leave: of a deauthentication or disassociation received, *)
(* of a station that timed out, or of the ioctl.                           *)

Leave(h) ==
  LET n == who[h] IN
  /\ pc[h] = "leave"
  /\ IF node[n].st # "table" \/ (\E g \in Handlers : who[g] = n /\ pc[g] \in Leaving)
     THEN fault' = "twice" /\ UNCHANGED pc
     ELSE Goto(h, IF node[n].aid = 0 THEN "reclaim" ELSE "unlist") /\ UNCHANGED fault
  /\ UNCHANGED <<node, bss, output, who, reg, locked>>

(* A bug: the node keeps the association id that is given up. *)
UnlistKeeps(h) ==
  /\ pc[h] = "unlist"
  /\ aids' = aids \ {node[who[h]].aid}
  /\ Goto(h, "cleanup")
  /\ UNCHANGED <<node, tim, pending, psSta, output, who, reg, locked, fault>>

(* Under the lock of the 802.11 layer. *)
Unlist(h) ==
  LET n == who[h] IN
  /\ pc[h] = "unlist"
  /\ aids' = aids \ {node[n].aid}
  /\ node' = [node EXCEPT ![n].aid = 0]
  /\ Goto(h, "cleanup")
  /\ UNCHANGED <<tim, pending, psSta, output, who, reg, locked, fault>>

(* node_cleanup: iv_ps_sta is read, then written. *)
CleanupRead(h) ==
  /\ pc[h] = "cleanup"
  /\ IF node[who[h]].pwr
     THEN Goto(h, "cleaned") /\ reg' = [reg EXCEPT ![h] = psSta]
     ELSE Goto(h, "drain") /\ UNCHANGED reg
  /\ UNCHANGED <<node, bss, output, who, locked, fault>>

(* A bug: a station that leaves stays among those that sleep. *)
CleanupForgets(h) ==
  /\ pc[h] = "cleaned"
  /\ reg' = [reg EXCEPT ![h] = 0]
  /\ node' = [node EXCEPT ![who[h]].pwr = FALSE]
  /\ Goto(h, "drain")
  /\ UNCHANGED <<bss, output, who, locked, fault>>

CleanupWrite(h) ==
  /\ pc[h] = "cleaned"
  /\ SetPower(h, FALSE)
  /\ Goto(h, "drain")
  /\ UNCHANGED <<tim, pending, aids, output, who, locked>>

(* A bug: two references go with each saved frame. *)
DrainTwice(h) ==
  LET n == who[h]
      k == Len(node[n].saved) IN
  /\ pc[h] = "drain"
  /\ node' = [node EXCEPT ![n].saved = << >>, ![n].refs = @ - 2 * k]
  /\ Goto(h, IF k = 0 THEN "forget" ELSE "drained")
  /\ UNCHANGED <<bss, output, who, reg, locked, fault>>

(* ieee80211_node_saveq_drain: the frames and their references go.  The    *)
(* node is in use by the caller, so that these are not its last.           *)
Drain(h) ==
  LET n == who[h]
      k == Len(node[n].saved) IN
  /\ pc[h] = "drain"
  /\ node' = [node EXCEPT ![n].saved = << >>, ![n].refs = @ - k]
  /\ Goto(h, IF k = 0 THEN "forget" ELSE "drained")
  /\ UNCHANGED <<bss, output, who, reg, locked, fault>>

(* The TIM bit is cleared of the association id the node has by now. *)
Drained(h) ==
  /\ pc[h] = "drained"
  /\ SetTim(who[h], FALSE)
  /\ Goto(h, "forget")
  /\ UNCHANGED <<node, aids, psSta, output, who, reg, locked, fault>>

(* node_cleanup ends without the bitmap: an association id the station was *)
(* given since Unlist stays taken.                                         *)
Forget(h) ==
  /\ pc[h] = "forget"
  /\ node' = [node EXCEPT ![who[h]].aid = 0]
  /\ Goto(h, "reclaim")
  /\ UNCHANGED <<bss, output, who, reg, locked, fault>>

(* node_reclaim, under the lock of the node table, takes the node off and  *)
(* drops the table's reference.                                            *)
Reclaim(h) ==
  LET n == who[h] IN
  /\ pc[h] = "reclaim" /\ ~locked
  /\ IF Last(n) THEN Unref(n)
     ELSE /\ node' = [node EXCEPT ![n].st = "gone", ![n].refs = @ - 1]
          /\ UNCHANGED <<aids, psSta>>
  /\ Goto(h, "put")
  /\ UNCHANGED <<tim, pending, output, who, reg, locked, fault>>

-----------------------------------------------------------------------------
(* ieee80211_timeout_stations, with the node table locked.                 *)

(* Frames of an associated station are aged; with any discarded, and none  *)
(* left when it looks again, the TIM bit is cleared.  The references of    *)
(* the discarded frames stay.                                              *)
TimerVisit(n) ==
  LET s == node[n].saved IN
  /\ pc["timer"] = "idle" /\ node[n].st = "table"
  /\ IF node[n].aid = 0
     THEN Goto("timer", "expire") /\ UNCHANGED node
     ELSE /\ node' = [node EXCEPT ![n].saved = Aged(s)]
          /\ Goto("timer", IF Len(Aged(s)) < Len(s) THEN "check" ELSE "probe")
  /\ who' = [who EXCEPT !["timer"] = n] /\ locked' = TRUE
  /\ UNCHANGED <<bss, output, reg, fault>>

TimerCheck ==
  /\ pc["timer"] = "check"
  /\ Goto("timer", IF node[who["timer"]].saved = << >> THEN "timclear" ELSE "probe")
  /\ UNCHANGED <<node, bss, output, who, reg, locked, fault>>

TimerClear ==
  /\ pc["timer"] = "timclear"
  /\ SetTim(who["timer"], FALSE)
  /\ Goto("timer", "probe")
  /\ UNCHANGED <<node, aids, psSta, output, who, reg, locked, fault>>

(* The station is left alone, probed with a null frame, or timed out.      *)
TimerGoOn ==
  /\ pc["timer"] \in {"probe", "expire"}
  /\ Goto("timer", "idle") /\ who' = [who EXCEPT !["timer"] = NoNode]
  /\ locked' = FALSE
  /\ UNCHANGED <<node, bss, output, reg, fault>>

TimerProbe ==
  LET n == who["timer"] IN
  /\ pc["timer"] = "probe" /\ node[n].refs < MaxRefs
  /\ node' = [node EXCEPT ![n].refs = @ + 1, ![n].sent = @ + 1]
  /\ Goto("timer", "idle") /\ who' = [who EXCEPT !["timer"] = NoNode]
  /\ locked' = FALSE
  /\ UNCHANGED <<bss, output, reg, fault>>

TimerExpire ==
  /\ pc["timer"] \in {"probe", "expire"} /\ node[who["timer"]].refs < MaxRefs
  /\ node' = [node EXCEPT ![who["timer"]].refs = @ + 1]
  /\ Goto("timer", "leave") /\ locked' = FALSE
  /\ UNCHANGED <<bss, output, who, reg, fault>>

-----------------------------------------------------------------------------
Output == OutTest \/ OutSave \/ OutTim
Rx == Poll \/ Clear \/ SleepRead \/ SleepWrite \/ WakeRead \/ WakeWrite \/ Flush \/ Assoc
NodeLeave(h) ==
  Leave(h) \/ Unlist(h) \/ CleanupRead(h) \/ CleanupWrite(h) \/ Drain(h) \/ Drained(h)
    \/ Forget(h) \/ Reclaim(h)
Timer == TimerCheck \/ TimerClear \/ TimerGoOn \/ TimerProbe \/ TimerExpire

(* A call that has begun goes on. *)
Step == Output \/ Rx \/ Timer \/ \E h \in Handlers : NodeLeave(h) \/ Put(h)

Next ==
  /\ fault = "none"
  /\ \/ \E n \in Nodes : OutFind(n) \/ DriverDone(n) \/ Auth(n) \/ TimerVisit(n)
     \/ \E h \in Handlers, n \in Nodes, j \in RxJobs : Find(h, n, j)
     \/ Step

Spec == Init /\ [][Next]_vars

(* Handlers that have begun go on, and get the lock of the node table in    *)
(* time, for the timer holds it a moment every IEEE80211_INACT_WAIT seconds; *)
(* the timer visits every node of the table.  Nobody has to send, poll,      *)
(* sleep or leave, and the driver need not finish a frame.                   *)
FairSpec ==
  /\ Spec
  /\ WF_vars(fault = "none" /\ Output)
  /\ SF_vars(fault = "none" /\ (Rx \/ NodeLeave("rx") \/ Put("rx")))
  /\ WF_vars(fault = "none" /\ (Timer \/ NodeLeave("timer") \/ Put("timer")))
  /\ \A h \in Ioctls : SF_vars(fault = "none" /\ (NodeLeave(h) \/ Put(h)))
  /\ \A n \in Nodes : SF_vars(fault = "none" /\ TimerVisit(n))

-----------------------------------------------------------------------------
(* What must hold.                                                         *)

(* iv_ps_pending counts the bits of the TIM bitmap: the beacon, which       *)
(* looks for a bit when the counter is not zero, always finds one.         *)
PendingCounts == pending = Cardinality(tim)

(* No node is freed under a frame or a handler that refers to it: each     *)
(* saved frame, frame in the driver, handler and table entry is counted.   *)
HandlerRefs(n) ==
  Cardinality({h \in Handlers : who[h] = n /\
                 pc[h] \notin TimerHolds \cup {"idle"}})
OutRefs(n) == IF opc \in {"test", "save"} /\ onode = n THEN 1 ELSE 0
TableRefs(r) == IF r.st = "table" THEN 1 ELSE 0
RefsCover ==
  \A n \in Nodes :
    node[n].refs >= Len(node[n].saved) + node[n].sent + TableRefs(node[n])
                      + HandlerRefs(n) + OutRefs(n)

(* Two stations never have one association id, and so one bit of the TIM.   *)
AidsUnique ==
  \A n, m \in Nodes : node[n].aid = node[m].aid /\ node[n].aid # 0 => n = m

(* iv_ps_sta, read and written without a lock, is the number of sleeping   *)
(* stations as long as no update of it is lost: no way of leaving, waking  *)
(* or being freed loses count otherwise.                                   *)
PsCounts ==
  fault = "none" => psSta = Cardinality({n \in Nodes : node[n].pwr})

(* The saved queue is bounded, and so is the time a frame spends on it: no *)
(* more passes of the timer than the ages, each counted from the frame     *)
(* before, allow for a full queue.  A station that associates once more    *)
(* with a shorter listen interval makes a difference of ages negative,     *)
(* which skb_age takes for the longest.                                    *)
Passes ==
  IF Lifetimes = {Life} THEN ((MaxQueue + 1) \div 2) * (Life \div Wait)
  ELSE MaxQueue * ((AgeMod - 1) \div Wait)
AgedOut ==
  \A n \in Nodes :
    LET s == node[n].saved IN
    /\ Len(s) <= MaxQueue
    /\ \A i \in DOMAIN s : s[i].passes <= Passes

(* iv_tim_bitmap is "power-save stations w/ data": with no call under way, *)
(* no bit is set but of an associated station (and bit 0, of no station).  *)
TimOfMember ==
  opc = "idle" /\ (\A h \in Handlers : pc[h] = "idle") => tim \subseteq aids \cup {0}

(* A frame saved for a station of the table does not wait for ever: it is  *)
(* polled, flushed or discarded, whatever the TIM says.                    *)
Shrinks(n) == Len(node'[n].saved) < Len(node[n].saved)
QueuesMove ==
  \A n \in Nodes :
    \/ []<>(node[n].saved = << >> \/ node[n].st # "table" \/ fault # "none")
    \/ []<><<Shrinks(n)>>_vars
=============================================================================
