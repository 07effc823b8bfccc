--------------------------- MODULE PowerSave_proofs ---------------------------
(* Proofs about PowerSave, for any nodes, ioctls, queue length and ages.    *)
EXTENDS PowerSave, FiniteSetTheorems, NaturalsInduction, WellFoundedInduction,
        SequenceTheorems, TLAPS

USE PowerSaveAssumption

-----------------------------------------------------------------------------
(* Least elements, and the queue of saved frames.                          *)

LEMMA HasLeast ==
  ASSUME NEW S \in SUBSET Nat, S # {}
  PROVE  \E x \in S : \A y \in S : x <= y
<1>1. PICK x \in S : \A y \in S : ~(<<y, x>> \in OpToRel(<, Nat))
  BY NatLessThanWellFounded, WFMin
<1>2. \A y \in S : ~(y < x)
  BY <1>1 DEF OpToRel
<1>3. \A y \in S : x <= y
  BY <1>2
<1>4. QED
  BY <1>3

LEMMA MinIsIn ==
  ASSUME NEW S \in SUBSET Nat, S # {}
  PROVE  Min(S) \in S
BY HasLeast DEF Min

LEMMA StaleBounds ==
  ASSUME NEW s \in Seq(Frame)
  PROVE  /\ Stale(s) \in 0 .. Len(s)
         /\ \A i \in 1 .. Stale(s) : s[i].age < Wait
         /\ Stale(s) < Len(s) => s[Stale(s) + 1].age >= Wait
<1> DEFINE S == {k \in 0 .. Len(s) : k < Len(s) => s[k + 1].age >= Wait}
<1>1. S \in SUBSET Nat /\ Len(s) \in S
  BY LenProperties
<1>2. PICK k \in S : \A j \in S : k <= j
  BY <1>1, HasLeast
<1>3. \A i \in 1 .. k : s[i].age < Wait
  <2>1. SUFFICES ASSUME NEW i \in 1 .. k, ~(s[i].age < Wait)
                 PROVE  FALSE
    OBVIOUS
  <2>2. i - 1 \in 0 .. Len(s) /\ i - 1 + 1 = i /\ k <= Len(s) /\ Len(s) \in Nat
    BY LenProperties
  <2>3. s[i].age \in 0 .. AgeMod - 1
    <3>1. i \in 1 .. Len(s)
      BY <2>2
    <3>2. s[i] \in Frame
      BY <3>1, ElementOfSeq
    <3>3. QED
      BY <3>2 DEF Frame
  <2>4. i - 1 \in S
    BY <2>1, <2>2, <2>3
  <2>5. i <= k /\ i \in Int /\ k \in Int
    <3>1. k \in Nat
      BY <1>1
    <3> HIDE DEF S
    <3>2. QED
      BY <3>1
  <2>6. k <= i - 1
    <3> HIDE DEF S
    <3>1. QED
      BY <1>2, <2>4
  <2>7. QED
    BY <2>5, <2>6
<1>4. QED
  BY <1>2, <1>3 DEF Stale

LEMMA AFrame ==
  ASSUME NEW a \in 0 .. AgeMod - 1, NEW p \in Nat
  PROVE  [age |-> a, passes |-> p] \in Frame
BY DEF Frame

\* Ageing keeps a queue a queue, no longer than it was.
LEMMA AgedQueue ==
  ASSUME NEW s \in Seq(Frame)
  PROVE  Aged(s) \in Seq(Frame) /\ Len(Aged(s)) <= Len(s)
<1> DEFINE k == Stale(s)
           rest == SubSeq(s, k + 1, Len(s))
<1>1. k \in 0 .. Len(s) /\ Len(s) \in Nat
  BY StaleBounds, LenProperties
<1>2. rest \in Seq(Frame) /\ Len(rest) = Len(s) - k
      /\ \A i \in 1 .. Len(s) - k : rest[i] = s[k + i]
  <2>1. k + 1 \in 1 .. Len(s) + 1 /\ \A i \in k + 1 .. Len(s) : s[i] \in Frame
    BY <1>1, ElementOfSeq
  <2>2. QED
    BY <1>1, <2>1, SubSeqProperties
<1> DEFINE older(i) == [age |-> IF i = 1 THEN rest[i].age - Wait ELSE rest[i].age,
                        passes |-> rest[i].passes + 1]
<1>3. ASSUME NEW i \in 1 .. Len(s) - k
      PROVE  older(i) \in Frame
  <2>1. rest[i] \in Frame
    BY <1>2, <1>1, ElementOfSeq
  <2>2. rest[i].age \in 0 .. AgeMod - 1 /\ rest[i].passes \in Nat
    BY <2>1 DEF Frame
  <2>3. i = 1 => rest[i].age >= Wait
    BY <1>1, <1>2, StaleBounds
  <2>4. (IF i = 1 THEN rest[i].age - Wait ELSE rest[i].age) \in 0 .. AgeMod - 1
    <3> DEFINE a == rest[i].age
    <3>1. a \in 0 .. AgeMod - 1 /\ (i = 1 => a >= Wait)
      BY <2>2, <2>3
    <3> HIDE DEF a
    <3>2. (IF i = 1 THEN a - Wait ELSE a) \in 0 .. AgeMod - 1
      BY <3>1
    <3>3. QED
      BY <3>2 DEF a
  <2>5. rest[i].passes + 1 \in Nat
    <3> DEFINE p == rest[i].passes
    <3>1. p \in Nat
      BY <2>2
    <3> HIDE DEF p
    <3>2. p + 1 \in Nat
      BY <3>1
    <3>3. QED
      BY <3>2 DEF p
  <2>6. QED
    BY <2>4, <2>5, AFrame, Zenon
<1>4. Aged(s) = [i \in 1 .. Len(s) - k |-> older(i)]
  BY <1>2, LenProperties DEF Aged
<1>6. Len(s) - k \in Nat /\ Len(s) - k <= Len(s)
  BY <1>1
<1>7. Aged(s) \in [1 .. Len(s) - k -> Frame]
  <2> HIDE DEF older
  <2>1. QED
    BY <1>3, <1>4
<1>8. Aged(s) \in Seq(Frame) /\ DOMAIN Aged(s) = 1 .. Len(s) - k
  BY <1>6, <1>7, SeqDef
<1>9. Len(Aged(s)) = Len(s) - k
  BY <1>6, <1>8, LenProperties
<1>10. QED
  BY <1>6, <1>8, <1>9

LEMMA SavedNode ==
  ASSUME NEW r \in Node
  PROVE  /\ Saved(r) \in Node /\ Len(Saved(r).saved) = Len(r.saved) + 1
         /\ Saved(r) = [r EXCEPT !.saved = Saved(r).saved]
<1> DEFINE s == r.saved
           age == IF s = << >> THEN r.life ELSE r.life - s[Len(s)].age
           f == [age |-> age % AgeMod, passes |-> 0]
<1>1. s \in Seq(Frame) /\ r.life \in 0 .. AgeMod - 1
  BY DEF Node
<1>2. age \in Int
  <2>1. CASE s = << >>
    BY <1>1, <2>1
  <2>2. CASE s # << >>
    <3>1. s[Len(s)] \in Frame
      BY <1>1, <2>2, EmptySeq, LenProperties, ElementOfSeq
    <3>2. QED
      BY <1>1, <2>2, <3>1 DEF Frame
  <2>3. QED
    BY <2>1, <2>2
<1>3. f \in Frame
  BY <1>2 DEF Frame
<1>4. Append(s, f) \in Seq(Frame) /\ Len(Append(s, f)) = Len(s) + 1
  BY <1>1, <1>3, AppendProperties
<1>5. Saved(r) = [r EXCEPT !.saved = Append(s, f)]
  BY DEF Saved
<1>6. QED
  BY <1>4, <1>5 DEF Node

LEMMA BlankNode == Blank \in Node /\ Life \in Lifetimes
<1>1. Life \in Lifetimes
  BY DEF Life
<1>2. << >> \in Seq(Frame)
  BY EmptySeq
<1>3. QED
  BY <1>1, <1>2 DEF Blank, Node

-----------------------------------------------------------------------------
(* The types, and who holds what.                                          *)

\* A handler at work, and an output call, have a node; the lock of the node
\* table is the timer's.
HandInv ==
  /\ \A h \in Handlers : pc[h] # "idle" => who[h] \in Nodes
  /\ \A h \in Handlers : pc[h] \in TimerHolds => h = "timer"
  /\ locked <=> pc["timer"] \in TimerHolds
  /\ opc # "idle" => onode \in Nodes
TypeInv == TypeOK /\ HandInv

USE DEF Handlers

LEMMA TypeInit == Init => TypeInv
<1>1. SUFFICES ASSUME Init PROVE TypeInv
  OBVIOUS
<1>2. node \in [Nodes -> Node]
  BY <1>1, BlankNode DEF Init
<1>3. TypeOK
  <2>1. pc \in [Handlers -> Places]
    BY <1>1 DEF Init, Places
  <2>2. who \in [Handlers -> Nodes \cup {NoNode}] /\ reg \in [Handlers -> Int]
    BY <1>1 DEF Init
  <2>3. tim \subseteq 0 .. MaxAid - 1 /\ aids \subseteq Aids
    BY <1>1 DEF Init
  <2>4. QED
    BY <1>1, <1>2, <2>1, <2>2, <2>3 DEF Init, TypeOK
<1>4. HandInv
  BY <1>1 DEF Init, HandInv, TimerHolds
<1>5. QED
  BY <1>3, <1>4 DEF TypeInv

\* What the helpers do to the types.
LEMMA SetTimTypes ==
  ASSUME TypeOK, NEW n \in Nodes, NEW on \in BOOLEAN, SetTim(n, on)
  PROVE  tim' \subseteq 0 .. MaxAid - 1 /\ pending' \in Int
<1>1. node[n].aid \in 0 .. MaxAid - 1 /\ pending \in Int /\ tim \subseteq 0 .. MaxAid - 1
  BY DEF TypeOK, Node
<1>2. CASE on = (node[n].aid \in tim)
  BY <1>1, <1>2 DEF SetTim
<1>3. CASE on # (node[n].aid \in tim)
  <2> DEFINE a == node[n].aid
  <2>1. \/ tim' = tim \cup {a} /\ pending' = pending + 1
        \/ tim' = tim \ {a} /\ pending' = pending - 1
    BY <1>3 DEF SetTim
  <2> HIDE DEF a
  <2>2. a \in 0 .. MaxAid - 1
    BY <1>1 DEF a
  <2>3. tim' \subseteq 0 .. MaxAid - 1
    BY <1>1, <2>1, <2>2
  <2>4. pending' \in Int
    BY <1>1, <2>1
  <2>5. QED
    BY <2>3, <2>4
<1>4. QED
  BY <1>2, <1>3

LEMMA ReleaseTypes ==
  ASSUME TypeOK, NEW n \in Nodes, NEW r \in Node, Release(n, r)
  PROVE  node' \in [Nodes -> Node] /\ aids' \subseteq Aids /\ psSta' \in Int
<1>0. r.refs - 1 \in Int
  BY DEF Node
<1>1. [r EXCEPT !.refs = @ - 1] \in Node
  BY <1>0 DEF Node
<1>2. Blank \in Node
  BY BlankNode
<1>3. node' \in [Nodes -> Node]
  BY <1>1, <1>2 DEF Release, TypeOK
<1>4. aids' \subseteq Aids /\ psSta' \in Int
  BY DEF Release, TypeOK
<1>5. QED
  BY <1>3, <1>4

LEMMA SetPowerTypes ==
  ASSUME TypeOK, NEW h \in Handlers, who[h] \in Nodes, NEW b \in BOOLEAN, SetPower(h, b)
  PROVE  /\ node' \in [Nodes -> Node] /\ psSta' \in Int
         /\ reg' \in [Handlers -> Int] /\ fault' \in {"none", "freed", "twice", "lost"}
<1>1. reg[h] \in Int /\ node[who[h]] \in Node
  BY DEF TypeOK
<1>2. [node[who[h]] EXCEPT !.pwr = b] \in Node
  BY <1>1 DEF Node
<1>3. node' \in [Nodes -> Node]
  BY <1>2 DEF SetPower, TypeOK
<1>4. QED
  BY <1>1, <1>3 DEF SetPower, TypeOK

LEMMA HandOverTypes ==
  ASSUME TypeOK, NEW n \in Nodes, node[n].saved # << >>, HandOver(n)
  PROVE  node' \in [Nodes -> Node]
<1>1. node[n] \in Node /\ node[n].saved \in Seq(Frame)
  BY DEF TypeOK, Node
<1>2. Tail(node[n].saved) \in Seq(Frame)
  BY <1>1, HeadTailProperties
<1>3. node[n].sent + 1 \in Nat
  BY <1>1 DEF Node
<1>4. [node[n] EXCEPT !.saved = Tail(@), !.sent = @ + 1] \in Node
  BY <1>1, <1>2, <1>3 DEF Node
<1>5. QED
  BY <1>4 DEF HandOver, TypeOK

LEMMA NodeTypes ==
  ASSUME TypeOK, NEW n \in Nodes
  PROVE  /\ node[n] \in Node
         /\ node[n].aid \in 0 .. MaxAid - 1 /\ node[n].refs \in Int /\ node[n].sent \in Nat
         /\ node[n].saved \in Seq(Frame) /\ Len(node[n].saved) \in Nat
         /\ node[n].pwr \in BOOLEAN /\ node[n].st \in {"free", "table", "gone"}
<1>1. node[n] \in Node
  BY DEF TypeOK
<1>2. node[n].saved \in Seq(Frame)
  BY <1>1 DEF Node
<1>3. Len(node[n].saved) \in Nat
  BY <1>2, LenProperties
<1>4. QED
  BY <1>1, <1>2, <1>3 DEF Node

\* A handler that goes from one place to another, with the lock as it was.
LEMMA GotoTypes ==
  ASSUME TypeInv, NEW h \in Handlers, NEW l \in Places, l \notin TimerHolds,
         pc[h] \notin TimerHolds \cup {"idle"}, Goto(h, l),
         who' = who, locked' = locked, opc' # "idle" => onode' \in Nodes
  PROVE  pc' \in [Handlers -> Places] /\ HandInv'
<1>1. pc' = [pc EXCEPT ![h] = l] /\ pc \in [Handlers -> Places]
  BY DEF Goto, TypeInv, TypeOK
<1>2. pc' \in [Handlers -> Places]
  BY <1>1
<1>3. \A g \in Handlers : pc'[g] # "idle" => who'[g] \in Nodes
  BY <1>1 DEF TypeInv, HandInv
<1>4. \A g \in Handlers : pc'[g] \in TimerHolds => g = "timer"
  BY <1>1 DEF TypeInv, HandInv
<1>5. locked' <=> pc'["timer"] \in TimerHolds
  BY <1>1 DEF TypeInv, HandInv
<1>6. QED
  BY <1>2, <1>3, <1>4, <1>5 DEF HandInv

\* An output call, while the handlers stay where they are.
LEMMA OutputTypes ==
  ASSUME TypeInv, UNCHANGED <<handler, locked>>, opc' # "idle" => onode' \in Nodes
  PROVE  pc' \in [Handlers -> Places] /\ HandInv'
BY DEF TypeInv, TypeOK, HandInv, handler

LEMMA OutTypes ==
  ASSUME TypeInv, OutTest \/ OutSave \/ OutTim \/ (\E n \in Nodes : OutFind(n) \/ DriverDone(n) \/ Auth(n))
  PROVE  TypeInv'
<1> USE DEF TypeInv, bss, handler, output
<1>1. CASE OutTest
  <2>1. onode \in Nodes
    BY <1>1 DEF OutTest, HandInv
  <2>2. node[onode] \in Node /\ node[onode].sent + 1 \in Nat
    BY <2>1, NodeTypes
  <2>3. [node[onode] EXCEPT !.sent = @ + 1] \in Node
    BY <2>2 DEF Node
  <2>4. node' \in [Nodes -> Node]
    BY <1>1, <2>3 DEF OutTest, TypeOK
  <2>5. HandInv' /\ pc' \in [Handlers -> Places]
    BY <1>1, <2>1, OutputTypes DEF OutTest, Return
  <2>6. QED
    BY <1>1, <2>1, <2>4, <2>5 DEF OutTest, Return, TypeOK
<1>2. CASE OutSave
  <2>1. onode \in Nodes
    BY <1>2 DEF OutSave, HandInv
  <2>2. Saved(node[onode]) \in Node
    BY <2>1, NodeTypes, SavedNode
  <2>3. node' \in [Nodes -> Node]
    BY <1>2, <2>2 DEF OutSave, TypeOK
  <2>4. HandInv' /\ pc' \in [Handlers -> Places]
    BY <1>2, <2>1, OutputTypes DEF OutSave, Return
  <2>5. QED
    BY <1>2, <2>1, <2>3, <2>4 DEF OutSave, Return, TypeOK
<1>3. CASE OutTim
  <2>1. onode \in Nodes
    BY <1>3 DEF OutTim, HandInv
  <2>2. tim' \subseteq 0 .. MaxAid - 1 /\ pending' \in Int
    BY <1>3, <2>1, SetTimTypes DEF OutTim, TypeOK
  <2>3. HandInv' /\ pc' \in [Handlers -> Places]
    BY <1>3, <2>1, OutputTypes DEF OutTim, Return
  <2>4. QED
    BY <1>3, <2>1, <2>2, <2>3 DEF OutTim, Return, TypeOK
<1>4. ASSUME NEW n \in Nodes, OutFind(n)
      PROVE  TypeInv'
  <2>1. node[n] \in Node /\ node[n].refs + 1 \in Int
    BY NodeTypes
  <2>2. [node[n] EXCEPT !.refs = @ + 1] \in Node
    BY <2>1 DEF Node
  <2>3. node' \in [Nodes -> Node]
    BY <1>4, <2>2 DEF OutFind, TypeOK
  <2>4. HandInv' /\ pc' \in [Handlers -> Places]
    BY <1>4, OutputTypes DEF OutFind
  <2>5. QED
    BY <1>4, <2>3, <2>4 DEF OutFind, TypeOK
<1>5. ASSUME NEW n \in Nodes, DriverDone(n)
      PROVE  TypeInv'
  <2>1. node[n] \in Node /\ node[n].sent - 1 \in Nat
    BY <1>5, NodeTypes DEF DriverDone
  <2>2. [node[n] EXCEPT !.sent = @ - 1] \in Node
    BY <2>1 DEF Node
  <2>3. node' \in [Nodes -> Node] /\ aids' \subseteq Aids /\ psSta' \in Int
    BY <1>5, <2>2, ReleaseTypes DEF DriverDone
  <2>4. HandInv' /\ pc' \in [Handlers -> Places]
    BY <1>5, OutputTypes DEF DriverDone, HandInv
  <2>5. QED
    BY <1>5, <2>3, <2>4 DEF DriverDone, TypeOK
<1>6. ASSUME NEW n \in Nodes, Auth(n)
      PROVE  TypeInv'
  <2>1. node[n] \in Node /\ 1 \in Int /\ "table" \in {"free", "table", "gone"}
    BY NodeTypes
  <2>2. [node[n] EXCEPT !.st = "table", !.refs = 1] \in Node
    BY <2>1 DEF Node
  <2>3. node' \in [Nodes -> Node]
    BY <1>6, <2>2 DEF Auth, TypeOK
  <2>4. HandInv' /\ pc' \in [Handlers -> Places]
    BY <1>6, OutputTypes DEF Auth, HandInv
  <2>5. QED
    BY <1>6, <2>3, <2>4 DEF Auth, TypeOK
<1>7. QED
  BY <1>1, <1>2, <1>3, <1>4, <1>5, <1>6

LEMMA RxTypes ==
  ASSUME TypeInv, Rx
  PROVE  TypeInv'
<1> DEFINE n == who["rx"]
<1>0. "rx" \in Handlers /\ opc # "idle" => onode \in Nodes
  BY DEF TypeInv, HandInv
<1>a. pc["rx"] # "idle" => n \in Nodes /\ node[n] \in Node /\ node[n].refs + 1 \in Int
                             /\ node[n].sent + 1 \in Nat
  BY NodeTypes DEF TypeInv, HandInv
<1>p. "put" \in Places \ TimerHolds /\ "clear" \in Places \ TimerHolds
      /\ "flush" \in Places \ TimerHolds /\ "slept" \in Places \ TimerHolds
      /\ "woken" \in Places \ TimerHolds /\ "leave" \in Places \ TimerHolds
  BY DEF Places, TimerHolds, RxJobs
<1>q. pc["rx"] \in {"poll", "clear", "sleep", "slept", "wake", "woken", "flush", "assoc"}
        => pc["rx"] \notin TimerHolds \cup {"idle"}
  BY DEF TimerHolds
<1> USE DEF bss, output
<1>1. CASE Poll
  <2>1. node' \in [Nodes -> Node]
    <3>1. CASE node[n].aid = 0
      BY <1>1, <3>1 DEF Poll, TypeInv, TypeOK
    <3>2. CASE node[n].aid # 0 /\ node[n].saved = << >>
      <4>1. [node[n] EXCEPT !.refs = @ + 1, !.sent = @ + 1] \in Node
        BY <1>1, <1>a DEF Poll, Node
      <4>2. QED
        BY <1>1, <3>2, <4>1 DEF Poll, TypeInv, TypeOK
    <3>3. CASE node[n].aid # 0 /\ node[n].saved # << >>
      BY <1>1, <1>a, <3>3, HandOverTypes DEF Poll, TypeInv
    <3>4. QED
      BY <3>1, <3>2, <3>3
  <2>2. PICK l \in {"put", "clear"} : Goto("rx", l)
    BY <1>1 DEF Poll
  <2>3. HandInv' /\ pc' \in [Handlers -> Places]
    BY <1>1, <1>0, <1>p, <1>q, <2>2, GotoTypes DEF Poll
  <2>4. QED
    BY <1>1, <2>1, <2>3 DEF Poll, TypeInv, TypeOK
<1>2. CASE Clear
  <2>1. tim' \subseteq 0 .. MaxAid - 1 /\ pending' \in Int
    BY <1>2, <1>a, SetTimTypes DEF Clear, TypeInv
  <2>2. HandInv' /\ pc' \in [Handlers -> Places]
    BY <1>2, <1>0, <1>p, <1>q, GotoTypes DEF Clear
  <2>3. QED
    BY <1>2, <2>1, <2>2 DEF Clear, TypeInv, TypeOK
<1>3. CASE SleepRead \/ WakeRead
  <2>1. PICK l \in {"put", "slept", "woken"} : Goto("rx", l)
    BY <1>3 DEF SleepRead, WakeRead
  <2>2. HandInv' /\ pc' \in [Handlers -> Places]
    BY <1>3, <1>0, <1>p, <1>q, <2>1, GotoTypes DEF SleepRead, WakeRead
  <2>3. reg' \in [Handlers -> Int]
    BY <1>3 DEF SleepRead, WakeRead, TypeInv, TypeOK
  <2>4. QED
    BY <1>3, <2>2, <2>3 DEF SleepRead, WakeRead, TypeInv, TypeOK
<1>4. CASE SleepWrite \/ WakeWrite
  <2>1. /\ node' \in [Nodes -> Node] /\ psSta' \in Int
        /\ reg' \in [Handlers -> Int] /\ fault' \in {"none", "freed", "twice", "lost"}
    BY <1>4, <1>a, SetPowerTypes DEF SleepWrite, WakeWrite, TypeInv
  <2>2. PICK l \in {"put", "flush"} : Goto("rx", l)
    BY <1>4 DEF SleepWrite, WakeWrite
  <2>3. HandInv' /\ pc' \in [Handlers -> Places]
    BY <1>4, <1>0, <1>p, <1>q, <2>2, GotoTypes DEF SleepWrite, WakeWrite
  <2>4. QED
    BY <1>4, <2>1, <2>3 DEF SleepWrite, WakeWrite, TypeInv, TypeOK
<1>5. CASE Flush
  <2>1. CASE node[n].saved = << >>
    <3>1. HandInv' /\ pc' \in [Handlers -> Places]
      BY <1>5, <2>1, <1>0, <1>p, <1>q, GotoTypes DEF Flush
    <3>2. QED
      BY <1>5, <2>1, <3>1 DEF Flush, TypeInv, TypeOK
  <2>2. CASE node[n].saved # << >>
    <3>1. node' \in [Nodes -> Node]
      BY <1>5, <2>2, <1>a, HandOverTypes DEF Flush, TypeInv
    <3>2. HandInv'
      BY <1>5, <2>2 DEF Flush, TypeInv, HandInv
    <3>3. QED
      BY <1>5, <2>2, <3>1, <3>2 DEF Flush, TypeInv, TypeOK
  <2>3. QED
    BY <2>1, <2>2
<1>6. CASE Assoc
  <2>1. node' \in [Nodes -> Node] /\ aids' \subseteq Aids
    <3>1. CASE node[n].aid # 0
      <4>1. PICK l \in Lifetimes : node' = [node EXCEPT ![n].life = l]
        BY <1>6, <3>1 DEF Assoc
      <4>2. [node[n] EXCEPT !.life = l] \in Node
        BY <1>6, <1>a DEF Assoc, Node
      <4>3. QED
        BY <1>6, <3>1, <4>1, <4>2 DEF Assoc, TypeInv, TypeOK
    <3>2. CASE node[n].aid = 0 /\ Aids \ aids = {}
      BY <1>6, <3>2 DEF Assoc, TypeInv, TypeOK
    <3>3. CASE node[n].aid = 0 /\ Aids \ aids # {}
      <4>1. Min(Aids \ aids) \in Aids \ aids
        BY <3>3, MinIsIn DEF Aids
      <4>2. PICK l \in Lifetimes :
              node' = [node EXCEPT ![n].life = l, ![n].aid = Min(Aids \ aids)]
        BY <1>6, <3>3 DEF Assoc
      <4>3. [node[n] EXCEPT !.life = l, !.aid = Min(Aids \ aids)] \in Node
        <5>1. Min(Aids \ aids) \in 0 .. MaxAid - 1
          BY <4>1 DEF Aids
        <5>2. QED
          BY <1>6, <1>a, <5>1 DEF Assoc, Node
      <4>4. QED
        BY <1>6, <3>3, <4>1, <4>2, <4>3 DEF Assoc, TypeInv, TypeOK
    <3>4. QED
      BY <3>1, <3>2, <3>3
  <2>2. PICK l \in {"put", "leave"} : Goto("rx", l)
    BY <1>6 DEF Assoc
  <2>3. HandInv' /\ pc' \in [Handlers -> Places]
    BY <1>6, <1>0, <1>p, <1>q, <2>2, GotoTypes DEF Assoc
  <2>4. QED
    BY <1>6, <2>1, <2>3 DEF Assoc, TypeInv, TypeOK
<1>7. QED
  BY <1>1, <1>2, <1>3, <1>4, <1>5, <1>6 DEF Rx

LEMMA LeaveTypes ==
  ASSUME TypeInv, NEW h \in Handlers, NodeLeave(h)
  PROVE  TypeInv'
<1> DEFINE n == who[h]
<1>0. opc # "idle" => onode \in Nodes
  BY DEF TypeInv, HandInv
<1>a. pc[h] # "idle" => n \in Nodes /\ node[n] \in Node /\ node[n].refs - 1 \in Int
                          /\ node[n].refs - Len(node[n].saved) \in Int
  BY NodeTypes DEF TypeInv, HandInv
<1>p. Leaving \subseteq Places \ TimerHolds /\ "put" \in Places \ TimerHolds
  BY DEF Places, TimerHolds, Leaving
<1>q. pc[h] \in Leaving \cup {"leave"} => pc[h] \notin TimerHolds \cup {"idle"}
  BY DEF TimerHolds, Leaving
<1>r. 0 \in 0 .. MaxAid - 1 /\ << >> \in Seq(Frame) /\ "gone" \in {"free", "table", "gone"}
  BY EmptySeq
<1> USE DEF bss, output
<1>1. CASE Leave(h)
  <2>1. CASE fault' = "twice" /\ UNCHANGED pc
    BY <1>1, <2>1 DEF Leave, TypeInv, TypeOK, HandInv
  <2>2. CASE UNCHANGED fault /\ \E l \in {"reclaim", "unlist"} : Goto(h, l)
    <3>1. PICK l \in {"reclaim", "unlist"} : Goto(h, l)
      BY <2>2
    <3>2. HandInv' /\ pc' \in [Handlers -> Places]
      BY <1>1, <1>0, <1>p, <1>q, <3>1, GotoTypes DEF Leave, Leaving
    <3>3. QED
      BY <1>1, <2>2, <3>2 DEF Leave, TypeInv, TypeOK
  <2>3. QED
    BY <1>1, <2>1, <2>2 DEF Leave
<1>2. CASE Unlist(h) \/ Forget(h)
  <2>1. [node[n] EXCEPT !.aid = 0] \in Node
    BY <1>2, <1>a, <1>r DEF Unlist, Forget, Node
  <2>2. node' \in [Nodes -> Node] /\ aids' \subseteq Aids
    BY <1>2, <2>1 DEF Unlist, Forget, TypeInv, TypeOK
  <2>3. PICK l \in {"cleanup", "reclaim"} : Goto(h, l)
    BY <1>2 DEF Unlist, Forget
  <2>4. HandInv' /\ pc' \in [Handlers -> Places]
    BY <1>2, <1>0, <1>p, <1>q, <2>3, GotoTypes DEF Unlist, Forget, Leaving
  <2>5. QED
    BY <1>2, <2>2, <2>4 DEF Unlist, Forget, TypeInv, TypeOK
<1>3. CASE CleanupRead(h)
  <2>1. PICK l \in {"cleaned", "drain"} : Goto(h, l)
    BY <1>3 DEF CleanupRead
  <2>2. HandInv' /\ pc' \in [Handlers -> Places]
    BY <1>3, <1>0, <1>p, <1>q, <2>1, GotoTypes DEF CleanupRead, Leaving
  <2>3. QED
    BY <1>3, <2>2 DEF CleanupRead, TypeInv, TypeOK
<1>4. CASE CleanupWrite(h)
  <2>1. /\ node' \in [Nodes -> Node] /\ psSta' \in Int
        /\ reg' \in [Handlers -> Int] /\ fault' \in {"none", "freed", "twice", "lost"}
    BY <1>4, <1>a, SetPowerTypes DEF CleanupWrite, TypeInv
  <2>2. HandInv' /\ pc' \in [Handlers -> Places]
    BY <1>4, <1>0, <1>p, <1>q, GotoTypes DEF CleanupWrite, Leaving
  <2>3. QED
    BY <1>4, <2>1, <2>2 DEF CleanupWrite, TypeInv, TypeOK
<1>5. CASE Drain(h)
  <2>1. [node[n] EXCEPT !.saved = << >>, !.refs = @ - Len(node[n].saved)] \in Node
    BY <1>5, <1>a, <1>r DEF Drain, Node
  <2>2. node' \in [Nodes -> Node]
    BY <1>5, <2>1 DEF Drain, TypeInv, TypeOK
  <2>3. PICK l \in {"forget", "drained"} : Goto(h, l)
    BY <1>5 DEF Drain
  <2>4. HandInv' /\ pc' \in [Handlers -> Places]
    BY <1>5, <1>0, <1>p, <1>q, <2>3, GotoTypes DEF Drain, Leaving
  <2>5. QED
    BY <1>5, <2>2, <2>4 DEF Drain, TypeInv, TypeOK
<1>6. CASE Drained(h)
  <2>1. tim' \subseteq 0 .. MaxAid - 1 /\ pending' \in Int
    BY <1>6, <1>a, SetTimTypes DEF Drained, TypeInv
  <2>2. HandInv' /\ pc' \in [Handlers -> Places]
    BY <1>6, <1>0, <1>p, <1>q, GotoTypes DEF Drained, Leaving
  <2>3. QED
    BY <1>6, <2>1, <2>2 DEF Drained, TypeInv, TypeOK
<1>7. CASE Reclaim(h)
  <2>1. node' \in [Nodes -> Node] /\ aids' \subseteq Aids /\ psSta' \in Int
    <3>1. CASE Last(n)
      BY <1>7, <3>1, <1>a, ReleaseTypes DEF Reclaim, Unref, TypeInv
    <3>2. CASE ~Last(n)
      <4>1. [node[n] EXCEPT !.st = "gone", !.refs = @ - 1] \in Node
        BY <1>7, <1>a, <1>r DEF Reclaim, Node
      <4>2. QED
        BY <1>7, <3>2, <4>1 DEF Reclaim, TypeInv, TypeOK
    <3>3. QED
      BY <3>1, <3>2
  <2>2. HandInv' /\ pc' \in [Handlers -> Places]
    BY <1>7, <1>0, <1>p, <1>q, GotoTypes DEF Reclaim, Leaving
  <2>3. QED
    BY <1>7, <2>1, <2>2 DEF Reclaim, TypeInv, TypeOK
<1>8. QED
  BY <1>1, <1>2, <1>3, <1>4, <1>5, <1>6, <1>7 DEF NodeLeave

LEMMA TableTypes ==
  ASSUME TypeInv, NEW h \in Handlers, Put(h) \/ \E n \in Nodes, j \in RxJobs : Find(h, n, j)
  PROVE  TypeInv'
<1> USE DEF bss, output
<1>1. CASE Put(h)
  <2>1. who[h] \in Nodes
    BY <1>1 DEF Put, TypeInv, HandInv
  <2>2. node' \in [Nodes -> Node] /\ aids' \subseteq Aids /\ psSta' \in Int
    BY <1>1, <2>1, ReleaseTypes, NodeTypes DEF Put, Unref, TypeInv
  <2>3. pc' \in [Handlers -> Places] /\ who' \in [Handlers -> Nodes \cup {NoNode}]
    BY <1>1 DEF Put, Goto, TypeInv, TypeOK, Places
  <2>4. HandInv'
    BY <1>1 DEF Put, Goto, TypeInv, TypeOK, HandInv, TimerHolds
  <2>5. QED
    BY <1>1, <2>2, <2>3, <2>4 DEF Put, TypeInv, TypeOK
<1>2. ASSUME NEW n \in Nodes, NEW j \in RxJobs, Find(h, n, j)
      PROVE  TypeInv'
  <2>1. node[n] \in Node /\ node[n].refs + 1 \in Int
    BY NodeTypes DEF TypeInv
  <2>2. [node[n] EXCEPT !.refs = @ + 1] \in Node
    BY <2>1 DEF Node
  <2>3. node' \in [Nodes -> Node]
    BY <1>2, <2>2 DEF Find, TypeInv, TypeOK
  <2>4. pc' \in [Handlers -> Places] /\ who' \in [Handlers -> Nodes \cup {NoNode}]
    BY <1>2 DEF Find, Goto, TypeInv, TypeOK, Places
  <2>5. j \notin TimerHolds
    BY DEF RxJobs, TimerHolds
  <2>6. HandInv'
    BY <1>2, <2>5 DEF Find, Goto, TypeInv, TypeOK, HandInv, TimerHolds
  <2>7. QED
    BY <1>2, <2>3, <2>4, <2>6 DEF Find, TypeInv, TypeOK
<1>3. QED
  BY <1>1, <1>2

LEMMA TimerTypes ==
  ASSUME TypeInv, Timer \/ \E n \in Nodes : TimerVisit(n)
  PROVE  TypeInv'
<1> DEFINE t == who["timer"]
<1>0. "timer" \in Handlers
  OBVIOUS
<1>a. pc["timer"] # "idle" => t \in Nodes /\ node[t] \in Node /\ node[t].refs + 1 \in Int
                                /\ node[t].sent + 1 \in Nat
  BY NodeTypes DEF TypeInv, HandInv
<1>b. pc["timer"] \in TimerHolds => pc["timer"] # "idle"
  BY DEF TimerHolds
<1>p. TimerHolds \subseteq Places /\ "idle" \in Places /\ "leave" \in Places
  BY DEF Places, RxJobs
<1> USE DEF bss, output
\* The timer takes, keeps or gives up the lock.
<1>c. ASSUME NEW l \in Places, Goto("timer", l), l # "idle" => who'["timer"] \in Nodes,
             who' \in [Handlers -> Nodes \cup {NoNode}],
             \A h \in Handlers \ {"timer"} : who'[h] = who[h],
             locked' <=> l \in TimerHolds, UNCHANGED <<opc, onode>>
      PROVE  HandInv' /\ pc' \in [Handlers -> Places]
  <2>1. pc' = [pc EXCEPT !["timer"] = l] /\ pc \in [Handlers -> Places]
    BY <1>c DEF Goto, TypeInv, TypeOK
  <2>2. pc' \in [Handlers -> Places]
    BY <2>1
  <2>3. HandInv'
    BY <1>c, <2>1 DEF TypeInv, HandInv
  <2>4. QED
    BY <2>2, <2>3
<1>1. ASSUME NEW n \in Nodes, TimerVisit(n)
      PROVE  TypeInv'
  <2>1. node' \in [Nodes -> Node]
    <3>1. Aged(node[n].saved) \in Seq(Frame)
      BY NodeTypes, AgedQueue DEF TypeInv
    <3>2. node[n] \in Node
      BY NodeTypes DEF TypeInv
    <3>3. [node[n] EXCEPT !.saved = Aged(node[n].saved)] \in Node
      BY <3>1, <3>2 DEF Node
    <3>4. QED
      BY <1>1, <3>3 DEF TimerVisit, TypeInv, TypeOK
  <2>2. PICK l \in {"expire", "check", "probe"} : Goto("timer", l)
    BY <1>1 DEF TimerVisit
  <2>3. who' = [who EXCEPT !["timer"] = n] /\ who \in [Handlers -> Nodes \cup {NoNode}]
    BY <1>1 DEF TimerVisit, TypeInv, TypeOK
  <2>4. who' \in [Handlers -> Nodes \cup {NoNode}] /\ who'["timer"] = n
        /\ \A h \in Handlers \ {"timer"} : who'[h] = who[h]
    BY <2>3
  <2>5. l \in TimerHolds
    BY DEF TimerHolds
  <2>6. HandInv' /\ pc' \in [Handlers -> Places]
    BY <1>1, <1>c, <1>p, <2>2, <2>4, <2>5 DEF TimerVisit
  <2>7. QED
    BY <1>1, <2>1, <2>4, <2>6 DEF TimerVisit, TypeInv, TypeOK
<1>2. CASE TimerCheck \/ TimerClear
  <2>1. pc["timer"] \in TimerHolds
    BY <1>2 DEF TimerCheck, TimerClear, TimerHolds
  <2>2. tim' \subseteq 0 .. MaxAid - 1 /\ pending' \in Int
    BY <1>2, <1>a, <1>b, <2>1, SetTimTypes DEF TimerCheck, TimerClear, TypeInv, TypeOK
  <2>3. PICK l \in {"timclear", "probe"} : Goto("timer", l)
    BY <1>2 DEF TimerCheck, TimerClear
  <2>4. who' = who /\ locked' = locked /\ locked /\ l \in TimerHolds
    BY <1>2, <2>1 DEF TimerCheck, TimerClear, TypeInv, HandInv, TimerHolds
  <2>5. HandInv' /\ pc' \in [Handlers -> Places]
    BY <1>2, <1>a, <1>b, <1>c, <1>p, <2>1, <2>3, <2>4 DEF TimerCheck, TimerClear, TypeInv, TypeOK
  <2>6. QED
    BY <1>2, <2>2, <2>5 DEF TimerCheck, TimerClear, TypeInv, TypeOK
<1>3. CASE TimerGoOn \/ TimerProbe
  <2>1. pc["timer"] \in TimerHolds
    BY <1>3 DEF TimerGoOn, TimerProbe, TimerHolds
  <2>2. node' \in [Nodes -> Node]
    <3>1. [node[t] EXCEPT !.refs = @ + 1, !.sent = @ + 1] \in Node
      BY <1>a, <1>b, <2>1 DEF Node
    <3>2. QED
      BY <1>3, <3>1 DEF TimerGoOn, TimerProbe, TypeInv, TypeOK
  <2>3. who' = [who EXCEPT !["timer"] = NoNode] /\ who \in [Handlers -> Nodes \cup {NoNode}]
    BY <1>3 DEF TimerGoOn, TimerProbe, TypeInv, TypeOK
  <2>4. who' \in [Handlers -> Nodes \cup {NoNode}]
        /\ \A h \in Handlers \ {"timer"} : who'[h] = who[h]
    BY <2>3
  <2>5. Goto("timer", "idle") /\ ~locked' /\ "idle" \notin TimerHolds /\ UNCHANGED <<opc, onode>>
    BY <1>3 DEF TimerGoOn, TimerProbe, TimerHolds
  <2>6. HandInv' /\ pc' \in [Handlers -> Places]
    BY <1>c, <1>p, <2>4, <2>5
  <2>7. QED
    BY <1>3, <2>2, <2>4, <2>6 DEF TimerGoOn, TimerProbe, TypeInv, TypeOK
<1>4. CASE TimerExpire
  <2>1. pc["timer"] \in TimerHolds
    BY <1>4 DEF TimerExpire, TimerHolds
  <2>2. node' \in [Nodes -> Node]
    <3>1. [node[t] EXCEPT !.refs = @ + 1] \in Node
      BY <1>a, <1>b, <2>1 DEF Node
    <3>2. QED
      BY <1>4, <3>1 DEF TimerExpire, TypeInv, TypeOK
  <2>3. Goto("timer", "leave") /\ ~locked' /\ "leave" \notin TimerHolds /\ who' = who
        /\ UNCHANGED <<opc, onode>>
    BY <1>4 DEF TimerExpire, TimerHolds
  <2>4. HandInv' /\ pc' \in [Handlers -> Places]
    BY <1>a, <1>b, <1>c, <1>p, <2>1, <2>3 DEF TypeInv, TypeOK
  <2>5. QED
    BY <1>4, <2>2, <2>4 DEF TimerExpire, TypeInv, TypeOK
<1>5. QED
  BY <1>1, <1>2, <1>3, <1>4 DEF Timer

LEMMA TypeStep == TypeInv /\ [Next]_vars => TypeInv'
<1>1. SUFFICES ASSUME TypeInv, [Next]_vars PROVE TypeInv'
  OBVIOUS
<1>2. CASE UNCHANGED vars
  BY <1>1, <1>2 DEF TypeInv, TypeOK, HandInv, vars, bss, output, handler
<1>3. CASE Next
  BY <1>1, <1>3, OutTypes, RxTypes, LeaveTypes, TableTypes, TimerTypes DEF Next, Step, Output
<1>4. QED
  BY <1>1, <1>2, <1>3

LEMMA TypeHolds == Spec => []TypeInv
BY TypeInit, TypeStep, PTL DEF Spec

\* The ages stay in the field that holds them, the association ids in the
\* bitmap, and nobody has more frames released than were sent.
THEOREM TypeCorrect == Spec => []TypeOK
<1>1. TypeInv => TypeOK
  BY DEF TypeInv
<1>2. QED
  BY <1>1, TypeHolds, PTL

-----------------------------------------------------------------------------
(* The counter of the TIM.                                                 *)

LEMMA CardAdd ==
  ASSUME NEW S, IsFiniteSet(S), NEW x, x \notin S
  PROVE  Cardinality(S \cup {x}) = Cardinality(S) + 1
BY FS_AddElement

LEMMA CardDel ==
  ASSUME NEW S, IsFiniteSet(S), NEW x \in S
  PROVE  Cardinality(S \ {x}) = Cardinality(S) - 1
BY FS_RemoveElement

LEMMA SetTimCounts ==
  ASSUME TypeOK, NEW n \in Nodes, NEW on \in BOOLEAN, SetTim(n, on), PendingCounts
  PROVE  PendingCounts'
<1> DEFINE a == node[n].aid
<1>1. IsFiniteSet(tim)
  <2>1. IsFiniteSet(0 .. MaxAid - 1)
    BY FS_Interval
  <2>2. QED
    BY <2>1, FS_Subset DEF TypeOK
<1>2. CASE on = (a \in tim)
  BY <1>2 DEF SetTim, PendingCounts
<1>3. CASE on /\ a \notin tim
  BY <1>1, <1>3, CardAdd DEF SetTim, PendingCounts
<1>4. CASE ~on /\ a \in tim
  BY <1>1, <1>4, CardDel DEF SetTim, PendingCounts
<1>5. QED
  BY <1>2, <1>3, <1>4

LEMMA CountStep == TypeInv /\ PendingCounts /\ [Next]_vars => PendingCounts'
<1>1. SUFFICES ASSUME TypeInv, PendingCounts, [Next]_vars PROVE PendingCounts'
  OBVIOUS
<1>2. UNCHANGED <<tim, pending>>
      \/ \E n \in Nodes, on \in BOOLEAN : SetTim(n, on)
  <2> USE <1>1 DEF bss, output, handler
  <2>1. CASE UNCHANGED vars
    BY <2>1 DEF vars
  <2>2. ASSUME NEW n \in Nodes, OutFind(n) \/ DriverDone(n) \/ Auth(n) \/ TimerVisit(n)
        PROVE  UNCHANGED <<tim, pending>>
    BY <2>2 DEF OutFind, DriverDone, Auth, TimerVisit
  <2>3. ASSUME NEW h \in Handlers, NEW n \in Nodes, NEW j \in RxJobs, Find(h, n, j)
        PROVE  UNCHANGED <<tim, pending>>
    BY <2>3 DEF Find
  <2>4. CASE OutTest \/ OutSave
    BY <2>4 DEF OutTest, OutSave
  <2>5. CASE OutTim
    BY <2>5 DEF OutTim, TypeInv, HandInv
  <2>6. CASE Poll \/ SleepRead \/ SleepWrite \/ WakeRead \/ WakeWrite \/ Flush \/ Assoc
    BY <2>6 DEF Poll, SleepRead, SleepWrite, WakeRead, WakeWrite, Flush, Assoc
  <2>7. CASE Clear
    BY <2>7 DEF Clear, TypeInv, HandInv
  <2>8. CASE TimerCheck \/ TimerGoOn \/ TimerProbe \/ TimerExpire
    BY <2>8 DEF TimerCheck, TimerGoOn, TimerProbe, TimerExpire
  <2>9. CASE TimerClear
    BY <2>9 DEF TimerClear, TypeInv, HandInv
  <2>10. ASSUME NEW h \in Handlers, Put(h) \/ (NodeLeave(h) /\ ~Drained(h))
         PROVE  UNCHANGED <<tim, pending>>
    BY <2>10 DEF Put, NodeLeave, Leave, Unlist, CleanupRead, CleanupWrite, Drain, Forget, Reclaim
  <2>11. ASSUME NEW h \in Handlers, Drained(h)
         PROVE  SetTim(who[h], FALSE) /\ who[h] \in Nodes
    BY <2>11 DEF Drained, TypeInv, HandInv
  <2>12. QED
    BY <2>1, <2>2, <2>3, <2>4, <2>5, <2>6, <2>7, <2>8, <2>9, <2>10, <2>11
       DEF Next, Step, Output, Rx, Timer
<1>3. QED
  BY <1>1, <1>2, SetTimCounts DEF TypeInv, PendingCounts

\* The beacon finds a bit of the TIM to send whenever the counter says so,
\* for any interleaving of the handlers.
THEOREM PendingFramesCounted == Spec => []PendingCounts
<1>1. Init => PendingCounts
  BY FS_EmptySet DEF Init, PendingCounts
<1>2. QED
  BY <1>1, CountStep, TypeHolds, PTL DEF Spec

-----------------------------------------------------------------------------
(* Association ids.                                                        *)

\* An association id in use is taken in the bitmap.
AidInv == AidsUnique /\ \A n \in Nodes : node[n].aid # 0 => node[n].aid \in aids

LEMMA ReleaseAids ==
  ASSUME TypeInv, AidInv, NEW n \in Nodes, NEW r \in Node, r.aid = node[n].aid, Release(n, r)
  PROVE  AidInv'
<1> DEFINE new == IF Last(n) THEN Blank ELSE [r EXCEPT !.refs = @ - 1]
<1>1. node' = [node EXCEPT ![n] = new] /\ node \in [Nodes -> Node]
  BY DEF Release, TypeInv, TypeOK
<1>2. new.aid = IF Last(n) THEN 0 ELSE node[n].aid
  BY DEF Blank, Node
<1> HIDE DEF new
<1>3. \A m \in Nodes : node'[m].aid = IF m = n THEN new.aid ELSE node[m].aid
  BY <1>1
<1>4. aids' = IF Last(n) THEN aids \ {node[n].aid} ELSE aids
  BY DEF Release
<1>5. QED
  BY <1>2, <1>3, <1>4 DEF AidInv, AidsUnique

\* A field of one node changes that is not its association id.
LEMMA AidKept ==
  ASSUME TypeOK, NEW n, NEW r, n \in Nodes => r.aid = node[n].aid,
         node' = [node EXCEPT ![n] = r]
  PROVE  \A m \in Nodes : node'[m].aid = node[m].aid
<1>1. SUFFICES ASSUME NEW m \in Nodes PROVE node'[m].aid = node[m].aid
  OBVIOUS
<1>2. node \in [Nodes -> Node]
  BY DEF TypeOK
<1>3. node'[m] = IF m = n THEN r ELSE node[m]
  BY <1>2
<1>4. QED
  BY <1>3

LEMMA FieldsKeepAid ==
  ASSUME NEW r \in Node, NEW x, NEW y
  PROVE  /\ [r EXCEPT !.refs = x].aid = r.aid
         /\ [r EXCEPT !.sent = x].aid = r.aid
         /\ [r EXCEPT !.pwr = x].aid = r.aid
         /\ [r EXCEPT !.life = x].aid = r.aid
         /\ [r EXCEPT !.saved = x].aid = r.aid
         /\ [r EXCEPT !.st = x, !.refs = y].aid = r.aid
         /\ [r EXCEPT !.refs = x, !.sent = y].aid = r.aid
         /\ [r EXCEPT !.saved = x, !.sent = y].aid = r.aid
         /\ [r EXCEPT !.saved = x, !.refs = y].aid = r.aid
BY DEF Node

\* Most steps change no association id.
LEMMA AidsKept ==
  ASSUME TypeInv, AidInv, UNCHANGED aids, \A n \in Nodes : node'[n].aid = node[n].aid
  PROVE  AidInv'
BY DEF AidInv, AidsUnique

LEMMA AidStep == TypeInv /\ AidInv /\ [Next]_vars => AidInv'
<1>1. SUFFICES ASSUME TypeInv, AidInv, [Next]_vars PROVE AidInv'
  OBVIOUS
<1> USE <1>1 DEF bss, output, handler
<1>t. TypeOK /\ node \in [Nodes -> Node] /\ \A n \in Nodes : node[n] \in Node
  BY DEF TypeInv, TypeOK
\* A node gives its id up.
<1>g. ASSUME NEW n \in Nodes, node' = [node EXCEPT ![n].aid = 0],
             aids' = aids \/ aids' = aids \ {node[n].aid}
      PROVE  AidInv'
  <2>1. \A m \in Nodes : node'[m].aid = IF m = n THEN 0 ELSE node[m].aid
    BY <1>g, <1>t DEF Node
  <2>2. QED
    BY <1>g, <2>1 DEF AidInv, AidsUnique
\* A step that writes one node, whose id stays, and no bit of the bitmap.
<1>k. ASSUME NEW n \in Nodes, NEW r, r.aid = node[n].aid,
             node' = [node EXCEPT ![n] = r], UNCHANGED aids
      PROVE  AidInv'
  BY <1>k, <1>t, AidKept, AidsKept
<1>u. ASSUME UNCHANGED <<node, aids>>
      PROVE  AidInv'
  BY <1>u DEF AidInv, AidsUnique
<1>h. \A h \in Handlers : pc[h] # "idle" => who[h] \in Nodes
  BY DEF TypeInv, HandInv
<1>1a. CASE UNCHANGED vars
  BY <1>1a, <1>u DEF vars
<1>2. CASE Output
  <2>1. opc # "idle" => onode \in Nodes
    BY DEF TypeInv, HandInv
  <2>2. CASE OutTest
    <3>1. CASE node[onode].pwr
      BY <2>2, <3>1, <1>u DEF OutTest
    <3>2. CASE ~node[onode].pwr
      <4>1. onode \in Nodes
            /\ node' = [node EXCEPT ![onode] = [node[onode] EXCEPT !.sent = @ + 1]]
        BY <2>1, <2>2, <3>2 DEF OutTest
      <4>2. QED
        BY <2>2, <4>1, <1>t, <1>k, FieldsKeepAid DEF OutTest
    <3>3. QED
      BY <3>1, <3>2
  <2>3. CASE OutSave
    <3>1. onode \in Nodes /\ UNCHANGED aids
      BY <2>1, <2>3 DEF OutSave
    <3>2. Saved(node[onode]).aid = node[onode].aid
      BY <3>1, <1>t, SavedNode DEF Node
    <3>3. node' = node \/ node' = [node EXCEPT ![onode] = Saved(node[onode])]
      BY <2>3 DEF OutSave
    <3>4. QED
      BY <3>1, <3>2, <3>3, <1>k, <1>u
  <2>4. CASE OutTim
    BY <2>4, <1>u DEF OutTim
  <2>5. QED
    BY <1>2, <2>2, <2>3, <2>4 DEF Output
<1>3. ASSUME NEW n \in Nodes, OutFind(n)
      PROVE  AidInv'
  <2>1. node' = [node EXCEPT ![n] = [node[n] EXCEPT !.refs = @ + 1]] /\ UNCHANGED aids
    BY <1>3 DEF OutFind
  <2>2. QED
    BY <2>1, <1>t, <1>k, FieldsKeepAid
<1>4. ASSUME NEW n \in Nodes, Auth(n)
      PROVE  AidInv'
  <2>1. node' = [node EXCEPT ![n] = [node[n] EXCEPT !.st = "table", !.refs = 1]]
        /\ UNCHANGED aids
    BY <1>4 DEF Auth
  <2>2. [node[n] EXCEPT !.st = "table", !.refs = 1].aid = node[n].aid
    BY <1>t DEF Node
  <2>3. QED
    BY <2>1, <2>2, <1>k
<1>5. ASSUME NEW n \in Nodes, TimerVisit(n)
      PROVE  AidInv'
  <2>1. UNCHANGED aids
        /\ (node' = node
            \/ node' = [node EXCEPT ![n] = [node[n] EXCEPT !.saved = Aged(node[n].saved)]])
    BY <1>5 DEF TimerVisit
  <2>2. QED
    BY <2>1, <1>t, <1>k, <1>u, FieldsKeepAid
<1>6. ASSUME NEW n \in Nodes, DriverDone(n)
      PROVE  AidInv'
  <2>1. [node[n] EXCEPT !.sent = @ - 1] \in Node
    <3>1. node[n] \in Node /\ node[n].sent - 1 \in Nat
      BY <1>6, NodeTypes DEF DriverDone, TypeInv
    <3>2. QED
      BY <3>1 DEF Node
  <2>2. [node[n] EXCEPT !.sent = @ - 1].aid = node[n].aid
    BY <1>t, FieldsKeepAid
  <2>3. QED
    BY <1>6, <2>1, <2>2, ReleaseAids DEF DriverDone
<1>7. ASSUME NEW h \in Handlers, NEW n \in Nodes, NEW j \in RxJobs, Find(h, n, j)
      PROVE  AidInv'
  <2>1. node' = [node EXCEPT ![n] = [node[n] EXCEPT !.refs = @ + 1]] /\ UNCHANGED aids
    BY <1>7 DEF Find
  <2>2. QED
    BY <2>1, <1>t, <1>k, FieldsKeepAid
<1>8. ASSUME NEW h \in Handlers, Put(h)
      PROVE  AidInv'
  <2>1. who[h] \in Nodes /\ Release(who[h], node[who[h]])
    BY <1>8, <1>h DEF Put, Unref
  <2>2. QED
    BY <2>1, <1>t, ReleaseAids
<1>9. CASE Rx
  <2> DEFINE n == who["rx"]
             r == node[n]
  <2>1. "rx" \in Handlers /\ (pc["rx"] # "idle" => n \in Nodes /\ r \in Node)
    BY <1>h, <1>t
  <2>2. CASE Clear \/ SleepRead \/ WakeRead
    BY <2>2, <1>u DEF Clear, SleepRead, WakeRead
  <2>3. CASE Poll
    <3>1. \/ node' = node
          \/ node' = [node EXCEPT ![n] = [r EXCEPT !.refs = @ + 1, !.sent = @ + 1]]
          \/ node' = [node EXCEPT ![n] = [r EXCEPT !.saved = Tail(@), !.sent = @ + 1]]
      BY <2>3 DEF Poll, HandOver
    <3>2. n \in Nodes /\ UNCHANGED aids
      BY <2>1, <2>3 DEF Poll
    <3>3. [r EXCEPT !.saved = Tail(@), !.sent = @ + 1].aid = r.aid
          /\ [r EXCEPT !.refs = @ + 1, !.sent = @ + 1].aid = r.aid
      BY <2>1, <3>2 DEF Node
    <3>4. QED
      BY <3>1, <3>2, <3>3, <1>k, <1>u
  <2>4. CASE Flush
    <3>1. \/ node' = node
          \/ node' = [node EXCEPT ![n] = [r EXCEPT !.saved = Tail(@), !.sent = @ + 1]]
      BY <2>4 DEF Flush, HandOver
    <3>2. n \in Nodes /\ UNCHANGED aids
      BY <2>1, <2>4 DEF Flush
    <3>3. [r EXCEPT !.saved = Tail(@), !.sent = @ + 1].aid = r.aid
      BY <2>1, <3>2 DEF Node
    <3>4. QED
      BY <3>1, <3>2, <3>3, <1>k, <1>u
  <2>5. CASE SleepWrite \/ WakeWrite
    <3>1. PICK b \in BOOLEAN : node' = [node EXCEPT ![n] = [r EXCEPT !.pwr = b]]
      BY <2>5 DEF SleepWrite, WakeWrite, SetPower
    <3>2. n \in Nodes /\ UNCHANGED aids
      BY <2>1, <2>5 DEF SleepWrite, WakeWrite
    <3>3. QED
      BY <2>1, <3>1, <3>2, <1>t, <1>k, FieldsKeepAid
  <2>6. CASE Assoc
    <3>1. n \in Nodes
      BY <2>1, <2>6 DEF Assoc
    <3>2. CASE r.aid # 0
      <4>1. PICK l \in Lifetimes : node' = [node EXCEPT ![n] = [r EXCEPT !.life = l]]
        BY <2>6, <3>2 DEF Assoc
      <4>2. UNCHANGED aids
        BY <2>6, <3>2 DEF Assoc
      <4>3. QED
        BY <3>1, <4>1, <4>2, <1>t, <1>k, FieldsKeepAid
    <3>3. CASE r.aid = 0 /\ Aids \ aids = {}
      BY <2>6, <3>3, <1>u DEF Assoc
    <3>4. CASE r.aid = 0 /\ Aids \ aids # {}
      <4>1. PICK a \in Aids \ aids : a = Min(Aids \ aids)
        BY <3>4, MinIsIn DEF Aids
      <4>2. PICK l \in Lifetimes : node' = [node EXCEPT ![n].life = l, ![n].aid = a]
        BY <2>6, <3>4, <4>1 DEF Assoc
      <4>3. aids' = aids \cup {a}
        BY <2>6, <3>4, <4>1 DEF Assoc
      <4>4. \A m \in Nodes : node'[m].aid = IF m = n THEN a ELSE node[m].aid
        BY <3>1, <4>2, <1>t DEF Node
      <4>5. QED
        BY <4>1, <4>3, <4>4 DEF AidInv, AidsUnique
    <3>5. QED
      BY <3>2, <3>3, <3>4
  <2>7. QED
    BY <1>9, <2>2, <2>3, <2>4, <2>5, <2>6 DEF Rx
<1>10. ASSUME NEW h \in Handlers, NodeLeave(h)
       PROVE  AidInv'
  <2> DEFINE n == who[h]
             r == node[n]
  <2>1. pc[h] # "idle" => n \in Nodes /\ r \in Node
    BY <1>h, <1>t
  <2>2. CASE Unlist(h) \/ Forget(h)
    BY <2>1, <2>2, <1>g DEF Unlist, Forget
  <2>3. CASE Leave(h) \/ CleanupRead(h) \/ Drained(h)
    BY <2>3, <1>u DEF Leave, CleanupRead, Drained
  <2>4. CASE CleanupWrite(h)
    <3>1. n \in Nodes /\ UNCHANGED aids
          /\ node' = [node EXCEPT ![n] = [r EXCEPT !.pwr = FALSE]]
      BY <2>1, <2>4 DEF CleanupWrite, SetPower
    <3>2. QED
      BY <2>1, <3>1, <1>t, <1>k, FieldsKeepAid
  <2>5. CASE Drain(h)
    <3>1. n \in Nodes /\ UNCHANGED aids
          /\ node' = [node EXCEPT ![n] = [r EXCEPT !.saved = << >>, !.refs = @ - Len(r.saved)]]
      BY <2>1, <2>5 DEF Drain
    <3>2. [r EXCEPT !.saved = << >>, !.refs = @ - Len(r.saved)].aid = r.aid
      BY <2>1, <3>1 DEF Node
    <3>3. QED
      BY <3>1, <3>2, <1>k
  <2>6. CASE Reclaim(h)
    <3>1. n \in Nodes
      BY <2>1, <2>6 DEF Reclaim
    <3>2. CASE Last(n)
      BY <2>6, <3>1, <3>2, <1>t, ReleaseAids DEF Reclaim, Unref
    <3>3. CASE ~Last(n)
      <4>1. UNCHANGED aids
            /\ node' = [node EXCEPT ![n] = [r EXCEPT !.st = "gone", !.refs = @ - 1]]
        BY <2>6, <3>3 DEF Reclaim
      <4>2. [r EXCEPT !.st = "gone", !.refs = @ - 1].aid = r.aid
        BY <3>1, <1>t DEF Node
      <4>3. QED
        BY <3>1, <4>1, <4>2, <1>k
    <3>4. QED
      BY <3>2, <3>3
  <2>7. QED
    BY <1>10, <2>2, <2>3, <2>4, <2>5, <2>6 DEF NodeLeave
<1>11. CASE Timer
  <2> DEFINE n == who["timer"]
             r == node[n]
  <2>1. "timer" \in Handlers /\ (pc["timer"] # "idle" => n \in Nodes /\ r \in Node)
    BY <1>h, <1>t
  <2>2. CASE TimerCheck \/ TimerClear \/ TimerGoOn
    BY <2>2, <1>u DEF TimerCheck, TimerClear, TimerGoOn
  <2>3. CASE TimerProbe
    <3>1. n \in Nodes /\ UNCHANGED aids
          /\ node' = [node EXCEPT ![n] = [r EXCEPT !.refs = @ + 1, !.sent = @ + 1]]
      BY <2>1, <2>3 DEF TimerProbe
    <3>2. [r EXCEPT !.refs = @ + 1, !.sent = @ + 1].aid = r.aid
      BY <2>1, <3>1 DEF Node
    <3>3. QED
      BY <3>1, <3>2, <1>k
  <2>4. CASE TimerExpire
    <3>1. n \in Nodes /\ UNCHANGED aids
          /\ node' = [node EXCEPT ![n] = [r EXCEPT !.refs = @ + 1]]
      BY <2>1, <2>4 DEF TimerExpire
    <3>2. QED
      BY <2>1, <3>1, <1>t, <1>k, FieldsKeepAid
  <2>5. QED
    BY <1>11, <2>2, <2>3, <2>4 DEF Timer
<1>12. QED
  BY <1>1a, <1>2, <1>3, <1>4, <1>5, <1>6, <1>7, <1>8, <1>9, <1>10, <1>11 DEF Next, Step

\* Two stations never share a bit of the TIM, whoever joins and leaves.
THEOREM AidsNotShared == Spec => []AidsUnique
<1>1. Init => AidInv
  BY DEF Init, AidInv, AidsUnique, Blank
<1>2. AidInv => AidsUnique
  BY DEF AidInv
<1>3. QED
  BY <1>1, <1>2, AidStep, TypeHolds, PTL DEF Spec

-----------------------------------------------------------------------------
(* The count of sleeping stations.                                         *)

Sleepers == {n \in Nodes : node[n].pwr}

\* The power state of one node at most changes, and the counter with it.
LEMMA PwrOne ==
  ASSUME TypeOK, NEW n \in Nodes, NEW r \in Node, NEW d \in {-1, 0, 1},
         node' = [node EXCEPT ![n] = r], psSta' = psSta + d,
         fault = "none", PsCounts,
         \/ d = 0 /\ r.pwr = node[n].pwr
         \/ d = 1 /\ r.pwr /\ ~node[n].pwr
         \/ d = -1 /\ ~r.pwr /\ node[n].pwr
  PROVE  PsCounts'
<1>1. IsFiniteSet(Sleepers) /\ psSta = Cardinality(Sleepers) /\ psSta \in Int
  <2>1. IsFiniteSet(Sleepers)
    BY FS_Subset DEF Sleepers
  <2>2. QED
    BY <2>1 DEF PsCounts, Sleepers, TypeOK
<1>2. \A m \in Nodes : node'[m].pwr = IF m = n THEN r.pwr ELSE node[m].pwr
  BY DEF TypeOK
<1>3. r.pwr \in BOOLEAN /\ node[n].pwr \in BOOLEAN
  BY NodeTypes DEF Node
<1>4. psSta' = Cardinality(Sleepers')
  <2>1. CASE d = 0
    <3>1. Sleepers' = Sleepers
      BY <1>2, <2>1 DEF Sleepers
    <3>2. QED
      BY <1>1, <2>1, <3>1
  <2>2. CASE d = 1
    <3>1. Sleepers' = Sleepers \cup {n} /\ n \notin Sleepers
      BY <1>2, <2>2 DEF Sleepers
    <3>2. QED
      BY <1>1, <2>2, <3>1, CardAdd
  <2>3. CASE d = -1
    <3>1. Sleepers' = Sleepers \ {n} /\ n \in Sleepers
      BY <1>2, <2>3 DEF Sleepers
    <3>2. Cardinality(Sleepers \ {n}) = Cardinality(Sleepers) - 1
      BY <1>1, <3>1, CardDel
    <3>3. QED
      BY <1>1, <2>3, <3>1, <3>2
  <2>4. QED
    BY <2>1, <2>2, <2>3
<1>5. QED
  BY <1>4 DEF PsCounts, Sleepers

\* A node released with its last reference does not sleep any more.
LEMMA ReleasePs ==
  ASSUME TypeOK, NEW n \in Nodes, NEW r \in Node, r.pwr = node[n].pwr, Release(n, r),
         fault = "none", PsCounts
  PROVE  PsCounts'
<1> DEFINE new == IF Last(n) THEN Blank ELSE [r EXCEPT !.refs = @ - 1]
           d == IF Last(n) /\ node[n].pwr THEN -1 ELSE 0
<1>1. new \in Node
  <2>1. r.refs - 1 \in Int
    BY DEF Node
  <2>2. [r EXCEPT !.refs = @ - 1] \in Node
    BY <2>1 DEF Node
  <2>3. QED
    BY <2>2, BlankNode
<1>2. new.pwr = IF Last(n) THEN FALSE ELSE node[n].pwr
  BY DEF Blank, Node
<1>3. node' = [node EXCEPT ![n] = new]
  BY DEF Release
<1>4. psSta' = psSta + d /\ d \in {-1, 0, 1}
  BY DEF Release, TypeOK
<1>5. node[n].pwr \in BOOLEAN
  BY NodeTypes
<1>6. \/ d = 0 /\ new.pwr = node[n].pwr
      \/ d = -1 /\ ~new.pwr /\ node[n].pwr
  BY <1>2, <1>5
<1> HIDE DEF new, d
<1>7. QED
  BY <1>1, <1>3, <1>4, <1>6, PwrOne

\* A handler that writes a value it read before another wrote is a lost update.
LEMMA SetPowerPs ==
  ASSUME TypeOK, NEW h \in Handlers, who[h] \in Nodes, NEW b \in BOOLEAN, SetPower(h, b),
         fault = "none", PsCounts
  PROVE  PsCounts'
<1> DEFINE n == who[h]
           r == [node[n] EXCEPT !.pwr = b]
           d == IF b THEN 1 ELSE -1
<1>1. CASE fault' # "none"
  BY <1>1 DEF PsCounts
<1>2. CASE fault' = "none"
  <2>1. reg[h] = psSta /\ node[n].pwr # b
    BY <1>2 DEF SetPower
  <2>2. node[n] \in Node /\ node[n].pwr \in BOOLEAN
    BY NodeTypes
  <2>3. r \in Node /\ r.pwr = b
    BY <2>2 DEF Node
  <2>4. node' = [node EXCEPT ![n] = r]
    BY DEF SetPower
  <2>5. psSta' = psSta + d /\ d \in {-1, 0, 1}
    BY <2>1 DEF SetPower, TypeOK
  <2>6. \/ d = 1 /\ r.pwr /\ ~node[n].pwr
        \/ d = -1 /\ ~r.pwr /\ node[n].pwr
    BY <2>1, <2>2, <2>3
  <2> HIDE DEF r, d
  <2>7. QED
    BY <2>3, <2>4, <2>5, <2>6, PwrOne
<1>3. QED
  BY <1>1, <1>2

\* Every other step leaves the power states as they are.
LEMMA PwrSame ==
  ASSUME TypeOK, fault = "none", PsCounts, UNCHANGED psSta,
         \A n \in Nodes : node'[n].pwr = node[n].pwr
  PROVE  PsCounts'
<1>1. {n \in Nodes : node'[n].pwr} = {n \in Nodes : node[n].pwr}
  OBVIOUS
<1>2. QED
  BY <1>1 DEF PsCounts

LEMMA PsStep == TypeInv /\ PsCounts /\ [Next]_vars => PsCounts'
<1>1. SUFFICES ASSUME TypeInv, PsCounts, [Next]_vars PROVE PsCounts'
  OBVIOUS
<1> USE DEF bss, output, handler
<1>t. TypeOK /\ node \in [Nodes -> Node] /\ \A n \in Nodes : node[n] \in Node
  BY <1>1 DEF TypeInv, TypeOK
<1>h. (\A h \in Handlers : pc[h] # "idle" => who[h] \in Nodes)
      /\ (opc # "idle" => onode \in Nodes)
  BY <1>1 DEF TypeInv, HandInv
<1>2. CASE UNCHANGED vars
  BY <1>1, <1>2 DEF vars, PsCounts
<1>3. CASE Next
  <2>f. fault = "none"
    BY <1>3 DEF Next
  \* A step that writes one node, whose power state stays.
  <2>k. ASSUME NEW n \in Nodes, NEW r, r.pwr = node[n].pwr,
               node' = [node EXCEPT ![n] = r], UNCHANGED psSta
        PROVE  PsCounts'
    <3>1. \A m \in Nodes : node'[m].pwr = node[m].pwr
      BY <2>k, <1>t
    <3>2. QED
      BY <3>1, <2>k, <1>1, <1>t, <2>f, PwrSame
  <2>u. ASSUME UNCHANGED <<node, psSta>>
        PROVE  PsCounts'
    BY <2>u, <1>1, <1>t, <2>f, PwrSame
  <2>e. ASSUME NEW n \in Nodes, NEW x
        PROVE  /\ [node[n] EXCEPT !.refs = x].pwr = node[n].pwr
               /\ [node[n] EXCEPT !.sent = x].pwr = node[n].pwr
               /\ [node[n] EXCEPT !.aid = x].pwr = node[n].pwr
               /\ [node[n] EXCEPT !.life = x].pwr = node[n].pwr
               /\ [node[n] EXCEPT !.saved = x].pwr = node[n].pwr
    BY <1>t DEF Node
  <2>1. CASE OutTest
    <3>1. CASE node[onode].pwr
      BY <2>1, <3>1, <2>u DEF OutTest
    <3>2. CASE ~node[onode].pwr
      <4>1. onode \in Nodes /\ UNCHANGED psSta
            /\ node' = [node EXCEPT ![onode] = [node[onode] EXCEPT !.sent = @ + 1]]
        BY <1>h, <2>1, <3>2 DEF OutTest
      <4>2. QED
        BY <4>1, <2>k, <2>e
    <3>3. QED
      BY <3>1, <3>2
  <2>2. CASE OutSave
    <3>1. onode \in Nodes /\ UNCHANGED psSta
          /\ (node' = node \/ node' = [node EXCEPT ![onode] = Saved(node[onode])])
      BY <1>h, <2>2 DEF OutSave
    <3>2. Saved(node[onode]).pwr = node[onode].pwr
      BY <3>1, <1>t, SavedNode DEF Node
    <3>3. QED
      BY <3>1, <3>2, <2>k, <2>u
  <2>3. CASE OutTim \/ Clear \/ SleepRead \/ WakeRead \/ TimerCheck \/ TimerClear \/ TimerGoOn
    BY <2>3, <2>u DEF OutTim, Clear, SleepRead, WakeRead, TimerCheck, TimerClear, TimerGoOn
  <2>4. ASSUME NEW n \in Nodes, OutFind(n) \/ Auth(n) \/ TimerVisit(n)
                                  \/ \E h \in Handlers, j \in RxJobs : Find(h, n, j)
        PROVE  PsCounts'
    <3>1. UNCHANGED psSta
          /\ \/ node' = node
             \/ node' = [node EXCEPT ![n] = [node[n] EXCEPT !.refs = @ + 1]]
             \/ node' = [node EXCEPT ![n] = [node[n] EXCEPT !.st = "table", !.refs = 1]]
             \/ node' = [node EXCEPT ![n] = [node[n] EXCEPT !.saved = Aged(node[n].saved)]]
      BY <2>4 DEF OutFind, Auth, TimerVisit, Find
    <3>2. CASE node' = [node EXCEPT ![n] = [node[n] EXCEPT !.refs = @ + 1]]
      BY <3>1, <3>2, <2>k, <2>e
    <3>3. CASE node' = [node EXCEPT ![n] = [node[n] EXCEPT !.st = "table", !.refs = 1]]
      <4>1. [node[n] EXCEPT !.st = "table", !.refs = 1].pwr = node[n].pwr
        BY <3>1, <3>3, <1>t DEF Node
      <4>2. QED
        BY <3>1, <3>3, <4>1, <2>k
    <3>4. CASE node' = [node EXCEPT ![n] = [node[n] EXCEPT !.saved = Aged(node[n].saved)]]
      BY <3>1, <3>4, <2>k, <2>e
    <3>5. QED
      BY <3>1, <3>2, <3>3, <3>4, <2>u
  <2>5. ASSUME NEW n \in Nodes, DriverDone(n)
        PROVE  PsCounts'
    <3>1. node[n] \in Node /\ node[n].sent - 1 \in Nat
      BY <2>5, <1>t, NodeTypes DEF DriverDone
    <3>2. [node[n] EXCEPT !.sent = @ - 1] \in Node
      BY <3>1 DEF Node
    <3>3. QED
      BY <2>5, <3>2, <2>e, <2>f, <1>1, <1>t, ReleasePs DEF DriverDone
  <2>6. ASSUME NEW h \in Handlers, Put(h)
        PROVE  PsCounts'
    <3>1. who[h] \in Nodes /\ Release(who[h], node[who[h]])
      BY <2>6, <1>h DEF Put, Unref
    <3>2. QED
      BY <3>1, <2>f, <1>1, <1>t, ReleasePs
  <2>7. CASE Poll \/ Flush \/ Assoc
    <3> DEFINE n == who["rx"]
               r == node[n]
    <3>1. "rx" \in Handlers /\ n \in Nodes /\ UNCHANGED psSta
      BY <2>7, <1>h DEF Poll, Flush, Assoc
    <3>2. CASE Poll \/ Flush
      <4>1. \/ node' = node
            \/ node' = [node EXCEPT ![n] = [r EXCEPT !.refs = @ + 1, !.sent = @ + 1]]
            \/ node' = [node EXCEPT ![n] = [r EXCEPT !.saved = Tail(@), !.sent = @ + 1]]
        BY <3>2 DEF Poll, Flush, HandOver
      <4>2. CASE node' = [node EXCEPT ![n] = [r EXCEPT !.refs = @ + 1, !.sent = @ + 1]]
        <5>1. [r EXCEPT !.refs = @ + 1, !.sent = @ + 1].pwr = r.pwr
          BY <4>2, <3>1, <1>t DEF Node
        <5>2. QED
          BY <4>2, <3>1, <5>1, <2>k
      <4>3. CASE node' = [node EXCEPT ![n] = [r EXCEPT !.saved = Tail(@), !.sent = @ + 1]]
        <5>1. [r EXCEPT !.saved = Tail(@), !.sent = @ + 1].pwr = r.pwr
          BY <4>3, <3>1, <1>t DEF Node
        <5>2. QED
          BY <4>3, <3>1, <5>1, <2>k
      <4>4. QED
        BY <4>1, <4>2, <4>3, <3>1, <2>u
    <3>3. CASE Assoc
      <4>1. CASE r.aid # 0
        <5>1. PICK l \in Lifetimes : node' = [node EXCEPT ![n] = [r EXCEPT !.life = l]]
          BY <3>3, <4>1 DEF Assoc
        <5>2. QED
          BY <5>1, <3>1, <2>k, <2>e
      <4>2. CASE r.aid = 0 /\ Aids \ aids = {}
        BY <3>1, <3>3, <4>2, <2>u DEF Assoc
      <4>3. CASE r.aid = 0 /\ Aids \ aids # {}
        <5> DEFINE a == Min(Aids \ aids)
        <5>1. PICK l \in Lifetimes : node' = [node EXCEPT ![n].life = l, ![n].aid = a]
          BY <3>3, <4>3 DEF Assoc
        <5> HIDE DEF a
        <5>2. \A m \in Nodes : node'[m].pwr = node[m].pwr
          BY <5>1, <3>1, <1>t DEF Node
        <5>3. QED
          BY <5>2, <3>1, <1>1, <1>t, <2>f, PwrSame
      <4>4. QED
        BY <4>1, <4>2, <4>3
    <3>4. QED
      BY <2>7, <3>2, <3>3
  <2>8. CASE SleepWrite \/ WakeWrite
    <3>1. "rx" \in Handlers /\ who["rx"] \in Nodes
          /\ \E b \in BOOLEAN : SetPower("rx", b)
      BY <2>8, <1>h DEF SleepWrite, WakeWrite
    <3>2. QED
      BY <3>1, <2>f, <1>1, <1>t, SetPowerPs
  <2>9. ASSUME NEW h \in Handlers, NodeLeave(h)
        PROVE  PsCounts'
    <3> DEFINE n == who[h]
               r == node[n]
    <3>1. n \in Nodes
      BY <2>9, <1>h DEF NodeLeave, Leave, Unlist, CleanupRead, CleanupWrite, Drain, Drained,
                        Forget, Reclaim
    <3>2. CASE Leave(h) \/ CleanupRead(h) \/ Drained(h)
      BY <3>2, <2>u DEF Leave, CleanupRead, Drained
    <3>3. CASE Unlist(h) \/ Forget(h)
      <4>1. UNCHANGED psSta /\ node' = [node EXCEPT ![n] = [r EXCEPT !.aid = 0]]
        BY <3>3 DEF Unlist, Forget
      <4>2. QED
        BY <4>1, <3>1, <2>k, <2>e
    <3>4. CASE Drain(h)
      <4>1. UNCHANGED psSta
            /\ node' = [node EXCEPT ![n] = [r EXCEPT !.saved = << >>, !.refs = @ - Len(r.saved)]]
        BY <3>4 DEF Drain
      <4>2. [r EXCEPT !.saved = << >>, !.refs = @ - Len(r.saved)].pwr = r.pwr
        BY <3>1, <1>t DEF Node
      <4>3. QED
        BY <3>1, <4>1, <4>2, <2>k
    <3>5. CASE CleanupWrite(h)
      BY <3>1, <3>5, <2>f, <1>1, <1>t, SetPowerPs DEF CleanupWrite
    <3>6. CASE Reclaim(h)
      <4>1. CASE Last(n)
        BY <3>1, <3>6, <4>1, <2>f, <1>1, <1>t, ReleasePs DEF Reclaim, Unref
      <4>2. CASE ~Last(n)
        <5>1. UNCHANGED psSta
              /\ node' = [node EXCEPT ![n] = [r EXCEPT !.st = "gone", !.refs = @ - 1]]
          BY <3>6, <4>2 DEF Reclaim
        <5>2. [r EXCEPT !.st = "gone", !.refs = @ - 1].pwr = r.pwr
          BY <3>1, <1>t DEF Node
        <5>3. QED
          BY <5>1, <5>2, <3>1, <2>k
      <4>3. QED
        BY <4>1, <4>2
    <3>7. QED
      BY <2>9, <3>2, <3>3, <3>5, <3>6, <3>4 DEF NodeLeave
  <2>10. CASE TimerProbe \/ TimerExpire
    <3> DEFINE n == who["timer"]
               r == node[n]
    <3>1. n \in Nodes /\ UNCHANGED psSta
          /\ \/ node' = [node EXCEPT ![n] = [r EXCEPT !.refs = @ + 1, !.sent = @ + 1]]
             \/ node' = [node EXCEPT ![n] = [r EXCEPT !.refs = @ + 1]]
      BY <2>10, <1>h DEF TimerProbe, TimerExpire
    <3>2. CASE node' = [node EXCEPT ![n] = [r EXCEPT !.refs = @ + 1, !.sent = @ + 1]]
      <4>1. [r EXCEPT !.refs = @ + 1, !.sent = @ + 1].pwr = r.pwr
        BY <3>1, <3>2, <1>t DEF Node
      <4>2. QED
        BY <3>1, <3>2, <4>1, <2>k
    <3>3. CASE node' = [node EXCEPT ![n] = [r EXCEPT !.refs = @ + 1]]
      BY <3>1, <3>3, <2>k, <2>e
    <3>4. QED
      BY <3>1, <3>2, <3>3
  <2>11. QED
    BY <1>3, <2>1, <2>2, <2>3, <2>4, <2>5, <2>6, <2>7, <2>8, <2>9, <2>10
       DEF Next, Step, Output, Rx, Timer
<1>4. QED
  BY <1>1, <1>2, <1>3

\* As long as no update of iv_ps_sta is lost, it is the number of stations
\* asleep, whichever way each of them leaves, wakes or is freed.
THEOREM SleepersCounted == Spec => []PsCounts
<1>1. Init => PsCounts
  <2>1. SUFFICES ASSUME Init PROVE {n \in Nodes : node[n].pwr} = {} /\ psSta = 0
    BY FS_EmptySet DEF PsCounts
  <2>2. \A n \in Nodes : ~node[n].pwr
    BY <2>1 DEF Init, Blank
  <2>3. QED
    BY <2>1, <2>2 DEF Init
<1>2. QED
  BY <1>1, PsStep, TypeHolds, PTL DEF Spec

-----------------------------------------------------------------------------
(* The references.                                                         *)

Uncounted == TimerHolds \cup {"idle"}
Others(n) == Nodes \ {n}

\* A free node has no references; a node that is being left, or that the
\* timer looks at with the table locked, is in the table, and nobody else
\* leaves it.
FreeInv == \A n \in Nodes : node[n].st = "free" => node[n].refs = 0
HoldInv == \A h \in Handlers : pc[h] \in Leaving \cup TimerHolds => node[who[h]].st = "table"
AloneInv ==
  \A g, h \in Handlers :
    pc[g] \in Leaving /\ pc[h] \in Leaving /\ who[g] = who[h] => g = h
RefInv == RefsCover /\ FreeInv /\ HoldInv /\ AloneInv

\* The handlers that refer to a node, counted.
LEMMA HandlersFinite == IsFiniteSet(Handlers)
<1>1. IsFiniteSet({"rx", "timer"})
  <2>1. IsFiniteSet({"rx"})
    BY FS_Singleton
  <2>2. IsFiniteSet({"rx"} \cup {"timer"})
    BY <2>1, FS_AddElement
  <2>3. {"rx"} \cup {"timer"} = {"rx", "timer"}
    OBVIOUS
  <2>4. QED
    BY <2>2, <2>3
<1>2. QED
  BY <1>1, FS_Union

LEMMA HrNat ==
  ASSUME NEW n \in Nodes
  PROVE  HandlerRefs(n) \in Nat /\ HandlerRefs(n)' \in Nat
<1>1. ASSUME NEW S \in SUBSET Handlers
      PROVE  Cardinality(S) \in Nat
  BY HandlersFinite, FS_Subset, FS_CardinalityType
<1>2. HandlerRefs(n) \in Nat
  BY <1>1 DEF HandlerRefs
<1>3. HandlerRefs(n)' \in Nat
  BY <1>1 DEF HandlerRefs
<1>4. QED
  BY <1>2, <1>3

LEMMA HrPositive ==
  ASSUME NEW h \in Handlers, pc[h] \notin Uncounted
  PROVE  HandlerRefs(who[h]) >= 1
<1> DEFINE S == {g \in Handlers : who[g] = who[h] /\ pc[g] \notin TimerHolds \cup {"idle"}}
<1>1. h \in S /\ IsFiniteSet(S)
  BY HandlersFinite, FS_Subset DEF Uncounted
<1>2. Cardinality(S) \in Nat /\ Cardinality(S) # 0
  BY <1>1, FS_CardinalityType, FS_EmptySet
<1>3. QED
  BY <1>2 DEF HandlerRefs

LEMMA HrSame ==
  ASSUME \A g \in Handlers : /\ pc'[g] \in Uncounted <=> pc[g] \in Uncounted
                             /\ pc[g] \notin Uncounted => who'[g] = who[g]
  PROVE  \A n \in Nodes : HandlerRefs(n)' = HandlerRefs(n)
<1>1. SUFFICES ASSUME NEW n \in Nodes PROVE HandlerRefs(n)' = HandlerRefs(n)
  OBVIOUS
<1>2. {g \in Handlers : who'[g] = n /\ pc'[g] \notin TimerHolds \cup {"idle"}}
        = {g \in Handlers : who[g] = n /\ pc[g] \notin TimerHolds \cup {"idle"}}
  BY DEF Uncounted
<1>3. QED
  BY <1>2 DEF HandlerRefs

LEMMA HrTake ==
  ASSUME NEW h \in Handlers, NEW n \in Nodes, who'[h] = n,
         pc[h] \in Uncounted, pc'[h] \notin Uncounted,
         \A g \in Handlers \ {h} : pc'[g] = pc[g] /\ who'[g] = who[g]
  PROVE  /\ HandlerRefs(n)' = HandlerRefs(n) + 1
         /\ \A m \in Others(n) : HandlerRefs(m)' = HandlerRefs(m)
<1> DEFINE S(m) == {g \in Handlers : who[g] = m /\ pc[g] \notin TimerHolds \cup {"idle"}}
           T(m) == {g \in Handlers : who'[g] = m /\ pc'[g] \notin TimerHolds \cup {"idle"}}
<1>1. T(n) = S(n) \cup {h} /\ h \notin S(n)
  BY DEF Uncounted
<1>2. IsFiniteSet(S(n))
  BY HandlersFinite, FS_Subset
<1>3. Cardinality(T(n)) = Cardinality(S(n)) + 1
  BY <1>1, <1>2, CardAdd
<1>4. \A m \in Others(n) : T(m) = S(m)
  BY DEF Uncounted, Others
<1>5. QED
  BY <1>3, <1>4 DEF HandlerRefs

LEMMA HrDrop ==
  ASSUME NEW h \in Handlers, NEW n \in Nodes, who[h] = n,
         pc[h] \notin Uncounted, pc'[h] \in Uncounted,
         \A g \in Handlers \ {h} : pc'[g] = pc[g] /\ who'[g] = who[g]
  PROVE  /\ HandlerRefs(n)' = HandlerRefs(n) - 1
         /\ \A m \in Others(n) : HandlerRefs(m)' = HandlerRefs(m)
<1> DEFINE S(m) == {g \in Handlers : who[g] = m /\ pc[g] \notin TimerHolds \cup {"idle"}}
           T(m) == {g \in Handlers : who'[g] = m /\ pc'[g] \notin TimerHolds \cup {"idle"}}
<1>1. T(n) = S(n) \ {h} /\ h \in S(n)
  BY DEF Uncounted
<1>2. IsFiniteSet(S(n))
  BY HandlersFinite, FS_Subset
<1>3. Cardinality(T(n)) = Cardinality(S(n)) - 1
  BY <1>1, <1>2, CardDel
<1>4. \A m \in Others(n) : T(m) = S(m)
  BY DEF Uncounted, Others
<1>5. QED
  BY <1>3, <1>4 DEF HandlerRefs

\* What a step does to the references of one node, and to those who hold them.
Shift(n, dRefs, dSaved, dSent) ==
  /\ node'[n].refs = node[n].refs + dRefs
  /\ Len(node'[n].saved) = Len(node[n].saved) + dSaved
  /\ node'[n].sent = node[n].sent + dSent
  /\ node'[n].st = node[n].st
  /\ \A m \in Others(n) : node'[m] = node[m]
Held(n, dHandlers, dOut) ==
  /\ HandlerRefs(n)' = HandlerRefs(n) + dHandlers
  /\ OutRefs(n)' = OutRefs(n) + dOut
  /\ \A m \in Others(n) : HandlerRefs(m)' = HandlerRefs(m) /\ OutRefs(m)' = OutRefs(m)

LEMMA OutNat ==
  ASSUME NEW n \in Nodes
  PROVE  OutRefs(n) \in Nat /\ OutRefs(n)' \in Nat
BY DEF OutRefs

\* The sum of one node, with its terms named.
LEMMA Covers ==
  ASSUME TypeInv, RefsCover, NEW n \in Nodes
  PROVE  /\ node[n].refs >= Len(node[n].saved) + node[n].sent + TableRefs(node[n])
                              + HandlerRefs(n) + OutRefs(n)
         /\ node[n].refs \in Int /\ Len(node[n].saved) \in Nat /\ node[n].sent \in Nat
         /\ TableRefs(node[n]) = IF node[n].st = "table" THEN 1 ELSE 0
         /\ HandlerRefs(n) \in Nat /\ OutRefs(n) \in Nat
BY NodeTypes, HrNat, OutNat DEF TypeInv, RefsCover, TableRefs

\* A node somebody uses is not free; a table entry and another user are two
\* references.
LEMMA InUse ==
  ASSUME TypeInv, RefsCover, FreeInv, NEW n \in Nodes,
         node[n].sent > 0 \/ HandlerRefs(n) >= 1 \/ OutRefs(n) >= 1
  PROVE  /\ node[n].st # "free"
         /\ node[n].st = "table" => ~Last(n)
         /\ Last(n) => Len(node[n].saved) = 0 /\ OutRefs(n) <= 1
<1>1. node[n].refs >= 1 + TableRefs(node[n])
  <2> DEFINE R == node[n].refs
             L == Len(node[n].saved)
             S == node[n].sent
             T == TableRefs(node[n])
             H == HandlerRefs(n)
             O == OutRefs(n)
  <2>1. R >= L + S + T + H + O
        /\ R \in Int /\ L \in Nat /\ S \in Nat /\ T \in Nat /\ H \in Nat /\ O \in Nat
        /\ (S > 0 \/ H >= 1 \/ O >= 1)
    BY Covers
  <2> HIDE DEF R, L, S, T, H, O
  <2>2. R >= 1 + T
    BY <2>1
  <2>3. QED
    BY <2>2 DEF R, T
<1>2. node[n].st # "free"
  BY <1>1 DEF FreeInv, TableRefs
<1>3. node[n].st = "table" => ~Last(n)
  BY <1>1 DEF TableRefs, Last
<1>4. Last(n) => Len(node[n].saved) = 0 /\ OutRefs(n) <= 1
  <2>1. Last(n) => node[n].refs = 1
    BY DEF Last
  <2>2. OutRefs(n) <= 1
    BY DEF OutRefs
  <2>3. QED
    BY <2>1, <2>2, Covers
<1>5. QED
  BY <1>2, <1>3, <1>4

LEMMA ShiftCovers ==
  ASSUME TypeInv, RefsCover, FreeInv, NEW n \in Nodes,
         NEW a \in Int, NEW b \in Int, NEW c \in Int, NEW d \in Int, NEW e \in Int,
         Shift(n, a, b, c), Held(n, d, e), a >= b + c + d + e,
         node[n].st # "free" \/ a = 0
  PROVE  RefsCover' /\ FreeInv' /\ \A m \in Nodes : node'[m].st = node[m].st
<1>1. ASSUME NEW m \in Nodes
      PROVE  node'[m].refs >= Len(node'[m].saved) + node'[m].sent + TableRefs(node'[m])
                                + HandlerRefs(m)' + OutRefs(m)'
  <2>1. CASE m = n
    <3> DEFINE R == node[n].refs
               L == Len(node[n].saved)
               S == node[n].sent
               T == TableRefs(node[n])
               H == HandlerRefs(n)
               O == OutRefs(n)
    <3>1. R >= L + S + T + H + O
          /\ R \in Int /\ L \in Int /\ S \in Int /\ T \in Int /\ H \in Int /\ O \in Int
      BY Covers
    <3>2. node'[m].refs = R + a /\ Len(node'[m].saved) = L + b /\ node'[m].sent = S + c
          /\ TableRefs(node'[m]) = T /\ HandlerRefs(m)' = H + d /\ OutRefs(m)' = O + e
      BY <2>1 DEF Shift, Held, TableRefs
    <3> HIDE DEF R, L, S, T, H, O
    <3>3. R + a >= (L + b) + (S + c) + T + (H + d) + (O + e)
      BY <3>1
    <3>4. QED
      BY <3>2, <3>3
  <2>2. CASE m # n
    <3>1. node'[m] = node[m] /\ HandlerRefs(m)' = HandlerRefs(m) /\ OutRefs(m)' = OutRefs(m)
      BY <2>2 DEF Shift, Held, Others
    <3>2. QED
      BY <3>1, Covers
  <2>3. QED
    BY <2>1, <2>2
<1>2. RefsCover'
  BY <1>1 DEF RefsCover, TableRefs
<1>3. \A m \in Nodes : node'[m].st = node[m].st
  BY DEF Shift, Others
<1>4. FreeInv'
  BY <1>3, NodeTypes DEF Shift, Others, FreeInv, TypeInv
<1>5. QED
  BY <1>2, <1>3, <1>4

\* No handler begins to leave a node or to look at one for the timer.
NoneEnters ==
  \A h \in Handlers :
    /\ pc'[h] \in Leaving => pc[h] \in Leaving
    /\ pc'[h] \in TimerHolds => pc[h] \in TimerHolds
    /\ pc'[h] \in Leaving \cup TimerHolds => who'[h] = who[h]

LEMMA HoldKept ==
  ASSUME TypeInv, HoldInv, AloneInv, NoneEnters,
         \A n \in Nodes : node[n].st = "table" => node'[n].st = "table"
  PROVE  HoldInv' /\ AloneInv'
<1>1. \A h \in Handlers : pc[h] \in Leaving \cup TimerHolds => who[h] \in Nodes
  BY DEF TypeInv, HandInv, Leaving, TimerHolds
<1>2. HoldInv'
  BY <1>1 DEF NoneEnters, HoldInv
<1>3. AloneInv'
  BY DEF NoneEnters, AloneInv
<1>4. QED
  BY <1>2, <1>3

\* The two together: most steps.
LEMMA RefShift ==
  ASSUME TypeInv, RefInv, NEW n \in Nodes,
         NEW a \in Int, NEW b \in Int, NEW c \in Int, NEW d \in Int, NEW e \in Int,
         Shift(n, a, b, c), Held(n, d, e), a >= b + c + d + e,
         node[n].st # "free" \/ a = 0, NoneEnters
  PROVE  RefInv'
<1>1. RefsCover' /\ FreeInv' /\ \A m \in Nodes : node'[m].st = node[m].st
  BY ShiftCovers DEF RefInv
<1>2. HoldInv' /\ AloneInv'
  BY <1>1, HoldKept DEF RefInv
<1>3. QED
  BY <1>1, <1>2 DEF RefInv

\* Steps that touch no reference and no frame.
LEMMA RefQuiet ==
  ASSUME TypeInv, RefInv, NoneEnters,
         \A n \in Nodes : /\ node'[n].refs = node[n].refs /\ node'[n].saved = node[n].saved
                          /\ node'[n].sent = node[n].sent /\ node'[n].st = node[n].st
                          /\ HandlerRefs(n)' = HandlerRefs(n) /\ OutRefs(n)' = OutRefs(n)
  PROVE  RefInv'
<1>1. RefsCover' /\ FreeInv'
  BY DEF RefInv, RefsCover, FreeInv, TableRefs
<1>2. HoldInv' /\ AloneInv'
  BY HoldKept DEF RefInv
<1>3. QED
  BY <1>1, <1>2 DEF RefInv

\* A release by somebody who holds a reference, or has a frame released.
LEMMA RefRelease ==
  ASSUME TypeInv, RefInv, NEW n \in Nodes, NEW r \in Node,
         r.refs = node[n].refs /\ r.saved = node[n].saved /\ r.st = node[n].st,
         NEW c \in {-1, 0}, NEW d \in {-1, 0}, c + d = -1,
         r.sent = node[n].sent + c, Release(n, r), Held(n, d, 0), NoneEnters,
         c = -1 => node[n].sent > 0, d = -1 => HandlerRefs(n) >= 1
  PROVE  RefInv'
<1>1. node[n].sent > 0 \/ HandlerRefs(n) >= 1
  OBVIOUS
<1>2. /\ node[n].st # "free"
      /\ node[n].st = "table" => ~Last(n)
      /\ Last(n) => Len(node[n].saved) = 0
  BY <1>1, InUse DEF RefInv
<1>3. node \in [Nodes -> Node]
  BY DEF TypeInv, TypeOK
<1>4. CASE ~Last(n)
  <2>1. node' = [node EXCEPT ![n] = [r EXCEPT !.refs = @ - 1]]
    BY <1>4 DEF Release
  <2>2. node'[n] = [r EXCEPT !.refs = @ - 1] /\ \A m \in Others(n) : node'[m] = node[m]
    BY <1>3, <2>1 DEF Others
  <2>3. Len(node[n].saved) \in Nat /\ node[n].refs \in Int
    BY NodeTypes DEF TypeInv
  <2>4. /\ node'[n].refs = node[n].refs - 1 /\ node'[n].saved = node[n].saved
        /\ node'[n].sent = node[n].sent + c /\ node'[n].st = node[n].st
    BY <2>2 DEF Node
  <2>5. Shift(n, -1, 0, c)
    BY <2>2, <2>3, <2>4 DEF Shift
  <2>6. -1 >= 0 + c + d + 0
    OBVIOUS
  <2>7. QED
    BY <1>2, <2>5, <2>6, RefShift
<1>5. CASE Last(n)
  <2>1. node'[n] = Blank /\ \A m \in Others(n) : node'[m] = node[m]
    BY <1>3, <1>5 DEF Release, Others
  <2>2. HandlerRefs(n)' + OutRefs(n)' = 0
    <3>1. node[n].refs = 1 /\ node[n].refs >= node[n].sent + HandlerRefs(n) + OutRefs(n)
          /\ node[n].sent \in Nat /\ HandlerRefs(n) \in Nat /\ OutRefs(n) \in Nat
      <4>1. node[n].refs = 1
        BY <1>5 DEF Last
      <4> DEFINE R == node[n].refs
                 L == Len(node[n].saved)
                 S == node[n].sent
                 T == TableRefs(node[n])
                 H == HandlerRefs(n)
                 O == OutRefs(n)
      <4>2. R >= L + S + T + H + O
            /\ R \in Int /\ L \in Nat /\ S \in Nat /\ T \in Nat /\ H \in Nat /\ O \in Nat
        BY Covers DEF RefInv
      <4> HIDE DEF R, L, S, T, H, O
      <4>3. R >= S + H + O
        BY <4>2
      <4>4. QED
        BY <4>1, <4>2, <4>3 DEF R, S, H, O
    <3>2. HandlerRefs(n)' = HandlerRefs(n) + d /\ OutRefs(n)' = OutRefs(n)
      <4>1. OutRefs(n)' = OutRefs(n) + 0 /\ HandlerRefs(n)' = HandlerRefs(n) + d
        BY DEF Held
      <4>2. QED
        BY <4>1, <3>1
    <3>3. QED
      BY <3>1, <3>2
  <2>3. HandlerRefs(n)' = 0 /\ OutRefs(n)' = 0
    BY <2>2, HrNat, OutNat
  <2>4. \A m \in Others(n) : HandlerRefs(m)' = HandlerRefs(m) /\ OutRefs(m)' = OutRefs(m)
    BY DEF Held
  <2>5. Len(Blank.saved) = 0 /\ Blank.refs = 0 /\ Blank.sent = 0 /\ Blank.st = "free"
    BY EmptySeq, LenProperties DEF Blank
  <2>6. RefsCover'
    <3>1. SUFFICES ASSUME NEW m \in Nodes
                   PROVE  node'[m].refs >= Len(node'[m].saved) + node'[m].sent
                            + TableRefs(node'[m]) + HandlerRefs(m)' + OutRefs(m)'
      BY DEF RefsCover, TableRefs
    <3>2. CASE m = n
      BY <2>1, <2>3, <2>5, <3>2 DEF TableRefs
    <3>3. CASE m # n
      <4>1. node'[m] = node[m] /\ HandlerRefs(m)' = HandlerRefs(m) /\ OutRefs(m)' = OutRefs(m)
        BY <2>1, <2>4, <3>3 DEF Others
      <4>2. QED
        BY <4>1, Covers DEF RefInv
    <3>4. QED
      BY <3>2, <3>3
  <2>7. FreeInv'
    BY <2>1, <2>5 DEF FreeInv, RefInv, Others
  <2>8. HoldInv' /\ AloneInv'
    BY <1>2, <1>5, <2>1, HoldKept DEF RefInv, Others
  <2>9. QED
    BY <2>6, <2>7, <2>8 DEF RefInv
<1>6. QED
  BY <1>4, <1>5

LEMMA Ints == 0 \in Int /\ 1 \in Int /\ -1 \in Int
OBVIOUS

LEMMA Handful ==
  ASSUME TypeInv
  PROVE  /\ node \in [Nodes -> Node] /\ \A n \in Nodes : node[n] \in Node
         /\ \A h \in Handlers : pc[h] # "idle" => who[h] \in Nodes
         /\ opc # "idle" => onode \in Nodes
         /\ pc \in [Handlers -> Places] /\ who \in [Handlers -> Nodes \cup {NoNode}]
BY DEF TypeInv, TypeOK, HandInv

\* The handlers stay where they are.
LEMMA HandlersStay ==
  ASSUME UNCHANGED handler
  PROVE  NoneEnters /\ \A n \in Nodes : HandlerRefs(n)' = HandlerRefs(n)
<1>1. pc' = pc /\ who' = who
  BY DEF handler
<1>2. NoneEnters
  BY <1>1 DEF NoneEnters
<1>3. \A n \in Nodes : HandlerRefs(n)' = HandlerRefs(n)
  BY <1>1, HrSame
<1>4. QED
  BY <1>2, <1>3

LEMMA RefOut ==
  ASSUME TypeInv, RefInv,
         Output \/ \E n \in Nodes : OutFind(n) \/ DriverDone(n) \/ Auth(n)
  PROVE  RefInv'
<1> USE DEF bss, output
<1>t. node \in [Nodes -> Node] /\ (\A n \in Nodes : node[n] \in Node)
      /\ (opc # "idle" => onode \in Nodes)
  BY Handful
<1>h. NoneEnters /\ \A n \in Nodes : HandlerRefs(n)' = HandlerRefs(n)
  <2>1. UNCHANGED handler
    BY DEF Output, OutTest, OutSave, OutTim, OutFind, DriverDone, Auth
  <2>2. QED
    BY <2>1, HandlersStay
<1>n. \A n \in Nodes : HandlerRefs(n) \in Nat /\ OutRefs(n) \in Nat
  BY HrNat, OutNat
\* An output call gives its reference up, or goes on.
<1>o. ASSUME NEW n \in Nodes, onode = n,
             opc \in {"test", "save"}, opc' \notin {"test", "save"}
      PROVE  Held(n, 0, -1)
  <2>1. OutRefs(n)' = 0 /\ OutRefs(n) = 1
    BY <1>o DEF OutRefs
  <2>2. \A m \in Others(n) : OutRefs(m)' = 0 /\ OutRefs(m) = 0
    BY <1>o DEF OutRefs, Others
  <2>3. HandlerRefs(n)' = HandlerRefs(n) + 0
    <3> DEFINE H == HandlerRefs(n)
    <3>1. HandlerRefs(n)' = H /\ H \in Nat
      BY <1>h, <1>n
    <3> HIDE DEF H
    <3>2. H + 0 = H
      BY <3>1
    <3>3. QED
      BY <3>1, <3>2 DEF H
  <2>4. OutRefs(n)' = OutRefs(n) + -1
    BY <2>1
  <2>5. QED
    BY <1>h, <2>2, <2>3, <2>4 DEF Held, Others
<1>1. CASE OutTest
  <2>1. CASE node[onode].pwr
    <3>1. node' = node /\ \A n \in Nodes : OutRefs(n)' = OutRefs(n)
      BY <1>1, <2>1 DEF OutTest, OutRefs
    <3>2. QED
      BY <3>1, <1>h, RefQuiet
  <2>2. CASE ~node[onode].pwr
    <3>1. PICK n \in Nodes : onode = n
      BY <1>1, <1>t DEF OutTest
    <3>2. opc = "test" /\ opc' = "idle"
          /\ node' = [node EXCEPT ![n] = [node[n] EXCEPT !.sent = @ + 1]]
      BY <1>1, <2>2, <3>1 DEF OutTest, Return
    <3>3. Shift(n, 0, 0, 1)
      <4>1. node'[n] = [node[n] EXCEPT !.sent = @ + 1]
            /\ \A m \in Others(n) : node'[m] = node[m]
        BY <3>2, <1>t DEF Others
      <4>2. /\ node'[n].refs = node[n].refs /\ node'[n].saved = node[n].saved
            /\ node'[n].sent = node[n].sent + 1 /\ node'[n].st = node[n].st
        BY <4>1, <1>t DEF Node
      <4>3. node[n].refs \in Int /\ Len(node[n].saved) \in Nat
        BY NodeTypes DEF TypeInv
      <4>4. QED
        BY <4>1, <4>2, <4>3 DEF Shift
    <3>4. Held(n, 0, -1)
      BY <3>1, <3>2, <1>o
    <3>5. 0 >= 0 + 1 + 0 + -1
      OBVIOUS
    <3>6. QED
      BY <3>3, <3>4, <3>5, <1>h, RefShift, Ints
  <2>3. QED
    BY <2>1, <2>2
<1>2. CASE OutSave
  <2>1. PICK n \in Nodes : onode = n
    BY <1>2, <1>t DEF OutSave
  <2>2. opc = "save" /\ opc' \notin {"test", "save"}
        /\ (node' = node \/ node' = [node EXCEPT ![n] = Saved(node[n])])
    BY <1>2, <2>1 DEF OutSave, Return
  <2>3. Held(n, 0, -1)
    BY <2>1, <2>2, <1>o
  <2>4. node[n].refs \in Int /\ Len(node[n].saved) \in Nat /\ node[n].sent \in Nat
    BY NodeTypes DEF TypeInv
  <2>5. CASE node' = node
    <3>1. Shift(n, 0, 0, 0)
      BY <2>4, <2>5 DEF Shift
    <3>2. 0 >= 0 + 0 + 0 + -1
      OBVIOUS
    <3>3. QED
      BY <2>3, <3>1, <3>2, <1>h, RefShift, Ints
  <2>6. CASE node' = [node EXCEPT ![n] = Saved(node[n])]
    <3>1. Shift(n, 0, 1, 0)
      <4>1. node'[n] = Saved(node[n]) /\ \A m \in Others(n) : node'[m] = node[m]
        BY <2>6, <1>t DEF Others
      <4>2. Saved(node[n]) = [node[n] EXCEPT !.saved = Saved(node[n]).saved]
            /\ Len(Saved(node[n]).saved) = Len(node[n].saved) + 1
        BY <1>t, SavedNode
      <4>3. /\ node'[n].refs = node[n].refs /\ node'[n].sent = node[n].sent
            /\ node'[n].st = node[n].st
        BY <4>1, <4>2, <1>t DEF Node
      <4>4. QED
        BY <2>4, <4>1, <4>2, <4>3 DEF Shift
    <3>2. 0 >= 1 + 0 + 0 + -1
      OBVIOUS
    <3>3. QED
      BY <2>3, <3>1, <3>2, <1>h, RefShift, Ints
  <2>7. QED
    BY <2>2, <2>5, <2>6
<1>3. CASE OutTim
  <2>1. node' = node /\ \A n \in Nodes : OutRefs(n)' = OutRefs(n)
    BY <1>3 DEF OutTim, OutRefs, Return
  <2>2. QED
    BY <2>1, <1>h, RefQuiet
<1>4. ASSUME NEW n \in Nodes, OutFind(n)
      PROVE  RefInv'
  <2>1. node' = [node EXCEPT ![n] = [node[n] EXCEPT !.refs = @ + 1]] /\ node[n].st = "table"
    BY <1>4 DEF OutFind
  <2>2. Shift(n, 1, 0, 0)
    <3>1. node'[n] = [node[n] EXCEPT !.refs = @ + 1]
          /\ \A m \in Others(n) : node'[m] = node[m]
      BY <2>1, <1>t DEF Others
    <3>2. /\ node'[n].refs = node[n].refs + 1 /\ node'[n].saved = node[n].saved
          /\ node'[n].sent = node[n].sent /\ node'[n].st = node[n].st
      BY <3>1, <1>t DEF Node
    <3>3. Len(node[n].saved) \in Nat /\ node[n].sent \in Nat
      BY NodeTypes DEF TypeInv
    <3>4. QED
      BY <3>1, <3>2, <3>3 DEF Shift
  <2>3. Held(n, 0, 1)
    <3>1. OutRefs(n) = 0 /\ OutRefs(n)' = 1
          /\ \A m \in Others(n) : OutRefs(m) = 0 /\ OutRefs(m)' = 0
      BY <1>4 DEF OutFind, OutRefs, Others
    <3>2. HandlerRefs(n)' = HandlerRefs(n) + 0
      BY <1>h, <1>n
    <3>3. OutRefs(n)' = OutRefs(n) + 1
      BY <3>1
    <3>4. QED
      BY <1>h, <3>1, <3>2, <3>3 DEF Held, Others
  <2>4. 1 >= 0 + 0 + 0 + 1
    OBVIOUS
  <2>5. node[n].st # "free"
    BY <2>1
  <2>6. QED
    BY <2>2, <2>3, <2>4, <2>5, <1>h, RefShift, Ints
<1>5. ASSUME NEW n \in Nodes, DriverDone(n)
      PROVE  RefInv'
  <2> DEFINE r == [node[n] EXCEPT !.sent = @ - 1]
  <2>1. node[n].sent > 0 /\ node[n].sent \in Nat /\ Release(n, r)
    BY <1>5, NodeTypes DEF DriverDone, TypeInv
  <2>2. r \in Node
    <3>1. node[n].sent - 1 \in Nat /\ node[n] \in Node
      BY <2>1, <1>t
    <3>2. QED
      BY <3>1 DEF Node
  <2>3. r.refs = node[n].refs /\ r.saved = node[n].saved /\ r.st = node[n].st
        /\ r.sent = node[n].sent - 1
    BY <1>t DEF Node
  <2>4. Held(n, 0, 0)
    <3>1. \A m \in Nodes : OutRefs(m)' = OutRefs(m)
      BY <1>5 DEF DriverDone, OutRefs
    <3>2. QED
      BY <3>1, <1>h, <1>n DEF Held, Others
  <2> HIDE DEF r
  <2>5. r.sent = node[n].sent + -1
    BY <2>1, <2>3
  <2>6. -1 + 0 = -1 /\ -1 \in {-1, 0} /\ 0 \in {-1, 0}
    OBVIOUS
  <2>7. QED
    BY <2>1, <2>2, <2>3, <2>4, <2>5, <2>6, <1>h, RefRelease
<1>6. ASSUME NEW n \in Nodes, Auth(n)
      PROVE  RefInv'
  <2>1. node' = [node EXCEPT ![n] = [node[n] EXCEPT !.st = "table", !.refs = 1]]
        /\ node[n].st = "free" /\ node[n].refs = 0
    BY <1>6 DEF Auth, RefInv, FreeInv
  <2>2. node'[n] = [node[n] EXCEPT !.st = "table", !.refs = 1]
        /\ \A m \in Others(n) : node'[m] = node[m]
    BY <2>1, <1>t DEF Others
  <2>3. /\ node'[n].refs = 1 /\ node'[n].saved = node[n].saved
        /\ node'[n].sent = node[n].sent /\ node'[n].st = "table"
    BY <2>2, <1>t DEF Node
  <2>4. \A m \in Nodes : HandlerRefs(m)' = HandlerRefs(m) /\ OutRefs(m)' = OutRefs(m)
    BY <1>6, <1>h DEF Auth, OutRefs
  <2>5. Len(node[n].saved) = 0 /\ node[n].sent = 0 /\ HandlerRefs(n) = 0 /\ OutRefs(n) = 0
    <3> DEFINE L == Len(node[n].saved)
               S == node[n].sent
               T == TableRefs(node[n])
               H == HandlerRefs(n)
               O == OutRefs(n)
    <3>1. 0 >= L + S + T + H + O
          /\ L \in Nat /\ S \in Nat /\ T \in Nat /\ H \in Nat /\ O \in Nat
      BY <2>1, Covers DEF RefInv
    <3> HIDE DEF L, S, T, H, O
    <3>2. L = 0 /\ S = 0 /\ H = 0 /\ O = 0
      BY <3>1
    <3>3. QED
      BY <3>2 DEF L, S, H, O
  <2>6. RefsCover'
    <3>1. SUFFICES ASSUME NEW m \in Nodes
                   PROVE  node'[m].refs >= Len(node'[m].saved) + node'[m].sent
                            + TableRefs(node'[m]) + HandlerRefs(m)' + OutRefs(m)'
      BY DEF RefsCover, TableRefs
    <3>2. CASE m = n
      BY <2>3, <2>4, <2>5, <3>2 DEF TableRefs
    <3>3. CASE m # n
      <4>1. node'[m] = node[m] /\ HandlerRefs(m)' = HandlerRefs(m) /\ OutRefs(m)' = OutRefs(m)
        BY <2>2, <2>4, <3>3 DEF Others
      <4>2. QED
        BY <4>1, Covers DEF RefInv
    <3>4. QED
      BY <3>2, <3>3
  <2>7. FreeInv'
    BY <2>2, <2>3 DEF FreeInv, RefInv, Others
  <2>8. HoldInv' /\ AloneInv'
    BY <2>2, <2>3, <1>h, HoldKept DEF RefInv, Others
  <2>9. QED
    BY <2>6, <2>7, <2>8 DEF RefInv
<1>7. QED
  BY <1>1, <1>2, <1>3, <1>4, <1>5, <1>6 DEF Output

\* A handler goes on with its node.
LEMMA GoesOn ==
  ASSUME TypeInv, NEW h \in Handlers, NEW l, Goto(h, l), who' = who,
         pc[h] \notin Uncounted, l \notin Uncounted, l \in Leaving => pc[h] \in Leaving
  PROVE  NoneEnters /\ \A n \in Nodes : HandlerRefs(n)' = HandlerRefs(n)
<1>1. pc' = [pc EXCEPT ![h] = l] /\ pc \in [Handlers -> Places]
  BY Handful DEF Goto
<1>2. \A g \in Handlers : pc'[g] = IF g = h THEN l ELSE pc[g]
  BY <1>1
<1>3. NoneEnters
  BY <1>2 DEF NoneEnters, Uncounted
<1>4. \A n \in Nodes : HandlerRefs(n)' = HandlerRefs(n)
  BY <1>2, HrSame
<1>5. QED
  BY <1>3, <1>4

LEMMA NoneHeld ==
  ASSUME UNCHANGED output, \A n \in Nodes : HandlerRefs(n)' = HandlerRefs(n)
  PROVE  \A n \in Nodes : Held(n, 0, 0) /\ OutRefs(n)' = OutRefs(n)
<1>1. \A n \in Nodes : OutRefs(n)' = OutRefs(n)
  BY DEF output, OutRefs
<1>2. \A n \in Nodes : HandlerRefs(n) \in Nat /\ OutRefs(n) \in Nat
  BY HrNat, OutNat
<1>3. \A n \in Nodes : HandlerRefs(n) + 0 = HandlerRefs(n) /\ OutRefs(n) + 0 = OutRefs(n)
  <2>1. \A x \in Nat : x + 0 = x
    OBVIOUS
  <2>2. QED
    BY <1>2, <2>1
<1>4. QED
  BY <1>1, <1>3 DEF Held, Others

\* The frame at the head goes to the driver, with its reference.
LEMMA HandOverShift ==
  ASSUME TypeInv, NEW n \in Nodes, node[n].saved # << >>, HandOver(n)
  PROVE  Shift(n, 0, -1, 1)
<1> DEFINE s == node[n].saved
<1>1. node \in [Nodes -> Node] /\ node[n] \in Node /\ s \in Seq(Frame) /\ node[n].refs \in Int
  BY Handful, NodeTypes DEF TypeInv
<1>2. node' = [node EXCEPT ![n] = [node[n] EXCEPT !.saved = Tail(@), !.sent = @ + 1]]
  BY DEF HandOver
<1>3. node'[n] = [node[n] EXCEPT !.saved = Tail(@), !.sent = @ + 1]
      /\ \A m \in Others(n) : node'[m] = node[m]
  BY <1>1, <1>2 DEF Others
<1>4. /\ node'[n].refs = node[n].refs /\ node'[n].saved = Tail(s)
      /\ node'[n].sent = node[n].sent + 1 /\ node'[n].st = node[n].st
  BY <1>1, <1>3 DEF Node
<1>5. Len(Tail(s)) = Len(s) - 1
  BY <1>1, HeadTailProperties
<1>6. Len(s) \in Nat
  BY <1>1, LenProperties
<1>7. Len(node'[n].saved) = Len(s) + -1 /\ node'[n].refs = node[n].refs + 0
  BY <1>1, <1>4, <1>5, <1>6
<1>8. QED
  BY <1>3, <1>4, <1>7 DEF Shift

\* A node gets one more reference, and perhaps one more frame to release.
LEMMA OneMore ==
  ASSUME TypeInv, NEW n \in Nodes, NEW x \in {0, 1},
         node' = [node EXCEPT ![n] = [node[n] EXCEPT !.refs = @ + 1, !.sent = @ + x]]
  PROVE  Shift(n, 1, 0, x)
<1>1. node \in [Nodes -> Node] /\ node[n] \in Node /\ Len(node[n].saved) \in Nat
  BY Handful, NodeTypes DEF TypeInv
<1>2. node'[n] = [node[n] EXCEPT !.refs = @ + 1, !.sent = @ + x]
      /\ \A m \in Others(n) : node'[m] = node[m]
  BY <1>1 DEF Others
<1>3. /\ node'[n].refs = node[n].refs + 1 /\ node'[n].saved = node[n].saved
      /\ node'[n].sent = node[n].sent + x /\ node'[n].st = node[n].st
  BY <1>1, <1>2 DEF Node
<1>4. QED
  BY <1>1, <1>2, <1>3 DEF Shift

LEMMA RefRx ==
  ASSUME TypeInv, RefInv, Rx
  PROVE  RefInv'
<1> USE DEF bss
<1>t. "rx" \in Handlers /\ node \in [Nodes -> Node] /\ \A n \in Nodes : node[n] \in Node
  BY Handful
<1>0. pc["rx"] \in {"poll", "clear", "sleep", "slept", "wake", "woken", "flush", "assoc"}
      /\ UNCHANGED output
  BY DEF Rx, Poll, Clear, SleepRead, SleepWrite, WakeRead, WakeWrite, Flush, Assoc
<1>1. pc["rx"] # "idle" /\ pc["rx"] \notin Uncounted /\ pc["rx"] \notin Leaving
  BY <1>0 DEF Uncounted, TimerHolds, Leaving
<1>2. PICK n \in Nodes : who["rx"] = n
  BY <1>1, <1>t, Handful
<1>3. HandlerRefs(n) >= 1
  BY <1>1, <1>2, <1>t, HrPositive
<1>4. node[n].st # "free"
  BY <1>3, InUse DEF RefInv
<1>5. NoneEnters /\ \A m \in Nodes : HandlerRefs(m)' = HandlerRefs(m)
  <2>1. CASE UNCHANGED <<pc, who>>
    BY <2>1, HrSame DEF NoneEnters
  <2>2. CASE who' = who /\ \E l \in {"put", "clear", "slept", "woken", "flush", "leave"} : Goto("rx", l)
    <3>1. PICK l \in {"put", "clear", "slept", "woken", "flush", "leave"} : Goto("rx", l)
      BY <2>2
    <3>2. l \notin Uncounted /\ l \notin Leaving
      BY DEF Uncounted, TimerHolds, Leaving
    <3>3. QED
      BY <1>1, <1>t, <2>2, <3>1, <3>2, GoesOn
  <2>3. QED
    BY <2>1, <2>2 DEF Rx, Poll, Clear, SleepRead, SleepWrite, WakeRead, WakeWrite, Flush, Assoc
<1>6. \A m \in Nodes : Held(m, 0, 0) /\ OutRefs(m)' = OutRefs(m)
  BY <1>0, <1>5, NoneHeld
<1>7. CASE node' = node
  BY <1>5, <1>6, <1>7, RefQuiet
<1>8. CASE Poll /\ node' # node /\ node[n].saved = << >>
  <2>1. node' = [node EXCEPT ![n] = [node[n] EXCEPT !.refs = @ + 1, !.sent = @ + 1]]
    BY <1>8, <1>2 DEF Poll
  <2>2. Shift(n, 1, 0, 1)
    BY <2>1, OneMore
  <2>3. 1 >= 0 + 1 + 0 + 0
    OBVIOUS
  <2>4. QED
    BY <1>4, <1>5, <1>6, <2>2, <2>3, RefShift, Ints
<1>9. CASE (Poll \/ Flush) /\ node' # node /\ node[n].saved # << >>
  <2>1. HandOver(n)
    BY <1>2, <1>9 DEF Poll, Flush, HandOver
  <2>2. Shift(n, 0, -1, 1)
    BY <1>9, <2>1, HandOverShift
  <2>3. 0 >= -1 + 1 + 0 + 0
    OBVIOUS
  <2>4. QED
    BY <1>4, <1>5, <1>6, <2>2, <2>3, RefShift, Ints
<1>10. CASE Clear \/ SleepRead \/ WakeRead \/ (Flush /\ node[n].saved = << >>)
  BY <1>2, <1>7, <1>10 DEF Clear, SleepRead, WakeRead, Flush
<1>11. CASE SleepWrite \/ WakeWrite
  <2>1. PICK b \in BOOLEAN : node' = [node EXCEPT ![n] = [node[n] EXCEPT !.pwr = b]]
    BY <1>2, <1>11 DEF SleepWrite, WakeWrite, SetPower
  <2>2. \A m \in Nodes : /\ node'[m].refs = node[m].refs /\ node'[m].saved = node[m].saved
                         /\ node'[m].sent = node[m].sent /\ node'[m].st = node[m].st
    BY <1>t, <2>1 DEF Node
  <2>3. QED
    BY <1>5, <1>6, <2>2, RefQuiet
<1>12. CASE Assoc
  <2>1. \A m \in Nodes : /\ node'[m].refs = node[m].refs /\ node'[m].saved = node[m].saved
                         /\ node'[m].sent = node[m].sent /\ node'[m].st = node[m].st
    <3>1. CASE node[n].aid # 0
      <4>1. PICK l \in Lifetimes : node' = [node EXCEPT ![n].life = l]
        BY <1>2, <1>12, <3>1 DEF Assoc
      <4>2. QED
        BY <4>1, <1>t DEF Node
    <3>2. CASE node' = node
      BY <3>2
    <3>3. CASE node[n].aid = 0 /\ Aids \ aids # {}
      <4> DEFINE a == Min(Aids \ aids)
      <4>1. PICK l \in Lifetimes : node' = [node EXCEPT ![n].life = l, ![n].aid = a]
        BY <1>2, <1>12, <3>3 DEF Assoc
      <4> HIDE DEF a
      <4>2. QED
        BY <4>1, <1>t DEF Node
    <3>4. QED
      BY <1>2, <1>12, <3>1, <3>2, <3>3 DEF Assoc
  <2>2. QED
    BY <1>5, <1>6, <2>1, RefQuiet
<1>13. QED
  BY <1>7, <1>8, <1>9, <1>10, <1>11, <1>12 DEF Rx

LEMMA RefLeave ==
  ASSUME TypeInv, RefInv, NEW h \in Handlers, NodeLeave(h)
  PROVE  RefInv'
<1> USE DEF bss
<1>t. node \in [Nodes -> Node] /\ (\A n \in Nodes : node[n] \in Node)
      /\ pc \in [Handlers -> Places]
  BY Handful
<1>0. pc[h] \in Leaving \cup {"leave"} /\ UNCHANGED output /\ who' = who
  BY DEF NodeLeave, Leave, Unlist, CleanupRead, CleanupWrite, Drain, Drained, Forget, Reclaim,
         Leaving
<1>1. pc[h] # "idle" /\ pc[h] \notin Uncounted
  BY <1>0 DEF Uncounted, TimerHolds, Leaving
<1>2. PICK n \in Nodes : who[h] = n
  BY <1>1, Handful
<1>3. HandlerRefs(n) >= 1
  BY <1>1, <1>2, HrPositive
<1>4. node[n].st # "free" /\ (node[n].st = "table" => ~Last(n))
  BY <1>3, InUse DEF RefInv
<1>5. ASSUME pc[h] \in Leaving,
             \E l \in Leaving \cup {"put"} : Goto(h, l)
      PROVE  NoneEnters /\ \A m \in Nodes : Held(m, 0, 0) /\ HandlerRefs(m)' = HandlerRefs(m)
                                              /\ OutRefs(m)' = OutRefs(m)
  <2>1. PICK l \in Leaving \cup {"put"} : Goto(h, l)
    BY <1>5
  <2>2. l \notin Uncounted
    BY DEF Uncounted, TimerHolds, Leaving
  <2>3. NoneEnters /\ \A m \in Nodes : HandlerRefs(m)' = HandlerRefs(m)
    BY <1>0, <1>1, <1>5, <2>1, <2>2, GoesOn
  <2>4. QED
    BY <1>0, <2>3, NoneHeld
<1>6. CASE Leave(h)
  <2>1. CASE UNCHANGED pc
    <3>1. NoneEnters /\ \A m \in Nodes : HandlerRefs(m)' = HandlerRefs(m)
      BY <1>0, <2>1, HrSame DEF NoneEnters
    <3>2. node' = node /\ \A m \in Nodes : OutRefs(m)' = OutRefs(m)
      BY <1>0, <1>6, <3>1, NoneHeld DEF Leave
    <3>3. QED
      BY <3>1, <3>2, RefQuiet
  <2>2. CASE ~UNCHANGED pc
    <3>1. PICK l \in {"reclaim", "unlist"} : Goto(h, l)
      BY <1>6, <2>2 DEF Leave
    <3>2. node[n].st = "table" /\ node' = node
          /\ \A g \in Handlers : who[g] = n => pc[g] \notin Leaving
      BY <1>2, <1>6, <2>2 DEF Leave
    <3>3. \A g \in Handlers : pc'[g] = IF g = h THEN l ELSE pc[g]
      BY <1>t, <3>1 DEF Goto
    <3>4. l \notin Uncounted /\ l \notin TimerHolds
      BY DEF Uncounted, TimerHolds
    <3>5. \A m \in Nodes : HandlerRefs(m)' = HandlerRefs(m)
      BY <1>0, <1>1, <3>3, <3>4, HrSame
    <3>6. \A m \in Nodes : OutRefs(m)' = OutRefs(m)
      BY <1>0, <3>5, NoneHeld
    <3>7. RefsCover' /\ FreeInv'
      BY <3>2, <3>5, <3>6 DEF RefInv, RefsCover, FreeInv, TableRefs
    <3>8. HoldInv'
      BY <1>0, <1>2, <3>2, <3>3 DEF HoldInv, RefInv
    <3>9. AloneInv'
      BY <1>0, <1>2, <3>2, <3>3 DEF AloneInv, RefInv
    <3>10. QED
      BY <3>7, <3>8, <3>9 DEF RefInv
  <2>3. QED
    BY <2>1, <2>2
<1>7. CASE Unlist(h) \/ CleanupRead(h) \/ CleanupWrite(h) \/ Drained(h) \/ Forget(h)
  <2>1. pc[h] \in Leaving /\ \E l \in Leaving \cup {"put"} : Goto(h, l)
    BY <1>7 DEF Unlist, CleanupRead, CleanupWrite, Drained, Forget, Leaving
  <2>2. \/ node' = node
        \/ node' = [node EXCEPT ![n] = [node[n] EXCEPT !.aid = 0]]
        \/ node' = [node EXCEPT ![n] = [node[n] EXCEPT !.pwr = FALSE]]
    BY <1>2, <1>7 DEF Unlist, CleanupRead, CleanupWrite, Drained, Forget, SetPower
  <2>3. \A m \in Nodes : /\ node'[m].refs = node[m].refs /\ node'[m].saved = node[m].saved
                         /\ node'[m].sent = node[m].sent /\ node'[m].st = node[m].st
    <3>1. CASE node' = node
      BY <3>1
    <3>2. CASE node' = [node EXCEPT ![n] = [node[n] EXCEPT !.aid = 0]]
      BY <1>t, <3>2 DEF Node
    <3>3. CASE node' = [node EXCEPT ![n] = [node[n] EXCEPT !.pwr = FALSE]]
      BY <1>t, <3>3 DEF Node
    <3>4. QED
      BY <2>2, <3>1, <3>2, <3>3
  <2>4. QED
    BY <1>5, <2>1, <2>3, RefQuiet
<1>8. CASE Drain(h)
  <2> DEFINE k == Len(node[n].saved)
  <2>1. pc[h] \in Leaving /\ \E l \in Leaving \cup {"put"} : Goto(h, l)
    BY <1>8 DEF Drain, Leaving
  <2>2. node' = [node EXCEPT ![n] = [node[n] EXCEPT !.saved = << >>, !.refs = @ - k]]
    BY <1>2, <1>8 DEF Drain
  <2>3. k \in Nat /\ node[n].refs \in Int /\ node[n].sent \in Nat
    BY NodeTypes DEF TypeInv
  <2>4. node'[n] = [node[n] EXCEPT !.saved = << >>, !.refs = @ - k]
        /\ \A m \in Others(n) : node'[m] = node[m]
    BY <1>t, <2>2 DEF Others
  <2>5. /\ node'[n].refs = node[n].refs - k /\ node'[n].saved = << >>
        /\ node'[n].sent = node[n].sent /\ node'[n].st = node[n].st
    BY <1>t, <2>4 DEF Node
  <2>6. Len(node'[n].saved) = 0
    BY <2>5
  <2>7. Shift(n, -k, -k, 0)
    <3> HIDE DEF k
    <3>1. node'[n].refs = node[n].refs + (-k)
      BY <2>3, <2>5
    <3>2. Len(node'[n].saved) = k + (-k)
      BY <2>3, <2>6
    <3>3. node'[n].sent = node[n].sent + 0
      BY <2>3, <2>5
    <3>4. QED
      BY <2>4, <2>5, <3>1, <3>2, <3>3 DEF Shift, k
  <2>8. -k \in Int /\ -k >= -k + 0 + 0 + 0
    <3> HIDE DEF k
    <3>1. QED
      BY <2>3
  <2> HIDE DEF k
  <2>9. QED
    BY <1>4, <1>5, <2>1, <2>7, <2>8, RefShift, Ints
<1>9. CASE Reclaim(h)
  <2>1. pc[h] = "reclaim" /\ pc[h] \in Leaving /\ Goto(h, "put") /\ ~locked
    BY <1>9 DEF Reclaim, Leaving
  <2>2. NoneEnters /\ \A m \in Nodes : HandlerRefs(m)' = HandlerRefs(m)
                                         /\ OutRefs(m)' = OutRefs(m)
    BY <1>5, <2>1
  <2>3. node[n].st = "table" /\ ~Last(n)
    BY <1>2, <1>4, <2>1 DEF RefInv, HoldInv
  <2>4. node' = [node EXCEPT ![n] = [node[n] EXCEPT !.st = "gone", !.refs = @ - 1]]
    BY <1>2, <1>9, <2>3 DEF Reclaim
  <2>5. node'[n] = [node[n] EXCEPT !.st = "gone", !.refs = @ - 1]
        /\ \A m \in Others(n) : node'[m] = node[m]
    BY <1>t, <2>4 DEF Others
  <2>6. /\ node'[n].refs = node[n].refs - 1 /\ node'[n].saved = node[n].saved
        /\ node'[n].sent = node[n].sent /\ node'[n].st = "gone"
    BY <1>t, <2>5 DEF Node
  <2>7. RefsCover'
    <3>1. SUFFICES ASSUME NEW m \in Nodes
                   PROVE  node'[m].refs >= Len(node'[m].saved) + node'[m].sent
                            + TableRefs(node'[m]) + HandlerRefs(m)' + OutRefs(m)'
      BY DEF RefsCover, TableRefs
    <3>2. CASE m = n
      <4> DEFINE R == node[n].refs
                 L == Len(node[n].saved)
                 S == node[n].sent
                 H == HandlerRefs(n)
                 O == OutRefs(n)
      <4>1. R >= L + S + 1 + H + O
            /\ R \in Int /\ L \in Int /\ S \in Int /\ H \in Int /\ O \in Int
        BY <2>3, Covers DEF RefInv, TableRefs
      <4>2. node'[m].refs = R - 1 /\ Len(node'[m].saved) = L /\ node'[m].sent = S
            /\ TableRefs(node'[m]) = 0 /\ HandlerRefs(m)' = H /\ OutRefs(m)' = O
        BY <2>2, <2>6, <3>2 DEF TableRefs
      <4> HIDE DEF R, L, S, H, O
      <4>3. R - 1 >= L + S + 0 + H + O
        BY <4>1
      <4>4. QED
        BY <4>2, <4>3
    <3>3. CASE m # n
      <4>1. node'[m] = node[m] /\ HandlerRefs(m)' = HandlerRefs(m) /\ OutRefs(m)' = OutRefs(m)
        BY <2>2, <2>5, <3>3 DEF Others
      <4>2. QED
        BY <4>1, Covers DEF RefInv
    <3>4. QED
      BY <3>2, <3>3
  <2>8. FreeInv'
    BY <2>5, <2>6 DEF FreeInv, RefInv, Others
  \* Nobody else leaves the node, and the timer does not hold the table.
  <2>9. HoldInv'
    <3>1. SUFFICES ASSUME NEW g \in Handlers, pc'[g] \in Leaving \cup TimerHolds
                   PROVE  node'[who'[g]].st = "table"
      BY DEF HoldInv
    <3>2. g # h /\ pc'[g] = pc[g]
      BY <1>t, <2>1, <3>1 DEF Goto, Leaving, TimerHolds
    <3>3. pc[g] \in Leaving
      BY <2>1, <3>1, <3>2 DEF TypeInv, HandInv
    <3>4. who[g] # n /\ who[g] \in Nodes /\ node[who[g]].st = "table"
      BY <1>2, <2>1, <3>2, <3>3, Handful DEF RefInv, AloneInv, HoldInv, Leaving
    <3>5. QED
      BY <1>0, <2>5, <3>4 DEF Others
  <2>10. AloneInv'
    BY <2>2 DEF NoneEnters, AloneInv, RefInv
  <2>11. QED
    BY <2>7, <2>8, <2>9, <2>10 DEF RefInv
<1>10. QED
  BY <1>6, <1>7, <1>8, <1>9 DEF NodeLeave

\* A node is looked up.
LEMMA FoundShift ==
  ASSUME TypeInv, NEW n \in Nodes,
         node' = [node EXCEPT ![n] = [node[n] EXCEPT !.refs = @ + 1]]
  PROVE  Shift(n, 1, 0, 0)
<1>1. node \in [Nodes -> Node] /\ node[n] \in Node /\ Len(node[n].saved) \in Nat
      /\ node[n].sent \in Nat
  BY Handful, NodeTypes DEF TypeInv
<1>2. node'[n] = [node[n] EXCEPT !.refs = @ + 1] /\ \A m \in Others(n) : node'[m] = node[m]
  BY <1>1 DEF Others
<1>3. /\ node'[n].refs = node[n].refs + 1 /\ node'[n].saved = node[n].saved
      /\ node'[n].sent = node[n].sent /\ node'[n].st = node[n].st
  BY <1>1, <1>2 DEF Node
<1>4. QED
  BY <1>1, <1>2, <1>3 DEF Shift

LEMMA RefTable ==
  ASSUME TypeInv, RefInv, NEW h \in Handlers,
         Put(h) \/ \E n \in Nodes, j \in RxJobs : Find(h, n, j)
  PROVE  RefInv'
<1> USE DEF bss
<1>t. node \in [Nodes -> Node] /\ (\A n \in Nodes : node[n] \in Node)
      /\ pc \in [Handlers -> Places] /\ who \in [Handlers -> Nodes \cup {NoNode}]
  BY Handful
<1>n. \A n \in Nodes : HandlerRefs(n) \in Nat /\ OutRefs(n) \in Nat /\ OutRefs(n) + 0 = OutRefs(n)
  <2>1. \A x \in Nat : x + 0 = x
    OBVIOUS
  <2>2. QED
    BY <2>1, HrNat, OutNat
<1>1. CASE Put(h)
  <2>1. pc[h] = "put" /\ pc[h] \notin Uncounted /\ "idle" \in Uncounted
    BY <1>1 DEF Put, Uncounted, TimerHolds
  <2>2. PICK n \in Nodes : who[h] = n
    BY <2>1, Handful
  <2>3. \A g \in Handlers : /\ pc'[g] = IF g = h THEN "idle" ELSE pc[g]
                            /\ who'[g] = IF g = h THEN NoNode ELSE who[g]
    BY <1>1, <1>t DEF Put, Goto
  <2>4. HandlerRefs(n)' = HandlerRefs(n) - 1
        /\ \A m \in Others(n) : HandlerRefs(m)' = HandlerRefs(m)
    BY <2>1, <2>2, <2>3, HrDrop
  <2>5. \A m \in Nodes : OutRefs(m)' = OutRefs(m)
    BY <1>1 DEF Put, output, OutRefs
  <2>6. Held(n, -1, 0)
    <3>1. HandlerRefs(n) - 1 = HandlerRefs(n) + -1
      BY <1>n
    <3>2. QED
      BY <1>n, <2>4, <2>5, <3>1 DEF Held, Others
  <2>7. HandlerRefs(n) >= 1
    BY <2>1, <2>2, HrPositive
  <2>8. NoneEnters
    BY <2>3 DEF NoneEnters, Leaving, TimerHolds
  <2>9. Release(n, node[n]) /\ node[n].sent = node[n].sent + 0
    BY <1>1, <2>2, NodeTypes DEF Put, Unref, TypeInv
  <2>10. 0 + -1 = -1 /\ -1 \in {-1, 0} /\ 0 \in {-1, 0} /\ 0 # -1
    OBVIOUS
  <2>11. QED
    BY <1>t, <2>6, <2>7, <2>8, <2>9, <2>10, RefRelease
<1>2. ASSUME NEW n \in Nodes, NEW j \in RxJobs, Find(h, n, j)
      PROVE  RefInv'
  <2>1. pc[h] = "idle" /\ pc[h] \in Uncounted /\ j \notin Uncounted /\ j \notin Leaving
        /\ node[n].st = "table" /\ node[n].st # "free"
    BY <1>2 DEF Find, Uncounted, TimerHolds, Leaving, RxJobs
  <2>2. \A g \in Handlers : /\ pc'[g] = IF g = h THEN j ELSE pc[g]
                            /\ who'[g] = IF g = h THEN n ELSE who[g]
    BY <1>2, <1>t DEF Find, Goto
  <2>3. HandlerRefs(n)' = HandlerRefs(n) + 1
        /\ \A m \in Others(n) : HandlerRefs(m)' = HandlerRefs(m)
    BY <2>1, <2>2, HrTake
  <2>4. \A m \in Nodes : OutRefs(m)' = OutRefs(m)
    BY <1>2 DEF Find, output, OutRefs
  <2>5. Held(n, 1, 0)
    BY <1>n, <2>3, <2>4 DEF Held, Others
  <2>6. NoneEnters
    BY <2>1, <2>2 DEF NoneEnters, Uncounted
  <2>7. node' = [node EXCEPT ![n] = [node[n] EXCEPT !.refs = @ + 1]]
    BY <1>2 DEF Find
  <2>8. Shift(n, 1, 0, 0)
    BY <2>7, FoundShift
  <2>9. 1 >= 0 + 0 + 1 + 0
    OBVIOUS
  <2>10. QED
    BY <2>1, <2>5, <2>6, <2>8, <2>9, RefShift, Ints
<1>3. QED
  BY <1>1, <1>2

LEMMA RefTimer ==
  ASSUME TypeInv, RefInv, Timer \/ \E n \in Nodes : TimerVisit(n)
  PROVE  RefInv'
<1> USE DEF bss
<1>t. node \in [Nodes -> Node] /\ (\A n \in Nodes : node[n] \in Node) /\ "timer" \in Handlers
      /\ pc \in [Handlers -> Places] /\ who \in [Handlers -> Nodes \cup {NoNode}]
  BY Handful
<1>o. UNCHANGED output
  BY DEF Timer, TimerVisit, TimerCheck, TimerClear, TimerGoOn, TimerProbe, TimerExpire
<1>1. ASSUME NEW n \in Nodes, TimerVisit(n)
      PROVE  RefInv'
  <2> DEFINE s == node[n].saved
             k == Len(s) - Len(node'[n].saved)
  <2>1. pc["timer"] = "idle" /\ node[n].st = "table" /\ who' = [who EXCEPT !["timer"] = n]
        /\ \E l \in TimerHolds : Goto("timer", l)
    BY <1>1 DEF TimerVisit, TimerHolds
  <2>2. PICK l \in TimerHolds : Goto("timer", l)
    BY <2>1
  <2>3. \A g \in Handlers : /\ pc'[g] = IF g = "timer" THEN l ELSE pc[g]
                            /\ who'[g] = IF g = "timer" THEN n ELSE who[g]
    BY <1>t, <2>1, <2>2 DEF Goto
  <2>4. \A m \in Nodes : HandlerRefs(m)' = HandlerRefs(m)
    BY <2>1, <2>3, HrSame DEF Uncounted
  <2>5. \A m \in Nodes : Held(m, 0, 0)
    BY <1>o, <2>4, NoneHeld
  <2>6. /\ node'[n].refs = node[n].refs /\ Len(node'[n].saved) <= Len(s)
        /\ node'[n].sent = node[n].sent /\ node'[n].st = node[n].st
        /\ Len(node'[n].saved) \in Nat
        /\ \A m \in Others(n) : node'[m] = node[m]
    <3>1. s \in Seq(Frame) /\ Len(s) \in Nat
      BY NodeTypes DEF TypeInv
    <3>2. CASE node' = node
      BY <3>1, <3>2
    <3>3. CASE node' = [node EXCEPT ![n] = [node[n] EXCEPT !.saved = Aged(s)]]
      <4>1. node'[n] = [node[n] EXCEPT !.saved = Aged(s)]
            /\ \A m \in Others(n) : node'[m] = node[m]
        BY <1>t, <3>3 DEF Others
      <4>2. /\ node'[n].refs = node[n].refs /\ node'[n].saved = Aged(s)
            /\ node'[n].sent = node[n].sent /\ node'[n].st = node[n].st
        BY <1>t, <4>1 DEF Node
      <4>3. Aged(s) \in Seq(Frame) /\ Len(Aged(s)) <= Len(s) /\ Len(Aged(s)) \in Nat
        BY <3>1, AgedQueue, LenProperties
      <4>4. QED
        BY <4>1, <4>2, <4>3
    <3>4. QED
      BY <1>1, <3>2, <3>3 DEF TimerVisit
  <2>7. node[n].refs \in Int /\ Len(s) \in Nat /\ node[n].sent \in Nat
    BY NodeTypes DEF TypeInv
  <2>8. Shift(n, 0, -k, 0) /\ -k \in Int /\ 0 >= -k + 0 + 0 + 0
    <3> DEFINE a == Len(s)
               b == Len(node'[n].saved)
    <3>1. a \in Nat /\ b \in Nat /\ b <= a /\ k = a - b
      BY <2>6, <2>7
    <3> HIDE DEF a, b, k
    <3>2. b = a + (-k) /\ -k \in Int /\ 0 >= -k + 0 + 0 + 0
      BY <3>1
    <3>3. Len(node'[n].saved) = Len(node[n].saved) + (-k)
      BY <3>2 DEF a, b
    <3>4. node'[n].refs = node[n].refs + 0 /\ node'[n].sent = node[n].sent + 0
      BY <2>6, <2>7
    <3>5. QED
      BY <2>6, <3>2, <3>3, <3>4 DEF Shift
  <2> HIDE DEF k
  <2>9. RefsCover' /\ FreeInv' /\ \A m \in Nodes : node'[m].st = node[m].st
    BY <2>5, <2>8, ShiftCovers, Ints DEF RefInv
  <2>10. HoldInv'
    <3>1. SUFFICES ASSUME NEW g \in Handlers, pc'[g] \in Leaving \cup TimerHolds
                   PROVE  node'[who'[g]].st = "table"
      BY DEF HoldInv
    <3>2. CASE g = "timer"
      BY <2>1, <2>3, <2>9, <3>2
    <3>3. CASE g # "timer"
      <4>1. pc[g] \in Leaving \cup TimerHolds /\ who'[g] = who[g] /\ pc[g] # "idle"
        BY <2>3, <3>1, <3>3 DEF Leaving, TimerHolds
      <4>2. who[g] \in Nodes /\ node[who[g]].st = "table"
        BY <4>1, Handful DEF HoldInv, RefInv
      <4>3. QED
        BY <2>9, <4>1, <4>2
    <3>4. QED
      BY <3>2, <3>3
  <2>11. AloneInv'
    <3>1. l \notin Leaving
      BY DEF Leaving, TimerHolds
    <3>2. QED
      BY <2>3, <3>1 DEF AloneInv, RefInv
  <2>12. QED
    BY <2>9, <2>10, <2>11 DEF RefInv
<1>2. CASE Timer
  <2>1. pc["timer"] \in TimerHolds /\ pc["timer"] # "idle" /\ pc["timer"] \in Uncounted
        /\ pc["timer"] \notin Leaving
    BY <1>2 DEF Timer, TimerCheck, TimerClear, TimerGoOn, TimerProbe, TimerExpire, TimerHolds,
                Uncounted, Leaving
  <2>2. PICK n \in Nodes : who["timer"] = n
    BY <1>t, <2>1, Handful
  <2>3. node[n].st = "table" /\ node[n].st # "free"
    BY <1>t, <2>1, <2>2 DEF RefInv, HoldInv
  <2>4. CASE TimerCheck \/ TimerClear \/ TimerGoOn
    <3>1. node' = node
          /\ \E l \in {"timclear", "probe", "idle"} :
               Goto("timer", l) /\ (l # "idle" => who' = who)
                 /\ (who' = who \/ who' = [who EXCEPT !["timer"] = NoNode])
      BY <2>4 DEF TimerCheck, TimerClear, TimerGoOn
    <3>2. PICK l \in {"timclear", "probe", "idle"} :
               Goto("timer", l) /\ (l # "idle" => who' = who)
                 /\ (who' = who \/ who' = [who EXCEPT !["timer"] = NoNode])
      BY <3>1
    <3>3. l \in Uncounted /\ l \notin Leaving /\ "idle" \notin TimerHolds
      BY DEF Uncounted, TimerHolds, Leaving
    <3>4. \A g \in Handlers : /\ pc'[g] = IF g = "timer" THEN l ELSE pc[g]
                              /\ g # "timer" => who'[g] = who[g]
      BY <1>t, <3>2 DEF Goto
    <3>5. NoneEnters
      BY <2>1, <3>2, <3>3, <3>4 DEF NoneEnters
    <3>6. \A m \in Nodes : HandlerRefs(m)' = HandlerRefs(m)
      BY <2>1, <3>3, <3>4, HrSame
    <3>7. QED
      BY <1>o, <3>1, <3>5, <3>6, NoneHeld, RefQuiet
  <2>5. CASE TimerProbe
    <3>1. node' = [node EXCEPT ![n] = [node[n] EXCEPT !.refs = @ + 1, !.sent = @ + 1]]
          /\ Goto("timer", "idle") /\ who' = [who EXCEPT !["timer"] = NoNode]
      BY <2>2, <2>5 DEF TimerProbe
    <3>2. "idle" \in Uncounted /\ "idle" \notin Leaving /\ "idle" \notin TimerHolds
      BY DEF Uncounted, TimerHolds, Leaving
    <3>3. \A g \in Handlers : /\ pc'[g] = IF g = "timer" THEN "idle" ELSE pc[g]
                              /\ g # "timer" => who'[g] = who[g]
      BY <1>t, <3>1 DEF Goto
    <3>4. NoneEnters
      BY <3>2, <3>3 DEF NoneEnters
    <3>5. \A m \in Nodes : HandlerRefs(m)' = HandlerRefs(m)
      BY <2>1, <3>2, <3>3, HrSame
    <3>6. Held(n, 0, 0)
      BY <1>o, <3>5, NoneHeld
    <3>7. Shift(n, 1, 0, 1)
      BY <3>1, OneMore
    <3>8. 1 >= 0 + 1 + 0 + 0
      OBVIOUS
    <3>9. QED
      BY <2>3, <3>4, <3>6, <3>7, <3>8, RefShift, Ints
  <2>6. CASE TimerExpire
    <3>1. node' = [node EXCEPT ![n] = [node[n] EXCEPT !.refs = @ + 1]]
          /\ Goto("timer", "leave") /\ who' = who
      BY <2>2, <2>6 DEF TimerExpire
    <3>2. "leave" \notin Uncounted /\ "leave" \notin Leaving /\ "leave" \notin TimerHolds
      BY DEF Uncounted, TimerHolds, Leaving
    <3>3. \A g \in Handlers : /\ pc'[g] = IF g = "timer" THEN "leave" ELSE pc[g]
                              /\ who'[g] = who[g]
      BY <1>t, <3>1 DEF Goto
    <3>4. NoneEnters
      BY <3>2, <3>3 DEF NoneEnters
    <3>5. HandlerRefs(n)' = HandlerRefs(n) + 1
          /\ \A m \in Others(n) : HandlerRefs(m)' = HandlerRefs(m)
      BY <1>t, <2>1, <2>2, <3>2, <3>3, HrTake
    <3>6. Held(n, 1, 0)
      <4>1. \A m \in Nodes : OutRefs(m)' = OutRefs(m)
        BY <1>o DEF output, OutRefs
      <4>2. OutRefs(n) + 0 = OutRefs(n)
        BY OutNat
      <4>3. QED
        BY <3>5, <4>1, <4>2 DEF Held, Others
    <3>7. Shift(n, 1, 0, 0)
      BY <3>1, FoundShift
    <3>8. 1 >= 0 + 0 + 1 + 0
      OBVIOUS
    <3>9. QED
      BY <2>3, <3>4, <3>6, <3>7, <3>8, RefShift, Ints
  <2>7. QED
    BY <1>2, <2>4, <2>5, <2>6 DEF Timer
<1>3. QED
  BY <1>1, <1>2

LEMMA RefStep == TypeInv /\ RefInv /\ [Next]_vars => RefInv'
<1>1. SUFFICES ASSUME TypeInv, RefInv, [Next]_vars PROVE RefInv'
  OBVIOUS
<1>2. CASE UNCHANGED vars
  <2>1. pc' = pc /\ who' = who /\ node' = node /\ UNCHANGED output /\ UNCHANGED handler
    BY <1>2 DEF vars, output, handler
  <2>2. QED
    BY <1>1, <2>1, HandlersStay, NoneHeld, RefQuiet
<1>3. CASE Next
  BY <1>1, <1>3, RefOut, RefRx, RefLeave, RefTable, RefTimer DEF Next, Step
<1>4. QED
  BY <1>1, <1>2, <1>3

LEMMA RefInit == Init => RefInv
<1>1. SUFFICES ASSUME Init PROVE RefInv
  OBVIOUS
<1>2. \A n \in Nodes : node[n] = Blank
  BY <1>1 DEF Init
<1>3. Len(Blank.saved) = 0 /\ Blank.refs = 0 /\ Blank.sent = 0 /\ TableRefs(Blank) = 0
  BY EmptySeq, LenProperties DEF Blank, TableRefs
<1>4. \A n \in Nodes : HandlerRefs(n) = 0 /\ OutRefs(n) = 0
  <2>1. SUFFICES ASSUME NEW n \in Nodes PROVE HandlerRefs(n) = 0 /\ OutRefs(n) = 0
    OBVIOUS
  <2>2. {h \in Handlers : who[h] = n /\ pc[h] \notin TimerHolds \cup {"idle"}} = {}
    BY <1>1 DEF Init
  <2>3. QED
    BY <1>1, <2>2, FS_EmptySet DEF HandlerRefs, OutRefs, Init
<1>5. RefsCover
  BY <1>2, <1>3, <1>4 DEF RefsCover
<1>6. FreeInv
  BY <1>2, <1>3 DEF FreeInv
<1>7. \A h \in Handlers : pc[h] \notin Leaving \cup TimerHolds
  BY <1>1 DEF Init, Leaving, TimerHolds
<1>8. QED
  BY <1>5, <1>6, <1>7 DEF RefInv, HoldInv, AloneInv

\* No node is freed under a saved frame, a frame in the driver, an output
\* call, a handler or the node table, however they interleave, up to the
\* defects that end a run.
THEOREM ReferencesCover == Spec => []RefsCover
<1>1. RefInv => RefsCover
  BY DEF RefInv
<1>2. QED
  BY <1>1, RefInit, RefStep, TypeHolds, PTL DEF Spec

-----------------------------------------------------------------------------
(* The time a frame is saved.                                              *)

\* A station's listen interval, when all stations have the same, is the
\* greatest age there is; the ages of neighbours in a queue then add up to
\* one listen interval at most.
Longest == IF Lifetimes = {Life} THEN Life ELSE AgeMod - 1
Cost(age) == age \div Wait
Allowance(n) == (IF Lifetimes = {Life} THEN (n + 1) \div 2 ELSE n) * Cost(Longest)

\* S[i] is the number of passes before the first i frames are gone.  What
\* a frame has seen and has still to see is within the bound, and so is any
\* stretch of the queue, for the frames behind it to come.
Ahead(s, S) ==
  /\ S[0] = 0
  /\ \A i \in 1 .. Len(s) :
       /\ s[i].age <= Longest
       /\ S[i] = S[i - 1] + Cost(s[i].age)
       /\ s[i].passes + S[i] <= Allowance(MaxQueue)
  /\ \A i, j \in 0 .. Len(s) : i <= j => S[i] <= S[j] /\ S[j] - S[i] <= Allowance(j - i)
Budgeted(s) ==
  /\ Len(s) <= MaxQueue
  /\ \E S \in [0 .. Len(s) -> Nat] : Ahead(s, S)
AgeInv == \A n \in Nodes : Budgeted(node[n].saved)

\* The passes an age lasts.
LEMMA CostFacts ==
  ASSUME NEW a \in Nat
  PROVE  /\ Cost(a) \in Nat
         /\ a < Wait => Cost(a) = 0
         /\ a >= Wait => Cost(a - Wait) = Cost(a) - 1 /\ Cost(a) >= 1
<1>1. a < Wait => a \div Wait = 0
  OBVIOUS
<1>2. a >= Wait => (a - Wait) \div Wait = a \div Wait - 1 /\ a \div Wait >= 1
  OBVIOUS
<1>3. a \div Wait \in Nat
  OBVIOUS
<1>4. QED
  BY <1>1, <1>2, <1>3 DEF Cost

LEMMA CostOrder ==
  ASSUME NEW a \in Nat, NEW b \in Nat
  PROVE  /\ a <= b => Cost(a) <= Cost(b)
         /\ Cost(a) + Cost(b) <= Cost(a + b)
<1>1. a <= b => a \div Wait <= b \div Wait
  OBVIOUS
<1>2. a \div Wait + b \div Wait <= (a + b) \div Wait
  OBVIOUS
<1>3. QED
  BY <1>1, <1>2 DEF Cost

LEMMA LongestFacts ==
  /\ Longest \in 0 .. AgeMod - 1 /\ Cost(Longest) \in Nat
  /\ Lifetimes = {Life} => Longest = Life
<1>1. Life \in Lifetimes
  BY BlankNode
<1>2. Longest \in 0 .. AgeMod - 1
  BY <1>1 DEF Longest
<1>3. QED
  BY <1>2, CostFacts DEF Longest

\* The bound of a longer stretch: one age more for each frame, or for each
\* two of them.
LEMMA AllowanceFacts ==
  ASSUME NEW n \in Nat
  PROVE  /\ Allowance(n) \in Nat /\ Allowance(0) = 0 /\ Allowance(1) = Cost(Longest)
         /\ Lifetimes # {Life} => Allowance(n + 1) = Allowance(n) + Cost(Longest)
         /\ Lifetimes = {Life} => Allowance(n + 2) = Allowance(n) + Cost(Longest)
         /\ Allowance(n) <= Allowance(n + 1)
<1> DEFINE c == Cost(Longest)
<1>1. c \in Nat
  BY LongestFacts
<1> HIDE DEF c
<1>2. n * c \in Nat /\ ((n + 1) \div 2) * c \in Nat /\ 0 * c = 0 /\ 1 * c = c
  BY <1>1
<1>3. (n + 1) * c = n * c + c
  BY <1>1
<1>4. ((n + 2 + 1) \div 2) * c = ((n + 1) \div 2) * c + c
  BY <1>1
<1>5. ((n + 1) \div 2) * c <= ((n + 1 + 1) \div 2) * c
  <2>1. (n + 1 + 1) \div 2 = (n + 1) \div 2 \/ (n + 1 + 1) \div 2 = (n + 1) \div 2 + 1
    OBVIOUS
  <2>2. ((n + 1) \div 2 + 1) * c = ((n + 1) \div 2) * c + c
    BY <1>1
  <2>3. QED
    BY <1>1, <1>2, <2>1, <2>2
<1>6. (0 + 1) \div 2 = 0 /\ (1 + 1) \div 2 = 1
  OBVIOUS
<1>7. CASE Lifetimes = {Life}
  <2>1. \A m : Allowance(m) = ((m + 1) \div 2) * c
    BY <1>7 DEF Allowance, c
  <2>2. QED
    BY <1>1, <1>2, <1>4, <1>5, <1>6, <1>7, <2>1 DEF c
<1>8. CASE Lifetimes # {Life}
  <2>1. \A m : Allowance(m) = m * c
    BY <1>8 DEF Allowance, c
  <2>2. QED
    BY <1>1, <1>2, <1>3, <1>8, <2>1 DEF c
<1>9. QED
  BY <1>7, <1>8

LEMMA AllowanceNat == \A n \in Nat : Allowance(n) \in Nat
BY AllowanceFacts

LEMMA AllowanceFull == Allowance(MaxQueue) \in Nat
<1>1. MaxQueue \in Nat
  OBVIOUS
<1>2. QED
  BY <1>1, AllowanceNat

LEMMA AllowanceEnds == Allowance(0) = 0 /\ Allowance(1) = Cost(Longest)
<1>1. 0 \in Nat
  OBVIOUS
<1>2. QED
  BY <1>1, AllowanceFacts

\* What a full queue may take covers what a shorter one takes.
LEMMA AllowanceGrows ==
  ASSUME NEW m \in Nat, NEW n \in Nat, m <= n
  PROVE  Allowance(m) <= Allowance(n)
<1> DEFINE Bad == {k \in Nat : m <= k /\ ~(Allowance(m) <= Allowance(k))}
<1>1. SUFFICES Bad = {}
  BY <1>1
<1>2. SUFFICES ASSUME Bad # {} PROVE FALSE
  OBVIOUS
<1>3. PICK k \in Bad : \A j \in Bad : k <= j
  BY <1>2, HasLeast
<1>4. k \in Nat /\ m <= k /\ ~(Allowance(m) <= Allowance(k))
  BY <1>3
<1>5. Allowance(m) \in Nat /\ Allowance(k) \in Nat
  BY <1>4, AllowanceFacts
<1>6. k # m
  BY <1>4, <1>5
<1>7. k - 1 \in Nat /\ m <= k - 1 /\ k - 1 + 1 = k
  BY <1>4, <1>6
<1>8. k - 1 \notin Bad
  BY <1>3, <1>4
<1>9. Allowance(m) <= Allowance(k - 1)
  BY <1>7, <1>8
<1>10. Allowance(k - 1) <= Allowance(k - 1 + 1) /\ Allowance(k - 1) \in Nat
  BY <1>7, AllowanceFacts
<1>11. QED
  BY <1>4, <1>5, <1>7, <1>9, <1>10

LEMMA EmptyBudget == Budgeted(<< >>)
<1> DEFINE S == [i \in 0 .. 0 |-> 0]
<1>1. Len(<< >>) = 0
  OBVIOUS
<1>2. 0 .. 0 = {0} /\ 1 .. 0 = {} /\ 0 \in Nat
  OBVIOUS
<1>3. S \in [0 .. Len(<< >>) -> Nat] /\ S[0] = 0
  BY <1>1
<1>4. Allowance(0) = 0
  BY AllowanceFacts
<1>5. Ahead(<< >>, S)
  <2>1. \A i, j \in 0 .. 0 : i = 0 /\ j = 0 /\ j - i = 0
    OBVIOUS
  <2>2. \A i, j \in 0 .. 0 : S[i] <= S[j] /\ S[j] - S[i] <= Allowance(j - i)
    BY <1>3, <1>4, <2>1
  <2> HIDE DEF S
  <2>3. QED
    BY <1>1, <1>2, <1>3, <2>2 DEF Ahead
<1>6. QED
  BY <1>1, <1>3, <1>5 DEF Budgeted

\* What Ahead says of the values of S.
LEMMA AheadTypes ==
  ASSUME NEW s \in Seq(Frame), NEW S \in [0 .. Len(s) -> Nat]
  PROVE  /\ Len(s) \in Nat
         /\ \A i \in 0 .. Len(s) : S[i] \in Nat
         /\ \A i \in 1 .. Len(s) :
              s[i].age \in Nat /\ s[i].passes \in Nat /\ Cost(s[i].age) \in Nat
<1>1. Len(s) \in Nat /\ \A i \in 1 .. Len(s) : s[i] \in Frame
  BY LenProperties, ElementOfSeq
<1>2. \A i \in 1 .. Len(s) : s[i].age \in Nat /\ s[i].passes \in Nat
  BY <1>1 DEF Frame
<1>3. \A i \in 1 .. Len(s) : Cost(s[i].age) \in Nat
  BY <1>2, CostFacts
<1>4. QED
  BY <1>1, <1>2, <1>3

LEMMA AheadFrame ==
  ASSUME NEW s, NEW S, Ahead(s, S), NEW i \in 1 .. Len(s), NEW h, h = i - 1
  PROVE  /\ s[i].age <= Longest
         /\ S[i] = S[h] + Cost(s[i].age)
         /\ s[i].passes + S[i] <= Allowance(MaxQueue)
BY DEF Ahead

LEMMA AheadOrder ==
  ASSUME NEW s, NEW S, Ahead(s, S), NEW i \in 0 .. Len(s), NEW j \in 0 .. Len(s), i <= j,
         NEW d, d = j - i
  PROVE  S[i] <= S[j] /\ S[j] - S[i] <= Allowance(d)
BY DEF Ahead

\* The queue without its first frame.
LEMMA TailBudget ==
  ASSUME NEW s \in Seq(Frame), s # << >>, Budgeted(s)
  PROVE  Budgeted(Tail(s))
<1>1. PICK S \in [0 .. Len(s) -> Nat] : Ahead(s, S)
  BY DEF Budgeted
<1> DEFINE t == Tail(s)
           l == Len(s)
           T == [i \in 0 .. l - 1 |-> S[i + 1] - S[1]]
<1>2. /\ l \in Nat \ {0} /\ Len(t) = l - 1
      /\ \A i \in 1 .. l - 1 : t[i] = s[i + 1]
  <2>1. Len(s) \in Nat /\ Len(s) # 0
    BY EmptySeq, LenProperties
  <2>2. Len(t) = Len(s) - 1 /\ \A i \in 1 .. Len(t) : t[i] = s[i + 1]
    BY HeadTailProperties
  <2>3. QED
    BY <2>1, <2>2
<1>3. l <= MaxQueue
  BY DEF Budgeted
<1>4. \A i \in 0 .. l - 1 : i + 1 \in 1 .. l /\ i + 1 \in 0 .. l /\ 1 <= i + 1
  BY <1>2
<1>5. 1 \in 0 .. l /\ S[1] \in Nat
  BY <1>1, <1>2, AheadTypes
<1>6. \A i \in 0 .. l - 1 : S[i + 1] \in Nat /\ S[1] <= S[i + 1]
  <2>1. SUFFICES ASSUME NEW i \in 0 .. l - 1 PROVE S[i + 1] \in Nat /\ S[1] <= S[i + 1]
    OBVIOUS
  <2>2. i + 1 \in 0 .. l /\ 1 <= i + 1
    BY <1>4
  <2>3. QED
    BY <1>1, <1>5, <2>2, AheadTypes, AheadOrder
<1>7. \A i \in 0 .. l - 1 : T[i] = S[i + 1] - S[1] /\ T[i] \in Nat
  BY <1>5, <1>6
<1>8. T \in [0 .. Len(t) -> Nat]
  BY <1>2, <1>7
<1>9. T[0] = 0
  <2>1. 0 \in 0 .. l - 1 /\ 0 + 1 = 1
    BY <1>2
  <2>2. QED
    BY <1>5, <1>7, <2>1
<1> HIDE DEF T
<1>o. \A p, q \in 0 .. l : \A d : p <= q /\ d = q - p =>
        S[p] <= S[q] /\ S[q] - S[p] <= Allowance(d)
  BY <1>1 DEF Ahead
<1>10. ASSUME NEW i \in 1 .. l - 1
       PROVE  /\ t[i].age <= Longest
              /\ T[i] = T[i - 1] + Cost(t[i].age)
              /\ t[i].passes + T[i] <= Allowance(MaxQueue)
  <2>1. t[i] = s[i + 1] /\ i + 1 \in 1 .. l /\ i \in 0 .. l - 1 /\ i - 1 \in 0 .. l - 1
        /\ i - 1 + 1 = i /\ i + 1 - 1 = i /\ i \in 0 .. l
    BY <1>2
  <2>a. /\ s[i + 1].age <= Longest /\ S[i + 1] = S[i] + Cost(s[i + 1].age)
        /\ s[i + 1].passes + S[i + 1] <= Allowance(MaxQueue)
    <3>1. i = i + 1 - 1
      BY <2>1
    <3>2. QED
      BY <1>1, <2>1, <3>1 DEF Ahead
  <2>2. s[i + 1].passes \in Nat /\ Cost(s[i + 1].age) \in Nat
    BY <2>1, AheadTypes
  <2>3. T[i] = S[i + 1] - S[1] /\ T[i - 1] = S[i] - S[1]
    BY <1>7, <2>1
  <2>4. S[i] \in Nat /\ S[i + 1] \in Nat /\ Allowance(MaxQueue) \in Nat
    BY <1>6, <2>1, AheadTypes, AllowanceNat
  <2>5. QED
    <3>1. T[i] = T[i - 1] + Cost(s[i + 1].age)
      BY <1>5, <2>2, <2>3, <2>4, <2>a
    <3>2. s[i + 1].passes + T[i] <= Allowance(MaxQueue)
      <4> DEFINE x == S[i + 1]
                 y == S[1]
                 p == s[i + 1].passes
                 b == Allowance(MaxQueue)
      <4>1. x \in Nat /\ y \in Nat /\ p \in Nat /\ b \in Nat /\ p + x <= b
        BY <1>5, <2>2, <2>4, <2>a
      <4> HIDE DEF x, y, p, b
      <4>2. p + (x - y) <= b
        BY <4>1
      <4>3. T[i] = x - y
        BY <2>3 DEF x, y
      <4>4. QED
        BY <4>2, <4>3 DEF p, b
    <3>3. QED
      BY <2>1, <2>a, <3>1, <3>2
<1>11. ASSUME NEW i \in 0 .. l - 1, NEW j \in 0 .. l - 1, i <= j
       PROVE  T[i] <= T[j] /\ T[j] - T[i] <= Allowance(j - i)
  <2>1. i + 1 \in 0 .. l /\ j + 1 \in 0 .. l /\ i + 1 <= j + 1 /\ j + 1 - (i + 1) = j - i
    BY <1>11, <1>4
  <2>2. j - i = j + 1 - (i + 1)
    BY <2>1
  <2>3. S[i + 1] <= S[j + 1] /\ S[j + 1] - S[i + 1] <= Allowance(j - i)
    BY <1>o, <2>1, <2>2
  <2>4. T[i] = S[i + 1] - S[1] /\ T[j] = S[j + 1] - S[1]
        /\ S[i + 1] \in Nat /\ S[j + 1] \in Nat
    BY <1>6, <1>7
  <2>5. T[j] - T[i] = S[j + 1] - S[i + 1]
    BY <1>5, <2>4
  <2>6. QED
    BY <1>5, <2>2, <2>3, <2>4, <2>5
<1>12. Ahead(t, T)
  <2> HIDE DEF t
  <2>1. Len(t) = l - 1
    BY <1>2
  <2>2. QED
    BY <1>9, <1>10, <1>11, <2>1 DEF Ahead
<1>13. Len(t) <= MaxQueue
  BY <1>2, <1>3
<1>14. QED
  BY <1>8, <1>12, <1>13 DEF Budgeted

\* The frames of an aged queue.
LEMMA AgedFrames ==
  ASSUME NEW s \in Seq(Frame)
  PROVE  /\ Len(Aged(s)) = Len(s) - Stale(s)
         /\ \A i \in 1 .. Len(s) - Stale(s) :
              Aged(s)[i] = [age |-> IF i = 1 THEN s[Stale(s) + i].age - Wait
                                            ELSE s[Stale(s) + i].age,
                            passes |-> s[Stale(s) + i].passes + 1]
<1> DEFINE k == Stale(s)
           rest == SubSeq(s, k + 1, Len(s))
           older(f, i) == [age |-> IF i = 1 THEN f.age - Wait ELSE f.age,
                           passes |-> f.passes + 1]
<1>1. k \in 0 .. Len(s) /\ Len(s) \in Nat
  BY StaleBounds, LenProperties
<1>2. rest \in Seq(Frame) /\ Len(rest) = Len(s) - k
      /\ \A i \in 1 .. Len(s) - k : rest[i] = s[k + i]
  <2>1. k + 1 \in 1 .. Len(s) + 1 /\ \A i \in k + 1 .. Len(s) : s[i] \in Frame
    BY <1>1, ElementOfSeq
  <2>2. QED
    BY <1>1, <2>1, SubSeqProperties
<1>3. Aged(s) = [i \in 1 .. Len(s) - k |-> older(rest[i], i)]
  BY <1>2, LenProperties DEF Aged
<1>4. DOMAIN Aged(s) = 1 .. Len(s) - k
  BY <1>3
<1>5. Len(Aged(s)) = Len(s) - k
  <2>1. Len(s) - k \in Nat /\ Len(Aged(s)) \in Nat /\ DOMAIN Aged(s) = 1 .. Len(Aged(s))
    BY <1>1, AgedQueue, LenProperties
  <2>2. QED
    BY <1>4, <2>1
<1>6. ASSUME NEW i \in 1 .. Len(s) - k
      PROVE  Aged(s)[i] = older(s[k + i], i)
  <2>1. rest[i] = s[k + i]
    BY <1>2
  <2> HIDE DEF older, rest
  <2>2. Aged(s)[i] = older(rest[i], i)
    BY <1>3
  <2>3. QED
    BY <2>1, <2>2
<1>7. QED
  BY <1>5, <1>6

\* The frames discarded waited for no further pass, and the first that is
\* left for at least one.
LEMMA AgedBudget ==
  ASSUME NEW s \in Seq(Frame), Budgeted(s)
  PROVE  Budgeted(Aged(s))
<1>1. PICK S \in [0 .. Len(s) -> Nat] : Ahead(s, S)
  BY DEF Budgeted
<1> DEFINE t == Aged(s)
           l == Len(s)
           k == Stale(s)
           T == [i \in 0 .. l - k |-> IF i = 0 THEN 0 ELSE S[k + i] - 1]
<1>f. \A p \in 1 .. l : \A h : h = p - 1 =>
        /\ s[p].age <= Longest /\ S[p] = S[h] + Cost(s[p].age)
        /\ s[p].passes + S[p] <= Allowance(MaxQueue)
  BY <1>1 DEF Ahead
<1>2. l \in Nat /\ k \in 0 .. l /\ l <= MaxQueue /\ Len(t) = l - k
  BY StaleBounds, LenProperties, AgedFrames DEF Budgeted
<1>3. \A i \in 0 .. k : S[i] = 0
  <2> DEFINE Bad == {i \in 0 .. k : S[i] # 0}
  <2>1. SUFFICES ASSUME Bad # {} PROVE FALSE
    OBVIOUS
  <2>2. Bad \in SUBSET Nat
    BY <1>2
  <2>3. PICK i \in Bad : \A j \in Bad : i <= j
    BY <2>1, <2>2, HasLeast
  <2>4. i \in 0 .. k /\ S[i] # 0
    BY <2>3
  <2>5. i # 0
    BY <1>1, <2>4 DEF Ahead
  <2>6. i \in 1 .. k /\ i \in 1 .. l /\ i - 1 \in 0 .. k /\ ~(i <= i - 1)
    BY <1>2, <2>4, <2>5
  <2>7. S[i - 1] = 0
    BY <2>3, <2>6
  <2>8. s[i].age < Wait
    BY <2>6, StaleBounds
  <2>9. s[i].age \in Nat /\ S[i] = S[i - 1] + Cost(s[i].age)
    BY <1>1, <2>6, AheadTypes, AheadFrame
  <2>10. Cost(s[i].age) = 0
    BY <2>8, <2>9, CostFacts
  <2>11. QED
    BY <2>4, <2>7, <2>9, <2>10
<1>4. \A i \in 1 .. l - k : k + i \in 1 .. l /\ k + i \in 0 .. l /\ k + 1 <= k + i /\ k + 1 \in 1 .. l
  BY <1>2
<1>5. l # k => /\ s[k + 1].age \in Nat /\ s[k + 1].age >= Wait /\ Cost(s[k + 1].age) >= 1
               /\ Cost(s[k + 1].age - Wait) = Cost(s[k + 1].age) - 1
               /\ S[k + 1] = Cost(s[k + 1].age)
               /\ S[k + 1] \in Nat
               /\ k + 1 \in 1 .. l
  <2>1. SUFFICES ASSUME l # k
                 PROVE  /\ s[k + 1].age \in Nat /\ s[k + 1].age >= Wait
                        /\ Cost(s[k + 1].age) >= 1
                        /\ Cost(s[k + 1].age - Wait) = Cost(s[k + 1].age) - 1
                        /\ S[k + 1] = Cost(s[k + 1].age)
                        /\ S[k + 1] \in Nat
                        /\ k + 1 \in 1 .. l
    OBVIOUS
  <2>2. k < l /\ k + 1 \in 1 .. l /\ k + 1 - 1 = k /\ k \in 0 .. k /\ k + 1 \in 0 .. l
    BY <1>2, <2>1
  <2>3. s[k + 1].age >= Wait
    BY <2>2, StaleBounds
  <2>4. s[k + 1].age \in Nat /\ Cost(s[k + 1].age) \in Nat /\ S[k + 1] \in Nat
    BY <2>2, AheadTypes
  <2>5. S[k + 1] = Cost(s[k + 1].age)
    <3>1. k = k + 1 - 1 /\ S[k] = 0
      BY <1>3, <2>2
    <3>2. S[k + 1] = S[k] + Cost(s[k + 1].age)
      BY <1>f, <2>2, <3>1
    <3>3. QED
      BY <2>4, <3>1, <3>2
  <2>6. Cost(s[k + 1].age - Wait) = Cost(s[k + 1].age) - 1 /\ Cost(s[k + 1].age) >= 1
    BY <2>3, <2>4, CostFacts
  <2>7. QED
    BY <2>2, <2>3, <2>4, <2>5, <2>6
<1>6. \A i \in 1 .. l - k : S[k + i] \in Nat /\ S[k + i] >= 1
  <2>1. SUFFICES ASSUME NEW i \in 1 .. l - k PROVE S[k + i] \in Nat /\ S[k + i] >= 1
    OBVIOUS
  <2>2. l # k
    BY <1>2
  <2>3. k + i \in 0 .. l /\ k + 1 \in 0 .. l /\ k + 1 <= k + i
    BY <1>2, <1>4
  <2>4. S[k + 1] <= S[k + i] /\ S[k + i] \in Nat
    BY <1>1, <2>3, AheadTypes, AheadOrder
  <2>5. QED
    BY <1>5, <2>2, <2>4
<1>7. T[0] = 0 /\ \A i \in 1 .. l - k : T[i] = S[k + i] - 1 /\ T[i] \in Nat
  BY <1>2, <1>6
<1>8. T \in [0 .. Len(t) -> Nat]
  BY <1>2, <1>6
<1> HIDE DEF T
<1>o. \A p, q \in 0 .. l : \A d : p <= q /\ d = q - p =>
        S[p] <= S[q] /\ S[q] - S[p] <= Allowance(d)
  BY <1>1 DEF Ahead
<1>9. ASSUME NEW i \in 1 .. l - k
      PROVE  /\ t[i].age <= Longest
             /\ T[i] = T[i - 1] + Cost(t[i].age)
             /\ t[i].passes + T[i] <= Allowance(MaxQueue)
  <2>1. k + i \in 1 .. l /\ k + (i - 1) = k + i - 1
    BY <1>2, <1>4
  <2>a. /\ s[k + i].age <= Longest
        /\ S[k + i] = S[k + (i - 1)] + Cost(s[k + i].age)
        /\ s[k + i].passes + S[k + i] <= Allowance(MaxQueue)
    <3> DEFINE p == k + i
               h == k + (i - 1)
    <3>1. p \in 1 .. l /\ h = p - 1
      BY <1>2, <2>1
    <3> HIDE DEF p, h
    <3>2. /\ s[p].age <= Longest /\ S[p] = S[h] + Cost(s[p].age)
          /\ s[p].passes + S[p] <= Allowance(MaxQueue)
      BY <1>f, <3>1
    <3>3. QED
      BY <3>2 DEF p, h
  <2>2. s[k + i].age \in Nat /\ s[k + i].passes \in Nat /\ Cost(s[k + i].age) \in Nat
    BY <2>1, AheadTypes
  <2>3. t[i].age = (IF i = 1 THEN s[k + i].age - Wait ELSE s[k + i].age)
        /\ t[i].passes = s[k + i].passes + 1
    <3>1. t[i] = [age |-> IF i = 1 THEN s[k + i].age - Wait ELSE s[k + i].age,
                  passes |-> s[k + i].passes + 1]
      BY AgedFrames
    <3>2. QED
      BY <3>1
  <2>b. T[i] = S[k + i] - 1 /\ S[k + i] \in Nat /\ S[k + i] >= 1
    BY <1>6, <1>7
  <2>4. Allowance(MaxQueue) \in Nat /\ Longest \in Nat
    BY AllowanceFull, LongestFacts
  <2>5. t[i].passes + T[i] <= Allowance(MaxQueue)
    <3> DEFINE x == S[k + i]
               p == s[k + i].passes
               b == Allowance(MaxQueue)
    <3>1. x \in Nat /\ p \in Nat /\ b \in Nat /\ p + x <= b
      BY <2>2, <2>4, <2>a, <2>b
    <3>2. T[i] = x - 1 /\ t[i].passes = p + 1
      BY <2>3, <2>b
    <3> HIDE DEF x, p, b
    <3>3. p + 1 + (x - 1) <= b
      BY <3>1
    <3>4. QED
      BY <3>2, <3>3 DEF b
  <2>6. CASE i = 1
    <3>1. t[i].age = s[k + 1].age - Wait /\ l # k
      BY <1>2, <2>3, <2>6
    <3>2. s[k + 1].age <= Longest /\ s[k + 1].age \in Nat /\ Cost(s[k + 1].age) \in Nat
      BY <2>2, <2>6, <2>a
    <3>3. Cost(t[i].age) = Cost(s[k + 1].age) - 1
      BY <1>5, <3>1
    <3>4. T[i] = S[k + 1] - 1 /\ T[i - 1] = 0 /\ S[k + 1] = Cost(s[k + 1].age)
      BY <1>5, <1>7, <2>b, <2>6, <3>1
    <3>5. t[i].age <= Longest
      BY <2>4, <3>1, <3>2
    <3>6. QED
      BY <2>5, <3>2, <3>3, <3>4, <3>5
  <2>7. CASE i # 1
    <3>1. i - 1 \in 1 .. l - k
      BY <1>2, <2>7
    <3>2. T[i - 1] = S[k + (i - 1)] - 1 /\ S[k + (i - 1)] \in Nat
      BY <1>6, <1>7, <3>1
    <3>3. t[i].age = s[k + i].age
      BY <2>3, <2>7
    <3>4. S[k + i] = S[k + (i - 1)] + Cost(s[k + i].age)
      BY <2>a
    <3>5. T[i] = T[i - 1] + Cost(s[k + i].age)
      BY <2>2, <2>b, <3>2, <3>4
    <3>6. QED
      BY <2>5, <2>a, <3>3, <3>5
  <2>8. QED
    BY <2>6, <2>7
<1>10. ASSUME NEW i \in 0 .. l - k, NEW j \in 0 .. l - k, i <= j
       PROVE  T[i] <= T[j] /\ T[j] - T[i] <= Allowance(j - i)
  <2>1. j = 0 => i = 0 /\ j - i = 0
    BY <1>10, <1>2
  <2>2. CASE j = 0
    BY <1>7, <2>1, <2>2, AllowanceEnds
  <2>3. CASE i = 0 /\ j # 0
    <3>1. j \in 1 .. l - k /\ k + j \in 0 .. l /\ k \in 0 .. l /\ k <= k + j /\ j = k + j - k
          /\ j - i = j /\ k \in 0 .. k
      BY <1>2, <2>3
    <3>2. S[k + j] - S[k] <= Allowance(j)
      BY <1>o, <3>1
    <3>3. S[k] = 0
      BY <1>3, <3>1
    <3>4. S[k + j] - 0 <= Allowance(j)
      BY <3>2, <3>3
    <3>5. T[j] = S[k + j] - 1 /\ T[j] \in Nat /\ S[k + j] \in Nat /\ Allowance(j) \in Nat
          /\ T[i] = 0
      BY <1>6, <1>7, <2>3, <3>1, AllowanceNat
    <3>6. QED
      BY <3>1, <3>4, <3>5
  <2>4. CASE i # 0
    <3>1. /\ i \in 1 .. l - k /\ j \in 1 .. l - k /\ k + i \in 0 .. l /\ k + j \in 0 .. l
          /\ k + i <= k + j /\ j - i = k + j - (k + i)
      BY <1>2, <1>10, <2>4
    <3>3. S[k + i] <= S[k + j] /\ S[k + j] - S[k + i] <= Allowance(j - i)
      <4> DEFINE p == k + i
                 q == k + j
      <4>1. p \in 0 .. l /\ q \in 0 .. l /\ p <= q /\ j - i = q - p
        BY <1>2, <3>1
      <4> HIDE DEF p, q
      <4>2. S[p] <= S[q] /\ S[q] - S[p] <= Allowance(j - i)
        BY <1>o, <4>1
      <4>3. QED
        BY <4>2 DEF p, q
    <3>4. T[i] = S[k + i] - 1 /\ T[j] = S[k + j] - 1 /\ S[k + i] \in Nat /\ S[k + j] \in Nat
      BY <1>6, <1>7, <3>1
    <3>5. T[j] - T[i] = S[k + j] - S[k + i]
      BY <3>4
    <3>6. QED
      BY <3>3, <3>4, <3>5
  <2>5. QED
    BY <2>2, <2>3, <2>4
<1>11. Ahead(t, T)
  <2> HIDE DEF t, k
  <2>1. QED
    BY <1>2, <1>7, <1>9, <1>10 DEF Ahead
<1>12. Len(t) <= MaxQueue
  BY <1>2
<1>13. QED
  BY <1>8, <1>11, <1>12 DEF Budgeted

\* The age a frame is saved with.
NewAge(r) ==
  IF r.saved = << >> THEN r.life ELSE r.life - r.saved[Len(r.saved)].age

LEMMA SavedIs ==
  ASSUME NEW r \in Node
  PROVE  /\ NewAge(r) \in Int
         /\ Saved(r).saved = Append(r.saved, [age |-> NewAge(r) % AgeMod, passes |-> 0])
<1>1. r.saved \in Seq(Frame) /\ r.life \in 0 .. AgeMod - 1
  BY DEF Node
<1>2. NewAge(r) \in Int
  <2>1. CASE r.saved = << >>
    BY <1>1, <2>1 DEF NewAge
  <2>2. CASE r.saved # << >>
    <3>1. r.saved[Len(r.saved)] \in Frame
      BY <1>1, <2>2, EmptySeq, LenProperties, ElementOfSeq
    <3>2. QED
      BY <1>1, <2>2, <3>1 DEF Frame, NewAge
  <2>3. QED
    BY <2>1, <2>2
<1>3. Saved(r).saved = Append(r.saved, [age |-> NewAge(r) % AgeMod, passes |-> 0])
  BY DEF Saved, NewAge, Node
<1>4. QED
  BY <1>2, <1>3

\* With one listen interval, a frame and the one before it last no longer
\* than the listen interval; else a frame lasts no longer than the longest age.
LEMMA SavedAge ==
  ASSUME NEW r \in Node, \A i \in 1 .. Len(r.saved) : r.saved[i].age <= Longest
  PROVE  /\ NewAge(r) % AgeMod \in 0 .. Longest
         /\ Lifetimes = {Life} /\ r.saved # << >> =>
              NewAge(r) % AgeMod = Longest - r.saved[Len(r.saved)].age
<1> DEFINE a == NewAge(r) % AgeMod
           tail == r.saved[Len(r.saved)].age
<1>1. NewAge(r) \in Int /\ a \in 0 .. AgeMod - 1 /\ Longest \in 0 .. AgeMod - 1
  <2>1. NewAge(r) \in Int
    BY SavedIs
  <2>2. \A x \in Int : x % AgeMod \in 0 .. AgeMod - 1
    OBVIOUS
  <2>3. QED
    BY <2>1, <2>2, LongestFacts
<1>2. r.saved # << >> => tail \in 0 .. Longest
  <2>1. SUFFICES ASSUME r.saved # << >> PROVE tail \in 0 .. Longest
    OBVIOUS
  <2>2. r.saved \in Seq(Frame)
    BY DEF Node
  <2>3. Len(r.saved) \in 1 .. Len(r.saved)
    BY <2>1, <2>2, EmptySeq, LenProperties
  <2>4. r.saved[Len(r.saved)] \in Frame /\ tail <= Longest
    BY <2>2, <2>3, ElementOfSeq
  <2>5. QED
    BY <1>1, <2>4 DEF Frame
<1>3. CASE Lifetimes # {Life}
  BY <1>1, <1>3 DEF Longest
<1>4. CASE Lifetimes = {Life}
  <2>1. r.life = Longest
    BY <1>4, LongestFacts DEF Node
  <2>2. CASE r.saved = << >>
    <3>1. NewAge(r) = Longest
      BY <2>1, <2>2 DEF NewAge
    <3>2. QED
      BY <1>1, <2>2, <3>1
  <2>3. CASE r.saved # << >>
    <3>1. NewAge(r) = Longest - tail
      BY <2>1, <2>3 DEF NewAge
    <3> HIDE DEF tail
    <3>2. Longest - tail \in 0 .. Longest /\ Longest - tail \in 0 .. AgeMod - 1
      BY <1>1, <1>2, <2>3
    <3>3. (Longest - tail) % AgeMod = Longest - tail
      BY <3>2
    <3>4. QED
      BY <3>1, <3>2, <3>3 DEF tail
  <2>4. QED
    BY <2>2, <2>3
<1>5. QED
  BY <1>3, <1>4

LEMMA SavedBudget ==
  ASSUME NEW r \in Node, Budgeted(r.saved), Len(r.saved) < MaxQueue
  PROVE  Budgeted(Saved(r).saved)
<1> DEFINE s == r.saved
           l == Len(s)
           a == NewAge(r) % AgeMod
           t == Saved(r).saved
<1>1. s \in Seq(Frame) /\ l \in Nat
  BY LenProperties DEF Node
<1>2. PICK S \in [0 .. l -> Nat] : Ahead(s, S)
  BY DEF Budgeted
<1> DEFINE T == [i \in 0 .. l + 1 |-> IF i <= l THEN S[i] ELSE S[l] + Cost(a)]
<1>3. /\ a \in 0 .. Longest /\ a \in Nat /\ Longest \in Nat
      /\ Lifetimes = {Life} /\ s # << >> => a = Longest - s[l].age
  <2>1. \A i \in 1 .. l : s[i].age <= Longest
    BY <1>2 DEF Ahead
  <2>2. a \in 0 .. Longest /\ (Lifetimes = {Life} /\ s # << >> => a = Longest - s[l].age)
    BY <2>1, SavedAge
  <2>3. QED
    BY <2>2, LongestFacts
<1>4. Cost(a) \in Nat /\ Cost(Longest) \in Nat /\ Cost(a) <= Cost(Longest)
  BY <1>3, CostFacts, CostOrder
<1>5. /\ Len(t) = l + 1 /\ t[l + 1] = [age |-> a, passes |-> 0]
      /\ \A i \in 1 .. l : t[i] = s[i]
  <2>1. t = Append(s, [age |-> a, passes |-> 0])
    BY SavedIs
  <2>2. t \in Seq(Frame) /\ Len(t) = l + 1
    BY SavedNode DEF Node
  <2>3. [age |-> a, passes |-> 0] \in Frame
    <3>1. a \in 0 .. AgeMod - 1
      BY <1>3, LongestFacts
    <3>2. QED
      BY <3>1, AFrame
  <2>4. QED
    BY <1>1, <2>1, <2>2, <2>3, AppendProperties
<1> HIDE DEF a, t
<1>6. \A i \in 0 .. l : S[i] \in Nat
  BY <1>1, <1>2
<1>o. \A p, q \in 0 .. l : \A d : p <= q /\ d = q - p =>
        S[p] <= S[q] /\ S[q] - S[p] <= Allowance(d)
  BY <1>2 DEF Ahead
\* The new frame ends no stretch that would last too long.
<1>7. ASSUME NEW i \in 0 .. l
      PROVE  S[l] + Cost(a) - S[i] <= Allowance(l + 1 - i)
  <2>1. l - i \in Nat /\ l \in 0 .. l /\ i <= l /\ l - i + 1 = l + 1 - i
    BY <1>1
  <2>2. S[l] - S[i] <= Allowance(l - i) /\ S[l] \in Nat /\ S[i] \in Nat
    BY <1>6, <1>o, <2>1
  <2>3. CASE Lifetimes # {Life}
    <3>1. Allowance(l - i + 1) = Allowance(l - i) + Cost(Longest) /\ Allowance(l - i) \in Nat
      BY <2>1, <2>3, AllowanceFacts
    <3>2. S[l] + Cost(a) - S[i] <= Allowance(l - i + 1)
      BY <1>4, <2>2, <3>1
    <3>3. QED
      BY <2>1, <3>2
  <2>4. CASE Lifetimes = {Life} /\ i = l
    <3>1. l + 1 - i = 1 /\ Allowance(1) = Cost(Longest)
      BY <1>1, <2>4, AllowanceFacts
    <3>2. S[l] + Cost(a) - S[i] = Cost(a)
      BY <1>4, <2>2, <2>4
    <3>3. QED
      BY <1>4, <3>1, <3>2
  <2>5. CASE Lifetimes = {Life} /\ i # l
    <3>1. /\ l \in 1 .. l /\ l - 1 \in 0 .. l /\ i <= l - 1 /\ l - 1 - i \in Nat
          /\ l - 1 - i + 2 = l + 1 - i
      BY <1>1, <2>1, <2>5
    <3>2. s # << >>
      <4>1. l # 0
        BY <3>1
      <4>2. QED
        BY <4>1, EmptySeq
    <3>3. S[l] = S[l - 1] + Cost(s[l].age) /\ s[l].age \in Nat /\ s[l].age <= Longest
          /\ Cost(s[l].age) \in Nat
      <4>1. s[l].age \in Nat /\ Cost(s[l].age) \in Nat
        BY <1>1, <3>1, AheadTypes
      <4>2. S[l] = S[l - 1] + Cost(s[l].age) /\ s[l].age <= Longest
        BY <1>2, <3>1 DEF Ahead
      <4>3. QED
        BY <4>1, <4>2
    <3>4. Cost(s[l].age) + Cost(a) <= Cost(Longest)
      <4>1. a = Longest - s[l].age
        BY <1>3, <2>5, <3>2
      <4>2. s[l].age + a = Longest
        BY <1>3, <3>3, <4>1
      <4>3. Cost(s[l].age) + Cost(a) <= Cost(s[l].age + a)
        BY <1>3, <3>3, CostOrder
      <4>4. QED
        BY <4>2, <4>3
    <3>5. S[l - 1] - S[i] <= Allowance(l - 1 - i) /\ S[l - 1] \in Nat
      BY <1>6, <1>o, <3>1
    <3>6. Allowance(l - 1 - i + 2) = Allowance(l - 1 - i) + Cost(Longest)
          /\ Allowance(l - 1 - i) \in Nat
      BY <2>5, <3>1, AllowanceFacts
    <3>7. S[l] + Cost(a) - S[i] <= Allowance(l - 1 - i + 2)
      <4> DEFINE u == S[l - 1]
                 v == S[i]
                 x == Cost(s[l].age)
                 y == Cost(a)
                 c == Cost(Longest)
                 b == Allowance(l - 1 - i)
      <4>1. u \in Nat /\ v \in Nat /\ x \in Nat /\ y \in Nat /\ c \in Nat /\ b \in Nat
            /\ u - v <= b /\ x + y <= c
        BY <1>4, <2>2, <3>3, <3>4, <3>5, <3>6
      <4>2. S[l] = u + x /\ Allowance(l - 1 - i + 2) = b + c
        BY <3>3, <3>6
      <4> HIDE DEF u, v, x, y, c, b
      <4>3. u + x + y - v <= b + c
        BY <4>1
      <4>4. QED
        BY <4>2, <4>3 DEF v, y
    <3>8. QED
      BY <3>1, <3>7
  <2>6. QED
    BY <2>3, <2>4, <2>5
<1>8. \A i \in 0 .. l : T[i] = S[i]
  BY <1>1
<1>9. T[l + 1] = S[l] + Cost(a) /\ S[l] \in Nat /\ T[l + 1] \in Nat
  <2>1. T[l + 1] = S[l] + Cost(a)
    BY <1>1
  <2>2. S[l] \in Nat
    BY <1>1, <1>6
  <2>3. QED
    BY <1>4, <2>1, <2>2
<1>10. T \in [0 .. Len(t) -> Nat]
  <2>1. \A i \in 0 .. l + 1 : i \in 0 .. l \/ i = l + 1
    BY <1>1
  <2>2. \A i \in 0 .. l + 1 : T[i] \in Nat
    BY <1>6, <1>8, <1>9, <2>1
  <2>3. QED
    BY <1>5, <2>2
<1> HIDE DEF T
<1>11. S[0] = 0 /\ 0 \in 0 .. l /\ T[0] = 0
  BY <1>1, <1>2, <1>8 DEF Ahead
<1>12. ASSUME NEW i \in 1 .. l + 1
       PROVE  /\ t[i].age <= Longest
              /\ T[i] = T[i - 1] + Cost(t[i].age)
              /\ t[i].passes + T[i] <= Allowance(MaxQueue)
  <2>1. CASE i = l + 1
    <3>1. i - 1 = l /\ l \in 0 .. l
      BY <1>1, <2>1
    <3>2. t[i].age = a /\ t[i].passes = 0
      BY <1>5, <2>1
    <3>3. T[i - 1] = S[l]
      BY <1>8, <3>1
    <3>4. T[i] <= Allowance(l + 1)
      <4>1. S[l] + Cost(a) - S[0] <= Allowance(l + 1 - 0) /\ l + 1 - 0 = l + 1
        BY <1>1, <1>7, <1>11
      <4>2. QED
        BY <1>4, <1>9, <1>11, <2>1, <4>1
    <3>5. Allowance(l + 1) <= Allowance(MaxQueue)
      BY <1>1, AllowanceGrows
    <3>a. Allowance(l + 1) \in Nat
      <4>1. l + 1 \in Nat
        BY <1>1
      <4> HIDE DEF l
      <4>2. QED
        BY <4>1, AllowanceNat
    <3>6. Allowance(l + 1) \in Nat /\ Allowance(MaxQueue) \in Nat /\ T[i] \in Nat
      BY <1>9, <2>1, <3>a, AllowanceFull
    <3>7. QED
      BY <1>3, <1>9, <2>1, <3>2, <3>3, <3>4, <3>5, <3>6
  <2>2. CASE i # l + 1
    <3>1. i \in 1 .. l /\ i \in 0 .. l /\ i - 1 \in 0 .. l
      BY <1>1, <2>2
    <3>2. t[i] = s[i] /\ T[i] = S[i] /\ T[i - 1] = S[i - 1]
      BY <1>5, <1>8, <3>1
    <3>3. QED
      BY <1>2, <3>1, <3>2 DEF Ahead
  <2>3. QED
    BY <2>1, <2>2
<1>13. ASSUME NEW i \in 0 .. l + 1, NEW j \in 0 .. l + 1, i <= j
       PROVE  T[i] <= T[j] /\ T[j] - T[i] <= Allowance(j - i)
  <2>1. CASE j \in 0 .. l
    <3>1. i \in 0 .. l
      BY <1>1, <1>13, <2>1
    <3>2. QED
      BY <1>o, <1>8, <1>13, <2>1, <3>1
  <2>2. CASE i \in 0 .. l /\ j \notin 0 .. l
    <3>1. j = l + 1
      BY <1>1, <2>2
    <3>2. S[l] + Cost(a) - S[i] <= Allowance(j - i)
      BY <1>7, <2>2, <3>1
    <3>3. S[i] <= S[l]
      <4>1. l \in 0 .. l /\ i <= l
        BY <1>1, <2>2
      <4>2. QED
        BY <1>o, <2>2, <4>1
    <3>4. T[i] = S[i] /\ S[i] \in Nat /\ T[j] = S[l] + Cost(a)
      BY <1>6, <1>8, <1>9, <2>2, <3>1
    <3>5. T[i] <= T[j]
      BY <1>4, <1>9, <3>3, <3>4
    <3>6. T[j] - T[i] <= Allowance(j - i)
      <4> DEFINE x == S[l]
                 y == Cost(a)
                 z == S[i]
      <4>1. x + y - z <= Allowance(j - i) /\ T[i] = z /\ T[j] = x + y
        BY <3>2, <3>4, Zenon
      <4>2. x \in Nat /\ y \in Nat /\ z \in Nat
        BY <1>4, <1>9, <3>4, Zenon
      <4> HIDE DEF x, y, z
      <4>3. x + y - z = (x + y) - z
        BY <4>2
      <4>4. QED
        BY <4>1, <4>3, Zenon
    <3>7. QED
      BY <3>5, <3>6
  <2>3. CASE i \notin 0 .. l
    <3>1. i = l + 1 /\ j = l + 1 /\ j - i = 0
      BY <1>1, <1>13, <2>3
    <3>2. QED
      <4>1. T[i] = T[j] /\ T[j] \in Nat /\ Allowance(j - i) = 0
        BY <1>9, <3>1, AllowanceEnds
      <4>2. QED
        BY <4>1
  <2>4. QED
    BY <2>1, <2>2, <2>3
<1>14. Ahead(t, T)
  BY <1>5, <1>11, <1>12, <1>13 DEF Ahead
<1>15. Len(t) <= MaxQueue
  BY <1>1, <1>5
<1>16. Budgeted(t)
  BY <1>10, <1>14, <1>15 DEF Budgeted
<1>17. QED
  BY <1>16 DEF t

\* The budget of a queue holds the bound on each of its frames.
LEMMA BudgetBounds == TypeInv /\ AgeInv => AgedOut
<1>1. SUFFICES ASSUME TypeInv, AgeInv, NEW n \in Nodes
               PROVE  /\ Len(node[n].saved) <= MaxQueue
                      /\ \A i \in DOMAIN node[n].saved : node[n].saved[i].passes <= Passes
  BY DEF AgedOut
<1> DEFINE s == node[n].saved
<1>2. s \in Seq(Frame) /\ DOMAIN s = 1 .. Len(s)
  BY <1>1, NodeTypes, LenProperties DEF TypeInv
<1>3. Len(s) <= MaxQueue
  BY <1>1 DEF AgeInv, Budgeted
<1>4. PICK S \in [0 .. Len(s) -> Nat] : Ahead(s, S)
  BY <1>1 DEF AgeInv, Budgeted
<1>5. Passes = Allowance(MaxQueue)
  <2>1. CASE Lifetimes = {Life}
    BY <2>1 DEF Passes, Allowance, Longest, Cost
  <2>2. CASE Lifetimes # {Life}
    BY <2>2 DEF Passes, Allowance, Longest, Cost
  <2>3. QED
    BY <2>1, <2>2
<1>6. \A i \in 1 .. Len(s) : s[i].passes <= Passes
  <2>1. SUFFICES ASSUME NEW i \in 1 .. Len(s) PROVE s[i].passes <= Passes
    OBVIOUS
  <2>2. s[i].passes + S[i] <= Allowance(MaxQueue) /\ s[i].passes \in Nat
    BY <1>2, <1>4, AheadTypes DEF Ahead
  <2>3. S[i] \in Nat /\ Allowance(MaxQueue) \in Nat
    BY <1>2, <1>4, AheadTypes, AllowanceFull
  <2>4. QED
    BY <1>5, <2>2, <2>3
<1>7. QED
  BY <1>2, <1>3, <1>6

\* A step that writes one node, with a queue within its budget.
LEMMA BudgetKept ==
  ASSUME TypeOK, AgeInv, NEW n \in Nodes, NEW r, Budgeted(r.saved),
         node' = [node EXCEPT ![n] = r]
  PROVE  AgeInv'
<1>1. SUFFICES ASSUME NEW m \in Nodes PROVE Budgeted(node'[m].saved)
  BY DEF AgeInv, Budgeted, Ahead, Allowance, Longest, Cost, Life
<1>2. node \in [Nodes -> Node]
  BY DEF TypeOK
<1>3. node'[m] = IF m = n THEN r ELSE node[m]
  BY <1>2
<1>4. QED
  BY <1>3 DEF AgeInv

LEMMA FieldsKeepSaved ==
  ASSUME NEW r \in Node, NEW x, NEW y
  PROVE  /\ [r EXCEPT !.refs = x].saved = r.saved
         /\ [r EXCEPT !.sent = x].saved = r.saved
         /\ [r EXCEPT !.pwr = x].saved = r.saved
         /\ [r EXCEPT !.life = x].saved = r.saved
         /\ [r EXCEPT !.aid = x].saved = r.saved
         /\ [r EXCEPT !.life = x, !.aid = y].saved = r.saved
         /\ [r EXCEPT !.st = x, !.refs = y].saved = r.saved
         /\ [r EXCEPT !.refs = x, !.sent = y].saved = r.saved
         /\ [r EXCEPT !.saved = x].saved = x
         /\ [r EXCEPT !.saved = x, !.sent = y].saved = x
         /\ [r EXCEPT !.saved = x, !.refs = y].saved = x
BY DEF Node

LEMMA ReleaseBudget ==
  ASSUME TypeOK, AgeInv, NEW n \in Nodes, NEW r \in Node, r.saved = node[n].saved,
         Release(n, r)
  PROVE  AgeInv'
<1> DEFINE new == IF Last(n) THEN Blank ELSE [r EXCEPT !.refs = @ - 1]
<1>1. node' = [node EXCEPT ![n] = new]
  BY DEF Release
<1>2. new.saved = IF Last(n) THEN << >> ELSE node[n].saved
  BY DEF Blank, Node
<1>3. Budgeted(new.saved)
  <2>1. CASE Last(n)
    BY <1>2, <2>1, EmptyBudget, Zenon
  <2>2. CASE ~Last(n)
    BY <1>2, <2>2, Zenon DEF AgeInv
  <2>3. QED
    BY <2>1, <2>2
<1> HIDE DEF new
<1>4. QED
  BY <1>1, <1>3, BudgetKept

LEMMA AgeStep == TypeInv /\ AgeInv /\ [Next]_vars => AgeInv'
<1>1. SUFFICES ASSUME TypeInv, AgeInv, [Next]_vars PROVE AgeInv'
  OBVIOUS
<1> USE <1>1 DEF bss, output, handler
<1>t. TypeOK /\ (\A n \in Nodes : node[n] \in Node) /\ \A n \in Nodes : Budgeted(node[n].saved)
  BY DEF TypeInv, TypeOK, AgeInv
<1>h. \A h \in Handlers : pc[h] # "idle" => who[h] \in Nodes
  BY DEF TypeInv, HandInv
\* A step that writes one node, and leaves its queue or shortens it.
<1>k. ASSUME NEW n \in Nodes, NEW r, r.saved = node[n].saved,
             node' = [node EXCEPT ![n] = r]
      PROVE  AgeInv'
  <2>1. Budgeted(r.saved)
    BY <1>k, <1>t
  <2>2. QED
    BY <1>k, <1>t, <2>1, BudgetKept
<1>u. ASSUME UNCHANGED node
      PROVE  AgeInv'
  <2>1. SUFFICES ASSUME NEW n \in Nodes PROVE Budgeted(node'[n].saved)
    BY DEF AgeInv, Budgeted, Ahead, Allowance, Longest, Cost, Life
  <2>2. QED
    BY <1>u, <1>t
<1>o. ASSUME NEW n \in Nodes, node[n].saved # << >>, HandOver(n)
      PROVE  AgeInv'
  <2> DEFINE r == [node[n] EXCEPT !.saved = Tail(@), !.sent = @ + 1]
  <2>1. r.saved = Tail(node[n].saved)
    BY <1>t, FieldsKeepSaved
  <2>2. Budgeted(Tail(node[n].saved))
    BY <1>o, <1>t, NodeTypes, TailBudget
  <2>3. node' = [node EXCEPT ![n] = r]
    BY <1>o DEF HandOver
  <2>4. Budgeted(r.saved)
    BY <2>1, <2>2
  <2> HIDE DEF r
  <2>5. QED
    BY <1>t, <2>3, <2>4, BudgetKept
<1>1a. CASE UNCHANGED vars
  BY <1>1a, <1>u DEF vars
<1>2. CASE Output
  <2>1. opc # "idle" => onode \in Nodes
    BY DEF TypeInv, HandInv
  <2>2. CASE OutTest
    <3>1. CASE node[onode].pwr
      BY <2>2, <3>1, <1>u DEF OutTest
    <3>2. CASE ~node[onode].pwr
      <4>1. onode \in Nodes
            /\ node' = [node EXCEPT ![onode] = [node[onode] EXCEPT !.sent = @ + 1]]
        BY <2>1, <2>2, <3>2 DEF OutTest
      <4>2. QED
        BY <4>1, <1>t, <1>k, FieldsKeepSaved
    <3>3. QED
      BY <3>1, <3>2
  <2>3. CASE OutSave
    <3>1. onode \in Nodes /\ node[onode] \in Node /\ Budgeted(node[onode].saved)
      BY <2>1, <2>3, <1>t DEF OutSave
    <3>2. CASE Len(node[onode].saved) >= MaxQueue
      BY <2>3, <3>2, <1>u DEF OutSave
    <3>3. CASE ~(Len(node[onode].saved) >= MaxQueue)
      <4>1. Len(node[onode].saved) < MaxQueue
        BY <1>t, <3>1, <3>3, NodeTypes
      <4>2. Budgeted(Saved(node[onode]).saved)
        BY <3>1, <4>1, SavedBudget
      <4>3. node' = [node EXCEPT ![onode] = Saved(node[onode])]
        BY <2>3, <3>3 DEF OutSave
      <4>4. QED
        BY <1>t, <3>1, <4>2, <4>3, BudgetKept
    <3>4. QED
      BY <3>2, <3>3
  <2>4. CASE OutTim
    BY <2>4, <1>u DEF OutTim
  <2>5. QED
    BY <1>2, <2>2, <2>3, <2>4 DEF Output
<1>3. ASSUME NEW n \in Nodes, OutFind(n)
      PROVE  AgeInv'
  <2>1. node' = [node EXCEPT ![n] = [node[n] EXCEPT !.refs = @ + 1]]
    BY <1>3 DEF OutFind
  <2>2. QED
    BY <2>1, <1>t, <1>k, FieldsKeepSaved
<1>4. ASSUME NEW n \in Nodes, Auth(n)
      PROVE  AgeInv'
  <2>1. node' = [node EXCEPT ![n] = [node[n] EXCEPT !.st = "table", !.refs = 1]]
    BY <1>4 DEF Auth
  <2>2. [node[n] EXCEPT !.st = "table", !.refs = 1].saved = node[n].saved
    BY <1>t DEF Node
  <2>3. QED
    BY <2>1, <2>2, <1>k
<1>5. ASSUME NEW n \in Nodes, TimerVisit(n)
      PROVE  AgeInv'
  <2> DEFINE r == [node[n] EXCEPT !.saved = Aged(node[n].saved)]
  <2>1. node' = node \/ node' = [node EXCEPT ![n] = r]
    BY <1>5 DEF TimerVisit
  <2>2. Budgeted(Aged(node[n].saved))
    BY <1>t, NodeTypes, AgedBudget
  <2>3. Budgeted(r.saved)
    BY <1>t, <2>2, FieldsKeepSaved
  <2> HIDE DEF r
  <2>4. QED
    BY <1>t, <1>u, <2>1, <2>3, BudgetKept
<1>6. ASSUME NEW n \in Nodes, DriverDone(n)
      PROVE  AgeInv'
  <2>1. [node[n] EXCEPT !.sent = @ - 1] \in Node
    <3>1. node[n] \in Node /\ node[n].sent - 1 \in Nat
      BY <1>6, NodeTypes DEF DriverDone, TypeInv
    <3>2. QED
      BY <3>1 DEF Node
  <2>2. [node[n] EXCEPT !.sent = @ - 1].saved = node[n].saved
    BY <1>t, FieldsKeepSaved
  <2>3. QED
    BY <1>6, <1>t, <2>1, <2>2, ReleaseBudget DEF DriverDone
<1>7. ASSUME NEW h \in Handlers, NEW n \in Nodes, NEW j \in RxJobs, Find(h, n, j)
      PROVE  AgeInv'
  <2>1. node' = [node EXCEPT ![n] = [node[n] EXCEPT !.refs = @ + 1]]
    BY <1>7 DEF Find
  <2>2. QED
    BY <2>1, <1>t, <1>k, FieldsKeepSaved
<1>8. ASSUME NEW h \in Handlers, Put(h)
      PROVE  AgeInv'
  <2>1. who[h] \in Nodes /\ Release(who[h], node[who[h]])
    BY <1>8, <1>h DEF Put, Unref
  <2>2. QED
    BY <2>1, <1>t, ReleaseBudget
<1>9. CASE Rx
  <2> DEFINE n == who["rx"]
             r == node[n]
  <2>1. "rx" \in Handlers /\ (pc["rx"] # "idle" => n \in Nodes /\ r \in Node)
    BY <1>h, <1>t
  <2>2. CASE Clear \/ SleepRead \/ WakeRead
    BY <2>2, <1>u DEF Clear, SleepRead, WakeRead
  <2>3. CASE Poll
    <3>1. \/ node' = node
          \/ node' = [node EXCEPT ![n] = [r EXCEPT !.refs = @ + 1, !.sent = @ + 1]]
          \/ r.saved # << >> /\ HandOver(n)
      BY <2>3 DEF Poll
    <3>2. n \in Nodes
      BY <2>1, <2>3 DEF Poll
    <3>3. [r EXCEPT !.refs = @ + 1, !.sent = @ + 1].saved = r.saved
      BY <2>1, <3>2, <1>t, FieldsKeepSaved
    <3>4. QED
      BY <3>1, <3>2, <3>3, <1>k, <1>u, <1>o
  <2>4. CASE Flush
    <3>1. node' = node \/ (r.saved # << >> /\ HandOver(n))
      BY <2>4 DEF Flush
    <3>2. n \in Nodes
      BY <2>1, <2>4 DEF Flush
    <3>3. QED
      BY <3>1, <3>2, <1>u, <1>o
  <2>5. CASE SleepWrite \/ WakeWrite
    <3>1. PICK b \in BOOLEAN : node' = [node EXCEPT ![n] = [r EXCEPT !.pwr = b]]
      BY <2>5 DEF SleepWrite, WakeWrite, SetPower
    <3>2. n \in Nodes
      BY <2>1, <2>5 DEF SleepWrite, WakeWrite
    <3>3. [r EXCEPT !.pwr = b].saved = r.saved
      BY <3>2, <1>t, FieldsKeepSaved
    <3>4. QED
      BY <3>1, <3>2, <3>3, <1>k
  <2>6. CASE Assoc
    <3>1. n \in Nodes
      BY <2>1, <2>6 DEF Assoc
    <3>2. CASE r.aid # 0
      <4>1. PICK l \in Lifetimes : node' = [node EXCEPT ![n] = [r EXCEPT !.life = l]]
        BY <2>6, <3>2 DEF Assoc
      <4>2. [r EXCEPT !.life = l].saved = r.saved
        BY <3>1, <1>t, FieldsKeepSaved
      <4>3. QED
        BY <3>1, <4>1, <4>2, <1>k
    <3>3. CASE r.aid = 0 /\ Aids \ aids = {}
      BY <2>6, <3>3, <1>u DEF Assoc
    <3>4. CASE r.aid = 0 /\ Aids \ aids # {}
      <4>1. PICK l \in Lifetimes :
              node' = [node EXCEPT ![n].life = l, ![n].aid = Min(Aids \ aids)]
        BY <2>6, <3>4 DEF Assoc
      <4> DEFINE new == [r EXCEPT !.life = l, !.aid = Min(Aids \ aids)]
      <4>2. node' = [node EXCEPT ![n] = new]
        BY <3>1, <4>1, <1>t DEF TypeOK
      <4>3. new.saved = r.saved
        BY <3>1, <1>t, FieldsKeepSaved
      <4> HIDE DEF new
      <4>4. QED
        BY <3>1, <4>2, <4>3, <1>k
    <3>5. QED
      BY <3>2, <3>3, <3>4
  <2>7. QED
    BY <1>9, <2>2, <2>3, <2>4, <2>5, <2>6 DEF Rx
<1>10. ASSUME NEW h \in Handlers, NodeLeave(h)
       PROVE  AgeInv'
  <2> DEFINE n == who[h]
             r == node[n]
  <2>1. pc[h] # "idle" => n \in Nodes /\ r \in Node
    BY <1>h, <1>t
  <2>2. CASE Unlist(h) \/ Forget(h)
    <3>1. n \in Nodes /\ node' = [node EXCEPT ![n] = [r EXCEPT !.aid = 0]]
      BY <2>1, <2>2 DEF Unlist, Forget
    <3>2. [r EXCEPT !.aid = 0].saved = r.saved
      BY <3>1, <1>t, FieldsKeepSaved
    <3>3. QED
      BY <3>1, <3>2, <1>k
  <2>3. CASE Leave(h) \/ CleanupRead(h) \/ Drained(h)
    BY <2>3, <1>u DEF Leave, CleanupRead, Drained
  <2>4. CASE CleanupWrite(h)
    <3>1. n \in Nodes /\ node' = [node EXCEPT ![n] = [r EXCEPT !.pwr = FALSE]]
      BY <2>1, <2>4 DEF CleanupWrite, SetPower
    <3>2. [r EXCEPT !.pwr = FALSE].saved = r.saved
      BY <3>1, <1>t, FieldsKeepSaved
    <3>3. QED
      BY <3>1, <3>2, <1>k
  <2>5. CASE Drain(h)
    <3> DEFINE new == [r EXCEPT !.saved = << >>, !.refs = @ - Len(r.saved)]
    <3>1. n \in Nodes /\ node' = [node EXCEPT ![n] = new]
      BY <2>1, <2>5 DEF Drain
    <3>2. new.saved = << >>
      BY <2>1, <3>1, <1>t, FieldsKeepSaved
    <3>3. Budgeted(new.saved)
      BY <3>2, EmptyBudget
    <3> HIDE DEF new
    <3>4. QED
      BY <1>t, <3>1, <3>3, BudgetKept
  <2>6. CASE Reclaim(h)
    <3>1. n \in Nodes
      BY <2>1, <2>6 DEF Reclaim
    <3>2. CASE Last(n)
      BY <2>6, <3>1, <3>2, <1>t, ReleaseBudget DEF Reclaim, Unref
    <3>3. CASE ~Last(n)
      <4>1. node' = [node EXCEPT ![n] = [r EXCEPT !.st = "gone", !.refs = @ - 1]]
        BY <2>6, <3>3 DEF Reclaim
      <4>2. [r EXCEPT !.st = "gone", !.refs = @ - 1].saved = r.saved
        BY <3>1, <1>t, FieldsKeepSaved
      <4>3. QED
        BY <3>1, <4>1, <4>2, <1>k
    <3>4. QED
      BY <3>2, <3>3
  <2>7. QED
    BY <1>10, <2>2, <2>3, <2>4, <2>5, <2>6 DEF NodeLeave
<1>11. CASE Timer
  <2> DEFINE n == who["timer"]
             r == node[n]
  <2>1. "timer" \in Handlers /\ (pc["timer"] # "idle" => n \in Nodes /\ r \in Node)
    BY <1>h, <1>t
  <2>2. CASE TimerCheck \/ TimerClear \/ TimerGoOn
    BY <2>2, <1>u DEF TimerCheck, TimerClear, TimerGoOn
  <2>3. CASE TimerProbe \/ TimerExpire
    <3>1. n \in Nodes
          /\ \/ node' = [node EXCEPT ![n] = [r EXCEPT !.refs = @ + 1, !.sent = @ + 1]]
             \/ node' = [node EXCEPT ![n] = [r EXCEPT !.refs = @ + 1]]
      BY <2>1, <2>3 DEF TimerProbe, TimerExpire
    <3>2. [r EXCEPT !.refs = @ + 1, !.sent = @ + 1].saved = r.saved
          /\ [r EXCEPT !.refs = @ + 1].saved = r.saved
      BY <3>1, <1>t, FieldsKeepSaved
    <3>3. QED
      BY <3>1, <3>2, <1>k
  <2>4. QED
    BY <1>11, <2>2, <2>3 DEF Timer
<1>12. QED
  BY <1>1a, <1>2, <1>3, <1>4, <1>5, <1>6, <1>7, <1>8, <1>9, <1>10, <1>11 DEF Next, Step

\* The queue of saved frames is bounded, and so is the time a frame spends
\* on it, in passes of the timer: half a listen interval for each place of
\* the queue when all stations have the same, and the longest age for each
\* when a station may come back with a shorter one.
THEOREM FramesAgeOut == Spec => []AgedOut
<1>1. Init => AgeInv
  <2>1. SUFFICES ASSUME Init, NEW n \in Nodes PROVE Budgeted(node[n].saved)
    BY DEF AgeInv
  <2>2. node[n].saved = << >>
    BY <2>1 DEF Init, Blank
  <2>3. QED
    BY <2>2, EmptyBudget
<1>2. QED
  BY <1>1, AgeStep, BudgetBounds, TypeHolds, PTL DEF Spec
===============================================================================
