------------------------------- MODULE Join_proofs -------------------------------
(* Proofs about Join, for any association ids, bounds and number of        *)
(* disturbances.                                                           *)
EXTENDS Join, TLAPS

USE JoinAssumption

(* The strengthening of StrandedByDefect.  In SCAN a scan that selects, or *)
(* the tasklets after one, are at work, whatever transition is late: the   *)
(* late ones alone would not do, as one to ASSOC that finds SCAN sends     *)
(* nothing.  An interface in INIT is down.                                 *)
InvScan == state = "SCAN" => scan = "pick" \/ tasks # {} \/ defect # "none"
InvInit == state = "INIT" => ~up
IInv == InvScan /\ InvInit /\ StrandedByDefect

-----------------------------------------------------------------------------
(* What the helpers return.                                                *)

LEMMA FrameType ==
  ASSUME NEW t \in {"auth1", "auth2", "req", "resp", "deauth", "disassoc", "data"}
  PROVE  Frame(t) \in Frames
BY DEF Frame, Frames

LEMMA EmptyType == << >> \in Seq(Frames)
OBVIOUS

LEMMA PutType ==
  ASSUME NEW q \in Seq(Frames), NEW f \in Frames
  PROVE  Put(q, f) \in Seq(Frames)
BY DEF Put

LEMMA WeakerType ==
  ASSUME NEW n \in Nat
  PROVE  Weaker(n) \in Nat
BY DEF Weaker

LEMMA TailType ==
  ASSUME NEW q \in Seq(Frames), q # << >>
  PROVE  Tail(q) \in Seq(Frames) /\ Head(q) \in Frames
OBVIOUS

LEMMA ScanTypes ==
  ASSUME TypeOK
  PROVE  /\ Cancelled \in {"none", "cancelled"}
         /\ ScanLeft \in {"none", "pick", "look", "cancelled"}
         /\ TasksLeft \subseteq {"action", "join1"}
         /\ TasksKept \subseteq {"action", "join1"}
         /\ Left \in Aids \cup {0}
BY DEF TypeOK, Cancelled, ScanLeft, TasksLeft, TasksKept, Left

LEMMA RequestType ==
  ASSUME TypeOK, NEW f \in {"auth1", "req"}, Request(f)
  PROVE  /\ toAp' \in Seq(Frames) /\ timer' \in BOOLEAN
         /\ defect' \in {"none", "unsent"} /\ trouble' \in Nat
         /\ timer' = TRUE \/ defect' # "none"
<1>1. Put(toAp, Frame(f)) \in Seq(Frames)
  BY FrameType, PutType DEF TypeOK
<1>2. /\ toAp' = Put(toAp, Frame(f)) \/ toAp' = toAp
      /\ timer' = TRUE \/ (timer' = FALSE /\ defect' = "unsent")
      /\ defect' \in {"none", "unsent"}
      /\ trouble' = trouble \/ trouble' = trouble + 1
  BY DEF Request, Quiet, Trouble
<1>3. toAp' \in Seq(Frames)
  BY <1>1, <1>2 DEF TypeOK
<1>4. trouble' \in Nat
  BY <1>2 DEF TypeOK
<1>5. QED
  BY <1>2, <1>3, <1>4

LEMMA CheckScanType ==
  ASSUME TypeOK, NEW sc \in {"none", "pick", "look", "cancelled"},
         NEW ts \in SUBSET {"action", "join1"}, NEW n \in Nat, CheckScan(sc, ts, n)
  PROVE  /\ scan' \in {"none", "pick", "look", "cancelled"}
         /\ tasks' \subseteq {"action", "join1"} /\ fails' \in Nat
         /\ defect' \in {"none", "overtaken"}
         /\ scan' = "pick" \/ tasks' # {} \/ defect' # "none"
<1>1. Weaker(n) \in Nat
  BY WeakerType
<1>2. QED
  BY <1>1 DEF CheckScan

-----------------------------------------------------------------------------
(* The transitions keep the types of what they change, and leave the       *)
(* station in motion or with a defect.                                     *)

Changed == /\ state' \in {"INIT", "SCAN", "AUTH", "ASSOC", "RUN"}
           /\ aid' \in Aids \cup {0} /\ timer' \in BOOLEAN
           /\ scan' \in {"none", "pick", "look", "cancelled"}
           /\ tasks' \subseteq {"action", "join1"} /\ fails' \in Nat
           /\ defect' \in {"none", "overtaken", "ignored", "stolen", "unsent"}
           /\ toAp' \in Seq(Frames)

LEMMA ToInitType ==
  ASSUME TypeOK, ToInit
  PROVE  Changed
<1>1. Put(toAp, Frame("disassoc")) \in Seq(Frames)
  BY FrameType, PutType DEF TypeOK
<1>2. Put(toAp, Frame("deauth")) \in Seq(Frames)
  BY FrameType, PutType DEF TypeOK
<1>3. toAp' \in Seq(Frames)
  BY <1>1, <1>2 DEF ToInit, Notify, TypeOK
<1>4. QED
  BY <1>3, ScanTypes DEF ToInit, CancelScan, Changed, TypeOK

LEMMA ToScanType ==
  ASSUME TypeOK, NEW failed \in BOOLEAN, ToScan(failed)
  PROVE  /\ Changed
         /\ state' = "SCAN"
         /\ scan' = "pick" \/ tasks' # {} \/ defect' # "none"
<1> DEFINE n == IF failed /\ state \notin {"INIT", "RUN"} THEN fails + 1 ELSE fails
<1>1. n \in Nat
  BY DEF TypeOK
<1>2. CheckScan(ScanLeft, TasksKept, n)
  BY DEF ToScan
<1> HIDE DEF n
<1>3. /\ scan' \in {"none", "pick", "look", "cancelled"}
      /\ tasks' \subseteq {"action", "join1"} /\ fails' \in Nat
      /\ defect' \in {"none", "overtaken"}
      /\ scan' = "pick" \/ tasks' # {} \/ defect' # "none"
  BY <1>1, <1>2, ScanTypes, CheckScanType
<1>4. QED
  BY <1>3, ScanTypes DEF ToScan, Changed, TypeOK

LEMMA ToAuthType ==
  ASSUME TypeOK, ToAuth, tasks' \subseteq {"action", "join1"}
  PROVE  /\ Changed /\ trouble' \in Nat
         /\ state' = "AUTH"
         /\ timer' = TRUE \/ defect' # "none"
BY ScanTypes, RequestType DEF ToAuth, Changed, TypeOK

LEMMA ToAssocType ==
  ASSUME TypeOK, ToAssoc
  PROVE  /\ Changed /\ trouble' \in Nat
         /\ state' = "ASSOC"
         /\ state \in {"INIT", "SCAN"}
              => defect' = defect /\ (state = "SCAN" => scan' = scan /\ tasks' = tasks)
         /\ state \notin {"INIT", "SCAN"} => timer' = TRUE \/ defect' # "none"
<1>1. CASE state \in {"INIT", "SCAN"}
  BY <1>1, ScanTypes DEF ToAssoc, Quiet, Changed, TypeOK, ScanLeft, TasksKept
<1>2. CASE state \notin {"INIT", "SCAN"}
  <2>1. Request("req")
    BY <1>2 DEF ToAssoc
  <2>2. QED
    BY <1>2, <2>1, ScanTypes, RequestType DEF ToAssoc, Changed, TypeOK
<1>3. QED
  BY <1>1, <1>2

LEMMA ToRunType ==
  ASSUME TypeOK, ToRun
  PROVE  Changed /\ state' = "RUN" /\ trouble' \in Nat
BY ScanTypes DEF ToRun, Quiet, Changed, TypeOK

-----------------------------------------------------------------------------
(* Every step keeps the types.                                             *)

LEMMA AnswerType ==
  ASSUME TypeOK, NEW f \in Frames, Answer(f)
  PROVE  toSta' \in Seq(Frames)
BY PutType DEF Answer, TypeOK

LEMMA ApReceiveType ==
  ASSUME TypeOK, ApReceive
  PROVE  TypeOK'
<1> DEFINE Kept == /\ ap' \in [st : {"none", "auth", "assoc"}, aid : Aids \cup {0}]
                   /\ toSta' \in Seq(Frames) /\ trouble' \in Nat
<1>1. toAp' \in Seq(Frames)
  BY TailType DEF ApReceive, TypeOK
<1>2. ASSUME ApAuth PROVE Kept
  <2>1. toSta' \in Seq(Frames)
    BY <1>2, FrameType, AnswerType DEF ApAuth
  <2>2. QED
    BY <1>2, <2>1 DEF ApAuth, Quiet, TypeOK
<1>3. ASSUME ApAssoc PROVE Kept
  <2>1. CASE ap.st = "none" /\ Answer(Frame("deauth")) /\ Quiet /\ UNCHANGED ap
    <3>1. toSta' \in Seq(Frames)
      BY <2>1, FrameType, AnswerType
    <3>2. QED
      BY <2>1, <3>1 DEF Quiet, TypeOK
  <2>2. CASE /\ ap.st # "none"
             /\ \E a \in IF ap.aid = 0 THEN Aids ELSE {ap.aid} :
                  /\ ap' = [st |-> "assoc", aid |-> a]
                  /\ Answer([type |-> "resp", aid |-> a])
             /\ Quiet
    <3>1. PICK a \in Aids \cup {0} : /\ ap' = [st |-> "assoc", aid |-> a]
                                    /\ Answer([type |-> "resp", aid |-> a])
      BY <2>2 DEF TypeOK
    <3>2. [type |-> "resp", aid |-> a] \in Frames
      BY DEF Frames
    <3>3. toSta' \in Seq(Frames)
      BY <3>1, <3>2, AnswerType
    <3>4. QED
      BY <2>2, <3>1, <3>3 DEF Quiet, TypeOK
  <2>3. CASE ap.st = "auth" /\ Trouble /\ ap' = NoNode /\ Answer(Frame("resp"))
    <3>1. toSta' \in Seq(Frames)
      BY <2>3, FrameType, AnswerType
    <3>2. QED
      BY <2>3, <3>1 DEF Trouble, NoNode, TypeOK
  <2>4. QED
    BY <1>3, <2>1, <2>2, <2>3 DEF ApAssoc
<1>4. ASSUME ApData PROVE Kept
  <2>1. CASE Answer(Frame("deauth"))
    BY <1>4, <2>1, FrameType, AnswerType DEF ApData, Quiet, TypeOK
  <2>2. CASE Answer(Frame("disassoc"))
    BY <1>4, <2>2, FrameType, AnswerType DEF ApData, Quiet, TypeOK
  <2>3. CASE UNCHANGED toSta
    BY <1>4, <2>3 DEF ApData, Quiet, TypeOK
  <2>4. QED
    BY <1>4, <2>1, <2>2, <2>3 DEF ApData
<1>5. ASSUME ap' = NoNode /\ Quiet /\ UNCHANGED toSta PROVE Kept
  BY <1>5 DEF NoNode, Quiet, TypeOK
<1>6. Kept
  BY <1>2, <1>3, <1>4, <1>5 DEF ApReceive
<1>7. UNCHANGED <<station, scanner>>
  BY DEF ApReceive, apOnly
<1>8. QED
  BY <1>1, <1>6, <1>7 DEF TypeOK, station, scanner

LEMMA NewStateType ==
  ASSUME TypeOK, NEW c \in Contexts, NewState(c)
  PROVE  TypeOK'
<1>1. Changed /\ trouble' \in Nat
  <2>1. CASE call[c] = Fail /\ ToScan(TRUE) /\ Quiet
    BY <2>1, ToScanType DEF Quiet, TypeOK
  <2>2. CASE call[c] = Auth /\ ToAuth /\ tasks' = TasksKept
    BY <2>2, ToAuthType, ScanTypes
  <2>3. CASE call[c] = Assoc /\ ToAssoc
    BY <2>3, ToAssocType
  <2>4. CASE call[c] = Run /\ ToRun
    BY <2>4, ToRunType
  <2>5. QED
    BY <2>1, <2>2, <2>3, <2>4 DEF NewState
<1>2. call' \in [Contexts -> {Nothing, Fail, Assoc, Auth, Run}]
  BY DEF NewState, TypeOK
<1>3. UNCHANGED <<up, asked, ap, toSta>>
  BY DEF NewState
<1>4. QED
  BY <1>1, <1>2, <1>3 DEF TypeOK, Changed

LEMMA StepType ==
  ASSUME TypeOK, Next
  PROVE  TypeOK'
<1>1. CASE ScanPicks
  BY <1>1 DEF ScanPicks, TypeOK, station
<1>2. CASE ScanRestarts
  BY <1>2, WeakerType DEF ScanRestarts, TypeOK, station
<1>3. CASE ScanEnds
  BY <1>3 DEF ScanEnds, TypeOK, station
<1>4. CASE ActionTasklet
  <2>0. Weaker(fails) \in Nat
    BY WeakerType DEF TypeOK
  <2>1. fails' \in Nat /\ trouble' \in Nat
    BY <1>4, <2>0 DEF ActionTasklet, Quiet, Trouble, TypeOK
  <2>2. /\ scan' \in {"none", "pick", "look", "cancelled"}
        /\ tasks' \subseteq {"action", "join1"}
        /\ defect' \in {"none", "overtaken", "ignored", "stolen", "unsent"}
    BY <1>4 DEF ActionTasklet, TypeOK
  <2>3. UNCHANGED <<up, state, aid, timer, call, asked, ap, toAp, toSta>>
    BY <1>4 DEF ActionTasklet
  <2>4. QED
    BY <2>1, <2>2, <2>3 DEF TypeOK
<1>5. CASE Join1Tasklet
  <2>1. tasks' \subseteq {"action", "join1"}
    BY <1>5, ScanTypes DEF Join1Tasklet
  <2>2. Changed /\ trouble' \in Nat
    BY <1>5, <2>1, ToAuthType DEF Join1Tasklet
  <2>3. QED
    BY <1>5, <2>2 DEF Join1Tasklet, Changed, TypeOK
<1>6. CASE Up
  <2>1. Changed /\ trouble' \in Nat
    <3>1. CASE state = "RUN"
      BY <1>6, <3>1, ToAssocType DEF Up
    <3>2. CASE state # "RUN"
      BY <1>6, <3>2, ToScanType DEF Up, Quiet, TypeOK
    <3>3. QED
      BY <3>1, <3>2
  <2>2. QED
    BY <1>6, <2>1 DEF Up, Changed, TypeOK
<1>7. CASE Stop
  <2>1. Changed
    BY <1>7, ToInitType DEF Stop
  <2>2. toSta' \in Seq(Frames)
    BY <1>7, EmptyType DEF Stop
  <2>3. up' = FALSE
    BY <1>7 DEF Stop
  <2>4. UNCHANGED <<call, asked, ap>>
    BY <1>7 DEF Stop
  <2>5. Trouble
    BY <1>7 DEF Stop
  <2>6. trouble' \in Nat
    BY <2>5 DEF Trouble, TypeOK
  <2>7. QED
    BY <2>1, <2>2, <2>3, <2>4, <2>6 DEF Changed, TypeOK
<1>8. CASE Rescan
  <2>1. Changed
    BY <1>8, ToScanType DEF Rescan
  <2>2. QED
    BY <1>8, <2>1 DEF Rescan, Trouble, Changed, TypeOK
<1>9. CASE AskScan
  BY <1>9 DEF AskScan, Trouble, TypeOK, station
<1>10. CASE Preempt
  BY <1>10, ScanTypes DEF Preempt, CancelScan, TypeOK
<1>11. CASE Look
  BY <1>11 DEF Look, TypeOK, station
<1>12. CASE BgScan
  BY <1>12 DEF BgScan, Trouble, TypeOK, station
<1>13. CASE BeaconMiss
  <2>1. call' \in [Contexts -> {Nothing, Fail, Assoc, Auth, Run}]
    BY <1>13 DEF BeaconMiss, TypeOK
  <2>2. trouble' \in Nat
    BY <1>13 DEF BeaconMiss, Trouble, TypeOK
  <2>3. QED
    BY <1>13, <2>1, <2>2 DEF BeaconMiss, TypeOK, scanner
<1>14. CASE TxTimeout
  <2>1. trouble' \in Nat
    BY <1>14 DEF TxTimeout, Trouble, Quiet, TypeOK
  <2>2. QED
    BY <1>14, <2>1 DEF TxTimeout, TypeOK, scanner
<1>15. CASE SendData
  <2>1. toAp' \in Seq(Frames)
    BY <1>15, FrameType, PutType DEF SendData, Notify, TypeOK
  <2>2. QED
    BY <1>15, <2>1, ScanTypes DEF SendData, CancelScan, TypeOK, station
<1>16. CASE Receive
  <2> DEFINE f == Head(toSta)
  <2>1. f \in Frames /\ toSta' \in Seq(Frames)
    BY <1>16, TailType DEF Receive, TypeOK
  <2>2. Hears(f) \in {Nothing, Fail, Assoc, Auth, Run}
    BY DEF Hears
  <2>3. call' = [call EXCEPT !["rx"] = Hears(f)]
    BY <1>16 DEF Receive
  <2>4. call' \in [Contexts -> {Nothing, Fail, Assoc, Auth, Run}]
    BY <2>2, <2>3 DEF TypeOK
  <2>5. aid' \in Aids \cup {0}
    BY <1>16, <2>1 DEF Receive, Frames, TypeOK
  <2>6. QED
    BY <1>16, <2>1, <2>4, <2>5 DEF Receive, TypeOK, scanner
<1>17. CASE ApReceive
  BY <1>17, ApReceiveType
<1>18. CASE ApTimeout
  <2>1. toSta' \in Seq(Frames)
    BY <1>18, FrameType, AnswerType DEF ApTimeout, TypeOK
  <2>2. QED
    BY <1>18, <2>1 DEF ApTimeout, NoNode, Trouble, TypeOK, apOnly, station, scanner
<1>19. CASE ApRestart
  BY <1>19, EmptyType DEF ApRestart, NoNode, Trouble, TypeOK, apOnly, station, scanner
<1>20. CASE Lose
  <2>1. toAp' \in Seq(Frames) /\ toSta' \in Seq(Frames)
    BY <1>20, TailType DEF Lose, TypeOK
  <2>2. QED
    BY <1>20, <2>1 DEF Lose, Trouble, TypeOK, apOnly, station, scanner
<1>21. ASSUME NEW c \in Contexts, NewState(c) PROVE TypeOK'
  BY <1>21, NewStateType
<1>22. QED
  BY <1>1, <1>2, <1>3, <1>4, <1>5, <1>6, <1>7, <1>8, <1>9, <1>10, <1>11, <1>12,
     <1>13, <1>14, <1>15, <1>16, <1>17, <1>18, <1>19, <1>20, <1>21
     DEF Next, Scanning, Tasklets, User, Driver, AccessPoint

(* The types hold in every behaviour.                                      *)
THEOREM TypeCorrect == Spec => []TypeOK
<1>1. ASSUME Init PROVE TypeOK
  <2>1. toAp \in Seq(Frames) /\ toSta \in Seq(Frames)
    BY <1>1, EmptyType DEF Init
  <2>2. call \in [Contexts -> {Nothing, Fail, Assoc, Auth, Run}]
    BY <1>1 DEF Init
  <2>3. QED
    BY <1>1, <2>1, <2>2 DEF Init, TypeOK, NoNode
<1>2. TypeOK /\ [Next]_vars => TypeOK'
  <2>1. SUFFICES ASSUME TypeOK, [Next]_vars PROVE TypeOK'
    OBVIOUS
  <2>2. CASE Next
    BY <2>1, <2>2, StepType
  <2>3. CASE UNCHANGED vars
    BY <2>1, <2>3 DEF vars, station, scanner, TypeOK
  <2>4. QED
    BY <2>1, <2>2, <2>3
<1>3. QED
  BY <1>1, <1>2, PTL DEF Spec

-----------------------------------------------------------------------------
(* A station is stranded by a defect only.                                 *)

(* What leaves the station and what moves it alone disturbs nothing.       *)
LEMMA KeptMotion ==
  ASSUME IInv, UNCHANGED <<up, state, defect>>,
         timer => timer', scan = "pick" => scan' = "pick" \/ tasks' # {},
         tasks # {} => tasks' # {},
         \A c \in Contexts : call[c] # Nothing => call'[c] # Nothing
  PROVE  IInv'
<1>1. InvScan' /\ InvInit'
  BY DEF IInv, InvScan, InvInit
<1>2. InMotion => InMotion'
  BY DEF InMotion
<1>3. StrandedByDefect'
  BY <1>2 DEF IInv, StrandedByDefect, Stranded
<1>4. QED
  BY <1>1, <1>3 DEF IInv

(* What follows a transition to SCAN.                                      *)
LEMMA InScan ==
  ASSUME state' = "SCAN", scan' = "pick" \/ tasks' # {} \/ defect' # "none"
  PROVE  IInv'
BY DEF IInv, InvScan, InvInit, StrandedByDefect, Stranded, InMotion

(* What follows a request to the access point.                             *)
LEMMA Requested ==
  ASSUME state' \in {"AUTH", "ASSOC"},
         timer' \/ scan' = "pick" \/ tasks' # {} \/ defect' # "none" \/ ~up'
  PROVE  IInv'
BY DEF IInv, InvScan, InvInit, StrandedByDefect, Stranded, InMotion

(* In RUN, and in INIT with the interface down, nothing need move.         *)
LEMMA NotWaiting ==
  ASSUME state' = "RUN" \/ (state' = "INIT" /\ ~up')
  PROVE  IInv'
BY DEF IInv, InvScan, InvInit, StrandedByDefect, Stranded

LEMMA NewStateMotion ==
  ASSUME TypeOK, IInv, NEW c \in Contexts, NewState(c)
  PROVE  IInv'
<1>1. CASE ToScan(TRUE)
  BY <1>1, ToScanType, InScan
<1>2. CASE call[c] = Auth /\ ToAuth /\ tasks' = TasksKept
  BY <1>2, ToAuthType, ScanTypes, Requested
<1>3. CASE ToAssoc
  <2>1. CASE state = "INIT"
    <3>1. ~up'
      BY <2>1 DEF IInv, InvInit, NewState
    <3>2. QED
      BY <1>3, <3>1, ToAssocType, Requested
  <2>2. CASE state = "SCAN"
    <3>1. scan' = "pick" \/ tasks' # {} \/ defect' # "none"
      BY <1>3, <2>2, ToAssocType DEF IInv, InvScan
    <3>2. QED
      BY <1>3, <3>1, ToAssocType, Requested
  <2>3. CASE state \notin {"INIT", "SCAN"}
    BY <1>3, <2>3, ToAssocType, Requested
  <2>4. QED
    BY <2>1, <2>2, <2>3
<1>4. CASE ToRun
  BY <1>4, ToRunType, NotWaiting
<1>5. QED
  BY <1>1, <1>2, <1>3, <1>4 DEF NewState

LEMMA StepMotion ==
  ASSUME TypeOK, IInv, Next
  PROVE  IInv'
<1>1. CASE ScanPicks
  BY <1>1, KeptMotion DEF ScanPicks, station
<1>2. CASE ScanRestarts
  BY <1>2, KeptMotion DEF ScanRestarts, station
<1>3. CASE ScanEnds
  BY <1>3, KeptMotion DEF ScanEnds, station
<1>4. CASE ActionTasklet
  <2>1. CASE tasks' = (tasks \ {"action"}) \cup {"join1"} /\ UNCHANGED <<scan, defect>>
    BY <1>4, <2>1, KeptMotion DEF ActionTasklet
  <2>2. CASE /\ scan' = IF scan = "none" THEN "pick" ELSE scan
             /\ defect' = IF scan \in {"look", "cancelled"} THEN "overtaken" ELSE defect
    <3>1. scan' = "pick" \/ defect' # "none"
      BY <2>2 DEF TypeOK
    <3>2. UNCHANGED <<up, state>>
      BY <1>4 DEF ActionTasklet
    <3>3. QED
      BY <3>1, <3>2 DEF IInv, InvScan, InvInit, StrandedByDefect, Stranded, InMotion
  <2>3. QED
    BY <1>4, <2>1, <2>2 DEF ActionTasklet
<1>5. CASE Join1Tasklet
  <2>1. tasks' \subseteq {"action", "join1"}
    BY <1>5, ScanTypes DEF Join1Tasklet
  <2>2. QED
    BY <1>5, <2>1, ToAuthType, Requested DEF Join1Tasklet
<1>6. CASE Up
  <2>1. CASE state = "RUN"
    BY <1>6, <2>1, ToAssocType, Requested DEF Up
  <2>2. CASE state # "RUN"
    BY <1>6, <2>2, ToScanType, InScan DEF Up
  <2>3. QED
    BY <2>1, <2>2
<1>7. CASE Stop
  BY <1>7, NotWaiting DEF Stop, ToInit
<1>8. CASE Rescan
  BY <1>8, ToScanType, InScan DEF Rescan
<1>9. CASE AskScan
  BY <1>9, KeptMotion DEF AskScan, station
<1>10. CASE Preempt
  <2>1. UNCHANGED <<up, state, timer, call>>
    BY <1>10 DEF Preempt
  <2>2. CASE state = "RUN"
    BY <2>1, <2>2, NotWaiting
  <2>3. CASE state # "RUN" /\ (scan = "pick" \/ "action" \in tasks)
    <3>1. defect' # "none"
      BY <1>10, <2>3 DEF Preempt
    <3>2. QED
      BY <2>1, <3>1 DEF IInv, InvScan, InvInit, StrandedByDefect
  <2>4. CASE scan # "pick" /\ "action" \notin tasks
    <3>1. tasks' = tasks /\ UNCHANGED defect
      BY <1>10, <2>4 DEF Preempt, CancelScan, TasksLeft
    <3>2. QED
      BY <2>1, <2>4, <3>1, KeptMotion
  <2>5. QED
    BY <2>2, <2>3, <2>4
<1>11. CASE Look
  BY <1>11, KeptMotion DEF Look, station
<1>12. CASE BgScan
  BY <1>12, NotWaiting DEF BgScan, station
<1>13. CASE BeaconMiss
  BY <1>13, NotWaiting DEF BeaconMiss
<1>14. CASE TxTimeout
  <2>1. UNCHANGED <<up, state, scan, tasks>>
    BY <1>14 DEF TxTimeout, scanner
  <2>2. CASE state # "INIT" /\ scan = "none"
    <3>1. call' = [call EXCEPT !["timer"] = Fail] /\ UNCHANGED defect
      BY <1>14, <2>2 DEF TxTimeout
    <3>2. call'["timer"] # Nothing
      BY <3>1 DEF TypeOK, Contexts, Fail, Nothing
    <3>3. InMotion'
      BY <3>2 DEF InMotion, Contexts
    <3>4. QED
      BY <2>1, <3>1, <3>3 DEF IInv, InvScan, InvInit, StrandedByDefect, Stranded
  <2>3. CASE state = "INIT"
    BY <2>1, <2>3, NotWaiting DEF IInv, InvInit
  <2>4. CASE scan # "none" /\ state # "INIT"
    <3>1. scan = "pick" \/ defect' # "none"
      BY <1>14, <2>4 DEF TxTimeout, TypeOK
    <3>2. QED
      BY <2>1, <3>1 DEF IInv, InvScan, InvInit, StrandedByDefect, Stranded, InMotion
  <2>5. QED
    BY <2>2, <2>3, <2>4
<1>15. CASE SendData
  BY <1>15, NotWaiting DEF SendData, station
<1>16. CASE Receive
  <2>1. \A c \in Contexts : call[c] # Nothing => call'[c] # Nothing
    BY <1>16 DEF Receive, TypeOK, Contexts
  <2>2. QED
    BY <1>16, <2>1, KeptMotion DEF Receive, scanner
<1>17. CASE UNCHANGED <<station, scanner>>
  BY <1>17, KeptMotion DEF station, scanner
<1>18. ASSUME NEW c \in Contexts, NewState(c) PROVE IInv'
  BY <1>18, NewStateMotion
<1>19. QED
  BY <1>1, <1>2, <1>3, <1>4, <1>5, <1>6, <1>7, <1>8, <1>9, <1>10, <1>11, <1>12,
     <1>13, <1>14, <1>15, <1>16, <1>17, <1>18
     DEF Next, Scanning, Tasklets, User, Driver, AccessPoint,
         ApReceive, ApTimeout, ApRestart, Lose, apOnly

(* A station waits for good only where a defect left it, in every behaviour. *)
THEOREM StrandedOnlyByDefect == Spec => []StrandedByDefect
<1>1. Init => IInv
  BY DEF Init, IInv, InvScan, InvInit, StrandedByDefect, Stranded
<1>2. TypeOK /\ IInv /\ [Next]_vars => IInv'
  <2>1. SUFFICES ASSUME TypeOK, IInv, [Next]_vars PROVE IInv'
    OBVIOUS
  <2>2. CASE Next
    BY <2>1, <2>2, StepMotion
  <2>3. CASE UNCHANGED vars
    BY <2>1, <2>3, KeptMotion DEF vars, station, scanner
  <2>4. QED
    BY <2>1, <2>2, <2>3
<1>3. IInv => StrandedByDefect
  BY DEF IInv
<1>4. QED
  BY <1>1, <1>2, <1>3, TypeCorrect, PTL DEF Spec
-----------------------------------------------------------------------------
(* The station and the access point agree on the association id.           *)

(* What is in flight, whatever the order.                                  *)
InFlight(q) == {q[i] : i \in 1 .. Len(q)}

(* The receive tasklet alone goes to RUN, and is not there yet.            *)
InvCall ==
  /\ call["timer"] # Run /\ call["bmiss"] # Run
  /\ state = "RUN" => call["rx"] # Run

(* The access point has an id for an associated station, and for no other. *)
InvNode == ap.st = "assoc" <=> ap.aid # 0

(* A station says goodbye when it goes down, and hears nothing then.       *)
InvDown ==
  IF up THEN \A f \in InFlight(toAp) : f.type \in {"auth1", "req", "data"}
  ELSE toSta = << >>

(* An id on its way to the station is the one the access point has.        *)
InvResp ==
  \A f \in InFlight(toSta) :
    f.type = "resp" /\ f.aid # 0 => ap.st = "assoc" /\ f.aid = ap.aid

(* A station about to be in RUN, or in RUN with requests of its own still  *)
(* on their way, has not been forgotten: no other id is waiting for it.    *)
Asking == \E f \in InFlight(toAp) : f.type \in {"auth1", "req"}
InvHeld ==
  up /\ (call["rx"] = Run \/ (state = "RUN" /\ Asking)) => ap.st = "assoc"

InvSame ==
  up /\ (call["rx"] = Run \/ state = "RUN") /\ ap.st = "assoc" => aid = ap.aid

AInv == InvCall /\ InvNode /\ InvDown /\ InvResp /\ InvHeld /\ InvSame

LEMMA FlightPut ==
  ASSUME NEW q \in Seq(Frames), NEW f \in Frames
  PROVE  InFlight(Put(q, f)) \subseteq InFlight(q) \cup {f}
BY DEF InFlight, Put

LEMMA FlightTail ==
  ASSUME NEW q \in Seq(Frames), q # << >>
  PROVE  InFlight(Tail(q)) \subseteq InFlight(q) /\ Head(q) \in InFlight(q)
BY DEF InFlight

LEMMA FlightNone == InFlight(<< >>) = {}
BY DEF InFlight

LEMMA FlightAnswer ==
  ASSUME TypeOK, NEW f \in Frames, Answer(f)
  PROVE  InFlight(toSta') \subseteq InFlight(toSta) \cup {f} /\ (~up => toSta' = toSta)
BY FlightPut DEF Answer, TypeOK

(* Steps of the station that send no goodbye, and in RUN only data; no     *)
(* station comes to RUN, or stays there, with another id.                  *)
LEMMA StationStep ==
  ASSUME TypeOK, AInv, InvCall', UNCHANGED <<up, ap, toSta>>,
         call'["rx"] = Run => call["rx"] = Run,
         call'["rx"] = Run \/ state' = "RUN"
           => aid' = aid /\ (call["rx"] = Run \/ state = "RUN"),
         \A f \in InFlight(toAp') :
           \/ f \in InFlight(toAp)
           \/ f.type \in {"auth1", "req", "data"} /\ (state' = "RUN" => f.type = "data")
  PROVE  AInv'
<1>1. InvNode' /\ InvResp'
  BY DEF AInv, InvNode, InvResp
<1>2. InvDown'
  BY DEF AInv, InvDown
<1>3. InvHeld'
  BY DEF AInv, InvHeld, Asking
<1>4. InvSame'
  BY DEF AInv, InvSame
<1>5. QED
  BY <1>1, <1>2, <1>3, <1>4 DEF AInv

(* A transition out of RUN, or between the states before it.               *)
LEMMA Leaves ==
  ASSUME TypeOK, AInv, UNCHANGED <<up, ap, toSta>>,
         state' \in {"SCAN", "AUTH", "ASSOC"}, aid' = Left,
         InFlight(toAp') \subseteq InFlight(toAp) \cup {Frame("auth1"), Frame("req")},
         \A c \in Contexts : call'[c] \in {call[c], Nothing}
  PROVE  AInv'
<1>1. InvCall'
  BY DEF AInv, InvCall, Contexts, Run, Nothing
<1>2. call'["rx"] = Run => call["rx"] = Run
  BY DEF Contexts, Run, Nothing
<1>3. call["rx"] = Run => aid' = aid
  BY DEF AInv, InvCall, Left
<1>4. \A f \in InFlight(toAp') : f \in InFlight(toAp) \/ f.type \in {"auth1", "req", "data"}
  BY DEF Frame
<1>5. QED
  BY <1>1, <1>2, <1>3, <1>4, StationStep

LEMMA RequestFlight ==
  ASSUME TypeOK, NEW f \in {"auth1", "req"}, Request(f)
  PROVE  InFlight(toAp') \subseteq InFlight(toAp) \cup {Frame("auth1"), Frame("req")}
<1>1. InFlight(Put(toAp, Frame(f))) \subseteq InFlight(toAp) \cup {Frame(f)}
  BY FrameType, FlightPut DEF TypeOK
<1>2. toAp' \in {toAp, Put(toAp, Frame(f))}
  BY DEF Request
<1>3. QED
  BY <1>1, <1>2

LEMMA TransitionFlight ==
  ASSUME TypeOK, ToAuth \/ ToAssoc
  PROVE  /\ state' \in {"AUTH", "ASSOC"} /\ aid' = Left
         /\ InFlight(toAp') \subseteq InFlight(toAp) \cup {Frame("auth1"), Frame("req")}
BY RequestFlight DEF ToAuth, ToAssoc

LEMMA NewStateAids ==
  ASSUME TypeOK, AInv, NEW c \in Contexts, NewState(c)
  PROVE  AInv'
<1>1. UNCHANGED <<up, ap, toSta>> /\ call' = [call EXCEPT ![c] = Nothing]
  BY DEF NewState
<1>2. \A d \in Contexts : call'[d] \in {call[d], Nothing}
  BY <1>1 DEF TypeOK
<1>3. CASE ToScan(TRUE)
  BY <1>1, <1>2, <1>3, Leaves DEF ToScan
<1>4. CASE ToAuth \/ ToAssoc
  BY <1>1, <1>2, <1>4, TransitionFlight, Leaves
<1>5. CASE call[c] = Run /\ ToRun
  <2>1. c = "rx"
    BY <1>5 DEF AInv, InvCall, Contexts
  <2>2. call'["rx"] # Run /\ InvCall'
    BY <1>1, <1>2, <2>1 DEF AInv, InvCall, Contexts, TypeOK, Run, Nothing
  <2>3. state' = "RUN" /\ aid' = aid /\ toAp' = toAp
    BY <1>5 DEF ToRun
  <2>4. QED
    BY <1>1, <1>5, <2>1, <2>2, <2>3, StationStep
<1>6. QED
  BY <1>3, <1>4, <1>5 DEF NewState

(* The access point answers, and keeps what it knows of the station.       *)
LEMMA ApKeeps ==
  ASSUME TypeOK, AInv, UNCHANGED <<station, ap>>,
         InFlight(toAp') \subseteq InFlight(toAp), ~up => toSta' = toSta,
         \A f \in InFlight(toSta') :
           f \in InFlight(toSta) \/ (f.type = "resp" /\ f.aid # 0 => ap.st = "assoc" /\ f.aid = ap.aid)
  PROVE  AInv'
BY DEF AInv, InvCall, InvNode, InvDown, InvResp, InvHeld, InvSame, Asking, station

(* The access point has a node without an id, or none, for a station that  *)
(* is neither in RUN, nor about to be, with requests on their way.         *)
LEMMA ApForgets ==
  ASSUME TypeOK, AInv, UNCHANGED station, ap' \in {NoNode, [st |-> "auth", aid |-> 0]},
         InFlight(toAp') \subseteq InFlight(toAp), ~up => toSta' = toSta,
         \A f \in InFlight(toSta') : f.type = "resp" => f.aid = 0,
         up => call["rx"] # Run /\ (state # "RUN" \/ InFlight(toAp') = {})
  PROVE  AInv'
BY DEF AInv, InvCall, InvNode, InvDown, InvResp, InvHeld, InvSame, Asking, station, NoNode

LEMMA ApAssocAids ==
  ASSUME TypeOK, AInv, UNCHANGED station, ApAssoc,
         InFlight(toAp') \subseteq InFlight(toAp), up => Asking
  PROVE  AInv'
<1>1. CASE ap.st = "none" /\ Answer(Frame("deauth")) /\ UNCHANGED ap
  BY <1>1, FlightAnswer, FrameType, ApKeeps DEF Frame
<1>2. ASSUME ap.st = "assoc", NEW a \in {ap.aid}, ap' = [st |-> "assoc", aid |-> a],
             Answer([type |-> "resp", aid |-> a])
      PROVE  AInv'
  <2>1. a \in Aids \cup {0} /\ ap' = ap
    BY <1>2 DEF TypeOK
  <2>2. [type |-> "resp", aid |-> a] \in Frames
    BY <2>1 DEF Frames
  <2>3. QED
    BY <1>2, <2>1, <2>2, FlightAnswer, ApKeeps
<1>3. ASSUME ap.st = "auth", NEW a \in Aids, ap' = [st |-> "assoc", aid |-> a],
             Answer([type |-> "resp", aid |-> a])
      PROVE  AInv'
  <2>1. [type |-> "resp", aid |-> a] \in Frames /\ a # 0
    BY DEF Frames, JoinAssumption
  <2>2. /\ InFlight(toSta') \subseteq InFlight(toSta) \cup {[type |-> "resp", aid |-> a]}
        /\ ~up => toSta' = toSta
    BY <1>3, <2>1, FlightAnswer
  <2>3. up => call["rx"] # Run /\ state # "RUN"
    BY <1>3 DEF AInv, InvHeld
  <2>4. \A f \in InFlight(toSta) : ~(f.type = "resp" /\ f.aid # 0)
    BY <1>3 DEF AInv, InvResp
  <2>5. InvResp'
    BY <1>3, <2>2, <2>4 DEF InvResp
  <2>6. InvDown' /\ InvCall' /\ InvNode'
    BY <1>3, <2>1, <2>2 DEF AInv, InvDown, InvCall, InvNode, station
  <2>7. InvHeld' /\ InvSame'
    BY <1>3, <2>3 DEF InvHeld, InvSame, station
  <2>8. QED
    BY <2>5, <2>6, <2>7 DEF AInv
<1>4. CASE ap.st = "auth" /\ ap' = NoNode /\ Answer(Frame("resp"))
  <2>1. \A f \in InFlight(toSta') : f.type = "resp" => f.aid = 0
    BY <1>4, FlightAnswer, FrameType DEF AInv, InvResp, Frame
  <2>2. up => call["rx"] # Run /\ state # "RUN"
    BY <1>4 DEF AInv, InvHeld
  <2>3. ~up => toSta' = toSta
    BY <1>4, FlightAnswer, FrameType
  <2>4. QED
    BY <1>4, <2>1, <2>2, <2>3, ApForgets
<1>5. ap.st # "none" => ap.st \in {"auth", "assoc"} /\ (ap.st = "auth" <=> ap.aid = 0)
  BY DEF TypeOK, AInv, InvNode
<1>6. QED
  BY <1>1, <1>2, <1>3, <1>4, <1>5 DEF ApAssoc

LEMMA ApReceiveAids ==
  ASSUME TypeOK, AInv, ApReceive
  PROVE  AInv'
<1> DEFINE h == Head(toAp)
<1>1. /\ UNCHANGED station /\ InFlight(toAp') \subseteq InFlight(toAp)
      /\ h \in InFlight(toAp)
  BY FlightTail DEF ApReceive, apOnly, TypeOK
<1>2. CASE h.type = "auth1" /\ ApAuth
  <2>1. /\ InFlight(toSta') \subseteq InFlight(toSta) \cup {Frame("auth2")}
        /\ ~up => toSta' = toSta
    BY <1>2, FlightAnswer, FrameType DEF ApAuth
  <2>2. CASE ap.st = "none"
    <3>1. up => call["rx"] # Run /\ state # "RUN"
      BY <1>1, <1>2, <2>2 DEF AInv, InvHeld, Asking
    <3>2. \A f \in InFlight(toSta') : f.type = "resp" => f.aid = 0
      BY <2>1, <2>2 DEF AInv, InvResp, Frame
    <3>3. ap' = [st |-> "auth", aid |-> 0]
      BY <1>2, <2>2 DEF ApAuth
    <3>4. QED
      BY <1>1, <2>1, <3>1, <3>2, <3>3, ApForgets
  <2>3. CASE ap.st # "none"
    <3>1. ap' = ap
      BY <1>2, <2>3 DEF ApAuth
    <3>2. QED
      BY <1>1, <2>1, <3>1, ApKeeps DEF Frame
  <2>4. QED
    BY <2>2, <2>3
<1>3. CASE h.type = "req" /\ ApAssoc
  BY <1>1, <1>3, ApAssocAids DEF Asking
<1>4. CASE h.type = "data" /\ ApData
  <2>1. PICK t \in {"deauth", "disassoc"} : Answer(Frame(t)) \/ UNCHANGED toSta
    BY <1>4 DEF ApData
  <2>2. InFlight(toSta') \subseteq InFlight(toSta) \cup {Frame(t)} /\ (~up => toSta' = toSta)
    BY <2>1, FlightAnswer, FrameType
  <2>3. ap' = ap
    BY <1>4 DEF ApData
  <2>4. QED
    BY <1>1, <2>2, <2>3, ApKeeps DEF Frame
<1>5. CASE h.type \notin {"auth1", "req", "data"} /\ ap' = NoNode /\ UNCHANGED toSta
  <2>1. ~up
    BY <1>1, <1>5 DEF AInv, InvDown
  <2>2. toSta' = << >>
    BY <1>5, <2>1 DEF AInv, InvDown
  <2>3. QED
    BY <1>1, <1>5, <2>1, <2>2, FlightNone, ApForgets
<1>6. QED
  BY <1>2, <1>3, <1>4, <1>5 DEF ApReceive

(* What touches neither the ids nor the frames.                            *)
LEMMA AidsKept ==
  ASSUME TypeOK, AInv, UNCHANGED <<up, state, aid, ap, toAp, toSta>>,
         \A c \in Contexts : call'[c] = call[c] \/ call'[c] # Run
  PROVE  AInv'
<1>1. InvCall'
  BY DEF AInv, InvCall, Contexts
<1>2. call'["rx"] = Run => call["rx"] = Run
  BY DEF Contexts
<1>3. call'["rx"] = Run \/ state' = "RUN"
        => aid' = aid /\ (call["rx"] = Run \/ state = "RUN")
  BY <1>2
<1>4. \A f \in InFlight(toAp') : f \in InFlight(toAp)
  OBVIOUS
<1>5. QED
  BY <1>1, <1>2, <1>3, <1>4, StationStep

LEMMA ReceiveAids ==
  ASSUME TypeOK, AInv, Receive
  PROVE  AInv'
<1> DEFINE f == Head(toSta)
<1>1. /\ UNCHANGED <<up, state, ap, toAp>> /\ up /\ call["rx"] = Nothing
      /\ call' = [call EXCEPT !["rx"] = Hears(f)]
      /\ aid' = IF Hears(f) = Run THEN f.aid ELSE aid
      /\ InFlight(toSta') \subseteq InFlight(toSta) /\ f \in InFlight(toSta)
  BY FlightTail DEF Receive, TypeOK
<1>2. call'["rx"] = Hears(f) /\ call'["timer"] = call["timer"] /\ call'["bmiss"] = call["bmiss"]
  BY <1>1 DEF TypeOK, Contexts
<1>3. CASE Hears(f) = Run
  <2>1. f.type = "resp" /\ f.aid # 0 /\ state = "ASSOC"
    BY <1>3 DEF Hears, Run, Fail, Assoc, Auth, Nothing
  <2>2. ap.st = "assoc" /\ f.aid = ap.aid
    BY <1>1, <2>1 DEF AInv, InvResp
  <2>3. QED
    BY <1>1, <1>2, <1>3, <2>1, <2>2
       DEF AInv, InvCall, InvNode, InvDown, InvResp, InvHeld, InvSame
<1>4. CASE Hears(f) # Run
  BY <1>1, <1>2, <1>4
     DEF AInv, InvCall, InvNode, InvDown, InvResp, InvHeld, InvSame, Asking
<1>5. QED
  BY <1>3, <1>4

LEMMA StepAids ==
  ASSUME TypeOK, AInv, Next
  PROVE  AInv'
<1>1. CASE ScanPicks \/ ScanRestarts \/ ScanEnds \/ AskScan \/ Look \/ BgScan
  BY <1>1, AidsKept DEF ScanPicks, ScanRestarts, ScanEnds, AskScan, Look, BgScan, station
<1>2. CASE ActionTasklet \/ Preempt
  BY <1>2, AidsKept DEF ActionTasklet, Preempt
<1>3. CASE BeaconMiss \/ TxTimeout
  <2>1. \A c \in Contexts : call'[c] = call[c] \/ call'[c] # Run
    BY <1>3 DEF BeaconMiss, TxTimeout, TypeOK, Contexts, Run, Assoc, Fail
  <2>2. QED
    BY <1>3, <2>1, AidsKept DEF BeaconMiss, TxTimeout
<1>4. CASE Join1Tasklet
  BY <1>4, TransitionFlight, Leaves DEF Join1Tasklet
<1>5. CASE Up
  <2>1. /\ up' /\ toSta' = << >> /\ UNCHANGED <<call, ap>> /\ InFlight(toAp) = {}
        /\ \A c \in Contexts : call[c] = Nothing
    BY <1>5, FlightNone DEF Up, Idle, AInv, InvDown
  <2>2. state' \in {"SCAN", "ASSOC"} /\ InFlight(toAp') \subseteq {Frame("auth1"), Frame("req")}
    BY <1>5, <2>1, TransitionFlight DEF Up, ToScan, ToAssoc
  <2>3. InvDown' /\ InvResp'
    BY <2>1, <2>2, FlightNone DEF InvDown, InvResp, Frame
  <2>4. InvCall' /\ InvNode'
    BY <2>1, <2>2 DEF AInv, InvCall, InvNode
  <2>5. call'["rx"] # Run
    BY <2>1 DEF Contexts, Run, Nothing
  <2>6. QED
    BY <2>2, <2>3, <2>4, <2>5 DEF AInv, InvHeld, InvSame
<1>6. CASE Stop
  <2>1. ~up' /\ toSta' = << >> /\ UNCHANGED <<call, ap>> /\ state' = "INIT"
    BY <1>6 DEF Stop, ToInit
  <2>2. QED
    BY <2>1, FlightNone
       DEF AInv, InvCall, InvNode, InvDown, InvResp, InvHeld, InvSame
<1>7. CASE Rescan
  BY <1>7, Leaves DEF Rescan, ToScan
<1>8. CASE SendData
  <2>1. InFlight(toAp') \subseteq InFlight(toAp) \cup {Frame("data")}
    BY <1>8, FrameType, FlightPut DEF SendData, Notify, TypeOK
  <2>2. UNCHANGED <<up, state, aid, call, ap, toSta>>
    BY <1>8 DEF SendData, station
  <2>3. InvCall'
    BY <2>2 DEF AInv, InvCall
  <2>4. QED
    BY <1>8, <2>1, <2>2, <2>3, StationStep DEF Frame, SendData
<1>9. CASE Receive
  BY <1>9, ReceiveAids
<1>10. CASE ApReceive
  BY <1>10, ApReceiveAids
<1>11. CASE ApTimeout
  <2>1. /\ UNCHANGED <<station, toAp>> /\ ap' = NoNode /\ InFlight(toAp') = {}
        /\ InFlight(toSta) = {} /\ call["rx"] = Nothing
    BY <1>11, FlightNone DEF ApTimeout, Idle, apOnly, Contexts
  <2>2. InFlight(toSta') \subseteq {Frame("deauth")} /\ (~up => toSta' = toSta)
    BY <1>11, <2>1, FlightAnswer, FrameType DEF ApTimeout
  <2>3. QED
    BY <2>1, <2>2, ApForgets DEF Frame, Run, Nothing
<1>12. CASE ApRestart
  <2>1. /\ UNCHANGED station /\ ap' = NoNode /\ toAp' = << >> /\ toSta' = << >>
        /\ call["rx"] = Nothing
    BY <1>12 DEF ApRestart, Idle, apOnly, Contexts
  <2>2. ~up => toSta' = toSta
    BY <2>1 DEF AInv, InvDown
  <2>3. QED
    BY <2>1, <2>2, FlightNone, ApForgets DEF Run, Nothing
<1>13. CASE Lose
  <2>1. UNCHANGED <<station, ap>>
    BY <1>13 DEF Lose, apOnly
  <2>2. /\ InFlight(toAp') \subseteq InFlight(toAp)
        /\ InFlight(toSta') \subseteq InFlight(toSta)
    BY <1>13, FlightTail DEF Lose, TypeOK
  <2>3. ~up => toSta' = toSta
    BY <1>13 DEF Lose, AInv, InvDown
  <2>4. QED
    BY <2>1, <2>2, <2>3, ApKeeps
<1>14. ASSUME NEW c \in Contexts, NewState(c) PROVE AInv'
  BY <1>14, NewStateAids
<1>15. QED
  BY <1>1, <1>2, <1>3, <1>4, <1>5, <1>6, <1>7, <1>8, <1>9, <1>10, <1>11, <1>12,
     <1>13, <1>14 DEF Next, Scanning, Tasklets, User, Driver, AccessPoint

(* A station in RUN has the id that the access point has for it, if it has *)
(* one: neither lost and late answers, nor time-outs and restarts of the   *)
(* access point, nor the interface going down and up make them differ.     *)
THEOREM AidsOfBothAgree == Spec => []AidsAgree
<1>1. Init => AInv
  BY FlightNone DEF Init, AInv, InvCall, InvNode, InvDown, InvResp, InvHeld, InvSame,
                    NoNode, Contexts, Run, Nothing
<1>2. TypeOK /\ AInv /\ [Next]_vars => AInv'
  <2>1. SUFFICES ASSUME TypeOK, AInv, [Next]_vars PROVE AInv'
    OBVIOUS
  <2>2. CASE Next
    BY <2>1, <2>2, StepAids
  <2>3. CASE UNCHANGED vars
    BY <2>1, <2>3, AidsKept DEF vars, station
  <2>4. QED
    BY <2>1, <2>2, <2>3
<1>3. AInv => AidsAgree
  BY DEF AInv, InvSame, AidsAgree
<1>4. QED
  BY <1>1, <1>2, <1>3, TypeCorrect, PTL DEF Spec
=============================================================================
