---------------------------------- MODULE Join ----------------------------------
(***************************************************************************)
(* How a MadWifi station joins an access point and stays joined: the       *)
(* 802.11 state machine of the station (ieee80211_proto.c), the scans      *)
(* that feed it (ieee80211_scan.c, ieee80211_scan_sta.c), the watchdog of  *)
(* its management frames, and the access point that answers them           *)
(* (ieee80211_input.c, ieee80211_node.c).  Roaming is automatic, there is  *)
(* one network, and authentication is open.                                *)
(*                                                                         *)
(* ieee80211_new_state holds a lock, so a transition is one step; but the  *)
(* handlers that ask for one test the state without that lock, and the     *)
(* transition they chose comes in a later step (call).                     *)
(***************************************************************************)
EXTENDS Integers, Sequences, FiniteSets

CONSTANTS
  Aids,        \* association ids of the access point
  FailsMax,    \* STA_FAILS_MAX: an access point that failed as often is not chosen
  MaxFrames,   \* bound of the model: frames in flight in one direction
  MaxTrouble   \* bound of the model: disturbances in one behaviour

ASSUME JoinAssumption ==
  /\ 0 \notin Aids /\ Aids # {} /\ Aids \subseteq Nat
  /\ FailsMax \in Nat \ {0} /\ MaxFrames \in Nat \ {0} /\ MaxTrouble \in Nat

VARIABLES
  up,          \* IFF_RUNNING of the station's interface
  state,       \* iv_state of the station
  aid,         \* ni_associd of its iv_bss
  timer,       \* iv_mgtsend is pending
  call,        \* per context: the transition it has chosen and not yet made
  scan,        \* IEEE80211_F_SCAN and what the scan will do when it ends
  asked,       \* an SIOCSIWSCAN waits for the scan in progress to end
  tasks,       \* tasklets scheduled: st_actiontq and iv_stajoin1tq
  fails,       \* se_fails of the access point's scan entry
  defect,      \* what went wrong since the station last set something in motion
  ap,          \* the access point's node of the station
  toAp, toSta, \* frames in flight
  trouble      \* disturbances so far

scanner == <<scan, asked, tasks, fails>>
station == <<up, state, aid, timer, call, defect>>
vars == <<station, scanner, ap, toAp, toSta, trouble>>

Contexts == {"timer", "rx", "bmiss"}
(* A transition: the new state, and whether its argument reports a failure. *)
Fail == "fail"         \* ieee80211_new_state(vap, SCAN, reason)
Assoc == "assoc"       \* ieee80211_new_state(vap, ASSOC, ..)
Auth == "auth"         \* ieee80211_new_state(vap, AUTH, DEAUTH)
Run == "run"           \* ieee80211_new_state(vap, RUN, ..)
Nothing == "nothing"

Frame(t) == [type |-> t, aid |-> 0]
Frames == [type : {"auth1", "auth2", "req", "resp", "deauth", "disassoc", "data"},
           aid : Aids \cup {0}]

TypeOK ==
  /\ up \in BOOLEAN /\ timer \in BOOLEAN /\ asked \in BOOLEAN
  /\ state \in {"INIT", "SCAN", "AUTH", "ASSOC", "RUN"}
  /\ aid \in Aids \cup {0}
  /\ call \in [Contexts -> {Nothing, Fail, Assoc, Auth, Run}]
  /\ scan \in {"none", "pick", "look", "cancelled"}
  /\ tasks \subseteq {"action", "join1"}
  /\ fails \in Nat /\ trouble \in Nat
  /\ defect \in {"none", "overtaken", "ignored", "stolen", "unsent"}
  /\ ap \in [st : {"none", "auth", "assoc"}, aid : Aids \cup {0}]
  /\ toAp \in Seq(Frames) /\ toSta \in Seq(Frames)

NoNode == [st |-> "none", aid |-> 0]

Init ==
  /\ up = FALSE /\ state = "INIT" /\ aid = 0 /\ timer = FALSE
  /\ call = [c \in Contexts |-> Nothing]
  /\ scan = "none" /\ asked = FALSE /\ tasks = {} /\ fails = 0
  /\ defect = "none" /\ ap = NoNode
  /\ toAp = << >> /\ toSta = << >> /\ trouble = 0

-----------------------------------------------------------------------------
(* No handler is between its test and its transition: so it is whenever    *)
(* something happened that takes a while.                                  *)
Idle == \A c \in Contexts : call[c] = Nothing

(* Frames.                                                                 *)

(* A disturbance: it happens a bounded number of times. *)
Trouble == trouble < MaxTrouble /\ trouble' = trouble + 1
Quiet == UNCHANGED trouble

(* The radio loses what finds MaxFrames in flight.                         *)
Put(q, f) == IF Len(q) < MaxFrames THEN Append(q, f) ELSE q

(* A bug: the watchdog is not armed for an association request. *)
RequestUnguarded(f) ==
  /\ Quiet
  /\ toAp' = Put(toAp, Frame(f))
  /\ timer' = (f = "auth1") /\ defect' = "none"

(* ieee80211_send_mgmt of an AUTH or an ASSOC_REQ of the station: the frame *)
(* goes out and the watchdog is armed; without memory for it, neither is.  *)
Request(f) ==
  \/ /\ Quiet
     /\ toAp' = Put(toAp, Frame(f))
     /\ timer' = TRUE /\ defect' = "none"
  \/ /\ Trouble
     /\ timer' = FALSE /\ defect' = "unsent" /\ UNCHANGED toAp

(* A frame the station does not wait for an answer to.                     *)
Notify(f) == toAp' = Put(toAp, Frame(f))

(* The access point answers; an interface that is down hears nothing.      *)
Answer(f) == toSta' = IF up THEN Put(toSta, f) ELSE toSta

-----------------------------------------------------------------------------
(* Scans.                                                                  *)

(* ieee80211_cancel_scan, which also withdraws the action tasklet.         *)
Cancelled == IF scan = "none" THEN scan ELSE "cancelled"
TasksLeft == IF scan = "none" THEN tasks ELSE tasks \ {"action"}
CancelScan == scan' = Cancelled /\ tasks' = TasksLeft

(* A bug: a count of failures goes below zero. *)
WeakerBelow(n) == n - 1

Weaker(n) == IF n = 0 THEN 0 ELSE n - 1

(* ieee80211_check_scan with n failures on record, after sc became of the  *)
(* scan and ts of the tasklets: if the cache is hot an access point may be *)
(* picked from it; else a scan is started, unless one is already going.    *)
CheckScan(sc, ts, n) ==
  \/ /\ sc # "none"
     /\ scan' = sc /\ tasks' = ts /\ fails' = n
     /\ defect' = IF sc = "pick" THEN "none" ELSE "overtaken"
  \/ /\ sc = "none" /\ n < FailsMax
     /\ scan' = sc /\ tasks' = ts \cup {"action"} /\ fails' = n
     /\ defect' = "none"
  \/ /\ sc = "none"
     /\ scan' = "pick" /\ tasks' = ts /\ fails' \in {n, Weaker(n)}
     /\ defect' = "none"

(* scan_next at the end of a scan that may select: an access point is      *)
(* heard and picked, and its action scheduled ...                          *)
ScanPicks ==
  /\ scan = "pick" /\ fails < FailsMax
  /\ scan' = "none" /\ tasks' = tasks \cup {"action"}
  /\ UNCHANGED <<station, asked, fails, ap, toAp, toSta, trouble>>

(* ... or none will do: failures are forgiven, and the scan goes on.       *)
ScanRestarts ==
  /\ scan = "pick" /\ fails # 0
  /\ fails' = Weaker(fails)
  /\ UNCHANGED <<station, scan, asked, tasks, ap, toAp, toSta, trouble>>

(* The end of a scan that was only to look, or that was cancelled.         *)
ScanEnds ==
  /\ scan \in {"look", "cancelled"}
  /\ scan' = "none"
  /\ UNCHANGED <<station, asked, tasks, fails, ap, toAp, toSta, trouble>>

(* action_tasklet: sta_join finds or makes the node, makes it iv_bss and   *)
(* schedules the transition; without memory the scan is started again.     *)
ActionTasklet ==
  /\ "action" \in tasks
  /\ \/ /\ tasks' = (tasks \ {"action"}) \cup {"join1"}
        /\ Quiet /\ UNCHANGED <<scan, fails, defect>>
     \/ /\ Trouble
        /\ tasks' = tasks \ {"action"} /\ fails' = Weaker(fails)
        /\ scan' = IF scan = "none" THEN "pick" ELSE scan
        /\ defect' = IF scan \in {"look", "cancelled"} THEN "overtaken" ELSE defect
  /\ UNCHANGED <<up, state, aid, timer, call, asked, ap, toAp, toSta>>

-----------------------------------------------------------------------------
(* __ieee80211_newstate, one operator per new state.                       *)

(* sta_leave cleans the node when the old state was RUN.                   *)
Left == IF state = "RUN" THEN 0 ELSE aid
(* A scan in progress is cancelled, unless the old state was SCAN.         *)
ScanLeft == IF state = "SCAN" THEN scan ELSE Cancelled
TasksKept == IF state = "SCAN" THEN tasks ELSE TasksLeft

ToInit ==
  /\ state' = "INIT" /\ timer' = FALSE /\ aid' = 0 /\ CancelScan
  /\ CASE state = "RUN" -> Notify("disassoc")
       [] state = "ASSOC" -> Notify("deauth")
       [] OTHER -> UNCHANGED toAp
  /\ UNCHANGED <<fails, defect>>

ToScan(failed) ==
  /\ state' = "SCAN" /\ timer' = FALSE /\ aid' = Left
  /\ CheckScan(ScanLeft, TasksKept,
               IF failed /\ state \notin {"INIT", "RUN"} THEN fails + 1 ELSE fails)
  /\ UNCHANGED toAp

ToAuth ==
  /\ state' = "AUTH" /\ aid' = Left
  /\ scan' = ScanLeft
  /\ Request("auth1")
  /\ UNCHANGED fails

(* From INIT and SCAN the transition is called invalid and yet made.       *)
ToAssoc ==
  /\ state' = "ASSOC" /\ aid' = Left
  /\ scan' = ScanLeft /\ tasks' = TasksKept
  /\ IF state \in {"INIT", "SCAN"}
     THEN timer' = FALSE /\ Quiet /\ UNCHANGED <<toAp, defect>>
     ELSE Request("req")
  /\ UNCHANGED fails

ToRun ==
  /\ state' = "RUN" /\ timer' = FALSE
  /\ scan' = ScanLeft /\ tasks' = TasksKept
  /\ Quiet /\ UNCHANGED <<aid, fails, toAp, defect>>

(* A context makes the transition it has chosen.                           *)
NewState(c) ==
  /\ call[c] # Nothing
  /\ call' = [call EXCEPT ![c] = Nothing]
  /\ \/ call[c] = Fail /\ ToScan(TRUE) /\ Quiet
     \/ call[c] = Auth /\ ToAuth /\ tasks' = TasksKept
     \/ call[c] = Assoc /\ ToAssoc
     \/ call[c] = Run /\ ToRun
  /\ UNCHANGED <<up, asked, ap, toSta>>

(* ieee80211_sta_join1_tasklet. *)
Join1Tasklet ==
  /\ "join1" \in tasks
  /\ ToAuth /\ tasks' = TasksKept \ {"join1"}
  /\ UNCHANGED <<up, asked, call, ap, toSta>>

-----------------------------------------------------------------------------
(* The station.  What its user asks for holds the rtnl lock: one at a time. *)

(* ieee80211_init: the interface is brought up; by then what a softirq had *)
(* chosen when it went down is done, the scan cancelled has ended, and the *)
(* frames then in the air are gone.  A transition to RUN that was late     *)
(* makes it associate again, from the node that Stop has reset.            *)
Up ==
  /\ ~up /\ up' = TRUE /\ ~asked
  /\ Idle /\ scan # "cancelled" /\ toAp = << >>
  /\ IF state = "RUN" THEN ToAssoc ELSE ToScan(FALSE) /\ Quiet
  /\ UNCHANGED <<call, asked, ap, toSta>>

(* ieee80211_stop: neither a handler that has chosen a transition nor the  *)
(* tasklets are waited for.                                                *)
Stop ==
  /\ up /\ up' = FALSE /\ ~asked
  /\ ToInit /\ Trouble
  /\ toSta' = << >>
  /\ UNCHANGED <<call, asked, ap>>

(* An ioctl that changes what network is wanted: new_state(vap, SCAN, 0).  *)
Rescan ==
  /\ up /\ ~asked /\ ToScan(FALSE) /\ Trouble
  /\ UNCHANGED <<up, call, asked, ap, toSta>>

(* ieee80211_ioctl_siwscan: preempt_scan waits a while for the scan in     *)
(* progress, cancels it, waits again; then a scan is started that only     *)
(* looks, or, if one is still going, none.                                 *)
AskScan ==
  /\ up /\ ~asked /\ asked' = TRUE /\ Trouble
  /\ UNCHANGED <<station, scan, tasks, fails, ap, toAp, toSta>>

Preempt ==
  /\ asked /\ scan \in {"pick", "look"}
  /\ CancelScan
  /\ defect' = IF state # "RUN" /\ (scan = "pick" \/ "action" \in tasks)
               THEN "stolen" ELSE defect
  /\ UNCHANGED <<up, state, aid, timer, call, asked, fails, ap, toAp, toSta, trouble>>

Look ==
  /\ asked /\ asked' = FALSE
  /\ scan' = IF scan = "none" THEN "look" ELSE scan
  /\ scan \in {"none", "cancelled"}
  /\ UNCHANGED <<station, tasks, fails, ap, toAp, toSta, trouble>>

(* ieee80211_recv_mgmt of a beacon of the station's own network may start  *)
(* a background scan.                                                      *)
BgScan ==
  /\ state = "RUN" /\ aid # 0 /\ scan = "none"
  /\ scan' = "look" /\ Trouble
  /\ UNCHANGED <<station, asked, tasks, fails, ap, toAp, toSta>>

(* ieee80211_beacon_miss, before it asks for the transition.               *)
BeaconMiss ==
  /\ up /\ scan = "none" /\ state = "RUN" /\ call["bmiss"] = Nothing
  /\ call' = [call EXCEPT !["bmiss"] = Assoc]
  /\ Trouble
  /\ UNCHANGED <<up, state, aid, timer, defect, scanner, ap, toAp, toSta>>

(* ieee80211_tx_timeout, before it asks for the transition.  The watchdog  *)
(* waits for seconds, a cancelled scan ends within a tick; that an answer  *)
(* is still on its way when it fires is a disturbance.                     *)
OnItsWay == toAp # << >> \/ toSta # << >> \/ call["rx"] # Nothing
TxTimeout ==
  /\ timer /\ call["timer"] = Nothing /\ scan # "cancelled"
  /\ IF OnItsWay THEN Trouble ELSE Quiet
  /\ timer' = FALSE
  /\ IF state # "INIT" /\ scan = "none"
     THEN call' = [call EXCEPT !["timer"] = Fail] /\ UNCHANGED defect
     ELSE defect' = (IF scan = "look" THEN "ignored" ELSE defect) /\ UNCHANGED call
  /\ UNCHANGED <<up, state, aid, scanner, ap, toAp, toSta>>

(* ieee80211_hardstart: traffic goes out in RUN, and cancels any scan.     *)
SendData ==
  /\ up /\ state = "RUN" /\ toAp = << >>
  /\ CancelScan /\ Notify("data")
  /\ UNCHANGED <<station, asked, fails, ap, toSta, trouble>>

(* The receive tasklet: it takes a frame, tests the state, and chooses.    *)
Hears(f) ==
  CASE f.type = "auth2" /\ state = "AUTH" -> Assoc
    [] f.type = "resp" /\ state = "ASSOC" -> IF f.aid = 0 THEN Fail ELSE Run
    [] f.type = "deauth" /\ state # "SCAN" -> Auth
    [] f.type = "disassoc" /\ state \in {"AUTH", "ASSOC", "RUN"} -> Assoc
    [] OTHER -> Nothing

Receive ==
  /\ up /\ toSta # << >> /\ call["rx"] = Nothing
  /\ LET f == Head(toSta) IN
     /\ call' = [call EXCEPT !["rx"] = Hears(f)]
     /\ aid' = IF Hears(f) = Run THEN f.aid ELSE aid
  /\ toSta' = Tail(toSta)
  /\ UNCHANGED <<up, state, timer, defect, scanner, ap, toAp, trouble>>

-----------------------------------------------------------------------------
(* The access point.                                                       *)

apOnly == <<station, scanner>>

(* ieee80211_auth_open: a station is given a node, or keeps the one it has. *)
ApAuth ==
  /\ ap' = IF ap.st = "none" THEN [st |-> "auth", aid |-> 0] ELSE ap
  /\ Answer(Frame("auth2")) /\ Quiet

(* A bug: an associated station that asks again gets another id. *)
ApAssocAnew ==
  /\ ap.st # "none" /\ Quiet
  /\ \E a \in Aids :
       /\ ap' = [st |-> "assoc", aid |-> a]
       /\ Answer([type |-> "resp", aid |-> a])

(* The association request, and ieee80211_node_join: an id is assigned if  *)
(* the node has none; a station that cannot be taken loses its node.       *)
ApAssoc ==
  \/ ap.st = "none" /\ Answer(Frame("deauth")) /\ Quiet /\ UNCHANGED ap
  \/ /\ ap.st # "none"
     /\ \E a \in IF ap.aid = 0 THEN Aids ELSE {ap.aid} :
          /\ ap' = [st |-> "assoc", aid |-> a]
          /\ Answer([type |-> "resp", aid |-> a])
     /\ Quiet
  \/ /\ ap.st = "auth" /\ Trouble
     /\ ap' = NoNode /\ Answer(Frame("resp"))

(* A bug: data of a station that is not known is dropped in silence. *)
ApDataSilent ==
  /\ IF ap.st = "auth" THEN Answer(Frame("disassoc")) ELSE UNCHANGED toSta
  /\ Quiet /\ UNCHANGED ap

(* Data of a station that is not known, or not associated.                 *)
ApData ==
  /\ CASE ap.st = "none" -> Answer(Frame("deauth"))
       [] ap.st = "auth" -> Answer(Frame("disassoc"))
       [] OTHER -> UNCHANGED toSta
  /\ Quiet /\ UNCHANGED ap

ApReceive ==
  /\ toAp # << >>
  /\ toAp' = Tail(toAp)
  /\ CASE Head(toAp).type = "auth1" -> ApAuth
       [] Head(toAp).type = "req" -> ApAssoc
       [] Head(toAp).type = "data" -> ApData
       [] OTHER -> ap' = NoNode /\ Quiet /\ UNCHANGED toSta
  /\ UNCHANGED apOnly

(* ieee80211_timeout_stations, after minutes without a frame, when nothing  *)
(* is in flight any more: an associated station is told, if it hears.      *)
ApTimeout ==
  /\ ap.st # "none" /\ Idle /\ toAp = << >> /\ toSta = << >> /\ Trouble
  /\ ap' = NoNode
  /\ IF ap.st = "assoc" THEN Answer(Frame("deauth")) ELSE UNCHANGED toSta
  /\ UNCHANGED <<apOnly, toAp>>

(* The access point restarts, which takes a while: it has forgotten the    *)
(* station, and nothing is in flight any more.                             *)
ApRestart ==
  /\ ap.st # "none" /\ Idle /\ Trouble
  /\ ap' = NoNode /\ toAp' = << >> /\ toSta' = << >>
  /\ UNCHANGED apOnly

(* The radio loses a frame.                                                *)
Lose ==
  /\ Trouble
  /\ \/ toAp # << >> /\ toAp' = Tail(toAp) /\ UNCHANGED toSta
     \/ toSta # << >> /\ toSta' = Tail(toSta) /\ UNCHANGED toAp
  /\ UNCHANGED <<apOnly, ap>>

-----------------------------------------------------------------------------
Scanning == ScanPicks \/ ScanRestarts \/ ScanEnds
Tasklets == ActionTasklet \/ Join1Tasklet
User == Up \/ Stop \/ Rescan \/ AskScan \/ Preempt \/ Look
Driver == BgScan \/ BeaconMiss \/ TxTimeout \/ SendData \/ Receive
AccessPoint == ApReceive \/ ApTimeout \/ ApRestart

Next ==
  \/ Scanning \/ Tasklets \/ User \/ Driver
  \/ AccessPoint \/ Lose
  \/ \E c \in Contexts : NewState(c)

Spec == Init /\ [][Next]_vars

(* Tasklets, timers and the radio go on, an ioctl goes through, and the    *)
(* station has traffic to send.                                            *)
Fairness ==
  /\ WF_vars(ScanPicks) /\ WF_vars(ScanRestarts) /\ WF_vars(ScanEnds)
  /\ WF_vars(ActionTasklet) /\ WF_vars(Join1Tasklet)
  /\ WF_vars(Preempt) /\ WF_vars(Look)
  /\ WF_vars(TxTimeout) /\ WF_vars(SendData) /\ WF_vars(Receive)
  /\ WF_vars(ApReceive)
  /\ \A c \in Contexts : WF_vars(NewState(c))

FairSpec == Spec /\ Fairness

-----------------------------------------------------------------------------
(* What should hold.                                                       *)

(* Something is under way that will ask for a transition.                  *)
InMotion ==
  \/ timer \/ scan = "pick" \/ tasks # {}
  \/ \E c \in Contexts : call[c] # Nothing

Stranded == up /\ state \in {"SCAN", "AUTH", "ASSOC"} /\ ~InMotion

(* A station that is not in RUN, with no timer, no scan that selects, no   *)
(* tasklet and no chosen transition to move it, got there in one of four   *)
(* ways only: a transition to SCAN met a scan that will select nothing, the *)
(* watchdog fired while one was going, a request for a scan cancelled the  *)
(* station's own, or a request could not be sent for want of memory.       *)
StrandedByDefect == Stranded => defect # "none"

(* A station in RUN and an access point that has it associated hold the    *)
(* same id (the one of its bit in the TIM), whatever answers are late.     *)
AidsAgree == up /\ state = "RUN" /\ ap.st = "assoc" => aid = ap.aid

Joined == state = "RUN" /\ ap.st = "assoc" /\ aid = ap.aid

(* Whatever was lost, forgotten or interrupted, a station whose interface  *)
(* stays up ends joined, or stranded by a defect.                          *)
Settles == <>[]up => (<>[]Joined \/ <>[](Stranded /\ defect # "none"))

(* proto.c says of a transition from AUTH or ASSOC to SCAN that it triggers *)
(* a new scan, unless roaming is manual: a scan that will select follows.  *)
ScanTriggered ==
  [][(state \in {"AUTH", "ASSOC"} /\ state' = "SCAN")
       => (scan' = "pick" \/ tasks' # {})]_vars

(* proto.c says that ieee80211_stop forces the interface down using the    *)
(* state machine: the station then stays in INIT.                          *)
StaysDown == ~up => state = "INIT"
=============================================================================
