-------------------------------- MODULE TestRun --------------------------------
(***************************************************************************)
(* The experiments of tcp.test and test.network.share: the loggers they    *)
(* start on remote hosts over ssh, the iperf servers and flows, and the    *)
(* log files they copy into the directory for results.                     *)
(*                                                                         *)
(* The script runs the commands of its plan one after the other.  What it  *)
(* starts in the background goes on by itself, at any pace, with one       *)
(* exception: an ssh that was started before a flow or a server has        *)
(* connected when the flow is over, or the server was waited for, which    *)
(* takes seconds (Connected).                                              *)
(***************************************************************************)
EXTENDS Integers, Sequences, FiniteSets

CONSTANTS
  Clients,     \* the clients of each kind of test, as a sequence (CLIENTS,
               \* UDP_CLIENTS)
  TcpClient,   \* the client of the TCP flow beside the UDP flows (TCP_CLIENT)
  Modes,       \* the kinds of test to look at
  Times        \* how many times are asked for (-t): one run for each

Of(m) == {Clients[m][i] : i \in 1 .. Len(Clients[m])}
ClientSet == UNION {Of(m) : m \in Modes}
Hosts == {"src", "ap", TcpClient} \cup ClientSet
Kinds == {"tcpprobe", "kmsg", "tcpdump"}
Logs == Kinds \X Hosts
Servers == {<<"udp", "src">>} \cup ({"tcp"} \X ({"src"} \cup ClientSet))
Runs == 1 .. Times

ASSUME TestRunAssumption ==
  /\ Modes \subseteq {"udp", "clients", "wsrc", "share"} /\ Times \in Nat \ {0}
  /\ \A m \in Modes : /\ Clients[m] \in Seq(Of(m)) /\ Clients[m] # << >>
                      /\ \A i, j \in 1 .. Len(Clients[m]) :
                           Clients[m][i] = Clients[m][j] => i = j

-----------------------------------------------------------------------------
(* The plans.  "wsrc" is tcp.test -s, "udp" is -u; "share" is              *)
(* test.network.share.                                                     *)

Start(k, hosts) == [do |-> "start", of |-> {k} \X hosts]
Serve(p, h) == [do |-> "serve", of |-> {<<p, h>>}]
Stop(k, hosts, cmds) == [do |-> "stop", of |-> {k} \X hosts, cmds |-> cmds]
Plain(d) == [do |-> d, of |-> {}]

(* A bug: the file is deleted before it is copied. *)
SaveDeleted == <<"kill", "delete", "dir">>

(* Kill the logger, copy its file to the directory, delete it; without a   *)
(* directory, the copy is made in "/".                                     *)
Save == <<"kill", "dir", "delete">>
SaveAway == <<"kill", "root", "delete">>
SaveTwice == <<"kill", "root", "delete", "dir", "delete">>

StartLogging(probe, madwifi, dump) ==
  <<Start("tcpprobe", {probe}), Start("kmsg", {madwifi}), Start("tcpdump", {dump})>>
StopLogging(probe, madwifi, dump) ==
  <<Stop("tcpprobe", {probe}, SaveTwice), Stop("kmsg", {madwifi}, SaveAway),
    Stop("tcpdump", {dump}, Save)>>

Udp ==
  <<Serve("udp", "src"), Serve("tcp", "src")>> \o StartLogging(TcpClient, TcpClient, "ap")
    \o <<Plain("flows"), Plain("wait")>> \o StopLogging(TcpClient, TcpClient, "ap")

FromClients ==
  <<Start("tcpprobe", {"src"}), Start("tcpprobe", {"ap"}), Start("tcpprobe", Of("clients")),
    Start("kmsg", {"ap"}), Start("kmsg", Of("clients")),
    Start("tcpdump", {"src"}), Start("tcpdump", {"ap"}),
    Serve("tcp", "src"), Plain("flows"), Plain("wait"),
    Stop("tcpdump", {"ap"}, Save), Stop("tcpdump", {"src"}, Save),
    Stop("kmsg", {"ap"}, Save), Stop("kmsg", Of("clients"), Save),
    Stop("tcpprobe", {"src"}, Save), Stop("tcpprobe", {"ap"}, Save),
    Stop("tcpprobe", Of("clients"), Save)>>

(* The function that would run the flows is called by a wrong name.        *)
FromSrc ==
  StartLogging("src", "ap", "ap") \o <<Plain("clear")>>
    \o [i \in 1 .. Len(Clients["wsrc"]) |-> Serve("tcp", Clients["wsrc"][i])]
    \o <<Plain("servers")>> \o StopLogging("src", "ap", "ap") \o <<Plain("clear")>>

Share ==
  <<Start("tcpdump", {"ap"}), Start("tcpdump", {"src"}),
    Start("kmsg", {"ap"}), Start("kmsg", Of("share")), Plain("flows"), Plain("wait"),
    Stop("tcpdump", {"ap"}, SaveTwice), Stop("tcpdump", {"src"}, SaveTwice),
    Stop("kmsg", {"ap"}, Save), Stop("kmsg", Of("share"), Save)>>

Plan(m) == CASE m = "udp" -> Udp [] m = "clients" -> FromClients
             [] m = "wsrc" -> FromSrc [] m = "share" -> Share

UdpFlows(m) == IF m \in {"udp", "share"} THEN Of(m) ELSE {}
TcpFlows(m) == IF m = "udp" THEN {TcpClient} ELSE IF m = "clients" THEN Of(m) ELSE {}

VARIABLES
  mode,        \* which kind of test
  run, step,   \* the script: which time, where in its plan
  stage,       \* starting a server: "kill", then "listen"
  done,        \* how many commands of a stop have been done, per log
  proc,        \* the loggers on the hosts, per log and run that started them
  file,        \* the log files on the hosts: the run that made them, or NoFile
  saved,       \* the files in the directories for results, likewise
  server,      \* the iperf servers
  again,       \* whether the server started last is another than the one that is up
  tput, flow   \* the UDP and the TCP flows

script == <<mode, run, step>>
logging == <<done, proc, file, saved>>
iperf == <<server, again>>
flows == <<tput, flow>>
vars == <<script, stage, logging, iperf, flows>>

NoFile == 0

TypeOK ==
  /\ mode \in Modes /\ run \in 1 .. Times + 1 /\ step \in 1 .. Len(Plan(mode))
  /\ stage \in {"kill", "listen"}
  /\ done \in [Logs -> 0 .. 5]
  /\ proc \in [Logs -> [Runs -> {"none", "launched", "drain", "reads", "over"}]]
  /\ file \in [Logs -> 0 .. Times] /\ saved \in [Runs -> [Logs -> 0 .. Times]]
  /\ server \in [Servers -> {"none", "starting", "up"}] /\ again \in [Servers -> BOOLEAN]
  /\ tput \in [ClientSet -> {"off", "kill", "listen", "client", "send", "done"}]
  /\ flow \in [ClientSet \cup {TcpClient} -> {"off", "on", "done"}]

Init ==
  /\ mode \in Modes /\ run = 1 /\ step = 1 /\ stage = "kill"
  /\ done = [l \in Logs |-> 0]
  /\ proc = [l \in Logs |-> [r \in Runs |-> "none"]]
  /\ file = [l \in Logs |-> NoFile] /\ saved = [r \in Runs |-> [l \in Logs |-> NoFile]]
  /\ server = [s \in Servers |-> "none"] /\ again = [s \in Servers |-> FALSE]
  /\ tput = [c \in ClientSet |-> "off"]
  /\ flow = [c \in ClientSet \cup {TcpClient} |-> "off"]

Over == run > Times
Now == Plan(mode)[step]
At(d) == ~Over /\ Now.do = d

(* A bug: the time after the last command. *)
AdvanceLate ==
  /\ UNCHANGED mode
  /\ IF step <= Len(Plan(mode)) THEN step' = step + 1 /\ UNCHANGED run
     ELSE step' = 1 /\ run' = run + 1

(* On to the next command, or to the next time of -t. *)
Advance ==
  /\ UNCHANGED mode
  /\ IF step < Len(Plan(mode)) THEN step' = step + 1 /\ UNCHANGED run
     ELSE step' = 1 /\ run' = run + 1

-----------------------------------------------------------------------------
(* Loggers.                                                                *)

(* remote_kill, by the name of the file that is read: also the shell that   *)
(* drains the kernel log.                                                  *)
Killed(p) == [r \in Runs |-> IF p[r] \in {"drain", "reads"} THEN "over" ELSE p[r]]

(* Loggers start in the background; a tcp_probe logger of before is killed *)
(* first.                                                                  *)
StartLogs ==
  /\ At("start")
  /\ proc' = [l \in Logs |->
       IF l \notin Now.of THEN proc[l]
       ELSE [(IF l[1] = "tcpprobe" THEN Killed(proc[l]) ELSE proc[l])
               EXCEPT ![run] = "launched"]]
  /\ Advance
  /\ UNCHANGED <<stage, done, file, saved, iperf, flows>>

(* ssh has connected.  The kernel log is drained for a second first; then  *)
(* the shell makes the file, or empties it.                                *)
Arrive(l, r) ==
  /\ \/ proc[l][r] = "launched" /\ l[1] # "kmsg"
     \/ proc[l][r] = "drain"
  /\ proc' = [proc EXCEPT ![l][r] = "reads"]
  /\ file' = [file EXCEPT ![l] = r]
  /\ UNCHANGED <<script, stage, done, saved, iperf, flows>>

DrainKmsg(l, r) ==
  /\ proc[l][r] = "launched" /\ l[1] = "kmsg"
  /\ proc' = [proc EXCEPT ![l][r] = "drain"]
  /\ UNCHANGED <<script, stage, done, file, saved, iperf, flows>>

(* A bug: the pattern does not match the logger. *)
KillNot(l) == UNCHANGED <<proc, file, saved>>

Kill(l) == proc' = [proc EXCEPT ![l] = Killed(@)] /\ UNCHANGED <<file, saved>>

(* scp of a file that is not there fails, and the script goes on. *)
Copy(l) ==
  /\ saved' = IF file[l] = NoFile THEN saved ELSE [saved EXCEPT ![run][l] = file[l]]
  /\ UNCHANGED <<proc, file>>

(* A bug: the file stays on the host. *)
DeleteNot(l) == UNCHANGED <<proc, file, saved>>

Delete(l) == file' = [file EXCEPT ![l] = NoFile] /\ UNCHANGED <<proc, saved>>

(* On several hosts at once, in one function call for each. *)
Command(l) ==
  /\ At("stop") /\ l \in Now.of /\ done[l] < Len(Now.cmds)
  /\ LET c == Now.cmds[done[l] + 1] IN
     CASE c = "kill" -> Kill(l)
       [] c = "dir" -> Copy(l)
       [] c = "root" -> UNCHANGED <<proc, file, saved>>
       [] c = "delete" -> Delete(l)
  /\ done' = [done EXCEPT ![l] = @ + 1]
  /\ UNCHANGED <<script, stage, iperf, flows>>

Stopped ==
  /\ At("stop") /\ \A l \in Now.of : done[l] = Len(Now.cmds)
  /\ done' = [l \in Logs |-> 0]
  /\ Advance
  /\ UNCHANGED <<stage, proc, file, saved, iperf, flows>>

-----------------------------------------------------------------------------
(* iperf servers.                                                          *)

(* iperf_kill_process until ps shows none: but ssh may yet start one. *)
KillServers(S) ==
  /\ \E kept \in SUBSET {s \in S : server[s] = "starting"} :
       server' = [s \in Servers |-> IF s \in S \ kept THEN "none" ELSE server[s]]
  /\ UNCHANGED again

(* One more server is started, as long as netstat shows none. *)
Spawn(s) ==
  /\ server[s] # "up"
  /\ server' = [server EXCEPT ![s] = "starting"]
  /\ again' = [again EXCEPT ![s] = server[s] = "starting"]

Listens(s) ==
  /\ server[s] = "starting"
  /\ server' = [server EXCEPT ![s] = "up"]
  /\ UNCHANGED <<script, stage, logging, again, flows>>

ServeKill ==
  /\ At("serve") /\ stage = "kill"
  /\ KillServers(Now.of) /\ stage' = "listen"
  /\ UNCHANGED <<script, logging, flows>>

ServeSpawn ==
  /\ At("serve") /\ stage = "listen"
  /\ \E s \in Now.of : Spawn(s)
  /\ UNCHANGED <<script, stage, logging, flows>>

ServeUp ==
  /\ At("serve") /\ stage = "listen"
  /\ \A s \in Now.of : server[s] = "up"
  /\ stage' = "kill" /\ Advance
  /\ UNCHANGED <<logging, iperf, flows>>

(* iperf_kill_on_all_testbed. *)
Clear ==
  /\ At("clear")
  /\ KillServers(Servers) /\ Advance
  /\ UNCHANGED <<stage, logging, flows>>

Connected == \A l \in Logs, r \in Runs : proc[l][r] # "launched"

(* The process ids the script waits for include the ssh of the server it   *)
(* started last on each client.                                            *)
WaitServers ==
  /\ At("servers") /\ Connected
  /\ \A c \in Of(mode) : server[<<"tcp", c>>] = "none" \/ again[<<"tcp", c>>]
  /\ Advance
  /\ UNCHANGED <<stage, logging, iperf, flows>>

-----------------------------------------------------------------------------
(* Flows.  Every UDP flow has a tput of its own; the first one starts the  *)
(* server anew, the others assume (-k) that it is up.                      *)

UdpServer == <<"udp", "src">>

(* A bug: no -k, every tput starts the server anew. *)
LaunchAnew ==
  /\ At("flows")
  /\ tput' = [c \in ClientSet |-> IF c \notin UdpFlows(mode) THEN "off" ELSE "kill"]
  /\ flow' = [c \in DOMAIN flow |-> IF c \in TcpFlows(mode) THEN "on" ELSE "off"]
  /\ Advance
  /\ UNCHANGED <<stage, logging, iperf>>

Launch ==
  /\ At("flows")
  /\ tput' = [c \in ClientSet |-> IF c \notin UdpFlows(mode) THEN "off"
                                   ELSE IF c = Clients[mode][1] THEN "kill" ELSE "client"]
  /\ flow' = [c \in DOMAIN flow |-> IF c \in TcpFlows(mode) THEN "on" ELSE "off"]
  /\ Advance
  /\ UNCHANGED <<stage, logging, iperf>>

TputKill(c) ==
  /\ tput[c] = "kill"
  /\ KillServers({UdpServer}) /\ tput' = [tput EXCEPT ![c] = "listen"]
  /\ UNCHANGED <<script, stage, logging, flow>>

TputSpawn(c) ==
  /\ tput[c] = "listen"
  /\ Spawn(UdpServer)
  /\ UNCHANGED <<script, stage, logging, flows>>

TputUp(c) ==
  /\ tput[c] = "listen" /\ server[UdpServer] = "up"
  /\ tput' = [tput EXCEPT ![c] = "client"]
  /\ UNCHANGED <<script, stage, logging, iperf, flow>>

(* run_iperf_client_once: for the time asked for. *)
TputSend(c) ==
  /\ \/ tput[c] = "client" /\ tput' = [tput EXCEPT ![c] = "send"]
     \/ tput[c] = "send" /\ tput' = [tput EXCEPT ![c] = "done"]
  /\ UNCHANGED <<script, stage, logging, iperf, flow>>

FlowEnds(c) ==
  /\ flow[c] = "on"
  /\ flow' = [flow EXCEPT ![c] = "done"]
  /\ UNCHANGED <<script, stage, logging, iperf, tput>>

(* A bug: it waits for the servers as well. *)
WaitForAll ==
  /\ At("wait") /\ Connected
  /\ \A c \in ClientSet : tput[c] \in {"off", "done"}
  /\ \A c \in DOMAIN flow : flow[c] \in {"off", "done"}
  /\ \A s \in Servers : server[s] = "none"
  /\ tput' = [c \in ClientSet |-> "off"] /\ flow' = [c \in DOMAIN flow |-> "off"]
  /\ Advance
  /\ UNCHANGED <<stage, logging, iperf>>

Wait ==
  /\ At("wait") /\ Connected
  /\ \A c \in ClientSet : tput[c] \in {"off", "done"}
  /\ \A c \in DOMAIN flow : flow[c] \in {"off", "done"}
  /\ tput' = [c \in ClientSet |-> "off"] /\ flow' = [c \in DOMAIN flow |-> "off"]
  /\ Advance
  /\ UNCHANGED <<stage, logging, iperf>>

-----------------------------------------------------------------------------
Script ==
  \/ StartLogs \/ (\E l \in Logs : Command(l)) \/ Stopped
  \/ ServeKill \/ ServeSpawn \/ ServeUp \/ Clear \/ WaitServers
  \/ Launch \/ Wait
Logger(l, r) == Arrive(l, r) \/ DrainKmsg(l, r)
Tput(c) == TputKill(c) \/ TputSpawn(c) \/ TputUp(c) \/ TputSend(c)

Next ==
  \/ Script
  \/ \E l \in Logs, r \in Runs : Logger(l, r)
  \/ \E s \in Servers : Listens(s)
  \/ \E c \in ClientSet : Tput(c)
  \/ \E c \in DOMAIN flow : FlowEnds(c)

Spec == Init /\ [][Next]_vars

(* The script, and what runs in the background, goes on; ssh connects, a    *)
(* server that was started listens, a flow ends when its time is over.     *)
FairSpec ==
  /\ Spec /\ WF_vars(Script)
  /\ \A l \in Logs, r \in Runs : WF_vars(Logger(l, r))
  /\ \A s \in Servers : WF_vars(Listens(s))
  /\ \A c \in ClientSet : WF_vars(Tput(c))
  /\ \A c \in ClientSet \cup {TcpClient} : WF_vars(FlowEnds(c))

-----------------------------------------------------------------------------
(* What must hold.                                                         *)

(* Two readers of /proc/kmsg or of the log of tcp_probe would each get a    *)
(* part of it: no logger of one run lives into the next.                   *)
OneReader ==
  \A l \in Logs : Cardinality({r \in Runs : proc[l][r] \in {"drain", "reads"}}) <= 1

(* What is in the directory of a run comes from that run; a test from the  *)
(* clients saves all its captures and tcp_probe logs.                      *)
OwnLogs ==
  \A r \in Runs, l \in Logs :
    /\ saved[r][l] \in {0, r}
    /\ r < run /\ mode = "clients" /\ (\E i \in DOMAIN Plan(mode) :
         Plan(mode)[i].do = "start" /\ l \in Plan(mode)[i].of) /\ l[1] # "kmsg"
       => saved[r][l] = r

(* A test that is over leaves the hosts as it found them: no logger that   *)
(* reads, and no log file.                                                 *)
HostsClean ==
  Over => \A l \in Logs : /\ file[l] = NoFile
                          /\ \A r \in Runs : proc[l][r] \in {"none", "over"}

(* TCP flows have a server for as long as they last, whatever is killed    *)
(* around them; UDP flows have one from the moment the first tput has      *)
(* found its own to listen.                                                *)
FlowsHeard ==
  /\ \A c \in DOMAIN flow : flow[c] = "on" => server[<<"tcp", "src">>] = "up"
  /\ (\E c \in ClientSet : tput[c] = "send") /\ tput[Clients[mode][1]] \in {"client", "send", "done"}
     => server[UdpServer] = "up"

(* A test ends: its loops that kill and start servers do, and it waits for *)
(* nothing that goes on for ever, but for the servers it started on the    *)
(* clients itself (run_iperf_server_on_all_clients).                       *)
TestEnds == <>(Over \/ At("servers"))

(* "-d directory for results": after a run its directory has every capture *)
(* and tcp_probe log the run has made.                                     *)
ResultsInDirectory ==
  \A r \in Runs, i \in DOMAIN Plan(mode) :
    r < run /\ Plan(mode)[i].do = "start"
    => \A l \in Plan(mode)[i].of : l[1] # "kmsg" => saved[r][l] = r
=============================================================================
