# Amalia in TLA+

Amalia is a wireless TCP testbed: shell scripts that run experiments on a set
of machines, a patched `tcp_probe` kernel module that samples TCP connections,
an instrumented MadWifi driver that logs what happens to every frame in its
transmit queues, on top of MadWifi's 802.11 layer, and tools that compute
delays from that log. This directory holds TLA+ models of the parts of it that
keep state under concurrency or compute what is hard to test, the TLC runs that
check them, and proofs of their main properties.

Paths are relative to `src/trunk`. In the model comments, "A bug:" marks an
operator that no specification uses; it is a plausible mistake in the operator
after it, and shows that a property is sensitive to that mistake.

## 1. Inventory

| part | state | operations | meets |
|---|---|---|---|
| `tcp_probe.c` (`kernels/patches/2.6.25-rc8/net/ipv4`) | ring of records with `head`, `tail`; `lastcwnd`; wait queue | receive hook, open, read, close, load, unload | the TCP stack (jprobe on every CPU), reader processes |
| MadWifi transmit (`kernels/madwifi/madwifi-0.9.4/ath/if_ath.c`) | buffer pool `sc_txbuf`, hardware queues, `sc_devstopped`, `sc_reapcount`, node references | `ath_hardstart`, `ath_mgtstart`, tasklet, `ath_reset` | the kernel's transmit queue, the 802.11 layer, the hardware, the kernel log |
| lock and results (`testbed/lib/io`) | the lock file, the results directories | lock, release, check and make a directory | every script |
| `testbed/bin/tcp.test`, `test.network.share` | options, results directory, loggers and flows on remote hosts | main, start and stop logging, run flows, plot | lock, remote, tcp, iperf, tcpdump, router, wireless |
| `testbed/bin/hosts.alive`, `cpkrn2tftpdir`, `release_testbed_lock` | lock | check hosts; install a kernel; force the lock | lock, remote |
| `testbed/lib/remote`, `lib/tcp`, `lib/iperf`, `lib/tcpdump` | remote processes and log files | load a module, start, kill and copy loggers and servers | ssh to the hosts |
| `process.delays.c` (`kernels/madwifi/util`) | bins, averages, wrap count | one pass over the driver's log | reads what the driver wrote |
| `lib/madwifi`, `lib/misc/queue_stats.pl` | - | delays, waiting times, queue length, histogram and its busiest window | the same log |
| `lib/router`, `lib/wireless` | none of their own | ipfw, iwconfig and sysctl commands | ssh |
| `lib/configuration`, `lib/opts`, `lib/ping`, `lib/plots`, `cgi-bin` | shell variables | straight-line code, text filters | - |
| `tcp_input.c` patch | `raw_rtt` | one assignment | `tcp_probe` prints it |
| power save and node table of the access point (`net80211/ieee80211_power.c`, `_node.c`, `_output.c`, `_input.c`) | node table with references, saved queues, TIM and its counter, association ids, count of sleepers | output path, poll, sleep, wake, association, leaving, inactivity timer | the driver's transmit path, the beacon, the receive tasklet, ioctls |
| station (`net80211/ieee80211_proto.c`, `_scan.c`, `_scan_sta.c`) | `iv_state`, watchdog timer, scan, two tasklets, the failure count of the access point | scan, authenticate, associate, run, time-outs, beacon miss, ioctls | the access point over a radio that loses frames |
| rest of net80211, `ath_rate`, HAL, madwifi-r3579 | - | third-party code carried along | the driver |

How they interact: a script takes the lock, configures the hosts over ssh, loads
`tcp_probe`, starts `cat /proc/net/tcpprobe` and `cat /proc/kmsg` on them, runs
flows, and copies the logs into its results directory. The data of an experiment
is therefore only as good as the ring of `tcp_probe` (records lost, doubled or out
of order), the log lines of the transmit tasklet (right frame, right numbers), and
the lock (nobody else on the air). Between the machines, the stations of the
testbed must stay associated while interfaces are reset and channels set, and the
access point's power save holds frames back for sleeping stations.

What is hard, and what makes each part correct:

- **tcp_probe**: the hook runs on several CPUs, readers race, the test of the
  wait loop is outside the lock, indices are unsigned and wrap. Correct: records
  come out once, in order, are dropped only when the log is full; a reader does
  not sleep on a log that has records.
- **transmit path**: process context, softirq, interrupt and watchdog move the
  same buffers between lists under different locks, with failures half way
  through a packet; the queue is stopped and restarted from different places.
  Correct: no buffer lost or duplicated, no node freed under a queued frame, the
  video queue bounded (in packets), a stopped queue restarted, every frame reaped, each log
  line about its own frame.
- **lock**: a file tested by one command and made by another; scripts that die;
  a tool that removes it by force. Correct: one script at a time, the file goes
  when its script ends, a results directory belongs to one run.
- **orchestration**: remote processes started in the background, killed and copied
  without waiting; servers that are killed and started in loops. Correct: each
  directory has logs of its own run, no logger survives it, flows have a server,
  the test ends.
- **power save**: the output path, the receive tasklet, a timer and ioctls meet at a
  node, its queue and the beacon's bitmap, under three locks or none. Correct: the
  bitmap, its counter, the queues and the node references agree; a saved frame does
  not wait for ever; ids are not shared.
- **station**: handlers test the state, and change it later; frames are lost, answers
  late, scans cancelled by others. Correct: the station ends joined, with the id the
  access point has for it.
- **delays**: wrapping stamps, sorting ties, sliding windows. Correct: a wrong number is
  recognisable, or wrong in a known direction.

`PROJECT.json` lists each hazard at its line with the properties that watch it.

## 2. Plan

Done, each with its MC module: `ProbeLog`, `TcpProbe`, `AthTx`, `TestbedLock`,
`TestRun`, `PowerSave`, `Join`, `Delays`; proofs for all of them.
`TestRun` is what a script of `TestbedLock` does between the lock and its release
(its step `Work`), and is kept apart because the lock makes it run alone.
`PowerSave` and `Join` are the two ends of an association; the access point of
`Join` is the part of `PowerSave`'s node that the station can tell.

To come, most important first:

1. `AthTx`, further: `axq_link` and the hardware's walk of the descriptors; the
   multicast queue and the CAB; DFS wait; the receive tasklet.
2. U-APSD and multicast buffering in `PowerSave`; 802.1X and keys in `Join`.
3. The bins and averages of `process.delays.c`, the delay-bandwidth product of
   `lib/router`.
4. A refinement of `TestbedLock` to an abstract mutex.

## 3. The modules

### ProbeLog and TcpProbe

`ProbeLog` is the promise: a bounded FIFO of samples, emptied by opening the file
or by a reload with no file open, each sample going to one reader. `TcpProbe` is
`tcp_probe.c`. `head`, `tail`, `log`, `lastcwnd` are the code's; a record is the
packet it was made from.

Per CPU the hook is three steps, as in the code: `HookTest` (lines 104-105, no
lock), `HookLog` (107-135, under the lock), `HookWake` (137, no lock). Per reader:
`Open`, `Read`, then the wait loop as `Look` and `Judge` - `wait_event` joins the
wait queue and loads `head` and `tail` one after the other in either order -
`RaceLost`, `TakeRecord` or `TooWide` under the lock, and `Copy` or `CopyFault`
outside it. `woken` holds the readers woken between joining and deciding.
`SignalWakes` and `Interrupted` are signals. `Unload` needs no open file and no
running hook; `Load` starts from fresh data with a new `full` parameter.

The index arithmetic keeps its width: `UsedOf` subtracts modulo `WordMod`.
Left out: packets that fail the port or window test (they leave no trace), the
text of a record except its width, the order of stores to different fields, and
`bufsize = 0`.

The refinement maps `queue` to the records from `tail` round to `head`, `got` to
the record a reader has taken and not yet copied, `opened` to the open files.

### AthTx

`list` maps each list to its buffers: the free pool, the hardware queues, and the
buffers in the hands of `ath_hardstart` (`bf_head`), `ath_mgtstart`, the tasklet and
`ath_reset`. The four run concurrently; each critical section, and each unlocked
read that matters (`CheckDepth`), is one step.

- `ath_hardstart`: `Xmit`, `CheckDepth` (`Retry` after NETDEV_TX_BUSY), `GetBuf`,
  `Encap`, `AllocFrags` or `AllocShort`, `StartFrame` for each frame, `Started`, or
  `StartFails`, `HardstartFail`. `StartNull` is the oops on a null buffer, after
  which nothing moves: this is why these cfgs say `CHECK_DEADLOCK FALSE`.
- `ath_mgtstart`: `MgtStart`, `MgtSend`, `MgtFails`. Its frames (`Mgmts`) are management
  frames, which go to VO or, to a node without QoS, to BE, and null data frames,
  which go to VI; none of them looks at the depth of the queue it joins.
- hardware (external): `HwDone` finishes the next frame of a queue and interrupts.
  Between the stop of its DMA and the end of a reset it finishes nothing.
- tasklet: `TxStart`, `TxQueue` per queue, `TxReap`, `TxFree`, `TxPut`, `TxWake`.
- `ath_reset`: `ResetStart`, `Drain`, `DrainFree`, `ResetWake`. What was finished before
  the reset stays finished (`done`: the status is in the descriptors), and the tasklet
  is not blocked: it goes on reaping while `Drain` takes heads of the same queue, both
  under the queue's lock, and either may free a finished frame.

`refs` counts the references to the one node the frames are for; it is an integer,
so a double release would show. `MaxRefs` bounds only new packets. `StartErrors`
says which calls of `ath_tx_start` may fail.

Left out: the multicast and U-APSD queues, XR, raw frames, DFS wait, fast frames
(not compiled), `axq_link` and descriptor contents, frames for several nodes.

### TestbedLock

One process per script: `tcp.test` and `test.network.share` (`Recorders`),
`hosts.alive` (`Checkers`), `cpkrn2tftpdir` (`Installers`), `release_testbed_lock`
(`Releasers`). `pc` is the next command. `[[ -f ]]` and `touch` are `TestLock` and
`Touch`; `[[ -f ]]` and `rm` are `TestRelease` and `Rm`. `LaunchRecorder` is the
directory check, `Backup` the `mkdir -p`, `Quit`, `QuitTest` and `QuitRm` the
`error && release && exit` of `hosts.alive` - whose failed `rm` lets the script go on.
`Die` is any exit or signal, at any command: no script has a trap.

`breached` and `died` are history variables; no guard reads them. `breached` is set
at the two root causes of an overlap (a `touch` on a file that is there, a forced
release under a script at work), `died` when a script stops while it has the
testbed. All scripts run as one user on one machine; the `-p` option of `tcp.test`,
which only draws plots and ignores the lock, is not modelled.

### TestRun

The work of `tcp.test` and `test.network.share`, from `run_test` down. A test is a
plan, a sequence of commands: `Udp`, `FromClients`, `FromSrc` and `Share` are the four
functions that run one, and `run` counts the times of `-t`. A logger is launched
by an ssh in the background (`StartLogs`), arrives when it likes (`DrainKmsg`,
`Arrive`), and is killed, copied and deleted by `Command`, host by host as
`io_do_for_all_hosts` does. `Save`, `SaveAway` and `SaveTwice` are what the three ways
of calling the stop functions amount to: with a directory, without one (the copy
goes to `/`), and both. `file` and `saved` hold the run a log was made in, which is all
the properties ask of it. A flow of `FromSrc` never runs: the script calls a
function by a name that is not defined, and goes on.

iperf servers are killed until `ps` shows none (`KillServers`; an ssh may still bring
one) and started until `netstat` shows one (`ServeSpawn`, `Listens`, `ServeUp`). `tput` is a
script of its own: the first one starts the UDP server, the others are given `-k`.
`WaitServers` is `wait` for the ssh of the servers the script started itself.

One assumption on time, `Connected`: an ssh that was started before a flow has
connected when the flow is over. The kernel logs may be missing from a directory
(`OwnLogs` excepts them): their drain takes a second of its own.

### PowerSave

A node has a place (`free` memory, in the `table`, or `gone` from it while referred to),
an association id, the station's power state, the saved frames with their ages, a
reference count, and the frames in the driver. The actors: `ieee80211_hardstart`
(`OutFind`, `OutTest`, `OutSave`, `OutTim`), the driver that has sent a frame (`DriverDone`,
the free of `AthTx`'s tasklet), the receive tasklet (`Auth`, `Find`, `Poll`, `Sleep...`,
`Wake...`, `Flush`, `Assoc`, `Put`), the inactivity timer (`Timer...`, which holds the lock
of the node table), and ioctls. Handlers that make a station leave go through
`Leave`, `Unlist`, `Cleanup...`, `Drain`, `Drained`, `Forget`, `Reclaim`. Each section under a
lock is a step and so is each lone access outside; `iv_ps_sta`, which has no lock,
is read in one step and written in another. One lone access has no step of its own:
`Assoc` writes `ni_associd` (ieee80211_node.c:1818) together with the locked `AID_SET`
that follows it at once.

Three defects of the code destroy the state they meet, and what follows from them
would be noise: `fault` records the first, and the model stops. `freed`: `set_tim` at the
end of `ieee80211_pwrsave` uses a node whose last reference went with the frame it
has just put on the queue. `twice`: two handlers leave one node, and its table
reference is dropped twice. `lost`: an update of `iv_ps_sta` is overwritten. All three
need two contexts at once; the properties hold for every state up to there, and
`PsCounts` says that nothing else loses count. The code takes its locks as for
several CPUs, and the model follows it; the only kernel configuration in the
repository (`kernels/config`, a Soekris board) has neither SMP nor preemption, where
only softirqs interleave with processes. The defects that need no second context
are in the model in any case: the reference of a frame that finds the queue full or
is discarded by age is never dropped (`OutSave`, `TimerVisit`), and `TimOfMember`.

`skb_age` is an unsigned field: `Saved` subtracts modulo `AgeMod`. The listen interval is
an element of `Lifetimes`, and every association sets it anew (ieee80211_input.c:3336),
also that of a station which is associated already and has frames saved. Then the
age of the next frame, its own less the tail's, may be negative, and the frame is kept
for up to the largest age of the field, 65535 seconds, where the comment
(ieee80211_power.c:230) speaks of four listen intervals; the code itself asks
"handle overflow?" (line 235). `AgedOut` bounds the passes a frame sees in both cases: half a
listen interval for each place of the queue if there is one listen interval only, and
the largest age for each place if there are several. Left out: U-APSD, multicast frames
(bit 0 of the TIM), WDS, XR, the frames' contents.

### Join

One station and one access point. `state` is `iv_state`; `ieee80211_new_state` holds a lock
and is one step (`NewState`, with one operator per new state: `ToInit`, `ToScan`, `ToAuth`,
`ToAssoc`, `ToRun`). A handler that asks for a transition tests the state earlier,
without that lock: its choice is in `call` until it is made. A scan is `pick` (it will
choose an access point), `look` (it will not: the user's, or a background scan) or
`cancelled` (until the scan timer sees it). `st_actiontq` and `iv_stajoin1tq`, the two
tasklets between a choice and its transition, are `tasks`.

The access point keeps what the station can find out: no node, an authenticated
node, or an associated one with its id. It forgets by restarting or by time-out;
it tells a station it does not know so when that sends data (`ApData`).

`defect` is a history variable that no guard reads. It names the four places where
the code stops moving: a transition to SCAN meets a scan that selects nothing
(`overtaken`), the watchdog fires during one and is not armed again (`ignored`), a
user's scan cancels the station's own (`stolen`), a request finds no memory (`unsent`).

Assumed: one network, open authentication, automatic roaming; a cancelled scan ends
within a tick, so before a watchdog of seconds; an interface is not brought up, and
the access point does not restart or time out, within the instant a handler is
between its test and its transition; ioctls are serialised by the kernel's rtnl
lock; the station has traffic. Disturbances (losses, early watchdogs, restarts,
time-outs, ioctls, background scans, missed beacons, failed allocations, rejections)
are bounded by `MaxTrouble`, frames in flight by `MaxFrames`. `sta_assoc_success` would
reset the failure count, but the code that does is compiled out, and so it is here.

`Up` waits until what the station sent before it went down is off the air: bringing an
interface up takes longer than a frame. A transition to RUN that was chosen before
the interface went down, and comes after, leaves it down in RUN; brought up, it
then associates anew (`ToAssoc`). Both matter to `AidsAgree` only with three frames in flight,
an old goodbye and two requests, so that is what the run allows.

### Delays

The driver stamps a frame when it joins the queue and when it is reaped; `queue` and
`log` hold true times, and the tools see `Stamp`, which wraps at `Clock` (2^32
microseconds in the driver `process.delays` was written for, 2^16 seconds, the
seconds being masked, in the present one). Each function of the tools is an
operator on the log: `MacDelay` and `QueueDelay`, `Occupancy`, `Packets`, `Boundary` and `Zoom` of
`lib/madwifi`, whose shell arithmetic has a sign, and `ServiceDelay`, `Wraps` and `RunTime` of
`process.delays.c`, whose numbers are unsigned. The properties compare them with the
true times, at every prefix of every log, of tests of any length (`Span`).

Two things the shell does to a stamp are part of it:

- The driver prints `%lu%06ld`, so that the stamps of second 0 begin with zeros, and
  bash reads them to base 8. `Second` is the number of those stamps, `Octal` what bash
  makes of each (-1: it has an 8 or a 9, and is an error), about which the model
  assumes only that it is not above the decimal value and keeps the order. `Read` and
  `Readable` are a stamp as bash takes it. An error in `$(( ))` ends the loop
  (`Computed` are the frames before it); in `[[ -gt ]]` it is a comparison that fails
  (`Greater`), after which the queue delay without arithmetic is 0. So the delays of the
  second after a wrap (and of a frame reaped after it whose predecessor is in it) can
  be too small or too large and look right: `RightOrNegative` says that this is by less
  than a second, and happens nowhere else. `sort -n` and `process.delays` read decimals.
- `sort -n` compares the whole lines when numbers are equal, and the locale decides
  whether "++" comes before "--": the C locale does, others need not, and the scripts
  set none. `Occupancy` takes the order as a parameter, and `OccupancyTrue` is about both:
  the frames reaped in the very unit in which a frame was queued may be counted
  in it, or counted as gone.

`OneTurn` is the premise for a single frame: it was queued, and the frame before it
reaped, less than a turn of the clock before it was reaped. A test may last many
turns. The run time of a longer test is another matter: `last_wrap_time` (line 157)
is set to the first small stamp after a wrap and stays there, so that a later wrap is
noticed only by a smaller stamp. `RunTimeRight` says that the run time is never too
long, and right but for one unit in tests of up to one turn; `WrapsWatched` is what the
comment asks for, and section 4 has how it fails.

## 4. The runs

| run | instance | checks |
|---|---|---|
| MCTcpProbe | 1 CPU, 2 readers, 2 packets of different widths, 4 slots, 4-bit words, read length 2 | `TypeOK`, `NoLostWakeup`, `StoresUnlessFull`, `AbsSpec` |
| MCTcpProbeLive | 2 CPUs, 2 readers, 1 packet, 4 slots, 3-bit words, fair | `NoLostWakeup`, `ReaderServed` |
| MCTcpProbeSpace | 1 CPU, 1 reader, length 3 | violation of `FitsInSpaceLeft` |
| MCAthTx | 3 buffers, a packet of two fragments, a broadcast packet, a management frame to a node without QoS (BE), a null data frame (VI), limit 0, at most 3 references at a send, failures of fragments and management frames | `TypeOK`, `BuffersConserved`, `RefsCover`, `DepthBounded` |
| MCAthTxLive | 2 buffers, unfragmented packets, a management frame to a node with QoS (VO), a null data frame, restart threshold 0, fair | `QueueRestarts`, `QueuesDrain` |
| MCTestbedLock | 2 recorders with 1 directory, 1 checker, 1 installer, 1 releaser, fair | `TypeOK`, `ExclusionUnlessBreached`, `NoLeakUnlessDied`, `LockFreed` |
| MCTestRun | all four kinds of test, twice in a row; 1 client for `FromClients`, 2 otherwise, fair | `TypeOK`, `OneReader`, `OwnLogs`, `HostsClean`, `FlowsHeard`, `TestEnds` |
| MCPowerSave | 2 nodes, 1 association id, 2 saved frames, lifetimes of 1 and 2 passes, ages below 4 | `TypeOK`, `PendingCounts`, `RefsCover`, `PsCounts`, `AgedOut`, `AidsUnique` |
| MCPowerSaveLive | 1 node, 3 saved frames, lifetime of 2 passes, 1 ioctl, fair | `AgedOut`, `QueuesMove` |
| MCPowerSaveTim | 1 node | violation of `TimOfMember` |
| MCJoin | 2 ids, 3 frames each way, 2 failures, 4 disturbances, fair | `TypeOK`, `StrandedByDefect`, `AidsAgree`, `Settles` |
| MCDelays | clock of 5, of which 3 stamps are second 0, tests of up to 6, 4 frames, windows of 2 lines, padding of 1 | `TypeOK`, `RightOrNegative`, `NeverTooFast`, `OccupancyTrue`, `BusiestWindow`, `RunTimeRight` |

Why the bounds are enough. Four slots hold zero to three records, so the indices
wrap, the ring fills, and `head` is both above and below `tail`; two packets tell
loss, duplication and order apart; two readers are the race the code's comment
names. A second CPU matters only for the order of wake-ups, and has the run that is
about them. In `AthTx` three buffers are enough to run out half way through a
fragmented packet, with one buffer in somebody else's hands; every actor exists
once in the code (the kernel serialises `ath_hardstart`, a tasklet runs once at a
time); management frames are started one at a time here. A finished frame and one
behind it are what the tasklet and the drain of a reset race for. The limits are
small so that they are reached. Two recorders with one directory are what a
conflict over a directory needs, and five scripts of all kinds cover any two
meeting a third. The theorems of section 5 remove these bounds from most safety
properties.

`TestRun` needs two runs in a row for one to reach into the next, and two clients
for a second UDP flow beside the first; a third host is the TCP client. In
`PowerSave` two stations over one id meet every conflict over ids and over the
counters; two saved frames make a head, a tail and an overflow, two lifetimes a
difference of ages below zero, and the run with
three adds a frame whose age is a difference to another's difference. In `Join` one
disturbance reaches each defect and two combine them with a loss; four let a
station that has settled be disturbed again. Two ids tell an old association from a
new one. In `Delays` a test of one turn and a unit over a clock of five has two wraps, and
four frames can be before, between, across and after them, with several in one unit
of time; three stamps of second 0 are one that octal reading leaves alone, one that it
refuses and one that it makes smaller; histograms have more lines than a window.

Symmetry (readers, buffers) is used in safety runs only.

**What the code says and does not do.** Two of the documented claims the models
refute are runs (`findings` in `PROJECT.json` quote them): a read can return more than
its length (`FitsInSpaceLeft`), and the TIM keeps the bit of a station that has left
(`TimOfMember`). The others are stated in the modules and are refuted by TLC in a
few seconds on a changed copy of a run's cfg:

| claim | where it is stated | definition | behaviour that breaks it |
|---|---|---|---|
| the size of the log is free, and it drops only "if log fills" | `tcp_probe.c:43`, `:108` | `StoresUnlessFull` with `BufSize` 3, `WordMod` 16 | head wraps below tail: the used count is wrong, a packet is dropped with room left |
| a null transmit buffer "should not happen" | `if_ath.c:2559` | `BufferThere` with 2 buffers, broadcast packets | the last buffer stops the queue, the tasklet wakes it without having reaped, the next packet finds no buffer and is dereferenced |
| `TAIL_DROP_COUNT` is the "maximum number of queued frames allowed" | `if_athvar.h:217` | `WithinTailDrop` with a limit of 1 | a packet is accepted when the queue holds exactly that many, and null data frames join without the test |
| the sequence numbers in the log line are the frame's | `if_ath.c:7422` | `OwnSequence` with TCP frames and frames without transport header | the variables keep the last frame's values |
| a second user is told to wait | `lib/io:166` | `MutualExclusion` | both scripts test before either touches the file |
| "I will not write on existing directory." | `lib/io:122` | `ResultsOfOneRun` | both tests check before either makes the directory |
| "-d directory for results" | `tcp.test:43` | `ResultsInDirectory` with mode `udp` | `stop_logging` copies to `/` and deletes |
| "trigger a new scan unless we're in manual roaming mode" | `ieee80211_proto.c:1349` | `ScanTriggered` | a scan that only looks is in progress, and none is started |
| "find the 640 (32*20 usec) slots in delay file that have the most packets" | `lib/madwifi:234` | `FindsBusiest` | the first window has the most packets: `max_last_line` is set only when a later one has more, nothing is printed, and the plot shows the first lines of the padding |
| "Need to watch for wrap around time for long runs" | `process.delays.c:156` | `WrapsWatched` | frames queued at the start and one turn later: the stamp is not below the first, and a whole turn is lost |
| "We force it down using the state machine" | `ieee80211_proto.c:1037` | `StaysDown` | the join tasklet, or a handler that had chosen, makes its transition after it |

**Fairness.** `TcpProbe`: a hook that has started runs to its end and a runnable
process in `read` is scheduled; no packet, read, signal or close is forced.
`AthTx`: a scheduled tasklet runs and a reset finishes (softirqs and kernel
code that waits for nobody), and the hardware finishes the frames it is given, as
the watchdog assumes; nobody is forced to send. `TestbedLock`: a script that runs
takes its next command, for no command waits for another script; launching and
dying are not forced. `TestRun`: the script and what it started in the background go on,
a server that was started listens, a flow ends when its time is over. `PowerSave`:
handlers that have begun go on, and the timer visits every node of the table; both
get the lock of the node table in time, though it is also taken in between (strong
fairness: the timer holds it for a moment in every `IEEE80211_INACT_WAIT` seconds);
nobody has to send, poll, sleep or leave, and the driver need not finish a frame.
`Join`: tasklets, timers, the scan and the radio go on, an ioctl goes through, and the
station sends; no disturbance is forced, so that in the end none happens, and
`Settles` still asks the station to find out on its own. `QueuesDrain` asks for quiet
senders because the tasklet stays with a queue as long as finished frames appear, so
under endless load one queue can hold up the others.

## 5. Proofs

| theorem | property | assumption |
|---|---|---|
| `TcpProbe_proofs!TypeCorrect` | `TypeOK` | - |
| `TcpProbe_proofs!WakeUpsAreNotLost` | `NoLostWakeup` | `SizeDividesWord` |
| `TcpProbe_proofs!RingImplementsLog` | `AbsSpec` | `SizeDividesWord` |
| `TcpProbe_proofs!DropsOnlyWhenFull` | `StoresUnlessFull` | `SizeDividesWord` |
| `AthTx_proofs!TypeCorrect` | `TypeOK` | - |
| `AthTx_proofs!NoBufferLost` | `BuffersConserved` | `"single" \notin StartErrors` |
| `AthTx_proofs!NodeOutlivesFrames` | `RefsCover` | `"single" \notin StartErrors` |
| `AthTx_proofs!VideoQueueBounded` | `DepthBounded` | `"single" \notin StartErrors` |
| `TestbedLock_proofs!TypeCorrect` | `TypeOK` | - |
| `TestbedLock_proofs!LockExcludes` | `ExclusionUnlessBreached` | - |
| `TestbedLock_proofs!LockHasOwner` | `NoLeakUnlessDied` | - |
| `PowerSave_proofs!TypeCorrect` | `TypeOK` | - |
| `PowerSave_proofs!PendingFramesCounted` | `PendingCounts` | - |
| `PowerSave_proofs!AidsNotShared` | `AidsUnique` | - |
| `PowerSave_proofs!SleepersCounted` | `PsCounts` | - |
| `PowerSave_proofs!ReferencesCover` | `RefsCover` | - |
| `PowerSave_proofs!FramesAgeOut` | `AgedOut` | - |
| `TestRun_proofs!TypeCorrect` | `TypeOK` | - |
| `TestRun_proofs!LogsOfTheirRun` | `OwnLogs` | - |
| `TestRun_proofs!ReadersAlone` | `OneReader` | - |
| `TestRun_proofs!HostsLeftClean` | `HostsClean` | - |
| `TestRun_proofs!FlowsHaveServers` | `FlowsHeard` | - |
| `Join_proofs!TypeCorrect` | `TypeOK` | - |
| `Join_proofs!StrandedOnlyByDefect` | `StrandedByDefect` | - |
| `Join_proofs!AidsOfBothAgree` | `AidsAgree` | - |
| `Delays_proofs!TypeCorrect` | `TypeOK` | - |
| `Delays_proofs!DelaysRight` | `RightOrNegative` | - |
| `Delays_proofs!DelaysNotUnderstated` | `NeverTooFast` | - |
| `Delays_proofs!OccupancyRight` | `OccupancyTrue` | - |
| `Delays_proofs!RunTimeShort` | `RunTimeRight` | - |
| `Delays_proofs!WindowIsBusiest` | `BusiestWindow` | - |

All of them hold for every value of the constants that meets the named ASSUMEs of
the modules. The two further assumptions in the table are real limits of the code: without
the first a log of three slots is the counterexample (section 4); `"single"` is the failing
start of an unfragmented frame, whose buffer the code inserts twice (if_ath.c:2848).

The argument in each case:

- **TcpProbe**. `UsedIsHeld` is the arithmetic: if `BufSize` divides `WordMod`, the
  wrapped difference modulo `BufSize` is the number of records held. `TypeInv` adds
  that a hook past its test has a packet. `NoLostWakeup` is not inductive: a reader
  may have loaded one index long ago. `WakeInv` adds what a test in progress still
  knows: unless some hook is about to wake everybody, a reader that has not been
  woken and has loaded `head` has the current one, and a `tail` it loaded differs
  from `head` if the ring has records. For the refinement, `StoreAppends` and
  `TakeRemovesHead` say what the two critical sections do to the mapped queue, and
  `Pinned` (an open file keeps the module loaded) why a reload is one of the abstract
  log's.
- **AthTx**. `IInv` = `TypeOK` and `Shape`: how many buffers each actor has in hand at
  each of its steps, and that the tasklet is at a queue whenever it reaps. `Movements`
  names the lists between which each step moves buffers, and `TransferConserves`
  and its companions show that moving, giving back and rotating conserve them.
  `RefsCover` follows by counting. That finished frames are on their queue (`TypeOK`)
  survives the race of tasklet and drain because whoever takes a head off counts it
  off as well. `DepthInv` adds that a packet past the tail drop
  found the queue short, so that its frames still to start are within the bound; it
  counts packets only, and needs `BuffersConserved`, so that giving a buffer another
  frame does not touch one that is counted.
- **TestbedLock**. `ExclusionUnlessBreached` and `NoLeakUnlessDied` are inductive
  together with the types and the kinds of scripts: a second `touch` finds the file
  there, and that is the first root cause.

- **PowerSave**. `TypeInv` adds to the types that a handler at work has a node and that
  the lock of the table is the timer's. `PendingCounts` is inductive with it: every change
  of the bitmap goes through `SetTim`, which moves the counter exactly when the bit
  changes (`SetTimCounts`). For `AidsUnique` the bitmap of ids must cover the ids in
  use (`AidInv`); the delicate steps are the two that take an id from a node, `Unlist`
  and `Forget`, and the last release, which clears the bit of an id nobody else has.
  `PsCounts` goes by cardinalities: a handler whose value is still current adds or
  removes one station (`SetPowerPs`), the last release takes a sleeping one away
  (`ReleasePs`). `RefsCover` is not inductive: `RefInv` adds that a free node has no
  references (`FreeInv`), that a node which is being left, or which the timer looks at, is in the
  table (`HoldInv`), and that only one handler leaves it (`AloneInv`). Then a
  table entry and any other user make two references, so that no release frees a node of the
  table (`InUse`); `RefShift` balances the books of each step, what it does to the
  count against what it does to frames, handlers and output call. `AloneInv` is what
  the second leave, one of the defects that end a run, would break.
  `AgedOut` needs a budget for the whole queue (`Budgeted`): the passes a frame has seen
  and those the frames up to it still take are within the bound, and so is what any stretch
  of neighbours takes. Ageing moves one pass from the second to the first
  (`AgedBudget`), handing the head over only shortens waits (`TailBudget`), and a new frame
  fits because, with one listen interval, it and the tail together take one listen
  interval (`SavedBudget`); that is where the half in the bound comes from.
- **TestRun**. What the four plans have in common is `Planned`: loggers and servers are
  started before the one command that waits (`Barrier`), loggers are stopped after it, each
  that is started is stopped, and the TCP server is started last. `AllPlanned` proves it of
  the sequences the scripts spell out, once and for all (for a test from the source, of any
  number of clients). The rest never looks into a plan. `LInv` says for each log where its
  logger, its file and its copy stand, by the commands done so far: nothing before the
  start, no reader after the kill, no file after the last command, no ssh on its way
  after the barrier, and (`InvKept`) always one place where the capture of a test from the clients
  is. `FInv` does the same for flows and servers: flows run only at the barrier, by
  which time nothing starts or kills the TCP server.
- **Join**. `StrandedByDefect` needs `InvScan` and `InvInit`: in SCAN a scan that selects, or
  a tasklet after one, is at work unless a defect is on record - a late transition
  alone is not enough, since one to ASSOC that finds SCAN sends nothing - and a
  station in INIT is down. The lemma `NewStateMotion` says for each new state what it
  leaves in motion; `StepMotion` goes through the actions. `AidsAgree` needs `AInv`: an id
  on its way to the station is the access point's (`InvResp`), and a station about to
  be in RUN, or in RUN with requests of its own still on their way, has not been
  forgotten (`InvHeld`), so that no second id can be waiting for it.
- **Delays**. `Ordered` says that the log is in order; `StampOf` and `Turns` make a stamp the
  time less a number of turns, and `WithinTurn` says that two times less than a turn
  apart differ by none or one, after which the properties of a single frame are a
  finite case distinction on which of its times lie beyond a wrap. `Decimal` does
  this for the numbers as printed, and `ReadOrder` carries comparisons over to what bash
  reads. For `OccupancyTrue`, stamps of one period are ordered as the times
  (`SamePeriod`), frames are reaped in the order in which they were queued (`InOrder`), the
  n frames a new one met are the last n before it (`MetTrue`), and `AboutFirst` does both
  orders of equal stamps. `WrapsCounted` bounds the counter by the wraps there were, and makes
  it exact within one turn. The sums and the scan are recursive functions over the log: `Induct` is
  induction on a concrete set, by the least counterexample (the library's own induction
  theorem takes an operator, which the prover cannot instantiate), and `WindowSlides` says
  what one line of the scan does to the window.

Only model-checked: the liveness properties (`ReaderServed`, `QueueRestarts`,
`QueuesDrain`, `LockFreed`, `TestEnds`, `QueuesMove`, `Settles`), since the prover handles
neither fairness nor ENABLED, and the violations. Every invariant and action property
of a passing run, and the refinement, is a theorem.

## 6. Not modelled

Besides what sections 1 and 3 name: receiving, beacons, attach and ioctl of the
driver; crypto, 802.1X, ACLs, WDS, IBSS and monitor mode of the 802.11 layer; rate
control; the HAL, of which the repository has only binaries. `madwifi-r3579` is the
stock driver the patched one was derived from, and `tcp_input.c` is Linux's with one
assignment added. Of the scripts: what they print and plot, and the router's and
the interfaces' settings, single commands that keep no state. These are most of
the repository's lines; the models cover the parts that hold its own logic, and the
parts of the 802.11 layer its experiments stand on.

Timing is modelled as order only. A time-out is a step that may come whenever its
timer is set (`TxTimeout`, `TimerVisit`, `ApTimeout`, `ResetStart`), with the exceptions
section 3 names for `TestRun` and `Join`. What gzip has not yet written when a logger is
killed is not modelled, nor the values in the bins of `process.delays.c`.
