---------------------------- MODULE TestbedLock ----------------------------
(***************************************************************************)
(* The lock file that keeps two scripts from using the testbed at once     *)
(* (lib/io), with the scripts that take it: tcp.test and                   *)
(* test.network.share (which also keep a results directory), hosts.alive   *)
(* (which can give the lock back in the middle of its work) and            *)
(* cpkrn2tftpdir, and release_testbed_lock, which removes the file         *)
(* whoever made it.                                                        *)
(*                                                                         *)
(* `[[ -f file ]]' and the `touch' or `rm' that follows are commands of    *)
(* their own, so they are steps of their own.  A script can stop anywhere  *)
(* (an error exit of its body, a Ctrl-C): nothing traps that, so the file  *)
(* stays.  All scripts run as one user on one machine.                     *)
(***************************************************************************)
EXTENDS FiniteSets, Naturals

CONSTANTS
  Recorders,   \* scripts with a results directory: tcp.test, test.network.share
  Checkers,    \* hosts.alive
  Installers,  \* cpkrn2tftpdir
  Releasers,   \* release_testbed_lock
  Dirs,        \* the directories users name with -d
  NoDir

Users == Recorders \cup Checkers \cup Installers
Scripts == Users \cup Releasers

ASSUME KindsAssumption ==
  /\ Recorders \cap Checkers = {}
  /\ Releasers \cap Users = {}
  /\ Installers \cap (Recorders \cup Checkers) = {}
ASSUME DirsAssumption == NoDir \notin Dirs

VARIABLES
  lock,      \* does IO_LOCK_FILE exist?
  pc,        \* the next command of each script, "off" when it is not running
  dir,       \* the directory a running recorder was given
  made,      \* the directories that exist
  results,   \* for each directory, the recorders whose test wrote in it
  breached,  \* history: one of the two root causes of an overlap has happened
  died       \* history: a script has stopped without giving the lock back

vars == <<lock, pc, dir, made, results, breached, died>>

Steps == {"off", "backup", "lock", "touch", "body",
          "release", "rm", "quit", "quitrm"}

\* A type invariant.
TypeOK ==
  /\ lock \in BOOLEAN /\ breached \in BOOLEAN /\ died \in BOOLEAN
  /\ pc \in [Scripts -> Steps]
  /\ dir \in [Recorders -> Dirs \cup {NoDir}]
  /\ made \subseteq Dirs
  /\ results \in [Dirs -> SUBSET Recorders]

\* The scripts that took the testbed and have not finished with it.
Holding(s) == s \in Users /\ pc[s] \in {"body", "release", "rm", "quit", "quitrm"}

Init ==
  /\ lock = FALSE
  /\ pc = [s \in Scripts |-> "off"]
  /\ dir = [s \in Recorders |-> NoDir]
  /\ made = {}
  /\ results = [d \in Dirs |-> {}]
  /\ breached = FALSE
  /\ died = FALSE

Goto(s, step) == pc' = [pc EXCEPT ![s] = step]

-----------------------------------------------------------------------------
(* How a script starts. *)

\* A bug: the required options are not checked, and -d is missing.
LaunchUnnamed(s) ==
  /\ s \in Recorders
  /\ pc[s] = "off"
  /\ Goto(s, "backup")
  /\ UNCHANGED <<lock, dir, made, results, breached, died>>

\* process_options: check_directory refuses a directory that exists.
LaunchRecorder(s) ==
  /\ s \in Recorders
  /\ pc[s] = "off"
  /\ \E d \in Dirs \ made : dir' = [dir EXCEPT ![s] = d]
  /\ Goto(s, "backup")
  /\ UNCHANGED <<lock, made, results, breached, died>>

LaunchOther(s) ==
  /\ s \notin Recorders
  /\ pc[s] = "off"
  /\ Goto(s, IF s \in Releasers THEN "release" ELSE "lock")
  /\ UNCHANGED <<lock, dir, made, results, breached, died>>

\* io_backup_commad: `mkdir -p' is content with a directory that exists.
Backup(s) ==
  /\ pc[s] = "backup"
  /\ made' = made \cup {dir[s]}
  /\ Goto(s, "lock")
  /\ UNCHANGED <<lock, dir, results, breached, died>>

-----------------------------------------------------------------------------
(* io_global_testbed_lock *)

\* A bug: the script only warns and goes on when it finds the file.
TestUnheeded(s) ==
  /\ pc[s] = "lock"
  /\ Goto(s, IF lock THEN "body" ELSE "touch")
  /\ UNCHANGED <<lock, dir, made, results, breached, died>>

\* The test of the file; a script that finds it exits with status 1.
TestLock(s) ==
  /\ pc[s] = "lock"
  /\ Goto(s, IF lock THEN "off" ELSE "touch")
  /\ UNCHANGED <<lock, dir, made, results, breached, died>>

\* `touch' succeeds on a file that exists, and nothing looks again.
Touch(s) ==
  /\ pc[s] = "touch"
  /\ lock' = TRUE
  /\ breached' = (breached \/ lock)
  /\ Goto(s, "body")
  /\ UNCHANGED <<dir, made, results, died>>

-----------------------------------------------------------------------------
(* The work, then io_global_testbed_release_lock *)

Work(s) ==
  /\ pc[s] = "body"
  /\ results' = IF s \in Recorders
                THEN [results EXCEPT ![dir[s]] = @ \cup {s}] ELSE results
  /\ Goto(s, "release")
  /\ UNCHANGED <<lock, dir, made, breached, died>>

\* A bug: the script ends without removing the file.
ReleaseForgotten(s) ==
  /\ pc[s] = "release"
  /\ Goto(s, "off")
  /\ UNCHANGED <<lock, dir, made, results, breached, died>>

TestRelease(s) ==
  /\ pc[s] = "release"
  /\ Goto(s, IF lock THEN "rm" ELSE "off")
  /\ UNCHANGED <<lock, dir, made, results, breached, died>>

Rm(s) ==
  /\ pc[s] = "rm"
  /\ lock' = FALSE
  /\ breached' = (breached \/ (s \in Releasers /\ \E t \in Users : Holding(t)))
  /\ Goto(s, "off")
  /\ UNCHANGED <<dir, made, results, died>>

\* hosts.alive, when a host's ssh port is closed: release && exit.
Quit(s) ==
  /\ s \in Checkers
  /\ pc[s] = "body"
  /\ Goto(s, "quit")
  /\ UNCHANGED <<lock, dir, made, results, breached, died>>

\* A bug: hosts.alive exits without the release.
QuitUnreleased(s) ==
  /\ pc[s] = "quit"
  /\ Goto(s, "off")
  /\ UNCHANGED <<lock, dir, made, results, breached, died>>

QuitTest(s) ==
  /\ pc[s] = "quit"
  /\ Goto(s, IF lock THEN "quitrm" ELSE "off")
  /\ UNCHANGED <<lock, dir, made, results, breached, died>>

\* If the file has gone `rm' fails, and the && keeps the script from exiting.
QuitRm(s) ==
  /\ pc[s] = "quitrm"
  /\ lock' = FALSE
  /\ Goto(s, IF lock THEN "off" ELSE "body")
  /\ UNCHANGED <<dir, made, results, breached, died>>

\* An error exit of the body, or an interrupt, at any command.
Die(s) ==
  /\ pc[s] # "off"
  /\ Goto(s, "off")
  /\ died' = (died \/ Holding(s))
  /\ UNCHANGED <<lock, dir, made, results, breached>>

-----------------------------------------------------------------------------
Step(s) ==
  \/ Backup(s) \/ TestLock(s) \/ Touch(s) \/ Work(s)
  \/ TestRelease(s) \/ Rm(s) \/ Quit(s) \/ QuitTest(s) \/ QuitRm(s)

Next == \E s \in Scripts : LaunchRecorder(s) \/ LaunchOther(s) \/ Step(s) \/ Die(s)

Spec == Init /\ [][Next]_vars

\* A script that runs goes on: nothing it calls waits for another script.
\* Starting one is up to the users.
FairSpec == Spec /\ \A s \in Scripts : WF_vars(Step(s))

-----------------------------------------------------------------------------
(* Properties. *)

\* Two scripts never use the testbed together: what the lock is for.
MutualExclusion == \A s, t \in Users : Holding(s) /\ Holding(t) => s = t

\* The lock does exclude, and the file does stand for the script that has the
\* testbed, until one of exactly two things happens: two scripts test the
\* file before either touches it, or somebody runs release_testbed_lock under
\* a script that is at work.  In particular no script removes another's lock
\* by releasing its own, and giving up in hosts.alive is harmless.
ExclusionUnlessBreached ==
  ~breached => /\ MutualExclusion
               /\ \A s \in Users : Holding(s) => lock

\* The file outlives every script only if one of them stopped without
\* releasing it; overlaps alone never leave it behind.
NoLeakUnlessDied == lock => died \/ \E s \in Users : Holding(s)

\* A results directory holds the results of one run: what check_directory
\* ("I will not write on existing directory") is for.  Stated for the runs
\* that the lock keeps apart: it does not keep their directories apart.
ResultsOfOneRun == ~breached => \A d \in Dirs : Cardinality(results[d]) <= 1

\* As long as no script dies with the lock, the testbed becomes free again.
LockFreed == lock ~> (~lock \/ died)

=============================================================================
