------------------------- MODULE TestbedLock_proofs -------------------------
(***************************************************************************)
(* Proofs about TestbedLock for any number of scripts of each kind: type   *)
(* correctness, that only two things can make the lock fail to exclude,    *)
(* and that only a script that dies leaves the lock file behind.           *)
(***************************************************************************)
EXTENDS TestbedLock, TLAPS

\* Only recorders make directories, and a recorder that is to make one knows
\* which; release_testbed_lock does nothing but the release.
KindsInv ==
  /\ \A s \in Scripts : pc[s] = "backup" => s \in Recorders /\ dir[s] \in Dirs
  /\ \A s \in Releasers : pc[s] \in {"off", "release", "rm"}

TypeInv == TypeOK /\ KindsInv

-----------------------------------------------------------------------------
(* Type correctness.                                                       *)

\* The types hold before any script has run.
LEMMA TypeInit == Init => TypeInv
BY DEF Init, TypeInv, TypeOK, KindsInv, Steps, Scripts, Users

\* Every command of a script keeps the types.
LEMMA TypeStep == TypeInv /\ [Next]_vars => TypeInv'
<1> SUFFICES ASSUME TypeInv, [Next]_vars
             PROVE  TypeInv'
  OBVIOUS
<1> USE DEF TypeInv, TypeOK, KindsInv, Goto, Steps
<1>1. ASSUME NEW s \in Scripts, LaunchRecorder(s)
      PROVE  TypeInv'
  BY <1>1, KindsAssumption DEF LaunchRecorder, Users
<1>2. ASSUME NEW s \in Scripts, LaunchOther(s)
      PROVE  TypeInv'
  BY <1>2 DEF LaunchOther
<1>3. ASSUME NEW s \in Scripts, Backup(s)
      PROVE  TypeInv'
  BY <1>3 DEF Backup
<1>4. ASSUME NEW s \in Scripts, TestLock(s)
      PROVE  TypeInv'
  BY <1>4 DEF TestLock
<1>5. ASSUME NEW s \in Scripts, Touch(s)
      PROVE  TypeInv'
  BY <1>5 DEF Touch
<1>6. ASSUME NEW s \in Scripts, Work(s)
      PROVE  TypeInv'
  <2>1. results' \in [Dirs -> SUBSET Recorders]
    BY <1>6 DEF Work
  <2>2. QED
    BY <1>6, <2>1 DEF Work
<1>7. ASSUME NEW s \in Scripts, TestRelease(s)
      PROVE  TypeInv'
  BY <1>7 DEF TestRelease
<1>8. ASSUME NEW s \in Scripts, Rm(s)
      PROVE  TypeInv'
  <2>1. breached' \in BOOLEAN
    BY <1>8 DEF Rm
  <2>2. lock' = FALSE /\ Goto(s, "off") /\ UNCHANGED <<dir, made, results, died>>
    BY <1>8 DEF Rm
  <2>3. pc' \in [Scripts -> Steps]
    BY <2>2
  <2>4. KindsInv'
    BY <2>2
  <2>5. QED
    BY <2>1, <2>2, <2>3, <2>4
<1>9. ASSUME NEW s \in Scripts, Quit(s) \/ QuitTest(s) \/ QuitRm(s)
      PROVE  TypeInv'
  <2>1. CASE Quit(s)
    BY <2>1, KindsAssumption DEF Quit, Users
  <2>2. CASE QuitTest(s)
    BY <2>2 DEF QuitTest
  <2>3. CASE QuitRm(s)
    <3>1. PICK p \in {"off", "body"} : Goto(s, p)
      BY <2>3 DEF QuitRm
    <3>2. s \notin Releasers /\ lock' = FALSE /\ UNCHANGED <<dir, made, results, breached, died>>
      BY <2>3 DEF QuitRm
    <3>3. lock' \in BOOLEAN
      BY <3>2
    <3>4. pc' \in [Scripts -> Steps] /\ KindsInv'
      BY <3>1, <3>2
    <3>5. QED
      BY <3>2, <3>3, <3>4
  <2>4. QED
    BY <1>9, <2>1, <2>2, <2>3
<1>10. ASSUME NEW s \in Scripts, Die(s)
       PROVE  TypeInv'
  <2>1. died' \in BOOLEAN
    BY <1>10 DEF Die, Holding
  <2>2. QED
    BY <1>10, <2>1 DEF Die
<1>11. CASE UNCHANGED vars
  BY <1>11 DEF vars
<1>12. QED
  BY <1>1, <1>2, <1>3, <1>4, <1>5, <1>6, <1>7, <1>8, <1>9, <1>10, <1>11 DEF Next, Step

LEMMA TypeHolds == Spec => []TypeInv
BY TypeInit, TypeStep, PTL DEF Spec

\* Every variable keeps its type.
THEOREM TypeCorrect == Spec => []TypeOK
<1>1. TypeInv => TypeOK
  BY DEF TypeInv
<1>2. QED
  BY <1>1, TypeHolds, PTL

-----------------------------------------------------------------------------
(* The lock excludes until it is breached.                                 *)

\* What ExclusionUnlessBreached says of a lock that is not breached.
Excludes == MutualExclusion /\ \A t \in Users : Holding(t) => lock

\* What each command leaves alone: the scripts that hold the testbed change
\* by the script that steps only.
LEMMA OthersHold ==
  ASSUME TypeInv, NEW s \in Scripts, NEW p \in Steps, Goto(s, p),
         NEW t \in Users, t # s
  PROVE  Holding(t)' <=> Holding(t)
BY DEF TypeInv, TypeOK, Goto, Holding, Users, Scripts

\* The script that steps holds the testbed iff its next command is one of
\* those between the touch and the release.
LEMMA SelfHolds ==
  ASSUME TypeInv, NEW s \in Scripts, NEW p \in Steps, Goto(s, p)
  PROVE  Holding(s)' <=> s \in Users /\ p \in {"body", "release", "rm", "quit", "quitrm"}
BY DEF TypeInv, TypeOK, Goto, Holding, Users, Scripts

\* Exclusion, unless breached, is kept by every step: a touch finds nobody at
\* work when it finds no file, and a file is removed by its only holder.
LEMMA ExclusionStep ==
  TypeInv /\ ExclusionUnlessBreached /\ [Next]_vars => ExclusionUnlessBreached'
<1> SUFFICES ASSUME TypeInv, ExclusionUnlessBreached, [Next]_vars, ~breached'
             PROVE  Excludes'
  BY DEF ExclusionUnlessBreached, Excludes
<1>0. /\ ~breached
      /\ \A t, u \in Users : Holding(t) /\ Holding(u) => t = u
      /\ \A t \in Users : Holding(t) => lock
  <2>1. ~breached
    BY DEF Next, Step, LaunchRecorder, LaunchOther, Backup, TestLock, Touch, Work,
           TestRelease, Rm, Quit, QuitTest, QuitRm, Die, vars
  <2>2. QED
    BY <2>1 DEF ExclusionUnlessBreached, MutualExclusion
<1>1. ASSUME NEW s \in Scripts, NEW p \in Steps, Goto(s, p), lock' = lock,
             p \notin {"body", "release", "rm", "quit", "quitrm"} \/ Holding(s)
      PROVE  Excludes'
  <2>1. \A t \in Users : Holding(t)' => Holding(t)
    BY <1>1, OthersHold, SelfHolds
  <2>2. QED
    BY <1>0, <1>1, <2>1 DEF Excludes, MutualExclusion
<1>2. ASSUME NEW s \in Scripts, NEW p \in Steps, Goto(s, p),
             \A t \in Users : t # s => ~Holding(t), Holding(s)' => lock'
      PROVE  Excludes'
  <2>1. \A t \in Users : Holding(t)' => t = s
    BY <1>2, OthersHold
  <2>2. QED
    BY <1>2, <2>1 DEF Excludes, MutualExclusion
<1>3. ASSUME NEW s \in Scripts, LaunchRecorder(s) \/ LaunchOther(s) \/ Backup(s)
      PROVE  Excludes'
  <2>1. PICK p \in {"backup", "lock", "release"} : Goto(s, p) /\ lock' = lock
    BY <1>3 DEF LaunchRecorder, LaunchOther, Backup
  <2>2. CASE p # "release"
    BY <1>1, <2>1, <2>2 DEF Steps
  <2>3. CASE p = "release"
    <3>1. s \in Releasers
      BY <1>3, <2>1, <2>3 DEF LaunchRecorder, LaunchOther, Backup, Goto, TypeInv, TypeOK
    <3>2. ~Holding(s)' /\ \A t \in Users : Holding(t)' <=> Holding(t)
      BY <2>1, <2>3, <3>1, OthersHold, KindsAssumption DEF Holding, Steps
    <3>3. QED
      BY <1>0, <2>1, <3>2 DEF Excludes, MutualExclusion
  <2>4. QED
    BY <2>1, <2>2, <2>3
<1>4. ASSUME NEW s \in Scripts, TestLock(s) \/ Die(s)
      PROVE  Excludes'
  <2>1. PICK p \in {"off", "touch"} : Goto(s, p) /\ lock' = lock
    BY <1>4 DEF TestLock, Die
  <2>2. QED
    BY <1>1, <2>1 DEF Steps
<1>5. ASSUME NEW s \in Scripts, Touch(s)
      PROVE  Excludes'
  <2>1. ~lock /\ lock' /\ Goto(s, "body")
    BY <1>5 DEF Touch
  <2>2. \A t \in Users : ~Holding(t)
    BY <1>0, <2>1
  <2>3. QED
    BY <1>2, <2>1, <2>2 DEF Steps
<1>6. ASSUME NEW s \in Scripts,
             Work(s) \/ TestRelease(s) \/ Quit(s) \/ QuitTest(s)
      PROVE  Excludes'
  <2>1. PICK p \in {"off", "release", "rm", "quit", "quitrm"} : Goto(s, p) /\ lock' = lock
    BY <1>6 DEF Work, TestRelease, Quit, QuitTest
  <2>2. pc[s] \in {"body", "release", "quit"}
    BY <1>6 DEF Work, TestRelease, Quit, QuitTest
  <2>3. CASE s \in Users
    BY <1>1, <2>1, <2>2, <2>3 DEF Holding, Steps
  <2>4. CASE s \notin Users
    <3>1. ~Holding(s)' /\ \A t \in Users : Holding(t)' <=> Holding(t)
      BY <2>1, <2>4, OthersHold DEF Holding, Steps
    <3>2. QED
      BY <1>0, <2>1, <3>1 DEF Excludes, MutualExclusion
  <2>5. QED
    BY <2>3, <2>4
<1>7. ASSUME NEW s \in Scripts, Rm(s)
      PROVE  Excludes'
  <2>1. Goto(s, "off") /\ pc[s] = "rm"
    BY <1>7 DEF Rm
  <2>2. ~Holding(s)'
    BY <2>1, SelfHolds DEF Steps
  <2>3. CASE s \in Users
    BY <1>0, <1>2, <2>1, <2>2, <2>3 DEF Holding, Steps
  <2>4. CASE s \notin Users
    BY <1>2, <1>7, <2>1, <2>2, <2>4 DEF Rm, Scripts, Steps
  <2>5. QED
    BY <2>3, <2>4
<1>8. ASSUME NEW s \in Scripts, QuitRm(s)
      PROVE  Excludes'
  <2>1. Holding(s)
    BY <1>8 DEF QuitRm, Holding, Scripts, TypeInv, KindsInv
  <2>2. lock
    BY <1>0, <2>1 DEF Holding
  <2>3. Goto(s, "off")
    BY <1>8, <2>2 DEF QuitRm
  <2>4. ~Holding(s)'
    BY <2>3, SelfHolds DEF Steps
  <2>5. s \in Users /\ \A t \in Users : t # s => ~Holding(t)
    BY <1>0, <2>1 DEF Holding
  <2>6. QED
    BY <1>2, <2>3, <2>4, <2>5 DEF Steps
<1>9. CASE UNCHANGED vars
  BY <1>0, <1>9 DEF vars, Excludes, MutualExclusion, Holding
<1>10. QED
  BY <1>3, <1>4, <1>5, <1>6, <1>7, <1>8, <1>9 DEF Next, Step

\* The lock excludes as long as no two scripts have tested the file before
\* either touched it and nobody removed it under a script at work.
THEOREM LockExcludes == Spec => []ExclusionUnlessBreached
<1>1. Init => ExclusionUnlessBreached
  BY DEF Init, ExclusionUnlessBreached, MutualExclusion, Holding, Users, Scripts
<1>2. QED
  BY <1>1, ExclusionStep, TypeHolds, PTL DEF Spec

-----------------------------------------------------------------------------
(* The lock file has an owner.                                             *)

\* A step that leaves the file in place leaves its owner at work, or the
\* owner dies.
LEMMA NoLeakStep == TypeInv /\ NoLeakUnlessDied /\ [Next]_vars => NoLeakUnlessDied'
<1> SUFFICES ASSUME TypeInv, NoLeakUnlessDied, [Next]_vars, lock', ~died'
             PROVE  \E t \in Users : Holding(t)'
  BY DEF NoLeakUnlessDied
<1>1. ASSUME NEW s \in Scripts, NEW p \in Steps, Goto(s, p), lock, ~died,
             Holding(s) => p \in {"body", "release", "rm", "quit", "quitrm"}
      PROVE  \E t \in Users : Holding(t)'
  <2>1. PICK t \in Users : Holding(t)
    BY <1>1 DEF NoLeakUnlessDied
  <2>2. CASE t = s
    BY <1>1, <2>1, <2>2, SelfHolds
  <2>3. CASE t # s
    BY <1>1, <2>1, <2>3, OthersHold
  <2>4. QED
    BY <2>2, <2>3
<1>2. ASSUME NEW s \in Scripts,
             LaunchRecorder(s) \/ LaunchOther(s) \/ Backup(s) \/ TestLock(s)
      PROVE  \E t \in Users : Holding(t)'
  <2>1. PICK p \in {"backup", "lock", "release", "off", "touch"} : Goto(s, p)
    BY <1>2 DEF LaunchRecorder, LaunchOther, Backup, TestLock
  <2>2. pc[s] \in {"off", "backup", "lock"}
    BY <1>2 DEF LaunchRecorder, LaunchOther, Backup, TestLock
  <2>3. UNCHANGED <<lock, died>>
    BY <1>2 DEF LaunchRecorder, LaunchOther, Backup, TestLock
  <2>4. lock /\ ~died
    BY <2>3
  <2>5. QED
    BY <1>1, <2>1, <2>2, <2>4 DEF Holding, Steps
<1>3. ASSUME NEW s \in Scripts, Touch(s)
      PROVE  \E t \in Users : Holding(t)'
  <2>1. s \in Users
    BY <1>3 DEF Touch, Scripts, TypeInv, KindsInv
  <2>2. QED
    BY <1>3, <2>1, SelfHolds DEF Touch, Steps
<1>4. ASSUME NEW s \in Scripts, Work(s) \/ TestRelease(s) \/ Quit(s) \/ QuitTest(s)
      PROVE  \E t \in Users : Holding(t)'
  <2>0. UNCHANGED <<lock, died>>
    BY <1>4 DEF Work, TestRelease, Quit, QuitTest
  <2>1. lock /\ ~died
    BY <2>0
  <2>2. PICK p \in {"release", "rm", "quit", "quitrm"} : Goto(s, p)
    BY <1>4, <2>1 DEF Work, TestRelease, Quit, QuitTest
  <2>3. QED
    BY <1>1, <2>1, <2>2 DEF Steps
<1>5. ASSUME NEW s \in Scripts, Rm(s) \/ QuitRm(s)
      PROVE  FALSE
  BY <1>5 DEF Rm, QuitRm
<1>6. ASSUME NEW s \in Scripts, Die(s)
      PROVE  \E t \in Users : Holding(t)'
  <2>1. Goto(s, "off") /\ lock /\ ~died /\ ~Holding(s)
    BY <1>6 DEF Die
  <2>2. QED
    BY <1>1, <2>1 DEF Steps
<1>7. CASE UNCHANGED vars
  BY <1>7 DEF vars, NoLeakUnlessDied, Holding
<1>8. QED
  BY <1>2, <1>3, <1>4, <1>5, <1>6, <1>7 DEF Next, Step

\* The lock file stands for a script that is at work, unless one died.
THEOREM LockHasOwner == Spec => []NoLeakUnlessDied
<1>1. Init => NoLeakUnlessDied
  BY DEF Init, NoLeakUnlessDied
<1>2. QED
  BY <1>1, NoLeakStep, TypeHolds, PTL DEF Spec

=============================================================================
