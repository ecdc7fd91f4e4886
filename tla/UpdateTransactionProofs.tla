----------------------- MODULE UpdateTransactionProofs -----------------------
(***************************************************************************)
(* IInv of UpdateTransaction is inductive, for every set of jobs and of     *)
(* versions and whatever the number of throws and crashes.  From it: types, *)
(* mutual exclusion under the lifecycle mutex, the protection of a          *)
(* committed update, and the action property on the switch.                 *)
(*                                                                         *)
(* The argument rests on two frames: what a step of the worker of j, or of  *)
(* a run of Recover.ps1 for j, leaves alone.  A worker or recovery of       *)
(* another job that is past the mutex then keeps what it relies on, because *)
(* the job that steps does not hold the mutex.                              *)
(*                                                                         *)
(* The second half is about updates of an installation that follow each     *)
(* other: InTurn, a hypothesis of its own, because the code means it but    *)
(* does not guarantee it.  Under it what the updates do is RuntimeSwitch,   *)
(* whatever throws, is killed or is rebooted.  Two more invariants, each    *)
(* under the bounds it needs, carry what a completed update and what a      *)
(* pending one leave behind.                                               *)
(***************************************************************************)
EXTENDS UpdateTransaction, TLAPS

\* Abbreviations of the specification, and the sets of control states.
USE DEF None, install, guards, report, jobs, locals, others, budget, Pointers, Snapshots,
        NoSnapshot, NoPoll, Phases, Goto, SetJob, Working, SetJournal, Exit, Abort, RGoto,
        RecoverLeave, StartRecover, PreCommit, PostCommit, Undoing, Leaving, Locked, WorkerPCs,
        RecoverLocked, RecoverPCs

-----------------------------------------------------------------------------
(* Names of the processes *)

\* A worker is a legitimate holder of the mutex and differs from nobody at all.
LEMMA WorkerId == ASSUME NEW j \in Jobs
                  PROVE <<"worker", j>> \in Workers /\ <<"worker", j>> # NoOne
  BY ConstantsOK DEF Workers

\* A run of Recover.ps1 is one too, and is never taken for a worker.
LEMMA RecoverId == ASSUME NEW c \in Callers, NEW j \in Jobs
                   PROVE /\ <<c, j>> \in Recoverers
                         /\ <<c, j>> # NoOne
                         /\ \A k \in Jobs : <<"worker", k>> # <<c, j>>
  BY ConstantsOK DEF Recoverers, Callers

\* Both callers of Recover.ps1 are callers.
LEMMA CallerIds == "task" \in Callers /\ "launcher" \in Callers
  BY DEF Callers

\* A table of truth values stays one when an entry is set.
LEMMA BooleanUpdate ==
  ASSUME NEW S, NEW f \in [S -> BOOLEAN], NEW i, NEW g,
         g \in {f, [f EXCEPT ![i] = TRUE], [f EXCEPT ![i] = FALSE]}
  PROVE g \in [S -> BOOLEAN]
  OBVIOUS

-----------------------------------------------------------------------------
(* Types *)

\* The initial states are well typed.
LEMMA InitTypes == Init => TypeOK
  BY ConstantsOK DEF Init, TypeOK

\* A step of a worker, or its failure, keeps the types.
LEMMA WorkerTypes ==
  ASSUME NEW j \in Jobs, TypeOK, ArmedAt(j),
         WorkerStep(j) \/ WorkerThrow(j) \/ WorkerKill(j)
  PROVE TypeOK'
<1> USE WorkerId, ConstantsOK
<1>1. CASE WorkerRead(j)
  BY <1>1 DEF WorkerRead, TypeOK, ArmedAt
<1>2. CASE WorkerEnter(j)
  <2> USE <1>2 DEF WorkerEnter
  <2>1. CASE mutex = NoOne
    <3>1. phase' = [phase EXCEPT ![j] = "working"] /\ pc' = [pc EXCEPT ![j] = "place"]
      BY <2>1
    <3> QED BY <2>1, <3>1 DEF TypeOK
  <2>2. CASE mutex # NoOne
    <3>1. phase' = [phase EXCEPT ![j] = "failed"] /\ pc' = [pc EXCEPT ![j] = "dead"]
      BY <2>2
    <3>2. rolled' = [rolled EXCEPT ![j] = TRUE] /\ needs' = [needs EXCEPT ![j] = FALSE]
      BY <2>2
    <3> QED BY <2>2, <3>1, <3>2 DEF TypeOK
  <2> QED BY <2>1, <2>2
<1>3. CASE WorkerPlace(j)
  <2>1. tree' \in [Versions -> {"absent", "intact", "partial"}]
    BY <1>3 DEF WorkerPlace, TypeOK
  <2>2. made \in [Jobs -> BOOLEAN] /\ made' \in {made, [made EXCEPT ![j] = TRUE]}
    BY <1>3 DEF WorkerPlace, TypeOK
  <2>3. made' \in [Jobs -> BOOLEAN]
    BY <2>2, BooleanUpdate
  <2>4. way' \in [Jobs -> {"forward", "abort", "undo"}]
    BY <1>3 DEF WorkerPlace, TypeOK
  <2>5. pc' = [pc EXCEPT ![j] = "guard"] \/ pc' = [pc EXCEPT ![j] = "remove"]
    BY <1>3 DEF WorkerPlace
  <2>6. pc' \in [Jobs -> WorkerPCs]
    BY <2>5 DEF TypeOK
  <2> QED BY <1>3, <2>1, <2>3, <2>4, <2>6 DEF WorkerPlace, TypeOK
<1>4. CASE WorkerGuard(j)
  BY <1>4 DEF WorkerGuard, TypeOK, ArmedAt
<1>5. CASE WorkerArm(j)
  BY <1>5 DEF WorkerArm, TypeOK, ArmedAt
<1>6. CASE WorkerSnap(j)
  BY <1>6 DEF WorkerSnap, TypeOK, ArmedAt
<1>7. CASE WorkerMove(j)
  <2>1. snap[j] \in Snapshots
    BY DEF TypeOK
  <2>2. [snap[j] EXCEPT !.place = "protected"] \in Snapshots
    BY <2>1
  <2>3. snap' = [snap EXCEPT ![j] = [snap[j] EXCEPT !.place = "protected"]]
    BY <1>7 DEF WorkerMove
  <2>4. snap' \in [Jobs -> Snapshots]
    BY <2>2, <2>3 DEF TypeOK
  <2> QED BY <1>7, <2>4 DEF WorkerMove, TypeOK
<1>8. CASE WorkerRegister(j)
  BY <1>8 DEF WorkerRegister, TypeOK, ArmedAt
<1>9. CASE WorkerStop(j)
  BY <1>9 DEF WorkerStop, TypeOK, ArmedAt, PollWithout
<1>10. CASE WorkerCommit(j)
  BY <1>10 DEF WorkerCommit, TypeOK, ArmedAt, Committed
<1>11. CASE WorkerLoad(j)
  BY <1>11 DEF WorkerLoad, TypeOK, ArmedAt
<1>12. CASE WorkerRecord(j)
  BY <1>12 DEF WorkerRecord, TypeOK, ArmedAt
<1>13. CASE WorkerServe(j)
  <2>1. target[j] \in Versions /\ running \subseteq Versions
    BY <1>13 DEF WorkerServe, TypeOK, ArmedAt
  <2>2. running' = running \union {target[j]}
    BY <1>13 DEF WorkerServe
  <2>3. running' \subseteq Versions
    BY <2>1, <2>2
  <2> QED BY <1>13, <2>3 DEF WorkerServe, TypeOK
<1>14. CASE WorkerOutcome(j)
  BY <1>14 DEF WorkerOutcome, TypeOK, ArmedAt
<1>15. CASE WorkerFinish(j)
  BY <1>15 DEF WorkerFinish, TypeOK, ArmedAt
<1>16. CASE WorkerClear(j)
  BY <1>16 DEF WorkerClear, TypeOK, ArmedAt
<1>17. CASE WorkerDrop(j)
  BY <1>17 DEF WorkerDrop, TypeOK, ArmedAt, DropSnapshot
<1>18. CASE WorkerUnlink(j)
  BY <1>18 DEF WorkerUnlink, TypeOK, ArmedAt
<1>19. CASE WorkerQuit(j)
  BY <1>19 DEF WorkerQuit, TypeOK, ArmedAt, PollWithout
<1>20. CASE WorkerRepoint(j)
  BY <1>20 DEF WorkerRepoint, TypeOK, ArmedAt
<1>21. CASE WorkerReload(j)
  BY <1>21 DEF WorkerReload, TypeOK, ArmedAt, RestoredLoader
<1>22. CASE WorkerRerecord(j)
  BY <1>22 DEF WorkerRerecord, TypeOK, ArmedAt
<1>23. CASE WorkerRevive(j)
  <2>1. meta[j].active \in Versions /\ running \subseteq Versions
    BY DEF TypeOK
  <2>2. running' = running \/ running' = running \union {meta[j].active}
    BY <1>23 DEF WorkerRevive
  <2>3. running' \subseteq Versions
    BY <2>1, <2>2
  <2>4. \E p \in {"remove", "clear", "report_failed"} : pc' = [pc EXCEPT ![j] = p]
    BY <1>23 DEF WorkerRevive
  <2>5. pc' \in [Jobs -> WorkerPCs]
    BY <2>4 DEF TypeOK
  <2> QED BY <1>23, <2>3, <2>5 DEF WorkerRevive, TypeOK
<1>24. CASE WorkerRemove(j)
  BY <1>24 DEF WorkerRemove, TypeOK, ArmedAt, Removed, AfterRemove
<1>25. CASE WorkerReport(j)
  BY <1>25 DEF WorkerReport, TypeOK, ArmedAt
<1>26. CASE WorkerReportFailed(j)
  BY <1>26 DEF WorkerReportFailed, TypeOK, ArmedAt
<1>27. CASE WorkerThrow(j)
  BY <1>27 DEF WorkerThrow, TypeOK, ArmedAt, AfterRemove
<1>28. CASE WorkerKill(j)
  BY <1>28 DEF WorkerKill, TypeOK, ArmedAt
<1> QED BY <1>1, <1>2, <1>3, <1>4, <1>5, <1>6, <1>7, <1>8, <1>9, <1>10, <1>11, <1>12, <1>13,
       <1>14, <1>15, <1>16, <1>17, <1>18, <1>19, <1>20, <1>21, <1>22, <1>23, <1>24, <1>25,
       <1>26, <1>27, <1>28 DEF WorkerStep

\* So does a step of Recover.ps1, or its failure.
LEMMA RecoverTypes ==
  ASSUME NEW c \in Callers, NEW j \in Jobs, TypeOK,
         RecoverStep(c, j) \/ RecoverThrow(c, j) \/ RecoverKill(c, j)
  PROVE TypeOK'
<1> USE RecoverId, ConstantsOK
<1>1. CASE RecoverTimeout(c, j)
  BY <1>1 DEF RecoverTimeout, TypeOK
<1>2. CASE RecoverNothing(c, j)
  BY <1>2 DEF RecoverNothing, TypeOK
<1>3. CASE RecoverEnter(c, j)
  BY <1>3 DEF RecoverEnter, TypeOK
<1>4. CASE RecoverPointer(c, j)
  BY <1>4 DEF RecoverPointer, TypeOK
<1>5. CASE RecoverLoader(c, j)
  BY <1>5 DEF RecoverLoader, TypeOK, RestoredLoader
<1>6. CASE RecoverRecord(c, j)
  BY <1>6 DEF RecoverRecord, TypeOK
<1>7. CASE RecoverRemove(c, j)
  <2>1. tree' \in [Versions -> {"absent", "intact", "partial"}]
    BY <1>7 DEF RecoverRemove, Removed, TypeOK
  <2> QED BY <1>7, <2>1 DEF RecoverRemove, TypeOK
<1>8. CASE RecoverTask(c, j)
  BY <1>8 DEF RecoverTask, TypeOK
<1>9. CASE RecoverSnap(c, j)
  BY <1>9 DEF RecoverSnap, TypeOK, DropSnapshot
<1>10. CASE RecoverBefore(c, j)
  BY <1>10 DEF RecoverBefore, TypeOK
<1>11. CASE RecoverDesc(c, j)
  BY <1>11 DEF RecoverDesc, TypeOK
<1>12. CASE RecoverDrop(c, j)
  BY <1>12 DEF RecoverDrop, TypeOK, DropSnapshot
<1>13. CASE RecoverReport(c, j)
  <2>1. phase' = [phase EXCEPT ![j] = "failed"] \/ phase' = [phase EXCEPT ![j] = "completed"]
    BY <1>13 DEF RecoverReport
  <2>2. /\ rolled \in [Jobs -> BOOLEAN]
        /\ rolled' \in {[rolled EXCEPT ![j] = TRUE], [rolled EXCEPT ![j] = FALSE]}
    BY <1>13 DEF RecoverReport, TypeOK
  <2>3. needs' = [needs EXCEPT ![j] = FALSE]
    BY <1>13 DEF RecoverReport
  <2>4. journal' \in [Jobs -> {"none", "open", "completed", "rolled_back"}]
    BY <1>13 DEF RecoverReport, TypeOK
  <2>5. phase' \in [Jobs -> Phases]
    BY <2>1 DEF TypeOK
  <2>6. rolled' \in [Jobs -> BOOLEAN]
    BY <2>2, BooleanUpdate
  <2>7. needs' \in [Jobs -> BOOLEAN]
    BY <2>3 DEF TypeOK
  <2> QED BY <1>13, <2>4, <2>5, <2>6, <2>7 DEF RecoverReport, TypeOK
<1>14. CASE RecoverThrow(c, j)
  BY <1>14 DEF RecoverThrow, TypeOK
<1>15. CASE RecoverKill(c, j)
  BY <1>15 DEF RecoverKill, TypeOK
<1> QED BY <1>1, <1>2, <1>3, <1>4, <1>5, <1>6, <1>7, <1>8, <1>9, <1>10, <1>11, <1>12, <1>13,
       <1>14, <1>15 DEF RecoverStep

\* The steps of the backend, the boot task, the launcher and the machine.
OtherStep ==
  \/ \E j \in Jobs, v \in Versions : RunUpdate(j, v)
  \/ \E rt \in Versions : PollRead(rt)
  \/ PollDecide
  \/ \E j \in Jobs : TaskRun(j)
  \/ LauncherScan \/ Launch \/ Reboot

\* They keep the types too.
LEMMA OtherTypes ==
  ASSUME TypeOK, OtherStep
  PROVE TypeOK'
<1> USE RecoverId, CallerIds, ConstantsOK
<1>1. CASE \E j \in Jobs, v \in Versions : RunUpdate(j, v)
  BY <1>1 DEF RunUpdate, TypeOK
<1>2. CASE \E rt \in Versions : PollRead(rt)
  BY <1>2 DEF PollRead, TypeOK
<1>3. CASE PollDecide
  <2> DEFINE safe == \/ poll.saw = "awaiting"
                     \/ pointer.active = poll.rt /\ tree[poll.rt] = "intact"
  <2>1. phase' = phase \/ phase' = [phase EXCEPT ![poll.job] = "failed"]
    BY <1>3 DEF PollDecide
  <2>2. phase' \in [Jobs -> Phases]
    BY <2>1 DEF TypeOK
  <2>3. journal' \in [Jobs -> {"none", "open", "completed", "rolled_back"}]
    BY <1>3 DEF PollDecide, TypeOK
  <2>4. latest' \in Jobs \union {None}
    BY <1>3 DEF PollDecide, TypeOK
  <2>5. safe => /\ rolled' \in {rolled, [rolled EXCEPT ![poll.job] = TRUE]}
                /\ needs' \in {needs, [needs EXCEPT ![poll.job] = FALSE]}
    BY <1>3 DEF PollDecide
  <2>6. ~safe => /\ rolled' \in {rolled, [rolled EXCEPT ![poll.job] = FALSE]}
                 /\ needs' \in {needs, [needs EXCEPT ![poll.job] = TRUE]}
    BY <1>3 DEF PollDecide
  <2>7. rolled' \in [Jobs -> BOOLEAN] /\ needs' \in [Jobs -> BOOLEAN]
    <3>1. rolled \in [Jobs -> BOOLEAN] /\ needs \in [Jobs -> BOOLEAN]
      BY DEF TypeOK
    <3>2. rolled' \in {rolled, [rolled EXCEPT ![poll.job] = TRUE],
                      [rolled EXCEPT ![poll.job] = FALSE]}
      BY <2>5, <2>6
    <3>3. needs' \in {needs, [needs EXCEPT ![poll.job] = TRUE], [needs EXCEPT ![poll.job] = FALSE]}
      BY <2>5, <2>6
    <3> HIDE DEF safe
    <3>4. rolled' \in [Jobs -> BOOLEAN]
      BY <3>1, <3>2, BooleanUpdate
    <3>5. needs' \in [Jobs -> BOOLEAN]
      BY <3>1, <3>3, BooleanUpdate
    <3> QED BY <3>4, <3>5
  <2> QED BY <1>3, <2>2, <2>3, <2>4, <2>7 DEF PollDecide, TypeOK
<1>4. CASE \E j \in Jobs : TaskRun(j)
  BY <1>4 DEF TaskRun, TypeOK
<1>5. CASE LauncherScan
  <2>1. lpc' \in {"idle", "clear"}
    BY <1>5 DEF LauncherScan, TypeOK
  <2>2. \/ rpc' = rpc
        \/ \E k \in Jobs : rpc' = [rpc EXCEPT ![<<"launcher", k>>] = "wait"]
    BY <1>5 DEF LauncherScan
  <2>3. rpc' \in [Recoverers -> RecoverPCs]
    <3>1. CASE rpc' = rpc
      BY <3>1 DEF TypeOK
    <3>2. CASE \E k \in Jobs : rpc' = [rpc EXCEPT ![<<"launcher", k>>] = "wait"]
      <4>1. PICK k \in Jobs : rpc' = [rpc EXCEPT ![<<"launcher", k>>] = "wait"]
        BY <3>2
      <4>2. <<"launcher", k>> \in Recoverers
        OBVIOUS
      <4> QED BY <4>1, <4>2 DEF TypeOK
    <3> QED BY <2>2, <3>1, <3>2
  <2> QED BY <1>5, <2>1, <2>3 DEF LauncherScan, TypeOK
<1>6. CASE Launch
  <2>1. running \subseteq Versions /\ pointer.active \in Versions
    BY DEF TypeOK
  <2>2. running' = running \/ running' = running \union {pointer.active}
    BY <1>6 DEF Launch
  <2>3. running' \subseteq Versions
    BY <2>1, <2>2
  <2> QED BY <1>6, <2>3 DEF Launch, TypeOK
<1>7. CASE Reboot
  BY <1>7 DEF Reboot, TypeOK
<1> QED BY <1>1, <1>2, <1>3, <1>4, <1>5, <1>6, <1>7 DEF OtherStep

-----------------------------------------------------------------------------
(* Frames *)

\* What a step of the worker of j leaves alone, and what it does to the mutex.
Switching == {"commit", "load", "record", "repoint", "reload", "rerecord"}
WorkerFrame(j) ==
  /\ \A k \in Jobs \ {j} : /\ pc'[k] = pc[k]
                           /\ hasBefore'[k] = hasBefore[k]
                           /\ desc'[k] = desc[k]
                           /\ task'[k] = task[k]
                           /\ meta'[k] = meta[k]
                           /\ made'[k] = made[k]
                           /\ phase'[k] = phase[k]
  /\ target' = target
  /\ rpc' = rpc
  /\ pc[j] \notin Locked => UNCHANGED <<pointer, hasBefore, desc, task>>
  /\ pc[j] \notin Switching => UNCHANGED <<pointer, loader, record>>
  /\ \/ mutex' = mutex /\ (pc'[j] \in Locked => pc[j] \in Locked)
     \/ mutex = NoOne /\ mutex' = <<"worker", j>>
     \/ mutex = <<"worker", j>> /\ mutex' = NoOne /\ pc'[j] = "dead"

\* Every step of a worker respects its frame.
LEMMA WorkerFrameHolds ==
  ASSUME TypeOK, NEW j \in Jobs, WorkerStep(j) \/ WorkerThrow(j) \/ WorkerKill(j)
  PROVE WorkerFrame(j)
<1> USE DEF TypeOK, WorkerFrame, Switching
<1>1. CASE WorkerRead(j)
  BY <1>1 DEF WorkerRead
<1>2. CASE WorkerEnter(j)
  BY <1>2 DEF WorkerEnter
<1>3. CASE WorkerPlace(j)
  BY <1>3 DEF WorkerPlace
<1>4. CASE WorkerGuard(j)
  BY <1>4 DEF WorkerGuard
<1>5. CASE WorkerArm(j)
  BY <1>5 DEF WorkerArm
<1>6. CASE WorkerSnap(j)
  BY <1>6 DEF WorkerSnap
<1>7. CASE WorkerMove(j)
  BY <1>7 DEF WorkerMove
<1>8. CASE WorkerRegister(j)
  BY <1>8 DEF WorkerRegister
<1>9. CASE WorkerStop(j)
  BY <1>9 DEF WorkerStop
<1>10. CASE WorkerCommit(j)
  BY <1>10 DEF WorkerCommit
<1>11. CASE WorkerLoad(j)
  BY <1>11 DEF WorkerLoad
<1>12. CASE WorkerRecord(j)
  BY <1>12 DEF WorkerRecord
<1>13. CASE WorkerServe(j)
  BY <1>13 DEF WorkerServe
<1>14. CASE WorkerOutcome(j)
  BY <1>14 DEF WorkerOutcome
<1>15. CASE WorkerFinish(j)
  BY <1>15 DEF WorkerFinish
<1>16. CASE WorkerClear(j)
  BY <1>16 DEF WorkerClear
<1>17. CASE WorkerDrop(j)
  BY <1>17 DEF WorkerDrop, DropSnapshot
<1>18. CASE WorkerUnlink(j)
  BY <1>18 DEF WorkerUnlink
<1>19. CASE WorkerQuit(j)
  BY <1>19 DEF WorkerQuit
<1>20. CASE WorkerRepoint(j)
  BY <1>20 DEF WorkerRepoint
<1>21. CASE WorkerReload(j)
  BY <1>21 DEF WorkerReload
<1>22. CASE WorkerRerecord(j)
  BY <1>22 DEF WorkerRerecord
<1>23. CASE WorkerRevive(j)
  BY <1>23 DEF WorkerRevive
<1>24. CASE WorkerRemove(j)
  BY <1>24 DEF WorkerRemove
<1>25. CASE WorkerReport(j)
  BY <1>25 DEF WorkerReport
<1>26. CASE WorkerReportFailed(j)
  BY <1>26 DEF WorkerReportFailed
<1>27. CASE WorkerThrow(j)
  BY <1>27 DEF WorkerThrow
<1>28. CASE WorkerKill(j)
  BY <1>28 DEF WorkerKill
<1> QED BY <1>1, <1>2, <1>3, <1>4, <1>5, <1>6, <1>7, <1>8, <1>9, <1>10, <1>11, <1>12, <1>13,
       <1>14, <1>15, <1>16, <1>17, <1>18, <1>19, <1>20, <1>21, <1>22, <1>23, <1>24, <1>25,
       <1>26, <1>27, <1>28 DEF WorkerStep

\* What a step of Recover.ps1 for j leaves alone, and what it does to the mutex.
RecoverFrame(c, j) ==
  /\ \A r \in Recoverers \ {<<c, j>>} : rpc'[r] = rpc[r]
  /\ \A k \in Jobs \ {j} : /\ hasBefore'[k] = hasBefore[k]
                           /\ desc'[k] = desc[k]
                           /\ task'[k] = task[k]
                           /\ phase'[k] = phase[k]
  /\ UNCHANGED <<pc, target, meta, made>>
  /\ \/ rpc[<<c, j>>] \in RecoverLocked
     \/ mutex = NoOne
     \/ UNCHANGED <<pointer, hasBefore, desc, task>>
  /\ \/ rpc[<<c, j>>] \in {"q_pointer", "q_loader", "q_record"}
     \/ UNCHANGED <<pointer, loader, record>>
  /\ \/ mutex' = mutex /\ (rpc'[<<c, j>>] \in RecoverLocked => rpc[<<c, j>>] \in RecoverLocked)
     \/ mutex = NoOne /\ mutex' = <<c, j>>
     \/ mutex = <<c, j>> /\ mutex' = NoOne /\ rpc'[<<c, j>>] = "idle"

\* Every step of a recovery respects its frame.
LEMMA RecoverFrameHolds ==
  ASSUME TypeOK, LockHeld, NEW c \in Callers, NEW j \in Jobs,
         RecoverStep(c, j) \/ RecoverThrow(c, j) \/ RecoverKill(c, j)
  PROVE RecoverFrame(c, j)
<1> USE RecoverId DEF TypeOK, RecoverFrame, LockHeld
<1>1. CASE RecoverTimeout(c, j)
  BY <1>1 DEF RecoverTimeout, DropSnapshot
<1>2. CASE RecoverNothing(c, j)
  BY <1>2 DEF RecoverNothing, DropSnapshot
<1>3. CASE RecoverEnter(c, j)
  BY <1>3 DEF RecoverEnter, DropSnapshot
<1>4. CASE RecoverPointer(c, j)
  BY <1>4 DEF RecoverPointer, DropSnapshot
<1>5. CASE RecoverLoader(c, j)
  BY <1>5 DEF RecoverLoader, DropSnapshot
<1>6. CASE RecoverRecord(c, j)
  BY <1>6 DEF RecoverRecord, DropSnapshot
<1>7. CASE RecoverRemove(c, j)
  BY <1>7 DEF RecoverRemove, DropSnapshot
<1>8. CASE RecoverTask(c, j)
  BY <1>8 DEF RecoverTask, DropSnapshot
<1>9. CASE RecoverSnap(c, j)
  BY <1>9 DEF RecoverSnap, DropSnapshot
<1>10. CASE RecoverBefore(c, j)
  BY <1>10 DEF RecoverBefore, DropSnapshot
<1>11. CASE RecoverDesc(c, j)
  BY <1>11 DEF RecoverDesc, DropSnapshot
<1>12. CASE RecoverDrop(c, j)
  BY <1>12 DEF RecoverDrop, DropSnapshot
<1>13. CASE RecoverReport(c, j)
  BY <1>13 DEF RecoverReport, DropSnapshot
<1>14. CASE RecoverThrow(c, j)
  BY <1>14 DEF RecoverThrow, DropSnapshot
<1>15. CASE RecoverKill(c, j)
  BY <1>15 DEF RecoverKill, DropSnapshot
<1> QED BY <1>1, <1>2, <1>3, <1>4, <1>5, <1>6, <1>7, <1>8, <1>9, <1>10, <1>11, <1>12, <1>13,
       <1>14, <1>15 DEF RecoverStep

-----------------------------------------------------------------------------
(* Mutual exclusion *)

\* A step of a worker keeps everybody past the mutex its holder.
LEMMA WorkerLock ==
  ASSUME LockHeld, NEW j \in Jobs, WorkerFrame(j)
  PROVE LockHeld'
<1> USE WorkerId, RecoverId DEF LockHeld, WorkerFrame
<1>1. ASSUME NEW k \in Jobs, pc'[k] \in Locked PROVE mutex' = <<"worker", k>>
  <2>1. CASE k = j BY <1>1, <2>1
  <2>2. CASE k # j BY <1>1, <2>2
  <2> QED BY <2>1, <2>2
<1>2. ASSUME NEW c \in Callers, NEW k \in Jobs, rpc'[<<c, k>>] \in RecoverLocked
      PROVE mutex' = <<c, k>>
  BY <1>2
<1> QED BY <1>1, <1>2

\* So does a step of a recovery.
LEMMA RecoverLock ==
  ASSUME LockHeld, NEW c \in Callers, NEW j \in Jobs, RecoverFrame(c, j)
  PROVE LockHeld'
<1> USE WorkerId, RecoverId DEF LockHeld, RecoverFrame
<1>1. ASSUME NEW k \in Jobs, pc'[k] \in Locked PROVE mutex' = <<"worker", k>>
  BY <1>1
<1>2. ASSUME NEW d \in Callers, NEW k \in Jobs, rpc'[<<d, k>>] \in RecoverLocked
      PROVE mutex' = <<d, k>>
  <2>1. CASE <<d, k>> = <<c, j>> BY <1>2, <2>1
  <2>2. CASE <<d, k>> # <<c, j>> BY <1>2, <2>2
  <2> QED BY <2>1, <2>2
<1> QED BY <1>1, <1>2

-----------------------------------------------------------------------------
(* What the step of one job does to the others *)

\* A worker step leaves the other workers armed and protected: one that relies on
\* installation.json holds the mutex, so the one that steps does not touch it.
LEMMA WorkerOthers ==
  ASSUME LockHeld, ArmedInOrder, CommitIsProtected, NEW j \in Jobs, WorkerFrame(j),
         NEW k \in Jobs \ {j}
  PROVE ArmedAt(k)' /\ ProtectedAt(k)'
<1>1. pc[k] \in Locked => pointer' = pointer
  BY WorkerId DEF LockHeld, WorkerFrame
<1>2. ArmedAt(k) /\ ProtectedAt(k) BY DEF ArmedInOrder, CommitIsProtected
<1> QED BY <1>1, <1>2 DEF WorkerFrame, ArmedAt, ProtectedAt, Covered, Committed

\* A recovery that is under way keeps its transaction while a worker steps.
LEMMA WorkerUndo ==
  ASSUME LockHeld, UndoIsCovered, NEW j \in Jobs, WorkerFrame(j)
  PROVE UndoIsCovered'
<1> SUFFICES ASSUME NEW c \in Callers, NEW k \in Jobs,
                    rpc'[<<c, k>>] \in {"q_pointer", "q_loader", "q_record", "q_remove",
                                       "q_task", "q_snap", "q_before"}
             PROVE Covered(k)'
  BY DEF UndoIsCovered
<1>1. mutex = <<c, k>> BY DEF LockHeld, WorkerFrame
<1>2. Covered(k) BY DEF UndoIsCovered, WorkerFrame
<1>3. pc[j] \notin Locked BY <1>1, RecoverId DEF LockHeld
<1> QED BY <1>2, <1>3 DEF WorkerFrame, Covered

\* A recovery leaves every worker armed and protected.
LEMMA RecoverWorkers ==
  ASSUME LockHeld, ArmedInOrder, CommitIsProtected, NEW c \in Callers, NEW j \in Jobs,
         RecoverFrame(c, j), NEW k \in Jobs
  PROVE ArmedAt(k)' /\ ProtectedAt(k)'
<1>1. pc[k] \in Locked => UNCHANGED <<pointer, hasBefore, desc, task>>
  BY WorkerId, RecoverId DEF LockHeld, RecoverFrame
<1>2. ArmedAt(k) /\ ProtectedAt(k) BY DEF ArmedInOrder, CommitIsProtected
<1> QED BY <1>1, <1>2 DEF RecoverFrame, ArmedAt, ProtectedAt, Covered, Committed

-----------------------------------------------------------------------------
(* What a step does to its own job *)

\* The order of the script: a worker arms before it commits, and disarms after.
LEMMA WorkerOwn ==
  ASSUME NEW j \in Jobs, TypeOK, ArmedAt(j), ProtectedAt(j),
         WorkerStep(j) \/ WorkerThrow(j) \/ WorkerKill(j)
  PROVE ArmedAt(j)' /\ ProtectedAt(j)'
<1> USE DEF TypeOK, ArmedAt, ProtectedAt, Covered, Committed
<1>1. CASE WorkerRead(j)
  BY <1>1 DEF WorkerRead
<1>2. CASE WorkerEnter(j)
  BY <1>2 DEF WorkerEnter
<1>3. CASE WorkerPlace(j)
  BY <1>3 DEF WorkerPlace
<1>4. CASE WorkerGuard(j)
  BY <1>4 DEF WorkerGuard
<1>5. CASE WorkerArm(j)
  BY <1>5 DEF WorkerArm
<1>6. CASE WorkerSnap(j)
  BY <1>6 DEF WorkerSnap
<1>7. CASE WorkerMove(j)
  BY <1>7 DEF WorkerMove
<1>8. CASE WorkerRegister(j)
  BY <1>8 DEF WorkerRegister
<1>9. CASE WorkerStop(j)
  BY <1>9 DEF WorkerStop
<1>10. CASE WorkerCommit(j)
  BY <1>10 DEF WorkerCommit
<1>11. CASE WorkerLoad(j)
  BY <1>11 DEF WorkerLoad
<1>12. CASE WorkerRecord(j)
  BY <1>12 DEF WorkerRecord
<1>13. CASE WorkerServe(j)
  BY <1>13 DEF WorkerServe
<1>14. CASE WorkerOutcome(j)
  BY <1>14 DEF WorkerOutcome
<1>15. CASE WorkerFinish(j)
  BY <1>15 DEF WorkerFinish
<1>16. CASE WorkerClear(j)
  BY <1>16 DEF WorkerClear
<1>17. CASE WorkerDrop(j)
  BY <1>17 DEF WorkerDrop, DropSnapshot
<1>18. CASE WorkerUnlink(j)
  BY <1>18 DEF WorkerUnlink
<1>19. CASE WorkerQuit(j)
  BY <1>19 DEF WorkerQuit
<1>20. CASE WorkerRepoint(j)
  BY <1>20 DEF WorkerRepoint
<1>21. CASE WorkerReload(j)
  BY <1>21 DEF WorkerReload
<1>22. CASE WorkerRerecord(j)
  BY <1>22 DEF WorkerRerecord
<1>23. CASE WorkerRevive(j)
  BY <1>23 DEF WorkerRevive
<1>24. CASE WorkerRemove(j)
  BY <1>24 DEF WorkerRemove, AfterRemove
<1>25. CASE WorkerReport(j)
  BY <1>25 DEF WorkerReport
<1>26. CASE WorkerReportFailed(j)
  BY <1>26 DEF WorkerReportFailed
<1>27. CASE WorkerThrow(j)
  BY <1>27 DEF WorkerThrow, AfterRemove
<1>28. CASE WorkerKill(j)
  BY <1>28 DEF WorkerKill, Dead
<1> QED BY <1>1, <1>2, <1>3, <1>4, <1>5, <1>6, <1>7, <1>8, <1>9, <1>10, <1>11, <1>12, <1>13,
       <1>14, <1>15, <1>16, <1>17, <1>18, <1>19, <1>20, <1>21, <1>22, <1>23, <1>24, <1>25,
       <1>26, <1>27, <1>28 DEF WorkerStep

\* A recovery undoes only a transaction it found, and removes it last.
LEMMA RecoverUndo ==
  ASSUME TypeOK, LockHeld, UndoIsCovered, NEW c \in Callers, NEW j \in Jobs,
         RecoverStep(c, j) \/ RecoverThrow(c, j) \/ RecoverKill(c, j)
  PROVE UndoIsCovered'
<1> SUFFICES ASSUME NEW d \in Callers, NEW k \in Jobs,
                    rpc'[<<d, k>>] \in {"q_pointer", "q_loader", "q_record", "q_remove",
                                       "q_task", "q_snap", "q_before"}
             PROVE Covered(k)'
  BY DEF UndoIsCovered
<1>1. CASE <<d, k>> # <<c, j>>
  <2>0. RecoverFrame(c, j) BY RecoverFrameHolds
  <2>1. mutex = <<d, k>> /\ Covered(k) /\ mutex # <<c, j>> /\ mutex # NoOne
    BY <1>1, <2>0, RecoverId DEF RecoverFrame, LockHeld, UndoIsCovered
  <2>2. UNCHANGED <<hasBefore, desc>>
    BY <2>0, <2>1 DEF RecoverFrame, LockHeld
  <2> QED BY <2>1, <2>2 DEF Covered
<1>2. CASE <<d, k>> = <<c, j>>
  <2> USE <1>2, RecoverId DEF TypeOK, UndoIsCovered, Covered
  <2>1. CASE RecoverTimeout(c, j)
    BY <2>1 DEF RecoverTimeout, DropSnapshot
  <2>2. CASE RecoverNothing(c, j)
    BY <2>2 DEF RecoverNothing, DropSnapshot
  <2>3. CASE RecoverEnter(c, j)
    BY <2>3 DEF RecoverEnter, DropSnapshot, Undoable
  <2>4. CASE RecoverPointer(c, j)
    BY <2>4 DEF RecoverPointer, DropSnapshot
  <2>5. CASE RecoverLoader(c, j)
    BY <2>5 DEF RecoverLoader, DropSnapshot
  <2>6. CASE RecoverRecord(c, j)
    BY <2>6 DEF RecoverRecord, DropSnapshot
  <2>7. CASE RecoverRemove(c, j)
    BY <2>7 DEF RecoverRemove, DropSnapshot
  <2>8. CASE RecoverTask(c, j)
    BY <2>8 DEF RecoverTask, DropSnapshot
  <2>9. CASE RecoverSnap(c, j)
    BY <2>9 DEF RecoverSnap, DropSnapshot
  <2>10. CASE RecoverBefore(c, j)
    BY <2>10 DEF RecoverBefore, DropSnapshot
  <2>11. CASE RecoverDesc(c, j)
    BY <2>11 DEF RecoverDesc, DropSnapshot
  <2>12. CASE RecoverDrop(c, j)
    BY <2>12 DEF RecoverDrop, DropSnapshot
  <2>13. CASE RecoverReport(c, j)
    BY <2>13 DEF RecoverReport, DropSnapshot
  <2>14. CASE RecoverThrow(c, j)
    BY <2>14 DEF RecoverThrow, DropSnapshot
  <2>15. CASE RecoverKill(c, j)
    BY <2>15 DEF RecoverKill, DropSnapshot
  <2> QED BY <2>1, <2>2, <2>3, <2>4, <2>5, <2>6, <2>7, <2>8, <2>9, <2>10, <2>11, <2>12, <2>13,
         <2>14, <2>15 DEF RecoverStep
<1> QED BY <1>1, <1>2

-----------------------------------------------------------------------------
(* The steps of the backend, the boot task, the launcher and the machine *)

\* None of them touches the installation or what protects it.
LEMMA OtherFrame ==
  ASSUME TypeOK, OtherStep
  PROVE UNCHANGED <<pointer, loader, record, hasBefore, desc, task, meta>>
<1>1. CASE \E j \in Jobs, v \in Versions : RunUpdate(j, v)
  BY <1>1 DEF RunUpdate
<1>2. CASE \E rt \in Versions : PollRead(rt)
  BY <1>2 DEF PollRead
<1>3. CASE PollDecide
  BY <1>3 DEF PollDecide
<1>4. CASE \E j \in Jobs : TaskRun(j)
  BY <1>4 DEF TaskRun
<1>5. CASE LauncherScan
  BY <1>5 DEF LauncherScan
<1>6. CASE Launch
  BY <1>6 DEF Launch
<1>7. CASE Reboot
  BY <1>7 DEF Reboot
<1> QED BY <1>1, <1>2, <1>3, <1>4, <1>5, <1>6, <1>7 DEF OtherStep

\* They move no process past the mutex, and free it only when every process ends.
LEMMA OtherControl ==
  ASSUME TypeOK, OtherStep
  PROVE /\ \A j \in Jobs : pc'[j] \in Locked => pc[j] = pc'[j] /\ mutex' = mutex
        /\ \A c \in Callers, j \in Jobs : rpc'[<<c, j>>] \in RecoverLocked =>
             rpc[<<c, j>>] = rpc'[<<c, j>>] /\ mutex' = mutex
        /\ \A j \in Jobs : /\ pc'[j] # "none" /\ pc[j] # "none" => target'[j] = target[j]
                           /\ pc'[j] # "none" /\ pc[j] = "none" => target'[j] \in Versions
<1> USE RecoverId, CallerIds DEF TypeOK
<1>1. CASE \E j \in Jobs, v \in Versions : RunUpdate(j, v)
  BY <1>1 DEF RunUpdate
<1>2. CASE \E rt \in Versions : PollRead(rt)
  BY <1>2 DEF PollRead
<1>3. CASE PollDecide
  BY <1>3 DEF PollDecide
<1>4. CASE \E j \in Jobs : TaskRun(j)
  <2>1. UNCHANGED <<pc, mutex, target>>
    BY <1>4 DEF TaskRun
  <2>2. PICK k \in Jobs : TaskRun(k)
    BY <1>4
  <2>3. CASE rpc' = rpc
    BY <2>1, <2>3
  <2>4. CASE rpc' = [rpc EXCEPT ![<<"task", k>>] = "wait"]
    BY <2>1, <2>4
  <2> QED BY <2>2, <2>3, <2>4 DEF TaskRun
<1>5. CASE LauncherScan
  <2>1. UNCHANGED <<pc, mutex, target>>
    BY <1>5 DEF LauncherScan
  <2>2. rpc' = rpc \/ \E k \in Jobs : rpc' = [rpc EXCEPT ![<<"launcher", k>>] = "wait"]
    BY <1>5 DEF LauncherScan
  <2>3. CASE rpc' = rpc
    BY <2>1, <2>3
  <2>4. CASE \E k \in Jobs : rpc' = [rpc EXCEPT ![<<"launcher", k>>] = "wait"]
    <3>1. PICK k \in Jobs : rpc' = [rpc EXCEPT ![<<"launcher", k>>] = "wait"]
      BY <2>4
    <3> QED BY <2>1, <3>1
  <2> QED BY <2>2, <2>3, <2>4
<1>6. CASE Launch
  BY <1>6 DEF Launch
<1>7. CASE Reboot
  BY <1>7 DEF Reboot
<1> QED BY <1>1, <1>2, <1>3, <1>4, <1>5, <1>6, <1>7 DEF OtherStep

\* So they keep the invariant.
LEMMA OtherKeep ==
  ASSUME IInv, OtherStep
  PROVE IInv'
<1> USE DEF IInv
<1>1. TypeOK'
  BY OtherTypes DEF OtherStep
<1>2. LockHeld'
  BY OtherControl DEF LockHeld
<1>3. ASSUME NEW j \in Jobs PROVE ArmedAt(j)' /\ ProtectedAt(j)'
  <2>1. ArmedAt(j) /\ ProtectedAt(j)
    BY DEF ArmedInOrder, CommitIsProtected
  <2>2. UNCHANGED <<pointer, hasBefore, desc, task, meta>>
    BY OtherFrame
  <2>3. pc'[j] \in Locked => pc[j] = pc'[j]
    BY OtherControl
  <2>4. pc'[j] # "none" => target'[j] \in Versions
    BY <2>1, OtherControl DEF ArmedAt
  <2>5. pc'[j] \in Locked => target'[j] = target[j]
    BY <2>3, OtherControl
  <2> QED BY <2>1, <2>2, <2>3, <2>4, <2>5 DEF ArmedAt, ProtectedAt, Covered, Committed
<1>4. UndoIsCovered'
  BY OtherFrame, OtherControl DEF UndoIsCovered, Covered
<1> QED BY <1>1, <1>2, <1>3, <1>4 DEF ArmedInOrder, CommitIsProtected

-----------------------------------------------------------------------------
(* The inductive invariant *)

\* Before the first update nothing is locked, armed or committed.
LEMMA InitKeep == Init => IInv
  BY InitTypes DEF Init, IInv, LockHeld, ArmedInOrder, ArmedAt, CommitIsProtected, ProtectedAt,
                   UndoIsCovered, Callers, Recoverers

\* A worker keeps the invariant.
LEMMA WorkerKeep ==
  ASSUME IInv, NEW j \in Jobs, WorkerStep(j) \/ WorkerThrow(j) \/ WorkerKill(j)
  PROVE IInv'
<1> USE DEF IInv
<1>1. WorkerFrame(j)
  BY WorkerFrameHolds
<1>2. ArmedAt(j) /\ ProtectedAt(j)
  BY DEF ArmedInOrder, CommitIsProtected
<1>3. TypeOK'
  BY <1>2, WorkerTypes
<1>4. LockHeld' /\ UndoIsCovered'
  BY <1>1, WorkerLock, WorkerUndo
<1>5. ASSUME NEW k \in Jobs PROVE ArmedAt(k)' /\ ProtectedAt(k)'
  <2>1. CASE k = j
    BY <1>2, <2>1, WorkerOwn
  <2>2. CASE k # j
    BY <1>1, <2>2, WorkerOthers
  <2> QED BY <2>1, <2>2
<1> QED BY <1>3, <1>4, <1>5 DEF ArmedInOrder, CommitIsProtected

\* A recovery keeps the invariant.
LEMMA RecoverKeep ==
  ASSUME IInv, NEW c \in Callers, NEW j \in Jobs,
         RecoverStep(c, j) \/ RecoverThrow(c, j) \/ RecoverKill(c, j)
  PROVE IInv'
<1> USE DEF IInv
<1>1. RecoverFrame(c, j)
  BY RecoverFrameHolds
<1>2. TypeOK'
  BY RecoverTypes
<1>3. LockHeld' /\ UndoIsCovered'
  BY <1>1, RecoverLock, RecoverUndo
<1>4. ASSUME NEW k \in Jobs PROVE ArmedAt(k)' /\ ProtectedAt(k)'
  BY <1>1, RecoverWorkers
<1> QED BY <1>2, <1>3, <1>4 DEF ArmedInOrder, CommitIsProtected

\* So does a step that changes nothing.
LEMMA StutterKeep == IInv /\ UNCHANGED vars => IInv'
  BY DEF IInv, vars, TypeOK, LockHeld, ArmedInOrder, ArmedAt, CommitIsProtected, ProtectedAt,
         UndoIsCovered, Covered, Committed

\* Every step is a step of one of the three kinds.
LEMMA StepKinds ==
  ASSUME TypeOK, Next
  PROVE \/ \E j \in Jobs : WorkerStep(j) \/ WorkerThrow(j) \/ WorkerKill(j)
        \/ \E c \in Callers, j \in Jobs : RecoverStep(c, j) \/ RecoverThrow(c, j) \/ RecoverKill(c, j)
        \/ OtherStep
  BY DEF Next, Backend, Environment, OtherStep

\* The inductive invariant holds in every reachable state.
THEOREM Invariance == Spec => []IInv
<1>1. IInv /\ [Next]_vars => IInv'
  BY StepKinds, WorkerKeep, RecoverKeep, OtherKeep, StutterKeep DEF IInv
<1> QED BY InitKeep, <1>1, PTL DEF Spec

\* Every variable keeps its type.
THEOREM TypeCorrect == Spec => []TypeOK
<1>1. IInv => TypeOK
  BY DEF IInv
<1> QED BY <1>1, Invariance, PTL

\* Whoever is past the mutex holds it: two workers, two recoveries, or a worker and a
\* recovery never work on the installation at once.
THEOREM MutualExclusion == Spec => []LockHeld
<1>1. IInv => LockHeld
  BY DEF IInv
<1> QED BY <1>1, Invariance, PTL

\* A committed update that is not over can be undone by whoever finds it, whenever the
\* worker is killed: metadata, descriptor and boot task are there, and installation.json
\* is what that worker wrote.
THEOREM CommitProtection == Spec => []CommitIsProtected
<1>1. IInv => CommitIsProtected
  BY DEF IInv
<1> QED BY <1>1, Invariance, PTL

\* The switch is made, and undone, only under the mutex and while it is covered.
THEOREM SwitchCovered == Spec => SwitchIsCovered
<1> DEFINE Change == <<pointer, loader, record>>' # <<pointer, loader, record>>
           Allowed == \E j \in Jobs : Covered(j) /\ mutex \in ({"worker"} \union Callers) \X {j}
<1>1. ASSUME IInv, Change, NEW j \in Jobs, WorkerStep(j) \/ WorkerThrow(j) \/ WorkerKill(j)
      PROVE Allowed
  <2>1. pc[j] \in Switching
    BY <1>1, WorkerFrameHolds DEF WorkerFrame, IInv
  <2>2. mutex = <<"worker", j>>
    BY <1>1, <2>1 DEF IInv, LockHeld, Switching
  <2>3. Covered(j)
    BY <1>1, <2>1 DEF IInv, ArmedInOrder, ArmedAt, CommitIsProtected, ProtectedAt, Switching
  <2> QED BY <2>2, <2>3
<1>2. ASSUME IInv, Change, NEW c \in Callers, NEW j \in Jobs,
             RecoverStep(c, j) \/ RecoverThrow(c, j) \/ RecoverKill(c, j)
      PROVE Allowed
  <2>1. rpc[<<c, j>>] \in {"q_pointer", "q_loader", "q_record"}
    BY <1>2, RecoverFrameHolds DEF RecoverFrame, IInv
  <2>2. mutex = <<c, j>>
    BY <1>2, <2>1 DEF IInv, LockHeld
  <2>3. Covered(j)
    BY <1>2, <2>1 DEF IInv, UndoIsCovered
  <2> QED BY <2>2, <2>3
<1>3. ASSUME IInv, OtherStep PROVE ~Change
  BY <1>3, OtherFrame DEF IInv
<1>4. IInv /\ [Next]_vars => [Change => Allowed]_vars
  <2>1. ASSUME IInv, Next, Change PROVE Allowed
    <3> HIDE DEF Change, Allowed
    <3> QED BY <1>1, <1>2, <1>3, <2>1, StepKinds DEF IInv
  <2> QED BY <2>1
<1> QED BY <1>4, Invariance, PTL DEF Spec, SwitchIsCovered

-----------------------------------------------------------------------------
(* What a step does to the runtimes *)

\* A worker places its runtime, switches to it, switches back or removes it; it changes
\* nothing else of what the platform starts, begins by reading installation.json, and
\* completes in order.
WorkerEffect(j) ==
  /\ \/ UNCHANGED <<pointer, tree>>
     \/ /\ pc[j] = "place" /\ pc'[j] = "guard"
        /\ pointer' = pointer /\ tree' = [tree EXCEPT ![target[j]] = "intact"]
     \/ pc[j] = "commit" /\ pc'[j] = "load" /\ pointer' = Committed(j) /\ tree' = tree
     \/ /\ pc[j] = "repoint" /\ pc'[j] \in {"reload", "revive"}
        /\ pointer' = meta[j] /\ tree' = tree
     \/ /\ pc[j] = "remove"
        /\ pointer' = pointer
        /\ \E x \in {"absent", "partial"} : tree' = [tree EXCEPT ![target[j]] = x]
  /\ \/ meta' = meta /\ (UnderWay(j)' => UnderWay(j))
     \/ WorkerRead(j)
  /\ pc'[j] \notin {"none", "start"}
  /\ desc'[j] = "completed" => desc[j] = "completed" \/ pc[j] = "outcome"
  /\ phase'[j] = "completed" => phase[j] = "completed" \/ pc[j] = "finish"

\* Every step of a worker has one of these effects.
LEMMA WorkerEffects ==
  ASSUME TypeOK, NEW j \in Jobs, WorkerStep(j) \/ WorkerThrow(j) \/ WorkerKill(j)
  PROVE WorkerEffect(j)
<1> USE DEF TypeOK, WorkerEffect, UnderWay
<1>1. CASE WorkerRead(j)
  BY <1>1 DEF WorkerRead
<1>2. CASE WorkerEnter(j)
  BY <1>2 DEF WorkerEnter
<1>3. CASE WorkerPlace(j)
  BY <1>3 DEF WorkerPlace
<1>4. CASE WorkerGuard(j)
  BY <1>4 DEF WorkerGuard
<1>5. CASE WorkerArm(j)
  BY <1>5 DEF WorkerArm
<1>6. CASE WorkerSnap(j)
  BY <1>6 DEF WorkerSnap
<1>7. CASE WorkerMove(j)
  BY <1>7 DEF WorkerMove
<1>8. CASE WorkerRegister(j)
  BY <1>8 DEF WorkerRegister
<1>9. CASE WorkerStop(j)
  BY <1>9 DEF WorkerStop
<1>10. CASE WorkerCommit(j)
  BY <1>10 DEF WorkerCommit
<1>11. CASE WorkerLoad(j)
  BY <1>11 DEF WorkerLoad
<1>12. CASE WorkerRecord(j)
  BY <1>12 DEF WorkerRecord
<1>13. CASE WorkerServe(j)
  BY <1>13 DEF WorkerServe
<1>14. CASE WorkerOutcome(j)
  BY <1>14 DEF WorkerOutcome
<1>15. CASE WorkerFinish(j)
  BY <1>15 DEF WorkerFinish
<1>16. CASE WorkerClear(j)
  BY <1>16 DEF WorkerClear
<1>17. CASE WorkerDrop(j)
  BY <1>17 DEF WorkerDrop, DropSnapshot
<1>18. CASE WorkerUnlink(j)
  BY <1>18 DEF WorkerUnlink
<1>19. CASE WorkerQuit(j)
  BY <1>19 DEF WorkerQuit
<1>20. CASE WorkerRepoint(j)
  BY <1>20 DEF WorkerRepoint
<1>21. CASE WorkerReload(j)
  BY <1>21 DEF WorkerReload
<1>22. CASE WorkerRerecord(j)
  BY <1>22 DEF WorkerRerecord
<1>23. CASE WorkerRevive(j)
  BY <1>23 DEF WorkerRevive
<1>24. CASE WorkerRemove(j)
  <2>1. /\ pc[j] = "remove" /\ pc'[j] \in {"revive", "clear"}
        /\ UNCHANGED <<pointer, meta, desc, phase>>
    BY <1>24 DEF WorkerRemove, AfterRemove
  <2>2. tree' = tree \/ tree' = [tree EXCEPT ![target[j]] = Removed(target[j])]
    BY <1>24 DEF WorkerRemove
  <2>3. Removed(target[j]) \in {"absent", "partial"}
    BY DEF Removed
  <2> QED BY <2>1, <2>2, <2>3
<1>25. CASE WorkerReport(j)
  BY <1>25 DEF WorkerReport
<1>26. CASE WorkerReportFailed(j)
  BY <1>26 DEF WorkerReportFailed
<1>27. CASE WorkerThrow(j)
  BY <1>27 DEF WorkerThrow, AfterRemove
<1>28. CASE WorkerKill(j)
  BY <1>28 DEF WorkerKill, Dead
<1> QED BY <1>1, <1>2, <1>3, <1>4, <1>5, <1>6, <1>7, <1>8, <1>9, <1>10, <1>11, <1>12, <1>13,
       <1>14, <1>15, <1>16, <1>17, <1>18, <1>19, <1>20, <1>21, <1>22, <1>23, <1>24, <1>25,
       <1>26, <1>27, <1>28 DEF WorkerStep

\* A recovery takes installation.json back or removes the new runtime.
RecoverEffect(c, j) ==
  /\ \/ UNCHANGED <<pointer, tree>>
     \/ rpc[<<c, j>>] = "q_pointer" /\ desc' = desc /\ pointer' = meta[j] /\ tree' = tree
     \/ /\ rpc[<<c, j>>] = "q_remove"
        /\ pointer' = pointer
        /\ \E x \in {"absent", "partial"} : tree' = [tree EXCEPT ![target[j]] = x]
  /\ desc'[j] \in {desc[j], "none"}
  /\ phase'[j] = "completed" => phase[j] = "completed" \/ rpc[<<c, j>>] = "c_report"
  /\ rpc'[<<c, j>>] \in {"c_task", "c_drop", "c_report"} =>
       desc[j] = "completed" \/ rpc[<<c, j>>] \in {"c_task", "c_drop", "c_report"}

\* Every step of a recovery does one of these things.
LEMMA RecoverEffects ==
  ASSUME TypeOK, NEW c \in Callers, NEW j \in Jobs,
         RecoverStep(c, j) \/ RecoverThrow(c, j) \/ RecoverKill(c, j)
  PROVE RecoverEffect(c, j)
<1> USE RecoverId DEF TypeOK, RecoverEffect
<1>1. CASE RecoverTimeout(c, j)
  BY <1>1 DEF RecoverTimeout
<1>2. CASE RecoverNothing(c, j)
  BY <1>2 DEF RecoverNothing
<1>3. CASE RecoverEnter(c, j)
  BY <1>3 DEF RecoverEnter
<1>4. CASE RecoverPointer(c, j)
  BY <1>4 DEF RecoverPointer
<1>5. CASE RecoverLoader(c, j)
  BY <1>5 DEF RecoverLoader
<1>6. CASE RecoverRecord(c, j)
  BY <1>6 DEF RecoverRecord
<1>7. CASE RecoverRemove(c, j)
  BY <1>7 DEF RecoverRemove, Removed
<1>8. CASE RecoverTask(c, j)
  BY <1>8 DEF RecoverTask
<1>9. CASE RecoverSnap(c, j)
  BY <1>9 DEF RecoverSnap
<1>10. CASE RecoverBefore(c, j)
  BY <1>10 DEF RecoverBefore
<1>11. CASE RecoverDesc(c, j)
  BY <1>11 DEF RecoverDesc
<1>12. CASE RecoverDrop(c, j)
  BY <1>12 DEF RecoverDrop
<1>13. CASE RecoverReport(c, j)
  BY <1>13 DEF RecoverReport
<1>14. CASE RecoverThrow(c, j)
  BY <1>14 DEF RecoverThrow
<1>15. CASE RecoverKill(c, j)
  BY <1>15 DEF RecoverKill
<1> QED BY <1>1, <1>2, <1>3, <1>4, <1>5, <1>6, <1>7, <1>8, <1>9, <1>10, <1>11, <1>12, <1>13,
       <1>14, <1>15 DEF RecoverStep

\* Nobody else touches the runtimes, and no update gets under way but by its worker.
LEMMA OtherRuntimes ==
  ASSUME TypeOK, OtherStep
  PROVE /\ UNCHANGED <<pointer, tree, meta, made>>
        /\ \A k \in Jobs : /\ UnderWay(k)' => UnderWay(k)
                           /\ pc'[k] \in {"none", "start"} => pc[k] \in {"none", "start"}
                           /\ target'[k] # target[k] => pc[k] = "none"
                           /\ phase'[k] = "completed" => phase[k] = "completed"
<1> USE DEF TypeOK, UnderWay
<1>1. CASE \E i \in Jobs, v \in Versions : RunUpdate(i, v)
  BY <1>1 DEF RunUpdate
<1>2. CASE \E rt \in Versions : PollRead(rt)
  BY <1>2 DEF PollRead
<1>3. CASE PollDecide
  BY <1>3 DEF PollDecide
<1>4. CASE \E i \in Jobs : TaskRun(i)
  BY <1>4 DEF TaskRun
<1>5. CASE LauncherScan
  BY <1>5 DEF LauncherScan
<1>6. CASE Launch
  BY <1>6 DEF Launch
<1>7. CASE Reboot
  BY <1>7 DEF Reboot
<1> QED BY <1>1, <1>2, <1>3, <1>4, <1>5, <1>6, <1>7 DEF OtherStep

-----------------------------------------------------------------------------
(* A transaction is pending from its arming to the end of its undo *)

\* What a recovery undoes is pending until it removes the descriptor, and an update that
\* has not begun has none.
UndoIsPending(j) ==
  \A c \in Callers :
    rpc[<<c, j>>] \in {"q_pointer", "q_loader", "q_record", "q_remove", "q_task", "q_snap",
                      "q_before", "q_desc"} => desc[j] = "pending"
NotBegun(j) == pc[j] \in {"none", "start"} => desc[j] = "none"
PendingInOrder == \A j \in Jobs : UndoIsPending(j) /\ NotBegun(j)

\* A worker arms once it has begun, and only under the mutex no recovery then holds.
LEMMA WorkerPendingOrder ==
  ASSUME IInv, NEW j \in Jobs, NotBegun(j), UndoIsPending(j),
         WorkerStep(j) \/ WorkerThrow(j) \/ WorkerKill(j)
  PROVE NotBegun(j)' /\ UndoIsPending(j)'
<1>1. WorkerFrame(j)
  BY WorkerFrameHolds DEF IInv
<1>2. UndoIsPending(j)'
  <2> SUFFICES ASSUME NEW c \in Callers,
                      rpc'[<<c, j>>] \in {"q_pointer", "q_loader", "q_record", "q_remove",
                                         "q_task", "q_snap", "q_before", "q_desc"}
               PROVE desc'[j] = "pending"
    BY DEF UndoIsPending
  <2>1. rpc' = rpc
    BY <1>1 DEF WorkerFrame
  <2>2. pc[j] \notin Locked
    BY <2>1, RecoverId DEF IInv, LockHeld
  <2> QED BY <1>1, <2>1, <2>2 DEF WorkerFrame, UndoIsPending
<1>3. NotBegun(j)'
  BY WorkerEffects DEF IInv, WorkerEffect, NotBegun
<1> QED BY <1>2, <1>3

\* A recovery undoes what it found pending.
LEMMA RecoverPendingOrder ==
  ASSUME IInv, NEW c \in Callers, NEW j \in Jobs, NotBegun(j), UndoIsPending(j),
         RecoverStep(c, j) \/ RecoverThrow(c, j) \/ RecoverKill(c, j)
  PROVE NotBegun(j)' /\ UndoIsPending(j)'
<1>1. RecoverFrame(c, j) /\ RecoverEffect(c, j)
  BY RecoverFrameHolds, RecoverEffects DEF IInv
<1>2. NotBegun(j)'
  BY <1>1 DEF RecoverFrame, RecoverEffect, NotBegun
<1>3. ASSUME NEW d \in Callers, d # c,
             rpc'[<<d, j>>] \in {"q_pointer", "q_loader", "q_record", "q_remove",
                                "q_task", "q_snap", "q_before", "q_desc"}
      PROVE desc'[j] = "pending"
  <2>1. rpc'[<<d, j>>] = rpc[<<d, j>>]
    BY <1>1, <1>3, RecoverId DEF RecoverFrame
  <2>2. mutex = <<d, j>> /\ desc[j] = "pending"
    BY <1>3, <2>1 DEF IInv, LockHeld, UndoIsPending
  <2>3. desc' = desc
    BY <1>1, <1>3, <2>2, RecoverId DEF RecoverFrame, IInv, LockHeld
  <2> QED BY <2>2, <2>3
<1>4. rpc'[<<c, j>>] \in {"q_pointer", "q_loader", "q_record", "q_remove",
                           "q_task", "q_snap", "q_before", "q_desc"} => desc'[j] = "pending"
  <2> USE RecoverId DEF IInv, TypeOK, UndoIsPending
  <2>1. CASE RecoverTimeout(c, j)
    BY <2>1 DEF RecoverTimeout
  <2>2. CASE RecoverNothing(c, j)
    BY <2>2 DEF RecoverNothing
  <2>3. CASE RecoverEnter(c, j)
    BY <2>3 DEF RecoverEnter
  <2>4. CASE RecoverPointer(c, j)
    BY <2>4 DEF RecoverPointer
  <2>5. CASE RecoverLoader(c, j)
    BY <2>5 DEF RecoverLoader
  <2>6. CASE RecoverRecord(c, j)
    BY <2>6 DEF RecoverRecord
  <2>7. CASE RecoverRemove(c, j)
    BY <2>7 DEF RecoverRemove
  <2>8. CASE RecoverTask(c, j)
    BY <2>8 DEF RecoverTask
  <2>9. CASE RecoverSnap(c, j)
    BY <2>9 DEF RecoverSnap
  <2>10. CASE RecoverBefore(c, j)
    BY <2>10 DEF RecoverBefore
  <2>11. CASE RecoverDesc(c, j)
    BY <2>11 DEF RecoverDesc
  <2>12. CASE RecoverDrop(c, j)
    BY <2>12 DEF RecoverDrop
  <2>13. CASE RecoverReport(c, j)
    BY <2>13 DEF RecoverReport
  <2>14. CASE RecoverThrow(c, j)
    BY <2>14 DEF RecoverThrow
  <2>15. CASE RecoverKill(c, j)
    BY <2>15 DEF RecoverKill
  <2> QED BY <2>1, <2>2, <2>3, <2>4, <2>5, <2>6, <2>7, <2>8, <2>9, <2>10, <2>11, <2>12, <2>13,
         <2>14, <2>15 DEF RecoverStep

<1> QED BY <1>2, <1>3, <1>4 DEF UndoIsPending

\* The others leave transactions alone and begin only updates that have none.
LEMMA OtherPendingOrder ==
  ASSUME IInv, OtherStep, PendingInOrder
  PROVE PendingInOrder'
<1> SUFFICES ASSUME NEW j \in Jobs PROVE NotBegun(j)' /\ UndoIsPending(j)'
  BY DEF PendingInOrder
<1>1. desc' = desc
  BY OtherFrame DEF IInv
<1>2. \A c \in Callers : rpc'[<<c, j>>] \in RecoverLocked => rpc[<<c, j>>] = rpc'[<<c, j>>]
  BY OtherControl DEF IInv
<1>3. pc'[j] \in {"none", "start"} => pc[j] \in {"none", "start"}
  <2>1. TypeOK
    BY DEF IInv
  <2> QED BY <2>1, OtherRuntimes
<1> QED BY <1>1, <1>2, <1>3 DEF PendingInOrder, NotBegun, UndoIsPending

\* Transactions are pending in that order in every reachable state.
LEMMA PendingOrderInvariance == Spec => []PendingInOrder
<1>1. ASSUME Init PROVE PendingInOrder
  <2>1. ASSUME NEW j \in Jobs PROVE desc[j] = "none" /\ \A c \in Callers : rpc[<<c, j>>] = "idle"
    BY <1>1 DEF Init, Recoverers
  <2>2. ASSUME NEW j \in Jobs PROVE UndoIsPending(j) /\ NotBegun(j)
    BY <2>1 DEF UndoIsPending, NotBegun
  <2> QED BY <2>2, Zenon DEF PendingInOrder
<1>2. ASSUME IInv, PendingInOrder, NEW j \in Jobs, WorkerStep(j) \/ WorkerThrow(j) \/ WorkerKill(j)
      PROVE PendingInOrder'
  <2>1. WorkerFrame(j)
    BY <1>2, WorkerFrameHolds DEF IInv
  <2>2. NotBegun(j)' /\ UndoIsPending(j)'
    BY <1>2, WorkerPendingOrder DEF PendingInOrder
  <2>3. ASSUME NEW k \in Jobs \ {j} PROVE NotBegun(k)' /\ UndoIsPending(k)'
    BY <1>2, <2>1, <2>3 DEF PendingInOrder, WorkerFrame, NotBegun, UndoIsPending
  <2> QED BY <2>2, <2>3 DEF PendingInOrder
<1>3. ASSUME IInv, PendingInOrder, NEW c \in Callers, NEW j \in Jobs,
             RecoverStep(c, j) \/ RecoverThrow(c, j) \/ RecoverKill(c, j)
      PROVE PendingInOrder'
  <2>1. RecoverFrame(c, j)
    BY <1>3, RecoverFrameHolds DEF IInv
  <2>2. NotBegun(j)' /\ UndoIsPending(j)'
    BY <1>3, RecoverPendingOrder DEF PendingInOrder
  <2>3. ASSUME NEW k \in Jobs \ {j} PROVE NotBegun(k)' /\ UndoIsPending(k)'
    BY <1>3, <2>1, <2>3, RecoverId DEF PendingInOrder, RecoverFrame, NotBegun, UndoIsPending
  <2> QED BY <2>2, <2>3 DEF PendingInOrder
<1>4. IInv /\ PendingInOrder /\ [Next]_vars => PendingInOrder'
  <2>1. ASSUME IInv, PendingInOrder, Next PROVE PendingInOrder'
    BY <1>2, <1>3, <2>1, StepKinds, OtherPendingOrder DEF IInv
  <2>2. ASSUME PendingInOrder, UNCHANGED vars PROVE PendingInOrder'
    BY <2>2 DEF vars, PendingInOrder, NotBegun, UndoIsPending
  <2> QED BY <2>1, <2>2
<1> QED BY <1>1, <1>4, Invariance, PTL DEF Spec

-----------------------------------------------------------------------------
(* Updates that follow each other, whatever is thrown, killed or rebooted *)

\* Both ends of the update under way are sound while installation.json may name them: the
\* old runtime always, the new one from its placement to the switch and as long as it is
\* the active one.  Whoever deletes the new runtime works under the old metadata.
Placed == {"guard", "arm", "snap", "move", "register", "stop", "commit"}
BeforeSwitch == {"none", "start", "read"} \union PreCommit
AfterRepoint == {"reload", "rerecord", "revive", "remove"}
SoundEnds(j) ==
  /\ tree[meta[j].active] = "intact"
  /\ pointer \in {meta[j], Committed(j)}
  /\ pc[j] # "none" => target[j] # meta[j].active
  /\ pc[j] \in Placed \/ pointer # meta[j] => tree[target[j]] = "intact"
  /\ pc[j] \in BeforeSwitch \union AfterRepoint => pointer = meta[j]
  /\ made[j] => pc[j] # "none"
  /\ \A c \in Callers : rpc[<<c, j>>] \in {"q_loader", "q_record", "q_remove"} => pointer = meta[j]
UpdateIsSound == ActiveIntact /\ \A j \in Jobs : UnderWay(j) => SoundEnds(j)

\* A worker keeps the ends sound: it deletes the new runtime only when the old one is the
\* active one again, and switches only to a runtime it has placed.
LEMMA WorkerSound ==
  ASSUME IInv, NEW j \in Jobs, SoundEnds(j), WorkerStep(j) \/ WorkerThrow(j) \/ WorkerKill(j)
  PROVE SoundEnds(j)'
<1> USE WorkerId, RecoverId
    DEF IInv, TypeOK, LockHeld, ArmedInOrder, ArmedAt, CommitIsProtected, ProtectedAt, SoundEnds,
        Placed, BeforeSwitch, AfterRepoint, Committed
<1>1. CASE WorkerRead(j)
  BY <1>1 DEF WorkerRead
<1>2. CASE WorkerEnter(j)
  BY <1>2 DEF WorkerEnter
<1>3. CASE WorkerPlace(j)
  BY <1>3 DEF WorkerPlace
<1>4. CASE WorkerGuard(j)
  BY <1>4 DEF WorkerGuard
<1>5. CASE WorkerArm(j)
  BY <1>5 DEF WorkerArm
<1>6. CASE WorkerSnap(j)
  BY <1>6 DEF WorkerSnap
<1>7. CASE WorkerMove(j)
  BY <1>7 DEF WorkerMove
<1>8. CASE WorkerRegister(j)
  BY <1>8 DEF WorkerRegister
<1>9. CASE WorkerStop(j)
  BY <1>9 DEF WorkerStop
<1>10. CASE WorkerCommit(j)
  BY <1>10 DEF WorkerCommit
<1>11. CASE WorkerLoad(j)
  BY <1>11 DEF WorkerLoad
<1>12. CASE WorkerRecord(j)
  BY <1>12 DEF WorkerRecord
<1>13. CASE WorkerServe(j)
  BY <1>13 DEF WorkerServe
<1>14. CASE WorkerOutcome(j)
  BY <1>14 DEF WorkerOutcome
<1>15. CASE WorkerFinish(j)
  BY <1>15 DEF WorkerFinish
<1>16. CASE WorkerClear(j)
  BY <1>16 DEF WorkerClear
<1>17. CASE WorkerDrop(j)
  BY <1>17 DEF WorkerDrop, DropSnapshot
<1>18. CASE WorkerUnlink(j)
  BY <1>18 DEF WorkerUnlink
<1>19. CASE WorkerQuit(j)
  BY <1>19 DEF WorkerQuit
<1>20. CASE WorkerRepoint(j)
  BY <1>20 DEF WorkerRepoint
<1>21. CASE WorkerReload(j)
  BY <1>21 DEF WorkerReload
<1>22. CASE WorkerRerecord(j)
  BY <1>22 DEF WorkerRerecord
<1>23. CASE WorkerRevive(j)
  BY <1>23 DEF WorkerRevive
<1>24. CASE WorkerRemove(j)
  BY <1>24 DEF WorkerRemove, AfterRemove, MayRemove, Removed
<1>25. CASE WorkerReport(j)
  BY <1>25 DEF WorkerReport
<1>26. CASE WorkerReportFailed(j)
  BY <1>26 DEF WorkerReportFailed
<1>27. CASE WorkerThrow(j)
  BY <1>27 DEF WorkerThrow, AfterRemove, MayRemove
<1>28. CASE WorkerKill(j)
  BY <1>28 DEF WorkerKill, Dead, MayRemove
<1> QED BY <1>1, <1>2, <1>3, <1>4, <1>5, <1>6, <1>7, <1>8, <1>9, <1>10, <1>11, <1>12, <1>13,
       <1>14, <1>15, <1>16, <1>17, <1>18, <1>19, <1>20, <1>21, <1>22, <1>23, <1>24, <1>25,
       <1>26, <1>27, <1>28 DEF WorkerStep

\* So does a recovery.
LEMMA RecoverSound ==
  ASSUME IInv, NEW c \in Callers, NEW j \in Jobs, SoundEnds(j),
         RecoverStep(c, j) \/ RecoverThrow(c, j) \/ RecoverKill(c, j)
  PROVE SoundEnds(j)'
<1> USE WorkerId, RecoverId
    DEF IInv, TypeOK, LockHeld, ArmedInOrder, ArmedAt, SoundEnds,
        Placed, BeforeSwitch, AfterRepoint, Committed
<1>1. CASE RecoverTimeout(c, j)
  BY <1>1 DEF RecoverTimeout
<1>2. CASE RecoverNothing(c, j)
  BY <1>2 DEF RecoverNothing
<1>3. CASE RecoverEnter(c, j)
  <2>1. UNCHANGED <<pointer, tree, meta, target, pc, made>>
    BY <1>3 DEF RecoverEnter
  <2>2. ASSUME NEW d \in Callers, rpc'[<<d, j>>] \in {"q_loader", "q_record", "q_remove"}
        PROVE pointer = meta[j]
    <3>1. CASE d = c
      BY <1>3, <2>2, <3>1 DEF RecoverEnter, Undoable
    <3>2. CASE d # c
      BY <1>3, <2>2, <3>2 DEF RecoverEnter
    <3> QED BY <3>1, <3>2
  <2> QED BY <2>1, <2>2
<1>4. CASE RecoverPointer(c, j)
  BY <1>4 DEF RecoverPointer
<1>5. CASE RecoverLoader(c, j)
  BY <1>5 DEF RecoverLoader
<1>6. CASE RecoverRecord(c, j)
  BY <1>6 DEF RecoverRecord
<1>7. CASE RecoverRemove(c, j)
  BY <1>7 DEF RecoverRemove, MayRemove, Removed
<1>8. CASE RecoverTask(c, j)
  BY <1>8 DEF RecoverTask
<1>9. CASE RecoverSnap(c, j)
  BY <1>9 DEF RecoverSnap, DropSnapshot
<1>10. CASE RecoverBefore(c, j)
  BY <1>10 DEF RecoverBefore
<1>11. CASE RecoverDesc(c, j)
  BY <1>11 DEF RecoverDesc
<1>12. CASE RecoverDrop(c, j)
  BY <1>12 DEF RecoverDrop, DropSnapshot
<1>13. CASE RecoverReport(c, j)
  BY <1>13 DEF RecoverReport
<1>14. CASE RecoverThrow(c, j)
  <2>1. UNCHANGED <<pointer, meta, target, pc, made>>
    BY <1>14 DEF RecoverThrow
  <2>2. CASE rpc[<<c, j>>] = "q_remove"
    BY <1>14, <2>2 DEF RecoverThrow, MayRemove
  <2>3. CASE rpc[<<c, j>>] # "q_remove"
    <3>1. tree' = tree /\ rpc' = [rpc EXCEPT ![<<c, j>>] = "idle"]
      BY <1>14, <2>3 DEF RecoverThrow
    <3> QED BY <2>1, <3>1
  <2> QED BY <2>2, <2>3
<1>15. CASE RecoverKill(c, j)
  BY <1>15 DEF RecoverKill, MayRemove
<1> QED BY <1>1, <1>2, <1>3, <1>4, <1>5, <1>6, <1>7, <1>8, <1>9, <1>10, <1>11, <1>12, <1>13,
       <1>14, <1>15 DEF RecoverStep

\* Nothing else touches the installation, and an update starts towards a later release.
LEMMA OtherSound ==
  ASSUME IInv, OtherStep, NEW j \in Jobs, SoundEnds(j)
  PROVE SoundEnds(j)'
<1> USE RecoverId, CallerIds DEF IInv, TypeOK, SoundEnds, Placed, BeforeSwitch, AfterRepoint, Committed
<1>1. CASE \E i \in Jobs, v \in Versions : RunUpdate(i, v)
  <2>1. PICK i \in Jobs, v \in Versions : RunUpdate(i, v)
    BY <1>1
  <2>2. UNCHANGED <<pointer, tree, meta, made, rpc>>
    BY <2>1 DEF RunUpdate
  <2>3. CASE i = j
    <3>1. pc[j] = "none" /\ pc'[j] = "start" /\ target'[j] = v /\ v > pointer.active
      BY <2>1, <2>3 DEF RunUpdate
    <3>2. pointer = meta[j] /\ v # meta[j].active
      BY <3>1, ConstantsOK
    <3> QED BY <2>2, <3>1, <3>2
  <2>4. CASE i # j
    BY <2>1, <2>2, <2>4 DEF RunUpdate
  <2> QED BY <2>3, <2>4
<1>2. CASE \E rt \in Versions : PollRead(rt)
  BY <1>2 DEF PollRead
<1>3. CASE PollDecide
  BY <1>3 DEF PollDecide
<1>4. CASE \E i \in Jobs : TaskRun(i)
  <2>1. UNCHANGED <<pointer, tree, meta, made, target, pc>>
    BY <1>4 DEF TaskRun
  <2>2. \A c \in Callers : rpc'[<<c, j>>] \in RecoverLocked => rpc[<<c, j>>] = rpc'[<<c, j>>]
    BY OtherControl
  <2> QED BY <2>1, <2>2
<1>5. CASE LauncherScan
  <2>1. UNCHANGED <<pointer, tree, meta, made, target, pc>>
    BY <1>5 DEF LauncherScan
  <2>2. \A c \in Callers : rpc'[<<c, j>>] \in RecoverLocked => rpc[<<c, j>>] = rpc'[<<c, j>>]
    BY OtherControl
  <2> QED BY <2>1, <2>2
<1>6. CASE Launch
  BY <1>6 DEF Launch
<1>7. CASE Reboot
  BY <1>7 DEF Reboot
<1> QED BY <1>1, <1>2, <1>3, <1>4, <1>5, <1>6, <1>7 DEF OtherStep

\* An update that begins reads an installation.json that names a sound runtime.
LEMMA ReadSound ==
  ASSUME IInv, ActiveIntact, NEW j \in Jobs, WorkerRead(j), ~UnderWay(j), UnderWay(j)'
  PROVE SoundEnds(j)' /\ UNCHANGED <<pointer, tree>>
<1> USE DEF IInv, TypeOK, UnderWay
<1>1. UNCHANGED <<pointer, tree, target, made, rpc, desc>>
  BY DEF WorkerRead
<1>2. pc'[j] = "read" /\ meta'[j] = pointer /\ target[j] # pointer.active
  BY DEF WorkerRead
<1> QED BY <1>1, <1>2 DEF SoundEnds, ActiveIntact, Placed, BeforeSwitch, AfterRepoint

\* A job whose update is not under way does not touch the runtimes.
LEMMA WorkerIdle ==
  ASSUME NEW j \in Jobs, WorkerEffect(j), ~UnderWay(j)
  PROVE UNCHANGED <<pointer, tree>>
  BY DEF WorkerEffect, UnderWay

\* Nor does its recovery.
LEMMA RecoverIdle ==
  ASSUME NEW c \in Callers, NEW j \in Jobs, RecoverEffect(c, j), UndoIsPending(j), ~UnderWay(j)
  PROVE UNCHANGED <<pointer, tree>>
  BY DEF RecoverEffect, UnderWay, UndoIsPending

\* The ends of an update are as sound as they were when installation.json, the runtimes
\* and the update itself do not change.
LEMMA SoundKept ==
  ASSUME NEW k \in Jobs, SoundEnds(k), UNCHANGED <<pointer, tree, target>>,
         pc'[k] = pc[k], meta'[k] = meta[k], made'[k] = made[k],
         \A c \in Callers : rpc'[<<c, k>>] = rpc[<<c, k>>]
  PROVE SoundEnds(k)'
  BY DEF SoundEnds, Committed

\* A worker keeps the update under way sound, begins only on a sound runtime, and is the
\* only one whose update is under way.
LEMMA WorkerInTurn ==
  ASSUME IInv, PendingInOrder, InTurn, UpdateIsSound, NEW j \in Jobs,
         WorkerStep(j) \/ WorkerThrow(j) \/ WorkerKill(j)
  PROVE UpdateIsSound'
<1>1. WorkerFrame(j) /\ WorkerEffect(j)
  BY WorkerFrameHolds, WorkerEffects DEF IInv
<1>2. UnderWay(j)' => SoundEnds(j)'
  <2>1. CASE UnderWay(j)
    BY <2>1, WorkerSound DEF UpdateIsSound
  <2>2. CASE ~UnderWay(j)
    BY <1>1, <2>2, ReadSound DEF WorkerEffect, UpdateIsSound
  <2> QED BY <2>1, <2>2
<1>3. ASSUME NEW k \in Jobs \ {j}, UnderWay(k)' PROVE SoundEnds(k)'
  <2>1. UnderWay(k)
    BY <1>1, <1>3 DEF UnderWay, WorkerFrame
  <2>2. SoundEnds(k) /\ ~UnderWay(j)
    BY <2>1 DEF UpdateIsSound, InTurn
  <2>3. UNCHANGED <<pointer, tree>>
    BY <1>1, <2>2, WorkerIdle
  <2> QED BY <1>1, <2>2, <2>3, SoundKept DEF WorkerFrame
<1>4. ActiveIntact'
  <2>1. CASE UnderWay(j)
    <3>1. SoundEnds(j)'
      BY <2>1, WorkerSound DEF UpdateIsSound
    <3> QED BY <3>1 DEF SoundEnds, ActiveIntact, Committed
  <2>2. CASE ~UnderWay(j)
    BY <1>1, <2>2, WorkerIdle DEF UpdateIsSound, ActiveIntact
  <2> QED BY <2>1, <2>2
<1> QED BY <1>2, <1>3, <1>4 DEF UpdateIsSound

\* So is a recovery, which touches the runtimes only for a pending transaction.
LEMMA RecoverInTurn ==
  ASSUME IInv, PendingInOrder, InTurn, UpdateIsSound, NEW c \in Callers, NEW j \in Jobs,
         RecoverStep(c, j) \/ RecoverThrow(c, j) \/ RecoverKill(c, j)
  PROVE UpdateIsSound'
<1>1. RecoverFrame(c, j) /\ RecoverEffect(c, j)
  BY RecoverFrameHolds, RecoverEffects DEF IInv
<1>2. UnderWay(j)' => UnderWay(j)
  BY <1>1 DEF UnderWay, RecoverFrame, RecoverEffect
<1>3. UnderWay(j) => SoundEnds(j)'
  BY RecoverSound DEF UpdateIsSound
<1>4. ~UnderWay(j) => UNCHANGED <<pointer, tree>>
  BY <1>1, RecoverIdle DEF PendingInOrder
<1>5. ASSUME NEW k \in Jobs \ {j}, UnderWay(k)' PROVE SoundEnds(k)'
  <2>1. UnderWay(k)
    BY <1>1, <1>5 DEF UnderWay, RecoverFrame
  <2>2. SoundEnds(k) /\ ~UnderWay(j)
    BY <2>1 DEF UpdateIsSound, InTurn
  <2>3. \A d \in Callers : rpc'[<<d, k>>] = rpc[<<d, k>>]
    BY <1>1, RecoverId DEF RecoverFrame
  <2> QED BY <1>1, <1>4, <2>2, <2>3, SoundKept DEF RecoverFrame
<1>6. ActiveIntact'
  <2>1. CASE UnderWay(j)
    BY <1>3, <2>1 DEF SoundEnds, ActiveIntact, Committed
  <2>2. CASE ~UnderWay(j)
    BY <1>4, <2>2 DEF UpdateIsSound, ActiveIntact
  <2> QED BY <2>1, <2>2
<1> QED BY <1>2, <1>3, <1>5, <1>6 DEF UpdateIsSound

\* The ends of an update under way are sound in every reachable state.
LEMMA SoundInvariance == Spec /\ []InTurn => []UpdateIsSound
<1>1. ASSUME Init PROVE UpdateIsSound
  <2>1. tree[pointer.active] = "intact"
    <3>1. PICK v \in Versions, p \in Versions \union {None} :
            /\ pointer = [active |-> v, previous |-> p, gen |-> 1]
            /\ tree = [w \in Versions |-> IF w \in {v, p} THEN "intact" ELSE "absent"]
      BY <1>1 DEF Init
    <3> QED BY <3>1
  <2>2. ASSUME NEW j \in Jobs PROVE ~UnderWay(j)
    BY <1>1 DEF Init, UnderWay
  <2> QED BY <2>1, <2>2 DEF UpdateIsSound, ActiveIntact
<1>2. ASSUME IInv, UpdateIsSound, OtherStep PROVE UpdateIsSound'
  <2>1. UNCHANGED <<pointer, tree>> /\ \A j \in Jobs : UnderWay(j)' => UnderWay(j)
    BY <1>2, OtherRuntimes DEF IInv
  <2>2. ASSUME NEW j \in Jobs, UnderWay(j)' PROVE SoundEnds(j)'
    BY <1>2, <2>1, <2>2, OtherSound DEF UpdateIsSound
  <2> QED BY <1>2, <2>1, <2>2 DEF UpdateIsSound, ActiveIntact
<1>3. IInv /\ PendingInOrder /\ InTurn /\ UpdateIsSound /\ [Next]_vars => UpdateIsSound'
  <2>1. ASSUME IInv, PendingInOrder, InTurn, UpdateIsSound, Next PROVE UpdateIsSound'
    BY <1>2, <2>1, StepKinds, WorkerInTurn, RecoverInTurn DEF IInv
  <2>2. ASSUME UpdateIsSound, UNCHANGED vars PROVE UpdateIsSound'
    BY <2>2 DEF vars, UpdateIsSound, ActiveIntact, UnderWay, SoundEnds, Committed
  <2> QED BY <2>1, <2>2
<1> QED BY <1>1, <1>3, Invariance, PendingOrderInvariance, PTL DEF Spec

\* Whatever is thrown and whoever is killed during updates that follow each other,
\* installation.json names a verified runtime.
THEOREM ActiveRuntimeIntact == Spec /\ []InTurn => []ActiveIntact
<1>1. UpdateIsSound => ActiveIntact
  BY DEF UpdateIsSound
<1> QED BY <1>1, SoundInvariance, PTL

\* Throughout such updates installation.json moves from what a worker read to what it
\* writes, by the commit, and back, and in no other way.
THEOREM PointerMovesAsSaid == Spec /\ []InTurn => PointerMoves
<1> DEFINE Move(j) == \/ pc[j] = "commit" /\ pointer = meta[j] /\ pointer' = Committed(j)
                      \/ pointer = Committed(j) /\ pointer' = meta[j]
           Allowed == \E j \in Jobs : Move(j)
<1>1. ASSUME IInv, UpdateIsSound, pointer' # pointer, NEW j \in Jobs,
             WorkerStep(j) \/ WorkerThrow(j) \/ WorkerKill(j)
      PROVE Move(j)
  <2>1. WorkerEffect(j)
    BY <1>1, WorkerEffects DEF IInv
  <2>2. SoundEnds(j)
    BY <1>1, <2>1, WorkerIdle DEF UpdateIsSound
  <2> QED BY <1>1, <2>1, <2>2 DEF WorkerEffect, SoundEnds, BeforeSwitch
<1>2. ASSUME IInv, PendingInOrder, UpdateIsSound, pointer' # pointer, NEW c \in Callers,
             NEW j \in Jobs, RecoverStep(c, j) \/ RecoverThrow(c, j) \/ RecoverKill(c, j)
      PROVE Move(j)
  <2>1. RecoverEffect(c, j)
    BY <1>2, RecoverEffects DEF IInv
  <2>2. SoundEnds(j)
    BY <1>2, <2>1, RecoverIdle DEF PendingInOrder, UpdateIsSound
  <2> QED BY <1>2, <2>1, <2>2 DEF RecoverEffect, SoundEnds
<1>3. ASSUME IInv, OtherStep PROVE pointer' = pointer
  BY <1>3, OtherFrame DEF IInv
<1>4. IInv /\ PendingInOrder /\ UpdateIsSound /\ [Next]_vars => [pointer' # pointer => Allowed]_vars
  <2>1. ASSUME IInv, PendingInOrder, UpdateIsSound, Next, pointer' # pointer PROVE Allowed
    <3> HIDE DEF Move
    <3> QED BY <1>1, <1>2, <1>3, <2>1, StepKinds DEF IInv
  <2> QED BY <2>1
<1> QED BY <1>4, Invariance, PendingOrderInvariance, SoundInvariance, PTL DEF Spec, PointerMoves

-----------------------------------------------------------------------------
(* The refinement of RuntimeSwitch *)

\* Updates that follow each other: the one under way is the open one.
LEMMA OneIsOpen ==
  ASSUME InTurn, NEW j \in Jobs, UnderWay(j)
  PROVE OpenUpdates = {Ends(j)}
  BY DEF InTurn, OpenUpdates

\* What a step of the update under way does to the runtimes is a step of RuntimeSwitch.
LEMMA EffectRefines ==
  ASSUME TypeOK, NEW j \in Jobs, SoundEnds(j), target[j] \in Versions,
         OpenUpdates = {Ends(j)}, OpenUpdates' \in {OpenUpdates, {}},
         \/ UNCHANGED <<pointer, tree>>
         \/ /\ OpenUpdates' = OpenUpdates
            /\ \/ /\ pointer = meta[j] /\ pointer' = pointer
                  /\ tree' = [tree EXCEPT ![target[j]] = "intact"]
               \/ /\ pointer = meta[j] /\ tree[target[j]] = "intact"
                  /\ pointer' = Committed(j) /\ tree' = tree
               \/ pointer' = meta[j] /\ tree' = tree
         \/ /\ pointer = meta[j] /\ pointer' = pointer
            /\ \E x \in {"absent", "partial"} : tree' = [tree EXCEPT ![target[j]] = x]
  PROVE [Runtime!Next]_<<pointer, SoundRuntimes, OpenUpdates>>
<1> USE DEF Runtime!Next
<1>0. /\ Ends(j) \in OpenUpdates
      /\ Ends(j).from = meta[j] /\ Ends(j).to = Committed(j)
      /\ Committed(j).active = target[j]
      /\ meta[j].active \in SoundRuntimes
  BY DEF Ends, Committed, SoundRuntimes, SoundEnds, TypeOK
<1>1. CASE UNCHANGED <<pointer, tree>>
  <2>1. SoundRuntimes' = SoundRuntimes
    BY <1>1 DEF SoundRuntimes
  <2>2. CASE OpenUpdates' = {}
    BY <1>1, <2>1, <2>2 DEF Runtime!End
  <2>3. CASE OpenUpdates' = OpenUpdates
    BY <1>1, <2>1, <2>3
  <2> QED BY <2>2, <2>3
<1>2. CASE /\ pointer = meta[j] /\ pointer' = pointer /\ OpenUpdates' = OpenUpdates
           /\ tree' = [tree EXCEPT ![target[j]] = "intact"]
  <2>1. SoundRuntimes' = SoundRuntimes \union {target[j]}
    BY <1>2 DEF SoundRuntimes, TypeOK
  <2>2. Runtime!Place(Ends(j))
    BY <1>0, <1>2, <2>1 DEF Runtime!Place
  <2> QED BY <1>0, <2>2
<1>3. CASE /\ pointer = meta[j] /\ tree[target[j]] = "intact" /\ OpenUpdates' = OpenUpdates
           /\ pointer' = Committed(j) /\ tree' = tree
  <2>1. SoundRuntimes' = SoundRuntimes /\ target[j] \in SoundRuntimes
    BY <1>3 DEF SoundRuntimes
  <2>2. Runtime!Switch(Ends(j))
    BY <1>0, <1>3, <2>1 DEF Runtime!Switch
  <2> QED BY <1>0, <2>2
<1>4. CASE pointer' = meta[j] /\ tree' = tree /\ OpenUpdates' = OpenUpdates
  <2>1. SoundRuntimes' = SoundRuntimes
    BY <1>4 DEF SoundRuntimes
  <2>2. CASE pointer = meta[j]
    BY <1>4, <2>1, <2>2
  <2>3. CASE pointer = Committed(j)
    <3>1. Runtime!Return(Ends(j))
      BY <1>0, <1>4, <2>1, <2>3 DEF Runtime!Return
    <3> QED BY <1>0, <3>1
  <2> QED BY <2>2, <2>3 DEF SoundEnds
<1>5. CASE /\ pointer = meta[j] /\ pointer' = pointer
           /\ \E x \in {"absent", "partial"} : tree' = [tree EXCEPT ![target[j]] = x]
  <2>1. SoundRuntimes' = SoundRuntimes \ {target[j]}
    BY <1>5 DEF SoundRuntimes, TypeOK
  <2>2. Runtime!Spoil(Ends(j))
    BY <1>0, <1>5, <2>1 DEF Runtime!Spoil
  <2> QED BY <1>0, <2>2
<1> QED BY <1>1, <1>2, <1>3, <1>4, <1>5

\* A worker begins an update when none is open, or makes a step of the open one.
LEMMA WorkerRefines ==
  ASSUME IInv, PendingInOrder, InTurn, InTurn', UpdateIsSound, NEW j \in Jobs,
         WorkerStep(j) \/ WorkerThrow(j) \/ WorkerKill(j)
  PROVE [Runtime!Next]_<<pointer, SoundRuntimes, OpenUpdates>>
<1>1. WorkerFrame(j) /\ WorkerEffect(j)
  BY WorkerFrameHolds, WorkerEffects DEF IInv
<1>2. \A k \in Jobs \ {j} : UnderWay(k)' = UnderWay(k) /\ Ends(k)' = Ends(k)
  BY <1>1 DEF WorkerFrame, UnderWay, Ends, Committed
<1>3. target[j] \in Versions /\ target' = target
  <2>1. pc[j] # "none"
    BY <1>1 DEF WorkerStep, WorkerThrow, WorkerKill, Dead, WorkerRead, WorkerEnter, WorkerPlace,
       WorkerGuard, WorkerArm, WorkerSnap, WorkerMove, WorkerRegister, WorkerStop, WorkerCommit,
       WorkerLoad, WorkerRecord, WorkerServe, WorkerOutcome, WorkerFinish, WorkerClear,
       WorkerDrop, WorkerUnlink, WorkerQuit, WorkerRepoint, WorkerReload, WorkerRerecord,
       WorkerRevive, WorkerRemove, WorkerReport, WorkerReportFailed
  <2> QED BY <1>1, <2>1 DEF WorkerFrame, IInv, ArmedInOrder, ArmedAt
<1>4. CASE ~UnderWay(j) /\ ~UnderWay(j)'
  <2>1. UNCHANGED <<pointer, tree>>
    BY <1>1, <1>4, WorkerIdle
  <2>2. OpenUpdates' = OpenUpdates
    BY <1>2, <1>4 DEF OpenUpdates
  <2> QED BY <2>1, <2>2 DEF SoundRuntimes
<1>5. CASE ~UnderWay(j) /\ UnderWay(j)'
  <2>1. WorkerRead(j)
    BY <1>1, <1>5 DEF WorkerEffect
  <2>2. UNCHANGED <<pointer, tree>>
    BY <1>1, <1>5, WorkerIdle
  <2>3. meta'[j] = pointer /\ target[j] # pointer.active
    BY <1>5, <2>1 DEF WorkerRead, UnderWay, IInv, TypeOK
  <2>4. OpenUpdates = {}
    BY <1>2, <1>5 DEF OpenUpdates, InTurn
  <2>5. OpenUpdates' = {Ends(j)'}
    BY <1>5 DEF OpenUpdates, InTurn
  <2>6. Ends(j)' = [from |-> pointer, to |-> Runtime!Successor(target[j])]
    BY <1>3, <2>3 DEF Ends, Committed, Runtime!Successor
  <2>7. Runtime!Begin
    BY <1>3, <2>2, <2>3, <2>4, <2>5, <2>6 DEF Runtime!Begin, SoundRuntimes
  <2> QED BY <2>7 DEF Runtime!Next
<1>6. CASE UnderWay(j)
  <2>1. SoundEnds(j) /\ OpenUpdates = {Ends(j)}
    BY <1>6, OneIsOpen DEF UpdateIsSound
  <2>2. meta' = meta
    BY <1>1, <1>6 DEF WorkerEffect, WorkerRead, UnderWay, PendingInOrder, NotBegun
  <2>3. Ends(j)' = Ends(j)
    BY <1>3, <2>2 DEF Ends, Committed
  <2>4. \A k \in Jobs \ {j} : ~UnderWay(k)'
    BY <1>2, <1>6 DEF InTurn
  <2>5. OpenUpdates' = IF UnderWay(j)' THEN {Ends(j)} ELSE {}
    BY <2>3, <2>4 DEF OpenUpdates
  <2>6. pc'[j] \in PreCommit \union PostCommit \union Undoing => OpenUpdates' = OpenUpdates
    BY <2>1, <2>5 DEF UnderWay
  <2>7. OpenUpdates' \in {OpenUpdates, {}}
    BY <2>1, <2>5
  <2> QED BY <1>1, <1>3, <2>1, <2>6, <2>7, EffectRefines
          DEF WorkerEffect, SoundEnds, Placed, BeforeSwitch, AfterRepoint, IInv
<1> QED BY <1>4, <1>5, <1>6

\* A recovery makes a step of the open update, or none.
LEMMA RecoverRefines ==
  ASSUME IInv, PendingInOrder, InTurn, UpdateIsSound, NEW c \in Callers, NEW j \in Jobs,
         RecoverStep(c, j) \/ RecoverThrow(c, j) \/ RecoverKill(c, j)
  PROVE [Runtime!Next]_<<pointer, SoundRuntimes, OpenUpdates>>
<1>1. RecoverFrame(c, j) /\ RecoverEffect(c, j)
  BY RecoverFrameHolds, RecoverEffects DEF IInv
<1>2. \A k \in Jobs : (k # j => UnderWay(k)' = UnderWay(k)) /\ Ends(k)' = Ends(k)
  BY <1>1 DEF RecoverFrame, UnderWay, Ends, Committed
<1>3. UnderWay(j)' => UnderWay(j)
  BY <1>1 DEF UnderWay, RecoverFrame, RecoverEffect
<1>4. CASE ~UnderWay(j)
  <2>1. UNCHANGED <<pointer, tree>>
    BY <1>1, <1>4, RecoverIdle DEF PendingInOrder
  <2>2. OpenUpdates' = OpenUpdates
    BY <1>2, <1>3, <1>4 DEF OpenUpdates
  <2> QED BY <2>1, <2>2 DEF SoundRuntimes
<1>5. CASE UnderWay(j)
  <2>1. SoundEnds(j) /\ OpenUpdates = {Ends(j)}
    BY <1>5, OneIsOpen DEF UpdateIsSound
  <2>2. \A k \in Jobs \ {j} : ~UnderWay(k)'
    BY <1>2, <1>5 DEF InTurn
  <2>3. OpenUpdates' = IF UnderWay(j)' THEN {Ends(j)} ELSE {}
    BY <1>2, <2>2 DEF OpenUpdates
  <2>4. OpenUpdates' \in {OpenUpdates, {}}
    BY <2>1, <2>3
  <2>5. desc' = desc => OpenUpdates' = OpenUpdates
    BY <1>1, <1>5, <2>1, <2>3 DEF UnderWay, RecoverFrame
  <2>6. target[j] \in Versions
    BY <1>1, <1>5 DEF IInv, ArmedInOrder, ArmedAt, UnderWay, PendingInOrder, NotBegun
  <2> QED BY <1>1, <2>1, <2>4, <2>5, <2>6, EffectRefines DEF RecoverEffect, SoundEnds, IInv
<1> QED BY <1>4, <1>5

\* The others may end what is under way with the machine, and touch nothing else of it.
LEMMA OtherRefines ==
  ASSUME IInv, PendingInOrder, InTurn, OtherStep
  PROVE [Runtime!Next]_<<pointer, SoundRuntimes, OpenUpdates>>
<1>1. /\ UNCHANGED <<pointer, tree, meta>>
      /\ \A k \in Jobs : /\ UnderWay(k)' => UnderWay(k)
                         /\ target'[k] # target[k] => pc[k] = "none"
  BY OtherRuntimes DEF IInv
<1>2. SoundRuntimes' = SoundRuntimes
  BY <1>1 DEF SoundRuntimes
<1>3. ASSUME NEW k \in Jobs, UnderWay(k) PROVE Ends(k)' = Ends(k)
  <2>1. pc[k] # "none"
    BY <1>3 DEF UnderWay, PendingInOrder, NotBegun
  <2> QED BY <1>1, <2>1 DEF Ends, Committed
<1>4. OpenUpdates' \in {OpenUpdates, {}}
  <2>1. CASE \E j \in Jobs : UnderWay(j)'
    <3>1. PICK j \in Jobs : UnderWay(j)'
      BY <2>1
    <3>2. UnderWay(j) /\ \A k \in Jobs \ {j} : ~UnderWay(k) /\ ~UnderWay(k)'
      BY <1>1, <3>1 DEF InTurn
    <3> QED BY <1>3, <3>1, <3>2 DEF OpenUpdates
  <2>2. CASE ~\E j \in Jobs : UnderWay(j)'
    BY <2>2 DEF OpenUpdates
  <2> QED BY <2>1, <2>2
<1> QED BY <1>1, <1>2, <1>4 DEF Runtime!Next, Runtime!End

\* Updates that follow each other switch the runtime as RuntimeSwitch promises, whatever
\* throws, is killed or is rebooted: to a runtime that is in place and back, with a sound
\* runtime named all along, and each begun only when nothing is left of the one before
\* (Worker.ps1 and Recover.ps1 together).
THEOREM SwitchImplemented == Spec /\ []InTurn => SwitchesRuntime
<1>1. ASSUME Init PROVE Runtime!Init
  <2>1. tree[pointer.active] = "intact" /\ pointer.active \in Versions
    <3>1. PICK v \in Versions, p \in Versions \union {None} :
            /\ pointer = [active |-> v, previous |-> p, gen |-> 1]
            /\ tree = [w \in Versions |-> IF w \in {v, p} THEN "intact" ELSE "absent"]
      BY <1>1 DEF Init
    <3> QED BY <3>1
  <2>2. ASSUME NEW j \in Jobs PROVE ~UnderWay(j)
    BY <1>1 DEF Init, UnderWay
  <2> QED BY <2>1, <2>2 DEF Runtime!Init, SoundRuntimes, OpenUpdates
<1>2. IInv /\ PendingInOrder /\ UpdateIsSound /\ InTurn /\ InTurn' /\ [Next]_vars
        => [Runtime!Next]_<<pointer, SoundRuntimes, OpenUpdates>>
  <2>1. ASSUME IInv, PendingInOrder, UpdateIsSound, InTurn, InTurn', Next
        PROVE [Runtime!Next]_<<pointer, SoundRuntimes, OpenUpdates>>
    BY <2>1, StepKinds, WorkerRefines, RecoverRefines, OtherRefines DEF IInv
  <2>2. ASSUME UNCHANGED vars PROVE UNCHANGED <<pointer, SoundRuntimes, OpenUpdates>>
    BY <2>2 DEF vars, SoundRuntimes, OpenUpdates, UnderWay, Ends, Committed
  <2> QED BY <2>1, <2>2
<1> QED BY <1>1, <1>2, Invariance, PendingOrderInvariance, SoundInvariance, PTL
        DEF Spec, SwitchesRuntime, Runtime!Spec

\* A single update is in turn with itself, so the hypothesis costs nothing when an
\* installation is updated once, however often its recoveries run.
THEOREM OneUpdateSwitches ==
  ASSUME \E j \in Jobs : Jobs = {j}
  PROVE Spec => []ActiveIntact /\ PointerMoves /\ SwitchesRuntime
<1>1. InTurn
  BY DEF InTurn
<1> QED BY <1>1, ActiveRuntimeIntact, PointerMovesAsSaid, SwitchImplemented, PTL

-----------------------------------------------------------------------------
(* Updates that follow each other and in which nothing throws *)

\* Without a throw nothing is undone by the worker and a recovery undoes only what is
\* pending.  An update that is past its outcome is no longer pending, and installation.json
\* has moved on from what it read, as has every later update.
UndoSteps == {"q_pointer", "q_loader", "q_record", "q_remove", "q_task", "q_snap", "q_before",
              "q_desc", "q_report"}
CleanSteps == {"c_task", "c_drop", "c_report"}
Passed(j) == \/ phase[j] = "completed" \/ desc[j] = "completed"
             \/ \E c \in Callers : rpc[<<c, j>>] \in CleanSteps
PassedFor(j) == /\ pc[j] \notin {"none", "start"}
                /\ desc[j] # "pending"
                /\ pointer.gen > meta[j].gen
KeptWhenOver(j) ==
  /\ pc[j] \notin {"quit", "repoint", "reload", "rerecord", "report_failed"}
  /\ pc[j] = "finish" => desc[j] = "completed"
  /\ \A c \in Callers : rpc[<<c, j>>] \in UndoSteps =>
                        phase[j] # "completed" /\ desc[j] # "completed"
  /\ Passed(j) => PassedFor(j)
LaterFollows(j) == Passed(j) => \A k \in Jobs \ {j} : UnderWay(k) => meta[k].gen > meta[j].gen
CompletedIsKept == \A j \in Jobs : KeptWhenOver(j) /\ LaterFollows(j)

\* Generations are numbers, and an update writes the one after the one it read.
LEMMA Generations ==
  ASSUME IInv, NEW j \in Jobs
  PROVE /\ pointer.gen \in Nat /\ meta[j].gen \in Nat
        /\ Committed(j).gen = meta[j].gen + 1
        /\ UnderWay(j) /\ SoundEnds(j) => pointer.gen \in {meta[j].gen, meta[j].gen + 1}
  BY DEF IInv, TypeOK, Committed, SoundEnds

\* A step that moves the job on without changing what it promises keeps it so.
LEMMA KeptRun ==
  ASSUME NEW j \in Jobs, KeptWhenOver(j), pointer' = pointer, meta'[j] = meta[j],
         phase'[j] = phase[j], desc'[j] \in {desc[j], "none"},
         pc'[j] \notin {"quit", "repoint", "reload", "rerecord", "report_failed"},
         pc'[j] \in {"none", "start"} => pc[j] \in {"none", "start"},
         pc'[j] = "finish" => pc[j] = "finish" /\ desc'[j] = desc[j],
         \A c \in Callers : /\ rpc'[<<c, j>>] \in CleanSteps => Passed(j)
                            /\ rpc'[<<c, j>>] \in UndoSteps =>
                                 phase[j] # "completed" /\ desc[j] # "completed"
  PROVE KeptWhenOver(j)'
<1>1. Passed(j)' => Passed(j)
  BY DEF Passed
<1> QED BY <1>1 DEF KeptWhenOver, PassedFor

\* Without a throw a worker undoes nothing, and what it completes it has switched.
LEMMA WorkerKept ==
  ASSUME IInv, NEW j \in Jobs, UnderWay(j) => SoundEnds(j), KeptWhenOver(j), MaxFaults = 0,
         WorkerStep(j) \/ WorkerThrow(j) \/ WorkerKill(j)
  PROVE KeptWhenOver(j)'
<1> USE WorkerId, RecoverId, ConstantsOK
    DEF IInv, TypeOK, LockHeld, CommitIsProtected, ProtectedAt, KeptWhenOver, Passed, PassedFor,
        CleanSteps, UndoSteps, UnderWay, SoundEnds, BeforeSwitch, AfterRepoint, Committed
<1>1. CASE WorkerRead(j)
  <2>1. UNCHANGED <<pointer, phase, desc, rpc>> /\ pc[j] = "start" /\ pc'[j] \in {"read", "dead"}
    BY <1>1 DEF WorkerRead
  <2>2. ~Passed(j)
    BY <2>1
  <2>3. ~Passed(j)'
    BY <2>1, <2>2
  <2> QED BY <2>1, <2>3
<1>2. CASE WorkerEnter(j)
  BY <1>2 DEF WorkerEnter
<1>3. CASE WorkerPlace(j)
  BY <1>3 DEF WorkerPlace
<1>4. CASE WorkerGuard(j)
  BY <1>4 DEF WorkerGuard
<1>5. CASE WorkerArm(j)
  BY <1>5 DEF WorkerArm
<1>6. CASE WorkerSnap(j)
  BY <1>6 DEF WorkerSnap
<1>7. CASE WorkerMove(j)
  <2>1. UNCHANGED <<pointer, meta, phase, desc, rpc>> /\ pc'[j] \in {"register", "remove"}
    BY <1>7 DEF WorkerMove
  <2> QED BY <2>1, KeptRun
<1>8. CASE WorkerRegister(j)
  BY <1>8 DEF WorkerRegister
<1>9. CASE WorkerStop(j)
  BY <1>9 DEF WorkerStop
<1>10. CASE WorkerCommit(j)
  BY <1>10 DEF WorkerCommit
<1>11. CASE WorkerLoad(j)
  BY <1>11 DEF WorkerLoad
<1>12. CASE WorkerRecord(j)
  BY <1>12 DEF WorkerRecord
<1>13. CASE WorkerServe(j)
  BY <1>13 DEF WorkerServe
<1>14. CASE WorkerOutcome(j)
  BY <1>14 DEF WorkerOutcome
<1>15. CASE WorkerFinish(j)
  BY <1>15 DEF WorkerFinish
<1>16. CASE WorkerClear(j)
  BY <1>16 DEF WorkerClear
<1>17. CASE WorkerDrop(j)
  BY <1>17 DEF WorkerDrop, DropSnapshot
<1>18. CASE WorkerUnlink(j)
  BY <1>18 DEF WorkerUnlink
<1>19. CASE WorkerQuit(j)
  BY <1>19 DEF WorkerQuit
<1>20. CASE WorkerRepoint(j)
  BY <1>20 DEF WorkerRepoint
<1>21. CASE WorkerReload(j)
  BY <1>21 DEF WorkerReload
<1>22. CASE WorkerRerecord(j)
  BY <1>22 DEF WorkerRerecord
<1>23. CASE WorkerRevive(j)
  BY <1>23 DEF WorkerRevive
<1>24. CASE WorkerRemove(j)
  BY <1>24 DEF WorkerRemove, AfterRemove
<1>25. CASE WorkerReport(j)
  BY <1>25 DEF WorkerReport
<1>26. CASE WorkerReportFailed(j)
  BY <1>26 DEF WorkerReportFailed
<1>27. CASE WorkerThrow(j)
  BY <1>27 DEF WorkerThrow, AfterRemove
<1>28. CASE WorkerKill(j)
  <2>1. UNCHANGED <<pointer, meta, phase, desc, rpc>> /\ pc'[j] = "dead"
    BY <1>28 DEF WorkerKill, Dead
  <2> QED BY <2>1, KeptRun
<1> QED BY <1>1, <1>2, <1>3, <1>4, <1>5, <1>6, <1>7, <1>8, <1>9, <1>10, <1>11, <1>12, <1>13,
       <1>14, <1>15, <1>16, <1>17, <1>18, <1>19, <1>20, <1>21, <1>22, <1>23, <1>24, <1>25,
       <1>26, <1>27, <1>28 DEF WorkerStep

\* A recovery takes the installation back only from what is pending.
LEMMA RecoverKept ==
  ASSUME IInv, NEW c \in Callers, NEW j \in Jobs, UndoIsPending(j), KeptWhenOver(j), MaxFaults = 0,
         RecoverStep(c, j) \/ RecoverThrow(c, j) \/ RecoverKill(c, j)
  PROVE KeptWhenOver(j)'
<1> USE WorkerId, RecoverId, ConstantsOK
    DEF IInv, TypeOK, LockHeld, UndoIsPending, KeptWhenOver, Passed, PassedFor, CleanSteps,
        UndoSteps
<1>1. CASE RecoverTimeout(c, j)
  BY <1>1 DEF RecoverTimeout
<1>2. CASE RecoverNothing(c, j)
  BY <1>2 DEF RecoverNothing
<1>3. CASE RecoverEnter(c, j)
  <2>1. UNCHANGED <<pointer, meta, phase, desc, pc>>
    BY <1>3 DEF RecoverEnter
  <2>2. ASSUME NEW d \in Callers, d # c PROVE rpc'[<<d, j>>] = rpc[<<d, j>>]
    BY <1>3, <2>2 DEF RecoverEnter
  <2>3. rpc'[<<c, j>>] \in CleanSteps => desc[j] = "completed"
    BY <1>3 DEF RecoverEnter
  <2>4. rpc'[<<c, j>>] \in UndoSteps => desc[j] = "pending"
    BY <1>3 DEF RecoverEnter
  <2>5. desc[j] = "pending" => ~Passed(j)
    OBVIOUS
  <2>8. \A d \in Callers :
          /\ rpc'[<<d, j>>] \in CleanSteps => Passed(j)
          /\ rpc'[<<d, j>>] \in UndoSteps => phase[j] # "completed" /\ desc[j] # "completed"
    BY <2>2, <2>3, <2>4, <2>5
  <2>9. pc'[j] \notin {"quit", "repoint", "reload", "rerecord", "report_failed"}
    BY <2>1
  <2> QED BY <2>1, <2>8, <2>9, KeptRun
<1>4. CASE RecoverPointer(c, j)
  BY <1>4 DEF RecoverPointer
<1>5. CASE RecoverLoader(c, j)
  BY <1>5 DEF RecoverLoader
<1>6. CASE RecoverRecord(c, j)
  BY <1>6 DEF RecoverRecord
<1>7. CASE RecoverRemove(c, j)
  BY <1>7 DEF RecoverRemove
<1>8. CASE RecoverTask(c, j)
  <2>1. UNCHANGED <<pointer, meta, phase, desc, pc>>
    BY <1>8 DEF RecoverTask
  <2>2. ASSUME NEW d \in Callers
        PROVE /\ rpc'[<<d, j>>] \in CleanSteps => rpc[<<d, j>>] \in CleanSteps
              /\ rpc'[<<d, j>>] \in UndoSteps => rpc[<<d, j>>] \in UndoSteps
    <3>1. CASE d = c
      BY <1>8, <3>1 DEF RecoverTask
    <3>2. CASE d # c
      BY <1>8, <3>2 DEF RecoverTask
    <3> QED BY <3>1, <3>2
  <2> QED BY <2>1, <2>2, KeptRun
<1>9. CASE RecoverSnap(c, j)
  BY <1>9 DEF RecoverSnap, DropSnapshot
<1>10. CASE RecoverBefore(c, j)
  <2>1. UNCHANGED <<pointer, meta, phase, desc, pc>>
    BY <1>10 DEF RecoverBefore
  <2>2. rpc[<<c, j>>] = "q_before" /\ rpc' = [rpc EXCEPT ![<<c, j>>] = "q_desc"]
    BY <1>10 DEF RecoverBefore
  <2>8. \A d \in Callers :
          /\ rpc'[<<d, j>>] \in CleanSteps => Passed(j)
          /\ rpc'[<<d, j>>] \in UndoSteps => phase[j] # "completed" /\ desc[j] # "completed"
    BY <2>2
  <2>9. pc'[j] \notin {"quit", "repoint", "reload", "rerecord", "report_failed"}
    BY <2>1
  <2> QED BY <2>1, <2>8, <2>9, KeptRun
<1>11. CASE RecoverDesc(c, j)
  <2>1. UNCHANGED <<pointer, meta, phase, pc>> /\ desc' = [desc EXCEPT ![j] = "none"]
    BY <1>11 DEF RecoverDesc
  <2>2. rpc[<<c, j>>] = "q_desc" /\ rpc' = [rpc EXCEPT ![<<c, j>>] = "q_report"]
    BY <1>11 DEF RecoverDesc
  <2>3. pc[j] # "finish"
    BY <2>2
  <2>8. \A d \in Callers :
          /\ rpc'[<<d, j>>] \in CleanSteps => Passed(j)
          /\ rpc'[<<d, j>>] \in UndoSteps => phase[j] # "completed" /\ desc[j] # "completed"
    BY <2>2
  <2>9. pc'[j] \notin {"quit", "repoint", "reload", "rerecord", "report_failed"}
    BY <2>1
  <2> QED BY <2>1, <2>3, <2>8, <2>9, KeptRun
<1>12. CASE RecoverDrop(c, j)
  BY <1>12 DEF RecoverDrop
<1>13. CASE RecoverReport(c, j)
  BY <1>13 DEF RecoverReport
<1>14. CASE RecoverThrow(c, j)
  BY <1>14 DEF RecoverThrow
<1>15. CASE RecoverKill(c, j)
  <2>1. UNCHANGED <<pointer, meta, phase, desc, pc>> /\ rpc' = [rpc EXCEPT ![<<c, j>>] = "idle"]
    BY <1>15 DEF RecoverKill
  <2> QED BY <2>1, KeptRun
<1> QED BY <1>1, <1>2, <1>3, <1>4, <1>5, <1>6, <1>7, <1>8, <1>9, <1>10, <1>11, <1>12, <1>13,
       <1>14, <1>15 DEF RecoverStep

\* Nothing else completes an update, or arms one that is over.
LEMMA OtherKept ==
  ASSUME IInv, OtherStep, NEW j \in Jobs, KeptWhenOver(j)
  PROVE KeptWhenOver(j)' /\ (Passed(j)' => Passed(j))
<1>1. UNCHANGED <<pointer, desc, meta>>
  BY OtherFrame DEF IInv
<1>2. \A c \in Callers : rpc'[<<c, j>>] \in RecoverLocked => rpc[<<c, j>>] = rpc'[<<c, j>>]
  BY OtherControl DEF IInv
<1>3. pc'[j] \in Locked => pc[j] = pc'[j]
  BY OtherControl DEF IInv
<1>4. /\ pc'[j] \in {"none", "start"} => pc[j] \in {"none", "start"}
      /\ phase'[j] = "completed" => phase[j] = "completed"
  <2>1. TypeOK
    BY DEF IInv
  <2> QED BY <2>1, OtherRuntimes
<1>5. Passed(j)' => Passed(j)
  BY <1>1, <1>2, <1>4 DEF Passed, CleanSteps
<1> QED BY <1>1, <1>2, <1>3, <1>4, <1>5 DEF KeptWhenOver, PassedFor, UndoSteps

\* The update under way leaves the generation at least where it found it.
LEMMA GenerationKept ==
  ASSUME IInv, NEW k \in Jobs, pointer' \in {pointer, meta[k], Committed(k)},
         NEW g \in Nat, pointer.gen > g, pointer' # pointer => meta[k].gen > g
  PROVE pointer'.gen > g
<1>1. meta[k].gen \in Nat /\ Committed(k).gen = meta[k].gen + 1
  BY Generations
<1> QED BY <1>1

\* A worker keeps what is over, its own update and the others.
LEMMA WorkerCompleted ==
  ASSUME IInv, PendingInOrder, InTurn, UpdateIsSound, CompletedIsKept, MaxFaults = 0,
         NEW j \in Jobs, WorkerStep(j) \/ WorkerThrow(j) \/ WorkerKill(j)
  PROVE CompletedIsKept'
<1>1. WorkerFrame(j) /\ WorkerEffect(j)
  BY WorkerFrameHolds, WorkerEffects DEF IInv
<1>2. KeptWhenOver(j)'
  BY WorkerKept DEF UpdateIsSound, CompletedIsKept
<1>3. \A k \in Jobs \ {j} : /\ UnderWay(k)' = UnderWay(k)
                            /\ meta'[k] = meta[k]
                            /\ Passed(k)' = Passed(k)
  BY <1>1 DEF WorkerFrame, UnderWay, Passed
<1>4. LaterFollows(j)'
  <2> SUFFICES ASSUME Passed(j)', NEW k \in Jobs \ {j}, UnderWay(k)
               PROVE meta'[k].gen > meta'[j].gen
    BY <1>3 DEF LaterFollows
  <2>1. ~UnderWay(j)
    BY DEF InTurn
  <2>2. Passed(j)
    BY <1>1, <2>1 DEF Passed, WorkerEffect, WorkerFrame, UnderWay
  <2>3. meta' = meta
    BY <1>1, <2>2 DEF WorkerEffect, WorkerRead, CompletedIsKept, KeptWhenOver, PassedFor
  <2> QED BY <2>2, <2>3 DEF CompletedIsKept, LaterFollows
<1>5. ASSUME NEW k \in Jobs \ {j}, Passed(k)
      PROVE PassedFor(k)' /\ (UnderWay(j)' => meta'[j].gen > meta[k].gen)
  <2>1. /\ pc[k] \notin {"none", "start"} /\ desc[k] # "pending" /\ pointer.gen > meta[k].gen
        /\ UnderWay(j) => meta[j].gen > meta[k].gen
    BY <1>5 DEF CompletedIsKept, KeptWhenOver, PassedFor, LaterFollows
  <2>2. pointer' # pointer => UnderWay(j) /\ pointer' \in {meta[j], Committed(j)}
    BY <1>1 DEF WorkerEffect, UnderWay
  <2>3. pointer'.gen > meta[k].gen
    BY <2>1, <2>2, GenerationKept, Generations
  <2>4. UnderWay(j)' => meta'[j].gen > meta[k].gen
    <3>1. CASE WorkerRead(j)
      <4>1. /\ pointer' = pointer
            /\ \/ pc'[j] = "read" /\ meta'[j] = pointer
               \/ pc'[j] = "dead" /\ desc'[j] = "none"
        BY <3>1 DEF WorkerRead, PendingInOrder, NotBegun, IInv, TypeOK
      <4> QED BY <4>1, <2>1 DEF UnderWay
    <3>2. CASE ~WorkerRead(j)
      BY <1>1, <2>1, <3>2 DEF WorkerEffect
    <3> QED BY <3>1, <3>2
  <2> QED BY <1>1, <2>1, <2>3, <2>4 DEF PassedFor, WorkerFrame
<1>6. ASSUME NEW k \in Jobs \ {j} PROVE KeptWhenOver(k)' /\ LaterFollows(k)'
  <2>1. KeptWhenOver(k)'
    BY <1>1, <1>3, <1>5, <1>6 DEF WorkerFrame, CompletedIsKept, KeptWhenOver
  <2>2. LaterFollows(k)'
    BY <1>3, <1>5, <1>6 DEF CompletedIsKept, LaterFollows
  <2> QED BY <2>1, <2>2
<1> QED BY <1>2, <1>4, <1>6 DEF CompletedIsKept

\* So does a recovery.
LEMMA RecoverCompleted ==
  ASSUME IInv, PendingInOrder, UpdateIsSound, CompletedIsKept, MaxFaults = 0,
         NEW c \in Callers, NEW j \in Jobs,
         RecoverStep(c, j) \/ RecoverThrow(c, j) \/ RecoverKill(c, j)
  PROVE CompletedIsKept'
<1>1. RecoverFrame(c, j) /\ RecoverEffect(c, j)
  BY RecoverFrameHolds, RecoverEffects DEF IInv
<1>2. KeptWhenOver(j)'
  BY RecoverKept DEF PendingInOrder, CompletedIsKept
<1>3. \A k \in Jobs \ {j} : UnderWay(k)' = UnderWay(k) /\ Passed(k)' = Passed(k)
  BY <1>1, RecoverId DEF RecoverFrame, UnderWay, Passed
<1>4. meta' = meta /\ (UnderWay(j)' => UnderWay(j))
  BY <1>1 DEF UnderWay, RecoverFrame, RecoverEffect
<1>5. Passed(j)' => Passed(j)
  <2>1. \A d \in Callers : d # c => rpc'[<<d, j>>] = rpc[<<d, j>>]
    BY <1>1, RecoverId DEF RecoverFrame
  <2> QED BY <1>1, <2>1 DEF Passed, RecoverEffect, CleanSteps
<1>6. LaterFollows(j)'
  BY <1>3, <1>4, <1>5 DEF CompletedIsKept, LaterFollows
<1>7. ASSUME NEW k \in Jobs \ {j}, Passed(k) PROVE PassedFor(k)'
  <2>1. /\ pc[k] \notin {"none", "start"} /\ desc[k] # "pending" /\ pointer.gen > meta[k].gen
        /\ UnderWay(j) => meta[j].gen > meta[k].gen
    BY <1>7 DEF CompletedIsKept, KeptWhenOver, PassedFor, LaterFollows
  <2>2. pointer' # pointer => UnderWay(j) /\ pointer' = meta[j]
    BY <1>1, RecoverIdle DEF RecoverEffect, PendingInOrder
  <2>3. pointer'.gen > meta[k].gen
    BY <2>1, <2>2
  <2> QED BY <1>1, <2>1, <2>3 DEF PassedFor, RecoverFrame
<1>8. ASSUME NEW k \in Jobs \ {j} PROVE KeptWhenOver(k)' /\ LaterFollows(k)'
  <2>1. KeptWhenOver(k)'
    <3>1. \A d \in Callers : rpc'[<<d, k>>] = rpc[<<d, k>>]
      BY <1>1, <1>8, RecoverId DEF RecoverFrame
    <3> QED BY <1>1, <1>3, <1>7, <1>8, <3>1 DEF RecoverFrame, CompletedIsKept, KeptWhenOver
  <2>2. LaterFollows(k)'
    BY <1>3, <1>4, <1>8 DEF CompletedIsKept, LaterFollows
  <2> QED BY <2>1, <2>2
<1> QED BY <1>2, <1>6, <1>8 DEF CompletedIsKept

\* Completed updates are kept in every reachable state, if nothing throws.
LEMMA KeptInvariance ==
  ASSUME MaxFaults = 0
  PROVE Spec /\ []InTurn => []CompletedIsKept
<1>1. ASSUME Init PROVE CompletedIsKept
  <2>1. ASSUME NEW j \in Jobs
        PROVE pc[j] = "none" /\ phase[j] = "none" /\ desc[j] = "none"
    BY <1>1 DEF Init
  <2>2. ASSUME NEW c \in Callers, NEW j \in Jobs PROVE rpc[<<c, j>>] = "idle"
    BY <1>1 DEF Init, Recoverers
  <2>3. ASSUME NEW j \in Jobs PROVE KeptWhenOver(j) /\ LaterFollows(j)
    BY <2>1, <2>2 DEF KeptWhenOver, LaterFollows, Passed, CleanSteps, UndoSteps
  <2> QED BY <2>3, Zenon DEF CompletedIsKept
<1>2. ASSUME IInv, CompletedIsKept, OtherStep PROVE CompletedIsKept'
  <2>1. meta' = meta /\ \A k \in Jobs : UnderWay(k)' => UnderWay(k)
    BY <1>2, OtherRuntimes DEF IInv
  <2>2. ASSUME NEW j \in Jobs PROVE KeptWhenOver(j)' /\ LaterFollows(j)'
    <3>1. KeptWhenOver(j)' /\ (Passed(j)' => Passed(j))
      BY <1>2, OtherKept DEF CompletedIsKept
    <3> QED BY <1>2, <2>1, <3>1 DEF CompletedIsKept, LaterFollows
  <2> QED BY <2>2 DEF CompletedIsKept
<1>3. IInv /\ PendingInOrder /\ InTurn /\ UpdateIsSound /\ CompletedIsKept /\ [Next]_vars
        => CompletedIsKept'
  <2>1. ASSUME IInv, PendingInOrder, InTurn, UpdateIsSound, CompletedIsKept, Next
        PROVE CompletedIsKept'
    BY <1>2, <2>1, StepKinds, WorkerCompleted, RecoverCompleted DEF IInv
  <2>2. ASSUME CompletedIsKept, UNCHANGED vars PROVE CompletedIsKept'
    BY <2>2 DEF vars, CompletedIsKept, KeptWhenOver, LaterFollows, Passed, PassedFor, UnderWay
  <2> QED BY <2>1, <2>2
<1> QED BY <1>1, <1>3, Invariance, PendingOrderInvariance, SoundInvariance, PTL DEF Spec

\* An update that has completed is never taken back, however often its worker, a recovery
\* or the machine was interrupted, and whatever later updates come to.
THEOREM CompletedUpdateIsKept ==
  ASSUME MaxFaults = 0
  PROVE Spec /\ []InTurn => []CompletedUpdateSurvives
<1>1. CompletedIsKept => CompletedUpdateSurvives
  BY DEF CompletedIsKept, KeptWhenOver, Passed, PassedFor, CompletedUpdateSurvives
<1> QED BY <1>1, KeptInvariance, PTL

-----------------------------------------------------------------------------
(* Updates that follow each other, interrupted once *)

\* The crash that leaves a transaction pending is the one that may happen, so the recovery
\* that undoes it is not killed between the saved metadata and the descriptor.
PendingIsWhole(j) ==
  /\ desc[j] = "pending" =>
       \/ pc[j] \in {"snap", "move", "register", "stop", "commit"} \union (PostCommit \ {"finish"})
       \/ pc[j] = "dead" /\ crashes >= 1
  /\ \A c \in Callers : rpc[<<c, j>>] \in UndoSteps => crashes >= 1
  /\ desc[j] = "pending" /\ pc[j] = "dead" =>
       hasBefore[j] \/ \E c \in Callers : rpc[<<c, j>>] = "q_desc"
PendingCanBeUndone == \A j \in Jobs : PendingIsWhole(j)

\* A worker leaves a transaction pending only when it is killed, and then whole.
LEMMA WorkerPending ==
  ASSUME IInv, NEW j \in Jobs, UnderWay(j) => SoundEnds(j), PendingIsWhole(j),
         MaxFaults = 0, WorkerStep(j) \/ WorkerThrow(j) \/ WorkerKill(j)
  PROVE PendingIsWhole(j)'
<1> USE WorkerId, RecoverId, ConstantsOK
    DEF IInv, TypeOK, LockHeld, ArmedInOrder, ArmedAt, CommitIsProtected, ProtectedAt, Covered,
        PendingIsWhole, UndoSteps
<1>1. CASE WorkerRead(j)
  BY <1>1 DEF WorkerRead
<1>2. CASE WorkerEnter(j)
  BY <1>2 DEF WorkerEnter
<1>3. CASE WorkerPlace(j)
  BY <1>3 DEF WorkerPlace
<1>4. CASE WorkerGuard(j)
  BY <1>4 DEF WorkerGuard
<1>5. CASE WorkerArm(j)
  BY <1>5 DEF WorkerArm
<1>6. CASE WorkerSnap(j)
  <2>1. tree[meta[j].active] = "intact"
    BY <1>6 DEF WorkerSnap, UnderWay, SoundEnds
  <2>2. pc[j] = "snap" /\ pc'[j] \in {"move", "register"}
    BY <1>6, <2>1 DEF WorkerSnap
  <2>3. UNCHANGED <<desc, hasBefore, rpc, crashes>>
    BY <1>6 DEF WorkerSnap
  <2> QED BY <2>2, <2>3
<1>7. CASE WorkerMove(j)
  BY <1>7 DEF WorkerMove
<1>8. CASE WorkerRegister(j)
  BY <1>8 DEF WorkerRegister
<1>9. CASE WorkerStop(j)
  BY <1>9 DEF WorkerStop
<1>10. CASE WorkerCommit(j)
  BY <1>10 DEF WorkerCommit
<1>11. CASE WorkerLoad(j)
  BY <1>11 DEF WorkerLoad
<1>12. CASE WorkerRecord(j)
  BY <1>12 DEF WorkerRecord
<1>13. CASE WorkerServe(j)
  BY <1>13 DEF WorkerServe
<1>14. CASE WorkerOutcome(j)
  BY <1>14 DEF WorkerOutcome
<1>15. CASE WorkerFinish(j)
  BY <1>15 DEF WorkerFinish
<1>16. CASE WorkerClear(j)
  BY <1>16 DEF WorkerClear
<1>17. CASE WorkerDrop(j)
  BY <1>17 DEF WorkerDrop, DropSnapshot
<1>18. CASE WorkerUnlink(j)
  BY <1>18 DEF WorkerUnlink
<1>19. CASE WorkerQuit(j)
  BY <1>19 DEF WorkerQuit
<1>20. CASE WorkerRepoint(j)
  BY <1>20 DEF WorkerRepoint
<1>21. CASE WorkerReload(j)
  BY <1>21 DEF WorkerReload
<1>22. CASE WorkerRerecord(j)
  BY <1>22 DEF WorkerRerecord
<1>23. CASE WorkerRevive(j)
  BY <1>23 DEF WorkerRevive
<1>24. CASE WorkerRemove(j)
  BY <1>24 DEF WorkerRemove, AfterRemove
<1>25. CASE WorkerReport(j)
  BY <1>25 DEF WorkerReport
<1>26. CASE WorkerReportFailed(j)
  BY <1>26 DEF WorkerReportFailed
<1>27. CASE WorkerThrow(j)
  BY <1>27 DEF WorkerThrow
<1>28. CASE WorkerKill(j)
  BY <1>28 DEF WorkerKill, Dead
<1> QED BY <1>1, <1>2, <1>3, <1>4, <1>5, <1>6, <1>7, <1>8, <1>9, <1>10, <1>11, <1>12, <1>13,
       <1>14, <1>15, <1>16, <1>17, <1>18, <1>19, <1>20, <1>21, <1>22, <1>23, <1>24, <1>25,
       <1>26, <1>27, <1>28 DEF WorkerStep

\* A recovery that undoes is not killed, for the one crash has been.
LEMMA RecoverPending ==
  ASSUME IInv, NEW c \in Callers, NEW j \in Jobs, PendingIsWhole(j), MaxFaults = 0, MaxCrashes <= 1,
         RecoverStep(c, j) \/ RecoverThrow(c, j) \/ RecoverKill(c, j)
  PROVE PendingIsWhole(j)'
<1> USE WorkerId, RecoverId, ConstantsOK
    DEF IInv, TypeOK, LockHeld, PendingIsWhole, UndoSteps
<1>1. CASE RecoverTimeout(c, j)
  BY <1>1 DEF RecoverTimeout
<1>2. CASE RecoverNothing(c, j)
  BY <1>2 DEF RecoverNothing
<1>3. CASE RecoverEnter(c, j)
  <2>1. UNCHANGED <<pc, desc, hasBefore, crashes>>
    BY <1>3 DEF RecoverEnter
  <2>2. ASSUME NEW d \in Callers
        PROVE /\ rpc[<<d, j>>] # "q_desc"
              /\ rpc'[<<d, j>>] \in UndoSteps => desc[j] = "pending"
    <3>1. mutex = NoOne
      BY <1>3 DEF RecoverEnter
    <3>2. rpc[<<d, j>>] \notin RecoverLocked
      BY <3>1
    <3>3. CASE d = c
      BY <1>3, <3>2, <3>3 DEF RecoverEnter
    <3>4. CASE d # c
      <4>1. rpc'[<<d, j>>] = rpc[<<d, j>>]
        BY <1>3, <3>4 DEF RecoverEnter
      <4> QED BY <3>2, <4>1
    <3> QED BY <3>2, <3>3, <3>4
  <2>3. desc[j] = "pending" => crashes >= 1
    <3>1. pc[j] \notin Locked
      BY <1>3 DEF RecoverEnter
    <3> QED BY <3>1
  <2> QED BY <2>1, <2>2, <2>3
<1>4. CASE RecoverPointer(c, j)
  BY <1>4 DEF RecoverPointer
<1>5. CASE RecoverLoader(c, j)
  BY <1>5 DEF RecoverLoader
<1>6. CASE RecoverRecord(c, j)
  BY <1>6 DEF RecoverRecord
<1>7. CASE RecoverRemove(c, j)
  BY <1>7 DEF RecoverRemove
<1>8. CASE RecoverTask(c, j)
  <2>1. UNCHANGED <<pc, desc, hasBefore, crashes>>
    BY <1>8 DEF RecoverTask
  <2>2. ASSUME NEW d \in Callers
        PROVE /\ rpc[<<d, j>>] = "q_desc" => rpc'[<<d, j>>] = "q_desc"
              /\ rpc'[<<d, j>>] \in UndoSteps => rpc[<<d, j>>] \in UndoSteps
    <3>1. CASE d = c
      BY <1>8, <3>1 DEF RecoverTask
    <3>2. CASE d # c
      BY <1>8, <3>2 DEF RecoverTask
    <3> QED BY <3>1, <3>2
  <2> QED BY <2>1, <2>2
<1>9. CASE RecoverSnap(c, j)
  BY <1>9 DEF RecoverSnap
<1>10. CASE RecoverBefore(c, j)
  BY <1>10 DEF RecoverBefore
<1>11. CASE RecoverDesc(c, j)
  BY <1>11 DEF RecoverDesc
<1>12. CASE RecoverDrop(c, j)
  BY <1>12 DEF RecoverDrop
<1>13. CASE RecoverReport(c, j)
  BY <1>13 DEF RecoverReport
<1>14. CASE RecoverThrow(c, j)
  BY <1>14 DEF RecoverThrow
<1>15. CASE RecoverKill(c, j)
  BY <1>15 DEF RecoverKill
<1> QED BY <1>1, <1>2, <1>3, <1>4, <1>5, <1>6, <1>7, <1>8, <1>9, <1>10, <1>11, <1>12, <1>13,
       <1>14, <1>15 DEF RecoverStep

\* Nothing else arms a transaction, and the machine that reboots is the one crash.
LEMMA OtherPending ==
  ASSUME IInv, OtherStep, NEW j \in Jobs, PendingIsWhole(j), MaxCrashes <= 1
  PROVE PendingIsWhole(j)'
<1> USE RecoverId, CallerIds, ConstantsOK
    DEF IInv, TypeOK, ArmedInOrder, ArmedAt, CommitIsProtected, ProtectedAt, Covered,
        PendingIsWhole, UndoSteps
<1>0. UNCHANGED <<hasBefore, desc>>
  BY OtherFrame
<1>1. CASE \E i \in Jobs, v \in Versions : RunUpdate(i, v)
  <2>1. PICK i \in Jobs, v \in Versions : RunUpdate(i, v)
    BY <1>1
  <2>2. CASE i = j
    BY <1>0, <2>1, <2>2 DEF RunUpdate
  <2>3. CASE i # j
    BY <1>0, <2>1, <2>3 DEF RunUpdate
  <2> QED BY <2>2, <2>3
<1>2. CASE \E rt \in Versions : PollRead(rt)
  BY <1>2 DEF PollRead
<1>3. CASE PollDecide
  BY <1>3 DEF PollDecide
<1>4. CASE \E i \in Jobs : TaskRun(i)
  <2>1. UNCHANGED <<pc, crashes>>
    BY <1>4 DEF TaskRun
  <2>2. PICK i \in Jobs : TaskRun(i)
    BY <1>4
  <2>3. \/ rpc' = rpc
        \/ rpc[<<"task", i>>] = "idle" /\ rpc' = [rpc EXCEPT ![<<"task", i>>] = "wait"]
    BY <2>2 DEF TaskRun
  <2>4. ASSUME NEW c \in Callers
        PROVE /\ rpc[<<c, j>>] = "q_desc" => rpc'[<<c, j>>] = "q_desc"
              /\ rpc'[<<c, j>>] \in UndoSteps => rpc[<<c, j>>] \in UndoSteps
    BY <2>3
  <2> QED BY <1>0, <2>1, <2>4
<1>5. CASE LauncherScan
  <2>1. UNCHANGED <<pc, crashes>>
    BY <1>5 DEF LauncherScan
  <2>2. \/ rpc' = rpc
        \/ \E i \in Jobs : /\ rpc[<<"launcher", i>>] = "idle"
                            /\ rpc' = [rpc EXCEPT ![<<"launcher", i>>] = "wait"]
    BY <1>5 DEF LauncherScan
  <2>3. ASSUME NEW c \in Callers
        PROVE /\ rpc[<<c, j>>] = "q_desc" => rpc'[<<c, j>>] = "q_desc"
              /\ rpc'[<<c, j>>] \in UndoSteps => rpc[<<c, j>>] \in UndoSteps
    <3>1. CASE rpc' = rpc
      BY <3>1
    <3>2. CASE rpc' # rpc
      <4>1. PICK i \in Jobs : /\ rpc[<<"launcher", i>>] = "idle"
                              /\ rpc' = [rpc EXCEPT ![<<"launcher", i>>] = "wait"]
        BY <2>2, <3>2
      <4> QED BY <4>1
    <3> QED BY <3>1, <3>2
  <2> QED BY <1>0, <2>1, <2>3
<1>6. CASE Launch
  BY <1>6 DEF Launch
<1>7. CASE Reboot
  BY <1>7 DEF Reboot
<1> QED BY <1>1, <1>2, <1>3, <1>4, <1>5, <1>6, <1>7 DEF OtherStep

\* The crashes are counted upwards.
LEMMA CrashesGrow ==
  ASSUME TypeOK, NEW j \in Jobs,
         \/ WorkerStep(j) \/ WorkerThrow(j) \/ WorkerKill(j)
         \/ \E c \in Callers : RecoverStep(c, j) \/ RecoverThrow(c, j) \/ RecoverKill(c, j)
  PROVE crashes >= 1 => crashes' >= 1
<1> SUFFICES crashes' = crashes \/ crashes' = crashes + 1
  BY DEF TypeOK
<1>1. CASE WorkerStep(j) \/ WorkerThrow(j) \/ WorkerKill(j)
  BY <1>1 DEF WorkerStep, WorkerThrow, WorkerKill, WorkerRead, WorkerEnter, WorkerPlace,
     WorkerGuard, WorkerArm, WorkerSnap, WorkerMove, WorkerRegister, WorkerStop, WorkerCommit,
     WorkerLoad, WorkerRecord, WorkerServe, WorkerOutcome, WorkerFinish, WorkerClear,
     WorkerDrop, WorkerUnlink, WorkerQuit, WorkerRepoint, WorkerReload, WorkerRerecord,
     WorkerRevive, WorkerRemove, WorkerReport, WorkerReportFailed
<1>2. CASE \E c \in Callers : RecoverStep(c, j) \/ RecoverThrow(c, j) \/ RecoverKill(c, j)
  BY <1>2 DEF RecoverStep, RecoverThrow, RecoverKill, RecoverTimeout, RecoverNothing,
     RecoverEnter, RecoverPointer, RecoverLoader, RecoverRecord, RecoverRemove, RecoverTask,
     RecoverSnap, RecoverBefore, RecoverDesc, RecoverDrop, RecoverReport
<1> QED BY <1>1, <1>2

\* A pending transaction is whole in every reachable state, if nothing throws and one
\* process is killed, or the machine rebooted, once.
LEMMA PendingInvariance ==
  ASSUME MaxFaults = 0, MaxCrashes <= 1
  PROVE Spec /\ []InTurn => []PendingCanBeUndone
<1>1. ASSUME Init PROVE PendingCanBeUndone
  <2>1. ASSUME NEW j \in Jobs PROVE desc[j] = "none"
    BY <1>1 DEF Init
  <2>2. ASSUME NEW c \in Callers, NEW j \in Jobs PROVE rpc[<<c, j>>] = "idle"
    BY <1>1 DEF Init, Recoverers
  <2>3. ASSUME NEW j \in Jobs PROVE PendingIsWhole(j)
    BY <2>1, <2>2 DEF PendingIsWhole, UndoSteps
  <2> QED BY <2>3, Zenon DEF PendingCanBeUndone
<1>2. ASSUME IInv, UpdateIsSound, PendingCanBeUndone, NEW j \in Jobs,
             WorkerStep(j) \/ WorkerThrow(j) \/ WorkerKill(j)
      PROVE PendingCanBeUndone'
  <2>1. WorkerFrame(j) /\ (crashes >= 1 => crashes' >= 1)
    BY <1>2, WorkerFrameHolds, CrashesGrow DEF IInv
  <2>2. PendingIsWhole(j)'
    BY <1>2, WorkerPending DEF UpdateIsSound, PendingCanBeUndone
  <2>3. ASSUME NEW k \in Jobs \ {j} PROVE PendingIsWhole(k)'
    BY <1>2, <2>1, <2>3 DEF WorkerFrame, PendingCanBeUndone, PendingIsWhole
  <2> QED BY <2>2, <2>3 DEF PendingCanBeUndone
<1>3. ASSUME IInv, PendingCanBeUndone, NEW c \in Callers, NEW j \in Jobs,
             RecoverStep(c, j) \/ RecoverThrow(c, j) \/ RecoverKill(c, j)
      PROVE PendingCanBeUndone'
  <2>1. RecoverFrame(c, j) /\ (crashes >= 1 => crashes' >= 1)
    BY <1>3, RecoverFrameHolds, CrashesGrow DEF IInv
  <2>2. PendingIsWhole(j)'
    BY <1>3, RecoverPending DEF PendingCanBeUndone
  <2>3. ASSUME NEW k \in Jobs \ {j} PROVE PendingIsWhole(k)'
    <3>1. \A d \in Callers : rpc'[<<d, k>>] = rpc[<<d, k>>]
      BY <2>1, <2>3, RecoverId DEF RecoverFrame
    <3> QED BY <1>3, <2>1, <2>3, <3>1 DEF RecoverFrame, PendingCanBeUndone, PendingIsWhole
  <2> QED BY <2>2, <2>3 DEF PendingCanBeUndone
<1>4. ASSUME IInv, PendingCanBeUndone, OtherStep PROVE PendingCanBeUndone'
  <2>1. ASSUME NEW j \in Jobs PROVE PendingIsWhole(j)'
    BY <1>4, OtherPending DEF PendingCanBeUndone
  <2> QED BY <2>1, Zenon DEF PendingCanBeUndone
<1>5. IInv /\ UpdateIsSound /\ PendingCanBeUndone /\ [Next]_vars => PendingCanBeUndone'
  <2>1. ASSUME IInv, UpdateIsSound, PendingCanBeUndone, Next PROVE PendingCanBeUndone'
    BY <1>2, <1>3, <1>4, <2>1, StepKinds DEF IInv
  <2>2. ASSUME PendingCanBeUndone, UNCHANGED vars PROVE PendingCanBeUndone'
    BY <2>2 DEF vars, PendingCanBeUndone, PendingIsWhole
  <2> QED BY <2>1, <2>2
<1> QED BY <1>1, <1>5, Invariance, SoundInvariance, PTL DEF Spec

\* An update that a single crash interrupts can be undone by whoever finds it: the saved
\* metadata is there, the old runtime is sound and installation.json is one of the two.
THEOREM PendingUpdateIsUndoable ==
  ASSUME MaxFaults = 0, MaxCrashes <= 1
  PROVE Spec /\ []InTurn => []RecoveryCanRun
<1>1. IInv /\ UpdateIsSound /\ PendingCanBeUndone => RecoveryCanRun
  <2> SUFFICES ASSUME IInv, UpdateIsSound, PendingCanBeUndone,
                      NEW j \in Jobs, mutex = NoOne, desc[j] = "pending"
               PROVE Undoable(j)
    BY DEF RecoveryCanRun
  <2>1. tree[meta[j].active] = "intact" /\ pointer \in {meta[j], Committed(j)}
    BY DEF UpdateIsSound, UnderWay, SoundEnds
  <2>2. pc[j] \notin Locked /\ \A c \in Callers : rpc[<<c, j>>] # "q_desc"
    BY WorkerId, RecoverId DEF IInv, LockHeld
  <2>3. hasBefore[j]
    BY <2>2 DEF PendingCanBeUndone, PendingIsWhole
  <2> QED BY <2>1, <2>3 DEF Undoable
<1> QED BY <1>1, Invariance, SoundInvariance, PendingInvariance, PTL
=============================================================================
