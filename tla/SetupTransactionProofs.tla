------------------------ MODULE SetupTransactionProofs ------------------------
(***************************************************************************)
(* What holds of any number of Setups at once and any number of failures.  *)
(* Setups, the recoveries they and the launcher run, and an update exclude *)
(* each other: each step is one of a few kinds, told by what it does to    *)
(* the steps of the scripts and to the mutex, and only the kinds are       *)
(* argued about.  Every variable keeps its type.  And a Setup that is      *)
(* killed leaves on disk what its journal says it does.                    *)
(***************************************************************************)
EXTENDS SetupTransaction, TLAPS

Guarded == Forward \union Cleaning

ControlOK ==
  /\ pc \in [Setups -> SetupPCs]
  /\ rpc \in [Procs -> RecoverPCs]
  /\ mutex \in Procs \union {Updater, NoOne}
  /\ before = [s \in Setups |-> before[s]]

\* A Setup that runs a recovery does nothing else meanwhile, so the mutex its recovery
\* frees is not one the Setup itself works under.
RecoversFirst == \A s \in Setups : rpc[s] # "idle" => pc[s] = "recover"

ExclusionInv == ControlOK /\ RecoversFirst /\ LockHeld

-----------------------------------------------------------------------------
(* The kinds of steps *)

\* No Setup but one that takes the mutex comes to have taken it.
NobodyTakes == /\ before' = [t \in Setups |-> before'[t]]
               /\ \A t \in Setups : before'[t].taken => before[t].taken

\* A Setup goes on, under the mutex only from under the mutex.
Moved(s) ==
  /\ pc[s] # "recover"
  /\ pc'[s] \in SetupPCs
  /\ pc'[s] \in Guarded => pc[s] \in Guarded
  /\ pc'[s] \in Undoing => pc[s] \in Guarded \union Undoing \/ ~before'[s].taken
  /\ pc' = [pc EXCEPT ![s] = pc'[s]]
  /\ UNCHANGED <<rpc, mutex>>

\* A Setup ends, with its recovery if it runs one.
Ends(s) ==
  \E y \in Ended :
    /\ rpc' = [rpc EXCEPT ![s] = "idle"] \/ (rpc' = rpc /\ pc[s] # "recover")
    /\ pc' = [pc EXCEPT ![s] = y]
    /\ mutex' = IF mutex = s THEN NoOne ELSE mutex

\* A recovery goes on.
RMoved(p) ==
  \E y \in RecoverLocked :
    /\ rpc[p] \in RecoverLocked
    /\ rpc' = [rpc EXCEPT ![p] = y]
    /\ UNCHANGED <<pc, mutex>>

\* A recovery ends, and frees the mutex if it holds it.
REnds(p) ==
  \E y \in {"idle", "clear"}, z \in {"create", "failed"} :
    /\ rpc[p] \in RecoverLocked \union {"wait"}
    /\ y = "clear" => p = Launcher
    /\ rpc' = [rpc EXCEPT ![p] = y]
    /\ pc' = [s \in Setups |-> IF s # p THEN pc[s] ELSE z]
    /\ mutex' = IF mutex = p THEN NoOne ELSE mutex

\* The launcher, outside of a recovery.
Looks ==
  \E y \in {"idle", "wait", "clear"} :
    /\ rpc[Launcher] \notin RecoverLocked
    /\ rpc' = [rpc EXCEPT ![Launcher] = y]
    /\ UNCHANGED <<pc, mutex>>

\* The step is of no concern here.
Apart == UNCHANGED <<pc, rpc, mutex>>

-----------------------------------------------------------------------------
(* Every kind keeps the invariant *)

\* The sets of steps are told apart.
LEMMA Places ==
  /\ Guarded \cap ({"none", "recover", "create", "note", "enter"} \union Undoing \union Ended) = {}
  /\ Undoing \cap ({"none", "recover", "create", "note", "enter"} \union Ended) = {}
  /\ Guarded \union Ended \union {"none", "recover", "create"} \subseteq SetupPCs
  /\ Ended \cap {"none", "recover", "create"} = {}
  /\ RecoverLocked \cap {"idle", "wait", "clear"} = {}
  /\ RecoverLocked \union {"idle", "wait", "clear"} \subseteq RecoverPCs
BY DEF Guarded, Forward, Cleaning, Undoing, Ended, SetupPCs, RecoverLocked, RecoverPCs

\* A Setup that goes on keeps the invariant.
LEMMA MovedKeeps ==
  ASSUME ConstantsOK, ExclusionInv, NobodyTakes, NEW s \in Setups, Moved(s)
  PROVE  ExclusionInv'
<1>1. PICK y : y = pc'[s]
  OBVIOUS
<1>2. /\ pc[s] # "recover" /\ y \in SetupPCs
      /\ y \in Guarded => pc[s] \in Guarded
      /\ y \in Undoing => pc[s] \in Guarded \union Undoing \/ ~before'[s].taken
      /\ pc' = [pc EXCEPT ![s] = y]
      /\ UNCHANGED <<rpc, mutex>>
  BY <1>1 DEF Moved
<1>3. ControlOK'
  BY <1>2 DEF ExclusionInv, ControlOK, NobodyTakes
<1>4. RecoversFirst'
  BY <1>2 DEF ExclusionInv, ControlOK, RecoversFirst
<1>5. ASSUME NEW t \in Setups, Inside(t)' PROVE Inside(t)
  <2>1. CASE t = s
    BY <1>2, <1>5, <2>1 DEF ExclusionInv, ControlOK, Inside, NobodyTakes, Guarded
  <2>2. CASE t # s
    BY <1>2, <1>5, <2>2 DEF ExclusionInv, ControlOK, Inside, NobodyTakes
  <2> QED BY <2>1, <2>2
<1>6. LockHeld'
  BY <1>2, <1>5 DEF ExclusionInv, LockHeld
<1> QED BY <1>3, <1>4, <1>6 DEF ExclusionInv

\* A Setup that ends frees a mutex nobody else works under.
LEMMA EndsKeeps ==
  ASSUME ConstantsOK, ExclusionInv, NobodyTakes, NEW s \in Setups, Ends(s)
  PROVE  ExclusionInv'
<1>1. PICK y \in Ended :
        /\ rpc' = [rpc EXCEPT ![s] = "idle"] \/ (rpc' = rpc /\ pc[s] # "recover")
        /\ pc' = [pc EXCEPT ![s] = y]
        /\ mutex' = IF mutex = s THEN NoOne ELSE mutex
  BY DEF Ends
<1>2. rpc'[s] = "idle" /\ \A p \in Procs : rpc'[p] \in {rpc[p], "idle"}
  BY <1>1, Places DEF ExclusionInv, ControlOK, RecoversFirst, Procs
<1>3. y \in SetupPCs /\ y \notin Guarded \union Undoing
  BY <1>1, Places
<1>4. ControlOK'
  BY <1>1, <1>3, Places DEF ExclusionInv, ControlOK, NobodyTakes
<1>5. RecoversFirst'
  BY <1>1, <1>2 DEF ExclusionInv, ControlOK, RecoversFirst, Procs
<1>6. LockHeld'
  <2>1. ASSUME NEW t \in Setups, Inside(t)' PROVE mutex' = t
    <3>1. t # s /\ Inside(t)
      BY <1>1, <1>3, <2>1 DEF ExclusionInv, ControlOK, Inside, NobodyTakes, Guarded
    <3> QED BY <1>1, <3>1 DEF ExclusionInv, LockHeld
  <2>2. ASSUME NEW p \in Procs, rpc'[p] \in RecoverLocked PROVE mutex' = p
    <3>1. p # s /\ rpc[p] \in RecoverLocked
      BY <1>2, <2>2, Places
    <3> QED BY <1>1, <3>1 DEF ExclusionInv, LockHeld
  <2> QED BY <2>1, <2>2 DEF LockHeld
<1> QED BY <1>4, <1>5, <1>6 DEF ExclusionInv

\* A recovery that goes on keeps the invariant.
LEMMA RMovedKeeps ==
  ASSUME ConstantsOK, ExclusionInv, NobodyTakes, NEW p \in Procs, RMoved(p)
  PROVE  ExclusionInv'
<1>1. PICK y \in RecoverLocked :
        /\ rpc[p] \in RecoverLocked
        /\ rpc' = [rpc EXCEPT ![p] = y]
        /\ UNCHANGED <<pc, mutex>>
  BY DEF RMoved
<1>2. ControlOK'
  BY <1>1, Places DEF ExclusionInv, ControlOK, NobodyTakes
<1>3. RecoversFirst'
  BY <1>1, Places DEF ExclusionInv, ControlOK, RecoversFirst, Procs
<1>4. LockHeld'
  BY <1>1 DEF ExclusionInv, ControlOK, LockHeld, Inside, NobodyTakes
<1> QED BY <1>2, <1>3, <1>4 DEF ExclusionInv

\* A recovery that ends frees a mutex nobody else works under, its own Setup included.
LEMMA REndsKeeps ==
  ASSUME ConstantsOK, ExclusionInv, NobodyTakes, NEW p \in Procs, REnds(p)
  PROVE  ExclusionInv'
<1>1. PICK y \in {"idle", "clear"}, z \in {"create", "failed"} :
        /\ rpc[p] \in RecoverLocked \union {"wait"}
        /\ y = "clear" => p = Launcher
        /\ rpc' = [rpc EXCEPT ![p] = y]
        /\ pc' = [s \in Setups |-> IF s # p THEN pc[s] ELSE z]
        /\ mutex' = IF mutex = p THEN NoOne ELSE mutex
  BY DEF REnds
<1>2. z \in SetupPCs /\ z \notin Guarded \union Undoing
  BY <1>1, Places DEF Ended
<1>3. y \notin RecoverLocked /\ y \in RecoverPCs
  BY <1>1, Places
<1>4. ControlOK'
  BY <1>1, <1>2, <1>3 DEF ExclusionInv, ControlOK, NobodyTakes
<1>5. RecoversFirst'
  <2>1. ASSUME NEW t \in Setups, rpc'[t] # "idle" PROVE t # p
    BY <1>1, <2>1 DEF ExclusionInv, ControlOK, Procs, ConstantsOK
  <2>2. ASSUME NEW t \in Setups, rpc'[t] # "idle" PROVE pc'[t] = "recover"
    BY <1>1, <2>1, <2>2 DEF ExclusionInv, ControlOK, Procs, RecoversFirst
  <2> QED BY <2>2 DEF RecoversFirst
<1>6. LockHeld'
  <2>1. ASSUME NEW t \in Setups, Inside(t)' PROVE mutex' = t
    <3>1. t # p /\ Inside(t)
      BY <1>1, <1>2, <2>1 DEF Inside, NobodyTakes, Guarded
    <3> QED BY <1>1, <3>1 DEF ExclusionInv, LockHeld
  <2>2. ASSUME NEW q \in Procs, rpc'[q] \in RecoverLocked PROVE mutex' = q
    <3>1. q # p /\ rpc[q] \in RecoverLocked
      BY <1>1, <1>3, <2>2 DEF ExclusionInv, ControlOK
    <3> QED BY <1>1, <3>1 DEF ExclusionInv, LockHeld
  <2> QED BY <2>1, <2>2 DEF LockHeld
<1> QED BY <1>4, <1>5, <1>6 DEF ExclusionInv

\* The launcher outside of a recovery does not matter to the mutex.
LEMMA LooksKeeps ==
  ASSUME ConstantsOK, ExclusionInv, NobodyTakes, Looks
  PROVE  ExclusionInv'
<1>1. PICK y \in {"idle", "wait", "clear"} :
        /\ rpc[Launcher] \notin RecoverLocked
        /\ rpc' = [rpc EXCEPT ![Launcher] = y]
        /\ UNCHANGED <<pc, mutex>>
  BY DEF Looks
<1>2. Launcher \in Procs /\ Launcher \notin Setups
  BY DEF Procs, ConstantsOK
<1>3. y \notin RecoverLocked /\ y \in RecoverPCs
  BY <1>1, Places
<1>4. ControlOK'
  BY <1>1, <1>3 DEF ExclusionInv, ControlOK, NobodyTakes
<1>5. RecoversFirst'
  BY <1>1, <1>2 DEF ExclusionInv, ControlOK, RecoversFirst, Procs
<1>6. LockHeld'
  BY <1>1, <1>2, <1>3 DEF ExclusionInv, ControlOK, LockHeld, Procs, Inside, NobodyTakes
<1> QED BY <1>4, <1>5, <1>6 DEF ExclusionInv

\* Neither does what touches none of the three.
LEMMA ApartKeeps ==
  ASSUME ExclusionInv, NobodyTakes, Apart
  PROVE  ExclusionInv'
BY DEF Apart, NobodyTakes, ExclusionInv, ControlOK, RecoversFirst, LockHeld, Inside

\* While the mutex is free, or the update's, nobody works under it.
LEMMA FreeIsFree ==
  ASSUME ConstantsOK, ExclusionInv, mutex \in {NoOne, Updater}
  PROVE  /\ \A s \in Setups : ~Inside(s) /\ pc[s] \notin Guarded
         /\ \A s \in Setups : rpc[s] \notin RecoverLocked
         /\ mutex = Updater => rpc[Launcher] \notin RecoverLocked
<1>1. \A s \in Setups : s # NoOne /\ s # Updater /\ s \in Procs
  BY DEF ConstantsOK, Procs
<1>2. Launcher \in Procs /\ Launcher # Updater
  BY DEF ConstantsOK, Procs
<1> QED BY <1>1, <1>2 DEF ExclusionInv, LockHeld, Inside, Guarded

-----------------------------------------------------------------------------
(* The kind of every action *)

\* Only a Setup that enters takes the mutex for a Setup; one that reads has it.
LEMMA OnlyEnterTakes ==
  ASSUME ControlOK, [Next]_vars, \A s \in Setups : ~Enter(s) /\ ~Read(s)
  PROVE  NobodyTakes
<1>0. before = [t \in Setups |-> before[t]]
  BY DEF ControlOK
<1>1. CASE before' = before
  BY <1>0, <1>1 DEF NobodyTakes
<1>2. ASSUME NEW s, NEW x, before' = [before EXCEPT ![s] = x], x.taken => before[s].taken
      PROVE  NobodyTakes
  <2>1. before' = [t \in Setups |-> IF t = s THEN x ELSE before[t]]
    BY <1>0, <1>2
  <2>2. \A t \in Setups : before'[t] = IF t = s THEN x ELSE before[t]
    BY <2>1
  <2>3. before' = [t \in Setups |-> before'[t]]
    BY <2>1
  <2>4. ASSUME NEW t \in Setups, before'[t].taken PROVE before[t].taken
    BY <1>2, <2>2, <2>4
  <2> QED BY <2>3, <2>4 DEF NobodyTakes
<1>3. ASSUME NEW s \in Setups, SetupStep(s) PROVE NobodyTakes
  <2>1. CASE TimeOut(s)
    BY <1>2, <2>1 DEF TimeOut, Seen
  <2>2. CASE Drop(s)
    BY <1>2, <2>2 DEF Drop, Nothing
  <2> QED BY <1>1, <1>3, <2>1, <2>2
       DEF SetupStep, Create, NoteInitialized, Prepare, SaveLauncher, Place, MoveAside, NoteMoved, MoveIn,
           NoteReady, StopOld, Snapshot, ReplaceLauncher, NoteReplaced, NoteIntent, Commit, NoteCommitted,
           Deploy, Serve, Finish, Clean, Unlink, UndoStop, UndoPointer, UndoLauncher, UndoLoader,
           UndoRemove, UndoBack, UndoStart, Note, others
<1>4. ASSUME NEW s \in Setups, Begin(s) \/ Throw(s) \/ Kill(s) PROVE NobodyTakes
  BY <1>1, <1>4 DEF Begin, Throw, Kill
<1>5. ASSUME NEW p \in Procs, RecoverStep(p) \/ RecoverThrow(p) PROVE NobodyTakes
  <2>1. CASE RecoverDrop(p)
    BY <1>2, <2>1 DEF RecoverDrop, Nothing
  <2> QED BY <1>1, <1>5, <2>1
       DEF RecoverStep, RecoverThrow, RecoverEnter, RecoverTimeOut, RecoverPick, RecoverLeave, RecoverStop,
           RecoverRemove, RecoverBack, RecoverPointer, RecoverLauncher, RecoverCadence, RecoverStash,
           RecoverUnlink, elsewhere
<1>6. CASE Scan \/ Launch \/ KillLauncher \/ UpdateBegin
  BY <1>1, <1>6 DEF Scan, Launch, KillLauncher, UpdateBegin, elsewhere
<1>7. CASE UpdateEnd
  <2>1. before' = before \/ before' = [s \in Setups |-> Nothing]
    BY <1>7 DEF UpdateEnd
  <2> QED BY <1>1, <2>1 DEF NobodyTakes, Nothing
<1>8. CASE UNCHANGED vars
  BY <1>1, <1>8 DEF vars
<1> QED BY <1>3, <1>4, <1>5, <1>6, <1>7, <1>8 DEF Next

\* The steps of Setup but the ones that take the mutex and end.
LEMMA SetupMoves ==
  ASSUME ConstantsOK, NEW s \in Setups, ControlOK, SetupStep(s)
  PROVE  Moved(s) \/ Enter(s) \/ Ends(s)
<1> USE DEF Guarded, Forward, Cleaning, Undoing, Ended, SetupPCs
<1>1. CASE NoteInitialized(s)
  BY <1>1 DEF NoteInitialized, Moved, Note, Go, Goto, others, rec, ControlOK
<1>2. CASE Create(s)
  BY <1>2 DEF Create, Moved, Go, Goto, others, rec, ControlOK
<1>3. CASE TimeOut(s)
  <2>1. ~before'[s].taken
    BY <1>3 DEF TimeOut, ControlOK, Seen
  <2> QED BY <1>3, <2>1 DEF TimeOut, Moved, Go, Goto, others, rec, ControlOK
<1>4. CASE Prepare(s)
  BY <1>4 DEF Prepare, Moved, Goto, others, rec, ControlOK
<1>5. CASE SaveLauncher(s)
  BY <1>5 DEF SaveLauncher, Moved, Goto, others, rec, ControlOK
<1>6. CASE Place(s)
  BY <1>6 DEF Place, Moved, Goto, others, rec, ControlOK
<1>7. CASE MoveAside(s)
  BY <1>7 DEF MoveAside, Moved, Goto, others, rec, ControlOK
<1>8. CASE NoteMoved(s)
  BY <1>8 DEF NoteMoved, Moved, Note, Go, Goto, others, rec, ControlOK
<1>9. CASE MoveIn(s)
  BY <1>9 DEF MoveIn, Moved, Go, Goto, others, rec, ControlOK
<1>10. CASE NoteReady(s)
  BY <1>10 DEF NoteReady, Moved, Note, Go, Goto, others, rec, ControlOK
<1>11. CASE StopOld(s)
  BY <1>11 DEF StopOld, Moved, Go, Goto, others, rec, ControlOK
<1>12. CASE Snapshot(s)
  BY <1>12 DEF Snapshot, Moved, Go, Goto, others, rec, ControlOK
<1>13. CASE ReplaceLauncher(s)
  BY <1>13 DEF ReplaceLauncher, Moved, Go, Goto, others, rec, ControlOK
<1>14. CASE NoteReplaced(s)
  BY <1>14 DEF NoteReplaced, Moved, Note, Go, Goto, others, rec, ControlOK
<1>15. CASE NoteIntent(s)
  BY <1>15 DEF NoteIntent, Moved, Note, Go, Goto, others, rec, ControlOK
<1>16. CASE Commit(s)
  BY <1>16 DEF Commit, Moved, Go, Goto, others, rec, ControlOK
<1>17. CASE NoteCommitted(s)
  BY <1>17 DEF NoteCommitted, Moved, Note, Go, Goto, others, rec, ControlOK
<1>18. CASE Deploy(s)
  BY <1>18 DEF Deploy, Moved, Go, Goto, others, rec, ControlOK
<1>19. CASE Serve(s)
  BY <1>19 DEF Serve, Moved, Go, Goto, others, rec, ControlOK
<1>20. CASE Finish(s)
  BY <1>20 DEF Finish, Moved, Go, Goto, others, rec, ControlOK
<1>21. CASE Clean(s)
  BY <1>21 DEF Clean, Moved, Go, Goto, others, rec, ControlOK
<1>22. CASE Unlink(s)
  BY <1>22 DEF Unlink, Moved, Goto, others, rec, ControlOK
<1>23. CASE UndoStop(s)
  BY <1>23 DEF UndoStop, Moved, Go, Goto, others, rec, ControlOK
<1>24. CASE UndoPointer(s)
  BY <1>24 DEF UndoPointer, Moved, Go, Goto, others, rec, ControlOK
<1>25. CASE UndoLauncher(s)
  BY <1>25 DEF UndoLauncher, Moved, Go, Goto, others, rec, ControlOK
<1>26. CASE UndoLoader(s)
  BY <1>26 DEF UndoLoader, Moved, Go, Goto, others, rec, ControlOK
<1>27. CASE UndoBack(s)
  BY <1>27 DEF UndoBack, Moved, Go, Goto, others, rec, ControlOK
<1>28. CASE UndoStart(s)
  BY <1>28 DEF UndoStart, Moved, Go, Goto, others, rec, ControlOK
<1>29. CASE Enter(s)
  BY <1>29
<1>32. CASE Read(s)
  BY <1>32 DEF Read, Moved, Go, Goto, others, rec, ControlOK
<1>30. CASE Drop(s)
  BY <1>30 DEF Drop, Ends, Leave, Goto, rec
<1>31. CASE UndoRemove(s)
  <2> DEFINE stuck == /\ \/ mem[s].moved /\ stash[s] # "absent"
                         \/ mem[s].created /\ (target[s] # mem[s].old \/ ~mem[s].oldExisted)
                      /\ running = target[s]
  <2>1. CASE stuck
    BY <1>31, <2>1 DEF UndoRemove, Ends, Leave, Goto, rec
  <2>2. CASE ~stuck
    BY <1>31, <2>2 DEF UndoRemove, Moved, Goto, rec, ControlOK
  <2> QED BY <2>1, <2>2
<1> QED BY <1>1, <1>2, <1>3, <1>4, <1>5, <1>6, <1>7, <1>8, <1>9, <1>10, <1>11, <1>12, <1>13,
           <1>14, <1>15, <1>16, <1>17, <1>18, <1>19, <1>20, <1>21, <1>22, <1>23, <1>24, <1>25,
           <1>26, <1>27, <1>28, <1>29, <1>30, <1>31, <1>32 DEF SetupStep

\* A recovery that ends, however it does.
LEMMA EndIsREnds ==
  ASSUME ConstantsOK, NEW p \in Procs, NEW ok \in BOOLEAN, RecoverEnd(p, ok),
         rpc[p] \in RecoverLocked \union {"wait"}
  PROVE  REnds(p)
BY DEF RecoverEnd, Step, REnds

\* The steps of a recovery but the one that takes the mutex.
LEMMA RecoverMoves ==
  ASSUME ConstantsOK, NEW p \in Procs, RecoverStep(p)
  PROVE  RMoved(p) \/ RecoverEnter(p) \/ REnds(p)
<1> USE DEF RecoverLocked
<1>1. CASE RecoverStop(p)
  BY <1>1 DEF RecoverStop, RMoved, RGo, Step, elsewhere
<1>2. CASE RecoverBack(p)
  BY <1>2 DEF RecoverBack, RMoved, RGo, Step, elsewhere
<1>3. CASE RecoverPointer(p)
  BY <1>3 DEF RecoverPointer, RMoved, RGo, Step, elsewhere
<1>4. CASE RecoverStash(p)
  BY <1>4 DEF RecoverStash, RMoved, RGo, Step, elsewhere
<1>5. CASE RecoverUnlink(p)
  BY <1>5 DEF RecoverUnlink, RMoved, RGo, Step, elsewhere
<1>6. CASE RecoverDrop(p)
  BY <1>6 DEF RecoverDrop, RMoved, RGo, Step, elsewhere
<1>7. CASE RecoverEnter(p)
  BY <1>7
<1>8. CASE RecoverTimeOut(p)
  BY <1>8, EndIsREnds DEF RecoverTimeOut
<1>9. CASE RecoverLeave(p)
  BY <1>9, EndIsREnds DEF RecoverLeave
<1>10. CASE RecoverPick(p)
  <2>1. rpc[p] = "pick" /\ (RecoverEnd(p, FALSE)
          \/ (UNCHANGED <<mutex, pc>> /\ \E y \in RecoverLocked : Step(p, y)))
    BY <1>10 DEF RecoverPick
  <2> QED BY <2>1, EndIsREnds DEF RMoved, Step
<1>11. CASE RecoverRemove(p)
  <2>1. rpc[p] = "remove" /\ (RecoverEnd(p, FALSE)
          \/ (UNCHANGED <<mutex, pc>> /\ \E y \in RecoverLocked : Step(p, y)))
    BY <1>11 DEF RecoverRemove
  <2> QED BY <2>1, EndIsREnds DEF RMoved, Step
<1>12. CASE RecoverLauncher(p)
  <2>1. rpc[p] = "launcher" /\ (RecoverEnd(p, FALSE)
          \/ (UNCHANGED <<mutex, pc>> /\ \E y \in RecoverLocked : Step(p, y)))
    BY <1>12 DEF RecoverLauncher
  <2> QED BY <2>1, EndIsREnds DEF RMoved, Step
<1>13. CASE RecoverCadence(p)
  <2>1. rpc[p] = "cadence" /\ (RecoverEnd(p, FALSE)
          \/ (UNCHANGED <<mutex, pc>> /\ \E y \in RecoverLocked : Step(p, y)))
    BY <1>13 DEF RecoverCadence
  <2> QED BY <2>1, EndIsREnds DEF RMoved, Step
<1> QED BY <1>1, <1>2, <1>3, <1>4, <1>5, <1>6, <1>7, <1>8, <1>9, <1>10, <1>11, <1>12, <1>13
           DEF RecoverStep

-----------------------------------------------------------------------------
(* The steps that take the mutex, and the others that are no kind *)

\* A Setup takes a free mutex, which nobody works under.
LEMMA EnterKeeps ==
  ASSUME ConstantsOK, ExclusionInv, NEW s \in Setups, Enter(s)
  PROVE  ExclusionInv'
<1>1. /\ pc[s] = "enter" /\ pc' = [pc EXCEPT ![s] = "read"]
      /\ mutex = NoOne /\ mutex' = s /\ rpc' = rpc
      /\ before' = [before EXCEPT ![s] = Seen(TRUE, FALSE)]
  BY DEF Enter, Go, Goto, rec
<1>2. "read" \in SetupPCs
  BY DEF SetupPCs, Forward
<1>3. ControlOK'
  BY <1>1, <1>2 DEF ExclusionInv, ControlOK, Procs, Seen
<1>4. RecoversFirst'
  BY <1>1 DEF ExclusionInv, ControlOK, RecoversFirst
<1>5. \A t \in Setups : ~Inside(t)
  BY <1>1, FreeIsFree
<1>6. \A p \in Procs : rpc[p] \notin RecoverLocked
  BY <1>1 DEF ExclusionInv, LockHeld, Procs, ConstantsOK
<1>7. ASSUME NEW t \in Setups, t # s PROVE ~Inside(t)'
  BY <1>1, <1>5, <1>7 DEF Inside, ExclusionInv, ControlOK
<1>8. LockHeld'
  BY <1>1, <1>6, <1>7 DEF LockHeld
<1> QED BY <1>3, <1>4, <1>8 DEF ExclusionInv

\* So does a recovery.
LEMMA RecoverEnterKeeps ==
  ASSUME ConstantsOK, ExclusionInv, NEW p \in Procs, RecoverEnter(p)
  PROVE  ExclusionInv'
<1>1. /\ rpc[p] = "wait" /\ rpc' = [rpc EXCEPT ![p] = "pick"]
      /\ mutex = NoOne /\ mutex' = p /\ pc' = pc /\ before' = before
  BY DEF RecoverEnter, RGo, Step
<1>2. "pick" \in RecoverPCs
  BY DEF RecoverPCs, RecoverLocked
<1>3. ControlOK'
  BY <1>1, <1>2 DEF ExclusionInv, ControlOK
<1>4. RecoversFirst'
  BY <1>1 DEF ExclusionInv, ControlOK, RecoversFirst, Procs
<1>5. \A t \in Setups : ~Inside(t)'
  BY <1>1, FreeIsFree DEF Inside
<1>6. \A q \in Procs : rpc[q] \notin RecoverLocked
  BY <1>1 DEF ExclusionInv, LockHeld, Procs, ConstantsOK
<1>7. LockHeld'
  BY <1>1, <1>5, <1>6 DEF LockHeld, ExclusionInv, ControlOK
<1> QED BY <1>3, <1>4, <1>7 DEF ExclusionInv

\* A Setup that reads installation.json has the mutex already.
LEMMA ReadKeeps ==
  ASSUME ConstantsOK, ExclusionInv, NEW s \in Setups, Read(s)
  PROVE  ExclusionInv'
<1>1. /\ pc[s] = "read" /\ pc' = [pc EXCEPT ![s] = "prepare"] /\ mutex' = mutex /\ rpc' = rpc
      /\ before' = [before EXCEPT ![s] = Seen(TRUE, TRUE)]
  BY DEF Read, Go, Goto, rec
<1>2. "prepare" \in SetupPCs
  BY DEF SetupPCs, Forward
<1>3. ControlOK' /\ RecoversFirst'
  BY <1>1, <1>2 DEF ExclusionInv, ControlOK, RecoversFirst
<1>4. Inside(s)
  BY <1>1 DEF Inside, Forward
<1>5. ASSUME NEW t \in Setups, t # s, Inside(t)' PROVE Inside(t)
  BY <1>1, <1>5 DEF Inside, ExclusionInv, ControlOK
<1>6. LockHeld'
  BY <1>1, <1>4, <1>5 DEF LockHeld, ExclusionInv
<1> QED BY <1>3, <1>6 DEF ExclusionInv

\* A Setup that begins waits, with a recovery or without.
LEMMA BeginKeeps ==
  ASSUME ConstantsOK, ExclusionInv, NEW s \in Setups, Begin(s)
  PROVE  ExclusionInv'
<1>1. PICK x \in {"wait", "idle"}, y \in {"recover", "create"} :
        /\ x # "idle" => y = "recover"
        /\ rpc' = [rpc EXCEPT ![s] = x]
        /\ pc' = [pc EXCEPT ![s] = y]
        /\ mutex' = mutex /\ before' = before
  <2>1. CASE \E t \in Setups : dir[t]
    BY <2>1 DEF Begin, Goto
  <2>2. CASE ~ \E t \in Setups : dir[t]
    BY <2>2 DEF Begin, Goto
  <2> QED BY <2>1, <2>2
<1>2. x \in RecoverPCs \ RecoverLocked /\ y \in SetupPCs \ (Guarded \union Undoing)
  BY <1>1, Places
<1>3. s \in Procs
  BY DEF Procs
<1>4. ControlOK'
  BY <1>1, <1>2 DEF ExclusionInv, ControlOK
<1>5. RecoversFirst'
  BY <1>1, <1>3 DEF ExclusionInv, ControlOK, RecoversFirst, Procs
<1>6. LockHeld'
  BY <1>1, <1>2, <1>3 DEF ExclusionInv, ControlOK, LockHeld, Inside, Guarded
<1> QED BY <1>4, <1>5, <1>6 DEF ExclusionInv

\* An update takes a free mutex, and frees its own.
LEMMA UpdateKeeps ==
  ASSUME ConstantsOK, ExclusionInv, NobodyTakes, UpdateBegin \/ UpdateEnd
  PROVE  ExclusionInv'
<1>1. /\ pc' = pc /\ rpc' = rpc
      /\ \/ mutex = NoOne /\ mutex' = Updater
         \/ mutex = Updater /\ mutex' = NoOne
  BY DEF UpdateBegin, UpdateEnd, rec
<1>2. ControlOK'
  BY <1>1 DEF ExclusionInv, ControlOK, NobodyTakes
<1>3. RecoversFirst'
  BY <1>1 DEF ExclusionInv, RecoversFirst
<1>4. \A t \in Setups : ~Inside(t)'
  BY <1>1, FreeIsFree DEF Inside, NobodyTakes
<1>5. \A q \in Procs : rpc[q] \notin RecoverLocked
  BY <1>1 DEF ExclusionInv, LockHeld, Procs, ConstantsOK
<1>6. LockHeld'
  BY <1>1, <1>4, <1>5 DEF LockHeld
<1> QED BY <1>2, <1>3, <1>6 DEF ExclusionInv

\* A throw ends a Setup or sends it to its catch block.
LEMMA ThrowKeeps ==
  ASSUME ConstantsOK, ExclusionInv, NobodyTakes, NEW s \in Setups, Throw(s)
  PROVE  ExclusionInv'
<1> USE DEF Guarded, Forward, Cleaning, Undoing, Ended, SetupPCs
<1>1. CASE pc[s] \in Forward \ {"finish"} /\ Goto(s, "u_stop") /\ UNCHANGED <<rpc, mutex>>
  <2>1. Moved(s)
    BY <1>1 DEF Moved, Goto, ExclusionInv, ControlOK
  <2> QED BY <2>1, MovedKeeps
<1>2. CASE pc[s] \in Undoing /\ Leave(s, "failed") /\ UNCHANGED rpc
  <2>1. Ends(s)
    BY <1>2 DEF Ends, Leave, Goto
  <2> QED BY <2>1, EndsKeeps
<1>3. CASE pc[s] \in {"finish", "unlink", "drop"} /\ Leave(s, "done") /\ UNCHANGED rpc
  <2>1. Ends(s)
    BY <1>3 DEF Ends, Leave, Goto
  <2> QED BY <2>1, EndsKeeps
<1> QED BY <1>1, <1>2, <1>3 DEF Throw, rec

\* Nothing the modelled program does breaks the exclusion.
LEMMA StepKeeps ==
  ASSUME ConstantsOK, ExclusionInv, [Next]_vars
  PROVE  ExclusionInv'
<1>0. CASE \E s \in Setups : Enter(s) \/ Read(s)
  BY <1>0, EnterKeeps, ReadKeeps
<1> SUFFICES ASSUME \A s \in Setups : ~Enter(s) /\ ~Read(s) PROVE ExclusionInv'
  BY <1>0
<1>10. NobodyTakes
  BY OnlyEnterTakes DEF ExclusionInv
<1>1. CASE \E s \in Setups : Begin(s) \/ SetupStep(s) \/ Throw(s) \/ Kill(s)
  <2> PICK s \in Setups : Begin(s) \/ SetupStep(s) \/ Throw(s) \/ Kill(s)
    BY <1>1
  <2>1. CASE Begin(s)
    BY <2>1, BeginKeeps
  <2>2. CASE SetupStep(s)
    <3>1. Moved(s) \/ Enter(s) \/ Ends(s)
      BY <2>2, SetupMoves DEF ExclusionInv
    <3> QED BY <1>10, <3>1, MovedKeeps, EndsKeeps
  <2>3. CASE Throw(s)
    BY <1>10, <2>3, ThrowKeeps
  <2>4. CASE Kill(s)
    <3>1. Ends(s)
      BY <2>4 DEF Kill, Leave, Goto, Ends, Ended
    <3> QED BY <1>10, <3>1, EndsKeeps
  <2> QED BY <2>1, <2>2, <2>3, <2>4
<1>2. CASE \E p \in Procs : RecoverStep(p) \/ RecoverThrow(p)
  <2> PICK p \in Procs : RecoverStep(p) \/ RecoverThrow(p)
    BY <1>2
  <2>1. CASE RecoverStep(p)
    <3>1. RMoved(p) \/ RecoverEnter(p) \/ REnds(p)
      BY <2>1, RecoverMoves
    <3> QED BY <1>10, <3>1, RMovedKeeps, RecoverEnterKeeps, REndsKeeps
  <2>2. CASE RecoverThrow(p)
    <3>1. REnds(p)
      BY <2>2, EndIsREnds DEF RecoverThrow
    <3> QED BY <1>10, <3>1, REndsKeeps
  <2> QED BY <2>1, <2>2
<1>3. CASE Scan
  <2>1. Looks
    BY <1>3 DEF Scan, Looks, Step, elsewhere, RecoverLocked
  <2> QED BY <1>10, <2>1, LooksKeeps
<1>4. CASE Launch
  <2>1. Looks
    BY <1>4 DEF Launch, Looks, Step, elsewhere, RecoverLocked
  <2> QED BY <1>10, <2>1, LooksKeeps
<1>5. CASE KillLauncher
  <2>1. Launcher \in Procs /\ REnds(Launcher)
    BY <1>5, EndIsREnds DEF KillLauncher, Procs
  <2> QED BY <1>10, <2>1, REndsKeeps
<1>6. CASE UpdateBegin \/ UpdateEnd
  BY <1>6, <1>10, UpdateKeeps
<1>7. CASE UNCHANGED vars
  <2>1. Apart
    BY <1>7 DEF vars, rec, Apart
  <2> QED BY <1>10, <2>1, ApartKeeps
<1> QED BY <1>1, <1>2, <1>3, <1>4, <1>5, <1>6, <1>7 DEF Next

\* At the start nobody runs.
LEMMA InitIsExclusive ==
  ASSUME ConstantsOK, Init
  PROVE  ExclusionInv
<1> USE DEF Init
<1>1. ControlOK
  BY Places DEF ControlOK, Nothing
<1>2. RecoversFirst
  BY DEF RecoversFirst, Procs
<1>3. LockHeld
  BY Places DEF LockHeld, Inside, Guarded
<1> QED BY <1>1, <1>2, <1>3 DEF ExclusionInv

\* Mutual exclusion (Enter-HwV3LifecycleMutex): whatever Setups run at once, throw, are
\* killed or give up waiting, a Setup that got the mutex has the installation to itself until
\* it ends, its catch block included, and so have a recovery and the update.  A Setup that
\* gave up waiting undoes itself without the mutex: it is outside of this (LockHeld).
THEOREM SetupExclusion == Spec => []LockHeld
<1>1. Init => ExclusionInv
  BY InitIsExclusive, ConstantsOK
<1>2. ExclusionInv /\ [Next]_vars => ExclusionInv'
  BY StepKeeps, ConstantsOK
<1>3. ExclusionInv => LockHeld
  BY DEF ExclusionInv
<1> QED BY <1>1, <1>2, <1>3, PTL DEF Spec

-----------------------------------------------------------------------------
(* The notes *)

\* k says of what was found what m says.
SameFound(m, k) ==
  /\ k.old = m.old /\ k.new = m.new /\ k.original = m.original
  /\ k.existed = m.existed /\ k.oldExisted = m.oldExisted

\* k says of each thing Setup does whether it is done.
Says(k, created, intent, moved, replaced, committing, committed, snap) ==
  /\ k.created = created /\ k.intent = intent /\ k.moved = moved /\ k.replaced = replaced
  /\ k.committing = committing /\ k.committed = committed /\ k.snap = snap

\* Noting that .created holds changes no other note.
LEMMA NoteCreatedOnly ==
  ASSUME NEW m \in Notes
  PROVE  LET k == [m EXCEPT !.created = TRUE]
         IN k \in Notes /\ SameFound(m, k) /\ Says(k, TRUE, m.intent, m.moved, m.replaced, m.committing, m.committed, m.snap)
BY DEF Notes, SameFound, Says

\* Noting that .moved holds changes no other note.
LEMMA NoteMovedOnly ==
  ASSUME NEW m \in Notes
  PROVE  LET k == [m EXCEPT !.moved = TRUE]
         IN k \in Notes /\ SameFound(m, k) /\ Says(k, m.created, m.intent, TRUE, m.replaced, m.committing, m.committed, m.snap)
BY DEF Notes, SameFound, Says

\* Noting that .replaced holds changes no other note.
LEMMA NoteReplacedOnly ==
  ASSUME NEW m \in Notes
  PROVE  LET k == [m EXCEPT !.replaced = TRUE]
         IN k \in Notes /\ SameFound(m, k) /\ Says(k, m.created, m.intent, m.moved, TRUE, m.committing, m.committed, m.snap)
BY DEF Notes, SameFound, Says

\* Noting that .committing holds changes no other note.
LEMMA NoteCommittingOnly ==
  ASSUME NEW m \in Notes
  PROVE  LET k == [m EXCEPT !.committing = TRUE]
         IN k \in Notes /\ SameFound(m, k) /\ Says(k, m.created, m.intent, m.moved, m.replaced, TRUE, m.committed, m.snap)
BY DEF Notes, SameFound, Says

\* Noting that .committed holds changes no other note.
LEMMA NoteCommittedOnly ==
  ASSUME NEW m \in Notes
  PROVE  LET k == [m EXCEPT !.committed = TRUE]
         IN k \in Notes /\ SameFound(m, k) /\ Says(k, m.created, m.intent, m.moved, m.replaced, m.committing, TRUE, m.snap)
BY DEF Notes, SameFound, Says

\* Noting that .snap holds changes no other note.
LEMMA NoteSnapOnly ==
  ASSUME NEW m \in Notes
  PROVE  LET k == [m EXCEPT !.snap = TRUE]
         IN k \in Notes /\ SameFound(m, k) /\ Says(k, m.created, m.intent, m.moved, m.replaced, m.committing, m.committed, TRUE)
BY DEF Notes, SameFound, Says

\* Nor does noting that a directory is to be moved.
LEMMA NoteIntentOnly ==
  ASSUME NEW m \in Notes, NEW h \in BOOLEAN
  PROVE  LET k == [m EXCEPT !.intent = TRUE, !.healthy = h]
         IN k \in Notes /\ SameFound(m, k) /\ Says(k, m.created, TRUE, m.moved, m.replaced, m.committing, m.committed, m.snap)
BY DEF Notes, SameFound, Says

\* Nor that the old backend was healthy.
LEMMA NoteHealthyOnly ==
  ASSUME NEW m \in Notes, NEW h \in BOOLEAN
  PROVE  LET k == [m EXCEPT !.healthy = h]
         IN k \in Notes /\ SameFound(m, k) /\ Says(k, m.created, m.intent, m.moved, m.replaced, m.committing, m.committed, m.snap)
BY DEF Notes, SameFound, Says

\* What installation.json says is noted as it is read.
LEMMA NoteFoundOnly ==
  ASSUME NEW m \in Notes, NEW p \in Pointers, NEW o \in Versions \union {None}, NEW e \in BOOLEAN
  PROVE  LET k == [m EXCEPT !.original = p, !.old = o, !.oldExisted = e]
         IN /\ k \in Notes /\ k.old = o /\ k.new = m.new /\ k.original = p
            /\ k.existed = m.existed /\ k.oldExisted = e
            /\ Says(k, m.created, m.intent, m.moved, m.replaced, m.committing, m.committed, m.snap)
BY DEF Notes, Says

\* The first notes say that nothing is done.
LEMMA FirstNotes ==
  ASSUME NEW v \in Versions \union {None}, NEW e \in BOOLEAN
  PROVE  LET k == [NoNotes EXCEPT !.new = v, !.existed = e]
         IN /\ NoNotes \in Notes /\ k \in Notes /\ k.new = v /\ k.existed = e
            /\ k.original = NoPointer /\ k.old = None /\ ~k.oldExisted
            /\ Says(k, FALSE, FALSE, FALSE, FALSE, FALSE, FALSE, FALSE)
            /\ Says(NoNotes, FALSE, FALSE, FALSE, FALSE, FALSE, FALSE, FALSE)
BY DEF Notes, Says, NoNotes, NoPointer, Pointers

-----------------------------------------------------------------------------
(* The types *)

\* What the scripts write for themselves has its types.
PaperTypes == /\ mem \in [Setups -> Notes] /\ journal \in [Setups -> Notes]
              /\ outcome \in [Setups -> {"none", "pending", "completed"}]
              /\ dir \in [Setups -> BOOLEAN]

\* Saving the journal keeps the types of what is saved,
LEMMA WriteTypes ==
  ASSUME TypeOK, NEW s \in Setups, NEW m \in Notes, Write(s, m)
  PROVE  PaperTypes'
BY DEF Write, Keep, TypeOK, PaperTypes

\* and so does noting something without saving it,
LEMMA KeepTypes ==
  ASSUME TypeOK, NEW s \in Setups, NEW m \in Notes, Keep(s, m), UNCHANGED paper
  PROVE  PaperTypes'
BY DEF Keep, TypeOK, PaperTypes, paper

\* and doing neither.
LEMMA SameTypes ==
  ASSUME TypeOK, UNCHANGED <<mem, paper>>
  PROVE  PaperTypes'
BY DEF TypeOK, PaperTypes, paper

\* A Setup that runs knows the version it is to install.
TargetKnown == \A s \in Setups : pc[s] \notin {"none"} \union Ended => target[s] \in Versions

\* A step of Setup keeps the types.
LEMMA SetupStepTypes ==
  ASSUME ConstantsOK, TypeOK, TargetKnown, NEW s \in Setups, SetupStep(s)
  PROVE  TypeOK'
<1> USE DEF Forward, Cleaning, Undoing, Ended, SetupPCs, others, rec, given, install, files, paper, request, locals, Go, Goto, SetTree, SetStash, Contents, TypeOK
<1>0. mem[s] \in Notes BY DEF TypeOK
<1>1. CASE NoteInitialized(s)
  BY <1>1 DEF NoteInitialized, Note, Write, Keep
<1>2. CASE Create(s)
  <2>1. PICK k \in Notes : mem' = [mem EXCEPT ![s] = k]
    BY <1>2, FirstNotes DEF Create, Keep
  <2> QED BY <2>1, <1>2 DEF Create
<1>3. CASE Enter(s)
  <2>1. before' \in [Setups -> Installations]
    BY <1>3 DEF Enter, Installations, Seen
  <2> QED BY <2>1, <1>3 DEF Enter, Procs
<1>30. CASE Read(s)
  <2>1. PICK k \in Notes : mem' = [mem EXCEPT ![s] = k]
    BY <1>0, <1>30, NoteFoundOnly DEF Read, Keep, Pointers
  <2>2. before' \in [Setups -> Installations]
    BY <1>30 DEF Read, Installations, Seen
  <2> QED BY <2>1, <2>2, <1>30 DEF Read
<1>4. CASE TimeOut(s)
  <2>2. before' \in [Setups -> Installations]
    BY <1>4 DEF TimeOut, Installations, Seen
  <2> QED BY <2>2, <1>4 DEF TimeOut
<1>5. CASE Prepare(s)
  <2>1. action' \in [Setups -> Actions]
    BY <1>5 DEF Prepare, Resolved, Actions
  <2>2. PaperTypes'
    BY <1>0, <1>5, WriteTypes, SameTypes DEF Prepare
  <2> QED BY <2>1, <2>2, <1>5 DEF Prepare, PaperTypes
<1>6. CASE SaveLauncher(s)
  BY <1>6 DEF SaveLauncher
<1>7. CASE Place(s)
  <2>1. PaperTypes'
    <3>1. CASE Keep(s, [mem[s] EXCEPT !.created = TRUE]) /\ UNCHANGED paper
      BY <1>0, <3>1, NoteCreatedOnly, KeepTypes
    <3>2. ASSUME NEW h \in BOOLEAN, Write(s, [mem[s] EXCEPT !.intent = TRUE, !.healthy = h])
          PROVE  PaperTypes'
      BY <1>0, <3>2, NoteIntentOnly, WriteTypes
    <3>3. CASE UNCHANGED <<mem, paper>>
      BY <3>3, SameTypes
    <3> QED BY <1>7, <3>1, <3>2, <3>3 DEF Place
  <2>2. tree' \in [Versions -> Contents] /\ running' \in Versions \union {None} /\ pc' \in [Setups -> SetupPCs]
    BY <1>7 DEF Place, Stopped
  <2> QED BY <2>1, <2>2, <1>7 DEF Place, PaperTypes
<1>8. CASE MoveAside(s)
  <2>1. PaperTypes'
    <3>1. CASE Keep(s, [mem[s] EXCEPT !.moved = TRUE]) /\ UNCHANGED paper
      BY <1>0, <3>1, NoteMovedOnly, KeepTypes
    <3>3. CASE UNCHANGED <<mem, paper>>
      BY <3>3, SameTypes
    <3> QED BY <1>8, <3>1, <3>3 DEF MoveAside
  <2>2. tree[target[s]] \in Contents
    BY <1>8 DEF MoveAside, TargetKnown
  <2> QED BY <2>1, <2>2, <1>8 DEF MoveAside, PaperTypes
<1>9. CASE NoteMoved(s) \/ NoteReady(s) \/ NoteReplaced(s) \/ NoteCommitted(s)
  <2>1. PaperTypes'
    BY <1>0, <1>9, WriteTypes DEF NoteMoved, NoteReady, NoteReplaced, NoteCommitted, Note
  <2> QED BY <2>1, <1>9 DEF NoteMoved, NoteReady, NoteReplaced, NoteCommitted, Note, PaperTypes
<1>10. CASE MoveIn(s)
  <2>1. PICK k \in Notes : mem' = [mem EXCEPT ![s] = k]
    BY <1>0, <1>10, NoteCreatedOnly DEF MoveIn, Keep
  <2> QED BY <2>1, <1>10 DEF MoveIn
<1>11. CASE StopOld(s)
  <2>1. PaperTypes'
    BY <1>0, <1>11, NoteHealthyOnly, WriteTypes DEF StopOld
  <2> QED BY <2>1, <1>11 DEF StopOld, Stopped, PaperTypes
<1>12. CASE Snapshot(s)
  <2>1. PaperTypes'
    BY <1>0, <1>12, NoteSnapOnly, WriteTypes, SameTypes DEF Snapshot
  <2> QED BY <2>1, <1>12 DEF Snapshot, PaperTypes
<1>13. CASE ReplaceLauncher(s)
  <2>1. PICK k \in Notes : mem' = [mem EXCEPT ![s] = k]
    BY <1>0, <1>13, NoteReplacedOnly DEF ReplaceLauncher, Keep
  <2> QED BY <2>1, <1>13 DEF ReplaceLauncher
<1>14. CASE NoteIntent(s)
  <2>1. PICK k \in Notes : mem' = [mem EXCEPT ![s] = k] /\ journal' = [journal EXCEPT ![s] = k] /\ outcome' \in [Setups -> {"none", "pending", "completed"}] /\ dir' \in [Setups -> BOOLEAN]
    BY <1>0, <1>14, NoteCommittingOnly DEF NoteIntent, Note, Keep, Write
  <2> QED BY <2>1, <1>14 DEF NoteIntent, Note
<1>15. CASE Commit(s)
  <2>1. PICK k \in Notes : mem' = [mem EXCEPT ![s] = k]
    BY <1>0, <1>15, NoteCommittedOnly DEF Commit, Keep
  <2>2. pointer' \in Pointers
    BY <1>0, <1>15 DEF Commit, Installed, Pointers, Notes
  <2> QED BY <2>1, <2>2, <1>15 DEF Commit
<1>16. CASE Deploy(s)
  <2>1. PaperTypes'
    BY <1>0, <1>16, WriteTypes, SameTypes DEF Deploy
  <2> QED BY <2>1, <1>16 DEF Deploy, PaperTypes
<1>17. CASE Serve(s)
  BY <1>17 DEF Serve
<1>18. CASE Finish(s)
  BY <1>18 DEF Finish
<1>19. CASE Clean(s)
  BY <1>19 DEF Clean
<1>20. CASE Unlink(s)
  BY <1>20, FirstNotes DEF Unlink
<1>21. CASE Drop(s)
  BY <1>21, FirstNotes DEF Drop, Leave, Forget, Keep, Nothing, Installations, Pointers,
     NoPointer, Actions
<1>22. CASE UndoStop(s)
  BY <1>22 DEF UndoStop, Stopped
<1>26. CASE UndoLauncher(s)
  BY <1>26 DEF UndoLauncher
<1>27. CASE UndoLoader(s)
  BY <1>27 DEF UndoLoader
<1>28. CASE UndoBack(s)
  BY <1>28 DEF UndoBack
<1>23. CASE UndoPointer(s)
  BY <1>23, <1>0 DEF UndoPointer, Notes
<1>24. CASE UndoRemove(s)
  <2>1. PaperTypes' /\ action' \in [Setups -> Actions]
    <3>1. CASE Leave(s, "failed") /\ UNCHANGED paper
      BY <3>1, FirstNotes, KeepTypes DEF Leave, Forget, Actions
    <3>3. CASE UNCHANGED <<mem, action, paper>>
      BY <3>3, SameTypes
    <3> QED BY <1>24, <3>1, <3>3 DEF UndoRemove
  <2>2. tree' \in [Versions -> Contents]
    BY <1>24 DEF UndoRemove
  <2>3. CASE Leave(s, "failed")
    BY <2>1, <2>2, <2>3, <1>24 DEF UndoRemove, Leave, Forget, PaperTypes, Procs
  <2>4. CASE UNCHANGED <<mutex, locals>> /\ pc' \in [Setups -> SetupPCs]
    BY <2>1, <2>2, <2>4, <1>24 DEF UndoRemove, PaperTypes
  <2> QED BY <2>3, <2>4, <1>24 DEF UndoRemove
<1>25. CASE UndoStart(s)
  BY <1>25, <1>0 DEF UndoStart, Notes
<1> QED BY <1>1, <1>2, <1>3, <1>4, <1>5, <1>6, <1>7, <1>8, <1>9, <1>10, <1>11, <1>12, <1>13,
           <1>14, <1>15, <1>16, <1>17, <1>18, <1>19, <1>20, <1>21, <1>22, <1>23, <1>24, <1>25, <1>26, <1>27, <1>28, <1>30 DEF SetupStep

\* A Setup that ends keeps the types of what ending writes.
LEMMA LeaveTypes ==
  ASSUME TypeOK, NEW s \in Setups, NEW y \in Ended, Leave(s, y), UNCHANGED paper
  PROVE  /\ PaperTypes'
         /\ pc' \in [Setups -> SetupPCs] /\ action' \in [Setups -> Actions]
         /\ target' \in [Setups -> Versions \union {None}] /\ ran' \in [Setups -> BOOLEAN]
         /\ mutex' \in Procs \union {Updater, NoOne}
<1>1. Keep(s, NoNotes) /\ NoNotes \in Notes
  BY FirstNotes DEF Leave, Forget
<1>2. PaperTypes'
  BY <1>1, KeepTypes
<1> QED BY <1>2 DEF Leave, Forget, Goto, TypeOK, Actions, Ended, SetupPCs

\* A Setup that begins keeps the types.
LEMMA BeginTypes ==
  ASSUME ConstantsOK, TypeOK, NEW s \in Setups, Begin(s)
  PROVE  TypeOK'
<1>1. action' \in [Setups -> Actions] /\ target' \in [Setups -> Versions \union {None}]
  BY DEF Begin, TypeOK, ConstantsOK
<1>2. rpc' \in [Procs -> RecoverPCs] /\ pc' \in [Setups -> SetupPCs] /\ ran' \in [Setups -> BOOLEAN]
  BY DEF Begin, TypeOK, RecoverPCs, SetupPCs, Goto
<1> QED BY <1>1, <1>2 DEF Begin, TypeOK, install, files, paper, given

\* A recovery is at a directory between picking it and dropping it.
AtKnown == \A p \in Procs : at[p] # NoOne <=> rpc[p] \in RecoverLocked \ {"pick"}

\* The type invariant, and what the steps need of it to keep it.
TypeInv == TypeOK /\ AtKnown /\ TargetKnown

\* An operation that throws, and a Setup that is killed, keep the types.
LEMMA FailureTypes ==
  ASSUME ConstantsOK, TypeOK, NEW s \in Setups, Throw(s) \/ Kill(s)
  PROVE  TypeOK'
<1> USE DEF Forward, Cleaning, Undoing, Ended, SetupPCs, paper, files, install, rec, given, request, locals, TypeOK
<1>1. ASSUME NEW y \in Ended, Leave(s, y), UNCHANGED <<install, running, files, from, skip, before>>,
             rpc' \in [Procs -> RecoverPCs], todo' \in [Procs -> SUBSET Setups],
             at' \in [Procs -> Setups \union {NoOne}],
             faults' \in 0..MaxFaults, crashes' \in 0..MaxCrashes, updates' \in 0..MaxUpdates
      PROVE  TypeOK'
  <2>1. UNCHANGED paper
    BY <1>1
  <2> QED BY <1>1, <2>1, LeaveTypes DEF PaperTypes
<1>2. CASE Throw(s)
  <2>0. faults' \in 0..MaxFaults
    BY <1>2 DEF Throw, ConstantsOK
  <2>1. CASE pc[s] \in Forward \ {"finish"} /\ Goto(s, "u_stop") /\ UNCHANGED <<mutex, locals>>
    <3>1. loader' \in Versions \union {None} /\ running' \in Versions \union {None}
      BY <1>2, <2>1 DEF Throw
    <3> QED BY <1>2, <2>0, <2>1, <3>1 DEF Throw, Goto
  <2>2. CASE Leave(s, "failed") \/ Leave(s, "done")
    <3>1. /\ UNCHANGED <<install, running, files, from, skip, before>>
          /\ rpc' = rpc /\ todo' = todo /\ at' = at
          /\ crashes' = crashes /\ updates' = updates
      BY <1>2, <2>2 DEF Throw, Leave, Goto
    <3> QED BY <2>0, <2>2, <3>1, <1>1
  <2> QED BY <1>2, <2>1, <2>2 DEF Throw
<1>3. CASE Kill(s)
  <2>1. crashes' \in 0..MaxCrashes
    BY <1>3 DEF Kill, ConstantsOK
  <2> QED BY <1>3, <2>1, <1>1 DEF Kill, RecoverPCs
<1> QED BY <1>2, <1>3

\* A recovery that ends keeps the types, whatever its last step did to a runtime or the launcher,
LEMMA EndTypes ==
  ASSUME ConstantsOK, TypeOK, NEW p \in Procs, NEW ok \in BOOLEAN, RecoverEnd(p, ok),
         UNCHANGED <<pointer, loader, running, files, from, skip, before>>,
         tree' \in [Versions -> Contents], launcher' \in Versions \union {None},
         faults' \in 0..MaxFaults, crashes' \in 0..MaxCrashes, updates' \in 0..MaxUpdates
  PROVE  TypeOK'
<1>1. /\ rpc' \in [Procs -> RecoverPCs] /\ todo' \in [Procs -> SUBSET Setups]
      /\ at' \in [Procs -> Setups \union {NoOne}] /\ mutex' \in Procs \union {Updater, NoOne}
  BY DEF RecoverEnd, Step, TypeOK, RecoverPCs
<1>2. pc' \in [Setups -> SetupPCs]
  BY DEF RecoverEnd, TypeOK, SetupPCs, Ended
<1>3. /\ PaperTypes' /\ action' \in [Setups -> Actions]
      /\ target' \in [Setups -> Versions \union {None}] /\ ran' \in [Setups -> BOOLEAN]
  <2>1. CASE UNCHANGED locals
    BY <2>1, SameTypes DEF locals, request, files, TypeOK
  <2>2. CASE Forget(p) /\ p \in Setups
    BY <2>2, FirstNotes, KeepTypes DEF Forget, TypeOK, Actions, files, Procs
  <2> QED BY <2>1, <2>2 DEF RecoverEnd, Procs
<1> QED BY <1>1, <1>2, <1>3 DEF TypeOK, PaperTypes, install, files, paper

\* or when it did nothing to the installation.
LEMMA EndTypesApart ==
  ASSUME ConstantsOK, TypeOK, NEW p \in Procs, NEW ok \in BOOLEAN, RecoverEnd(p, ok),
         UNCHANGED <<install, running, files, from, skip, before>>,
         faults' \in 0..MaxFaults, crashes' \in 0..MaxCrashes, updates' \in 0..MaxUpdates
  PROVE  TypeOK'
<1>1. /\ UNCHANGED <<pointer, loader, running, files, from, skip, before>>
      /\ tree' \in [Versions -> Contents] /\ launcher' \in Versions \union {None}
  BY DEF install, TypeOK
<1> QED BY <1>1, EndTypes

\* A step of a recovery keeps the types.
LEMMA RecoverTypes ==
  ASSUME ConstantsOK, TypeInv, NEW p \in Procs, RecoverStep(p)
  PROVE  TypeOK'
<1> USE DEF paper, files, install, rec, given, request, locals, elsewhere, RGo, Step, RecoverLocked, RecoverPCs
<1>0. /\ rpc[p] \in {"stop", "remove", "back", "pointer", "launcher", "cadence", "stash", "unlink", "drop"} => at[p] \in Setups
      /\ at[p] \in Setups => journal[at[p]] \in Notes
  BY DEF TypeInv, AtKnown, TypeOK
<1>14. UNCHANGED <<faults, crashes, updates, from, skip>> /\ TypeOK
  BY DEF TypeInv, RecoverStep, RecoverEnter, RecoverTimeOut, RecoverPick, RecoverLeave,
     RecoverStop, RecoverRemove,
      RecoverBack, RecoverPointer, RecoverLauncher, RecoverCadence, RecoverStash, RecoverUnlink, RecoverDrop
<1>15. faults' \in 0..MaxFaults /\ crashes' \in 0..MaxCrashes /\ updates' \in 0..MaxUpdates
  BY <1>14 DEF TypeOK
<1>1. CASE RecoverStop(p)
  BY <1>0, <1>1, <1>14 DEF RecoverStop, Stopped, TypeOK
<1>2. CASE RecoverBack(p)
  <2>1. PICK x \in Setups : x = at[p]
    BY <1>0, <1>2 DEF RecoverBack
  <2>2. tree' \in [Versions -> Contents] /\ stash' \in [Setups -> Contents]
    BY <2>1, <1>2, <1>14 DEF RecoverBack, TypeOK, SetTree, SetStash, Contents
  <2> QED BY <2>2, <1>2, <1>14 DEF RecoverBack, TypeOK
<1>3. CASE RecoverPointer(p)
  <2>1. pointer' \in Pointers
    BY <1>0, <1>3, <1>14 DEF RecoverPointer, TypeOK, Notes
  <2> QED BY <2>1, <1>3, <1>14 DEF RecoverPointer, TypeOK
<1>4. CASE RecoverStash(p)
  BY <1>0, <1>4, <1>14 DEF RecoverStash, TypeOK, SetStash, Contents
<1>5. CASE RecoverUnlink(p)
  <2>1. journal' \in [Setups -> Notes] /\ outcome' \in [Setups -> {"none", "pending", "completed"}]
    BY <1>5, <1>14, FirstNotes DEF RecoverUnlink, TypeOK
  <2> QED BY <2>1, <1>5, <1>14 DEF RecoverUnlink, TypeOK
<1>6. CASE RecoverDrop(p)
  <2>1. Nothing \in Installations
    BY DEF Nothing, Installations, Pointers, NoPointer, Contents
  <2>2. /\ dir' \in [Setups -> BOOLEAN] /\ saved' \in [Setups -> Versions \union {None}]
        /\ at' \in [Procs -> Setups \union {NoOne}] /\ before' \in [Setups -> Installations]
    BY <2>1, <1>6, <1>14 DEF RecoverDrop, TypeOK
  <2> QED BY <2>2, <1>6, <1>14 DEF RecoverDrop, TypeOK
<1>7. CASE RecoverEnter(p)
  BY <1>7, <1>14 DEF RecoverEnter, TypeOK
<1>8. CASE RecoverTimeOut(p)
  BY <1>8, EndTypesApart, <1>14, <1>15 DEF RecoverTimeOut
<1>9. CASE RecoverLeave(p)
  BY <1>9, EndTypesApart, <1>14, <1>15 DEF RecoverLeave
<1>10. CASE RecoverPick(p)
  <2>1. CASE RecoverEnd(p, FALSE)
    BY <2>1, <1>10, EndTypesApart, <1>14, <1>15 DEF RecoverPick
  <2>2. CASE /\ \E s \in todo[p] : at' = [at EXCEPT ![p] = s] /\ todo' = [todo EXCEPT ![p] = @ \ {s}]
             /\ \E y \in RecoverLocked : Step(p, y)
             /\ UNCHANGED <<mutex, pc, locals>>
    BY <2>2, <1>10, <1>14 DEF RecoverPick, TypeOK
  <2> QED BY <2>1, <2>2, <1>10 DEF RecoverPick
<1>11. CASE RecoverRemove(p)
  <2>1. CASE RecoverEnd(p, FALSE)
    <3>1. tree' \in [Versions -> Contents]
      BY <1>11, <1>14 DEF RecoverRemove, TypeOK, SetTree, Contents
    <3>2. UNCHANGED <<pointer, launcher, loader, running, files, from, skip, before>>
      BY <1>11, <1>14 DEF RecoverRemove
    <3>3. launcher' \in Versions \union {None}
      BY <3>2, <1>14 DEF TypeOK
    <3> QED BY <2>1, <3>1, <3>2, <3>3, EndTypes, <1>14, <1>15
  <2>2. CASE /\ \E y \in RecoverLocked : Step(p, y)
             /\ UNCHANGED <<todo, at, mutex, pc, locals>>
    <3>1. tree' \in [Versions -> Contents]
      BY <1>11, <1>14 DEF RecoverRemove, TypeOK, SetTree, Contents
    <3> QED BY <2>2, <3>1, <1>11, <1>14 DEF RecoverRemove, TypeOK
  <2> QED BY <2>1, <2>2, <1>11 DEF RecoverRemove
<1>12. CASE RecoverLauncher(p)
  <2>1. launcher' \in Versions \union {None} /\ tree' \in [Versions -> Contents]
    <3>1. PICK x \in Setups : x = at[p]
      BY <1>0, <1>12 DEF RecoverLauncher
    <3>2. saved[x] \in Versions \union {None} /\ launcher \in Versions \union {None} /\ tree \in [Versions -> Contents]
      BY <1>14 DEF TypeOK
    <3> QED BY <3>1, <3>2, <1>12 DEF RecoverLauncher
  <2>2. CASE RecoverEnd(p, FALSE)
    <3>2. UNCHANGED <<pointer, loader, running, files, from, skip, before>>
      BY <1>12, <1>14 DEF RecoverLauncher
    <3> QED BY <2>1, <2>2, <3>2, EndTypes, <1>14, <1>15
  <2>3. CASE /\ \E y \in RecoverLocked : Step(p, y)
             /\ UNCHANGED <<todo, at, mutex, pc, locals>>
    BY <2>1, <2>3, <1>12, <1>14 DEF RecoverLauncher, TypeOK
  <2> QED BY <2>2, <2>3, <1>12 DEF RecoverLauncher
<1>13. CASE RecoverCadence(p)
  <2>1. CASE RecoverEnd(p, FALSE)
    BY <2>1, <1>13, EndTypesApart, <1>14, <1>15 DEF RecoverCadence
  <2>2. CASE Step(p, "unlink") /\ UNCHANGED <<todo, at, mutex, pc, locals>>
    BY <2>2, <1>13, <1>14 DEF RecoverCadence, TypeOK
  <2> QED BY <2>1, <2>2, <1>13 DEF RecoverCadence
<1> QED BY <1>1, <1>2, <1>3, <1>4, <1>5, <1>6, <1>7, <1>8, <1>9, <1>10, <1>11, <1>12, <1>13
           DEF RecoverStep

\* Every step keeps the types.
LEMMA StepTypes ==
  ASSUME ConstantsOK, TypeInv, [Next]_vars
  PROVE  TypeOK'
<1> USE DEF paper, files, install, rec, given, request, locals, elsewhere
<1>1. TypeOK BY DEF TypeInv
<1>2. faults \in 0..MaxFaults /\ crashes \in 0..MaxCrashes /\ updates \in 0..MaxUpdates
  BY <1>1 DEF TypeOK
<1>3. CASE \E p \in Procs : RecoverThrow(p)
  <2>1. faults' \in 0..MaxFaults
    BY <1>1, <1>3 DEF RecoverThrow, TypeOK, ConstantsOK
  <2> QED BY <2>1, <1>1, <1>2, <1>3, EndTypesApart DEF RecoverThrow
<1>4. CASE KillLauncher
  <2>1. crashes' \in 0..MaxCrashes
    BY <1>1, <1>4 DEF KillLauncher, TypeOK, ConstantsOK
  <2> QED BY <2>1, <1>1, <1>2, <1>4, EndTypesApart DEF KillLauncher, Procs
<1>5. CASE Scan \/ Launch
  BY <1>1, <1>5 DEF Scan, Launch, TypeOK, Step, RecoverPCs, Pointers
<1>6. CASE UpdateBegin
  <2>1. updates' \in 0..MaxUpdates
    BY <1>1, <1>6 DEF UpdateBegin, TypeOK, ConstantsOK
  <2> QED BY <2>1, <1>1, <1>6 DEF UpdateBegin, TypeOK
<1>7. CASE UpdateEnd
  <2>1. Nothing \in Installations
    BY DEF Nothing, Installations, Pointers, NoPointer, Contents
  <2>2. from \in Versions \union {None} /\ None \in Versions \union {None}
    BY <1>1 DEF TypeOK
  <2>3. /\ pointer' \in Pointers /\ tree' \in [Versions -> Contents]
        /\ {launcher', loader', running', from'} \subseteq Versions \union {None}
        /\ before' \in [Setups -> Installations]
    BY <1>1, <1>7, <2>1, <2>2 DEF UpdateEnd, TypeOK, SetTree, Contents, Pointers
  <2> QED BY <2>3, <1>1, <1>7 DEF UpdateEnd, TypeOK
<1>8. CASE UNCHANGED vars
  BY <1>1, <1>8 DEF vars, TypeOK
<1> QED BY <1>1, <1>3, <1>4, <1>5, <1>6, <1>7, <1>8, SetupStepTypes, BeginTypes, FailureTypes,
     RecoverTypes DEF Next, TypeInv

\* What a Setup holds in its own variables is as it was,
SameLocals(t) == pc'[t] = pc[t] /\ target'[t] = target[t] /\ mem'[t] = mem[t]

\* and what it keeps on disk for itself.
SameFiles(t) ==
  /\ dir'[t] = dir[t] /\ outcome'[t] = outcome[t] /\ journal'[t] = journal[t]
  /\ saved'[t] = saved[t] /\ stash'[t] = stash[t] /\ shot'[t] = shot[t]
  /\ before'[t] = before[t]

\* A Setup is in the try, catch or finally block of its own transaction.
Working(s) == pc[s] \notin {"none", "recover"} \union Ended

\* A step is of Setup s: it leaves the other Setups and every recovery alone.
OnlyOf(s) ==
  /\ Working(s)
  /\ \A t \in Setups \ {s} : SameLocals(t) /\ SameFiles(t)
  /\ UNCHANGED <<rpc, todo, at, skip>>
  /\ target'[s] = target[s] \/ pc'[s] \in Ended

\* Every step of Setup s is.
LEMMA StepIsOwn ==
  ASSUME ConstantsOK, TypeOK, NEW s \in Setups, SetupStep(s)
  PROVE  OnlyOf(s)
<1> USE DEF Forward, Cleaning, Undoing, Ended, others, rec, given, install, files, paper, request, locals, Go, Goto, SetTree, SetStash, TypeOK,
        OnlyOf, SameLocals, SameFiles, Working, Write, Keep
<1>1. CASE NoteInitialized(s) \/ NoteMoved(s) \/ NoteReady(s) \/ NoteReplaced(s) \/ NoteIntent(s) \/ NoteCommitted(s)
  BY <1>1 DEF NoteInitialized, NoteMoved, NoteReady, NoteReplaced, NoteIntent, NoteCommitted, Note
<1>2. CASE Create(s)
  BY <1>2 DEF Create
<1>42. CASE TimeOut(s)
  BY <1>42 DEF TimeOut
<1>43. CASE SaveLauncher(s)
  BY <1>43 DEF SaveLauncher
<1>40. CASE Enter(s)
  BY <1>40 DEF Enter
<1>41. CASE Read(s)
  BY <1>41 DEF Read
<1>3. CASE Prepare(s)
  BY <1>3 DEF Prepare
<1>4. CASE Place(s)
  BY <1>4 DEF Place
<1>5. CASE MoveAside(s)
  BY <1>5 DEF MoveAside
<1>6. CASE MoveIn(s) \/ StopOld(s) \/ Snapshot(s)
  BY <1>6 DEF MoveIn, StopOld, Snapshot
<1>7. CASE ReplaceLauncher(s) \/ Commit(s) \/ Deploy(s) \/ Serve(s)
  BY <1>7 DEF ReplaceLauncher, Commit, Deploy, Serve
<1>8. CASE Finish(s) \/ Clean(s) \/ Unlink(s)
  BY <1>8 DEF Finish, Clean, Unlink
<1>9. CASE Drop(s)
  BY <1>9 DEF Drop, Leave, Forget
<1>10. CASE UndoStop(s) \/ UndoPointer(s) \/ UndoLauncher(s) \/ UndoLoader(s)
  BY <1>10 DEF UndoStop, UndoPointer, UndoLauncher, UndoLoader
<1>11. CASE UndoRemove(s)
  BY <1>11 DEF UndoRemove, Leave, Forget
<1>12. CASE UndoBack(s) \/ UndoStart(s)
  BY <1>12 DEF UndoBack, UndoStart
<1> QED BY <1>1, <1>2, <1>3, <1>4, <1>5, <1>6, <1>7, <1>8, <1>9, <1>10, <1>11, <1>12, <1>40, <1>41, <1>42,
     <1>43 DEF SetupStep

\* The places of a recovery that is at a directory.
AtDirectory == RecoverLocked \ {"pick"}

\* A recovery that ends is at no directory, and a Setup whose recovery did goes on with what it
\* was asked for.
LEMMA EndKnown ==
  ASSUME ConstantsOK, ExclusionInv, TypeInv, NEW p \in Procs, NEW ok \in BOOLEAN, RecoverEnd(p, ok),
         rpc[p] \in RecoverLocked \union {"wait"}
  PROVE  AtKnown' /\ TargetKnown'
<1>0. TypeOK /\ AtKnown /\ TargetKnown
  BY DEF TypeInv
<1>1. AtKnown'
  BY <1>0, Places DEF RecoverEnd, Step, AtKnown, TypeOK, RecoverLocked
<1>2. TargetKnown'
  <2>1. p \in Setups => pc[p] = "recover"
    BY Places DEF ExclusionInv, RecoversFirst
  <2>2. ASSUME NEW s \in Setups, pc'[s] \notin {"none"} \union Ended PROVE target'[s] \in Versions
    <3>1. CASE s = p
      <4>1. ok /\ UNCHANGED target
        BY <2>2, <3>1 DEF RecoverEnd, Ended, locals, request
      <4> QED BY <4>1, <3>1, <2>1, <1>0, <2>2 DEF TargetKnown, Ended
    <3>2. CASE s # p
      <4>1. pc'[s] = pc[s] /\ target'[s] = target[s]
        BY <3>2, <2>2, <1>0 DEF RecoverEnd, TypeOK, locals, request, Forget
      <4> QED BY <4>1, <2>2, <1>0 DEF TargetKnown
    <3> QED BY <3>1, <3>2
  <2> QED BY <2>2 DEF TargetKnown
<1> QED BY <1>1, <1>2

\* A step of a recovery keeps who is at which directory and what Setups are to install.
LEMMA RecoverKnown ==
  ASSUME ConstantsOK, ExclusionInv, TypeInv, NEW p \in Procs, RecoverStep(p) \/ RecoverThrow(p)
  PROVE  AtKnown' /\ TargetKnown'
<1>0. TypeOK /\ AtKnown /\ TargetKnown /\ NoOne \notin Setups
  BY DEF TypeInv, ConstantsOK
<1>1. CASE \E ok \in BOOLEAN : RecoverEnd(p, ok) /\ rpc[p] \in RecoverLocked \union {"wait"}
  BY <1>1, EndKnown
<1>2. CASE UNCHANGED <<pc, locals, at>> /\ \E y \in AtDirectory : Step(p, y) /\ rpc[p] \in AtDirectory
  BY <1>2, <1>0 DEF Step, TypeOK, AtKnown, TargetKnown, locals, request, AtDirectory
<1>3. CASE RecoverPick(p)
  <2>1. CASE RecoverEnd(p, FALSE)
    BY <2>1, <1>3, <1>1 DEF RecoverPick, RecoverLocked
  <2>2. CASE /\ \E s \in Setups : at' = [at EXCEPT ![p] = s]
             /\ \E y \in AtDirectory : Step(p, y)
             /\ UNCHANGED <<pc, locals>>
    BY <2>2, <1>0 DEF Step, TypeOK, AtKnown, TargetKnown, locals, request, AtDirectory
  <2> QED BY <2>1, <2>2, <1>3, <1>0 DEF RecoverPick, AtDirectory, RecoverLocked, TypeOK
<1>4. CASE RecoverDrop(p)
  BY <1>4, <1>0 DEF RecoverDrop, RGo, Step, TypeOK, AtKnown, TargetKnown, locals, request,
     RecoverLocked
<1>5. CASE RecoverEnter(p)
  BY <1>5, <1>0 DEF RecoverEnter, RGo, Step, TypeOK, AtKnown, TargetKnown, locals, request,
     RecoverLocked
<1>6. CASE RecoverRemove(p)
  BY <1>6, <1>1, <1>2 DEF RecoverRemove, RecoverLocked, AtDirectory
<1>7. CASE RecoverLauncher(p)
  BY <1>7, <1>1, <1>2 DEF RecoverLauncher, RecoverLocked, AtDirectory
<1>8. CASE RecoverCadence(p)
  BY <1>8, <1>1, <1>2 DEF RecoverCadence, RecoverLocked, AtDirectory
<1>9. CASE RecoverStop(p) \/ RecoverBack(p) \/ RecoverPointer(p) \/ RecoverStash(p) \/ RecoverUnlink(p)
  BY <1>9, <1>2 DEF RecoverStop, RecoverBack, RecoverPointer, RecoverStash, RecoverUnlink, RGo,
     elsewhere, RecoverLocked, AtDirectory
<1>10. CASE RecoverTimeOut(p) \/ RecoverLeave(p) \/ RecoverThrow(p)
  BY <1>10, <1>1 DEF RecoverTimeOut, RecoverLeave, RecoverThrow, RecoverLocked
<1> QED BY <1>3, <1>4, <1>5, <1>6, <1>7, <1>8, <1>9, <1>10 DEF RecoverStep

\* So does every step.
LEMMA KnownStep ==
  ASSUME ConstantsOK, ExclusionInv, TypeInv, [Next]_vars
  PROVE  AtKnown' /\ TargetKnown'
<1>0. TypeOK /\ AtKnown /\ TargetKnown /\ NoOne \notin Setups /\ Launcher \in Procs
  BY DEF TypeInv, ConstantsOK, Procs
<1>1. CASE \E s \in Setups : SetupStep(s)
  <2>1. PICK s \in Setups : SetupStep(s)
    BY <1>1
  <2>2. OnlyOf(s)
    BY <2>1, <1>0, StepIsOwn
  <2> QED BY <2>2, <1>0 DEF OnlyOf, SameLocals, Working, AtKnown, TargetKnown
<1>2. CASE \E s \in Setups : Begin(s)
  <2>1. PICK s \in Setups : Begin(s)
    BY <1>2
  <2>2. rpc[s] = "idle"
    BY <2>1 DEF Begin, ExclusionInv, RecoversFirst
  <2>3. AtKnown'
    BY <2>1, <2>2, <1>0 DEF Begin, AtKnown, TypeOK, RecoverLocked, Procs
  <2>4. TargetKnown'
    BY <2>1, <1>0 DEF Begin, TargetKnown, TypeOK, ConstantsOK, Goto
  <2> QED BY <2>3, <2>4
<1>3. CASE \E s \in Setups : Throw(s)
  BY <1>3, <1>0 DEF Throw, Leave, Forget, Goto, rec, locals, request, AtKnown, TargetKnown,
     TypeOK, Forward, Undoing, Ended
<1>4. CASE \E s \in Setups : Kill(s)
  BY <1>4, <1>0 DEF Kill, Leave, Forget, Goto, AtKnown, TargetKnown, TypeOK, RecoverLocked,
     Procs, Ended
<1>5. CASE \E p \in Procs : RecoverStep(p) \/ RecoverThrow(p)
  BY <1>5, RecoverKnown
<1>6. CASE KillLauncher
  BY <1>6, <1>0, EndKnown DEF KillLauncher
<1>7. CASE Scan \/ Launch
  BY <1>7, <1>0 DEF Scan, Launch, Step, elsewhere, AtKnown, TargetKnown, TypeOK, locals,
     request, RecoverLocked
<1>8. CASE UpdateBegin \/ UpdateEnd \/ UNCHANGED vars
  BY <1>8, <1>0 DEF UpdateBegin, UpdateEnd, vars, rec, AtKnown, TargetKnown, locals, request
<1> QED BY <1>1, <1>2, <1>3, <1>4, <1>5, <1>6, <1>7, <1>8 DEF Next

\* The types hold before anybody has begun.
LEMMA TypesStart ==
  ASSUME ConstantsOK, Init
  PROVE  TypeInv
<1>1. TypeOK
  <2>1. NoNotes \in Notes
    BY FirstNotes
  <2>2. Nothing \in Installations
    BY DEF Nothing, Installations, Pointers, NoPointer, Contents
  <2>3. pointer \in Pointers /\ tree \in [Versions -> Contents] /\ {launcher, loader, running, from} \subseteq Versions \union {None}
    BY DEF Init, Pointers, Contents, NoPointer
  <2> QED BY <2>1, <2>2, <2>3 DEF Init, TypeOK, ConstantsOK, Contents, SetupPCs, Actions, RecoverPCs
<1>2. AtKnown /\ TargetKnown
  BY DEF Init, AtKnown, TargetKnown, RecoverLocked
<1> QED BY <1>1, <1>2 DEF TypeInv

\* Every variable of Setup and its recovery stays in its type, for any number of Setups at
\* once, of versions, of failures and of kills.
THEOREM SetupTypes == Spec => []TypeOK
<1>1. Init => TypeInv /\ ExclusionInv
  BY TypesStart, InitIsExclusive, ConstantsOK
<1>2. TypeInv /\ ExclusionInv /\ [Next]_vars => (TypeInv /\ ExclusionInv)'
  BY StepTypes, KnownStep, StepKeeps, ConstantsOK DEF TypeInv
<1>3. TypeInv => TypeOK
  BY DEF TypeInv
<1> QED BY <1>1, <1>2, <1>3, PTL DEF Spec

-----------------------------------------------------------------------------
(* What a Setup keeps for itself, however many run *)

\* Notes that say nothing is done.
Flagless(m) == ~(m.created \/ m.intent \/ m.moved \/ m.replaced \/ m.committing \/ m.committed \/ m.snap)

\* The places of a Setup that does not have the mutex yet, or no longer recovers.
Outside == {"none", "recover", "create", "note", "enter"}

\* The places of a Setup that has the mutex and has done nothing yet.
Early == {"read", "prepare"}

\* A Setup that has not entered, or never will, has done nothing to undo.
Waited(s) ==
  /\ pc[s] \in Outside \union Early \/ (pc[s] \in Undoing /\ mutex # s) =>
       Flagless(mem[s]) /\ Flagless(journal[s])
  /\ pc[s] = "u_back" => mutex = s

\* What the notes say is there, is.
Kept(s) ==
  LET j == journal[s]
      m == mem[s]
  IN pc[s] \in Forward =>
       /\ j.moved => m.moved
       /\ m.moved => stash[s] # "absent"
       /\ pc[s] = "move" => tree[target[s]] # "absent"
       /\ j.replaced => m.replaced
       /\ pc[s] \in Early \union {"save"} => ~m.replaced
       /\ pc[s] \notin Early \union {"save"} /\ m.existed => saved[s] # None
       /\ pc[s] \notin Early => j.existed = m.existed

\* The notes k are those of m, and f.
Adds(m, k, f) ==
  /\ k \in Notes /\ SameFound(m, k)
  /\ Says(k, IF f = "created" THEN TRUE ELSE m.created, IF f = "intent" THEN TRUE ELSE m.intent,
             IF f = "moved" THEN TRUE ELSE m.moved, IF f = "replaced" THEN TRUE ELSE m.replaced,
             IF f = "committing" THEN TRUE ELSE m.committing,
             IF f = "committed" THEN TRUE ELSE m.committed, IF f = "snap" THEN TRUE ELSE m.snap)

\* Setting a field of the notes (NativeSetup.cs, $journal.x = ...) adds that and nothing else.
LEMMA NoteAdds ==
  ASSUME NEW m \in Notes
  PROVE  /\ Adds(m, m, "")
         /\ Adds(m, [m EXCEPT !.created = TRUE], "created")
         /\ Adds(m, [m EXCEPT !.moved = TRUE], "moved")
         /\ Adds(m, [m EXCEPT !.replaced = TRUE], "replaced")
         /\ Adds(m, [m EXCEPT !.committing = TRUE], "committing")
         /\ Adds(m, [m EXCEPT !.committed = TRUE], "committed")
         /\ Adds(m, [m EXCEPT !.snap = TRUE], "snap")
         /\ \A h \in BOOLEAN : Adds(m, [m EXCEPT !.intent = TRUE, !.healthy = h], "intent")
         /\ \A h \in BOOLEAN : Adds(m, [m EXCEPT !.healthy = h], "")
<1>1. Adds(m, m, "")
  BY DEF Adds, SameFound, Says
<1>2. Adds(m, [m EXCEPT !.created = TRUE], "created")
  BY NoteCreatedOnly DEF Adds
<1>3. Adds(m, [m EXCEPT !.moved = TRUE], "moved")
  BY NoteMovedOnly DEF Adds
<1>4. Adds(m, [m EXCEPT !.replaced = TRUE], "replaced")
  BY NoteReplacedOnly DEF Adds
<1>5. Adds(m, [m EXCEPT !.committing = TRUE], "committing")
  BY NoteCommittingOnly DEF Adds
<1>6. Adds(m, [m EXCEPT !.committed = TRUE], "committed")
  BY NoteCommittedOnly DEF Adds
<1>7. Adds(m, [m EXCEPT !.snap = TRUE], "snap")
  BY NoteSnapOnly DEF Adds
<1>8. ASSUME NEW h \in BOOLEAN PROVE Adds(m, [m EXCEPT !.intent = TRUE, !.healthy = h], "intent")
  BY NoteIntentOnly DEF Adds
<1>9. ASSUME NEW h \in BOOLEAN PROVE Adds(m, [m EXCEPT !.healthy = h], "")
  BY NoteHealthyOnly DEF Adds
<1> QED BY <1>1, <1>2, <1>3, <1>4, <1>5, <1>6, <1>7, <1>8, <1>9

\* A step leaves journal.json alone,
Unwritten(s) == dir'[s] = dir[s] /\ outcome'[s] = outcome[s] /\ journal'[s] = journal[s]

\* or saves what is noted.
Written(s) == dir'[s] /\ outcome'[s] = "pending" /\ journal'[s] = mem'[s]

\* Saving notes and saves,
LEMMA WriteAt ==
  ASSUME TypeOK, NEW s \in Setups, NEW m, Write(s, m)
  PROVE  mem'[s] = m /\ Written(s)
BY DEF Write, Keep, TypeOK, Written

\* noting only notes.
LEMMA KeepAt ==
  ASSUME TypeOK, NEW s \in Setups, NEW m, Keep(s, m)
  PROVE  mem'[s] = m
BY DEF Keep, TypeOK

\* A step notes nothing,
Quiet(s) == mem'[s] = mem[s] /\ Unwritten(s)

\* or notes one thing and does not save it,
Notes1(s, F) == Adds(mem[s], mem'[s], F) /\ Unwritten(s)

\* or notes one thing and saves it.
Notes2(s, F) == Adds(mem[s], mem'[s], F) /\ Written(s)

\* What each step of Setup notes, and whether it saves it: the order of the two around each
\* change is what recovery depends on.
LEMMA SetupNotes ==
  ASSUME ConstantsOK, TypeInv, NEW s \in Setups
  PROVE  /\ NoteInitialized(s) \/ NoteMoved(s) \/ NoteReady(s) \/ NoteReplaced(s) \/ NoteCommitted(s)
              => Notes2(s, "")
         /\ MoveIn(s) => Notes1(s, "created")
         /\ MoveAside(s) => \/ pc'[s] = "u_stop" /\ UNCHANGED <<tree, stash>> /\ Quiet(s)
                            \/ /\ pc'[s] = "moved" /\ SetStash(s, tree[target[s]])
                               /\ SetTree(target[s], "absent") /\ Notes1(s, "moved")
         /\ ReplaceLauncher(s) => Notes1(s, "replaced")
         /\ Commit(s) => Notes1(s, "committed")
         /\ NoteIntent(s) => Notes2(s, "committing")
         /\ Snapshot(s) => IF skip THEN Quiet(s) ELSE Notes2(s, "snap")
         /\ StopOld(s) => Notes2(s, "")
         /\ Deploy(s) => IF skip THEN Quiet(s) ELSE Notes2(s, "")
         /\ Place(s) => \/ /\ pc'[s] = "ready" /\ tree[target[s]] = "absent" /\ SetTree(target[s], "intact")
                           /\ Notes1(s, "created")
                        \/ /\ pc'[s] = "move" /\ tree[target[s]] # "absent" /\ UNCHANGED tree
                           /\ Notes2(s, "intent")
                        \/ /\ pc'[s] = "u_stop" \/ (pc'[s] = "ready" /\ tree[target[s]] = "intact")
                           /\ UNCHANGED tree /\ Quiet(s)
         /\ Prepare(s) => \/ pc'[s] = "u_stop" /\ Quiet(s)
                          \/ pc'[s] = "save" /\ mem'[s] = mem[s] /\ Written(s)
<1> DEFINE m == mem[s]
<1>0. m \in Notes /\ TypeOK /\ pc \in [Setups -> SetupPCs]
  BY DEF TypeInv, TypeOK
<1> HIDE DEF m
<1>a. /\ Adds(m, m, "")
      /\ Adds(m, [m EXCEPT !.created = TRUE], "created")
      /\ Adds(m, [m EXCEPT !.moved = TRUE], "moved")
      /\ Adds(m, [m EXCEPT !.replaced = TRUE], "replaced")
      /\ Adds(m, [m EXCEPT !.committing = TRUE], "committing")
      /\ Adds(m, [m EXCEPT !.committed = TRUE], "committed")
      /\ Adds(m, [m EXCEPT !.snap = TRUE], "snap")
      /\ \A h \in BOOLEAN : Adds(m, [m EXCEPT !.intent = TRUE, !.healthy = h], "intent")
      /\ \A h \in BOOLEAN : Adds(m, [m EXCEPT !.healthy = h], "")
  BY <1>0, NoteAdds
<1> USE DEF m
<1>u. UNCHANGED paper => Unwritten(s)
  BY DEF paper, Unwritten
<1>1. NoteInitialized(s) \/ NoteMoved(s) \/ NoteReady(s) \/ NoteReplaced(s) \/ NoteCommitted(s)
              => Notes2(s, "")
  BY <1>0, <1>a, WriteAt DEF NoteInitialized, NoteMoved, NoteReady, NoteReplaced, NoteCommitted,
     Note, Notes2
<1>2. MoveIn(s) => Notes1(s, "created")
  BY <1>0, <1>a, <1>u, KeepAt DEF MoveIn, Notes1, files
<1>3. MoveAside(s) => \/ pc'[s] = "u_stop" /\ UNCHANGED <<tree, stash>> /\ Quiet(s)
                      \/ /\ pc'[s] = "moved" /\ SetStash(s, tree[target[s]])
                         /\ SetTree(target[s], "absent") /\ Notes1(s, "moved")
  BY <1>0, <1>a, <1>u, KeepAt DEF MoveAside, Notes1, Quiet, Goto
<1>4. ReplaceLauncher(s) => Notes1(s, "replaced")
  BY <1>0, <1>a, <1>u, KeepAt DEF ReplaceLauncher, Notes1, files
<1>5. Commit(s) => Notes1(s, "committed")
  BY <1>0, <1>a, <1>u, KeepAt DEF Commit, Notes1, files
<1>6. NoteIntent(s) => Notes2(s, "committing")
  BY <1>0, <1>a, WriteAt DEF NoteIntent, Note, Notes2
<1>7. Snapshot(s) => IF skip THEN Quiet(s) ELSE Notes2(s, "snap")
  BY <1>0, <1>a, <1>u, WriteAt DEF Snapshot, Notes2, Quiet
<1>8. StopOld(s) => Notes2(s, "")
  <2>1. ASSUME NEW h \in BOOLEAN, Write(s, [mem[s] EXCEPT !.healthy = h])
        PROVE  Notes2(s, "")
    BY <1>0, <1>a, <2>1, WriteAt DEF Notes2
  <2> QED BY <1>0, <1>a, <2>1, WriteAt DEF StopOld, Notes2
<1>9. Deploy(s) => IF skip THEN Quiet(s) ELSE Notes2(s, "")
  BY <1>0, <1>a, <1>u, WriteAt DEF Deploy, Notes2, Quiet
<1>10. Prepare(s) => \/ pc'[s] = "u_stop" /\ Quiet(s)
                     \/ pc'[s] = "save" /\ mem'[s] = mem[s] /\ Written(s)
  <2>1. CASE Goto(s, "u_stop") /\ UNCHANGED <<mem, journal, outcome, dir>>
    <3>1. pc'[s] = "u_stop"
      BY <2>1, <1>0 DEF Goto
    <3>2. Quiet(s)
      BY <2>1 DEF Quiet, Unwritten
    <3> QED BY <3>1, <3>2
  <2>2. CASE Goto(s, "save") /\ Write(s, mem[s])
    BY <2>2, <1>0, WriteAt DEF Goto
  <2> QED BY <2>1, <2>2 DEF Prepare
<1>11. Place(s) => \/ /\ pc'[s] = "ready" /\ tree[target[s]] = "absent" /\ SetTree(target[s], "intact")
                      /\ Notes1(s, "created")
                   \/ /\ pc'[s] = "move" /\ tree[target[s]] # "absent" /\ UNCHANGED tree
                      /\ Notes2(s, "intent")
                   \/ /\ pc'[s] = "u_stop" \/ (pc'[s] = "ready" /\ tree[target[s]] = "intact")
                      /\ UNCHANGED tree /\ Quiet(s)
  <2>1. ASSUME Place(s), tree[target[s]] = "absent"
        PROVE  /\ pc'[s] = "ready" /\ SetTree(target[s], "intact")
               /\ Notes1(s, "created")
    BY <2>1, <1>0, <1>a, <1>u, KeepAt DEF Place, Notes1, Goto
  <2>2. ASSUME Place(s), tree[target[s]] # "absent", pc'[s] = "move"
        PROVE  UNCHANGED tree /\ Notes2(s, "intent")
    <3>1. \E h \in BOOLEAN : Write(s, [mem[s] EXCEPT !.intent = TRUE, !.healthy = h])
      BY <2>2, <1>0 DEF Place, Goto
    <3>2. ASSUME NEW h \in BOOLEAN, Write(s, [mem[s] EXCEPT !.intent = TRUE, !.healthy = h])
          PROVE  Notes2(s, "intent")
      BY <1>0, <1>a, <3>2, WriteAt DEF Notes2
    <3> QED BY <3>1, <3>2, <2>2, <1>0 DEF Place, Goto
  <2>3. ASSUME Place(s), tree[target[s]] # "absent", pc'[s] # "move"
        PROVE  /\ pc'[s] = "u_stop" \/ (pc'[s] = "ready" /\ tree[target[s]] = "intact")
               /\ UNCHANGED tree /\ Quiet(s)
    BY <2>3, <1>0, <1>u DEF Place, Goto, Quiet
  <2> QED BY <2>1, <2>2, <2>3
<1> QED BY <1>1, <1>2, <1>3, <1>4, <1>5, <1>6, <1>7, <1>8, <1>9, <1>10, <1>11

\* Reading installation.json notes what was found, and nothing done.
LEMMA ReadNotes ==
  ASSUME ConstantsOK, TypeInv, NEW s \in Setups, Read(s)
  PROVE  /\ mem'[s].old = pointer.active /\ mem'[s].new = mem[s].new /\ mem'[s].original = pointer
         /\ mem'[s].existed = mem[s].existed
         /\ mem'[s].oldExisted = (pointer.active # None /\ tree[pointer.active] # "absent")
         /\ LET m == mem[s] IN
            Says(mem'[s], m.created, m.intent, m.moved, m.replaced, m.committing, m.committed, m.snap)
<1>0. mem[s] \in Notes /\ TypeOK /\ pointer \in Pointers /\ pointer.active \in Versions \union {None}
  BY DEF TypeInv, TypeOK, Pointers
<1>1. PICK e \in BOOLEAN : e = (pointer.active # None /\ tree[pointer.active] # "absent")
  OBVIOUS
<1>a. PICK p \in Pointers, o \in Versions \union {None} : p = pointer /\ o = pointer.active
  BY <1>0
<1>b. PICK m \in Notes : m = mem[s]
  BY <1>0
<1> DEFINE k == [m EXCEPT !.original = p, !.old = o, !.oldExisted = e]
<1>2. /\ k.old = o /\ k.new = m.new /\ k.original = p
      /\ k.existed = m.existed /\ k.oldExisted = e
      /\ Says(k, m.created, m.intent, m.moved, m.replaced, m.committing, m.committed, m.snap)
  BY DEF Notes, Says
<1>3. Keep(s, k)
  BY <1>1, <1>a, <1>b DEF Read
<1>4. mem'[s] = k
  BY <1>0, <1>3, KeepAt
<1> HIDE DEF k
<1> QED BY <1>1, <1>a, <1>b, <1>2, <1>4

\* The first notes name what is asked for, and say nothing is done.
LEMMA CreateNotes ==
  ASSUME ConstantsOK, TypeInv, NEW s \in Setups, Create(s)
  PROVE  /\ mem'[s].new = target[s] /\ mem'[s].existed = (launcher # None)
         /\ Says(mem'[s], FALSE, FALSE, FALSE, FALSE, FALSE, FALSE, FALSE)
<1>0. TypeOK /\ target[s] \in Versions \union {None}
  BY DEF TypeInv, TypeOK
<1>1. PICK e \in BOOLEAN : e = (launcher # None)
  OBVIOUS
<1>2. PICK k : /\ k = [NoNotes EXCEPT !.new = target[s], !.existed = e]
               /\ k.new = target[s] /\ k.existed = e
               /\ Says(k, FALSE, FALSE, FALSE, FALSE, FALSE, FALSE, FALSE)
  BY <1>0, <1>1, FirstNotes
<1>3. Keep(s, k)
  BY <1>1, <1>2 DEF Create
<1>4. mem'[s] = k
  BY <1>0, <1>3, KeepAt
<1> QED BY <1>1, <1>2, <1>4

\* nor does it know what is installed.
LEMMA CreateFinds ==
  ASSUME ConstantsOK, TypeInv, NEW s \in Setups, Create(s)
  PROVE  mem'[s].original = NoPointer /\ mem'[s].old = None /\ ~mem'[s].oldExisted
<1>0. TypeOK /\ target[s] \in Versions \union {None}
  BY DEF TypeInv, TypeOK
<1>1. PICK e \in BOOLEAN : e = (launcher # None)
  OBVIOUS
<1>2. PICK k : /\ k = [NoNotes EXCEPT !.new = target[s], !.existed = e]
               /\ k \in Notes
               /\ k.original = NoPointer /\ k.old = None /\ ~k.oldExisted
  BY <1>0, <1>1, FirstNotes
<1>3. Keep(s, k)
  BY <1>1, <1>2 DEF Create
<1>4. mem'[s] = k
  BY <1>0, <1>2, <1>3, KeepAt
<1> QED BY <1>2, <1>4

\* The empty notes say nothing is done.
LEMMA NothingNoted == Flagless(NoNotes)
BY FirstNotes DEF Flagless, Says

\* A step of Setup leaves its own notes true.
LEMMA OwnKeepsNotes ==
  ASSUME ConstantsOK, TypeInv, ExclusionInv, NEW s \in Setups, Waited(s), Kept(s), SetupStep(s)
  PROVE Waited(s)' /\ Kept(s)'
<1> USE DEF Forward, Cleaning, Undoing, Ended, Outside, Early, Go, Goto,
        Waited, Kept
<1>0. /\ mem[s] \in Notes /\ pc \in [Setups -> SetupPCs] /\ TypeOK
      /\ pc[s] \in Forward => mutex = s
      /\ tree \in [Versions -> Contents] /\ saved \in [Setups -> Versions \union {None}] /\ stash \in [Setups -> Contents]
  BY DEF TypeInv, TypeOK, ExclusionInv, LockHeld, Inside
<1>u. UNCHANGED paper => Unwritten(s)
  BY DEF paper, Unwritten
<1>1. CASE NoteInitialized(s) \/ NoteMoved(s) \/ NoteReady(s) \/ NoteReplaced(s)  \/ NoteCommitted(s)
  <2>1. Notes2(s, "") /\ UNCHANGED <<tree, saved, stash, mutex, target>>
    BY <1>1, SetupNotes DEF NoteInitialized, NoteMoved, NoteReady, NoteReplaced,  NoteCommitted,
       Note, install, others, request
  <2> QED BY <1>0, <1>1, <2>1 DEF NoteInitialized, NoteMoved, NoteReady, NoteReplaced,
       NoteCommitted, Note, Notes2, Written, Adds, SameFound, Says, Flagless
<1>2. CASE Enter(s)
  BY <1>2, <1>0 DEF Enter, Flagless, files, paper, locals
<1>22. CASE Read(s)
  BY <1>22, <1>0, ReadNotes DEF Read, Flagless, Says, files, paper, request
<1>3. CASE TimeOut(s)
  BY <1>3, <1>0 DEF TimeOut, files, paper, locals
<1>4. CASE Create(s)
  BY <1>4, <1>0, CreateNotes DEF Create, Flagless, Says
<1>5. CASE SaveLauncher(s)
  BY <1>5, <1>0 DEF SaveLauncher, others, install, locals, request
<1>6. CASE Prepare(s)
  <2>1. UNCHANGED <<tree, saved, stash, mutex, target>> /\ pc[s] = "prepare"
    BY <1>6 DEF Prepare, install
  <2>2. CASE pc'[s] = "u_stop" /\ Quiet(s)
    BY <2>1, <2>2, <1>0 DEF Quiet, Unwritten
  <2>3. CASE pc'[s] = "save" /\ mem'[s] = mem[s] /\ Written(s)
    BY <2>1, <2>3, <1>0 DEF Written
  <2> QED BY <1>6, <2>2, <2>3, SetupNotes
<1>7. CASE Place(s)
  <2>1. UNCHANGED <<saved, stash, mutex, target>> /\ pc[s] = "place"
    BY <1>7 DEF Place, others, request
  <2>2. CASE pc'[s] = "ready" /\ Notes1(s, "created")
    BY <2>1, <2>2, <1>0 DEF Notes1, Unwritten, Adds, SameFound, Says, Flagless
  <2>3. CASE pc'[s] = "move" /\ tree[target[s]] # "absent" /\ UNCHANGED tree /\ Notes2(s, "intent")
    BY <2>1, <2>3, <1>0 DEF Notes2, Written, Adds, SameFound, Says, Flagless
  <2>4. CASE pc'[s] \in {"u_stop", "ready"} /\ Quiet(s)
    BY <2>1, <2>4, <1>0 DEF Quiet, Unwritten
  <2> QED BY <1>7, <2>2, <2>3, <2>4, SetupNotes
<1>8. CASE MoveAside(s)
  <2>1. UNCHANGED <<saved, mutex, target>> /\ pc[s] = "move"
    BY <1>8 DEF MoveAside, others, request
  <2>2. CASE pc'[s] = "u_stop" /\ UNCHANGED <<tree, stash>> /\ Quiet(s)
    BY <2>1, <2>2, <1>0 DEF Quiet, Unwritten
  <2>3. CASE pc'[s] = "moved" /\ SetStash(s, tree[target[s]]) /\ Notes1(s, "moved")
    BY <2>1, <2>3, <1>0 DEF Notes1, Unwritten, Adds, SameFound, Says, Flagless, SetStash
  <2> QED BY <1>8, <2>2, <2>3, SetupNotes
<1>9. CASE MoveIn(s)
  <2>1. Notes1(s, "created")
    BY <1>9, SetupNotes
  <2> QED BY <1>0, <1>9, <2>1 DEF MoveIn, files, request, others, Notes1, Unwritten, Adds,
       SameFound, Says, Flagless
<1>10. CASE StopOld(s)
  <2>1. Notes2(s, "")
    BY <1>10, SetupNotes
  <2> QED BY <1>0, <1>10, <2>1 DEF StopOld, install, request, others, Notes2, Written, Adds,
       SameFound, Says, Flagless
<1>11. CASE Snapshot(s)
  <2>1. UNCHANGED <<saved, stash, mutex, target, tree>> /\ pc[s] = "snap" /\ pc'[s] = "launcher"
    BY <1>0, <1>11 DEF Snapshot, others, request, install
  <2>2. CASE Quiet(s)
    BY <2>1, <2>2, <1>0 DEF Quiet, Unwritten
  <2>3. CASE Notes2(s, "snap")
    BY <2>1, <2>3, <1>0 DEF Notes2, Written, Adds, SameFound, Says, Flagless
  <2> QED BY <1>11, <2>2, <2>3, SetupNotes
<1>12. CASE ReplaceLauncher(s)
  <2>1. Notes1(s, "replaced")
    BY <1>12, SetupNotes
  <2> QED BY <1>0, <1>12, <2>1 DEF ReplaceLauncher, files, request, others, Notes1, Unwritten,
       Adds, SameFound, Says, Flagless
<1>13. CASE NoteIntent(s)
  <2>1. Notes2(s, "committing")
    BY <1>13, SetupNotes
  <2> QED BY <1>0, <1>13, <2>1 DEF NoteIntent, Note, install, request, others, Notes2, Written,
       Adds, SameFound, Says, Flagless
<1>14. CASE Commit(s)
  <2>1. Notes1(s, "committed")
    BY <1>14, SetupNotes
  <2> QED BY <1>0, <1>14, <2>1 DEF Commit, files, request, others, Notes1, Unwritten, Adds,
       SameFound, Says, Flagless
<1>15. CASE Deploy(s)
  <2>1. UNCHANGED <<saved, stash, mutex, target, tree>> /\ pc[s] = "deploy" /\ pc'[s] = "serve"
    BY <1>0, <1>15 DEF Deploy, others, request, install
  <2>2. CASE Quiet(s)
    BY <2>1, <2>2, <1>0 DEF Quiet, Unwritten
  <2>3. CASE Notes2(s, "")
    BY <2>1, <2>3, <1>0 DEF Notes2, Written, Adds, SameFound, Says, Flagless
  <2> QED BY <1>15, <2>2, <2>3, SetupNotes
<1>16. CASE Serve(s) \/ Finish(s) \/ Clean(s)
  BY <1>0, <1>16 DEF Serve, Finish, Clean, files, paper, install, locals, others, request
<1>17. CASE Unlink(s)
  BY <1>0, <1>17, NothingNoted DEF Unlink, locals, others, TypeInv, TypeOK
<1>18. CASE Drop(s)
  BY <1>0, <1>18 DEF Drop, Leave
<1>19. CASE UndoStop(s) \/ UndoPointer(s) \/ UndoLauncher(s) \/ UndoLoader(s)
  BY <1>0, <1>19 DEF UndoStop, UndoPointer, UndoLauncher, UndoLoader, files, paper, locals, others
<1>20. CASE UndoRemove(s)
  <2>1. CASE Leave(s, "failed")
    BY <2>1, <1>0 DEF Leave
  <2>2. CASE pc'[s] = "u_start" /\ UNCHANGED <<mutex, locals>>
    BY <2>2, <1>20 DEF UndoRemove, locals, files, paper
  <2>3. CASE pc'[s] = "u_back" /\ mem[s].moved /\ UNCHANGED <<mutex, locals>>
    BY <2>3, <1>20 DEF UndoRemove, locals, files, paper, Flagless
  <2> QED BY <1>0, <1>20, <2>1, <2>2, <2>3 DEF UndoRemove
<1>21. CASE UndoBack(s) \/ UndoStart(s)
  BY <1>0, <1>21 DEF UndoBack, UndoStart, files, paper, locals, others
<1> QED BY <1>1, <1>2, <1>3, <1>4, <1>5, <1>6, <1>7, <1>8, <1>9, <1>10, <1>11, <1>12, <1>13,
     <1>14, <1>15, <1>16, <1>17, <1>18, <1>19, <1>20, <1>21, <1>22 DEF SetupStep

\* The notes of every Setup are true.
NotesInv == \A s \in Setups : Waited(s) /\ Kept(s)

\* Without the mutex, a Setup changes no runtime and no Cadence loader.
LEMMA OutsideKeeps ==
  ASSUME ConstantsOK, TypeInv, ExclusionInv, NEW s \in Setups, Waited(s), SetupStep(s), mutex # s
  PROVE  UNCHANGED <<tree, loader>>
<1>1. pc[s] \notin Forward \union Cleaning
  BY DEF ExclusionInv, LockHeld, Inside
<1>2. CASE Create(s) \/ NoteInitialized(s) \/ Enter(s) \/ Read(s) \/ TimeOut(s)
  BY <1>2 DEF Create, NoteInitialized, Note, Enter, Read, TimeOut, install
<1>3. CASE UndoStop(s) \/ UndoPointer(s) \/ UndoLauncher(s) \/ UndoStart(s)
  BY <1>3 DEF UndoStop, UndoPointer, UndoLauncher, UndoStart, install
<1>4. CASE UndoLoader(s) \/ UndoRemove(s)
  <2>1. Flagless(mem[s])
    BY <1>4 DEF UndoLoader, UndoRemove, Waited, Undoing, Go
  <2> QED BY <1>4, <2>1 DEF UndoLoader, UndoRemove, Flagless
<1>5. CASE UndoBack(s)
  BY <1>5 DEF UndoBack, Waited, Go
<1>6. CASE Unlink(s) \/ Drop(s)
  BY <1>6 DEF Unlink, Drop, install
<1> QED BY <1>1, <1>2, <1>3, <1>4, <1>5, <1>6
     DEF SetupStep, Prepare, SaveLauncher, Place, MoveAside, NoteMoved, MoveIn, NoteReady, StopOld,
         Snapshot, ReplaceLauncher, NoteReplaced, NoteIntent, Commit, NoteCommitted, Deploy, Serve,
         Finish, Clean, Note, Go, Forward, Cleaning

\* A step of a Setup takes the mutex when it is free, frees its own, or leaves it.
LEMMA MutexMoves ==
  ASSUME NEW s \in Setups, SetupStep(s)
  PROVE  mutex' = mutex \/ (mutex = NoOne /\ mutex' = s) \/ (mutex = s /\ mutex' = NoOne)
<1> USE DEF others, Note
<1>1. CASE Drop(s) \/ UndoRemove(s)
  BY <1>1 DEF Drop, UndoRemove, Leave
<1>2. CASE Enter(s)
  BY <1>2 DEF Enter
<1> QED BY <1>1, <1>2
     DEF SetupStep, Create, NoteInitialized, Read, TimeOut, Prepare, SaveLauncher, Place, MoveAside, NoteMoved,
         MoveIn, NoteReady, StopOld, Snapshot, ReplaceLauncher, NoteReplaced, NoteIntent, Commit,
         NoteCommitted, Deploy, Serve, Finish, Clean, Unlink, UndoStop, UndoPointer, UndoLauncher,
         UndoLoader, UndoBack, UndoStart

\* What another Setup does leaves the notes of this one true.
LEMMA OthersKeepNotes ==
  ASSUME ConstantsOK, TypeInv, ExclusionInv, NotesInv, NEW t \in Setups, SetupStep(t),
         NEW s \in Setups, s # t
  PROVE  Waited(s)' /\ Kept(s)'
<1>0. OnlyOf(t) /\ Waited(s) /\ Kept(s) /\ Waited(t) /\ s # NoOne
  BY StepIsOwn DEF TypeInv, NotesInv, ConstantsOK
<1>1. SameLocals(s) /\ SameFiles(s)
  BY <1>0 DEF OnlyOf
<1>2. (mutex' = s) <=> (mutex = s)
  BY <1>0, MutexMoves
<1>3. Waited(s)'
  BY <1>0, <1>1, <1>2 DEF SameLocals, SameFiles, Waited
<1>4. pc[s] = "move" => UNCHANGED tree
  BY <1>0, OutsideKeeps DEF ExclusionInv, LockHeld, Inside, Forward
<1>5. Kept(s)'
  BY <1>0, <1>1, <1>4 DEF SameLocals, SameFiles, Kept
<1> QED BY <1>3, <1>5

\* So does a recovery: no Setup works under the mutex then.
LEMMA RecoveryKeepsNotes ==
  ASSUME ConstantsOK, TypeInv, ExclusionInv, NotesInv, NEW p \in Procs,
         RecoverStep(p) \/ RecoverThrow(p), NEW s \in Setups
  PROVE  Waited(s)' /\ Kept(s)'
<1>0. TypeOK /\ AtKnown /\ Waited(s) /\ Kept(s) /\ (rpc[p] \in RecoverLocked => mutex = p)
      /\ rpc[p] \in RecoverLocked \union {"wait"}
  BY DEF TypeInv, NotesInv, ExclusionInv, LockHeld, Inside, RecoverStep, RecoverThrow, RecoverEnter,
     RecoverTimeOut,
         RecoverPick, RecoverLeave, RecoverStop, RecoverRemove, RecoverBack, RecoverPointer,
         RecoverLauncher, RecoverCadence, RecoverStash, RecoverUnlink, RecoverDrop, RGo, RecoverLocked
<1>1. p = s => pc[s] = "recover"
  BY <1>0, Places DEF ExclusionInv, RecoversFirst
<1>2. CASE pc[s] \in Forward \/ pc[s] = "u_back"
  <2>1. p # s /\ mutex # p
    BY <1>0, <1>1, <1>2 DEF ExclusionInv, LockHeld, Inside, Waited, Forward
  <2>2. CASE \E ok \in BOOLEAN : RecoverEnd(p, ok) /\ UNCHANGED <<tree, files>>
    BY <2>1, <2>2, <1>0 DEF RecoverEnd, Forget, Keep, Waited, Kept, files, paper, locals,
       request, TypeOK
  <2>3. CASE RecoverEnter(p)
    BY <2>1, <2>3, <1>0, <1>2 DEF RecoverEnter, ExclusionInv, LockHeld, Inside, Waited, Forward, ConstantsOK
  <2> QED BY <2>1, <2>2, <2>3, <1>0
       DEF RecoverStep, RecoverThrow, RecoverTimeOut, install,
         RecoverPick, RecoverLeave, RecoverStop, RecoverRemove, RecoverBack, RecoverPointer,
         RecoverLauncher, RecoverCadence, RecoverStash, RecoverUnlink, RecoverDrop, RGo, RecoverLocked
<1>3. CASE pc[s] \notin Forward \union {"u_back"}
  <2>1. /\ pc'[s] = pc[s] \/ (p = s /\ pc'[s] \in {"create", "failed"})
        /\ mutex = s /\ mutex' # s => p = s
        /\ mem'[s] = mem[s] \/ (p = s /\ mem'[s] = NoNotes)
        /\ journal'[s] = journal[s] \/ journal'[s] = NoNotes
    <3>1. CASE \E ok \in BOOLEAN : RecoverEnd(p, ok) /\ UNCHANGED files
      BY <3>1, <1>0 DEF RecoverEnd, Forget, Keep, files, paper, locals, request, TypeOK
    <3>2. CASE RecoverUnlink(p)
      <4>1. journal'[s] = journal[s] \/ journal'[s] = NoNotes
        BY <3>2, <1>0 DEF RecoverUnlink, TypeOK
      <4> QED BY <4>1, <3>2 DEF RecoverUnlink, elsewhere, locals
    <3>3. CASE RecoverEnter(p)
      BY <3>3, <1>0 DEF RecoverEnter, files, paper, locals, ConstantsOK
    <3> QED BY <3>1, <3>2, <3>3
       DEF RecoverStep, RecoverThrow, RecoverTimeOut, files, paper, elsewhere, locals,
         RecoverPick, RecoverLeave, RecoverStop, RecoverRemove, RecoverBack, RecoverPointer,
         RecoverLauncher, RecoverCadence, RecoverStash, RecoverDrop
  <2>2. pc'[s] \notin Forward \union {"u_back"}
    BY <2>1, <1>3 DEF Forward
  <2>3. Waited(s)'
    BY <2>1, <2>2, <1>0, <1>1, NothingNoted DEF Waited, Outside, Undoing
  <2> QED BY <2>2, <2>3 DEF Kept
<1> QED BY <1>2, <1>3

\* The notes stay true through every step.
LEMMA NotesStep ==
  ASSUME ConstantsOK, TypeInv, ExclusionInv, NotesInv, [Next]_vars
  PROVE  NotesInv'
<1>0. TypeOK /\ NoOne \notin Setups /\ Updater \notin Setups /\ Launcher \notin Setups
  BY DEF TypeInv, ConstantsOK
<1>1. CASE \E s \in Setups : SetupStep(s)
  BY <1>1, OwnKeepsNotes, OthersKeepNotes DEF NotesInv
<1>2. CASE \E s \in Setups : Begin(s)
  BY <1>2, <1>0 DEF Begin, Goto, TypeOK, NotesInv, Waited, Kept, files, paper, install, Outside, Early,
     Forward, Undoing
<1>3. CASE \E s \in Setups : Throw(s)
  <2>1. PICK s \in Setups : Throw(s)
    BY <1>3
  <2>2. CASE pc[s] \in Forward /\ Goto(s, "u_stop") /\ UNCHANGED <<mutex, locals>>
    <3>1. mutex = s /\ UNCHANGED <<tree, files>>
      BY <2>1, <2>2 DEF ExclusionInv, LockHeld, Inside, Throw
    <3> QED BY <2>2, <3>1, <1>0 DEF Goto, TypeOK, NotesInv, Waited, Kept, files, paper, locals,
         request, Outside, Early, Forward, Undoing
  <2>3. CASE (Leave(s, "failed") \/ Leave(s, "done"))
    <3>1. UNCHANGED <<tree, files>>
      BY <2>1 DEF Throw
    <3> QED BY <2>3, <3>1, <1>0 DEF Leave, Forget, Keep, Goto, TypeOK, NotesInv, Waited, Kept,
         files, paper, Outside, Early, Forward, Undoing
  <2> QED BY <2>1, <2>2, <2>3 DEF Throw
<1>4. CASE \E s \in Setups : Kill(s)
  BY <1>4, <1>0 DEF Kill, Leave, Forget, Keep, Goto, TypeOK, NotesInv, Waited, Kept, files,
     paper, install, Outside, Early, Forward, Undoing
<1>5. CASE \E p \in Procs : RecoverStep(p) \/ RecoverThrow(p)
  BY <1>5, RecoveryKeepsNotes DEF NotesInv
<1>6. CASE KillLauncher
  BY <1>6, <1>0 DEF KillLauncher, RecoverEnd, NotesInv, Waited, Kept, files, paper, install,
     locals, request
<1>7. CASE Scan \/ Launch
  BY <1>7 DEF Scan, Launch, elsewhere, NotesInv, Waited, Kept, files, paper, install, locals,
     request
<1>8. CASE UpdateBegin \/ UpdateEnd
  <2>1. \A s \in Setups : pc[s] = "move" => UNCHANGED tree
    BY <1>8, <1>0 DEF UpdateBegin, UpdateEnd, ExclusionInv, LockHeld, Inside, Forward, install
  <2>2. \A s \in Setups : (mutex' = s) <=> (mutex = s)
    BY <1>8, <1>0 DEF UpdateBegin, UpdateEnd
  <2>3. UNCHANGED <<files, pc, locals>>
    BY <1>8 DEF UpdateBegin, UpdateEnd
  <2> QED BY <2>1, <2>2, <2>3 DEF NotesInv, Waited, Kept, files, paper, locals, request
<1>9. CASE UNCHANGED vars
  BY <1>9 DEF vars, NotesInv, Waited, Kept, files, paper, install, locals, request
<1> QED BY <1>1, <1>2, <1>3, <1>4, <1>5, <1>6, <1>7, <1>8, <1>9 DEF Next

\* They are before anybody has begun.
LEMMA NotesStart ==
  ASSUME Init
  PROVE  NotesInv
BY NothingNoted DEF Init, NotesInv, Waited, Kept, Outside, Forward

\* Until the Cadence snapshot is taken, a Setup killed at any step leaves a journal that recovery
\* accepts: the runtime it says is moved and the launcher it says is replaced are there, however
\* many Setups run at once.
THEOREM SetupJournalKept == Spec => []CrashIsRecoverable
<1>1. Init => TypeInv /\ ExclusionInv /\ NotesInv
  BY TypesStart, InitIsExclusive, NotesStart, ConstantsOK
<1>2. TypeInv /\ ExclusionInv /\ NotesInv /\ [Next]_vars => (TypeInv /\ ExclusionInv /\ NotesInv)'
  BY StepTypes, KnownStep, StepKeeps, NotesStep, ConstantsOK DEF TypeInv
<1>3. TypeInv /\ NotesInv => CrashIsRecoverable
  <2> SUFFICES ASSUME TypeInv, NotesInv, NEW s \in Setups, pc[s] \in Forward, outcome[s] = "pending", ~journal[s].snap
      PROVE Acceptable(s)
    BY DEF CrashIsRecoverable
  <2>1. CASE pc[s] \in Early
    BY <2>1 DEF NotesInv, Waited, Flagless, Acceptable, SnapshotAccepted
  <2>2. CASE pc[s] \notin Early
    BY <2>2 DEF NotesInv, Kept, Acceptable, SnapshotAccepted
  <2> QED BY <2>1, <2>2
<1> QED BY <1>1, <1>2, <1>3, PTL DEF Spec
=============================================================================
