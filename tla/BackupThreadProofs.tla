------------------------- MODULE BackupThreadProofs -------------------------
(***************************************************************************)
(* Proofs about BackupThread, for any set of backup threads.               *)
(***************************************************************************)
EXTENDS BackupThread, TLAPS

USE DEF Main, Nobody, BtGoto, msgs, intr, env

(* The types and the owners of domain_lock.                                *)
LEMMA TypeInit == ASSUME BackupsApart, Init PROVE TypeOK
  BY Zenon DEF BackupsApart, Init, TypeOK

LEMMA TypeStep ==
  ASSUME BackupsApart, TypeOK, Next
  PROVE  TypeOK'
<1> USE DEF BackupsApart, TypeOK
<1>1. CASE MainHandle
  <2>1. interrupt_pending' \in BOOLEAN
    BY <1>1, Zenon DEF MainHandle
  <2>2. UNCHANGED <<backup_thread_msg, backup_thread_running, running, domain_lock, is_main,
                    others, sender, child, bt>>
    BY <1>1 DEF MainHandle
  <2>3. \/ main = "run" /\ main' = "handler"
        \/ main = "spawn" /\ main' = "spawn_handler"
    BY <1>1 DEF MainHandle
  <2> QED BY <2>1, <2>2, <2>3
<1>2. CASE MainHandled
  BY <1>2 DEF MainHandled
<1>3. CASE caml_release_domain_lock
  BY <1>3 DEF caml_release_domain_lock
<1>4. CASE caml_acquire_domain_lock
  BY <1>4 DEF caml_acquire_domain_lock
<1>5. CASE SpawnWait
  BY <1>5 DEF SpawnWait
<1>6. CASE SpawnReturn
  BY <1>6 DEF SpawnReturn, AfterSpawn
<1>7. CASE InstallNothing
  BY <1>7 DEF InstallNothing
<1>8. CASE InstallWait
  BY <1>8 DEF InstallWait, PredecessorGone
<1>9. CASE InstallRelock
  BY <1>9 DEF InstallRelock
<1>10. CASE InstallCreate
  BY <1>10 DEF InstallCreate, PredecessorGone
<1>11. CASE InstallFails
  BY <1>11 DEF InstallFails, PredecessorGone
<1>12. CASE TerminateBackup
  BY <1>12 DEF TerminateBackup, SignalDomainCond
<1>13. CASE UnlockSlot
  BY <1>13 DEF UnlockSlot
<1>14. CASE Broadcast
  BY <1>14 DEF Broadcast, BroadcastInterruptor, InterruptorBroadcast
<1>15. CASE ChildAnswers
  BY <1>15 DEF ChildAnswers, BroadcastInterruptor, InterruptorBroadcast
<1>16. CASE SendInterrupt
  BY <1>16 DEF SendInterrupt
<1>17. CASE ChildCreated
  BY <1>17 DEF ChildCreated
<1>18. CASE OthersLeave
  <2>1. others' \in BOOLEAN
    BY <1>18, Zenon DEF OthersLeave
  <2> QED BY <1>18, <2>1 DEF OthersLeave
<1>19. CASE caml_bt_exit_travlang
  BY <1>19 DEF caml_bt_exit_travlang, SignalDomainCond
<1>20. CASE caml_bt_enter_travlang
  BY <1>20 DEF caml_bt_enter_travlang
<1>21. CASE Spawn
  BY <1>21 DEF Spawn
<1>22. CASE Join
  BY <1>22 DEF Join
<1>23. CASE Leave
  BY <1>23 DEF Leave, MayLeave, LeaverBroadcast, InterruptorBroadcast
<1>24. CASE \E b \in Backups : BtReload(b)
  BY <1>24 DEF BtReload
<1>25. CASE \E b \in Backups : BtPoll(b)
  BY <1>25 DEF BtPoll
<1>26. CASE \E b \in Backups : BtTryLock(b)
  BY <1>26 DEF BtTryLock
<1>27. CASE \E b \in Backups : BtHandle(b)
  <2> PICK b \in Backups : BtHandle(b)
    BY <1>27
  <2>1. interrupt_pending' \in BOOLEAN
    BY Zenon DEF BtHandle
  <2>2. UNCHANGED <<backup_thread_msg, backup_thread_running, running, domain_lock, is_main,
                    others, sender, child, main>>
    BY DEF BtHandle
  <2>3. /\ bt[b] = "handle"
        /\ bt' = [bt EXCEPT ![b] = "handler"] \/ bt' = [bt EXCEPT ![b] = "release"]
    BY Zenon DEF BtHandle
  <2> QED BY <2>1, <2>2, <2>3
<1>28. CASE \E b \in Backups : BtHandled(b)
  BY <1>28 DEF BtHandled
<1>29. CASE \E b \in Backups : BtWait(b)
  BY <1>29 DEF BtWait, NothingToDo
<1>30. CASE \E b \in Backups : BtEntering(b)
  BY <1>30 DEF BtEntering
<1>31. CASE \E b \in Backups : BtWoken(b)
  BY <1>31 DEF BtWoken
<1>32. CASE \E b \in Backups : BtExit(b)
  BY <1>32 DEF BtExit
<1>33. CASE \E b \in Backups : SpuriousWakeup(b)
  BY <1>33 DEF SpuriousWakeup
<1> HIDE DEF BackupsApart, TypeOK
<1> QED BY <1>1, <1>2, <1>3, <1>4, <1>5, <1>6, <1>7, <1>8, <1>9, <1>10, <1>11, <1>12, <1>13,
           <1>14, <1>15, <1>16, <1>17, <1>18, <1>19, <1>20, <1>21, <1>22, <1>23, <1>24,
           <1>25, <1>26, <1>27, <1>28, <1>29, <1>30, <1>31, <1>32, <1>33
        DEF Next, MainStep, BackupStep

LEMMA InvStep ==
  ASSUME BackupsApart, TypeOK, BackupInv, Next
  PROVE  BackupInv'
<1> USE DEF BackupsApart, TypeOK, BackupInv, OneBackupThread
<1>1. CASE MainHandle
  BY <1>1 DEF MainHandle
<1>2. CASE MainHandled
  BY <1>2 DEF MainHandled
<1>3. CASE caml_release_domain_lock
  BY <1>3 DEF caml_release_domain_lock
<1>4. CASE caml_acquire_domain_lock
  BY <1>4 DEF caml_acquire_domain_lock
<1>5. CASE SpawnWait
  BY <1>5 DEF SpawnWait
<1>6. CASE SpawnReturn
  BY <1>6 DEF SpawnReturn, AfterSpawn
<1>7. CASE InstallNothing
  BY <1>7 DEF InstallNothing
<1>8. CASE InstallWait
  BY <1>8 DEF InstallWait, PredecessorGone
<1>9. CASE InstallRelock
  BY <1>9 DEF InstallRelock
<1>10. CASE InstallCreate
  BY <1>10 DEF InstallCreate, PredecessorGone
<1>11. CASE InstallFails
  BY <1>11 DEF InstallFails, PredecessorGone
<1>12. CASE TerminateBackup
  BY <1>12 DEF TerminateBackup, SignalDomainCond
<1>13. CASE UnlockSlot
  BY <1>13 DEF UnlockSlot
<1>14. CASE Broadcast
  BY <1>14 DEF Broadcast, BroadcastInterruptor, InterruptorBroadcast
<1>15. CASE ChildAnswers
  BY <1>15 DEF ChildAnswers, BroadcastInterruptor, InterruptorBroadcast
<1>16. CASE SendInterrupt
  BY <1>16 DEF SendInterrupt
<1>17. CASE ChildCreated
  BY <1>17 DEF ChildCreated
<1>18. CASE OthersLeave
  BY <1>18 DEF OthersLeave
<1>19. CASE caml_bt_exit_travlang
  BY <1>19 DEF caml_bt_exit_travlang, SignalDomainCond
<1>20. CASE caml_bt_enter_travlang
  BY <1>20 DEF caml_bt_enter_travlang
<1>21. CASE Spawn
  BY <1>21 DEF Spawn
<1>22. CASE Join
  BY <1>22 DEF Join
<1>23. CASE Leave
  BY <1>23 DEF Leave, MayLeave, LeaverBroadcast, InterruptorBroadcast
<1>24. CASE \E b \in Backups : BtReload(b)
  BY <1>24 DEF BtReload
<1>25. CASE \E b \in Backups : BtPoll(b)
  BY <1>25 DEF BtPoll
<1>26. CASE \E b \in Backups : BtTryLock(b)
  BY <1>26 DEF BtTryLock
<1>27. CASE \E b \in Backups : BtHandle(b)
  BY <1>27 DEF BtHandle
<1>28. CASE \E b \in Backups : BtHandled(b)
  BY <1>28 DEF BtHandled
<1>29. CASE \E b \in Backups : BtWait(b)
  BY <1>29 DEF BtWait, NothingToDo
<1>30. CASE \E b \in Backups : BtEntering(b)
  BY <1>30 DEF BtEntering
<1>31. CASE \E b \in Backups : BtWoken(b)
  BY <1>31 DEF BtWoken
<1>32. CASE \E b \in Backups : BtExit(b)
  BY <1>32 DEF BtExit
<1>33. CASE \E b \in Backups : SpuriousWakeup(b)
  BY <1>33 DEF SpuriousWakeup
<1> HIDE DEF BackupsApart, TypeOK, BackupInv, OneBackupThread
<1> QED BY <1>1, <1>2, <1>3, <1>4, <1>5, <1>6, <1>7, <1>8, <1>9, <1>10, <1>11, <1>12, <1>13,
           <1>14, <1>15, <1>16, <1>17, <1>18, <1>19, <1>20, <1>21, <1>22, <1>23, <1>24,
           <1>25, <1>26, <1>27, <1>28, <1>29, <1>30, <1>31, <1>32, <1>33
        DEF Next, MainStep, BackupStep

(* The invariant of the slot, in every reachable state: the types, the     *)
(* owner of domain_lock and the reasons of BackupInv.                      *)
THEOREM SlotInvariant ==
  ASSUME BackupsApart
  PROVE  Spec => [](TypeOK /\ BackupInv)
<1>1. Init => TypeOK /\ BackupInv
  <2> SUFFICES ASSUME Init
               PROVE  TypeOK /\ BackupInv
    OBVIOUS
  <2>1. CASE is_main
    <3>1. running /\ ~others /\ main = "run"
      BY <2>1, Zenon DEF Init
    <3> QED BY <3>1, TypeInit, Zenon DEF Init, BackupInv, OneBackupThread
  <2>2. CASE ~is_main
    <3>1. ~running /\ main = "off"
      BY <2>2, Zenon DEF Init
    <3> QED BY <3>1, TypeInit, Zenon DEF Init, BackupInv, OneBackupThread
  <2> QED BY <2>1, <2>2
<1>2. TypeOK /\ BackupInv /\ [Next]_vars => (TypeOK /\ BackupInv)'
  <2> SUFFICES ASSUME TypeOK, BackupInv, [Next]_vars
               PROVE  (TypeOK /\ BackupInv)'
    OBVIOUS
  <2>1. CASE Next
    BY <2>1, TypeStep, InvStep
  <2>2. CASE UNCHANGED vars
    BY <2>2 DEF vars, TypeOK, BackupInv, OneBackupThread
  <2> QED BY <2>1, <2>2
<1> QED BY <1>1, <1>2, PTL DEF Spec

(* One thread runs as the domain, the slot has one backup thread, and no   *)
(* domain blocks without it unless its creation failed: a thread that is   *)
(* in stw_handler owns domain_lock, and the main thread, which does not,   *)
(* is outside or waits for the lock.                                       *)
THEOREM OneThreadPerDomain ==
  ASSUME BackupsApart
  PROVE  Spec => []BackupSound
<1>1. TypeOK /\ BackupInv => BackupSound
  <2> SUFFICES ASSUME TypeOK, BackupInv
               PROVE  BackupSound
    OBVIOUS
  <2>1. OneThreadRuns
    BY DEF BackupsApart, TypeOK, BackupInv, OneThreadRuns
  <2>2. ~CreateMayFail => BlockedHasBackup
    BY DEF TypeOK, BackupInv, BlockedHasBackup
  <2> QED BY <2>1, <2>2 DEF BackupInv, BackupSound
<1> QED BY <1>1, SlotInvariant, PTL

(* BT_TERMINATE stays until the backup thread has read it: its domain has  *)
(* left, and install_backup_thread waits for BT_INIT.                      *)
THEOREM TerminateIsSeen ==
  ASSUME BackupsApart
  PROVE  Spec => TerminateSeen
<1> DEFINE Kept == backup_thread_msg = "TERMINATE" => backup_thread_msg' \in {"TERMINATE", "INIT"}
<1>1. TypeOK /\ BackupInv /\ [Next]_vars => [Kept]_vars
  <2> SUFFICES ASSUME BackupInv, Next, backup_thread_msg = "TERMINATE"
               PROVE  backup_thread_msg' \in {"TERMINATE", "INIT"}
    OBVIOUS
  <2>1. ~backup_thread_running
    BY DEF BackupInv
  <2> QED BY <2>1 DEF Next, MainStep, BackupStep, MainHandle, MainHandled,
       caml_release_domain_lock, caml_acquire_domain_lock, SpawnWait, SpawnReturn,
       InstallNothing, InstallWait, InstallRelock, InstallCreate, InstallFails,
       PredecessorGone, TerminateBackup, UnlockSlot, Broadcast, ChildAnswers,
       SendInterrupt, ChildCreated, OthersLeave, caml_bt_exit_travlang,
       caml_bt_enter_travlang, Spawn, Join, Leave, BtReload, BtPoll, BtTryLock, BtHandle,
       BtHandled, BtWait, BtEntering, BtWoken, BtExit, SpuriousWakeup
<1> HIDE DEF Kept
<1>2. Spec => [][Kept]_vars
  BY <1>1, SlotInvariant, PTL DEF Spec
<1> QED BY <1>2 DEF Kept, TerminateSeen

(* Steps that are none of the interruptor's.                               *)
LEMMA OtherSteps ==
  ASSUME BackupsApart, TypeOK, BackupInv,
         Next, UNCHANGED <<running, interrupt_pending>>,
         ~MainHandle, ~MainHandled, \A b \in Backups : ~BtHandle(b) /\ ~BtHandled(b)
  PROVE  Handling' <=> Handling
<1> USE DEF TypeOK, Handling
<1>1. CASE caml_release_domain_lock
  BY <1>1 DEF caml_release_domain_lock
<1>2. CASE caml_acquire_domain_lock
  BY <1>2 DEF caml_acquire_domain_lock
<1>3. CASE SpawnWait
  BY <1>3 DEF SpawnWait
<1>4. CASE SpawnReturn
  BY <1>4 DEF SpawnReturn, AfterSpawn
<1>5. CASE InstallNothing
  BY <1>5 DEF InstallNothing
<1>6. CASE InstallWait
  BY <1>6 DEF InstallWait, PredecessorGone
<1>7. CASE InstallRelock
  BY <1>7 DEF InstallRelock
<1>8. CASE InstallCreate
  BY <1>8 DEF InstallCreate, PredecessorGone
<1>9. CASE InstallFails
  BY <1>9 DEF InstallFails, PredecessorGone
<1>10. CASE TerminateBackup
  BY <1>10 DEF TerminateBackup, SignalDomainCond
<1>11. CASE UnlockSlot
  BY <1>11 DEF UnlockSlot
<1>12. CASE Broadcast
  BY <1>12 DEF Broadcast, BroadcastInterruptor, InterruptorBroadcast
<1>13. CASE ChildAnswers
  BY <1>13 DEF ChildAnswers, BroadcastInterruptor, InterruptorBroadcast
<1>14. CASE SendInterrupt
  BY <1>14 DEF SendInterrupt
<1>15. CASE ChildCreated
  BY <1>15 DEF ChildCreated
<1>16. CASE OthersLeave
  BY <1>16 DEF OthersLeave
<1>17. CASE caml_bt_exit_travlang
  BY <1>17 DEF caml_bt_exit_travlang, SignalDomainCond
<1>18. CASE caml_bt_enter_travlang
  BY <1>18 DEF caml_bt_enter_travlang
<1>19. CASE Spawn
  BY <1>19 DEF Spawn
<1>20. CASE Join
  BY <1>20 DEF Join
<1>21. CASE Leave
  BY <1>21 DEF Leave, MayLeave, LeaverBroadcast, InterruptorBroadcast
<1>22. CASE \E b \in Backups : BtReload(b)
  BY <1>22 DEF BtReload
<1>23. CASE \E b \in Backups : BtPoll(b)
  BY <1>23 DEF BtPoll
<1>24. CASE \E b \in Backups : BtTryLock(b)
  BY <1>24 DEF BtTryLock
<1>25. CASE \E b \in Backups : BtWait(b)
  BY <1>25 DEF BtWait, NothingToDo
<1>26. CASE \E b \in Backups : BtEntering(b)
  BY <1>26 DEF BtEntering
<1>27. CASE \E b \in Backups : BtWoken(b)
  BY <1>27 DEF BtWoken
<1>28. CASE \E b \in Backups : BtExit(b)
  BY <1>28 DEF BtExit
<1>29. CASE \E b \in Backups : SpuriousWakeup(b)
  BY <1>29 DEF SpuriousWakeup
<1> HIDE DEF TypeOK, Handling
<1> QED BY <1>1, <1>2, <1>3, <1>4, <1>5, <1>6, <1>7, <1>8, <1>9, <1>10, <1>11,
           <1>12, <1>13, <1>14, <1>15, <1>16, <1>17, <1>18, <1>19, <1>20, <1>21,
           <1>22, <1>23, <1>24, <1>25, <1>26, <1>27, <1>28, <1>29
        DEF Next, MainStep, BackupStep

(* A step of the slot is a step of the interruptor or leaves it alone: the *)
(* thread that takes the interrupt is the only one to, and it runs as a    *)
(* domain that has not left.                                               *)
LEMMA ServiceStep ==
  ASSUME BackupsApart, TypeOK, BackupInv, Next
  PROVE  Service!Next \/ UNCHANGED Service!vars
<1> USE DEF Service!Next, Service!vars
<1>0. Handling \in BOOLEAN /\ Handling' \in BOOLEAN
  BY DEF Handling
<1>1. CASE MainHandle
  <2>1. ~Handling /\ running /\ interrupt_pending
    BY <1>1 DEF MainHandle, BackupsApart, TypeOK, BackupInv, Handling
  <2>2. Handling' /\ interrupt_pending' = FALSE
    BY <1>1 DEF MainHandle, Handling
  <2>3. running' = running
    BY <1>1 DEF MainHandle
  <2> QED BY <1>0, <2>1, <2>2, <2>3, Zenon DEF Service!Take
<1>2. CASE MainHandled
  <2>1. Handling /\ ~Handling'
    BY <1>2 DEF MainHandled, BackupsApart, TypeOK, Handling
  <2>2. UNCHANGED <<running, interrupt_pending>>
    BY <1>2 DEF MainHandled
  <2> QED BY <1>0, <2>1, <2>2, Zenon DEF Service!Done
<1>3. ASSUME NEW b \in Backups, BtHandle(b) PROVE Service!Next \/ UNCHANGED Service!vars
  <2>1. ~Handling /\ running' = running
    BY <1>3 DEF BtHandle, BackupsApart, TypeOK, Handling
  <2>2. CASE interrupt_pending
    <3>1. Handling' /\ interrupt_pending' = FALSE /\ running
      BY <1>3, <2>2 DEF BtHandle, TypeOK, BackupInv, Handling
    <3> QED BY <1>0, <2>1, <2>2, <3>1, Zenon DEF Service!Take
  <2>3. CASE ~interrupt_pending
    <3>1. ~Handling'
      BY <1>3, <2>1, <2>3 DEF BtHandle, TypeOK, Handling
    <3>2. interrupt_pending' = FALSE
      BY <1>3 DEF BtHandle
    <3> QED BY <1>0, <2>1, <2>3, <3>1, <3>2, Zenon DEF TypeOK
  <2> QED BY <2>2, <2>3
<1>4. ASSUME NEW b \in Backups, BtHandled(b) PROVE Service!Next \/ UNCHANGED Service!vars
  <2>1. ~Handling'
    BY <1>4 DEF BtHandled, BackupsApart, TypeOK, Handling
  <2>2. UNCHANGED <<running, interrupt_pending>>
    BY <1>4 DEF BtHandled
  <2> QED BY <1>0, <2>1, <2>2, Zenon DEF Service!Done
<1>5. CASE SendInterrupt
  <2>1. running /\ ~interrupt_pending /\ ~Handling /\ interrupt_pending' = TRUE
    BY <1>5 DEF SendInterrupt
  <2>2. ~Handling' /\ running' = running
    BY <1>5 DEF SendInterrupt, Handling
  <2> QED BY <1>0, <2>1, <2>2, Zenon DEF Service!Send
<1>6. CASE Join
  <2>1. ~running /\ ~interrupt_pending /\ ~Handling
    BY <1>6 DEF Join, TypeOK, BackupInv, Handling
  <2>2. ~Handling' /\ running' = TRUE /\ interrupt_pending' = interrupt_pending
    BY <1>6, <2>1 DEF Join, Handling
  <2> QED BY <1>0, <2>1, <2>2, Zenon DEF Service!Join
<1>7. CASE Leave
  <2>1. running /\ ~interrupt_pending /\ ~Handling
    BY <1>7 DEF Leave, MayLeave, BackupsApart, TypeOK, BackupInv, Handling
  <2>2. ~Handling' /\ running' = FALSE /\ interrupt_pending' = interrupt_pending
    BY <1>7, <2>1 DEF Leave, LeaverBroadcast, InterruptorBroadcast, TypeOK, Handling
  <2> QED BY <1>0, <2>1, <2>2, Zenon DEF Service!Quit
<1>8. CASE ~(\/ MainHandle \/ MainHandled \/ SendInterrupt \/ Join \/ Leave
             \/ \E b \in Backups : BtHandle(b) \/ BtHandled(b))
  <2>1. UNCHANGED <<running, interrupt_pending>>
    BY <1>8 DEF Next, MainStep, BackupStep, caml_release_domain_lock,
       caml_acquire_domain_lock, SpawnWait, SpawnReturn, InstallNothing, InstallWait,
       InstallRelock, InstallCreate, InstallFails, TerminateBackup, UnlockSlot, Broadcast,
       ChildAnswers, ChildCreated, OthersLeave, caml_bt_exit_travlang,
       caml_bt_enter_travlang, Spawn, BtReload, BtPoll, BtTryLock, BtWait, BtEntering,
       BtWoken, BtExit, SpuriousWakeup
  <2>2. Handling' <=> Handling
    BY <1>8, <2>1, OtherSteps
  <2> QED BY <1>0, <2>1, <2>2, Zenon
<1> QED BY <1>1, <1>2, <1>3, <1>4, <1>5, <1>6, <1>7, <1>8

(* The threads of a slot implement the interruptor that StwProtocol relies *)
(* on: an interrupt is taken once, by a domain that runs, and none is left *)
(* behind by a domain that leaves.                                         *)
THEOREM SlotImplementsInterruptor ==
  ASSUME BackupsApart
  PROVE  Spec => ServiceSteps
<1>1. Init => Service!Init
  BY DEF Init, Service!Init, Handling
<1>2. TypeOK /\ BackupInv /\ [Next]_vars => [Service!Next]_(Service!vars)
  <2> SUFFICES ASSUME TypeOK, BackupInv, [Next]_vars
               PROVE  Service!Next \/ UNCHANGED Service!vars
    OBVIOUS
  <2>1. CASE Next
    BY <2>1, ServiceStep
  <2>2. CASE UNCHANGED vars
    BY <2>2 DEF vars, Service!vars, Handling
  <2> QED BY <2>1, <2>2
<1> QED BY <1>1, <1>2, SlotInvariant, PTL DEF Spec, ServiceSteps

=============================================================================
