---------------------------- MODULE BackupThread ----------------------------
(***************************************************************************)
(* The threads of one domain slot: the main pthread of the domain that has *)
(* the slot, and the backup thread that services interrupts while the main *)
(* one is in a blocking section (runtime/domain.c, and the default hooks   *)
(* of runtime/signals.c).  A slot is used by one domain after the other,   *)
(* and a new domain may find the backup thread of its predecessor alive.   *)
(*                                                                         *)
(* The critical sections of interruptor.lock are single steps: everything  *)
(* that is read in one and written outside (backup_thread_msg,             *)
(* interrupt_pending) is written before the broadcast that needs the lock. *)
(* domain_lock is held from step to step, and is a variable.               *)
(***************************************************************************)
EXTENDS Naturals, FiniteSets

CONSTANTS
  Backups,        \* identities for backup threads
  CreateMayFail   \* whether the pthread_create of install_backup_thread may fail

VARIABLES
  backup_thread_msg, backup_thread_running,
  running, interrupt_pending,     \* the interruptor
  domain_lock,                    \* its owner: Main, a backup thread or Nobody
  is_main,                        \* whether this is the slot of the main domain
  others,                         \* whether another domain runs: ~caml_domain_alone
  sender,                         \* the leader of a section, in caml_send_interrupt
  child,                          \* the p.status of the spawn the main thread waits for
  main, bt                        \* what the threads do

msgs == <<backup_thread_msg, backup_thread_running>>
intr == <<running, interrupt_pending>>
env == <<is_main, others, sender, child>>
vars == <<msgs, intr, domain_lock, env, main, bt>>

Main == "main"
Nobody == "nobody"

(* Threads of bt that sleep on a condition variable, once it is broadcast. *)
InterruptorBroadcast(at) == [b \in Backups |-> IF at[b] = "cond" THEN "reload" ELSE at[b]]

(* caml_plat_signal on domain_cond: one thread that sleeps there goes for  *)
(* domain_lock again.                                                      *)
SignalDomainCond ==
  IF \E b \in Backups : bt[b] = "domain_cond"
  THEN \E b \in Backups :
         bt[b] = "domain_cond" /\ bt' = [bt EXCEPT ![b] = "woken"]
  ELSE UNCHANGED bt

(* The main domain runs alone and has no backup thread until it spawns;    *)
(* any other slot starts free.                                             *)
Init ==
  /\ is_main \in BOOLEAN
  /\ main = IF is_main THEN "run" ELSE "off"
  /\ running = is_main
  /\ domain_lock = IF is_main THEN Main ELSE Nobody
  /\ others = ~is_main
  /\ backup_thread_msg = "INIT"
  /\ backup_thread_running = FALSE
  /\ interrupt_pending = FALSE
  /\ sender = "idle"
  /\ child = "none"
  /\ bt = [b \in Backups |-> "none"]

-----------------------------------------------------------------------------
(* The leader of a stop-the-world section, in another domain.  It          *)
(* interrupts a running domain, one section at a time (StwProtocol).       *)

Handling == main \in {"handler", "spawn_handler"} \/ \E b \in Backups : bt[b] = "handler"

SendInterrupt ==
  /\ running /\ others
  /\ sender = "idle" /\ ~interrupt_pending /\ ~Handling
  /\ interrupt_pending' = TRUE
  /\ sender' = "broadcast"
  /\ UNCHANGED <<msgs, running, domain_lock, is_main, others, child, main, bt>>

(* caml_plat_broadcast on interruptor.cond: the backup thread and the main *)
(* thread, in caml_domain_spawn, may both sleep there.                     *)
BroadcastInterruptor ==
  /\ main' = IF main = "spawn_cond" THEN "spawn" ELSE main
  /\ bt' = InterruptorBroadcast(bt)

Broadcast ==
  /\ sender = "broadcast"
  /\ sender' = "idle"
  /\ BroadcastInterruptor
  /\ UNCHANGED <<msgs, intr, domain_lock, is_main, others, child>>

-----------------------------------------------------------------------------
(* The main thread: handle_incoming at a poll point, or in the loop of     *)
(* caml_domain_spawn.                                                      *)

MainHandle ==
  /\ main = "run" \/ (main = "spawn" /\ child \in {"starting", "created"})
  /\ interrupt_pending
  /\ interrupt_pending' = FALSE
  /\ main' = IF main = "run" THEN "handler" ELSE "spawn_handler"
  /\ UNCHANGED <<msgs, running, domain_lock, env, bt>>

MainHandled ==
  /\ main \in {"handler", "spawn_handler"}
  /\ main' = IF main = "handler" THEN "run" ELSE "spawn"
  /\ UNCHANGED <<msgs, intr, domain_lock, env, bt>>

(* caml_enter_blocking_section_default: caml_bt_exit_travlang, then        *)
(* caml_release_domain_lock.                                               *)
caml_bt_exit_travlang ==
  /\ main = "run"
  /\ main' = "release"
  /\ IF backup_thread_running
     THEN backup_thread_msg' = "BLOCKING" /\ SignalDomainCond
     ELSE UNCHANGED <<backup_thread_msg, bt>>
  /\ UNCHANGED <<backup_thread_running, intr, domain_lock, env>>

caml_release_domain_lock ==
  /\ main = "release"
  /\ main' = "blocked"
  /\ domain_lock' = Nobody
  /\ UNCHANGED <<msgs, intr, env, bt>>

(* caml_leave_blocking_section_default: caml_bt_enter_travlang, then       *)
(* caml_acquire_domain_lock.                                               *)
caml_bt_enter_travlang ==
  /\ main = "blocked"
  /\ main' = "acquire"
  /\ backup_thread_msg' = IF backup_thread_running THEN "ENTERING" ELSE backup_thread_msg
  /\ UNCHANGED <<backup_thread_running, intr, domain_lock, env, bt>>

caml_acquire_domain_lock ==
  /\ main = "acquire"
  /\ domain_lock = Nobody
  /\ domain_lock' = Main
  /\ main' = "run"
  /\ UNCHANGED <<msgs, intr, env, bt>>

-----------------------------------------------------------------------------
(* caml_domain_spawn in the main thread, seen from its interruptor.        *)

Spawn ==
  /\ main = "run"
  /\ main' = "spawn"
  /\ child' = "starting"
  /\ UNCHANGED <<msgs, intr, domain_lock, is_main, others, sender, bt>>

(* The new domain takes part in sections before it answers.                *)
ChildCreated ==
  /\ child = "starting"
  /\ child' = "created"
  /\ others' = TRUE
  /\ UNCHANGED <<msgs, intr, domain_lock, is_main, sender, main, bt>>

(* The handshake of domain_thread_func.                                    *)
ChildAnswers ==
  /\ child \in {"starting", "created"}
  /\ child' = IF child = "created" THEN "started" ELSE "failed"
  /\ BroadcastInterruptor
  /\ UNCHANGED <<msgs, intr, domain_lock, is_main, others, sender>>

SpawnWait ==
  /\ main = "spawn"
  /\ child \in {"starting", "created"}
  /\ ~interrupt_pending
  /\ main' = "spawn_cond"
  /\ UNCHANGED <<msgs, intr, domain_lock, env, bt>>

(* Mutation: the parent does without a backup thread.                      *)
NoInstall == "run"

(* install_backup_thread once there is a child; a failed spawn raises.     *)
AfterSpawn == IF child = "started" THEN "install" ELSE "run"

SpawnReturn ==
  /\ main = "spawn"
  /\ child \in {"started", "failed"}
  /\ main' = AfterSpawn
  /\ child' = "none"
  /\ UNCHANGED <<msgs, intr, domain_lock, is_main, others, sender, bt>>

(* The last other domain terminates; the main domain is alone again.       *)
OthersLeave ==
  /\ is_main /\ others
  /\ child \in {"none", "starting", "failed"}
  /\ sender = "idle" /\ ~interrupt_pending /\ ~Handling
  /\ others' = FALSE
  /\ UNCHANGED <<msgs, intr, domain_lock, is_main, sender, child, main, bt>>

-----------------------------------------------------------------------------
(* install_backup_thread                                                   *)

InstallNothing ==
  /\ main = "install"
  /\ backup_thread_running
  /\ main' = "run"
  /\ UNCHANGED <<msgs, intr, domain_lock, env, bt>>

(* Mutation: the backup thread of the predecessor is not waited for.       *)
AnyMessage == TRUE

PredecessorGone == backup_thread_msg = "INIT"

(* Give the backup thread of the predecessor a chance to terminate.        *)
InstallWait ==
  /\ main = "install"
  /\ ~backup_thread_running /\ ~PredecessorGone
  /\ domain_lock' = Nobody
  /\ main' = "relax"
  /\ UNCHANGED <<msgs, intr, env, bt>>

InstallRelock ==
  /\ main = "relax"
  /\ domain_lock = Nobody
  /\ domain_lock' = Main
  /\ main' = "install"
  /\ UNCHANGED <<msgs, intr, env, bt>>

InstallCreate ==
  /\ main = "install"
  /\ ~backup_thread_running /\ PredecessorGone
  /\ backup_thread_msg' = "ENTERING"
  /\ backup_thread_running' = TRUE
  /\ \E b \in Backups : bt[b] = "none" /\ bt' = [bt EXCEPT ![b] = "reload"]
  /\ main' = "run"
  /\ UNCHANGED <<intr, domain_lock, env>>

(* pthread_create fails: in the main domain caml_domain_spawn raises       *)
(* Failure.  In a new domain nothing catches it and the program ends.      *)
InstallFails ==
  /\ CreateMayFail /\ is_main
  /\ main = "install"
  /\ ~backup_thread_running /\ PredecessorGone
  /\ backup_thread_msg' = "ENTERING"
  /\ main' = "run"
  /\ UNCHANGED <<backup_thread_running, intr, domain_lock, env, bt>>

-----------------------------------------------------------------------------
(* domain_create and domain_terminate                                      *)

(* A new domain takes the slot, once nobody holds domain_lock.             *)
Join ==
  /\ main = "off" /\ ~is_main
  /\ domain_lock = Nobody
  /\ domain_lock' = Main
  /\ running' = TRUE
  /\ main' = "install"
  /\ UNCHANGED <<msgs, interrupt_pending, env, bt>>

(* ~caml_incoming_interrupts_queued, under all_domains_lock, which the     *)
(* leader keeps while it sends.                                            *)
MayLeave == ~interrupt_pending /\ sender = "idle"

(* Mutation: the backup thread is left asleep on interruptor.cond.         *)
NobodyWoken == bt

(* The backup thread may sleep on interruptor.cond since an earlier        *)
(* blocking section.                                                       *)
LeaverBroadcast == InterruptorBroadcast(bt)

Leave ==
  /\ main = "run" /\ ~is_main
  /\ MayLeave
  /\ running' = FALSE
  /\ backup_thread_running' = FALSE
  /\ bt' = LeaverBroadcast
  /\ main' = "teardown"
  /\ UNCHANGED <<backup_thread_msg, interrupt_pending, domain_lock, env>>

(* The end of domain_terminate: the message and the signal, then the lock. *)
TerminateBackup ==
  /\ main = "teardown"
  /\ backup_thread_msg' = "TERMINATE"
  /\ SignalDomainCond
  /\ main' = "unlock"
  /\ UNCHANGED <<backup_thread_running, intr, domain_lock, env>>

UnlockSlot ==
  /\ main = "unlock"
  /\ domain_lock' = Nobody
  /\ main' = "off"
  /\ UNCHANGED <<msgs, intr, env, bt>>

-----------------------------------------------------------------------------
(* backup_thread_func                                                      *)

BtGoto(b, where) == bt' = [bt EXCEPT ![b] = where]

(* The loads of backup_thread_msg and the switch.                          *)
BtReload(b) ==
  /\ bt[b] = "reload"
  /\ backup_thread_msg # "INIT"
  /\ BtGoto(b, CASE backup_thread_msg = "BLOCKING" -> "blocking"
                 [] backup_thread_msg = "ENTERING" -> "entering"
                 [] backup_thread_msg = "TERMINATE" -> "exit")
  /\ UNCHANGED <<msgs, intr, domain_lock, env, main>>

BtPoll(b) ==
  /\ bt[b] = "blocking"
  /\ BtGoto(b, IF interrupt_pending THEN "trylock" ELSE "wait")
  /\ UNCHANGED <<msgs, intr, domain_lock, env, main>>

(* Mutation: the interrupt is handled without domain_lock.                 *)
NoLock(b) ==
  /\ bt[b] = "trylock"
  /\ BtGoto(b, "handle")
  /\ UNCHANGED <<msgs, intr, domain_lock, env, main>>

BtTryLock(b) ==
  /\ bt[b] = "trylock"
  /\ IF domain_lock = Nobody
     THEN domain_lock' = b /\ BtGoto(b, "handle")
     ELSE UNCHANGED domain_lock /\ BtGoto(b, "wait")
  /\ UNCHANGED <<msgs, intr, env, main>>

(* handle_incoming, which looks at interrupt_pending again.                *)
BtHandle(b) ==
  /\ bt[b] = "handle"
  /\ interrupt_pending' = FALSE
  /\ BtGoto(b, IF interrupt_pending THEN "handler" ELSE "release")
  /\ UNCHANGED <<msgs, running, domain_lock, env, main>>

BtHandled(b) ==
  /\ bt[b] \in {"handler", "release"}
  /\ domain_lock' = Nobody
  /\ BtGoto(b, "wait")
  /\ UNCHANGED <<msgs, intr, env, main>>

(* Mutation: the interrupts are not looked at again before the wait.       *)
StillBlocking == backup_thread_msg = "BLOCKING"

NothingToDo == backup_thread_msg = "BLOCKING" /\ ~interrupt_pending

(* Under interruptor.lock: wait on interruptor.cond if there is nothing to *)
(* do.                                                                     *)
BtWait(b) ==
  /\ bt[b] = "wait"
  /\ BtGoto(b, IF NothingToDo THEN "cond" ELSE "reload")
  /\ UNCHANGED <<msgs, intr, domain_lock, env, main>>

(* Under domain_lock: wait on domain_cond until the main thread blocks or  *)
(* terminates.                                                             *)
BtEntering(b) ==
  /\ bt[b] = "entering"
  /\ domain_lock = Nobody
  /\ BtGoto(b, IF backup_thread_msg = "ENTERING" THEN "domain_cond" ELSE "reload")
  /\ UNCHANGED <<msgs, intr, domain_lock, env, main>>

(* caml_plat_wait takes domain_lock again before it returns.               *)
BtWoken(b) ==
  /\ bt[b] = "woken"
  /\ domain_lock = Nobody
  /\ BtGoto(b, "reload")
  /\ UNCHANGED <<msgs, intr, domain_lock, env, main>>

BtExit(b) ==
  /\ bt[b] = "exit"
  /\ backup_thread_msg' = "INIT"
  /\ BtGoto(b, "none")
  /\ UNCHANGED <<backup_thread_running, intr, domain_lock, env, main>>

(* POSIX condition variables may wake a thread for no reason.              *)
SpuriousWakeup(b) ==
  /\ bt[b] \in {"cond", "domain_cond"}
  /\ BtGoto(b, IF bt[b] = "cond" THEN "reload" ELSE "woken")
  /\ UNCHANGED <<msgs, intr, domain_lock, env, main>>

-----------------------------------------------------------------------------
(* What the threads do by themselves.  A main thread in a blocking section *)
(* may stay there; when to spawn, block or terminate is the program's.     *)
MainStep ==
  \/ MainHandle \/ MainHandled \/ caml_release_domain_lock \/ caml_acquire_domain_lock
  \/ SpawnWait \/ SpawnReturn \/ InstallNothing \/ InstallWait \/ InstallRelock
  \/ InstallCreate \/ InstallFails \/ TerminateBackup \/ UnlockSlot

BackupStep(b) ==
  \/ BtReload(b) \/ BtPoll(b) \/ BtTryLock(b) \/ BtHandle(b) \/ BtHandled(b)
  \/ BtWait(b) \/ BtEntering(b) \/ BtWoken(b) \/ BtExit(b)

Next ==
  \/ MainStep \/ Broadcast \/ ChildAnswers
  \/ \E b \in Backups : BackupStep(b) \/ SpuriousWakeup(b)
  \/ SendInterrupt \/ ChildCreated \/ OthersLeave
  \/ caml_bt_exit_travlang \/ caml_bt_enter_travlang \/ Spawn \/ Join \/ Leave

(* A thread that waits for domain_lock while another one takes and         *)
(* releases it over and over gets it in the end, and mutator code that     *)
(* goes on for ever passes a poll point: SF.                               *)
Fairness ==
  /\ WF_vars(MainStep) /\ WF_vars(Broadcast) /\ WF_vars(ChildAnswers)
  /\ SF_vars(MainHandle)
  /\ SF_vars(caml_acquire_domain_lock) /\ SF_vars(InstallRelock)
  /\ \A b \in Backups :
       WF_vars(BackupStep(b)) /\ SF_vars(BtEntering(b)) /\ SF_vars(BtWoken(b))

Spec == Init /\ [][Next]_vars
FairSpec == Spec /\ Fairness

-----------------------------------------------------------------------------
TypeOK ==
  /\ backup_thread_msg \in {"INIT", "ENTERING", "BLOCKING", "TERMINATE"}
  /\ backup_thread_running \in BOOLEAN
  /\ running \in BOOLEAN /\ interrupt_pending \in BOOLEAN
  /\ domain_lock \in {Main, Nobody} \union Backups
  /\ is_main \in BOOLEAN /\ others \in BOOLEAN
  /\ sender \in {"idle", "broadcast"}
  /\ child \in {"none", "starting", "created", "started", "failed"}
  /\ main \in {"off", "run", "handler", "release", "blocked", "acquire", "spawn",
               "spawn_cond", "spawn_handler", "install", "relax", "teardown", "unlock"}
  /\ bt \in [Backups -> {"none", "reload", "blocking", "trylock", "handle", "handler",
                         "release", "wait", "cond", "entering", "domain_cond", "woken",
                         "exit"}]
  /\ domain_lock = Main <=> main \notin {"off", "blocked", "acquire", "relax"}
  /\ \A b \in Backups : domain_lock = b <=> bt[b] \in {"handle", "handler", "release"}

(* One thread at a time runs as the domain: a backup thread services an    *)
(* interrupt only while the main thread is in a blocking section, on its   *)
(* way out of it, or waits in install_backup_thread for the very same      *)
(* thread, its predecessor's, to end.                                      *)
OneThreadRuns ==
  \A b \in Backups : bt[b] = "handler" => main \in {"blocked", "acquire", "relax"}

(* A slot has one backup thread: a new domain installs its own when its    *)
(* predecessor's has seen BT_TERMINATE and nothing else.                   *)
OneBackupThread ==
  \A b, c \in Backups : bt[b] # "none" /\ bt[c] # "none" => b = c

(* The assertion of caml_bt_enter_travlang and caml_bt_exit_travlang: a    *)
(* domain that blocks while others run has a backup thread.                *)
BlockedHasBackup ==
  main \in {"release", "blocked", "acquire"} => ~others \/ backup_thread_running

(* The threads of a slot together: one runs as the domain, one backup      *)
(* thread is there, and no domain blocks without it unless its creation    *)
(* failed.                                                                 *)
BackupSound ==
  OneThreadRuns /\ OneBackupThread /\ (~CreateMayFail => BlockedHasBackup)

(* The identities of backup threads are not those of the other owners of   *)
(* domain_lock.                                                            *)
BackupsApart == Main \notin Backups /\ Nobody \notin Backups

(* Why.  BT_INIT means that there is no backup thread, and a backup thread *)
(* on its way out leaves BT_TERMINATE in place until it writes BT_INIT; an *)
(* interrupt is only ever pending for a domain that runs; and a domain     *)
(* without a backup thread that is not alone is on its way in or out, or   *)
(* waits for its first child, before install_backup_thread.                *)
BackupInv ==
  /\ OneBackupThread
  /\ \A b \in Backups : bt[b] = "exit" => backup_thread_msg = "TERMINATE"
  /\ backup_thread_msg = "INIT" => \A b \in Backups : bt[b] = "none"
  /\ backup_thread_msg \in {"INIT", "TERMINATE"} \/ main = "teardown" => ~backup_thread_running
  /\ running <=> main \notin {"off", "teardown", "unlock"}
  /\ interrupt_pending => running
  /\ main = "off" => \A b \in Backups : bt[b] # "handler"
  /\ child # "none" => main \in {"spawn", "spawn_cond", "spawn_handler"}
  /\ others /\ ~backup_thread_running /\ ~CreateMayFail =>
       main \in {"off", "teardown", "unlock", "install", "relax"} \/ child \in {"created", "started"}

(* The message a domain left in BT_TERMINATE is not overwritten before its *)
(* backup thread has seen it.                                              *)
TerminateSeen ==
  [][backup_thread_msg = "TERMINATE" => backup_thread_msg' \in {"TERMINATE", "INIT"}]_vars

(* What StwProtocol relies on, with its liveness: every interrupt of a     *)
(* running domain is taken, by one thread, and none is left to the next    *)
(* domain of the slot.                                                     *)
Service == INSTANCE Interruptor WITH handling <- Handling
ServiceSpec == Service!Spec

(* The same without the promise that the interrupt is taken in the end.    *)
ServiceSteps == Service!Init /\ [][Service!Next]_(Service!vars)

(* The backup thread of a domain that has terminated ends, and so a domain *)
(* that installs one gets it.                                              *)
InstallReturns == main = "install" ~> main = "run"

=============================================================================
