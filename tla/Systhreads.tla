----------------------------- MODULE Systhreads -----------------------------
(***************************************************************************)
(* The threads of one domain (otherlibs/systhreads: st_stubs.c,            *)
(* st_pthreads.h, st_posix.h) and the asynchronous actions they share      *)
(* (runtime/signals.c, and young_limit in runtime/domain.c): master lock,  *)
(* yield, blocking sections, thread creation, termination and join, C      *)
(* threads that register, the tick thread, the hook run when a domain      *)
(* stops, fork, signals and their masks.                                   *)
(*                                                                         *)
(* A critical section of the master lock's mutex is one step: its owner    *)
(* waits in it for the domain lock at most, that is for the backup thread  *)
(* (BackupThread), and nobody else could run travlang code meanwhile.      *)
(* A stack is named after the thread that owns it.                         *)
(***************************************************************************)
EXTENDS Naturals, Sequences, FiniteSets, SequencesExt

CONSTANTS
  Others,     \* threads that Thread.create may start
  CThreads,   \* threads created by C code, which may register
  NSig,       \* signals are 1 .. NSig - 1
  MaxSignals, \* bound: deliveries of a signal
  Jobs        \* what happens in a behaviour: a set does of operations, of which the
              \* main thread calls at most main and any other one other (bounds);
              \* and whether there are signals, and interrupts from other domains

VARIABLES
  th,         \* what each thread does: see Thread
  ring,       \* the circular list of caml_thread_struct, from some point on
  active,     \* Active_thread
  regs,       \* the owner of Caml_state->current_stack and of what goes with it
  busy, waiters, woken,  \* the master lock; woken: signalled on is_free, not yet running
  domain_lock, bt,       \* the owner of domain_lock; what the backup thread was told
  limit,      \* young_limit = UINTNAT_MAX
  action_pending,
  external,   \* requested_external_interrupt
  interrupt_pending,
  pending, recording,    \* caml_pending_signals; recorded, domains not yet interrupted
  delivered,  \* number of deliveries
  tick,       \* Tick_thread_running, Tick_thread_stop and the tick thread
  term,       \* threads whose termination event is triggered
  job,        \* the job of this behaviour
  forked      \* whether this is a child process of fork

lock == <<busy, waiters, woken, domain_lock, bt>>
state == <<ring, active, regs>>
notes == <<limit, action_pending, external, interrupt_pending>>
signals == <<pending, recording, delivered>>
vars == <<th, state, lock, notes, signals, tick, term, forked, job>>

Main == "main"
None == "none"
Threads == {Main} \cup Others \cup CThreads
Signals == 1 .. NSig - 1

(* A thread: where it is, where the C functions it is in return to, its    *)
(* signal mask, the signal under examination, the stack its info block     *)
(* holds, whether it started and did not look at signals since, the thread *)
(* it joins or creates, and the operations it has left.                    *)
Thread(pc, left) ==
  [pc |-> pc, k |-> <<>>, mask |-> {}, sig |-> 0, saved |-> None, new |-> FALSE, with |-> None, ops |-> left]

Goto(t, pc) == [th EXCEPT ![t].pc = pc]
Call(t, f, back) == [th EXCEPT ![t].pc = f, ![t].k = <<back>> \o @]
Return(t) == [th EXCEPT ![t].pc = Head(th[t].k), ![t].k = Tail(@)]
At(t, pc) == th[t].pc = pc
Spend(t) == th[t].ops > 0

(* caml_thread_new_info: the stack of the new thread.                      *)
NewInfo(t, r) == [r EXCEPT !.saved = t]

(* caml_thread_free_info, when the thread goes away.                       *)
FreeInfo == [Thread("gone", 0) EXCEPT !.mask = Signals]

(* caml_thread_initialize and caml_thread_domain_initialize_hook: the      *)
(* thread that runs is alone in the chain and has the lock.  Either other  *)
(* domains run and there is a backup thread, or the program never spawned. *)
Init ==
  /\ job \in Jobs
  /\ th = [t \in Threads |->
             IF t = Main THEN [Thread("ml", job.main) EXCEPT !.saved = Main]
             ELSE Thread(IF t \in CThreads THEN "outside" ELSE "unborn", job.other)]
  /\ ring = <<Main>> /\ active = Main /\ regs = Main
  /\ busy = TRUE /\ waiters = 0 /\ woken = {}
  /\ domain_lock = Main /\ bt = IF "interrupt" \in job.does THEN "idle" ELSE None
  /\ limit = FALSE /\ action_pending = FALSE
  /\ external = FALSE /\ interrupt_pending = FALSE
  /\ pending = {} /\ recording = {} /\ delivered = 0
  /\ tick = [running |-> FALSE, stop |-> FALSE, pc |-> None]
  /\ term = {} /\ forked = FALSE

-----------------------------------------------------------------------------
(* The list of threads, and the runtime state of the thread that runs.     *)

InRing(t) == t \in ToSet(ring)
Next_(t) == LET i == CHOOSE j \in DOMAIN ring : ring[j] = t
            IN  ring[(i % Len(ring)) + 1]

(* save_runtime_state. *)
Saved(t) == [th EXCEPT ![t].saved = regs]

(* restore_runtime_state. *)
Restore(t) == active' = t /\ regs' = th[t].saved

(* thread_alloc_and_add: after Active_thread. *)
Added(t) == LET i == CHOOSE j \in DOMAIN ring : ring[j] = active
            IN  InsertAt(ring, i + 1, t)

(* A mutant of RemoveAndFree: Active_thread stays.                         *)
NoRestore(t) == /\ ring' = SelectSeq(ring, LAMBDA u : u # t)
                /\ UNCHANGED <<active, regs>>

(* caml_thread_remove_and_free of a thread that is not the last one.       *)
RemoveAndFree(t) ==
  /\ ring' = SelectSeq(ring, LAMBDA u : u # t)
  /\ IF active = t THEN Restore(Next_(t)) ELSE UNCHANGED <<active, regs>>

-----------------------------------------------------------------------------
(* The master lock. *)

Asleep(t) == th[t].pc \in {"wait", "ywait"} /\ t \notin woken

(* pthread_cond_signal on is_free. *)
SignalFree ==
  IF \E t \in Threads : Asleep(t)
  THEN \E t \in Threads : Asleep(t) /\ woken' = woken \cup {t}
  ELSE UNCHANGED woken

(* A mutant of st_bt_lock_release: the backup thread is left idle.         *)
BackupLeftIdle == domain_lock' = None /\ UNCHANGED bt

(* st_bt_lock_release: the backup thread serves when nobody waits. *)
st_bt_lock_release ==
  /\ bt' = IF bt = "idle" /\ waiters = 0 THEN "blocking" ELSE bt
  /\ domain_lock' = None

st_masterlock_release ==
  /\ busy' = FALSE
  /\ st_bt_lock_release
  /\ SignalFree
  /\ UNCHANGED waiters

(* st_bt_lock_acquire. *)
st_bt_lock_acquire(t) ==
  /\ domain_lock = None
  /\ domain_lock' = t
  /\ bt' = IF bt = "blocking" THEN "idle" ELSE bt

(* st_masterlock_acquire, and the restore_runtime_state that follows it in *)
(* both callers that have an info block.                                   *)
AcquireBusy(t) ==
  /\ At(t, "acquire") /\ busy
  /\ waiters' = waiters + 1
  /\ th' = Goto(t, "wait")
  /\ UNCHANGED <<state, busy, woken, domain_lock, bt, notes, signals, tick, term, forked, job>>

AcquireWoken(t) ==
  /\ At(t, "wait") /\ t \in woken
  /\ waiters' = waiters - 1
  /\ woken' = woken \ {t}
  /\ th' = Goto(t, "acquire")
  /\ UNCHANGED <<state, busy, domain_lock, bt, notes, signals, tick, term, forked, job>>

AcquireFree(t) ==
  /\ At(t, "acquire") /\ ~busy
  /\ busy' = TRUE
  /\ st_bt_lock_acquire(t)
  /\ IF InRing(t) THEN Restore(t) ELSE UNCHANGED <<active, regs>>
  /\ th' = Return(t)
  /\ UNCHANGED <<ring, waiters, woken, notes, signals, tick, term, forked, job>>

(* caml_thread_yield; the first test is made without the mutex. *)
Yield(t) ==
  /\ At(t, "yield")
  /\ th' = IF waiters = 0 THEN Return(t) ELSE [Saved(t) EXCEPT ![t].pc = "yielding"]
  /\ UNCHANGED <<state, lock, notes, signals, tick, term, forked, job>>

(* The end of caml_thread_yield. *)
Resume(t) ==
  /\ Restore(t)
  /\ action_pending' = (action_pending \/ pending # {})

(* st_thread_yield. *)
StillWaited == waiters # 0
YieldNobody(t) ==
  /\ At(t, "yielding") /\ ~StillWaited
  /\ Resume(t)
  /\ th' = Return(t)
  /\ UNCHANGED <<ring, lock, limit, external, interrupt_pending, signals, tick, term, forked, job>>

YieldRelease(t) ==
  /\ At(t, "yielding") /\ StillWaited
  /\ busy' = FALSE
  /\ waiters' = waiters + 1
  /\ SignalFree
  /\ domain_lock' = None
  /\ th' = Goto(t, "ywait")
  /\ UNCHANGED <<state, bt, notes, signals, tick, term, forked, job>>

YieldSleep(t) ==
  /\ At(t, "ywait") /\ t \in woken /\ busy
  /\ woken' = woken \ {t}
  /\ UNCHANGED <<th, state, busy, waiters, domain_lock, bt, notes, signals, tick, term, forked, job>>

YieldAcquire(t) ==
  /\ At(t, "ywait") /\ t \in woken /\ ~busy
  /\ domain_lock = None
  /\ busy' = TRUE
  /\ waiters' = waiters - 1
  /\ woken' = woken \ {t}
  /\ domain_lock' = t
  /\ Resume(t)
  /\ th' = Return(t)
  /\ UNCHANGED <<ring, bt, limit, external, interrupt_pending, signals, tick, term, forked, job>>

-----------------------------------------------------------------------------
(* Asynchronous actions. *)

(* caml_handle_gc_interrupt: incoming interrupts, then caml_poll_gc_work,  *)
(* of which only the forced yield matters here (caml_thread_interrupt_hook)*)
(* and caml_reset_young_limit.                                             *)
HandleInterrupts(t) ==
  /\ At(t, "gc")
  /\ interrupt_pending' = FALSE
  /\ external' = FALSE
  /\ th' = IF external THEN Call(t, "yield", "reset") ELSE Goto(t, "reset")
  /\ UNCHANGED <<state, lock, limit, action_pending, signals, tick, term, forked, job>>

ResetLimit(t) ==
  /\ At(t, "reset")
  /\ limit' = FALSE
  /\ th' = [Goto(t, "reread") EXCEPT ![t].new = FALSE]
  /\ UNCHANGED <<state, lock, action_pending, external, interrupt_pending, signals, tick, term, forked, job>>

(* A mutant of Requests: action_pending is not set.                        *)
ActionsUnset == limit' = (limit \/ interrupt_pending \/ external) /\ UNCHANGED action_pending

(* What caml_reset_young_limit reads once the limit is reset.              *)
Requests ==
  /\ limit' = (limit \/ interrupt_pending \/ external)
  /\ action_pending' = TRUE

RereadRequests(t) ==
  /\ At(t, "reread")
  /\ Requests
  /\ th' = Return(t)
  /\ UNCHANGED <<state, lock, external, interrupt_pending, signals, tick, term, forked, job>>

(* caml_do_pending_actions_exn once the interrupts are handled. *)
ClearAction(t) ==
  /\ At(t, "clear")
  /\ action_pending' = FALSE
  /\ th' = Goto(t, "signals")
  /\ UNCHANGED <<state, lock, limit, external, interrupt_pending, signals, tick, term, forked, job>>

(* caml_process_pending_actions. *)
ProcessActions(t) ==
  /\ At(t, "actions")
  /\ th' = IF limit \/ action_pending THEN Call(t, "gc", "clear") ELSE Return(t)
  /\ UNCHANGED <<state, lock, notes, signals, tick, term, forked, job>>

(* caml_process_pending_signals_exn: each signal in turn, if it is pending *)
(* and the thread does not mask it.                                        *)
StartSignals(t) ==
  /\ At(t, "signals")
  /\ th' = IF pending = {} THEN Return(t)
           ELSE [th EXCEPT ![t].pc = "examine", ![t].sig = 1]
  /\ UNCHANGED <<state, lock, notes, signals, tick, term, forked, job>>

SkipSignal(t) ==
  /\ At(t, "examine")
  /\ th[t].sig \in Signals => th[t].sig \notin pending \ th[t].mask
  /\ th' = IF th[t].sig \in Signals /\ pending # {}
           THEN [th EXCEPT ![t].sig = @ + 1]
           ELSE [Return(t) EXCEPT ![t].sig = 0]
  /\ UNCHANGED <<state, lock, notes, signals, tick, term, forked, job>>

(* caml_execute_signal_exn: the handler runs with the signal masked. *)
ExecuteSignal(t) ==
  /\ At(t, "examine")
  /\ th[t].sig \in Signals \cap (pending \ th[t].mask)
  /\ pending' = pending \ {th[t].sig}
  /\ th' = [th EXCEPT ![t].pc = "handler", ![t].mask = @ \cup {th[t].sig}]
  /\ UNCHANGED <<state, lock, notes, recording, delivered, tick, term, forked, job>>

HandlerYields(t) ==
  /\ At(t, "handler") /\ Spend(t) /\ "yield" \in job.does
  /\ th' = [Call(t, "yield", "handler") EXCEPT ![t].ops = @ - 1]
  /\ UNCHANGED <<state, lock, notes, signals, tick, term, forked, job>>

HandlerReturns(t) ==
  /\ At(t, "handler")
  /\ th' = [th EXCEPT ![t].pc = "examine", ![t].mask = @ \ {th[t].sig}, ![t].sig = @ + 1]
  /\ UNCHANGED <<state, lock, notes, signals, tick, term, forked, job>>

(* The exception leaves the C functions the thread is in.  The handler     *)
(* does not raise in the stop hook of a domain, which would be fatal.      *)
Again(t) == Head(th[t].k) # "release"
HandlerRaises(t) ==
  /\ At(t, "handler") /\ "stop" \notin ToSet(th[t].k)
  /\ action_pending' = (action_pending \/ Again(t))
  /\ th' = [th EXCEPT ![t].pc = "return", ![t].k = <<>>, ![t].with = None,
                      ![t].mask = @ \ {th[t].sig}, ![t].sig = 0]
  /\ UNCHANGED <<state, lock, limit, external, interrupt_pending, signals, tick, term, forked, job>>

-----------------------------------------------------------------------------
(* Blocking sections. *)

(* caml_enter_blocking_section. *)
EnterSection(t) ==
  /\ At(t, "enter")
  /\ th' = IF limit \/ action_pending THEN [th EXCEPT ![t].pc = "gc", ![t].k = <<"signals", "release">> \o @]
           ELSE Goto(t, "release")
  /\ UNCHANGED <<state, lock, notes, signals, tick, term, forked, job>>

(* caml_thread_enter_blocking_section. *)
ReleaseRuntime(t) ==
  /\ At(t, "release")
  /\ st_masterlock_release
  /\ th' = [Saved(t) EXCEPT ![t].pc = "entered"]
  /\ UNCHANGED <<state, notes, signals, tick, term, forked, job>>

(* The domain lock is no longer held: another thread may run. *)
Entered(t) ==
  /\ At(t, "entered")
  /\ th' = IF limit THEN Call(t, "acquire", "enter") ELSE Return(t)
  /\ UNCHANGED <<state, lock, notes, signals, tick, term, forked, job>>

(* caml_leave_blocking_section: caml_thread_leave_blocking_section, then   *)
(* Left.                                                                   *)
Leave(t) == [th EXCEPT ![t].pc = "acquire", ![t].k = <<"left">> \o @, ![t].with = None]

SignalsLeft == action_pending' = (action_pending \/ pending # {})
Left(t) ==
  /\ At(t, "left")
  /\ SignalsLeft
  /\ th' = [Return(t) EXCEPT ![t].new = FALSE]
  /\ UNCHANGED <<state, lock, limit, external, interrupt_pending, signals, tick, term, forked, job>>

-----------------------------------------------------------------------------
(* travlang code, and the primitives it calls. *)

(* caml_alloc_small_dispatch from travlang code, whose allocation failed   *)
(* because of the limit.                                                   *)
Poll(t) ==
  /\ At(t, "ml") /\ limit
  /\ th' = [th EXCEPT ![t].pc = "gc", ![t].k = <<"clear", "return">>]
  /\ UNCHANGED <<state, lock, notes, signals, tick, term, forked, job>>

(* caml_update_young_limit_after_c_call. *)
ReturnToCaml(t) ==
  /\ At(t, "return")
  /\ limit' = (limit \/ action_pending)
  /\ th' = Goto(t, "ml")
  /\ UNCHANGED <<state, lock, action_pending, external, interrupt_pending, signals, tick, term, forked, job>>

(* A primitive op of thread t, which starts as function f and goes on with *)
(* the functions of k; u is the thread it is about.                        *)
Primitive(t, op, f, k, u) ==
  /\ At(t, "ml") /\ Spend(t) /\ op \in job.does
  /\ th' = [th EXCEPT ![t].pc = f, ![t].k = k, ![t].with = u, ![t].ops = @ - 1]

CallYield(t) ==
  /\ Primitive(t, "yield", "yield", <<"return">>, None)
  /\ UNCHANGED <<state, lock, notes, signals, tick, term, forked, job>>

(* A call that blocks, and whose blocking section ends at any time. *)
CallBlock(t) ==
  /\ Primitive(t, "block", "enter", <<"blocked", "return">>, None)
  /\ UNCHANGED <<state, lock, notes, signals, tick, term, forked, job>>

Blocked(t) ==
  /\ At(t, "blocked")
  /\ th' = Leave(t)
  /\ UNCHANGED <<state, lock, notes, signals, tick, term, forked, job>>

(* caml_threadstatus_wait: st_event_wait in a blocking section.            *)
WaitFor == <<"joining", "return">>

(* caml_thread_join. *)
CallJoin(t) ==
  /\ \E u \in Others \ {t} :
       /\ th[u].pc # "unborn"
       /\ Primitive(t, "join", "enter", WaitFor, u)
  /\ UNCHANGED <<state, lock, notes, signals, tick, term, forked, job>>

Joining(t) ==
  /\ At(t, "joining") /\ th[t].with \in term
  /\ th' = Leave(t)
  /\ UNCHANGED <<state, lock, notes, signals, tick, term, forked, job>>

(* caml_thread_sigmask: the mask changes in a blocking section, and the    *)
(* handlers of what was unmasked run after it.                             *)
CallSigmask(t) ==
  /\ Primitive(t, "sigmask", "enter", <<"masking", "actions", "return">>, None)
  /\ UNCHANGED <<state, lock, notes, signals, tick, term, forked, job>>

Masking(t) ==
  /\ At(t, "masking")
  /\ \E s \in Signals :
       th' = [Leave(t) EXCEPT ![t].mask = IF s \in @ THEN @ \ {s} ELSE @ \cup {s}]
  /\ UNCHANGED <<state, lock, notes, signals, tick, term, forked, job>>

(* create_tick_thread. *)
TickCreated == IF tick.running THEN tick ELSE [tick EXCEPT !.running = TRUE, !.pc = "test"]

(* caml_thread_new: the info block is in the list before its descriptor is *)
(* allocated.                                                              *)
CallCreate(t) ==
  /\ \E u \in Others :
       /\ At(u, "unborn")
       /\ \A v \in Threads : th[v].with # u
       /\ At(t, "ml") /\ "create" \in job.does
       /\ th' = [th EXCEPT ![t].pc = "descriptor", ![t].k = <<"create">>, ![t].with = u,
                           ![u] = NewInfo(u, @)]
       /\ ring' = Added(u)
  /\ tick' = TickCreated
  /\ UNCHANGED <<active, regs, lock, notes, signals, term, forked, job>>

(* caml_thread_new_descriptor, allocating from C code: the interrupts are  *)
(* handled, and this may yield; the delayable actions are not.             *)
NewDescriptor(t) ==
  /\ At(t, "descriptor")
  /\ th' = IF limit THEN Goto(t, "gc") ELSE Return(t)
  /\ UNCHANGED <<state, lock, notes, signals, tick, term, forked, job>>

(* A new thread has the signal mask of its creator. *)
StartThread(t) ==
  /\ At(t, "create")
  /\ th' = [th EXCEPT ![t].pc = "return", ![t].with = None,
                      ![th[t].with].pc = "acquire", ![th[t].with].k = <<"return">>,
                      ![th[t].with].mask = th[t].mask, ![th[t].with].new = TRUE]
  /\ UNCHANGED <<state, lock, notes, signals, tick, term, forked, job>>

StartFails(t) ==
  /\ At(t, "create")
  /\ RemoveAndFree(th[t].with)
  /\ th' = [th EXCEPT ![t].pc = "return", ![t].with = None,
                      ![th[t].with] = Thread("unborn", job.other)]
  /\ UNCHANGED <<lock, notes, signals, tick, term, forked, job>>

(* thread_detach_from_runtime, after the closure of the thread returned or *)
(* when a C thread unregisters.                                            *)
Detach(t) ==
  /\ RemoveAndFree(t)
  /\ st_masterlock_release
  /\ term' = term \cup {t}
  /\ th' = [th EXCEPT ![t] = FreeInfo]
  /\ UNCHANGED <<notes, signals, tick, forked, job>>

Exit(t) ==
  /\ At(t, "ml") /\ t \in Others
  /\ Detach(t)

-----------------------------------------------------------------------------
(* Threads created by C code. *)

(* caml_c_thread_register. *)
Register(t) ==
  /\ At(t, "outside") /\ Spend(t) /\ "register" \in job.does
  /\ th' = [th EXCEPT ![t].pc = "acquire", ![t].k = <<"register">>, ![t].ops = @ - 1]
  /\ UNCHANGED <<state, lock, notes, signals, tick, term, forked, job>>

Registered(t) ==
  /\ At(t, "register")
  /\ ring' = Added(t)
  /\ active' = t /\ regs' = t
  /\ tick' = TickCreated
  /\ th' = [th EXCEPT ![t].pc = "descriptor", ![t].k = <<"out">>]
  /\ UNCHANGED <<lock, notes, signals, term, forked, job>>

RegisterFails(t) ==
  /\ At(t, "register")
  /\ st_masterlock_release
  /\ th' = Goto(t, "outside")
  /\ UNCHANGED <<state, notes, signals, tick, term, forked, job>>

(* caml_enter_blocking_section_no_pending. *)
LeaveToC(t) ==
  /\ At(t, "out")
  /\ st_masterlock_release
  /\ th' = [Saved(t) EXCEPT ![t].pc = "c"]
  /\ UNCHANGED <<state, notes, signals, tick, term, forked, job>>

(* The C thread calls back travlang code ... *)
CallBack(t) ==
  /\ At(t, "c") /\ Spend(t)
  /\ th' = [th EXCEPT ![t].pc = "acquire", ![t].k = <<"left", "return">>]
  /\ UNCHANGED <<state, lock, notes, signals, tick, term, forked, job>>

(* ... which returns to it, ... *)
BackToC(t) ==
  /\ At(t, "ml") /\ t \in CThreads
  /\ th' = [th EXCEPT ![t].pc = "enter", ![t].k = <<"c">>, ![t].ops = 0]
  /\ UNCHANGED <<state, lock, notes, signals, tick, term, forked, job>>

(* ... or caml_c_thread_unregister. *)
Unregister(t) ==
  /\ At(t, "c")
  /\ th' = [th EXCEPT ![t].pc = "acquire", ![t].k = <<"left", "unregister">>]
  /\ UNCHANGED <<state, lock, notes, signals, tick, term, forked, job>>

Unregistered(t) ==
  /\ At(t, "unregister")
  /\ Detach(t)

-----------------------------------------------------------------------------
(* The end of the domain, and fork. *)

(* caml_thread_domain_stop_hook, of a domain that is not alone: it joins   *)
(* the thread next to it until there is none.                              *)
StopDomain(t) ==
  /\ At(t, "ml") /\ t = Main /\ bt # None /\ "stop" \in job.does
  /\ th' = Goto(t, "stop")
  /\ UNCHANGED <<state, lock, notes, signals, tick, term, forked, job>>

StopJoins(t) ==
  /\ At(t, "stop") /\ Next_(active) # active
  /\ th' = [th EXCEPT ![t].pc = "enter", ![t].k = <<"joining", "stop">>, ![t].with = Next_(active)]
  /\ UNCHANGED <<state, lock, notes, signals, tick, term, forked, job>>

(* reset_active and caml_thread_cleanup, which joins the tick thread. *)
ResetActive(t) ==
  /\ At(t, "stop") /\ Next_(active) = active
  /\ term' = term \cup {t}
  /\ active' = None
  /\ tick' = [tick EXCEPT !.stop = tick.running]
  /\ th' = Goto(t, "cleanup")
  /\ UNCHANGED <<ring, regs, lock, notes, signals, forked, job>>

Cleanup(t) ==
  /\ At(t, "cleanup") /\ (tick.running => tick.pc = None)
  /\ tick' = [tick EXCEPT !.stop = FALSE, !.running = FALSE]
  /\ th' = Goto(t, "stopped")
  /\ UNCHANGED <<state, lock, notes, signals, term, forked, job>>

(* caml_unix_fork in the child: caml_thread_reinitialize keeps the thread  *)
(* that called it, which has the locks; no other thread exists.            *)
Fork(t) ==
  /\ At(t, "ml") /\ bt = None /\ ~forked /\ Spend(t) /\ "fork" \in job.does
  /\ forked' = TRUE
  /\ ring' = <<t>>
  /\ busy' = TRUE /\ waiters' = 0 /\ woken' = {} /\ domain_lock' = t
  /\ th' = [u \in Threads |->
              IF u = t THEN [th[t] EXCEPT !.ops = @ - 1]
              ELSE IF u \in Others /\ th[u].pc = "unborn" THEN th[u]
              ELSE FreeInfo]
  /\ tick' = [tick EXCEPT !.pc = None]
  /\ recording' = {}
  /\ UNCHANGED <<active, regs, bt, notes, pending, delivered, term, job>>

-----------------------------------------------------------------------------
(* What happens around the threads. *)

(* caml_thread_tick. *)
Tick ==
  \/ /\ tick.pc = "test"
     /\ tick' = [tick EXCEPT !.pc = IF tick.stop THEN None ELSE "interrupt"]
     /\ external' = (external \/ ~tick.stop)
     /\ UNCHANGED <<th, state, lock, limit, action_pending, interrupt_pending, signals, term, forked, job>>
  \/ /\ tick.pc = "interrupt"
     /\ tick' = [tick EXCEPT !.pc = "test"]
     /\ limit' = TRUE
     /\ UNCHANGED <<th, state, lock, action_pending, external, interrupt_pending, signals, term, forked, job>>

(* caml_interrupt_all_signal_safe. *)
RecordInterrupts == recording' = {} /\ limit' = TRUE

(* caml_record_signal, in a thread that does not mask the signal. *)
Record ==
  \/ /\ delivered < MaxSignals /\ "signal" \in job.does
     /\ \E s \in Signals :
          /\ \E t \in Threads : th[t].pc \notin {"unborn", "gone"} /\ s \notin th[t].mask
          /\ pending' = pending \cup {s}
          /\ recording' = recording \cup {s}
     /\ delivered' = delivered + 1
     /\ UNCHANGED <<th, state, lock, notes, tick, term, forked, job>>
  \/ /\ recording # {}
     /\ RecordInterrupts
     /\ UNCHANGED <<th, state, lock, action_pending, external, interrupt_pending,
                    pending, delivered, tick, term, forked, job>>

(* The leader of a stop-the-world section, in another domain. *)
SendInterrupt ==
  /\ bt # None /\ ~interrupt_pending /\ active # None /\ "interrupt" \in job.does
  /\ interrupt_pending' = TRUE
  /\ limit' = TRUE
  /\ UNCHANGED <<th, state, lock, action_pending, external, signals, tick, term, forked, job>>

(* The backup thread takes domain_lock and handles the interrupt, as the   *)
(* threads do; caml_thread_interrupt_hook does nothing there.              *)
BackupLocks ==
  /\ bt = "blocking" /\ interrupt_pending /\ domain_lock = None
  /\ domain_lock' = "backup"
  /\ UNCHANGED <<th, state, busy, waiters, woken, bt, notes, signals, tick, term, forked, job>>

BackupHandles ==
  /\ domain_lock = "backup"
  /\ domain_lock' = None
  /\ interrupt_pending' = FALSE
  /\ limit' = external
  /\ action_pending' = TRUE
  /\ UNCHANGED <<th, state, busy, waiters, woken, bt, external, signals, tick, term, forked, job>>

(* The steps of a thread that it takes by itself. *)
Step(t) ==
  \/ AcquireBusy(t) \/ AcquireWoken(t) \/ AcquireFree(t)
  \/ Yield(t) \/ YieldNobody(t) \/ YieldRelease(t) \/ YieldSleep(t) \/ YieldAcquire(t)
  \/ HandleInterrupts(t) \/ ResetLimit(t) \/ RereadRequests(t)
  \/ ClearAction(t) \/ ProcessActions(t)
  \/ StartSignals(t) \/ SkipSignal(t) \/ ExecuteSignal(t) \/ HandlerReturns(t) \/ HandlerRaises(t)
  \/ EnterSection(t) \/ ReleaseRuntime(t) \/ Entered(t)
  \/ Left(t) \/ Poll(t) \/ ReturnToCaml(t)
  \/ Blocked(t) \/ Joining(t) \/ Masking(t)
  \/ NewDescriptor(t) \/ StartThread(t) \/ StartFails(t)
  \/ Registered(t) \/ RegisterFails(t) \/ LeaveToC(t) \/ Unregister(t) \/ Unregistered(t)
  \/ StopJoins(t) \/ ResetActive(t) \/ Cleanup(t)

(* What travlang code and C code choose to call. *)
Choose(t) ==
  \/ HandlerYields(t) \/ CallYield(t) \/ CallBlock(t) \/ CallJoin(t) \/ CallSigmask(t)
  \/ CallCreate(t) \/ Exit(t) \/ Register(t) \/ CallBack(t) \/ BackToC(t)
  \/ StopDomain(t) \/ Fork(t)

Next ==
  \/ \E t \in Threads : Step(t) \/ Choose(t)
  \/ Tick \/ Record \/ SendInterrupt \/ BackupLocks \/ BackupHandles

Spec == Init /\ [][Next]_vars

(* Every thread that can run runs, and so do the tick thread and the       *)
(* backup thread; nothing is assumed of what the program calls.            *)
Fairness ==
  /\ \A t \in Threads : WF_vars(Step(t))
  /\ WF_vars(Tick) /\ WF_vars(BackupLocks) /\ WF_vars(BackupHandles) /\ WF_vars(recording # {} /\ Record)

FairSpec == Spec /\ Fairness

-----------------------------------------------------------------------------
Off == {"unborn", "outside", "gone", "acquire", "wait", "ywait", "entered", "blocked",
        "joining", "masking", "c"}

(* Threads that hold the master lock. *)
Running == {t \in Threads : th[t].pc \notin Off}

(* One thread at a time runs travlang code or C code that may touch the    *)
(* heap; it has the master lock and the domain lock, and the domain state  *)
(* is its own (the invariant stated of Active_thread in st_stubs.c).       *)
OneRuns ==
  /\ Cardinality(Running) = IF busy THEN 1 ELSE 0
  /\ \A t \in Running : domain_lock = t
  /\ \A t \in Running :
       th[t].pc \notin {"register", "cleanup", "stopped"} => active = t /\ regs = t

(* The stacks a collection scans: the current one, and that of every       *)
(* thread of the list but Active_thread (caml_thread_scan_roots).          *)
ScannedStacks == {regs} \cup {th[t].saved : t \in ToSet(ring) \ {active}}

(* Whenever a collection may run, in the thread that runs or in the backup *)
(* thread, caml_thread_scan_roots and the scan of the current stack reach  *)
(* the stack of every thread of the domain, and no stack that was freed.   *)
AllScanned ==
  active # None /\ (domain_lock = "backup" \/ \E t \in Running : th[t].pc # "register") =>
    ScannedStacks = ToSet(ring)

(* The two together: what the code relies on when it collects. *)
RuntimeOwned == OneRuns /\ AllScanned

(* When no thread has the master lock, either one is on its way to it or   *)
(* the backup thread was told to serve interrupts.                         *)
HandedOver ==
  busy \/ bt # "idle" \/ woken # {} \/ \E t \in Threads : th[t].pc = "acquire"

(* A thread that runs travlang code notices at its next poll a signal that *)
(* it does not mask, whatever other threads did with the signal, with      *)
(* action_pending and with the limit meanwhile.                            *)
Noticed(t) == At(t, "ml") /\ (pending \ recording) \ th[t].mask # {} => limit
SignalNoticed == \A t \in Threads : ~th[t].new => Noticed(t)

(* A thread that just started does too.                                    *)
StartNotices == \A t \in Threads : Noticed(t)

(* A thread does not keep the master lock while others wait for it and     *)
(* there is a tick thread.                                                 *)
Contended(t) == t \in Running /\ waiters > 0
Preempted == \A t \in Threads : Contended(t) /\ tick.pc # None ~> (~Contended(t) \/ tick.pc = None)

(* The same, for as long as the runtime takes the tick thread to exist.    *)
TickWorks == \A t \in Threads : Contended(t) /\ tick.running ~> (~Contended(t) \/ ~tick.running)
=============================================================================
