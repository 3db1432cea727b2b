---------------------------- MODULE StwProtocol ----------------------------
(***************************************************************************)
(* Stop-the-world (STW) sections, and the domains that enter and leave the *)
(* set of their participants: runtime/domain.c.                            *)
(*                                                                         *)
(* A domain slot (dom_internal) is a number of Slots; slot 1 is the main   *)
(* domain.  The threads are one per running domain, and one per spawn that *)
(* is under way: child[p] is the thread that the domain p has created and  *)
(* that has no slot yet.  A domain services its interrupts at poll points, *)
(* in the loops that wait, or, in a blocking section, through its backup   *)
(* thread (BackupThread): here that is the one action HandleIncoming.      *)
(*                                                                         *)
(* pc[s] is what the thread of s does with respect to STW sections,        *)
(* ctx[s] what it was doing otherwise and goes back to:                    *)
(*   "run"    mutator code, or any other code of the runtime               *)
(*   "spawn"  the wait of caml_domain_spawn for the child thread           *)
(*   "term"   the loop of domain_terminate                                 *)
(* The callback of a section is one state, "callback"; GlobalBarrier is    *)
(* what the domains may do with one another while they are in it.          *)
(***************************************************************************)
EXTENDS Integers, FiniteSets

CONSTANTS
  Max_domains,   \* the number of slots
  InitMayFail    \* whether domain_create may fail once it has domain_lock

ASSUME MaxDomainsAssumption == Max_domains \in Nat \ {0}
ASSUME InitMayFailAssumption == InitMayFail \in BOOLEAN

Slots == 1 .. Max_domains
NoSlot == 0

VARIABLES
  all_domains_lock,              \* its owner: Domain(s), Child(p) or Unlocked
  stw_leader,                    \* a slot, or NoSlot
  domains_still_running,         \* stw_request.domains_still_running
  num_domains_still_processing,  \* stw_request.num_domains_still_processing
  num_domains,                   \* stw_request.num_domains
  participating,                 \* stw_request.participating
  participating_domains,         \* stw_domains.participating_domains
  domains,                       \* stw_domains.domains
  running,                       \* interruptor.running
  interrupt_pending,             \* interruptor.interrupt_pending
  interrupt_word,                \* whether interruptor.interrupt_word is set
  domain_lock,                   \* whether dom_internal.domain_lock is held
  teardown,                      \* whether a thread that has left the slot still uses its state
  caml_num_domains_running,
  pc, ctx,                       \* the domain threads
  i,                             \* the counter of the leader's interrupt loop
  parent, status, child,         \* spawns under way: domain_startup_params
  section, sync, ran             \* history: the participants of the current section,
                                 \* whether it is synchronous, who has run its callback

stwVars == <<stw_leader, domains_still_running, num_domains_still_processing,
             num_domains, participating, i, section, sync, ran>>
slotVars == <<participating_domains, domains, running, interrupt_word,
              domain_lock, teardown, caml_num_domains_running>>
spawnVars == <<parent, status, child>>
vars == <<all_domains_lock, stwVars, slotVars, interrupt_pending, pc, ctx, spawnVars>>

(* The owners of all_domains_lock.                                         *)
Unlocked == 0
Domain(s) == s
Child(p) == -p

(* The part of the array that takes part in STW sections.                  *)
Participants == {domains[k] : k \in 1 .. participating_domains}

Goto(s, where) == pc' = [pc EXCEPT ![s] = where]

(* caml_plat_broadcast on interruptor.cond of s: the thread of s sleeps on *)
(* it only in caml_domain_spawn.                                           *)
Woken(at, s) == [at EXCEPT ![s] = IF @ = "sleep" THEN "idle" ELSE @]

Init ==
  /\ all_domains_lock = Unlocked
  /\ stw_leader = NoSlot
  /\ domains_still_running = 0
  /\ num_domains_still_processing = 0
  /\ num_domains = 0
  /\ participating = [k \in Slots |-> NoSlot]
  /\ participating_domains = 1
  /\ domains = [k \in Slots |-> k]
  /\ running = [s \in Slots |-> s = 1]
  /\ interrupt_pending = [s \in Slots |-> FALSE]
  /\ interrupt_word = [s \in Slots |-> s = 1]
  /\ domain_lock = [s \in Slots |-> s = 1]
  /\ teardown = [s \in Slots |-> FALSE]
  /\ caml_num_domains_running = 1
  /\ pc = [s \in Slots |-> IF s = 1 THEN "idle" ELSE "off"]
  /\ ctx = [s \in Slots |-> "run"]
  /\ i = 1
  /\ parent = [s \in Slots |-> NoSlot]
  /\ status = [s \in Slots |-> "none"]
  /\ child = [s \in Slots |-> "none"]
  /\ section = {}
  /\ sync = 0
  /\ ran = {}

-----------------------------------------------------------------------------
(* caml_try_run_on_all_domains_with_spin_work                              *)

(* A domain asks for a section from mutator code (a full minor heap, a     *)
(* major slice), from the loop of domain_terminate, or from the            *)
(* caml_poll_gc_work that ends stw_handler.  The read of stw_leader        *)
(* without the lock.                                                       *)
TryRun(s) ==
  /\ \/ pc[s] = "idle" /\ ctx[s] \in {"run", "term"}
     \/ pc[s] = "poll"
  /\ Goto(s, IF stw_leader # NoSlot THEN "giveup" ELSE "trylock")
  /\ UNCHANGED <<all_domains_lock, stwVars, slotVars, interrupt_pending, ctx, spawnVars>>

TryLock(s) ==
  /\ pc[s] = "trylock"
  /\ IF all_domains_lock = Unlocked
     THEN all_domains_lock' = Domain(s) /\ Goto(s, "claim")
     ELSE UNCHANGED all_domains_lock /\ Goto(s, "giveup")
  /\ UNCHANGED <<stwVars, slotVars, interrupt_pending, ctx, spawnVars>>

(* Mutation: the lock is taken to be enough, stw_leader is not read again. *)
LockIsEnough == TRUE

(* The second read of stw_leader, under the lock.                          *)
MayClaim == stw_leader = NoSlot

(* Another section has begun since the first read.                         *)
LostClaim(s) ==
  /\ pc[s] = "claim"
  /\ ~MayClaim
  /\ all_domains_lock' = Unlocked
  /\ Goto(s, "giveup")
  /\ UNCHANGED <<stwVars, slotVars, interrupt_pending, ctx, spawnVars>>

(* How many domains are going to run the callback.                         *)
AllWillProcess == participating_domains

(* The leader sets stw_request up, under the lock.                         *)
Claim(s) ==
  /\ pc[s] = "claim"
  /\ MayClaim
  /\ stw_leader' = s
  /\ sync' \in {0, 1}
  /\ domains_still_running' = sync'
  /\ num_domains' = participating_domains
  /\ num_domains_still_processing' = AllWillProcess
  /\ section' = Participants
  /\ ran' = {}
  /\ i' = 1
  /\ Goto(s, "interrupt")
  /\ UNCHANGED <<all_domains_lock, participating, slotVars, interrupt_pending, ctx, spawnVars>>

(* The flag, then the broadcast for a target that sleeps.                  *)
caml_send_interrupt(t) ==
  /\ interrupt_pending' = [interrupt_pending EXCEPT ![t] = TRUE]
  /\ pc' = Woken(pc, t)

(* Mutation: the loop goes on from the leader's own slot without advancing. *)
StuckOnLeader == IF domains[i] = stw_leader THEN i ELSE i + 1

NextTarget == i + 1

(* One iteration of the loop that interrupts all domains.                  *)
SendInterrupt(s) ==
  /\ pc[s] = "interrupt"
  /\ i <= participating_domains
  /\ participating' = [participating EXCEPT ![i] = domains[i]]
  /\ IF domains[i] # s
     THEN caml_send_interrupt(domains[i])
     ELSE UNCHANGED <<interrupt_pending, pc>>
  /\ i' = NextTarget
  /\ UNCHANGED <<all_domains_lock, stw_leader, domains_still_running,
                 num_domains_still_processing, num_domains, section, sync, ran,
                 slotVars, ctx, spawnVars>>

InterruptsSent(s) ==
  /\ pc[s] = "interrupt"
  /\ i > participating_domains
  /\ all_domains_lock' = Unlocked
  /\ Goto(s, "await")
  /\ UNCHANGED <<stwVars, slotVars, interrupt_pending, ctx, spawnVars>>

(* Mutation: the leader does not wait for its last participant.            *)
AllButLastServiced == \A k \in 1 .. num_domains - 1 : ~interrupt_pending[participating[k]]

(* The loop of caml_wait_interrupt_serviced.  Nothing raises a flag again  *)
(* while the leader waits, so the loop ends when all of them are down.     *)
AllServiced == \A k \in 1 .. num_domains : ~interrupt_pending[participating[k]]

(* The release of the enter barrier.                                       *)
InterruptsServiced(s) ==
  /\ pc[s] = "await"
  /\ AllServiced
  /\ domains_still_running' = 0
  /\ Goto(s, "callback")
  /\ UNCHANGED <<all_domains_lock, stw_leader, num_domains_still_processing, num_domains,
                 participating, i, section, sync, ran, slotVars, interrupt_pending,
                 ctx, spawnVars>>

(* Where caml_try_run_on_all_domains_with_spin_work returns to.  In        *)
(* caml_domain_spawn only the caml_poll_gc_work of stw_handler calls it.   *)
Caller(s) == IF ctx[s] = "spawn" THEN "poll" ELSE "idle"

(* caml_handle_incoming_interrupts before returning 0.                     *)
GiveUp(s) ==
  /\ pc[s] = "giveup"
  /\ interrupt_pending' = [interrupt_pending EXCEPT ![s] = FALSE]
  /\ Goto(s, IF interrupt_pending[s] THEN "spin" ELSE Caller(s))
  /\ UNCHANGED <<all_domains_lock, stwVars, slotVars, ctx, spawnVars>>

-----------------------------------------------------------------------------
(* handle_incoming, stw_handler and the end of a section                   *)

HandleIncoming(s) ==
  /\ pc[s] = "idle"
  /\ interrupt_pending[s]
  /\ interrupt_pending' = [interrupt_pending EXCEPT ![s] = FALSE]
  /\ Goto(s, "spin")
  /\ UNCHANGED <<all_domains_lock, stwVars, slotVars, ctx, spawnVars>>

(* The enter barrier of stw_handler, which an asynchronous section leaves  *)
(* open from the start.                                                    *)
EnterBarrierOpen == domains_still_running = 0

EnterBarrier(s) ==
  /\ pc[s] = "spin"
  /\ EnterBarrierOpen
  /\ Goto(s, "callback")
  /\ UNCHANGED <<all_domains_lock, stwVars, slotVars, interrupt_pending, ctx, spawnVars>>

(* stw_handler ends with caml_poll_gc_work, the leader's own run of the    *)
(* callback does not.                                                      *)
AfterSection(s) == IF stw_leader = s THEN Caller(s) ELSE "poll"

am_last == num_domains_still_processing = 1

(* The callback returns, and the atomic_fetch_add of                       *)
(* decrement_stw_domains_still_processing.                                 *)
CallbackDone(s) ==
  /\ pc[s] = "callback"
  /\ num_domains_still_processing' = num_domains_still_processing - 1
  /\ ran' = ran \union {s}
  /\ Goto(s, IF am_last THEN "last" ELSE AfterSection(s))
  /\ UNCHANGED <<all_domains_lock, stw_leader, domains_still_running, num_domains,
                 participating, i, section, sync, slotVars, interrupt_pending, ctx,
                 spawnVars>>

(* caml_plat_broadcast on all_domains_cond.                                *)
ChildrenWoken == [p \in Slots |-> IF child[p] = "sleep" THEN "start" ELSE child[p]]

(* am_last: clear the leader, under the lock.                              *)
ClearLeader(s) ==
  /\ pc[s] = "last"
  /\ all_domains_lock = Unlocked
  /\ stw_leader' = NoSlot
  /\ child' = ChildrenWoken
  /\ Goto(s, AfterSection(s))
  /\ UNCHANGED <<all_domains_lock, domains_still_running, num_domains_still_processing,
                 num_domains, participating, i, section, sync, ran, slotVars,
                 interrupt_pending, ctx, parent, status>>

(* Mutation: in caml_domain_spawn, the poll starts over.                   *)
PollAgain(s) ==
  /\ pc[s] = "poll"
  /\ Goto(s, Caller(s))
  /\ UNCHANGED <<all_domains_lock, stwVars, slotVars, interrupt_pending, ctx, spawnVars>>

(* caml_poll_gc_work without a further section.                            *)
PollDone(s) ==
  /\ pc[s] = "poll"
  /\ Goto(s, "idle")
  /\ UNCHANGED <<all_domains_lock, stwVars, slotVars, interrupt_pending, ctx, spawnVars>>

-----------------------------------------------------------------------------
(* caml_domain_spawn, domain_thread_func and domain_create                 *)

(* A failure of pthread_create raises at once and changes nothing here.    *)
Spawn(p) ==
  /\ pc[p] = "idle" /\ ctx[p] = "run"
  /\ ctx' = [ctx EXCEPT ![p] = "spawn"]
  /\ status' = [status EXCEPT ![p] = "starting"]
  /\ child' = [child EXCEPT ![p] = "start"]
  /\ UNCHANGED <<all_domains_lock, stwVars, slotVars, interrupt_pending, pc, parent>>

(* The parent's loop, under interruptor.lock, when there is no interrupt   *)
(* to handle: wait on interruptor.cond.                                    *)
SpawnWait(p) ==
  /\ pc[p] = "idle" /\ ctx[p] = "spawn"
  /\ status[p] = "starting"
  /\ ~interrupt_pending[p]
  /\ Goto(p, "sleep")
  /\ UNCHANGED <<all_domains_lock, stwVars, slotVars, interrupt_pending, ctx, spawnVars>>

(* The child has answered: return the new domain, or raise Failure.        *)
SpawnReturn(p) ==
  /\ pc[p] = "idle" /\ ctx[p] = "spawn"
  /\ status[p] \in {"started", "failed"}
  /\ ctx' = [ctx EXCEPT ![p] = "run"]
  /\ status' = [status EXCEPT ![p] = "none"]
  /\ UNCHANGED <<all_domains_lock, stwVars, slotVars, interrupt_pending, pc, parent, child>>

(* Mutation: a new domain does not look at stw_leader.                     *)
NeverWaits == FALSE

(* The condition of domain_create's wait.                                  *)
SectionInProgress == stw_leader # NoSlot

(* domain_create takes all_domains_lock; during a section it waits on      *)
(* all_domains_cond, which gives the lock back.                            *)
ChildLock(p) ==
  /\ child[p] = "start"
  /\ all_domains_lock = Unlocked
  /\ IF SectionInProgress
     THEN UNCHANGED all_domains_lock /\ child' = [child EXCEPT ![p] = "sleep"]
     ELSE all_domains_lock' = Child(p) /\ child' = [child EXCEPT ![p] = "locked"]
  /\ UNCHANGED <<stwVars, slotVars, interrupt_pending, pc, ctx, parent, status>>

(* Mutation: the last slot of the array is taken first.                    *)
LastSlotFirst ==
  IF participating_domains = Max_domains THEN NoSlot ELSE domains[Max_domains]

(* next_free_domain: NoSlot when every slot takes part.                    *)
next_free_domain ==
  IF participating_domains = Max_domains THEN NoSlot ELSE domains[participating_domains + 1]

(* No slot is free, or the state of a slot used for the first time cannot  *)
(* be allocated.                                                           *)
ChildHasNoSlot(p) ==
  /\ child[p] = "locked"
  /\ next_free_domain # NoSlot => ~interrupt_word[next_free_domain]
  /\ all_domains_lock' = Unlocked
  /\ child' = [child EXCEPT ![p] = "failed"]
  /\ UNCHANGED <<stwVars, slotVars, interrupt_pending, pc, ctx, parent, status>>

(* Mutation: the state is used without taking domain_lock.                 *)
StateAssumedFree(d) == TRUE

StateIsFree(d) == ~domain_lock[d]

(* domain_lock, which a domain that is terminating in the slot keeps until *)
(* it has torn its state down.                                             *)
ChildTakesSlot(p) ==
  /\ child[p] = "locked"
  /\ next_free_domain # NoSlot
  /\ StateIsFree(next_free_domain)
  /\ domain_lock' = [domain_lock EXCEPT ![next_free_domain] = TRUE]
  /\ interrupt_word' = [interrupt_word EXCEPT ![next_free_domain] = TRUE]
  /\ child' = [child EXCEPT ![p] = "init"]
  /\ UNCHANGED <<all_domains_lock, stwVars, participating_domains, domains, running,
                 teardown, caml_num_domains_running, interrupt_pending, pc, ctx,
                 parent, status>>

(* An allocation fails after domain_lock was taken (init_memprof_failure   *)
(* and the labels before it): domain_self is reset and all_domains_lock    *)
(* released, domain_lock stays locked.                                     *)
ChildInitFails(p) ==
  /\ InitMayFail
  /\ child[p] = "init"
  /\ all_domains_lock' = Unlocked
  /\ child' = [child EXCEPT ![p] = "failed"]
  /\ UNCHANGED <<stwVars, slotVars, interrupt_pending, pc, ctx, parent, status>>

(* Mutation: the new domain is not counted.                                *)
StillRunning == caml_num_domains_running

OneMoreRunning == caml_num_domains_running + 1

(* The first free slot of the array becomes the last participating one.    *)
add_next_to_stw_domains == participating_domains + 1

(* The end of domain_create: the child is now the thread of its slot.      *)
ChildInit(p) ==
  LET d == next_free_domain IN
  /\ child[p] = "init"
  /\ running' = [running EXCEPT ![d] = TRUE]
  /\ caml_num_domains_running' = OneMoreRunning
  /\ participating_domains' = add_next_to_stw_domains
  /\ all_domains_lock' = Unlocked
  /\ child' = [child EXCEPT ![p] = "none"]
  /\ parent' = [parent EXCEPT ![d] = p]
  /\ Goto(d, "handshake")
  /\ UNCHANGED <<stwVars, domains, interrupt_word, domain_lock, teardown,
                 interrupt_pending, ctx, status>>

(* The handshake of domain_thread_func, under the parent's                 *)
(* interruptor.lock, and install_backup_thread.                            *)
Handshake(d) ==
  /\ pc[d] = "handshake"
  /\ status' = [status EXCEPT ![parent[d]] = "started"]
  /\ parent' = [parent EXCEPT ![d] = NoSlot]
  /\ pc' = [Woken(pc, parent[d]) EXCEPT ![d] = "idle"]
  /\ UNCHANGED <<all_domains_lock, stwVars, slotVars, interrupt_pending, ctx, child>>

FailedHandshake(p) ==
  /\ child[p] = "failed"
  /\ status' = [status EXCEPT ![p] = "failed"]
  /\ child' = [child EXCEPT ![p] = "none"]
  /\ pc' = Woken(pc, p)
  /\ UNCHANGED <<all_domains_lock, stwVars, slotVars, interrupt_pending, ctx, parent>>

-----------------------------------------------------------------------------
(* domain_terminate                                                        *)

(* The callback of the domain is over.  The main domain never gets here.   *)
Terminate(s) ==
  /\ s # 1
  /\ pc[s] = "idle" /\ ctx[s] = "run"
  /\ ctx' = [ctx EXCEPT ![s] = "term"]
  /\ UNCHANGED <<all_domains_lock, stwVars, slotVars, interrupt_pending, pc, spawnVars>>

(* remove_from_stw_domains: swap s with the last participant.              *)
remove_from_stw_domains(s) ==
  LET k == CHOOSE k \in Slots : domains[k] = s
  IN  [domains EXCEPT ![k] = domains[participating_domains],
                      ![participating_domains] = s]

(* ~caml_incoming_interrupts_queued.                                       *)
MayLeave(s) == ~interrupt_pending[s]

(* The iteration of the loop that gets out, under all_domains_lock.  The   *)
(* other iterations, which an interrupt or unfinished work of the major    *)
(* collector causes, give the lock back and change nothing of this state.  *)
Leave(s) ==
  /\ pc[s] = "idle" /\ ctx[s] = "term"
  /\ all_domains_lock = Unlocked
  /\ MayLeave(s)
  /\ running' = [running EXCEPT ![s] = FALSE]
  /\ domains' = remove_from_stw_domains(s)
  /\ participating_domains' = participating_domains - 1
  /\ teardown' = [teardown EXCEPT ![s] = TRUE]
  /\ Goto(s, "off")
  /\ ctx' = [ctx EXCEPT ![s] = "run"]
  /\ UNCHANGED <<all_domains_lock, stwVars, interrupt_word, domain_lock,
                 caml_num_domains_running, interrupt_pending, spawnVars>>

(* The rest of domain_terminate, outside the set of participants: tear the *)
(* state down, release domain_lock, then count one running domain less.    *)
(* In between the count is one too high, which is the safe side.           *)
TearDown(s) ==
  /\ teardown[s]
  /\ teardown' = [teardown EXCEPT ![s] = FALSE]
  /\ domain_lock' = [domain_lock EXCEPT ![s] = FALSE]
  /\ caml_num_domains_running' = caml_num_domains_running - 1
  /\ UNCHANGED <<all_domains_lock, stwVars, participating_domains, domains, running,
                 interrupt_word, interrupt_pending, pc, ctx, spawnVars>>

-----------------------------------------------------------------------------
(* The steps a thread takes whatever the program does, as soon as they are *)
(* possible: no C code of the protocol stops by itself, mutator code       *)
(* reaches a poll point, and a domain that blocks has its backup thread.   *)
DomainStep(s) ==
  \/ TryLock(s) \/ LostClaim(s) \/ Claim(s) \/ SendInterrupt(s) \/ InterruptsSent(s)
  \/ InterruptsServiced(s) \/ GiveUp(s)
  \/ HandleIncoming(s) \/ EnterBarrier(s) \/ CallbackDone(s) \/ ClearLeader(s)
  \/ SpawnWait(s) \/ SpawnReturn(s) \/ Handshake(s)

ChildStep(p) ==
  \/ ChildLock(p) \/ ChildHasNoSlot(p) \/ ChildTakesSlot(p)
  \/ ChildInitFails(p) \/ ChildInit(p) \/ FailedHandshake(p)

(* The steps that depend on the program.                                   *)
ProgramStep(s) == TryRun(s) \/ Spawn(s) \/ Terminate(s) \/ Leave(s)

Next ==
  \E s \in Slots :
    DomainStep(s) \/ ChildStep(s) \/ ProgramStep(s) \/ PollDone(s) \/ TearDown(s)

(* A thread that waits for a mutex which others take again and again gets  *)
(* it in the end: SF for domain_create's all_domains_lock.  A poll asks    *)
(* for a bounded number of sections, and one that is asked for again and   *)
(* again takes place: SF for the end of the poll.                          *)
Fairness ==
  \A s \in Slots :
    /\ WF_vars(DomainStep(s))
    /\ SF_vars(PollDone(s))
    /\ WF_vars(TearDown(s))
    /\ WF_vars(ChildStep(s))
    /\ SF_vars(ChildLock(s))

Spec == Init /\ [][Next]_vars
FairSpec == Spec /\ Fairness

-----------------------------------------------------------------------------
RequestTypes ==
  /\ all_domains_lock \in Int
  /\ stw_leader \in Slots \union {NoSlot}
  /\ domains_still_running \in {0, 1}
  /\ num_domains_still_processing \in 0 .. Max_domains
  /\ num_domains \in 0 .. Max_domains
  /\ participating \in [Slots -> Slots \union {NoSlot}]
  /\ i \in 1 .. Max_domains + 1
  /\ section \subseteq Slots
  /\ sync \in {0, 1}
  /\ ran \subseteq Slots

SlotTypes ==
  /\ participating_domains \in Slots
  /\ domains \in [Slots -> Slots]
  /\ running \in [Slots -> BOOLEAN]
  /\ interrupt_pending \in [Slots -> BOOLEAN]
  /\ interrupt_word \in [Slots -> BOOLEAN]
  /\ domain_lock \in [Slots -> BOOLEAN]
  /\ teardown \in [Slots -> BOOLEAN]
  /\ caml_num_domains_running \in Int

ThreadTypes ==
  /\ pc \in [Slots -> {"off", "handshake", "idle", "sleep", "trylock", "claim", "giveup",
                       "interrupt", "await", "spin", "callback", "last", "poll"}]
  /\ ctx \in [Slots -> {"run", "spawn", "term"}]
  /\ parent \in [Slots -> Slots \union {NoSlot}]
  /\ status \in [Slots -> {"none", "starting", "started", "failed"}]
  /\ child \in [Slots -> {"none", "start", "sleep", "locked", "init", "failed"}]

TypeOK == RequestTypes /\ SlotTypes /\ ThreadTypes

(* What a synchronous section is for.  Once one domain runs the callback,  *)
(* no domain runs anything else before it has run the callback itself:     *)
(* every running domain is a participant that has stopped, or is done.     *)
StwExclusion ==
  sync = 1 /\ (\E s \in Slots : pc[s] = "callback") =>
    \A s \in Slots :
      running[s] => s \in section /\ (pc[s] \in {"spin", "callback"} \/ s \in ran)

(* A domain runs the callback of a section once, and only if the section   *)
(* was announced to it: stw_request belongs to that section until then.    *)
OneRunEach ==
  \A s \in Slots :
    pc[s] \in {"spin", "callback"} => stw_leader # NoSlot /\ s \in section \ ran

(* When a section may be claimed, or a domain created, the last one is     *)
(* over everywhere: each participant has run the callback, no interrupt is *)
(* on its way, nobody is left in the handler.                              *)
NoStragglers ==
  stw_leader = NoSlot =>
    /\ ran = section
    /\ \A s \in Slots :
         ~interrupt_pending[s] /\
         pc[s] \notin {"interrupt", "await", "spin", "callback", "last"}

(* The domains that run are the participants, each of them once, and those *)
(* still needed in a section are among them (the DEBUG check of            *)
(* caml_try_run_on_all_domains_with_spin_work).                            *)
ParticipantsRun ==
  /\ {s \in Slots : running[s]} = Participants
  /\ Cardinality(Participants) = participating_domains
  /\ stw_leader # NoSlot => section \ ran \subseteq Participants

(* caml_interrupt_all_signal_safe stops at the first slot that has no      *)
(* interrupt word: it still reaches every running domain.                  *)
InterruptReachesAll ==
  \A s \in Slots : running[s] => \A t \in 1 .. s : interrupt_word[t]

(* A domain that takes a slot over does not share its state with the one   *)
(* that left it: domain_lock covers the tear-down.                         *)
StateNotShared ==
  \A s \in Slots :
    teardown[s] => ~running[s] /\ (next_free_domain = s => \A p \in Slots : child[p] # "init")

(* caml_domain_alone: a domain that counts one running domain is the only  *)
(* thread that uses the shared heap, terminating ones included.            *)
AloneIsAlone ==
  caml_num_domains_running = 1 =>
    \A s, t \in Slots : (running[s] \/ teardown[s]) /\ (running[t] \/ teardown[t]) => s = t

(* The array of slots and what is read from it without the lock: the       *)
(* interrupts of a signal handler reach every running domain, a slot is    *)
(* not reused before its tear-down, and one running domain means alone.    *)
SlotsSound == InterruptReachesAll /\ StateNotShared /\ AloneIsAlone

(* During a section nobody joins its participants, and nobody leaves them  *)
(* without having run the callback.                                        *)
SectionSetFrozen ==
  [][stw_leader # NoSlot =>
       /\ Participants' \subseteq Participants
       /\ Participants \ Participants' \subseteq ran]_vars

(* Why a section excludes everything else.  The lock decides who may claim *)
(* a section or change the array of slots; a participant that still has to *)
(* run the callback is, from the moment it was interrupted, either marked  *)
(* as pending or stopped; the enter barrier opens when nobody is pending;  *)
(* and the count is the number of those that still have to run it.         *)
LockInv ==
  \A s \in Slots :
    /\ pc[s] \in {"claim", "interrupt"} <=> all_domains_lock = Domain(s)
    /\ child[s] \in {"locked", "init"} <=> all_domains_lock = Child(s)
    /\ child[s] \in {"locked", "init"} => stw_leader = NoSlot
    /\ child[s] = "init" => next_free_domain # NoSlot

ArrayInv ==
  /\ \A j, k \in Slots : domains[j] = domains[k] => j = k
  /\ \A s \in Slots : s \in Participants <=> running[s]
  /\ \A s \in Slots : pc[s] = "off" <=> ~running[s]
  /\ running[1] /\ ctx[1] # "term"

(* The thread of a spawn is a child without a slot or a domain that has    *)
(* not answered yet, and its parent waits for it.                          *)
SpawnInv ==
  /\ \A p \in Slots : child[p] # "none" => ctx[p] = "spawn" /\ status[p] = "starting"
  /\ \A d \in Slots :
       pc[d] = "handshake" =>
         /\ parent[d] \in Slots
         /\ child[parent[d]] = "none"
         /\ ctx[parent[d]] = "spawn" /\ status[parent[d]] = "starting"
  /\ \A d, e \in Slots :
       pc[d] = "handshake" /\ pc[e] = "handshake" /\ parent[d] = parent[e] => d = e

(* The participants that the leader has interrupted so far.                *)
Interrupted(s) ==
  pc[stw_leader] = "interrupt" => \E k \in 1 .. participating_domains : k < i /\ domains[k] = s

IdleInv ==
  stw_leader = NoSlot =>
    /\ ran = section
    /\ \A s \in Slots :
         /\ ~interrupt_pending[s]
         /\ pc[s] \notin {"interrupt", "await", "spin", "callback", "last"}

MemberInv ==
  stw_leader # NoSlot =>
    /\ ran \subseteq section
    /\ section \ ran \subseteq Participants
    /\ Participants \subseteq section
    /\ num_domains_still_processing = Cardinality(section \ ran)
    /\ \A s \in ran : Interrupted(s)
    /\ \A s \in section \ ran :
         s # stw_leader /\ Interrupted(s) =>
           interrupt_pending[s] \/ pc[s] \in {"spin", "callback"}
    /\ \A s \in Slots :
         /\ interrupt_pending[s] =>
              /\ s \in section \ ran /\ s # stw_leader /\ Interrupted(s)
              /\ pc[s] \notin {"interrupt", "await", "spin", "callback", "last"}
         /\ pc[s] \in {"spin", "callback"} => s \in section \ ran
         /\ pc[s] = "spin" => s # stw_leader /\ Interrupted(s)
         /\ pc[s] = "callback" /\ s # stw_leader => Interrupted(s)
         /\ pc[s] = "last" => section = ran
         /\ \A t \in Slots : pc[s] = "last" /\ pc[t] = "last" => s = t

LeaderInv ==
  stw_leader # NoSlot =>
    /\ \A s \in Slots : pc[s] \in {"interrupt", "await"} => s = stw_leader
    /\ pc[stw_leader] \in {"interrupt", "await"} => stw_leader \in section \ ran
    /\ stw_leader \in section \ ran => pc[stw_leader] \in {"interrupt", "await", "callback"}
    /\ pc[stw_leader] = "interrupt" =>
         /\ section = Participants
         /\ num_domains = participating_domains
         /\ \A k \in 1 .. participating_domains : k < i => participating[k] = domains[k]
    /\ pc[stw_leader] = "await" =>
         \A s \in section \ ran : \E k \in 1 .. num_domains : participating[k] = s
    /\ pc[stw_leader] \notin {"interrupt", "await"} => \A s \in Slots : ~interrupt_pending[s]
    /\ sync = 1 /\ pc[stw_leader] \in {"interrupt", "await"} =>
         domains_still_running = 1 /\ ran = {} /\ \A s \in Slots : pc[s] # "callback"

(* The slots whose state a thread uses.                                    *)
InUse == {s \in Slots : running[s] \/ teardown[s]}

(* A slot that was never used is still at its own place, behind all the    *)
(* others, so that the used ones are a prefix; whoever uses the state of a *)
(* slot, or sets it up, holds its domain_lock; and the count is the number *)
(* of slots in use.                                                        *)
SlotsInv ==
  /\ \A k \in Slots : ~interrupt_word[k] => domains[k] = k /\ k > participating_domains
  /\ \A j, k \in Slots : j < k /\ interrupt_word[k] => interrupt_word[j]
  /\ \A s \in InUse : domain_lock[s]
  /\ \A s \in Slots : ~(running[s] /\ teardown[s])
  /\ \A p \in Slots :
       child[p] = "init" =>
         /\ interrupt_word[next_free_domain] /\ domain_lock[next_free_domain]
         /\ ~teardown[next_free_domain]
  /\ caml_num_domains_running = Cardinality(InUse)

StwInv == LockInv /\ SpawnInv /\ ArrayInv /\ SlotsInv /\ IdleInv /\ MemberInv /\ LeaderInv

(* A section that has begun ends, though its participants may be waiting   *)
(* for a child, for one another or for the lock when it begins.            *)
SectionEnds == stw_leader # NoSlot ~> stw_leader = NoSlot

(* Domain.spawn returns the new domain or raises Failure, provided the     *)
(* sections that keep domain_create waiting come to an end.                *)
SpawnReturns ==
  <>[](stw_leader = NoSlot) =>
    \A p \in Slots : ctx[p] = "spawn" ~> ctx[p] # "spawn"

=============================================================================
