# A TLA+ verification of the TravLang runtime

TravLang is a compiler, a runtime system and libraries of the OCaml family, with
parallel *domains*. What is hard to get right in it, and hard to test, is the
runtime: domains stop one another, collect a shared heap together, come and go
at any time, and each is made of several threads. This project models that part
in TLA+, checks it with TLC on small instances, and proves the protocol the
rest is built on, stop-the-world sections, with TLAPS for any number of domains.

`PROJECT.json` is the machine-readable side: components, runs, mutants, the map
from definitions to source lines, findings, hazards and theorems.

## The system and its parts

| Part | Source | State | Operations | What makes it hard | Module |
|---|---|---|---|---|---|
| Global barrier | `runtime/domain.c` | one word: a count and a sense bit | begin, is_final, end | a domain may enter the next barrier before another has seen the end of the last | `GlobalBarrier` |
| STW sections, domain creation and termination | `runtime/domain.c` | `stw_leader`, `stw_request`, `stw_domains`, `all_domains_lock`, an interruptor and a lock per slot | try_run_on_all_domains, stw_handler, spawn, domain_create, domain_terminate | requests, spawns and terminations race; a slot is reused while its last owner tears down | `StwProtocol` |
| Backup threads, blocking sections | `runtime/domain.c`, `signals.c` | `backup_thread_msg`, `domain_lock`, two condition variables | enter and leave blocking section, install and end of the backup thread | two threads are one domain; lost wake-ups; slot reuse | `BackupThread`, `Interruptor` |
| Major collector, phases | `runtime/major_gc.c` | six counters, ephemeron rounds, phase, orphaned work | slices, phase changes, end of cycle, finish_major_cycle, orphaning | termination detection over counters that are read without a lock; work of domains that terminate | `MajorPhases` |
| Finalisers | `runtime/finalise.c` | two tables and the finalising set per domain | register, update in minor and major collections, call, merge | a value comes back to life; entries move between areas | `FinalTable`, `MajorPhases` |
| Ephemerons | `runtime/weak.c`, `major_gc.c` | todo and live lists | mark, clean, sweep | data is reachable only through a key that may be marked late | `MajorPhases` |
| Allocation limit, pending actions, signals | `domain.c`, `signals.c` | `young_limit`, action_pending, epochs | reset_young_limit, poll, send_interrupt, record_signal | a request that is overwritten is delayed | planned |
| Marking, write barrier, pools | `major_gc.c`, `memory.c`, `shared_heap.c` | colours, mark stacks, pools | darken, mark, caml_modify, sweep, adopt | races on headers and fields | planned |
| Minor collection | `minor_gc.c` | remembered sets, forwarding pointers | promotion by several domains | one copy must win | planned |
| Systhreads | `otherlibs/systhreads` | master lock, thread list, tick thread | yield, enter and leave blocking section, signals | two locks; the tick thread outlives its domain | planned |
| Event, Mutex, Condition, Semaphore, Domain.join | `otherlibs/systhreads/event.ml`, `runtime/sync.c`, `stdlib` | | | cancelled and matched communications | planned |
| Skip list, runtime events ring, channels, memprof, global roots, fibers, lazy values | `runtime`, `otherlibs/runtime_events`, `stdlib` | | | see `PROJECT.json` | planned |
| Compilers, tools, interpreter, marshalling, primitives, formatting, Unix, Str, Dynlink | | | | sequential, or machine data | not modelled |

How they interact: a phase change or a minor collection of the collector is a
STW section. A section interrupts every participant; whichever thread of a
domain holds its `domain_lock`, main or backup, services the interrupt. Inside
of a section the domains meet at global barriers. `domain_terminate` loops over
the collector's work until it may leave the participants of sections.

```
  MajorPhases   a section is a step          FinalTable   a collection is a step
      |                                           |
  StwProtocol   the callback is a state,  --  GlobalBarrier   what happens in it
      |         servicing an interrupt is a step
  Interruptor   what servicing promises
      ^ refinement
  BackupThread  how the threads of a domain keep the promise
```

## The modules

Names of operators and states are those of the source wherever it has a name.
Operators under a comment that starts with *Mutation* are plausible mistakes:
each takes the place of the definition after it in one check, to show that a
property is able to fail. They are not part of any specification.

**`GlobalBarrier`.** `barrier` is the packed word of `stw_request.barrier`, `b`
the value a domain keeps from `caml_global_barrier_begin`, `round` how many
barriers it has left (history). `EndFinal` and `EndSpin` are the two branches
of `caml_global_barrier_end`. The count and the sense bit are kept as fields of
one number, so a carry from one to the other would be seen.

**`StwProtocol`.** Slots are numbers, slot 1 the main domain. `domains` and
`participating_domains` are the array of `stw_domains` with its swap on removal.
One action per step that others can see: `TryRun`, `TryLock`, `LostClaim`,
`Claim`, `SendInterrupt` (one per participant), `InterruptsServiced`,
`CallbackDone`, `ClearLeader`, `GiveUp` of the leader; `HandleIncoming`,
`EnterBarrier`, `CallbackDone`, `PollDone` of a participant; `Spawn`,
`SpawnWait`, `SpawnReturn` of a parent; `ChildLock`, `ChildTakesSlot`,
`ChildInit`, `ChildInitFails`, `Handshake`, `FailedHandshake` of a child;
`Terminate`, `Leave`, `TearDown`. The synchronous and the asynchronous forms of
a section are both there (`sync`). `section` and `ran` are history variables.
Abstractions: what the callback does is one state; the release of `domain_lock`
and the decrement of `caml_num_domains_running` are one step, `TearDown`; the
work that keeps a domain in the loop of `domain_terminate` is a free choice.

**`Interruptor`, `BackupThread`.** `Interruptor` is what the leader of a section
relies on: a running domain takes an interrupt, once, one thread at a time, and
leaves none behind. `BackupThread` has the main thread and the backup threads of
one slot, over successive domains. Critical sections of `interruptor.lock` are
single steps; `domain_lock` is held over several. A condition variable is the
set of threads that sleep on it; spurious wake-ups are an action. It implements
`Interruptor` with `handling` mapped to "some thread is in stw_handler"
(`ServiceSpec`). An old backup thread may legally service an interrupt of the
new domain of the slot, while that one waits in `install_backup_thread` with
the lock released (`main = "relax"`).

**`MajorPhases`.** The `num_domains_to_*` counters, `ephe_cycle_info`,
`caml_gc_phase`, `orph_structs`, and per domain what `caml_domain_state` has of
collection work. A heap of a few blocks says what marking, cleaning and
sweeping decide. A slice (`caml_major_collection_slice`) is a sequence of steps
and may run out of budget after each; the tests `is_complete_phase_*` are run
outside of a section, and again inside. Sections of phase changes and cycle
ends are single steps, for the reasons `StwProtocol` and `GlobalBarrier` give;
the section of `caml_finish_major_cycle` is not, since domains run slices in it.
Termination (`t_*` steps) is the part of `domain_terminate` that finishes or
orphans the work. Abstractions: a phase test loads its words in one step;
darkening tests and sets a colour in one step; blocks are not allocated and
fields not changed after `Init`, what a mutator does to the heap is
`MutatorDarkens`; an ephemeron has one key.

**`FinalTable`.** The arrays of `struct finalisable` with their `old` index, the
blocks of `to_do`, and the values the entries point to. The loop of
`generic_final_minor_update` is followed index by index, including what ends up
in the block when it moves more or fewer entries than it counted. Functions are
numbered as they are registered.

`MC*` modules extend a component's module and name the values its cfg needs.

## The runs

| Run | Instance | States | Properties |
|---|---|---|---|
| `global_barrier` | 3 domains, 4 barriers | 364 | `BarrierSync`, `SingleIsAlone`, `BarrierInv`, `EveryoneLeaves` |
| `stw_protocol` | 3 slots, `domain_create` may fail late | 1,831,156 | `StwExclusion`, `OneRunEach`, `NoStragglers`, `ParticipantsRun`, `InterruptReachesAll`, `StateNotShared`, `AloneIsAlone`, `StwInv`, `SectionSetFrozen` |
| `stw_progress` | 2 slots, no late failure, fair | 9,290 | `SectionEnds`, `SpawnReturns`, no deadlock |
| `spawn_after_failure` | 2 slots, late failure, fair | | `SpawnReturns` fails |
| `backup_thread` | 2 backup threads, creation may fail | 2,000 | `OneThreadRuns`, `OneBackupThread`, `TerminateSeen` |
| `backup_service` | 2 backup threads, fair | 1,935 | `BlockedHasBackup`, `ServiceSpec` (refinement), `InstallReturns` |
| `major_phases` | 2 domains, an ephemeron, `Gc.finalise` on its key, `Gc.full_major` | 2,854,244 | `EpheSweepMatch`, `EphemeronsMarked`, `CycleEndsClean` |
| `finish_cycle` | 2 domains, an ephemeron, `Gc.full_major`, fair | 827,434 | `KeysAllocated`, `SectionEnds` |
| `orphan_finalisers` | 2 domains, one comes and goes, a value with both kinds of finaliser | 1,077,012 | `CountersMatch`, `FinalisableAllocated`, `OrphansInMain`, `KeptUntilCalled` |
| `orphan_ephemerons` | 2 domains, one comes and goes, an ephemeron | 3,722,015 | `RoundsMatch`, `EphemeronsListed` |
| `final_table` | 3 functions, 2 values, one may start in the major heap, fair | 23,833 | `TablesValid`, `CalledOnce`, `ArgumentsAllocated`, `LastWhenUnreachable`, `Finalised` |
| `final_table_major` | the same, values of the major heap registered too | | `LastWhenUnreachable` fails |

`TypeOK` is checked in the first run of `BackupThread`, `MajorPhases` and
`FinalTable`; for the other two it is proved.

Why the bounds are enough to be interesting. Four barriers take the sense bit
through two full turns, with a slow domain one barrier behind. Three slots give
a leader, a participant and a third domain that spawns, terminates or takes a
slot over; removal from the array swaps entries. Domains, sections and cycles
are not bounded in number: the state space is finite because nothing counts
them. Two backup threads are the one of the slot and its predecessor's. In
`MajorPhases` an ephemeron, its key and its data are the smallest heap in which
marking in one domain re-opens a round in another; `MaxNest` bounds how deep an
interrupt is handled within the handler of another, 2 for a slice in a poll in a
program, 3 where a terminating domain runs `caml_finish_major_cycle` as well.
With three entries a table has one before and one after the entry that moves.

Deadlock is checked except where the system stops: `global_barrier` ends after
its last barrier, and a late failure of `domain_create` (`stw_protocol`,
`spawn_after_failure`) blocks the program, which is the finding below.

### Fairness

- `GlobalBarrier`: each domain goes on, since threads are scheduled
  preemptively and the spin loops do not block.
- `StwProtocol`: each thread that can go on does (WF). Strong fairness for
  `PollDone`, a poll that is interrupted again and again by sections, and for
  `ChildLock`, a mutex that is free again and again; a pthread mutex does not
  promise that much, and without it `Domain.spawn` could starve behind an endless
  series of sections. The program's own choices (a section, a spawn, the end
  of a domain) are not fair: nothing makes them happen. `SpawnReturns` assumes
  that sections cease at some time, because `domain_create` waits until none
  runs and nothing keeps new ones from being claimed first.
- `BackupThread`: threads go on; strong fairness for acquiring `domain_lock`,
  which main and backup thread hand to each other. A blocking section need not end.
- `MajorPhases`: only the steps inside of `stw_finish_major_cycle`, where each
  participant is scheduled. Outside of it no program has to allocate or poll.
- `FinalTable`: major cycles go on and pending finalisers are called, which
  allocation and polling do. Minor collections outside of the cycle's end are
  not assumed.

## The proofs

`GlobalBarrierProofs`, for any finite set of `num_domains` participants, any
sense bit above their number and any number of barriers:
`BarrierInvariant`, `BarrierSynchronises`, `SingleSectionExclusion`.
`BarrierSync` is not inductive: it does not say what the word has to do with the
domains. `BarrierInv` does: the count is the number of domains that wait for the
current sense to flip, and all domains are at the same barrier once those that
have not seen the last flip are taken past it. So the last to arrive finds all
others waiting, and the flip cannot overtake anyone twice.

`StwProtocolTypes` (types, the array, the lock, spawns) and `StwProtocolProofs`,
for any number of slots, with `domain_create` failing or not:

| Theorem | Says |
|---|---|
| `StwInvariant` | `TypeOK` and `StwInv` always hold |
| `SectionsExclude` | `StwExclusion`: a synchronous callback runs only while every running domain is stopped or is done with it |
| `CallbackRunsOnce` | `OneRunEach` |
| `SectionsEndEverywhere` | `NoStragglers`: a section that is over is over everywhere |
| `ParticipantsAreRunning` | `ParticipantsRun` |
| `SectionKeepsParticipants` | `SectionSetFrozen`, an action property |

`StwInv` has six parts. `LockInv`: `all_domains_lock` is held exactly by who is
in the code that it covers, and a child holds it only outside of sections.
`SpawnInv`: who waits for whom. `ArrayInv`: the array lists the running slots,
each once. `IdleInv`: without a leader nothing of a section is left. `MemberInv`:
`num_domains_still_processing` is the number of participants that have yet to
run the callback, and each of them that was interrupted is pending or stopped.
`LeaderInv`: while the leader sends interrupts, `participating` is the part of
the array it has gone through; once it has seen all flags down, none comes up
again. The exclusion follows: the enter barrier opens after all flags were down,
so everybody in the section is stopped, and everybody who runs is in the section
because the array is frozen. The induction has one lemma per group of actions;
counting goes through the cardinality of `section \ ran`.

Assumptions: `MaxDomainsAssumption`, `InitMayFailAssumption`, and for the barrier
`DomainsAssumption`, `SenseBitAssumption` (the bit is above the number of
domains: `BARRIER_SENSE_BIT` is 2^20 in `domain.c`) and `RoundsAssumption`. TLC
evaluates them on each run.

Only model-checked: every liveness property, and the refinement `ServiceSpec`
with its fairness (out of the prover's reach); `InterruptReachesAll`,
`StateNotShared`, `AloneIsAlone`, the safety of `BackupThread`, all of
`MajorPhases` and `FinalTable` (not proved yet).

## What the runs show

The exclusion protocol is right: no interleaving of requests, spawns,
terminations and slot reuse lets a domain run beside a synchronous callback.
The threads of a domain service every interrupt, through blocking sections and
the reuse of a slot. The collector's counters, which nobody locks, are the
numbers they stand for, and marking is complete when the code takes it to be, as
long as no domain with ephemerons terminates during a sweep (see below).

Two runs are expected to find a violation:

- `spawn_after_failure`: the failure paths of `domain_create` after
  `domain_lock` was taken (`domain.c:735-753`) do not release it. The slot is the
  next free one, so the next `Domain.spawn` waits for that lock for ever,
  holding `all_domains_lock`. The exclusion properties still hold (`stw_protocol`).
- `final_table_major`: `generic_final_minor_update` (`finalise.c:265`) tests
  `table[j]` for being young where it counted with `table[i]` (line 243). After a
  dead young entry, an entry with a live value of the major heap counts as
  dead as well. `final_table` registers `Gc.finalise_last` on young values only.

### What the runs leave out

The constants of some passing runs leave behaviours of the code out, because
the property fails with them. Each can be seen by changing the constant.

- `backup_service` has `CreateMayFail = FALSE`. With `TRUE`, `BlockedHasBackup`
  and `InstallReturns` fail: when the `pthread_create` of
  `install_backup_thread` fails in the main domain (`domain.c:1087`), the child
  runs already, the main domain blocks without a backup thread (the assertion at
  line 1818), and the message stays `BT_ENTERING_travlang`, for which the next
  `install_backup_thread` waits for ever (line 1066).
- `major_phases` and `finish_cycle` have `Leavers = {}`. With `Leavers = {d1}`:
  - `EpheSweepMatch` fails: a domain that terminates half-way through its
    ephemeron sweep has cleared `must_sweep_ephe`, and `caml_orphan_ephemerons`
    (`major_gc.c:422`) does not decrement `num_domains_to_ephe_sweep`;
  - `KeysAllocated` fails: ephemerons orphaned in `Phase_sweep_ephe` and adopted
    by a domain that has swept (line 498) reach the next cycle uncleaned;
  - `CycleEndsClean` fails: forcing ephemerons alive (line 405) re-opens marking
    in `Phase_sweep_ephe`, whose end does not look at `num_domains_to_mark`,
    though line 1366 asserts that it is 0.
- `SectionEnds` fails too. With the constants of
  `orphan_finalisers` (no `Last`) and `FairSpec`, a domain counted in
  `num_domains_orphaning_finalisers` (line 437) may be stopped by a second
  `caml_finish_major_cycle`, which then waits for a count only that domain can
  take down.

Two comments of `domain.c` do not describe the code. The diagram at lines
120-146 has no transition from `BT_ENTERING_travlang` to `BT_TERMINATE`, which a
domain that never blocked makes. Line 1020 says that a backup thread asleep on
`interruptor.cond` is woken from `caml_leave_blocking_section`; that function
signals nobody, and the thread wakes with the next interrupt or the termination.

## Plan

Next, in this order; each comes with its abstract promise where there is one.

1. `YoungLimit`: `caml_reset_young_limit`, `caml_poll_gc_work`, slice epochs,
   signals recorded and processed: no request is lost (`domain.c:1645`, `1676`,
   `signals.c:91`, `189`). It refines what `StwProtocol` assumes of polling.
2. `Tricolour`: colours and their rotation, mark stacks, `caml_modify`, races on a
   header, sweeping and orphaned pools: no reachable block is freed.
   `MajorPhases`' heap is its abstraction.
3. `MinorPromote`: promotion by several domains, one copy per block;
   `caml_empty_minor_heaps_once`.
4. `Masterlock`: threads of a domain, yield, tick thread, on `BackupThread`'s lock.
5. The lock-free skip list against a map; the runtime events ring with a slow
   reader; `Event` against a rendez-vous; `Domain.join`, `Semaphore`, `Lazy`.
6. In `MajorPhases`, the loads of a phase test one by one; in `StwProtocol`,
   unique ids and the resizing of minor heaps; fork.

Proofs to come: `CountersMatch` and the ephemeron rounds of `MajorPhases` for any
number of domains; `AloneIsAlone`, `StateNotShared` and `InterruptReachesAll`;
`OneThreadRuns` and the step simulation of `Interruptor` by `BackupThread`;
`CalledOnce` of `FinalTable`.

Not planned: compilers, tools, the interpreter, marshalling, primitives on
machine data and text formatting. They are sequential functions on large data, in
which a model checker finds no more than a unit test, or a model would be as long
as the code.
