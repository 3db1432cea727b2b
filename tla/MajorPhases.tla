----------------------------- MODULE MajorPhases -----------------------------
(***************************************************************************)
(* The phases of a major collection cycle: who has sweeping, marking,      *)
(* finaliser and ephemeron work left, how the domains agree that a phase   *)
(* is over, and what becomes of the work of a domain that terminates       *)
(* (runtime/major_gc.c, the collector's part of domain_terminate in        *)
(* runtime/domain.c, runtime/finalise.c and runtime/weak.c).               *)
(*                                                                         *)
(* The heap is a set of objects with fixed fields; an ephemeron has one    *)
(* key and one data.  A stop-the-world section is a single step, which     *)
(* starts when every participant is at a point where it handles interrupts *)
(* (StwProtocol), except the one of caml_finish_major_cycle, in which the  *)
(* domains run slices and meet at barriers (GlobalBarrier).                *)
(*                                                                         *)
(* pc[d] is the next step of d.  stack[d] holds where its slice, its       *)
(* interrupt handler or its caml_finish_major_cycle returns to.  The       *)
(* budget of a slice is abstract: a slice may end after each of its parts. *)
(***************************************************************************)
EXTENDS Integers, Sequences, FiniteSets

CONSTANTS
  Domains,       \* slots of domains
  Main,          \* the main domain, which does not terminate
  Leavers,       \* the domains that may terminate, or be spawned
  FullMajors,    \* the domains that may call Gc.full_major
  Objects,       \* blocks of the major heap
  Ephemerons,    \* those that are ephemerons
  Fields,        \* the blocks a block points to
  Key, Data,     \* the key and the data of an ephemeron
  First, Last,   \* blocks that have a function of Gc.finalise, Gc.finalise_last
  MaxNest        \* bound: how deep interrupts are handled within one another

ASSUME MajorAssumption ==
  /\ IsFiniteSet(Domains) /\ Main \in Domains /\ Leavers \subseteq Domains \ {Main}
  /\ FullMajors \subseteq Domains
  /\ IsFiniteSet(Objects) /\ Ephemerons \subseteq Objects
  /\ Fields \in [Objects -> SUBSET Objects]
  /\ Key \in [Ephemerons -> Objects] /\ Data \in [Ephemerons -> Objects]
  /\ \A e \in Ephemerons : Fields[e] = {}
  /\ First \subseteq Objects /\ Last \subseteq Objects
  /\ MaxNest \in Nat

VARIABLES
  caml_gc_phase,
  num_domains,            \* the counters num_domains_to_sweep, _to_mark, ...
  ephe_cycle_info,        \* [num_domains_todo, ephe_cycle, num_domains_done]
  orph_structs,           \* [ephe_list_live, final_info]
  allocated, marked,      \* blocks not freed; those of them that are marked
  full,                   \* ephemerons that still have their key and data
  active,                 \* the participants of STW sections
  st,                     \* the caml_domain_state of each domain
  section,                \* the leader of stw_finish_major_cycle, or Nobody
  pc, stack

shared == <<caml_gc_phase, num_domains, ephe_cycle_info, orph_structs>>
heap == <<allocated, marked, full>>
place == <<active, section, stack>>
control == <<active, section, pc, stack>>
vars == <<shared, heap, st, control>>

-----------------------------------------------------------------------------
Nobody == "nobody"

(* The two tables of finalisable values and the finalising set.            *)
NoFinalisers == [first |-> {}, last |-> {}, todo |-> {}]

(* A domain as caml_init_major_gc makes it: no marking or sweeping to do.  *)
FreshDomain ==
  [sweeping_done |-> TRUE, marking_done |-> TRUE, mark_stack |-> {},
   todo |-> {}, live |-> {}, must_sweep_ephe |-> FALSE, cycle |-> 0,
   cursor |-> [cycle |-> 0, seen |-> {}],
   final_info |-> NoFinalisers, updated_first |-> FALSE, updated_last |-> FALSE]

(* The first cycle of a program: the domains are fresh, what they have     *)
(* allocated is marked, and their ephemerons are on their live lists.      *)
Init ==
  /\ caml_gc_phase = "sweep_and_mark_main"
  /\ num_domains = [to_sweep |-> 0, to_mark |-> 0, to_ephe_sweep |-> 0,
                    to_final_update_first |-> Cardinality(Domains),
                    to_final_update_last |-> Cardinality(Domains),
                    orphaning_finalisers |-> 0]
  /\ ephe_cycle_info = [num_domains_todo |-> 0, ephe_cycle |-> 0, num_domains_done |-> 0]
  /\ orph_structs = [ephe_list_live |-> {}, final_info |-> NoFinalisers]
  /\ allocated = Objects /\ marked = Objects /\ full = Ephemerons
  /\ active = Domains
  /\ \E owner \in [Ephemerons -> Domains], r1 \in [First -> Domains], r2 \in [Last -> Domains] :
       st = [d \in Domains |->
               [FreshDomain EXCEPT
                  !.live = {e \in Ephemerons : owner[e] = d},
                  !.final_info.first = {o \in First : r1[o] = d},
                  !.final_info.last = {o \in Last : r2[o] = d}]]
  /\ section = Nobody
  /\ pc = [d \in Domains |-> "run"]
  /\ stack = [d \in Domains |-> <<>>]

-----------------------------------------------------------------------------
Goto(d, where) == pc' = [pc EXCEPT ![d] = where]
Call(d, where, return) ==
  /\ pc' = [pc EXCEPT ![d] = where]
  /\ stack' = [stack EXCEPT ![d] = <<return>> \o @]
Return(d) ==
  /\ pc' = [pc EXCEPT ![d] = Head(stack[d])]
  /\ stack' = [stack EXCEPT ![d] = Tail(@)]

Unit == "unit"
TerminationSteps == {"t_sweep", "t_minor", "t_mark", "t_mark_done", "t_ephe", "t_emptied",
                     "t_live", "t_must", "t_final", "t_push", "t_update", "t_leave"}

NoOrphans == [ephe_list_live |-> {}, final_info |-> NoFinalisers]
no_orphaned_work == orph_structs = NoOrphans

(* The heap and domain states after caml_darken, in domain d, on the       *)
(* blocks of O: d takes part in marking again if one of them is unmarked.  *)
(* An ephemeron is marked but not scanned.                                 *)
caml_darken(d, O) ==
  LET grey == O \ marked
      s == [st[d] EXCEPT !.mark_stack = @ \union (grey \ Ephemerons),
                         !.marking_done = @ /\ grey = {}]
  IN  [marked |-> marked \union O,
       st |-> [st EXCEPT ![d] = s],
       num_domains |-> IF st[d].marking_done /\ grey # {}
                       THEN [num_domains EXCEPT !.to_mark = @ + 1] ELSE num_domains]

(* The write barrier, or a key or a data that the program reads out of an  *)
(* ephemeron.  In the last phase everything it can reach is marked         *)
(* (EphemeronsMarked), and clean_field hides what is not.                  *)
MutatorDarkens(d) ==
  /\ pc[d] = "run"
  /\ caml_gc_phase # "sweep_ephe"
  /\ \E o \in allocated \ marked :
       LET r == caml_darken(d, {o}) IN
       marked' = r.marked /\ st' = r.st /\ num_domains' = r.num_domains
  /\ UNCHANGED <<control, caml_gc_phase, ephe_cycle_info, orph_structs, allocated, full>>

(* caml_final_do_calls_exn.                                                *)
FinalisersCalled(d) ==
  /\ pc[d] = "run"
  /\ st[d].final_info.todo # {}
  /\ st' = [st EXCEPT ![d].final_info.todo = {}]
  /\ UNCHANGED <<shared, heap, control>>

-----------------------------------------------------------------------------
(* major_collection_slice: sweeping and marking                            *)

Slice(d) ==
  /\ pc[d] = "run"
  /\ Call(d, "sweep", "run")
  /\ UNCHANGED <<shared, heap, st, active, section>>

(* caml_sweep finds no more work, in a slice or in caml_finish_sweeping.   *)
SweepingDone(d) ==
  /\ pc[d] \in {"sweep", "t_sweep"}
  /\ ~st[d].sweeping_done
  /\ st' = [st EXCEPT ![d].sweeping_done = TRUE]
  /\ num_domains' = [num_domains EXCEPT !.to_sweep = @ - 1]
  /\ UNCHANGED <<heap, control, caml_gc_phase, ephe_cycle_info, orph_structs>>

(* The budget may be used up at any point, except in caml_finish_major_    *)
(* cycle, where it exceeds the heap.                                       *)
BudgetMayEnd == section = Nobody

(* Sweeping is over, or the budget is used up.                             *)
SweepPart(d) ==
  /\ pc[d] = "sweep"
  /\ st[d].sweeping_done \/ BudgetMayEnd
  /\ Goto(d, "mark")
  /\ UNCHANGED <<shared, heap, place, st>>

(* do_some_marking, in a slice or in caml_empty_mark_stack.                *)
Mark(d) ==
  /\ pc[d] \in {"mark", "t_mark"}
  /\ ~st[d].marking_done
  /\ \E o \in st[d].mark_stack :
       /\ marked' = marked \union Fields[o]
       /\ st' = [st EXCEPT ![d].mark_stack =
                           (@ \ {o}) \union (Fields[o] \ (marked \union Ephemerons))]
  /\ UNCHANGED <<shared, control, allocated, full>>

(* Mutation: an ephemeron round is over although marking went on in it.    *)
SameEpheCycle == ephe_cycle_info

(* ephe_next_cycle: what has been marked may be a key.                     *)
ephe_next_cycle ==
  [ephe_cycle_info EXCEPT !.ephe_cycle = @ + 1, !.num_domains_done = 0]

(* The mark stack is empty.                                                *)
MarkStackEmpty(d) ==
  /\ pc[d] \in {"mark", "t_mark"}
  /\ ~st[d].marking_done /\ st[d].mark_stack = {}
  /\ ephe_cycle_info' = ephe_next_cycle
  /\ Goto(d, IF pc[d] = "mark" THEN "mark_done" ELSE "t_mark_done")
  /\ UNCHANGED <<heap, place, caml_gc_phase, num_domains, orph_structs, st>>

MarkingDone(d) ==
  /\ pc[d] \in {"mark_done", "t_mark_done"}
  /\ st' = [st EXCEPT ![d].marking_done = TRUE]
  /\ num_domains' = [num_domains EXCEPT !.to_mark = @ - 1]
  /\ Goto(d, IF pc[d] = "mark_done" THEN "mark" ELSE "t_mark")
  /\ UNCHANGED <<heap, place, caml_gc_phase, ephe_cycle_info, orph_structs>>

(* Marking is over, or the budget is used up.  A slice that runs while a   *)
(* domain waits to enter a section (Slice_opportunistic) ends here.        *)
MarkPart(d) ==
  /\ pc[d] = "mark"
  /\ \/ (st[d].marking_done \/ BudgetMayEnd) /\ Goto(d, "final") /\ UNCHANGED stack
     \/ section = Nobody /\ Return(d)
  /\ UNCHANGED <<shared, heap, st, active, section>>

-----------------------------------------------------------------------------
(* major_collection_slice: finalisers and ephemerons                       *)

(* caml_final_update_first: finalisable values that are not marked move to *)
(* the finalising set, and are marked.                                     *)
FinalUpdateFirst(d) ==
  LET dead == st[d].final_info.first \ marked
      r == caml_darken(d, dead)
  IN
  /\ pc[d] = "final"
  /\ caml_gc_phase = "mark_final" /\ ~st[d].updated_first
  /\ marked' = r.marked
  /\ num_domains' = r.num_domains
  /\ st' = [r.st EXCEPT ![d].final_info.first = @ \ dead,
                        ![d].final_info.todo = @ \union dead,
                        ![d].updated_first = TRUE]
  /\ Goto(d, "final_first")
  /\ UNCHANGED <<place, caml_gc_phase, ephe_cycle_info, orph_structs, allocated, full>>

FinalFirstDone(d) ==
  /\ pc[d] = "final_first"
  /\ num_domains' = [num_domains EXCEPT !.to_final_update_first = @ - 1]
  /\ Goto(d, IF st[d].marking_done THEN "final" ELSE "mark")
  /\ UNCHANGED <<heap, place, caml_gc_phase, ephe_cycle_info, orph_structs, st>>

(* caml_final_update_last: the functions are called with unit.             *)
FinalUpdateLast(d) ==
  LET dead == st[d].final_info.last \ marked IN
  /\ pc[d] = "final"
  /\ caml_gc_phase = "sweep_ephe" /\ ~st[d].updated_last
  /\ st' = [st EXCEPT ![d].final_info.last = @ \ dead,
                      ![d].final_info.todo = IF dead = {} THEN @ ELSE @ \union {Unit},
                      ![d].updated_last = TRUE]
  /\ num_domains' = [num_domains EXCEPT !.to_final_update_last = @ - 1]
  /\ UNCHANGED <<heap, control, caml_gc_phase, ephe_cycle_info, orph_structs>>

(* domain_terminate has begun: interruptor.terminating.                    *)
caml_domain_is_terminating(d) ==
  \E p \in {pc[d]} \union {stack[d][k] : k \in DOMAIN stack[d]} : p \in TerminationSteps

Merged(f, g) == [first |-> f.first \union g.first, last |-> f.last \union g.last,
                 todo |-> f.todo \union g.todo]

Adopts(d) == ~no_orphaned_work /\ ~caml_domain_is_terminating(d)

(* Mutation: of what was orphaned, only the ephemerons are adopted.        *)
AdoptEphemerons(d) ==
  IF Adopts(d)
  THEN [st[d] EXCEPT !.live = @ \union orph_structs.ephe_list_live]
  ELSE st[d]

(* The state of d after adopt_orphaned_work.                               *)
adopt_orphaned_work(d) ==
  IF Adopts(d)
  THEN [st[d] EXCEPT !.live = @ \union orph_structs.ephe_list_live,
                     !.final_info = Merged(@, orph_structs.final_info)]
  ELSE st[d]

(* The end of the finalisers, adoption, and the start of ephemeron marking *)
(* for the current round: from the cursor, if it is one of this round.     *)
EpheMarkStart(d) ==
  LET now == ephe_cycle_info.ephe_cycle
      due == caml_gc_phase # "sweep_ephe" /\ st[d].todo # {} /\ now > st[d].cycle
      s == adopt_orphaned_work(d)
  IN
  /\ pc[d] = "final"
  /\ \/ BudgetMayEnd
     \/ /\ caml_gc_phase = "mark_final" => st[d].updated_first
        /\ caml_gc_phase = "sweep_ephe" => st[d].updated_last
  /\ orph_structs' = IF Adopts(d) THEN NoOrphans ELSE orph_structs
  /\ st' = [st EXCEPT ![d] = IF due /\ s.cursor.cycle # now
                             THEN [s EXCEPT !.cursor = [cycle |-> now, seen |-> {}]]
                             ELSE s]
  /\ Goto(d, IF due THEN "ephe_mark" ELSE "ephe_sweep")
  /\ UNCHANGED <<caml_gc_phase, num_domains, ephe_cycle_info, heap, place>>

alive_data(e) == e \in marked /\ (e \in full => Key[e] \in marked)

(* One ephemeron of the todo list, in ephe_mark.                           *)
EpheMark(d) ==
  /\ pc[d] = "ephe_mark"
  /\ \E e \in st[d].todo \ st[d].cursor.seen :
       IF alive_data(e)
       THEN LET r == caml_darken(d, {Data[e]} \intersect (IF e \in full THEN Objects ELSE {}))
            IN  /\ marked' = r.marked
                /\ num_domains' = r.num_domains
                /\ st' = [r.st EXCEPT ![d].todo = @ \ {e}, ![d].live = @ \union {e}]
       ELSE /\ st' = [st EXCEPT ![d].cursor.seen = @ \union {e}]
            /\ UNCHANGED <<marked, num_domains>>
  /\ UNCHANGED <<control, caml_gc_phase, ephe_cycle_info, orph_structs, allocated, full>>

(* The whole list was looked at, or the budget is used up.                 *)
EpheMarkEnd(d) ==
  /\ pc[d] = "ephe_mark"
  /\ st[d].todo \subseteq st[d].cursor.seen \/ BudgetMayEnd
  /\ Goto(d, IF st[d].todo = {} THEN "emptied"
             ELSE IF st[d].todo \subseteq st[d].cursor.seen THEN "ephe_marked"
             ELSE "ephe_sweep")
  /\ UNCHANGED <<shared, heap, place, st>>

(* Mutation: the domain still counts as one that has ephemerons.           *)
EmptiedUncounted(d) ==
  /\ pc[d] \in {"emptied", "t_emptied"}
  /\ ephe_cycle_info' = [num_domains_todo |-> ephe_cycle_info.num_domains_todo,
                         ephe_cycle |-> ephe_cycle_info.ephe_cycle + 1,
                         num_domains_done |-> 0]
  /\ Goto(d, IF pc[d] = "emptied" THEN "ephe_marked" ELSE "t_live")
  /\ UNCHANGED <<heap, place, caml_gc_phase, num_domains, orph_structs, st>>

(* ephe_todo_list_emptied, in a slice and in caml_orphan_ephemerons.       *)
ephe_todo_list_emptied(d) ==
  /\ pc[d] \in {"emptied", "t_emptied"}
  /\ ephe_cycle_info' = [num_domains_todo |-> ephe_cycle_info.num_domains_todo - 1,
                         ephe_cycle |-> ephe_cycle_info.ephe_cycle + 1,
                         num_domains_done |-> 0]
  /\ Goto(d, IF pc[d] = "emptied" THEN "ephe_marked" ELSE "t_live")
  /\ UNCHANGED <<heap, place, caml_gc_phase, num_domains, orph_structs, st>>

(* Mutation: a pass of an earlier round counts.                            *)
EpheMarkedStale(d) ==
  LET saved_ephe_cycle == st[d].cursor.cycle
      counts == st[d].marking_done
  IN
  /\ pc[d] = "ephe_marked"
  /\ st' = IF counts THEN [st EXCEPT ![d].cycle = saved_ephe_cycle] ELSE st
  /\ ephe_cycle_info' = IF counts THEN [ephe_cycle_info EXCEPT !.num_domains_done = @ + 1]
                                  ELSE ephe_cycle_info
  /\ Goto(d, IF st[d].marking_done THEN "ephe_sweep" ELSE "mark")
  /\ UNCHANGED <<heap, place, caml_gc_phase, num_domains, orph_structs>>

(* A pass is over.  It counts if it has marked nothing itself and no new   *)
(* round has begun since: record_ephe_marking_done.                        *)
EpheMarked(d) ==
  LET saved_ephe_cycle == st[d].cursor.cycle
      counts == st[d].marking_done /\ saved_ephe_cycle = ephe_cycle_info.ephe_cycle
  IN
  /\ pc[d] = "ephe_marked"
  /\ st' = IF counts THEN [st EXCEPT ![d].cycle = saved_ephe_cycle] ELSE st
  /\ ephe_cycle_info' = IF counts THEN [ephe_cycle_info EXCEPT !.num_domains_done = @ + 1]
                                  ELSE ephe_cycle_info
  /\ Goto(d, IF st[d].marking_done THEN "ephe_sweep" ELSE "mark")
  /\ UNCHANGED <<heap, place, caml_gc_phase, num_domains, orph_structs>>

(* Mutation: an empty list is not counted as swept.                        *)
EpheSweepStartUncounted(d) ==
  LET todo == st[d].todo \union st[d].live IN
  /\ pc[d] = "ephe_sweep"
  /\ caml_gc_phase = "sweep_ephe" /\ st[d].must_sweep_ephe
  /\ st' = [st EXCEPT ![d].must_sweep_ephe = FALSE, ![d].todo = todo, ![d].live = {}]
  /\ UNCHANGED <<num_domains, heap, control, caml_gc_phase, ephe_cycle_info, orph_structs>>

(* Ephemeron sweeping: the live ephemerons join those left on todo.        *)
EpheSweepStart(d) ==
  LET todo == st[d].todo \union st[d].live IN
  /\ pc[d] = "ephe_sweep"
  /\ caml_gc_phase = "sweep_ephe" /\ st[d].must_sweep_ephe
  /\ st' = [st EXCEPT ![d].must_sweep_ephe = FALSE, ![d].todo = todo, ![d].live = {}]
  /\ num_domains' = [num_domains EXCEPT !.to_ephe_sweep = IF todo = {} THEN @ - 1 ELSE @]
  /\ UNCHANGED <<heap, control, caml_gc_phase, ephe_cycle_info, orph_structs>>

(* One ephemeron, in ephe_sweep: dropped, or kept after caml_ephe_clean.   *)
EpheSweep(d) ==
  /\ pc[d] = "ephe_sweep"
  /\ caml_gc_phase = "sweep_ephe" /\ ~st[d].must_sweep_ephe
  /\ \E e \in st[d].todo :
       /\ st' = [st EXCEPT ![d].todo = @ \ {e},
                           ![d].live = IF e \in marked THEN @ \union {e} ELSE @]
       /\ full' = IF e \in marked /\ Key[e] \notin marked THEN full \ {e} ELSE full
       /\ num_domains' = [num_domains EXCEPT
                             !.to_ephe_sweep = IF st[d].todo = {e} THEN @ - 1 ELSE @]
  /\ UNCHANGED <<control, caml_gc_phase, ephe_cycle_info, orph_structs, allocated, marked>>

-----------------------------------------------------------------------------
(* The end of a phase, and of the cycle                                    *)

is_complete_phase_sweep_and_mark_main ==
  /\ caml_gc_phase = "sweep_and_mark_main"
  /\ num_domains.to_sweep = 0 /\ num_domains.to_mark = 0
  /\ num_domains.orphaning_finalisers = 0
  /\ ephe_cycle_info.num_domains_todo = ephe_cycle_info.num_domains_done
  /\ no_orphaned_work

(* Mutation: the test forgets the finalisers that mark again.              *)
FinalCompleteNoUpdate ==
  /\ caml_gc_phase = "mark_final"
  /\ num_domains.to_mark = 0
  /\ ephe_cycle_info.num_domains_todo = ephe_cycle_info.num_domains_done
  /\ no_orphaned_work

is_complete_phase_mark_final ==
  /\ caml_gc_phase = "mark_final"
  /\ num_domains.to_final_update_first = 0
  /\ num_domains.to_mark = 0
  /\ ephe_cycle_info.num_domains_todo = ephe_cycle_info.num_domains_done
  /\ no_orphaned_work

(* Mutation: the test forgets the ephemerons that are not swept.           *)
CycleCompleteUnswept ==
  /\ caml_gc_phase = "sweep_ephe"
  /\ num_domains.to_final_update_last = 0
  /\ no_orphaned_work

is_complete_phase_sweep_ephe ==
  /\ caml_gc_phase = "sweep_ephe"
  /\ num_domains.to_ephe_sweep = 0
  /\ num_domains.to_final_update_last = 0
  /\ no_orphaned_work

(* The places where a domain answers interrupts: running, in the poll of   *)
(* the handler, waiting for a section of its own, in the loops of          *)
(* domain_terminate and of its minor collection.                           *)
AnswersInterrupts(d) ==
  /\ \/ pc[d] \in {"run", "poll", "phase", "cycle", "finish", "t_minor"}
     \/ pc[d] = "t_sweep" /\ ~st[d].sweeping_done
     \/ pc[d] = "t_mark" /\ ~st[d].marking_done
  /\ pc[d] = "run" \/ Len(stack[d]) < MaxNest

CanStop(d) == section = Nobody /\ \A e \in active \ {d} : AnswersInterrupts(e)

(* stw_try_complete_gc_phase, in the last domain of the barrier.           *)
TryCompletePhase ==
  LET last == ~is_complete_phase_sweep_and_mark_main /\ is_complete_phase_mark_final IN
  /\ caml_gc_phase' = IF is_complete_phase_sweep_and_mark_main THEN "mark_final"
                      ELSE IF last THEN "sweep_ephe" ELSE caml_gc_phase
  /\ num_domains' = [num_domains EXCEPT
                        !.to_ephe_sweep = IF last THEN Cardinality(active) ELSE @]
  /\ st' = [d \in Domains |-> IF last /\ d \in active
                              THEN [st[d] EXCEPT !.must_sweep_ephe = TRUE] ELSE st[d]]
  /\ UNCHANGED <<heap, ephe_cycle_info, orph_structs, active, section>>

(* Where a domain that waits for a section of its own goes on: its loop    *)
(* ends once the cycle it wanted to finish is finished.                    *)
AfterCycle(p) == IF p \in {"cycle", "finish"} THEN "end" ELSE p

(* The other participants go on in caml_poll_gc_work, called by the        *)
(* handler, and then where they were.                                      *)
Resume(d, Then(_)) ==
  /\ pc' = [e \in Domains |-> IF e \in active \ {d} /\ pc[e] # "run" THEN "poll"
                              ELSE IF e = d THEN Then(pc[d]) ELSE pc[e]]
  /\ stack' = [e \in Domains |->
                 LET s == [k \in DOMAIN stack[e] |-> Then(stack[e][k])] IN
                 IF e \in active \ {d} /\ pc[e] # "run" THEN <<Then(pc[e])>> \o s ELSE s]

(* Where the end of a slice leads: to the end of the cycle, if this is it, *)
(* or out of the slice (in stw_finish_major_cycle, to the next one).       *)
EndSlice(d) ==
  IF is_complete_phase_sweep_ephe
  THEN Goto(d, IF section = Nobody THEN "cycle" ELSE "cycle_bar") /\ UNCHANGED stack
  ELSE IF section = Nobody THEN Return(d)
  ELSE Goto(d, "sweep") /\ UNCHANGED stack

(* Ephemeron sweeping is over, or the budget is used up: the tests for the *)
(* end of a phase and of the cycle.                                        *)
Complete(d) ==
  /\ pc[d] = "ephe_sweep"
  /\ caml_gc_phase = "sweep_ephe" =>
       ~st[d].must_sweep_ephe /\ (st[d].todo = {} \/ BudgetMayEnd)
  /\ IF is_complete_phase_sweep_and_mark_main \/ is_complete_phase_mark_final
     THEN Goto(d, IF section = Nobody THEN "phase" ELSE "phase_bar") /\ UNCHANGED stack
     ELSE EndSlice(d)
  /\ UNCHANGED <<shared, heap, st, active, section>>

PhaseSTW(d) ==
  /\ pc[d] = "phase"
  /\ CanStop(d)
  /\ TryCompletePhase
  /\ Resume(d, LAMBDA p : IF p = "phase" THEN "mark" ELSE p)

(* Another domain was first.  Without budget for mark_again the slice ends. *)
PhaseGiveUp(d) ==
  /\ pc[d] = "phase"
  /\ \/ Goto(d, "mark") /\ UNCHANGED stack
     \/ EndSlice(d)
  /\ UNCHANGED <<shared, heap, st, active, section>>

(* caml_major_cycles_completed has changed: the loop is left.              *)
End(d) ==
  /\ pc[d] = "end"
  /\ Return(d)
  /\ UNCHANGED <<shared, heap, st, active, section>>

(* stw_cycle_all_domains: the unmarked blocks are garbage from now on, the *)
(* domains mark their roots, which hold the finalising set and otherwise   *)
(* are any survivors, and one of them adopts the orphans.                  *)
CycleAllDomains ==
  LET n == Cardinality(active)
      Adopters == {d \in active : ~caml_domain_is_terminating(d)}
  IN
  \E roots \in [active -> SUBSET marked], adopter \in Adopters :
    LET orphans(d) == IF d = adopter THEN orph_structs ELSE NoOrphans
        grey(d) == st[d].mark_stack \union (roots[d] \ Ephemerons)
        todo(d) == st[d].live \union orphans(d).ephe_list_live
        idle == {d \in active : todo(d) = {}}
    IN
    /\ \A d, e \in active : d # e => roots[d] \intersect roots[e] = {}
    /\ UNION {st[d].final_info.todo \ {Unit} : d \in active}
         \subseteq UNION {roots[d] : d \in active}
    /\ caml_gc_phase' = "sweep_and_mark_main"
    /\ allocated' = marked
    /\ marked' = UNION {roots[d] : d \in active}
    /\ full' = full \intersect marked
    /\ num_domains' = [num_domains EXCEPT
                          !.to_sweep = n, !.to_ephe_sweep = 0,
                          !.to_mark = Cardinality({d \in active : grey(d) # {}}),
                          !.to_final_update_first = n, !.to_final_update_last = n]
    /\ ephe_cycle_info' = [num_domains_todo |-> n - Cardinality(idle),
                           ephe_cycle |-> 1 + Cardinality(idle), num_domains_done |-> 0]
    /\ orph_structs' = NoOrphans
    /\ st' = [d \in Domains |-> IF d \notin active THEN st[d] ELSE
               [sweeping_done |-> FALSE, marking_done |-> grey(d) = {},
                mark_stack |-> grey(d), todo |-> todo(d), live |-> {},
                must_sweep_ephe |-> FALSE, cycle |-> 0,
                cursor |-> [cycle |-> 0, seen |-> {}],
                final_info |-> Merged(st[d].final_info, orphans(d).final_info),
                updated_first |-> FALSE, updated_last |-> FALSE]]
    /\ UNCHANGED <<active>>

CycleSTW(d) ==
  /\ pc[d] = "cycle"
  /\ CanStop(d)
  /\ CycleAllDomains
  /\ Resume(d, AfterCycle)
  /\ UNCHANGED section

(* Gc.full_major, Gc.compact.                                              *)
FullMajor(d) ==
  /\ pc[d] = "run" /\ d \in FullMajors
  /\ Call(d, "finish", "run")
  /\ UNCHANGED <<shared, heap, st, active, section>>

(* caml_finish_major_cycle becomes the leader of stw_finish_major_cycle.   *)
FinishSTW(d) ==
  /\ pc[d] = "finish"
  /\ CanStop(d)
  /\ section' = d
  /\ pc' = [e \in Domains |-> IF e \in active THEN "sweep" ELSE pc[e]]
  /\ stack' = [e \in Domains |-> IF e \in active \ {d} THEN <<pc[e]>> \o stack[e]
                                                       ELSE stack[e]]
  /\ UNCHANGED <<shared, heap, st, active>>

(* In the section the domains meet at the barriers.                        *)
PhaseInSection ==
  /\ section # Nobody
  /\ \A d \in active : pc[d] = "phase_bar"
  /\ TryCompletePhase
  /\ pc' = [d \in Domains |-> IF d \in active THEN "mark" ELSE pc[d]]
  /\ UNCHANGED stack

CycleInSection ==
  /\ section # Nobody
  /\ \A d \in active : pc[d] = "cycle_bar"
  /\ CycleAllDomains
  /\ section' = Nobody
  /\ pc' = [d \in Domains |-> IF d = section THEN "end"
                              ELSE IF d \in active THEN "poll" ELSE pc[d]]
  /\ stack' = [d \in Domains |-> [k \in DOMAIN stack[d] |-> AfterCycle(stack[d][k])]]

(* caml_poll_gc_work, at the end of stw_handler: a slice, or nothing.      *)
Poll(d) ==
  /\ pc[d] = "poll"
  /\ \/ Len(stack[d]) < MaxNest /\ Goto(d, "sweep") /\ UNCHANGED stack
     \/ Return(d)
  /\ UNCHANGED <<shared, heap, st, active, section>>

-----------------------------------------------------------------------------
(* domain_terminate, and a domain that is spawned                          *)

Terminate(d) ==
  /\ pc[d] = "run" /\ d \in Leavers
  /\ Goto(d, "t_sweep")
  /\ UNCHANGED <<shared, heap, place, st>>

(* Mutation: what is on the todo list is not orphaned.                     *)
FinishWorkLiveOnly(d) ==
  /\ \/ pc[d] = "t_sweep" /\ st[d].sweeping_done /\ Goto(d, "t_minor")
     \/ pc[d] = "t_minor" /\ Goto(d, "t_mark")
     \/ pc[d] = "t_mark" /\ st[d].marking_done
        /\ Goto(d, "t_live")
  /\ UNCHANGED <<shared, heap, place, st>>

(* caml_finish_sweeping, caml_empty_minor_heaps_once and                   *)
(* caml_finish_marking return.                                             *)
FinishWork(d) ==
  /\ \/ pc[d] = "t_sweep" /\ st[d].sweeping_done /\ Goto(d, "t_minor")
     \/ pc[d] = "t_minor" /\ Goto(d, "t_mark")
     \/ pc[d] = "t_mark" /\ st[d].marking_done
        /\ Goto(d, IF st[d].todo = {} THEN "t_live" ELSE "t_ephe")
  /\ UNCHANGED <<shared, heap, place, st>>

(* caml_orphan_ephemerons: what is on todo is forced to be alive.          *)
ForceAlive(d) ==
  LET todo == st[d].todo
      r == caml_darken(d, todo \union {Data[e] : e \in todo \intersect full})
  IN
  /\ pc[d] = "t_ephe"
  /\ marked' = r.marked
  /\ num_domains' = r.num_domains
  /\ st' = [r.st EXCEPT ![d].todo = {}, ![d].live = @ \union todo]
  /\ Goto(d, "t_emptied")
  /\ UNCHANGED <<place, caml_gc_phase, ephe_cycle_info, orph_structs, allocated, full>>

OrphanLive(d) ==
  /\ pc[d] = "t_live"
  /\ orph_structs' = [orph_structs EXCEPT !.ephe_list_live = @ \union st[d].live]
  /\ st' = [st EXCEPT ![d].live = {}]
  /\ Goto(d, "t_must")
  /\ UNCHANGED <<heap, place, caml_gc_phase, num_domains, ephe_cycle_info>>

OrphanMustSweep(d) ==
  /\ pc[d] = "t_must"
  /\ num_domains' = [num_domains EXCEPT
                        !.to_ephe_sweep = IF st[d].must_sweep_ephe THEN @ - 1 ELSE @]
  /\ st' = [st EXCEPT ![d].must_sweep_ephe = FALSE]
  /\ Goto(d, "t_final")
  /\ UNCHANGED <<heap, place, caml_gc_phase, ephe_cycle_info, orph_structs>>

(* caml_orphan_finalisers: in the first phase, or after the end of this    *)
(* cycle.                                                                  *)
OrphanFinalisers(d) ==
  LET some == st[d].final_info # NoFinalisers IN
  /\ pc[d] = "t_final"
  /\ num_domains' = [num_domains EXCEPT !.orphaning_finalisers = IF some THEN @ + 1 ELSE @]
  /\ IF some /\ caml_gc_phase # "sweep_and_mark_main"
     THEN Call(d, "finish", "t_push")
     ELSE Goto(d, IF some THEN "t_push" ELSE "t_update") /\ UNCHANGED stack
  /\ UNCHANGED <<heap, caml_gc_phase, ephe_cycle_info, orph_structs, st, active, section>>

PushFinalisers(d) ==
  /\ pc[d] = "t_push"
  /\ orph_structs' = [orph_structs EXCEPT !.final_info = Merged(@, st[d].final_info)]
  /\ st' = [st EXCEPT ![d].final_info = NoFinalisers,
                      ![d].updated_first = FALSE, ![d].updated_last = FALSE]
  /\ num_domains' = [num_domains EXCEPT !.orphaning_finalisers = @ - 1]
  /\ Goto(d, "t_update")
  /\ UNCHANGED <<heap, place, caml_gc_phase, ephe_cycle_info>>

(* Mutation: each turn of the loop decrements the counters.                *)
OrphanUpdatesAgain(d) ==
  /\ pc[d] = "t_update"
  /\ num_domains' = [num_domains EXCEPT
       !.to_final_update_first = @ - 1,
       !.to_final_update_last = @ - 1]
  /\ st' = [st EXCEPT ![d].updated_first = TRUE, ![d].updated_last = TRUE]
  /\ Goto(d, "t_leave")
  /\ UNCHANGED <<heap, place, caml_gc_phase, ephe_cycle_info, orph_structs>>

OrphanUpdates(d) ==
  /\ pc[d] = "t_update"
  /\ num_domains' = [num_domains EXCEPT
       !.to_final_update_first = IF st[d].updated_first THEN @ ELSE @ - 1,
       !.to_final_update_last = IF st[d].updated_last THEN @ ELSE @ - 1]
  /\ st' = [st EXCEPT ![d].updated_first = TRUE, ![d].updated_last = TRUE]
  /\ Goto(d, "t_leave")
  /\ UNCHANGED <<heap, place, caml_gc_phase, ephe_cycle_info, orph_structs>>

(* Out of the participants, unless there is work again.                    *)
Leave(d) ==
  /\ pc[d] = "t_leave" /\ section = Nobody
  /\ LET done == st[d].sweeping_done /\ st[d].marking_done IN
     /\ active' = IF done THEN active \ {d} ELSE active
     /\ Goto(d, IF done THEN "off" ELSE "t_sweep")
  /\ UNCHANGED <<shared, heap, st, section, stack>>

(* domain_create and caml_init_major_gc, outside of sections.              *)
Join(d) ==
  /\ pc[d] = "off" /\ section = Nobody
  /\ active' = active \union {d}
  /\ st' = [st EXCEPT ![d] = FreshDomain]
  /\ num_domains' = [num_domains EXCEPT !.to_final_update_first = @ + 1,
                                        !.to_final_update_last = @ + 1]
  /\ Goto(d, "run")
  /\ UNCHANGED <<heap, caml_gc_phase, ephe_cycle_info, orph_structs, section, stack>>

-----------------------------------------------------------------------------
(* What the runtime does by itself in d, inside of stw_finish_major_cycle. *)
SectionStep(d) ==
  /\ section # Nobody
  /\ \/ SweepingDone(d) \/ SweepPart(d) \/ Mark(d) \/ MarkStackEmpty(d) \/ MarkingDone(d)
     \/ MarkPart(d) \/ FinalUpdateFirst(d) \/ FinalFirstDone(d) \/ FinalUpdateLast(d)
     \/ EpheMarkStart(d) \/ EpheMark(d)
     \/ EpheMarkEnd(d) \/ ephe_todo_list_emptied(d) \/ EpheMarked(d)
     \/ EpheSweepStart(d) \/ EpheSweep(d) \/ Complete(d)

Next ==
  \/ \E d \in Domains :
       \/ MutatorDarkens(d) \/ FinalisersCalled(d)
       \/ Slice(d) \/ SweepingDone(d) \/ SweepPart(d)
       \/ Mark(d) \/ MarkStackEmpty(d) \/ MarkingDone(d) \/ MarkPart(d)
       \/ FinalUpdateFirst(d) \/ FinalFirstDone(d) \/ FinalUpdateLast(d)
       \/ EpheMarkStart(d) \/ EpheMark(d) \/ EpheMarkEnd(d)
       \/ ephe_todo_list_emptied(d) \/ EpheMarked(d)
       \/ EpheSweepStart(d) \/ EpheSweep(d)
       \/ Complete(d) \/ PhaseSTW(d) \/ PhaseGiveUp(d) \/ CycleSTW(d) \/ End(d)
       \/ FullMajor(d) \/ FinishSTW(d) \/ Poll(d)
       \/ Terminate(d) \/ FinishWork(d) \/ ForceAlive(d) \/ OrphanLive(d)
       \/ OrphanMustSweep(d) \/ OrphanFinalisers(d) \/ PushFinalisers(d)
       \/ OrphanUpdates(d) \/ Leave(d) \/ Join(d)
  \/ PhaseInSection
  \/ CycleInSection

Spec == Init /\ [][Next]_vars

(* Inside of the section every domain is scheduled.                        *)
Fairness ==
  /\ \A d \in Domains : WF_vars(SectionStep(d))
  /\ WF_vars(PhaseInSection)
  /\ WF_vars(CycleInSection)

FairSpec == Spec /\ Fairness

-----------------------------------------------------------------------------
Phases == {"sweep_and_mark_main", "mark_final", "sweep_ephe"}
Steps ==
  {"run", "off", "poll", "end", "finish", "sweep", "mark", "mark_done", "final",
   "final_first", "ephe_mark", "emptied", "ephe_marked", "ephe_sweep",
   "phase", "phase_bar", "cycle", "cycle_bar"} \union TerminationSteps
Finalisers ==
  [first : SUBSET First, last : SUBSET Last, todo : SUBSET (First \union {Unit})]

(* The type of the state.                                                  *)
TypeOK ==
  /\ caml_gc_phase \in Phases
  /\ num_domains \in
       [{"to_sweep", "to_mark", "to_ephe_sweep", "to_final_update_first",
         "to_final_update_last", "orphaning_finalisers"} -> 0 .. Cardinality(Domains)]
  /\ ephe_cycle_info \in [num_domains_todo : Int, ephe_cycle : Nat, num_domains_done : Nat]
  /\ orph_structs \in [ephe_list_live : SUBSET Ephemerons, final_info : Finalisers]
  /\ allocated \subseteq Objects /\ marked \subseteq allocated
  /\ full \subseteq Ephemerons /\ active \subseteq Domains
  /\ st \in [Domains ->
       [sweeping_done : BOOLEAN, marking_done : BOOLEAN, mark_stack : SUBSET Objects,
        todo : SUBSET Ephemerons, live : SUBSET Ephemerons, must_sweep_ephe : BOOLEAN,
        cycle : Nat, cursor : [cycle : Nat, seen : SUBSET Ephemerons],
        final_info : Finalisers, updated_first : BOOLEAN, updated_last : BOOLEAN]]
  /\ section \in Domains \union {Nobody}
  /\ pc \in [Domains -> Steps]
  /\ \A d \in Domains : Len(stack[d]) <= MaxNest
                        /\ \A k \in DOMAIN stack[d] : stack[d][k] \in Steps

Count(P(_)) == Cardinality({d \in active : P(d)})
InRounds(d) == st[d].todo # {} \/ pc[d] \in {"ephe_mark", "emptied", "t_emptied"}

(* Each global counter, which domains update one at a time and read        *)
(* without a lock, is the number of participants that still have the work  *)
(* it stands for.                                                          *)
CountersMatch ==
  /\ num_domains.to_sweep = Count(LAMBDA d : ~st[d].sweeping_done)
  /\ num_domains.to_mark = Count(LAMBDA d : ~st[d].marking_done)
  /\ num_domains.to_final_update_first =
       Count(LAMBDA d : ~st[d].updated_first \/ pc[d] = "final_first")
  /\ num_domains.to_final_update_last = Count(LAMBDA d : ~st[d].updated_last)

(* So is num_domains_to_ephe_sweep: the cycle does not end before all      *)
(* domains have swept their ephemerons, and waits for no others.           *)
EpheSweepMatch ==
  num_domains.to_ephe_sweep =
    Count(LAMBDA d : st[d].must_sweep_ephe
                     \/ (caml_gc_phase = "sweep_ephe" /\ st[d].todo # {}))

(* The ephemeron rounds, in the phases that mark: num_domains_todo counts  *)
(* the domains with ephemerons left, num_domains_done those of them that   *)
(* found nothing to mark in the current round.                             *)
RoundsMatch ==
  caml_gc_phase # "sweep_ephe" =>
    /\ ephe_cycle_info.num_domains_todo = Count(InRounds)
    /\ ephe_cycle_info.num_domains_done =
         Count(LAMBDA d : InRounds(d) /\ st[d].cycle = ephe_cycle_info.ephe_cycle)

(* In Phase_sweep_ephe marking is over: nothing is grey, a marked block    *)
(* points to marked blocks, and a marked ephemeron with a marked key has a *)
(* marked data.  Liveness decisions of the sweepers depend on it.          *)
EphemeronsMarked ==
  caml_gc_phase = "sweep_ephe" =>
    /\ \A d \in active : st[d].mark_stack = {}
    /\ \A o \in marked : Fields[o] \subseteq marked
    /\ \A e \in marked \intersect full : Key[e] \in marked => Data[e] \in marked

(* A cycle ends only when the counters are those that                      *)
(* stw_cycle_all_domains asserts, and every ephemeron left on a todo list  *)
(* was swept.                                                              *)
CycleEndsClean ==
  [][caml_gc_phase = "sweep_ephe" /\ caml_gc_phase' # "sweep_ephe" =>
       /\ num_domains.to_mark = 0 /\ num_domains.to_sweep = 0
       /\ ephe_cycle_info.num_domains_todo = ephe_cycle_info.num_domains_done
       /\ \A d \in active : st[d].todo = {}]_vars

(* An ephemeron that a domain, or the orphanage, keeps and that has not    *)
(* been cleaned has a key and a data that were not freed: caml_ephe_clean  *)
(* runs on each ephemeron between the end of marking and the end of the    *)
(* cycle.                                                                  *)
KeysAllocated ==
  \A e \in full : Key[e] \in allocated /\ Data[e] \in allocated

(* No ephemeron is lost: one that is not garbage is on exactly one list of *)
(* one participant, or orphaned.                                           *)
EphemeronsListed ==
  \A e \in Ephemerons \intersect (IF caml_gc_phase = "sweep_ephe" THEN marked ELSE allocated) :
    Count(LAMBDA d : e \in st[d].todo) + Count(LAMBDA d : e \in st[d].live)
      + (IF e \in orph_structs.ephe_list_live THEN 1 ELSE 0) = 1

Tables == {st[d].final_info : d \in active} \union {orph_structs.final_info}
ToFinalise == UNION {f.first \union (f.todo \ {Unit}) : f \in Tables}

(* A value of Gc.finalise is not freed before its function is called.      *)
FinalisableAllocated == ToFinalise \subseteq allocated

(* A value of Gc.finalise keeps its function, through the end of its       *)
(* domain, until a running domain calls it from its finalising set.        *)
LeavesToRun ==
  \A o \in ToFinalise \ ToFinalise' :
    \E d \in active : pc[d] = "run" /\ o \in st[d].final_info.todo
KeptUntilCalled == [][LeavesToRun]_vars

(* Finalisers are orphaned, and wait for adoption, only in the phase in    *)
(* which no domain has updated its own (the assertions of                  *)
(* caml_orphan_finalisers and adopt_orphaned_work).                        *)
OrphansInMain ==
  /\ orph_structs.final_info # NoFinalisers => caml_gc_phase = "sweep_and_mark_main"
  /\ \A d \in active : pc[d] = "t_push" =>
       caml_gc_phase = "sweep_and_mark_main" /\ ~st[d].updated_first /\ ~st[d].updated_last

(* stw_finish_major_cycle ends.                                            *)
SectionEnds == (section # Nobody) ~> (section = Nobody)

=============================================================================
