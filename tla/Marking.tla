------------------------------- MODULE Marking -------------------------------
(***************************************************************************)
(* Concurrent marking and sweeping of the major heap (runtime/major_gc.c,  *)
(* the colours of runtime/shared_heap.c), with the mutators that change    *)
(* the heap meanwhile: caml_modify and the atomics of runtime/memory.c,    *)
(* allocation, continuations (runtime/fiber.c) and lazy values             *)
(* (runtime/obj.c).  A read or a write of a shared word is one step.       *)
(* Ephemerons, finalisers and the counters of the phases are in            *)
(* MajorPhases; the minor heap is in MinorPromote.                         *)
(***************************************************************************)
EXTENDS Integers, Sequences, FiniteSets, SequencesExt, FiniteSetsExt

CONSTANTS
  Domains,
  Owner,        \* [object -> domain]: whose pool an address lies in
  Size,         \* [object -> number of fields]
  Conts,        \* the addresses that hold continuations
  Lazies,       \* the addresses that hold lazy values
  StackSize,    \* the size at which a mark stack no longer grows
  PbSize,       \* PREFETCH_BUFFER_SIZE
  Heaps,        \* the heaps to begin with: records of roots, fields and stacks
  Cycles, Ops   \* bounds: colour rotations, steps of the mutators

Objects == DOMAIN Owner
Long == "long"            \* a field that holds no block
NoStack == {"null"}       \* Field(cont, 0) of a continuation that was used
NOT_MARKABLE == 3
Free == [tag |-> "free", colour |-> 0]

VARIABLES
  hd,           \* [object -> header]
  field,        \* [object -> sequence of fields]
  stk,          \* [continuation -> the values on its stack]
  heap_state,   \* caml_global_heap_state
  phase,        \* caml_gc_phase: "mark" while marking is not complete
  roots,        \* [domain -> values in its stack and local roots]
  mark_stack,   \* [domain -> ranges of fields, as <<object, first>>]
  compressed,   \* [domain -> set of <<object, field>>]
  marking_done, num_domains_to_mark,
  t,            \* [domain -> what its thread is doing]
  cycles, ops,  \* counted up to the bounds
  lazy          \* the tag each lazy value was last given

heapVars == <<hd, field, stk, lazy>>
markVars == <<mark_stack, compressed, marking_done, num_domains_to_mark>>
vars == <<hd, field, stk, heap_state, phase, roots, mark_stack, compressed,
          marking_done, num_domains_to_mark, t, cycles, ops, lazy>>

Has_status(h, s) == h # Free /\ h.colour = heap_state[s]
With_status(h, s) == [h EXCEPT !.colour = heap_state[s]]
Tag(o) == IF o \in Conts THEN "cont" ELSE IF o \in Lazies THEN "lazy" ELSE "block"

Idle == [pc |-> "idle", dq |-> <<>>, pb |-> <<>>, hd |-> Free, me |-> <<>>,
         ret |-> "idle", out |-> FALSE, op |-> <<>>]
At(d, pc) == t[d].pc = pc
To(d, pc) == t' = [t EXCEPT ![d].pc = pc]

Darken(v) == [by |-> "darken", o |-> v, at |-> 0]
Values(S) == SetToSeq({Darken(v) : v \in S \ NoStack})

(* The roots are darkened before any domain leaves the section.            *)
DarkenRoots(d) == [Idle EXCEPT !.pc = "darken", !.ret = "barrier", !.dq = Values(roots[d])]

Children(o) == IF o \in Conts THEN stk[o] \ NoStack ELSE ToSet(field[o]) \ {Long}

(* What the program can reach.                                             *)
Reachable ==
  LET reach[n \in Nat] ==
        IF n = 0 THEN UNION {roots[d] : d \in Domains}
        ELSE reach[n - 1] \union UNION {Children(o) : o \in reach[n - 1]}
  IN reach[Cardinality(Objects)]

(* The start of a cycle, the world stopped: what was marked is now         *)
(* unmarked, what was not is garbage, and the roots are to be darkened.    *)
(* The mutators can have built any heap; bound: one of Heaps.              *)
Init ==
  /\ \E h \in Heaps :
       /\ hd = [o \in Objects |-> CASE o \in h.allocated -> [tag |-> Tag(o), colour |-> 1]
                                   [] o \in h.garbage -> [tag |-> Tag(o), colour |-> 2]
                                   [] OTHER -> Free]
       /\ roots = h.roots /\ field = h.field /\ stk = h.stk
  /\ heap_state = [MARKED |-> 0, UNMARKED |-> 1, GARBAGE |-> 2]
  /\ phase = "mark"
  /\ mark_stack = [d \in Domains |-> <<>>] /\ compressed = [d \in Domains |-> {}]
  /\ marking_done = [d \in Domains |-> FALSE]
  /\ num_domains_to_mark = Cardinality(Domains)
  /\ t = [d \in Domains |-> DarkenRoots(d)]
  /\ cycles = 0 /\ ops = 0
  /\ lazy = [o \in Lazies |-> "lazy"]

-----------------------------------------------------------------------------
(* The mark stack                                                          *)

(* What mark_stack_prune adds to the compressed stack: the ranges, field   *)
(* by field.  Bound: no range is longer than a chunk, so that none stays.  *)
Pruned(d) ==
  UNION {{<<r[1], i>> : i \in r[2]..Size[r[1]]} : r \in ToSet(mark_stack[d])}

(* mark_stack_push_range, with realloc_mark_stack: a stack that may not    *)
(* grow is pruned.                                                         *)
PushRange(d, e) ==
  IF Len(mark_stack[d]) < StackSize
  THEN /\ mark_stack' = [mark_stack EXCEPT ![d] = Append(@, e)]
       /\ UNCHANGED compressed
  ELSE /\ mark_stack' = [mark_stack EXCEPT ![d] = <<e>>]
       /\ compressed' = [compressed EXCEPT ![d] = @ \union Pruned(d)]

(* mark_stack_push_block: fields that hold no block are skipped.           *)
PushBlock(d, o) ==
  LET blocks == {i \in 1..Size[o] : field[o][i] # Long} IN
  IF blocks = {} THEN UNCHANGED <<mark_stack, compressed>>
  ELSE PushRange(d, <<o, Min(blocks)>>)

-----------------------------------------------------------------------------
(* Darkening.  t[d].dq is the work of the domain that darkens: values, and *)
(* fields that are read when their turn comes; then it goes on at t[d].ret.*)

(* caml_darken_cont, when it takes a continuation to scan its stack.       *)
LockedHeader(h) == [h EXCEPT !.colour = NOT_MARKABLE]

(* caml_darken, or mark_slice_darken when by = "mark", up to the write of  *)
(* the header.  Only caml_darken makes a domain that was done mark again.  *)
DarkenLoad(d) ==
  /\ At(d, "darken") /\ t[d].dq # <<>> /\ Head(t[d].dq).by \in {"darken", "mark"}
  /\ LET x    == Head(t[d].dq)
         rest == Tail(t[d].dq)
         v    == IF x.at = 0 THEN x.o ELSE field[x.o][x.at]
         todo == v # Long /\ Has_status(hd[v], "UNMARKED")
         wake == todo /\ x.by = "darken" /\ marking_done[d]
     IN /\ t' = [t EXCEPT ![d] =
               IF ~todo THEN [@ EXCEPT !.dq = rest]
               ELSE IF v \in Conts
               THEN [@ EXCEPT !.dq = <<[by |-> "cont", o |-> v, at |-> 0]>> \o rest]
               ELSE [@ EXCEPT !.dq = <<[x EXCEPT !.o = v, !.at = 0]>> \o rest,
                              !.hd = hd[v], !.pc = "store"]]
        /\ marking_done' = [marking_done EXCEPT ![d] = @ /\ ~wake]
        /\ num_domains_to_mark' = num_domains_to_mark + (IF wake THEN 1 ELSE 0)
  /\ UNCHANGED <<heapVars, heap_state, phase, roots, mark_stack, compressed, cycles, ops>>

(* caml_darken_cont: the domain that gets the continuation scans its stack *)
(* and then marks it; others wait until it is marked.                      *)
DarkenCont(d) ==
  /\ At(d, "darken") /\ t[d].dq # <<>> /\ Head(t[d].dq).by \in {"cont", "scan", "unlock"}
  /\ LET x == Head(t[d].dq)
         rest == Tail(t[d].dq)
     IN \/ /\ x.by = "cont" /\ Has_status(hd[x.o], "UNMARKED")
           /\ hd' = [hd EXCEPT ![x.o] = LockedHeader(@)]
           /\ t' = [t EXCEPT ![d].dq =
                <<[x EXCEPT !.by = "scan"], [x EXCEPT !.by = "unlock"]>> \o rest]
        \/ /\ x.by = "cont" /\ Has_status(hd[x.o], "MARKED")
           /\ t' = [t EXCEPT ![d].dq = rest] /\ UNCHANGED hd
        \/ /\ x.by = "scan"
           /\ t' = [t EXCEPT ![d].dq = Values(stk[x.o]) \o rest] /\ UNCHANGED hd
        \/ /\ x.by = "unlock"
           /\ hd' = [hd EXCEPT ![x.o] = With_status(@, "MARKED")]
           /\ t' = [t EXCEPT ![d].dq = rest]
  /\ UNCHANGED <<field, stk, lazy, markVars, heap_state, phase, roots, cycles, ops>>

(* The new header is the one that was read, marked.  The marker replaces   *)
(* the header of a lazy value only if it has not changed; caml_darken      *)
(* overwrites it.                                                          *)
Checked(d, by) == by = "mark" /\ t[d].hd.tag \in {"lazy", "forcing"}

DarkenStore(d) ==
  /\ At(d, "store")
  /\ LET x == Head(t[d].dq) IN
     \/ /\ Checked(d, x.by) /\ hd[x.o] # t[d].hd
        /\ t' = [t EXCEPT ![d].hd = hd[x.o]]
        /\ UNCHANGED <<hd, mark_stack, compressed>>
     \/ /\ Checked(d, x.by) => hd[x.o] = t[d].hd
        /\ hd' = [hd EXCEPT ![x.o] = With_status(t[d].hd, "MARKED")]
        /\ PushBlock(d, x.o)
        /\ t' = [t EXCEPT ![d].pc = "darken", ![d].dq = Tail(@), ![d].hd = Free]
  /\ UNCHANGED <<field, stk, heap_state, phase, roots, marking_done,
                 num_domains_to_mark, cycles, ops, lazy>>

DarkenReturn(d) ==
  /\ At(d, "darken") /\ t[d].dq = <<>> /\ To(d, t[d].ret)
  /\ UNCHANGED <<heapVars, markVars, heap_state, phase, roots, cycles, ops>>

-----------------------------------------------------------------------------
(* A slice of marking: mark and do_some_marking                            *)

StartMarking(d) ==
  /\ At(d, "idle") /\ ~marking_done[d]
  /\ t' = [t EXCEPT ![d] = [Idle EXCEPT !.pc = "mark"]]
  /\ UNCHANGED <<heapVars, markVars, heap_state, phase, roots, cycles, ops>>

(* The oldest block of the prefetch buffer.                                *)
MarkPop(d) ==
  /\ At(d, "mark") /\ t[d].pb # <<>>
  /\ LET v == Head(t[d].pb)
         u == [t[d] EXCEPT !.pb = Tail(@)]
     IN t' = [t EXCEPT ![d] =
          IF ~Has_status(hd[v], "UNMARKED") THEN u
          ELSE IF v \in Conts
          THEN [u EXCEPT !.pc = "darken", !.ret = "mark",
                         !.dq = <<[by |-> "cont", o |-> v, at |-> 0]>>]
          ELSE [u EXCEPT !.pc = "mark_store", !.hd = hd[v], !.me = <<v, 1>>]]
  /\ UNCHANGED <<heapVars, markVars, heap_state, phase, roots, cycles, ops>>

MarkStore(d) ==
  /\ At(d, "mark_store")
  /\ LET v == t[d].me[1] IN
     IF Checked(d, "mark") /\ hd[v] # t[d].hd
     THEN t' = [t EXCEPT ![d].hd = hd[v]] /\ UNCHANGED hd
     ELSE /\ hd' = [hd EXCEPT ![v] = With_status(t[d].hd, "MARKED")]
          /\ t' = [t EXCEPT ![d].pc = "scan", ![d].hd = Free]
  /\ UNCHANGED <<field, stk, lazy, markVars, heap_state, phase, roots, cycles, ops>>

MarkEntry(d) ==
  /\ At(d, "mark") /\ ~t[d].out /\ mark_stack[d] # <<>>
  /\ t' = [t EXCEPT ![d].pc = "scan", ![d].me = Last(mark_stack[d])]
  /\ mark_stack' = [mark_stack EXCEPT ![d] = Front(@)]
  /\ UNCHANGED <<heapVars, compressed, marking_done, num_domains_to_mark,
                 heap_state, phase, roots, cycles, ops>>

(* Mutation: the rest of a range is dropped when the budget is used up.    *)
DropRest(d, e) == UNCHANGED <<mark_stack, compressed>>

KeepRest(d, e) == PushRange(d, e)

(* One field of the range; or the rest of it goes back to the stack, since *)
(* the buffer is full or the budget is used up (out: from now on the       *)
(* buffer is only emptied).                                                *)
Scan(d) ==
  /\ At(d, "scan")
  /\ LET o == t[d].me[1]
         i == t[d].me[2]
         full == i <= Size[o] /\ field[o][i] # Long /\ Len(t[d].pb) = PbSize
     IN \/ /\ i > Size[o] /\ t' = [t EXCEPT ![d].pc = "mark", ![d].me = <<>>]
           /\ UNCHANGED <<mark_stack, compressed>>
        \/ /\ i <= Size[o] /\ KeepRest(d, <<o, i>>)
           /\ \E out \in BOOLEAN :
                /\ out \/ (full /\ ~t[d].out)
                /\ t' = [t EXCEPT ![d].pc = "mark", ![d].me = <<>>, ![d].out = out]
        \/ /\ i <= Size[o] /\ ~t[d].out /\ ~full
           /\ t' = [t EXCEPT ![d].me[2] = @ + 1,
                             ![d].pb = IF field[o][i] = Long THEN @ ELSE Append(@, field[o][i])]
           /\ UNCHANGED <<mark_stack, compressed>>
  /\ UNCHANGED <<heapVars, marking_done, num_domains_to_mark, heap_state, phase, roots, cycles, ops>>

(* The buffer is empty: the slice ends for lack of budget or, the stack    *)
(* being empty too, goes on with the compressed stack, or marking is done. *)
MarkEnd(d) ==
  /\ At(d, "mark") /\ t[d].pb = <<>>
  /\ \/ /\ t' = [t EXCEPT ![d] = Idle]
        /\ UNCHANGED <<compressed, marking_done, num_domains_to_mark>>
     \/ /\ ~t[d].out /\ mark_stack[d] = <<>> /\ compressed[d] # {}
        /\ \E o \in {e[1] : e \in compressed[d]} :
             LET chunk == {e \in compressed[d] : e[1] = o} IN
             /\ compressed' = [compressed EXCEPT ![d] = @ \ chunk]
             /\ t' = [t EXCEPT ![d].pc = "darken", ![d].ret = "mark",
                  ![d].dq = SetToSeq({[by |-> "mark", o |-> o, at |-> e[2]] : e \in chunk})]
        /\ UNCHANGED <<marking_done, num_domains_to_mark>>
     \/ /\ ~t[d].out /\ mark_stack[d] = <<>> /\ compressed[d] = {}
        /\ marking_done' = [marking_done EXCEPT ![d] = TRUE]
        /\ num_domains_to_mark' = num_domains_to_mark - 1
        /\ t' = [t EXCEPT ![d] = Idle]
        /\ UNCHANGED compressed
  /\ UNCHANGED <<heapVars, mark_stack, heap_state, phase, roots, cycles, ops>>

-----------------------------------------------------------------------------
(* The mutators                                                            *)

Mutate(d) == At(d, "idle") /\ ops < Ops /\ ops' = ops + 1
Blocks(d) == roots[d] \ Conts

(* A load: what it reads is a root from now on.                            *)
Read(d) ==
  /\ Mutate(d)
  /\ \E o \in roots[d] \ Conts : \E i \in 1..Size[o] :
       /\ field[o][i] # Long /\ field[o][i] \notin roots[d]
       /\ roots' = [roots EXCEPT ![d] = @ \union {field[o][i]}]
  /\ UNCHANGED <<heapVars, markVars, heap_state, phase, t, cycles>>

(* A value goes out of scope.                                              *)
Drop(d) ==
  /\ Mutate(d)
  /\ \E v \in roots[d] : roots' = [roots EXCEPT ![d] = @ \ {v}]
  /\ UNCHANGED <<heapVars, markVars, heap_state, phase, t, cycles>>

(* Mutation: a block is allocated unmarked.                                *)
UnmarkedAlloc(o) == [tag |-> Tag(o), colour |-> heap_state.UNMARKED]

(* The header caml_alloc_shr and promotion give to a block of the shared   *)
(* heap.                                                                   *)
NewHeader(o) == [tag |-> Tag(o), colour |-> heap_state.MARKED]

(* alloc_shr and caml_initialize of the fields.  A continuation takes the  *)
(* values of the fiber that it suspends.  Bound: no continuation is on the *)
(* stack of another.                                                       *)
Alloc(d) ==
  /\ Mutate(d)
  /\ \E o \in {x \in Objects : Owner[x] = d /\ hd[x] = Free} :
       /\ hd' = [hd EXCEPT ![o] = NewHeader(o)]
       /\ \/ /\ o \in Conts
             /\ \E S \in SUBSET (roots[d] \ Conts) :
                  /\ stk' = [stk EXCEPT ![o] = S]
                  /\ roots' = [roots EXCEPT ![d] = (@ \ S) \union {o}]
             /\ UNCHANGED <<field, lazy>>
          \/ /\ o \notin Conts
             /\ \E v \in roots[d] \union {Long} :
                  field' = [field EXCEPT ![o] = [i \in 1..Size[o] |-> IF i = 1 THEN v ELSE Long]]
             /\ roots' = [roots EXCEPT ![d] = @ \union {o}]
             /\ lazy' = [x \in Lazies |-> IF x = o THEN "lazy" ELSE lazy[x]]
             /\ UNCHANGED stk
  /\ UNCHANGED <<markVars, heap_state, phase, t, cycles>>

(* Mutation: a write darkens the new value instead of the old one.         *)
DarkenNew(d, old, v) == IF v = Long THEN <<>> ELSE <<Darken(v)>>

(* write_barrier, for blocks of the major heap.                            *)
WriteBarrier(d, old, v) == IF old = Long THEN <<>> ELSE <<Darken(old)>>

(* caml_modify reads the old value, runs the barrier, then stores.         *)
Modify(d) ==
  /\ Mutate(d)
  /\ \E o \in Blocks(d), v \in roots[d] \union {Long} : \E i \in 1..Size[o] :
       t' = [t EXCEPT ![d] = [Idle EXCEPT !.pc = "darken", !.ret = "modify",
               !.op = <<o, i, v>>, !.dq = WriteBarrier(d, field[o][i], v)]]
  /\ UNCHANGED <<heapVars, markVars, heap_state, phase, roots, cycles>>

ModifyStore(d) ==
  /\ At(d, "modify")
  /\ field' = [field EXCEPT ![t[d].op[1]][t[d].op[2]] = t[d].op[3]]
  /\ t' = [t EXCEPT ![d] = Idle]
  /\ UNCHANGED <<hd, stk, lazy, markVars, heap_state, phase, roots, cycles, ops>>

(* caml_atomic_exchange, and a compare and set that succeeds: the barrier  *)
(* comes after the swap.                                                   *)
Exchange(d) ==
  /\ Mutate(d)
  /\ \E o \in Blocks(d), v \in roots[d] \union {Long} : \E i \in 1..Size[o] :
       /\ field' = [field EXCEPT ![o][i] = v]
       /\ roots' = [roots EXCEPT ![d] = @ \union ({field[o][i]} \ {Long})]
       /\ t' = [t EXCEPT ![d] = [Idle EXCEPT !.pc = "darken", !.dq = WriteBarrier(d, field[o][i], v)]]
  /\ UNCHANGED <<hd, stk, lazy, markVars, heap_state, phase, cycles>>

(* caml_continuation_use: caml_darken_cont, then the stack is taken.       *)
UseCont(d) ==
  /\ Mutate(d)
  /\ \E o \in roots[d] \intersect Conts :
       t' = [t EXCEPT ![d] = [Idle EXCEPT !.pc = "darken", !.ret = "take", !.op = <<o>>,
               !.dq = <<[by |-> "cont", o |-> o, at |-> 0]>>]]
  /\ UNCHANGED <<heapVars, markVars, heap_state, phase, roots, cycles>>

TakeStack(d) ==
  /\ At(d, "take")
  /\ roots' = [roots EXCEPT ![d] = @ \union (stk[t[d].op[1]] \ NoStack)]
  /\ stk' = [stk EXCEPT ![t[d].op[1]] = NoStack]
  /\ t' = [t EXCEPT ![d] = Idle]
  /\ UNCHANGED <<hd, field, lazy, markVars, heap_state, phase, cycles, ops>>

(* obj_update_tag with the transitions of lazy values: forcing begins, and *)
(* ends with a result (Forward_tag) or an exception (back to Lazy_tag).    *)
UpdateTag(d) ==
  /\ Mutate(d)
  /\ \E o \in roots[d] \intersect Lazies, e \in {<<"lazy", "forcing">>, <<"forcing", "lazy">>,
                                                 <<"forcing", "forward">>} :
       /\ hd[o].tag = e[1]
       /\ hd' = [hd EXCEPT ![o].tag = e[2]]
       /\ lazy' = [lazy EXCEPT ![o] = e[2]]
  /\ UNCHANGED <<field, stk, roots, markVars, heap_state, phase, t, cycles>>

-----------------------------------------------------------------------------
(* Sweeping, and the end of the phases and of the cycle                    *)

(* Mutation: what the current cycle has not marked yet is freed as well.   *)
NotMarked(o) == hd[o] # Free /\ ~Has_status(hd[o], "MARKED")

(* The test of pool_sweep and large_alloc_sweep_one.                       *)
Sweepable(o) == Has_status(hd[o], "GARBAGE")

(* A block found to be garbage is freed.                                   *)
Sweep(d) ==
  /\ At(d, "idle")
  /\ \E o \in Objects :
       /\ Owner[o] = d /\ Sweepable(o)
       /\ hd' = [hd EXCEPT ![o] = Free]
       /\ stk' = [x \in Conts |-> IF x = o THEN NoStack ELSE stk[x]]
  /\ UNCHANGED <<field, lazy, markVars, heap_state, phase, roots, t, cycles, ops>>

Stopped == \A d \in Domains : At(d, "idle")

(* try_complete_gc_phase: no domain has anything left to mark.             *)
CompletePhase ==
  /\ Stopped /\ phase = "mark" /\ num_domains_to_mark = 0
  /\ phase' = "ephe"
  /\ UNCHANGED <<heapVars, markVars, heap_state, roots, t, cycles, ops>>

(* stw_cycle_all_domains: the colours change places, and every domain      *)
(* darkens its roots before any domain resumes.                            *)
Rotate(h) == [UNMARKED |-> h.MARKED, GARBAGE |-> h.UNMARKED, MARKED |-> h.GARBAGE]

Cycle ==
  /\ Stopped /\ phase = "ephe" /\ num_domains_to_mark = 0 /\ cycles < Cycles
  /\ \A o \in Objects : ~Has_status(hd[o], "GARBAGE")
  /\ heap_state' = Rotate(heap_state) /\ phase' = "mark" /\ cycles' = cycles + 1
  /\ num_domains_to_mark' = Cardinality(Domains)
  /\ marking_done' = [d \in Domains |-> FALSE]
  /\ t' = [d \in Domains |-> DarkenRoots(d)]
  /\ UNCHANGED <<heapVars, mark_stack, compressed, roots, ops>>

CycleEnd ==
  /\ \A d \in Domains : At(d, "barrier")
  /\ t' = [d \in Domains |-> Idle]
  /\ UNCHANGED <<heapVars, markVars, heap_state, phase, roots, cycles, ops>>

Next ==
  \/ \E d \in Domains :
       \/ DarkenLoad(d) \/ DarkenCont(d) \/ DarkenStore(d) \/ DarkenReturn(d)
       \/ StartMarking(d) \/ MarkPop(d) \/ MarkStore(d)
       \/ MarkEntry(d) \/ Scan(d) \/ MarkEnd(d) \/ Sweep(d)
       \/ Read(d) \/ Drop(d) \/ Alloc(d) \/ Modify(d) \/ ModifyStore(d)
       \/ Exchange(d) \/ UseCont(d) \/ TakeStack(d) \/ UpdateTag(d)
  \/ CompletePhase \/ Cycle \/ CycleEnd

Spec == Init /\ [][Next]_vars

-----------------------------------------------------------------------------
(* Whatever the mutators and the markers of all domains do meanwhile, no   *)
(* value that the program can reach is swept or is about to be swept (the  *)
(* assertions of caml_darken and do_some_marking that no GARBAGE is met).  *)
ReachableKept ==
  \A o \in Reachable : hd[o] # Free /\ ~Has_status(hd[o], "GARBAGE")

(* Once all domains have declared marking done and the phase has ended,    *)
(* everything the program can reach is marked: the domains that caml_darken*)
(* woke up again have been waited for.                                     *)
MarkingComplete ==
  phase = "ephe" => \A o \in Reachable : ~Has_status(hd[o], "UNMARKED")

(* The tag that obj_update_tag gave to a lazy value stays: obj.c says of   *)
(* these functions that they ensure atomicity with respect to the GC.      *)
LazyTagKept ==
  \A o \in Lazies : hd[o] # Free => hd[o].tag = lazy[o]
=============================================================================
