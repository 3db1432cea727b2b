------------------------------ MODULE FinalTable ------------------------------
(***************************************************************************)
(* The tables of finalisers of a domain, Gc.finalise (first) and           *)
(* Gc.finalise_last (last), in runtime/finalise.c: an array whose first    *)
(* "old" entries have their value in the major heap, and a list of the     *)
(* functions to call.  The collector is reduced to what the tables see of  *)
(* it: which values a minor collection copies to the major heap, which     *)
(* values are marked, and when those that are not are freed.               *)
(***************************************************************************)
EXTENDS Integers, Sequences, FiniteSets

CONSTANTS
  MaxFuns,       \* bound: how many finalisation functions are registered
  Values,        \* the values they are registered for
  MajorFirst,    \* the values that may be allocated in the major heap
  RegisterMajor  \* whether Gc.finalise_last is called for values of the major heap

ASSUME FinalAssumption ==
  MaxFuns \in Nat /\ MajorFirst \subseteq Values /\ RegisterMajor \in BOOLEAN

VARIABLES
  first, last,   \* struct finalisable: [table, old]
  todo,          \* the blocks of to_do, each a sequence of entries
  registered,    \* the number of functions registered so far
  called,        \* the functions called so far; a function is its rank
  alive,         \* the values the program reaches
  place,         \* where a value is: "none", "young", "major", "freed"
  marked,        \* the marked values of the major heap
  phase

tables == <<first, last, todo, registered, called>>
heap == <<alive, place, marked, phase>>
vars == <<first, last, todo, registered, called, alive, place, marked, phase>>

Unit == "unit"
Uninitialised == [fun |-> "uninitialised", val |-> Unit]
Empty == [table |-> <<>>, old |-> 0]

Is_young(v) == place[v] = "young"
is_unmarked(v) == place[v] = "major" /\ v \notin marked
Young(final) == SubSeq(final.table, final.old + 1, Len(final.table))
Vals(s) == {s[k].val : k \in DOMAIN s}
Called(e) == [fun |-> e.fun, val |-> Unit]
Map(s, Op(_)) == [k \in DOMAIN s |-> Op(s[k])]
AddBlock(block) == IF block = <<>> THEN todo ELSE Append(todo, block)

Init ==
  /\ first = Empty /\ last = Empty /\ todo = <<>>
  /\ registered = 0 /\ called = {}
  /\ alive = {} /\ marked = {} /\ phase = "sweep_and_mark_main"
  /\ place = [v \in Values |-> "none"]

-----------------------------------------------------------------------------
(* The program                                                             *)

(* A value is born in the minor heap, or marked in the major heap.         *)
Alloc(v) ==
  /\ place[v] = "none"
  /\ \E p \in {"young"} \union (IF v \in MajorFirst THEN {"major"} ELSE {}) :
       /\ place' = [place EXCEPT ![v] = p]
       /\ marked' = IF p = "major" THEN marked \union {v} ELSE marked
  /\ alive' = alive \union {v}
  /\ UNCHANGED <<tables, phase>>

Drop(v) ==
  /\ alive' = alive \ {v} /\ v \in alive
  /\ UNCHANGED <<tables, place, marked, phase>>

generic_final_register(final, f, v) ==
  [final EXCEPT !.table = Append(@, [fun |-> f, val |-> v])]

caml_final_register(v) ==
  /\ registered < MaxFuns /\ v \in alive
  /\ registered' = registered + 1
  /\ first' = generic_final_register(first, registered', v)
  /\ UNCHANGED <<last, todo, called, heap>>

caml_final_register_called_without_value(v) ==
  /\ registered < MaxFuns /\ v \in alive
  /\ Is_young(v) \/ RegisterMajor
  /\ registered' = registered + 1
  /\ last' = generic_final_register(last, registered', v)
  /\ UNCHANGED <<first, todo, called, heap>>

(* One turn of the loop of caml_final_do_calls_exn: the last entry of the  *)
(* first block.  The function may keep its argument.                       *)
caml_final_do_calls_exn ==
  /\ todo # <<>>
  /\ LET block == Head(todo)
         rest == SubSeq(block, 1, Len(block) - 1)
         item == block[Len(block)]
     IN
     /\ todo' = (IF rest = <<>> THEN <<>> ELSE <<rest>>) \o Tail(todo)
     /\ called' = called \union {item.fun}
     /\ \E keep \in SUBSET ({item.val} \ {Unit}) : alive' = alive \union keep
  /\ UNCHANGED <<first, last, registered, place, marked, phase>>

-----------------------------------------------------------------------------
(* Minor collection                                                        *)

(* Mutation: entries of the old area that are merged are put at the end.   *)
MergeAtEnd(source, target) ==
  [table |-> target.table \o source, old |-> target.old + Len(source)]

(* The entries of an orphaned table, all old, come first.                  *)
caml_final_merge_finalisable(source, target) ==
  [table |-> source \o target.table, old |-> target.old + Len(source)]

(* The table of a domain that terminated, with one entry, is adopted in    *)
(* Phase_sweep_and_mark_main.  Its value is in the major heap, and nothing *)
(* is assumed of it but that the table of its domain kept it from being    *)
(* freed.                                                                  *)
Adopt(v) ==
  /\ phase = "sweep_and_mark_main"
  /\ registered < MaxFuns /\ place[v] = "none" /\ v \in MajorFirst
  /\ registered' = registered + 1
  /\ place' = [place EXCEPT ![v] = "major"]
  /\ \E reached \in BOOLEAN :
       /\ alive' = IF reached THEN alive \union {v} ELSE alive
       /\ marked' = IF reached THEN marked \union {v} ELSE marked
  /\ \/ first' = caml_final_merge_finalisable(<<[fun |-> registered', val |-> v]>>, first)
        /\ UNCHANGED last
     \/ last' = caml_final_merge_finalisable(<<[fun |-> registered', val |-> v]>>, last)
        /\ UNCHANGED first
  /\ UNCHANGED <<todo, called, phase>>

(* Mutation: dead entries stay in the table.                               *)
MinorUpdateKeeps(final, survivors) == [final |-> final, block |-> <<>>]

(* Mutation: the test of the header is inverted.                           *)
MinorUpdateInverted(final, survivors) ==
  LET live == SelectSeq(Young(final), LAMBDA e : e.val \in survivors)
      dead == SelectSeq(Young(final), LAMBDA e : e.val \notin survivors)
  IN  [final |-> [final EXCEPT !.table = SubSeq(@, 1, final.old) \o dead],
       block |-> Map(live, Called)]

(* The entries of last whose value was not copied move to a block, which   *)
(* is as long as the number of dead young values.  i and j are the indices *)
(* of the loop: the test for a young value looks at the entry j, where the *)
(* next entry that is kept goes.                                           *)
generic_final_minor_update(final, survivors) ==
  LET n == Len(final.table)
      HeaderIsZero(v) == v \in survivors
      todo_count == Cardinality({i \in final.old + 1 .. n :
                      Is_young(final.table[i].val) /\ ~HeaderIsZero(final.table[i].val)})
      loop[i \in final.old .. n] ==
        IF i = final.old THEN [table |-> final.table, j |-> final.old, moved |-> <<>>]
        ELSE LET s == loop[i - 1]
                 e == s.table[i]
             IN  IF Is_young(s.table[s.j + 1].val) /\ ~HeaderIsZero(e.val)
                 THEN [s EXCEPT !.moved = Append(@, Called(e))]
                 ELSE [s EXCEPT !.table[s.j + 1] = e, !.j = @ + 1]
      moved == loop[n].moved
  IN  IF todo_count = 0 THEN [final |-> final, block |-> <<>>]
      ELSE [final |-> [final EXCEPT !.table = SubSeq(loop[n].table, 1, loop[n].j)],
            block |-> [k \in 1 .. todo_count |->
                         IF k \in DOMAIN moved THEN moved[k] ELSE Uninitialised]]

caml_final_empty_young(final) == [final EXCEPT !.old = Len(final.table)]

(* The young values that the program, or the young entries of first,       *)
(* reach are copied, and others that the remembered set reaches may be.    *)
Survivors ==
  LET young == {v \in Values : Is_young(v)}
      roots == young \intersect (alive \union Vals(Young(first)))
  IN  {s \in SUBSET young : roots \subseteq s}

(* The state after the minor collection that copies the survivors, to      *)
(* marked blocks of the major heap.                                        *)
AfterMinor(survivors) ==
  LET r == generic_final_minor_update(last, survivors) IN
  [last |-> caml_final_empty_young(r.final),
   first |-> caml_final_empty_young(first),
   todo |-> AddBlock(r.block),
   place |-> [v \in Values |-> IF v \in survivors THEN "major"
                              ELSE IF Is_young(v) THEN "freed" ELSE place[v]],
   marked |-> marked \union survivors]

MinorCollection ==
  /\ \E survivors \in Survivors :
       LET m == AfterMinor(survivors) IN
       /\ first' = m.first /\ last' = m.last /\ todo' = m.todo
       /\ place' = m.place /\ marked' = m.marked
  /\ UNCHANGED <<registered, called, alive, phase>>

-----------------------------------------------------------------------------
(* Major collection                                                        *)

(* Unmarked values of the old area leave the table.                        *)
generic_final_update(final) ==
  LET dead == SelectSeq(SubSeq(final.table, 1, final.old), LAMBDA e : is_unmarked(e.val))
      kept == SelectSeq(SubSeq(final.table, 1, final.old), LAMBDA e : ~is_unmarked(e.val))
  IN  [dead |-> dead, final |-> [table |-> kept \o Young(final), old |-> Len(kept)]]

(* Mutation: the values are not darkened.                                  *)
UpdateFirstWhite ==
  LET r == generic_final_update(first) IN
  /\ phase = "mark_final"
  /\ first' = r.final
  /\ todo' = AddBlock(r.dead)
  /\ phase' = "sweep_ephe"
  /\ UNCHANGED <<last, registered, called, alive, place, marked>>

(* Mutation: the entries are copied, but stay in the table.                *)
UpdateFirstKeeps ==
  LET r == generic_final_update(first) IN
  /\ phase = "mark_final"
  /\ todo' = AddBlock(r.dead)
  /\ marked' = marked \union Vals(r.dead)
  /\ phase' = "sweep_ephe"
  /\ UNCHANGED <<first, last, registered, called, alive, place>>

caml_final_update_first ==
  LET r == generic_final_update(first) IN
  /\ phase = "mark_final"
  /\ first' = r.final
  /\ todo' = AddBlock(r.dead)
  /\ marked' = marked \union Vals(r.dead)
  /\ phase' = "sweep_ephe"
  /\ UNCHANGED <<last, registered, called, alive, place>>

caml_final_update_last ==
  LET r == generic_final_update(last) IN
  /\ phase = "sweep_ephe"
  /\ last' = r.final
  /\ todo' = AddBlock(Map(r.dead, Called))
  /\ phase' = "end"
  /\ UNCHANGED <<first, registered, called, alive, place, marked>>

(* Marking from the roots of this cycle is over.                           *)
MarkingDone ==
  /\ phase = "sweep_and_mark_main"
  /\ phase' = "mark_final"
  /\ UNCHANGED <<tables, alive, place, marked>>

(* The end of a cycle: a minor collection, unmarked values are freed, and  *)
(* the next cycle marks what the program and the finalising set reach      *)
(* (caml_final_do_roots).                                                  *)
CycleEnds ==
  /\ phase = "end"
  /\ \E survivors \in Survivors :
       LET m == AfterMinor(survivors) IN
       /\ first' = m.first /\ last' = m.last /\ todo' = m.todo
       /\ place' = [v \in Values |-> IF m.place[v] = "major" /\ v \notin m.marked
                                     THEN "freed" ELSE m.place[v]]
       /\ marked' = alive \union (UNION {Vals(m.todo[k]) : k \in DOMAIN m.todo} \ {Unit})
  /\ phase' = "sweep_and_mark_main"
  /\ UNCHANGED <<registered, called, alive>>

MajorStep ==
  MarkingDone \/ caml_final_update_first \/ caml_final_update_last \/ CycleEnds

Next ==
  \/ \E v \in Values :
       \/ Alloc(v) \/ Drop(v)
       \/ caml_final_register(v) \/ caml_final_register_called_without_value(v)
       \/ Adopt(v)
  \/ caml_final_do_calls_exn
  \/ MinorCollection
  \/ MajorStep

Spec == Init /\ [][Next]_vars

(* Allocation drives the major collector, and pending actions are run.     *)
Fairness == WF_vars(MajorStep) /\ WF_vars(caml_final_do_calls_exn)

FairSpec == Spec /\ Fairness

-----------------------------------------------------------------------------
Funs == 1 .. MaxFuns
Entry == [fun : Funs, val : Values \union {Unit}]
IsTable(final) ==
  /\ final.old \in 0 .. Len(final.table)
  /\ \A k \in DOMAIN final.table : final.table[k] \in [fun : Funs, val : Values]

(* The type of the state: in particular no entry of a block is one that    *)
(* nothing was stored in.                                                  *)
TypeOK ==
  /\ IsTable(first) /\ IsTable(last)
  /\ \A b \in DOMAIN todo : \A k \in DOMAIN todo[b] : todo[b][k] \in Entry
  /\ registered \in 0 .. MaxFuns /\ called \subseteq Funs
  /\ alive \subseteq Values /\ marked \subseteq Values
  /\ place \in [Values -> {"none", "young", "major", "freed"}]
  /\ phase \in {"sweep_and_mark_main", "mark_final", "sweep_ephe", "end"}

(* The values of the old area are in the major heap, so that a minor       *)
(* collection need not look at them; and no entry of a table has a value   *)
(* that was freed.                                                         *)
TablesValid ==
  /\ \A final \in {first, last} : \A k \in 1 .. final.old :
       place[final.table[k].val] = "major"
  /\ \A v \in Vals(first.table) \union Vals(last.table) : place[v] # "freed"

Occurrences(f) ==
  LET In(s) == Cardinality({k \in DOMAIN s : s[k].fun = f})
      Blocks == {b \in DOMAIN todo : In(todo[b]) > 0}
  IN  In(first.table) + In(last.table) + Cardinality(Blocks)
        + (IF f \in called THEN 1 ELSE 0)

(* A function that was registered waits in one table, or in the finalising *)
(* set, or was called: none is lost and none is called twice.              *)
CalledOnce == \A f \in 1 .. registered : Occurrences(f) = 1

(* A value that is passed to its function was not freed.                   *)
ArgumentsAllocated ==
  \A b \in DOMAIN todo : \A v \in Vals(todo[b]) \ {Unit} : place[v] # "freed"

(* What the three ways to update the tables (minor, major, adoption) keep: *)
(* valid entries, each function in one place, and arguments that are still *)
(* allocated when caml_final_do_calls_exn passes them.                     *)
TablesSound == TablesValid /\ CalledOnce /\ ArgumentsAllocated

Reached == alive \union Vals(first.table) \union UNION {Vals(todo[b]) : b \in DOMAIN todo}

(* A function of Gc.finalise_last leaves its table only when its value is  *)
(* unreachable for the last time: the program does not reach it, and the   *)
(* functions of Gc.finalise for it have been called.                       *)
LastWhenUnreachable ==
  [][\A k \in DOMAIN last.table :
       LET e == last.table[k] IN
       e.val \in Reached => e \in {last'.table[m] : m \in DOMAIN last'.table}]_vars

(* A value that the program has lost is finalised in the end, unless a     *)
(* function of Gc.finalise brings it back.                                 *)
Finalised ==
  \A f \in Funs, v \in Values :
    ([fun |-> f, val |-> v] \in {last.table[k] : k \in DOMAIN last.table} /\ v \notin alive)
      ~> (f \in called \/ v \in alive)

=============================================================================
