---------------------------- MODULE Ephemerons ----------------------------
(* Weak arrays and ephemerons as the program uses them (runtime/weak.c)      *)
(* while a major cycle marks, cleans and sweeps them (ephe_mark, ephe_sweep  *)
(* of major_gc.c).  One domain; another one may hold the phase back, so the  *)
(* program runs between any two steps of the collector.  The ephemerons      *)
(* themselves stay reachable.                                                *)
EXTENDS Integers, Sequences, SequencesExt, FiniteSets

CONSTANTS Objects,      \* blocks
          Fields,       \* what each refers to
          Forwards,     \* those with tag Forward_tag
          Shape,        \* tag and size of each
          Ephes, NKeys,
          Contents,     \* what the ephemerons may hold at the start of the cycle
          Held,         \* what the program may hold then
          Young,        \* the blocks that are in the minor heap
          ObjSetters,   \* whether keys of an ephemeron that has data, and its
                        \* data, are replaced and copied (module Obj)
          MaxOps

VARIABLES ephe,         \* [Ephes -> [0..NKeys -> value]], 0 is the data
          cleaned,      \* the same, had all been cleaned at once
          roots,        \* what the program holds
          young, marked, freed,
          ephe_ref,     \* fields remembered for the minor collection
          caml_gc_phase,
          gc,           \* [todo, live, seen, marking_done, cycle, cursor, ephe_cycle, done]
          copying,      \* a get_copy that allocates its copy
          answered,     \* whether every read gave what it should
          crashed, ops
mem == <<young, marked, freed, ephe_ref>>
vars == <<ephe, cleaned, roots, mem, caml_gc_phase, gc, copying, answered, crashed, ops>>

caml_ephe_none == "none"
Data == 0
Keys == 1..NKeys
Offsets == 0..NKeys
NoCopy == [e |-> "none", i |-> 0, shape |-> "none"]
Reach(S) ==
    LET grow(T) == T \cup UNION {Fields[o] : o \in T}
    IN grow(grow(grow(S)))
Is_block(v) == v \in Objects
is_unmarked(o) == o \notin young /\ o \notin marked

------------------------------------------------------------------------------
(* Cleaning.                                                                 *)
(* A key that is a forward to a plain value becomes that value.              *)
Short(v) ==
    IF v \in Forwards /\ \A o \in Fields[v] : o \notin Forwards
    THEN CHOOSE o \in Fields[v] : TRUE
    ELSE v
DeadKey(v) == Is_block(v) /\ is_unmarked(v)
do_check_key_clean(x, i) ==
    IF caml_gc_phase # "sweep_ephe" \/ ~DeadKey(x[i]) THEN x
    ELSE [x EXCEPT ![i] = caml_ephe_none, ![Data] = caml_ephe_none]
Cleaned(x) ==
    LET short == [i \in Offsets |-> IF i \in Keys THEN Short(x[i]) ELSE x[i]]
        dead == {i \in Keys : DeadKey(short[i])}
    IN [i \in Offsets |-> IF i \in dead \/ (i = Data /\ dead # {}) THEN caml_ephe_none
                          ELSE short[i]]
caml_ephe_clean(x) == IF caml_gc_phase # "sweep_ephe" THEN x ELSE Cleaned(x)
(* A mutant of clean_field: the data is not worth a look at the keys.        *)
CleanKeysOnly(x, i) == IF i = Data THEN x ELSE do_check_key_clean(x, i)
clean_field(x, i) == IF i = Data THEN caml_ephe_clean(x) ELSE do_check_key_clean(x, i)
(* Cleaning remembers a short-circuited key that is in the minor heap.       *)
ShortRef(e, x) == {<<e, i>> : i \in {j \in Keys : x[j] \in Forwards /\ Short(x[j]) \in young}}
CleanRef(e, i) == IF i = Data /\ caml_gc_phase = "sweep_ephe" THEN ShortRef(e, ephe[e]) ELSE {}

------------------------------------------------------------------------------
(* The program.                                                              *)
Op == ops < MaxOps /\ copying = NoCopy /\ ~crashed /\ ops' = ops + 1
Quiet == UNCHANGED <<young, freed, caml_gc_phase, copying>>
(* caml_darken: an unmarked block puts the domain back to marking.           *)
Darkened(v) == IF Is_block(v) /\ is_unmarked(v) THEN marked \cup {v} ELSE marked
DarkenedGc(v) == IF Is_block(v) /\ is_unmarked(v) THEN [gc EXCEPT !.marking_done = FALSE]
                 ELSE gc
(* do_set; r holds the remembered fields.                                    *)
(* A mutant of SetRef: a field that held a value is not remembered.          *)
SetRefEmpty(r, e, i, was, v) ==
    IF v \in young /\ was = caml_ephe_none THEN r \cup {<<e, i>>} ELSE r
SetRef(r, e, i, was, v) == IF v \in young /\ was \notin young THEN r \cup {<<e, i>>} ELSE r

(* Outside module Obj a field of an ephemeron that has data is set once.     *)
Settable(e, i, v) ==
    \/ ObjSetters
    \/ caml_ephe_none \in {cleaned[e][Data], cleaned[e][i]}
    \/ i = Data /\ v = caml_ephe_none
ephe_set_field(e, i, v) ==
    LET x == clean_field(ephe[e], i)
    IN /\ Op /\ Settable(e, i, v)
       /\ ephe' = [ephe EXCEPT ![e] = [x EXCEPT ![i] = v]]
       /\ ephe_ref' = SetRef(ephe_ref \cup CleanRef(e, i), e, i, x[i], v)
       /\ cleaned' = [cleaned EXCEPT ![e][i] = v]
       /\ Quiet /\ UNCHANGED <<answered, roots, marked, gc, crashed>>
caml_ephe_set_key(e, i, v) == i \in Keys /\ ephe_set_field(e, i, v)
caml_ephe_unset_key(e, i) == caml_ephe_set_key(e, i, caml_ephe_none)
caml_ephe_set_data(e, v) == ephe_set_field(e, Data, v)
caml_ephe_unset_data(e) == caml_ephe_set_data(e, caml_ephe_none)

(* What a read should give.  A key that is a dead forward is as good as none *)
(* or as the value it forwards to.                                           *)
DeadForward(e, i) ==
    i \in Keys /\ caml_gc_phase = "sweep_ephe" /\ ephe[e][i] \in Forwards /\ DeadKey(ephe[e][i])
Answer(e, i, got) ==
    IF DeadForward(e, i)
    THEN /\ cleaned' = [cleaned EXCEPT ![e][i] = caml_ephe_none, ![e][Data] = caml_ephe_none]
         /\ UNCHANGED answered
    ELSE /\ answered' = (answered /\ (caml_gc_phase = "sweep_ephe" =>
                                       Short(got) = Short(cleaned[e][i])))
         /\ UNCHANGED cleaned
GetMarks(v) == Darkened(v)
ephe_get_field(e, i) ==
    LET x == clean_field(ephe[e], i)
    IN /\ Op
       /\ ephe' = [ephe EXCEPT ![e] = x]
       /\ ephe_ref' = ephe_ref \cup CleanRef(e, i)
       /\ marked' = GetMarks(x[i]) /\ gc' = DarkenedGc(x[i])
       /\ roots' = roots \cup ({x[i]} \cap Objects)
       /\ Answer(e, i, x[i])
       /\ Quiet /\ UNCHANGED crashed
ephe_check_field(e, i) ==
    LET x == clean_field(ephe[e], i)
    IN /\ Op
       /\ ephe' = [ephe EXCEPT ![e] = x]
       /\ ephe_ref' = ephe_ref \cup CleanRef(e, i)
       /\ Answer(e, i, x[i])
       /\ Quiet /\ UNCHANGED <<roots, marked, gc, crashed>>

(* ephe_get_field_copy: the copy is allocated, and the field read again, as  *)
(* collections and finalisers may run in between.                            *)
CopyStart(e, i) ==
    /\ Op
    /\ copying' = [e |-> e, i |-> i, shape |-> "none"]
    /\ UNCHANGED <<ephe, cleaned, roots, mem, caml_gc_phase, gc, answered, crashed>>
CopyFits(shape, v) == shape = Shape[v]
ephe_get_field_copy ==
    LET e == copying.e
        i == copying.i
        x == clean_field(ephe[e], i)
        v == x[i]
        inner == IF v = caml_ephe_none THEN {} ELSE {o \in Fields[v] : is_unmarked(o)}
        fits == v = caml_ephe_none \/ CopyFits(copying.shape, v)
    IN /\ copying # NoCopy
       /\ ephe' = [ephe EXCEPT ![e] = x]
       /\ ephe_ref' = ephe_ref \cup CleanRef(e, i)
       /\ IF fits
          THEN /\ copying' = NoCopy
               /\ IF v = caml_ephe_none \/ copying.shape = Shape[v] THEN Answer(e, i, v)
                  ELSE answered' = FALSE /\ UNCHANGED cleaned
               /\ marked' = marked \cup inner
               /\ gc' = IF inner = {} THEN gc ELSE [gc EXCEPT !.marking_done = FALSE]
               /\ roots' = roots \cup (IF v = caml_ephe_none THEN {} ELSE Fields[v])
          ELSE /\ copying' = [copying EXCEPT !.shape = Shape[v]]
               /\ UNCHANGED <<marked, gc, roots, cleaned, answered>>
       /\ UNCHANGED <<young, freed, caml_gc_phase, crashed, ops>>

(* ephe_blit_field: both are cleaned, then the fields copied in an order     *)
(* that suits an ephemeron copied onto itself.                               *)
BlitOrder(os, od, n) ==
    IF od < os THEN [k \in 1..n |-> k - 1] ELSE [k \in 1..n |-> n - k]
BlitFields(c, es, os, ed, od, n) ==
    FoldLeft(LAMBDA h, k :
               [x |-> [h.x EXCEPT ![ed][od + k] = h.x[es][os + k]],
                r |-> SetRef(h.r, ed, od + k, h.x[ed][od + k], h.x[es][os + k])],
             c, BlitOrder(os, od, n))
ephe_blit_field(es, os, ed, od, n) ==
    LET clean == [ephe EXCEPT ![es] = caml_ephe_clean(@), ![ed] = caml_ephe_clean(@)]
        refs == ephe_ref \cup CleanRef(es, Data) \cup CleanRef(ed, Data)
        done == BlitFields([x |-> clean, r |-> refs], es, os, ed, od, n)
    IN /\ ephe' = done.x
       /\ ephe_ref' = done.r
       /\ cleaned' = BlitFields([x |-> cleaned, r |-> {}], es, os, ed, od, n).x
caml_ephe_blit_key(es, os, ed, od, n) ==
    /\ Op /\ (ObjSetters \/ cleaned[ed][Data] = caml_ephe_none)
    /\ os + n - 1 <= NKeys /\ od + n - 1 <= NKeys
    /\ ephe_blit_field(es, os, ed, od, n)
    /\ Quiet /\ UNCHANGED <<answered, roots, marked, gc, crashed>>
(* Data copied is darkened on behalf of no domain: caml_darken(0, ...) uses  *)
(* that domain when the data is unmarked.                                    *)
caml_ephe_blit_data(es, ed) ==
    LET v == ephe'[ed][Data]
    IN /\ Op /\ ObjSetters
       /\ ephe_blit_field(es, Data, ed, Data, 1)
       /\ crashed' = (Is_block(v) /\ is_unmarked(v))
       /\ Quiet /\ UNCHANGED <<answered, roots, marked, gc>>
Drop(o) ==
    /\ o \in roots /\ roots' = roots \ {o}
    /\ copying = NoCopy /\ ~crashed
    /\ UNCHANGED <<ephe, cleaned, mem, caml_gc_phase, gc, copying, answered, crashed, ops>>

------------------------------------------------------------------------------
(* The collector.                                                            *)
Collector == ~crashed /\ UNCHANGED <<roots, copying, answered, crashed, ops>>
Mark ==
    /\ Collector /\ ~gc.marking_done
    /\ marked' = (Reach(marked) \ young)
    /\ gc' = [gc EXCEPT !.marking_done = TRUE, !.ephe_cycle = @ + 1, !.done = FALSE]
    /\ UNCHANGED <<ephe, cleaned, young, freed, ephe_ref, caml_gc_phase>>
(* ephe_mark, one ephemeron of the todo list; a budget may end after each.   *)
(* A key that is still a forward counts as alive; keys after a dead one are  *)
(* not looked at.                                                            *)
Cursor == IF gc.cursor = gc.ephe_cycle THEN gc.seen ELSE 0
Due == caml_gc_phase \in {"mark", "mark_final"} /\ gc.todo # <<>> /\ gc.ephe_cycle > gc.cycle
AliveKey(v) == ~Is_block(v) \/ v \in Forwards \/ ~is_unmarked(v)
ephe_mark ==
    LET n == Cursor + 1
        e == gc.todo[n]
        dead(i) == ~AliveKey(Short(ephe[e][i]))
        x == [i \in Offsets |-> IF i \in Keys /\ \A j \in 1..i - 1 : ~dead(j)
                               THEN Short(ephe[e][i]) ELSE ephe[e][i]]
        alive == \A i \in Keys : ~dead(i)
        g == [gc EXCEPT !.cursor = gc.ephe_cycle]
    IN /\ Collector /\ Due /\ n <= Len(gc.todo)
       /\ ephe' = [ephe EXCEPT ![e] = x]
       /\ IF alive
          THEN /\ marked' = Darkened(x[Data])
               /\ gc' = [g EXCEPT !.todo = RemoveAt(@, n), !.live = <<e>> \o @, !.seen = Cursor,
                                  !.marking_done = DarkenedGc(x[Data]).marking_done]
          ELSE /\ UNCHANGED marked
               /\ gc' = [g EXCEPT !.seen = n]
       /\ UNCHANGED <<cleaned, young, freed, ephe_ref, caml_gc_phase>>
(* The whole list has been seen: ephe_todo_list_emptied, or                  *)
(* record_ephe_marking_done unless something is left to mark.                *)
EpheMarked ==
    /\ Collector
    /\ caml_gc_phase \in {"mark", "mark_final"} /\ gc.ephe_cycle > gc.cycle
    /\ gc.cursor = gc.ephe_cycle /\ gc.seen = Len(gc.todo)
    /\ gc.todo = <<>> => ~gc.done
    /\ gc' = IF gc.todo = <<>> THEN [gc EXCEPT !.ephe_cycle = @ + 1, !.done = TRUE]
             ELSE IF gc.marking_done THEN [gc EXCEPT !.cycle = gc.ephe_cycle, !.done = TRUE]
             ELSE gc
    /\ gc' # gc
    /\ UNCHANGED <<ephe, cleaned, mem, caml_gc_phase>>
(* The phases: with no ephemeron on the todo list the domain is out of the   *)
(* count for good.                                                           *)
Complete == gc.marking_done /\ (gc.done \/ gc.todo = <<>>)
ToMarkFinal ==
    /\ Collector /\ caml_gc_phase = "mark" /\ Complete
    /\ caml_gc_phase' = "mark_final"
    /\ UNCHANGED <<ephe, cleaned, mem, gc>>
(* The live list is swept too.                                               *)
ToSweepEphe ==
    /\ Collector /\ caml_gc_phase = "mark_final" /\ Complete
    /\ caml_gc_phase' = "sweep_ephe"
    /\ gc' = [gc EXCEPT !.todo = gc.todo \o gc.live, !.live = <<>>]
    /\ cleaned' = [e \in Ephes |-> Cleaned(ephe[e])]
    /\ UNCHANGED <<ephe, mem>>
ephe_sweep ==
    LET e == Head(gc.todo)
    IN /\ Collector /\ caml_gc_phase = "sweep_ephe" /\ gc.todo # <<>>
       /\ ephe' = [ephe EXCEPT ![e] = caml_ephe_clean(@)]
       /\ ephe_ref' = ephe_ref \cup ShortRef(e, ephe[e])
       /\ gc' = [gc EXCEPT !.todo = Tail(@), !.live = <<e>> \o @]
       /\ UNCHANGED <<cleaned, young, marked, freed, caml_gc_phase>>
(* The end of the cycle: what is unmarked is garbage.                        *)
CycleEnd ==
    /\ Collector /\ caml_gc_phase = "sweep_ephe" /\ gc.todo = <<>>
    /\ caml_gc_phase' = "over"
    /\ freed' = freed \cup {o \in Objects : is_unmarked(o)}
    /\ marked' = Objects \ (young \cup freed')
    /\ UNCHANGED <<ephe, cleaned, young, ephe_ref, gc>>
(* A minor collection (external): what is reachable from the roots and from  *)
(* the major heap is promoted, remembered fields follow it or are emptied.   *)
MinorKept == young \cap (Reach(roots \cup (Objects \ (young \cup freed)))
                         \cup {ephe[p[1]][p[2]] : p \in {q \in ephe_ref : q[2] = Data}})
Minor(x, dead) ==
    [e \in Ephes |-> [i \in Offsets |-> IF <<e, i>> \in ephe_ref /\ x[e][i] \in dead
                                        THEN caml_ephe_none ELSE x[e][i]]]
MinorCollection ==
    LET dead == young \ MinorKept
    IN /\ Collector /\ young # {}
       /\ young' = {} /\ freed' = freed \cup dead
       /\ marked' = marked \cup MinorKept
       /\ ephe' = Minor(ephe, dead)
       /\ cleaned' = [e \in Ephes |-> [i \in Offsets |->
                        IF cleaned[e][i] \in dead THEN caml_ephe_none ELSE cleaned[e][i]]]
       /\ ephe_ref' = {}
       /\ UNCHANGED <<caml_gc_phase, gc>>

Init ==
    /\ ephe \in Contents /\ cleaned = ephe
    /\ roots \in Held /\ young = Young
    /\ marked = roots \ Young /\ freed = {} /\ ephe_ref = {}
    /\ caml_gc_phase = "mark"
    /\ gc = [todo |-> SetToSeq(Ephes), live |-> <<>>, seen |-> 0, marking_done |-> FALSE,
             cycle |-> 0, cursor |-> 0, ephe_cycle |-> 1, done |-> FALSE]
    /\ copying = NoCopy /\ answered = TRUE /\ crashed = FALSE /\ ops = 0
Program ==
    \/ \E e \in Ephes, i \in Keys :
         \/ \E v \in Reach(roots) : caml_ephe_set_key(e, i, v)
         \/ caml_ephe_unset_key(e, i)
    \/ \E e \in Ephes : \/ \E v \in Reach(roots) : caml_ephe_set_data(e, v)
                       \/ caml_ephe_unset_data(e)
    \/ \E e \in Ephes, i \in Offsets :
         ephe_get_field(e, i) \/ ephe_check_field(e, i) \/ CopyStart(e, i)
    \/ ephe_get_field_copy
    \/ \E es, ed \in Ephes :
         \/ \E os, od, n \in Keys : caml_ephe_blit_key(es, os, ed, od, n)
         \/ caml_ephe_blit_data(es, ed)
    \/ \E o \in Objects : Drop(o)
Gc == Mark \/ ephe_mark \/ EpheMarked \/ ToMarkFinal \/ ToSweepEphe \/ ephe_sweep \/ CycleEnd
      \/ MinorCollection
Next == Program \/ Gc
Spec == Init /\ [][Next]_vars

------------------------------------------------------------------------------
(* What the program holds, and what a field of an ephemeron holds once the   *)
(* cycle is over, has not been freed: get darkens what it returns, the data  *)
(* of an ephemeron whose keys live is marked, and fields that refer to the   *)
(* minor heap are remembered (weak.c, caml_ephe_clean: "If we scanned all    *)
(* the keys and the data field remains filled, then the mark phase must have *)
(* marked it").                                                              *)
NoDangling ==
    /\ Reach(roots) \cap freed = {}
    /\ caml_gc_phase = "over" =>
          \A e \in Ephes, i \in Offsets : ephe[e][i] \notin freed
    /\ \A e \in Ephes, i \in Offsets : ephe[e][i] \in young => <<e, i>> \in ephe_ref

(* While ephemerons are cleaned one by one, every read answers as if all had *)
(* been cleaned at once (weak.c: "the getter and setter must work as if the  *)
(* cleaning of all the ephemerons have been done at once"), and a copy has   *)
(* the shape of the value it was copied from.                                *)
AsIfCleanedAtOnce == answered

(* Copying the data of an ephemeron darkens it "unconditionally"             *)
(* (caml_ephe_blit_data), with no crash.                                     *)
DataBlitDarkens == ~crashed
=============================================================================
