----------------------------- MODULE FrameTable -----------------------------
(* Frame descriptors (runtime/frame_descriptors.c): what the native compiler *)
(* emits for each return address (asmcomp/emitaux.ml), walked with           *)
(* next_frame_descr and kept in a hash table that stack scanning and         *)
(* backtraces search.  Modules loaded at run time register theirs in a       *)
(* stop-the-world section; a domain searches a copy of the table's header.   *)
EXTENDS Integers, Sequences, SequencesExt, FiniteSets, FiniteSetsExt

CONSTANTS Domains,
          Tables,       \* frame tables: [name -> sequence of descriptors]
          Pcs           \* return addresses that are looked up

VARIABLES fds,          \* current_frame_descrs: [num_descr, mask, mem, frametables]
          mem,          \* the arrays of descriptors allocated: [id -> array]
          fresh,
          search        \* [d -> [at, fds, pc, h, found, known]]
vars == <<fds, mem, fresh, search>>

Word == 8
Align_to(p, n) == ((p + n - 1) \div n) * n
(* A descriptor is [ret, live, debug, allocs], allocs <<>> unless the return *)
(* is from a call to the collector; toC marks the return to C.               *)
(* emit_frame: the bytes of a descriptor that starts at p (external to the   *)
(* runtime).                                                                 *)
emit_frame(d, p) ==
    LET live == p + Word + 4 + 2 * d.live
        allocs == IF d.allocs = <<>> THEN live ELSE live + 1 + Len(d.allocs)
        debug == IF ~d.debug THEN allocs
                 ELSE Align_to(allocs, 4) + 4 * (IF d.allocs = <<>> THEN 1 ELSE Len(d.allocs))
    IN Align_to(debug, Word)
(* next_frame_descr: where the next one starts.                              *)
(* A mutant of next_frame_descr: the count of allocations is forgotten.      *)
NextNoCount(d, p) ==
    LET live == p + Word + 4 + 2 * d.live
        allocs == live + Len(d.allocs)
        debug == IF ~d.debug THEN allocs
                 ELSE Align_to(allocs, 4) + 4 * (IF d.allocs = <<>> THEN 1 ELSE Len(d.allocs))
    IN Align_to(debug, Word)
next_frame_descr(d, p) ==
    LET num_allocs == Len(d.allocs)
        live == p + Word + 4 + 2 * d.live
        allocs == IF num_allocs > 0 THEN live + num_allocs + 1 ELSE live
        debug == IF d.debug
                 THEN Align_to(allocs, 4) + 4 * (IF num_allocs > 0 THEN num_allocs ELSE 1)
                 ELSE allocs
    IN IF d.toC THEN Align_to(p + Word + 4, Word) ELSE Align_to(debug, Word)

(* The places at which the descriptors of a table were emitted, and those    *)
(* that the walk visits.                                                     *)
Emitted(s) ==
    FoldLeft(LAMBDA acc, d : Append(acc, emit_frame(d, Last(acc))), <<Word>>, s)
Walked(s) ==
    FoldLeft(LAMBDA acc, d : Append(acc, next_frame_descr(d, Last(acc))), <<Word>>, s)
NoDescr == [ret |-> -1]
DescrAt(s, p) ==
    IF \E k \in DOMAIN s : Emitted(s)[k] = p THEN s[CHOOSE k \in DOMAIN s : Emitted(s)[k] = p]
    ELSE NoDescr
Descrs(name) == [k \in DOMAIN Tables[name] |-> DescrAt(Tables[name], Walked(Tables[name])[k])]

------------------------------------------------------------------------------
count_descriptors(list) == FoldLeft(LAMBDA n, x : n + Len(Tables[x]), 0, list)
capacity(f) == f.mask + 1
Hash_retaddr(addr, mask) == (addr \div 8) % (mask + 1)
RECURSIVE FreeFrom(_, _, _)
FreeFrom(arr, h, mask) ==
    IF arr[h] = NoDescr THEN h ELSE FreeFrom(arr, (h + 1) % (mask + 1), mask)
fill_hashtable(arr, mask, list) ==
    FoldLeft(LAMBDA acc, name :
               FoldLeft(LAMBDA a, d :
                          [a EXCEPT ![FreeFrom(a, Hash_retaddr(d.ret, mask), mask)] = d],
                        acc, Descrs(name)),
             arr, list)
RECURSIVE Doubled(_, _)
Doubled(size, want) == IF size < want THEN Doubled(2 * size, want) ELSE size
(* A mutant of TooSmall: a full table is large enough.                       *)
TooSmallFull(f, increase) == capacity(f) < f.num_descr + increase
TooSmall(f, increase) == capacity(f) < (f.num_descr + increase) * 2
add_frame_descriptors(new) ==
    LET increase == count_descriptors(new)
        all == new \o fds.frametables
        num == count_descriptors(all)
        size == Doubled(4, 2 * num)
    IN IF TooSmall(fds, increase)
       THEN /\ fds' = [num_descr |-> num, mask |-> size - 1, mem |-> fresh, frametables |-> all]
            /\ mem' = [x \in {fresh} |->
                         fill_hashtable([h \in 0..size - 1 |-> NoDescr], size - 1, all)]
            /\ fresh' = fresh + 1
       ELSE /\ fds' = [fds EXCEPT !.num_descr = @ + increase, !.frametables = all]
            /\ mem' = [mem EXCEPT ![fds.mem] = fill_hashtable(@, fds.mask, new)]
            /\ UNCHANGED fresh

NoSearch == [at |-> "idle", fds |-> [mask |-> 0, mem |-> 0], pc |-> 0, h |-> 0, found |-> NoDescr,
             known |-> FALSE]
Registered == ToSet(fds.frametables)
KnownRets == UNION {{Tables[n][k].ret : k \in DOMAIN Tables[n]} : n \in Registered}
(* caml_init_frame_descriptors, with the tables of the program itself.       *)
caml_init_frame_descriptors(list) ==
    /\ fresh = 1 /\ add_frame_descriptors(list)
    /\ UNCHANGED search
(* caml_register_frametables: every domain is at a safe point.               *)
caml_register_frametables(list) ==
    /\ fresh > 1 /\ \A d \in Domains : search[d].at # "probe"
    /\ ToSet(list) \cap Registered = {}
    /\ add_frame_descriptors(list)
    /\ UNCHANGED search
(* caml_find_frame_descr, on the copy that caml_get_frame_descrs gave.       *)
caml_get_frame_descrs(d, pc) ==
    /\ fresh > 1 /\ search[d].at = "idle"
    /\ search' = [search EXCEPT ![d] = [at |-> "probe", fds |-> [mask |-> fds.mask, mem |-> fds.mem],
                                       pc |-> pc, h |-> Hash_retaddr(pc, fds.mask),
                                       found |-> NoDescr, known |-> pc \in KnownRets]]
    /\ UNCHANGED <<fds, mem, fresh>>
caml_find_frame_descr(d) ==
    LET s == search[d]
        x == mem[s.fds.mem][s.h]
    IN /\ s.at = "probe" /\ s.fds.mem \in DOMAIN mem
       /\ search' = [search EXCEPT ![d] =
                       IF x = NoDescr \/ x.ret = s.pc THEN [s EXCEPT !.at = "done", !.found = x]
                       ELSE [s EXCEPT !.h = (@ + 1) % (s.fds.mask + 1)]]
       /\ UNCHANGED <<fds, mem, fresh>>
Return(d) ==
    /\ search[d].at = "done" /\ search' = [search EXCEPT ![d] = NoSearch]
    /\ UNCHANGED <<fds, mem, fresh>>

Init ==
    /\ fds = [num_descr |-> 0, mask |-> -1, mem |-> 0, frametables |-> <<>>]
    /\ mem = [x \in {} |-> 0] /\ fresh = 1
    /\ search = [d \in Domains |-> NoSearch]
Names == DOMAIN Tables
Next ==
    \/ \E n \in Names : caml_init_frame_descriptors(<<n>>)
    \/ \E n \in Names : caml_register_frametables(<<n>>)
    \/ \E n, m \in Names : n # m /\ caml_register_frametables(<<n, m>>)
    \/ \E d \in Domains : (\E pc \in Pcs : caml_get_frame_descrs(d, pc)) \/ caml_find_frame_descr(d)
                          \/ Return(d)
Spec == Init /\ [][Next]_vars

(* A search finds the descriptor of every return address that is registered  *)
(* and nothing for others; it ends, as the table is at most half full, and   *)
(* the array it reads has not been freed (add_frame_descriptors: "The size   *)
(* of the hashtable is a power of 2 that must remain greater or equal to 2   *)
(* times the number of descriptors").                                        *)
FramesFound ==
    /\ fresh > 1 => 2 * fds.num_descr <= capacity(fds)
    /\ \A d \in Domains :
         LET s == search[d]
         IN /\ s.at = "probe" => s.fds.mem \in DOMAIN mem
            /\ s.at = "done" => s.found.ret = (IF s.known THEN s.pc ELSE -1)
=============================================================================
