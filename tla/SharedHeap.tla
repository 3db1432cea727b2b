------------------------------ MODULE SharedHeap ------------------------------
(***************************************************************************)
(* The shared heap (runtime/shared_heap.c): pools of equal slots and large *)
(* blocks, their lists in each domain and in the global freelist,          *)
(* allocation, sweeping, the adoption of the pools of terminated domains,  *)
(* the change of cycle and compaction.  Marking is the environment: see    *)
(* Marking.  Bounds: one size class, blocks with one field, and memory for *)
(* the pools of Pools and the large blocks of Large only.                  *)
(***************************************************************************)
EXTENDS Integers, Sequences, FiniteSets, SequencesExt, FiniteSetsExt

CONSTANTS
  Domains,
  Pools, Slots,   \* addresses of pools; slots are 1..Slots
  Large,          \* addresses of large blocks
  Allocs, Cycles, Compactions, Deaths, Work     \* bounds, of each and of all together

VARIABLES
  mem,       \* [pool or large -> slots]: headers, identities and fields
  next_obj,  \* [pool -> sequence of free slots]
  heap,      \* [domain -> struct caml_heap_state, or Dead]
  freelist,  \* pool_freelist
  mapped,    \* the addresses that are in use
  root,      \* [domain -> reference]
  pc,        \* [domain -> what it is doing]
  stw,       \* the phase of the section that all domains run, or "none"
  arrived,   \* the domains that have finished that phase
  evacuated, \* [domain -> pools evacuated by compaction]
  n          \* counters for the bounds, and for fresh identities

vars == <<mem, next_obj, heap, freelist, mapped, root, pc, stw, arrived, evacuated, n>>

UNMARKED == 1
MARKED == 2
GARBAGE == 3

Null == [at |-> <<>>, id |-> 0]           \* a reference to no block
Empty == [hd |-> 0, id |-> 0, field |-> Null]
Dead == [avail |-> <<>>, full |-> <<>>, unswept_avail |-> <<>>, unswept_full |-> <<>>,
         swept_large |-> <<>>, unswept_large |-> <<>>,
         live_blocks |-> 0, pools |-> 0, large_blocks |-> 0, owner |-> FALSE]
(* caml_init_shared_heap *)
NewHeap == [Dead EXCEPT !.owner = TRUE]
Alive == {d \in Domains : heap[d].owner}
Block(a) == mem[a[1]][a[2]]
SlotsOf(p) == 1..Len(mem[p])

Init ==
  /\ mem = [p \in Pools \union Large |-> IF p \in Pools THEN [i \in 1..Slots |-> Empty] ELSE <<Empty>>]
  /\ next_obj = [p \in Pools |-> <<>>]
  /\ heap = [d \in Domains |-> NewHeap]
  /\ freelist = [free |-> <<>>, avail |-> <<>>, full |-> <<>>, large |-> <<>>,
                 live_blocks |-> 0, pools |-> 0, large_blocks |-> 0]
  /\ mapped = {} /\ root = [d \in Domains |-> Null]
  /\ pc = [d \in Domains |-> "idle"]
  /\ stw = "none" /\ arrived = {} /\ evacuated = [d \in Domains |-> <<>>]
  /\ n = [alloc |-> 0, cycle |-> 0, compact |-> 0, death |-> 0]

-----------------------------------------------------------------------------
(* Sweeping                                                                *)

Garbage(p) == {i \in SlotsOf(p) : mem[p][i].hd = GARBAGE}
Swept(p) == [i \in SlotsOf(p) |-> IF mem[p][i].hd = GARBAGE THEN Empty ELSE mem[p][i]]

(* Mutation: a pool is released although blocks that are not garbage are   *)
(* left in it.                                                             *)
SomeGarbage(p) == Garbage(p) # {}

(* No block survives in the pool.                                          *)
NoLive(p) == \A i \in SlotsOf(p) : mem[p][i].hd \in {0, GARBAGE}

(* Mutation: slots that were free go to the freelist again.                *)
FreeAgain(p) == Reverse(SetToSortSeq({i \in SlotsOf(p) : mem[p][i].hd \in {0, GARBAGE}}, <)) \o next_obj[p]

(* The freelist of the pool once its garbage is on it.                     *)
FreeSlots(p) == Reverse(SetToSortSeq(Garbage(p), <)) \o next_obj[p]

(* pool_sweep of the first pool of a list of heap h (the list named l):    *)
(* the garbage goes to the pool's freelist in the order of the slots, and  *)
(* the pool to the global freelist, or to the full or the available pools. *)
PoolSweep(d, h, l, release) ==
  LET p    == Head(h[l])
      free == FreeSlots(p)
      gone == release /\ NoLive(p)
      to   == IF free = <<>> THEN "full" ELSE "avail"
      h1   == [h EXCEPT ![l] = Tail(@), !.live_blocks = @ - Cardinality(Garbage(p))]
  IN /\ mem' = [mem EXCEPT ![p] = Swept(p)]
     /\ next_obj' = [next_obj EXCEPT ![p] = free]
     /\ heap' = [heap EXCEPT ![d] =
          IF gone THEN [h1 EXCEPT !.pools = @ - 1] ELSE [h1 EXCEPT ![to] = <<p>> \o @]]

(* large_alloc_sweep *)
LargeSweep(d) ==
  LET l == Head(heap[d].unswept_large)
      h == [heap[d] EXCEPT !.unswept_large = Tail(@)]
  IN IF mem[l][1].hd = GARBAGE
     THEN /\ mem' = [mem EXCEPT ![l] = <<Empty>>] /\ mapped' = mapped \ {l}
          /\ heap' = [heap EXCEPT ![d] = [h EXCEPT !.large_blocks = @ - 1]]
     ELSE /\ heap' = [heap EXCEPT ![d] = [h EXCEPT !.swept_large = <<l>> \o @]]
          /\ UNCHANGED <<mem, mapped>>

PoolsSwept(d) == heap[d].unswept_avail = <<>> /\ heap[d].unswept_full = <<>>

(* A step of caml_sweep: an available pool, a full pool or, when they are  *)
(* all swept, a large block.  (work decides which full pools follow the *)
(* available ones; here any order.)                                        *)
Sweep(d) ==
  /\ d \in Alive /\ pc[d] = "idle" /\ stw = "none"
  /\ \/ \E l \in {"unswept_avail", "unswept_full"} :
          /\ heap[d][l] # <<>> /\ PoolSweep(d, heap[d], l, TRUE)
          /\ freelist' = [freelist EXCEPT !.free =
               IF NoLive(Head(heap[d][l])) THEN <<Head(heap[d][l])>> \o @ ELSE @]
          /\ UNCHANGED mapped
     \/ /\ PoolsSwept(d) /\ heap[d].unswept_large # <<>>
        /\ LargeSweep(d) /\ UNCHANGED <<next_obj, freelist>>
  /\ UNCHANGED <<root, pc, stw, arrived, evacuated, n>>

SweepingDone(d) == PoolsSwept(d) /\ heap[d].unswept_large = <<>>

-----------------------------------------------------------------------------
(* Allocation                                                              *)

(* A fresh block, that refers to the block the domain had before.          *)
Fresh(d) == [hd |-> MARKED, id |-> n.alloc + 1, field |-> root[d]]
Made(d, a) ==
  /\ root' = [root EXCEPT ![d] = [at |-> a, id |-> n.alloc + 1]]
  /\ n' = [n EXCEPT !.alloc = @ + 1]
  /\ pc' = [pc EXCEPT ![d] = "idle"]

Done == n.alloc + n.cycle + n.compact + n.death

(* A domain that allocates, or goes on with an allocation.                 *)
Allocating(d) ==
  /\ d \in Alive /\ stw = "none" /\ pc[d] \in {"idle", "find"}
  /\ LET others == Cardinality({e \in Domains \ {d} : pc[e] # "idle"}) IN
     n.alloc + others < Allocs /\ Done + others < Work

(* pool_find sweeps until a pool is available.                             *)
FindSweep(d) ==
  /\ Allocating(d) /\ heap[d].avail = <<>> /\ heap[d].unswept_avail # <<>>
  /\ PoolSweep(d, heap[d], "unswept_avail", FALSE)
  /\ pc' = [pc EXCEPT ![d] = "find"]
  /\ UNCHANGED <<freelist, mapped, root, stw, arrived, evacuated, n>>

(* A pool with no free slot left moves to the full pools.                  *)
FillPool(h, p, rest) ==
  IF rest = <<>> THEN [h EXCEPT !.avail = Tail(@), !.full = <<p>> \o @] ELSE h

(* pool_allocate and caml_shared_try_alloc, once a pool is found.          *)
PoolAllocate(d) ==
  /\ Allocating(d) /\ heap[d].avail # <<>>
  /\ LET p == Head(heap[d].avail)
         i == Head(next_obj[p])
     IN /\ mem' = [mem EXCEPT ![p][i] = Fresh(d)]
        /\ next_obj' = [next_obj EXCEPT ![p] = Tail(@)]
        /\ heap' = [heap EXCEPT ![d] = [FillPool(@, p, Tail(next_obj[p])) EXCEPT !.live_blocks = @ + 1]]
        /\ Made(d, <<p, i>>)
  /\ UNCHANGED <<freelist, mapped, stw, arrived, evacuated>>

LiveIn(p) == Cardinality({i \in SlotsOf(p) : mem[p][i].hd # 0})

(* adopt_pool_stats_with_lock *)
AdoptStats(h, p) == [h EXCEPT !.live_blocks = @ + LiveIn(p), !.pools = @ + 1]
LeaveStats(p) == [freelist EXCEPT !.live_blocks = @ - LiveIn(p), !.pools = @ - 1]

(* pool_global_adopt: an available pool of the global lists, or a full one *)
(* that is swept at once.                                                  *)
Adopt(d) ==
  /\ Allocating(d) /\ heap[d].avail = <<>> /\ heap[d].unswept_avail = <<>>
  /\ \/ /\ freelist.avail # <<>>
        /\ LET p == Head(freelist.avail) IN
           /\ heap' = [heap EXCEPT ![d] = [AdoptStats(@, p) EXCEPT !.avail = <<p>>]]
           /\ freelist' = [LeaveStats(p) EXCEPT !.avail = Tail(@)]
        /\ pc' = [pc EXCEPT ![d] = "find"]
        /\ UNCHANGED <<mem, next_obj>>
     \/ /\ freelist.avail = <<>> /\ freelist.full # <<>>
        /\ LET p == Head(freelist.full) IN
           /\ PoolSweep(d, [AdoptStats(heap[d], p) EXCEPT !.full = <<p>> \o @], "full", FALSE)
           /\ freelist' = [LeaveStats(p) EXCEPT !.full = Tail(@)]
           /\ pc' = [pc EXCEPT ![d] = IF heap'[d].avail = <<>> THEN "acquire" ELSE "find"]
     \/ /\ freelist.avail = <<>> /\ freelist.full = <<>>
        /\ pc' = [pc EXCEPT ![d] = "acquire"]
        /\ UNCHANGED <<mem, next_obj, heap, freelist>>
  /\ UNCHANGED <<mapped, root, stw, arrived, evacuated, n>>

(* pool_initialize: all slots are free, the last one first.                *)
InitialFree == Reverse([i \in 1..Slots |-> i])

(* pool_acquire, from the free pools or newly mapped; or out of memory.    *)
Acquire(d) ==
  /\ pc[d] = "acquire"
  /\ \/ \E p \in IF freelist.free # <<>> THEN {Head(freelist.free)} ELSE Pools \ mapped :
          /\ freelist' = [freelist EXCEPT !.free = IF @ = <<>> THEN @ ELSE Tail(@)]
          /\ mapped' = mapped \union {p}
          /\ mem' = [mem EXCEPT ![p] = [i \in 1..Slots |-> Empty]]
          /\ next_obj' = [next_obj EXCEPT ![p] = InitialFree]
          /\ heap' = [heap EXCEPT ![d].avail = <<p>>, ![d].pools = @ + 1]
          /\ pc' = [pc EXCEPT ![d] = "find"]
     \/ /\ freelist.free = <<>> /\ Pools \subseteq mapped
        /\ pc' = [pc EXCEPT ![d] = "idle"]
        /\ UNCHANGED <<mem, next_obj, heap, freelist, mapped>>
  /\ UNCHANGED <<root, stw, arrived, evacuated, n>>

(* large_allocate *)
LargeAllocate(d) ==
  /\ Allocating(d) /\ pc[d] = "idle"
  /\ \E l \in Large \ mapped :
       /\ mapped' = mapped \union {l}
       /\ mem' = [mem EXCEPT ![l] = <<Fresh(d)>>]
       /\ heap' = [heap EXCEPT ![d].swept_large = <<l>> \o @, ![d].large_blocks = @ + 1]
       /\ Made(d, <<l, 1>>)
  /\ UNCHANGED <<next_obj, freelist, stw, arrived, evacuated>>

-----------------------------------------------------------------------------
(* The program                                                             *)

(* A domain follows the field of its block, or gets a copy of the reference  *)
(* of another domain.                                                      *)
Mutate(d) ==
  /\ d \in Alive /\ pc[d] = "idle" /\ stw = "none" /\ root[d] # Null
  /\ root' = [root EXCEPT ![d] = Block(root[d].at).field]
  /\ UNCHANGED <<mem, next_obj, heap, freelist, mapped, pc, stw, arrived, evacuated, n>>

Share(d, e) ==
  /\ {d, e} \subseteq Alive /\ pc[d] = "idle" /\ pc[e] = "idle" /\ stw = "none"
  /\ root[d] # Null /\ root[e] = Null
  /\ root' = [root EXCEPT ![e] = root[d]]
  /\ UNCHANGED <<mem, next_obj, heap, freelist, mapped, pc, stw, arrived, evacuated, n>>

(* caml_teardown_shared_heap, after caml_finish_sweeping: the pools and the*)
(* large blocks are left to the other domains.                             *)
Teardown(d) ==
  /\ d \in Alive /\ Alive # {d} /\ pc[d] = "idle" /\ stw = "none" /\ n.death < Deaths /\ Done < Work
  /\ SweepingDone(d)
  /\ freelist' = [freelist EXCEPT
       !.avail = Reverse(heap[d].avail) \o @, !.full = Reverse(heap[d].full) \o @,
       !.large = Reverse(heap[d].swept_large) \o @,
       !.live_blocks = @ + heap[d].live_blocks, !.pools = @ + heap[d].pools,
       !.large_blocks = @ + heap[d].large_blocks]
  /\ heap' = [heap EXCEPT ![d] = Dead] /\ root' = [root EXCEPT ![d] = Null]
  /\ n' = [n EXCEPT !.death = @ + 1]
  /\ UNCHANGED <<mem, next_obj, mapped, pc, stw, arrived, evacuated>>

(* caml_init_shared_heap, when the slot is used by a new domain.           *)
Spawn(d) ==
  /\ d \notin Alive /\ stw = "none"
  /\ heap' = [heap EXCEPT ![d] = NewHeap]
  /\ UNCHANGED <<mem, next_obj, freelist, mapped, root, pc, stw, arrived, evacuated, n>>

-----------------------------------------------------------------------------
(* The change of cycle                                                     *)

Reachable ==
  LET reach[k \in Nat] ==
        IF k = 0 THEN {root[d].at : d \in Domains} \ {<<>>}
        ELSE reach[k - 1] \union ({Block(a).field.at : a \in reach[k - 1]} \ {<<>>})
  IN reach[Allocs]

(* The section begins.  Marking has reached what is reachable and left     *)
(* what was allocated since; then caml_cycle_heap_from_stw_single rotates  *)
(* the colours: MARKED becomes UNMARKED, UNMARKED becomes GARBAGE.         *)
CycleStart ==
  /\ stw = "none" /\ n.cycle < Cycles /\ Done < Work
  /\ \A d \in Alive : pc[d] = "idle" /\ SweepingDone(d)
  /\ mem' = [p \in DOMAIN mem |-> [i \in SlotsOf(p) |->
       [mem[p][i] EXCEPT !.hd = IF @ = 0 THEN 0
                                ELSE IF @ = MARKED \/ <<p, i>> \in Reachable THEN UNMARKED
                                ELSE GARBAGE]]]
  /\ stw' = "cycle" /\ arrived' = {} /\ n' = [n EXCEPT !.cycle = @ + 1]
  /\ UNCHANGED <<next_obj, heap, freelist, mapped, root, pc, evacuated>>

Arrive(d, phase) == stw = phase /\ d \in Alive \ arrived /\ arrived' = arrived \union {d}

(* Mutation: the statistics of the orphans are not taken over.             *)
LeaveOrphans(h, received) == h

(* adopt_all_pool_stats_with_lock, if anything was received.               *)
AdoptAllStats(h, received) ==
  IF received
  THEN [h EXCEPT !.live_blocks = @ + freelist.live_blocks, !.pools = @ + freelist.pools,
                 !.large_blocks = @ + freelist.large_blocks]
  ELSE h

(* caml_cycle_heap: everything is unswept, the orphans' pools included.    *)
CycleHeap(d) ==
  /\ Arrive(d, "cycle")
  /\ LET h == heap[d]
         received == freelist.avail # <<>> \/ freelist.full # <<>> \/ freelist.large # <<>>
     IN
     /\ heap' = [heap EXCEPT ![d] = AdoptAllStats(
          [h EXCEPT !.unswept_avail = Reverse(freelist.avail) \o h.avail, !.avail = <<>>,
                    !.unswept_full = Reverse(freelist.full) \o h.full, !.full = <<>>,
                    !.unswept_large = Reverse(freelist.large) \o h.swept_large,
                    !.swept_large = <<>>], received)]
     /\ freelist' = [freelist EXCEPT !.avail = <<>>, !.full = <<>>, !.large = <<>>,
          !.live_blocks = IF received THEN 0 ELSE @, !.pools = IF received THEN 0 ELSE @,
          !.large_blocks = IF received THEN 0 ELSE @]
  /\ UNCHANGED <<mem, next_obj, mapped, root, pc, stw, evacuated, n>>

(* The barriers between the phases.                                        *)
Barrier ==
  /\ stw # "none" /\ arrived = Alive
  /\ \E next \in {<<"cycle", "none">>, <<"cycle", "evacuate">>, <<"evacuate", "forward">>,
                  <<"forward", "release">>, <<"release", "none">>} :
       /\ next[1] = stw
       /\ next[2] = "evacuate" => n.compact < Compactions /\ Done < Work
       /\ stw' = next[2]
       /\ n' = [n EXCEPT !.compact = @ + (IF next[2] = "evacuate" THEN 1 ELSE 0)]
       (* the pools of the freelist are unmapped after the last barrier *)
       /\ IF stw = "release"
          THEN /\ mapped' = mapped \ ToSet(freelist.free)
               /\ freelist' = [freelist EXCEPT !.free = <<>>]
          ELSE UNCHANGED <<mapped, freelist>>
  /\ arrived' = {}
  /\ UNCHANGED <<mem, next_obj, heap, root, pc, evacuated>>

-----------------------------------------------------------------------------
(* Compaction: caml_compact_heap                                           *)

Count(p, h) == Cardinality({i \in SlotsOf(p) : mem[p][i].hd = h})

SumOver(s, k1, k2, h) == FoldFunction(+, 0, [i \in k1..k2 |-> Count(s[i], h)])

(* The free slots of the first k pools hold the live blocks of the others. *)
Enough(s, k) == SumOver(s, 1, k, 0) >= SumOver(s, k + 1, Len(s), UNMARKED)

(* How many of the partially filled pools stay.                            *)
Kept(s) == Min({k \in 0..Len(s) : Enough(s, k)})

(* One live block moves to the first free slot of the pools that stay; the *)
(* old slot is MARKED and holds the new address.                           *)
Evacuate(st, a) ==
  LET p == Head(st.avail)
      i == Head(st.next[p])
      rest == Tail(st.next[p])
  IN [st EXCEPT !.mem = [@ EXCEPT ![p][i] = mem[a[1]][a[2]],
                                  ![a[1]][a[2]] = [hd |-> MARKED, id |-> 0, field |-> [at |-> <<p, i>>, id |-> 0]]],
                !.next[p] = rest,
                !.avail = IF rest = <<>> THEN Tail(@) ELSE @,
                !.full = IF rest = <<>> THEN <<p>> \o @ ELSE @]

(* The first phase.  Without a live block the size class is left alone.    *)
EvacuatePhase(d) ==
  /\ Arrive(d, "evacuate")
  /\ LET s    == heap[d].unswept_avail
         k    == IF SumOver(s, 1, Len(s), UNMARKED) = 0 THEN Len(s) ELSE Kept(s)
         out  == SubSeq(s, k + 1, Len(s))
         todo == FlattenSeq([j \in 1..Len(out) |->
                   SetToSortSeq({<<out[j], i>> : i \in {x \in 1..Slots : mem[out[j]][x].hd = UNMARKED}},
                                LAMBDA a, b : a[2] < b[2])])
         st   == FoldLeft(Evacuate, [mem |-> mem, next |-> next_obj, avail |-> SubSeq(s, 1, k),
                                     full |-> heap[d].unswept_full], todo)
     IN /\ mem' = st.mem /\ next_obj' = st.next
        /\ heap' = [heap EXCEPT ![d].unswept_avail = st.avail, ![d].unswept_full = st.full]
        /\ evacuated' = [evacuated EXCEPT ![d] = Reverse(out)]
  /\ UNCHANGED <<freelist, mapped, root, pc, stw, n>>

(* What a domain updates in the second phase, besides its roots.           *)
Updated(d) == ToSet(heap[d].unswept_avail) \union ToSet(heap[d].unswept_full)
              \union ToSet(heap[d].unswept_large)

(* compact_update_value: a reference to an evacuated block is replaced by  *)
(* the forwarding pointer.  Large blocks do not move.                      *)
Forward(r) ==
  IF r # Null /\ r.at[1] \in Pools /\ Block(r.at).hd = MARKED
  THEN [r EXCEPT !.at = Block(r.at).field.at] ELSE r

ForwardPhase(d) ==
  /\ Arrive(d, "forward")
  /\ root' = [root EXCEPT ![d] = Forward(@)]
  /\ mem' = [p \in DOMAIN mem |-> IF p \notin Updated(d) THEN mem[p]
             ELSE [i \in SlotsOf(p) |-> IF mem[p][i].hd = UNMARKED
                     THEN [mem[p][i] EXCEPT !.field = Forward(@)] ELSE mem[p][i]]]
  /\ UNCHANGED <<next_obj, heap, freelist, mapped, pc, stw, evacuated, n>>

(* pool_free of the evacuated pools.                                       *)
ReleasePhase(d) ==
  /\ Arrive(d, "release")
  /\ mapped' = mapped \ ToSet(evacuated[d])
  /\ mem' = [p \in DOMAIN mem |-> IF p \in ToSet(evacuated[d]) THEN [i \in 1..Slots |-> Empty] ELSE mem[p]]
  /\ next_obj' = [p \in Pools |-> IF p \in ToSet(evacuated[d]) THEN <<>> ELSE next_obj[p]]
  /\ heap' = [heap EXCEPT ![d].pools = @ - Len(evacuated[d])]
  /\ evacuated' = [evacuated EXCEPT ![d] = <<>>]
  /\ UNCHANGED <<freelist, root, pc, stw, n>>

Next ==
  \/ \E d \in Domains :
       \/ Sweep(d) \/ FindSweep(d) \/ PoolAllocate(d) \/ Adopt(d)
       \/ Acquire(d) \/ LargeAllocate(d) \/ Mutate(d) \/ Teardown(d) \/ Spawn(d)
       \/ CycleHeap(d) \/ EvacuatePhase(d) \/ ForwardPhase(d) \/ ReleasePhase(d)
       \/ \E e \in Domains : Share(d, e)
  \/ CycleStart \/ Barrier

Spec == Init /\ [][Next]_vars

-----------------------------------------------------------------------------
(* What a domain holds; what the freelist holds.                           *)
Held(d) ==
  LET h == heap[d] IN h.avail \o h.full \o h.unswept_avail \o h.unswept_full
                      \o h.swept_large \o h.unswept_large \o evacuated[d]
HeldGlobally == freelist.free \o freelist.avail \o freelist.full \o freelist.large

(* Every pool and every large block in memory is in exactly one list of    *)
(* one domain or of the freelist, and the slots on a pool's freelist are   *)
(* its empty slots, each once: no memory is lost, or owned twice.          *)
OwnedOnce ==
  /\ mapped = UNION {ToSet(Held(d)) : d \in Domains} \union ToSet(HeldGlobally)
  /\ IsInjective(HeldGlobally)
  /\ \A d \in Domains :
       /\ IsInjective(Held(d)) /\ ToSet(Held(d)) \intersect ToSet(HeldGlobally) = {}
       /\ \A e \in Domains \ {d} : ToSet(Held(d)) \intersect ToSet(Held(e)) = {}
  /\ \A p \in mapped \intersect Pools :
       p \notin UNION {ToSet(evacuated[d]) : d \in Domains} \union ToSet(freelist.free) =>
         /\ IsInjective(next_obj[p])
         /\ ToSet(next_obj[p]) = {i \in 1..Slots : mem[p][i].hd = 0}

(* A reference that the program can follow leads to the block it was made  *)
(* for: sweeping, adoption and compaction never free it, give its slot     *)
(* away or leave a stale address (outside the phases of compaction).       *)
Intact ==
  stw \in {"none", "cycle"} =>
    /\ \A d \in Domains : root[d] # Null => Block(root[d].at).id = root[d].id
    /\ \A a \in Reachable : LET r == Block(a).field IN
         /\ Block(a).hd # 0
         /\ r # Null => Block(r.at).id = r.id

LiveBlocks(d) ==
  FoldFunction(+, 0, [p \in Pools |-> IF p \in ToSet(heap[d].avail) \union ToSet(heap[d].full)
      \union ToSet(heap[d].unswept_avail) \union ToSet(heap[d].unswept_full) THEN LiveIn(p) ELSE 0])
PoolsOf(d) == Len(heap[d].avail) + Len(heap[d].full) + Len(heap[d].unswept_avail)
              + Len(heap[d].unswept_full)

(* verify_swept: "Check stats are being computed correctly".  Once a domain*)
(* has swept everything, its statistics are those of its lists.            *)
StatsExact ==
  \A d \in Alive : stw = "none" /\ pc[d] = "idle" /\ SweepingDone(d) =>
    /\ heap[d].live_blocks = LiveBlocks(d)
    /\ heap[d].pools = PoolsOf(d)
    /\ heap[d].large_blocks = Len(heap[d].swept_large)

(* The statistics never fall short of the blocks, with the orphans' pools  *)
(* handed over at any time and compaction: no counter goes below zero.     *)
StatsCover ==
  stw = "none" => \A d \in Alive :
    /\ heap[d].live_blocks >= LiveBlocks(d)
    /\ heap[d].pools = PoolsOf(d)
    /\ heap[d].large_blocks = Len(heap[d].swept_large) + Len(heap[d].unswept_large)
=============================================================================
