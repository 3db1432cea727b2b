------------------------------ MODULE StatPool ------------------------------
(* Memory outside the heap (runtime/memory.c): with pooling,                 *)
(* every block is in a ring that caml_shutdown frees (startup_aux.c).        *)
(* Threads allocate, resize and free concurrently; the ring has a lock, the  *)
(* C library's malloc, realloc and free do not need one.                     *)
EXTENDS Integers, Sequences, FiniteSets

CONSTANTS Threads, MaxBlocks, Width, Page_size

VARIABLES pool,                 \* "null", or the pivot 0 of the ring
          next, prev,           \* links of the blocks
          memory,               \* [id -> size] of what malloc gave and free has not taken
          fresh,                \* the next block malloc gives
          pc,                   \* what each thread is doing: [at, b, need]
          held,                 \* blocks each thread has: [id -> bytes it uses]
          startup_count, shutdown_happened,
          aligned               \* the last aligned allocation
vars == <<pool, next, prev, memory, fresh, pc, held, startup_count, shutdown_happened, aligned>>

Pivot == 0
Ids == 1..MaxBlocks
Empty == [x \in {} |-> 0]
Idle == [at |-> "idle", b |-> 0, need |-> 0]
With(f, x, y) == [z \in DOMAIN f \cup {x} |-> IF z = x THEN y ELSE f[z]]
Without(f, x) == [z \in DOMAIN f \ {x} |-> f[z]]
Uint(n) == n % 2^Width

Init ==
    /\ pool = "null" /\ next = Empty /\ prev = Empty /\ memory = Empty /\ fresh = 1
    /\ pc = [t \in Threads |-> Idle] /\ held = [t \in Threads |-> Empty]
    /\ startup_count = 0 /\ shutdown_happened = FALSE
    /\ aligned = [raw |-> 0, sz |-> 0, modulo |-> 0, result |-> 0]

------------------------------------------------------------------------------
(* The ring.                                                                 *)
Linked(b) ==
    /\ next' = With(With(next, b, next[Pivot]), Pivot, b)
    /\ prev' = With(With(prev, b, Pivot), next[Pivot], b)
Unlinked(b) ==
    /\ next' = [next EXCEPT ![prev[b]] = next[b]]
    /\ prev' = [prev EXCEPT ![next[b]] = prev[b]]
caml_stat_create_pool ==
    IF pool = "null"
    THEN /\ pool' = "pool" /\ next' = With(next, Pivot, Pivot) /\ prev' = With(prev, Pivot, Pivot)
    ELSE UNCHANGED <<pool, next, prev>>
(* From the pivot on, following next.                                        *)
RECURSIVE RingFrom(_, _)
RingFrom(b, left) == IF b = Pivot \/ left = 0 THEN {} ELSE {b} \cup RingFrom(next[b], left - 1)
Ring == IF pool = "null" THEN {} ELSE RingFrom(next[Pivot], MaxBlocks + 1)
caml_stat_destroy_pool ==
    /\ pool' = "null"
    /\ memory' = [b \in DOMAIN memory \ Ring |-> memory[b]]
    /\ next' = Empty /\ prev' = Empty

(* Startups nest; the last shutdown frees everything, when no other thread   *)
(* runs the runtime's code, and nothing may follow it.                       *)
caml_startup_aux(pooling) ==
    /\ ~shutdown_happened /\ startup_count < 2
    /\ startup_count' = startup_count + 1
    /\ IF startup_count = 0 /\ pooling THEN caml_stat_create_pool
       ELSE UNCHANGED <<pool, next, prev>>
    /\ UNCHANGED <<memory, fresh, pc, held, shutdown_happened, aligned>>
(* A mutant of LastShutdown: the first shutdown frees everything.            *)
FirstShutdown == TRUE
LastShutdown == startup_count = 1
caml_shutdown ==
    /\ startup_count > 0 /\ \A t \in Threads : pc[t] = Idle
    /\ startup_count' = startup_count - 1
    /\ IF LastShutdown
       THEN caml_stat_destroy_pool /\ shutdown_happened' = TRUE
       ELSE UNCHANGED <<pool, next, prev, memory, shutdown_happened>>
    /\ UNCHANGED <<fresh, pc, held, aligned>>

------------------------------------------------------------------------------
(* An aligned allocation, an operator on addresses, ends a behaviour.        *)
(* Allocation: sz bytes, of which the caller will use `need'.                *)
Running == startup_count > 0 /\ aligned.raw = 0
Got(t, b, need) == held' = [held EXCEPT ![t] = With(@, b, need)]
caml_stat_alloc_noexc(t, sz, need) ==
    /\ Running /\ pc[t] = Idle /\ fresh <= MaxBlocks
    /\ memory' = With(memory, fresh, sz) /\ fresh' = fresh + 1
    /\ IF pool = "null"
       THEN Got(t, fresh, need) /\ UNCHANGED pc
       ELSE pc' = [pc EXCEPT ![t] = [at |-> "link", b |-> fresh, need |-> need]] /\ UNCHANGED held
    /\ UNCHANGED <<pool, next, prev, startup_count, shutdown_happened, aligned>>
(* malloc has failed: nothing changes, and caml_stat_alloc raises.           *)
link_pool_block(t) ==
    /\ pc[t].at = "link"
    /\ Linked(pc[t].b) /\ Got(t, pc[t].b, pc[t].need)
    /\ pc' = [pc EXCEPT ![t] = Idle]
    /\ UNCHANGED <<pool, memory, fresh, startup_count, shutdown_happened, aligned>>
(* A product that does not fit a word is an allocation that fails.           *)
(* A mutant of caml_stat_calloc_noexc: the product wraps.                    *)
CallocWraps(t, num, sz) == caml_stat_alloc_noexc(t, Uint(num * sz), num * sz)
caml_stat_calloc_noexc(t, num, sz) ==
    num * sz < 2^Width /\ caml_stat_alloc_noexc(t, num * sz, num * sz)
caml_stat_strdup_noexc(t, slen) == caml_stat_alloc_noexc(t, slen + 1, slen + 1)
caml_stat_strconcat(t, l1, l2) == caml_stat_alloc_noexc(t, l1 + l2 + 1, l1 + l2 + 1)
(* An address that is congruent to -modulo, inside a block a page larger.    *)
caml_stat_alloc_aligned_noexc(raw, sz, modulo) ==
    /\ Running
    /\ aligned' = [raw |-> raw, sz |-> sz, modulo |-> modulo,
                   result |-> (((raw + modulo) \div Page_size) + 1) * Page_size - modulo]
    /\ UNCHANGED <<pool, next, prev, memory, fresh, pc, held, startup_count, shutdown_happened>>

(* Freeing: unlinked under the lock, then given back.                        *)
caml_stat_free(t, b) ==
    /\ Running /\ pc[t] = Idle /\ b \in DOMAIN held[t]
    /\ held' = [held EXCEPT ![t] = Without(@, b)]
    /\ IF pool = "null"
       THEN memory' = Without(memory, b) /\ UNCHANGED <<next, prev, pc>>
       ELSE /\ Unlinked(b)
            /\ pc' = [pc EXCEPT ![t] = [at |-> "free", b |-> b, need |-> 0]]
            /\ UNCHANGED memory
    /\ UNCHANGED <<pool, fresh, startup_count, shutdown_happened, aligned>>
Freed(t) ==
    /\ pc[t].at = "free"
    /\ memory' = Without(memory, pc[t].b)
    /\ pc' = [pc EXCEPT ![t] = Idle]
    /\ UNCHANGED <<pool, next, prev, fresh, held, startup_count, shutdown_happened, aligned>>

(* Resizing: realloc may free the block while other threads use the ring, so *)
(* it is unlinked before and linked after.                                   *)
(* A mutant of UnlinkFirst: the block stays in the ring.                     *)
StayLinked(b) == UNCHANGED <<next, prev>>
UnlinkFirst(b) == Unlinked(b)
caml_stat_resize_noexc(t, b, sz) ==
    /\ Running /\ pc[t] = Idle /\ b \in DOMAIN held[t]
    /\ IF pool = "null"
       THEN memory' = [memory EXCEPT ![b] = sz] /\ held' = [held EXCEPT ![t][b] = sz]
            /\ UNCHANGED <<next, prev, pc>>
       ELSE /\ UnlinkFirst(b)
            /\ pc' = [pc EXCEPT ![t] = [at |-> "realloc", b |-> b, need |-> sz]]
            /\ UNCHANGED <<memory, held>>
    /\ UNCHANGED <<pool, fresh, startup_count, shutdown_happened, aligned>>
(* It moves the block, or fails and leaves it.                               *)
Moved(t) ==
    /\ pc[t].at = "realloc" /\ fresh <= MaxBlocks
    /\ memory' = With(Without(memory, pc[t].b), fresh, pc[t].need) /\ fresh' = fresh + 1
    /\ held' = [held EXCEPT ![t] = Without(@, pc[t].b)]
    /\ pc' = [pc EXCEPT ![t].at = "link", ![t].b = fresh]
    /\ UNCHANGED <<pool, next, prev, startup_count, shutdown_happened, aligned>>
ReallocFailed(t) ==
    /\ pc[t].at = "realloc"
    /\ pc' = [pc EXCEPT ![t].at = "link", ![t].need = held[t][pc[t].b]]
    /\ UNCHANGED <<pool, next, prev, memory, fresh, held, startup_count, shutdown_happened, aligned>>

Requests(t) ==
    \/ \E n \in {1, 4} : caml_stat_calloc_noexc(t, n, 2)
    \/ caml_stat_strdup_noexc(t, 1)
    \/ caml_stat_strconcat(t, 1, 1)
    \/ \E b \in Ids : caml_stat_free(t, b) \/ caml_stat_resize_noexc(t, b, 1)
Next ==
    \/ \E p \in BOOLEAN : caml_startup_aux(p)
    \/ caml_shutdown
    \/ \E raw \in {4, 7}, sz \in {0, 3}, modulo \in 0..Page_size - 1 :
         fresh = 1 /\ caml_stat_alloc_aligned_noexc(raw, sz, modulo)
    \/ \E t \in Threads :
         Requests(t) \/ link_pool_block(t) \/ Freed(t) \/ Moved(t) \/ ReallocFailed(t)
Spec == Init /\ [][Next]_vars

------------------------------------------------------------------------------
(* The ring holds exactly the blocks that are allocated and that no thread   *)
(* is about to link or free, linked both ways, whatever other threads        *)
(* resize, so that the last caml_shutdown, and no earlier one, frees every   *)
(* block and each once (memory.c: "Unlinking the block because it can be     *)
(* freed by realloc while other domains access the pool concurrently");      *)
(* a block is as large as its caller needs, and an aligned address lies      *)
(* inside its block.                                                         *)
InFlight == {pc[t].b : t \in {u \in Threads : pc[u] # Idle}}
PoolSound ==
    /\ pool # "null" =>
         /\ Ring = DOMAIN memory \ InFlight
         /\ \A b \in Ring \cup {Pivot} : prev[next[b]] = b
    /\ startup_count > 0 =>
         \A t \in Threads : \A b \in DOMAIN held[t] :
             b \in DOMAIN memory /\ held[t][b] <= memory[b]
    /\ aligned.raw > 0 =>
         /\ (aligned.result + aligned.modulo) % Page_size = 0
         /\ aligned.result >= aligned.raw
         /\ aligned.result <= aligned.raw + Page_size
=============================================================================
