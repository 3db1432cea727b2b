------------------------------ MODULE AddrMap ------------------------------
(* The open-addressing map from addresses to words (runtime/addrmap.c) that  *)
(* the mark stack is compressed into; it grows when a chain is too long.     *)
EXTENDS Integers, FiniteSets, Sequences, SequencesExt

CONSTANTS Keys, Vals,
          Hash,         \* of each key
          MAX_CHAIN,
          InitialSize

ADDRMAP_INVALID_KEY == 0
ADDRMAP_NOT_PRESENT == 0
NoEntry == [key |-> ADDRMAP_INVALID_KEY, value |-> ADDRMAP_NOT_PRESENT]

VARIABLES t,            \* entries, as a function on 0..size - 1; <<>> at first
          bindings,     \* the map it stands for
          iter, seen    \* an iteration, and the keys it has given
vars == <<t, bindings, iter, seen>>

Size(m) == Cardinality(DOMAIN m)
addrmap_alloc(sz) == [i \in 0..sz - 1 |-> NoEntry]
pos_initial(m, key) == Hash[key] % Size(m)
pos_next(m, pos) == (pos + 1) % Size(m)

(* The place of a key: the first in its chain that is free or has the key.   *)
At(m, key, i) == (pos_initial(m, key) + i) % Size(m)
Places(m, key) == {i \in 0..MAX_CHAIN - 1 :
                     m[At(m, key, i)].key \in {ADDRMAP_INVALID_KEY, key}}
First(S) == CHOOSE i \in S : \A j \in S : i <= j
(* A mutant of Rehashed: the entries of the old table stay behind.           *)
RehashedEmpty(m) == addrmap_alloc(2 * Size(m))
RECURSIVE caml_addrmap_insert_pos(_, _), Rehashed(_)
(* The old entries go into a table twice as large, which may grow itself.    *)
Rehashed(m) ==
    LET order == [i \in 1..Size(m) |-> m[i - 1]]
        add(acc, e) ==
            IF e.key = ADDRMAP_INVALID_KEY THEN acc
            ELSE LET r == caml_addrmap_insert_pos(acc, e.key)
                 IN [r.m EXCEPT ![r.pos].value = e.value]
    IN FoldLeft(add, addrmap_alloc(2 * Size(m)), order)
caml_addrmap_insert_pos(m0, key) ==
    LET m == IF m0 = <<>> THEN addrmap_alloc(InitialSize) ELSE m0
    IN IF Places(m, key) # {}
       THEN LET pos == At(m, key, First(Places(m, key)))
            IN [m |-> [m EXCEPT ![pos].key = key], pos |-> pos]
       ELSE caml_addrmap_insert_pos(Rehashed(m), key)
caml_addrmap_contains(m, key) ==
    /\ m # <<>>
    /\ Places(m, key) # {}
    /\ m[At(m, key, First(Places(m, key)))].key = key
caml_addrmap_lookup(m, key) == m[At(m, key, First(Places(m, key)))].value

caml_addrmap_insert(k, v) ==
    /\ k \notin DOMAIN bindings
    /\ LET r == caml_addrmap_insert_pos(t, k)
       IN t' = [r.m EXCEPT ![r.pos].value = v]
    /\ bindings' = [x \in DOMAIN bindings \cup {k} |-> IF x = k THEN v ELSE bindings[x]]
    /\ iter' = -1 /\ seen' = {}
caml_addrmap_clear ==
    /\ t # <<>>
    /\ t' = <<>> /\ bindings' = [x \in {} |-> 0] /\ iter' = -1 /\ seen' = {}
(* The next entry in use, or the size of the table.                          *)
(* A mutant of caml_addrmap_next: every other entry.                         *)
NextSkips(m, i) ==
    LET used == {j \in DOMAIN m : j > i + 1 /\ m[j].key # ADDRMAP_INVALID_KEY}
    IN IF used = {} THEN Size(m) ELSE First(used)
caml_addrmap_next(m, i) ==
    LET used == {j \in DOMAIN m : j > i /\ m[j].key # ADDRMAP_INVALID_KEY}
    IN IF used = {} THEN Size(m) ELSE First(used)
caml_addrmap_iter ==
    /\ t # <<>> /\ iter < Size(t)
    /\ iter' = caml_addrmap_next(t, iter)
    /\ seen' = IF iter' < Size(t) THEN seen \cup {t[iter'].key} ELSE seen
    /\ UNCHANGED <<t, bindings>>

Init == t = <<>> /\ bindings = [x \in {} |-> 0] /\ iter = -1 /\ seen = {}
Next ==
    \/ \E k \in Keys, v \in Vals : caml_addrmap_insert(k, v)
    \/ caml_addrmap_clear
    \/ caml_addrmap_iter
Spec == Init /\ [][Next]_vars

(* The table is the map: a key is in it exactly when it was inserted, with   *)
(* its value, however often the table grew, and an iteration that has        *)
(* reached the end has given every key (caml_addrmap_insert_pos,             *)
(* caml_addrmap_contains, caml_addrmap_next).                                *)
MapExact ==
    /\ \A k \in Keys :
         /\ caml_addrmap_contains(t, k) <=> k \in DOMAIN bindings
         /\ k \in DOMAIN bindings => caml_addrmap_lookup(t, k) = bindings[k]
    /\ (t # <<>> /\ iter = Size(t)) => seen = DOMAIN bindings
=============================================================================
