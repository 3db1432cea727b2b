---------------------------- MODULE GlobalRoots ----------------------------
(***************************************************************************)
(* The global roots of C code (runtime/globroots.c) on the sequential skip *)
(* list of runtime/skiplist.c.                                             *)
(*                                                                         *)
(* A root is the address of a variable of C code.  What it holds matters   *)
(* only by its place: an immediate, a block of the minor heap, a block of  *)
(* the major heap, or a Forward block of the minor heap whose contents are *)
(* an immediate, which a minor collection replaces by its contents.  The   *)
(* lists are protected by roots_mutex, taken for one operation at a time;  *)
(* a minor collection stops every domain, so it finds no call half done.   *)
(***************************************************************************)
EXTENDS Integers, Sequences, FiniteSets, FiniteSetsExt, TLC

CONSTANTS
  Roots,        \* addresses: positive integers
  NUM_LEVELS,
  Values        \* what C code puts in a root

VARIABLES
  held,         \* held[r]: the contents of the variable
  kind,         \* kind[r]: "none", or how C code has registered it
  plain,        \* caml_global_roots
  young,        \* caml_global_roots_young
  old           \* caml_global_roots_old

vars == <<held, kind, plain, young, old>>

(***************************************************************************)
(* The skip list: its level, and forward[c][l], the key of the next cell   *)
(* of level l after the cell of key c.  The key 0 is the head of the list  *)
(* as c, and NULL as a next cell.                                          *)
(***************************************************************************)

Levels == 0 .. NUM_LEVELS - 1
NULL == 0

caml_skiplist_init ==
  [level |-> 0, forward |-> (0 :> [l \in Levels |-> NULL])]

Before(f, key) == f # NULL /\ f < key

\* update[i]: the cell whose forward pointer of level i is to be changed,
\* for the levels of the list.
RECURSIVE Walk(_, _, _, _)
Walk(sk, key, e, i) ==
  IF i < 0 THEN <<>>
  ELSE IF Before(sk.forward[e][i], key) THEN Walk(sk, key, sk.forward[e][i], i)
  ELSE (i :> e) @@ Walk(sk, key, e, i - 1)

Update(sk, key) == Walk(sk, key, 0, sk.level)

\* caml_skiplist_find: the search stops where the key is met.
RECURSIVE Search(_, _, _, _)
Search(sk, key, e, i) ==
  IF i < 0 THEN FALSE
  ELSE LET f == sk.forward[e][i]
       IN IF f = key THEN TRUE
          ELSE IF Before(f, key) THEN Search(sk, key, f, i)
          ELSE Search(sk, key, e, i - 1)

caml_skiplist_find(sk, key) == Search(sk, key, 0, sk.level)

\* A new cell of height [top], after the cells that update names; the list
\* grows to its level.
caml_skiplist_insert(sk, key, top) ==
  LET u == Update(sk, key)
      up == [l \in 0 .. top |-> IF l \in DOMAIN u THEN u[l] ELSE 0]
      cell == [l \in 0 .. top |-> sk.forward[up[l]][l]]
      linked == [c \in DOMAIN sk.forward |->
                   [l \in DOMAIN sk.forward[c] |->
                      IF l <= top /\ up[l] = c THEN key ELSE sk.forward[c][l]]]
  IN IF sk.forward[u[0]][0] = key THEN sk
     ELSE [level |-> Max({sk.level, top}), forward |-> linked @@ (key :> cell)]

\* The level of a list none of whose cells is as high as before.
Lowered(level, forward) ==
  Max({0} \union {l \in 0 .. level : forward[0][l] # NULL})

caml_skiplist_remove(sk, key) ==
  LET u == Update(sk, key)
      f == sk.forward[u[0]][0]
      unlinked == [c \in DOMAIN sk.forward \ {key} |->
                     [l \in DOMAIN sk.forward[c] |->
                        IF l <= sk.level /\ u[l] = c /\ sk.forward[c][l] = key
                        THEN sk.forward[key][l] ELSE sk.forward[c][l]]]
  IN IF f # key THEN sk
     ELSE [level |-> Lowered(sk.level, unlinked), forward |-> unlinked]

\* The elements FOREACH_SKIPLIST_ELEMENT meets.
RECURSIVE From(_, _)
From(sk, c) ==
  IF sk.forward[c][0] = NULL THEN {}
  ELSE {sk.forward[c][0]} \union From(sk, sk.forward[c][0])

Elements(sk) == From(sk, 0)

(***************************************************************************)
(* Roots.                                                                  *)
(***************************************************************************)

classify_gc_root(v) ==
  CASE v = "int" -> "UNTRACKED"
    [] v \in {"young", "forward"} -> "YOUNG"
    [] v = "major" -> "OLD"

caml_register_global_root(r, top) ==
  /\ kind[r] = "none"
  /\ kind' = [kind EXCEPT ![r] = "plain"]
  /\ plain' = caml_skiplist_insert(plain, r, top)
  /\ UNCHANGED <<held, young, old>>

caml_remove_global_root(r) ==
  /\ kind[r] = "plain"
  /\ kind' = [kind EXCEPT ![r] = "none"]
  /\ plain' = caml_skiplist_remove(plain, r)
  /\ UNCHANGED <<held, young, old>>

caml_register_generational_global_root(r, top) ==
  /\ kind[r] = "none"
  /\ kind' = [kind EXCEPT ![r] = "generational"]
  /\ LET c == classify_gc_root(held[r])
     IN /\ young' = IF c = "YOUNG" THEN caml_skiplist_insert(young, r, top) ELSE young
        /\ old' = IF c = "OLD" THEN caml_skiplist_insert(old, r, top) ELSE old
  /\ UNCHANGED <<held, plain>>

\* The lists without the root, by what it holds.
RemovedFrom(r) ==
  LET c == classify_gc_root(held[r])
  IN [young |-> IF c = "UNTRACKED" THEN young ELSE caml_skiplist_remove(young, r),
      old |-> IF c = "OLD" THEN caml_skiplist_remove(old, r) ELSE old]

caml_remove_generational_global_root(r) ==
  /\ kind[r] = "generational"
  /\ kind' = [kind EXCEPT ![r] = "none"]
  /\ young' = RemovedFrom(r).young /\ old' = RemovedFrom(r).old
  /\ UNCHANGED <<held, plain>>

\* A mutant of ModifiedLists: a root of the old list that comes to hold a
\* young block stays where it is.
ModifiedInPlace(r, v, top) ==
  LET c == classify_gc_root(held[r])
  IN IF classify_gc_root(v) = "UNTRACKED" THEN RemovedFrom(r)
     ELSE [young |-> IF c = "UNTRACKED" THEN caml_skiplist_insert(young, r, top)
                     ELSE young,
           old |-> old]

\* The lists when a root is given the value v.
ModifiedLists(r, v, top) ==
  LET c == classify_gc_root(held[r])
  IN CASE classify_gc_root(v) = "YOUNG" ->
            [young |-> IF c # "YOUNG" THEN caml_skiplist_insert(young, r, top) ELSE young,
             old |-> IF c = "OLD" THEN caml_skiplist_remove(old, r) ELSE old]
       [] classify_gc_root(v) = "OLD" ->
            [young |-> young,
             old |-> IF c = "UNTRACKED" THEN caml_skiplist_insert(old, r, top) ELSE old]
       [] classify_gc_root(v) = "UNTRACKED" -> RemovedFrom(r)

caml_modify_generational_global_root(r, v, top) ==
  /\ kind[r] = "generational"
  /\ young' = ModifiedLists(r, v, top).young
  /\ old' = ModifiedLists(r, v, top).old
  /\ held' = [held EXCEPT ![r] = v]
  /\ UNCHANGED <<kind, plain>>

\* C code assigns a variable that is not a generational root.
Assign(r, v) ==
  /\ kind[r] # "generational"
  /\ held' = [held EXCEPT ![r] = v]
  /\ UNCHANGED <<kind, plain, young, old>>

(***************************************************************************)
(* A minor collection: caml_scan_global_young_roots.                       *)
(***************************************************************************)

\* What oldify_one leaves in a root.
Oldified(v) ==
  CASE v = "young" -> "major" [] v = "forward" -> "int" [] OTHER -> v

\* The roots of the young list move to the old one, in any heights.
RECURSIVE InsertAll(_, _, _)
InsertAll(sk, S, tops) ==
  IF S = {} THEN sk
  ELSE LET r == CHOOSE r \in S : \A q \in S : r <= q
       IN InsertAll(caml_skiplist_insert(sk, r, tops[r]), S \ {r}, tops)

Scanned == Elements(plain) \union Elements(young)

caml_scan_global_young_roots ==
  /\ \E tops \in [Elements(young) -> Levels] :
       old' = InsertAll(old, Elements(young), tops)
  /\ young' = caml_skiplist_init
  /\ held' = [r \in Roots |-> IF r \in Scanned THEN Oldified(held[r])
                              ELSE IF held[r] \in {"young", "forward"}
                              THEN "dangling" ELSE held[r]]
  /\ UNCHANGED <<kind, plain>>

Init ==
  /\ held = [r \in Roots |-> "int"]
  /\ kind = [r \in Roots |-> "none"]
  /\ plain = caml_skiplist_init
  /\ young = caml_skiplist_init
  /\ old = caml_skiplist_init

\* A variable C code no longer registers is its own affair: a value of the
\* minor heap left there is lost, and only an assignment makes it usable.
Usable(r) == held[r] # "dangling"

Next ==
  \/ \E r \in Roots :
       \/ \E v \in Values : Assign(r, v)
       \/ /\ Usable(r)
          /\ \/ \E top \in Levels :
                  \/ caml_register_global_root(r, top)
                  \/ caml_register_generational_global_root(r, top)
                  \/ \E v \in Values : caml_modify_generational_global_root(r, v, top)
             \/ caml_remove_global_root(r)
             \/ caml_remove_generational_global_root(r)
  \/ caml_scan_global_young_roots

Spec == Init /\ [][Next]_vars

(***************************************************************************)
(* Properties.                                                             *)
(***************************************************************************)

\* A registered root never loses its value to a minor collection, and one
\* that holds a block is scanned by a major collection: the lists contain
\* it whatever values it was given since it was registered (the comment on
\* the invariant of the generational roots, globroots.c), and the search
\* from the highest level of a list agrees with the walk along its lowest.
RootsTracked ==
  /\ \A r \in Roots : kind[r] # "none" =>
       /\ held[r] # "dangling"
       /\ held[r] # "int" => r \in Elements(plain) \union Elements(young)
                                     \union Elements(old)
  /\ \A sk \in {plain, young, old} : \A r \in Roots :
       caml_skiplist_find(sk, r) <=> r \in Elements(sk)

\* A root that was removed is in no list: its variable may be gone, and a
\* collection would read and write it.
RemovedForgotten ==
  \A r \in Roots : kind[r] = "none" =>
    r \notin Elements(plain) \union Elements(young) \union Elements(old)
============================================================================
