--------------------------- MODULE CodeFragments ---------------------------
(***************************************************************************)
(* The table of code fragments (runtime/codefrag.c): two lock-free skip    *)
(* lists, by start address and by number, a list of fragments to free, and *)
(* the cleanup a stop-the-world section makes.                             *)
(*                                                                         *)
(* A call on a skip list is one step, as LfSkiplist justifies.  Addresses  *)
(* are small integers; a fragment covers start .. stop - 1, and a program  *)
(* uses an address again only once the fragment it had there is removed.   *)
(***************************************************************************)
EXTENDS Integers, FiniteSets, FiniteSetsExt, TLC

CONSTANTS
  Threads,
  Ranges,      \* the pairs <<start, stop>> code is loaded at
  MaxFrags     \* bound on code_fragments_counter

VARIABLES
  frag,        \* frag[n]: the fragment of number n
  byPc,        \* code_fragments_by_pc: start -> number
  byNum,       \* code_fragments_by_num
  garbage,     \* the fragments to free, a bag as a function to Nat
  freed,       \* the fragments freed
  th           \* what each thread does

vars == <<frag, byPc, byNum, garbage, freed, th>>

Idle == [pc |-> "idle", cf |-> 0]
Drop(f, k) == [x \in DOMAIN f \ {k} |-> f[x]]
Live == DOMAIN frag \ freed
Go(t, r) == th' = [th EXCEPT ![t] = r]
Overlap(a, b) == a[1] < b[2] /\ b[1] < a[2]

\* Ranges the program has code at: from before the fragment is registered to
\* when its removal has returned.
Taken == {frag[n].range : n \in {m \in DOMAIN frag : frag[m].loaded}}

\* caml_register_code_fragment: a number, then the two insertions.  The
\* digest is computed now, later, given, or never wanted.
Register(t, range, digest) ==
  /\ th[t].pc = "idle" /\ Cardinality(DOMAIN frag) < MaxFrags
  /\ \A r \in Taken : ~Overlap(r, range)
  /\ LET n == Cardinality(DOMAIN frag) + 1
     IN /\ frag' = frag @@ (n :> [range |-> range, loaded |-> TRUE,
                     digest |-> IF digest = "now" THEN "provided" ELSE digest])
        /\ Go(t, [Idle EXCEPT !.pc = "insertPc", !.cf = n])
  /\ UNCHANGED <<byPc, byNum, garbage, freed>>

InsertPc(t) ==
  /\ th[t].pc = "insertPc"
  /\ byPc' = (frag[th[t].cf].range[1] :> th[t].cf) @@ byPc
  /\ Go(t, [th[t] EXCEPT !.pc = "insertNum"])
  /\ UNCHANGED <<frag, byNum, garbage, freed>>

InsertNum(t) ==
  /\ th[t].pc = "insertNum"
  /\ byNum' = byNum \union {th[t].cf}
  /\ Go(t, Idle)
  /\ UNCHANGED <<frag, byPc, garbage, freed>>

\* caml_find_code_fragment_by_pc: the entry with the largest start below,
\* when the address is before its end.
ByPc(pc) ==
  LET below == {s \in DOMAIN byPc : s <= pc}
  IN IF below = {} THEN 0
     ELSE LET n == byPc[Max(below)]
          IN IF pc < frag[n].range[2] THEN n ELSE 0

caml_find_code_fragment_by_pc(t, pc) ==
  /\ th[t].pc = "idle"
  /\ Go(t, [Idle EXCEPT !.pc = "found", !.cf = ByPc(pc)])
  /\ UNCHANGED <<frag, byPc, byNum, garbage, freed>>

caml_find_code_fragment_by_num(t, n) ==
  /\ th[t].pc = "idle"
  /\ Go(t, [Idle EXCEPT !.pc = "found", !.cf = IF n \in byNum THEN n ELSE 0])
  /\ UNCHANGED <<frag, byPc, byNum, garbage, freed>>

\* caml_find_code_fragment_by_digest, at the element it stops on, with the
\* digest it had caml_digest_of_code_fragment compute under the mutex.
caml_find_code_fragment_by_digest(t) ==
  /\ th[t].pc = "idle"
  /\ \E s \in DOMAIN byPc :
       /\ frag[byPc[s]].digest # "ignore"
       /\ frag' = [frag EXCEPT ![byPc[s]].digest = "provided"]
       /\ Go(t, [Idle EXCEPT !.pc = "found", !.cf = byPc[s]])
  /\ UNCHANGED <<byPc, byNum, garbage, freed>>

\* The caller is done with what it found, before it may stop for a section.
Used(t) ==
  /\ th[t].pc = "found"
  /\ Go(t, Idle)
  /\ UNCHANGED <<frag, byPc, byNum, garbage, freed>>

\* caml_remove_code_fragment of a fragment just found, whose registration
\* has returned; several threads may do so at once.
RemovePc(t) ==
  /\ th[t].pc = "found" /\ th[t].cf # 0
  /\ \A u \in Threads : th[u].cf = th[t].cf => th[u].pc \notin {"insertPc", "insertNum"}
  /\ byPc' = Drop(byPc, frag[th[t].cf].range[1])
  /\ Go(t, [th[t] EXCEPT !.pc = "removeNum"])
  /\ UNCHANGED <<frag, byNum, garbage, freed>>


\* Only the thread whose removal succeeds puts the fragment on the list.
Won(t) == th[t].cf \in byNum

RemoveNum(t) ==
  /\ th[t].pc = "removeNum"
  /\ byNum' = byNum \ {th[t].cf}
  /\ Go(t, IF Won(t) THEN [th[t] EXCEPT !.pc = "push"]
           ELSE [Idle EXCEPT !.pc = "removed", !.cf = th[t].cf])
  /\ UNCHANGED <<frag, byPc, garbage, freed>>

Push(t) ==
  /\ th[t].pc = "push"
  /\ garbage' = [garbage EXCEPT ![th[t].cf] = @ + 1]
  /\ Go(t, [Idle EXCEPT !.pc = "removed", !.cf = th[t].cf])
  /\ UNCHANGED <<frag, byPc, byNum, freed>>

\* The program gives the memory back when no thread uses the fragment.
Unload(t) ==
  /\ th[t].pc = "removed"
  /\ LET used == \E u \in Threads \ {t} : th[u].cf = th[t].cf
     IN frag' = [frag EXCEPT ![th[t].cf].loaded = used]
  /\ Go(t, Idle)
  /\ UNCHANGED <<byPc, byNum, garbage, freed>>

\* caml_code_fragment_cleanup_from_stw_single: no thread is in a call, and
\* none keeps what it found.
AtSafepoint == \A t \in Threads : th[t].pc = "idle"

Cleanup ==
  /\ AtSafepoint
  /\ \E n \in DOMAIN garbage : garbage[n] > 0
  /\ freed' = freed \union {n \in DOMAIN garbage : garbage[n] > 0}
  /\ garbage' = [n \in DOMAIN garbage |-> 0]
  /\ UNCHANGED <<frag, byPc, byNum, th>>

Init ==
  /\ frag = <<>> /\ byPc = <<>> /\ byNum = {} /\ freed = {}
  /\ garbage = [n \in 1 .. MaxFrags |-> 0]
  /\ th = [t \in Threads |-> Idle]

Step(t) ==
  \/ \E range \in Ranges : \E digest \in {"now", "later", "ignore"} :
       Register(t, range, digest)
  \/ InsertPc(t) \/ InsertNum(t)
  \/ \E range \in Ranges : \E pc \in range[1] .. range[2] :
       caml_find_code_fragment_by_pc(t, pc)
  \/ \E n \in 1 .. MaxFrags : caml_find_code_fragment_by_num(t, n)
  \/ caml_find_code_fragment_by_digest(t)
  \/ Used(t) \/ RemovePc(t) \/ RemoveNum(t) \/ Push(t) \/ Unload(t)

Next == Cleanup \/ \E t \in Threads : Step(t)

Spec == Init /\ [][Next]_vars

FreedOnce ==
  /\ \A n \in DOMAIN garbage : garbage[n] <= 1 /\ (garbage[n] = 1 => n \notin freed)
  /\ \A t \in Threads : th[t].cf \notin freed
  /\ \A n \in freed : n \notin byNum /\ n \notin {byPc[s] : s \in DOMAIN byPc}

Found ==
  \A n \in byNum :
    (\A t \in Threads : th[t].pc = "removeNum" => th[t].cf # n) =>
      \A pc \in frag[n].range[1] .. frag[n].range[2] - 1 : ByPc(pc) = n

\* A fragment is freed once, never while a thread uses it or a list still
\* leads to it; and an address of a fragment that is registered and that
\* nobody removes is found to be in that fragment, whatever others are
\* loaded and removed meanwhile (the threads look fragments up and remove
\* them without a lock, codefrag.c).
FragmentsSound == FreedOnce /\ Found
============================================================================
