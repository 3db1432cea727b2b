----------------------------- MODULE LfSkiplist -----------------------------
(***************************************************************************)
(* The lock-free skip list of runtime/lf_skiplist.c.                       *)
(*                                                                         *)
(* A cell is linked at the levels 0 .. top; a forward pointer is a record  *)
(* of the cell it leads to and of its mark.  Every load and every          *)
(* compare-and-swap on a forward pointer is a step of its own.  A loop     *)
(* that retries a compare-and-swap with a fresh value until the word is    *)
(* marked, or until the cell is on the garbage list, is one step: the      *)
(* rounds that fail change nothing.                                        *)
(*                                                                         *)
(* set is the map's contents: it changes with the compare-and-swap that    *)
(* links a cell at level 0 and with the one that marks it there.  Freed    *)
(* memory is not used again here: a cell that was freed keeps its fields.  *)
(***************************************************************************)
EXTENDS Integers, Sequences, FiniteSets, FiniteSetsExt, TLC

CONSTANTS
  Threads,
  Jobs,        \* the sets of programs: thread -> sequence of calls
  NUM_LEVELS,
  MaxKey       \* keys are 1 .. MaxKey - 1; MaxKey is UINTNAT_MAX

VARIABLES cell, garbage, freed, search_level, set, th

vars == <<cell, garbage, freed, search_level, set, th>>

HeadCell == 0
TailCell == 1
Levels == 0 .. NUM_LEVELS - 1

To(c, mark) == [to |-> c, mark |-> mark]

\* A cell; collected is garbage_next # NULL.
Cell(key, top, fwd) ==
  [key |-> key, top |-> top, fwd |-> fwd, collected |-> FALSE]

\* caml_lf_skiplist_init.
Sentinels ==
  (HeadCell :> Cell(0, NUM_LEVELS - 1, [l \in Levels |-> To(TailCell, FALSE)])) @@
  (TailCell :> Cell(MaxKey, NUM_LEVELS - 1, [l \in Levels |-> To(TailCell, FALSE)]))

Resting == [pc |-> "rest", key |-> 0, level |-> 0, pred |-> HeadCell, curr |-> TailCell,
            succ |-> TailCell, preds |-> [l \in Levels |-> HeadCell],
            succs |-> [l \in Levels |-> TailCell], new |-> HeadCell, back |-> "rest",
            result |-> 0]

Fwd(c, l) == cell[c].fwd[l]

\* The other threads see the contents change while they run a call.
Seen(s) ==
  [t \in Threads |-> [th[t] EXCEPT !.ever = @ \union s, !.always = @ \intersect s]]

Move(t, r) == th' = [th EXCEPT ![t].now = r]
Now(t) == th[t].now
At(t, pc) == Now(t).pc = pc
Go(t, pc) == [Now(t) EXCEPT !.pc = pc]

(***************************************************************************)
(* skiplist_find: pc "start", then "node" for each cell met.               *)
(***************************************************************************)

\* The search starts (again) from the head, at the highest level.
Restart(r) == [r EXCEPT !.pc = "load", !.pred = HeadCell, !.level = NUM_LEVELS - 1]

\* curr = LF_SK_UNMARK(pred->forward[level]): the mark is ignored.
FindLoad(t) ==
  /\ At(t, "load")
  /\ Move(t, [Now(t) EXCEPT !.pc = "node",
                !.curr = Fwd(Now(t).pred, Now(t).level).to])
  /\ UNCHANGED <<cell, garbage, freed, search_level, set>>

\* The search goes down, or ends with what the caller does next.
Down(r) ==
  LET s == [r EXCEPT !.preds[r.level] = r.pred, !.succs[r.level] = r.curr]
  IN IF r.level = 0 THEN [s EXCEPT !.pc = r.back]
     ELSE [s EXCEPT !.pc = "load", !.level = @ - 1]

\* LF_SK_EXTRACT(curr->forward[level]): a marked cell is to be cut out, one
\* with a smaller key is passed, and at the others the search goes down.
FindNode(t) ==
  /\ At(t, "node")
  /\ LET r == Now(t)
         f == Fwd(r.curr, r.level)
     IN Move(t, IF f.mark THEN [r EXCEPT !.pc = "snip", !.succ = f.to]
                ELSE IF cell[r.curr].key < r.key
                     THEN [r EXCEPT !.pred = r.curr, !.curr = f.to]
                     ELSE Down(r))
  /\ UNCHANGED <<cell, garbage, freed, search_level, set>>

\* A cell that is marked goes to the garbage list once, whoever cuts it out
\* of whichever level first.
Collected(c) ==
  IF cell[c].collected THEN garbage ELSE Append(garbage, c)

FindSnip(t) ==
  /\ At(t, "snip")
  /\ LET r == Now(t)
         cut == Fwd(r.pred, r.level) = To(r.curr, FALSE)
     IN IF cut
        THEN /\ cell' = [cell EXCEPT ![r.pred].fwd[r.level] = To(r.succ, FALSE),
                                     ![r.curr].collected = TRUE]
             /\ garbage' = Collected(r.curr)
             /\ Move(t, Go(t, "load"))
        ELSE /\ Move(t, Restart(r))
             /\ UNCHANGED <<cell, garbage>>
  /\ UNCHANGED <<freed, search_level, set>>

(***************************************************************************)
(* caml_lf_skiplist_insert.                                                *)
(***************************************************************************)

\* A new cell, of any height, whose forward pointers are what the search
\* found.  When the key is there only its data changes.
InsertAlloc(t) ==
  /\ At(t, "insert")
  /\ LET r == Now(t)
     IN IF cell[r.succs[0]].key = r.key
        THEN /\ Move(t, [r EXCEPT !.pc = "done", !.result = 1])
             /\ UNCHANGED cell
        ELSE \E top \in Levels :
               LET c == Cardinality(DOMAIN cell)
                   fwd == [l \in 0 .. top |-> To(r.succs[l], FALSE)]
               IN /\ cell' = cell @@ (c :> Cell(r.key, top, fwd))
                  /\ Move(t, [r EXCEPT !.pc = "link0", !.new = c])
  /\ UNCHANGED <<garbage, freed, search_level, set>>

\* A mutant of Linkable: the cell still leads to the same one, marked or not.
LinkableMarked(r, l) == Fwd(r.preds[l], l).to = r.succs[l]

\* The condition of the compare-and-swap that links the new cell.
Linkable(r, l) == Fwd(r.preds[l], l) = To(r.succs[l], FALSE)

\* The cell is linked at level 0, or freed and the search done again.
InsertLink0(t) ==
  /\ At(t, "link0")
  /\ LET r == Now(t)
     IN IF Linkable(r, 0)
        THEN /\ cell' = [cell EXCEPT ![r.preds[0]].fwd[0] = To(r.new, FALSE)]
             /\ set' = set \union {r.key}
             /\ th' = [Seen(set') EXCEPT
                         ![t].now = [r EXCEPT !.pc = "link", !.level = 1]]
             /\ UNCHANGED freed
        ELSE /\ freed' = freed \union {r.new}
             /\ Move(t, [Restart(r) EXCEPT !.back = "insert"])
             /\ UNCHANGED <<cell, set>>
  /\ UNCHANGED <<garbage, search_level>>

\* The levels above, one by one: the forward pointer of the cell stays what
\* it was when the search has to be done again.
InsertLink(t) ==
  /\ At(t, "link") /\ Now(t).level <= cell[Now(t).new].top
  /\ LET r == Now(t)
         l == r.level
     IN IF Linkable(r, l)
        THEN /\ cell' = [cell EXCEPT ![r.preds[l]].fwd[l] = To(r.new, FALSE)]
             /\ Move(t, [r EXCEPT !.level = l + 1])
        ELSE /\ Move(t, [Restart(r) EXCEPT !.back = "relink", !.result = l])
             /\ UNCHANGED cell
  /\ UNCHANGED <<garbage, freed, search_level, set>>

\* The level is the one that was to be linked.
InsertAgain(t) ==
  /\ At(t, "relink")
  /\ Move(t, [Now(t) EXCEPT !.pc = "link", !.level = Now(t).result])
  /\ UNCHANGED <<cell, garbage, freed, search_level, set>>

InsertEnd(t) ==
  /\ At(t, "link") /\ Now(t).level > cell[Now(t).new].top
  /\ search_level' = Max({search_level, cell[Now(t).new].top})
  /\ Move(t, [Now(t) EXCEPT !.pc = "done", !.result = 1])
  /\ UNCHANGED <<cell, garbage, freed, set>>

(***************************************************************************)
(* caml_lf_skiplist_remove.                                                *)
(***************************************************************************)

RemoveStart(t) ==
  /\ At(t, "remove")
  /\ LET r == Now(t)
         c == r.succs[0]
     IN Move(t, IF cell[c].key # r.key
                THEN [r EXCEPT !.pc = "done", !.result = 0]
                ELSE [r EXCEPT !.pc = "mark", !.new = c, !.level = cell[c].top])
  /\ UNCHANGED <<cell, garbage, freed, search_level, set>>

\* The levels above 0 are marked by whoever comes.
RemoveMark(t) ==
  /\ At(t, "mark") /\ Now(t).level > 0
  /\ cell' = [cell EXCEPT ![Now(t).new].fwd[Now(t).level].mark = TRUE]
  /\ Move(t, [Now(t) EXCEPT !.level = @ - 1])
  /\ UNCHANGED <<garbage, freed, search_level, set>>

\* Level 0 has one winner, who then looks for the key to have the cell cut
\* out.
RemoveMark0(t) ==
  /\ At(t, "mark") /\ Now(t).level = 0
  /\ LET r == Now(t)
     IN IF Fwd(r.new, 0).mark
        THEN /\ Move(t, [r EXCEPT !.pc = "done", !.result = 0])
             /\ UNCHANGED <<cell, set>>
        ELSE /\ cell' = [cell EXCEPT ![r.new].fwd[0].mark = TRUE]
             /\ set' = set \ {r.key}
             /\ th' = [Seen(set') EXCEPT
                         ![t].now = [Restart(r) EXCEPT !.back = "removed"]]
  /\ UNCHANGED <<garbage, freed, search_level>>

RemoveEnd(t) ==
  /\ At(t, "removed")
  /\ Move(t, [Now(t) EXCEPT !.pc = "done", !.result = 1])
  /\ UNCHANGED <<cell, garbage, freed, search_level, set>>

(***************************************************************************)
(* lf_skiplist_lookup, caml_lf_skiplist_find and                           *)
(* caml_lf_skiplist_find_below.                                            *)
(***************************************************************************)

LookupLoad(t) ==
  /\ At(t, "lload")
  /\ Move(t, [Now(t) EXCEPT !.pc = "lnode",
                !.curr = Fwd(Now(t).pred, Now(t).level).to])
  /\ UNCHANGED <<cell, garbage, freed, search_level, set>>

\* A marked cell is passed without becoming the predecessor.
LookupNode(t) ==
  /\ At(t, "lnode")
  /\ LET r == Now(t)
         f == Fwd(r.curr, r.level)
     IN Move(t, IF f.mark THEN [r EXCEPT !.curr = f.to]
                ELSE IF cell[r.curr].key < r.key
                     THEN [r EXCEPT !.pred = r.curr, !.curr = f.to]
                     ELSE IF r.level = 0 THEN [r EXCEPT !.pc = r.back]
                          ELSE [r EXCEPT !.pc = "lload", !.level = @ - 1])
  /\ UNCHANGED <<cell, garbage, freed, search_level, set>>

FindEnd(t) ==
  /\ At(t, "find")
  /\ LET r == Now(t)
     IN Move(t, [r EXCEPT !.pc = "done",
                   !.result = IF cell[r.curr].key = r.key THEN r.key ELSE 0])
  /\ UNCHANGED <<cell, garbage, freed, search_level, set>>

\* The key found, or 0 when there is none below.
Below(r) == IF cell[r.curr].key = r.key THEN r.key ELSE cell[r.pred].key

FindBelowEnd(t) ==
  /\ At(t, "below")
  /\ Move(t, [Now(t) EXCEPT !.pc = "done", !.result = Below(Now(t))])
  /\ UNCHANGED <<cell, garbage, freed, search_level, set>>

(***************************************************************************)
(* The system.                                                             *)
(***************************************************************************)

Call(t) ==
  /\ At(t, "rest") /\ th[t].todo # <<>>
  /\ LET c == th[t].todo[1]
         r == [Resting EXCEPT !.key = c.key, !.back = c.op]
     IN th' = [th EXCEPT ![t].todo = SubSeq(@, 2, Len(@)), ![t].op = c.op,
                 ![t].ever = set, ![t].always = set,
                 ![t].now = IF c.op \in {"find", "below"}
                            THEN [r EXCEPT !.pc = "lload", !.level = search_level]
                            ELSE Restart(r)]
  /\ UNCHANGED <<cell, garbage, freed, search_level, set>>

Return(t) ==
  /\ At(t, "done")
  /\ Move(t, Resting)
  /\ UNCHANGED <<cell, garbage, freed, search_level, set>>

\* caml_lf_skiplist_free_garbage, when no thread is in a call.
FreeGarbage ==
  /\ garbage # <<>>
  /\ \A t \in Threads : At(t, "rest")
  /\ freed' = freed \union {garbage[i] : i \in DOMAIN garbage}
  /\ garbage' = <<>>
  /\ UNCHANGED <<cell, search_level, set, th>>

Init ==
  /\ cell = Sentinels /\ garbage = <<>> /\ freed = {} /\ search_level = 0
  /\ set = {}
  /\ \E job \in Jobs :
       th = [t \in Threads |-> [todo |-> job[t], op |-> "none", ever |-> {},
                                always |-> {}, now |-> Resting]]

Step(t) ==
  \/ Call(t) \/ Return(t)
  \/ FindLoad(t) \/ FindNode(t) \/ FindSnip(t)
  \/ InsertAlloc(t) \/ InsertLink0(t) \/ InsertLink(t) \/ InsertAgain(t)
  \/ InsertEnd(t)
  \/ RemoveStart(t) \/ RemoveMark(t) \/ RemoveMark0(t) \/ RemoveEnd(t)
  \/ LookupLoad(t) \/ LookupNode(t) \/ FindEnd(t) \/ FindBelowEnd(t)

Next == FreeGarbage \/ \E t \in Threads : Step(t)

Spec == Init /\ [][Next]_vars

(***************************************************************************)
(* Properties.                                                             *)
(***************************************************************************)

\* The answer of every call is right at some moment between its start and
\* its end: a key that was there all along is found, one that was never
\* there is not, the key found below k was there and no key between was
\* there all along, and a removal tells the truth (the results of
\* caml_lf_skiplist_find, find_below and remove, whose callers rely on them
\* while other domains insert and remove).
AnswersHonest ==
  \A t \in Threads : At(t, "done") =>
    LET r == Now(t)
        ever == th[t].ever
        always == th[t].always
    IN CASE th[t].op = "find" ->
              /\ r.result # 0 => r.result \in ever
              /\ r.result = 0 => r.key \notin always
         [] th[t].op = "below" ->
              /\ r.result # 0 => r.result \in ever /\ r.result <= r.key
              /\ \A k \in always : ~(r.result < k /\ k <= r.key)
         [] th[t].op = "remove" ->
              IF r.result = 1 THEN r.key \in ever ELSE r.key \notin always
         [] th[t].op = "insert" -> r.key \in ever

\* When every call has returned the cells that were removed are on the
\* garbage list, each of them once, and no other is: they will all be freed,
\* and none twice.
GarbageExact ==
  (\A t \in Threads : At(t, "rest")) =>
    /\ \A i, j \in DOMAIN garbage : garbage[i] = garbage[j] => i = j
    /\ \A i \in DOMAIN garbage : garbage[i] \notin freed
    /\ \A c \in DOMAIN cell \ freed :
         cell[c].fwd[0].mark <=> \E i \in DOMAIN garbage : garbage[i] = c

\* The pointers a thread may follow from a cell of the list.
RECURSIVE ReachFrom(_)
ReachFrom(S) ==
  LET T == S \union UNION {{Fwd(c, l).to : l \in 0 .. cell[c].top} : c \in S}
  IN IF T = S THEN S ELSE ReachFrom(T)

\* A freed cell is not met again: after caml_lf_skiplist_free_garbage no
\* pointer of the list leads to a cell that was freed.
FreedUnreachable == ReachFrom({HeadCell}) \intersect freed = {}
=============================================================================
