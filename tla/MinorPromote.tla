---------------------------- MODULE MinorPromote ----------------------------
(***************************************************************************)
(* A minor collection (runtime/minor_gc.c): in a stop-the-world section,   *)
(* all domains promote what is reachable in all the minor heaps, sharing   *)
(* the remembered sets and racing to move the same blocks.  Objects are    *)
(* numbers: those of the minor heaps (Young), those of the major heap, and *)
(* the copies, which domain i allocates as 100 * i + 1, 100 * i + 2, ...   *)
(* A root area, a stack or the table of finalisers is an object too.       *)
(***************************************************************************)
EXTENDS Integers, Sequences, FiniteSets, SequencesExt, FiniteSetsExt, TLC

CONSTANTS
  N,       \* participating domains 1..N, in the order of participating[]
  Young,   \* [young object -> its tag]
  Heaps    \* the situations to begin with

Participants == 1..N
YoungObjects == DOMAIN Young
Long == 0          \* a value that is not a block
IN_PROGRESS == "in_progress"
FORWARDED == "forwarded"

VARIABLES
  start,   \* the situation the collection began with
  mem,     \* [object -> fields]; a forwarded block's first field is its copy
  hd,      \* [young object -> header: "live", IN_PROGRESS or FORWARDED]
  tag,     \* [copy -> tag]
  th,      \* [domain -> its thread]
  finished,     \* domains_finished_minor_gc
  finalised     \* the custom blocks whose finaliser ran

vars == <<start, mem, hd, tag, th, finished, finalised>>

IsYoung(v) == v \in YoungObjects

(* Mutation: the remainder of the division is left out.                    *)
ShareWithoutRest(s, k) ==
  SubSeq(s, k * (Len(s) \div N) + 1, (k + 1) * (Len(s) \div N))

(* The part of a remembered set that the domain k places after its owner   *)
(* takes: the last one takes the remainder.                                *)
RefShare(s, k) ==
  SubSeq(s, k * (Len(s) \div N) + 1, IF k = N - 1 THEN Len(s) ELSE (k + 1) * (Len(s) \div N))

(* What domain d takes of all remembered sets, its own first.              *)
Remembered(h, d) ==
  FlattenSeq([k \in 1..N |-> RefShare(h.refs[((d - 1 + k - 1) % N) + 1], k - 1)])

(* The first locations to oldify: the global roots, for participating[0],  *)
(* the remembered sets and the finalisers; then come oldify_mopup with the *)
(* ephemerons, the local roots, and oldify_mopup again.                    *)
FirstWork(h, d) ==
  (IF d = 1 THEN h.global ELSE <<>>) \o Remembered(h, d) \o h.final[d]

Thread(h, d) ==
  [pc |-> "next", phase |-> "roots", work |-> FirstWork(h, d), todo |-> <<>>,
   v |-> Long, p |-> <<>>, result |-> 0, field0 |-> Long, copies |-> 0]

Init ==
  /\ start \in Heaps
  /\ mem = start.mem
  /\ hd = [y \in YoungObjects |-> "live"]
  /\ tag = <<>>
  /\ th = [d \in Participants |-> Thread(start, d)]
  /\ finished = 0 /\ finalised = {}

At(d, pc) == th[d].pc = pc
Store(m, p, v) == [m EXCEPT ![p[1]][p[2]] = v]
Fields(o) == [i \in 1..Len(mem[o]) |-> <<o, i>>]

-----------------------------------------------------------------------------
(* oldify_one on the next location                                         *)

NextLocation(d) ==
  /\ At(d, "next") /\ th[d].work # <<>>
  /\ LET p == Head(th[d].work) IN
     th' = [th EXCEPT ![d].work = Tail(@), ![d].pc = "oldify", ![d].p = p, ![d].v = mem[p[1]][p[2]]]
  /\ UNCHANGED <<start, mem, hd, tag, finished, finalised>>

Copy(d) == 100 * d + th[d].copies + 1

(* A block is allocated in the shared heap before the race for v; its      *)
(* first field is read first, for the forwarding pointer will overwrite it.*)
Allocate(d, v, t) ==
  /\ mem' = mem @@ (Copy(d) :> IF t = "noscan" THEN mem[v] ELSE [i \in 1..Len(mem[v]) |-> Long])
  /\ tag' = tag @@ (Copy(d) :> t)
  /\ th' = [th EXCEPT ![d].pc = "update", ![d].result = Copy(d), ![d].copies = @ + 1,
                      ![d].field0 = mem[v][1]]

TagOf(v) == IF IsYoung(v) THEN Young[v] ELSE IF v \in DOMAIN tag THEN tag[v] ELSE "block"

(* get_header_val waits while the block is being moved.                    *)
Readable(v) == IsYoung(v) => hd[v] # IN_PROGRESS

(* The tags whose forwarding is not short-circuited.                       *)
Kept == {"forward", "lazy", "double"}

Oldify(d) ==
  /\ At(d, "oldify") /\ Readable(th[d].v)
  /\ LET v == th[d].v IN
     \/ /\ ~IsYoung(v)
        /\ mem' = Store(mem, th[d].p, v) /\ th' = [th EXCEPT ![d].pc = "next"]
        /\ UNCHANGED tag
     \/ /\ IsYoung(v) /\ hd[v] = FORWARDED
        /\ mem' = Store(mem, th[d].p, mem[v][1]) /\ th' = [th EXCEPT ![d].pc = "next"]
        /\ UNCHANGED tag
     \/ /\ IsYoung(v) /\ hd[v] = "live" /\ Young[v] # "forward"
        /\ Allocate(d, v, Young[v])
     \/ /\ IsYoung(v) /\ hd[v] = "live" /\ Young[v] = "forward"
        /\ LET f  == mem[v][1]
               ft == TagOf(IF IsYoung(f) /\ hd[f] = FORWARDED THEN mem[f][1] ELSE f)
           IN /\ Readable(f)
              /\ \/ /\ f # Long /\ ft \in Kept /\ Allocate(d, v, "forward")
                 \/ /\ f = Long \/ ft \notin Kept
                    /\ th' = [th EXCEPT ![d].v = f] /\ UNCHANGED <<mem, tag>>
  /\ UNCHANGED <<start, hd, finished, finalised>>

-----------------------------------------------------------------------------
(* try_update_object_header                                                *)

(* Another domain has moved the block, or is moving it and is waited for:  *)
(* its copy is used, and the one made here is given up.                    *)
Lose(d) ==
  LET v == th[d].v IN
  /\ hd[v] = FORWARDED
  /\ mem' = Store([mem EXCEPT ![th[d].result] = [i \in DOMAIN @ |-> Long]], th[d].p, mem[v][1])
  /\ tag' = [tag EXCEPT ![th[d].result] = "noscan"]
  /\ th' = [th EXCEPT ![d].pc = "next"]
  /\ UNCHANGED hd

(* The compare and exchange that lets one domain move the block.           *)
MarkMoving(v) == [hd EXCEPT ![v] = IN_PROGRESS]

Update(d) ==
  /\ At(d, "update")
  /\ \/ Lose(d)
     \/ /\ hd[th[d].v] = "live"
        /\ hd' = MarkMoving(th[d].v)
        /\ th' = [th EXCEPT ![d].pc = "forward"]
        /\ UNCHANGED <<mem, tag>>
  /\ UNCHANGED <<start, finished, finalised>>

StoreForward(d) ==
  /\ At(d, "forward")
  /\ mem' = [mem EXCEPT ![th[d].v][1] = th[d].result]
  /\ th' = [th EXCEPT ![d].pc = "release"]
  /\ UNCHANGED <<start, hd, tag, finished, finalised>>

(* Mutation: the header is never released.                                 *)
StillMoving(v) == hd

(* The header of a block that has been moved.                              *)
Released(v) == [hd EXCEPT ![v] = FORWARDED]

(* The header is released and *p written; then, by the tag and the size:   *)
(* the block waits in the todo list, or its only field is next, or the     *)
(* stack of the continuation is.                                           *)
ReleaseHeader(d) ==
  /\ At(d, "release")
  /\ LET v == th[d].v
         r == th[d].result
         m == Store(mem, th[d].p, r)
     IN /\ hd' = Released(v)
        /\ \/ /\ Young[v] = "noscan"
              /\ mem' = m /\ th' = [th EXCEPT ![d].pc = "next"]
           \/ /\ Young[v] = "cont"
              /\ mem' = [m EXCEPT ![r][1] = th[d].field0]
              /\ th' = [th EXCEPT ![d].pc = "next",
                   ![d].work = (IF th[d].field0 = Long THEN <<>> ELSE Fields(th[d].field0)) \o @]
           \/ /\ Young[v] \notin {"noscan", "cont"} /\ Len(mem[v]) > 1
              /\ mem' = [m EXCEPT ![r][1] = th[d].field0]
              /\ th' = [th EXCEPT ![d].pc = "next", ![d].todo = <<v>> \o @]
           \/ /\ Young[v] \notin {"noscan", "cont"} /\ Len(mem[v]) = 1
              /\ mem' = m
              /\ th' = [th EXCEPT ![d].pc = "oldify", ![d].v = th[d].field0, ![d].p = <<r, 1>>]
  /\ UNCHANGED <<start, tag, finished, finalised>>

-----------------------------------------------------------------------------
(* oldify_mopup and the phases of caml_empty_minor_heap_promote            *)

(* The fields of a block that was put off are copied and oldified.         *)
Mopup(d) ==
  /\ At(d, "next") /\ th[d].work = <<>> /\ th[d].phase \in {"ephemerons", "local"} /\ th[d].todo # <<>>
  /\ LET v == Head(th[d].todo)
         r == mem[v][1]
     IN /\ mem' = [mem EXCEPT ![r] = [i \in 1..Len(mem[v]) |-> IF i = 1 THEN @[1] ELSE mem[v][i]]]
        /\ th' = [th EXCEPT ![d].todo = Tail(@), ![d].work = Fields(r)]
  /\ UNCHANGED <<start, hd, tag, finished, finalised>>

(* The end of a phase.  The ephemerons are done again as long as one of    *)
(* them held a young value that was not promoted (redo).                   *)
EndPhase(d) ==
  /\ At(d, "next") /\ th[d].work = <<>>
  /\ \/ /\ th[d].phase = "roots"
        /\ th' = [th EXCEPT ![d].phase = "ephemerons"]
     \/ /\ th[d].phase = "ephemerons" /\ th[d].todo = <<>>
        /\ LET young == SelectSeq(start.ephe[d], LAMBDA p : IsYoung(mem[p[1]][p[2]])) IN
           th' = [th EXCEPT ![d].work = IF young # <<>> THEN young ELSE start.local[d],
                            ![d].phase = IF young # <<>> THEN @ ELSE "local"]
     \/ /\ th[d].phase = "local" /\ th[d].todo = <<>>
        /\ th' = [th EXCEPT ![d].pc = "arrive"]
  /\ UNCHANGED <<start, mem, hd, tag, finished, finalised>>

Arrive(d) ==
  /\ At(d, "arrive")
  /\ finished' = finished + 1 /\ th' = [th EXCEPT ![d].pc = "leave"]
  /\ UNCHANGED <<start, mem, hd, tag, finalised>>

(* Mutation: the finalisers run before the other domains have arrived.     *)
NoWait(d) == TRUE

(* The barrier is left when all domains have arrived.                      *)
MayLeave(d) == finished = N

(* custom_finalize_minor: the finalisers of the custom blocks of this      *)
(* domain that were not promoted.                                          *)
CustomFinalize(d) ==
  /\ At(d, "leave") /\ MayLeave(d)
  /\ finalised' = finalised \union {y \in start.custom[d] : hd[y] # FORWARDED}
  /\ th' = [th EXCEPT ![d].pc = "done"]
  /\ UNCHANGED <<start, mem, hd, tag, finished>>

Step(d) ==
  \/ NextLocation(d) \/ Oldify(d) \/ Update(d) \/ StoreForward(d) \/ ReleaseHeader(d)
  \/ Mopup(d) \/ EndPhase(d) \/ Arrive(d) \/ CustomFinalize(d)

Next == \E d \in Participants : Step(d)

Spec == Init /\ [][Next]_vars

(* Each domain runs on its own thread, inside the section.                 *)
FairSpec == Spec /\ \A d \in Participants : WF_vars(Step(d))

-----------------------------------------------------------------------------
(* What a value of the starting heap has become.  A forward block that was *)
(* short-circuited has become what it leads to.                            *)
RECURSIVE Image(_)
Image(v) ==
  IF ~IsYoung(v) THEN v
  ELSE IF hd[v] = FORWARDED THEN mem[v][1]
  ELSE Image(start.mem[v][1])

(* The locations that are roots, and those of the major heap.              *)
OldLocations == UNION {{<<o, i>> : i \in 1..Len(start.mem[o])} : o \in DOMAIN start.mem \ YoungObjects}

(* Once a domain may run code again, no location outside the minor heaps   *)
(* holds a young value; each holds what its value has become, each block   *)
(* has one copy, with the block's tag and its fields' images, however the  *)
(* domains raced for it.                                                   *)
AllPromoted ==
  finished = N =>
    /\ \A p \in OldLocations : mem[p[1]][p[2]] = Image(start.mem[p[1]][p[2]])
    /\ \A y \in YoungObjects : hd[y] = FORWARDED =>
         LET c == mem[y][1] IN
         /\ tag[c] = Young[y]
         /\ \A i \in 1..Len(mem[c]) : mem[c][i] = Image(start.mem[y][i])
         /\ \A z \in YoungObjects \ {y} : hd[z] = FORWARDED => mem[z][1] # c

(* A custom block's finaliser runs, at the end of the collection, exactly  *)
(* when no domain has promoted the block.                                  *)
FinalisedDead ==
  \A d \in Participants, y \in YoungObjects :
    At(d, "done") /\ y \in start.custom[d] => (y \in finalised <=> hd[y] # FORWARDED)

(* No domain waits for ever for another one that moves a block or that has *)
(* not arrived: the collection ends.                                       *)
CollectionEnds == <>(\A d \in Participants : At(d, "done"))
=============================================================================
