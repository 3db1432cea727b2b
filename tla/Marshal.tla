------------------------------ MODULE Marshal ------------------------------
(* The primitives that write and read values (runtime/extern.c and           *)
(* runtime/intern.c), called by the threads of one domain, which share its   *)
(* marshalling contexts.                                                     *)
EXTENDS Extern

CONSTANTS Threads,
          Jobs          \* what the threads do: [heap, root, flags, out, len, in,
                        \* alien, cut, big, rbig, ok], see MCPrograms

VARIABLES pc,           \* where each thread is
          job,          \* the job of each thread
          loc,          \* its local variables
          chan,         \* the bytes in its channel or its buffer
          ext,          \* Caml_state->extern_state, shared by the threads
          int           \* Caml_state->intern_state, shared by the threads
vars == <<pc, job, loc, chan, ext, int>>

(***************************************************************************)
(* The threads of a domain share its two contexts.  They switch where a      *)
(* channel reads or writes, and in caml_process_pending_actions.             *)
(***************************************************************************)
NoContext == [input |-> FALSE, table |-> <<>>, src |-> <<>>, stack |-> <<>>, limit |-> StackInit,
              compressed |-> FALSE, objects |-> 0, heap |-> <<>>, words |-> 0,
              res |-> Long(0), big |-> FALSE, err |-> ""]
intern_init(context, src, owned) == [context EXCEPT !.src = src, !.input = owned]
intern_cleanup(context) == [context EXCEPT !.input = FALSE, !.table = <<>>, !.stack = <<>>, !.limit = StackInit]
intern_decompress_input(context, h) ==
  [context EXCEPT !.compressed = h.compressed,
                  !.src = IF h.compressed THEN @[1].v ELSE @,
                  !.input = @ \/ h.compressed]
intern_alloc_storage(context, h) ==
  [context EXCEPT !.objects = h.objects, !.heap = <<>>, !.words = 0, !.table = <<>>, !.err = "", !.res = Long(0)]
(* From the header h and the bytes after it to the value.                    *)
Interned(context, h, big) ==
  InternLoop(ReadItems([intern_alloc_storage(intern_decompress_input(context, h), h) EXCEPT !.big = big],
                       0, 1, 1))

Init == /\ job \in Jobs
        /\ pc = [t \in Threads |-> "start"]
        /\ loc = [t \in Threads |-> [blocks |-> <<>>, head |-> <<>>, heap |-> <<>>, res |-> Long(0), words |-> 0,
                                     whsize |-> 0, left |-> 0, err |-> ""]]
        /\ chan = [t \in Threads |-> <<>>]
        /\ ext = [out |-> <<>>]
        /\ int = NoContext

Goto(t, p) == pc' = [pc EXCEPT ![t] = p]

(* caml_output_val, caml_output_value_to_bytes, _to_malloc and _to_block.    *)
Delivered(t, s) ==
  /\ ext' = [out |-> s.out]
  /\ \/ /\ s.err # ""
        /\ loc' = [loc EXCEPT ![t].err = s.err]
        /\ Goto(t, "failed") /\ UNCHANGED chan
     \/ /\ s.err = "" /\ job[t].out = "channel"
        /\ loc' = [loc EXCEPT ![t].blocks = <<s.header>> \o s.out]
        /\ Goto(t, "put") /\ UNCHANGED chan
     \/ /\ s.err = "" /\ job[t].out # "channel"
        /\ chan' = [chan EXCEPT ![t] = s.header \o FlattenSeq(s.out)]
        /\ Goto(t, "written") /\ UNCHANGED loc
ToBlock(s, j) == IF j.out = "block" THEN caml_output_value_to_block(s, j) ELSE s
Output(t) ==
  /\ pc[t] = "start" /\ job[t].out # "words"
  /\ Delivered(t, ToBlock(extern_value(InitOutput(job[t]), job[t].heap), job[t]))
  /\ UNCHANGED <<job, int>>

(* The blocks to write next: the thread has saved extern_output_first.       *)
Pending(t) == loc[t].blocks
PutBlock(t) ==
  /\ pc[t] = "put"
  /\ chan' = [chan EXCEPT ![t] = @ \o Head(Pending(t))]
  /\ loc' = [loc EXCEPT ![t].blocks = Tail(Pending(t))]
  /\ Goto(t, IF Len(Pending(t)) = 1 THEN "written" ELSE "put")
  /\ UNCHANGED <<job, ext, int>>

(* caml_obj_reachable_words.                                                 *)
ReachableWords(t) ==
  LET s == caml_obj_reachable_words(
             extern_init_position_table([InitOutput(job[t]) EXCEPT !.flags = {}]), job[t].heap)
  IN /\ pc[t] = "start" /\ job[t].out = "words"
     /\ loc' = [loc EXCEPT ![t].words = s.size64, ![t].err = s.err]
     /\ Goto(t, IF s.err = "" THEN "counted" ELSE "failed")
     /\ UNCHANGED <<job, chan, ext, int>>

(* caml_input_val: the first 5 bytes, the rest of the header, the data.      *)
Get5(t) ==
  /\ pc[t] = "written" /\ job[t].in = "channel"
  /\ int' = [int EXCEPT !.src = Tail(SubSeq(chan[t], 1, 2))]
  /\ loc' = [loc EXCEPT ![t].left = HeaderLen(chan[t])]
  /\ Goto(t, "header")
  /\ UNCHANGED <<job, chan, ext>>

HeaderItems(t) == CHOOSE n \in 1 .. Len(chan[t]) : WidthSum(SubSeq(chan[t], 1, n)) = loc[t].left
GetHeader(t) ==
  /\ pc[t] = "header"
  /\ loc' = [loc EXCEPT ![t].head = SubSeq(chan[t], 1, HeaderItems(t)), ![t].left = HeaderItems(t)]
  /\ int' = [int EXCEPT !.src = <<>>]
  /\ Goto(t, "data")
  /\ UNCHANGED <<job, chan, ext>>

(* The end of a reading primitive, from the context at its start.            *)
Finished(t, h, r) ==
  /\ int' = IF r.err = "" THEN intern_cleanup(r) ELSE r
  /\ loc' = [loc EXCEPT ![t].heap = r.heap, ![t].res = r.res, ![t].words = r.words,
                        ![t].whsize = h.whsize, ![t].left = Len(r.src), ![t].err = r.err]
  /\ Goto(t, IF r.err = "" THEN "read" ELSE "failed")
  /\ UNCHANGED <<job, chan, ext>>
Finish(t, context, h) == Finished(t, h, Interned(context, h, job[t].rbig))

(* What the medium still has: it may have lost the end of the message.        *)
Medium(t) == SubSeq(chan[t], 1, Len(chan[t]) - job[t].cut)
Refuse(t, why, context) ==
  /\ int' = context
  /\ loc' = [loc EXCEPT ![t].err = why]
  /\ Goto(t, "failed")
  /\ UNCHANGED <<job, chan, ext>>
GetData(t) ==
  LET data == Skip(Medium(t), loc[t].left)
      h == caml_parse_header(loc[t].head)
  IN /\ pc[t] = "data"
     /\ IF WidthSum(data) < h.len THEN Refuse(t, "truncated object", int)
        ELSE Finish(t, intern_init(int, data, TRUE), h)

(* caml_input_val_from_bytes, caml_input_value_from_block and _from_malloc.  *)
HeaderLength(src) ==
  CHOOSE n \in 1 .. Len(src) : WidthSum(SubSeq(src, 1, n)) = HeaderLen(src)
FromMemory(t) ==
  LET src == IF job[t].alien THEN <<Magic("other")>> \o Tail(Medium(t)) ELSE Medium(t)
      h == caml_parse_header(src)
      c == intern_init(int, src, job[t].in = "malloc")
      data == Skip(src, HeaderLength(src))
  IN /\ pc[t] = "written" /\ job[t].in # "channel"
     /\ IF h.err # "" THEN Refuse(t, h.err, c)
        ELSE IF job[t].in # "malloc" /\ WidthSum(data) < h.len THEN Refuse(t, "bad length", c)
        ELSE Finish(t, [c EXCEPT !.src = data], h)

(* intern_end runs the pending actions once the context is free again.       *)
intern_end(t) ==
  /\ pc[t] = "read"
  /\ Goto(t, "done")
  /\ UNCHANGED <<job, loc, chan, ext, int>>

Next == \E t \in Threads : \/ Output(t) \/ PutBlock(t) \/ ReachableWords(t) \/ Get5(t) \/ GetHeader(t)
                           \/ GetData(t) \/ FromMemory(t) \/ intern_end(t)
Spec == Init /\ [][Next]_vars

(***************************************************************************)
(* Properties.                                                               *)
(***************************************************************************)
RECURSIVE Deref(_, _)
Deref(heap, v) == IF ShortCut(heap, v) THEN Deref(heap, heap[v.b].fields[1]) ELSE v
RECURSIVE Closed(_, _, _)
Closed(pairs, h1, h2) ==
  LET kids == UNION {{<<Deref(h1, h1[p[1].b].fields[i]), h2[p[2].b].fields[i]>>
                        : i \in DOMAIN h1[p[1].b].fields \cap DOMAIN h2[p[2].b].fields}
                     : p \in {q \in pairs : q[1].b > 0 /\ q[2].b > 0}}
  IN IF kids \subseteq pairs THEN pairs ELSE Closed(pairs \cup kids, h1, h2)
SameLabel(x, y) ==
  /\ x.tag = y.tag /\ x.data = y.data /\ x.name = y.name /\ Len(x.fields) = Len(y.fields)
  /\ x.tag = Object =>
       y.fields[2] = IF x.fields[2].n >= 0 THEN FreshOID ELSE x.fields[2]
OfObject(p, h1, h2) == \E i \in DOMAIN h1 : h1[i].tag = Object /\ p[1] = h1[i].fields[2]
Alike(p, h1, h2) ==
  IF p[1].b <= 0 THEN p[1] = p[2] \/ OfObject(p, h1, h2)
  ELSE p[2].b > 0 /\ p[1].n = p[2].n /\ SameLabel(h1[p[1].b], h2[p[2].b])
Shared(pairs, heap) == {p \in pairs : p[1].b > 0 /\ p[1].n = 0 /\ ~IsAtom(heap, p[1].b)}
Corresponds(j, heap, res) ==
  LET pairs == Closed({<<Deref(j.heap, j.root), res>>}, j.heap, heap)
  IN /\ \A p \in pairs : Alike(p, j.heap, heap)
     /\ \A p, q \in Shared(pairs, j.heap) :
          /\ p[2] = q[2] => p[1] = q[1]
          /\ "no_sharing" \notin j.flags /\ p[1] = q[1] => p[2] = q[2]
RECURSIVE Reach(_, _)
Reach(set, heap) ==
  LET more == {f.b : f \in UNION {Range(SubSeq(heap[b].fields,
                                      IF heap[b].tag = Closure THEN StartEnv(heap[b].fields[2]) + 1 ELSE 1,
                                      Len(heap[b].fields)))
                                  : b \in {c \in set : heap[c].tag \notin NoScan}}} \ {0}
  IN IF more \subseteq set THEN set ELSE Reach(set \cup more, heap)

(* What is read is what was written: the value that an input primitive       *)
(* (intern.c) rebuilds has the shape, the contents and, unless No_sharing    *)
(* was given, the sharing and the cycles of the value that extern.c wrote,   *)
(* lazy values that were forced being replaced by their value; the header    *)
(* announces the bytes, the objects and the words that the reader takes; a   *)
(* job fails exactly when the value, the flags, the buffer or the medium     *)
(* call for it; and caml_obj_reachable_words counts every block once.        *)
Restored ==
  \A t \in Threads :
    /\ pc[t] \in {"read", "done"} =>
         /\ job[t].ok
         /\ Corresponds(job[t], loc[t].heap, loc[t].res)
         /\ loc[t].words = loc[t].whsize /\ loc[t].left = 0
         /\ caml_marshal_data_size(chan[t]) + 16 = WidthSum(chan[t])
    /\ pc[t] = "failed" => ~job[t].ok
    /\ pc[t] = "counted" =>
         LET all == Reach({job[t].root.b}, job[t].heap)
         IN loc[t].words = FoldSet(LAMBDA b, acc : acc + 1 + Words(job[t].heap[b]), 0, all)

(* A demarshalling primitive finds the context of its domain free            *)
(* (the assertion of intern_init): no reader, whether it succeeds or fails,  *)
(* leaves its input block or its table of objects behind.                    *)
ContextFree == ~int.input /\ int.table = <<>>
=============================================================================
