------------------------------ MODULE Channel ------------------------------
(* A buffered channel of runtime/io.c, used by several threads at once: the  *)
(* channel lock, the windows check_pending opens in the middle of an         *)
(* operation, short reads and writes, EINTR and errors, closing, and the     *)
(* reference count that decides when the structure is freed.                 *)
(* Positions in the buffer count from 0, as the pointers do from buff; the   *)
(* channel is managed by the GC and in binary mode.                          *)
EXTENDS Integers, Sequences, FiniteSets

CONSTANTS Threads,      \* threads that hold the channel
          NoThread,     \* the mutex is free
          BufSize,      \* IO_BUFFER_SIZE
          Calls,        \* the calls a thread may make: [op, n]
          Todo,         \* bound: calls of each thread
          Source,       \* contents of the file an input channel reads
          NL,           \* the byte '\n'
          MaxByte,      \* bound: bytes written
          MaxTroubles   \* bound: pending actions found, and failures of read and write

VARIABLES ch,        \* struct channel: out, fd (open?), offset, curr, max, buff, unbuf
          mutex,     \* owner of ch->mutex
          last,      \* last_channel_locked of each thread
          th,        \* where each thread is in its call
          kpos,      \* position of the descriptor, kept by the kernel
          file,      \* contents of the file
          refs,      \* values, listing: who counts in refcount; freed
          want,      \* what the accepted bytes make of the file
          lost,      \* buffered bytes were given up for an error or a close
          bound      \* bytes made, pending actions and faults so far

vars == <<ch, mutex, last, th, kpos, file, refs, want, lost, bound>>
world == <<kpos, file, refs, want, lost>>

Least(a, b) == IF a < b THEN a ELSE b

Null == -1
NoLine == [at |-> 0, n |-> 0]
NoCall == [pc |-> "idle", op |-> "none", left |-> 0, ret |-> "none", p |-> 0,
           line |-> NoLine, end |-> "none", was |-> TRUE, todo |-> 0]

(* The file after s is written at position p; a gap reads as zeros.          *)
Overlay(f, p, s) ==
  IF s = <<>> THEN f
  ELSE [i \in 1 .. (IF Len(f) > p + Len(s) THEN Len(f) ELSE p + Len(s)) |->
          IF i \in (p + 1) .. (p + Len(s)) THEN s[i - p]
          ELSE IF i <= Len(f) THEN f[i] ELSE 0]

Buffered(c) == SubSeq(c.buff, 1, c.curr)
PutAt(b, i, s) == [j \in 1 .. BufSize |-> IF j \in (i + 1) .. (i + Len(s)) THEN s[j - i] ELSE b[j]]

caml_pos_out(c) == c.offset + c.curr
caml_pos_in(c) == c.offset - (c.max - c.curr)

(* caml_open_descriptor_in / _out and the link in the list of channels.      *)
Open(out) ==
  [out |-> out, fd |-> TRUE, offset |-> 0, curr |-> 0, max |-> IF out THEN Null ELSE 0,
   buff |-> [i \in 1 .. BufSize |-> 0], unbuf |-> FALSE]

Init ==
  /\ \E out \in BOOLEAN : ch = Open(out) /\ file = IF out THEN <<>> ELSE Source
  /\ mutex = NoThread /\ last = [t \in Threads |-> FALSE]
  /\ th = [t \in Threads |-> [NoCall EXCEPT !.todo = Todo]]
  /\ kpos = 0 /\ want = <<>> /\ lost = FALSE
  /\ refs = [count |-> 1, values |-> 1, listing |-> 0, freed |-> FALSE]
  /\ bound = [byte |-> 0, pending |-> 0, faults |-> 0]

InOps == {"input_char", "input_int", "input", "really", "scan_line", "seek_in"}
OutOps == {"output_char", "output_int", "output", "bigarray", "flush", "seek_out", "unbuffered"}
Outputs == {"output_char", "output_int", "output", "bigarray"}

Locked(t) == mutex = NoThread /\ mutex' = t /\ last' = [last EXCEPT ![t] = TRUE]
Unlocked(t) == mutex' = NoThread /\ last' = [last EXCEPT ![t] = FALSE]

(* A mutant of Relocked: last_channel_locked is not set.                     *)
LockedOnly(t) == mutex = NoThread /\ mutex' = t /\ UNCHANGED last

(* caml_channel_lock, after pending actions.                                 *)
Relocked(t) == Locked(t)

(* caml_channel_lock at the start of a call.                                 *)
Begin(t) ==
  /\ th[t].pc = "idle" /\ th[t].todo > 0 /\ refs.values > 0
  /\ Locked(t)
  /\ \E c \in Calls :
       /\ c.op \in (IF ch.out THEN OutOps ELSE InOps) \cup {"close", "size"}
       /\ th' = [th EXCEPT ![t] = [NoCall EXCEPT !.pc = "body", !.op = c.op, !.left = c.n,
                                                !.was = ch.fd, !.todo = th[t].todo - 1]]
  /\ UNCHANGED <<ch, world, bound>>

(* The end of a call: caml_channel_unlock and return.                        *)
Over(tt, end) == [NoCall EXCEPT !.op = tt.op, !.was = tt.was, !.line = tt.line,
                                !.end = end, !.todo = tt.todo]
Return(t, tt) == Unlocked(t) /\ th' = [th EXCEPT ![t] = Over(tt, "ok")]

(* caml_raise: caml_channel_cleanup_on_raise unlocks what last names.        *)
RaiseWith(t, why) ==
  /\ mutex' = IF last[t] THEN NoThread ELSE mutex
  /\ last' = [last EXCEPT ![t] = FALSE]
  /\ th' = [th EXCEPT ![t] = Over(@, why)]
Raise(t) == RaiseWith(t, "Sys_error")

Goto(t, tt) == th' = [th EXCEPT ![t] = tt] /\ UNCHANGED <<mutex, last>>
Call(t, tt, next) == Goto(t, [tt EXCEPT !.pc = "check", !.ret = next])

MayHappen == bound.pending + bound.faults < MaxTroubles

(* check_pending: the channel is unlocked while pending actions run, and any *)
(* thread, or the signal handler itself, may use it meanwhile.               *)
check_pending(t) ==
  /\ th[t].pc = "check"
  /\ \/ Goto(t, [th[t] EXCEPT !.pc = "io"]) /\ UNCHANGED bound
     \/ /\ MayHappen
        /\ bound' = [bound EXCEPT !.pending = @ + 1]
        /\ Unlocked(t) /\ th' = [th EXCEPT ![t].pc = "pending"]
  /\ UNCHANGED <<ch, world>>

(* caml_process_pending_actions returns, or a handler raises.                *)
PendingDone(t) ==
  /\ th[t].pc = "pending"
  /\ \/ Relocked(t) /\ th' = [th EXCEPT ![t].pc = "io"]
     \/ Raise(t)
  /\ UNCHANGED <<ch, world, bound>>

------------------------------------------------------------------------------
(* Output.                                                                   *)

NewBytes(n) == [i \in 1 .. n |-> bound.byte + i]

(* n bytes are stored at curr; the ghost want takes them at pos_out.         *)
Stored(c, n) == [c EXCEPT !.buff = PutAt(@, c.curr, NewBytes(n)), !.curr = @ + n]
Accept(n) ==
  /\ bound.byte + n <= MaxByte
  /\ bound' = [bound EXCEPT !.byte = @ + n]
  /\ want' = Overlay(want, caml_pos_out(ch), NewBytes(n))
  /\ UNCHANGED <<kpos, file, refs, lost>>

Writing(t) == th[t].pc = "body" /\ th[t].left > 0

(* Putch, once for output_char and four times for caml_putword.              *)
Putch(t) ==
  /\ th[t].op \in {"output_char", "output_int"}
  /\ \/ /\ Writing(t) /\ ch.curr >= BufSize
        /\ Call(t, th[t], "stored") /\ UNCHANGED <<ch, world, bound>>
     \/ /\ (Writing(t) /\ ch.curr < BufSize) \/ th[t].pc = "stored"
        /\ ch' = Stored(ch, 1) /\ Accept(1)
        /\ Goto(t, [th[t] EXCEPT !.pc = "body", !.left = @ - 1])

(* caml_putblock, in the loops of caml_ml_output_bytes and                   *)
(* caml_really_putblock.                                                     *)
caml_putblock(t) ==
  /\ Writing(t) /\ th[t].op \in {"output", "bigarray"}
  /\ LET free == BufSize - ch.curr  n == th[t].left IN
     IF n < free
     THEN /\ ch' = Stored(ch, n) /\ Accept(n)
          /\ Goto(t, [th[t] EXCEPT !.left = 0])
     ELSE /\ ch' = [Stored(ch, free) EXCEPT !.curr = BufSize] /\ Accept(free)
          /\ Call(t, [th[t] EXCEPT !.left = n - free], "body")

(* The end of an output call: caml_flush_if_unbuffered, which                *)
(* caml_ml_output_bigarray does not call.                                    *)
OutputDone(t) ==
  /\ th[t].pc = "body" /\ th[t].left = 0 /\ th[t].op \in Outputs
  /\ IF ch.unbuf /\ th[t].op # "bigarray" THEN Call(t, th[t], "flushed") ELSE Return(t, th[t])
  /\ UNCHANGED <<ch, world, bound>>

(* Back from caml_flush_partial; caml_flush calls it until it answers true.  *)
BackFromFlush(t, c) ==
  IF th[t].ret = "flushed" /\ c.curr > 0 THEN Call(t, th[t], "flushed")
  ELSE Goto(t, [th[t] EXCEPT !.pc = th[t].ret])


Shifted(c, w) == [c EXCEPT !.offset = @ + w, !.curr = @ - w,
                           !.buff = PutAt(@, 0, SubSeq(c.buff, w + 1, c.curr))]

Fault == MayHappen /\ bound' = [bound EXCEPT !.faults = @ + 1]

(* caml_flush_partial after check_pending: the write and its outcomes.       *)
caml_flush_partial(t) ==
  /\ th[t].pc = "io" /\ th[t].ret \in {"stored", "body", "flushed"}
  /\ UNCHANGED <<refs, want>>
  /\ \/ /\ ch.curr = 0
        /\ BackFromFlush(t, ch) /\ UNCHANGED <<ch, kpos, file, lost, bound>>
     \/ /\ ch.curr > 0 /\ ch.fd
        /\ \E w \in 1 .. ch.curr :
             /\ file' = Overlay(file, kpos, SubSeq(ch.buff, 1, w)) /\ kpos' = kpos + w
             /\ ch' = Shifted(ch, w) /\ BackFromFlush(t, ch')
        /\ UNCHANGED <<lost, bound>>
     \/ /\ ch.curr > 0 /\ ch.fd /\ Fault                       \* EINTR
        /\ Call(t, th[t], th[t].ret) /\ UNCHANGED <<ch, kpos, file, lost>>
     \/ /\ ch.curr > 0 /\ ch.fd /\ Fault /\ Raise(t)           \* EAGAIN, EIO: data kept
        /\ UNCHANGED <<ch, kpos, file, lost>>
     \/ /\ ch.curr > 0                                         \* EBADF, EPIPE, ECONNRESET
        /\ IF ch.fd THEN Fault ELSE UNCHANGED bound
        /\ ch' = [ch EXCEPT !.curr = 0] /\ lost' = TRUE
        /\ Raise(t) /\ UNCHANGED <<kpos, file>>

(* caml_ml_flush and caml_ml_set_buffered: a closed channel is left alone.   *)
FlushOp(t) ==
  /\ th[t].pc = "body" /\ th[t].op \in {"flush", "unbuffered"}
  /\ ch' = [ch EXCEPT !.unbuf = @ \/ th[t].op = "unbuffered"]
  /\ IF ch.fd THEN Call(t, th[t], "flushed") ELSE Return(t, th[t])
  /\ UNCHANGED <<world, bound>>

(* caml_seek_out: flush, then lseek; without a descriptor it fails.          *)
caml_seek_out(t) ==
  /\ th[t].op = "seek_out" /\ UNCHANGED <<file, refs, want, lost, bound>>
  /\ \/ th[t].pc = "body" /\ Call(t, th[t], "flushed") /\ UNCHANGED <<ch, kpos>>
     \/ /\ th[t].pc = "flushed"
        /\ IF ch.fd THEN kpos' = th[t].left /\ ch' = [ch EXCEPT !.offset = th[t].left] /\ Return(t, th[t])
           ELSE Raise(t) /\ UNCHANGED <<ch, kpos>>

FlushReturns(t) ==
  /\ th[t].pc = "flushed" /\ th[t].op # "seek_out"
  /\ Return(t, th[t]) /\ UNCHANGED <<ch, world, bound>>

------------------------------------------------------------------------------
(* Input.                                                                    *)

(* read(2) of up to room bytes: 0 at the end of the file.                    *)
ReadSizes(room) ==
  IF kpos >= Len(file) THEN {0} ELSE 1 .. Least(room, Len(file) - kpos)
Filled(c, at0, n) ==
  [c EXCEPT !.buff = PutAt(@, at0, SubSeq(file, kpos + 1, kpos + n)), !.offset = @ + n, !.max = at0 + n]
Advance(n) == kpos' = kpos + n

(* The other outcomes of a read: EINTR starts again, an error raises.        *)
ReadFails(t) ==
  /\ th[t].pc = "io" /\ th[t].ret \in {"refill", "input", "scan"}
  /\ \/ ch.fd /\ Fault /\ Call(t, [th[t] EXCEPT !.p = 0], th[t].ret)
     \/ (IF ch.fd THEN Fault ELSE UNCHANGED bound) /\ Raise(t)
  /\ CASE th[t].ret = "refill" -> TRUE
       [] th[t].ret = "input" -> ch.curr = ch.max /\ th[t].left > 0
       [] OTHER -> th[t].p >= ch.max
  /\ UNCHANGED <<ch, world>>

QuietIn == UNCHANGED <<file, refs, want, lost>>

(* Getch, once for input_char and four times for caml_getword.               *)
Getch(t) ==
  /\ th[t].pc = "body" /\ th[t].op \in {"input_char", "input_int"} /\ QuietIn
  /\ UNCHANGED <<kpos, bound>>
  /\ \/ th[t].left = 0 /\ Return(t, th[t]) /\ UNCHANGED ch
     \/ /\ th[t].left > 0 /\ ch.curr >= ch.max
        /\ Call(t, th[t], "refill") /\ UNCHANGED ch
     \/ /\ th[t].left > 0 /\ ch.curr < ch.max
        /\ ch' = [ch EXCEPT !.curr = @ + 1]
        /\ Goto(t, [th[t] EXCEPT !.left = @ - 1])

(* caml_raise_end_of_file, told apart by what the buffer held at that point. *)
EndOfFile == IF ch.curr < ch.max THEN "End_of_file with characters left" ELSE "End_of_file"

(* caml_refill after check_pending: it reads whatever the buffer holds now.  *)
caml_refill(t) ==
  /\ th[t].pc = "io" /\ th[t].ret = "refill" /\ ch.fd /\ QuietIn /\ UNCHANGED bound
  /\ \E n \in ReadSizes(BufSize) :
       IF n = 0 THEN RaiseWith(t, EndOfFile) /\ UNCHANGED <<ch, kpos>>
       ELSE /\ ch' = [Filled(ch, 0, n) EXCEPT !.curr = 1] /\ Advance(n)
            /\ Goto(t, [th[t] EXCEPT !.pc = "body", !.left = @ - 1])

(* One round of caml_ml_input or caml_getblock is over with n bytes;         *)
(* caml_really_getblock asks for the rest unless n is 0.                     *)
Got(t, n) ==
  IF th[t].op = "really" /\ n > 0 /\ n < th[t].left
  THEN Call(t, [th[t] EXCEPT !.left = @ - n], "input")
  ELSE Return(t, th[t])

(* caml_ml_input and caml_getblock: what is buffered, or one read.           *)
caml_getblock(t) ==
  /\ th[t].op \in {"input", "really"} /\ QuietIn /\ UNCHANGED bound
  /\ \/ th[t].pc = "body" /\ Call(t, th[t], "input") /\ UNCHANGED <<ch, kpos>>
     \/ /\ th[t].pc = "io" /\ (ch.curr < ch.max \/ th[t].left = 0)
        /\ LET n == Least(th[t].left, ch.max - ch.curr) IN
           ch' = [ch EXCEPT !.curr = @ + n] /\ Got(t, n)
        /\ UNCHANGED kpos
     \/ /\ th[t].pc = "io" /\ ch.curr >= ch.max /\ th[t].left > 0 /\ ch.fd
        /\ \E r \in ReadSizes(BufSize) :
             LET n == Least(th[t].left, r) IN
             ch' = [Filled(ch, 0, r) EXCEPT !.curr = n] /\ Advance(r) /\ Got(t, n)

(* The line found or given up on: where it starts and its signed length.     *)
Line(t, c, n) == Return(t, [th[t] EXCEPT !.line = [at |-> caml_pos_in(c), n |-> n]])
ShiftDown(c) == [c EXCEPT !.buff = PutAt(@, 0, SubSeq(c.buff, c.curr + 1, c.max)),
                          !.curr = 0, !.max = c.max - c.curr]
NewlineFrom(p) == {i \in p .. (ch.max - 1) : ch.buff[i + 1] = NL}

(* caml_input_scan_line: look for a newline from p on; when the buffer is    *)
(* used up make room, and read behind what is there.                         *)
caml_input_scan_line(t) ==
  /\ th[t].op = "scan_line" /\ QuietIn /\ UNCHANGED bound
  /\ \/ th[t].pc = "body" /\ Call(t, th[t], "scan") /\ UNCHANGED <<ch, kpos>>
     \/ LET p == IF th[t].p < ch.curr THEN ch.curr ELSE th[t].p
            found == NewlineFrom(p)
            c == ShiftDown(ch) IN
        /\ th[t].pc = "io"
        /\ \/ /\ found # {}
              /\ Line(t, ch, (CHOOSE i \in found : \A j \in found : i <= j) + 1 - ch.curr)
              /\ UNCHANGED <<ch, kpos>>
           \/ /\ found = {} /\ c.max >= BufSize
              /\ ch' = c /\ Line(t, c, -(c.max - c.curr)) /\ UNCHANGED kpos
           \/ /\ found = {} /\ c.max < BufSize /\ ch.fd
              /\ \E n \in ReadSizes(BufSize - c.max) :
                   IF n = 0 THEN ch' = c /\ Line(t, c, -(c.max - c.curr)) /\ UNCHANGED kpos
                   ELSE /\ ch' = Filled(c, c.max, n) /\ Advance(n)
                        /\ Goto(t, [th[t] EXCEPT !.p = c.max])

(* caml_seek_in: inside the buffer only curr moves, otherwise lseek.         *)
caml_seek_in(t) ==
  /\ th[t].pc = "body" /\ th[t].op = "seek_in"
  /\ LET dest == th[t].left IN
     IF dest >= ch.offset - ch.max /\ dest <= ch.offset
     THEN /\ ch' = [ch EXCEPT !.curr = ch.max - (ch.offset - dest)]
          /\ Return(t, th[t]) /\ UNCHANGED kpos
     ELSE IF ch.fd
     THEN /\ kpos' = dest /\ ch' = [ch EXCEPT !.offset = dest, !.curr = 0, !.max = 0]
          /\ Return(t, th[t])
     ELSE Raise(t) /\ UNCHANGED <<ch, kpos>>
  /\ QuietIn /\ UNCHANGED bound

------------------------------------------------------------------------------
(* Closing, the size, and the life of the structure.                         *)

caml_ml_close_channel(t) ==
  /\ th[t].pc = "body" /\ th[t].op = "close"
  /\ ch' = [ch EXCEPT !.curr = BufSize, !.max = BufSize, !.offset = 0, !.fd = FALSE]
  /\ lost' = (lost \/ (ch.out /\ ch.curr > 0))
  /\ Return(t, th[t]) /\ UNCHANGED <<kpos, file, refs, want, bound>>

(* caml_channel_size moves the descriptor to the end and back to offset.     *)
caml_channel_size(t) ==
  /\ th[t].op = "size" /\ UNCHANGED <<ch, file, refs, want, lost, bound>>
  /\ \/ th[t].pc = "body" /\ Call(t, th[t], "size") /\ UNCHANGED kpos
     \/ /\ th[t].pc = "io"
        /\ IF ch.fd THEN kpos' = ch.offset /\ Return(t, th[t]) ELSE Raise(t) /\ UNCHANGED kpos

Idle == \A t \in Threads : th[t].pc = "idle"
NotFlushed(c) == c.max = Null /\ c.curr # 0

(* caml_finalize_channel, for a value nobody uses any more: the structure is *)
(* kept for the other references or for at_exit to flush it.                 *)
caml_finalize_channel ==
  /\ refs.values > 0 /\ (refs.values > 1 \/ Idle)
  /\ refs' = [refs EXCEPT !.values = @ - 1, !.count = @ - 1,
                          !.freed = (refs.count = 1 /\ ~NotFlushed(ch))]
  /\ UNCHANGED <<ch, mutex, last, th, kpos, file, want, lost, bound>>

(* caml_ml_out_channels_list: under the mutex of the list the channel gets   *)
(* a reference, and later a value of its own.                                *)
caml_ml_out_channels_list ==
  /\ \/ /\ ~refs.freed /\ ch.max = Null /\ refs.listing = 0 /\ refs.values < 2
        /\ refs' = [refs EXCEPT !.count = @ + 1, !.listing = @ + 1]
     \/ /\ refs.listing > 0
        /\ refs' = [refs EXCEPT !.listing = @ - 1, !.values = @ + 1]
  /\ UNCHANGED <<ch, mutex, last, th, kpos, file, want, lost, bound>>

Step(t) ==
  \/ Begin(t) \/ check_pending(t) \/ PendingDone(t)
  \/ Putch(t) \/ caml_putblock(t) \/ OutputDone(t) \/ caml_flush_partial(t)
  \/ FlushOp(t) \/ caml_seek_out(t) \/ FlushReturns(t)
  \/ ReadFails(t) \/ Getch(t) \/ caml_refill(t) \/ caml_getblock(t)
  \/ caml_input_scan_line(t) \/ caml_seek_in(t)
  \/ caml_ml_close_channel(t) \/ caml_channel_size(t)

Next ==
  \/ \E t \in Threads : Step(t)
  \/ caml_finalize_channel
  \/ caml_ml_out_channels_list

Spec == Init /\ [][Next]_vars

------------------------------------------------------------------------------

(* Nothing written to an output channel is lost, repeated or out of place,   *)
(* whatever short writes, EINTR, windows and seeks come between: the file    *)
(* with what is still buffered laid over it at offset is what the accepted   *)
(* bytes make, until an error or a close gives the buffer up. A freed        *)
(* channel has no buffer left, and no reference.                             *)
OutputKept ==
  ch.out /\ ~lost =>
    Overlay(file, ch.offset, IF refs.freed \/ ~ch.fd THEN <<>> ELSE Buffered(ch)) = want
Referenced == refs.freed => refs.values = 0 /\ refs.listing = 0

(* What io.h says of offset: with the descriptor at kpos, an open output     *)
(* channel's buffer begins there and an input channel's buffer ends there,   *)
(* the buffer holding the bytes of the file before it; and a line found by   *)
(* input_scan_line ends with the first newline after the position it starts  *)
(* at, while a negative answer means no newline so far.                      *)
OffsetRight ==
  /\ ch.fd => ch.offset = kpos
  /\ ch.fd /\ ~ch.out =>
       /\ 0 <= ch.curr /\ ch.curr <= ch.max /\ ch.max <= BufSize
       /\ \A i \in 1 .. ch.max : ch.buff[i] = file[ch.offset - ch.max + i]
  /\ \A t \in Threads :
       LET l == th[t].line  n == IF l.n < 0 THEN -l.n ELSE l.n IN
       /\ \A i \in 1 .. n : (file[l.at + i] = NL) <=> (l.n > 0 /\ i = n)

(* The lock is never left behind: who owns the mutex is inside a call, past  *)
(* its lock and not in a window, also after exceptions raised by the         *)
(* operation or by a pending action.                                         *)
LockReleased ==
  \A t \in Threads : mutex = t => th[t].pc \notin {"idle", "pending"}

(* The channel as its threads see it: no byte written is lost or duplicated, *)
(* the structure outlives its references, and the lock is given back.        *)
ChannelKept == OutputKept /\ Referenced /\ LockReleased

(* input_char raises End_of_file only when there are no more characters to   *)
(* read.                                                                     *)
EndOfFileHonest == \A t \in Threads : th[t].end # "End_of_file with characters left"

(* An output call on a channel already closed raises.                        *)
ClosedRaises ==
  \A t \in Threads : ~th[t].was /\ th[t].op \in Outputs => th[t].end # "ok"
==============================================================================
