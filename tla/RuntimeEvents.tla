--------------------------- MODULE RuntimeEvents ---------------------------
(***************************************************************************)
(* Runtime events: the ring buffer each domain writes its events in        *)
(* (runtime/runtime_events.c), the cursor a consumer polls it with         *)
(* (otherlibs/runtime_events/runtime_events_consumer.c), the switch that   *)
(* starts, pauses and stops the tracing, and the table of user events.     *)
(*                                                                         *)
(* A ring is a function from offsets to words.  A word is a record naming  *)
(* the message it belongs to and its place in it, so that a message read   *)
(* while it is overwritten is seen to be made of words of several ones.    *)
(* Positions (head, tail, the cursor's) grow for ever and are reduced      *)
(* modulo the size of the ring, as in the code.                            *)
(***************************************************************************)
EXTENDS Integers, Sequences, FiniteSets, SequencesExt

CONSTANTS
  Domains,        \* the domains, 0 .. n - 1
  ring_size_words,
  Jobs,           \* [ops, writes, started]: the calls of a program
  MaxEvents,      \* the [max_option]s a consumer passes; -1 is None
  Weak            \* the stores of the writer may be seen out of order

VARIABLES
  job,            \* the calls this behaviour may make
  enabled,        \* runtime_events_enabled
  paused,         \* runtime_events_paused
  ring,           \* ring[d]: head and tail in the header, and the words
  dom,            \* dom[d]: where domain d is in the function it runs
  known,          \* user_events: the ids of the known events
  names,          \* the ids whose name is in the file
  nextId,         \* runtime_custom_event_index
  lock,           \* user_events_lock: its holder, or none
  stw,            \* the stop-the-world section: leader, kind, who stopped
  cur,            \* the cursor
  written,        \* written[d]: the messages published, with their position
  log             \* log[d]: what the consumer was told about domain d

vars == <<job, enabled, paused, ring, dom, known, names, nextId, lock, stw,
          cur, written, log>>

none == -1      \* no domain
ringVars == <<ring, written>>
userVars == <<known, names, nextId, lock>>
readerVars == <<cur, log>>
switchVars == <<enabled, paused>>

\* Kinds of message: what the consumer does with them differs only in the
\* callback and in whether they are counted: a user event of type unit has
\* the type number of EV_INTERNAL, zero.
Kinds == [begin |-> [len |-> 2, user |-> FALSE, typ |-> 2],
          counter |-> [len |-> 3, user |-> FALSE, typ |-> 4],
          unit |-> [len |-> 2, user |-> TRUE, typ |-> 0],
          custom |-> [len |-> 4, user |-> TRUE, typ |-> 4],
          lifecycle |-> [len |-> 3, user |-> FALSE, typ |-> 1],
          stop |-> [len |-> 2, user |-> FALSE, typ |-> 1],
          pad |-> [len |-> 1, user |-> FALSE, typ |-> 0]]

EV_INTERNAL == 0

Message(kind, len, id, pos) ==
  [kind |-> kind, len |-> len, id |-> id, pos |-> pos]

Word(m, k) == [m |-> m, k |-> k]

\* The word of a ring nobody has written yet (the file is zeros).
Blank == Word(Message("pad", 0, 0, -1), 0)

Offset(p) == p % ring_size_words

(***************************************************************************)
(* Writing.                                                                *)
(***************************************************************************)

Idle == [pc |-> "idle", m |-> Blank.m, head |-> 0, tail |-> 0, pad |-> 0,
         k |-> 0, id |-> 0]

ring_is_active == enabled /\ ~paused

\* The padding a message needs so as not to straddle the end of the ring.
PaddingRequired(tail, len) ==
  LET distance == ring_size_words - Offset(tail)
  IN IF distance < len THEN distance ELSE 0

\* write_to_ring up to the first store: the message and where it will go.
Writing(d, kind, id) ==
  LET len == Kinds[kind].len
      pad == PaddingRequired(ring[d].tail, len)
  IN [Idle EXCEPT !.pc = "advance", !.head = ring[d].head,
        !.tail = ring[d].tail, !.pad = pad,
        !.m = Message(kind, len, id, ring[d].tail + pad)]

\* A write would take the tail over the head.
Over(t) == (t.tail + t.m.len + t.pad) - t.head >= ring_size_words

\* The head leaves the oldest message.  On a machine that keeps stores in
\* order the store is visible at once.
AdvanceHead(d) ==
  /\ dom[d].pc = "advance" /\ Over(dom[d])
  /\ LET h == dom[d].head + ring[d].words[Offset(dom[d].head)].m.len
     IN /\ dom' = [dom EXCEPT ![d].head = h]
        /\ ring' = [ring EXCEPT ![d].head = IF Weak THEN @ ELSE h]
  /\ UNCHANGED <<job, switchVars, userVars, stw, readerVars, written>>

\* Where stores may be reordered, a release store does not hold back the
\* plain stores that follow it: the head is seen to move at any time before
\* the next release store, that of the tail.
HeadSeen(d) ==
  /\ dom[d].pc \in {"advance", "pad", "words"} /\ ring[d].head # dom[d].head
  /\ ring' = [ring EXCEPT ![d].head = dom[d].head]
  /\ UNCHANGED <<job, switchVars, dom, userVars, stw, readerVars, written>>

\* The header of the padding, then the tail moved to the start of the ring.
WritePadding(d) ==
  /\ dom[d].pc = "advance" /\ ~Over(dom[d]) /\ dom[d].pad > 0
  /\ LET p == Message("pad", dom[d].pad, 0, dom[d].tail)
     IN ring' = [ring EXCEPT ![d].words[Offset(dom[d].tail)] = Word(p, 0)]
  /\ dom' = [dom EXCEPT ![d].pc = "pad"]
  /\ UNCHANGED <<job, switchVars, userVars, stw, readerVars, written>>

PublishPadding(d) ==
  /\ dom[d].pc = "pad"
  /\ LET p == ring[d].words[Offset(dom[d].tail)].m
         tail == dom[d].tail + dom[d].pad
     IN /\ ring' = [ring EXCEPT ![d].tail = tail, ![d].head = dom[d].head]
        /\ written' = [written EXCEPT ![d] = Append(@, p)]
        /\ dom' = [dom EXCEPT ![d].pc = "words", ![d].tail = tail,
                     ![d].pad = 0]
  /\ UNCHANGED <<job, switchVars, userVars, stw, readerVars>>

StartWords(d) ==
  /\ dom[d].pc = "advance" /\ ~Over(dom[d]) /\ dom[d].pad = 0
  /\ dom' = [dom EXCEPT ![d].pc = "words"]
  /\ UNCHANGED <<job, switchVars, ringVars, userVars, stw, readerVars>>

\* The header, the timestamp and the words of the content.
WriteWord(d) ==
  /\ dom[d].pc = "words" /\ dom[d].k < dom[d].m.len
  /\ ring' = [ring EXCEPT
       ![d].words[Offset(dom[d].tail) + dom[d].k] = Word(dom[d].m, dom[d].k)]
  /\ dom' = [dom EXCEPT ![d].k = @ + 1]
  /\ UNCHANGED <<job, switchVars, userVars, stw, readerVars, written>>

Publish(d) ==
  /\ dom[d].pc = "words" /\ dom[d].k = dom[d].m.len
  /\ ring' = [ring EXCEPT ![d].tail = dom[d].tail + dom[d].m.len,
                          ![d].head = dom[d].head]
  /\ written' = [written EXCEPT ![d] = Append(@, dom[d].m)]
  /\ dom' = [dom EXCEPT ![d] =
       IF dom[d].m.kind = "stop" THEN [Idle EXCEPT !.pc = "stopping"] ELSE Idle]
  /\ UNCHANGED <<job, switchVars, userVars, stw, readerVars>>

(***************************************************************************)
(* The calls of the program.                                               *)
(***************************************************************************)

Room(d) == Len(written[d]) < job.writes[d]
Calls(d, op) == dom[d].pc = "idle" /\ op \in job.ops
Write(d, kind, id) == dom' = [dom EXCEPT ![d] = Writing(d, kind, id)]

\* caml_ev_begin and the other events of the runtime itself.
caml_ev(d, kind) ==
  /\ Calls(d, kind) /\ Room(d) /\ ring_is_active
  /\ Write(d, kind, 0)
  /\ UNCHANGED <<job, switchVars, ringVars, userVars, stw, readerVars>>

\* caml_runtime_events_user_write, for an event the program has registered.
caml_runtime_events_user_write(d, kind) ==
  /\ Calls(d, kind) /\ Room(d) /\ ring_is_active
  /\ \E id \in known : Write(d, kind, id)
  /\ UNCHANGED <<job, switchVars, ringVars, userVars, stw, readerVars>>

\* caml_runtime_events_pause: the event that tells it is asked for after the
\* switch is off, so nothing is written.
caml_runtime_events_pause(d) ==
  /\ Calls(d, "pause") /\ enabled /\ ~paused
  /\ paused' = TRUE
  /\ UNCHANGED <<job, enabled, ringVars, dom, userVars, stw, readerVars>>

caml_runtime_events_resume(d) ==
  /\ Calls(d, "pause") /\ enabled /\ paused /\ Room(d)
  /\ paused' = FALSE
  /\ Write(d, "lifecycle", 0)
  /\ UNCHANGED <<job, enabled, ringVars, userVars, stw, readerVars>>

\* caml_runtime_events_start, and the minor collection an allocation may
\* begin: a domain stops the others.
Lead(d, kind) == stw' = [leader |-> d, kind |-> kind, stopped |-> {d}]

caml_runtime_events_start(d) ==
  /\ Calls(d, "start") /\ ~enabled /\ stw.leader = none
  /\ Lead(d, "create")
  /\ dom' = [dom EXCEPT ![d].pc = "leads"]
  /\ UNCHANGED <<job, switchVars, ringVars, userVars, readerVars>>

\* caml_runtime_events_destroy: the last event, written even when paused,
\* then a section that takes the rings down.
caml_runtime_events_destroy(d) ==
  /\ Calls(d, "stop") /\ enabled
  /\ Write(d, "stop", 0)
  /\ UNCHANGED <<job, switchVars, ringVars, userVars, stw, readerVars>>

DestroySection(d) ==
  /\ dom[d].pc = "stopping" /\ stw.leader = none
  /\ IF enabled
     THEN /\ Lead(d, "teardown")
          /\ dom' = [dom EXCEPT ![d].pc = "leads"]
     ELSE /\ dom' = [dom EXCEPT ![d] = Idle]
          /\ UNCHANGED stw
  /\ UNCHANGED <<job, switchVars, ringVars, userVars, readerVars>>

\* A domain takes part in the section from where it polls: running the
\* program, or in an allocation.  A domain that waits for a mutex with
\* caml_plat_lock does not.
Join(d) ==
  /\ stw.leader # none /\ d \notin stw.stopped
  /\ dom[d].pc \in {"idle", "alloc", "stopping"}
  /\ stw' = [stw EXCEPT !.stopped = @ \union {d}]
  /\ UNCHANGED <<job, switchVars, ringVars, dom, userVars, readerVars>>

Stopped(kind) == stw.kind = kind /\ stw.stopped = Domains
NoSection == [leader |-> none, kind |-> "", stopped |-> {}]
EmptyRing == [head |-> 0, tail |-> 0,
              words |-> [i \in 0 .. ring_size_words - 1 |-> Blank]]
Resumed(d) == IF dom[d].pc = "leads" THEN Idle
              ELSE IF dom[d].pc = "allocLeads" THEN [dom[d] EXCEPT !.pc = "alloc"]
              ELSE dom[d]

\* The names the new file gets: those of the events known when the switch
\* was turned on.
NamesAtStart == known

\* runtime_events_create_from_stw_single: needs user_events_lock.
Create ==
  /\ Stopped("create") /\ lock = none
  /\ enabled' = TRUE /\ paused' = FALSE
  /\ ring' = [d \in Domains |-> EmptyRing]
  /\ names' = NamesAtStart
  /\ stw' = NoSection
  /\ dom' = [d \in Domains |-> Resumed(d)]
  /\ UNCHANGED <<job, known, nextId, lock, readerVars, written>>

\* runtime_events_teardown_from_stw_single: the domains have no ring any more;
\* a consumer keeps the file it has mapped.
Teardown ==
  /\ Stopped("teardown")
  /\ enabled' = FALSE
  /\ stw' = NoSection
  /\ dom' = [d \in Domains |-> Resumed(d)]
  /\ UNCHANGED <<job, paused, ringVars, userVars, readerVars>>

\* A minor collection touches nothing here.
Collect ==
  /\ Stopped("minor")
  /\ stw' = NoSection
  /\ dom' = [d \in Domains |-> Resumed(d)]
  /\ UNCHANGED <<job, switchVars, ringVars, userVars, readerVars>>

(***************************************************************************)
(* Registering a user event.                                               *)
(***************************************************************************)

MaxCustom == 1    \* RUNTIME_EVENTS_MAX_CUSTOM_EVENTS, scaled down

\* The index is taken even when the call then fails.
Register(d) ==
  /\ Calls(d, "register") /\ nextId <= MaxCustom + 1
  /\ nextId' = nextId + 1
  /\ dom' = IF nextId > MaxCustom THEN dom
            ELSE [dom EXCEPT ![d].pc = "lock", ![d].id = nextId]
  /\ UNCHANGED <<job, switchVars, ringVars, known, names, lock, stw, readerVars>>


\* The name goes to the file when there is one.
NamesRegistered(id) == IF enabled THEN names \union {id} ELSE names

RegisterName(d) ==
  /\ dom[d].pc = "lock" /\ lock = none
  /\ lock' = d
  /\ names' = NamesRegistered(dom[d].id)
  /\ dom' = [dom EXCEPT ![d].pc = "alloc"]
  /\ UNCHANGED <<job, switchVars, ringVars, known, nextId, stw, readerVars>>

\* The list item is allocated with the mutex held; the minor heap may be
\* full, and then the domain asks for a collection.
AllocCollects(d) ==
  /\ dom[d].pc = "alloc" /\ "collect" \in job.ops /\ stw.leader = none
  /\ Lead(d, "minor")
  /\ dom' = [dom EXCEPT ![d].pc = "allocLeads"]
  /\ UNCHANGED <<job, switchVars, ringVars, userVars, readerVars>>

RegisterItem(d) ==
  /\ dom[d].pc = "alloc" /\ d \notin stw.stopped
  /\ known' = known \union {dom[d].id}
  /\ lock' = none
  /\ dom' = [dom EXCEPT ![d] = Idle]
  /\ UNCHANGED <<job, switchVars, ringVars, names, nextId, stw, readerVars>>

(***************************************************************************)
(* Polling.                                                                *)
(***************************************************************************)

Closed == [pc |-> "closed", pos |-> [d \in Domains |-> 0], next |-> 0,
           i |-> 0, max |-> 0, opt |-> -1, consumed |-> 0, calls |-> 0,
           head |-> 0, tail |-> 0, len |-> 0, buf |-> <<>>, early |-> FALSE,
           cache |-> {}]

Here == (cur.next + cur.i) % Cardinality(Domains)
Pos == cur.pos[Here]

caml_runtime_events_create_cursor ==
  /\ cur.pc = "closed" /\ enabled
  /\ cur' = [Closed EXCEPT !.pc = "open"]
  /\ UNCHANGED <<job, switchVars, ringVars, dom, userVars, stw, log>>

\* caml_ml_runtime_events_read_poll passes the OCaml integer as it is, with
\* its tag bit, where a number of events is expected.
MaxEventsArg(opt) == IF opt = -1 THEN 0 ELSE 2 * opt + 1

PollBegin(opt) ==
  /\ cur.pc = "open" /\ "poll" \in job.ops
  /\ cur' = [cur EXCEPT !.pc = "head", !.i = 0, !.opt = opt,
               !.max = MaxEventsArg(opt), !.consumed = 0, !.calls = 0,
               !.early = FALSE]
  /\ UNCHANGED <<job, switchVars, ringVars, dom, userVars, stw, log>>

LoadHead ==
  /\ cur.pc = "head"
  /\ cur' = [cur EXCEPT !.pc = "tail", !.head = ring[Here].head]
  /\ UNCHANGED <<job, switchVars, ringVars, dom, userVars, stw, log>>

\* The domain is finished: the next one is for the next round, or for the
\* next poll when this was the last, or when a callback raised.
Leave(c) ==
  LET here == (c.next + c.i) % Cardinality(Domains)
      n == Cardinality(Domains)
      over == c.i + 1 = n \/ c.early
  IN IF over
     THEN [c EXCEPT !.pc = "open", !.i = 0, !.head = 0, !.tail = 0, !.buf = <<>>,
             !.len = 0, !.opt = -1, !.max = 0, !.consumed = 0, !.calls = 0,
             !.early = FALSE,
             !.next = (here + 1) % n]
     ELSE [c EXCEPT !.pc = "head", !.i = @ + 1]

\* The condition of the inner loop.
Again(c) ==
  IF /\ c.pos[(c.next + c.i) % Cardinality(Domains)] < c.tail
     /\ c.max = 0 \/ c.consumed < c.max
     /\ ~c.early
  THEN [c EXCEPT !.pc = "head", !.buf = <<>>, !.len = 0]
  ELSE Leave([c EXCEPT !.buf = <<>>, !.len = 0])

Lost(n) == [log EXCEPT ![Here] = Append(@, [kind |-> "lost", words |-> n])]

\* Events were overwritten since the last poll: they are reported.  When the
\* callback raises the position stays, and they will be reported again.
LostBefore(raises) ==
  /\ cur.pc = "tail" /\ cur.head > Pos
  /\ cur' = IF raises THEN Leave([cur EXCEPT !.early = TRUE])
            ELSE [cur EXCEPT !.pos[Here] = cur.head]
  /\ log' = IF raises THEN log ELSE Lost(cur.head - Pos)
  /\ UNCHANGED <<job, switchVars, ringVars, dom, userVars, stw>>

LoadTail ==
  /\ cur.pc = "tail" /\ cur.head <= Pos
  /\ LET c == [cur EXCEPT !.tail = ring[Here].tail]
     IN cur' = IF Pos >= c.tail THEN Leave(c) ELSE [c EXCEPT !.pc = "copy"]
  /\ UNCHANGED <<job, switchVars, ringVars, dom, userVars, stw, log>>

\* The header gives the length.  A word that is not a header reads as any
\* length there is.
LoadHeader ==
  /\ cur.pc = "copy" /\ cur.buf = <<>>
  /\ LET w == ring[Here].words[Offset(Pos)]
     IN \E len \in IF w.k = 0 THEN {w.m.len} ELSE 1 .. 4 :
          cur' = [cur EXCEPT !.buf = <<w>>, !.len = IF w.m.kind = "pad" THEN 1 ELSE len]
  /\ UNCHANGED <<job, switchVars, ringVars, dom, userVars, stw, log>>

\* caml_runtime_events_free_cursor.
caml_runtime_events_free_cursor ==
  /\ cur.pc = "open" /\ "free" \in job.ops
  /\ cur' = Closed
  /\ log' = [d \in Domains |-> <<>>]
  /\ UNCHANGED <<job, switchVars, ringVars, dom, userVars, stw>>

\* memcpy, a word at a time.  The words of a padding after its header mean
\* nothing and are left out.
LoadWord ==
  /\ cur.pc = "copy" /\ cur.buf # <<>> /\ Len(cur.buf) < cur.len
  /\ LET at == Offset(Pos) + Len(cur.buf)
         w == IF at < ring_size_words THEN ring[Here].words[at] ELSE Blank
     IN cur' = [cur EXCEPT !.buf = Append(@, w)]
  /\ UNCHANGED <<job, switchVars, ringVars, dom, userVars, stw, log>>

\* The message read may have been overwritten.
Overwritten == ring[Here].head > Pos

Copied == cur.pc = "copy" /\ cur.buf # <<>> /\ Len(cur.buf) = cur.len

LostDuring(raises) ==
  /\ Copied /\ Overwritten
  /\ LET h == ring[Here].head
     IN /\ cur' = Again([cur EXCEPT !.pos[Here] = h, !.early = raises])
        /\ log' = Lost(h - Pos)
  /\ UNCHANGED <<job, switchVars, ringVars, dom, userVars, stw>>

\* The callbacks of the runtime's events, called or absent: an exception is
\* kept for the end of the poll.
RuntimeCallback(c, raises) ==
  [c EXCEPT !.calls = @ + 1, !.early = raises]

\* The event a user message is about: from the cursor's cache, or the one of
\* that name among the known events.
ResolveCached(c, id) == [c EXCEPT !.cache = @ \union {id}]
Resolved(c, id) == id \in c.cache \/ id \in names

UserCallback(c, id, raises) ==
  [ResolveCached(c, id) EXCEPT !.calls = @ + 1, !.early = raises]

\* The callback of the message's type; a padding has none.  When the callback
\* raises the position stays at the message.
Deliver(raises) ==
  /\ Copied /\ ~Overwritten
  /\ LET m == cur.buf[1].m
         counted == Kinds[m.kind].typ # EV_INTERNAL
         called == IF m.kind = "pad" THEN cur
                   ELSE IF Kinds[m.kind].user THEN UserCallback(cur, m.id, raises)
                   ELSE RuntimeCallback(cur, raises)
     IN /\ m.kind = "pad" => ~raises
        /\ cur' = IF raises THEN Again(called)
                  ELSE Again([called EXCEPT !.pos[Here] = @ + m.len,
                         !.consumed = IF counted THEN @ + 1 ELSE @])
        /\ log' = IF raises THEN log
                  ELSE [log EXCEPT ![Here] = Append(@,
                          [kind |-> "event", words |-> m.len, buf |-> cur.buf,
                           named |-> Kinds[m.kind].user => Resolved(cur, m.id)])]
  /\ UNCHANGED <<job, switchVars, ringVars, dom, userVars, stw>>

(***************************************************************************)
(* The system.                                                             *)
(***************************************************************************)

Init ==
  /\ job \in Jobs
  /\ enabled = job.started /\ paused = FALSE
  /\ ring = [d \in Domains |-> EmptyRing]
  /\ dom = [d \in Domains |-> Idle]
  /\ known = {} /\ names = {} /\ nextId = 0 /\ lock = none
  /\ stw = NoSection
  /\ cur = Closed
  /\ written = [d \in Domains |-> <<>>]
  /\ log = [d \in Domains |-> <<>>]

Writer(d) ==
  \/ AdvanceHead(d) \/ WritePadding(d) \/ PublishPadding(d) \/ StartWords(d)
  \/ WriteWord(d) \/ Publish(d)

Program(d) ==
  \/ \E kind \in {"begin", "counter"} : caml_ev(d, kind)
  \/ \E kind \in {"unit", "custom"} : caml_runtime_events_user_write(d, kind)
  \/ caml_runtime_events_pause(d) \/ caml_runtime_events_resume(d)
  \/ caml_runtime_events_start(d) \/ caml_runtime_events_destroy(d)
  \/ Register(d)

Runtime(d) ==
  \/ Join(d) \/ DestroySection(d) \/ RegisterName(d) \/ AllocCollects(d) \/ RegisterItem(d)

Consumer ==
  \/ caml_runtime_events_create_cursor \/ caml_runtime_events_free_cursor
  \/ \E opt \in MaxEvents : PollBegin(opt)
  \/ LoadHead \/ LoadTail \/ LoadHeader \/ LoadWord
  \/ \E raises \in BOOLEAN :
       /\ raises => "raise" \in job.ops
       /\ LostBefore(raises) \/ LostDuring(raises) \/ Deliver(raises)

Next ==
  \/ \E d \in Domains :
       /\ d \notin stw.stopped
       /\ Writer(d) \/ Program(d) \/ Runtime(d)
  \/ Create \/ Teardown \/ Collect
  \/ Consumer

Spec == Init /\ [][Next]_vars

\* Where the machine may reorder the stores of the writer.
WeakSpec == Init /\ [][Next \/ \E d \in Domains : HeadSeen(d)]_vars

\* Every domain runs, and a section every domain has joined is run.
FairSpec ==
  /\ Spec
  /\ \A d \in Domains :
       /\ WF_vars(d \notin stw.stopped /\ Writer(d))
       /\ WF_vars(Join(d))
       /\ SF_vars(d \notin stw.stopped /\ RegisterName(d))
       /\ WF_vars(d \notin stw.stopped /\ RegisterItem(d))
  /\ WF_vars(Create) /\ WF_vars(Collect)

(***************************************************************************)
(* Properties.                                                             *)
(***************************************************************************)

\* The position an entry of the log of domain d is about.
StartOf(d, i) ==
  FoldLeft(LAMBDA n, e : n + e.words, 0, SubSeq(log[d], 1, i - 1))

\* What a consumer is told is the truth: every event it is given is, word
\* for word, the message the domain wrote at that place of its ring, none is
\* given twice or out of order, and the words between two events it is given
\* are exactly those it was told are lost (caml_runtime_events_read_poll
\* reads while the domain overwrites).
EventsIntact ==
  \A d \in Domains :
    /\ StartOf(d, Len(log[d]) + 1) = cur.pos[d]
    /\ \A i \in DOMAIN log[d] :
         log[d][i].kind = "event" =>
           \E m \in Range(written[d]) :
             /\ m.pos = StartOf(d, i)
             /\ \A k \in DOMAIN log[d][i].buf : log[d][i].buf[k] = Word(m, k - 1)

\* The name of a user event is in the file before a consumer is given the
\* event, whichever of the registration and the start of the tracing came
\* first (caml_runtime_events_user_register and
\* runtime_events_create_from_stw_single share user_events_lock for this).
EventsNamed ==
  \A d \in Domains : \A i \in DOMAIN log[d] :
    log[d][i].kind = "event" => log[d][i].named

\* One call of read_poll makes at most [max_option] calls of the callbacks
\* for events, as runtime_events.mli and runtime_events_consumer.h say.
PollBounded == cur.opt # -1 => cur.calls <= cur.opt

\* A call that registers a user event returns
\* (caml_runtime_events_user_register).
RegisterReturns == \A d \in Domains : dom[d].pc = "lock" ~> dom[d].pc = "idle"
============================================================================
