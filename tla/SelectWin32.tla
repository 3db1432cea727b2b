---------------------------- MODULE SelectWin32 ----------------------------
(* Unix.select on Windows (otherlibs/unix/select_win32.c) and the pool of    *)
(* worker threads that polls the handles (otherlibs/unix/winworker.c).       *)
(*                                                                           *)
(* A call dispatches its descriptors to jobs, submits each job to a worker,  *)
(* waits for one of them or for the timeout, stops them all, waits for them  *)
(* all, and gives the workers back.  Several threads call select: the        *)
(* runtime lock is released wherever the code waits.                         *)
EXTENDS Integers, Sequences, SequencesExt, FiniteSets, FiniteSetsExt

CONSTANTS Threads, Calls,       \* thread -> the calls it may make
          MaxCalls,             \* calls by one thread
          Kind,                 \* handle -> disk, console, pipe, socket,
                                \*           unbound (a socket), unknown
          Broken,               \* the handles that polling fails on
          MaxArrivals,          \* events on the handles
          MAXIMUM_SELECT_OBJECTS, FD_SETSIZE, THREAD_WORKERS_MAX,
          MaxWorkers            \* worker structures that may be allocated

VARIABLES call,         \* thread -> where its call is
          workers,      \* worker -> its structure and its thread
          lpWorkers,    \* the list of workers that wait
          ready,        \* the <<handle, mode>> that are ready
          console,      \* console -> its input records
          arrivals
vars == <<call, workers, lpWorkers, ready, console, arrivals>>

Handles == DOMAIN Kind
Modes == {"read", "write", "except"}
Sockets == {h \in Handles : Kind[h] \in {"socket", "unbound"}}
MAXIMUM_WAIT_OBJECTS == MAXIMUM_SELECT_OBJECTS + 1

------------------------------------------------------------------------------
(* The jobs of a call.  A list of select data is a sequence, its head first. *)
select_data_new(list, type, func) ==
    <<[type |-> type, func |-> func, queries |-> <<>>, results |-> <<>>,
       state |-> "none", worker |-> 0]>> \o list
Query(modes, h, idx) == [modes |-> modes, h |-> h, idx |-> idx]
select_data_query_add(d, q) ==
    IF Len(d.queries) < MAXIMUM_SELECT_OBJECTS
    THEN [d EXCEPT !.queries = Append(@, q)] ELSE d
select_data_result_add(d, mode, idx) ==
    IF Len(d.results) < MAXIMUM_SELECT_OBJECTS * 3
    THEN [d EXCEPT !.results = Append(@, [mode |-> mode, idx |-> idx])] ELSE d

(* The list, and the place in it of a job of that type with a free slot.     *)
select_data_job_search(list, type, func) ==
    LET fit == {k \in DOMAIN list : /\ list[k].type = type
                                    /\ Len(list[k].queries) < MAXIMUM_SELECT_OBJECTS}
    IN IF fit # {} THEN [list |-> list, at |-> Min(fit)]
       ELSE [list |-> select_data_new(list, type, func), at |-> 1]

read_console_poll_add(list, mode, h, idx) ==
    LET new == select_data_new(list, "console", TRUE)
    IN [new EXCEPT ![1] = select_data_query_add(@, Query({"read"}, h, idx))]
read_pipe_poll_add(list, mode, h, idx) ==
    LET r == select_data_job_search(list, "pipe", TRUE)
    IN [r.list EXCEPT ![r.at] = select_data_query_add(@, Query({mode}, h, idx))]
static_poll_add(list, mode, h, idx) ==
    LET r == select_data_job_search(list, "static", FALSE)
    IN [r.list EXCEPT ![r.at] =
           select_data_result_add(select_data_query_add(@, Query({mode}, h, idx)),
                                  mode, idx)]

(* A socket has one query: a second mode is added to it.  The job that has   *)
(* the query becomes the head of the list.                                   *)
From(list, k) == SubSeq(list, k, Len(list))
socket_poll_add(list, mode, h, idx) ==
    LET jobs == {k \in DOMAIN list : list[k].type = "socket"}
        has == {k \in jobs : \E q \in ToSet(list[k].queries) : q.h = h}
        free == {k \in jobs \ has :
                    Len(list[k].queries) < MAXIMUM_SELECT_OBJECTS}
        last(d) == Max({q \in DOMAIN d.queries : d.queries[q].h = h})
    IN CASE has # {} ->
              From([list EXCEPT ![Min(has)].queries[last(list[Min(has)])].modes
                        = @ \cup {mode}], Min(has))
         [] has = {} /\ free # {} ->
              From([list EXCEPT ![Max(free)].queries
                        = Append(@, Query({mode}, h, idx))], Max(free))
         [] OTHER ->
              LET new == select_data_new(list, "socket", TRUE)
              IN [new EXCEPT ![1].queries = <<Query({mode}, h, idx)>>]

(* select_data_dispatch; the handle type decides.                            *)
select_data_dispatch(list, mode, h, idx) ==
    CASE Kind[h] = "disk" /\ mode # "except" -> static_poll_add(list, mode, h, idx)
      [] Kind[h] = "console" /\ mode = "read" ->
            read_console_poll_add(list, mode, h, idx)
      [] Kind[h] = "pipe" /\ mode = "read" ->
            read_pipe_poll_add(list, mode, h, idx)
      [] Kind[h] \in {"console", "pipe"} /\ mode = "write" ->
            static_poll_add(list, mode, h, idx)
      [] Kind[h] = "unbound" /\ mode # "except" ->
            static_poll_add(list, mode, h, idx)
      [] Kind[h] \in {"socket", "unbound"} ->
            socket_poll_add(list, mode, h, idx)
      [] OTHER -> list

(* A mutant of DispatchList: the results forget which list they are from.    *)
DispatchAsRead(list, mode, fds) ==
    FoldLeft(LAMBDA s, h :
                 [list |-> select_data_dispatch(s.list, "read", h, s.i),
                  i |-> s.i + 1, seen |-> s.seen],
             [list |-> list, i |-> 0, seen |-> {}], fds).list
(* One list of descriptors: a handle that was seen before is passed over.    *)
DispatchList(list, mode, fds) ==
    FoldLeft(LAMBDA s, h :
                 IF h \in s.seen THEN s
                 ELSE [list |-> select_data_dispatch(s.list, mode, h, s.i),
                       i |-> s.i + 1, seen |-> s.seen \cup {h}],
             [list |-> list, i |-> 0, seen |-> {}], fds).list
Dispatch(c) ==
    DispatchList(DispatchList(DispatchList(<<>>, "read", c.read),
                              "write", c.write),
                 "except", c.except)
Requested(c) ==
    UNION {{<<h, mode>> : h \in ToSet(c[mode])} : mode \in Modes}

(* The descriptor that a result stands for, or the failure.                  *)
find_handle(c, r) ==
    IF r.idx + 1 \in DOMAIN c[r.mode] THEN {c[r.mode][r.idx + 1]} ELSE {}

fdlist_to_fdset(fds) ==
    Len(fds) <= FD_SETSIZE /\ \A h \in ToSet(fds) : h \in Sockets

------------------------------------------------------------------------------
(* Workers.                                                                  *)
NoJob == [t |-> "none", n |-> 0]
caml_win32_worker_new ==
    [alive |-> TRUE, pc |-> "signal", started |-> FALSE, stop |-> FALSE,
     done |-> FALSE, ready |-> FALSE, command |-> FALSE, cmd |-> "none",
     job |-> NoJob]
Unused == [caml_win32_worker_new EXCEPT !.alive = FALSE, !.pc = "gone"]
Allocatable == {w \in DOMAIN workers : ~workers[w].alive /\ workers[w].pc = "gone"}

(* The head of the list of waiting workers, or a new worker; its events are  *)
(* reset.                                                                    *)
Popped == IF lpWorkers # <<>> THEN Head(lpWorkers) ELSE Min(Allocatable)
ResetEvents(w) == [w EXCEPT !.started = FALSE, !.stop = FALSE, !.done = FALSE]
caml_win32_worker_pop ==
    /\ lpWorkers = <<>> => Allocatable # {}
    /\ lpWorkers' = IF lpWorkers # <<>> THEN Tail(lpWorkers) ELSE <<>>
    /\ workers' = [workers EXCEPT ![Popped] =
           ResetEvents(IF lpWorkers # <<>> THEN @ ELSE caml_win32_worker_new)]

(* hWorkerReady and hCommandReady reset themselves when a wait sees them.    *)
WorkerReady(w) ==
    /\ workers[w].pc = "signal"
    /\ workers' = [workers EXCEPT ![w].ready = TRUE, ![w].pc = "wait"]
    /\ UNCHANGED <<call, lpWorkers, ready, console, arrivals>>
WorkerCommand(w) ==
    /\ workers[w].pc = "wait"
    /\ workers[w].command
    /\ workers' = [workers EXCEPT ![w].command = FALSE,
           ![w].started = @ \/ workers[w].cmd = "exec",
           ![w].pc = CASE workers[w].cmd = "exec" -> "poll"
                       [] workers[w].cmd = "stop" -> "exited"
                       [] OTHER -> "signal"]
    /\ UNCHANGED <<call, lpWorkers, ready, console, arrivals>>
WorkerDone(w) ==
    /\ workers[w].pc = "finished"
    /\ workers' = [workers EXCEPT ![w].done = TRUE, ![w].pc = "signal"]
    /\ UNCHANGED <<call, lpWorkers, ready, console, arrivals>>
caml_win32_worker_wait(w) ==
    WorkerReady(w) \/ WorkerCommand(w) \/ WorkerDone(w)

------------------------------------------------------------------------------
(* Polling, by worker w for its job.                                         *)
Data(w) == call[workers[w].job.t].jobs[workers[w].job.n]
Polling(w, type) == workers[w].pc = "poll" /\ Data(w).type = type
EndPoll(w, data) ==
    /\ call' = [call EXCEPT ![workers[w].job.t].jobs[workers[w].job.n] = data]
    /\ workers' = [workers EXCEPT ![w].pc = "finished"]
    /\ UNCHANGED <<lpWorkers, ready, arrivals>>
check_error(d) == [d EXCEPT !.state = IF @ = "error" THEN @ ELSE "error"]

(* The stop event comes first.  Only a key press counts; other records are   *)
(* discarded.                                                                *)
ConsoleStops(w) ==
    /\ Polling(w, "console")
    /\ workers[w].stop \/ Data(w).queries[1].h \in Broken
    /\ EndPoll(w, IF workers[w].stop THEN Data(w) ELSE check_error(Data(w)))
    /\ UNCHANGED console
ConsoleKey(w) ==
    LET q == Data(w).queries[1]
    IN /\ Polling(w, "console")
       /\ ~workers[w].stop /\ q.h \notin Broken
       /\ console[q.h] # <<>> /\ Head(console[q.h]) = "key"
       /\ EndPoll(w, [select_data_result_add(Data(w), "read", q.idx)
                          EXCEPT !.state = "signaled"])
       /\ UNCHANGED console
ConsoleDiscard(w) ==
    LET q == Data(w).queries[1]
    IN /\ Polling(w, "console")
       /\ ~workers[w].stop /\ q.h \notin Broken
       /\ console[q.h] # <<>> /\ Head(console[q.h]) # "key"
       /\ console' = [console EXCEPT ![q.h] = Tail(@)]
       /\ UNCHANGED <<call, workers, lpWorkers, ready, arrivals>>
read_console_poll(w) == ConsoleStops(w) \/ ConsoleKey(w) \/ ConsoleDiscard(w)

(* The pipes that are ready when the worker comes past; the first broken     *)
(* one ends the loop.                                                        *)
Peeked(d) ==
    FoldLeft(LAMBDA s, q :
                 CASE s.state = "error" -> s
                   [] s.state # "error" /\ q.h \in Broken -> check_error(s)
                   [] s.state # "error" /\ q.h \notin Broken /\ <<q.h, "read">> \in ready ->
                        [select_data_result_add(s, "read", q.idx)
                            EXCEPT !.state = "signaled"]
                   [] OTHER -> s,
             d, d.queries)
read_pipe_poll(w) ==
    /\ Polling(w, "pipe")
    /\ workers[w].stop \/ Peeked(Data(w)).state # "none"
    /\ EndPoll(w, Peeked(Data(w)))
    /\ UNCHANGED console

(* One event per socket, for the modes of its query.                         *)
Raised(q) == {mode \in q.modes : <<q.h, mode>> \in ready}
SocketResults(d) ==
    FoldLeft(LAMBDA s, q :
                 FoldLeft(LAMBDA r, mode :
                              IF mode \in Raised(q)
                              THEN select_data_result_add(r, mode, q.idx) ELSE r,
                          s, <<"read", "write", "except">>),
             d, d.queries)
socket_poll(w) ==
    LET d == Data(w)
        failed == \E q \in ToSet(d.queries) : q.h \in Broken
    IN /\ Polling(w, "socket")
       /\ \/ workers[w].stop \/ failed
          \/ \E q \in ToSet(d.queries) : Raised(q) # {}
       /\ EndPoll(w, IF failed THEN check_error(d) ELSE SocketResults(d))
       /\ UNCHANGED console

------------------------------------------------------------------------------
(* The calling thread.                                                       *)
Idle == [pc |-> "idle", c |-> [timeout |-> "none"], jobs |-> <<>>, n |-> 0,
         worker |-> 0, err |-> FALSE, out |-> {}, late |-> FALSE, made |-> 0]
Goto(t, pc) == [call EXCEPT ![t].pc = pc]
Mine(t) == {k \in DOMAIN call[t].jobs : call[t].jobs[k].worker # 0}
Static(t) == \E d \in ToSet(call[t].jobs) : d.type = "static"
Submitted(t) == Cardinality(Mine(t))
Failing(t) == Submitted(t) > MAXIMUM_WAIT_OBJECTS

caml_unix_select(t) ==
    /\ call[t].pc \in {"idle", "returned"}
    /\ call[t].made < MaxCalls
    /\ \E c \in Calls[t] :
           call' = [call EXCEPT ![t] = [Idle EXCEPT
               !.made = call[t].made + 1, !.c = c, !.n = 1,
               !.jobs = IF \A mode \in Modes : fdlist_to_fdset(c[mode])
                        THEN <<>> ELSE Dispatch(c),
               !.pc = CASE Requested(c) = {} -> "sleep"
                        [] \A mode \in Modes : fdlist_to_fdset(c[mode]) -> "classic"
                        [] \E q \in Requested(c) : Kind[q[1]] = "unknown" -> "raised"
                        [] OTHER -> "submit"]]
    /\ UNCHANGED <<workers, lpWorkers, ready, console, arrivals>>

(* Nothing to monitor: the thread sleeps, for ever when there is no timeout. *)
Sleep(t) ==
    /\ call[t].pc = "sleep"
    /\ call[t].c.timeout # "never" \/ Requested(call[t].c) = {}
    /\ call' = [call EXCEPT ![t].pc = "returned", ![t].late = TRUE]
    /\ UNCHANGED <<workers, lpWorkers, ready, console, arrivals>>

(* Only sockets: the select of the system.                                   *)
ClassicSelect(t) ==
    LET found == Requested(call[t].c) \cap ready
    IN /\ call[t].pc = "classic"
       /\ found # {} \/ call[t].c.timeout # "never"
       /\ call' = [call EXCEPT ![t].pc = "returned", ![t].out = found,
                               ![t].late = found = {}]
       /\ UNCHANGED <<workers, lpWorkers, ready, console, arrivals>>

(* caml_win32_worker_job_submit, in two parts: the worker is taken, then it  *)
(* is ready and gets its command.                                            *)
NextJob(t) == {k \in DOMAIN call[t].jobs : k >= call[t].n /\ call[t].jobs[k].func}
TakeWorker(t) ==
    /\ call[t].pc = "submit"
    /\ call[t].worker = 0
    /\ NextJob(t) # {}
    /\ caml_win32_worker_pop
    /\ call' = [call EXCEPT ![t].worker = Popped, ![t].n = Min(NextJob(t))]
    /\ UNCHANGED <<ready, console, arrivals>>
caml_win32_worker_job_submit(t) ==
    LET w == call[t].worker
    IN /\ call[t].pc = "submit"
       /\ w # 0
       /\ workers[w].ready
       /\ workers' = [workers EXCEPT ![w].ready = FALSE, ![w].cmd = "exec",
                          ![w].command = TRUE, ![w].job = [t |-> t, n |-> call[t].n]]
       /\ call' = [call EXCEPT ![t].jobs[call[t].n].worker = w,
                               ![t].worker = 0, ![t].n = @ + 1]
       /\ UNCHANGED <<lpWorkers, ready, console, arrivals>>
AllSubmitted(t) ==
    /\ call[t].pc = "submit" /\ call[t].worker = 0
    /\ NextJob(t) = {}
    /\ call' = Goto(t, CASE Submitted(t) = 0 /\ Static(t) -> "build"
                         [] Submitted(t) = 0 /\ ~Static(t) -> "sleep"
                         [] Submitted(t) > 0 /\ Static(t) -> "stop"
                         [] OTHER -> "wait")
    /\ UNCHANGED <<workers, lpWorkers, ready, console, arrivals>>

(* One worker is done, the timeout has passed, or the wait failed.           *)
WaitOne(t) ==
    LET one == \E k \in Mine(t) : workers[call[t].jobs[k].worker].done
    IN /\ call[t].pc = "wait"
       /\ one \/ Failing(t) \/ call[t].c.timeout # "never"
       /\ call' = [call EXCEPT ![t].pc = "stop", ![t].err = @ \/ Failing(t),
                               ![t].late = ~one]
       /\ UNCHANGED <<workers, lpWorkers, ready, console, arrivals>>
StopWorkers(t) ==
    /\ call[t].pc = "stop"
    /\ call' = Goto(t, "waitall")
    /\ workers' = [w \in DOMAIN workers |->
           IF \E k \in Mine(t) : call[t].jobs[k].worker = w
           THEN [workers[w] EXCEPT !.stop = TRUE] ELSE workers[w]]
    /\ UNCHANGED <<lpWorkers, ready, console, arrivals>>
WaitAll(t) ==
    /\ call[t].pc = "waitall"
    /\ \/ \A k \in Mine(t) : workers[call[t].jobs[k].worker].done
       \/ Failing(t)
    /\ call' = [call EXCEPT ![t].pc = "build", ![t].err = @ \/ Failing(t)]
    /\ UNCHANGED <<workers, lpWorkers, ready, console, arrivals>>

(* Every result is looked up in its list; one that is not there is a failure *)
(* that leaves the workers and the jobs behind.                              *)
Results(t) == UNION {ToSet(d.results) : d \in ToSet(call[t].jobs)}
BuildResults(t) ==
    LET c == call[t].c
        lost == \E r \in Results(t) : find_handle(c, r) = {}
        out == UNION {{<<h, r.mode>> : h \in find_handle(c, r)} : r \in Results(t)}
        failed == \E d \in ToSet(call[t].jobs) : d.state = "error"
    IN /\ call[t].pc = "build"
       /\ call' = IF ~call[t].err /\ lost THEN Goto(t, "raised")
                  ELSE [call EXCEPT ![t].pc = "free", ![t].n = 1,
                           ![t].out = IF call[t].err THEN {} ELSE out,
                           ![t].err = @ \/ failed]
       /\ UNCHANGED <<workers, lpWorkers, ready, console, arrivals>>

(* select_data_free: the worker is done, and goes back to the list unless    *)
(* that is full.                                                             *)
Current(t) == IF call[t].n \in DOMAIN call[t].jobs
              THEN call[t].jobs[call[t].n].worker ELSE 0
caml_win32_worker_push(t) ==
    LET w == Current(t)
        keep == Len(lpWorkers) < THREAD_WORKERS_MAX
    IN /\ call[t].pc = "free" /\ w # 0
       /\ workers[w].done
       /\ lpWorkers' = IF keep THEN <<w>> \o lpWorkers ELSE lpWorkers
       /\ call' = IF keep THEN [call EXCEPT ![t].jobs[call[t].n].worker = 0]
                  ELSE Goto(t, "kill")
       /\ UNCHANGED <<workers, ready, console, arrivals>>
(* caml_win32_worker_free, in two parts around the end of the thread.        *)
SendStop(t) ==
    /\ call[t].pc = "kill"
    /\ workers[Current(t)].ready
    /\ workers' = [workers EXCEPT ![Current(t)].ready = FALSE,
                       ![Current(t)].cmd = "stop", ![Current(t)].command = TRUE]
    /\ call' = Goto(t, "join")
    /\ UNCHANGED <<lpWorkers, ready, console, arrivals>>
caml_win32_worker_free(t) ==
    /\ call[t].pc = "join"
    /\ workers[Current(t)].pc = "exited"
    /\ workers' = [workers EXCEPT ![Current(t)] = Unused]
    /\ call' = [call EXCEPT ![t].pc = "free", ![t].jobs[call[t].n].worker = 0]
    /\ UNCHANGED <<lpWorkers, ready, console, arrivals>>
select_data_free(t) ==
    /\ call[t].pc = "free"
    /\ call[t].n \in DOMAIN call[t].jobs /\ Current(t) = 0
    /\ call' = [call EXCEPT ![t].n = @ + 1]
    /\ UNCHANGED <<workers, lpWorkers, ready, console, arrivals>>
Return(t) ==
    /\ call[t].pc = "free" /\ call[t].n > Len(call[t].jobs)
    /\ call' = [call EXCEPT ![t].pc = IF call[t].err THEN "raised" ELSE "returned",
                            ![t].jobs = <<>>]
    /\ UNCHANGED <<workers, lpWorkers, ready, console, arrivals>>

(* Data, connections and key presses come in.                                *)
Arrive ==
    /\ arrivals < MaxArrivals
    /\ arrivals' = arrivals + 1
    /\ \/ \E h \in Handles, mode \in Modes :
              /\ Kind[h] \in {"pipe", "socket"}
              /\ Kind[h] = "pipe" => mode = "read"
              /\ ready' = ready \cup {<<h, mode>>}
              /\ UNCHANGED console
       \/ \E h \in DOMAIN console, record \in {"key", "other"} :
              /\ console' = [console EXCEPT ![h] = Append(@, record)]
              /\ UNCHANGED ready
    /\ UNCHANGED <<call, workers, lpWorkers>>

------------------------------------------------------------------------------
Init ==
    /\ call = [t \in Threads |-> Idle]
    /\ workers = [w \in 1..MaxWorkers |-> Unused]
    /\ lpWorkers = <<>>
    /\ ready = {}
    /\ console = [h \in {g \in Handles : Kind[g] = "console"} |-> <<>>]
    /\ arrivals = 0

Poll(w) == read_console_poll(w) \/ read_pipe_poll(w) \/ socket_poll(w)
Work(w) == caml_win32_worker_wait(w) \/ Poll(w)
Proceed(t) ==
    \/ Sleep(t) \/ ClassicSelect(t)
    \/ TakeWorker(t) \/ caml_win32_worker_job_submit(t) \/ AllSubmitted(t)
    \/ WaitOne(t) \/ StopWorkers(t) \/ WaitAll(t) \/ BuildResults(t)
    \/ caml_win32_worker_push(t) \/ SendStop(t) \/ caml_win32_worker_free(t)
    \/ select_data_free(t) \/ Return(t)
Next ==
    \/ Arrive
    \/ \E t \in Threads : caml_unix_select(t) \/ Proceed(t)
    \/ \E w \in DOMAIN workers : Work(w)
Spec == Init /\ [][Next]_vars
(* Threads run when they can, and timeouts pass.                             *)
FairSpec ==
    /\ Spec
    /\ \A t \in Threads : WF_vars(Proceed(t))
    /\ \A w \in 1..MaxWorkers : WF_vars(Work(w))

------------------------------------------------------------------------------
(* What is ready without polling.                                            *)
Always(q) == /\ q[2] # "except"
             /\ \/ Kind[q[1]] \in {"disk", "unbound"}
                \/ Kind[q[1]] \in {"console", "pipe"} /\ q[2] = "write"
IsReady(q) ==
    \/ q \in ready \/ Always(q)
    \/ /\ q[2] = "read" /\ q[1] \in DOMAIN console
       /\ "key" \in ToSet(console[q[1]])

(* What select returns was asked for and is ready, and it returns nothing    *)
(* only when the time is over (unix.mli, select: "those ready for reading    *)
(* (first component), ready for writing (second component)").                *)
SelectHonest ==
    \A t \in Threads :
        call[t].pc = "returned" /\ call[t].made > 0 =>
            /\ \A q \in call[t].out : q \in Requested(call[t].c) /\ IsReady(q)
            /\ call[t].out = {} => call[t].late

(* Every descriptor that is asked for and can become ready is watched by a   *)
(* job of the call (unix.mli, select: "Wait until some input/output          *)
(* operations become possible on some channels").                            *)
AllWatched ==
    \A t \in Threads :
        call[t].pc \in {"submit", "wait"} =>
            \A q \in Requested(call[t].c) :
                (q[2] # "except" \/ q[1] \in Sockets) =>
                    \E d \in ToSet(call[t].jobs) : \E s \in ToSet(d.queries) :
                        s.h = q[1] /\ q[2] \in s.modes

(* A worker is in the list of waiting workers or serves one call, never      *)
(* both, it polls only for a job that its call has not released, and the     *)
(* structure of a worker is released after its thread has ended.             *)
WorkersOwned ==
    \A w \in DOMAIN workers :
        LET holders == {t \in Threads : /\ call[t].pc # "raised"
                            /\ \/ call[t].worker = w
                               \/ \E k \in Mine(t) : call[t].jobs[k].worker = w}
        IN /\ Cardinality(holders)
                  + Cardinality({k \in DOMAIN lpWorkers : lpWorkers[k] = w}) <= 1
           /\ workers[w].pc \in {"poll", "finished"} =>
                 /\ workers[w].alive
                 /\ workers[w].job.n \in DOMAIN call[workers[w].job.t].jobs
                 /\ call[workers[w].job.t].jobs[workers[w].job.n].worker = w

(* A call with a timeout ends (unix.mli, select: "The fourth argument is the *)
(* maximal timeout").                                                        *)
SelectReturns ==
    \A t \in Threads :
        (call[t].pc \notin {"idle", "returned", "raised"}
             /\ call[t].c.timeout # "never")
            ~> call[t].pc \in {"returned", "raised"}
==============================================================================
