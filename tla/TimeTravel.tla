----------------------------- MODULE TimeTravel -----------------------------
(* The replay debugger: the commands of debugger/time_travel.ml and          *)
(* breakpoints.ml, and what runtime/debugger.c and the EVENT and BREAK       *)
(* instructions make of their requests.  A checkpoint is a process that      *)
(* stopped at a time, that is after so many events; going back is taking an  *)
(* earlier checkpoint and running it forward.  A process is held with its    *)
(* checkpoint: nothing else refers to it.  The program is deterministic: the *)
(* sequence Trace of the instructions it runs.                               *)
EXTENDS Integers, Sequences, FiniteSets, SequencesExt

CONSTANTS Trace,          \* the instructions run, in order
          Events,         \* those that carry a real event; the others may be pseudo-events
          Parent,         \* of an event, the pseudo-event before it that takes its breakpoints
          BreakPcs,       \* where the user sets breakpoints
          TempPcs,        \* where a function called by `finish' returns
          SmallStep, BigStep, MaxCheckpoints, MaxCommands

VARIABLE s
(* s.list      the checkpoints, latest first, one per time; s.cur is the     *)
(*             time of the current one                                       *)
(* s.positions the breakpoint positions, s.version and s.max_version theirs  *)
(* s.did       what the last command was to do and where it started          *)

Pcs == {Trace[i] : i \in 1..Len(Trace)}
None == "none"

------------------------------------------------------------------------------
(* A process: runtime/debugger.c and interp.c.                               *)
set_instruction(c, pc, op) == [c EXCEPT !.code[pc] = op, !.saved = @ \cup {pc}]
(* The table of saved instructions is searched without looking at the        *)
(* answer: an instruction that was not saved is replaced by anything.        *)
restore_instruction(c, pc) ==
    [c EXCEPT !.code[pc] = IF pc \in c.saved THEN "code" ELSE "junk", !.saved = @ \ {pc}]
Report(c, type, i, n) ==
    [c EXCEPT !.at = i, !.type = type, !.count = n]
RECURSIVE RunFrom(_, _, _)
RunFrom(c, i, n) ==
    IF i > Len(Trace) THEN Report(c, "Exited", i, n)
    ELSE CASE c.code[Trace[i]] = "code" -> RunFrom(c, i + 1, n)
           [] c.code[Trace[i]] = "EVENT" ->
                IF n = 1 THEN Report(c, "Event", i, 0) ELSE RunFrom(c, i + 1, n - 1)
           [] c.code[Trace[i]] = "BREAK" -> Report(c, "Breakpoint", i, n)
           [] OTHER -> Report(c, "Crashed", i, n)
(* Resumed, a stopped process first runs the saved instruction.              *)
do_go(c, n) == RunFrom(c, IF c.type = "Start" THEN c.at ELSE c.at + 1, n)

(* A process that has just been launched, its events set.                    *)
First ==
    [time |-> 0, at |-> 1, type |-> "Start", count |-> 0, version |-> 0, breakpoints |-> {},
     code |-> [pc \in Pcs |-> IF pc \in Events THEN "EVENT" ELSE "code"],
     saved |-> Events \cap Pcs]

------------------------------------------------------------------------------
(* debugger/breakpoints.ml on a process, and symbols.ml set_event_at_pc.     *)
set_event_at_pc(c, pc) == IF pc \in Events THEN set_instruction(c, pc, "EVENT") ELSE c
RECURSIVE remove_breakpoints(_, _)
remove_breakpoints(c, pcs) ==
    IF pcs = {} THEN c
    ELSE LET pc == CHOOSE p \in pcs : TRUE
         IN remove_breakpoints(set_event_at_pc(restore_instruction(c, pc), pc), pcs \ {pc})
RECURSIVE set_breakpoints(_, _)
set_breakpoints(c, pcs) ==
    IF pcs = {} THEN c
    ELSE LET pc == CHOOSE p \in pcs : TRUE
         IN set_breakpoints(set_instruction(c, pc, "BREAK"), pcs \ {pc})
(* A mutant of update_breakpoints: breakpoints are added, none is removed.   *)
AddBreakpoints(c, version, pcs) ==
    IF c.version = version THEN c
    ELSE [set_breakpoints(c, pcs) EXCEPT !.version = version, !.breakpoints = pcs]
update_breakpoints(c, version, pcs) ==
    IF c.version = version THEN c
    ELSE [set_breakpoints(remove_breakpoints(c, c.breakpoints), pcs)
            EXCEPT !.version = version, !.breakpoints = pcs]

------------------------------------------------------------------------------
(* The list of checkpoints.                                                  *)
At(list, t) == CHOOSE c \in ToSet(list) : c.time = t
current_checkpoint(x) == At(x.list, x.cur)
Times(list) == {list[k].time : k \in DOMAIN list}
insert_checkpoint(list, c) ==
    SelectSeq(list, LAMBDA d : d.time > c.time) \o <<c>> \o
    SelectSeq(list, LAMBDA d : d.time < c.time)
Before(list, t) == SelectSeq(list, LAMBDA d : d.time <= t)
After(list, t) == SelectSeq(list, LAMBDA d : d.time > t)
(* The program is loaded anew to go back further than the checkpoints.       *)
Reloaded(list, t) == IF Before(list, t) = <<>> THEN Append(list, First) ELSE list
find_checkpoint_before(list, t) == Head(Before(Reloaded(list, t), t))

(* clean_checkpoints: intervals that double in length going back from the    *)
(* reference time each keep their earliest checkpoint, until there are       *)
(* enough.                                                                   *)
RECURSIVE cut2_t0(_, _, _)
cut2_t0(t0, t, list) ==
    IF list = <<>> THEN <<>>
    ELSE <<After(list, t0 - t - 1)>> \o cut2_t0(t0, t + t, Before(list, t0 - t - 1))
cut2(t0, t, list) == <<After(list, t0 - 1)>> \o cut2_t0(t0, t, Before(list, t0 - 1))
RECURSIVE chk_merge(_)
chk_merge(groups) ==
    IF groups = <<>> THEN <<>>
    ELSE (IF Head(groups) = <<>> THEN <<>> ELSE <<Last(Head(groups))>>) \o chk_merge(Tail(groups))
Truncated(n, list) == IF n < 0 \/ n > Len(list) THEN list ELSE SubSeq(list, 1, n)
Merged(a, b) == FoldLeft(insert_checkpoint, a, b)
clean_checkpoints(list, time, n) ==
    LET accepted == chk_merge(cut2(time, SmallStep, Before(list, time)))
    IN IF Len(accepted) >= n THEN Truncated(n, accepted)
       ELSE Merged(accepted, Truncated(n - Len(accepted), After(list, time)))

------------------------------------------------------------------------------
(* Moving: internal_step and what is built on it.  x is the debugger's       *)
(* state.                                                                    *)
(* The ghost that takes the current checkpoint's place in the list becomes a *)
(* copy of the process when the fork succeeds, and leaves the list when it   *)
(* fails or when the cleaning has dropped it.                                *)
Duplicated(x, t, cleaned) ==
    IF t \in Times(cleaned) /\ ~x.forks
    THEN [x EXCEPT !.list = SelectSeq(cleaned, LAMBDA d : d.time # t), !.max = Len(cleaned) - 1]
    ELSE [x EXCEPT !.list = cleaned]
duplicate_current_checkpoint(x) ==
    LET t == current_checkpoint(x).time
    IN Duplicated(x, t, clean_checkpoints(x.list, t + 1, x.max - 1))
(* An event is looked for when a breakpoint or nothing stands where the      *)
(* process stopped.                                                          *)
RECURSIVE stop_on_event(_, _)
stop_on_event(c, last) ==
    IF c.type = "Breakpoint"
    THEN IF Trace[c.at] \in Events THEN [c |-> c, last |-> Trace[c.at]]
         ELSE stop_on_event(do_go(c, 1), Trace[c.at])
    ELSE [c |-> c, last |-> last]
Elapsed(c, n) == (n - c.count) + 1
(* The process has stopped as c says; y is the debugger after the fork.      *)
Stopped(y, c, n) ==
    LET event == c.type = "Event"
        stop == IF event THEN [c |-> c, last |-> None] ELSE stop_on_event(c, None)
        time == y.cur + (IF event THEN n ELSE Elapsed(c, n))
        z == [y EXCEPT !.interrupted = ~event, !.last = stop.last, !.cur = time]
    IN IF time \in Times(y.list)
       THEN z    \* killed: there is a checkpoint at this time already
       ELSE [z EXCEPT !.list = insert_checkpoint(y.list, [stop.c EXCEPT !.time = time])]
internal_step(x, n) ==
    LET c == current_checkpoint(x)
    IN IF c.type = "Exited" THEN x
       ELSE Stopped(duplicate_current_checkpoint(x),
                    do_go(update_breakpoints(c, x.version, x.positions), n), n)
RECURSIVE step_forward(_, _)
step_forward(x, n) ==
    IF n > SmallStep
    THEN LET first == IF n > BigStep THEN BigStep ELSE SmallStep
             y == internal_step(x, first)
         IN IF y.interrupted THEN y ELSE step_forward(y, n - first)
    ELSE IF n # 0 THEN internal_step(x, n) ELSE x
execute_without_breakpoints(x, n) ==
    LET y == step_forward([x EXCEPT !.version = 0, !.positions = {}], n)
    IN [y EXCEPT !.version = x.version, !.positions = x.positions]
go_to(x, t) ==
    LET c == find_checkpoint_before(x.list, t)
        y == [x EXCEPT !.cur = c.time, !.list = Reloaded(x.list, t)]
    IN IF t > c.time THEN execute_without_breakpoints(y, t - c.time) ELSE y
RECURSIVE run(_)
run(x) ==
    LET y == internal_step(x, BigStep)
    IN IF y.interrupted THEN y
       ELSE IF y.cur = x.cur THEN [y EXCEPT !.hung = TRUE]   \* and again, for ever
       ELSE run(y)

(* Backwards: the last breakpoint between a checkpoint and the time it       *)
(* started from.                                                             *)
breakpoint_at(x) ==
    LET c == current_checkpoint(x)
    IN IF c.type \in {"Event", "Breakpoint"} /\ Parent[Trace[c.at]] \in x.positions
       THEN Trace[c.at] ELSE None
RECURSIVE FindLast(_, _, _), FoundLast(_, _, _, _)
FindLast(x, max, break) == FoundLast(x, step_forward(x, max - x.cur), max, break)
FoundLast(x, y, max, break) ==
    IF y.last # None /\ y.cur < max THEN FindLast(y, max, y.last)
    ELSE IF y.last # None /\ y.last = y.temp THEN [x |-> y, time |-> max, break |-> y.last]
    ELSE [x |-> y, time |-> x.cur, break |-> break]
RECURSIVE back_to(_, _, _), BackFrom(_, _)
BackFrom(f, time) ==
    IF f.break # None \/ f.time <= time
    THEN [go_to(f.x, f.time) EXCEPT !.interrupted = f.break # None, !.last = f.break]
    ELSE back_to(f.x, time, f.time)
back_to(x, time, max) ==
    LET t == find_checkpoint_before(x.list, max - 1).time
        y == go_to([x EXCEPT !.list = Reloaded(x.list, max - 1)], IF t > time THEN t ELSE time)
    IN BackFrom(FindLast(y, max, breakpoint_at(y)), time)
step_backward(x, n) ==
    IF x.cur > 0 THEN back_to(x, IF x.cur > n THEN x.cur - n ELSE 0, x.cur) ELSE x

(* exec_with_temporary_breakpoint, for `finish'.                             *)
insert_position(x, pc) ==
    IF pc \in x.positions THEN x
    ELSE [x EXCEPT !.positions = @ \cup {pc}, !.max_version = @ + 1, !.version = x.max_version + 1]
remove_position(x, pc) ==
    [x EXCEPT !.positions = @ \ {pc}, !.max_version = @ + 1, !.version = x.max_version + 1]
(* Only the current checkpoint is put right: the others, and its own record  *)
(* of its breakpoints, by the next update.                                   *)
RemoveTemporary(x, pc, version) ==
    LET c == current_checkpoint(x)
        d == set_event_at_pc(restore_instruction(c, pc), pc)
    IN [x EXCEPT !.temp = None, !.version = version, !.positions = @ \ {pc},
                 !.list = [k \in DOMAIN x.list |-> IF x.list[k] = c THEN d ELSE x.list[k]]]
finish(x, pc) ==
    LET y == run([insert_position(x, pc) EXCEPT !.temp = pc])
    IN IF pc \in x.positions THEN [y EXCEPT !.temp = None] ELSE RemoveTemporary(y, pc, x.version)
------------------------------------------------------------------------------
(* The commands.                                                             *)
Nothing == [what |-> "none", from |-> 0, n |-> 0, breaks |-> {}]
Init ==
    s = [list |-> <<First>>, cur |-> 0, positions |-> {}, version |-> 0, max_version |-> 0,
         max |-> MaxCheckpoints, forks |-> TRUE, interrupted |-> FALSE, last |-> None,
         temp |-> None, hung |-> FALSE, did |-> Nothing, commands |-> 0]
(* Whether a fork succeeds is not known before the command.                  *)
Begun(what, n, breaks, forks) ==
    [s EXCEPT !.forks = forks, !.commands = @ + 1,
              !.did = [what |-> what, from |-> s.cur, n |-> n, breaks |-> breaks]]
Ready == s.commands < MaxCommands /\ ~s.hung
instr_step ==
    /\ Ready
    /\ \E n \in {1, SmallStep + 1}, f \in BOOLEAN :
         s' = step_forward(Begun("step", n, s.positions, f), n)
instr_back ==
    /\ Ready
    /\ \E n \in {1, 2}, f \in BOOLEAN :
         s' = step_backward(Begun("backstep", n, s.positions, f), n)
instr_goto ==
    /\ Ready
    /\ \E t \in 0..Len(Trace), f \in BOOLEAN : s' = go_to(Begun("goto", t, s.positions, f), t)
instr_run == Ready /\ \E f \in BOOLEAN : s' = run(Begun("run", 0, s.positions, f))
instr_reverse ==
    Ready /\ \E f \in BOOLEAN : s' = step_backward(Begun("reverse", 0, s.positions, f), s.cur)
instr_finish ==
    /\ Ready /\ current_checkpoint(s).type # "Exited"
    /\ \E pc \in TempPcs, f \in BOOLEAN :
         s' = finish(Begun("finish", 0, s.positions \cup {pc}, f), pc)
instr_break ==
    /\ Ready
    /\ \E pc \in BreakPcs \ s.positions :
         s' = [insert_position(s, pc) EXCEPT !.commands = @ + 1, !.did = Nothing]
instr_delete ==
    /\ Ready
    /\ \E pc \in s.positions :
         s' = [remove_position(s, pc) EXCEPT !.commands = @ + 1, !.did = Nothing]
(* A process dies: its checkpoint leaves the list, and when it is the        *)
(* current one the debugger recovers from an earlier one.                    *)
forget_process ==
    /\ Ready
    /\ \E k \in DOMAIN s.list :
         LET others == SelectSeq(s.list, LAMBDA d : d.time # s.list[k].time)
         IN s' = [s EXCEPT !.list = Reloaded(others, s.cur), !.commands = @ + 1, !.did = Nothing,
                           !.cur = find_checkpoint_before(others, s.cur).time]
Next ==
    \/ instr_step \/ instr_back \/ instr_goto \/ instr_run \/ instr_reverse
    \/ instr_finish \/ instr_break \/ instr_delete \/ forget_process
Spec == Init /\ [][Next]_s

------------------------------------------------------------------------------
(* The times at which the program meets a breakpoint: at an event that has   *)
(* one, or at the first event after an instruction without an event.         *)
EventNo(i) == Cardinality({k \in 1..i : Trace[k] \in Events})
EndTime == EventNo(Len(Trace)) + 1
BreakTimes(pcs) ==
    {IF Trace[i] \in Events THEN EventNo(i) ELSE EventNo(i) + 1 : i \in {k \in DOMAIN Trace : Trace[k] \in pcs}}
MinOf(S) == CHOOSE t \in S : \A u \in S : t <= u
MaxOf(S) == CHOOSE t \in S : \A u \in S : t >= u
Expected(d) ==
    LET later == {t \in BreakTimes(d.breaks) : t > d.from} \cup {EndTime}
        earlier == {t \in BreakTimes(d.breaks) : t < d.from} \cup {0}
    IN CASE d.what = "goto" -> IF d.n < EndTime THEN d.n ELSE EndTime
         [] d.what \in {"run", "finish"} -> MinOf(later)
         [] d.what = "step" -> IF d.from + d.n < MinOf(later) THEN d.from + d.n ELSE MinOf(later)
         [] d.what = "reverse" -> MaxOf(earlier)
         [] d.what = "backstep" -> IF d.from - d.n > MaxOf(earlier) THEN d.from - d.n ELSE MaxOf(earlier)
         [] OTHER -> s.cur

(* Wherever the user goes, forwards or backwards, through checkpoints that   *)
(* are made, reused, dropped when there are too many, lost with their        *)
(* process or not made for want of a fork, with breakpoints that come and    *)
(* go: the command stops at the time the program's own run gives it, each    *)
(* checkpoint's process stands at the checkpoint's time, and its code holds  *)
(* exactly the breakpoints the debugger believes it holds                    *)
(* (time_travel.ml, breakpoints.ml, debugger.c).                             *)
StandsAt(c) ==
    /\ c.type = "Start" => c.time = 0
    /\ c.type = "Exited" => c.time = EndTime
    /\ c.type \in {"Event", "Breakpoint"} => (Trace[c.at] \in Events /\ EventNo(c.at) = c.time)
CodeRight(c) ==
    \A pc \in Pcs :
      c.code[pc] = (IF c.version = s.version /\ pc \in s.positions THEN "BREAK"
                    ELSE IF pc \in c.breakpoints THEN c.code[pc]
                    ELSE IF pc \in Events THEN "EVENT" ELSE "code")
TravelRight ==
    /\ s.hung \/ s.cur = Expected(s.did)
    /\ \A k \in DOMAIN s.list : StandsAt(s.list[k]) /\ CodeRight(s.list[k])

(* An instruction that is put back had been saved (the assertion of          *)
(* restore_instruction in debugger.c).                                       *)
RestoredSaved == \A k \in DOMAIN s.list, pc \in Pcs : s.list[k].code[pc] # "junk"
(* The command `run' comes to an end (time_travel.ml).                       *)
RunReturns == ~s.hung
=============================================================================
