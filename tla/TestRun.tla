------------------------------ MODULE TestRun ------------------------------
(* The test driver runs commands with redirections and timeouts under Unix   *)
(* (ocamltest/run_unix.c): a child in its own process group, an alarm, and   *)
(* a parent that waits.  Signals, the alarm and the child's end come at any  *)
(* time.                                                                     *)
EXTENDS Integers, Sequences

CONSTANTS Commands,     \* sequences of [timeout, hangs, out, err, code]
          Files, Real   \* file names, and the file each leads to

VARIABLES commands,     \* the ones still to run
          pc,           \* of the parent
          child,        \* [st, pgrp, status, out, err]
          alarm, handler, timeout_expired,
          late,         \* whether the alarm of this command has fired
          result        \* how the last command ended: what was returned, what happened
vars == <<commands, pc, child, alarm, handler, timeout_expired, late, result>>

Settings == Head(commands)
NoFile == "none"
NoFd == [file |-> NoFile, description |-> 0]
Exited(n) == [by |-> "exit", n |-> n]
Signalled(n) == [by |-> "signal", n |-> n]
NoChild == [st |-> "none", pgrp |-> FALSE, status |-> Exited(0), out |-> NoFd, err |-> NoFd]
NoResult == [code |-> 0, status |-> Exited(0), killed |-> FALSE, late |-> FALSE]
SIGKILL == 9
SIGSEGV == 11

------------------------------------------------------------------------------
(* run_command and run_command_child.                                        *)
run_command ==
    /\ pc = "idle" /\ commands # <<>>
    /\ child' = [NoChild EXCEPT !.st = "forked"]
    /\ pc' = IF Settings.timeout > 0 THEN "sigaction" ELSE "wait"
    /\ late' = FALSE
    /\ UNCHANGED <<commands, alarm, handler, timeout_expired, result>>
ForkFails ==
    /\ pc = "idle" /\ commands # <<>>
    /\ commands' = Tail(commands)
    /\ result' = [NoResult EXCEPT !.code = -1, !.status = Signalled(1)]
    /\ UNCHANGED <<pc, child, alarm, handler, timeout_expired, late>>
Child(st) == child.st = st /\ pc # "killed"
Parent == UNCHANGED <<commands, pc, alarm, handler, timeout_expired, late, result>>
setpgid ==
    /\ Child("forked")
    /\ child' = [child EXCEPT !.st = "grouped", !.pgrp = TRUE]
    /\ Parent
(* The outputs are opened one after the other; a second name of the same     *)
(* file shares the first's descriptor.                                       *)
(* A mutant of paths_same_file: names are compared as they are.              *)
SameName(f, g) == f = g
paths_same_file(f, g) == Real[f] = Real[g]
Redirected(out, err) ==
    LET o == IF out = NoFile THEN NoFd ELSE [file |-> Real[out], description |-> 1]
        e == IF err = NoFile THEN NoFd
             ELSE IF out # NoFile /\ paths_same_file(out, err) THEN o
             ELSE [file |-> Real[err], description |-> 2]
    IN [child EXCEPT !.st = "ready", !.out = o, !.err = e]
run_command_child ==
    /\ Child("grouped")
    /\ child' = Redirected(Settings.out, Settings.err)
    /\ Parent
(* The group cannot be made, a file not opened or the program not executed:  *)
(* the child exits with code 1.                                              *)
child_failed ==
    /\ Child("forked") \/ Child("grouped") \/ Child("ready")
    /\ child' = [child EXCEPT !.st = "zombie", !.status = Exited(1)]
    /\ Parent
execvp ==
    /\ Child("ready")
    /\ child' = [child EXCEPT !.st = "running"]
    /\ Parent
Exit ==
    /\ Child("running") /\ ~Settings.hangs
    /\ \E status \in {Exited(Settings.code), Signalled(SIGSEGV)} :
          child' = [child EXCEPT !.st = "zombie", !.status = status]
    /\ Parent

------------------------------------------------------------------------------
(* run_command_parent.                                                       *)
Sigaction ==
    /\ pc = "sigaction" /\ pc' = "alarm" /\ handler' = "handle_alarm"
    /\ UNCHANGED <<commands, child, alarm, timeout_expired, late, result>>
Alarm ==
    /\ pc = "alarm" /\ pc' = "wait" /\ alarm' = "this"
    /\ UNCHANGED <<commands, child, handler, timeout_expired, late, result>>
(* wait: a child that has ended is reaped, else the call blocks.             *)
handle_process_termination(status) == IF status.by = "exit" THEN status.n ELSE -status.n
Reaped ==
    /\ result' = [code |-> handle_process_termination(child.status), status |-> child.status,
                  killed |-> child.status = Signalled(SIGKILL), late |-> late]
    /\ child' = NoChild /\ commands' = Tail(commands)
    /\ pc' = "idle"
    /\ alarm' = IF alarm = "this" THEN "earlier" ELSE alarm
    /\ UNCHANGED <<handler, timeout_expired, late>>
Wait ==
    /\ pc \in {"wait", "waiting"}
    /\ IF child.st = "zombie" THEN Reaped
       ELSE pc = "wait" /\ pc' = "waiting"
            /\ UNCHANGED <<commands, child, alarm, handler, timeout_expired, late, result>>
(* The alarm: the handler runs once (SA_RESETHAND) and interrupts a wait     *)
(* that has begun; without it the driver dies.                               *)
handle_alarm ==
    /\ alarm # "off" /\ pc # "killed"
    /\ alarm' = "off"
    /\ late' = (late \/ alarm = "this")
    /\ IF handler = "default" THEN pc' = "killed" /\ UNCHANGED <<handler, timeout_expired>>
       ELSE /\ handler' = "default" /\ timeout_expired' = TRUE
            /\ pc' = IF pc = "waiting" THEN "eintr" ELSE pc
    /\ UNCHANGED <<commands, child, result>>
(* kill(-child_pid) finds no group before the child has made it.             *)
KillGroup ==
    IF child.pgrp /\ child.st # "zombie"
    THEN [child EXCEPT !.st = "zombie", !.status = Signalled(SIGKILL)] ELSE child
(* A mutant of Expired: a command without a timeout is stopped too.          *)
ExpiredAny == timeout_expired
Expired == Settings.timeout > 0 /\ timeout_expired
Eintr ==
    /\ pc = "eintr" /\ pc' = "wait"
    /\ IF Expired THEN timeout_expired' = FALSE /\ child' = KillGroup
       ELSE UNCHANGED <<timeout_expired, child>>
    /\ UNCHANGED <<commands, alarm, handler, late, result>>

Init ==
    /\ commands \in Commands /\ pc = "idle" /\ child = NoChild
    /\ alarm = "off" /\ handler = "default" /\ timeout_expired = FALSE /\ late = FALSE
    /\ result = NoResult
ChildSteps == setpgid \/ run_command_child \/ child_failed \/ execvp \/ Exit
ParentSteps == run_command \/ Sigaction \/ Alarm \/ Wait \/ Eintr
Next == ChildSteps \/ ParentSteps \/ ForkFails \/ handle_alarm
Spec == Init /\ [][Next]_vars
(* The parent and the child are scheduled and time passes.                   *)
FairSpec ==
    /\ Spec /\ WF_vars(ParentSteps) /\ WF_vars(handle_alarm)
    /\ WF_vars(setpgid) /\ WF_vars(run_command_child) /\ WF_vars(execvp) /\ WF_vars(Exit)

------------------------------------------------------------------------------
(* What run_command returns is how its own child ended; a child is killed    *)
(* only when its command has a timeout and the alarm set for it has fired,   *)
(* never on the alarm left by an earlier command; no child is left unreaped; *)
(* and a child's two outputs, when they are one file under any names, share  *)
(* a descriptor, so that neither overwrites the other (run_unix.c).          *)
RunHonest ==
    /\ result.killed => (result.late /\ result.code < 0)
    /\ result.code < 0 <=> result.status.by = "signal"
    /\ pc = "idle" => child = NoChild
    /\ (child.out.file # NoFile /\ child.out.file = child.err.file) =>
          child.out.description = child.err.description

(* A command that has a timeout ends, also when it hangs (ocamltest's option *)
(* -timeout: the maximal execution time for every command).                  *)
TimeoutEnforced == (pc = "alarm") ~> (pc \in {"idle", "killed"})
(* The driver outlives the alarms of its commands.                           *)
DriverSurvives == pc # "killed"
=============================================================================
