---------------------------- MODULE Interruptor ----------------------------
(***************************************************************************)
(* What a domain promises to the leader of a stop-the-world section: the   *)
(* interrupt of a running domain is serviced, by one thread at a time, and *)
(* a domain leaves with no interrupt unserviced (runtime/domain.c).        *)
(* StwProtocol relies on it, its action HandleIncoming being Take here;    *)
(* BackupThread shows how the threads of a domain bring it about.          *)
(***************************************************************************)
VARIABLES
  running,            \* interruptor.running
  interrupt_pending,  \* interruptor.interrupt_pending
  handling            \* whether a thread of the domain is inside stw_handler

vars == <<running, interrupt_pending, handling>>

Init == running \in BOOLEAN /\ ~interrupt_pending /\ ~handling

(* domain_create finds no interrupt left over (its two assertions).        *)
Join ==
  /\ ~running /\ ~interrupt_pending /\ ~handling
  /\ running' = TRUE
  /\ UNCHANGED <<interrupt_pending, handling>>

(* domain_terminate.                                                       *)
Quit ==
  /\ running /\ ~interrupt_pending /\ ~handling
  /\ running' = FALSE
  /\ UNCHANGED <<interrupt_pending, handling>>

(* caml_send_interrupt, by the leader of a section.                        *)
Send ==
  /\ running /\ ~interrupt_pending /\ ~handling
  /\ interrupt_pending' = TRUE
  /\ UNCHANGED <<running, handling>>

(* handle_incoming, which asserts that the domain runs.                    *)
Take ==
  /\ running /\ interrupt_pending /\ ~handling
  /\ interrupt_pending' = FALSE
  /\ handling' = TRUE
  /\ UNCHANGED running

(* stw_handler returns.                                                    *)
Done ==
  /\ handling
  /\ handling' = FALSE
  /\ UNCHANGED <<running, interrupt_pending>>

Next == Join \/ Quit \/ Send \/ Take \/ Done

Spec == Init /\ [][Next]_vars /\ WF_vars(Take) /\ WF_vars(Done)

=============================================================================
