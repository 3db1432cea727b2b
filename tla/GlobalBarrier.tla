--------------------------- MODULE GlobalBarrier ---------------------------
(***************************************************************************)
(* The sense-reversing barrier that the participants of a stop-the-world   *)
(* (STW) section use inside the section's callback:                        *)
(* caml_global_barrier_begin, caml_global_barrier_is_final and             *)
(* caml_global_barrier_end of runtime/domain.c.                            *)
(*                                                                         *)
(* The whole barrier is one word, stw_request.barrier.  Its low bits count *)
(* the domains that have arrived and one high bit, BARRIER_SENSE_BIT, is   *)
(* the sense.  A domain keeps the value it got when it arrived             *)
(* (barrier_status) and learns from it alone whether it is the last one    *)
(* and which sense it waits to see flipped.                                *)
(*                                                                         *)
(* A callback runs a fixed number of barriers, the same one in every       *)
(* domain (the callbacks have no barrier under a domain-local condition).  *)
(* The STW leader zeroes the word before the section and no straggler of   *)
(* the previous section is left by then: see StwProtocol, NoStragglers.    *)
(***************************************************************************)
EXTENDS Integers, FiniteSets

CONSTANTS
  Domains,            \* the participants, stw_request.participating
  num_domains,        \* stw_request.num_domains
  BARRIER_SENSE_BIT,  \* the bit that holds the sense, 0x100000 in the code
  Rounds              \* how many barriers the callback runs

ASSUME DomainsAssumption ==
  /\ IsFiniteSet(Domains)
  /\ num_domains = Cardinality(Domains)
  /\ num_domains > 0

ASSUME SenseBitAssumption ==
  BARRIER_SENSE_BIT \in Nat /\ num_domains < BARRIER_SENSE_BIT

ASSUME RoundsAssumption == Rounds \in Nat

VARIABLES
  barrier,  \* stw_request.barrier
  b,        \* the barrier_status each domain holds between begin and end
  pc,       \* where each domain is in the callback
  round     \* history: the barriers each domain has passed

barrier_vars == <<barrier, b, pc, round>>

-----------------------------------------------------------------------------
(* The two fields of a barrier word, and of a barrier_status.              *)

Sense(w) == IF w >= BARRIER_SENSE_BIT THEN BARRIER_SENSE_BIT ELSE 0
Count(w) == w - Sense(w)

(* Mutation: the test is off by one.                                       *)
FinalOneEarly(w) == Count(w) = num_domains - 1

caml_global_barrier_is_final(w) == Count(w) = num_domains

BarrierStart ==
  /\ barrier = 0
  /\ b = [d \in Domains |-> 0]
  /\ pc = [d \in Domains |-> "callback"]
  /\ round = [d \in Domains |-> 0]

(* atomic_fetch_add on the word.  The final domain goes on to the          *)
(* "from_stw_single" code between begin and end; the others spin.          *)
caml_global_barrier_begin(d) ==
  /\ pc[d] = "callback"
  /\ round[d] < Rounds
  /\ barrier' = barrier + 1
  /\ b' = [b EXCEPT ![d] = barrier + 1]
  /\ pc' = [pc EXCEPT ![d] =
              IF caml_global_barrier_is_final(barrier + 1) THEN "single" ELSE "spin"]
  /\ UNCHANGED round

(* Mutation: the count is zeroed but the sense is not flipped.             *)
EndFinalWithoutFlip(d) ==
  /\ pc[d] = "single"
  /\ barrier' = Sense(b[d])
  /\ pc' = [pc EXCEPT ![d] = "callback"]
  /\ round' = [round EXCEPT ![d] = @ + 1]
  /\ UNCHANGED b

(* caml_global_barrier_end in the last domain: flip the sense, zero the    *)
(* count.                                                                  *)
EndFinal(d) ==
  /\ pc[d] = "single"
  /\ barrier' = BARRIER_SENSE_BIT - Sense(b[d])
  /\ pc' = [pc EXCEPT ![d] = "callback"]
  /\ round' = [round EXCEPT ![d] = @ + 1]
  /\ UNCHANGED b

(* caml_global_barrier_end in the other domains: the iteration of          *)
(* SPIN_WAIT that sees another sense.                                      *)
EndSpin(d) ==
  /\ pc[d] = "spin"
  /\ Sense(barrier) # Sense(b[d])
  /\ pc' = [pc EXCEPT ![d] = "callback"]
  /\ round' = [round EXCEPT ![d] = @ + 1]
  /\ UNCHANGED <<barrier, b>>

caml_global_barrier_end(d) == EndFinal(d) \/ EndSpin(d)

BarrierNext ==
  \/ \E d \in Domains : caml_global_barrier_begin(d)
  \/ \E d \in Domains : caml_global_barrier_end(d)

(* A domain inside a STW section runs C code that never blocks: each of    *)
(* its steps is eventually taken.                                          *)
BarrierFairness ==
  \A d \in Domains :
    /\ WF_barrier_vars(caml_global_barrier_begin(d))
    /\ WF_barrier_vars(caml_global_barrier_end(d))

BarrierSpec == BarrierStart /\ [][BarrierNext]_barrier_vars
BarrierFairSpec == BarrierSpec /\ BarrierFairness

-----------------------------------------------------------------------------
Word == 0 .. (2 * BARRIER_SENSE_BIT - 1)

(* The word never carries out of its two fields: the count stays within    *)
(* the number of participants, so the sense bit changes only by a flip.    *)
BarrierTypeOK ==
  /\ barrier \in Word
  /\ Count(barrier) <= num_domains
  /\ b \in [Domains -> Word]
  /\ pc \in [Domains -> {"callback", "spin", "single"}]
  /\ round \in [Domains -> 0 .. Rounds]

(* No domain leaves a barrier before every participant has arrived at it:  *)
(* a domain that is behind another one is inside the very barrier that the *)
(* other one has just left.                                                *)
BarrierSync ==
  \A d, e \in Domains :
    round[d] > round[e] => round[d] = round[e] + 1 /\ pc[e] # "callback"

(* The code between begin and end under caml_global_barrier_is_final (heap *)
(* cycling, phase changes, minor heap reservation: the functions named     *)
(* *_from_stw_single) runs in one domain, while all the others wait at the *)
(* same barrier.                                                           *)
SingleIsAlone ==
  \A d, e \in Domains :
    pc[d] = "single" /\ d # e => pc[e] = "spin" /\ round[e] = round[d]

(* The domains that count in the current word, and the barrier a domain is *)
(* at when those that have yet to see a flip are taken past it.            *)
Arrived == {d \in Domains : pc[d] # "callback" /\ Sense(b[d]) = Sense(barrier)}
Lagging(d) == pc[d] # "callback" /\ Sense(b[d]) # Sense(barrier)
Position(d) == IF Lagging(d) THEN round[d] + 1 ELSE round[d]

(* Why the barrier is right.  The count is exactly the number of domains   *)
(* waiting for the current sense to flip, so the sense flips only when     *)
(* every participant waits for it, and nobody is two flips behind.         *)
BarrierInv ==
  /\ Count(barrier) = Cardinality(Arrived)
  /\ \A d \in Domains : pc[d] = "single" => d \in Arrived /\ Arrived = Domains
  /\ \A d, e \in Domains : pc[d] = "single" /\ pc[e] = "single" => d = e
  /\ \A d \in Domains : pc[d] # "callback" => round[d] < Rounds
  /\ \A d, e \in Domains : Position(d) = Position(e)

(* The barrier does not hang: every participant gets through the callback, *)
(* even one that looks at the word only after faster domains have entered  *)
(* the next barrier.                                                       *)
EveryoneLeaves == <>(\A d \in Domains : round[d] = Rounds)

=============================================================================
