------------------------ MODULE GlobalBarrierProofs ------------------------
(***************************************************************************)
(* Proofs about GlobalBarrier for any finite set of participants, any      *)
(* position of the sense bit above their number and any number of rounds.  *)
(***************************************************************************)
EXTENDS GlobalBarrier, FiniteSetTheorems, TLAPS

(* The sense bit lies above every count.                                   *)
LEMMA SenseBitPositive == num_domains \in Nat /\ BARRIER_SENSE_BIT \in Nat \ {0}
<1>1. num_domains \in Nat
  BY DomainsAssumption, FS_CardinalityType
<1>2. QED
  BY <1>1, SenseBitAssumption

(* The arrived domains form a finite set no larger than num_domains, and   *)
(* when the two agree every participant has arrived.                       *)
LEMMA ArrivedFinite ==
  /\ IsFiniteSet(Arrived)
  /\ Cardinality(Arrived) \in Nat
  /\ Cardinality(Arrived) <= num_domains
  /\ Cardinality(Arrived) = num_domains => Arrived = Domains
<1>1. Arrived \in SUBSET Domains
  BY DEF Arrived
<1>2. QED
  BY <1>1, FS_Subset, FS_CardinalityType, DomainsAssumption

(* A barrier word is a sense plus a count below the sense bit, and a flip  *)
(* of the sense leaves a word whose count is zero.                         *)
LEMMA WordFields ==
  ASSUME NEW w \in Word
  PROVE  /\ Sense(w) \in {0, BARRIER_SENSE_BIT}
         /\ Count(w) \in Nat
         /\ Count(w) < BARRIER_SENSE_BIT
         /\ Count(w) + 1 < BARRIER_SENSE_BIT =>
              w + 1 \in Word /\ Sense(w + 1) = Sense(w) /\ Count(w + 1) = Count(w) + 1
         /\ BARRIER_SENSE_BIT - Sense(w) \in Word
         /\ Sense(BARRIER_SENSE_BIT - Sense(w)) # Sense(w)
         /\ Count(BARRIER_SENSE_BIT - Sense(w)) = 0
  BY SenseBitAssumption, SenseBitPositive DEF Word, Sense, Count

(* Typing and BarrierInv hold before any domain has arrived.               *)
LEMMA BarrierInit == BarrierStart => BarrierTypeOK /\ BarrierInv
<1> SUFFICES ASSUME BarrierStart PROVE BarrierTypeOK /\ BarrierInv
  OBVIOUS
<1>1. 0 \in Word /\ Sense(0) = 0 /\ Count(0) = 0
  <2>1. 0 \in Word
    BY SenseBitPositive DEF Word
  <2>2. Sense(0) = 0
    BY SenseBitPositive DEF Sense
  <2>3. Count(0) = 0
    BY <2>2 DEF Count
  <2>4. QED
    BY <2>1, <2>2, <2>3
<1>2. Arrived = {}
  BY DEF BarrierStart, Arrived
<1>3. BarrierTypeOK
  BY <1>1, DomainsAssumption, FS_CardinalityType, RoundsAssumption DEF BarrierStart, BarrierTypeOK
<1>4. BarrierInv
  BY <1>1, <1>2, FS_EmptySet DEF BarrierStart, BarrierInv, Position, Lagging
<1>5. QED
  BY <1>3, <1>4

(* Arriving adds the domain to the count and, if it is the last one, makes *)
(* it the only one to run the single section.                              *)
LEMMA BeginStep ==
  ASSUME BarrierTypeOK, BarrierInv, NEW d \in Domains, caml_global_barrier_begin(d)
  PROVE  BarrierTypeOK' /\ BarrierInv'
<1> USE DEF caml_global_barrier_begin, caml_global_barrier_is_final
<1>1. d \notin Arrived
  BY DEF Arrived
<1>2. Cardinality(Arrived) < num_domains /\ Arrived # Domains
  BY <1>1, ArrivedFinite, DomainsAssumption, FS_CardinalityType
<1>3. /\ barrier' \in Word
      /\ Sense(barrier') = Sense(barrier)
      /\ Count(barrier') = Count(barrier) + 1
  <2>1. Count(barrier) + 1 < BARRIER_SENSE_BIT
    BY <1>2, ArrivedFinite, SenseBitAssumption, SenseBitPositive
       DEF BarrierInv
  <2>2. QED
    BY <2>1, WordFields DEF BarrierTypeOK
<1>4. Arrived' = Arrived \cup {d}
  BY <1>3 DEF Arrived, BarrierTypeOK
<1>5. Cardinality(Arrived') = Cardinality(Arrived) + 1
  BY <1>1, <1>4, ArrivedFinite, FS_AddElement
<1>6. Count(barrier') = Cardinality(Arrived') /\ Count(barrier') <= num_domains
  BY <1>2, <1>3, <1>5, ArrivedFinite, DomainsAssumption, FS_CardinalityType DEF BarrierInv
<1>7. \A e \in Domains : pc[e] # "single"
  BY <1>2 DEF BarrierInv
<1>8. pc'[d] = "single" => Arrived' = Domains
  <2> SUFFICES ASSUME pc'[d] = "single" PROVE Arrived' = Domains
    OBVIOUS
  <2>1. Cardinality(Arrived') = num_domains
    BY <1>6 DEF BarrierTypeOK
  <2>2. Arrived' \in SUBSET Domains
    BY <1>4 DEF Arrived
  <2>3. QED
    BY <2>1, <2>2, FS_Subset, DomainsAssumption
<1>9. BarrierTypeOK'
  BY <1>3, <1>6 DEF BarrierTypeOK
<1>10. \A e \in Domains : Position(e)' = Position(e)
  BY <1>3 DEF Position, Lagging, BarrierTypeOK
<1>11. BarrierInv'
  <2>1. \A e \in Domains : (pc[e] = "single")' => e = d
    BY <1>7 DEF BarrierTypeOK
  <2>2. \A e \in Domains : (pc[e] = "single")' => (e \in Arrived /\ Arrived = Domains)'
    BY <2>1, <1>4, <1>8
  <2>3. \A e \in Domains : (pc[e] # "callback")' => (round[e] < Rounds)'
    BY DEF BarrierInv, BarrierTypeOK
  <2>4. \A e, f \in Domains : Position(e)' = Position(f)'
    BY <1>10 DEF BarrierInv
  <2>5. QED
    BY <1>6, <2>1, <2>2, <2>3, <2>4 DEF BarrierInv
<1>12. QED
  BY <1>9, <1>11

(* The last domain flips the sense when everyone waits for the flip: from  *)
(* then on they all lag, and nobody has arrived at the next barrier.       *)
LEMMA EndFinalStep ==
  ASSUME BarrierTypeOK, BarrierInv, NEW d \in Domains, EndFinal(d)
  PROVE  BarrierTypeOK' /\ BarrierInv'
<1> USE DEF EndFinal
<1>1. Arrived = Domains /\ Sense(b[d]) = Sense(barrier)
  BY DEF BarrierInv, Arrived
<1>2. /\ barrier' \in Word
      /\ Sense(barrier') # Sense(barrier)
      /\ Count(barrier') = 0
  BY <1>1, WordFields DEF BarrierTypeOK
<1>3. \A e \in Domains : pc[e] # "callback" /\ Sense(b[e]) = Sense(barrier)
  BY <1>1 DEF Arrived
<1>4. Arrived' = {}
  BY <1>2, <1>3 DEF Arrived
<1>5. BarrierTypeOK'
  <2>1. round' \in [Domains -> 0 .. Rounds]
    BY RoundsAssumption DEF BarrierTypeOK, BarrierInv
  <2>2. QED
    BY <1>2, <2>1, DomainsAssumption, FS_CardinalityType DEF BarrierTypeOK
<1>6. \A e \in Domains : Position(e) = round[e]
  BY <1>3 DEF Position, Lagging
<1>7. \A e \in Domains : Position(e)' = round[e] + 1
  BY <1>2, <1>3 DEF Position, Lagging, BarrierTypeOK
<1>8. BarrierInv'
  <2>1. \A e \in Domains : (pc[e] # "single")'
    BY DEF BarrierInv, BarrierTypeOK
  <2>2. \A e \in Domains : (pc[e] # "callback")' => (round[e] < Rounds)'
    BY DEF BarrierInv, BarrierTypeOK
  <2>3. \A e, f \in Domains : Position(e)' = Position(f)'
    BY <1>6, <1>7 DEF BarrierInv
  <2>4. Count(barrier') = Cardinality(Arrived')
    BY <1>2, <1>4, FS_EmptySet
  <2>5. QED
    BY <2>1, <2>2, <2>3, <2>4 DEF BarrierInv
<1>9. QED
  BY <1>5, <1>8

(* A domain that has seen the flip was not counted any more.               *)
LEMMA EndSpinStep ==
  ASSUME BarrierTypeOK, BarrierInv, NEW d \in Domains, EndSpin(d)
  PROVE  BarrierTypeOK' /\ BarrierInv'
<1> USE DEF EndSpin
<1>1. Arrived' = Arrived
  BY DEF Arrived, BarrierTypeOK
<1>2. BarrierTypeOK'
  <2>1. round' \in [Domains -> 0 .. Rounds]
    BY RoundsAssumption DEF BarrierTypeOK, BarrierInv
  <2>2. QED
    BY <2>1 DEF BarrierTypeOK
<1>3. \A e \in Domains : Position(e)' = Position(e)
  BY DEF Position, Lagging, BarrierTypeOK
<1>4. BarrierInv'
  <2>1. Count(barrier') = Cardinality(Arrived')
    BY <1>1 DEF BarrierInv
  <2>2. \A e \in Domains : (pc[e] = "single")' => pc[e] = "single"
    BY DEF BarrierTypeOK
  <2>3. \A e \in Domains : (pc[e] # "callback")' => (round[e] < Rounds)'
    BY DEF BarrierInv, BarrierTypeOK
  <2>4. \A e, f \in Domains : Position(e)' = Position(f)'
    BY <1>3 DEF BarrierInv
  <2>5. QED
    BY <1>1, <2>1, <2>2, <2>3, <2>4 DEF BarrierInv
<1>5. QED
  BY <1>2, <1>4

(* BarrierInv is an inductive invariant of the barrier.                    *)
THEOREM BarrierInvariant == BarrierSpec => [](BarrierTypeOK /\ BarrierInv)
<1>1. BarrierTypeOK /\ BarrierInv /\ [BarrierNext]_barrier_vars => BarrierTypeOK' /\ BarrierInv'
  <2> SUFFICES ASSUME BarrierTypeOK, BarrierInv, [BarrierNext]_barrier_vars
               PROVE  BarrierTypeOK' /\ BarrierInv'
    OBVIOUS
  <2>1. CASE \E d \in Domains : caml_global_barrier_begin(d)
    BY <2>1, BeginStep
  <2>2. CASE \E d \in Domains : caml_global_barrier_end(d)
    BY <2>2, EndFinalStep, EndSpinStep DEF caml_global_barrier_end
  <2>3. CASE UNCHANGED barrier_vars
    BY <2>3 DEF barrier_vars, BarrierTypeOK, BarrierInv, Arrived, Position, Lagging
  <2>4. QED
    BY <2>1, <2>2, <2>3 DEF BarrierNext
<1>2. QED
  BY BarrierInit, <1>1, PTL DEF BarrierSpec

(* No participant of a STW section leaves a barrier of the callback before *)
(* every participant has arrived at it, whatever their number.             *)
THEOREM BarrierSynchronises == BarrierSpec => []BarrierSync
<1>1. BarrierTypeOK /\ BarrierInv => BarrierSync
  BY DEF BarrierTypeOK, BarrierInv, BarrierSync, Position, Lagging
<1>2. QED
  BY BarrierInvariant, <1>1, PTL

(* The *_from_stw_single code runs in one domain at a time, with every     *)
(* other participant stopped at the same barrier.                          *)
THEOREM SingleSectionExclusion == BarrierSpec => []SingleIsAlone
<1>1. BarrierTypeOK /\ BarrierInv => SingleIsAlone
  <2> SUFFICES ASSUME BarrierTypeOK, BarrierInv, NEW d \in Domains, NEW e \in Domains,
                      pc[d] = "single", d # e
               PROVE  pc[e] = "spin" /\ round[e] = round[d]
    BY DEF SingleIsAlone
  <2>1. pc[e] # "single" /\ d \in Arrived /\ e \in Arrived
    BY DEF BarrierInv
  <2>2. pc[e] = "spin"
    BY <2>1 DEF Arrived, BarrierTypeOK
  <2>3. Position(d) = round[d] /\ Position(e) = round[e]
    BY <2>1 DEF Arrived, Position, Lagging
  <2>4. QED
    BY <2>2, <2>3 DEF BarrierInv
<1>2. QED
  BY BarrierInvariant, <1>1, PTL

=============================================================================
