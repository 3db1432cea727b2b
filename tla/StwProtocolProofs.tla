------------------------- MODULE StwProtocolProofs -------------------------
(***************************************************************************)
(* Proofs about StwProtocol: TypeOK /\ StwInv is inductive, and from it    *)
(* follow the exclusion that a synchronous section promises, that each     *)
(* participant runs the callback once, that nothing of a section is left   *)
(* when the next one may begin, that the participants of a section are     *)
(* fixed while it runs, and that slots are reused safely.  For any number  *)
(* of slots, whether or not domain_create may fail late.                   *)
(***************************************************************************)
EXTENDS StwProtocolTypes

USE DEF NoSlot, Unlocked, Domain, Child, Goto, Woken, Caller, AllWillProcess,
        NextTarget, add_next_to_stw_domains

-----------------------------------------------------------------------------
(* Where a domain has no part in a section.                                *)
Quiet == {"handshake", "idle", "sleep", "trylock", "claim", "giveup", "poll"}

(* Moves of threads among these places, whatever they do to the lock, to   *)
(* spawns and to slots that no domain has, keep what is said of sections.  *)
LEMMA QuietStep ==
  ASSUME TypeOK, StwInv,
         UNCHANGED <<stwVars, participating_domains, domains, running, interrupt_pending>>,
         \A s \in Slots : pc'[s] = pc[s] \/ (pc[s] \in Quiet /\ pc'[s] \in Quiet),
         ctx'[1] # "term"
  PROVE  ArrayInv' /\ IdleInv' /\ MemberInv' /\ LeaderInv'
<1>1. /\ \A s \in Slots : pc'[s] = "off" <=> pc[s] = "off"
      /\ \A s \in Slots : pc'[s] = "interrupt" <=> pc[s] = "interrupt"
      /\ \A s \in Slots : pc'[s] = "await" <=> pc[s] = "await"
      /\ \A s \in Slots : pc'[s] = "spin" <=> pc[s] = "spin"
      /\ \A s \in Slots : pc'[s] = "callback" <=> pc[s] = "callback"
      /\ \A s \in Slots : pc'[s] = "last" <=> pc[s] = "last"
  BY DEF Quiet
<1>2. /\ Participants' = Participants
      /\ stw_leader' = stw_leader /\ section' = section /\ ran' = ran /\ sync' = sync
      /\ interrupt_pending' = interrupt_pending /\ running' = running
  BY DEF Participants, stwVars
<1>3. stw_leader # NoSlot => stw_leader \in Slots
  BY DEF TypeOK, RequestTypes
<1>4. stw_leader # NoSlot => \A s \in Slots : Interrupted(s)' <=> Interrupted(s)
  BY <1>1, <1>2, <1>3 DEF Interrupted, stwVars
<1>5. ArrayInv'
  BY <1>1, <1>2 DEF StwInv, ArrayInv
<1>6. IdleInv'
  BY <1>1, <1>2 DEF StwInv, IdleInv
<1>7. MemberInv'
  <2> SUFFICES ASSUME stw_leader # NoSlot PROVE MemberInv'
    BY <1>2 DEF MemberInv
  <2>1. MemberInv /\ section \subseteq Slots /\ ran \subseteq Slots
    BY DEF StwInv, TypeOK, RequestTypes
  <2>2. num_domains_still_processing' = num_domains_still_processing
    BY DEF stwVars
  <2> QED BY <1>1, <1>2, <1>4, <2>1, <2>2 DEF MemberInv
<1>8. LeaderInv'
  BY <1>1, <1>2, <1>3 DEF StwInv, LeaderInv, stwVars
<1> QED BY <1>5, <1>6, <1>7, <1>8

-----------------------------------------------------------------------------
(* The steps of a section, one lemma each.                                 *)

(* What a section is made of, for the lemmas below.                        *)
SectionInv == ArrayInv /\ IdleInv /\ MemberInv /\ LeaderInv

(* The leader sets the request up: the participants of that moment, none   *)
(* of them interrupted.                                                    *)
LEMMA ClaimStep ==
  ASSUME TypeOK, StwInv, NEW s \in Slots, Claim(s)
  PROVE  SectionInv'
<1>1. /\ stw_leader = NoSlot /\ stw_leader' = s /\ s # NoSlot
      /\ pc[s] = "claim" /\ pc' = [pc EXCEPT ![s] = "interrupt"]
      /\ section' = Participants /\ ran' = {} /\ i' = 1
      /\ domains_still_running' = sync'
      /\ num_domains' = participating_domains
      /\ num_domains_still_processing' = participating_domains
  BY SlotFacts, MaxDomainsAssumption DEF Claim, MayClaim
<1>2. /\ participating_domains' = participating_domains /\ domains' = domains
      /\ running' = running /\ interrupt_pending' = interrupt_pending /\ ctx' = ctx
  BY DEF Claim, slotVars
<1>3. Participants' = Participants
  BY <1>2 DEF Participants
<1>4. /\ pc \in [Slots -> {"off", "handshake", "idle", "sleep", "trylock", "claim", "giveup",
                           "interrupt", "await", "spin", "callback", "last", "poll"}]
      /\ Participants \subseteq Slots
      /\ Cardinality(Participants) = participating_domains
      /\ participating_domains \in Nat
  <2>1. Participants \subseteq Slots /\ Cardinality(Participants) = participating_domains
    BY ParticipantsCount DEF StwInv
  <2>2. participating_domains \in Nat
    BY SlotFacts, MaxDomainsAssumption DEF TypeOK, SlotTypes
  <2> QED BY <2>1, <2>2 DEF TypeOK, ThreadTypes
<1>5. \A t \in Slots : ~interrupt_pending[t]
                      /\ pc[t] \notin {"interrupt", "await", "spin", "callback", "last"}
  BY <1>1 DEF StwInv, IdleInv
<1>6. s \in Participants
  BY <1>1 DEF StwInv, ArrayInv
<1>7. \A t \in Slots : ~Interrupted(t)'
  BY <1>1, <1>4 DEF Interrupted
<1>8. ArrayInv'
  BY <1>1, <1>2, <1>3, <1>4 DEF StwInv, ArrayInv
<1>9. IdleInv'
  BY <1>1 DEF IdleInv
<1>10. MemberInv'
  <2>1. Cardinality(section' \ ran') = num_domains_still_processing'
    <3>1. section' \ ran' = Participants
      BY <1>1
    <3> QED BY <1>1, <1>4, <3>1
  <2>2. \A t \in Slots : ~interrupt_pending'[t]
                        /\ pc'[t] \notin {"await", "spin", "callback", "last"}
    BY <1>1, <1>2, <1>4, <1>5
  <2> QED BY <1>1, <1>3, <1>4, <1>7, <2>1, <2>2 DEF MemberInv
<1>11. LeaderInv'
  <2>1. pc'[s] = "interrupt" /\ \A t \in Slots : pc'[t] \in {"interrupt", "await"} => t = s
    BY <1>1, <1>4, <1>5
  <2>2. \A t \in Slots : ~interrupt_pending'[t] /\ pc'[t] # "callback"
    BY <1>1, <1>2, <1>4, <1>5
  <2>3. participating_domains' = participating_domains /\ num_domains' = participating_domains'
    BY <1>1, <1>2
  <2>4. \A k \in 1 .. participating_domains' : ~(k < i')
    BY <1>1
  <2> QED BY <1>1, <1>3, <1>6, <2>1, <2>2, <2>3, <2>4 DEF LeaderInv
<1> QED BY <1>8, <1>9, <1>10, <1>11 DEF SectionInv

(* One iteration of the interrupt loop adds one participant to the         *)
(* interrupted ones.                                                       *)
LEMMA SendInterruptStep ==
  ASSUME TypeOK, StwInv, NEW s \in Slots, SendInterrupt(s)
  PROVE  SectionInv'
<1> DEFINE d == domains[i]
<1>1. /\ pc[s] = "interrupt" /\ i <= participating_domains
      /\ participating' = [participating EXCEPT ![i] = d] /\ i' = i + 1
      /\ stw_leader' = stw_leader /\ section' = section /\ ran' = ran /\ sync' = sync
      /\ domains_still_running' = domains_still_running /\ num_domains' = num_domains
      /\ num_domains_still_processing' = num_domains_still_processing
      /\ ctx' = ctx
  BY DEF SendInterrupt
<1>2. /\ participating_domains' = participating_domains /\ domains' = domains
      /\ running' = running
  BY DEF SendInterrupt, slotVars
<1>3. Participants' = Participants
  BY <1>2 DEF Participants
<1>4. /\ i \in Slots /\ d \in Slots /\ participating_domains \in Slots
      /\ domains \in [Slots -> Slots] /\ d \in Participants
      /\ participating \in [Slots -> Slots \union {NoSlot}]
      /\ interrupt_pending \in [Slots -> BOOLEAN] /\ section \subseteq Slots
      /\ i \in 1 .. participating_domains
  <2>1. i \in Slots /\ d \in Slots
    BY <1>1, LoopType DEF TypeOK
  <2>2. participating_domains \in Slots /\ i \in 1 .. participating_domains
    BY SlotFacts, <1>1, <2>1, MaxDomainsAssumption DEF TypeOK, SlotTypes
  <2> QED BY <2>1, <2>2 DEF TypeOK, RequestTypes, SlotTypes, Participants
<1>5. stw_leader = s /\ s # NoSlot
  BY <1>1, MaxDomainsAssumption DEF StwInv, IdleInv, LeaderInv
<1>6. /\ s \in section \ ran /\ section = Participants /\ num_domains = participating_domains
      /\ \A k \in 1 .. participating_domains : k < i => participating[k] = domains[k]
      /\ sync = 1 => domains_still_running = 1 /\ ran = {} /\ \A t \in Slots : pc[t] # "callback"
      /\ \A t \in Slots : pc[t] \in {"interrupt", "await"} => t = s
  BY <1>1, <1>5 DEF StwInv, LeaderInv
<1>7. /\ \A t \in Slots : interrupt_pending'[t] <=> interrupt_pending[t] \/ (t = d /\ d # s)
      /\ \A t \in Slots : pc'[t] = pc[t] \/ (pc[t] = "sleep" /\ pc'[t] = "idle")
  <2>1. CASE d # s
    BY <1>4, <2>1 DEF SendInterrupt, caml_send_interrupt, TypeOK, ThreadTypes
  <2>2. CASE d = s
    BY <1>4, <2>2 DEF SendInterrupt
  <2> QED BY <2>1, <2>2
<1>8. pc'[s] = "interrupt"
  BY <1>1, <1>7
<1>9. \A t \in Slots : Interrupted(t)' <=> Interrupted(t) \/ t = d
  <2>1. \A t \in Slots : Interrupted(t) <=> \E k \in 1 .. participating_domains : k < i /\ domains[k] = t
    BY <1>1, <1>5 DEF Interrupted
  <2>2. \A t \in Slots : Interrupted(t)' <=>
                        \E k \in 1 .. participating_domains : k < i + 1 /\ domains[k] = t
    BY <1>1, <1>2, <1>5, <1>8 DEF Interrupted
  <2> QED BY <1>4, <2>1, <2>2
<1>10. ~Interrupted(d)
  BY <1>1, <1>4, <1>5, MaxDomainsAssumption DEF Interrupted, StwInv, ArrayInv, Slots
<1>11. d # s => d \in section \ ran /\ pc[d] \notin {"interrupt", "await", "spin", "callback", "last"}
  <2> SUFFICES ASSUME d # s PROVE d \in section \ ran
                 /\ pc[d] \notin {"interrupt", "await", "spin", "callback", "last"}
    OBVIOUS
  <2>1. pc[d] \notin {"interrupt", "await"}
    BY <1>4, <1>6, Zenon
  <2>2. pc[d] \notin {"spin", "callback"}
    BY <1>4, <1>5, <1>10, Zenon DEF StwInv, MemberInv
  <2>3. pc[d] # "last"
    BY <1>4, <1>5, <1>6, Zenon DEF StwInv, MemberInv
  <2>4. d \notin ran
    BY <1>4, <1>5, <1>10 DEF StwInv, MemberInv
  <2> QED BY <1>4, <1>6, <2>1, <2>2, <2>3, <2>4
<1>12. ArrayInv'
  BY <1>1, <1>2, <1>3, <1>7 DEF StwInv, ArrayInv
<1>13. IdleInv'
  BY <1>1, <1>5 DEF IdleInv
<1>14. MemberInv'
  <2>1. MemberInv /\ ran \subseteq Slots
    BY DEF StwInv, TypeOK, RequestTypes
  <2>2. \A t \in ran : Interrupted(t)'
    BY <1>5, <1>9, <2>1 DEF MemberInv
  <2>3. \A t \in section \ ran : t # s /\ Interrupted(t)' =>
          interrupt_pending'[t] \/ pc'[t] \in {"spin", "callback"}
    BY <1>4, <1>5, <1>7, <1>9, <2>1 DEF MemberInv
  <2>4. \A t \in Slots :
          /\ interrupt_pending'[t] =>
               /\ t \in section \ ran /\ t # s /\ Interrupted(t)'
               /\ pc'[t] \notin {"interrupt", "await", "spin", "callback", "last"}
          /\ pc'[t] \in {"spin", "callback"} => t \in section \ ran
          /\ pc'[t] = "spin" => t # s /\ Interrupted(t)'
          /\ pc'[t] = "callback" /\ t # s => Interrupted(t)'
          /\ pc'[t] = "last" => section = ran
          /\ \A u \in Slots : pc'[t] = "last" /\ pc'[u] = "last" => t = u
    BY <1>5, <1>7, <1>9, <1>11, <2>1 DEF MemberInv
  <2> QED BY <1>1, <1>3, <1>5, <2>1, <2>2, <2>3, <2>4 DEF MemberInv
<1>15. LeaderInv'
  <2>1. \A k \in 1 .. participating_domains : k < i + 1 => participating'[k] = domains[k]
    <3> SUFFICES ASSUME NEW k \in 1 .. participating_domains, k < i + 1
                 PROVE  participating'[k] = domains[k]
      OBVIOUS
    <3>1. k \in Slots
      BY <1>4, MaxDomainsAssumption DEF Slots
    <3>2. CASE k = i
      BY <1>1, <1>4, <3>2
    <3>3. CASE k # i
      <4>1. k < i
        BY <1>4, <3>3, MaxDomainsAssumption
      <4> QED BY <1>1, <1>4, <1>6, <3>1, <3>3, <4>1
    <3> QED BY <3>2, <3>3
  <2> QED BY <1>1, <1>2, <1>3, <1>5, <1>6, <1>7, <1>8, <2>1 DEF LeaderInv
<1> QED BY <1>12, <1>13, <1>14, <1>15 DEF SectionInv

(* At the end of the interrupt loop every participant is interrupted.      *)
LEMMA InterruptsSentStep ==
  ASSUME TypeOK, StwInv, NEW s \in Slots, InterruptsSent(s)
  PROVE  SectionInv'
<1>1. /\ pc[s] = "interrupt" /\ i > participating_domains
      /\ pc' = [pc EXCEPT ![s] = "await"]
      /\ interrupt_pending' = interrupt_pending
      /\ domains_still_running' = domains_still_running
      /\ stw_leader' = stw_leader /\ section' = section /\ ran' = ran /\ sync' = sync
      /\ num_domains' = num_domains /\ participating' = participating /\ i' = i
      /\ num_domains_still_processing' = num_domains_still_processing
      /\ participating_domains' = participating_domains /\ domains' = domains
      /\ running' = running /\ ctx' = ctx
  BY DEF InterruptsSent, stwVars, slotVars
<1>2. /\ Participants' = Participants
      /\ participating_domains \in Nat /\ i \in Nat
      /\ section \subseteq Slots /\ ran \subseteq Slots
  BY SlotFacts, <1>1, MaxDomainsAssumption DEF Participants, TypeOK, RequestTypes, SlotTypes
<1>3. \A t \in Slots : IF t = s THEN pc'[t] = "await" ELSE pc'[t] = pc[t]
  BY <1>1 DEF TypeOK, ThreadTypes
<1>4. stw_leader = s /\ s # NoSlot
  BY <1>1, MaxDomainsAssumption DEF StwInv, IdleInv, LeaderInv
<1>5. /\ s \in section \ ran /\ section = Participants /\ num_domains = participating_domains
      /\ \A k \in 1 .. participating_domains : participating[k] = domains[k]
      /\ sync = 1 => domains_still_running = 1 /\ ran = {} /\ \A t \in Slots : pc[t] # "callback"
      /\ \A t \in Slots : pc[t] \in {"interrupt", "await"} => t = s
  BY <1>1, <1>2, <1>4 DEF StwInv, LeaderInv
<1>6. \A t \in Participants : Interrupted(t)
  BY <1>1, <1>2 DEF Interrupted, Participants
<1>7. \A t : Interrupted(t)'
  BY <1>1, <1>3, <1>4 DEF Interrupted
<1>8. ArrayInv'
  BY <1>1, <1>2, <1>3 DEF StwInv, ArrayInv
<1>9. IdleInv'
  BY <1>1, <1>4 DEF IdleInv
<1>10. MemberInv'
  <2>1. MemberInv
    BY DEF StwInv
  <2>2. \A t \in section \ ran : t # s => interrupt_pending'[t] \/ pc'[t] \in {"spin", "callback"}
    BY <1>1, <1>2, <1>3, <1>4, <1>5, <1>6, <2>1 DEF MemberInv
  <2>3. \A t \in Slots : interrupt_pending[t] => t # s
    BY <1>4, <2>1 DEF MemberInv
  <2> QED BY <1>1, <1>2, <1>3, <1>4, <1>7, <2>1, <2>2, <2>3 DEF MemberInv
<1>11. LeaderInv'
  <2>1. \A t \in section \ ran : \E k \in 1 .. num_domains : participating[k] = t
    BY <1>5 DEF Participants
  <2> QED BY <1>1, <1>3, <1>4, <1>5, <2>1 DEF LeaderInv
<1> QED BY <1>8, <1>9, <1>10, <1>11 DEF SectionInv

(* The wait for the interrupts ends when nobody is pending: the enter      *)
(* barrier may open.                                                       *)
LEMMA InterruptsServicedStep ==
  ASSUME TypeOK, StwInv, NEW s \in Slots, InterruptsServiced(s)
  PROVE  SectionInv'
<1>1. /\ pc[s] = "await" /\ AllServiced
      /\ pc' = [pc EXCEPT ![s] = "callback"]
      /\ interrupt_pending' = interrupt_pending
      /\ stw_leader' = stw_leader /\ section' = section /\ ran' = ran /\ sync' = sync
      /\ num_domains' = num_domains /\ participating' = participating /\ i' = i
      /\ num_domains_still_processing' = num_domains_still_processing
      /\ participating_domains' = participating_domains /\ domains' = domains
      /\ running' = running /\ ctx' = ctx
  BY DEF InterruptsServiced, slotVars
<1>2. Participants' = Participants /\ section \subseteq Slots /\ ran \subseteq Slots
  BY <1>1 DEF Participants, TypeOK, RequestTypes
<1>3. \A t \in Slots : IF t = s THEN pc'[t] = "callback" ELSE pc'[t] = pc[t]
  BY <1>1 DEF TypeOK, ThreadTypes
<1>4. stw_leader = s /\ s # NoSlot
  BY <1>1, MaxDomainsAssumption DEF StwInv, IdleInv, LeaderInv
<1>5. /\ s \in section \ ran
      /\ \A t \in section \ ran : \E k \in 1 .. num_domains : participating[k] = t
      /\ \A t \in Slots : pc[t] \in {"interrupt", "await"} => t = s
  BY <1>1, <1>4 DEF StwInv, LeaderInv
<1>6. \A t \in section \ ran : ~interrupt_pending[t]
  BY <1>1, <1>5 DEF AllServiced
<1>7. \A t \in Slots : ~interrupt_pending[t]
  BY <1>4, <1>6 DEF StwInv, MemberInv
<1>8. \A t : Interrupted(t)' /\ Interrupted(t)
  BY <1>1, <1>3, <1>4 DEF Interrupted
<1>9. ArrayInv'
  BY <1>1, <1>2, <1>3 DEF StwInv, ArrayInv
<1>10. IdleInv'
  BY <1>1, <1>4 DEF IdleInv
<1>11. MemberInv'
  <2>1. MemberInv
    BY DEF StwInv
  <2> QED BY <1>1, <1>2, <1>3, <1>4, <1>5, <1>7, <1>8, <2>1 DEF MemberInv
<1>12. LeaderInv'
  BY <1>1, <1>3, <1>4, <1>5, <1>7 DEF LeaderInv
<1> QED BY <1>9, <1>10, <1>11, <1>12 DEF SectionInv

(* A pending interrupt is taken up, at a poll point or on giving up.       *)
LEMMA ServiceStep ==
  ASSUME TypeOK, StwInv, NEW s \in Slots, interrupt_pending[s],
         HandleIncoming(s) \/ GiveUp(s)
  PROVE  SectionInv'
<1>1. /\ pc[s] \in {"idle", "giveup"}
      /\ pc' = [pc EXCEPT ![s] = "spin"]
      /\ interrupt_pending' = [interrupt_pending EXCEPT ![s] = FALSE]
      /\ domains_still_running' = domains_still_running
      /\ stw_leader' = stw_leader /\ section' = section /\ ran' = ran /\ sync' = sync
      /\ num_domains' = num_domains /\ participating' = participating /\ i' = i
      /\ num_domains_still_processing' = num_domains_still_processing
      /\ participating_domains' = participating_domains /\ domains' = domains
      /\ running' = running /\ ctx' = ctx
  BY DEF HandleIncoming, GiveUp, stwVars, slotVars
<1>2. Participants' = Participants /\ section \subseteq Slots /\ ran \subseteq Slots
  BY <1>1 DEF Participants, TypeOK, RequestTypes
<1>3. \A t \in Slots : IF t = s THEN pc'[t] = "spin" ELSE pc'[t] = pc[t]
  BY <1>1 DEF TypeOK, ThreadTypes
<1>3a. \A t \in Slots : interrupt_pending'[t] <=> (interrupt_pending[t] /\ t # s)
  BY <1>1 DEF TypeOK, SlotTypes
<1>4. stw_leader # NoSlot /\ stw_leader \in Slots
  BY DEF StwInv, IdleInv, TypeOK, RequestTypes
<1>5. s \in section \ ran /\ s # stw_leader /\ Interrupted(s)
  BY <1>4 DEF StwInv, MemberInv
<1>6. \A t : Interrupted(t)' <=> Interrupted(t)
  BY <1>1, <1>3, <1>4, <1>5 DEF Interrupted
<1>7. ArrayInv'
  BY <1>1, <1>2, <1>3 DEF StwInv, ArrayInv
<1>8. IdleInv'
  BY <1>1, <1>4 DEF IdleInv
<1>9. MemberInv'
  <2>1. MemberInv
    BY DEF StwInv
  <2> QED BY <1>1, <1>2, <1>3, <1>4, <1>5, <1>6, <1>3a, <2>1 DEF MemberInv
<1>10. LeaderInv'
  <2>1. LeaderInv
    BY DEF StwInv
  <2>2. pc'[stw_leader] = pc[stw_leader]
    BY <1>3, <1>4, <1>5
  <2> QED BY <1>1, <1>2, <1>3, <1>4, <1>5, <1>3a, <2>1, <2>2 DEF LeaderInv
<1> QED BY <1>7, <1>8, <1>9, <1>10 DEF SectionInv

(* A participant passes the enter barrier after the leader has opened it.  *)
LEMMA EnterBarrierStep ==
  ASSUME TypeOK, StwInv, NEW s \in Slots, EnterBarrier(s)
  PROVE  SectionInv'
<1>1. /\ pc[s] = "spin" /\ domains_still_running = 0
      /\ pc' = [pc EXCEPT ![s] = "callback"]
      /\ interrupt_pending' = interrupt_pending
      /\ domains_still_running' = domains_still_running
      /\ stw_leader' = stw_leader /\ section' = section /\ ran' = ran /\ sync' = sync
      /\ num_domains' = num_domains /\ participating' = participating /\ i' = i
      /\ num_domains_still_processing' = num_domains_still_processing
      /\ participating_domains' = participating_domains /\ domains' = domains
      /\ running' = running /\ ctx' = ctx
  BY DEF EnterBarrier, EnterBarrierOpen, stwVars, slotVars
<1>2. Participants' = Participants /\ section \subseteq Slots /\ ran \subseteq Slots
  BY <1>1 DEF Participants, TypeOK, RequestTypes
<1>3. \A t \in Slots : IF t = s THEN pc'[t] = "callback" ELSE pc'[t] = pc[t]
  BY <1>1 DEF TypeOK, ThreadTypes
<1>4. stw_leader # NoSlot /\ stw_leader \in Slots
  BY <1>1 DEF StwInv, IdleInv, TypeOK, RequestTypes
<1>5. s \in section \ ran /\ s # stw_leader /\ Interrupted(s)
  BY <1>1, <1>4 DEF StwInv, MemberInv
<1>6. \A t : Interrupted(t)' <=> Interrupted(t)
  BY <1>1, <1>3, <1>4, <1>5 DEF Interrupted
<1>7. ArrayInv'
  BY <1>1, <1>2, <1>3 DEF StwInv, ArrayInv
<1>8. IdleInv'
  BY <1>1, <1>4 DEF IdleInv
<1>9. MemberInv'
  <2>1. MemberInv
    BY DEF StwInv
  <2> QED BY <1>1, <1>2, <1>3, <1>4, <1>5, <1>6, <2>1 DEF MemberInv
<1>10. LeaderInv'
  <2>1. LeaderInv
    BY DEF StwInv
  <2>2. pc'[stw_leader] = pc[stw_leader]
    BY <1>3, <1>4, <1>5
  <2> QED BY <1>1, <1>2, <1>3, <1>4, <1>5, <2>1, <2>2 DEF LeaderInv
<1> QED BY <1>7, <1>8, <1>9, <1>10 DEF SectionInv

(* The count is decremented once by each participant; the one that reads 1 *)
(* is the last.                                                            *)
LEMMA CallbackDoneStep ==
  ASSUME TypeOK, StwInv, NEW s \in Slots, CallbackDone(s)
  PROVE  SectionInv'
<1>1. /\ pc[s] = "callback" /\ ran' = ran \union {s}
      /\ num_domains_still_processing' = num_domains_still_processing - 1
      /\ pc' = [pc EXCEPT ![s] = IF am_last THEN "last" ELSE AfterSection(s)]
      /\ interrupt_pending' = interrupt_pending
      /\ domains_still_running' = domains_still_running
      /\ stw_leader' = stw_leader /\ section' = section /\ sync' = sync
      /\ num_domains' = num_domains /\ participating' = participating /\ i' = i
      /\ participating_domains' = participating_domains /\ domains' = domains
      /\ running' = running /\ ctx' = ctx
  BY DEF CallbackDone, slotVars
<1>2. Participants' = Participants /\ section \subseteq Slots /\ ran \subseteq Slots
  BY <1>1 DEF Participants, TypeOK, RequestTypes
<1>3. /\ stw_leader # NoSlot /\ s \in section \ ran
      /\ Cardinality(section \ (ran \union {s})) = num_domains_still_processing - 1
      /\ num_domains_still_processing = 1 => section \ (ran \union {s}) = {}
  BY <1>1, StillProcessing DEF StwInv
<1>4. /\ pc'[s] \in {"last", "idle", "poll"}
      /\ pc'[s] = "last" => num_domains_still_processing = 1
      /\ \A t \in Slots : t # s => pc'[t] = pc[t]
  BY <1>1 DEF am_last, AfterSection, TypeOK, ThreadTypes
<1>5. stw_leader \in Slots
  BY <1>3 DEF TypeOK, RequestTypes
<1>6. MemberInv /\ LeaderInv
  BY DEF StwInv
<1>7. Interrupted(s) /\ \A t : Interrupted(t)' <=> Interrupted(t)
  <2>1. s = stw_leader => pc[stw_leader] # "interrupt" /\ pc'[stw_leader] # "interrupt"
    BY <1>1, <1>4
  <2>2. s # stw_leader => pc'[stw_leader] = pc[stw_leader]
    BY <1>4, <1>5
  <2>3. \A t : Interrupted(t)' <=> Interrupted(t)
    BY <1>1, <2>1, <2>2 DEF Interrupted
  <2>4. Interrupted(s)
    BY <1>1, <1>3, <1>6, <2>1 DEF MemberInv, Interrupted
  <2> QED BY <2>3, <2>4
<1>8. ArrayInv'
  BY <1>1, <1>2, <1>4 DEF StwInv, ArrayInv
<1>9. IdleInv'
  BY <1>1, <1>3 DEF IdleInv
<1>10. MemberInv'
  <2>1. /\ ran' \subseteq section /\ section \ ran' \subseteq Participants
        /\ num_domains_still_processing' = Cardinality(section \ ran')
        /\ Participants \subseteq section
    BY <1>1, <1>3, <1>6 DEF MemberInv
  <2>2. \A t \in ran' : Interrupted(t)'
    BY <1>1, <1>3, <1>6, <1>7 DEF MemberInv
  <2>3. \A t \in section \ ran' : t # stw_leader /\ Interrupted(t)' =>
          interrupt_pending'[t] \/ pc'[t] \in {"spin", "callback"}
    BY <1>1, <1>2, <1>3, <1>4, <1>6, <1>7 DEF MemberInv
  <2>4. \A t \in Slots : interrupt_pending'[t] =>
          /\ t \in section \ ran' /\ t # stw_leader /\ Interrupted(t)'
          /\ pc'[t] \notin {"interrupt", "await", "spin", "callback", "last"}
    BY <1>1, <1>3, <1>4, <1>6, <1>7 DEF MemberInv
  <2>5. \A t \in Slots :
          /\ pc'[t] \in {"spin", "callback"} => t \in section \ ran'
          /\ pc'[t] = "spin" => t # stw_leader /\ Interrupted(t)'
          /\ pc'[t] = "callback" /\ t # stw_leader => Interrupted(t)'
    BY <1>1, <1>3, <1>4, <1>6, <1>7 DEF MemberInv
  <2>6. \A t \in Slots : pc[t] # "last"
    BY <1>3, <1>6 DEF MemberInv
  <2>7. \A t \in Slots :
          /\ pc'[t] = "last" => section = ran'
          /\ \A u \in Slots : pc'[t] = "last" /\ pc'[u] = "last" => t = u
    BY <1>1, <1>3, <1>4, <2>1, <2>6
  <2> QED BY <1>1, <1>2, <2>1, <2>2, <2>3, <2>4, <2>5, <2>7 DEF MemberInv
<1>11. LeaderInv'
  <2>1. s = stw_leader => pc[stw_leader] = "callback" /\ pc'[stw_leader] \notin {"interrupt", "await"}
    BY <1>1, <1>4
  <2>2. s # stw_leader => pc'[stw_leader] = pc[stw_leader]
    BY <1>4, <1>5
  <2>3. \A t \in Slots : pc'[t] \in {"interrupt", "await"} => t = stw_leader
    BY <1>3, <1>4, <1>6 DEF LeaderInv
  <2>4. pc'[stw_leader] \in {"interrupt", "await"} => stw_leader \in section \ ran'
    BY <1>1, <1>3, <1>6, <2>1, <2>2 DEF LeaderInv
  <2>5. stw_leader \in section \ ran' => pc'[stw_leader] \in {"interrupt", "await", "callback"}
    BY <1>1, <1>3, <1>6, <2>2 DEF LeaderInv
  <2>6. ~(sync = 1 /\ pc[stw_leader] \in {"interrupt", "await"})
    BY <1>1, <1>3, <1>6 DEF LeaderInv
  <2> QED BY <1>1, <1>2, <1>3, <1>6, <2>1, <2>2, <2>3, <2>4, <2>5, <2>6 DEF LeaderInv
<1> QED BY <1>8, <1>9, <1>10, <1>11 DEF SectionInv

(* The last participant clears the leader when all the others are done.    *)
LEMMA ClearLeaderStep ==
  ASSUME TypeOK, StwInv, NEW s \in Slots, ClearLeader(s)
  PROVE  SectionInv'
<1>1. /\ pc[s] = "last" /\ stw_leader' = NoSlot
      /\ pc' = [pc EXCEPT ![s] = AfterSection(s)]
      /\ interrupt_pending' = interrupt_pending /\ section' = section /\ ran' = ran
      /\ participating_domains' = participating_domains /\ domains' = domains
      /\ running' = running /\ ctx' = ctx
  BY DEF ClearLeader, slotVars
<1>2. Participants' = Participants
  BY <1>1 DEF Participants
<1>3. pc'[s] \in {"idle", "poll"} /\ \A t \in Slots : t # s => pc'[t] = pc[t]
  BY <1>1 DEF AfterSection, TypeOK, ThreadTypes
<1>4. stw_leader # NoSlot
  BY <1>1 DEF StwInv, IdleInv
<1>5. section = ran /\ \A t \in Slots : ~interrupt_pending[t] /\ pc[t] \notin {"spin", "callback"}
                                     /\ (pc[t] = "last" => t = s)
  BY <1>1, <1>4 DEF StwInv, MemberInv
<1>6. \A t \in Slots : pc[t] \notin {"interrupt", "await"}
  BY <1>4, <1>5 DEF StwInv, LeaderInv
<1>7. ArrayInv'
  BY <1>1, <1>2, <1>3 DEF StwInv, ArrayInv
<1>8. IdleInv'
  BY <1>1, <1>3, <1>5, <1>6 DEF IdleInv
<1> QED BY <1>1, <1>7, <1>8 DEF SectionInv, MemberInv, LeaderInv

(* add_next_to_stw_domains adds the next free slot to the participants.    *)
LEMMA ChildInitStep ==
  ASSUME TypeOK, StwInv, NEW s \in Slots, ChildInit(s)
  PROVE  SectionInv'
<1> DEFINE d == next_free_domain
           n == participating_domains
<1>1. /\ child[s] = "init" /\ running' = [running EXCEPT ![d] = TRUE]
      /\ participating_domains' = n + 1 /\ domains' = domains
      /\ pc' = [pc EXCEPT ![d] = "handshake"] /\ ctx' = ctx
      /\ stw_leader' = stw_leader /\ section' = section /\ ran' = ran
      /\ interrupt_pending' = interrupt_pending
  BY DEF ChildInit, stwVars
<1>2. stw_leader = NoSlot /\ d # NoSlot
  BY <1>1 DEF StwInv, LockInv
<1>3. d \in Slots /\ n + 1 \in Slots /\ d = domains[n + 1] /\ n \in Slots
  BY <1>2, NextFreeType DEF TypeOK, SlotTypes
<1>4. /\ \A t \in Slots : pc'[t] = IF t = d THEN "handshake" ELSE pc[t]
      /\ \A t \in Slots : running'[t] <=> running[t] \/ t = d
  BY <1>1, <1>3 DEF TypeOK, SlotTypes, ThreadTypes
<1>5. Participants' = Participants \union {d}
  <2>1. Participants' = {domains[k] : k \in 1 .. n + 1}
    BY <1>1 DEF Participants
  <2>2. 1 .. n + 1 = (1 .. n) \union {n + 1}
    BY SlotFacts, <1>3, MaxDomainsAssumption
  <2> QED BY <1>3, <2>1, <2>2 DEF Participants
<1>6. ArrayInv'
  BY <1>1, <1>4, <1>5, MaxDomainsAssumption DEF StwInv, ArrayInv
<1>7. IdleInv'
  BY <1>1, <1>2, <1>4 DEF StwInv, IdleInv
<1> QED BY <1>1, <1>2, <1>6, <1>7 DEF SectionInv, MemberInv, LeaderInv

(* A domain that may leave has no part left in the current section.        *)
LEMMA LeaveStep ==
  ASSUME TypeOK, StwInv, NEW s \in Slots, Leave(s)
  PROVE  SectionInv' /\ (stw_leader # NoSlot => s \in ran)
<1>1. /\ pc[s] = "idle" /\ ctx[s] = "term" /\ all_domains_lock = Unlocked
      /\ ~interrupt_pending[s]
      /\ running' = [running EXCEPT ![s] = FALSE]
      /\ pc' = [pc EXCEPT ![s] = "off"] /\ ctx' = [ctx EXCEPT ![s] = "run"]
      /\ stw_leader' = stw_leader /\ section' = section /\ ran' = ran /\ sync' = sync
      /\ num_domains' = num_domains /\ participating' = participating /\ i' = i
      /\ num_domains_still_processing' = num_domains_still_processing
      /\ domains_still_running' = domains_still_running
      /\ interrupt_pending' = interrupt_pending
  BY DEF Leave, MayLeave, stwVars
<1>2. /\ Participants' = Participants \ {s} /\ s \in Participants
      /\ \A j, k \in Slots : domains'[j] = domains'[k] => j = k
  BY LeaveArray DEF StwInv
<1>3. /\ \A t \in Slots : pc'[t] = IF t = s THEN "off" ELSE pc[t]
      /\ \A t \in Slots : running'[t] <=> running[t] /\ t # s
      /\ \A t \in Slots : ctx'[t] = IF t = s THEN "run" ELSE ctx[t]
  BY <1>1 DEF TypeOK, SlotTypes, ThreadTypes
<1>4. \A t \in Slots : pc[t] # "interrupt"
  BY SlotFacts, <1>1, MaxDomainsAssumption DEF StwInv, LockInv
<1>5. stw_leader # NoSlot => /\ s \in ran
                            /\ \A t : Interrupted(t) /\ Interrupted(t)'
                            /\ stw_leader \in Slots
  <2> SUFFICES ASSUME stw_leader # NoSlot
               PROVE  s \in ran /\ (\A t : Interrupted(t) /\ Interrupted(t)') /\ stw_leader \in Slots
    OBVIOUS
  <2>1. stw_leader \in Slots
    BY DEF TypeOK, RequestTypes
  <2>2. \A t : Interrupted(t) /\ Interrupted(t)'
    BY SlotFacts, <1>1, <1>3, <1>4, <2>1 DEF Interrupted
  <2>3. s \in section
    BY <1>2 DEF StwInv, MemberInv
  <2>4. s # stw_leader \/ s \in ran
    BY <1>1, <2>3 DEF StwInv, LeaderInv
  <2> QED BY <1>1, <2>1, <2>2, <2>3, <2>4 DEF StwInv, MemberInv
<1>6. running[1] /\ ctx[1] # "term" /\ s # 1 /\ 1 \in Slots
  BY SlotFacts, <1>1, MaxDomainsAssumption DEF StwInv, ArrayInv
<1>7. ArrayInv'
  BY <1>2, <1>3, <1>6 DEF StwInv, ArrayInv
<1>8. IdleInv'
  BY <1>1, <1>3 DEF StwInv, IdleInv
<1>9. MemberInv'
  <2> SUFFICES ASSUME stw_leader # NoSlot PROVE MemberInv'
    BY <1>1 DEF MemberInv
  <2>1. MemberInv /\ section \subseteq Slots /\ ran \subseteq Slots
    BY DEF StwInv, TypeOK, RequestTypes
  <2> QED BY SlotFacts, <1>1, <1>2, <1>3, <1>5, <2>1 DEF MemberInv
<1>10. LeaderInv'
  <2> SUFFICES ASSUME stw_leader # NoSlot PROVE LeaderInv'
    BY <1>1 DEF LeaderInv
  <2>1. LeaderInv
    BY DEF StwInv
  <2>2. /\ s = stw_leader => pc'[stw_leader] = "off" /\ stw_leader \in ran
        /\ s # stw_leader => pc'[stw_leader] = pc[stw_leader]
        /\ pc[stw_leader] # "interrupt"
    BY <1>3, <1>4, <1>5
  <2> QED BY SlotFacts, <1>1, <1>3, <1>5, <2>1, <2>2 DEF LeaderInv
<1> QED BY <1>5, <1>7, <1>8, <1>9, <1>10 DEF SectionInv

(* The steps that have no part in a section.                               *)
QuietAction(s) ==
  \/ TryRun(s) \/ TryLock(s) \/ LostClaim(s) \/ PollDone(s) \/ SpawnWait(s)
  \/ SpawnReturn(s) \/ Handshake(s) \/ FailedHandshake(s) \/ Spawn(s) \/ Terminate(s)
  \/ ChildLock(s) \/ ChildHasNoSlot(s) \/ ChildTakesSlot(s) \/ ChildInitFails(s)
  \/ TearDown(s) \/ (GiveUp(s) /\ ~interrupt_pending[s])

(* They move threads among quiet places only.                              *)
LEMMA QuietActions ==
  ASSUME TypeOK, StwInv, NEW s \in Slots, QuietAction(s)
  PROVE  SectionInv'
<1>0. 1 \in Slots /\ ctx[1] # "term"
  BY SlotFacts, MaxDomainsAssumption DEF StwInv, ArrayInv
<1>1. UNCHANGED <<stwVars, participating_domains, domains, running, interrupt_pending>>
  <2> USE DEF slotVars
  <2>1. CASE GiveUp(s) /\ ~interrupt_pending[s]
    <3>1. interrupt_pending' = interrupt_pending
      BY <2>1 DEF GiveUp, TypeOK, SlotTypes
    <3> QED BY <2>1, <3>1 DEF GiveUp
  <2>2. CASE TryRun(s) \/ TryLock(s) \/ LostClaim(s) \/ PollDone(s) \/ SpawnWait(s) \/ SpawnReturn(s)
    BY <2>2 DEF TryRun, TryLock, LostClaim, PollDone, SpawnWait, SpawnReturn
  <2>3. CASE Handshake(s) \/ FailedHandshake(s) \/ Spawn(s) \/ Terminate(s) \/ TearDown(s)
    BY <2>3 DEF Handshake, FailedHandshake, Spawn, Terminate, TearDown
  <2>4. CASE ChildLock(s) \/ ChildHasNoSlot(s) \/ ChildTakesSlot(s) \/ ChildInitFails(s)
    BY <2>4 DEF ChildLock, ChildHasNoSlot, ChildTakesSlot, ChildInitFails
  <2> HIDE DEF slotVars
  <2> QED BY <2>1, <2>2, <2>3, <2>4 DEF QuietAction
<1>2. \A t \in Slots : pc'[t] = pc[t] \/ (pc[t] \in Quiet /\ pc'[t] \in Quiet)
  <2>0. ThreadTypes
    BY DEF TypeOK
  <2> USE <2>0 DEF Quiet, ThreadTypes
  <2>1. CASE GiveUp(s) /\ ~interrupt_pending[s]
    BY <2>1 DEF GiveUp
  <2>2. CASE TryRun(s)
    BY <2>2 DEF TryRun
  <2>3. CASE TryLock(s)
    <3>1. \/ pc[s] = "trylock" /\ pc' = [pc EXCEPT ![s] = "claim"]
          \/ pc[s] = "trylock" /\ pc' = [pc EXCEPT ![s] = "giveup"]
      BY <2>3 DEF TryLock
    <3>2. CASE pc[s] = "trylock" /\ pc' = [pc EXCEPT ![s] = "claim"]
      BY <3>2
    <3>3. CASE pc[s] = "trylock" /\ pc' = [pc EXCEPT ![s] = "giveup"]
      BY <3>3
    <3> QED BY <3>1, <3>2, <3>3
  <2>4. CASE LostClaim(s)
    BY <2>4 DEF LostClaim
  <2>5. CASE PollDone(s)
    BY <2>5 DEF PollDone
  <2>6. CASE SpawnWait(s)
    BY <2>6 DEF SpawnWait
  <2>7. CASE Handshake(s)
    <3>1. parent[s] \in Slots
      BY <2>7 DEF Handshake, StwInv, SpawnInv
    <3> QED BY <2>7, <3>1 DEF Handshake
  <2>8. CASE FailedHandshake(s)
    BY <2>8 DEF FailedHandshake
  <2>9. CASE SpawnReturn(s) \/ Spawn(s) \/ Terminate(s) \/ TearDown(s)
    BY <2>9 DEF SpawnReturn, Spawn, Terminate, TearDown
  <2>10. CASE ChildLock(s) \/ ChildHasNoSlot(s) \/ ChildTakesSlot(s) \/ ChildInitFails(s)
    BY <2>10 DEF ChildLock, ChildHasNoSlot, ChildTakesSlot, ChildInitFails
  <2> HIDE <2>0 DEF Quiet, ThreadTypes
  <2> QED BY <2>1, <2>2, <2>3, <2>4, <2>5, <2>6, <2>7, <2>8, <2>9, <2>10, Zenon DEF QuietAction
<1>3. ctx'[1] # "term"
  <2>0. ctx \in [Slots -> {"run", "spawn", "term"}]
    BY DEF TypeOK, ThreadTypes
  <2>1. CASE Spawn(s) \/ SpawnReturn(s) \/ Terminate(s)
    BY <1>0, <2>0, <2>1 DEF Spawn, SpawnReturn, Terminate
  <2>2. CASE \/ TryRun(s) \/ TryLock(s) \/ LostClaim(s) \/ PollDone(s) \/ SpawnWait(s)
             \/ Handshake(s) \/ FailedHandshake(s) \/ TearDown(s) \/ GiveUp(s)
    BY <1>0, <2>2 DEF TryRun, TryLock, LostClaim, PollDone, SpawnWait, Handshake,
                      FailedHandshake, TearDown, GiveUp
  <2>3. CASE ChildLock(s) \/ ChildHasNoSlot(s) \/ ChildTakesSlot(s) \/ ChildInitFails(s)
    BY <1>0, <2>3 DEF ChildLock, ChildHasNoSlot, ChildTakesSlot, ChildInitFails
  <2> QED BY <2>1, <2>2, <2>3 DEF QuietAction
<1> QED BY <1>1, <1>2, <1>3, QuietStep DEF SectionInv

-----------------------------------------------------------------------------
(* The initial state: the main domain runs alone, outside a section.       *)
LEMMA StwInit == Init => StwInv
<1> SUFFICES ASSUME Init PROVE StwInv
  OBVIOUS
<1> USE MaxDomainsAssumption DEF Init
<1>1. LockInv
  BY SlotFacts DEF LockInv
<1>2. SpawnInv
  BY DEF SpawnInv
<1>3. ArrayInv
  <2>1. Participants = {1}
    BY SlotFacts DEF Participants
  <2>2. \A s \in Slots : running[s] <=> s = 1
    BY Zenon
  <2>3. \A s \in Slots : pc[s] = "off" <=> s # 1
    OBVIOUS
  <2>4. \A j, k \in Slots : domains[j] = domains[k] => j = k
    OBVIOUS
  <2>5. 1 \in Slots /\ ctx[1] = "run"
    BY SlotFacts
  <2>6. \A s \in Slots : s \in Participants <=> running[s]
    BY ONLY <2>1, <2>2
  <2>7. \A s \in Slots : pc[s] = "off" <=> ~running[s]
    BY ONLY <2>2, <2>3
  <2>8. running[1] /\ ctx[1] # "term"
    BY ONLY <2>2, <2>5
  <2> QED BY ONLY <2>4, <2>6, <2>7, <2>8 DEF ArrayInv
<1>4. IdleInv
  BY DEF IdleInv
<1>5. SlotsInv
  <2>1. InUse = {1}
    BY SlotFacts, Zenon DEF InUse
  <2>2. Cardinality(InUse) = 1
    BY <2>1, FS_Singleton
  <2>3. \A s \in Slots : (interrupt_word[s] <=> s = 1) /\ (domain_lock[s] <=> s = 1)
    BY Zenon
  <2>4. \A k \in Slots : ~interrupt_word[k] => domains[k] = k /\ k > participating_domains
    BY <2>3, SlotFacts
  <2>5. \A j, k \in Slots : j < k /\ interrupt_word[k] => interrupt_word[j]
    BY <2>3, SlotFacts
  <2>6. \A s \in InUse : domain_lock[s]
    BY <2>1, <2>3, SlotFacts
  <2>7. \A s \in Slots : ~teardown[s] /\ child[s] # "init"
    OBVIOUS
  <2> QED BY <2>2, <2>4, <2>5, <2>6, <2>7 DEF SlotsInv
<1> QED BY <1>1, <1>2, <1>3, <1>4, <1>5 DEF StwInv, MemberInv, LeaderInv

(* Every step keeps the types and the invariant.                           *)
LEMMA StwStep ==
  ASSUME TypeOK, StwInv, [Next]_vars
  PROVE  TypeOK' /\ StwInv'
<1>1. CASE Next
  <2> PICK s \in Slots :
        DomainStep(s) \/ ChildStep(s) \/ ProgramStep(s) \/ PollDone(s) \/ TearDown(s)
    BY <1>1 DEF Next
  <2>1. TypeOK'
    BY RequestTypesStep, SlotTypesStep, ThreadTypesStep DEF TypeOK
  <2>2. LockInv' /\ SpawnInv' /\ SlotsInv'
    BY LockStep, SpawnStep, SlotsStep
  <2>3. SectionInv'
    BY QuietActions, ClaimStep, SendInterruptStep, InterruptsSentStep, InterruptsServicedStep,
       ServiceStep, EnterBarrierStep, CallbackDoneStep, ClearLeaderStep, ChildInitStep, LeaveStep
       DEF DomainStep, ChildStep, ProgramStep, QuietAction, HandleIncoming
  <2> QED BY <2>1, <2>2, <2>3 DEF StwInv, SectionInv
<1>2. CASE UNCHANGED vars
  <2> USE <1>2 DEF vars, stwVars, slotVars, spawnVars
  <2>1. TypeOK'
    BY DEF TypeOK, RequestTypes, SlotTypes, ThreadTypes
  <2>2. Participants' = Participants /\ next_free_domain' = next_free_domain
    BY Zenon DEF Participants, next_free_domain
  <2>3. \A t : Interrupted(t)' <=> Interrupted(t)
    BY DEF Interrupted
  <2>4. LockInv' /\ SpawnInv' /\ ArrayInv' /\ IdleInv'
    BY SlotFacts, <2>2 DEF StwInv, LockInv, SpawnInv, ArrayInv, IdleInv
  <2>5. MemberInv'
    BY <2>2, <2>3, Zenon DEF StwInv, MemberInv
  <2>6. LeaderInv'
    BY <2>2 DEF StwInv, LeaderInv
  <2>7. SlotsInv'
    BY SlotsKept DEF StwInv
  <2> QED BY <2>1, <2>4, <2>5, <2>6, <2>7 DEF StwInv
<1> QED BY <1>1, <1>2

(* For any number of slots: the types, and the invariant that explains the *)
(* protocol of caml_try_run_on_all_domains_with_spin_work, stw_handler,    *)
(* domain_create and domain_terminate.                                     *)
THEOREM StwInvariant == Spec => [](TypeOK /\ StwInv)
<1>1. Init => TypeOK /\ StwInv
  BY TypeInit, StwInit
<1>2. TypeOK /\ StwInv /\ [Next]_vars => (TypeOK /\ StwInv)'
  BY StwStep
<1> QED BY <1>1, <1>2, PTL DEF Spec

(* While a domain runs the callback of a synchronous section, every        *)
(* running domain has stopped for it or has already run it.                *)
THEOREM SectionsExclude == Spec => []StwExclusion
<1>1. TypeOK /\ StwInv => StwExclusion
  <2> SUFFICES ASSUME TypeOK, StwInv, sync = 1, NEW c \in Slots, pc[c] = "callback",
                      NEW s \in Slots, running[s]
               PROVE  s \in section /\ (pc[s] \in {"spin", "callback"} \/ s \in ran)
    BY DEF StwExclusion
  <2>1. stw_leader # NoSlot /\ stw_leader \in Slots
    BY DEF StwInv, IdleInv, TypeOK, RequestTypes
  <2>2. pc[stw_leader] \notin {"interrupt", "await"}
    BY <2>1 DEF StwInv, LeaderInv
  <2>3. \A t \in Slots : ~interrupt_pending[t] /\ Interrupted(t)
    BY <2>1, <2>2 DEF StwInv, LeaderInv, Interrupted
  <2>4. s \in section
    BY <2>1 DEF StwInv, ArrayInv, MemberInv
  <2>5. CASE s \in ran
    BY <2>4, <2>5
  <2>6. CASE s \notin ran /\ s = stw_leader
    BY <2>1, <2>2, <2>4, <2>6 DEF StwInv, LeaderInv
  <2>7. CASE s \notin ran /\ s # stw_leader
    BY <2>1, <2>3, <2>4, <2>7 DEF StwInv, MemberInv
  <2> QED BY <2>5, <2>6, <2>7
<1> QED BY <1>1, StwInvariant, PTL

(* A participant runs the callback of a section once, and the request is   *)
(* still that section's when it does.                                      *)
THEOREM CallbackRunsOnce == Spec => []OneRunEach
<1>1. TypeOK /\ StwInv => OneRunEach
  BY DEF StwInv, IdleInv, MemberInv, OneRunEach
<1> QED BY <1>1, StwInvariant, PTL

(* When stw_leader is clear, the section before is over on every domain.   *)
THEOREM SectionsEndEverywhere == Spec => []NoStragglers
<1>1. TypeOK /\ StwInv => NoStragglers
  BY DEF StwInv, IdleInv, NoStragglers
<1> QED BY <1>1, StwInvariant, PTL

(* stw_domains lists the running domains, each of them once, through every *)
(* creation and every swap of a termination.                               *)
THEOREM ParticipantsAreRunning == Spec => []ParticipantsRun
<1>1. TypeOK /\ StwInv => ParticipantsRun
  <2> SUFFICES ASSUME TypeOK, StwInv PROVE ParticipantsRun
    OBVIOUS
  <2>1. Participants \subseteq Slots /\ Cardinality(Participants) = participating_domains
    BY ParticipantsCount DEF StwInv
  <2>2. {s \in Slots : running[s]} = Participants
    BY <2>1 DEF StwInv, ArrayInv
  <2> QED BY <2>1, <2>2 DEF StwInv, MemberInv, ParticipantsRun
<1> QED BY <1>1, StwInvariant, PTL

(* What is read of the slots without all_domains_lock can be relied on:    *)
(* caml_interrupt_all_signal_safe reaches every running domain, a slot is  *)
(* not set up while its last domain tears it down, and a domain that       *)
(* counts itself alone (caml_domain_alone) is.                             *)
THEOREM SlotsAreSound == Spec => []SlotsSound
<1>1. TypeOK /\ StwInv => SlotsSound
  <2> SUFFICES ASSUME TypeOK, StwInv PROVE SlotsSound
    OBVIOUS
  <2>1. InterruptReachesAll
    <3> SUFFICES ASSUME NEW s \in Slots, running[s], NEW t \in 1 .. s PROVE interrupt_word[t]
      BY DEF InterruptReachesAll
    <3>1. interrupt_word[s]
      BY RunningHasWord DEF StwInv
    <3>2. t \in Slots /\ (t = s \/ t < s)
      BY MaxDomainsAssumption DEF Slots
    <3> QED BY <3>1, <3>2 DEF StwInv, SlotsInv
  <2>2. StateNotShared
    BY DEF StateNotShared, StwInv, SlotsInv
  <2>3. AloneIsAlone
    <3> SUFFICES ASSUME caml_num_domains_running = 1, NEW s \in InUse, NEW t \in InUse
                 PROVE  s = t
      BY DEF AloneIsAlone, InUse
    <3>1. IsFiniteSet(InUse) /\ Cardinality(InUse) = 1
      BY SlotsFinite DEF InUse, StwInv, SlotsInv
    <3>2. PICK x : InUse = {x}
      BY <3>1, FS_Singleton
    <3> QED BY <3>2
  <2> QED BY <2>1, <2>2, <2>3 DEF SlotsSound
<1> QED BY <1>1, StwInvariant, PTL

(* A section keeps its participants: none joins, and one leaves only after *)
(* it has run the callback.                                                *)
THEOREM SectionKeepsParticipants == Spec => SectionSetFrozen
<1> DEFINE Frozen == stw_leader # NoSlot =>
                       /\ Participants' \subseteq Participants
                       /\ Participants \ Participants' \subseteq ran
<1>1. TypeOK /\ StwInv /\ [Next]_vars => [Frozen]_vars
  <2> SUFFICES ASSUME TypeOK, StwInv, Next, stw_leader # NoSlot
               PROVE  /\ Participants' \subseteq Participants
                      /\ Participants \ Participants' \subseteq ran
    OBVIOUS
  <2> PICK s \in Slots :
        DomainStep(s) \/ ChildStep(s) \/ ProgramStep(s) \/ PollDone(s) \/ TearDown(s)
    BY DEF Next
  <2>1. CASE Leave(s)
    <3>1. Participants' = Participants \ {s}
      BY <2>1, LeaveArray DEF StwInv
    <3>2. s \in ran
      BY <2>1, LeaveStep
    <3> QED BY <3>1, <3>2
  <2>2. ~ChildInit(s)
    BY DEF ChildInit, StwInv, LockInv
  <2>3. CASE ~Leave(s)
    <3>1. participating_domains' = participating_domains /\ domains' = domains
      <4>1. CASE DomainStep(s)
        BY <4>1, Zenon DEF DomainStep, TryLock, LostClaim, Claim, SendInterrupt, InterruptsSent,
                    InterruptsServiced, GiveUp, HandleIncoming, EnterBarrier, CallbackDone,
                    ClearLeader, SpawnWait, SpawnReturn, Handshake, slotVars
      <4>2. CASE ChildStep(s)
        BY <2>2, <4>2, Zenon DEF ChildStep, ChildLock, ChildHasNoSlot, ChildTakesSlot,
                          ChildInitFails, FailedHandshake, slotVars
      <4>3. CASE ProgramStep(s)
        BY <2>3, <4>3 DEF ProgramStep, TryRun, Spawn, Terminate, slotVars
      <4>4. CASE PollDone(s) \/ TearDown(s)
        BY <4>4 DEF PollDone, TearDown, slotVars
      <4> QED BY <4>1, <4>2, <4>3, <4>4
    <3>2. Participants' = Participants
      BY <3>1, Zenon DEF Participants
    <3> QED BY <3>2
  <2> QED BY <2>1, <2>3
<1>2. Spec => [][Frozen]_vars
  BY <1>1, StwInvariant, PTL DEF Spec
<1> QED BY <1>2 DEF SectionSetFrozen

=============================================================================
