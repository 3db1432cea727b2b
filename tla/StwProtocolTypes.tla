-------------------------- MODULE StwProtocolTypes --------------------------
(***************************************************************************)
(* Lemmas about StwProtocol that are not about sections: the slots and the *)
(* array of participants, type correctness, the owner of all_domains_lock  *)
(* and the spawns under way.  Each step keeps them, given the invariant    *)
(* StwInv; StwProtocolProofs shows that the invariant is kept.             *)
(***************************************************************************)
EXTENDS StwProtocol, FiniteSetTheorems, TLAPS

USE DEF NoSlot, Unlocked, Domain, Child, Goto, Woken, Caller, AllWillProcess,
        NextTarget, add_next_to_stw_domains

(* The slots are the numbers from 1 to Max_domains; 0 stands for no slot.   *)
LEMMA SlotFacts ==
  /\ 1 \in Slots /\ NoSlot \notin Slots /\ Slots \subseteq Nat
  /\ \A s \in Slots : 1 <= s /\ s <= Max_domains
  BY MaxDomainsAssumption DEF Slots

(* The slots are finitely many, and a set of slots has a natural number of *)
(* elements.                                                               *)
LEMMA SlotsFinite ==
  ASSUME NEW S \in SUBSET Slots
  PROVE  IsFiniteSet(S) /\ Cardinality(S) \in Nat
<1>1. IsFiniteSet(Slots)
  BY MaxDomainsAssumption, FS_Interval DEF Slots
<1>2. IsFiniteSet(S)
  BY <1>1, FS_Subset
<1> QED BY <1>2, FS_CardinalityType

(* The participating part of the array has no repetition, so its length is *)
(* the number of participants.                                             *)
LEMMA ParticipantsCount ==
  ASSUME TypeOK, ArrayInv
  PROVE  /\ Participants \subseteq Slots
         /\ Cardinality(Participants) = participating_domains
<1> DEFINE n == participating_domains
           f == [k \in 1 .. n |-> domains[k]]
<1>1. n \in Nat /\ n <= Max_domains /\ domains \in [Slots -> Slots]
  BY SlotFacts, MaxDomainsAssumption DEF TypeOK, SlotTypes
<1>2. Participants \subseteq Slots
  BY <1>1, MaxDomainsAssumption DEF Participants, Slots
<1>3. f \in [1 .. n -> Participants]
  BY DEF Participants
<1>4. \A j, k \in 1 .. n : f[j] = f[k] => j = k
  BY <1>1, MaxDomainsAssumption DEF ArrayInv, Slots
<1>5. \A s \in Participants : \E k \in 1 .. n : f[k] = s
  BY DEF Participants
<1>6. f \in Bijection(1 .. n, Participants)
  BY <1>3, <1>4, <1>5 DEF Bijection, Injection, Surjection, IsInjective
<1>7. ExistsBijection(1 .. n, Participants)
  BY <1>6 DEF ExistsBijection
<1>8. IsFiniteSet(1 .. n) /\ Cardinality(1 .. n) = n
  BY <1>1, FS_Interval
<1>9. Cardinality(Participants) = Cardinality(1 .. n)
  BY <1>7, <1>8, FS_Bijection
<1> QED BY <1>2, <1>8, <1>9

-----------------------------------------------------------------------------
(* Type correctness.  Two actions need more than the types: the count of   *)
(* those still to run the callback stays positive while one has to, and    *)
(* the main domain never leaves the array.                                 *)

(* The initial state is well typed.                                        *)
LEMMA TypeInit == Init => TypeOK
  BY SlotFacts, MaxDomainsAssumption DEF Init, TypeOK, RequestTypes, SlotTypes, ThreadTypes

(* The next free slot, where there is one, is a slot.                      *)
LEMMA NextFreeType ==
  ASSUME SlotTypes, next_free_domain # NoSlot
  PROVE  /\ next_free_domain \in Slots
         /\ participating_domains + 1 \in Slots
         /\ next_free_domain = domains[participating_domains + 1]
  BY MaxDomainsAssumption DEF SlotTypes, next_free_domain, Slots

(* The loop of the leader stays within the array.                          *)
LEMMA LoopType ==
  ASSUME RequestTypes, SlotTypes, i <= participating_domains
  PROVE  i \in Slots /\ domains[i] \in Slots /\ i + 1 \in 1 .. Max_domains + 1
<1>1. i \in Slots
  BY MaxDomainsAssumption DEF RequestTypes, SlotTypes, Slots
<1> QED BY SlotFacts, <1>1, MaxDomainsAssumption DEF SlotTypes

(* A domain that is in the callback is one of those counted as still       *)
(* processing it; when it is the only one, it is the only one left.        *)
LEMMA StillProcessing ==
  ASSUME TypeOK, IdleInv, MemberInv, NEW s \in Slots, pc[s] = "callback"
  PROVE  /\ stw_leader # NoSlot
         /\ s \in section \ ran
         /\ num_domains_still_processing > 0
         /\ Cardinality(section \ (ran \union {s})) = num_domains_still_processing - 1
         /\ num_domains_still_processing = 1 => section \ (ran \union {s}) = {}
<1>1. stw_leader # NoSlot /\ s \in section \ ran
  BY DEF IdleInv, MemberInv
<1>2. num_domains_still_processing = Cardinality(section \ ran)
  BY <1>1 DEF MemberInv
<1>3. (section \ ran) \subseteq Slots /\ section \ (ran \union {s}) \subseteq Slots
  BY DEF TypeOK, RequestTypes
<1>4. IsFiniteSet(section \ ran) /\ Cardinality(section \ ran) \in Nat
      /\ IsFiniteSet(section \ (ran \union {s}))
  BY <1>3, SlotsFinite
<1>5. section \ (ran \union {s}) = (section \ ran) \ {s}
  OBVIOUS
<1>6. Cardinality((section \ ran) \ {s}) = Cardinality(section \ ran) - 1
  BY <1>1, <1>4, FS_RemoveElement, Zenon
<1>7. Cardinality(section \ (ran \union {s})) = num_domains_still_processing - 1
  BY <1>2, <1>5, <1>6
<1>8. Cardinality(section \ (ran \union {s})) \in Nat
  BY <1>3, SlotsFinite
<1>9. Cardinality(section \ (ran \union {s})) = 0 => section \ (ran \union {s}) = {}
  BY <1>4, FS_EmptySet
<1> QED BY <1>1, <1>2, <1>4, <1>7, <1>8, <1>9

(* A domain that leaves is not the only participant, and the swap of       *)
(* remove_from_stw_domains takes it, and nobody else, out of the           *)
(* participating part of the array.                                        *)
LEMMA LeaveArray ==
  ASSUME TypeOK, ArrayInv, NEW s \in Slots, Leave(s)
  PROVE  /\ participating_domains - 1 \in Slots
         /\ domains' \in [Slots -> Slots]
         /\ \A j, k \in Slots : domains'[j] = domains'[k] => j = k
         /\ Participants' = Participants \ {s}
         /\ s \in Participants
<1> DEFINE n == participating_domains
<1>1. n \in Slots /\ domains \in [Slots -> Slots] /\ Max_domains \in Nat
  BY MaxDomainsAssumption DEF TypeOK, SlotTypes
<1>2. s # 1 /\ running[s] /\ running[1] /\ 1 \in Slots
  BY SlotFacts, MaxDomainsAssumption DEF Leave, ArrayInv, TypeOK, ThreadTypes
<1>3. s \in Participants /\ 1 \in Participants
  BY <1>2 DEF ArrayInv
<1>4. PICK j \in 1 .. n : domains[j] = s
  BY <1>3 DEF Participants
<1>5. PICK m \in 1 .. n : domains[m] = 1
  BY <1>3 DEF Participants
<1>6. j \in Slots /\ m \in Slots /\ j # m
  BY <1>1, <1>2, <1>4, <1>5 DEF Slots
<1>7. n - 1 \in Slots
  BY <1>1, <1>4, <1>5, <1>6 DEF Slots
<1>8. (CHOOSE k \in Slots : domains[k] = s) = j
  BY <1>4, <1>6 DEF ArrayInv
<1>9. domains' = [domains EXCEPT ![j] = domains[n], ![n] = s]
  BY <1>8, Zenon DEF Leave, remove_from_stw_domains
<1>10. /\ domains' \in [Slots -> Slots]
       /\ \A k \in Slots : domains'[k] = IF k = n THEN s ELSE IF k = j THEN domains[n] ELSE domains[k]
  BY <1>1, <1>6, <1>9
<1>11. ASSUME NEW k \in Slots, NEW l \in Slots, domains'[k] = domains'[l] PROVE k = l
  <2>1. \A x, y \in Slots : domains[x] = domains[y] => x = y
    BY DEF ArrayInv
  <2>2. n \in Slots /\ j \in Slots /\ domains[j] = s
    BY <1>1, <1>4, <1>6
  <2>3. CASE k = n
    BY <1>10, <1>11, <2>1, <2>2, <2>3
  <2>4. CASE l = n
    BY <1>10, <1>11, <2>1, <2>2, <2>4
  <2>5. CASE k # n /\ l # n
    BY <1>10, <1>11, <2>1, <2>2, <2>5
  <2> QED BY <2>3, <2>4, <2>5
<1>12. Participants' = {domains'[k] : k \in 1 .. n - 1}
  BY DEF Participants, Leave
<1>13. ASSUME NEW x \in Participants' PROVE x \in Participants \ {s}
  <2>1. PICK k \in 1 .. n - 1 : x = domains'[k]
    BY <1>12
  <2>2. k \in Slots /\ k # n /\ k \in 1 .. n /\ n \in 1 .. n
    BY <1>1 DEF Slots
  <2>3. x = IF k = j THEN domains[n] ELSE domains[k]
    BY <1>10, <2>1, <2>2
  <2>4. x # s
    BY <1>1, <1>4, <1>6, <2>2, <2>3 DEF ArrayInv
  <2> QED BY <2>2, <2>3, <2>4 DEF Participants
<1>14. ASSUME NEW x \in Participants \ {s} PROVE x \in Participants'
  <2>1. PICK k \in 1 .. n : x = domains[k]
    BY DEF Participants
  <2>2. k \in Slots /\ k # j
    BY <1>1, <1>4, <2>1 DEF Slots
  <2>3. CASE k = n
    <3>1. j \in 1 .. n - 1 /\ domains'[j] = x
      BY <1>1, <1>4, <1>6, <1>10, <2>1, <2>2, <2>3
    <3> QED BY <1>12, <3>1
  <2>4. CASE k # n
    <3>1. k \in 1 .. n - 1 /\ domains'[k] = x
      BY <1>1, <1>10, <2>1, <2>2, <2>4
    <3> QED BY <1>12, <3>1
  <2> QED BY <2>3, <2>4
<1>15. Participants' = Participants \ {s}
  BY <1>13, <1>14
<1> QED BY <1>3, <1>7, <1>10, <1>11, <1>15

(* The fields of stw_request keep their types; the count of those that     *)
(* still process never drops below zero.                                   *)
LEMMA RequestTypesStep ==
  ASSUME TypeOK, StwInv, NEW s \in Slots,
         DomainStep(s) \/ ChildStep(s) \/ ProgramStep(s) \/ PollDone(s) \/ TearDown(s)
  PROVE  RequestTypes'
<1>0. RequestTypes /\ SlotTypes
  BY DEF TypeOK
<1> USE <1>0 DEF RequestTypes, stwVars
<1>1. CASE TryRun(s)
  BY <1>1 DEF TryRun
<1>2. CASE TryLock(s)
  BY SlotFacts, <1>2 DEF TryLock
<1>3. CASE LostClaim(s)
  BY <1>3 DEF LostClaim
<1>4. CASE Claim(s)
  <2>1. Participants \subseteq Slots
    BY ParticipantsCount DEF StwInv
  <2> QED BY <1>4, <2>1, SlotFacts, MaxDomainsAssumption DEF Claim, SlotTypes
<1>5. CASE SendInterrupt(s)
  BY <1>5, LoopType DEF SendInterrupt
<1>6. CASE InterruptsSent(s)
  BY <1>6 DEF InterruptsSent
<1>7. CASE InterruptsServiced(s)
  BY <1>7 DEF InterruptsServiced
<1>8. CASE GiveUp(s)
  BY <1>8 DEF GiveUp
<1>9. CASE HandleIncoming(s)
  BY <1>9 DEF HandleIncoming
<1>10. CASE EnterBarrier(s)
  BY <1>10 DEF EnterBarrier
<1>11. CASE CallbackDone(s)
  <2>1. num_domains_still_processing > 0
    <3>1. pc[s] = "callback"
      BY <1>11 DEF CallbackDone
    <3> QED BY <3>1, StillProcessing, Zenon DEF StwInv
  <2> QED BY <1>11, <2>1, MaxDomainsAssumption DEF CallbackDone
<1>12. CASE ClearLeader(s)
  BY <1>12 DEF ClearLeader
<1>13. CASE PollDone(s)
  BY <1>13 DEF PollDone
<1>14. CASE Spawn(s)
  BY <1>14 DEF Spawn
<1>15. CASE SpawnWait(s)
  BY <1>15 DEF SpawnWait
<1>16. CASE SpawnReturn(s)
  BY <1>16 DEF SpawnReturn
<1>17. CASE ChildLock(s)
  BY SlotFacts, <1>17 DEF ChildLock
<1>18. CASE ChildHasNoSlot(s)
  BY <1>18 DEF ChildHasNoSlot
<1>19. CASE ChildTakesSlot(s)
  BY <1>19 DEF ChildTakesSlot
<1>20. CASE ChildInitFails(s)
  BY <1>20 DEF ChildInitFails
<1>21. CASE ChildInit(s)
  BY <1>21 DEF ChildInit
<1>22. CASE Handshake(s)
  BY <1>22 DEF Handshake
<1>23. CASE FailedHandshake(s)
  BY <1>23 DEF FailedHandshake
<1>24. CASE Terminate(s)
  BY <1>24 DEF Terminate
<1>25. CASE Leave(s)
  BY <1>25 DEF Leave
<1>26. CASE TearDown(s)
  BY <1>26 DEF TearDown
<1> HIDE <1>0 DEF RequestTypes, stwVars
<1> QED BY <1>1, <1>2, <1>3, <1>4, <1>5, <1>6, <1>7, <1>8, <1>9, <1>10, <1>11, <1>12,
           <1>13, <1>14, <1>15, <1>16, <1>17, <1>18, <1>19, <1>20, <1>21, <1>22, <1>23, <1>24,
           <1>25, <1>26 DEF DomainStep, ChildStep, ProgramStep

(* The array of slots and the flags of the slots keep their types: one     *)
(* participant at least is left by every termination.                      *)
LEMMA SlotTypesStep ==
  ASSUME TypeOK, StwInv, NEW s \in Slots,
         DomainStep(s) \/ ChildStep(s) \/ ProgramStep(s) \/ PollDone(s) \/ TearDown(s)
  PROVE  SlotTypes'
<1>0. RequestTypes /\ SlotTypes
  BY DEF TypeOK
<1> USE <1>0 DEF SlotTypes, slotVars
<1>1. CASE TryRun(s)
  BY <1>1 DEF TryRun
<1>2. CASE TryLock(s)
  BY <1>2 DEF TryLock
<1>3. CASE LostClaim(s)
  BY <1>3 DEF LostClaim
<1>4. CASE Claim(s)
  BY <1>4 DEF Claim
<1>5. CASE SendInterrupt(s)
  BY <1>5, Zenon DEF SendInterrupt, caml_send_interrupt
<1>6. CASE InterruptsSent(s)
  BY <1>6 DEF InterruptsSent
<1>7. CASE InterruptsServiced(s)
  BY <1>7 DEF InterruptsServiced
<1>8. CASE GiveUp(s)
  BY <1>8 DEF GiveUp
<1>9. CASE HandleIncoming(s)
  BY <1>9 DEF HandleIncoming
<1>10. CASE EnterBarrier(s)
  BY <1>10 DEF EnterBarrier
<1>11. CASE CallbackDone(s)
  BY <1>11 DEF CallbackDone
<1>12. CASE ClearLeader(s)
  BY <1>12 DEF ClearLeader
<1>13. CASE PollDone(s)
  BY <1>13 DEF PollDone
<1>14. CASE Spawn(s)
  BY <1>14 DEF Spawn
<1>15. CASE SpawnWait(s)
  BY <1>15 DEF SpawnWait
<1>16. CASE SpawnReturn(s)
  BY <1>16 DEF SpawnReturn
<1>17. CASE ChildLock(s)
  BY <1>17 DEF ChildLock
<1>18. CASE ChildHasNoSlot(s)
  BY <1>18 DEF ChildHasNoSlot
<1>19. CASE ChildTakesSlot(s)
  BY <1>19, NextFreeType DEF ChildTakesSlot
<1>20. CASE ChildInitFails(s)
  BY <1>20 DEF ChildInitFails
<1>21. CASE ChildInit(s)
  <2>1. next_free_domain # NoSlot
    BY <1>21 DEF ChildInit, StwInv, LockInv
  <2>2. participating_domains + 1 \in Slots
    BY <2>1, NextFreeType
  <2>3. running' \in [Slots -> BOOLEAN]
    BY <1>21, Zenon DEF ChildInit
  <2>4. participating_domains' \in Slots /\ caml_num_domains_running' \in Int
    BY <1>21, <2>2 DEF ChildInit, OneMoreRunning
  <2> QED BY <1>21, <2>3, <2>4 DEF ChildInit
<1>22. CASE Handshake(s)
  BY <1>22 DEF Handshake
<1>23. CASE FailedHandshake(s)
  BY <1>23 DEF FailedHandshake
<1>24. CASE Terminate(s)
  BY <1>24 DEF Terminate
<1>25. CASE Leave(s)
  <2>1. participating_domains - 1 \in Slots /\ domains' \in [Slots -> Slots]
    BY <1>25, LeaveArray DEF StwInv
  <2> QED BY <1>25, <2>1, Zenon DEF Leave
<1>26. CASE TearDown(s)
  BY <1>26 DEF TearDown
<1> HIDE <1>0 DEF SlotTypes, slotVars
<1> QED BY <1>1, <1>2, <1>3, <1>4, <1>5, <1>6, <1>7, <1>8, <1>9, <1>10, <1>11, <1>12,
           <1>13, <1>14, <1>15, <1>16, <1>17, <1>18, <1>19, <1>20, <1>21, <1>22, <1>23, <1>24,
           <1>25, <1>26 DEF DomainStep, ChildStep, ProgramStep

(* The threads and the spawns under way keep their types.                  *)
LEMMA ThreadTypesStep ==
  ASSUME TypeOK, NEW s \in Slots,
         DomainStep(s) \/ ChildStep(s) \/ ProgramStep(s) \/ PollDone(s) \/ TearDown(s)
  PROVE  ThreadTypes'
<1>0. RequestTypes /\ SlotTypes /\ ThreadTypes
  BY DEF TypeOK
<1> USE <1>0 DEF ThreadTypes, spawnVars
<1>1. CASE TryRun(s)
  BY <1>1 DEF TryRun
<1>2. CASE TryLock(s)
  BY <1>2 DEF TryLock
<1>3. CASE LostClaim(s)
  BY <1>3 DEF LostClaim
<1>4. CASE Claim(s)
  BY <1>4 DEF Claim
<1>5. CASE SendInterrupt(s)
  BY <1>5, LoopType DEF SendInterrupt, caml_send_interrupt
<1>6. CASE InterruptsSent(s)
  BY <1>6 DEF InterruptsSent
<1>7. CASE InterruptsServiced(s)
  BY <1>7 DEF InterruptsServiced
<1>8. CASE GiveUp(s)
  BY <1>8 DEF GiveUp
<1>9. CASE HandleIncoming(s)
  BY <1>9 DEF HandleIncoming
<1>10. CASE EnterBarrier(s)
  BY <1>10 DEF EnterBarrier
<1>11. CASE CallbackDone(s)
  BY <1>11 DEF CallbackDone, AfterSection
<1>12. CASE ClearLeader(s)
  BY <1>12 DEF ClearLeader, AfterSection, ChildrenWoken
<1>13. CASE PollDone(s)
  BY <1>13 DEF PollDone
<1>14. CASE Spawn(s)
  BY <1>14 DEF Spawn
<1>15. CASE SpawnWait(s)
  BY <1>15 DEF SpawnWait
<1>16. CASE SpawnReturn(s)
  BY <1>16 DEF SpawnReturn
<1>17. CASE ChildLock(s)
  BY <1>17 DEF ChildLock
<1>18. CASE ChildHasNoSlot(s)
  BY <1>18 DEF ChildHasNoSlot
<1>19. CASE ChildTakesSlot(s)
  BY <1>19 DEF ChildTakesSlot
<1>20. CASE ChildInitFails(s)
  BY <1>20 DEF ChildInitFails
<1>21. CASE ChildInit(s)
  BY <1>21, Zenon DEF ChildInit
<1>22. CASE Handshake(s)
  BY <1>22, Zenon DEF Handshake
<1>23. CASE FailedHandshake(s)
  BY <1>23 DEF FailedHandshake
<1>24. CASE Terminate(s)
  BY <1>24 DEF Terminate
<1>25. CASE Leave(s)
  BY <1>25 DEF Leave
<1>26. CASE TearDown(s)
  BY <1>26 DEF TearDown
<1> HIDE <1>0 DEF ThreadTypes, spawnVars
<1> QED BY <1>1, <1>2, <1>3, <1>4, <1>5, <1>6, <1>7, <1>8, <1>9, <1>10, <1>11, <1>12,
           <1>13, <1>14, <1>15, <1>16, <1>17, <1>18, <1>19, <1>20, <1>21, <1>22, <1>23, <1>24,
           <1>25, <1>26 DEF DomainStep, ChildStep, ProgramStep

-----------------------------------------------------------------------------
(* all_domains_lock has one owner, which is the thread that is between the *)
(* lock and the unlock.                                                    *)
LEMMA LockStep ==
  ASSUME TypeOK, StwInv, NEW s \in Slots,
         DomainStep(s) \/ ChildStep(s) \/ ProgramStep(s) \/ PollDone(s) \/ TearDown(s)
  PROVE  LockInv'
<1>0. RequestTypes /\ ThreadTypes /\ LockInv
  BY DEF TypeOK, StwInv
<1> USE <1>0 DEF RequestTypes, ThreadTypes, LockInv, next_free_domain, stwVars, slotVars,
                spawnVars
<1>1. CASE TryRun(s)
  BY <1>1 DEF TryRun
<1>2. CASE TryLock(s)
  BY SlotFacts, <1>2 DEF TryLock
<1>3. CASE LostClaim(s)
  BY SlotFacts, <1>3 DEF LostClaim, MayClaim
<1>4. CASE Claim(s)
  BY SlotFacts, <1>4 DEF Claim, MayClaim
<1>5. CASE SendInterrupt(s)
  BY <1>5 DEF SendInterrupt, caml_send_interrupt
<1>6. CASE InterruptsSent(s)
  BY SlotFacts, <1>6 DEF InterruptsSent
<1>7. CASE InterruptsServiced(s)
  BY <1>7 DEF InterruptsServiced
<1>8. CASE GiveUp(s)
  BY <1>8 DEF GiveUp
<1>9. CASE HandleIncoming(s)
  BY <1>9 DEF HandleIncoming
<1>10. CASE EnterBarrier(s)
  BY <1>10 DEF EnterBarrier
<1>11. CASE CallbackDone(s)
  BY <1>11 DEF CallbackDone, AfterSection
<1>12. CASE ClearLeader(s)
  BY <1>12 DEF ClearLeader, AfterSection, ChildrenWoken
<1>13. CASE PollDone(s)
  BY <1>13 DEF PollDone
<1>14. CASE Spawn(s)
  BY <1>14 DEF Spawn, StwInv, SpawnInv
<1>15. CASE SpawnWait(s)
  BY <1>15 DEF SpawnWait
<1>16. CASE SpawnReturn(s)
  BY <1>16 DEF SpawnReturn
<1>17. CASE ChildLock(s)
  BY SlotFacts, <1>17 DEF ChildLock, SectionInProgress
<1>18. CASE ChildHasNoSlot(s)
  BY SlotFacts, <1>18 DEF ChildHasNoSlot
<1>19. CASE ChildTakesSlot(s)
  BY <1>19 DEF ChildTakesSlot
<1>20. CASE ChildInitFails(s)
  BY SlotFacts, <1>20 DEF ChildInitFails
<1>21. CASE ChildInit(s)
  BY SlotFacts, <1>21 DEF ChildInit
<1>22. CASE Handshake(s)
  BY <1>22 DEF Handshake
<1>23. CASE FailedHandshake(s)
  BY <1>23 DEF FailedHandshake
<1>24. CASE Terminate(s)
  BY <1>24 DEF Terminate
<1>25. CASE Leave(s)
  BY SlotFacts, <1>25 DEF Leave
<1>26. CASE TearDown(s)
  BY <1>26 DEF TearDown
<1> HIDE <1>0 DEF RequestTypes, ThreadTypes, LockInv, next_free_domain, stwVars, slotVars,
                 spawnVars
<1> QED BY <1>1, <1>2, <1>3, <1>4, <1>5, <1>6, <1>7, <1>8, <1>9, <1>10, <1>11, <1>12,
           <1>13, <1>14, <1>15, <1>16, <1>17, <1>18, <1>19, <1>20, <1>21, <1>22, <1>23, <1>24,
           <1>25, <1>26 DEF DomainStep, ChildStep, ProgramStep

(* A spawn has one child thread, with or without a slot, and its parent    *)
(* waits for it.                                                           *)
LEMMA SpawnStep ==
  ASSUME TypeOK, StwInv, NEW s \in Slots,
         DomainStep(s) \/ ChildStep(s) \/ ProgramStep(s) \/ PollDone(s) \/ TearDown(s)
  PROVE  SpawnInv'
<1>0. ThreadTypes /\ SpawnInv
  BY DEF TypeOK, StwInv
<1> USE <1>0 DEF ThreadTypes, SpawnInv, spawnVars
<1>1. CASE TryRun(s)
  BY <1>1 DEF TryRun
<1>2. CASE TryLock(s)
  <2>1. pc' = [pc EXCEPT ![s] = "claim"] \/ pc' = [pc EXCEPT ![s] = "giveup"]
    BY <1>2 DEF TryLock
  <2>2. ctx' = ctx /\ parent' = parent /\ status' = status /\ child' = child
    BY <1>2 DEF TryLock
  <2>3. \A d \in Slots : pc'[d] = "handshake" <=> pc[d] = "handshake"
    BY <1>2, <2>1 DEF TryLock
  <2> QED BY <2>2, <2>3
<1>3. CASE LostClaim(s)
  BY <1>3 DEF LostClaim
<1>4. CASE Claim(s)
  BY <1>4 DEF Claim
<1>5. CASE SendInterrupt(s)
  <2>1. pc' = pc \/ pc' = Woken(pc, domains[i])
    BY <1>5 DEF SendInterrupt, caml_send_interrupt
  <2>2. ctx' = ctx /\ parent' = parent /\ status' = status /\ child' = child
    BY <1>5 DEF SendInterrupt
  <2>3. \A d \in Slots : pc'[d] = "handshake" <=> pc[d] = "handshake"
    <3>1. CASE pc' = pc
      BY <3>1
    <3>2. CASE pc' = Woken(pc, domains[i])
      BY <3>2
    <3> QED BY <2>1, <3>1, <3>2
  <2> QED BY <2>2, <2>3
<1>6. CASE InterruptsSent(s)
  BY <1>6 DEF InterruptsSent
<1>7. CASE InterruptsServiced(s)
  BY <1>7 DEF InterruptsServiced
<1>8. CASE GiveUp(s)
  BY <1>8 DEF GiveUp
<1>9. CASE HandleIncoming(s)
  BY <1>9 DEF HandleIncoming
<1>10. CASE EnterBarrier(s)
  BY <1>10 DEF EnterBarrier
<1>11. CASE CallbackDone(s)
  BY <1>11 DEF CallbackDone, AfterSection
<1>12. CASE ClearLeader(s)
  BY <1>12 DEF ClearLeader, AfterSection, ChildrenWoken
<1>13. CASE PollDone(s)
  BY <1>13 DEF PollDone
<1>14. CASE Spawn(s)
  BY <1>14 DEF Spawn
<1>15. CASE SpawnWait(s)
  BY <1>15 DEF SpawnWait
<1>16. CASE SpawnReturn(s)
  BY <1>16 DEF SpawnReturn
<1>17. CASE ChildLock(s)
  <2>1. child' = [child EXCEPT ![s] = "sleep"] \/ child' = [child EXCEPT ![s] = "locked"]
    BY <1>17 DEF ChildLock
  <2>2. /\ child[s] = "start"
        /\ pc' = pc /\ ctx' = ctx /\ parent' = parent /\ status' = status
    BY <1>17 DEF ChildLock
  <2>3. \A p \in Slots : child'[p] = child[p] \/ (p = s /\ child'[p] # "none")
    <3>1. CASE child' = [child EXCEPT ![s] = "sleep"]
      BY <3>1
    <3>2. CASE child' = [child EXCEPT ![s] = "locked"]
      BY <3>2
    <3> QED BY <2>1, <3>1, <3>2
  <2> QED BY <2>2, <2>3
<1>18. CASE ChildHasNoSlot(s)
  BY <1>18 DEF ChildHasNoSlot
<1>19. CASE ChildTakesSlot(s)
  BY <1>19 DEF ChildTakesSlot
<1>20. CASE ChildInitFails(s)
  BY <1>20 DEF ChildInitFails
<1>21. CASE ChildInit(s)
  <2>1. next_free_domain \in Slots
    BY <1>21, NextFreeType DEF ChildInit, LockInv, StwInv, TypeOK
  <2>2. child[s] = "init"
    BY <1>21 DEF ChildInit
  <2> QED BY <1>21, <2>1, <2>2 DEF ChildInit
<1>22. CASE Handshake(s)
  BY <1>22 DEF Handshake
<1>23. CASE FailedHandshake(s)
  BY <1>23 DEF FailedHandshake
<1>24. CASE Terminate(s)
  BY <1>24 DEF Terminate
<1>25. CASE Leave(s)
  BY <1>25 DEF Leave
<1>26. CASE TearDown(s)
  BY <1>26 DEF TearDown
<1> HIDE <1>0 DEF ThreadTypes, SpawnInv, spawnVars
<1> QED BY <1>1, <1>2, <1>3, <1>4, <1>5, <1>6, <1>7, <1>8, <1>9, <1>10, <1>11, <1>12,
           <1>13, <1>14, <1>15, <1>16, <1>17, <1>18, <1>19, <1>20, <1>21, <1>22, <1>23, <1>24,
           <1>25, <1>26 DEF DomainStep, ChildStep, ProgramStep

-----------------------------------------------------------------------------
(* The slots: their interrupt words, their locks, and how many are in use. *)

(* The next free slot takes no part in sections.                           *)
LEMMA NextFreeIsFree ==
  ASSUME TypeOK, StwInv, next_free_domain # NoSlot
  PROVE  /\ next_free_domain \in Slots
         /\ ~running[next_free_domain]
<1>1. /\ next_free_domain \in Slots
      /\ participating_domains + 1 \in Slots
      /\ next_free_domain = domains[participating_domains + 1]
  BY NextFreeType DEF TypeOK
<1>2. participating_domains \in Slots /\ \A j, k \in Slots : domains[j] = domains[k] => j = k
  BY DEF StwInv, ArrayInv, TypeOK, SlotTypes
<1>3. next_free_domain \notin Participants
  <2> SUFFICES ASSUME NEW k \in 1 .. participating_domains, domains[k] = next_free_domain
               PROVE  FALSE
    BY DEF Participants
  <2>1. k \in Slots
    BY <1>2, MaxDomainsAssumption DEF Slots
  <2>2. k = participating_domains + 1
    BY <1>1, <1>2, <2>1
  <2> QED BY <1>2, <2>2, SlotFacts
<1> QED BY <1>1, <1>3 DEF StwInv, ArrayInv

(* A slot in which a domain runs has been used, so its interrupt word is   *)
(* set.                                                                    *)
LEMMA RunningHasWord ==
  ASSUME TypeOK, ArrayInv, SlotsInv, NEW s \in Slots, running[s]
  PROVE  interrupt_word[s]
<1>1. PICK k \in 1 .. participating_domains : domains[k] = s
  BY DEF ArrayInv, Participants
<1>2. k \in Slots /\ k <= participating_domains
  BY MaxDomainsAssumption, SlotFacts DEF TypeOK, SlotTypes, Slots
<1>3. ~interrupt_word[s] => domains[s] = s /\ s > participating_domains
  BY DEF SlotsInv
<1>4. domains[s] = s => s = k
  BY <1>1, <1>2 DEF ArrayInv
<1> QED BY <1>2, <1>3, <1>4, SlotFacts DEF TypeOK, SlotTypes

(* A step that leaves the slots alone and sets no new slot up keeps what   *)
(* is said of them.                                                        *)
LEMMA SlotsKept ==
  ASSUME SlotsInv, UNCHANGED slotVars,
         \A p \in Slots : child'[p] = "init" => child[p] = "init"
  PROVE  SlotsInv'
<1>1. InUse' = InUse /\ next_free_domain' = next_free_domain
  BY DEF InUse, next_free_domain, slotVars
<1> QED BY <1>1 DEF SlotsInv, slotVars

(* A child takes the lock of the next free slot, and uses the slot perhaps *)
(* for the first time: it is then the first one without interrupt word.    *)
LEMMA ChildTakesSlotSlots ==
  ASSUME TypeOK, StwInv, NEW p \in Slots, ChildTakesSlot(p)
  PROVE  SlotsInv'
<1> DEFINE d == next_free_domain
<1>1. /\ child[p] = "locked" /\ d # NoSlot /\ ~domain_lock[d]
      /\ domain_lock' = [domain_lock EXCEPT ![d] = TRUE]
      /\ interrupt_word' = [interrupt_word EXCEPT ![d] = TRUE]
      /\ child' = [child EXCEPT ![p] = "init"]
      /\ participating_domains' = participating_domains /\ domains' = domains
      /\ running' = running /\ teardown' = teardown
      /\ caml_num_domains_running' = caml_num_domains_running
  BY DEF ChildTakesSlot, StateIsFree
<1>2. /\ d \in Slots /\ participating_domains + 1 \in Slots
      /\ d = domains[participating_domains + 1]
  BY <1>1, NextFreeType DEF TypeOK
<1>3. InUse' = InUse /\ next_free_domain' = d
  BY <1>1 DEF InUse, next_free_domain
<1>4. /\ domain_lock \in [Slots -> BOOLEAN] /\ interrupt_word \in [Slots -> BOOLEAN]
      /\ participating_domains \in Slots
  BY DEF TypeOK, SlotTypes
<1>5. d \notin InUse
  BY <1>1 DEF StwInv, SlotsInv
<1>6. ASSUME NEW j \in Slots, NEW k \in Slots, j < k, interrupt_word'[k]
      PROVE  interrupt_word'[j]
  <2>1. CASE interrupt_word[k]
    BY <1>1, <1>2, <1>4, <1>6, <2>1 DEF StwInv, SlotsInv
  <2>2. CASE ~interrupt_word[k]
    <3>1. k = d /\ domains[d] = d
      BY <1>1, <1>2, <1>4, <1>6, <2>2 DEF StwInv, SlotsInv
    <3>2. d = participating_domains + 1
      BY <1>2, <3>1 DEF StwInv, ArrayInv
    <3>3. ~(j > participating_domains)
      BY <1>4, <1>6, <3>1, <3>2, SlotFacts
    <3>4. interrupt_word[j]
      BY <3>3 DEF StwInv, SlotsInv
    <3> QED BY <1>1, <1>4, <3>4
  <2> QED BY <2>1, <2>2
<1>7. \A k \in Slots : ~interrupt_word'[k] => domains'[k] = k /\ k > participating_domains'
  BY <1>1, <1>4 DEF StwInv, SlotsInv
<1>8. \A s \in InUse' : domain_lock'[s]
  BY <1>1, <1>3, <1>4 DEF StwInv, SlotsInv, InUse
<1>9. \A s \in Slots : ~(running'[s] /\ teardown'[s])
  BY <1>1 DEF StwInv, SlotsInv
<1>10. interrupt_word'[d] /\ domain_lock'[d] /\ ~teardown'[d]
  BY <1>1, <1>2, <1>4, <1>5 DEF InUse
<1>11. caml_num_domains_running' = Cardinality(InUse')
  BY <1>1, <1>3 DEF StwInv, SlotsInv
<1> QED BY <1>3, <1>6, <1>7, <1>8, <1>9, <1>10, <1>11 DEF SlotsInv

(* The child becomes the domain of the slot it has set up: one slot more   *)
(* is in use.                                                              *)
LEMMA ChildInitSlots ==
  ASSUME TypeOK, StwInv, NEW p \in Slots, ChildInit(p)
  PROVE  SlotsInv'
<1> DEFINE d == next_free_domain
<1>1. /\ child[p] = "init"
      /\ running' = [running EXCEPT ![d] = TRUE]
      /\ caml_num_domains_running' = caml_num_domains_running + 1
      /\ participating_domains' = participating_domains + 1
      /\ child' = [child EXCEPT ![p] = "none"]
      /\ domains' = domains /\ interrupt_word' = interrupt_word
      /\ domain_lock' = domain_lock /\ teardown' = teardown
  BY DEF ChildInit, OneMoreRunning
<1>2. d # NoSlot
  BY <1>1 DEF StwInv, LockInv
<1>3. /\ d \in Slots /\ participating_domains + 1 \in Slots
      /\ d = domains[participating_domains + 1] /\ ~running[d]
  BY <1>2, NextFreeType, NextFreeIsFree DEF TypeOK
<1>4. interrupt_word[d] /\ domain_lock[d] /\ ~teardown[d]
  BY <1>1 DEF StwInv, SlotsInv
<1>5. running \in [Slots -> BOOLEAN] /\ participating_domains \in Slots
  BY DEF TypeOK, SlotTypes
<1>6. InUse' = InUse \union {d} /\ d \notin InUse
  BY <1>1, <1>3, <1>4, <1>5 DEF InUse
<1>7. IsFiniteSet(InUse)
  BY SlotsFinite DEF InUse
<1>8. Cardinality(InUse') = Cardinality(InUse) + 1
  BY <1>6, <1>7, FS_AddElement
<1>9. \A q \in Slots : child'[q] # "init"
  <2>1. child \in [Slots -> {"none", "start", "sleep", "locked", "init", "failed"}]
    BY DEF TypeOK, ThreadTypes
  <2>2. \A q \in Slots : child[q] = "init" => q = p
    BY <1>1, SlotFacts DEF StwInv, LockInv
  <2> QED BY <1>1, <2>1, <2>2
<1>10. ASSUME NEW k \in Slots, ~interrupt_word'[k]
       PROVE  domains'[k] = k /\ k > participating_domains'
  <2>1. domains[k] = k /\ k > participating_domains
    BY <1>1, <1>10 DEF StwInv, SlotsInv
  <2>2. k # participating_domains + 1
    BY <1>1, <1>3, <1>4, <1>10, <2>1
  <2> QED BY <1>1, <1>5, <2>1, <2>2, SlotFacts
<1>11. \A j, k \in Slots : j < k /\ interrupt_word'[k] => interrupt_word'[j]
  BY <1>1 DEF StwInv, SlotsInv
<1>12. \A s \in InUse' : domain_lock'[s]
  BY <1>1, <1>4, <1>6 DEF StwInv, SlotsInv
<1>13. \A s \in Slots : ~(running'[s] /\ teardown'[s])
  BY <1>1, <1>4, <1>5 DEF StwInv, SlotsInv
<1>14. caml_num_domains_running' = Cardinality(InUse')
  BY <1>1, <1>8 DEF StwInv, SlotsInv
<1> QED BY <1>9, <1>10, <1>11, <1>12, <1>13, <1>14 DEF SlotsInv

(* A domain that leaves still uses its slot.                               *)
LEMMA LeaveSlots ==
  ASSUME TypeOK, StwInv, NEW s \in Slots, Leave(s)
  PROVE  SlotsInv'
<1>1. /\ pc[s] = "idle" /\ all_domains_lock = 0
      /\ running' = [running EXCEPT ![s] = FALSE]
      /\ teardown' = [teardown EXCEPT ![s] = TRUE]
      /\ participating_domains' = participating_domains - 1
      /\ domains' = remove_from_stw_domains(s)
      /\ interrupt_word' = interrupt_word /\ domain_lock' = domain_lock
      /\ caml_num_domains_running' = caml_num_domains_running /\ child' = child
  BY DEF Leave, spawnVars
<1>2. /\ running \in [Slots -> BOOLEAN] /\ teardown \in [Slots -> BOOLEAN]
      /\ domains \in [Slots -> Slots] /\ participating_domains \in Slots
  BY DEF TypeOK, SlotTypes
<1>3. running[s]
  BY <1>1 DEF StwInv, ArrayInv
<1>4. InUse' = InUse
  BY <1>1, <1>2, <1>3 DEF InUse
<1>5. ASSUME NEW k \in Slots, ~interrupt_word'[k]
      PROVE  domains'[k] = k /\ k > participating_domains'
  <2>1. domains[k] = k /\ k > participating_domains
    BY <1>1, <1>5 DEF StwInv, SlotsInv
  <2>2. s \in Participants
    BY <1>3 DEF StwInv, ArrayInv
  <2>3. PICK j \in 1 .. participating_domains : domains[j] = s
    BY <2>2 DEF Participants
  <2>4. j \in Slots /\ j <= participating_domains
    BY <1>2, MaxDomainsAssumption DEF Slots
  <2>5. (CHOOSE l \in Slots : domains[l] = s) = j
    BY <2>3, <2>4 DEF StwInv, ArrayInv
  <2>6. domains' = [domains EXCEPT ![j] = domains[participating_domains],
                                   ![participating_domains] = s]
    BY <1>1, <2>5, Zenon DEF remove_from_stw_domains
  <2>7. k # j /\ k # participating_domains
    BY <1>2, <2>1, <2>4, SlotFacts
  <2> QED BY <1>1, <1>2, <2>1, <2>6, <2>7, SlotFacts
<1>6. \A p \in Slots : child'[p] # "init"
  BY <1>1, SlotFacts DEF StwInv, LockInv
<1>7. \A t \in Slots : ~(running'[t] /\ teardown'[t])
  BY <1>1, <1>2 DEF StwInv, SlotsInv
<1>8. /\ \A j, k \in Slots : j < k /\ interrupt_word'[k] => interrupt_word'[j]
      /\ \A t \in InUse' : domain_lock'[t]
      /\ caml_num_domains_running' = Cardinality(InUse')
  BY <1>1, <1>4 DEF StwInv, SlotsInv
<1> QED BY <1>5, <1>6, <1>7, <1>8 DEF SlotsInv

(* The end of domain_terminate gives the slot back: one less is in use.    *)
LEMMA TearDownSlots ==
  ASSUME TypeOK, StwInv, NEW s \in Slots, TearDown(s)
  PROVE  SlotsInv'
<1>1. /\ teardown[s]
      /\ teardown' = [teardown EXCEPT ![s] = FALSE]
      /\ domain_lock' = [domain_lock EXCEPT ![s] = FALSE]
      /\ caml_num_domains_running' = caml_num_domains_running - 1
      /\ participating_domains' = participating_domains /\ domains' = domains
      /\ running' = running /\ interrupt_word' = interrupt_word /\ child' = child
  BY DEF TearDown, spawnVars
<1>2. /\ domain_lock \in [Slots -> BOOLEAN] /\ teardown \in [Slots -> BOOLEAN]
  BY DEF TypeOK, SlotTypes
<1>3. ~running[s]
  BY <1>1 DEF StwInv, SlotsInv
<1>4. InUse' = InUse \ {s} /\ s \in InUse
  BY <1>1, <1>2, <1>3 DEF InUse
<1>5. IsFiniteSet(InUse)
  BY SlotsFinite DEF InUse
<1>6. Cardinality(InUse') = Cardinality(InUse) - 1
  BY <1>4, <1>5, FS_RemoveElement
<1>7. next_free_domain' = next_free_domain
  BY <1>1 DEF next_free_domain
<1>8. ASSUME NEW p \in Slots, child'[p] = "init"
      PROVE  /\ interrupt_word'[next_free_domain] /\ domain_lock'[next_free_domain]
             /\ ~teardown'[next_free_domain]
  <2>1. /\ interrupt_word[next_free_domain] /\ domain_lock[next_free_domain]
        /\ ~teardown[next_free_domain]
    BY <1>1, <1>8 DEF StwInv, SlotsInv
  <2>2. next_free_domain \in Slots
    BY <1>1, <1>8, NextFreeType DEF StwInv, LockInv, TypeOK
  <2> QED BY <1>1, <1>2, <2>1, <2>2
<1>9. \A t \in InUse' : domain_lock'[t]
  BY <1>1, <1>2, <1>4 DEF StwInv, SlotsInv, InUse
<1>10. \A t \in Slots : ~(running'[t] /\ teardown'[t])
  BY <1>1, <1>2 DEF StwInv, SlotsInv
<1>11. /\ \A k \in Slots : ~interrupt_word'[k] => domains'[k] = k /\ k > participating_domains'
       /\ \A j, k \in Slots : j < k /\ interrupt_word'[k] => interrupt_word'[j]
       /\ caml_num_domains_running' = Cardinality(InUse')
  BY <1>1, <1>6 DEF StwInv, SlotsInv
<1> QED BY <1>7, <1>8, <1>9, <1>10, <1>11 DEF SlotsInv

(* Every step keeps what is said of the slots.                             *)
LEMMA SlotsStep ==
  ASSUME TypeOK, StwInv, NEW s \in Slots,
         DomainStep(s) \/ ChildStep(s) \/ ProgramStep(s) \/ PollDone(s) \/ TearDown(s)
  PROVE  SlotsInv'
<1>1. CASE ChildTakesSlot(s)
  BY <1>1, ChildTakesSlotSlots
<1>2. CASE ChildInit(s)
  BY <1>2, ChildInitSlots
<1>3. CASE Leave(s)
  BY <1>3, LeaveSlots
<1>4. CASE TearDown(s)
  BY <1>4, TearDownSlots
<1>5. CASE ~ChildTakesSlot(s) /\ ~ChildInit(s) /\ ~Leave(s) /\ ~TearDown(s)
  <2>0. child \in [Slots -> {"none", "start", "sleep", "locked", "init", "failed"}]
    BY DEF TypeOK, ThreadTypes
  <2>1. CASE DomainStep(s) /\ ~ClearLeader(s)
    <3>1. UNCHANGED slotVars
      BY <2>1, Zenon DEF DomainStep, TryLock, LostClaim, Claim, SendInterrupt, InterruptsSent,
                  InterruptsServiced, GiveUp, HandleIncoming, EnterBarrier, CallbackDone,
                  SpawnWait, SpawnReturn, Handshake, slotVars
    <3>2. child' = child
      BY <2>1, Zenon DEF DomainStep, TryLock, LostClaim, Claim, SendInterrupt, InterruptsSent,
                  InterruptsServiced, GiveUp, HandleIncoming, EnterBarrier, CallbackDone,
                  SpawnWait, SpawnReturn, Handshake, spawnVars
    <3> QED BY <3>1, <3>2, SlotsKept DEF StwInv
  <2>2. CASE ClearLeader(s)
    BY <2>0, <2>2, SlotsKept DEF ClearLeader, ChildrenWoken, StwInv
  <2>3. CASE ChildStep(s)
    <3>1. UNCHANGED slotVars
      BY <1>5, <2>3, Zenon DEF ChildStep, ChildLock, ChildHasNoSlot, ChildInitFails, FailedHandshake
    <3>2. \A p \in Slots : child'[p] = "init" => child[p] = "init"
      <4>1. \/ child' = [child EXCEPT ![s] = "sleep"] \/ child' = [child EXCEPT ![s] = "locked"]
            \/ child' = [child EXCEPT ![s] = "failed"] \/ child' = [child EXCEPT ![s] = "none"]
        BY <1>5, <2>3, Zenon DEF ChildStep, ChildLock, ChildHasNoSlot, ChildInitFails, FailedHandshake
      <4>2. CASE child' = [child EXCEPT ![s] = "sleep"]
        BY <2>0, <4>2
      <4>3. CASE child' = [child EXCEPT ![s] = "locked"]
        BY <2>0, <4>3
      <4>4. CASE child' = [child EXCEPT ![s] = "failed"]
        BY <2>0, <4>4
      <4>5. CASE child' = [child EXCEPT ![s] = "none"]
        BY <2>0, <4>5
      <4> QED BY <4>1, <4>2, <4>3, <4>4, <4>5
    <3> QED BY <3>1, <3>2, SlotsKept DEF StwInv
  <2>4. CASE ProgramStep(s) \/ PollDone(s)
    <3>1. UNCHANGED slotVars /\ (child' = child \/ child' = [child EXCEPT ![s] = "start"])
      BY <1>5, <2>4, Zenon DEF ProgramStep, TryRun, Spawn, Terminate, PollDone, spawnVars
    <3>2. \A p \in Slots : child'[p] = "init" => child[p] = "init"
      BY <2>0, <3>1
    <3> QED BY <3>1, <3>2, SlotsKept DEF StwInv
  <2> QED BY <1>5, <2>1, <2>2, <2>3, <2>4
<1> QED BY <1>1, <1>2, <1>3, <1>4, <1>5

=============================================================================
