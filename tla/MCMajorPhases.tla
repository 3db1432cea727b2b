---------------------------- MODULE MCMajorPhases ----------------------------
(***************************************************************************)
(* The major collector with two domains.  In the run finish_cycle no       *)
(* domain terminates: the heap is an ephemeron with its key and its data   *)
(* (the configuration), or one domain calls Gc.full_major on an ephemeron  *)
(* whose data is its key (Forced), or a single domain does, with           *)
(* Gc.finalise on the key (Revived).  In the run orphans a domain comes    *)
(* and goes, and leaves behind either such an ephemeron (the               *)
(* configuration) or finalisers (Orphans).                                 *)
(***************************************************************************)
EXTENDS MajorPhases

CONSTANTS d0, d1, eph, key, data, Parts

VARIABLE part   \* which of these is explored
all == <<vars, part>>

MCFields == [o \in Objects |-> {}]
MCKey == [e \in Ephemerons |-> key]
MCData == [e \in Ephemerons |-> IF data \in Objects THEN data ELSE key]

Nothing == {}
OneObject == {key}
TwoObjects == {eph, key}
OnlyMain == {d0}
OnlyOther == {d1}
FieldsOfOne == [o \in OneObject |-> {}]
FieldsOfTwo == [o \in TwoObjects |-> {}]
KeyAsData == [e \in Ephemerons |-> key]
Forced == INSTANCE MajorPhases WITH
  Objects <- TwoObjects, Fields <- FieldsOfTwo, Data <- KeyAsData, FullMajors <- OnlyOther

Revived == INSTANCE MajorPhases WITH
  Domains <- OnlyMain, First <- OneObject, FullMajors <- OnlyMain

Orphans == INSTANCE MajorPhases WITH
  Objects <- OneObject, Ephemerons <- Nothing, Fields <- FieldsOfOne, Key <- <<>>,
  Data <- <<>>, First <- OneObject, Last <- OneObject, FullMajors <- OnlyMain

InitParts ==
  /\ part \in Parts
  /\ \/ part = "ephemerons" /\ Init
     \/ part = "forced" /\ Forced!Init
     \/ part = "revived" /\ Revived!Init
     \/ part = "finalisers" /\ Orphans!Init
NextParts ==
  /\ UNCHANGED part
  /\ \/ part = "ephemerons" /\ Next
     \/ part = "forced" /\ Forced!Next
     \/ part = "revived" /\ Revived!Next
     \/ part = "finalisers" /\ Orphans!Next
SpecParts == InitParts /\ [][NextParts]_all

(* Inside of the section every domain is scheduled.                        *)
FairParts ==
  /\ SpecParts
  /\ \A d \in Domains : WF_all(part = "forced" /\ Forced!SectionStep(d) /\ UNCHANGED part)
  /\ WF_all(part = "forced" /\ Forced!PhaseInSection /\ UNCHANGED part)
  /\ WF_all(part = "forced" /\ Forced!CycleInSection /\ UNCHANGED part)

(* An ephemeron that is kept has its key and data allocated, and its data  *)
(* is marked once its key is (ephe_mark, ephe_sweep and the rounds that    *)
(* ephe_next_cycle starts), also when a finaliser revives the key.         *)
EphemeronsSound ==
  /\ part \in {"ephemerons", "revived"} => EphemeronsMarked /\ KeysAllocated
  /\ part = "forced" => Forced!EphemeronsMarked /\ Forced!KeysAllocated
  /\ EpheSweepMatch

(* The section of stw_finish_major_cycle ends (SectionEnds).               *)
FinishEnds == (part = "forced" /\ section # Nobody) ~> (part = "forced" /\ section = Nobody)

(* The global counters of work, num_domains_to_..., agree with what the    *)
(* domains have left to do, also after domains orphaned work and others    *)
(* adopted it; a round of ephemeron marking counts the domains that went   *)
(* through it.                                                             *)
CountersKept ==
  /\ part = "ephemerons" => RoundsMatch
  /\ part = "finalisers" => Orphans!CountersMatch

(* What a terminating domain leaves behind is not lost: a value of         *)
(* Gc.finalise is not freed, the tables wait for adoption only in the      *)
(* phase in which they may, and an ephemeron stays in one list.            *)
OrphansKept ==
  /\ part = "ephemerons" => EphemeronsListed
  /\ part = "finalisers" => Orphans!FinalisableAllocated /\ Orphans!OrphansInMain

(* A value of Gc.finalise keeps its function, through the end of its       *)
(* domain, until a running domain calls it (caml_orphan_finalisers,        *)
(* adopt_orphaned_work).                                                   *)
FinalisersKept == [][part = "finalisers" => Orphans!LeavesToRun]_all
=============================================================================
