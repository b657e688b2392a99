--------------------------- MODULE BarrierProofs ---------------------------
(***************************************************************************)
(* Proofs about Barrier for every finite set of threads, every group size  *)
(* and every width of the group counter.                                   *)
(***************************************************************************)
EXTENDS Barrier, FiniteSetTheorems, TLAPS

\* The countdown is only right if nobody of a passed group is still counted in
\* the open one, and the wakeups are only right if the countdown is.
IInv == TypeOK /\ CountAgrees /\ NobodyLeftAsleep

LEMMA GatheringFinite ==
    ASSUME TypeOK
    PROVE  IsFiniteSet(Gathering) /\ Cardinality(Gathering) \in Nat
BY ThreadsFinite, FS_Subset, FS_CardinalityType DEF TypeOK, Gathering

LEMMA InitIInv == Init => IInv
<1> SUFFICES ASSUME Init PROVE IInv
  OBVIOUS
<1>1. Gathering = {} /\ Leaving = {}
  BY DEF Init, Gathering, Leaving
<1>2. TypeOK
  BY LimitPositive, GroupModSize DEF Init, TypeOK
<1>3. CountAgrees
  BY <1>1, FS_EmptySet, LimitPositive DEF Init, CountAgrees
<1> QED  BY <1>1, <1>2, <1>3 DEF IInv, NobodyLeftAsleep

-----------------------------------------------------------------------------
(* What each step does to the group that gathers and to those who leave.    *)

LEMMA ArriveGathers ==
    ASSUME IInv, NEW t \in Threads, Arrive(t)
    PROVE  /\ Gathering' = Gathering \cup {t} /\ t \notin Gathering
           /\ Leaving' = Leaving
           /\ Cardinality(Gathering') = Cardinality(Gathering) + 1
<1> TypeOK
  BY DEF IInv
<1>1. /\ Gathering' = Gathering \cup {t} /\ t \notin Gathering
      /\ Leaving' = Leaving
  BY DEF Arrive, Gathering, Leaving, TypeOK
<1> QED  BY <1>1, GatheringFinite, FS_AddElement

LEMMA CompleteFrees ==
    ASSUME IInv, NEW t \in Threads, Complete(t)
    PROVE  Gathering' = {} /\ Leaving' = Leaving \cup Gathering
BY DEF IInv, Complete, NotLapped, Gathering, Leaving, TypeOK

LEMMA LeaveLeaves ==
    ASSUME IInv, NEW t \in Threads, Leave(t)
    PROVE  Gathering' = Gathering /\ Leaving' = Leaving \ {t} /\ t \in Leaving
BY DEF IInv, Leave, Gathering, Leaving

LEMMA NextIInv ==
    ASSUME IInv, [Next]_vars
    PROVE  IInv'
<1> USE DEF IInv
<1> TypeOK /\ CountAgrees
  OBVIOUS
<1> Cardinality(Gathering) \in Nat
  BY GatheringFinite
<1>1. ASSUME NEW t \in Threads, Arrive(t)
      PROVE  IInv'
  <2>1. TypeOK'
    BY <1>1, LimitPositive DEF Arrive, TypeOK
  <2>2. CountAgrees'
    <3>1. m_count' = m_count - 1
      BY <1>1 DEF Arrive
    <3>2. Cardinality(Gathering)' = Cardinality(Gathering) + 1
      BY <1>1, ArriveGathers
    <3> QED  BY <3>1, <3>2, LimitPositive DEF CountAgrees
  <2>3. NobodyLeftAsleep'
    BY <1>1, ArriveGathers DEF Arrive, NobodyLeftAsleep, Leaving
  <2> QED  BY <2>1, <2>2, <2>3
<1>2. ASSUME NEW t \in Threads, Complete(t)
      PROVE  IInv'
  <2>1. TypeOK'
    BY <1>2, LimitPositive, GroupModSize DEF Complete, TypeOK
  <2>2. CountAgrees'
    <3>1. m_count' = Limit
      BY <1>2 DEF Complete
    <3>2. Cardinality(Gathering)' = 0
      BY <1>2, CompleteFrees, FS_EmptySet
    <3> QED  BY <3>1, <3>2, LimitPositive DEF CountAgrees
  <2>3. NobodyLeftAsleep'
    BY <1>2 DEF Complete, NobodyLeftAsleep
  <2> QED  BY <2>1, <2>2, <2>3
<1>3. ASSUME NEW t \in Threads, Leave(t)
      PROVE  IInv'
  <2>1. TypeOK'
    BY <1>3 DEF Leave, TypeOK
  <2>2. CountAgrees'
    BY <1>3, LeaveLeaves DEF Leave, CountAgrees
  <2>3. NobodyLeftAsleep'
    BY <1>3, LeaveLeaves DEF Leave, NobodyLeftAsleep
  <2> QED  BY <2>1, <2>2, <2>3
<1>4. ASSUME NEW t \in Threads, WaitAgain(t) \/ SpuriousWakeup(t)
      PROVE  IInv'
  <2>1. UNCHANGED <<inside, group, m_group, m_count>>
    BY <1>4 DEF WaitAgain, SpuriousWakeup
  <2>2. Gathering' = Gathering /\ Leaving' = Leaving
    BY <2>1 DEF Gathering, Leaving
  <2>3. TypeOK'
    BY <1>4, <2>1 DEF WaitAgain, SpuriousWakeup, TypeOK
  <2>4. NobodyLeftAsleep'
    BY <1>4, <2>2 DEF WaitAgain, SpuriousWakeup, NobodyLeftAsleep, Leaving
  <2> QED  BY <2>1, <2>2, <2>3, <2>4 DEF CountAgrees
<1>5. CASE UNCHANGED vars
  BY <1>5 DEF vars, TypeOK, CountAgrees, NobodyLeftAsleep, Gathering, Leaving
<1> QED  BY <1>1, <1>2, <1>3, <1>4, <1>5 DEF Next

LEMMA Inductive == Spec => []IInv
BY InitIInv, NextIInv, PTL DEF Spec

(* The variables keep their types; m_count, a uint, never goes below one.   *)
THEOREM TypeCorrect == Spec => []TypeOK
BY Inductive, PTL DEF IInv

(* m_count is the room left in the group that gathers.                      *)
THEOREM Counting == Spec => []CountAgrees
BY Inductive, PTL DEF IInv

(* No thread sleeps on after its group has passed.                          *)
THEOREM NoWakeupLost == Spec => []NobodyLeftAsleep
BY Inductive, PTL DEF IInv

-----------------------------------------------------------------------------
\* The abstract barrier counts with the same Cardinality.
LEMMA SameCardinality == GB!Cardinality(Gathering) = Cardinality(Gathering)
BY DEF GB!Cardinality, Cardinality

LEMMA InitRefines == Init => GB!Init
BY DEF Init, GB!Init, Gathering, Leaving

LEMMA StepRefines ==
    ASSUME IInv, [Next]_vars
    PROVE  [GB!Next]_(GB!gvars)
<1> USE DEF IInv
<1> TypeOK /\ CountAgrees /\ Cardinality(Gathering) \in Nat
  BY GatheringFinite
<1>1. ASSUME NEW t \in Threads, Arrive(t)
      PROVE  GB!Gather(t)
  <2>1. t \notin Gathering \cup Leaving
    BY <1>1 DEF Arrive, Gathering, Leaving
  <2>2. Cardinality(Gathering) < Limit - 1
    BY <1>1, LimitPositive DEF Arrive, CountAgrees, TypeOK
  <2> QED  BY <1>1, <2>1, <2>2, ArriveGathers, SameCardinality DEF GB!Gather
<1>2. ASSUME NEW t \in Threads, Complete(t)
      PROVE  GB!Pass(t)
  <2>1. t \notin Gathering \cup Leaving
    BY <1>2 DEF Complete, Gathering, Leaving
  <2>2. Cardinality(Gathering) = Limit - 1
    BY <1>2, LimitPositive DEF Complete, CountAgrees, TypeOK
  <2> QED  BY <1>2, <2>1, <2>2, CompleteFrees, SameCardinality DEF GB!Pass
<1>3. ASSUME NEW t \in Threads, Leave(t)
      PROVE  GB!Leave(t)
  BY <1>3, LeaveLeaves DEF GB!Leave
<1>4. ASSUME NEW t \in Threads, WaitAgain(t) \/ SpuriousWakeup(t)
      PROVE  UNCHANGED GB!gvars
  BY <1>4 DEF WaitAgain, SpuriousWakeup, GB!gvars, Gathering, Leaving
<1>5. CASE UNCHANGED vars
  BY <1>5 DEF vars, GB!gvars, Gathering, Leaving
<1> QED  BY <1>1, <1>2, <1>3, <1>4, <1>5 DEF Next, GB!Next

(* Threads travel in groups of exactly Limit: the code's barrier is the      *)
(* abstract one.                                                            *)
THEOREM Refinement == Spec => ImplementsGroupBarrier
BY InitRefines, StepRefines, Inductive, PTL DEF Spec, GB!Spec, ImplementsGroupBarrier
=============================================================================
