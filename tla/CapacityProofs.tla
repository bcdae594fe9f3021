--------------------------- MODULE CapacityProofs ---------------------------
(***************************************************************************)
(* Two limits that many workers spend at once: the workloads an evacuation *)
(* moves at the same time, and the recoveries a revision of the budget     *)
(* policy allows.  Their steps are known from the invariants of the two    *)
(* parts; what is left is to count.                                        *)
(***************************************************************************)
EXTENDS AggregateProofs, RecoveryProofs, FiniteSetTheorems

USE ZenonT(60)

LEMMA LimitKept ==
  ASSUME NEW n \in Nat, NEW S, NEW T, IsFiniteSet(S), Cardinality(S) <= n, StaysWithin(S, T, n)
  PROVE  Cardinality(T) <= n
<1>1. CASE T \subseteq S
  <2>1. IsFiniteSet(T) /\ Cardinality(T) <= Cardinality(S)
    BY <1>1, FS_Subset
  <2>2. Cardinality(S) \in Nat /\ Cardinality(T) \in Nat
    BY <2>1, FS_CardinalityType
  <2>3. QED
    BY <2>1, <2>2, SMTT(30)
<1>2. ASSUME NEW R \in SUBSET S, NEW x, Cardinality(R) \in Nat => Cardinality(R) < n, T \subseteq R \cup {x}
      PROVE  Cardinality(T) <= n
  <2>1. IsFiniteSet(R)
    BY FS_Subset
  <2>2. Cardinality(R) \in Nat
    BY <2>1, FS_CardinalityType
  <2>3. IsFiniteSet(R \cup {x}) /\ Cardinality(R \cup {x}) \in {Cardinality(R), Cardinality(R) + 1}
    <3>1. CASE x \in R
      BY <2>1, <3>1, FS_AddElement
    <3>2. CASE x \notin R
      BY <2>1, <3>2, FS_AddElement
    <3>3. QED
      BY <3>1, <3>2
  <2>4. IsFiniteSet(T) /\ Cardinality(T) <= Cardinality(R \cup {x})
    BY <1>2, <2>3, FS_Subset
  <2>5. Cardinality(T) \in Nat
    BY <2>4, FS_CardinalityType
  <2>6. QED
    BY <1>2, <2>2, <2>3, <2>4, <2>5, SMTT(30)
<1>3. QED
  BY <1>1, <1>2 DEF StaysWithin

\* A limit holds of a set that is empty.
LEMMA NothingTaken ==
  ASSUME NEW n \in Nat, NEW S, S = {}
  PROVE  Cardinality(S) <= n
<1>1. Cardinality(S) = 0
  BY FS_EmptySet
<1>2. QED
  BY <1>1, SMTT(30)

-----------------------------------------------------------------------------
(* The slots of an evacuation.                                             *)

\* An evacuation never has more workloads under way than its limit, whatever
\* claims expire, are taken over or are left in doubt (host_evacuation.go:362).
THEOREM SlotsStayBounded ==
  AggregateSpec => []SlotsBounded
<1>1. ASSUME AggregateInit PROVE SlotsBounded
  <2>1. ASSUME NEW h \in VMHosts PROVE Slots(h) = {}
    BY <1>1 DEF AggregateInit, EvacuationInit, Slots
  <2>2. QED
    BY <2>1, EvacuationAssumption, NothingTaken DEF SlotsBounded
<1>2. ASSUME AggregateInv, SlotsBounded, [AggregateNext]_aggregateVars PROVE SlotsBounded'
  <2> SUFFICES ASSUME NEW h \in VMHosts PROVE Cardinality(Slots(h)') <= MaxConcurrent
    BY DEF SlotsBounded
  <2>1. Slots(h) \in SUBSET VMs
    BY DEF Slots
  <2>2. IsFiniteSet(Slots(h))
    BY <2>1, RuntimeAssumption, FS_Subset
  <2>3. Cardinality(Slots(h)) <= MaxConcurrent /\ MaxConcurrent \in Nat
    BY <1>2, EvacuationAssumption DEF SlotsBounded
  <2>4. StaysWithin(Slots(h), Slots(h)', MaxConcurrent)
    BY <1>2, AggregateStep DEF AggregateMove, WorkloadMove, SlotsMove
  <2>5. QED
    BY <2>2, <2>3, <2>4, LimitKept
<1>3. QED
  BY <1>1, <1>2, AggregateHolds, PTL DEF AggregateSpec

-----------------------------------------------------------------------------
(* The recovery budget.                                                    *)

\* Whether or not the revision is already published: an epoch names one.
BudgetHeld == \A b \in Nat : Cardinality(ActiveClaims(b)) <= MaxActive

\* No revision of the budget policy has more active recoveries than it allows,
\* however many evaluations saw room for one: the claims are counted again in
\* the transaction that makes one (recovery_eligibility.go:443).
THEOREM BudgetStaysBounded ==
  RecoverySpec => []BudgetBounded
<1>1. ASSUME RecoveryInit PROVE BudgetHeld
  <2>1. ASSUME NEW b \in Nat PROVE ActiveClaims(b) = {}
    BY <1>1 DEF RecoveryInit, ActiveClaims
  <2>2. QED
    BY <2>1, RecoveryAssumption, NothingTaken DEF BudgetHeld
<1>2. ASSUME RecoveryInv, BudgetHeld, [RecoveryNext]_recoveryAllVars PROVE BudgetHeld'
  <2> SUFFICES ASSUME NEW b \in Nat PROVE Cardinality(ActiveClaims(b)') <= MaxActive
    BY DEF BudgetHeld
  <2>1. ActiveClaims(b) \in SUBSET Epochs
    BY DEF ActiveClaims
  <2>2. IsFiniteSet(ActiveClaims(b))
    BY <2>1, RecoveryAssumption, FS_Subset
  <2>3. Cardinality(ActiveClaims(b)) <= MaxActive /\ MaxActive \in Nat
    BY <1>2, RecoveryAssumption DEF BudgetHeld
  <2>4. StaysWithin(ActiveClaims(b), ActiveClaims(b)', MaxActive)
    BY <1>2, RecoveryStep DEF RecoveryMove, BudgetMove
  <2>5. QED
    BY <2>2, <2>3, <2>4, LimitKept
<1>3. ASSUME RecoveryInv, BudgetHeld PROVE BudgetBounded
  <2>1. budget \in Nat
    BY <1>3 DEF RecoveryInv, RecoveryTablesOK
  <2>2. \A b \in 1..budget : b \in Nat
    BY <2>1, SMTT(30)
  <2>3. QED
    BY <1>3, <2>2 DEF BudgetHeld, BudgetBounded
<1>4. QED
  BY <1>1, <1>2, <1>3, RecoveryHolds, PTL DEF RecoverySpec
=============================================================================
