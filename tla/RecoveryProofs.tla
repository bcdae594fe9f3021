--------------------------- MODULE RecoveryProofs ---------------------------
(***************************************************************************)
(* Proofs about the recovery of VMs: the rows keep their types, no revision*)
(* of the budget is exceeded, an epoch is confirmed on all its evidence,   *)
(* and a recovery acts only from a fenced source.                          *)
(***************************************************************************)
EXTENDS RuntimeProofs, Recovery

USE ZenonT(60)

-----------------------------------------------------------------------------
(* The inductive invariant.                                                *)

RecoveryTablesOK ==
  /\ epoch \in [Epochs -> EpochRow]
  /\ signals \in [Epochs -> SUBSET Signal]
  /\ revised \subseteq {"CONFIRM", "FENCE", "STORE"} /\ budget \in Nat
  /\ detached \subseteq VMs /\ rootSeen \in [VMs -> Nat]
  /\ safety \in [Epochs -> SafetyRow]
  /\ claim \in [Epochs -> BudgetStates]
  /\ rec \in [Epochs -> RecRow]

\* Nothing was decided about an epoch that is not open; an open one names a VM
\* and the host it was on.
EpochOpen(e) ==
  /\ epoch[e].state = "NONE" => safety[e] = NoSafety /\ claim[e] = "NONE" /\ rec[e] = NoRec
  /\ epoch[e].state # "NONE" => epoch[e].vm \in VMs /\ epoch[e].host \in VMHosts

\* An evaluation that nothing has overtaken was made on the evidence there is.
Evaluated(e) ==
  /\ safety[e].confirm.seen <= epoch[e].seen
  /\ epoch[e].state = "SUSPECTED" /\ safety[e].confirm.result = "SATISFIED"
       /\ ConfirmationStillHolds(e) => ConfirmationResult(e) = "SATISFIED"

RecoveryInv ==
  /\ RuntimeTypeOK /\ RecoveryTablesOK
  /\ \A e \in Epochs : EpochOpen(e) /\ Evaluated(e)

\* What the two action properties say of one epoch.
Confirms(e) ==
  epoch[e].state = "SUSPECTED" /\ epoch'[e].state = "CONFIRMED" => ConfirmationResult(e) = "SATISFIED"

FencedSource(e) ==
  LET p == safety[e].fenceProof IN
  /\ ~authority[epoch[e].host].armed /\ authority[epoch[e].host].gen = p.auth
  /\ \A c \in evidence : c.vm = epoch[e].vm /\ c.host = epoch[e].host /\ c.want = "RUNNING"
       => c.gen <= p.power

Recovers(e) ==
  (~rec[e].power /\ rec'[e].power) \/ (epoch[e].state = "FENCED" /\ epoch'[e].state = "RECOVERED")
    => FencedSource(e)

\* A claim is only made while its revision of the policy has room for it.
\* Whether or not the revision is already published: an epoch names one.
BudgetMove == \A b \in Nat : StaysWithin(ActiveClaims(b), ActiveClaims(b)', MaxActive)

RecoveryMove == RecoveryInv' /\ BudgetMove /\ \A e \in Epochs : Confirms(e) /\ Recovers(e)

-----------------------------------------------------------------------------
(* Frames.                                                                 *)

EpochKept(e) ==
  /\ epoch'[e] = epoch[e] /\ signals'[e] = signals[e] /\ safety'[e] = safety[e]
  /\ claim'[e] = claim[e] /\ rec'[e] = rec[e]

\* The result depends on the evidence of the epoch alone.
ResultOf(S) ==
  LET states(k) == {s.state : s \in {o \in S : o.kind = k}}
      missing == {k \in Kinds : "FAILED" \notin states(k)}
      seen == UNION {states(k) : k \in missing}
  IN IF \E k \in Kinds : Cardinality(states(k) \ {"STALE"}) > 1 THEN "CONFLICTING_INPUT"
     ELSE IF missing = {} THEN "SATISFIED"
     ELSE IF "UNKNOWN" \in seen THEN "UNKNOWN"
     ELSE IF "STALE" \in seen THEN "STALE_EVIDENCE" ELSE "NOT_SATISFIED"

LEMMA ResultOfEvidence ==
  ASSUME NEW e \in Epochs
  PROVE  ConfirmationResult(e) = ResultOf(signals[e]) /\ ConfirmationResult(e)' = ResultOf(signals'[e])
BY DEF ConfirmationResult, ResultOf, StatesOf

LEMMA SameEvidence ==
  ASSUME NEW e \in Epochs, signals'[e] = signals[e]
  PROVE  ConfirmationResult(e)' = ConfirmationResult(e)
BY ResultOfEvidence

\* The evaluation, the evidence and the state of e are the same.
LEMMA EvaluationStays ==
  ASSUME NEW e \in Epochs, Evaluated(e), epoch'[e] = epoch[e], signals'[e] = signals[e],
         safety'[e].confirm = safety[e].confirm
  PROVE  Evaluated(e)' /\ Confirms(e)
<1>1. ConfirmationResult(e)' = ConfirmationResult(e)
  BY SameEvidence
<1>2. ConfirmationStillHolds(e)' <=> ConfirmationStillHolds(e)
  BY DEF ConfirmationStillHolds, Case
<1>3. Evaluated(e)'
  BY <1>1, <1>2 DEF Evaluated
<1>4. Confirms(e)
  BY DEF Confirms
<1>5. QED
  BY <1>3, <1>4

LEMMA EpochFrame ==
  ASSUME NEW e \in Epochs, EpochOpen(e), Evaluated(e), EpochKept(e)
  PROVE  EpochOpen(e)' /\ Evaluated(e)' /\ Confirms(e) /\ Recovers(e)
<1>1. /\ epoch'[e] = epoch[e] /\ signals'[e] = signals[e] /\ safety'[e] = safety[e]
      /\ claim'[e] = claim[e] /\ rec'[e] = rec[e]
  BY DEF EpochKept
<1>2. EpochOpen(e)'
  BY <1>1 DEF EpochOpen
<1>3. safety'[e].confirm = safety[e].confirm
  BY <1>1
<1>4. Evaluated(e)' /\ Confirms(e)
  BY <1>1, <1>3, EvaluationStays
<1>5. Recovers(e)
  BY <1>1 DEF Recovers
<1>6. QED
  BY <1>2, <1>4, <1>5

LEMMA BudgetStays ==
  ASSUME \A e \in Epochs : claim'[e] \in {"RESERVED", "CONSUMED"} =>
           claim[e] \in {"RESERVED", "CONSUMED"} /\ epoch'[e].bound = epoch[e].bound
  PROVE  BudgetMove
<1>1. ASSUME NEW b \in Nat PROVE ActiveClaims(b)' \subseteq ActiveClaims(b)
  BY DEF ActiveClaims
<1>2. QED
  BY <1>1 DEF BudgetMove, StaysWithin

\* Only the rows of e are written.
LEMMA OneEpoch ==
  ASSUME RecoveryInv, NEW e \in Epochs, RuntimeTypeOK', RecoveryTablesOK', BudgetMove,
         \A x \in Epochs : x # e => EpochKept(x),
         EpochOpen(e)', Evaluated(e)', Confirms(e), Recovers(e)
  PROVE  RecoveryMove
<1>1. ASSUME NEW x \in Epochs, x # e
      PROVE  EpochOpen(x)' /\ Evaluated(x)' /\ Confirms(x) /\ Recovers(x)
  <2>1. EpochOpen(x) /\ Evaluated(x) /\ EpochKept(x)
    BY <1>1 DEF RecoveryInv
  <2>2. QED
    BY <2>1, EpochFrame
<1>2. \A x \in Epochs : EpochOpen(x)' /\ Evaluated(x)' /\ Confirms(x) /\ Recovers(x)
  BY <1>1
<1>3. QED
  BY <1>2 DEF RecoveryMove, RecoveryInv

\* No row of an epoch is written.
LEMMA NoEpochMoves ==
  ASSUME RecoveryInv, RuntimeTypeOK', RecoveryTablesOK', UNCHANGED <<epoch, signals, safety, claim, rec>>
  PROVE  RecoveryMove
<1>1. \A e \in Epochs : EpochKept(e)
  BY DEF EpochKept
<1>2. BudgetMove
  BY BudgetStays DEF RecoveryInv
<1>3. ASSUME NEW e \in Epochs PROVE EpochOpen(e)' /\ Evaluated(e)' /\ Confirms(e) /\ Recovers(e)
  <2>1. EpochOpen(e) /\ Evaluated(e) /\ EpochKept(e)
    BY <1>1 DEF RecoveryInv
  <2>2. QED
    BY <2>1, EpochFrame
<1>4. QED
  BY <1>2, <1>3 DEF RecoveryMove, RecoveryInv

LEMMA RuntimeUnchanged ==
  ASSUME RuntimeTypeOK, UNCHANGED runtimeVars
  PROVE  RuntimeTypeOK'
BY DEF RuntimeTypeOK, runtimeVars
-----------------------------------------------------------------------------
(* The epoch and its confirmation.                                         *)

LEMMA EpochTyped ==
  ASSUME RecoveryTablesOK, NEW e \in Epochs
  PROVE  /\ epoch[e] \in EpochRow /\ epoch[e].trans \in Nat /\ epoch[e].seen \in Nat /\ epoch[e].bound \in Nat
         /\ signals[e] \in SUBSET Signal /\ safety[e] \in SafetyRow /\ claim[e] \in BudgetStates
         /\ rec[e] \in RecRow
<1>1. /\ epoch[e] \in EpochRow /\ signals[e] \in SUBSET Signal /\ safety[e] \in SafetyRow
      /\ claim[e] \in BudgetStates /\ rec[e] \in RecRow
  BY DEF RecoveryTablesOK
<1>2. QED
  BY <1>1 DEF EpochRow

LEMMA NoSafetyFields ==
  NoSafety.confirm = NoMark /\ NoMark.seen = 0 /\ NoMark.result = "NONE"
BY DEF NoSafety, NoMark

LEMMA OpenMoves ==
  ASSUME RecoveryInv, NEW e \in Epochs, NEW v \in VMs, NEW k \in Kinds, NEW s \in SignalStates,
         OpenFailureEpoch(e, v, k, s)
  PROVE  RecoveryMove
<1>1. /\ RuntimeTypeOK /\ RecoveryTablesOK /\ EpochOpen(e) /\ Evaluated(e)
  BY DEF RecoveryInv
<1>2. PICK b \in 1..budget :
        epoch' = [epoch EXCEPT ![e] = [state |-> "SUSPECTED", vm |-> v, host |-> machine[v].host,
                                       bound |-> b, trans |-> 1, seen |-> 1]]
  BY DEF OpenFailureEpoch
<1>r. PICK r : r = [state |-> "SUSPECTED", vm |-> v, host |-> machine[v].host,
                    bound |-> b, trans |-> 1, seen |-> 1]
  OBVIOUS
<1>o. PICK o : o = [kind |-> k, state |-> s, gen |-> 1]
  OBVIOUS
<1>3. /\ epoch' = [epoch EXCEPT ![e] = r] /\ signals' = [signals EXCEPT ![e] = {o}]
      /\ epoch[e].state = "NONE" /\ machine[v].host \in VMHosts
      /\ UNCHANGED runtimeVars /\ UNCHANGED <<revised, budget, detached, rootSeen, safety, claim, rec>>
  BY <1>2, <1>r, <1>o DEF OpenFailureEpoch, Case
<1>4. b \in Nat /\ 1 \in Nat /\ 0 <= 1
  <2>1. budget \in Nat
    BY <1>1 DEF RecoveryTablesOK
  <2>2. QED
    BY <2>1, SMTT(30)
<1>5. r \in EpochRow /\ r.state = "SUSPECTED" /\ r.vm = v /\ r.host = machine[v].host /\ r.seen = 1
  BY <1>3, <1>4, <1>r DEF EpochRow
<1>6. o \in Signal
  BY <1>4, <1>o DEF Signal
<1>7. /\ epoch' \in [Epochs -> EpochRow] /\ signals' \in [Epochs -> SUBSET Signal]
      /\ epoch'[e] = r /\ \A x \in Epochs : x # e => epoch'[x] = epoch[x] /\ signals'[x] = signals[x]
  BY <1>1, <1>3, <1>5, <1>6 DEF RecoveryTablesOK
<1>8. RecoveryTablesOK'
  BY <1>1, <1>3, <1>7 DEF RecoveryTablesOK
<1>9. \A x \in Epochs : x # e => EpochKept(x)
  BY <1>3, <1>7 DEF EpochKept
<1>10. safety[e] = NoSafety /\ claim[e] = "NONE" /\ rec[e] = NoRec
  BY <1>1, <1>3 DEF EpochOpen
<1>11. BudgetMove
  <2>1. ASSUME NEW x \in Epochs, claim'[x] \in {"RESERVED", "CONSUMED"}
        PROVE  claim[x] \in {"RESERVED", "CONSUMED"} /\ epoch'[x].bound = epoch[x].bound
    <3>1. claim[x] \in {"RESERVED", "CONSUMED"}
      BY <1>3, <2>1
    <3>2. x # e
      BY <1>10, <3>1
    <3>3. QED
      BY <1>7, <3>1, <3>2
  <2>2. QED
    BY <1>1, <2>1, BudgetStays
<1>12. EpochOpen(e)'
  BY <1>3, <1>5, <1>7 DEF EpochOpen
<1>13. Evaluated(e)'
  BY <1>3, <1>4, <1>5, <1>7, <1>10, NoSafetyFields DEF Evaluated
<1>14. Confirms(e) /\ Recovers(e)
  BY <1>3 DEF Confirms, Recovers
<1>15. RuntimeTypeOK'
  BY <1>1, <1>3, RuntimeUnchanged
<1>16. QED
  BY <1>8, <1>9, <1>11, <1>12, <1>13, <1>14, <1>15, OneEpoch

LEMMA SeenSet ==
  ASSUME NEW r \in EpochRow, NEW n \in Nat
  PROVE  LET q == [r EXCEPT !.seen = n]
         IN /\ q \in EpochRow /\ q.seen = n /\ q.state = r.state /\ q.vm = r.vm /\ q.host = r.host
            /\ q.bound = r.bound /\ q.trans = r.trans
BY DEF EpochRow

\* Evidence that is appended makes every evaluation stale.
LEMMA AppendMoves ==
  ASSUME RecoveryInv, NEW e \in Epochs, NEW k \in Kinds, NEW s \in SignalStates,
         AppendFailureObservation(e, k, s)
  PROVE  RecoveryMove
<1>n. PICK n : n = epoch[e].seen + 1
  OBVIOUS
<1>r. PICK r : r = [epoch[e] EXCEPT !.seen = n]
  OBVIOUS
<1>o. PICK o : o = signals[e] \cup {[kind |-> k, state |-> s, gen |-> n]}
  OBVIOUS
<1>1. /\ RuntimeTypeOK /\ RecoveryTablesOK /\ EpochOpen(e) /\ Evaluated(e)
  BY DEF RecoveryInv
<1>2. /\ epoch[e] \in EpochRow /\ epoch[e].seen \in Nat /\ signals[e] \in SUBSET Signal
      /\ epoch \in [Epochs -> EpochRow] /\ signals \in [Epochs -> SUBSET Signal]
  BY <1>1, EpochTyped DEF RecoveryTablesOK
<1>3. /\ epoch' = [epoch EXCEPT ![e] = r] /\ signals' = [signals EXCEPT ![e] = o]
      /\ epoch[e].state # "NONE" /\ UNCHANGED runtimeVars
      /\ UNCHANGED <<revised, budget, detached, rootSeen, safety, claim, rec>>
  BY <1>2, <1>n, <1>r, <1>o DEF AppendFailureObservation, Case
<1>4. n \in Nat
  BY <1>2, <1>n, SMTT(30)
<1>5. /\ r \in EpochRow /\ r.seen = n /\ r.state = epoch[e].state /\ r.vm = epoch[e].vm
      /\ r.host = epoch[e].host /\ r.bound = epoch[e].bound
  BY <1>2, <1>4, <1>r, SeenSet
<1>6. o \in SUBSET Signal
  <2>1. [kind |-> k, state |-> s, gen |-> n] \in Signal
    BY <1>4 DEF Signal
  <2>2. QED
    BY <1>2, <1>o, <2>1
<1>7. /\ epoch' \in [Epochs -> EpochRow] /\ signals' \in [Epochs -> SUBSET Signal]
      /\ epoch'[e] = r /\ \A x \in Epochs : x # e => epoch'[x] = epoch[x] /\ signals'[x] = signals[x]
  BY <1>2, <1>3, <1>5, <1>6
<1>8. RecoveryTablesOK'
  BY <1>1, <1>3, <1>7 DEF RecoveryTablesOK
<1>9. \A x \in Epochs : x # e => EpochKept(x)
  BY <1>3, <1>7 DEF EpochKept
<1>10. BudgetMove
  <2>1. ASSUME NEW x \in Epochs PROVE claim'[x] = claim[x] /\ epoch'[x].bound = epoch[x].bound
    BY <1>3, <1>5, <1>7
  <2>2. QED
    BY <1>1, <2>1, BudgetStays
<1>11. EpochOpen(e)'
  BY <1>1, <1>3, <1>5, <1>7 DEF EpochOpen
<1>12. Evaluated(e)'
  <2>1. safety[e].confirm.seen <= epoch[e].seen /\ safety[e].confirm.seen \in Nat
    <3>1. safety[e] \in SafetyRow
      BY <1>1, EpochTyped
    <3>2. safety[e].confirm \in Mark
      BY <3>1 DEF SafetyRow
    <3>3. QED
      BY <1>1, <3>2 DEF Evaluated, Mark
  <2>2. safety[e].confirm.seen <= n /\ safety[e].confirm.seen # n
    BY <1>2, <1>n, <2>1, SMTT(30)
  <2>3. epoch'[e].seen = n /\ safety'[e] = safety[e]
    BY <1>3, <1>5, <1>7
  <2>4. QED
    BY <2>2, <2>3 DEF Evaluated, ConfirmationStillHolds, Case
<1>13. Confirms(e) /\ Recovers(e)
  BY <1>3, <1>5, <1>7 DEF Confirms, Recovers
<1>14. RuntimeTypeOK'
  BY <1>1, <1>3, RuntimeUnchanged
<1>15. QED
  BY <1>8, <1>9, <1>10, <1>11, <1>12, <1>13, <1>14, OneEpoch
\* The safety row of e is written.
LEMMA SafetyMoves ==
  ASSUME RecoveryInv, NEW e \in Epochs, epoch[e].state # "NONE", NEW s \in SafetyRow,
         safety' = [safety EXCEPT ![e] = s],
         UNCHANGED <<runtimeVars, epoch, signals, revised, budget, detached, rootSeen, claim, rec>>,
         s.confirm = safety[e].confirm \/ Evaluated(e)'
  PROVE  RecoveryMove
<1>1. /\ RuntimeTypeOK /\ RecoveryTablesOK /\ EpochOpen(e) /\ Evaluated(e)
  BY DEF RecoveryInv
<1>2. /\ safety' \in [Epochs -> SafetyRow] /\ safety'[e] = s
      /\ \A x \in Epochs : x # e => safety'[x] = safety[x]
  BY <1>1 DEF RecoveryTablesOK
<1>3. UNCHANGED runtimeVars /\ UNCHANGED <<epoch, signals, revised, budget, detached, rootSeen, claim, rec>>
  OBVIOUS
<1>4. RecoveryTablesOK'
  BY <1>1, <1>2, <1>3 DEF RecoveryTablesOK
<1>5. RuntimeTypeOK'
  BY <1>1, <1>3, RuntimeUnchanged
<1>6. \A x \in Epochs : x # e => EpochKept(x)
  BY <1>2, <1>3 DEF EpochKept
<1>7. BudgetMove
  BY <1>1, <1>3, BudgetStays
<1>8. EpochOpen(e)'
  BY <1>1, <1>3 DEF EpochOpen
<1>9. Confirms(e) /\ Recovers(e)
  BY <1>3 DEF Confirms, Recovers
<1>10. Evaluated(e)'
  BY <1>1, <1>2, <1>3, EvaluationStays
<1>11. QED
  BY <1>4, <1>5, <1>6, <1>7, <1>8, <1>9, <1>10, OneEpoch

LEMMA MarkMade ==
  ASSUME NEW t \in Nat, NEW n \in Nat, NEW r \in Results, NEW a \in Nat, NEW p \in Nat
  PROVE  [trans |-> t, seen |-> n, result |-> r, auth |-> a, power |-> p] \in Mark
BY DEF Mark

LEMMA MarkTyped ==
  ASSUME NEW m \in Mark
  PROVE  m.trans \in Nat /\ m.seen \in Nat /\ m.result \in Results /\ m.auth \in Nat /\ m.power \in Nat
BY DEF Mark

LEMMA ZeroNat == 0 \in Nat /\ 1 \in Nat
BY SMTT(30)

LEMMA NoMarkTyped == NoMark \in Mark
BY ZeroNat DEF NoMark, Mark, Results

LEMMA SafetyTyped ==
  ASSUME NEW s \in SafetyRow
  PROVE  /\ s.confirm \in Mark /\ s.fence \in Mark /\ s.fencing \in Mark /\ s.fenceProof \in Mark
         /\ s.root \in Mark /\ s.rootProof \in Mark /\ s.store \in Mark /\ s.hosts \subseteq VMHosts
BY DEF SafetyRow

LEMMA ConfirmSet ==
  ASSUME NEW s \in SafetyRow, NEW m \in Mark
  PROVE  LET q == [s EXCEPT !.confirm = m] IN q \in SafetyRow /\ q.confirm = m
BY DEF SafetyRow

LEMMA FenceSet ==
  ASSUME NEW s \in SafetyRow, NEW m \in Mark
  PROVE  LET q == [s EXCEPT !.fence = m] IN q \in SafetyRow /\ q.confirm = s.confirm
BY DEF SafetyRow

LEMMA FencingSet ==
  ASSUME NEW s \in SafetyRow, NEW m \in Mark
  PROVE  LET q == [s EXCEPT !.fencing = m] IN q \in SafetyRow /\ q.confirm = s.confirm
BY DEF SafetyRow

LEMMA FenceProofSet ==
  ASSUME NEW s \in SafetyRow, NEW m \in Mark
  PROVE  LET q == [s EXCEPT !.fenceProof = m] IN q \in SafetyRow /\ q.confirm = s.confirm
BY DEF SafetyRow

LEMMA RootSet ==
  ASSUME NEW s \in SafetyRow, NEW m \in Mark
  PROVE  LET q == [s EXCEPT !.root = m] IN q \in SafetyRow /\ q.confirm = s.confirm
BY DEF SafetyRow

LEMMA RootProofSet ==
  ASSUME NEW s \in SafetyRow, NEW m \in Mark
  PROVE  LET q == [s EXCEPT !.rootProof = m] IN q \in SafetyRow /\ q.confirm = s.confirm
BY DEF SafetyRow

LEMMA StoreSet ==
  ASSUME NEW s \in SafetyRow, NEW m \in Mark
  PROVE  LET q == [s EXCEPT !.store = m] IN q \in SafetyRow /\ q.confirm = s.confirm
BY DEF SafetyRow

LEMMA StoreProofSet ==
  ASSUME NEW s \in SafetyRow
  PROVE  LET q == [s EXCEPT !.storeProof = TRUE] IN q \in SafetyRow /\ q.confirm = s.confirm
BY DEF SafetyRow

LEMMA DetachedSet ==
  ASSUME NEW s \in SafetyRow
  PROVE  LET q == [s EXCEPT !.retired = TRUE] IN q \in SafetyRow /\ q.confirm = s.confirm
BY DEF SafetyRow

LEMMA EligibleSet ==
  ASSUME NEW s \in SafetyRow, NEW n \in Nat, NEW H \in SUBSET VMHosts
  PROVE  LET q == [s EXCEPT !.eligible = n, !.hosts = H] IN q \in SafetyRow /\ q.confirm = s.confirm
BY DEF SafetyRow

LEMMA ResultTyped ==
  ASSUME NEW e
  PROVE  ConfirmationResult(e) \in Results
BY DEF ConfirmationResult, Results

LEMMA EvaluateConfirmationMoves ==
  ASSUME RecoveryInv, NEW e \in Epochs, EvaluateFailureConfirmation(e)
  PROVE  RecoveryMove
<1>r. PICK r : r = IF "CONFIRM" \in revised THEN "STALE_POLICY"
                   ELSE IF epoch[e].state # "SUSPECTED" THEN "STALE_EPOCH" ELSE ConfirmationResult(e)
  OBVIOUS
<1>t. PICK t : t = epoch[e].trans
  OBVIOUS
<1>n. PICK n : n = epoch[e].seen
  OBVIOUS
<1>m. PICK m : m = [NoMark EXCEPT !.trans = t, !.seen = n, !.result = r]
  OBVIOUS
<1>s. PICK s : s = [safety[e] EXCEPT !.confirm = m]
  OBVIOUS
<1>1. RecoveryTablesOK /\ safety \in [Epochs -> SafetyRow] /\ safety[e] \in SafetyRow
  BY EpochTyped DEF RecoveryInv, RecoveryTablesOK
<1>2. /\ epoch[e].state # "NONE" /\ safety' = [safety EXCEPT ![e] = s]
      /\ UNCHANGED <<runtimeVars, epoch, signals, revised, budget, detached, rootSeen, claim, rec>>
  BY <1>1, <1>r, <1>t, <1>n, <1>m, <1>s DEF EvaluateFailureConfirmation, Case
<1>3. t \in Nat /\ n \in Nat
  BY <1>1, <1>t, <1>n, EpochTyped
<1>4. r \in Results
  BY <1>r, ResultTyped DEF Results
<1>5. m \in Mark /\ m.seen = n /\ m.result = r
  BY <1>3, <1>4, <1>m, ZeroNat DEF NoMark, Mark
<1>6. s \in SafetyRow /\ s.confirm = m
  BY <1>1, <1>5, <1>s, ConfirmSet
<1>7. safety'[e].confirm = m /\ epoch'[e] = epoch[e] /\ signals'[e] = signals[e]
  BY <1>1, <1>2, <1>6
<1>8. Evaluated(e)'
  <2>1. m.seen <= epoch[e].seen
    BY <1>3, <1>5, <1>n, SMTT(30)
  <2>2. epoch[e].state = "SUSPECTED" /\ m.result = "SATISFIED" => ConfirmationResult(e) = "SATISFIED"
    BY <1>5, <1>r
  <2>3. ConfirmationResult(e)' = ConfirmationResult(e)
    BY <1>7, SameEvidence
  <2>4. QED
    BY <1>7, <2>1, <2>2, <2>3 DEF Evaluated
<1>9. QED
  BY <1>2, <1>6, <1>8, SafetyMoves
\* An epoch that is open advances.
LEMMA Advanced ==
  ASSUME RecoveryInv, NEW e \in Epochs, NEW st \in {"CONFIRMED", "FENCED", "RECOVERED"},
         epoch' = Advance(e, st), epoch[e].state # "NONE", UNCHANGED signals,
         safety'[e].confirm = safety[e].confirm
  PROVE  /\ epoch' \in [Epochs -> EpochRow] /\ epoch'[e].state = st /\ EpochOpen(e)' /\ Evaluated(e)'
         /\ \A x \in Epochs : epoch'[x].bound = epoch[x].bound
         /\ \A x \in Epochs : x # e => epoch'[x] = epoch[x]
<1>n. PICK n : n = epoch[e].trans + 1
  OBVIOUS
<1>r. PICK r : r = [epoch[e] EXCEPT !.state = st, !.trans = n]
  OBVIOUS
<1>1. /\ epoch \in [Epochs -> EpochRow] /\ epoch[e] \in EpochRow /\ epoch[e].trans \in Nat
      /\ EpochOpen(e) /\ Evaluated(e)
  BY EpochTyped DEF RecoveryInv, RecoveryTablesOK
<1>2. n \in Nat
  BY <1>1, <1>n, SMTT(30)
<1>3. epoch' = [epoch EXCEPT ![e] = r]
  BY <1>1, <1>n, <1>r DEF Advance
<1>4. /\ r \in EpochRow /\ r.state = st /\ r.vm = epoch[e].vm /\ r.host = epoch[e].host
      /\ r.seen = epoch[e].seen /\ r.bound = epoch[e].bound
  <2>1. epoch[e] \in EpochRow
    BY <1>1
  <2>2. QED
    BY <2>1, <1>2, <1>r DEF EpochRow
<1>5. epoch' \in [Epochs -> EpochRow] /\ epoch'[e] = r /\ \A x \in Epochs : x # e => epoch'[x] = epoch[x]
  BY <1>1, <1>3, <1>4
<1>6. \A x \in Epochs : epoch'[x].bound = epoch[x].bound
  BY <1>4, <1>5
<1>7. EpochOpen(e)'
  BY <1>1, <1>4, <1>5 DEF EpochOpen
<1>8. Evaluated(e)'
  BY <1>1, <1>4, <1>5 DEF Evaluated
<1>9. QED
  BY <1>4, <1>5, <1>6, <1>7, <1>8

LEMMA ConfirmMoves ==
  ASSUME RecoveryInv, NEW e \in Epochs, ConfirmFailureEpoch(e)
  PROVE  RecoveryMove
<1>t. PICK t : t = "CONFIRMED"
  OBVIOUS
<1>1. /\ safety[e].confirm.result = "SATISFIED" /\ epoch[e].state = "SUSPECTED"
      /\ ConfirmationStillHolds(e) /\ epoch' = Advance(e, t) /\ UNCHANGED runtimeVars
      /\ UNCHANGED <<signals, revised, budget, detached, rootSeen, safety, claim, rec>>
  BY <1>t DEF ConfirmFailureEpoch, Case
<1>2. RuntimeTypeOK /\ RecoveryTablesOK /\ Evaluated(e)
  BY DEF RecoveryInv
<1>3. epoch[e].state # "NONE" /\ t \in {"CONFIRMED", "FENCED", "RECOVERED"} /\ UNCHANGED signals
      /\ safety'[e].confirm = safety[e].confirm
  BY <1>1, <1>t
<1>4. /\ epoch' \in [Epochs -> EpochRow] /\ epoch'[e].state = t /\ EpochOpen(e)' /\ Evaluated(e)'
      /\ \A x \in Epochs : epoch'[x].bound = epoch[x].bound
      /\ \A x \in Epochs : x # e => epoch'[x] = epoch[x]
  BY <1>1, <1>3, Advanced
<1>5. RecoveryTablesOK'
  BY <1>1, <1>2, <1>4 DEF RecoveryTablesOK
<1>6. \A x \in Epochs : x # e => EpochKept(x)
  BY <1>1, <1>4 DEF EpochKept
<1>7. BudgetMove
  BY <1>1, <1>2, <1>4, BudgetStays
<1>8. Confirms(e) /\ Recovers(e)
  BY <1>1, <1>2 DEF Evaluated, Confirms, Recovers
<1>9. RuntimeTypeOK'
  BY <1>1, <1>2, RuntimeUnchanged
<1>10. QED
  BY <1>4, <1>5, <1>6, <1>7, <1>8, <1>9, OneEpoch

LEMMA SuspectStepMoves ==
  ASSUME RecoveryInv, NEW e \in Epochs, SuspectStep(e)
  PROVE  RecoveryMove
BY OpenMoves, AppendMoves, EvaluateConfirmationMoves, ConfirmMoves DEF SuspectStep

LEMMA PolicyStepMoves ==
  ASSUME RecoveryInv, PolicyStep
  PROVE  RecoveryMove
<1>1. RuntimeTypeOK /\ RecoveryTablesOK
  BY DEF RecoveryInv
<1>2. /\ UNCHANGED runtimeVars /\ UNCHANGED <<epoch, signals, detached, rootSeen, safety, claim, rec>>
      /\ revised' \subseteq {"CONFIRM", "FENCE", "STORE"} /\ budget' \in {budget, budget + 1}
  BY <1>1 DEF PolicyStep, PublishFailureConfirmationPolicy, PublishFailureFencingPolicy,
              PublishStorageSafetyPolicy, PublishRecoveryBudgetPolicy, RevisePolicy, RecoveryTablesOK
<1>3. budget' \in Nat
  <2>1. budget \in Nat
    BY <1>1 DEF RecoveryTablesOK
  <2>2. QED
    BY <1>2, <2>1, SMTT(30)
<1>4. RecoveryTablesOK'
  BY <1>1, <1>2, <1>3 DEF RecoveryTablesOK
<1>5. RuntimeTypeOK'
  BY <1>1, <1>2, RuntimeUnchanged
<1>6. QED
  BY <1>2, <1>4, <1>5, NoEpochMoves

LEMMA SourceStepMoves ==
  ASSUME RecoveryInv, NEW v \in VMs, SourceStep(v)
  PROVE  RecoveryMove
<1>n. PICK n : n = rootSeen[v] + 1
  OBVIOUS
<1>1. RuntimeTypeOK /\ RecoveryTablesOK /\ rootSeen \in [VMs -> Nat] /\ detached \subseteq VMs
  BY DEF RecoveryInv, RecoveryTablesOK
<1>2. /\ UNCHANGED runtimeVars /\ UNCHANGED <<epoch, signals, revised, budget, safety, claim, rec>>
      /\ rootSeen' = rootSeen \/ rootSeen' = [rootSeen EXCEPT ![v] = n]
      /\ detached' \subseteq VMs
  BY <1>1, <1>n DEF SourceStep, AcceptSourceRootSafetyObservation, DetachData
<1>3. n \in Nat
  <2>1. rootSeen[v] \in Nat
    BY <1>1
  <2>2. QED
    BY <1>n, <2>1, SMTT(30)
<1>4. rootSeen' \in [VMs -> Nat]
  BY <1>1, <1>2, <1>3
<1>5. RecoveryTablesOK'
  BY <1>1, <1>2, <1>4 DEF RecoveryTablesOK
<1>6. RuntimeTypeOK'
  BY <1>1, <1>2, RuntimeUnchanged
<1>7. QED
  BY <1>2, <1>5, <1>6, NoEpochMoves
-----------------------------------------------------------------------------
(* The source: fencing, root and storage.                                  *)

\* What an evaluation of an open epoch reads.
LEMMA SourceTyped ==
  ASSUME RecoveryInv, NEW e \in Epochs, epoch[e].state # "NONE"
  PROVE  /\ epoch[e].vm \in VMs /\ epoch[e].host \in VMHosts
         /\ authority[epoch[e].host].gen \in Nat /\ power[epoch[e].vm].gen \in Nat
         /\ rootSeen[epoch[e].vm] \in Nat /\ epoch[e].trans \in Nat
         /\ safety \in [Epochs -> SafetyRow] /\ safety[e] \in SafetyRow
<1>1. RuntimeTypeOK /\ RecoveryTablesOK /\ EpochOpen(e)
  BY DEF RecoveryInv
<1>2. epoch[e].vm \in VMs /\ epoch[e].host \in VMHosts
  BY <1>1 DEF EpochOpen
<1>3. authority[epoch[e].host] \in AuthorityRow /\ power[epoch[e].vm] \in PowerRow
  BY <1>1, <1>2, RowsTyped, AuthorityTyped
<1>4. authority[epoch[e].host].gen \in Nat /\ power[epoch[e].vm].gen \in Nat
  BY <1>3 DEF AuthorityRow, PowerRow
<1>5. rootSeen[epoch[e].vm] \in Nat
  BY <1>1, <1>2 DEF RecoveryTablesOK
<1>6. epoch[e].trans \in Nat /\ safety[e] \in SafetyRow
  BY <1>1, EpochTyped
<1>7. QED
  BY <1>1, <1>2, <1>4, <1>5, <1>6 DEF RecoveryTablesOK

LEMMA FencingObservationMoves ==
  ASSUME RecoveryInv, NEW e \in Epochs, RecordSourceExecutionFencingObservation(e)
  PROVE  RecoveryMove
<1>n. PICK n : n = safety[e].fence.seen + 1
  OBVIOUS
<1>r. PICK r : r = IF ~Fenced(Case(e).host) \/ ~(OnSource(e) /\ SourcePower(e) # NoPower) THEN "UNKNOWN"
                   ELSE IF SourcePower(e).state = "SHUTOFF" THEN "PROVEN" ELSE "NOT_PROVEN"
  OBVIOUS
<1>a. PICK a : a = IF Fenced(Case(e).host) THEN authority[Case(e).host].gen ELSE 0
  OBVIOUS
<1>p. PICK p : p = IF OnSource(e) /\ SourcePower(e) # NoPower THEN SourcePower(e).gen ELSE 0
  OBVIOUS
<1>m. PICK m : m = [trans |-> 0, seen |-> n, result |-> r, auth |-> a, power |-> p]
  OBVIOUS
<1>s. PICK s : s = [safety[e] EXCEPT !.fence = m]
  OBVIOUS
<1>1. Case(e).state = "CONFIRMED"
  BY DEF RecordSourceExecutionFencingObservation
<1>2. epoch[e].state # "NONE"
  BY <1>1 DEF Case
<1>3. /\ authority[epoch[e].host].gen \in Nat /\ power[epoch[e].vm].gen \in Nat
      /\ safety \in [Epochs -> SafetyRow] /\ safety[e] \in SafetyRow
  BY <1>2, SourceTyped
<1>4. safety' = [safety EXCEPT ![e].fence = m]
  BY <1>n, <1>r, <1>a, <1>p, <1>m, <1>3 DEF RecordSourceExecutionFencingObservation
<1>5. safety' = [safety EXCEPT ![e] = s]
  BY <1>3, <1>4, <1>s
<1>6. n \in Nat
  <2>1. safety[e].fence \in Mark
    BY <1>3, SafetyTyped
  <2>2. safety[e].fence.seen \in Nat
    BY <2>1, MarkTyped
  <2>3. QED
    BY <1>n, <2>2, SMTT(30)
<1>7. r \in Results
  BY <1>r DEF Results
<1>8. a \in Nat /\ p \in Nat
  BY <1>3, <1>a, <1>p, ZeroNat DEF Case, SourcePower
<1>9. m \in Mark
  BY <1>6, <1>7, <1>8, <1>m, ZeroNat, MarkMade
<1>10. s \in SafetyRow /\ s.confirm = safety[e].confirm
  BY <1>3, <1>9, <1>s, FenceSet
<1>11. UNCHANGED <<runtimeVars, epoch, signals, revised, budget, detached, rootSeen, claim, rec>>
  BY DEF RecordSourceExecutionFencingObservation
<1>12. QED
  BY <1>2, <1>5, <1>10, <1>11, SafetyMoves

LEMMA EvaluateFencingMoves ==
  ASSUME RecoveryInv, NEW e \in Epochs, EvaluateFailureFencing(e)
  PROVE  RecoveryMove
<1>r. PICK r : r = IF epoch[e].state # "CONFIRMED" THEN "STALE_EPOCH"
                   ELSE IF "FENCE" \in revised THEN "STALE_POLICY"
                   ELSE IF safety[e].fence.result = "NONE" THEN "NOT_PROVEN" ELSE safety[e].fence.result
  OBVIOUS
<1>t. PICK t : t = epoch[e].trans
  OBVIOUS
<1>o. PICK o : o = safety[e].fence
  OBVIOUS
<1>m. PICK m : m = [o EXCEPT !.trans = t, !.result = r]
  OBVIOUS
<1>s. PICK s : s = [safety[e] EXCEPT !.fencing = m]
  OBVIOUS
<1>1. epoch[e].state # "NONE"
  BY DEF EvaluateFailureFencing, Case
<1>2. t \in Nat /\ safety \in [Epochs -> SafetyRow] /\ safety[e] \in SafetyRow
  BY <1>1, <1>t, SourceTyped
<1>3. o \in Mark
  BY <1>2, <1>o, SafetyTyped
<1>4. r \in Results
  <2>1. safety[e].fence.result \in Results
    BY <1>3, <1>o, MarkTyped
  <2>2. QED
    BY <1>r, <2>1 DEF Results
<1>5. m \in Mark
  BY <1>2, <1>3, <1>4, <1>m DEF Mark
<1>6. safety' = [safety EXCEPT ![e] = s]
  BY <1>2, <1>r, <1>t, <1>o, <1>m, <1>s DEF EvaluateFailureFencing, Case
<1>7. s \in SafetyRow /\ s.confirm = safety[e].confirm
  BY <1>2, <1>5, <1>s, FencingSet
<1>8. UNCHANGED <<runtimeVars, epoch, signals, revised, budget, detached, rootSeen, claim, rec>>
  BY DEF EvaluateFailureFencing
<1>9. QED
  BY <1>1, <1>6, <1>7, <1>8, SafetyMoves

LEMMA FencingProofMoves ==
  ASSUME RecoveryInv, NEW e \in Epochs, MaterializeFailureFencingProof(e)
  PROVE  RecoveryMove
<1>t. PICK t : t = "FENCED"
  OBVIOUS
<1>m. PICK m : m = safety[e].fencing
  OBVIOUS
<1>s. PICK s : s = [safety[e] EXCEPT !.fenceProof = m]
  OBVIOUS
<1>1. /\ epoch[e].state = "CONFIRMED" /\ safety' = [safety EXCEPT ![e].fenceProof = m]
      /\ epoch' = Advance(e, t) /\ UNCHANGED runtimeVars
      /\ UNCHANGED <<signals, revised, budget, detached, rootSeen, claim, rec>>
  BY <1>t, <1>m DEF MaterializeFailureFencingProof, Case
<1>2. RuntimeTypeOK /\ RecoveryTablesOK
  BY DEF RecoveryInv
<1>3. safety \in [Epochs -> SafetyRow] /\ safety[e] \in SafetyRow
  BY <1>2, EpochTyped DEF RecoveryTablesOK
<1>4. m \in Mark
  BY <1>3, <1>m, SafetyTyped
<1>5. s \in SafetyRow /\ s.confirm = safety[e].confirm
  BY <1>3, <1>4, <1>s, FenceProofSet
<1>6. /\ safety' \in [Epochs -> SafetyRow] /\ safety'[e] = s
      /\ \A x \in Epochs : x # e => safety'[x] = safety[x]
  BY <1>1, <1>3, <1>5, <1>s
<1>7. epoch[e].state # "NONE" /\ t \in {"CONFIRMED", "FENCED", "RECOVERED"} /\ UNCHANGED signals
      /\ safety'[e].confirm = safety[e].confirm
  BY <1>1, <1>5, <1>6, <1>t
<1>8. /\ epoch' \in [Epochs -> EpochRow] /\ epoch'[e].state = t /\ EpochOpen(e)' /\ Evaluated(e)'
      /\ \A x \in Epochs : epoch'[x].bound = epoch[x].bound
      /\ \A x \in Epochs : x # e => epoch'[x] = epoch[x]
  BY <1>1, <1>7, Advanced
<1>9. RecoveryTablesOK'
  BY <1>1, <1>2, <1>6, <1>8 DEF RecoveryTablesOK
<1>10. \A x \in Epochs : x # e => EpochKept(x)
  BY <1>1, <1>6, <1>8 DEF EpochKept
<1>11. BudgetMove
  BY <1>1, <1>2, <1>8, BudgetStays
<1>12. Confirms(e) /\ Recovers(e)
  BY <1>1 DEF Confirms, Recovers
<1>13. RuntimeTypeOK'
  BY <1>1, <1>2, RuntimeUnchanged
<1>14. QED
  BY <1>8, <1>9, <1>10, <1>11, <1>12, <1>13, OneEpoch
LEMMA EvaluateRootMoves ==
  ASSUME RecoveryInv, NEW e \in Epochs, EvaluateSourceRootSafety(e)
  PROVE  RecoveryMove
<1>r. PICK r : r = IF ~OnSource(e) \/ rootSeen[epoch[e].vm] = 0 \/ SourcePower(e) = NoPower THEN "UNKNOWN"
                   ELSE IF epoch[e].state # "CONFIRMED" THEN "STALE_EPOCH"
                   ELSE IF SourcePower(e).state # "SHUTOFF" THEN "CONFLICTING" ELSE "SAFE"
  OBVIOUS
<1>t. PICK t : t = epoch[e].trans
  OBVIOUS
<1>n. PICK n : n = rootSeen[epoch[e].vm]
  OBVIOUS
<1>p. PICK p : p = power[epoch[e].vm].gen
  OBVIOUS
<1>m. PICK m : m = [trans |-> t, seen |-> n, result |-> r, auth |-> 0, power |-> p]
  OBVIOUS
<1>s. PICK s : s = [safety[e] EXCEPT !.root = m]
  OBVIOUS
<1>1. epoch[e].state # "NONE"
  BY DEF EvaluateSourceRootSafety, Case
<1>2. t \in Nat /\ n \in Nat /\ p \in Nat /\ safety \in [Epochs -> SafetyRow] /\ safety[e] \in SafetyRow
  BY <1>1, <1>t, <1>n, <1>p, SourceTyped
<1>3. r \in Results
  BY <1>r DEF Results
<1>4. m \in Mark
  BY <1>2, <1>3, <1>m, ZeroNat, MarkMade
<1>5. safety' = [safety EXCEPT ![e].root = m]
  <2>1. m = [trans |-> t, seen |-> n, auth |-> 0, power |-> p, result |-> r]
    BY <1>m
  <2>2. QED
    BY <1>r, <1>t, <1>n, <1>p, <2>1 DEF EvaluateSourceRootSafety, Case, SourcePower
<1>6. safety' = [safety EXCEPT ![e] = s]
  BY <1>2, <1>5, <1>s
<1>7. s \in SafetyRow /\ s.confirm = safety[e].confirm
  BY <1>2, <1>4, <1>s, RootSet
<1>8. UNCHANGED <<runtimeVars, epoch, signals, revised, budget, detached, rootSeen, claim, rec>>
  BY DEF EvaluateSourceRootSafety
<1>9. QED
  BY <1>1, <1>6, <1>7, <1>8, SafetyMoves

LEMMA RootProofMoves ==
  ASSUME RecoveryInv, NEW e \in Epochs, MaterializeSourceRootSafetyProof(e)
  PROVE  RecoveryMove
<1>m. PICK m : m = safety[e].root
  OBVIOUS
<1>s. PICK s : s = [safety[e] EXCEPT !.rootProof = m]
  OBVIOUS
<1>1. epoch[e].state # "NONE" /\ safety' = [safety EXCEPT ![e].rootProof = m]
  BY <1>m DEF MaterializeSourceRootSafetyProof, Case
<1>2. safety \in [Epochs -> SafetyRow] /\ safety[e] \in SafetyRow
  BY <1>1, SourceTyped
<1>3. m \in Mark
  BY <1>2, <1>m, SafetyTyped
<1>4. safety' = [safety EXCEPT ![e] = s]
  BY <1>1, <1>2, <1>s
<1>5. s \in SafetyRow /\ s.confirm = safety[e].confirm
  BY <1>2, <1>3, <1>s, RootProofSet
<1>6. UNCHANGED <<runtimeVars, epoch, signals, revised, budget, detached, rootSeen, claim, rec>>
  BY DEF MaterializeSourceRootSafetyProof
<1>7. QED
  BY <1>1, <1>4, <1>5, <1>6, SafetyMoves

LEMMA EvaluateStorageMoves ==
  ASSUME RecoveryInv, NEW e \in Epochs, EvaluateStorageSafety(e)
  PROVE  RecoveryMove
<1>r. PICK r : r = IF epoch[e].state # "CONFIRMED" THEN "STALE_EPOCH"
                   ELSE IF "STORE" \in revised THEN "STALE_POLICY"
                   ELSE IF RootUsable(e) /\ DataDetached(e) THEN "SAFE" ELSE "NOT_SAFE"
  OBVIOUS
<1>t. PICK t : t = epoch[e].trans
  OBVIOUS
<1>n. PICK n : n = safety[e].rootProof.seen
  OBVIOUS
<1>m. PICK m : m = [NoMark EXCEPT !.trans = t, !.seen = n, !.result = r]
  OBVIOUS
<1>s. PICK s : s = [safety[e] EXCEPT !.store = m]
  OBVIOUS
<1>1. epoch[e].state # "NONE"
  BY DEF EvaluateStorageSafety, Case
<1>2. t \in Nat /\ safety \in [Epochs -> SafetyRow] /\ safety[e] \in SafetyRow
  BY <1>1, <1>t, SourceTyped
<1>3. n \in Nat
  <2>1. safety[e].rootProof \in Mark
    BY <1>2, SafetyTyped
  <2>2. QED
    BY <1>n, <2>1, MarkTyped
<1>4. r \in Results
  BY <1>r DEF Results
<1>5. m \in Mark
  BY <1>2, <1>3, <1>4, <1>m, ZeroNat DEF NoMark, Mark
<1>6. safety' = [safety EXCEPT ![e] = s]
  BY <1>2, <1>r, <1>t, <1>n, <1>m, <1>s DEF EvaluateStorageSafety, Case
<1>7. s \in SafetyRow /\ s.confirm = safety[e].confirm
  BY <1>2, <1>5, <1>s, StoreSet
<1>8. UNCHANGED <<runtimeVars, epoch, signals, revised, budget, detached, rootSeen, claim, rec>>
  BY DEF EvaluateStorageSafety
<1>9. QED
  BY <1>1, <1>6, <1>7, <1>8, SafetyMoves

LEMMA StorageProofMoves ==
  ASSUME RecoveryInv, NEW e \in Epochs, MaterializeStorageSafetyProof(e)
  PROVE  RecoveryMove
<1>s. PICK s : s = [safety[e] EXCEPT !.storeProof = TRUE]
  OBVIOUS
<1>1. epoch[e].state # "NONE"
  BY DEF MaterializeStorageSafetyProof, Case
<1>2. safety \in [Epochs -> SafetyRow] /\ safety[e] \in SafetyRow
  BY <1>1, SourceTyped
<1>3. safety' = [safety EXCEPT ![e] = s]
  BY <1>2, <1>s DEF MaterializeStorageSafetyProof
<1>4. s \in SafetyRow /\ s.confirm = safety[e].confirm
  BY <1>2, <1>s, StoreProofSet
<1>5. UNCHANGED <<runtimeVars, epoch, signals, revised, budget, detached, rootSeen, claim, rec>>
  BY DEF MaterializeStorageSafetyProof
<1>6. QED
  BY <1>1, <1>3, <1>4, <1>5, SafetyMoves

LEMMA RetireMoves ==
  ASSUME RecoveryInv, NEW e \in Epochs, RetireSourceMaterialization(e)
  PROVE  RecoveryMove
<1>s. PICK s : s = [safety[e] EXCEPT !.retired = TRUE]
  OBVIOUS
<1>1. epoch[e].state # "NONE"
  BY DEF RetireSourceMaterialization, Case
<1>2. safety \in [Epochs -> SafetyRow] /\ safety[e] \in SafetyRow
  BY <1>1, SourceTyped
<1>3. safety' = [safety EXCEPT ![e] = s]
  BY <1>2, <1>s DEF RetireSourceMaterialization
<1>4. s \in SafetyRow /\ s.confirm = safety[e].confirm
  BY <1>2, <1>s, DetachedSet
<1>5. UNCHANGED <<runtimeVars, epoch, signals, revised, budget, detached, rootSeen, claim, rec>>
  BY DEF RetireSourceMaterialization
<1>6. QED
  BY <1>1, <1>3, <1>4, <1>5, SafetyMoves

LEMMA ProofStepMoves ==
  ASSUME RecoveryInv, NEW e \in Epochs, ProofStep(e)
  PROVE  RecoveryMove
BY FencingObservationMoves, EvaluateFencingMoves, FencingProofMoves, EvaluateRootMoves, RootProofMoves,
   EvaluateStorageMoves, StorageProofMoves, RetireMoves DEF ProofStep

LEMMA EvaluateEligibilityMoves ==
  ASSUME RecoveryInv, NEW e \in Epochs, EvaluateRecoveryEligibility(e)
  PROVE  RecoveryMove
<1>n. PICK n : n = IF RecoveryPermitted(e) THEN epoch[e].trans ELSE 0
  OBVIOUS
<1>h. PICK H : H = Destinations(e)
  OBVIOUS
<1>s. PICK s : s = [safety[e] EXCEPT !.eligible = n, !.hosts = H]
  OBVIOUS
<1>1. epoch[e].state # "NONE"
  BY DEF EvaluateRecoveryEligibility, Case
<1>2. epoch[e].trans \in Nat /\ safety \in [Epochs -> SafetyRow] /\ safety[e] \in SafetyRow
  BY <1>1, SourceTyped
<1>3. n \in Nat
  BY <1>2, <1>n, ZeroNat
<1>4. H \in SUBSET VMHosts
  BY <1>h DEF Destinations
<1>5. safety' = [safety EXCEPT ![e] = s]
  BY <1>2, <1>n, <1>h, <1>s DEF EvaluateRecoveryEligibility, Case
<1>6. s \in SafetyRow /\ s.confirm = safety[e].confirm
  BY <1>2, <1>3, <1>4, <1>s, EligibleSet
<1>7. UNCHANGED <<runtimeVars, epoch, signals, revised, budget, detached, rootSeen, claim, rec>>
  BY DEF EvaluateRecoveryEligibility
<1>8. QED
  BY <1>1, <1>5, <1>6, <1>7, SafetyMoves
-----------------------------------------------------------------------------
(* The budget and the operation.                                           *)

\* The claim of one epoch becomes active where there was room for it.
LEMMA BudgetSpent ==
  ASSUME RecoveryInv, NEW e \in Epochs, BudgetLeft(e),
         claim' = [claim EXCEPT ![e] = "RESERVED"], UNCHANGED epoch
  PROVE  BudgetMove
<1>1. claim \in [Epochs -> BudgetStates]
  BY DEF RecoveryInv, RecoveryTablesOK
<1>2. ASSUME NEW b \in Nat PROVE StaysWithin(ActiveClaims(b), ActiveClaims(b)', MaxActive)
  <2>1. ASSUME NEW x \in Epochs, x # e PROVE claim'[x] = claim[x]
    BY <1>1, <2>1
  <2>2. ActiveClaims(b)' \subseteq ActiveClaims(b) \cup {e}
    BY <2>1 DEF ActiveClaims
  <2>3. CASE epoch[e].bound = b
    <3>1. Cardinality(ActiveClaims(b)) < MaxActive
      BY <2>3 DEF BudgetLeft, Case
    <3>2. QED
      BY <2>2, <3>1 DEF StaysWithin
  <2>4. CASE epoch[e].bound # b
    <3>1. ActiveClaims(b)' \subseteq ActiveClaims(b)
      BY <2>2, <2>4 DEF ActiveClaims
    <3>2. QED
      BY <3>1 DEF StaysWithin
  <2>5. QED
    BY <2>3, <2>4
<1>3. QED
  BY <1>2 DEF BudgetMove

LEMMA DecisionMoves ==
  ASSUME RecoveryInv, NEW e \in Epochs, MaterializeRecoveryEligibilityDecision(e)
  PROVE  RecoveryMove
<1>1. /\ RuntimeTypeOK /\ RecoveryTablesOK /\ EpochOpen(e) /\ Evaluated(e) /\ claim \in [Epochs -> BudgetStates]
  BY DEF RecoveryInv, RecoveryTablesOK
<1>2. /\ epoch[e].state = "FENCED" /\ BudgetLeft(e) /\ claim' = [claim EXCEPT ![e] = "RESERVED"]
      /\ UNCHANGED runtimeVars /\ UNCHANGED <<epoch, signals, revised, budget, detached, rootSeen, safety, rec>>
  BY DEF MaterializeRecoveryEligibilityDecision, EligibilityStillHolds, Case
<1>3. /\ claim' \in [Epochs -> BudgetStates] /\ \A x \in Epochs : x # e => claim'[x] = claim[x]
  BY <1>1, <1>2 DEF BudgetStates
<1>4. RecoveryTablesOK'
  BY <1>1, <1>2, <1>3 DEF RecoveryTablesOK
<1>5. BudgetMove
  BY <1>2, BudgetSpent
<1>6. \A x \in Epochs : x # e => EpochKept(x)
  BY <1>2, <1>3 DEF EpochKept
<1>7. EpochOpen(e)'
  BY <1>1, <1>2 DEF EpochOpen
<1>8. Evaluated(e)' /\ Confirms(e)
  BY <1>1, <1>2, EvaluationStays
<1>9. Recovers(e)
  BY <1>2 DEF Recovers
<1>10. RuntimeTypeOK'
  BY <1>1, <1>2, RuntimeUnchanged
<1>11. QED
  BY <1>4, <1>5, <1>6, <1>7, <1>8, <1>9, <1>10, OneEpoch

\* The operation row of e is written, and its claim may move on.
LEMMA RecMoves ==
  ASSUME RecoveryInv, NEW e \in Epochs, epoch[e].state # "NONE", RuntimeTypeOK', NEW r \in RecRow,
         rec' = [rec EXCEPT ![e] = r], r.power /\ ~rec[e].power => FencedSource(e),
         UNCHANGED <<epoch, signals, revised, budget, detached, rootSeen, safety>>,
         claim' = claim \/ (claim[e] = "RESERVED" /\ claim' = [claim EXCEPT ![e] = "CONSUMED"])
  PROVE  RecoveryMove
<1>1. /\ RecoveryTablesOK /\ EpochOpen(e) /\ Evaluated(e)
      /\ claim \in [Epochs -> BudgetStates] /\ rec \in [Epochs -> RecRow]
  BY DEF RecoveryInv, RecoveryTablesOK
<1>2. /\ rec' \in [Epochs -> RecRow] /\ rec'[e] = r /\ \A x \in Epochs : x # e => rec'[x] = rec[x]
  BY <1>1
<1>3. /\ claim' \in [Epochs -> BudgetStates] /\ \A x \in Epochs : x # e => claim'[x] = claim[x]
      /\ \A x \in Epochs : claim'[x] \in {"RESERVED", "CONSUMED"} => claim[x] \in {"RESERVED", "CONSUMED"}
  <2>1. CASE claim' = claim
    BY <1>1, <2>1
  <2>2. CASE claim[e] = "RESERVED" /\ claim' = [claim EXCEPT ![e] = "CONSUMED"]
    BY <1>1, <2>2 DEF BudgetStates
  <2>3. QED
    BY <2>1, <2>2
<1>4. UNCHANGED <<epoch, signals, revised, budget, detached, rootSeen, safety>>
  OBVIOUS
<1>5. RecoveryTablesOK'
  BY <1>1, <1>2, <1>3, <1>4 DEF RecoveryTablesOK
<1>6. BudgetMove
  BY <1>1, <1>3, <1>4, BudgetStays
<1>7. \A x \in Epochs : x # e => EpochKept(x)
  BY <1>2, <1>3, <1>4 DEF EpochKept
<1>8. EpochOpen(e)'
  BY <1>1, <1>4 DEF EpochOpen
<1>9. Evaluated(e)' /\ Confirms(e)
  BY <1>1, <1>4, EvaluationStays
<1>10. Recovers(e)
  BY <1>2, <1>4 DEF Recovers
<1>11. QED
  BY <1>5, <1>6, <1>7, <1>8, <1>9, <1>10, OneEpoch
LEMMA RecOnlyMoves ==
  ASSUME RecoveryInv, NEW e \in Epochs, epoch[e].state # "NONE", NEW r \in RecRow,
         rec' = [rec EXCEPT ![e] = r], r.power = rec[e].power,
         UNCHANGED <<runtimeVars, epoch, signals, revised, budget, detached, rootSeen, safety, claim>>
  PROVE  RecoveryMove
<1>1. UNCHANGED runtimeVars /\ UNCHANGED <<epoch, signals, revised, budget, detached, rootSeen, safety>> /\ claim' = claim
  OBVIOUS
<1>2. RuntimeTypeOK'
  BY <1>1, RuntimeUnchanged DEF RecoveryInv
<1>3. r.power /\ ~rec[e].power => FencedSource(e)
  OBVIOUS
<1>4. QED
  BY <1>1, <1>2, <1>3, RecMoves

LEMMA RecOpen ==
  ASSUME RecoveryInv, NEW e \in Epochs,
         \/ rec[e].state # "NONE" \/ rec[e].plan # 0 \/ rec[e].marker # "NONE" \/ rec[e].power
         \/ claim[e] # "NONE"
  PROVE  epoch[e].state # "NONE"
<1>1. NoRec.state = "NONE" /\ NoRec.plan = 0 /\ NoRec.marker = "NONE" /\ NoRec.power = FALSE
  BY DEF NoRec
<1>2. EpochOpen(e)
  BY DEF RecoveryInv
<1>3. QED
  BY <1>1, <1>2 DEF EpochOpen

LEMMA RecTyped ==
  ASSUME RecoveryInv, NEW e \in Epochs
  PROVE  rec \in [Epochs -> RecRow] /\ rec[e] \in RecRow /\ rec[e].gen \in Nat
<1>1. rec \in [Epochs -> RecRow] /\ rec[e] \in RecRow
  BY EpochTyped DEF RecoveryInv, RecoveryTablesOK
<1>2. QED
  BY <1>1 DEF RecRow

RecStates == {"REQUESTED", "PLANNED", "RUNNING", "VERIFYING", "UNKNOWN", "VERIFIED"}

LEMMA RecStateSet ==
  ASSUME NEW r \in RecRow, NEW s \in RecStates, NEW n \in Nat
  PROVE  LET q == [r EXCEPT !.state = s, !.gen = n] IN q \in RecRow /\ q.power = r.power
BY DEF RecRow, RecStates

LEMMA RecoveryToRow ==
  ASSUME RecoveryInv, NEW e \in Epochs, NEW s \in RecStates
  PROVE  \E r \in RecRow : RecoveryTo(e, s) = [rec EXCEPT ![e] = r] /\ r.power = rec[e].power
<1>n. PICK n : n = rec[e].gen + 1
  OBVIOUS
<1>r. PICK r : r = [rec[e] EXCEPT !.state = s, !.gen = n]
  OBVIOUS
<1>1. rec \in [Epochs -> RecRow] /\ rec[e] \in RecRow /\ rec[e].gen \in Nat
  BY RecTyped
<1>2. n \in Nat
  BY <1>1, <1>n, SMTT(30)
<1>3. rec[e] \in RecRow
  BY <1>1
<1>4. r \in RecRow /\ r.power = rec[e].power
  BY <1>2, <1>3, <1>r, RecStateSet
<1>5. RecoveryTo(e, s) = [rec EXCEPT ![e] = r]
  BY <1>1, <1>n, <1>r DEF RecoveryTo
<1>6. QED
  BY <1>4, <1>5

LEMMA RequestMoves ==
  ASSUME RecoveryInv, NEW e \in Epochs, RecordRecoveryOperationRequest(e)
  PROVE  RecoveryMove
<1>r. PICK r : r = [rec[e] EXCEPT !.state = "REQUESTED"]
  OBVIOUS
<1>1. epoch[e].state # "NONE"
  BY RecOpen DEF RecordRecoveryOperationRequest
<1>2. rec \in [Epochs -> RecRow] /\ rec[e] \in RecRow
  BY RecTyped
<1>3. rec' = [rec EXCEPT ![e] = r]
  BY <1>2, <1>r DEF RecordRecoveryOperationRequest
<1>4. r \in RecRow /\ r.power = rec[e].power
  BY <1>2, <1>r DEF RecRow
<1>5. UNCHANGED <<runtimeVars, epoch, signals, revised, budget, detached, rootSeen, safety, claim>>
  BY DEF RecordRecoveryOperationRequest
<1>6. QED
  BY <1>1, <1>3, <1>4, <1>5, RecOnlyMoves

LEMMA PlanMoves ==
  ASSUME RecoveryInv, NEW e \in Epochs, NEW h \in VMHosts, PlanRecoveryOperation(e, h)
  PROVE  RecoveryMove
<1>r. PICK r : r = [rec[e] EXCEPT !.state = "PLANNED", !.gen = 1, !.dest = h]
  OBVIOUS
<1>1. epoch[e].state # "NONE"
  BY RecOpen DEF PlanRecoveryOperation
<1>2. rec \in [Epochs -> RecRow] /\ rec[e] \in RecRow
  BY RecTyped
<1>3. rec' = [rec EXCEPT ![e] = r]
  BY <1>2, <1>r DEF PlanRecoveryOperation
<1>4. r \in RecRow /\ r.power = rec[e].power
  BY <1>2, <1>r, ZeroNat DEF RecRow
<1>5. UNCHANGED <<runtimeVars, epoch, signals, revised, budget, detached, rootSeen, safety, claim>>
  BY DEF PlanRecoveryOperation
<1>6. QED
  BY <1>1, <1>3, <1>4, <1>5, RecOnlyMoves

LEMMA StartRecoveryMoves ==
  ASSUME RecoveryInv, NEW e \in Epochs, StartRecoveryOperation(e)
  PROVE  RecoveryMove
<1>v. PICK v : v = epoch[e].vm
  OBVIOUS
<1>h. PICK h : h = rec[e].dest
  OBVIOUS
<1>t. PICK t : t = "RUNNING"
  OBVIOUS
<1>c. PICK c : c = [claims[v] EXCEPT ![epoch[e].host] = "RELEASED", ![h] = "RESERVED"]
  OBVIOUS
<1>1. /\ epoch[e].state = "FENCED" /\ claim[e] = "RESERVED" /\ h \in Destinations(e)
      /\ claims' = [claims EXCEPT ![v] = c] /\ attach' = [attach EXCEPT ![v][h] = "RESERVED"]
      /\ claim' = [claim EXCEPT ![e] = "CONSUMED"]
      /\ rec' = [RecoveryTo(e, t) EXCEPT ![e].marker = "PENDING"]
      /\ UNCHANGED <<authority, machine, defined, ready, realized, dataplane, power, commands, evidence, domain>>
      /\ UNCHANGED <<epoch, signals, revised, budget, detached, rootSeen, safety>>
  BY <1>v, <1>h, <1>t, <1>c DEF StartRecoveryOperation, Case
<1>2. RuntimeTypeOK /\ EpochOpen(e)
  BY DEF RecoveryInv
<1>3. v \in VMs /\ h \in VMHosts
  BY <1>1, <1>2, <1>v DEF EpochOpen, Destinations
<1>4. /\ claims \in [VMs -> [VMHosts -> ClaimStates]] /\ attach \in [VMs -> [VMHosts -> ClaimStates]]
      /\ "RESERVED" \in ClaimStates /\ "RELEASED" \in ClaimStates
  BY <1>2 DEF RuntimeTypeOK, ClaimStates
<1>5. c \in [VMHosts -> ClaimStates]
  BY <1>3, <1>4, <1>c
<1>6. claims' \in [VMs -> [VMHosts -> ClaimStates]] /\ attach' \in [VMs -> [VMHosts -> ClaimStates]]
  BY <1>1, <1>4, <1>5, Updated, UpdatedTwice
<1>7. RuntimeTypeOK'
  BY <1>1, <1>2, <1>6 DEF RuntimeTypeOK
<1>8. t \in RecStates
  BY <1>t DEF RecStates
<1>9. PICK q \in RecRow : RecoveryTo(e, t) = [rec EXCEPT ![e] = q] /\ q.power = rec[e].power
  BY <1>8, RecoveryToRow
<1>r. PICK r : r = [q EXCEPT !.marker = "PENDING"]
  OBVIOUS
<1>10. r \in RecRow /\ r.power = q.power
  BY <1>r DEF RecRow
<1>11. rec' = [rec EXCEPT ![e] = r]
  <2>1. rec \in [Epochs -> RecRow]
    BY RecTyped
  <2>2. rec' = [[rec EXCEPT ![e] = q] EXCEPT ![e].marker = "PENDING"]
    BY <1>1, <1>9
  <2>3. QED
    BY <1>r, <2>1, <2>2
<1>12. r.power /\ ~rec[e].power => FencedSource(e)
  BY <1>9, <1>10
<1>13. epoch[e].state # "NONE"
  BY <1>1
<1>14. QED
  BY <1>1, <1>7, <1>10, <1>11, <1>12, <1>13, RecMoves

LEMMA DecideStepMoves ==
  ASSUME RecoveryInv, NEW e \in Epochs, DecideStep(e)
  PROVE  RecoveryMove
BY EvaluateEligibilityMoves, DecisionMoves, RequestMoves, PlanMoves, StartRecoveryMoves DEF DecideStep
-----------------------------------------------------------------------------
(* The rebuild on the destination.                                         *)

LEMMA MarkerMoves ==
  ASSUME RecoveryInv, NEW e \in Epochs, NEW s \in {"UNKNOWN", "MATCHED"}, MarkerAnswered(e, s)
  PROVE  RecoveryMove
<1>r. PICK r : r = [rec[e] EXCEPT !.marker = s]
  OBVIOUS
<1>1. rec[e].marker # "NONE"
  BY DEF MarkerAnswered
<1>2. epoch[e].state # "NONE"
  BY <1>1, RecOpen
<1>3. rec \in [Epochs -> RecRow] /\ rec[e] \in RecRow
  BY RecTyped
<1>4. rec' = [rec EXCEPT ![e] = r]
  BY <1>3, <1>r DEF MarkerAnswered
<1>5. r \in RecRow /\ r.power = rec[e].power
  BY <1>3, <1>r DEF RecRow
<1>6. UNCHANGED <<runtimeVars, epoch, signals, revised, budget, detached, rootSeen, safety, claim>>
  BY DEF MarkerAnswered
<1>7. QED
  BY <1>2, <1>4, <1>5, <1>6, RecOnlyMoves

\* The state of the operation follows its marker, or its power command.
LEMMA RefreshMoves ==
  ASSUME RecoveryInv, NEW e \in Epochs,
         RefreshRecoveryOperationExecution(e) \/ RefreshRecoveryPowerExecution(e)
  PROVE  RecoveryMove
<1>1. PICK s \in {"UNKNOWN", "VERIFYING"} : rec' = RecoveryTo(e, s)
  BY DEF RefreshRecoveryOperationExecution, RefreshRecoveryPowerExecution
<1>2. rec[e].state # "NONE"
  BY DEF RefreshRecoveryOperationExecution, RefreshRecoveryPowerExecution, Ongoing
<1>3. epoch[e].state # "NONE"
  BY <1>2, RecOpen
<1>4. s \in RecStates
  BY DEF RecStates
<1>5. PICK r \in RecRow : RecoveryTo(e, s) = [rec EXCEPT ![e] = r] /\ r.power = rec[e].power
  BY <1>4, RecoveryToRow
<1>6. rec' = [rec EXCEPT ![e] = r] /\ r.power = rec[e].power
  BY <1>1, <1>5
<1>7. UNCHANGED <<runtimeVars, epoch, signals, revised, budget, detached, rootSeen, safety, claim>>
  BY DEF RefreshRecoveryOperationExecution, RefreshRecoveryPowerExecution
<1>8. QED
  BY <1>3, <1>6, <1>7, RecOnlyMoves

LEMMA CopyMoves ==
  ASSUME RecoveryInv, NEW e \in Epochs, PrepareRecoveryLocalLVMDataCopy(e)
  PROVE  RecoveryMove
<1>r. PICK r : r = [rec[e] EXCEPT !.copied = TRUE]
  OBVIOUS
<1>1. rec[e].state # "NONE"
  BY DEF PrepareRecoveryLocalLVMDataCopy, Ongoing
<1>2. epoch[e].state # "NONE"
  BY <1>1, RecOpen
<1>3. rec \in [Epochs -> RecRow] /\ rec[e] \in RecRow
  BY RecTyped
<1>4. rec' = [rec EXCEPT ![e] = r]
  BY <1>3, <1>r DEF PrepareRecoveryLocalLVMDataCopy
<1>5. r \in RecRow /\ r.power = rec[e].power
  BY <1>3, <1>r DEF RecRow
<1>6. UNCHANGED <<runtimeVars, epoch, signals, revised, budget, detached, rootSeen, safety, claim>>
  BY DEF PrepareRecoveryLocalLVMDataCopy
<1>7. QED
  BY <1>2, <1>4, <1>5, <1>6, RecOnlyMoves

LEMMA DangerousMoves ==
  ASSUME RecoveryInv, NEW e \in Epochs, EvaluateRecoveryDangerousStep(e)
  PROVE  RecoveryMove
<1>1. rec \in [Epochs -> RecRow] /\ rec[e] \in RecRow /\ rec[e].gen \in Nat
  BY RecTyped
<1>2. PICK n \in {rec[e].gen, 0} : rec' = [rec EXCEPT ![e].danger = n]
  BY DEF EvaluateRecoveryDangerousStep
<1>r. PICK r : r = [rec[e] EXCEPT !.danger = n]
  OBVIOUS
<1>3. n \in Nat
  BY <1>1, ZeroNat
<1>4. rec[e].state # "NONE"
  BY DEF EvaluateRecoveryDangerousStep
<1>5. epoch[e].state # "NONE"
  BY <1>4, RecOpen
<1>6. rec' = [rec EXCEPT ![e] = r]
  BY <1>1, <1>2, <1>r
<1>7. r \in RecRow /\ r.power = rec[e].power
  BY <1>1, <1>3, <1>r DEF RecRow
<1>8. UNCHANGED <<runtimeVars, epoch, signals, revised, budget, detached, rootSeen, safety, claim>>
  BY DEF EvaluateRecoveryDangerousStep
<1>9. QED
  BY <1>5, <1>6, <1>7, <1>8, RecOnlyMoves

LEMMA VerificationMoves ==
  ASSUME RecoveryInv, NEW e \in Epochs, EvaluateRecoveryVerification(e)
  PROVE  RecoveryMove
<1>t. PICK t : t = rec[e].gen
  OBVIOUS
<1>p. PICK p : p = power[epoch[e].vm].gen
  OBVIOUS
<1>m. PICK m : m = [NoMark EXCEPT !.trans = t, !.result = "VERIFIED", !.power = p]
  OBVIOUS
<1>r. PICK r : r = [rec[e] EXCEPT !.verdict = m]
  OBVIOUS
<1>1. rec[e].state # "NONE"
  BY DEF EvaluateRecoveryVerification
<1>2. epoch[e].state # "NONE"
  BY <1>1, RecOpen
<1>3. rec \in [Epochs -> RecRow] /\ rec[e] \in RecRow /\ t \in Nat
  BY <1>t, RecTyped
<1>4. p \in Nat
  BY <1>2, <1>p, SourceTyped
<1>5. m \in Mark
  BY <1>3, <1>4, <1>m, ZeroNat DEF NoMark, Mark, Results
<1>6. rec' = [rec EXCEPT ![e] = r]
  BY <1>3, <1>t, <1>p, <1>m, <1>r DEF EvaluateRecoveryVerification, Case
<1>7. r \in RecRow /\ r.power = rec[e].power
  BY <1>3, <1>5, <1>r DEF RecRow
<1>8. UNCHANGED <<runtimeVars, epoch, signals, revised, budget, detached, rootSeen, safety, claim>>
  BY DEF EvaluateRecoveryVerification
<1>9. QED
  BY <1>2, <1>6, <1>7, <1>8, RecOnlyMoves

\* The proofs that a dangerous step reads again say what the property asks.
LEMMA UsableFenced ==
  ASSUME NEW e \in Epochs, ProofsUsable(e)
  PROVE  FencedSource(e)
BY DEF ProofsUsable, SourceFencingUsable, FencedSource, Fenced, Case
LEMMA PreparedRow ==
  ASSUME NEW h \in VMHosts, NEW n \in Nat
  PROVE  [NoMachine EXCEPT !.life = "PENDING", !.host = h, !.plan = n] \in MachineRow
BY DEF NoMachine, MachineRow

LEMMA MaterializationMoves ==
  ASSUME RecoveryInv, NEW e \in Epochs, PrepareRecoveryMaterialization(e)
  PROVE  RecoveryMove
<1>v. PICK v : v = epoch[e].vm
  OBVIOUS
<1>h. PICK h : h = rec[e].dest
  OBVIOUS
<1>n. PICK n : n = machine[v].plan + 1
  OBVIOUS
<1>m. PICK m : m = [NoMachine EXCEPT !.life = "PENDING", !.host = h, !.plan = n]
  OBVIOUS
<1>r. PICK r : r = [rec[e] EXCEPT !.plan = n]
  OBVIOUS
<1>1. /\ rec[e].state # "NONE" /\ h \in VMHosts /\ machine' = [machine EXCEPT ![v] = m]
      /\ defined' = [defined EXCEPT ![v] = 0] /\ ready' = [ready EXCEPT ![v] = NotReady]
      /\ power' = [power EXCEPT ![v] = NoPower] /\ realized' = [realized EXCEPT ![v] = {}]
      /\ rec' = [rec EXCEPT ![e].plan = n]
      /\ UNCHANGED <<claims, attach, authority, dataplane, commands, evidence, domain>>
      /\ UNCHANGED <<epoch, signals, revised, budget, detached, rootSeen, safety>> /\ claim' = claim
  BY <1>v, <1>h, <1>n, <1>m DEF PrepareRecoveryMaterialization, Ongoing, PowerAuthority, Case
<1>2. epoch[e].state # "NONE"
  BY <1>1, RecOpen
<1>3. v \in VMs
  BY <1>2, <1>v, SourceTyped
<1>4. RuntimeTypeOK
  BY DEF RecoveryInv
<1>5. /\ machine \in [VMs -> MachineRow] /\ machine[v] \in MachineRow /\ ready \in [VMs -> ReadyRow]
      /\ power \in [VMs -> PowerRow] /\ defined \in [VMs -> Attempts \cup {0}]
      /\ realized \in [VMs -> SUBSET AllPorts] /\ \A w \in VMs : realized[w] \subseteq PortsOf[w]
  BY <1>3, <1>4 DEF RuntimeTypeOK
<1>6. n \in Nat
  <2>1. machine[v].plan \in Nat
    BY <1>5, MachineFields
  <2>2. QED
    BY <1>n, <2>1, SMTT(30)
<1>7. m \in MachineRow
  BY <1>1, <1>6, <1>m, PreparedRow
<1>8. NotReady \in ReadyRow /\ NoPower \in PowerRow
  BY ZeroNat DEF NotReady, ReadyRow, NoPower, PowerRow
<1>9. /\ machine' \in [VMs -> MachineRow] /\ ready' \in [VMs -> ReadyRow] /\ power' \in [VMs -> PowerRow]
  BY <1>1, <1>5, <1>7, <1>8, Updated
<1>10. defined' \in [VMs -> Attempts \cup {0}] /\ realized' \in [VMs -> SUBSET AllPorts]
  BY <1>1, <1>5
<1>11. \A w \in VMs : realized'[w] \subseteq PortsOf[w]
  BY <1>1, <1>5
<1>12. RuntimeTypeOK'
  BY <1>1, <1>4, <1>9, <1>10, <1>11 DEF RuntimeTypeOK
<1>13. rec \in [Epochs -> RecRow] /\ rec[e] \in RecRow
  BY RecTyped
<1>14. rec' = [rec EXCEPT ![e] = r]
  BY <1>1, <1>13, <1>r
<1>15. r \in RecRow /\ r.power = rec[e].power
  BY <1>6, <1>13, <1>r DEF RecRow
<1>16. r.power /\ ~rec[e].power => FencedSource(e)
  BY <1>15
<1>17. QED
  BY <1>1, <1>2, <1>12, <1>14, <1>15, <1>16, RecMoves

\* Steps of a recovery that write the runtime alone.
LEMMA RuntimeAloneMoves ==
  ASSUME RecoveryInv, RuntimeTypeOK', UNCHANGED recoveryVars
  PROVE  RecoveryMove
<1>1. UNCHANGED <<epoch, signals, revised, budget, detached, rootSeen, safety, claim, rec>>
  BY DEF recoveryVars
<1>2. RecoveryTablesOK'
  BY <1>1 DEF RecoveryInv, RecoveryTablesOK
<1>3. QED
  BY <1>1, <1>2, NoEpochMoves

LEMMA NoNetworkMoves ==
  ASSUME RecoveryInv, NEW e \in Epochs, MarkRecoveryNoNetworkReady(e)
  PROVE  RecoveryMove
<1>v. PICK v : v = epoch[e].vm
  OBVIOUS
<1>r. PICK r : r = [ready[v] EXCEPT !.boot = "READY"]
  OBVIOUS
<1>1. /\ rec[e].plan # 0 /\ ready' = [ready EXCEPT ![v].boot = "READY"] /\ UNCHANGED recoveryVars
      /\ UNCHANGED <<claims, attach, authority, machine, defined, realized, dataplane, power,
                     commands, evidence, domain>>
  BY <1>v DEF MarkRecoveryNoNetworkReady, AtDestination, Case
<1>2. epoch[e].state # "NONE"
  BY <1>1, RecOpen
<1>3. v \in VMs /\ RuntimeTypeOK
  BY <1>2, <1>v, SourceTyped DEF RecoveryInv
<1>4. ready \in [VMs -> ReadyRow] /\ ready[v] \in ReadyRow
  BY <1>3 DEF RuntimeTypeOK
<1>5. ready' = [ready EXCEPT ![v] = r] /\ r \in ReadyRow
  BY <1>1, <1>4, <1>r, ReadyFields
<1>6. ready' \in [VMs -> ReadyRow]
  BY <1>4, <1>5, Updated
<1>7. RuntimeTypeOK'
  BY <1>1, <1>3, <1>6 DEF RuntimeTypeOK
<1>8. QED
  BY <1>1, <1>7, RuntimeAloneMoves

LEMMA RecoveredPortMoves ==
  ASSUME RecoveryInv, NEW e \in Epochs, epoch[e].state # "NONE", NEW p \in PortsOf[epoch[e].vm],
         AcceptRecoveryPortRealization(e, p)
  PROVE  RecoveryMove
<1>v. PICK v : v = epoch[e].vm
  OBVIOUS
<1>a. PICK ports : ports = realized[v] \cup {p}
  OBVIOUS
<1>b. PICK b : b = IF AllRealized(v, ports) THEN "READY" ELSE ready[v].boot
  OBVIOUS
<1>r. PICK r : r = [ready[v] EXCEPT !.boot = b]
  OBVIOUS
<1>1. v \in VMs /\ RuntimeTypeOK
  BY <1>v, SourceTyped DEF RecoveryInv
<1>2. /\ ready \in [VMs -> ReadyRow] /\ ready[v] \in ReadyRow
      /\ realized \in [VMs -> SUBSET AllPorts] /\ realized[v] \in SUBSET AllPorts
      /\ \A w \in VMs : realized[w] \subseteq PortsOf[w]
  BY <1>1 DEF RuntimeTypeOK
<1>3. /\ realized' = [realized EXCEPT ![v] = ports] /\ ready' = [ready EXCEPT ![v] = r]
      /\ UNCHANGED <<claims, attach, authority, machine, defined, dataplane, power, commands, evidence, domain>>
      /\ UNCHANGED recoveryVars
  BY <1>2, <1>v, <1>a, <1>b, <1>r DEF AcceptRecoveryPortRealization, Case
<1>4. ports \in SUBSET AllPorts /\ ports \subseteq PortsOf[v]
  BY <1>1, <1>2, <1>v, <1>a, PortsListed
<1>5. r \in ReadyRow
  <2>1. b \in {"NONE", "BLOCKED", "READY"}
    BY <1>2, <1>b, ReadyFields
  <2>2. QED
    BY <1>2, <1>r, <2>1 DEF ReadyRow
<1>6. ready' \in [VMs -> ReadyRow] /\ realized' \in [VMs -> SUBSET AllPorts]
  BY <1>2, <1>3, <1>4, <1>5, Updated
<1>7. \A w \in VMs : realized'[w] \subseteq PortsOf[w]
  BY <1>2, <1>3, <1>4
<1>8. RuntimeTypeOK'
  BY <1>1, <1>3, <1>6, <1>7 DEF RuntimeTypeOK
<1>9. QED
  BY <1>3, <1>8, RuntimeAloneMoves
LEMMA PowerOnMoves ==
  ASSUME RecoveryInv, NEW e \in Epochs, NEW n \in Attempts, AuthorizeRecoveryPowerOn(e, n)
  PROVE  RecoveryMove
<1>v. PICK v : v = epoch[e].vm
  OBVIOUS
<1>h. PICK h : h = rec[e].dest
  OBVIOUS
<1>r. PICK r : r = [rec[e] EXCEPT !.power = TRUE]
  OBVIOUS
<1>1. /\ rec[e].state # "NONE" /\ h \in VMHosts /\ ProofsUsable(e)
      /\ CreatePowerCommand(v, h, "RUNNING", n, "RECOVERY")
      /\ UNCHANGED <<claims, attach, authority, defined, ready, realized, dataplane, power, evidence, domain>>
      /\ UNCHANGED <<epoch, signals, revised, budget, detached, rootSeen, safety>> /\ claim' = claim
  BY <1>v, <1>h DEF AuthorizeRecoveryPowerOn, Ongoing, PowerAuthority, Case
<1>2. epoch[e].state # "NONE"
  BY <1>1, RecOpen
<1>3. v \in VMs /\ RuntimeTypeOK
  BY <1>2, <1>v, SourceTyped DEF RecoveryInv
<1>4. n \in Nat /\ "RECOVERY" \in Callers
  BY RuntimeAssumption DEF Callers
<1>5. machine' \in [VMs -> MachineRow] /\ commands' \subseteq PowerCommand
  BY <1>1, <1>3, <1>4, PowerCommanded
<1>6. RuntimeTypeOK'
  BY <1>1, <1>3, <1>5 DEF RuntimeTypeOK
<1>7. rec \in [Epochs -> RecRow] /\ rec[e] \in RecRow
  BY RecTyped
<1>8. rec' = [rec EXCEPT ![e] = r]
  BY <1>7, <1>r DEF AuthorizeRecoveryPowerOn
<1>9. r \in RecRow
  BY <1>7, <1>r DEF RecRow
<1>10. r.power /\ ~rec[e].power => FencedSource(e)
  BY <1>1, UsableFenced
<1>11. QED
  BY <1>1, <1>2, <1>6, <1>8, <1>9, <1>10, RecMoves

LEMMA CommitMoves ==
  ASSUME RecoveryInv, NEW e \in Epochs, CommitRecoveryTerminalDecision(e)
  PROVE  RecoveryMove
<1>t. PICK t : t = "RECOVERED"
  OBVIOUS
<1>u. PICK u : u = "VERIFIED"
  OBVIOUS
<1>1. /\ epoch[e].state = "FENCED" /\ ProofsUsable(e) /\ epoch' = Advance(e, t) /\ rec' = RecoveryTo(e, u)
      /\ claim' = [claim EXCEPT ![e] = "RELEASED"] /\ UNCHANGED runtimeVars
      /\ UNCHANGED <<signals, revised, budget, detached, rootSeen, safety>>
  BY <1>t, <1>u DEF CommitRecoveryTerminalDecision, VerificationStillHolds, Case
<1>2. RuntimeTypeOK /\ RecoveryTablesOK /\ claim \in [Epochs -> BudgetStates]
  BY DEF RecoveryInv, RecoveryTablesOK
<1>3. epoch[e].state # "NONE" /\ t \in {"CONFIRMED", "FENCED", "RECOVERED"} /\ UNCHANGED signals
      /\ safety'[e].confirm = safety[e].confirm
  BY <1>1, <1>t
<1>4. /\ epoch' \in [Epochs -> EpochRow] /\ epoch'[e].state = t /\ EpochOpen(e)' /\ Evaluated(e)'
      /\ \A x \in Epochs : epoch'[x].bound = epoch[x].bound
      /\ \A x \in Epochs : x # e => epoch'[x] = epoch[x]
  BY <1>1, <1>3, Advanced
<1>5. u \in RecStates
  BY <1>u DEF RecStates
<1>6. PICK r \in RecRow : RecoveryTo(e, u) = [rec EXCEPT ![e] = r] /\ r.power = rec[e].power
  BY <1>5, RecoveryToRow
<1>7. rec' \in [Epochs -> RecRow] /\ \A x \in Epochs : x # e => rec'[x] = rec[x]
  <2>1. rec \in [Epochs -> RecRow]
    BY RecTyped
  <2>2. QED
    BY <1>1, <1>6, <2>1
<1>8. /\ claim' \in [Epochs -> BudgetStates] /\ claim'[e] = "RELEASED"
      /\ \A x \in Epochs : x # e => claim'[x] = claim[x]
  BY <1>1, <1>2 DEF BudgetStates
<1>9. RecoveryTablesOK'
  BY <1>1, <1>2, <1>4, <1>7, <1>8 DEF RecoveryTablesOK
<1>10. \A x \in Epochs : x # e => EpochKept(x)
  BY <1>1, <1>4, <1>7, <1>8 DEF EpochKept
<1>11. BudgetMove
  <2>1. ASSUME NEW x \in Epochs, claim'[x] \in {"RESERVED", "CONSUMED"}
        PROVE  claim[x] \in {"RESERVED", "CONSUMED"} /\ epoch'[x].bound = epoch[x].bound
    <3>1. x # e
      BY <1>8, <2>1
    <3>2. QED
      BY <1>4, <1>8, <2>1, <3>1
  <2>2. QED
    BY <1>2, <2>1, BudgetStays
<1>12. Confirms(e) /\ Recovers(e)
  BY <1>1, UsableFenced DEF Confirms, Recovers
<1>13. RuntimeTypeOK'
  BY <1>1, <1>2, RuntimeUnchanged
<1>14. QED
  BY <1>4, <1>9, <1>10, <1>11, <1>12, <1>13, OneEpoch

LEMMA RebuildStepMoves ==
  ASSUME RecoveryInv, NEW e \in Epochs, RebuildStep(e)
  PROVE  RecoveryMove
BY MarkerMoves, RefreshMoves, CopyMoves, MaterializationMoves, NoNetworkMoves, RecoveredPortMoves,
   DangerousMoves, PowerOnMoves, VerificationMoves, CommitMoves DEF RebuildStep, Case

LEMMA BesideMoves ==
  ASSUME RecoveryInv, BesideRecovery
  PROVE  RecoveryMove
<1>1. RuntimeTypeOK /\ UNCHANGED recoveryVars
  BY DEF RecoveryInv, BesideRecovery
<1>2. ASSUME NEW h \in VMHosts, LoseAuthority(h) \/ Rearm(h) PROVE RuntimeTypeOK'
  BY <1>1, <1>2, AuthorityStep
<1>3. ASSUME NEW v \in VMs, Materialize(v) PROVE RuntimeTypeOK'
  BY <1>1, <1>3, DefineStepRows, DefinitionStepRows, ImageStep DEF Materialize
<1>4. ASSUME NEW v \in VMs, Operate(v) PROVE RuntimeTypeOK'
  BY <1>1, <1>4, PortStep, DataplaneStep, PowerStep DEF Operate
<1>5. ASSUME RunCommands PROVE RuntimeTypeOK'
  BY <1>1, <1>5, LeaseStep, ExecuteStepRows, CheckStepRows, ProjectStepRows DEF RunCommands
<1>6. RuntimeTypeOK'
  BY <1>2, <1>3, <1>4, <1>5 DEF BesideRecovery
<1>7. QED
  BY <1>1, <1>6, RuntimeAloneMoves

LEMMA PlacementMoves ==
  ASSUME RecoveryInv, NEW v \in VMs, NEW h \in VMHosts, FirstPlacement(v, h)
  PROVE  RecoveryMove
<1>1. RuntimeTypeOK /\ UNCHANGED recoveryVars /\ (AdmitVM(v, h) \/ PrepareVMMaterialization(v, h))
  BY DEF RecoveryInv, FirstPlacement
<1>2. RuntimeTypeOK'
  BY <1>1, AdmitStep, PrepareStepRows
<1>3. QED
  BY <1>1, <1>2, RuntimeAloneMoves

LEMMA RecoveryStep ==
  ASSUME RecoveryInv, [RecoveryNext]_recoveryAllVars
  PROVE  RecoveryMove
<1>1. CASE RecoveryNext
  BY <1>1, SuspectStepMoves, ProofStepMoves, DecideStepMoves, RebuildStepMoves, SourceStepMoves,
     PolicyStepMoves, PlacementMoves, BesideMoves DEF RecoveryNext
<1>2. CASE UNCHANGED recoveryAllVars
  <2>1. UNCHANGED runtimeVars /\ UNCHANGED recoveryVars
    BY <1>2 DEF recoveryAllVars
  <2>2. RuntimeTypeOK'
    BY <2>1, RuntimeUnchanged DEF RecoveryInv
  <2>3. QED
    BY <2>1, <2>2, RuntimeAloneMoves
<1>3. QED
  BY <1>1, <1>2
-----------------------------------------------------------------------------
(* The specification.                                                      *)

LEMMA RecoveryStarts ==
  ASSUME RuntimeInit, RecoveryInit
  PROVE  RecoveryInv
<1>1. NoEpoch \in EpochRow
  BY ZeroNat DEF NoEpoch, EpochRow
<1>2. NoSafety \in SafetyRow
  BY ZeroNat, NoMarkTyped DEF NoSafety, SafetyRow
<1>3. NoRec \in RecRow
  BY ZeroNat, NoMarkTyped DEF NoRec, RecRow
<1>4. RecoveryTablesOK
  BY <1>1, <1>2, <1>3, ZeroNat DEF RecoveryInit, RecoveryTablesOK, BudgetStates
<1>5. RuntimeTypeOK
  BY RuntimeStarts
<1>7. ASSUME NEW e \in Epochs PROVE EpochOpen(e) /\ Evaluated(e)
  <2>1. epoch[e] = NoEpoch /\ safety[e] = NoSafety /\ claim[e] = "NONE" /\ rec[e] = NoRec
    BY DEF RecoveryInit
  <2>2. NoEpoch.state = "NONE" /\ NoEpoch.seen = 0
    BY DEF NoEpoch
  <2>3. 0 <= 0
    BY SMTT(30)
  <2>4. QED
    BY <2>1, <2>2, <2>3, NoSafetyFields DEF EpochOpen, Evaluated
<1>8. QED
  BY <1>4, <1>5, <1>7 DEF RecoveryInv

\* The inductive invariant of the recovery.
LEMMA RecoveryHolds ==
  RecoverySpec => []RecoveryInv
<1>1. ASSUME RecoveryInv, [RecoveryNext]_recoveryAllVars PROVE RecoveryInv'
  BY <1>1, RecoveryStep DEF RecoveryMove
<1>2. QED
  BY <1>1, RecoveryStarts, PTL DEF RecoverySpec

\* The rows of the failure epochs, of their evidence, evaluations and proofs,
\* of the budget claims and of the recovery operations keep the columns and
\* states of their tables.
THEOREM RecoveryRowsTyped ==
  RecoverySpec => []RecoveryTypeOK
<1>1. ASSUME RecoveryInv PROVE RecoveryTypeOK
  BY <1>1 DEF RecoveryInv, RecoveryTablesOK, RecoveryTypeOK
<1>2. QED
  BY <1>1, RecoveryHolds, PTL

\* An epoch is only confirmed when all the evidence appended so far satisfies
\* the policy: what arrives between the evaluation and the decision makes the
\* evaluation stale (failure_confirmation.go:343).
THEOREM ConfirmedOnEvidence ==
  RecoverySpec => ConfirmedOnAllEvidence
<1>1. ASSUME RecoveryInv, [RecoveryNext]_recoveryAllVars
      PROVE  [\A e \in Epochs : epoch[e].state = "SUSPECTED" /\ epoch'[e].state = "CONFIRMED"
                => ConfirmationResult(e) = "SATISFIED"]_recoveryAllVars
  BY <1>1, RecoveryStep DEF RecoveryMove, Confirms
<1>2. QED
  BY <1>1, RecoveryHolds, PTL DEF RecoverySpec, ConfirmedOnAllEvidence

\* A recovery powers the VM on, and declares it recovered, only while the
\* source is fenced at the generation of the proof and nothing newer than the
\* proof's read-back was read from it (recovery_terminal.go:297, :576).
THEOREM RecoveredFromFencedSource ==
  RecoverySpec => RecoversFromFencedSource
<1>1. ASSUME RecoveryInv, [RecoveryNext]_recoveryAllVars
      PROVE  [\A e \in Epochs :
                (~rec[e].power /\ rec'[e].power) \/ (epoch[e].state = "FENCED" /\ epoch'[e].state = "RECOVERED")
                  => LET p == safety[e].fenceProof IN
                     /\ ~authority[epoch[e].host].armed /\ authority[epoch[e].host].gen = p.auth
                     /\ \A c \in evidence : c.vm = epoch[e].vm /\ c.host = epoch[e].host /\ c.want = "RUNNING"
                          => c.gen <= p.power]_recoveryAllVars
  BY <1>1, RecoveryStep DEF RecoveryMove, Recovers, FencedSource
<1>2. QED
  BY <1>1, RecoveryHolds, PTL DEF RecoverySpec, RecoversFromFencedSource
=============================================================================
