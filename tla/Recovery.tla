------------------------------ MODULE Recovery ------------------------------
(***************************************************************************)
(* Recovery of a VM whose host failed: failure epoch, confirmation, fencing*)
(* and storage proofs, the recovery budget, and the operation that rebuilds*)
(* the VM on another host.  Every decision is taken in two transactions: an*)
(* evaluation records what it read, and a later materialization re-reads   *)
(* it under the epoch lock.                                                *)
(*                                                                         *)
(*  epoch    failure_epochs_current with failure_epoch_evidence: bound is  *)
(*           the budget policy revision of its availability policy, seen   *)
(*           the latest_evidence_generation                                *)
(*  signals  failure_observation_evidence                                  *)
(*  revised  the confirmation, fencing and storage policies whose current  *)
(*           revision is no longer the one the availability policy names   *)
(*  budget   current revision of the recovery budget policy                *)
(*  detached VMs whose DATA attachment was read back DETACHED              *)
(*  rootSeen generation of the current holder-closed observation of a root *)
(*  safety   evaluations and proofs of an epoch (see NoSafety)             *)
(*  claim    recovery_budget_claims_current                                *)
(*  rec      recovery_operations_current with its materialization          *)
(*                                                                         *)
(* An evaluation of an epoch replaces the previous one: a decision names   *)
(* one evaluation, and what it re-reads decides whether that one is stale. *)
(* FENCED at generation g is ~armed at generation g.                       *)
(***************************************************************************)
EXTENDS VMRuntime

CONSTANTS Epochs,
          Kinds,       \* evidence types the confirmation policy requires
          WithData,    \* VMs with a DATA volume
          MaxActive    \* max_active_recoveries of every budget revision

ASSUME RecoveryAssumption ==
  /\ MaxActive \in Nat /\ WithData \subseteq VMs
  /\ IsFiniteSet(Epochs)

VARIABLES epoch, signals, revised, budget, detached, rootSeen, safety, claim, rec

recoveryVars == <<epoch, signals, revised, budget, detached, rootSeen, safety, claim, rec>>
recoveryAllVars == <<runtimeVars, recoveryVars>>

NoVM == "none"
NoEpoch == [state |-> "NONE", vm |-> NoVM, host |-> NoHost, bound |-> 0, trans |-> 0, seen |-> 0]
NoMark == [trans |-> 0, seen |-> 0, result |-> "NONE", auth |-> 0, power |-> 0]
\* confirm, fencing, root and store: the last evaluation; fence: the current
\* fencing observation; fenceProof, rootProof, storeProof: the proofs.
NoSafety == [confirm |-> NoMark, fence |-> NoMark, fencing |-> NoMark, fenceProof |-> NoMark,
             root |-> NoMark, rootProof |-> NoMark, store |-> NoMark, storeProof |-> FALSE,
             retired |-> FALSE, eligible |-> 0, hosts |-> {}]
NoRec == [state |-> "NONE", gen |-> 0, dest |-> NoHost, marker |-> "NONE", copied |-> FALSE,
          plan |-> 0, danger |-> 0, power |-> FALSE, verdict |-> NoMark]

SignalStates == {"FAILED", "WELL", "UNKNOWN", "STALE"}
Results == {"NONE", "SATISFIED", "NOT_SATISFIED", "CONFLICTING_INPUT", "UNKNOWN", "STALE_EVIDENCE",
            "STALE_POLICY", "STALE_EPOCH", "PROVEN", "NOT_PROVEN", "SAFE", "NOT_SAFE", "CONFLICTING",
            "VERIFIED"}
Mark == [trans : Nat, seen : Nat, result : Results, auth : Nat, power : Nat]
EpochRow == [state : {"NONE", "SUSPECTED", "CONFIRMED", "FENCED", "RECOVERED"},
             vm : VMs \cup {NoVM}, host : VMHosts \cup {NoHost}, bound : Nat, trans : Nat, seen : Nat]
Signal == [kind : Kinds, state : SignalStates, gen : Nat]
SafetyRow == [confirm : Mark, fence : Mark, fencing : Mark, fenceProof : Mark, root : Mark,
              rootProof : Mark, store : Mark, storeProof : BOOLEAN, retired : BOOLEAN,
              eligible : Nat, hosts : SUBSET VMHosts]
BudgetStates == {"NONE", "RESERVED", "CONSUMED", "RELEASED"}
RecRow == [state : {"NONE", "REQUESTED", "PLANNED", "RUNNING", "VERIFYING", "UNKNOWN", "VERIFIED"},
           gen : Nat, dest : VMHosts \cup {NoHost}, marker : {"NONE", "PENDING", "UNKNOWN", "MATCHED"},
           copied : BOOLEAN, plan : Nat, danger : Nat, power : BOOLEAN, verdict : Mark]

RecoveryTypeOK ==
  /\ RuntimeTypeOK
  /\ epoch \in [Epochs -> EpochRow]
  /\ signals \in [Epochs -> SUBSET Signal]
  /\ revised \subseteq {"CONFIRM", "FENCE", "STORE"} /\ budget \in Nat
  /\ detached \subseteq VMs /\ rootSeen \in [VMs -> Nat]
  /\ safety \in [Epochs -> SafetyRow]
  /\ claim \in [Epochs -> BudgetStates]
  /\ rec \in [Epochs -> RecRow]

RecoveryInit ==
  /\ epoch = [e \in Epochs |-> NoEpoch]
  /\ signals = [e \in Epochs |-> {}]
  /\ revised = {} /\ budget = 1
  /\ detached = {} /\ rootSeen = [v \in VMs |-> 0]
  /\ safety = [e \in Epochs |-> NoSafety]
  /\ claim = [e \in Epochs |-> "NONE"]
  /\ rec = [e \in Epochs |-> NoRec]

Case(e) == epoch[e]
Advance(e, state) == [epoch EXCEPT ![e].state = state, ![e].trans = @ + 1]

-----------------------------------------------------------------------------
(* The failure epoch and its confirmation.                                 *)

\* An observation is refused unless its session, authority or power generation
\* is the current one; only accepted observations appear here.
OpenFailureEpoch(e, v, k, s) ==
  /\ Case(e).state = "NONE" /\ machine[v].host \in VMHosts
  /\ \E b \in 1..budget :
       epoch' = [epoch EXCEPT ![e] = [state |-> "SUSPECTED", vm |-> v, host |-> machine[v].host,
                                      bound |-> b, trans |-> 1, seen |-> 1]]
  /\ signals' = [signals EXCEPT ![e] = {[kind |-> k, state |-> s, gen |-> 1]}]
  /\ UNCHANGED <<runtimeVars, revised, budget, detached, rootSeen, safety, claim, rec>>

\* Late evidence is kept in any state of the epoch and moves nothing else.
AppendFailureObservation(e, k, s) ==
  /\ Case(e).state # "NONE"
  /\ epoch' = [epoch EXCEPT ![e].seen = @ + 1]
  /\ signals' = [signals EXCEPT ![e] = @ \cup {[kind |-> k, state |-> s, gen |-> Case(e).seen + 1]}]
  /\ UNCHANGED <<runtimeVars, revised, budget, detached, rootSeen, safety, claim, rec>>

StatesOf(e, k) == {s.state : s \in {o \in signals[e] : o.kind = k}}

ConfirmationResult(e) ==
  LET missing == {k \in Kinds : "FAILED" \notin StatesOf(e, k)}
      seen == UNION {StatesOf(e, k) : k \in missing}
  IN IF \E k \in Kinds : Cardinality(StatesOf(e, k) \ {"STALE"}) > 1 THEN "CONFLICTING_INPUT"
     ELSE IF missing = {} THEN "SATISFIED"
     ELSE IF "UNKNOWN" \in seen THEN "UNKNOWN"
     ELSE IF "STALE" \in seen THEN "STALE_EVIDENCE" ELSE "NOT_SATISFIED"

EvaluateFailureConfirmation(e) ==
  /\ Case(e).state # "NONE"
  /\ safety' = [safety EXCEPT ![e].confirm =
       [NoMark EXCEPT !.trans = Case(e).trans, !.seen = Case(e).seen,
                      !.result = IF "CONFIRM" \in revised THEN "STALE_POLICY"
                                 ELSE IF Case(e).state # "SUSPECTED" THEN "STALE_EPOCH"
                                 ELSE ConfirmationResult(e)]]
  /\ UNCHANGED <<runtimeVars, epoch, signals, revised, budget, detached, rootSeen, claim, rec>>

\* Mutant: evidence recorded since the evaluation is ignored.
ConfirmationOfState(e) == safety[e].confirm.trans = Case(e).trans

\* The epoch has neither moved nor received evidence since the evaluation.
ConfirmationStillHolds(e) ==
  /\ safety[e].confirm.trans = Case(e).trans
  /\ safety[e].confirm.seen = Case(e).seen

ConfirmFailureEpoch(e) ==
  /\ safety[e].confirm.result = "SATISFIED" /\ Case(e).state = "SUSPECTED"
  /\ ConfirmationStillHolds(e) /\ "CONFIRM" \notin revised
  /\ epoch' = Advance(e, "CONFIRMED")
  /\ UNCHANGED <<runtimeVars, signals, revised, budget, detached, rootSeen, safety, claim, rec>>

\* The next revision of a policy; the epochs keep the one they name.
RevisePolicy(k) ==
  /\ k \notin revised /\ revised' = revised \cup {k}
  /\ UNCHANGED <<runtimeVars, epoch, signals, budget, detached, rootSeen, safety, claim, rec>>
PublishFailureConfirmationPolicy == RevisePolicy("CONFIRM")
PublishFailureFencingPolicy == RevisePolicy("FENCE")
PublishStorageSafetyPolicy == RevisePolicy("STORE")

PublishRecoveryBudgetPolicy ==
  /\ budget' = budget + 1
  /\ UNCHANGED <<runtimeVars, epoch, signals, revised, detached, rootSeen, safety, claim, rec>>

-----------------------------------------------------------------------------
(* The source: fencing, root and storage.                                  *)

OnSource(e) == machine[Case(e).vm].host = Case(e).host
SourcePower(e) == power[Case(e).vm]
Fenced(h) == ~authority[h].armed

RecordSourceExecutionFencingObservation(e) ==
  LET shown == OnSource(e) /\ SourcePower(e) # NoPower
      fenced == Fenced(Case(e).host)
  IN /\ Case(e).state = "CONFIRMED"
     /\ safety' = [safety EXCEPT ![e].fence =
          [trans |-> 0, seen |-> @.seen + 1,
           result |-> IF ~fenced \/ ~shown THEN "UNKNOWN"
                      ELSE IF SourcePower(e).state = "SHUTOFF" THEN "PROVEN" ELSE "NOT_PROVEN",
           auth |-> IF fenced THEN authority[Case(e).host].gen ELSE 0,
           power |-> IF shown THEN SourcePower(e).gen ELSE 0]]
     /\ UNCHANGED <<runtimeVars, epoch, signals, revised, budget, detached, rootSeen, claim, rec>>

EvaluateFailureFencing(e) ==
  /\ Case(e).state # "NONE"
  /\ safety' = [safety EXCEPT ![e].fencing =
       [safety[e].fence EXCEPT
          !.trans = Case(e).trans,
          !.result = IF Case(e).state # "CONFIRMED" THEN "STALE_EPOCH"
                     ELSE IF "FENCE" \in revised THEN "STALE_POLICY"
                     ELSE IF safety[e].fence.result = "NONE" THEN "NOT_PROVEN" ELSE safety[e].fence.result]]
  /\ UNCHANGED <<runtimeVars, epoch, signals, revised, budget, detached, rootSeen, claim, rec>>

\* A newer observation of the source makes the evaluation stale.
FencingStillHolds(e) ==
  /\ safety[e].fencing.trans = Case(e).trans
  /\ safety[e].fencing.seen = safety[e].fence.seen

MaterializeFailureFencingProof(e) ==
  /\ safety[e].fencing.result = "PROVEN" /\ Case(e).state = "CONFIRMED"
  /\ FencingStillHolds(e) /\ "FENCE" \notin revised
  /\ safety' = [safety EXCEPT ![e].fenceProof = safety[e].fencing]
  /\ epoch' = Advance(e, "FENCED")
  /\ UNCHANGED <<runtimeVars, signals, revised, budget, detached, rootSeen, claim, rec>>

\* Any read-back of the root of a stopped domain; a newer one replaces it.
AcceptSourceRootSafetyObservation(v) ==
  /\ machine[v].host \in VMHosts /\ domain[v][machine[v].host].state = "SHUTOFF"
  /\ rootSeen' = [rootSeen EXCEPT ![v] = @ + 1]
  /\ UNCHANGED <<runtimeVars, epoch, signals, revised, budget, detached, safety, claim, rec>>

\* AcceptLocalLVMAttachmentObservation with desired state DETACHED, for DATA.
DetachData(v) ==
  /\ v \in WithData \ detached /\ machine[v].host \in VMHosts
  /\ domain[v][machine[v].host].state = "SHUTOFF"
  /\ detached' = detached \cup {v}
  /\ UNCHANGED <<runtimeVars, epoch, signals, revised, budget, rootSeen, safety, claim, rec>>

EvaluateSourceRootSafety(e) ==
  LET v == Case(e).vm IN
  /\ Case(e).state # "NONE"
  /\ safety' = [safety EXCEPT ![e].root =
       [trans |-> Case(e).trans, seen |-> rootSeen[v], auth |-> 0, power |-> SourcePower(e).gen,
        result |-> IF ~OnSource(e) \/ rootSeen[v] = 0 \/ SourcePower(e) = NoPower THEN "UNKNOWN"
                   ELSE IF Case(e).state # "CONFIRMED" THEN "STALE_EPOCH"
                   ELSE IF SourcePower(e).state # "SHUTOFF" THEN "CONFLICTING" ELSE "SAFE"]]
  /\ UNCHANGED <<runtimeVars, epoch, signals, revised, budget, detached, rootSeen, claim, rec>>

\* sourceRootEvaluationCurrentTx: the VM, its storage and its power evidence
\* are those the evaluation read.
RootCurrent(e, m) ==
  /\ OnSource(e) /\ rootSeen[Case(e).vm] = m.seen
  /\ SourcePower(e).gen = m.power /\ SourcePower(e).state = "SHUTOFF"

MaterializeSourceRootSafetyProof(e) ==
  /\ safety[e].root.result = "SAFE" /\ safety[e].rootProof = NoMark
  /\ Case(e).state = "CONFIRMED" /\ safety[e].root.trans = Case(e).trans
  /\ RootCurrent(e, safety[e].root)
  /\ safety' = [safety EXCEPT ![e].rootProof = safety[e].root]
  /\ UNCHANGED <<runtimeVars, epoch, signals, revised, budget, detached, rootSeen, claim, rec>>

-----------------------------------------------------------------------------
(* Whether a proof may still be used.                                      *)

\* loadFencingProofUsabilityTx, while the VM row is still on the source.
FencingUsable(e) ==
  LET p == safety[e].fenceProof IN
  /\ p # NoMark /\ Fenced(Case(e).host) /\ authority[Case(e).host].gen = p.auth
  /\ OnSource(e) /\ SourcePower(e).state = "SHUTOFF" /\ SourcePower(e).gen = p.power

\* loadRecoverySourceFencingProofUsabilityTx, when the row may have moved: the
\* proof's read-back is the newest one of the VM from the source host.
SourceFencingUsable(e) ==
  LET p == safety[e].fenceProof IN
  /\ p # NoMark /\ Fenced(Case(e).host) /\ authority[Case(e).host].gen = p.auth
  /\ \A c \in evidence : c.vm = Case(e).vm /\ c.host = Case(e).host => c.gen <= p.power

RetirementUsable(e) == safety[e].retired /\ SourceFencingUsable(e)

\* loadSourceRootSafetyProofUsabilityTx.
RootUsable(e) ==
  LET p == safety[e].rootProof IN
  /\ p # NoMark /\ rootSeen[Case(e).vm] = p.seen
  /\ \/ RootCurrent(e, p)
     \/ ~OnSource(e) /\ RetirementUsable(e)

\* loadStorageProofUsabilityTx.
StorageUsable(e) == safety[e].storeProof /\ RootUsable(e) /\ RetirementUsable(e)

DataDetached(e) == Case(e).vm \in WithData => Case(e).vm \in detached

\* The storage proof can only be made before the fencing proof moves the
\* epoch, since both ask for CONFIRMED.
EvaluateStorageSafety(e) ==
  /\ Case(e).state # "NONE"
  /\ safety' = [safety EXCEPT ![e].store =
       [NoMark EXCEPT !.trans = Case(e).trans, !.seen = safety[e].rootProof.seen,
          !.result = IF Case(e).state # "CONFIRMED" THEN "STALE_EPOCH"
                     ELSE IF "STORE" \in revised THEN "STALE_POLICY"
                     ELSE IF RootUsable(e) /\ DataDetached(e) THEN "SAFE" ELSE "NOT_SAFE"]]
  /\ UNCHANGED <<runtimeVars, epoch, signals, revised, budget, detached, rootSeen, claim, rec>>

MaterializeStorageSafetyProof(e) ==
  /\ safety[e].store.result = "SAFE" /\ ~safety[e].storeProof
  /\ Case(e).state = "CONFIRMED" /\ safety[e].store.trans = Case(e).trans
  /\ "STORE" \notin revised /\ RootUsable(e) /\ safety[e].store.seen = safety[e].rootProof.seen
  /\ safety' = [safety EXCEPT ![e].storeProof = TRUE]
  /\ UNCHANGED <<runtimeVars, epoch, signals, revised, budget, detached, rootSeen, claim, rec>>

RetireSourceMaterialization(e) ==
  /\ Case(e).state = "FENCED" /\ ~safety[e].retired /\ FencingUsable(e)
  /\ safety[e].rootProof # NoMark /\ RootCurrent(e, safety[e].rootProof)
  /\ safety' = [safety EXCEPT ![e].retired = TRUE]
  /\ UNCHANGED <<runtimeVars, epoch, signals, revised, budget, detached, rootSeen, claim, rec>>

-----------------------------------------------------------------------------
(* Eligibility and the budget.                                             *)

\* recoveryDestinationSnapshotTx: the source is excluded, a host without an
\* armed authority is not eligible.
Destinations(e) == {h \in VMHosts \ {Case(e).host} : authority[h].armed /\ claims[Case(e).vm][h] = "NONE"}

\* Claims are counted for one revision of the budget policy.
ActiveClaims(b) == {e \in Epochs : epoch[e].bound = b /\ claim[e] \in {"RESERVED", "CONSUMED"}}

BudgetLeft(e) == Cardinality(ActiveClaims(Case(e).bound)) < MaxActive

\* recoveryEligibilityResult = PERMITTED.
RecoveryPermitted(e) ==
  /\ FencingUsable(e) /\ StorageUsable(e) /\ Case(e).state = "FENCED"
  /\ Case(e).bound = budget /\ BudgetLeft(e) /\ Destinations(e) # {}

EvaluateRecoveryEligibility(e) ==
  /\ Case(e).state \in {"CONFIRMED", "FENCED"}
  /\ safety' = [safety EXCEPT ![e].eligible = IF RecoveryPermitted(e) THEN Case(e).trans ELSE 0,
                              ![e].hosts = Destinations(e)]
  /\ UNCHANGED <<runtimeVars, epoch, signals, revised, budget, detached, rootSeen, claim, rec>>

\* Mutant: the budget is not counted again under its lock.
EligibilityAsEvaluated(e) ==
  /\ safety[e].eligible = Case(e).trans /\ Case(e).state = "FENCED"
  /\ FencingUsable(e) /\ StorageUsable(e) /\ safety[e].hosts = Destinations(e)

\* Everything the evaluation read is read again under the budget lock.
EligibilityStillHolds(e) ==
  /\ safety[e].eligible = Case(e).trans /\ Case(e).state = "FENCED"
  /\ FencingUsable(e) /\ StorageUsable(e)
  /\ Case(e).bound = budget /\ BudgetLeft(e) /\ safety[e].hosts = Destinations(e)

MaterializeRecoveryEligibilityDecision(e) ==
  /\ claim[e] = "NONE" /\ EligibilityStillHolds(e)
  /\ claim' = [claim EXCEPT ![e] = "RESERVED"]
  /\ UNCHANGED <<runtimeVars, epoch, signals, revised, budget, detached, rootSeen, safety, rec>>

-----------------------------------------------------------------------------
(* The operation.                                                          *)

RecoveryTo(e, state) == [rec EXCEPT ![e].state = state, ![e].gen = @ + 1]

RecordRecoveryOperationRequest(e) ==
  /\ claim[e] = "RESERVED" /\ rec[e].state = "NONE"
  /\ rec' = [rec EXCEPT ![e].state = "REQUESTED"]
  /\ UNCHANGED <<runtimeVars, epoch, signals, revised, budget, detached, rootSeen, safety, claim>>

PlanRecoveryOperation(e, h) ==
  /\ rec[e].state = "REQUESTED" /\ h \in safety[e].hosts /\ h \in Destinations(e)
  /\ rec' = [rec EXCEPT ![e].state = "PLANNED", ![e].gen = 1, ![e].dest = h]
  /\ UNCHANGED <<runtimeVars, epoch, signals, revised, budget, detached, rootSeen, safety, claim>>

\* One transaction: release of the source compute claim, final admission on the
\* destination, consumption of the budget claim, preparation command.
StartRecoveryOperation(e) ==
  LET v == Case(e).vm
      h == rec[e].dest
  IN /\ rec[e].state = "PLANNED" /\ Case(e).state = "FENCED"
     /\ FencingUsable(e) /\ StorageUsable(e) /\ claim[e] = "RESERVED"
     /\ h \in Destinations(e) /\ claims[v][Case(e).host] = "RESERVED"
     /\ claims' = [claims EXCEPT ![v] = [claims[v] EXCEPT ![Case(e).host] = "RELEASED", ![h] = "RESERVED"]]
     /\ attach' = [attach EXCEPT ![v][h] = "RESERVED"]
     /\ claim' = [claim EXCEPT ![e] = "CONSUMED"]
     /\ rec' = [RecoveryTo(e, "RUNNING") EXCEPT ![e].marker = "PENDING"]
     /\ UNCHANGED <<authority, machine, defined, ready, realized, dataplane, power, commands,
                    evidence, domain, epoch, signals, revised, budget, detached, rootSeen, safety>>

\* The preparation command ends, or its lease is lost and later read back.
MarkerAnswered(e, state) ==
  /\ rec[e].marker \in {"PENDING", "UNKNOWN"} \ {state}
  /\ rec' = [rec EXCEPT ![e].marker = state]
  /\ UNCHANGED <<runtimeVars, epoch, signals, revised, budget, detached, rootSeen, safety, claim>>

RefreshRecoveryOperationExecution(e) ==
  /\ \/ rec[e].marker = "UNKNOWN" /\ rec[e].state = "RUNNING" /\ rec' = RecoveryTo(e, "UNKNOWN")
     \/ /\ rec[e].marker = "MATCHED" /\ rec[e].state \in {"RUNNING", "UNKNOWN"}
        /\ rec' = RecoveryTo(e, "VERIFYING")
  /\ UNCHANGED <<runtimeVars, epoch, signals, revised, budget, detached, rootSeen, safety, claim>>

Ongoing(e) == rec[e].state \in {"RUNNING", "VERIFYING"}

\* PrepareRecoveryLocalLVMDataCopy and the verified copy.
PrepareRecoveryLocalLVMDataCopy(e) ==
  /\ Ongoing(e) /\ Case(e).vm \in WithData /\ ~rec[e].copied
  /\ OnSource(e) /\ safety[e].storeProof /\ DataDetached(e)
  /\ rec' = [rec EXCEPT ![e].copied = TRUE]
  /\ UNCHANGED <<runtimeVars, epoch, signals, revised, budget, detached, rootSeen, safety, claim>>

\* The row moves to the destination; its power, readiness and realization rows
\* are deleted and the root is rebuilt from the base image.
PrepareRecoveryMaterialization(e) ==
  LET v == Case(e).vm
      h == rec[e].dest
  IN /\ Ongoing(e) /\ rec[e].plan = 0 /\ PowerAuthority(h) /\ OnSource(e)
     /\ v \in WithData => rec[e].copied
     /\ machine' = [machine EXCEPT ![v] =
          [NoMachine EXCEPT !.life = "PENDING", !.host = h, !.plan = machine[v].plan + 1]]
     /\ defined' = [defined EXCEPT ![v] = 0]
     /\ ready' = [ready EXCEPT ![v] = NotReady]
     /\ power' = [power EXCEPT ![v] = NoPower]
     /\ realized' = [realized EXCEPT ![v] = {}]
     /\ rec' = [rec EXCEPT ![e].plan = machine[v].plan + 1]
     /\ UNCHANGED <<claims, attach, authority, dataplane, commands, evidence, domain, epoch,
                    signals, revised, budget, detached, rootSeen, safety, claim>>

AtDestination(e) ==
  /\ rec[e].plan # 0 /\ machine[Case(e).vm].host = rec[e].dest
  /\ machine[Case(e).vm].plan = rec[e].plan /\ ready[Case(e).vm].plan = rec[e].plan

MarkRecoveryNoNetworkReady(e) ==
  /\ AtDestination(e) /\ PortsOf[Case(e).vm] = {} /\ Realizable(Case(e).vm)
  /\ ~Boots(Case(e).vm)
  /\ ready' = [ready EXCEPT ![Case(e).vm].boot = "READY"]
  /\ UNCHANGED <<claims, attach, authority, machine, defined, realized, dataplane, power,
                 commands, evidence, domain, recoveryVars>>

\* A port of a handed-over binding makes the VM READY and arms no power.
AcceptRecoveryPortRealization(e, p) ==
  LET v == Case(e).vm IN
  /\ AtDestination(e) /\ p \in PortsOf[v] \ realized[v] /\ Realizable(v) /\ PowerAuthority(rec[e].dest)
  /\ realized' = [realized EXCEPT ![v] = @ \cup {p}]
  /\ ready' = [ready EXCEPT ![v].boot = IF AllRealized(v, realized[v] \cup {p}) THEN "READY" ELSE @]
  /\ UNCHANGED <<claims, attach, authority, machine, defined, dataplane, power, commands,
                 evidence, domain, recoveryVars>>

\* Mutant: the proofs exist, whether or not they are still usable.
ProofsRecorded(e) == safety[e].fenceProof # NoMark /\ safety[e].storeProof

ProofsUsable(e) == SourceFencingUsable(e) /\ StorageUsable(e)

EvaluateRecoveryDangerousStep(e) ==
  /\ rec[e].state # "NONE"
  /\ rec' = [rec EXCEPT ![e].danger =
       IF /\ Ongoing(e) /\ ProofsUsable(e) /\ claim[e] = "CONSUMED"
          /\ PortsOf[Case(e).vm] # {} => AtDestination(e) /\ Boots(Case(e).vm)
       THEN rec[e].gen ELSE 0]
  /\ UNCHANGED <<runtimeVars, epoch, signals, revised, budget, detached, rootSeen, safety, claim>>

\* The authorization is for one state generation, and the proofs are re-read.
AuthorizeRecoveryPowerOn(e, n) ==
  /\ Ongoing(e) /\ ~rec[e].power /\ rec[e].danger = rec[e].gen /\ ProofsUsable(e)
  /\ AtDestination(e) /\ Boots(Case(e).vm) /\ PowerAuthority(rec[e].dest) /\ claim[e] = "CONSUMED"
  /\ CreatePowerCommand(Case(e).vm, rec[e].dest, "RUNNING", n, "RECOVERY")
  /\ rec' = [rec EXCEPT ![e].power = TRUE]
  /\ UNCHANGED <<claims, attach, authority, defined, ready, realized, dataplane, power, evidence,
                 domain, epoch, signals, revised, budget, detached, rootSeen, safety, claim>>

RecoveryCommands(e, cs) ==
  {c \in cs : c.vm = Case(e).vm /\ c.by = "RECOVERY" /\ c.host = rec[e].dest}

\* An attempt whose lease was lost is UNKNOWN until it is read back.
RefreshRecoveryPowerExecution(e) ==
  /\ rec[e].power
  /\ \/ /\ \E c \in RecoveryCommands(e, commands) : c.stage # "PENDING"
        /\ Ongoing(e) /\ rec' = RecoveryTo(e, "UNKNOWN")
     \/ /\ RecoveryCommands(e, evidence) # {}
        /\ rec[e].state = "UNKNOWN" /\ rec' = RecoveryTo(e, "VERIFYING")
  /\ UNCHANGED <<runtimeVars, epoch, signals, revised, budget, detached, rootSeen, safety, claim>>

\* currentRecoveryNetworkEvidenceSetTx.
NetworkRecovered(e) == dataplane[Case(e).vm] = PortsOf[Case(e).vm]
RunsRecovered(e) ==
  /\ AtDestination(e) /\ Boots(Case(e).vm) /\ power[Case(e).vm].state = "RUNNING"
  /\ NetworkRecovered(e)

EvaluateRecoveryVerification(e) ==
  /\ rec[e].state = "VERIFYING" /\ ProofsUsable(e) /\ claim[e] = "CONSUMED" /\ RunsRecovered(e)
  /\ rec' = [rec EXCEPT ![e].verdict =
       [NoMark EXCEPT !.trans = rec[e].gen, !.result = "VERIFIED", !.power = power[Case(e).vm].gen]]
  /\ UNCHANGED <<runtimeVars, epoch, signals, revised, budget, detached, rootSeen, safety, claim>>

\* What the verification saw is still what the rows show.
VerificationStillHolds(e) ==
  /\ rec[e].verdict.trans = rec[e].gen /\ ProofsUsable(e)
  /\ RunsRecovered(e) /\ power[Case(e).vm].gen = rec[e].verdict.power

CommitRecoveryTerminalDecision(e) ==
  /\ rec[e].verdict.result = "VERIFIED" /\ rec[e].state = "VERIFYING" /\ Case(e).state = "FENCED"
  /\ VerificationStillHolds(e) /\ claim[e] = "CONSUMED"
  /\ rec' = RecoveryTo(e, "VERIFIED")
  /\ epoch' = Advance(e, "RECOVERED")
  /\ claim' = [claim EXCEPT ![e] = "RELEASED"]
  /\ UNCHANGED <<runtimeVars, signals, revised, budget, detached, rootSeen, safety>>

-----------------------------------------------------------------------------
SuspectStep(e) ==
  \/ \E v \in VMs, k \in Kinds, s \in SignalStates : OpenFailureEpoch(e, v, k, s)
  \/ \E k \in Kinds, s \in SignalStates : AppendFailureObservation(e, k, s)
  \/ EvaluateFailureConfirmation(e)
  \/ ConfirmFailureEpoch(e)

PolicyStep ==
  \/ PublishFailureConfirmationPolicy
  \/ PublishFailureFencingPolicy
  \/ PublishStorageSafetyPolicy
  \/ PublishRecoveryBudgetPolicy

ProofStep(e) ==
  \/ RecordSourceExecutionFencingObservation(e)
  \/ EvaluateFailureFencing(e)
  \/ MaterializeFailureFencingProof(e)
  \/ EvaluateSourceRootSafety(e)
  \/ MaterializeSourceRootSafetyProof(e)
  \/ EvaluateStorageSafety(e)
  \/ MaterializeStorageSafetyProof(e)
  \/ RetireSourceMaterialization(e)

SourceStep(v) == AcceptSourceRootSafetyObservation(v) \/ DetachData(v)

DecideStep(e) ==
  \/ EvaluateRecoveryEligibility(e)
  \/ MaterializeRecoveryEligibilityDecision(e)
  \/ RecordRecoveryOperationRequest(e)
  \/ \E h \in VMHosts : PlanRecoveryOperation(e, h)
  \/ StartRecoveryOperation(e)

RebuildStep(e) ==
  \/ \E s \in {"UNKNOWN", "MATCHED"} : MarkerAnswered(e, s)
  \/ RefreshRecoveryOperationExecution(e)
  \/ PrepareRecoveryLocalLVMDataCopy(e)
  \/ PrepareRecoveryMaterialization(e)
  \/ MarkRecoveryNoNetworkReady(e)
  \/ Case(e).state # "NONE" /\ \E p \in PortsOf[Case(e).vm] : AcceptRecoveryPortRealization(e, p)
  \/ EvaluateRecoveryDangerousStep(e)
  \/ \E n \in Attempts : AuthorizeRecoveryPowerOn(e, n)
  \/ RefreshRecoveryPowerExecution(e)
  \/ EvaluateRecoveryVerification(e)
  \/ CommitRecoveryTerminalDecision(e)

\* The VM code goes on beside the recovery; the ports of a recovered VM have
\* handed-over bindings, which AcceptRecoveryPortRealization is about.
BesideRecovery ==
  /\ \/ \E h \in VMHosts : LoseAuthority(h) \/ Rearm(h)
     \/ \E v \in VMs : Materialize(v) \/ Operate(v)
     \/ RunCommands
  /\ \A e \in Epochs : rec[e].plan # 0 => realized'[Case(e).vm] = realized[Case(e).vm]
  /\ UNCHANGED recoveryVars

\* The first admission and plan of a VM: what a recovery starts from.
FirstPlacement(v, h) ==
  /\ \/ authority[h].armed /\ (\A g \in VMHosts : claims[v][g] = "NONE") /\ AdmitVM(v, h)
     \/ PrepareVMMaterialization(v, h)
  /\ UNCHANGED recoveryVars

RecoveryNext ==
  \/ \E e \in Epochs : SuspectStep(e) \/ ProofStep(e) \/ DecideStep(e) \/ RebuildStep(e)
  \/ \E v \in VMs : SourceStep(v)
  \/ PolicyStep
  \/ \E v \in VMs, h \in VMHosts : FirstPlacement(v, h)
  \/ BesideRecovery

RecoverySpec == RuntimeInit /\ RecoveryInit /\ [][RecoveryNext]_recoveryAllVars

-----------------------------------------------------------------------------
(* Properties.                                                             *)

\* An epoch is confirmed only when everything appended so far satisfies the
\* policy: evidence that arrives between the evaluation and the decision, and
\* conflicts with it, stops the confirmation (failure_confirmation.go:343).
ConfirmedOnAllEvidence ==
  [][\A e \in Epochs : epoch[e].state = "SUSPECTED" /\ epoch'[e].state = "CONFIRMED"
       => ConfirmationResult(e) = "SATISFIED"]_recoveryAllVars

\* No revision of the budget policy has more active recoveries than it allows,
\* however many evaluations saw room at the same time
\* (recovery_eligibility.go:443).
BudgetBounded == \A b \in 1..budget : Cardinality(ActiveClaims(b)) <= MaxActive

\* The recovery powers the VM on, and declares it recovered, only while the
\* source host is fenced at the generation of the proof and nothing newer than
\* the SHUTOFF read-back of the proof was read from it
\* (recovery_terminal.go:297, :576).
RecoversFromFencedSource ==
  [][\A e \in Epochs :
       (~rec[e].power /\ rec'[e].power) \/ (epoch[e].state = "FENCED" /\ epoch'[e].state = "RECOVERED")
         => LET p == safety[e].fenceProof IN
            /\ ~authority[epoch[e].host].armed /\ authority[epoch[e].host].gen = p.auth
            /\ \A c \in evidence : c.vm = epoch[e].vm /\ c.host = epoch[e].host /\ c.want = "RUNNING"
                 => c.gen <= p.power]_recoveryAllVars
=============================================================================
