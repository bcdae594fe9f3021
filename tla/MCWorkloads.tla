---------------------------- MODULE MCWorkloads ----------------------------
(* Instance for TLC of what happens to VMs: lifecycle of the VM resource,   *)
(* evacuation of a Host and recovery from its failure.  `part` selects the  *)
(* VMs that exist and what moves; the rest keeps its initial state.         *)
EXTENDS VMAggregate, Recovery, TLC

CONSTANTS
  Parts, v1, v2, v3, p1, p2, h1, h2, e1, e2,
  MaxCreateWrites,      \* bounds on plans, power read-backs, commands, revisions,
  MaxLifecycleWrites,   \* authority generations and evidence of a part
  MaxEvacuationWrites,
  MaxAttachedWrites,
  MaxSuspectWrites,
  MaxRecoverWrites,
  MaxRebuildWrites,
  MaxOutstanding        \* power commands under way at once, beside a lifecycle or a recovery

VARIABLE part

workloadVars == <<aggregateVars, recoveryVars, part>>

MCPortsOf == v1 :> {} @@ v2 :> {p1, p2} @@ v3 :> {}
MCVolumesOf == v1 :> {"ROOT"} @@ v2 :> {"ROOT", "DATA"} @@ v3 :> {"ROOT"}

AggregateParts == {"create", "lifecycle", "evacuate", "attached", "slots"}
RecoveryParts == {"suspect", "recover", "rebuild", "budget"}

VMWrites(v) == machine[v].plan + power[v].gen + resource[v].rev + rootSeen[v]
EpochWrites(e) == rec[e].gen + epoch[e].seen + safety[e].fence.seen
WorkloadWrites ==
  VMWrites(v1) + VMWrites(v2) + VMWrites(v3) + EpochWrites(e1) + EpochWrites(e2)
  + Cardinality(commands) + authority[h1].gen + authority[h2].gen + budget

-----------------------------------------------------------------------------
\* The VMs of a part, placed on h1 and verified in the given power state.
Placed == CASE part = "create" -> {} [] part \in {"lifecycle", "evacuate", "recover"} -> {v1}
            [] part \in {"attached", "suspect", "rebuild"} -> {v2} [] part = "slots" -> {v1, v2, v3}
            [] part = "budget" -> {v1, v3}
ReadBack(v, g, w) == [vm |-> v, host |-> h1, want |-> w, gen |-> g, by |-> "USER", stage |-> "CHECKED"]

PlacedAs(state, armed) ==
  LET there(v, yes, no) == IF v \in Placed THEN yes ELSE no
      shut == state = "SHUTOFF"
  IN
  /\ claims = [v \in VMs |-> [h \in VMHosts |-> there(v, IF h = h1 THEN "RESERVED" ELSE "NONE", "NONE")]]
  /\ attach = claims
  /\ authority = [h \in VMHosts |-> [gen |-> 1, armed |-> armed \/ h # h1]]
  /\ machine = [v \in VMs |-> there(v, [NoMachine EXCEPT !.life = "DEFINED", !.host = h1, !.plan = 1,
                                                         !.desired = state], NoMachine)]
  /\ defined = [v \in VMs |-> there(v, 1, 0)]
  /\ ready = [v \in VMs |-> there(v, [gen |-> 1, plan |-> 1, image |-> TRUE, boot |-> "READY"], NotReady)]
  /\ realized = [v \in VMs |-> there(v, PortsOf[v], {})] /\ dataplane = realized
  /\ power = [v \in VMs |-> there(v, [state |-> state, gen |-> IF shut THEN 2 ELSE 1, host |-> h1], NoPower)]
  /\ commands = {}
  /\ evidence = UNION {{ReadBack(v, 1, "RUNNING")} \cup (IF shut THEN {ReadBack(v, 2, state)} ELSE {}) : v \in Placed}
  /\ domain = [v \in VMs |-> [h \in VMHosts |->
                 there(v, IF h = h1 THEN [state |-> state, plan |-> 1] ELSE NoDomain, NoDomain)]]

NoEvacuation ==
  /\ drain = [h \in VMHosts |-> "NONE"] /\ evac = [h \in VMHosts |-> NoEvac]
  /\ child = [h \in VMHosts |-> [v \in VMs |-> NoChild]] /\ slot = [h \in VMHosts |-> [v \in VMs |-> "NONE"]]

Created(v) == [life |-> "ACTIVE", converged |-> TRUE, rev |-> 1, intent |-> 1, power |-> "RUNNING"]
ResourcesCreated ==
  /\ resource = [v \in VMs |-> IF v \in Placed THEN Created(v) ELSE NoResource]
  /\ op = [v \in VMs |-> IF v \notin Placed THEN NoOp ELSE
             [NoOp EXCEPT !.kind = "CREATE", !.host = h1, !.plan = 1,
                          !.verdict = [host |-> h1, plan |-> 1, ready |-> 1, power |-> 1]]]
  /\ binding = [v \in VMs |-> IF v \in Placed THEN [host |-> h1, plan |-> 1, rev |-> 1, intent |-> 1] ELSE NoBinding]

NoResources == resource = [v \in VMs |-> NoResource] /\ op = [v \in VMs |-> NoOp] /\ binding = [v \in VMs |-> NoBinding]

\* The source is fenced, shut off and proven so, and its materialization retired.
ProvenFenced ==
  LET vm(e) == IF Cardinality(Placed) = 1 THEN CHOOSE v \in Placed : TRUE ELSE IF e = e1 THEN v1 ELSE v3
      proof == [trans |-> 2, seen |-> 1, result |-> "PROVEN", auth |-> 1, power |-> 2]
      safe == [trans |-> 2, seen |-> 1, result |-> "SAFE", auth |-> 0, power |-> 2]
  IN
  /\ epoch = [e \in Epochs |-> IF e # e1 /\ part # "budget" THEN NoEpoch ELSE
                [state |-> "FENCED", vm |-> vm(e), host |-> h1, bound |-> 1, trans |-> 3, seen |-> 1]]
  /\ signals = [e \in Epochs |-> {[kind |-> k, state |-> "FAILED", gen |-> 1] : k \in IF epoch[e] = NoEpoch THEN {} ELSE Kinds}]
  /\ revised = {} /\ budget = 1
  /\ detached = Placed \cap WithData /\ rootSeen = [v \in VMs |-> IF v \in Placed THEN 1 ELSE 0]
  /\ safety = [e \in Epochs |-> IF epoch[e] = NoEpoch THEN NoSafety ELSE [NoSafety EXCEPT
       !.confirm = [NoMark EXCEPT !.trans = 1, !.seen = 1, !.result = "SATISFIED"],
       !.fence = [proof EXCEPT !.trans = 0], !.fencing = proof, !.fenceProof = proof,
       !.root = safe, !.rootProof = safe, !.store = [safe EXCEPT !.power = 0], !.storeProof = TRUE,
       !.retired = TRUE]]
  /\ claim = [e \in Epochs |-> "NONE"] /\ rec = [e \in Epochs |-> NoRec]

WorkloadInit ==
  /\ part \in Parts
  /\ IF part = "create" THEN RuntimeInit
     ELSE PlacedAs(IF part \in RecoveryParts THEN "SHUTOFF" ELSE "RUNNING", part \notin RecoveryParts)
  /\ NoEvacuation
  /\ IF part \in {"lifecycle", "attached"} THEN ResourcesCreated ELSE NoResources
  /\ IF part \in {"recover", "rebuild", "budget"} THEN ProvenFenced ELSE RecoveryInit

-----------------------------------------------------------------------------
\* Only the VMs of the part come into being, and only h1 loses its authority or is evacuated.
Focus ==
  /\ \A v \in VMs \ (Placed \cup IF part = "create" THEN {v2} ELSE {}) : claims'[v] = claims[v] /\ resource'[v] = resource[v]
  /\ authority'[h2] = authority[h2] /\ drain'[h2] = "NONE"

AggregatePart ==
  /\ \/ /\ part \in {"create", "lifecycle", "attached"} /\ AggregateNext /\ authority' = authority
        /\ part = "create" => drain' = drain
        /\ part # "create" => Cardinality(commands') <= MaxOutstanding
        /\ WorkloadWrites' <= CASE part = "create" -> MaxCreateWrites [] part = "lifecycle" -> MaxLifecycleWrites
                                [] OTHER -> MaxAttachedWrites
     \/ part = "evacuate" /\ UnderAggregate /\ UNCHANGED resourceVars /\ WorkloadWrites' <= MaxEvacuationWrites
     \/ /\ part = "slots" /\ UNCHANGED resourceVars
        /\ \/ OperationStep(h1)
           \/ (LoseAuthority(h1) \/ Rearm(h1)) /\ UNCHANGED evacVars
           \/ \E v \in VMs : BlockHostEvacuationChild(h1, v) \/ CancelHostEvacuationChild(h1, v)
        /\ authority'[h1].gen <= 2
  /\ Focus

RecoveryPart ==
  /\ \/ /\ part = "suspect"
        /\ \/ SuspectStep(e1) \/ ProofStep(e1) \/ PolicyStep \/ BesideRecovery
           \/ \E v \in VMs : SourceStep(v)
        /\ commands' = {} /\ Cardinality(revised') <= 1 /\ rootSeen'[v2] <= 1 /\ epoch'[e1].seen <= 2
        /\ WorkloadWrites' <= MaxSuspectWrites
     \/ /\ part \in {"recover", "rebuild"}
        /\ \/ DecideStep(e1) \/ RebuildStep(e1) \/ PublishRecoveryBudgetPolicy \/ BesideRecovery
           \/ \E v \in VMs : SourceStep(v)
        /\ Cardinality(commands') <= MaxOutstanding
        /\ WorkloadWrites' <= IF part = "recover" THEN MaxRecoverWrites ELSE MaxRebuildWrites
     \/ part = "budget" /\ \E e \in Epochs : DecideStep(e)
  /\ authority'[h2] = authority[h2] /\ \A v \in VMs : defined'[v] <= 1

WorkloadNext ==
  /\ UNCHANGED part
  /\ \/ part \in AggregateParts /\ UNCHANGED recoveryVars /\ AggregatePart
     \/ part \in RecoveryParts /\ UNCHANGED <<evacVars, resourceVars>> /\ RecoveryPart

WorkloadSpec == WorkloadInit /\ [][WorkloadNext]_workloadVars

\* Every row of the tables behind the components has the columns and states of
\* its table.
WorkloadsTypeOK == AggregateTypeOK /\ RecoveryTypeOK
=============================================================================
