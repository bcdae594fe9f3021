--------------------------- MODULE HostEvacuation ---------------------------
(***************************************************************************)
(* Planned evacuation of a host, on top of VMRuntime: drain and workload   *)
(* snapshot, bounded slot claims, source shutdown and quiescence, storage  *)
(* safety, port retirement, copy of the local volumes, relocation of the   *)
(* VM row, verification at the destination, and the terminal of the whole. *)
(*                                                                         *)
(*  drain     host_placement_drains_current                                *)
(*  evac      the latest host_evacuation_operations_current of a host,     *)
(*            with the authority generation its evidence names             *)
(*  child     host_evacuation_workloads_current and the immutable evidence *)
(*            collected for it: shutdown authority, storage safety,        *)
(*            compute release, retired ports, copy, relocation, and the    *)
(*            verification at the destination                              *)
(*  slot      host_evacuation_slot_claims_current                          *)
(***************************************************************************)
EXTENDS VMRuntime

CONSTANTS Movable,        \* VMs whose storage and PCI profile can be moved
          MaxConcurrent   \* maximum_concurrent_workloads of the request

ASSUME EvacuationAssumption ==
  /\ Movable \subseteq VMs
  /\ MaxConcurrent \in Nat \ {0}

VARIABLES drain, evac, child, slot

evacVars == <<drain, evac, child, slot>>
evacuationVars == <<runtimeVars, evacVars>>

NoChild == [phase |-> "NONE", plan |-> 0, shut |-> FALSE, closed |-> FALSE,
            safe |-> "NONE", released |-> FALSE, retiring |-> {}, retired |-> {}, copy |-> "NONE",
            dest |-> NoHost, verified |-> FALSE]
NoEvac == [state |-> "NONE", gen |-> 0]

Phases == {"NONE", "DISCOVERED", "READY_TO_QUIESCE", "QUIESCING_SOURCE", "SOURCE_QUIESCED",
           "VERIFIED", "BLOCKED", "CANCELLED", "RECOVERY_REQUIRED"}
PendingPhases == {"DISCOVERED", "READY_TO_QUIESCE", "QUIESCING_SOURCE", "SOURCE_QUIESCED"}
StoppedPhases == {"BLOCKED", "CANCELLED", "RECOVERY_REQUIRED"}

ChildRow == [phase : Phases, plan : Nat, shut : BOOLEAN, closed : BOOLEAN,
             safe : {"NONE", "ROOT", "ALL"}, released : BOOLEAN,
             retiring : SUBSET AllPorts, retired : SUBSET AllPorts,
             copy : {"NONE", "PENDING", "VERIFIED"},
             dest : VMHosts \cup {NoHost}, verified : BOOLEAN]
EvacRow == [state : {"NONE", "RUNNING", "PARTIAL", "BLOCKED", "VERIFIED", "SOURCE_UNREACHABLE"},
            gen : Nat]
SlotStates == {"NONE", "CLAIMED", "UNKNOWN"}

EvacuationTypeOK ==
  /\ RuntimeTypeOK
  /\ drain \in [VMHosts -> {"NONE", "DRAINING", "DRAINED"}]
  /\ evac \in [VMHosts -> EvacRow]
  /\ slot \in [VMHosts -> [VMs -> SlotStates]]
  /\ child \in [VMHosts -> [VMs -> ChildRow]]
  /\ \A h \in VMHosts, v \in VMs :
       child[h][v].retired \subseteq child[h][v].retiring /\ child[h][v].retiring \subseteq PortsOf[v]

EvacuationInit ==
  /\ RuntimeInit
  /\ drain = [h \in VMHosts |-> "NONE"]
  /\ evac = [h \in VMHosts |-> NoEvac]
  /\ child = [h \in VMHosts |-> [v \in VMs |-> NoChild]]
  /\ slot = [h \in VMHosts |-> [v \in VMs |-> "NONE"]]

-----------------------------------------------------------------------------
(* What the handlers read.                                                 *)

ManagedOn(h) == {v \in VMs : machine[v].host = h /\ machine[v].life # "DELETED"}
Slots(h) == {v \in VMs : slot[h][v] # "NONE"}
SourceArmed(h) == authority[h].armed /\ authority[h].gen = evac[h].gen
\* validateEvacuationClaimTx: the slot's owner, and never a slot in doubt.
ClaimHeld(h, v) == slot[h][v] = "CLAIMED"
OnSourcePlan(h, v) == machine[v].host = h /\ machine[v].plan = child[h][v].plan
HolderClosed(h, v) == domain[v][h].state # "RUNNING"

\* updateHostEvacuationAggregateTx over the children c of one operation.
Aggregate(e, c) ==
  LET in(S) == \E v \in VMs : c[v].phase \in S
      state == IF ~in(StoppedPhases) THEN "RUNNING"
               ELSE IF in(PendingPhases) \/ in({"VERIFIED"}) THEN "PARTIAL" ELSE "BLOCKED"
  IN IF e.state \in {"VERIFIED", "SOURCE_UNREACHABLE"} THEN e ELSE [e EXCEPT !.state = state]

Phase(h, v, p) == [child[h] EXCEPT ![v].phase = p]
Moves(h, c) ==
  /\ child' = [child EXCEPT ![h] = c]
  /\ evac' = [evac EXCEPT ![h] = Aggregate(@, c)]

-----------------------------------------------------------------------------
(* The operation and its slots.                                            *)

\* The drain and the snapshot of the VM rows are one transaction under the
\* host-placement lock that admissions take too.
StartHostEvacuation(h) ==
  /\ authority[h].armed /\ drain[h] = "NONE"
  /\ drain' = [drain EXCEPT ![h] = "DRAINING"]
  /\ evac' = [evac EXCEPT ![h] = [state |-> "RUNNING", gen |-> authority[h].gen]]
  /\ child' = [child EXCEPT ![h] = [v \in VMs |->
       IF v \in ManagedOn(h)
       THEN [NoChild EXCEPT !.phase = "DISCOVERED", !.plan = machine[v].plan]
       ELSE NoChild]]
  /\ slot' = [slot EXCEPT ![h] = [v \in VMs |-> "NONE"]]
  /\ UNCHANGED runtimeVars

EvaluateHostEvacuationEligibility(h) ==
  /\ \E v \in VMs : child[h][v].phase = "DISCOVERED"
  /\ Moves(h, [v \in VMs |->
       IF child[h][v].phase # "DISCOVERED" THEN child[h][v]
       ELSE [child[h][v] EXCEPT !.phase =
               IF v \in Movable THEN "READY_TO_QUIESCE" ELSE "BLOCKED"]])
  /\ UNCHANGED <<runtimeVars, drain, slot>>

\* Mutant: the state of the claim is copied to the slot.
ExpireSlotsAsExpired(h, expired) == [v \in VMs |-> IF v \in expired THEN "EXPIRED" ELSE slot[h][v]]

\* Mutant: slots in doubt do not count.
SlotsHeldByLive(s) == {v \in VMs : s[v] = "CLAIMED"}

\* An expired claim is reclaimed only before the source may have changed; a
\* claimed child is already QUIESCING_SOURCE, so its slot becomes UNKNOWN.
ExpireSlots(h, expired) == [v \in VMs |->
  IF v \notin expired THEN slot[h][v]
  ELSE IF child[h][v].phase = "READY_TO_QUIESCE" THEN "NONE" ELSE "UNKNOWN"]
SlotsHeld(s) == {v \in VMs : s[v] # "NONE"}

ClaimHostEvacuationWorkload(h) ==
  \E expired \in SUBSET {v \in VMs : slot[h][v] = "CLAIMED"} :
    LET s == ExpireSlots(h, expired)
        open == {v \in VMs : child[h][v].phase = "READY_TO_QUIESCE" /\ s[v] = "NONE"}
        full == Cardinality(SlotsHeld(s)) >= MaxConcurrent \/ open = {}
    IN /\ evac[h].state \in {"RUNNING", "PARTIAL"}
       /\ IF full
          THEN expired # {} /\ slot' = [slot EXCEPT ![h] = s] /\ UNCHANGED child
          ELSE \E v \in open :
                 /\ slot' = [slot EXCEPT ![h] = [s EXCEPT ![v] = "CLAIMED"]]
                 /\ child' = [child EXCEPT ![h] = Phase(h, v, "QUIESCING_SOURCE")]
       /\ UNCHANGED <<runtimeVars, drain, evac>>

BlockHostEvacuationChild(h, v) ==
  /\ ClaimHeld(h, v)
  /\ Moves(h, Phase(h, v, "BLOCKED"))
  /\ slot' = [slot EXCEPT ![h][v] = "NONE"]
  /\ UNCHANGED <<runtimeVars, drain>>

CancelHostEvacuationChild(h, v) ==
  /\ child[h][v].phase \in {"DISCOVERED", "READY_TO_QUIESCE"}
  /\ Moves(h, Phase(h, v, "CANCELLED"))
  /\ UNCHANGED <<runtimeVars, drain, slot>>

\* Mutant: children that have ended are stopped too.
StopsEvery(c) == IF c.phase # "NONE" THEN [c EXCEPT !.phase = "RECOVERY_REQUIRED"] ELSE c

\* Losing the source authority stops what has not ended and frees every slot.
StopsWith(c) == IF c.phase \in PendingPhases THEN [c EXCEPT !.phase = "RECOVERY_REQUIRED"] ELSE c

ReconcileHostEvacuationSourceAuthority(h) ==
  /\ evac[h].state # "NONE" /\ ~SourceArmed(h) /\ evac[h].state # "SOURCE_UNREACHABLE"
  /\ child' = [child EXCEPT ![h] = [v \in VMs |-> StopsWith(child[h][v])]]
  /\ slot' = [slot EXCEPT ![h] = [v \in VMs |-> "NONE"]]
  /\ evac' = [evac EXCEPT ![h].state = "SOURCE_UNREACHABLE"]
  /\ UNCHANGED <<runtimeVars, drain>>

-----------------------------------------------------------------------------
(* The source: shutdown, quiescence, storage and network.                  *)

AuthorizeHostEvacuationSourceShutdown(h, v) ==
  /\ ClaimHeld(h, v) /\ child[h][v].phase = "QUIESCING_SOURCE" /\ SourceArmed(h)
  /\ OnSourcePlan(h, v) /\ ObservedPower(v) = "RUNNING" /\ ~child[h][v].shut
  /\ CreatePowerCommand(v, h, "SHUTOFF", power[v].gen + 1, "EVACUATION")
  /\ child' = [child EXCEPT ![h][v].shut = TRUE]
  /\ UNCHANGED <<claims, attach, authority, defined, ready, realized, dataplane, power, evidence,
                 domain, drain, evac, slot>>

ShutdownReadBack(h, v) ==
  \E c \in evidence : c.vm = v /\ c.host = h /\ c.want = "SHUTOFF" /\ c.by = "EVACUATION"

RecordPlannedSourceQuiescence(h, v) ==
  /\ ClaimHeld(h, v) /\ child[h][v].phase = "QUIESCING_SOURCE" /\ SourceArmed(h)
  /\ OnSourcePlan(h, v) /\ child[h][v].shut /\ ShutdownReadBack(h, v)
  /\ child' = [child EXCEPT ![h] = Phase(h, v, "SOURCE_QUIESCED")]
  /\ UNCHANGED <<runtimeVars, drain, evac, slot>>

Quiesced(h, v) == ClaimHeld(h, v) /\ child[h][v].phase = "SOURCE_QUIESCED"

\* No holder was open when the agent read the volumes of the stopped domain;
\* the observation stays current until a newer one.
AcceptPlannedSourceVolumeSafetyObservation(h, v) ==
  /\ child[h][v].phase = "SOURCE_QUIESCED" /\ ~child[h][v].closed
  /\ machine[v].host = h /\ HolderClosed(h, v)
  /\ child' = [child EXCEPT ![h][v].closed = TRUE]
  /\ UNCHANGED <<runtimeVars, drain, evac, slot>>

EvaluateHostEvacuationSourceStorageSafety(h, v) ==
  /\ Quiesced(h, v) /\ SourceArmed(h) /\ child[h][v].safe = "NONE"
  /\ child[h][v].closed /\ ObservedPower(v) = "SHUTOFF" /\ power[v].host = h
  /\ child' = [child EXCEPT ![h][v].safe = "ROOT"]
  /\ UNCHANGED <<runtimeVars, drain, evac, slot>>

\* Every volume of the workload, under the evidence for the root.
EvaluateHostEvacuationSourceStorageSafetySet(h, v) ==
  /\ Quiesced(h, v) /\ child[h][v].safe = "ROOT" /\ child[h][v].closed
  /\ child' = [child EXCEPT ![h][v].safe = "ALL"]
  /\ UNCHANGED <<runtimeVars, drain, evac, slot>>

\* A port leaves its source binding in three steps: the retirement is
\* committed, OVN unbinds it, and a read-back of the stopped domain finds no
\* interface left.
AuthorizeHostEvacuationNetworkPortRetirement(h, v, p) ==
  /\ Quiesced(h, v) /\ ObservedPower(v) = "SHUTOFF" /\ power[v].host = h
  /\ p \in PortsOf[v] \ child[h][v].retiring
  /\ child' = [child EXCEPT ![h][v].retiring = @ \cup {p}]
  /\ UNCHANGED <<runtimeVars, drain, evac, slot>>

AcceptHostEvacuationNetworkPortSourceQuiescence(h, v, p) ==
  /\ Quiesced(h, v) /\ p \in child[h][v].retiring \ child[h][v].retired /\ HolderClosed(h, v)
  /\ child' = [child EXCEPT ![h][v].retired = @ \cup {p}]
  /\ UNCHANGED <<runtimeVars, drain, evac, slot>>

\* Mutant: the evidence of the release is written and the claim is left.
ReleaseEvidenceOnly(h, v) ==
  /\ Quiesced(h, v) /\ child[h][v].safe = "ALL" /\ child[h][v].retired = PortsOf[v]
  /\ claims[v][h] = "RESERVED" /\ ~child[h][v].released
  /\ child' = [child EXCEPT ![h][v].released = TRUE]
  /\ UNCHANGED <<runtimeVars, drain, evac, slot>>

ReleaseHostEvacuationSourcePlacement(h, v) ==
  /\ Quiesced(h, v) /\ child[h][v].safe = "ALL" /\ child[h][v].retired = PortsOf[v]
  /\ claims[v][h] = "RESERVED" /\ ~child[h][v].released
  /\ claims' = [claims EXCEPT ![v][h] = "RELEASED"]
  /\ child' = [child EXCEPT ![h][v].released = TRUE]
  /\ UNCHANGED <<attach, authority, machine, defined, ready, realized, dataplane, power,
                 commands, evidence, domain, drain, evac, slot>>

-----------------------------------------------------------------------------
(* The destination.                                                        *)

\* The source binding is released before the destination is asked for.
BuildHostEvacuationDestinationPlacementRequest(v) ==
  \E g \in VMHosts : child[g][v].phase = "SOURCE_QUIESCED" /\ child[g][v].released

\* An admission of a new VM, or of a workload whose source was released;
\* evaluation skips a draining host under the same host-placement lock.
AdmitPlacement(v, h) ==
  /\ drain[h] = "NONE" /\ authority[h].armed
  /\ \/ \A g \in VMHosts : claims[v][g] = "NONE"
     \/ BuildHostEvacuationDestinationPlacementRequest(v)
  /\ AdmitVM(v, h)
  /\ UNCHANGED evacVars

AdmittedElsewhere(h, v) == {g \in VMHosts \ {h} : claims[v][g] = "RESERVED"}

PrepareLocalLVMRelocationCopy(h, v) ==
  /\ Quiesced(h, v) /\ child[h][v].safe # "NONE"
  /\ AdmittedElsewhere(h, v) # {} /\ child[h][v].copy = "NONE"
  /\ ObservedPower(v) = "SHUTOFF" /\ power[v].host = h /\ child[h][v].closed
  /\ child' = [child EXCEPT ![h][v].copy = "PENDING"]
  /\ UNCHANGED <<runtimeVars, drain, evac, slot>>

\* Acceptance re-reads the safety evidence, both bindings and the source plan.
VerifyLocalLVMRelocationCopy(h, v) ==
  /\ child[h][v].copy = "PENDING" /\ child[h][v].safe # "NONE" /\ OnSourcePlan(h, v)
  /\ child' = [child EXCEPT ![h][v].copy = "VERIFIED"]
  /\ UNCHANGED <<runtimeVars, drain, evac, slot>>

AuthorizeHostEvacuationRelocation(h, v, g) ==
  /\ Quiesced(h, v) /\ SourceArmed(h) /\ child[h][v].safe = "ALL" /\ child[h][v].released
  /\ child[h][v].copy = "VERIFIED"
  /\ child[h][v].dest = NoHost /\ g \in AdmittedElsewhere(h, v) /\ drain[h] = "DRAINING"
  /\ child' = [child EXCEPT ![h][v].dest = g]
  /\ UNCHANGED <<runtimeVars, drain, evac, slot>>

\* PrepareVMMaterialization with a relocation authority.
MaterializeRelocation(h, v) ==
  /\ child[h][v].dest # NoHost /\ child[h][v].phase = "SOURCE_QUIESCED" /\ OnSourcePlan(h, v)
  /\ RelocateMachine(v, child[h][v].dest)
  /\ UNCHANGED evacVars

\* The destination identities, readiness, power and dataplane must all be of
\* the current plan; both steps read them.
NetworkEvidenceBound(v) == dataplane[v] = PortsOf[v]
RunsAtDestination(h, v) ==
  /\ child[h][v].dest # NoHost /\ machine[v].host = child[h][v].dest
  /\ ready[v].plan = machine[v].plan /\ Boots(v)
  /\ ObservedPower(v) = "RUNNING" /\ power[v].host = machine[v].host
  /\ NetworkEvidenceBound(v)

EvaluateHostEvacuationChildEvidence(h, v) ==
  /\ Quiesced(h, v) /\ SourceArmed(h)
  /\ drain[h] = "DRAINING" /\ ~child[h][v].verified /\ RunsAtDestination(h, v)
  /\ child' = [child EXCEPT ![h][v].verified = TRUE]
  /\ UNCHANGED <<runtimeVars, drain, evac, slot>>

CompleteHostEvacuationChild(h, v) ==
  /\ Quiesced(h, v) /\ SourceArmed(h)
  /\ child[h][v].verified /\ RunsAtDestination(h, v)
  /\ Moves(h, Phase(h, v, "VERIFIED"))
  /\ slot' = [slot EXCEPT ![h][v] = "NONE"]
  /\ UNCHANGED <<runtimeVars, drain>>

-----------------------------------------------------------------------------
(* The end of the operation.                                               *)

FinalizeHostEvacuation(h) ==
  /\ drain[h] = "DRAINING"
  /\ \A v \in VMs : child[h][v].phase \in {"NONE", "VERIFIED"}
  /\ ManagedOn(h) = {}
  /\ evac' = [evac EXCEPT ![h].state = "VERIFIED"]
  /\ drain' = [drain EXCEPT ![h] = "DRAINED"]
  /\ UNCHANGED <<runtimeVars, child, slot>>

ReleaseHostPlacementDrain(h) ==
  /\ drain[h] = "DRAINED" /\ evac[h].state = "VERIFIED" /\ authority[h].armed
  /\ drain' = [drain EXCEPT ![h] = "NONE"]
  /\ UNCHANGED <<runtimeVars, evac, child, slot>>

-----------------------------------------------------------------------------
RuntimeStep ==
  /\ \/ \E h \in VMHosts : LoseAuthority(h) \/ Rearm(h)
     \/ \E v \in VMs : Materialize(v) \/ Operate(v)
     \/ RunCommands
  /\ UNCHANGED evacVars

PrepareStep(v) == (\E h \in VMHosts : PrepareVMMaterialization(v, h)) /\ UNCHANGED evacVars

OperationStep(h) ==
  \/ StartHostEvacuation(h)
  \/ EvaluateHostEvacuationEligibility(h)
  \/ ClaimHostEvacuationWorkload(h)
  \/ ReconcileHostEvacuationSourceAuthority(h)
  \/ FinalizeHostEvacuation(h)
  \/ ReleaseHostPlacementDrain(h)

ChildStep(h, v) ==
  \/ BlockHostEvacuationChild(h, v)
  \/ CancelHostEvacuationChild(h, v)
  \/ AuthorizeHostEvacuationSourceShutdown(h, v)
  \/ RecordPlannedSourceQuiescence(h, v)
  \/ AcceptPlannedSourceVolumeSafetyObservation(h, v)
  \/ EvaluateHostEvacuationSourceStorageSafety(h, v)
  \/ EvaluateHostEvacuationSourceStorageSafetySet(h, v)
  \/ \E p \in PortsOf[v] : \/ AuthorizeHostEvacuationNetworkPortRetirement(h, v, p)
                           \/ AcceptHostEvacuationNetworkPortSourceQuiescence(h, v, p)
  \/ ReleaseHostEvacuationSourcePlacement(h, v)
  \/ PrepareLocalLVMRelocationCopy(h, v)
  \/ VerifyLocalLVMRelocationCopy(h, v)
  \/ \E g \in VMHosts : AuthorizeHostEvacuationRelocation(h, v, g)
  \/ MaterializeRelocation(h, v)
  \/ EvaluateHostEvacuationChildEvidence(h, v)
  \/ CompleteHostEvacuationChild(h, v)

EvacuationNext ==
  \/ RuntimeStep
  \/ \E v \in VMs : PrepareStep(v)
  \/ \E v \in VMs, h \in VMHosts : AdmitPlacement(v, h)
  \/ \E h \in VMHosts : OperationStep(h)
  \/ \E h \in VMHosts, v \in VMs : ChildStep(h, v)

EvacuationSpec == EvacuationInit /\ [][EvacuationNext]_evacuationVars

-----------------------------------------------------------------------------
(* Properties.                                                             *)

\* An operation never has more claimed and doubtful slots than its
\* maximum_concurrent_workloads: a worker that died after its claim goes on
\* counting until someone reads the source back (host_evacuation.go:362).
SlotsBounded == \A h \in VMHosts : Cardinality(Slots(h)) <= MaxConcurrent

\* A child that was verified stays verified: neither a sibling that is
\* blocked or cancelled, nor the loss of the source authority, rolls it back.
VerifiedChildStays ==
  [][\A h \in VMHosts, v \in VMs :
       child[h][v].phase = "VERIFIED" /\ evac'[h].gen = evac[h].gen /\ drain[h] # "NONE"
         => child'[h][v].phase = "VERIFIED"]_evacuationVars
=============================================================================
