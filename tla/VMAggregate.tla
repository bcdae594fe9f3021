---------------------------- MODULE VMAggregate ----------------------------
(***************************************************************************)
(* The VM resource of the API, on top of VMRuntime and HostEvacuation: a   *)
(* desired revision, one lifecycle operation at a time (create, power,     *)
(* delete), and the runtime binding that says where the VM was verified.   *)
(*                                                                         *)
(*  resource  vm_resources_current with its revision evidence              *)
(*  op        vm_lifecycle_operations_current of current_operation_id and  *)
(*            the evidence recorded for it: admitted host, plan, the       *)
(*            verification, the command authority, and for a delete the    *)
(*            absence of domain, volumes and ports                         *)
(*  binding   vm_resource_runtime_bindings_current                         *)
(*                                                                         *)
(* A worker acts under a claim; only the holder of the current, unexpired  *)
(* one is admitted, so a claim is here a flag that lapses and is retaken.  *)
(***************************************************************************)
EXTENDS HostEvacuation

CONSTANTS VolumesOf,     \* the volumes of each VM: "ROOT" and perhaps "DATA"
          ReadsDetached  \* the host agent can report a volume of an undefined
                         \* domain as DETACHED (libvirtvolume does not)

ASSUME AggregateAssumption ==
  /\ VolumesOf \in [VMs -> {{"ROOT"}, {"ROOT", "DATA"}}]
  /\ ReadsDetached \in BOOLEAN

VARIABLES resource, op, binding

resourceVars == <<resource, op, binding>>
aggregateVars == <<evacuationVars, resourceVars>>

NoResource == [life |-> "NONE", converged |-> FALSE, rev |-> 0, intent |-> 0, power |-> "RUNNING"]
NoBinding == [host |-> NoHost, plan |-> 0, rev |-> 0, intent |-> 0]
NoVerdict == [host |-> NoHost, plan |-> 0, ready |-> 0, power |-> 0]
NoOp == [kind |-> "NONE", state |-> "VERIFIED", claimed |-> FALSE, host |-> NoHost, plan |-> 0,
         verdict |-> NoVerdict, shutoff |-> 0, domain |-> "NONE", asked |-> {}, detached |-> {},
         retiring |-> {}, absent |-> {}]

Volumes == {"ROOT", "DATA"}
ResourceRow == [life : {"NONE", "CREATING", "ACTIVE", "RETIRE_PENDING", "DELETED"},
                converged : BOOLEAN, rev : Nat, intent : Nat, power : {"RUNNING", "SHUTOFF"}]
BindingRow == [host : VMHosts \cup {NoHost}, plan : Nat, rev : Nat, intent : Nat]
VerdictRow == [host : VMHosts \cup {NoHost}, plan : Nat, ready : Nat, power : Nat]
OpRow == [kind : {"NONE", "CREATE", "POWER", "DELETE"},
          state : {"PENDING", "MATERIALIZING", "VERIFYING", "VERIFIED"},
          claimed : BOOLEAN, host : VMHosts \cup {NoHost}, plan : Nat, verdict : VerdictRow,
          shutoff : Nat, domain : {"NONE", "SENT", "MATCHED", "ABSENT"},
          asked : SUBSET Volumes, detached : SUBSET Volumes,
          retiring : SUBSET AllPorts, absent : SUBSET AllPorts]

AggregateTypeOK ==
  /\ EvacuationTypeOK
  /\ resource \in [VMs -> ResourceRow]
  /\ binding \in [VMs -> BindingRow]
  /\ op \in [VMs -> OpRow]
  /\ \A v \in VMs : /\ op[v].detached \subseteq op[v].asked /\ op[v].asked \subseteq VolumesOf[v]
                    /\ op[v].absent \subseteq op[v].retiring /\ op[v].retiring \subseteq PortsOf[v]

AggregateInit ==
  /\ EvacuationInit
  /\ resource = [v \in VMs |-> NoResource]
  /\ op = [v \in VMs |-> NoOp]
  /\ binding = [v \in VMs |-> NoBinding]

-----------------------------------------------------------------------------
(* What the handlers read.                                                 *)

\* lockVMAggregateClaim.
Holds(v, kind) == op[v].claimed /\ op[v].kind = kind /\ op[v].state # "VERIFIED"
Settled(v) == resource[v].life = "ACTIVE" /\ resource[v].converged /\ op[v].state = "VERIFIED"
BindingCurrent(v) == binding[v].rev = resource[v].rev /\ binding[v].intent = resource[v].intent
Opens(v, kind, r) ==
  /\ resource' = [resource EXCEPT ![v] = r]
  /\ op' = [op EXCEPT ![v] = [NoOp EXCEPT !.kind = kind, !.state = "PENDING"]]
Closes(v) == op' = [op EXCEPT ![v].state = "VERIFIED", ![v].claimed = FALSE]

-----------------------------------------------------------------------------
(* Create.                                                                 *)

\* The named ports are unattached, the volumes available, flavor, image,
\* policy and scope current; the initial power state can only be RUNNING.
CreateVMAggregate(v) ==
  /\ resource[v].life = "NONE"
  /\ Opens(v, "CREATE", [NoResource EXCEPT !.life = "CREATING", !.rev = 1, !.intent = 1])
  /\ UNCHANGED <<evacuationVars, binding>>

ClaimVMAggregateLifecycle(v) ==
  /\ op[v].state # "VERIFIED" /\ ~op[v].claimed
  /\ op' = [op EXCEPT ![v].claimed = TRUE]
  /\ UNCHANGED <<evacuationVars, resource, binding>>

\* claim_expires_at passes before the worker is done.
LapseClaim(v) ==
  /\ op[v].claimed
  /\ op' = [op EXCEPT ![v].claimed = FALSE]
  /\ UNCHANGED <<evacuationVars, resource, binding>>

BindVMAggregateAdmission(v, h) ==
  /\ Holds(v, "CREATE") /\ op[v].state = "PENDING" /\ claims[v][h] = "RESERVED"
  /\ op' = [op EXCEPT ![v].host = h, ![v].state = "MATERIALIZING", ![v].claimed = FALSE]
  /\ UNCHANGED <<evacuationVars, resource, binding>>

PrepareVMAggregateMaterialization(v) ==
  /\ Holds(v, "CREATE") /\ op[v].state = "MATERIALIZING" /\ op[v].plan = 0
  /\ PrepareVMMaterialization(v, op[v].host)
  /\ op' = [op EXCEPT ![v].plan = 1, ![v].claimed = FALSE]
  /\ UNCHANGED <<evacVars, resource, binding>>

\* READY and RUNNING of the operation's own host and plan.
Evidence(v) == [host |-> machine[v].host, plan |-> machine[v].plan,
                ready |-> ready[v].gen, power |-> power[v].gen]
RunsAsAdmitted(v, h, p) ==
  /\ machine[v].host = h /\ machine[v].plan = p /\ ready[v].plan = p
  /\ Boots(v) /\ realized[v] = PortsOf[v] /\ ObservedPower(v) = "RUNNING"

EvaluateVMAggregateEvidence(v) ==
  /\ Holds(v, "CREATE") /\ op[v].state = "MATERIALIZING" /\ op[v].plan # 0
  /\ op[v].verdict # Evidence(v) /\ RunsAsAdmitted(v, op[v].host, op[v].plan)
  /\ op' = [op EXCEPT ![v].verdict = Evidence(v)]
  /\ UNCHANGED <<evacuationVars, resource, binding>>

\* Mutant: the recorded verdict is not compared with the rows.
VerdictRecorded(v) == op[v].verdict # NoVerdict

\* The verification is immutable; completion joins it with the rows as they
\* are now.
VerdictCurrent(v) == op[v].verdict = Evidence(v) /\ Boots(v) /\ ObservedPower(v) = "RUNNING"

CompleteVMAggregateLifecycle(v) ==
  /\ Holds(v, "CREATE") /\ VerdictRecorded(v) /\ VerdictCurrent(v)
  /\ binding' = [binding EXCEPT ![v] = [host |-> op[v].host, plan |-> op[v].plan,
                                        rev |-> resource[v].rev, intent |-> resource[v].intent]]
  /\ resource' = [resource EXCEPT ![v].life = "ACTIVE", ![v].converged = TRUE]
  /\ Closes(v)
  /\ UNCHANGED evacuationVars

-----------------------------------------------------------------------------
(* Metadata and power.                                                     *)

UpdateVMAggregateMetadata(v) ==
  /\ Settled(v) /\ BindingCurrent(v)
  /\ resource' = [resource EXCEPT ![v].rev = @ + 1]
  /\ binding' = [binding EXCEPT ![v].rev = @ + 1]
  /\ UNCHANGED <<evacuationVars, op>>

StartVMAggregatePowerUpdate(v, want) ==
  /\ Settled(v) /\ want # resource[v].power
  /\ Opens(v, "POWER", [resource[v] EXCEPT !.rev = @ + 1, !.intent = @ + 1,
                                           !.converged = FALSE, !.power = want])
  /\ UNCHANGED <<evacuationVars, binding>>

PowerMayChange(v, want) ==
  IF want = "SHUTOFF" THEN ObservedPower(v) = "RUNNING"
  ELSE ObservedPower(v) = "SHUTOFF" /\ Boots(v) /\ ready[v].plan = binding[v].plan

\* To the host of the runtime binding, which a relocation that is not yet
\* associated has left behind.
AuthorizeVMAggregatePowerCommand(v) ==
  /\ Holds(v, "POWER") /\ PortsOf[v] = {} /\ PowerMayChange(v, resource[v].power)
  /\ CreatePowerCommand(v, binding[v].host, resource[v].power, power[v].gen + 1, "AGGREGATE")
  /\ op' = [op EXCEPT ![v].state = "VERIFYING", ![v].host = binding[v].host,
                      ![v].plan = binding[v].plan]
  /\ UNCHANGED <<claims, attach, authority, defined, ready, realized, dataplane, power, evidence,
                 domain, evacVars, resource, binding>>

\* The power row must come from the very command of the authority.
PowerReadBack(v) ==
  /\ power[v].state = resource[v].power /\ power[v].host = op[v].host
  /\ \E c \in evidence : c.vm = v /\ c.host = op[v].host /\ c.by = "AGGREGATE"
                           /\ c.gen = power[v].gen /\ c.want = resource[v].power

CompleteVMAggregatePowerUpdate(v) ==
  /\ Holds(v, "POWER") /\ op[v].state = "VERIFYING"
  /\ binding[v].host = op[v].host /\ binding[v].plan = op[v].plan /\ PowerReadBack(v)
  /\ binding' = [binding EXCEPT ![v].rev = resource[v].rev, ![v].intent = resource[v].intent]
  /\ resource' = [resource EXCEPT ![v].converged = TRUE]
  /\ Closes(v)
  /\ UNCHANGED evacuationVars

-----------------------------------------------------------------------------
(* Delete.                                                                 *)

\* The root volume of the bound plan must be the one of the dependency
\* snapshot, which a relocated VM no longer has.
RootIsDependency(v) == binding[v].plan = 1

StartVMAggregateDelete(v) ==
  /\ Settled(v) /\ BindingCurrent(v) /\ RootIsDependency(v)
  /\ claims[v][binding[v].host] = "RESERVED" /\ ObservedPower(v) = "SHUTOFF"
  /\ resource' = [resource EXCEPT ![v].life = "RETIRE_PENDING", ![v].rev = @ + 1,
                                  ![v].converged = FALSE]
  /\ op' = [op EXCEPT ![v] = [NoOp EXCEPT !.kind = "DELETE", !.state = "PENDING",
              !.host = binding[v].host, !.plan = binding[v].plan, !.shutoff = power[v].gen]]
  /\ binding' = [binding EXCEPT ![v].rev = @ + 1]
  /\ UNCHANGED evacuationVars

\* loadVMAggregateDeleteTx: the power evidence of the start is still the
\* current one.
DeleteMayProceed(v) ==
  Holds(v, "DELETE") /\ ObservedPower(v) = "SHUTOFF" /\ power[v].gen = op[v].shutoff

AuthorizeVMAggregateDeleteDomainCommand(v) ==
  /\ DeleteMayProceed(v) /\ op[v].domain = "NONE"
  /\ op' = [op EXCEPT ![v].state = "VERIFYING", ![v].domain = "SENT"]
  /\ UNCHANGED <<evacuationVars, resource, binding>>

\* The agent undefines a present domain of that plan unless it is running,
\* and reads its absence back.
ExecuteCleanup(v) ==
  LET d == domain[v][op[v].host] IN
  /\ op[v].domain = "SENT" /\ authority[op[v].host].armed
  /\ d = NoDomain \/ (d.state # "RUNNING" /\ d.plan = op[v].plan)
  /\ domain' = [domain EXCEPT ![v][op[v].host] = NoDomain]
  /\ op' = [op EXCEPT ![v].domain = "MATCHED"]
  /\ UNCHANGED <<claims, attach, authority, machine, defined, ready, realized, dataplane, power,
                 commands, evidence, evacVars, resource, binding>>

RecordVMAggregateDeleteDomainAbsence(v) ==
  /\ DeleteMayProceed(v) /\ op[v].domain = "MATCHED"
  /\ op' = [op EXCEPT ![v].domain = "ABSENT"]
  /\ UNCHANGED <<evacuationVars, resource, binding>>

AuthorizeVMAggregateDeleteAbsenceReadBack(v, r) ==
  /\ DeleteMayProceed(v) /\ op[v].domain = "ABSENT" /\ r \in VolumesOf[v] \ op[v].asked
  /\ op' = [op EXCEPT ![v].asked = @ \cup {r}]
  /\ UNCHANGED <<evacuationVars, resource, binding>>

\* The read-back of a volume, accepted as DETACHED: its attachment claim is
\* released.
AcceptLocalLVMAttachmentObservation(v, r) ==
  /\ ReadsDetached /\ r \in op[v].asked \ op[v].detached
  /\ domain[v][op[v].host] = NoDomain /\ authority[op[v].host].armed
  /\ attach' = IF r = "ROOT" THEN [attach EXCEPT ![v][op[v].host] = "RELEASED"] ELSE attach
  /\ op' = [op EXCEPT ![v].detached = @ \cup {r}]
  /\ UNCHANGED <<claims, authority, machine, defined, ready, realized, dataplane, power,
                 commands, evidence, domain, evacVars, resource, binding>>

AuthorizeVMAggregateDeletePortRetirement(v, p) ==
  /\ DeleteMayProceed(v) /\ op[v].domain = "ABSENT" /\ p \in PortsOf[v] \ op[v].retiring
  /\ op' = [op EXCEPT ![v].retiring = @ \cup {p}]
  /\ UNCHANGED <<evacuationVars, resource, binding>>

\* Once OVN has retired the port's binding.
RecordVMAggregateDeleteNetworkPortAbsence(v, p) ==
  /\ DeleteMayProceed(v) /\ p \in op[v].retiring \ op[v].absent
  /\ op' = [op EXCEPT ![v].absent = @ \cup {p}]
  /\ UNCHANGED <<evacuationVars, resource, binding>>

\* FinalizeVMAggregateDeleteNetworkAbsenceSet: every port of the snapshot.
NetworkAbsent(v) == op[v].absent = PortsOf[v]
StorageDetached(v) == op[v].detached = VolumesOf[v] /\ attach[v][op[v].host] = "RELEASED"

\* Mutant: only the network of the VM is looked at.
DeleteProfileOfNetwork(v) == DeleteMayProceed(v) /\ NetworkAbsent(v) /\ claims[v][op[v].host] = "RESERVED"

DeleteProfileComplete(v) ==
  /\ DeleteMayProceed(v) /\ op[v].domain = "ABSENT"
  /\ NetworkAbsent(v) /\ StorageDetached(v) /\ claims[v][op[v].host] = "RESERVED"

CompleteVMAggregateDelete(v) ==
  /\ DeleteProfileComplete(v)
  /\ claims' = [claims EXCEPT ![v][op[v].host] = "RELEASED"]
  /\ power' = [power EXCEPT ![v] = NoPower]
  /\ ready' = [ready EXCEPT ![v] = NotReady]
  /\ machine' = [machine EXCEPT ![v].life = "DELETED", ![v].desired = "SHUTOFF"]
  /\ resource' = [resource EXCEPT ![v].life = "DELETED", ![v].rev = @ + 1, ![v].converged = TRUE]
  /\ binding' = [binding EXCEPT ![v] = NoBinding]
  /\ Closes(v)
  /\ UNCHANGED <<attach, authority, defined, realized, dataplane, commands, evidence, domain, evacVars>>

-----------------------------------------------------------------------------
(* Mobility.                                                               *)

\* A verified evacuation of v from h, whose destination still shows the
\* readiness and the power of the terminal.
TerminalShown(h, v) ==
  /\ evac[h].state = "VERIFIED" /\ child[h][v].phase = "VERIFIED" /\ RunsAtDestination(h, v)

AssociateVMAggregateMobility(h, v) ==
  /\ resource[v].life = "ACTIVE" /\ resource[v].converged
  /\ binding[v].host = h /\ binding[v].plan = child[h][v].plan /\ TerminalShown(h, v)
  /\ binding' = [binding EXCEPT ![v].host = machine[v].host, ![v].plan = machine[v].plan]
  /\ UNCHANGED <<evacuationVars, resource, op>>

-----------------------------------------------------------------------------
CreateStep(v) ==
  \/ CreateVMAggregate(v)
  \/ ClaimVMAggregateLifecycle(v)
  \/ LapseClaim(v)
  \/ \E h \in VMHosts : BindVMAggregateAdmission(v, h)
  \/ PrepareVMAggregateMaterialization(v)
  \/ EvaluateVMAggregateEvidence(v)
  \/ CompleteVMAggregateLifecycle(v)

UpdateStep(v) ==
  \/ UpdateVMAggregateMetadata(v)
  \/ \E want \in {"RUNNING", "SHUTOFF"} : StartVMAggregatePowerUpdate(v, want)
  \/ AuthorizeVMAggregatePowerCommand(v)
  \/ CompleteVMAggregatePowerUpdate(v)
  \/ \E h \in VMHosts : AssociateVMAggregateMobility(h, v)

DeleteStep(v) ==
  \/ StartVMAggregateDelete(v)
  \/ AuthorizeVMAggregateDeleteDomainCommand(v)
  \/ ExecuteCleanup(v)
  \/ RecordVMAggregateDeleteDomainAbsence(v)
  \/ \E r \in VolumesOf[v] : \/ AuthorizeVMAggregateDeleteAbsenceReadBack(v, r)
                             \/ AcceptLocalLVMAttachmentObservation(v, r)
  \/ \E p \in PortsOf[v] : \/ AuthorizeVMAggregateDeletePortRetirement(v, p)
                           \/ RecordVMAggregateDeleteNetworkPortAbsence(v, p)
  \/ CompleteVMAggregateDelete(v)

UnderAggregate ==
  \/ RuntimeStep
  \/ \E v \in VMs, h \in VMHosts : AdmitPlacement(v, h)
  \/ \E h \in VMHosts : OperationStep(h)
  \/ \E h \in VMHosts, v \in VMs : ChildStep(h, v)

AggregateNext ==
  \/ UnderAggregate /\ UNCHANGED resourceVars
  \/ \E v \in VMs : CreateStep(v) \/ UpdateStep(v) \/ DeleteStep(v)

AggregateSpec == AggregateInit /\ [][AggregateNext]_aggregateVars

-----------------------------------------------------------------------------
(* Properties.                                                             *)

\* A deleted VM has no domain on any host and holds no compute claim, however
\* the delete interleaved with power commands still under way, with a
\* definition read back late, or with an evacuation of its host.
DeletedIsGone ==
  \A v \in VMs : resource[v].life = "DELETED" =>
    \A h \in VMHosts : domain[v][h] = NoDomain /\ claims[v][h] # "RESERVED"

\* A create or power operation ends VERIFIED only in a state in which the
\* power row shows the desired power, read back from the host the runtime
\* binding names: evidence recorded earlier and overtaken is not enough.
ConvergedAsObserved ==
  [][\A v \in VMs : op[v].state # "VERIFIED" /\ op'[v].state = "VERIFIED" /\ op[v].kind # "DELETE"
       => power'[v].state = resource'[v].power /\ power'[v].host = binding'[v].host]_aggregateVars
=============================================================================
