----------------------------- MODULE VMRuntime -----------------------------
(***************************************************************************)
(* One VM from its placement admission to a running libvirt domain:        *)
(* materialization plan, domain definition, image, network ports, power    *)
(* commands, and the projection of what the agents read back.              *)
(*                                                                         *)
(* A step is one database transaction, or one command carried out by the   *)
(* agent of a host; the projection of a read-back, which checks the VM     *)
(* without locking it and writes later, is two.  Requests the code refuses *)
(* are not steps, and neither is the replay of an accepted request, which  *)
(* returns the recorded row.                                               *)
(*                                                                         *)
(*  claims    compute_allocation_claims: one admission per VM and host     *)
(*  attach    volume_attachment_claims of the root volume of an admission  *)
(*  authority host_operation_authorities_current, as this code reads it    *)
(*  machine   virtual_machines_current; plan is the materialization        *)
(*            generation of current_plan_id, preserved that its root was   *)
(*            copied from another host                                     *)
(*  defined   observation generation of the verified define command of the *)
(*            current plan (0: not verified).  The agent reports the       *)
(*            attempt index as the generation (libvirtvm/backend.go:87)    *)
(*  ready     vm_materialization_readiness_current                         *)
(*  realized, dataplane  ports with a realization, or a converged          *)
(*            dataplane, for their current binding                         *)
(*  power     vm_power_state_current                                       *)
(*  commands  power commands not yet projected, with the caller; SENT: an  *)
(*            agent holds the lease, SEEN: it ran it and read it back,     *)
(*            CHECKED: the transaction that projects it is under way       *)
(*  evidence  vm_power_observation_evidence: the projected commands        *)
(*  domain    the domains libvirt really has                               *)
(***************************************************************************)
EXTENDS Naturals, FiniteSets

CONSTANTS VMs, VMHosts,
          PortsOf,     \* the network requirements of each VM's admission
          Attempts     \* attempt indices a command may be verified at

ASSUME RuntimeAssumption ==
  /\ Attempts \subseteq Nat \ {0}
  /\ DOMAIN PortsOf = VMs
  /\ IsFiniteSet(VMs)
  /\ "none" \notin VMHosts

VARIABLES claims, attach, authority, machine, defined, ready, realized, dataplane,
          power, commands, evidence, domain

runtimeVars == <<claims, attach, authority, machine, defined, ready, realized,
                 dataplane, power, commands, evidence, domain>>

NoHost == "none"
AllPorts == UNION {PortsOf[v] : v \in VMs}
NoMachine == [life |-> "NONE", host |-> NoHost, plan |-> 0,
              desired |-> "SHUTOFF", preserved |-> FALSE]
NotReady == [gen |-> 0, plan |-> 0, image |-> FALSE, boot |-> "NONE"]
NoPower == [state |-> "NONE", gen |-> 0, host |-> NoHost]
NoDomain == [state |-> "ABSENT", plan |-> 0]

Callers == {"USER", "EVACUATION", "AGGREGATE", "RECOVERY"}
ClaimStates == {"NONE", "RESERVED", "RELEASED"}
AuthorityRow == [gen : Nat, armed : BOOLEAN]
MachineRow == [life : {"NONE", "PENDING", "DEFINED", "DELETED"}, host : VMHosts \cup {NoHost},
               plan : Nat, desired : {"RUNNING", "SHUTOFF"}, preserved : BOOLEAN]
ReadyRow == [gen : Nat, plan : Nat, image : BOOLEAN, boot : {"NONE", "BLOCKED", "READY"}]
PowerRow == [state : {"NONE", "RUNNING", "SHUTOFF"}, gen : Nat, host : VMHosts \cup {NoHost}]
DomainRow == [state : {"ABSENT", "RUNNING", "SHUTOFF"}, plan : Nat]
PowerCommand == [vm : VMs, host : VMHosts, want : {"RUNNING", "SHUTOFF"},
                 gen : Nat, by : Callers, stage : {"PENDING", "SENT", "SEEN", "CHECKED"}]

RuntimeTypeOK ==
  /\ claims \in [VMs -> [VMHosts -> ClaimStates]]
  /\ attach \in [VMs -> [VMHosts -> ClaimStates]]
  /\ authority \in [VMHosts -> AuthorityRow]
  /\ machine \in [VMs -> MachineRow]
  /\ defined \in [VMs -> Attempts \cup {0}]
  /\ ready \in [VMs -> ReadyRow]
  /\ realized \in [VMs -> SUBSET AllPorts] /\ dataplane \in [VMs -> SUBSET AllPorts]
  /\ \A v \in VMs : realized[v] \subseteq PortsOf[v] /\ dataplane[v] \subseteq PortsOf[v]
  /\ power \in [VMs -> PowerRow]
  /\ commands \subseteq PowerCommand
  /\ evidence \subseteq PowerCommand
  /\ domain \in [VMs -> [VMHosts -> DomainRow]]

RuntimeInit ==
  /\ claims = [v \in VMs |-> [h \in VMHosts |-> "NONE"]]
  /\ attach = [v \in VMs |-> [h \in VMHosts |-> "NONE"]]
  /\ authority = [h \in VMHosts |-> [gen |-> 1, armed |-> TRUE]]
  /\ machine = [v \in VMs |-> NoMachine]
  /\ defined = [v \in VMs |-> 0]
  /\ ready = [v \in VMs |-> NotReady]
  /\ realized = [v \in VMs |-> {}]
  /\ dataplane = [v \in VMs |-> {}]
  /\ power = [v \in VMs |-> NoPower]
  /\ commands = {}
  /\ evidence = {}
  /\ domain = [v \in VMs |-> [h \in VMHosts |-> NoDomain]]

-----------------------------------------------------------------------------
(* What the handlers read.                                                 *)

\* The readiness row is joined by VM and generation; most readers do not ask
\* that it belong to the current plan.
Realizable(v) == ready[v].boot # "NONE" /\ ready[v].image
Boots(v) == ready[v].boot = "READY"
ObservedPower(v) == power[v].state
\* requireCurrentHostPowerAuthorityTx.
PowerAuthority(h) == h \in VMHosts /\ authority[h].armed
AllRealized(v, ports) == ports = PortsOf[v] /\ PortsOf[v] # {}

RootReserved(v) == machine[v].host \in VMHosts /\ attach[v][machine[v].host] = "RESERVED"

\* A power command for host h.  The desired state is set where the row is on
\* that host; when it is on another one the command is created all the same.
\* createTypedVMPowerCommandTx.
CreatePowerCommand(v, h, want, g, by) ==
  /\ machine' = [machine EXCEPT ![v].desired = IF machine[v].host = h THEN want ELSE @]
  /\ commands' = commands \cup
       {[vm |-> v, host |-> h, want |-> want, gen |-> g, by |-> by, stage |-> "PENDING"]}

-----------------------------------------------------------------------------
(* Authority and admission, as the VM code meets them.                     *)

LoseAuthority(h) ==
  /\ authority[h].armed
  /\ authority' = [authority EXCEPT ![h].armed = FALSE]
  /\ UNCHANGED <<claims, attach, machine, defined, ready, realized, dataplane, power, commands, evidence, domain>>

Rearm(h) ==
  /\ ~authority[h].armed
  /\ authority' = [authority EXCEPT ![h] = [gen |-> @.gen + 1, armed |-> TRUE]]
  /\ UNCHANGED <<claims, attach, machine, defined, ready, realized, dataplane, power, commands, evidence, domain>>

AdmitVM(v, h) ==
  /\ claims[v][h] = "NONE"
  /\ claims' = [claims EXCEPT ![v][h] = "RESERVED"]
  /\ attach' = [attach EXCEPT ![v][h] = "RESERVED"]
  /\ UNCHANGED <<authority, machine, defined, ready, realized, dataplane, power, commands, evidence, domain>>

-----------------------------------------------------------------------------
(* Materialization.                                                        *)

\* The admission whose compute claim and root attachment a plan is made from.
AdmissionReserved(v, h) == claims[v][h] = "RESERVED" /\ attach[v][h] = "RESERVED"

\* The first plan of an admitted VM.
PrepareVMMaterialization(v, h) ==
  /\ AdmissionReserved(v, h) /\ machine[v].life = "NONE"
  /\ machine' = [machine EXCEPT ![v] =
       [NoMachine EXCEPT !.life = "PENDING", !.host = h, !.plan = 1]]
  /\ defined' = [defined EXCEPT ![v] = 0]
  /\ UNCHANGED <<claims, attach, authority, ready, realized, dataplane, power, commands, evidence, domain>>

\* The relocation branch: the row moves to the destination of an authorized
\* relocation.  Readiness and power rows stay as they are.
RelocateMachine(v, h) ==
  /\ AdmissionReserved(v, h)
  /\ machine' = [machine EXCEPT ![v] =
       [life |-> "PENDING", host |-> h, plan |-> @.plan + 1,
        desired |-> "SHUTOFF", preserved |-> TRUE]]
  /\ defined' = [defined EXCEPT ![v] = 0]
  /\ realized' = [realized EXCEPT ![v] = {}]
  /\ dataplane' = [dataplane EXCEPT ![v] = {}]
  /\ UNCHANGED <<claims, attach, authority, ready, power, commands, evidence, domain>>

\* The agent defines an absent domain; a present one must be of the same plan.
\* n is the attempt that was verified.
DefineDomain(v, n) ==
  LET h == machine[v].host IN
  /\ machine[v].life # "NONE" /\ defined[v] = 0 /\ authority[h].armed
  /\ domain[v][h] = NoDomain \/ domain[v][h].plan = machine[v].plan
  /\ domain' = [domain EXCEPT ![v][h] =
       IF @ = NoDomain THEN [state |-> "SHUTOFF", plan |-> machine[v].plan] ELSE @]
  /\ defined' = [defined EXCEPT ![v] = n]
  /\ UNCHANGED <<claims, attach, authority, machine, ready, realized, dataplane, power, commands, evidence>>

\* Only a generation above that of the readiness row is accepted, whichever
\* plan the row is of.
DefinitionNewer(v) == ready[v].boot = "NONE" \/ defined[v] > ready[v].gen

AcceptVMDefinitionObservation(v) ==
  /\ defined[v] # 0 /\ DefinitionNewer(v) /\ RootReserved(v)
  /\ ready' = [ready EXCEPT ![v] = [gen |-> defined[v], plan |-> machine[v].plan,
                                    image |-> FALSE, boot |-> "BLOCKED"]]
  /\ machine' = [machine EXCEPT ![v].life = "DEFINED"]
  /\ UNCHANGED <<claims, attach, authority, defined, realized, dataplane, power, commands, evidence, domain>>

\* The base image is copied to the root volume, never over a preserved root.
PrepareVMImageMaterialization(v) ==
  /\ machine[v].life = "DEFINED" /\ ready[v].plan = machine[v].plan /\ RootReserved(v)
  /\ ~machine[v].preserved

AcceptVMImageRealizationObservation(v) ==
  /\ PrepareVMImageMaterialization(v) /\ ~ready[v].image
  /\ ready' = [ready EXCEPT ![v].image = TRUE, ![v].boot = "BLOCKED"]
  /\ UNCHANGED <<claims, attach, authority, machine, defined, realized, dataplane, power, commands, evidence, domain>>

AcceptVMPreservedRootReadiness(v) ==
  /\ machine[v].life = "DEFINED" /\ ready[v].plan = machine[v].plan /\ machine[v].preserved
  /\ ~ready[v].image
  /\ ready' = [ready EXCEPT ![v].image = TRUE, ![v].boot = "BLOCKED"]
  /\ UNCHANGED <<claims, attach, authority, machine, defined, realized, dataplane, power, commands, evidence, domain>>

-----------------------------------------------------------------------------
(* Network and power.                                                      *)

\* The request to realize a port; its acceptance repeats these joins.
PrepareOVSPortRealization(v, p) ==
  /\ p \in PortsOf[v] \ realized[v]
  /\ machine[v].life = "DEFINED" /\ Realizable(v) /\ PowerAuthority(machine[v].host)

\* The last port arms power in the same transaction.  Its payload carries no
\* observation generation, so the agent will report the attempt index n.
MaybeArmReadyVMPower(v, ports, n) ==
  IF AllRealized(v, ports)
  THEN /\ ready' = [ready EXCEPT ![v].boot = "READY"]
       /\ CreatePowerCommand(v, machine[v].host, "RUNNING", n, "USER")
  ELSE UNCHANGED <<ready, machine, commands>>

AcceptPortRealization(v, p, n) ==
  /\ PrepareOVSPortRealization(v, p)
  /\ realized' = [realized EXCEPT ![v] = @ \cup {p}]
  /\ MaybeArmReadyVMPower(v, realized[v] \cup {p}, n)
  /\ UNCHANGED <<claims, attach, authority, defined, dataplane, power, evidence, domain>>

\* The dataplane of a realized port is asked for once the VM is seen RUNNING.
PrepareOVSDataplaneObservation(v, p) ==
  p \in realized[v] /\ machine[v].life = "DEFINED" /\ ObservedPower(v) = "RUNNING"

\* The read-back saw the domain running at some time since; only the rows are
\* read again.
AcceptOVSDataplaneObservation(v, p) ==
  /\ p \notin dataplane[v] /\ PrepareOVSDataplaneObservation(v, p)
  /\ dataplane' = [dataplane EXCEPT ![v] = @ \cup {p}]
  /\ UNCHANGED <<claims, attach, authority, machine, defined, ready, realized, power, commands, evidence, domain>>

\* READY and the power command of a VM without ports.
AuthorizeZeroPortVMPowerOn(v) ==
  /\ PortsOf[v] = {} /\ RootReserved(v)
  /\ Realizable(v) /\ PowerAuthority(machine[v].host)
  /\ ready' = [ready EXCEPT ![v].boot = "READY"]
  /\ CreatePowerCommand(v, machine[v].host, "RUNNING", power[v].gen + 1, "USER")
  /\ UNCHANGED <<claims, attach, authority, defined, realized, dataplane, power, evidence, domain>>

AuthorizeVMPowerOff(v) ==
  /\ PowerAuthority(machine[v].host) /\ ObservedPower(v) = "RUNNING"
  /\ CreatePowerCommand(v, machine[v].host, "SHUTOFF", power[v].gen + 1, "USER")
  /\ UNCHANGED <<claims, attach, authority, defined, ready, realized, dataplane, power, evidence, domain>>

\* A mutation lease is granted only under an armed authority.
LeasePower(c) ==
  /\ c \in commands /\ c.stage = "PENDING" /\ authority[c.host].armed
  /\ commands' = (commands \ {c}) \cup {[c EXCEPT !.stage = "SENT"]}
  /\ UNCHANGED <<claims, attach, authority, machine, defined, ready, realized, dataplane, power, evidence, domain>>

\* The agent that holds the lease starts or stops a present domain, whatever
\* has become of the authority since; an absent domain is an error the command
\* does not survive as MATCHED.
ExecutePower(c) ==
  /\ c \in commands /\ c.stage = "SENT"
  /\ domain[c.vm][c.host].state # "ABSENT"
  /\ domain' = [domain EXCEPT ![c.vm][c.host].state = c.want]
  /\ commands' = (commands \ {c}) \cup {[c EXCEPT !.stage = "SEEN"]}
  /\ UNCHANGED <<claims, attach, authority, machine, defined, ready, realized, dataplane, power, evidence>>

\* The verification transaction is refused as a whole when the VM is no
\* longer on that host, wants another state, or is not ready.
PowerStillWanted(c) ==
  /\ machine[c.vm].host = c.host
  /\ machine[c.vm].desired = c.want
  /\ Boots(c.vm)

\* The check locks no row of the VM.  A CHECKED command is one whose
\* transaction is open; one that rolls back is as if not yet checked.
CheckPowerStillWanted(c) ==
  /\ c \in commands /\ c.stage = "SEEN" /\ PowerStillWanted(c)
  /\ commands' = (commands \ {c}) \cup {[c EXCEPT !.stage = "CHECKED"]}
  /\ UNCHANGED <<claims, attach, authority, machine, defined, ready, realized, dataplane, power, evidence, domain>>

\* The rows are written as checked, whatever became of the VM since: its
\* generation, which they refer to, is kept by everything that moves it.
ProjectPower(c) ==
  /\ c \in commands /\ c.stage = "CHECKED"
  /\ power' = [power EXCEPT ![c.vm] =
       IF c.gen > @.gen THEN [state |-> c.want, gen |-> c.gen, host |-> c.host] ELSE @]
  /\ commands' = commands \ {c}
  /\ evidence' = evidence \cup {c}
  /\ UNCHANGED <<claims, attach, authority, machine, defined, ready, realized, dataplane, domain>>

-----------------------------------------------------------------------------
Materialize(v) ==
  \/ \E n \in Attempts : DefineDomain(v, n)
  \/ AcceptVMDefinitionObservation(v)
  \/ AcceptVMImageRealizationObservation(v)
  \/ AcceptVMPreservedRootReadiness(v)

Operate(v) ==
  \/ \E p \in PortsOf[v], n \in Attempts : AcceptPortRealization(v, p, n)
  \/ \E p \in PortsOf[v] : AcceptOVSDataplaneObservation(v, p)
  \/ AuthorizeZeroPortVMPowerOn(v)
  \/ AuthorizeVMPowerOff(v)

RunCommands == \E c \in commands :
  LeasePower(c) \/ ExecutePower(c) \/ CheckPowerStillWanted(c) \/ ProjectPower(c)

RuntimeNext ==
  \/ \E h \in VMHosts : LoseAuthority(h) \/ Rearm(h)
  \/ \E v \in VMs, h \in VMHosts : AdmitVM(v, h) \/ PrepareVMMaterialization(v, h)
  \/ \E v \in VMs : Materialize(v) \/ Operate(v)
  \/ RunCommands

RuntimeSpec == RuntimeInit /\ [][RuntimeNext]_runtimeVars

-----------------------------------------------------------------------------
(* Properties.                                                             *)

\* A VM row moves to another host only when its compute claim on the host it
\* leaves was released and the one on its new host is reserved: an evacuation,
\* which releases, admits and moves in separate transactions and may be
\* blocked, fenced or resumed between them, and a recovery never leave a moved
\* VM counted on both hosts or on none.
MovesWithItsClaim ==
  [][\A v \in VMs : machine[v].host # NoHost /\ machine'[v].host # machine[v].host =>
       /\ claims[v][machine[v].host] = "RELEASED"
       /\ machine'[v].host # NoHost /\ claims[v][machine'[v].host] = "RESERVED"]_runtimeVars
=============================================================================
