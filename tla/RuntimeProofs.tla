---------------------------- MODULE RuntimeProofs ---------------------------
(***************************************************************************)
(* The tables of a placed VM, for every set of VMs, hosts and ports: what  *)
(* each step of the runtime writes, and what it leaves of the rows of      *)
(* every VM.  The proofs of the lifecycle and of the recovery rest on it.  *)
(***************************************************************************)
EXTENDS VMRuntime, TLAPS

USE ZenonT(60)

\* A set limited to n members only loses some, or gains one where there was
\* room for it.
StaysWithin(S, T, n) ==
  \/ T \subseteq S
  \/ \E R \in SUBSET S : \E x : (Cardinality(R) \in Nat => Cardinality(R) < n) /\ T \subseteq R \cup {x}

-----------------------------------------------------------------------------
(* Types of the runtime tables.                                            *)

LEMMA Updated ==
  ASSUME NEW S, NEW R, NEW f \in [S -> R], NEW x, NEW r, x \in S => r \in R
  PROVE  [f EXCEPT ![x] = r] \in [S -> R]
OBVIOUS

LEMMA UpdatedTwice ==
  ASSUME NEW S, NEW T, NEW R, NEW f \in [S -> [T -> R]], NEW x, NEW y, NEW r, x \in S /\ y \in T => r \in R
  PROVE  [f EXCEPT ![x][y] = r] \in [S -> [T -> R]]
OBVIOUS

LEMMA RowsTyped ==
  ASSUME RuntimeTypeOK, NEW v \in VMs
  PROVE  /\ machine[v] \in MachineRow /\ ready[v] \in ReadyRow /\ power[v] \in PowerRow
         /\ defined[v] \in Attempts \cup {0}
         /\ realized[v] \in SUBSET AllPorts /\ dataplane[v] \in SUBSET AllPorts
         /\ realized[v] \subseteq PortsOf[v] /\ dataplane[v] \subseteq PortsOf[v]
BY DEF RuntimeTypeOK

LEMMA AuthorityTyped ==
  ASSUME RuntimeTypeOK, NEW h \in VMHosts
  PROVE  authority[h] \in AuthorityRow
BY DEF RuntimeTypeOK

LEMMA PortsListed ==
  ASSUME NEW v \in VMs
  PROVE  PortsOf[v] \subseteq AllPorts
BY DEF AllPorts

LEMMA MachineFields ==
  ASSUME NEW m \in MachineRow
  PROVE  /\ m.life \in {"NONE", "PENDING", "DEFINED", "DELETED"} /\ m.host \in VMHosts \cup {NoHost}
         /\ m.plan \in Nat /\ m.desired \in {"RUNNING", "SHUTOFF"} /\ m.preserved \in BOOLEAN
BY DEF MachineRow

LEMMA DesiredSet ==
  ASSUME NEW m \in MachineRow, NEW w \in {"RUNNING", "SHUTOFF"}
  PROVE  /\ [m EXCEPT !.desired = w] \in MachineRow
         /\ [m EXCEPT !.desired = w].life = m.life /\ [m EXCEPT !.desired = w].host = m.host
         /\ [m EXCEPT !.desired = w].plan = m.plan
BY DEF MachineRow

LEMMA ReadyFields ==
  ASSUME NEW r \in ReadyRow
  PROVE  /\ r.gen \in Nat /\ r.plan \in Nat /\ r.image \in BOOLEAN /\ r.boot \in {"NONE", "BLOCKED", "READY"}
         /\ [r EXCEPT !.boot = "READY"] \in ReadyRow
         /\ [r EXCEPT !.boot = "READY"].boot = "READY"
         /\ [r EXCEPT !.image = TRUE, !.boot = "BLOCKED"] \in ReadyRow
         /\ [r EXCEPT !.image = TRUE, !.boot = "BLOCKED"].boot = "BLOCKED"
BY DEF ReadyRow

\* No read-back of v newly passed the check before its projection.
CheckedKept(v) == \A c \in commands' : c.vm = v /\ c.stage = "CHECKED" => c \in commands

\* A power command for a host is well formed, and the machine row keeps all
\* but its desired state.
LEMMA PowerCommanded ==
  ASSUME RuntimeTypeOK, NEW v \in VMs, NEW h \in VMHosts, NEW want \in {"RUNNING", "SHUTOFF"},
         NEW g \in Nat, NEW by \in Callers, CreatePowerCommand(v, h, want, g, by)
  PROVE  /\ machine' \in [VMs -> MachineRow] /\ commands' \subseteq PowerCommand
         /\ \A w \in VMs : /\ machine'[w].life = machine[w].life /\ machine'[w].host = machine[w].host
                           /\ machine'[w].plan = machine[w].plan /\ CheckedKept(w)
<1>1. [vm |-> v, host |-> h, want |-> want, gen |-> g, by |-> by, stage |-> "PENDING"] \in PowerCommand
  BY DEF PowerCommand
<1>2. commands \subseteq PowerCommand /\ machine \in [VMs -> MachineRow]
  BY DEF RuntimeTypeOK
<1>a. PICK w : w = IF machine[v].host = h THEN want ELSE machine[v].desired
  OBVIOUS
<1>b. PICK m : m = [machine[v] EXCEPT !.desired = w]
  OBVIOUS
<1>3. w \in {"RUNNING", "SHUTOFF"}
  BY <1>a, <1>2, MachineFields
<1>4. machine' = [machine EXCEPT ![v] = m]
  BY <1>a, <1>b, <1>2 DEF CreatePowerCommand
<1>5. m \in MachineRow /\ m.life = machine[v].life /\ m.host = machine[v].host /\ m.plan = machine[v].plan
  BY <1>b, <1>2, <1>3, DesiredSet
<1>6. machine' \in [VMs -> MachineRow]
  BY <1>2, <1>4, <1>5, Updated
<1>7. commands' \subseteq PowerCommand
  BY <1>1, <1>2 DEF CreatePowerCommand
<1>8. ASSUME NEW x \in VMs
      PROVE  machine'[x].life = machine[x].life /\ machine'[x].host = machine[x].host /\ machine'[x].plan = machine[x].plan
  BY <1>2, <1>4, <1>5
<1>9. \A x \in VMs : CheckedKept(x)
  <2>n. PICK n : n = [vm |-> v, host |-> h, want |-> want, gen |-> g, by |-> by, stage |-> "PENDING"]
    OBVIOUS
  <2>1. commands' = commands \cup {n}
    BY <2>n DEF CreatePowerCommand
  <2>2. n.stage = "PENDING"
    BY <2>n
  <2>3. QED
    BY <2>1, <2>2 DEF CheckedKept
<1>10. QED
  BY <1>6, <1>7, <1>8, <1>9

-----------------------------------------------------------------------------
(* What each step of the runtime does to the rows of a VM.                 *)

\* All a VM's rows show of what VMInv reads.
RuntimeKept(v) ==
  /\ claims'[v] = claims[v] /\ attach'[v] = attach[v]
  /\ domain'[v] = domain[v] /\ defined'[v] = defined[v] /\ power'[v] = power[v]
  /\ machine'[v].life = machine[v].life /\ machine'[v].host = machine[v].host
  /\ machine'[v].plan = machine[v].plan /\ CheckedKept(v)
  /\ ready'[v].boot # "NONE" => ready[v].boot # "NONE" \/ machine[v].life = "DEFINED"

LEMMA AuthorityStep ==
  ASSUME RuntimeTypeOK, NEW h \in VMHosts, LoseAuthority(h) \/ Rearm(h)
  PROVE  RuntimeTypeOK' /\ \A w \in VMs : RuntimeKept(w)
<1>1. authority \in [VMHosts -> AuthorityRow] /\ authority[h] \in AuthorityRow
  BY DEF RuntimeTypeOK
<1>2. authority[h].gen \in Nat
  BY <1>1 DEF AuthorityRow
<1>3. authority[h].gen + 1 \in Nat
  BY <1>2, SMTT(30)
<1>4. [authority[h] EXCEPT !.armed = FALSE] \in AuthorityRow
  BY <1>1 DEF AuthorityRow
<1>5. [gen |-> authority[h].gen + 1, armed |-> TRUE] \in AuthorityRow
  BY <1>3 DEF AuthorityRow
<1>6. LoseAuthority(h) => authority' = [authority EXCEPT ![h] = [authority[h] EXCEPT !.armed = FALSE]]
  BY <1>1 DEF LoseAuthority
<1>7. Rearm(h) => authority' = [authority EXCEPT ![h] = [gen |-> authority[h].gen + 1, armed |-> TRUE]]
  BY <1>1 DEF Rearm
<1>8. authority' \in [VMHosts -> AuthorityRow]
  BY <1>1, <1>4, <1>5, <1>6, <1>7, Updated
<1>9. UNCHANGED <<claims, attach, machine, defined, ready, realized, dataplane, power, commands, evidence, domain>>
  BY DEF LoseAuthority, Rearm
<1>10. QED
  BY <1>8, <1>9 DEF RuntimeTypeOK, RuntimeKept, CheckedKept

LEMMA AdmitStep ==
  ASSUME RuntimeTypeOK, NEW v \in VMs, NEW h \in VMHosts, AdmitVM(v, h)
  PROVE  /\ RuntimeTypeOK'
         /\ \A w \in VMs : CheckedKept(w) /\ (w # v => RuntimeKept(w))
         /\ \A g \in VMHosts : /\ claims'[v][g] = IF g = h THEN "RESERVED" ELSE claims[v][g]
                               /\ attach'[v][g] = IF g = h THEN "RESERVED" ELSE attach[v][g]
         /\ UNCHANGED <<machine, defined, ready, power, domain>>
<1>1. claims \in [VMs -> [VMHosts -> ClaimStates]] /\ attach \in [VMs -> [VMHosts -> ClaimStates]]
  BY DEF RuntimeTypeOK
<1>2. /\ claims' = [claims EXCEPT ![v][h] = "RESERVED"] /\ attach' = [attach EXCEPT ![v][h] = "RESERVED"]
      /\ UNCHANGED <<authority, machine, defined, ready, realized, dataplane, power, commands, evidence, domain>>
  BY DEF AdmitVM
<1>3. "RESERVED" \in ClaimStates
  BY DEF ClaimStates
<1>4. claims' \in [VMs -> [VMHosts -> ClaimStates]] /\ attach' \in [VMs -> [VMHosts -> ClaimStates]]
  BY <1>1, <1>2, <1>3, UpdatedTwice
<1>5. RuntimeTypeOK'
  BY <1>2, <1>4 DEF RuntimeTypeOK
<1>6. \A w \in VMs : CheckedKept(w) /\ (w # v => RuntimeKept(w))
  BY <1>1, <1>2 DEF RuntimeKept, CheckedKept
<1>7. QED
  BY <1>1, <1>2, <1>5, <1>6

LEMMA PrepareStepRows ==
  ASSUME RuntimeTypeOK, NEW v \in VMs, NEW h \in VMHosts, PrepareVMMaterialization(v, h)
  PROVE  /\ RuntimeTypeOK'
         /\ \A w \in VMs : CheckedKept(w) /\ (w # v => RuntimeKept(w))
         /\ machine[v].life = "NONE" /\ claims[v][h] = "RESERVED"
         /\ machine'[v].life = "PENDING" /\ machine'[v].host = h /\ machine'[v].plan = 1
         /\ UNCHANGED <<claims, attach, ready, power, domain>>
<1>1. machine \in [VMs -> MachineRow] /\ defined \in [VMs -> Attempts \cup {0}]
  BY DEF RuntimeTypeOK
<1>a. PICK m : m = [NoMachine EXCEPT !.life = "PENDING", !.host = h, !.plan = 1]
  OBVIOUS
<1>2. m = [life |-> "PENDING", host |-> h, plan |-> 1, desired |-> "SHUTOFF", preserved |-> FALSE]
  BY <1>a DEF NoMachine
<1>3. m \in MachineRow
  <2>1. 1 \in Nat
    BY SMTT(30)
  <2>2. QED
    BY <1>2, <2>1 DEF MachineRow
<1>4. /\ machine' = [machine EXCEPT ![v] = m] /\ defined' = [defined EXCEPT ![v] = 0]
      /\ UNCHANGED <<claims, attach, authority, ready, realized, dataplane, power, commands, evidence, domain>>
      /\ machine[v].life = "NONE" /\ claims[v][h] = "RESERVED"
  BY <1>a DEF PrepareVMMaterialization, AdmissionReserved
<1>5. machine' \in [VMs -> MachineRow] /\ defined' \in [VMs -> Attempts \cup {0}]
  BY <1>1, <1>3, <1>4, Updated
<1>6. RuntimeTypeOK'
  BY <1>4, <1>5 DEF RuntimeTypeOK
<1>7. \A w \in VMs : CheckedKept(w) /\ (w # v => RuntimeKept(w))
  BY <1>1, <1>4 DEF RuntimeKept, CheckedKept
<1>8. machine'[v] = m
  BY <1>1, <1>4
<1>b. m.life = "PENDING" /\ m.host = h /\ m.plan = 1
  BY <1>2
<1>9. QED
  BY <1>b, <1>4, <1>6, <1>7, <1>8

LEMMA RelocateStepRows ==
  ASSUME RuntimeTypeOK, NEW v \in VMs, NEW h \in VMHosts, RelocateMachine(v, h)
  PROVE  /\ RuntimeTypeOK'
         /\ \A w \in VMs : CheckedKept(w) /\ (w # v => RuntimeKept(w))
         /\ machine'[v].life = "PENDING" /\ machine'[v].host = h /\ machine'[v].plan = machine[v].plan + 1
         /\ claims[v][h] = "RESERVED"
         /\ UNCHANGED <<claims, attach, ready, power, domain>>
<1>1. machine \in [VMs -> MachineRow] /\ defined \in [VMs -> Attempts \cup {0}]
      /\ realized \in [VMs -> SUBSET AllPorts] /\ dataplane \in [VMs -> SUBSET AllPorts]
      /\ \A w \in VMs : realized[w] \subseteq PortsOf[w] /\ dataplane[w] \subseteq PortsOf[w]
  BY DEF RuntimeTypeOK
<1>a. PICK m : m = [life |-> "PENDING", host |-> h, plan |-> machine[v].plan + 1,
                    desired |-> "SHUTOFF", preserved |-> TRUE]
  OBVIOUS
<1>3. m \in MachineRow
  <2>1. machine[v].plan \in Nat
    BY <1>1, MachineFields
  <2>2. machine[v].plan + 1 \in Nat
    BY <2>1, SMTT(30)
  <2>3. QED
    BY <1>a, <2>2 DEF MachineRow
<1>4. /\ machine' = [machine EXCEPT ![v] = m] /\ defined' = [defined EXCEPT ![v] = 0]
      /\ realized' = [realized EXCEPT ![v] = {}] /\ dataplane' = [dataplane EXCEPT ![v] = {}]
      /\ UNCHANGED <<claims, attach, authority, ready, power, commands, evidence, domain>>
      /\ claims[v][h] = "RESERVED"
  BY <1>1, <1>a DEF RelocateMachine, AdmissionReserved
<1>5. machine' \in [VMs -> MachineRow] /\ defined' \in [VMs -> Attempts \cup {0}]
  BY <1>1, <1>3, <1>4, Updated
<1>6. realized' \in [VMs -> SUBSET AllPorts] /\ dataplane' \in [VMs -> SUBSET AllPorts]
  BY <1>1, <1>4, Updated
<1>7. \A w \in VMs : realized'[w] \subseteq PortsOf[w] /\ dataplane'[w] \subseteq PortsOf[w]
  BY <1>1, <1>4
<1>8. RuntimeTypeOK'
  BY <1>4, <1>5, <1>6, <1>7 DEF RuntimeTypeOK
<1>9. \A w \in VMs : CheckedKept(w) /\ (w # v => RuntimeKept(w))
  BY <1>1, <1>4 DEF RuntimeKept, CheckedKept
<1>10. machine'[v] = m
  BY <1>1, <1>4
<1>b. m.life = "PENDING" /\ m.host = h /\ m.plan = machine[v].plan + 1
  BY <1>a
<1>11. QED
  BY <1>b, <1>4, <1>8, <1>9, <1>10
LEMMA DefineStepRows ==
  ASSUME RuntimeTypeOK, NEW v \in VMs, NEW n \in Attempts, DefineDomain(v, n)
  PROVE  /\ RuntimeTypeOK'
         /\ \A w \in VMs : CheckedKept(w) /\ (w # v => RuntimeKept(w))
         /\ machine[v].life # "NONE" /\ defined[v] = 0 /\ defined'[v] = n
         /\ \A g \in VMHosts : g # machine[v].host => domain'[v][g] = domain[v][g]
         /\ UNCHANGED <<claims, attach, machine, ready, power>>
<1>a. PICK h : h = machine[v].host
  OBVIOUS
<1>b. PICK d : d = IF domain[v][h] = NoDomain THEN [state |-> "SHUTOFF", plan |-> machine[v].plan]
                   ELSE domain[v][h]
  OBVIOUS
<1>1. /\ domain \in [VMs -> [VMHosts -> DomainRow]] /\ defined \in [VMs -> Attempts \cup {0}]
      /\ machine[v] \in MachineRow
  BY DEF RuntimeTypeOK
<1>2. /\ machine[v].life # "NONE" /\ defined[v] = 0
      /\ domain' = [domain EXCEPT ![v][h] = d] /\ defined' = [defined EXCEPT ![v] = n]
      /\ UNCHANGED <<claims, attach, authority, machine, ready, realized, dataplane, power, commands, evidence>>
  BY <1>1, <1>a, <1>b DEF DefineDomain
<1>3. [state |-> "SHUTOFF", plan |-> machine[v].plan] \in DomainRow
  BY <1>1, MachineFields DEF DomainRow
<1>4. h \in VMHosts => d \in DomainRow
  BY <1>1, <1>b, <1>3
<1>5. domain' \in [VMs -> [VMHosts -> DomainRow]]
  BY <1>1, <1>2, <1>4, UpdatedTwice
<1>6. defined' \in [VMs -> Attempts \cup {0}]
  BY <1>1, <1>2, Updated
<1>7. RuntimeTypeOK'
  BY <1>2, <1>5, <1>6 DEF RuntimeTypeOK
<1>8. \A w \in VMs : CheckedKept(w) /\ (w # v => RuntimeKept(w))
  BY <1>1, <1>2 DEF RuntimeKept, CheckedKept
<1>9. \A g \in VMHosts : g # h => domain'[v][g] = domain[v][g]
  BY <1>1, <1>2
<1>10. defined'[v] = n
  BY <1>1, <1>2
<1>11. QED
  BY <1>a, <1>2, <1>7, <1>8, <1>9, <1>10

LEMMA DefinitionStepRows ==
  ASSUME RuntimeTypeOK, NEW v \in VMs, AcceptVMDefinitionObservation(v)
  PROVE  /\ RuntimeTypeOK'
         /\ \A w \in VMs : CheckedKept(w) /\ (w # v => RuntimeKept(w))
         /\ defined[v] # 0 /\ machine[v].host \in VMHosts /\ attach[v][machine[v].host] = "RESERVED"
         /\ machine'[v].life = "DEFINED" /\ machine'[v].host = machine[v].host
         /\ machine'[v].plan = machine[v].plan
         /\ ready'[v].boot = "BLOCKED"
         /\ UNCHANGED <<claims, attach, defined, power, domain>>
<1>1. /\ machine \in [VMs -> MachineRow] /\ ready \in [VMs -> ReadyRow]
      /\ machine[v] \in MachineRow /\ defined[v] \in Attempts \cup {0}
  BY DEF RuntimeTypeOK
<1>a. PICK m : m = [machine[v] EXCEPT !.life = "DEFINED"]
  OBVIOUS
<1>b. PICK r : r = [gen |-> defined[v], plan |-> machine[v].plan, image |-> FALSE, boot |-> "BLOCKED"]
  OBVIOUS
<1>2. /\ defined[v] # 0 /\ machine[v].host \in VMHosts /\ attach[v][machine[v].host] = "RESERVED"
      /\ machine' = [machine EXCEPT ![v] = m] /\ ready' = [ready EXCEPT ![v] = r]
      /\ UNCHANGED <<claims, attach, authority, defined, realized, dataplane, power, commands, evidence, domain>>
  BY <1>1, <1>a, <1>b DEF AcceptVMDefinitionObservation, RootReserved
<1>3. m \in MachineRow /\ m.life = "DEFINED" /\ m.host = machine[v].host /\ m.plan = machine[v].plan
  BY <1>1, <1>a DEF MachineRow
<1>4. defined[v] \in Nat
  <2>1. Attempts \subseteq Nat /\ 0 \in Nat
    BY RuntimeAssumption, SMTT(30)
  <2>2. QED
    BY <1>1, <2>1
<1>5. r \in ReadyRow /\ r.boot = "BLOCKED"
  BY <1>1, <1>b, <1>4, MachineFields DEF ReadyRow
<1>6. machine' \in [VMs -> MachineRow] /\ ready' \in [VMs -> ReadyRow]
  BY <1>1, <1>2, <1>3, <1>5, Updated
<1>7. RuntimeTypeOK'
  BY <1>2, <1>6 DEF RuntimeTypeOK
<1>8. \A w \in VMs : CheckedKept(w) /\ (w # v => RuntimeKept(w))
  BY <1>1, <1>2 DEF RuntimeKept, CheckedKept
<1>9. machine'[v] = m /\ ready'[v] = r
  BY <1>1, <1>2
<1>10. QED
  BY <1>2, <1>3, <1>5, <1>7, <1>8, <1>9

\* The readiness row of v is replaced by r and nothing else is.
LEMMA ReadyKept ==
  ASSUME RuntimeTypeOK, NEW v \in VMs, NEW r \in ReadyRow,
         r.boot # "NONE" => ready[v].boot # "NONE" \/ machine[v].life = "DEFINED",
         ready' = [ready EXCEPT ![v] = r],
         UNCHANGED <<claims, attach, authority, machine, defined, realized, dataplane, power, commands, evidence, domain>>
  PROVE  RuntimeTypeOK' /\ \A w \in VMs : RuntimeKept(w)
<1>1. ready \in [VMs -> ReadyRow]
  BY DEF RuntimeTypeOK
<1>2. ready' \in [VMs -> ReadyRow]
  BY <1>1, Updated
<1>3. RuntimeTypeOK'
  BY <1>2 DEF RuntimeTypeOK
<1>4. \A w \in VMs : ready'[w].boot # "NONE" => ready[w].boot # "NONE" \/ machine[w].life = "DEFINED"
  BY <1>1
<1>5. QED
  BY <1>3, <1>4 DEF RuntimeKept, CheckedKept
LEMMA ImageStep ==
  ASSUME RuntimeTypeOK, NEW v \in VMs,
         AcceptVMImageRealizationObservation(v) \/ AcceptVMPreservedRootReadiness(v)
  PROVE  RuntimeTypeOK' /\ \A w \in VMs : RuntimeKept(w)
<1>1. ready \in [VMs -> ReadyRow] /\ ready[v] \in ReadyRow
  BY DEF RuntimeTypeOK
<1>a. PICK r : r = [ready[v] EXCEPT !.image = TRUE, !.boot = "BLOCKED"]
  OBVIOUS
<1>2. r \in ReadyRow
  BY <1>1, <1>a, ReadyFields
<1>3. /\ ready' = [ready EXCEPT ![v] = r] /\ machine[v].life = "DEFINED"
      /\ UNCHANGED <<claims, attach, authority, machine, defined, realized, dataplane, power, commands, evidence, domain>>
  BY <1>1, <1>a DEF AcceptVMImageRealizationObservation, AcceptVMPreservedRootReadiness,
                    PrepareVMImageMaterialization
<1>4. QED
  BY <1>2, <1>3, ReadyKept

LEMMA PortStep ==
  ASSUME RuntimeTypeOK, NEW v \in VMs, NEW p \in PortsOf[v], NEW n \in Attempts,
         AcceptPortRealization(v, p, n)
  PROVE  RuntimeTypeOK' /\ \A w \in VMs : RuntimeKept(w)
<1>1. /\ ready \in [VMs -> ReadyRow] /\ ready[v] \in ReadyRow
      /\ realized \in [VMs -> SUBSET AllPorts] /\ realized[v] \in SUBSET AllPorts
      /\ \A w \in VMs : realized[w] \subseteq PortsOf[w]
  BY DEF RuntimeTypeOK
<1>a. PICK ports : ports = realized[v] \cup {p}
  OBVIOUS
<1>b. PICK r : r = [ready[v] EXCEPT !.boot = "READY"]
  OBVIOUS
<1>2. /\ machine[v].life = "DEFINED" /\ machine[v].host \in VMHosts
      /\ realized' = [realized EXCEPT ![v] = ports] /\ MaybeArmReadyVMPower(v, ports, n)
      /\ UNCHANGED <<claims, attach, authority, defined, dataplane, power, evidence, domain>>
  BY <1>1, <1>a DEF AcceptPortRealization, PrepareOVSPortRealization, PowerAuthority
<1>3. ports \in SUBSET AllPorts /\ ports \subseteq PortsOf[v]
  BY <1>1, <1>a, PortsListed
<1>4. realized' \in [VMs -> SUBSET AllPorts]
  BY <1>1, <1>2, <1>3, Updated
<1>5. \A w \in VMs : realized'[w] \subseteq PortsOf[w]
  BY <1>1, <1>2, <1>3
<1>6. CASE AllRealized(v, ports)
  <2>1. ready' = [ready EXCEPT ![v] = r] /\ CreatePowerCommand(v, machine[v].host, "RUNNING", n, "USER")
    BY <1>1, <1>2, <1>6, <1>b DEF MaybeArmReadyVMPower
  <2>2. n \in Nat
    BY RuntimeAssumption
  <2>3. "USER" \in Callers
    BY DEF Callers
  <2>4. /\ machine' \in [VMs -> MachineRow] /\ commands' \subseteq PowerCommand
        /\ \A w \in VMs : /\ machine'[w].life = machine[w].life /\ machine'[w].host = machine[w].host
                          /\ machine'[w].plan = machine[w].plan /\ CheckedKept(w)
    BY <1>2, <2>1, <2>2, <2>3, PowerCommanded
  <2>5. ready' \in [VMs -> ReadyRow]
    BY <1>1, <1>b, <2>1, ReadyFields, Updated
  <2>6. RuntimeTypeOK'
    BY <1>2, <1>4, <1>5, <2>4, <2>5 DEF RuntimeTypeOK
  <2>7. \A w \in VMs : ready'[w].boot # "NONE" => ready[w].boot # "NONE" \/ machine[w].life = "DEFINED"
    BY <1>1, <1>2, <2>1
  <2>8. QED
    BY <1>2, <2>4, <2>6, <2>7 DEF RuntimeKept
<1>7. CASE ~AllRealized(v, ports)
  <2>1. UNCHANGED <<ready, machine, commands>>
    BY <1>2, <1>7 DEF MaybeArmReadyVMPower
  <2>2. RuntimeTypeOK'
    BY <1>2, <1>4, <1>5, <2>1 DEF RuntimeTypeOK
  <2>3. QED
    BY <1>2, <2>1, <2>2 DEF RuntimeKept, CheckedKept
<1>8. QED
  BY <1>6, <1>7

LEMMA DataplaneStep ==
  ASSUME RuntimeTypeOK, NEW v \in VMs, NEW p \in PortsOf[v], AcceptOVSDataplaneObservation(v, p)
  PROVE  RuntimeTypeOK' /\ \A w \in VMs : RuntimeKept(w)
<1>1. /\ dataplane \in [VMs -> SUBSET AllPorts] /\ dataplane[v] \in SUBSET AllPorts
      /\ \A w \in VMs : dataplane[w] \subseteq PortsOf[w]
  BY DEF RuntimeTypeOK
<1>a. PICK ports : ports = dataplane[v] \cup {p}
  OBVIOUS
<1>2. /\ dataplane' = [dataplane EXCEPT ![v] = ports]
      /\ UNCHANGED <<claims, attach, authority, machine, defined, ready, realized, power, commands, evidence, domain>>
  BY <1>1, <1>a DEF AcceptOVSDataplaneObservation
<1>3. ports \in SUBSET AllPorts /\ ports \subseteq PortsOf[v]
  BY <1>1, <1>a, PortsListed
<1>4. dataplane' \in [VMs -> SUBSET AllPorts]
  BY <1>1, <1>2, <1>3, Updated
<1>5. \A w \in VMs : dataplane'[w] \subseteq PortsOf[w]
  BY <1>1, <1>2, <1>3
<1>6. RuntimeTypeOK'
  BY <1>2, <1>4, <1>5 DEF RuntimeTypeOK
<1>7. QED
  BY <1>2, <1>6 DEF RuntimeKept, CheckedKept

\* A step that creates one power command for h, and may replace the readiness
\* row of v by r.
LEMMA CommandStep ==
  ASSUME RuntimeTypeOK, NEW v \in VMs, NEW h \in VMHosts, NEW want \in {"RUNNING", "SHUTOFF"},
         NEW by \in Callers, CreatePowerCommand(v, h, want, power[v].gen + 1, by),
         NEW r \in ReadyRow,
         r.boot # "NONE" => ready[v].boot # "NONE" \/ machine[v].life = "DEFINED",
         ready' = [ready EXCEPT ![v] = r] \/ ready' = ready,
         UNCHANGED <<claims, attach, authority, defined, realized, dataplane, power, evidence, domain>>
  PROVE  RuntimeTypeOK' /\ \A w \in VMs : RuntimeKept(w)
<1>1. ready \in [VMs -> ReadyRow] /\ power[v].gen \in Nat
  <2>1. power[v] \in PowerRow
    BY RowsTyped
  <2>2. QED
    BY <2>1 DEF PowerRow, RuntimeTypeOK
<1>2. power[v].gen + 1 \in Nat
  BY <1>1, SMTT(30)
<1>3. /\ machine' \in [VMs -> MachineRow] /\ commands' \subseteq PowerCommand
      /\ \A w \in VMs : /\ machine'[w].life = machine[w].life /\ machine'[w].host = machine[w].host
                        /\ machine'[w].plan = machine[w].plan /\ CheckedKept(w)
  BY <1>2, PowerCommanded
<1>4. ready' \in [VMs -> ReadyRow]
  BY <1>1, Updated
<1>5. RuntimeTypeOK'
  BY <1>3, <1>4 DEF RuntimeTypeOK
<1>6. \A w \in VMs : ready'[w].boot # "NONE" => ready[w].boot # "NONE" \/ machine[w].life = "DEFINED"
  BY <1>1
<1>7. QED
  BY <1>3, <1>5, <1>6 DEF RuntimeKept

LEMMA PowerStep ==
  ASSUME RuntimeTypeOK, NEW v \in VMs, AuthorizeZeroPortVMPowerOn(v) \/ AuthorizeVMPowerOff(v)
  PROVE  RuntimeTypeOK' /\ \A w \in VMs : RuntimeKept(w)
<1>1. ready \in [VMs -> ReadyRow] /\ ready[v] \in ReadyRow
  BY DEF RuntimeTypeOK
<1>a. PICK r : r = [ready[v] EXCEPT !.boot = "READY"]
  OBVIOUS
<1>2. r \in ReadyRow /\ "USER" \in Callers
  BY <1>1, <1>a, ReadyFields DEF Callers
<1>3. CASE AuthorizeZeroPortVMPowerOn(v)
  <2>1. /\ ready' = [ready EXCEPT ![v] = r] /\ ready[v].boot # "NONE" /\ machine[v].host \in VMHosts
        /\ CreatePowerCommand(v, machine[v].host, "RUNNING", power[v].gen + 1, "USER")
        /\ UNCHANGED <<claims, attach, authority, defined, realized, dataplane, power, evidence, domain>>
    BY <1>1, <1>3, <1>a DEF AuthorizeZeroPortVMPowerOn, Realizable, PowerAuthority
  <2>2. QED
    BY <1>2, <2>1, CommandStep
<1>4. CASE AuthorizeVMPowerOff(v)
  <2>1. /\ ready' = ready /\ machine[v].host \in VMHosts
        /\ CreatePowerCommand(v, machine[v].host, "SHUTOFF", power[v].gen + 1, "USER")
        /\ UNCHANGED <<claims, attach, authority, defined, realized, dataplane, power, evidence, domain>>
    BY <1>4 DEF AuthorizeVMPowerOff, PowerAuthority
  <2>2. ready[v].boot # "NONE" => ready[v].boot # "NONE" \/ machine[v].life = "DEFINED"
    OBVIOUS
  <2>3. QED
    BY <1>1, <1>2, <2>1, <2>2, CommandStep
<1>5. QED
  BY <1>3, <1>4
LEMMA CommandFields ==
  ASSUME RuntimeTypeOK, NEW c \in commands
  PROVE  /\ c \in PowerCommand /\ c.vm \in VMs /\ c.host \in VMHosts /\ c.want \in {"RUNNING", "SHUTOFF"}
         /\ c.gen \in Nat
         /\ \A s \in {"SENT", "SEEN", "CHECKED"} :
              /\ [c EXCEPT !.stage = s] \in PowerCommand
              /\ [c EXCEPT !.stage = s].stage = s /\ [c EXCEPT !.stage = s].vm = c.vm
              /\ [c EXCEPT !.stage = s].host = c.host
<1>1. c \in PowerCommand
  BY DEF RuntimeTypeOK
<1>2. QED
  BY <1>1 DEF PowerCommand

LEMMA LeaseStep ==
  ASSUME RuntimeTypeOK, NEW c \in commands, LeasePower(c)
  PROVE  RuntimeTypeOK' /\ \A w \in VMs : RuntimeKept(w)
<1>1. /\ commands' = (commands \ {c}) \cup {[c EXCEPT !.stage = "SENT"]}
      /\ UNCHANGED <<claims, attach, authority, machine, defined, ready, realized, dataplane, power, evidence, domain>>
  BY DEF LeasePower
<1>2. commands \subseteq PowerCommand
  BY DEF RuntimeTypeOK
<1>3. commands' \subseteq PowerCommand
  BY <1>1, <1>2, CommandFields
<1>4. \A w \in VMs : CheckedKept(w)
  BY <1>1, CommandFields DEF CheckedKept
<1>5. QED
  BY <1>1, <1>3, <1>4 DEF RuntimeTypeOK, RuntimeKept

LEMMA ExecuteStepRows ==
  ASSUME RuntimeTypeOK, NEW c \in commands, ExecutePower(c)
  PROVE  /\ RuntimeTypeOK'
         /\ \A w \in VMs : CheckedKept(w) /\ (w # c.vm => RuntimeKept(w))
         /\ domain[c.vm][c.host] # NoDomain
         /\ \A g \in VMHosts : g # c.host => domain'[c.vm][g] = domain[c.vm][g]
         /\ UNCHANGED <<claims, attach, machine, defined, ready, power>>
<1>a. PICK v : v = c.vm
  OBVIOUS
<1>b. PICK h : h = c.host
  OBVIOUS
<1>c. PICK d : d = [domain[v][h] EXCEPT !.state = c.want]
  OBVIOUS
<1>1. domain \in [VMs -> [VMHosts -> DomainRow]] /\ commands \subseteq PowerCommand
  BY DEF RuntimeTypeOK
<1>2. /\ domain' = [domain EXCEPT ![v][h] = d] /\ domain[v][h].state # "ABSENT"
      /\ commands' = (commands \ {c}) \cup {[c EXCEPT !.stage = "SEEN"]}
      /\ UNCHANGED <<claims, attach, authority, machine, defined, ready, realized, dataplane, power, evidence>>
  <2>1. /\ domain' = [domain EXCEPT ![c.vm][c.host].state = c.want] /\ domain[c.vm][c.host].state # "ABSENT"
        /\ commands' = (commands \ {c}) \cup {[c EXCEPT !.stage = "SEEN"]}
        /\ UNCHANGED <<claims, attach, authority, machine, defined, ready, realized, dataplane, power, evidence>>
    BY DEF ExecutePower
  <2>2. QED
    BY <1>1, <1>a, <1>b, <1>c, <2>1
<1>3. v \in VMs /\ h \in VMHosts /\ c.want \in {"RUNNING", "SHUTOFF"}
  BY <1>a, <1>b, CommandFields
<1>4. domain[v][h] \in DomainRow
  BY <1>1, <1>3
<1>5. d \in DomainRow
  BY <1>c, <1>3, <1>4 DEF DomainRow
<1>6. domain' \in [VMs -> [VMHosts -> DomainRow]]
  BY <1>1, <1>2, <1>5, UpdatedTwice
<1>7. commands' \subseteq PowerCommand
  BY <1>1, <1>2, CommandFields
<1>8. RuntimeTypeOK'
  BY <1>2, <1>6, <1>7 DEF RuntimeTypeOK
<1>e. \A w \in VMs : CheckedKept(w)
  BY <1>2, CommandFields DEF CheckedKept
<1>9. \A w \in VMs : CheckedKept(w) /\ (w # v => RuntimeKept(w))
  BY <1>1, <1>2, <1>e DEF RuntimeKept
<1>d. NoDomain.state = "ABSENT"
  BY DEF NoDomain
<1>10. domain[v][h] # NoDomain
  BY <1>d, <1>2
<1>11. \A g \in VMHosts : g # h => domain'[v][g] = domain[v][g]
  BY <1>1, <1>2, <1>3
<1>12. QED
  BY <1>a, <1>b, <1>2, <1>8, <1>9, <1>10, <1>11

LEMMA CheckStepRows ==
  ASSUME RuntimeTypeOK, NEW c \in commands, CheckPowerStillWanted(c)
  PROVE  /\ RuntimeTypeOK'
         /\ \A w \in VMs : w # c.vm => RuntimeKept(w)
         /\ machine[c.vm].host = c.host /\ ready[c.vm].boot = "READY"
         /\ \A d \in commands' : d \in commands \/ d.host = c.host
         /\ UNCHANGED <<claims, attach, machine, defined, ready, power, domain>>
<1>1. /\ commands' = (commands \ {c}) \cup {[c EXCEPT !.stage = "CHECKED"]}
      /\ machine[c.vm].host = c.host /\ ready[c.vm].boot = "READY"
      /\ UNCHANGED <<claims, attach, authority, machine, defined, ready, realized, dataplane, power, evidence, domain>>
  BY DEF CheckPowerStillWanted, PowerStillWanted, Boots
<1>2. commands \subseteq PowerCommand
  BY DEF RuntimeTypeOK
<1>3. [c EXCEPT !.stage = "CHECKED"] \in PowerCommand /\ [c EXCEPT !.stage = "CHECKED"].vm = c.vm
      /\ [c EXCEPT !.stage = "CHECKED"].host = c.host
  BY CommandFields
<1>4. commands' \subseteq PowerCommand
  BY <1>1, <1>2, <1>3
<1>5. \A w \in VMs : w # c.vm => CheckedKept(w)
  BY <1>1, <1>3 DEF CheckedKept
<1>6. \A d \in commands' : d \in commands \/ d.host = c.host
  BY <1>1, <1>3
<1>7. QED
  BY <1>1, <1>4, <1>5, <1>6 DEF RuntimeTypeOK, RuntimeKept

LEMMA ProjectStepRows ==
  ASSUME RuntimeTypeOK, NEW c \in commands, ProjectPower(c)
  PROVE  /\ RuntimeTypeOK'
         /\ c.stage = "CHECKED"
         /\ \A w \in VMs : CheckedKept(w) /\ (w # c.vm => RuntimeKept(w))
         /\ power'[c.vm] # power[c.vm] => power'[c.vm].host = c.host
         /\ UNCHANGED <<claims, attach, machine, defined, ready, domain>>
<1>a. PICK v : v = c.vm
  OBVIOUS
<1>b. PICK r : r = IF c.gen > power[v].gen THEN [state |-> c.want, gen |-> c.gen, host |-> c.host] ELSE power[v]
  OBVIOUS
<1>1. power \in [VMs -> PowerRow] /\ commands \subseteq PowerCommand /\ evidence \subseteq PowerCommand
  BY DEF RuntimeTypeOK
<1>2. v \in VMs /\ c.host \in VMHosts /\ c.want \in {"RUNNING", "SHUTOFF"} /\ c.gen \in Nat /\ c \in PowerCommand
  BY <1>a, CommandFields
<1>3. /\ power' = [power EXCEPT ![v] = r] /\ c.stage = "CHECKED"
      /\ commands' = commands \ {c} /\ evidence' = evidence \cup {c}
      /\ UNCHANGED <<claims, attach, authority, machine, defined, ready, realized, dataplane, domain>>
  <2>1. /\ power' = [power EXCEPT ![c.vm] =
             IF c.gen > power[c.vm].gen THEN [state |-> c.want, gen |-> c.gen, host |-> c.host] ELSE power[c.vm]]
        /\ c.stage = "CHECKED"
        /\ commands' = commands \ {c} /\ evidence' = evidence \cup {c}
        /\ UNCHANGED <<claims, attach, authority, machine, defined, ready, realized, dataplane, domain>>
    BY <1>1, <1>2, <1>a DEF ProjectPower
  <2>2. QED
    BY <1>a, <1>b, <2>1
<1>4. r \in PowerRow
  <2>1. [state |-> c.want, gen |-> c.gen, host |-> c.host] \in PowerRow
    BY <1>2 DEF PowerRow
  <2>2. QED
    BY <1>1, <1>2, <1>b, <2>1
<1>5. power' \in [VMs -> PowerRow]
  BY <1>1, <1>3, <1>4, Updated
<1>6. RuntimeTypeOK'
  BY <1>1, <1>2, <1>3, <1>5 DEF RuntimeTypeOK
<1>7. \A w \in VMs : CheckedKept(w) /\ (w # v => RuntimeKept(w))
  BY <1>1, <1>3 DEF RuntimeKept, CheckedKept
<1>8. power'[v] = r
  BY <1>1, <1>2, <1>3
<1>9. r # power[v] => r.host = c.host
  BY <1>b
<1>10. QED
  BY <1>a, <1>3, <1>6, <1>7, <1>8, <1>9

-----------------------------------------------------------------------------
(* Before any VM is placed.                                                *)

LEMMA RuntimeStarts ==
  ASSUME RuntimeInit
  PROVE  RuntimeTypeOK
<1>1. 0 \in Nat /\ 1 \in Nat
  BY SMTT(30)
<1>2. /\ [gen |-> 1, armed |-> TRUE] \in AuthorityRow /\ NoMachine \in MachineRow
      /\ NotReady \in ReadyRow /\ NoPower \in PowerRow /\ NoDomain \in DomainRow
  BY <1>1 DEF AuthorityRow, NoMachine, MachineRow, NotReady, ReadyRow, NoPower, PowerRow, NoDomain, DomainRow
<1>3. "NONE" \in ClaimStates
  BY DEF ClaimStates
<1>4. QED
  BY <1>2, <1>3 DEF RuntimeInit, RuntimeTypeOK
=============================================================================
