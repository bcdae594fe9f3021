--------------------------- MODULE NetworkResources ---------------------------
(***************************************************************************)
(* The logical network resources (networks, their subnets and ports), the  *)
(* identities they hold (segments, addresses, MACs) and their realization  *)
(* in the OVN northbound database.                                         *)
(*                                                                         *)
(*  logical      lifecycle and revision of each resource; `parent` is the  *)
(*               network revision recorded with a subnet's revision        *)
(*  segment      segment a network holds, allocated or waiting for release *)
(*  address      addresses allocated to each port; mac the MAC it holds    *)
(*  attached     attachment state of each port                             *)
(*  realization  the current realization operation of each resource: its   *)
(*               plan, its claim and the state it was last observed in     *)
(*  northbound   the OVN object of each resource: the plan generation its  *)
(*               markers carry, the network revision a logical switch is   *)
(*               marked with, and how many objects carry the name          *)
(*  hand         what each network worker is doing                         *)
(*                                                                         *)
(* Only accepted requests are steps.  Names of resources are not reused,   *)
(* subnets of a network do not overlap, and delete protection, which only  *)
(* refuses a retirement, is left out.                                      *)
(* A claim is live until it lapses.  The object under a resource's name is *)
(* always that resource's own, so the identity checks that compare only    *)
(* the resource never fail here.                                           *)
(***************************************************************************)
EXTENDS Naturals, FiniteSets

CONSTANTS Networks, Subnets, LogicalPorts, NetworkWorkers,
          Segments, Addresses, MACs, None,
          NetworkOf,    \* network of each subnet and port
          SubnetOf      \* subnet a port takes its address from, or None

Children == Subnets \cup LogicalPorts
Resources == Networks \cup Children

ASSUME NetworkAssumption ==
  /\ Networks \cap Children = {} /\ Subnets \cap LogicalPorts = {}
  /\ NetworkOf \in [Children -> Networks]
  /\ SubnetOf \in [LogicalPorts -> Subnets \cup {None}]
  /\ None \notin Segments \cup MACs \cup Resources

VARIABLES logical, segment, address, mac, attached, realization, northbound, hand

identityVars == <<segment, address, mac>>
networkVars == <<logical, identityVars, attached, realization, northbound, hand>>

RealizationPlans == [gen : Nat, kind : {"REALIZE", "RETIRE"}, parent : Nat, dhcp : BOOLEAN]
NoPlanYet == [gen |-> 0, kind |-> "REALIZE", parent |-> 0, dhcp |-> FALSE]
NoOperation == [plan |-> NoPlanYet, phase |-> "NONE", state |-> "NONE", claim |-> 0, owner |-> None,
                live |-> FALSE, mode |-> "NONE", readBack |-> FALSE, authorized |-> FALSE]
NoObject == [gen |-> 0, rev |-> 0, copies |-> 0]
Resting == [at |-> "IDLE", x |-> None, plan |-> NoPlanYet, claim |-> 0, mode |-> "NONE",
            before |-> FALSE, seen |-> "NONE", response |-> "UNKNOWN"]

OperationRow ==
  [plan : RealizationPlans,
   phase : {"NONE", "PENDING", "CLAIMED", "DISPATCH_UNKNOWN", "SUCCEEDED", "FAILED"},
   state : {"NONE", "PENDING", "VERIFIED", "ABSENT", "UNKNOWN"}, claim : Nat,
   owner : NetworkWorkers \cup {None}, live : BOOLEAN,
   mode : {"NONE", "APPLY_ALLOWED", "READ_BACK_FIRST"}, readBack : BOOLEAN, authorized : BOOLEAN]
LogicalRow == [life : {"NONE", "ACTIVE", "RETIRE_PENDING", "DELETED"}, rev : Nat, parent : Nat]
ObjectRow == [gen : Nat, rev : Nat, copies : Nat]
HandRow ==
  [at : {"IDLE", "CLAIMED", "OBSERVE", "AUTHORIZE", "RECONCILE", "APPLY", "READ", "COMPLETE", "ERROR"},
   x : Resources \cup {None}, plan : RealizationPlans, claim : Nat, mode : {"NONE", "APPLY_ALLOWED", "READ_BACK_FIRST"},
   before : BOOLEAN, seen : {"NONE", "VERIFIED", "ABSENT", "UNKNOWN", "CONFLICTING"},
   response : {"UNKNOWN", "RECEIVED", "LOST"}]

NetworkTypeOK ==
  /\ logical \in [Resources -> LogicalRow]
  /\ segment \in [Networks -> Segments \cup {None}]
  /\ address \in [LogicalPorts -> SUBSET Addresses] /\ mac \in [LogicalPorts -> MACs \cup {None}]
  /\ attached \in [LogicalPorts -> {"UNATTACHED", "REQUESTED", "BOUND"}]
  /\ realization \in [Resources -> OperationRow]
  /\ northbound \in [Resources -> ObjectRow]
  /\ hand \in [NetworkWorkers -> HandRow]

NetworkInit ==
  /\ logical = [x \in Resources |-> [life |-> "NONE", rev |-> 0, parent |-> 0]]
  /\ segment = [n \in Networks |-> None]
  /\ address = [p \in LogicalPorts |-> {}] /\ mac = [p \in LogicalPorts |-> None]
  /\ attached = [p \in LogicalPorts |-> "UNATTACHED"]
  /\ realization = [x \in Resources |-> NoOperation]
  /\ northbound = [x \in Resources |-> NoObject]
  /\ hand = [w \in NetworkWorkers |-> Resting]

-----------------------------------------------------------------------------
(* Desired state.  Each change of a resource starts a new realization      *)
(* operation, which replaces the current one whatever its phase and counts *)
(* its claims from zero again.                                             *)

Alive(x) == logical[x].life \in {"ACTIVE", "RETIRE_PENDING"}
Standing(x) == logical[x].life = "ACTIVE" /\ realization[x].state = "VERIFIED"

Operation(x, kind, parent, dhcp) ==
  [NoOperation EXCEPT !.plan = [gen |-> realization[x].plan.gen + 1, kind |-> kind, parent |-> parent, dhcp |-> dhcp],
                      !.phase = "PENDING", !.state = "PENDING"]
insertNetworkRealizationOperationTx(n, kind, backend) ==
  realization' = [realization EXCEPT ![n] = Operation(n, kind, backend, FALSE)]
insertSubnetRealizationOperationTx(s, kind, parent, dhcp) ==
  realization' = [realization EXCEPT ![s] = Operation(s, kind, parent, dhcp)]
insertPortRealizationOperationTx(p, kind, parent) ==
  realization' = [realization EXCEPT ![p] = Operation(p, kind, parent, FALSE)]

Revised(x, life, parent) == [life |-> life, rev |-> logical[x].rev + 1, parent |-> parent]

CreateNetworkResource(n, seg) ==
  /\ logical[n].life = "NONE"
  /\ \A m \in Networks : segment[m] # seg
  /\ logical' = [logical EXCEPT ![n] = Revised(n, "ACTIVE", 0)]
  /\ segment' = [segment EXCEPT ![n] = seg]
  /\ insertNetworkRealizationOperationTx(n, "REALIZE", 1)
  /\ UNCHANGED <<address, mac, attached, northbound, hand>>

UpdateNetworkResource(n) ==
  /\ logical[n].life = "ACTIVE"
  /\ logical' = [logical EXCEPT ![n] = Revised(n, "ACTIVE", 0)]
  /\ insertNetworkRealizationOperationTx(n, "REALIZE", logical[n].rev + 1)
  /\ UNCHANGED <<identityVars, attached, northbound, hand>>

\* Mutant: the ports of a network are not counted.
NetworkUnusedBySubnets(n) == \A s \in Subnets : NetworkOf[s] = n => ~Alive(s)

\* Nothing lives in the network any more.
NetworkUnused(n) == \A x \in Children : NetworkOf[x] = n => ~Alive(x)

\* The plan of a retirement keeps the revision the switch is marked with.
RequestNetworkRetirement(n) ==
  /\ logical[n].life = "ACTIVE" /\ NetworkUnused(n)
  /\ logical' = [logical EXCEPT ![n] = Revised(n, "RETIRE_PENDING", 0)]
  /\ insertNetworkRealizationOperationTx(n, "RETIRE", logical[n].rev)
  /\ UNCHANGED <<identityVars, attached, northbound, hand>>

CreateSubnetResource(s, dhcp) ==
  LET n == NetworkOf[s]
  IN /\ logical[s].life = "NONE" /\ Standing(n)
     /\ logical' = [logical EXCEPT ![s] = Revised(s, "ACTIVE", logical[n].rev)]
     /\ insertSubnetRealizationOperationTx(s, "REALIZE", logical[n].rev, dhcp)
     /\ UNCHANGED <<identityVars, attached, northbound, hand>>

AddressesOf(s) == UNION {address[p] : p \in {q \in LogicalPorts : SubnetOf[q] = s}}

\* Frozen while an address of the subnet is allocated.
UpdateSubnetResource(s, dhcp) ==
  LET n == NetworkOf[s]
  IN /\ logical[s].life = "ACTIVE" /\ AddressesOf(s) = {} /\ Standing(n)
     /\ logical' = [logical EXCEPT ![s] = Revised(s, "ACTIVE", logical[n].rev)]
     /\ insertSubnetRealizationOperationTx(s, "REALIZE", logical[n].rev, dhcp)
     /\ UNCHANGED <<identityVars, attached, northbound, hand>>

RequestSubnetRetirement(s) ==
  LET n == NetworkOf[s]
  IN /\ logical[s].life = "ACTIVE"
     /\ Standing(n) /\ logical[n].rev = logical[s].parent
     /\ AddressesOf(s) = {} /\ \A p \in LogicalPorts : SubnetOf[p] = s => ~Alive(p)
     /\ logical' = [logical EXCEPT ![s] = Revised(s, "RETIRE_PENDING", @.parent)]
     /\ insertSubnetRealizationOperationTx(s, "RETIRE", logical[s].parent, realization[s].plan.dhcp)
     /\ UNCHANGED <<identityVars, attached, northbound, hand>>

\* A stand-alone allocation names a port as its owner, whether or not there is one.
AllocateSubnetIP(p, a) ==
  LET s == SubnetOf[p]
  IN /\ s # None /\ a \notin AddressesOf(s)
     /\ Standing(s) /\ Standing(NetworkOf[s]) /\ logical[NetworkOf[s]].rev = realization[s].plan.parent
     /\ address' = [address EXCEPT ![p] = @ \cup {a}]
     /\ UNCHANGED <<logical, segment, mac, attached, realization, northbound, hand>>

allocatePortMACTx(p, m) ==
  /\ \A q \in LogicalPorts : NetworkOf[q] = NetworkOf[p] => mac[q] # m
  /\ mac' = [mac EXCEPT ![p] = m]
\* The address comes from the subnet's pool, whatever the network's revision.
allocatePortResourceIPTx(p, a) ==
  IF SubnetOf[p] = None THEN UNCHANGED address
  ELSE /\ a \notin AddressesOf(SubnetOf[p])
       /\ address' = [address EXCEPT ![p] = @ \cup {a}]

CreatePortResource(p, m, a) ==
  /\ logical[p].life = "NONE" /\ Standing(NetworkOf[p])
  /\ SubnetOf[p] # None => Standing(SubnetOf[p])
  /\ allocatePortMACTx(p, m) /\ allocatePortResourceIPTx(p, a)
  /\ logical' = [logical EXCEPT ![p] = Revised(p, "ACTIVE", logical[NetworkOf[p]].rev)]
  /\ insertPortRealizationOperationTx(p, "REALIZE", logical[NetworkOf[p]].rev)
  /\ UNCHANGED <<segment, attached, northbound, hand>>

UpdatePortResource(p) ==
  /\ Standing(p) /\ attached[p] = "UNATTACHED"
  /\ logical' = [logical EXCEPT ![p] = Revised(p, "ACTIVE", logical[NetworkOf[p]].rev)]
  /\ insertPortRealizationOperationTx(p, "REALIZE", logical[NetworkOf[p]].rev)
  /\ UNCHANGED <<identityVars, attached, northbound, hand>>

RequestPortAttachment(p) ==
  /\ logical[p].life = "ACTIVE" /\ attached[p] = "UNATTACHED"
  /\ attached' = [attached EXCEPT ![p] = "REQUESTED"]
  /\ UNCHANGED <<logical, identityVars, realization, northbound, hand>>

\* A placement admission binds the port to a host; the port is realized again with its chassis.
bindPortResourceTx(p) ==
  /\ attached[p] = "REQUESTED" /\ address[p] # {} /\ mac[p] # None
  /\ attached' = [attached EXCEPT ![p] = "BOUND"]
  /\ insertPortRealizationOperationTx(p, "REALIZE", logical[NetworkOf[p]].rev)
  /\ UNCHANGED <<logical, identityVars, northbound, hand>>

RetirePortResource(p) ==
  /\ logical[p].life = "ACTIVE" /\ attached[p] = "UNATTACHED"
  /\ logical' = [logical EXCEPT ![p] = Revised(p, "RETIRE_PENDING", logical[NetworkOf[p]].rev)]
  /\ insertPortRealizationOperationTx(p, "RETIRE", logical[NetworkOf[p]].rev)
  /\ UNCHANGED <<identityVars, attached, northbound, hand>>

-----------------------------------------------------------------------------
(* Claims of the current operation.                                        *)

ClaimNetworkRealization(w, x) ==
  LET o == realization[x]
      mode == IF o.phase = "PENDING" THEN "APPLY_ALLOWED" ELSE "READ_BACK_FIRST"
  IN /\ hand[w] = Resting
     /\ \/ o.phase \in {"PENDING", "DISPATCH_UNKNOWN"}
        \/ o.phase = "CLAIMED" /\ ~o.live
     /\ realization' = [realization EXCEPT ![x] = [o EXCEPT !.phase = "CLAIMED", !.owner = w, !.claim = o.claim + 1,
                           !.live = TRUE, !.mode = mode, !.readBack = FALSE, !.authorized = FALSE]]
     /\ hand' = [hand EXCEPT ![w] = [Resting EXCEPT !.at = "CLAIMED", !.x = x, !.plan = o.plan,
                                                    !.claim = o.claim + 1, !.mode = mode]]
     /\ UNCHANGED <<logical, identityVars, attached, northbound>>

ClaimSubnetRealization(w, s) == s \in Subnets /\ ClaimNetworkRealization(w, s)
ClaimPortRealization(w, p) == p \in LogicalPorts /\ ClaimNetworkRealization(w, p)

NetworkClaimLapses(x) ==
  /\ realization[x].live
  /\ realization' = [realization EXCEPT ![x].live = FALSE]
  /\ UNCHANGED <<logical, identityVars, attached, northbound, hand>>

\* Mutant: the claim is compared, the operation it belongs to is not.
lockClaimOfAnyOperation(w) ==
  LET o == realization[hand[w].x] IN o.phase = "CLAIMED" /\ o.live /\ o.claim = hand[w].claim

\* The worker's claim is still the current one of the current operation.
lockNetworkRealizationClaim(w) ==
  LET o == realization[hand[w].x]
  IN /\ o.phase = "CLAIMED" /\ o.live
     /\ o.plan.gen = hand[w].plan.gen /\ o.owner = w /\ o.claim = hand[w].claim

Turn(w, at) == hand' = [hand EXCEPT ![w].at = at]
Rest(w) == hand' = [hand EXCEPT ![w] = Resting]

RecordNetworkRealizationReadBackStarted(w) ==
  /\ hand[w].at = "CLAIMED" /\ hand[w].mode = "READ_BACK_FIRST"
  /\ lockNetworkRealizationClaim(w)
  /\ realization' = [realization EXCEPT ![hand[w].x].readBack = TRUE]
  /\ Turn(w, "OBSERVE")
  /\ UNCHANGED <<logical, identityVars, attached, northbound>>

AuthorizeNetworkRealizationApply(w) ==
  /\ \/ hand[w].at = "CLAIMED" /\ hand[w].mode = "APPLY_ALLOWED"
     \/ hand[w].at = "AUTHORIZE"
  /\ lockNetworkRealizationClaim(w)
  /\ hand[w].mode = "READ_BACK_FIRST" => realization[hand[w].x].readBack
  /\ realization' = [realization EXCEPT ![hand[w].x].authorized = TRUE]
  /\ Turn(w, "RECONCILE")
  /\ UNCHANGED <<logical, identityVars, attached, northbound>>

MarkNetworkRealizationDispatchUnknown(w) ==
  /\ hand[w].at = "ERROR" /\ lockNetworkRealizationClaim(w)
  /\ realization' = [realization EXCEPT ![hand[w].x] =
                       [@ EXCEPT !.phase = "DISPATCH_UNKNOWN", !.owner = None, !.live = FALSE]]
  /\ Rest(w)
  /\ UNCHANGED <<logical, identityVars, attached, northbound>>

-----------------------------------------------------------------------------
(* What the adapter reads in the northbound database.                      *)

Found(x) == northbound[x].copies > 0
Ours(x, plan) == Found(x) /\ northbound[x].gen = plan.gen
ParentMarked(x, plan) == LET n == NetworkOf[x] IN Found(n) /\ northbound[n].rev = plan.parent

NetworkState(x, plan) ==
  IF plan.kind = "RETIRE"
  THEN IF ~Found(x) THEN "ABSENT" ELSE IF Ours(x, plan) THEN "UNKNOWN" ELSE "CONFLICTING"
  ELSE IF ~Found(x) THEN "UNKNOWN" ELSE IF Ours(x, plan) THEN "VERIFIED" ELSE "CONFLICTING"

SubnetState(x, plan) ==
  CASE plan.kind = "RETIRE" /\ ~Found(x) /\ ParentMarked(x, plan) -> "ABSENT"
    [] plan.kind = "REALIZE" /\ ParentMarked(x, plan)
         /\ (IF plan.dhcp THEN Ours(x, plan) ELSE ~Found(x)) -> "VERIFIED"
    [] Found(x) /\ ~Ours(x, plan) -> "CONFLICTING"
    [] OTHER -> "UNKNOWN"

PortState(x, plan) ==
  CASE plan.kind = "RETIRE" /\ ~Found(x) -> "ABSENT"
    [] plan.kind = "REALIZE" /\ Ours(x, plan) -> "VERIFIED"
    [] OTHER -> "UNKNOWN"

StateOf(x, plan) == IF x \in Networks THEN NetworkState(x, plan)
                    ELSE IF x \in Subnets THEN SubnetState(x, plan) ELSE PortState(x, plan)

\* Several objects under one name cannot be read, and a port is read below its network's switch.
Readable(x, plan) == /\ northbound[x].copies <= 1
                     /\ x \in LogicalPorts => ParentMarked(x, plan)
\* A port's object with the markers of another plan is taken for a foreign one.
ForeignPort(x, plan) == x \in LogicalPorts /\ Found(x) /\ ~Ours(x, plan)

Decided(w, seen) == hand' = [hand EXCEPT ![w] = [@ EXCEPT !.seen = seen,
                       !.at = IF seen \in {"VERIFIED", "ABSENT"} THEN "COMPLETE" ELSE "AUTHORIZE"]]

\* A read-back before any apply: done when it finds the desired state.
ObserveNetwork(w) ==
  LET x == hand[w].x  plan == hand[w].plan
  IN /\ hand[w].at = "OBSERVE"
     /\ IF Readable(x, plan) /\ ~ForeignPort(x, plan) THEN Decided(w, StateOf(x, plan)) ELSE Turn(w, "ERROR")
     /\ UNCHANGED <<logical, identityVars, attached, realization, northbound>>

\* The read that precedes an apply.
ReadBeforeApply(w) ==
  LET x == hand[w].x  plan == hand[w].plan
  IN /\ hand[w].at = "RECONCILE"
     /\ hand' = [hand EXCEPT ![w] = IF Readable(x, plan) /\ ~ForeignPort(x, plan)
                   THEN [@ EXCEPT !.at = "APPLY", !.before = Found(x)] ELSE [@ EXCEPT !.at = "ERROR"]]
     /\ UNCHANGED <<logical, identityVars, attached, realization, northbound>>

Object(plan, rev, copies) == [gen |-> plan.gen, rev |-> rev, copies |-> copies]
AppliedNetwork(x, plan, before) ==
  IF plan.kind = "REALIZE" THEN Object(plan, plan.parent, 1)
  ELSE IF before THEN NoObject ELSE northbound[x]
\* A DHCP object is created whenever the read before did not find one.
AppliedSubnet(x, plan, before) ==
  IF plan.kind = "REALIZE" /\ plan.dhcp
  THEN Object(plan, 0, IF before THEN northbound[x].copies ELSE northbound[x].copies + 1)
  ELSE IF before THEN NoObject ELSE northbound[x]
AppliedPort(x, plan) == IF plan.kind = "REALIZE" THEN Object(plan, 0, 1) ELSE NoObject
Applied(x, plan, before) == IF x \in Networks THEN AppliedNetwork(x, plan, before)
                            ELSE IF x \in Subnets THEN AppliedSubnet(x, plan, before) ELSE AppliedPort(x, plan)

\* Removing a switch removes its ports.
Write(x, object) == northbound' = [y \in Resources |->
  IF y = x THEN object
  ELSE IF x \in Networks /\ object = NoObject /\ y \in LogicalPorts /\ NetworkOf[y] = x THEN NoObject
  ELSE northbound[y]]

\* The command reaches the database or not, and its answer may be lost.  A port cannot be added
\* to a switch that is not there.
ApplyRealization(w, reached, response) ==
  LET x == hand[w].x
      object == Applied(x, hand[w].plan, hand[w].before)
      orphan == x \in LogicalPorts /\ hand[w].plan.kind = "REALIZE" /\ ~Found(NetworkOf[x])
  IN /\ hand[w].at = "APPLY"
     /\ IF reached THEN ~orphan /\ Write(x, object)
        ELSE response = "LOST" /\ object # northbound[x] /\ UNCHANGED northbound
     /\ hand' = [hand EXCEPT ![w] = [@ EXCEPT !.at = "READ", !.response = response]]
     /\ UNCHANGED <<logical, identityVars, attached, realization>>

ReadAfterApply(w) ==
  LET x == hand[w].x  plan == hand[w].plan
  IN /\ hand[w].at = "READ"
     /\ hand' = [hand EXCEPT ![w] = IF Readable(x, plan) THEN [@ EXCEPT !.at = "COMPLETE", !.seen = StateOf(x, plan)]
                                    ELSE [@ EXCEPT !.at = "ERROR"]]
     /\ UNCHANGED <<logical, identityVars, attached, realization, northbound>>

NetworkAdapterFails(w) ==
  /\ hand[w].at \in {"OBSERVE", "RECONCILE", "READ"}
  /\ Turn(w, "ERROR")
  /\ UNCHANGED <<logical, identityVars, attached, realization, northbound>>

-----------------------------------------------------------------------------
(* Completion.                                                             *)

EvidenceAccepted(w) ==
  LET o == realization[hand[w].x]
  IN /\ lockNetworkRealizationClaim(w)
     /\ o.mode = "READ_BACK_FIRST" => o.readBack
     /\ hand[w].response # "UNKNOWN" => o.authorized
Converged(w) == hand[w].seen = IF hand[w].plan.kind = "REALIZE" THEN "VERIFIED" ELSE "ABSENT"

Ended(x, phase, state) == realization' = [realization EXCEPT ![x] =
                            [@ EXCEPT !.phase = phase, !.state = state, !.owner = None, !.live = FALSE]]
Unsettled(w) == Ended(hand[w].x, IF hand[w].seen = "CONFLICTING" THEN "FAILED" ELSE "DISPATCH_UNKNOWN",
                      realization[hand[w].x].state)

AcceptNetworkRealizationObservation(w) ==
  LET n == hand[w].x
      gone == Converged(w) /\ hand[w].plan.kind = "RETIRE"
  IN /\ hand[w].at = "COMPLETE" /\ n \in Networks /\ EvidenceAccepted(w)
     /\ IF Converged(w) THEN Ended(n, "SUCCEEDED", hand[w].seen) ELSE Unsettled(w)
     /\ segment' = IF gone THEN [segment EXCEPT ![n] = None] ELSE segment
     /\ logical' = IF gone THEN [logical EXCEPT ![n].life = "DELETED"] ELSE logical
     /\ Rest(w)
     /\ UNCHANGED <<address, mac, attached, northbound>>

\* A subnet converges only under the network revision its plan was made for.
AcceptSubnetRealizationObservation(w) ==
  LET s == hand[w].x
      n == NetworkOf[s]
      gone == Converged(w) /\ hand[w].plan.kind = "RETIRE"
  IN /\ hand[w].at = "COMPLETE" /\ s \in Subnets /\ EvidenceAccepted(w)
     /\ Converged(w) => Standing(n) /\ logical[n].rev = hand[w].plan.parent
     /\ IF Converged(w) THEN Ended(s, "SUCCEEDED", hand[w].seen) ELSE Unsettled(w)
     /\ logical' = IF gone THEN [logical EXCEPT ![s].life = "DELETED"] ELSE logical
     /\ Rest(w)
     /\ UNCHANGED <<identityVars, attached, northbound>>

\* Releases the MAC and one of the addresses allocated to the port.
completePortRetirementTx(p) ==
  /\ logical' = [logical EXCEPT ![p].life = "DELETED"]
  /\ mac' = [mac EXCEPT ![p] = None]
  /\ IF address[p] = {} THEN UNCHANGED address
     ELSE \E a \in address[p] : address' = [address EXCEPT ![p] = @ \ {a}]

AcceptPortRealizationObservation(w) ==
  LET p == hand[w].x
  IN /\ hand[w].at = "COMPLETE" /\ p \in LogicalPorts /\ lockNetworkRealizationClaim(w)
     /\ IF hand[w].seen = "UNKNOWN" THEN Ended(p, "DISPATCH_UNKNOWN", "UNKNOWN")
        ELSE Ended(p, "SUCCEEDED", hand[w].seen)
     /\ IF hand[w].seen = "ABSENT" THEN completePortRetirementTx(p) ELSE UNCHANGED <<logical, address, mac>>
     /\ Rest(w)
     /\ UNCHANGED <<segment, attached, northbound>>

\* The process ends: an operator stops it, or the store refuses what it asks for.
NetworkWorkerStops(w) ==
  /\ hand[w] # Resting
  /\ Rest(w)
  /\ UNCHANGED <<logical, identityVars, attached, realization, northbound>>

-----------------------------------------------------------------------------
NetworkRequest ==
  \/ \E n \in Networks : \/ \E seg \in Segments : CreateNetworkResource(n, seg)
                         \/ UpdateNetworkResource(n) \/ RequestNetworkRetirement(n)
  \/ \E s \in Subnets : \/ \E dhcp \in BOOLEAN : CreateSubnetResource(s, dhcp) \/ UpdateSubnetResource(s, dhcp)
                        \/ RequestSubnetRetirement(s)
  \/ \E p \in LogicalPorts :
       \/ \E a \in Addresses : AllocateSubnetIP(p, a) \/ \E m \in MACs : CreatePortResource(p, m, a)
       \/ UpdatePortResource(p) \/ RequestPortAttachment(p) \/ bindPortResourceTx(p) \/ RetirePortResource(p)
\* One call of the adapter, to observe or to apply.
Reconcile(w) ==
  \/ ObserveNetwork(w) \/ ReadBeforeApply(w) \/ ReadAfterApply(w) \/ NetworkAdapterFails(w)
  \/ \E reached \in BOOLEAN, r \in {"RECEIVED", "LOST"} : ApplyRealization(w, reached, r)
reconcileNetwork(w) == hand[w].x \in Networks /\ Reconcile(w)
reconcileSubnet(w) == hand[w].x \in Subnets /\ Reconcile(w)
reconcilePortResource(w) == hand[w].x \in LogicalPorts /\ Reconcile(w)

\* The transactions around the calls, the same for the three kinds up to the completion.
Guarded(w) == \/ RecordNetworkRealizationReadBackStarted(w) \/ AuthorizeNetworkRealizationApply(w)
              \/ MarkNetworkRealizationDispatchUnknown(w)
runNetworkOnce(w) ==
  \/ \E n \in Networks : ClaimNetworkRealization(w, n)
  \/ reconcileNetwork(w)
  \/ hand[w].x \in Networks /\ (Guarded(w) \/ AcceptNetworkRealizationObservation(w))
runSubnetOnce(w) ==
  \/ \E s \in Subnets : ClaimSubnetRealization(w, s)
  \/ reconcileSubnet(w)
  \/ hand[w].x \in Subnets /\ (Guarded(w) \/ AcceptSubnetRealizationObservation(w))
runPortResourceOnce(w) ==
  \/ \E p \in LogicalPorts : ClaimPortRealization(w, p)
  \/ reconcilePortResource(w)
  \/ hand[w].x \in LogicalPorts /\ (Guarded(w) \/ AcceptPortRealizationObservation(w))
NetworkTurn(w) == runNetworkOnce(w) \/ runSubnetOnce(w) \/ runPortResourceOnce(w)
NetworkFault ==
  \/ \E x \in Resources : NetworkClaimLapses(x)
  \/ \E w \in NetworkWorkers : NetworkWorkerStops(w)
NetworkNext == NetworkRequest \/ (\E w \in NetworkWorkers : NetworkTurn(w)) \/ NetworkFault

NetworkSpec == NetworkInit /\ [][NetworkNext]_networkVars

-----------------------------------------------------------------------------
(* A network is not retired while a subnet or port lives in it, nor a      *)
(* subnet while a port takes its address from it: creation and retirement  *)
(* of the levels are requested by different callers and finish in worker   *)
(* turns in between (RequestNetworkRetirement, RequestSubnetRetirement).   *)
ParentsOutliveChildren ==
  /\ \A x \in Children : Alive(x) => logical[NetworkOf[x]].life = "ACTIVE"
  /\ \A p \in LogicalPorts : Alive(p) /\ SubnetOf[p] # None => logical[SubnetOf[p]].life = "ACTIVE"

(* An operation ends only on a read-back made for its own plan: a new      *)
(* operation counts claims from zero again, so the claim generation of a   *)
(* delayed worker can come back (lockNetworkRealizationClaim).             *)
EndsOnItsOwnPlan == [][
  \A x \in Resources : realization[x].phase = "CLAIMED" /\ realization'[x].phase = "SUCCEEDED" =>
    \E w \in NetworkWorkers : hand[w].x = x /\ hand[w].at = "COMPLETE" /\ hand[w].plan = realization[x].plan]_networkVars
===============================================================================
