---------------------------- MODULE MCResources ----------------------------
(* Instance for TLC of what a VM is placed on: placement and its policies,  *)
(* the releases of the network workers, the OVN runtime and the network     *)
(* resources.  `part` selects what moves; the rest keeps its initial state. *)
EXTENDS PlacementAdmission, OVNRuntime, NetworkResources

CONSTANTS
  Parts,
  req1, req2, vol1, vol2, rel1, rel2, sch1, sch2, q1, h1, h2, n1, s1, p1, p2,
  MaxPoolWrites,      \* bounds on the revisions of catalog, pools and observations,
  MaxScopeWrites,     \* of scopes, policies and bindings,
  MaxPublishWrites,   \* of releases, bindings and OVN work with its claims,
  MaxReleaseWrites,
  MaxPortWrites,
  MaxNetworkWrites,   \* and of realizations with their claims, and addresses
  MaxRealizedWrites

VARIABLE part

resourceVars == <<placementVars, releaseVars, ovnVars, networkVars, part>>

MCShapes == {[vcpus |-> 1, dedicated |-> FALSE], [vcpus |-> 2, dedicated |-> TRUE]}
MCCapacities == {[vcpus |-> 2, isolated |-> 2], [vcpus |-> 3, isolated |-> 1]}
MCVolumeBytes == req1 :> (vol1 :> 1) @@ req2 :> (vol2 :> 1)
MCSupports == rel1 :> {sch1} @@ rel2 :> {sch1, sch2}
MCRunsOn == [w \in Workers |-> h1]
MCNetworkOf == s1 :> n1 @@ p1 :> n1 @@ p2 :> n1
MCSubnetOf == p1 :> s1 @@ p2 :> None

ResourceSymmetry == Permutations(Workers) \cup Permutations(NetworkWorkers)

PlacementWrites ==
  catalog.image + catalog.flavor + scope.gen
  + MapThenSumSet(LAMBDA p : pools[p].gen + pools[p].set, Pools)
  + MapThenSumSet(LAMBDA h : projected[h].gen + projected[h].storage, PlacementHosts)
  + MapThenSumSet(LAMBDA q : policies[q].revision, Policies)
  + MapThenSumSet(LAMBDA b : bindings[b].gen, Bindings)
RuntimeWrites ==
  release.gen + release.schemaGen + Cardinality(distrusted) + Cardinality(DOMAIN edge)
  + MapThenSumSet(LAMBDA w : bound[w].gen, Workers)
  + MapThenSumSet(LAMBDA p : port[p].inc + MapThenSumSet(LAMBDA i : 1 + work[p][i].gen, DOMAIN work[p]), OVNPorts)
OpenTransactions ==
  Cardinality(promoting) + Cardinality(revoking) + Cardinality({w \in Workers : registering[w] # Unbound})
NetworkWrites ==
  MapThenSumSet(LAMBDA x : realization[x].plan.gen + realization[x].claim, Resources)
  + MapThenSumSet(LAMBDA p : Cardinality(address[p]), LogicalPorts)

-----------------------------------------------------------------------------
\* One pool with one Host that is ready, exposed by a scope; one policy, not bound to the pool.
ScopeOffered ==
  /\ catalog = [image |-> 1, flavor |-> 1, shape |-> [vcpus |-> 1, dedicated |-> FALSE]]
  /\ pools = [p \in Pools |-> [gen |-> 1, lifecycle |-> "ACTIVE", set |-> 1, based |-> 1,
                               members |-> [h \in PlacementHosts |-> [gen |-> 1, state |-> "ACTIVE"]]]]
  /\ poolOf = [h \in PlacementHosts |-> [pool |-> CHOOSE p \in Pools : TRUE, gen |-> 1]]
  /\ projected = [h \in PlacementHosts |->
       [gen |-> 1, gate |-> 1, ready |-> TRUE, drain |-> NoDrain, storage |-> 1, backed |-> 1,
        capacity |-> [vcpus |-> 2, isolated |-> 2], bytes |-> CHOOSE b \in BackendBytes : TRUE]]
  /\ scope = [gen |-> 1, lifecycle |-> "ACTIVE", exposed |-> [p \in Pools |-> 1]]
  /\ policies = [q \in Policies |-> [revision |-> 1, lifecycle |-> "ACTIVE"]]
  /\ bindings = [b \in Bindings |-> [gen |-> 0]]
  /\ dry = [r \in Requests |-> NoDry] /\ admitted = [r \in Requests |-> NoAdmission]
  /\ vmBinding = [r \in Requests |-> NoVMBinding] /\ rebinds = [x \in Rebinds |-> NoRebind]

\* Two releases with an edge, both workers registered on the first.
WorkersRegistered ==
  /\ manifest = [r \in Releases |-> "VALIDATED"]
  /\ edge = (<<rel1, rel2>> :> {sch1}) /\ distrusted = {}
  /\ release = [id |-> rel1, gen |-> 1, schema |-> sch1, schemaGen |-> 1, state |-> "ACTIVE"]
  /\ bound = [w \in Workers |-> [gen |-> 1, id |-> rel1, compat |-> "VALIDATED", state |-> "ACTIVE",
                                 to |-> rel1, at |-> 1]]
  /\ held = [w \in Workers |-> 1]
  /\ registering = [w \in Workers |-> Unbound] /\ promoting = {} /\ revoking = {}

\* A port whose first intent was applied and not yet seen bound.
IntentApplied ==
  /\ port = [p \in OVNPorts |-> [inc |-> 1, host |-> h1]]
  /\ work = [p \in OVNPorts |-> <<[NewWork(p, "RECONCILE", 1) EXCEPT
                                     !.state = "DISPATCH_UNKNOWN", !.gen = 1, !.mode = "APPLY_ALLOWED"]>>]
  /\ ovn = [p \in OVNPorts |-> [intent |-> 1, inc |-> 1, nb |-> "MATCHED", sb |-> "UNKNOWN", seen |-> 1]]
  /\ retirement = [p \in OVNPorts |-> <<>>] /\ proc = [w \in Workers |-> Idle]
  /\ nb = [p \in OVNPorts |-> [mark |-> Mark(1), chassis |-> h1]]
  /\ sb = [p \in OVNPorts |-> NoChassis] /\ plugged = [p \in OVNPorts |-> h1]

\* A network and a subnet with DHCP, realized.
Realized(parent, dhcp) ==
  [NoOperation EXCEPT !.plan = [gen |-> 1, kind |-> "REALIZE", parent |-> parent, dhcp |-> dhcp],
                      !.phase = "SUCCEEDED", !.state = "VERIFIED", !.claim = 1, !.mode = "APPLY_ALLOWED",
                      !.authorized = TRUE]
NetworkRealized ==
  /\ logical = [x \in Resources |-> IF x \in LogicalPorts THEN [life |-> "NONE", rev |-> 0, parent |-> 0]
                                    ELSE [life |-> "ACTIVE", rev |-> 1, parent |-> IF x = n1 THEN 0 ELSE 1]]
  /\ segment = [n \in Networks |-> CHOOSE s \in Segments : TRUE]
  /\ address = [p \in LogicalPorts |-> {}] /\ mac = [p \in LogicalPorts |-> None]
  /\ attached = [p \in LogicalPorts |-> "UNATTACHED"]
  /\ realization = [x \in Resources |-> IF x \in LogicalPorts THEN NoOperation ELSE Realized(1, x = s1)]
  /\ northbound = [x \in Resources |-> IF x \in LogicalPorts THEN NoObject
                                       ELSE [gen |-> 1, rev |-> IF x = n1 THEN 1 ELSE 0, copies |-> 1]]
  /\ hand = [w \in NetworkWorkers |-> Resting]

ResourceInit ==
  /\ part \in Parts
  /\ IF part = "scope" THEN ScopeOffered ELSE PlacementInit
  /\ IF part \in {"release", "port"} THEN WorkersRegistered ELSE ReleaseInit
  /\ IF part = "port" THEN IntentApplied
     ELSE OVNInit /\ \A p \in OVNPorts : nb[p].mark.by = "RESOURCE" /\ port[p].host = h1
  /\ IF part = "realized" THEN NetworkRealized ELSE NetworkInit

-----------------------------------------------------------------------------
PlacementPart ==
  \/ part = "pool" /\ (RevisePlacement \/ AdmitToPool) /\ PlacementWrites' <= MaxPoolWrites
  \/ /\ part = "scope" /\ (RevisePlacement \/ ReviseScope \/ AdmitToScope \/ Rebind)
     /\ projected' = projected /\ catalog' = catalog /\ PlacementWrites' <= MaxScopeWrites

\* In "port" the workers come back as they were bound.
RuntimePart ==
  \/ /\ part \in {"publish", "release"} /\ (WorkerStep \/ (ReleaseStep /\ UNCHANGED ovnVars))
     /\ (RuntimeWrites + OpenTransactions)' <= IF part = "publish" THEN MaxPublishWrites ELSE MaxReleaseWrites
  \/ /\ part = "port" /\ RuntimeNext
     /\ <<release, bound, edge, distrusted, promoting, revoking>>' = <<release, bound, edge, distrusted, promoting, revoking>>
     /\ \A w \in Workers : registering'[w] \in {Unbound, [bound[w] EXCEPT !.gen = 0]}
     /\ RuntimeWrites' <= MaxPortWrites

NetworkPart ==
  \/ part = "network" /\ NetworkNext /\ NetworkWrites' <= MaxNetworkWrites
  \/ /\ part = "realized" /\ NetworkNext
     /\ Cardinality({w \in NetworkWorkers : hand'[w] # Resting}) <= 1 /\ NetworkWrites' <= MaxRealizedWrites

ResourceNext ==
  /\ UNCHANGED part
  /\ \/ part \in {"pool", "scope"} /\ PlacementPart /\ UNCHANGED <<releaseVars, ovnVars, networkVars>>
     \/ part \in {"publish", "release", "port"} /\ RuntimePart /\ UNCHANGED <<placementVars, networkVars>>
     \/ part \in {"network", "realized"} /\ NetworkPart /\ UNCHANGED <<placementVars, releaseVars, ovnVars>>

ResourceSpec == ResourceInit /\ [][ResourceNext]_resourceVars

\* Every row of the tables behind the components, and every object of the OVN
\* databases, has the columns and states it may have.
ResourcesTypeOK == PlacementTypeOK /\ ReleaseTypeOK /\ OVNTypeOK /\ NetworkTypeOK
=============================================================================
