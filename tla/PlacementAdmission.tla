-------------------------- MODULE PlacementAdmission --------------------------
(***************************************************************************)
(* Placement: the image and flavor catalog, placement pools, scopes, dry   *)
(* evaluation, final admission with its compute and storage claims, the    *)
(* availability policy resolved for the chosen host and the binding a VM   *)
(* keeps to it (placement.go, placement_scope.go, availability_*.go,       *)
(* group_policy.go, resource_catalog.go, internal/placement/evaluator.go). *)
(*                                                                         *)
(* A dry evaluation is a read-only snapshot that its caller keeps and      *)
(* sends back later; whatever it was computed from may have moved on by    *)
(* then.  Final admission is one transaction under the locks of the        *)
(* request, host, catalog rows and pool.  Only the policy bindings of the  *)
(* host's groups are read without a lock; whatever else admission reads,   *)
(* publishing a policy or a binding does not write, so an admission that   *)
(* such a publish overtakes ends as if it had run before it, and it is one *)
(* step, at the moment it resolves the policy.  A refused request, and the *)
(* replay of a committed one, change nothing and are not steps.            *)
(*                                                                         *)
(* CPU stands for every countable compute resource: memory and huge pages  *)
(* follow the same ledger rule in Evaluate.  HostGroups.tla details how a  *)
(* membership set comes to be current.                                     *)
(***************************************************************************)
EXTENDS Integers, FiniteSets, FiniteSetsExt

CONSTANTS
  Pools, PlacementHosts, Requests,
  Shapes,          \* flavor shapes: [vcpus, dedicated]
  Capacities,      \* host capacities: [vcpus, isolated]
  BackendBytes,    \* what the capacity observation of a host's backend says
  VolumeBytes,     \* [Requests -> a function from volume ids to their size]
  Policies,        \* availability policies
  Bindings,        \* group policy bindings
  Rebinds          \* rebind requests

ASSUME PlacementAssumption ==
  /\ Pools # {} /\ PlacementHosts # {}
  /\ \A s \in Shapes : s.vcpus \in Nat \ {0} /\ s.dedicated \in BOOLEAN
  /\ \A c \in Capacities : c.vcpus \in Nat /\ c.isolated \in 0..c.vcpus

VARIABLES
  catalog,     \* images_current and flavors_current
  pools,       \* host_groups_current, placement_pools_current and the current set
  poolOf,      \* host_placement_pool_memberships_current
  projected,   \* host capability projection, readiness gate, drain and storage backend
  scope,       \* placement_scopes_current and its exposures
  policies,    \* group_policies_current / availability_policies_current
  bindings,    \* host_group_policy_bindings_current
  dry,         \* the last dry result each caller holds
  admitted,    \* placement_admission_decisions and their claims
  vmBinding,   \* vm_availability_bindings_current
  rebinds      \* vm_availability_rebind_request_evidence and decisions

catalogVars == <<catalog, pools, poolOf, projected>>
policyVars == <<scope, policies, bindings>>
admissionVars == <<dry, admitted, vmBinding, rebinds>>
placementVars == <<catalogVars, policyVars, admissionVars>>

NoDrain == "NONE"
NoDry == [host |-> "NONE"]
NoAdmission == [host |-> "NONE"]
NoVMBinding == [revision |-> 0]
NoRebind == [state |-> "NONE"]

-----------------------------------------------------------------------------
(* The catalog (resource_catalog.go).                                      *)

\* A revision that fails its checksum or signature is recorded as REJECTED
\* evidence and never becomes current.
RegisterImageRevision ==
  /\ catalog' = [catalog EXCEPT !.image = @ + 1]
  /\ UNCHANGED <<pools, poolOf, projected, policyVars, admissionVars>>

RegisterFlavorRevision(shape) ==
  /\ catalog' = [catalog EXCEPT !.flavor = @ + 1, !.shape = shape]
  /\ UNCHANGED <<pools, poolOf, projected, policyVars, admissionVars>>

-----------------------------------------------------------------------------
(* Pools and their members (placement.go).                                 *)

PoolLifecycles == {"ACTIVE", "DRAINING", "DISABLED"}
MemberStates == {"ACTIVE", "STALE", "BLOCKED"}

\* DISABLED is stored as a DRAINING host group; a draining group may return.
GroupLifecycle(lifecycle) == IF lifecycle = "DISABLED" THEN "DRAINING" ELSE lifecycle

UpsertPlacementPool(p, lifecycle) ==
  /\ pools[p].gen > 0 \/ lifecycle = "ACTIVE"
  /\ pools' = [pools EXCEPT ![p].gen = @ + 1, ![p].lifecycle = GroupLifecycle(lifecycle)]
  /\ UNCHANGED <<catalog, poolOf, projected, policyVars, admissionVars>>

\* One membership per host in the compatibility projection: its generation
\* must pass the one recorded there, whatever pool that was for.
AssignHostPlacementPool(h, p, gen, state) ==
  /\ pools[p].gen > 0 /\ pools[p].lifecycle = "ACTIVE"
  /\ gen > pools[p].members[h].gen /\ gen > poolOf[h].gen
  /\ pools' = [pools EXCEPT ![p].set = @ + 1, ![p].based = pools[p].gen,
                            ![p].members[h] = [gen |-> gen, state |-> state]]
  /\ poolOf' = [poolOf EXCEPT ![h] = [pool |-> p, gen |-> gen]]
  /\ UNCHANGED <<catalog, projected, policyVars, admissionVars>>

SetCurrent(p) == pools[p].set > 0 /\ pools[p].based = pools[p].gen

\* AcceptHostInventory, as placement sees it: a later observation of what the
\* Host has.
ObserveHost(h, capacity) ==
  /\ projected' = [projected EXCEPT ![h].gen = @ + 1, ![h].capacity = capacity]
  /\ UNCHANGED <<catalog, pools, poolOf, policyVars, admissionVars>>

\* The local backend of the Host and its capacity, observed under one
\* capability generation.
RegisterLocalLVMFoundation(h, bytes) ==
  /\ projected[h].gen > 0
  /\ projected' = [projected EXCEPT ![h].storage = @ + 1, ![h].backed = projected[h].gen,
                                    ![h].bytes = bytes]
  /\ UNCHANGED <<catalog, pools, poolOf, policyVars, admissionVars>>

\* The readiness gate is evaluated against one capability generation.
EvaluateReadiness(h, ready) ==
  /\ projected[h].gen > 0
  /\ projected' = [projected EXCEPT ![h].gate = projected[h].gen, ![h].ready = ready]
  /\ projected'[h] # projected[h]
  /\ UNCHANGED <<catalog, pools, poolOf, policyVars, admissionVars>>

ActiveMember(h, p) ==
  /\ pools[p].gen > 0 /\ pools[p].lifecycle = "ACTIVE"
  /\ pools[p].members[h].state = "ACTIVE"

\* host_placement_drains_current: an evacuation drains its source Host from
\* the pool it is in, and only an explicit undrain gives it back.  What the
\* evacuation does besides is in HostEvacuation.
DrainHost(h) ==
  LET p == poolOf[h].pool
  IN  /\ projected[h].drain = NoDrain
      /\ poolOf[h].gen > 0 /\ ActiveMember(h, p)
      /\ projected' = [projected EXCEPT ![h].drain = p]
      /\ UNCHANGED <<catalog, pools, poolOf, policyVars, admissionVars>>

ReleaseHostPlacementDrain(h) ==
  /\ projected[h].drain = poolOf[h].pool /\ ActiveMember(h, poolOf[h].pool)
  /\ projected' = [projected EXCEPT ![h].drain = NoDrain]
  /\ UNCHANGED <<catalog, pools, poolOf, policyVars, admissionVars>>

-----------------------------------------------------------------------------
(* Evaluation (evaluatePlacementTx and placement.Evaluate).                *)

Live(h) == {r \in Requests : admitted[r].host = h /\ admitted[r].claim # "RELEASED"}
ClaimedVCPUs(h) == MapThenSumSet(LAMBDA r : admitted[r].vcpus, Live(h))
BytesOf(r) == MapThenSumSet(LAMBDA v : VolumeBytes[r][v], DOMAIN VolumeBytes[r])
\* Storage claims outlive the compute claim: only a verified backend cleanup
\* releases them.
ClaimedBytes(h) == MapThenSumSet(BytesOf, {r \in Requests : admitted[r].host = h})

\* Dedicated CPUs come out of the isolated ones, and every claim counts
\* against them.
AvailableVCPUs(h) ==
  LET c == projected[h].capacity IN
  (IF catalog.shape.dedicated THEN c.isolated ELSE c.vcpus) - ClaimedVCPUs(h)

\* Each storage requirement is held against the ledger by itself, on a
\* backend that was registered under the current capability generation.
StorageAvailable(r, h) ==
  \A v \in DOMAIN VolumeBytes[r] :
    /\ projected[h].storage > 0 /\ projected[h].backed = projected[h].gen
    /\ VolumeBytes[r][v] <= projected[h].bytes - ClaimedBytes(h)
    /\ \A q \in Requests : admitted[q] # NoAdmission => v \notin DOMAIN VolumeBytes[q]

\* The join that yields an authority snapshot for a host in a pool at all.
Joined(h, p) ==
  /\ projected[h].gen > 0 /\ projected[h].drain = NoDrain
  /\ pools[p].gen > 0 /\ SetCurrent(p) /\ pools[p].members[h].gen > 0

Eligible(r, h, p) ==
  /\ Joined(h, p)
  /\ pools[p].lifecycle = "ACTIVE" /\ pools[p].members[h].state = "ACTIVE"
  /\ projected[h].gate = projected[h].gen /\ projected[h].ready
  /\ catalog.image > 0 /\ catalog.flavor > 0
  /\ AvailableVCPUs(h) >= catalog.shape.vcpus
  /\ StorageAvailable(r, h)

\* What the evaluation digest covers, and the capacity generation that the
\* request itself names.
Evaluation(h, p) ==
  [host |-> h, pool |-> p, poolGen |-> pools[p].gen, set |-> pools[p].set,
   member |-> pools[p].members[h].gen, capability |-> projected[h].gen,
   storage |-> projected[h].storage, image |-> catalog.image, flavor |-> catalog.flavor, vcpus |-> catalog.shape.vcpus,
   score |-> AvailableVCPUs(h) - catalog.shape.vcpus]

DryEvaluatePlacement(r, h, p) ==
  /\ admitted[r] = NoAdmission
  /\ Eligible(r, h, p)
  /\ dry' = [dry EXCEPT ![r] = [kind |-> "POOL", host |-> h, evaluation |-> Evaluation(h, p)]]
  /\ UNCHANGED <<catalogVars, policyVars, admitted, vmBinding, rebinds>>

-----------------------------------------------------------------------------
(* Scopes (placement_scope.go).                                            *)

PublishPlacementScope(lifecycle, exposed) ==
  /\ \A p \in exposed : pools[p].gen > 0 /\ pools[p].lifecycle = "ACTIVE"
  /\ scope' = [gen |-> scope.gen + 1, lifecycle |-> lifecycle,
               exposed |-> [p \in exposed |-> pools[p].gen]]
  /\ UNCHANGED <<catalogVars, policies, bindings, admissionVars>>

\* Every exposed pool must still be at the generation it was exposed at.
ScopeOpen ==
  /\ scope.gen > 0 /\ scope.lifecycle = "ACTIVE"
  /\ \A p \in DOMAIN scope.exposed :
       scope.exposed[p] = pools[p].gen /\ pools[p].lifecycle = "ACTIVE"

Provenance(h) ==
  {[pool |-> p, gen |-> pools[p].gen, set |-> pools[p].set, member |-> pools[p].members[h].gen] :
     p \in {q \in DOMAIN scope.exposed :
              /\ pools[q].set > 0 /\ pools[q].based = scope.exposed[q]
              /\ pools[q].members[h].state = "ACTIVE"}}

\* The best evaluation of a visible host over the pools that expose it.
DryEvaluatePlacementScope(r, h, p) ==
  LET seen == {q.pool : q \in Provenance(h)}
  IN  /\ admitted[r] = NoAdmission
      /\ ScopeOpen /\ p \in seen /\ Eligible(r, h, p)
      /\ dry' = [dry EXCEPT ![r] =
                   [kind |-> "SCOPE", host |-> h, evaluation |-> Evaluation(h, p),
                    scope |-> scope.gen, provenance |-> Provenance(h)]]
      /\ UNCHANGED <<catalogVars, policyVars, admitted, vmBinding, rebinds>>

ProvenanceHolds(h, seen) ==
  \A q \in seen :
    /\ q.pool \in DOMAIN scope.exposed /\ scope.exposed[q.pool] = q.gen
    /\ pools[q.pool].gen = q.gen /\ pools[q.pool].lifecycle = "ACTIVE"
    /\ pools[q.pool].set = q.set /\ pools[q.pool].members[h] = [gen |-> q.member, state |-> "ACTIVE"]

-----------------------------------------------------------------------------
(* Availability policies and their group bindings (availability_policy.go, *)
(* group_policy.go).                                                       *)

PublishAvailabilityPolicy(q, lifecycle) ==
  /\ policies' = [policies EXCEPT ![q] = [revision |-> @.revision + 1, lifecycle |-> lifecycle]]
  /\ UNCHANGED <<catalogVars, scope, bindings, admissionVars>>

PublishGroupPolicyBinding(b, p, q, priority, lifecycle) ==
  /\ pools[p].gen > 0 /\ pools[p].lifecycle = "ACTIVE"
  /\ policies[q].revision > 0 /\ policies[q].lifecycle = "ACTIVE"
  /\ bindings' = [bindings EXCEPT ![b] =
                    [gen |-> @.gen + 1, pool |-> p, poolGen |-> pools[p].gen, policy |-> q,
                     revision |-> policies[q].revision, priority |-> priority,
                     lifecycle |-> lifecycle]]
  /\ UNCHANGED <<catalogVars, scope, policies, admissionVars>>

BindingCurrent(b) ==
  LET x == bindings[b] IN
  /\ x.lifecycle = "ACTIVE" /\ pools[x.pool].lifecycle = "ACTIVE"
  /\ x.poolGen = pools[x.pool].gen /\ pools[x.pool].based = pools[x.pool].gen
  /\ policies[x.policy] = [revision |-> x.revision, lifecycle |-> "ACTIVE"]

\* Only the bindings of the highest priority decide; one stale binding among
\* them, or two policies, leave the host without an assignment.
ResolveGroupPolicy(h) ==
  LET candidates == {b \in Bindings : bindings[b].gen > 0
                       /\ pools[bindings[b].pool].members[h].state = "ACTIVE"}
      top == {b \in candidates : \A c \in candidates : bindings[c].priority <= bindings[b].priority}
      named == {[policy |-> bindings[b].policy, revision |-> bindings[b].revision] : b \in top}
      input == {<<b, bindings[b].gen, pools[bindings[b].pool].set, BindingCurrent(b)>> : b \in candidates}
      result == IF candidates = {} THEN "NO_ASSIGNMENT"
                ELSE IF \E b \in top : ~ BindingCurrent(b) THEN "STALE_ASSIGNMENT"
                ELSE IF Cardinality(named) > 1 THEN "ASSIGNMENT_CONFLICT"
                ELSE "RESOLVED"
  IN  [result |-> result, input |-> input,
       policy |-> IF result = "RESOLVED" THEN CHOOSE n \in named : TRUE ELSE NoDry]

\* A second read-only transaction after the scope evaluation.
DryEvaluateAvailabilityPlacementScope(r) ==
  /\ dry[r] # NoDry /\ dry[r].kind = "SCOPE"
  /\ ResolveGroupPolicy(dry[r].host).result = "RESOLVED"
  /\ dry' = [dry EXCEPT ![r] =
               [kind |-> "AVAILABILITY", host |-> @.host, evaluation |-> @.evaluation,
                scope |-> @.scope, provenance |-> @.provenance,
                resolution |-> ResolveGroupPolicy(dry[r].host)]]
  /\ UNCHANGED <<catalogVars, policyVars, admitted, vmBinding, rebinds>>

-----------------------------------------------------------------------------
(* Final admission.                                                        *)

\* The dry result is taken at its word.
RevalidatesNothing(r) == TRUE

\* The membership basis of the dry result, then the whole evaluation again:
\* eligible, and with the digest the caller was shown.
Revalidates(r) ==
  LET e == dry[r].evaluation
  IN  /\ SetCurrent(e.pool) /\ pools[e.pool].lifecycle = "ACTIVE"
      /\ Eligible(r, e.host, e.pool)
      /\ Evaluation(e.host, e.pool) = e

Commit(r) ==
  /\ admitted' = [admitted EXCEPT ![r] = [host |-> dry[r].host, pool |-> dry[r].evaluation.pool,
                                          vcpus |-> dry[r].evaluation.vcpus,
                                          dedicated |-> catalog.shape.dedicated,
                                          claim |-> "RESERVED"]]
  /\ dry' = [dry EXCEPT ![r] = NoDry]

FinalAdmitPlacement(r) ==
  /\ dry[r] # NoDry /\ dry[r].kind = "POOL"
  /\ Revalidates(r)
  /\ Commit(r)
  /\ UNCHANGED <<catalogVars, policyVars, vmBinding, rebinds>>

ScopeUnchanged(r) ==
  /\ scope.gen = dry[r].scope /\ scope.lifecycle = "ACTIVE"
  /\ ProvenanceHolds(dry[r].host, dry[r].provenance)

FinalAdmitPlacementScope(r) ==
  /\ dry[r] # NoDry /\ dry[r].kind = "SCOPE"
  /\ ScopeUnchanged(r) /\ Revalidates(r)
  /\ Commit(r)
  /\ UNCHANGED <<catalogVars, policyVars, vmBinding, rebinds>>

\* Takes whatever resolves now.
ResolutionUsable(r) == ResolveGroupPolicy(dry[r].host).result = "RESOLVED"

ResolutionUnchanged(r) ==
  /\ ResolveGroupPolicy(dry[r].host).result = "RESOLVED"
  /\ ResolveGroupPolicy(dry[r].host) = dry[r].resolution

RecordVMAvailabilityBinding(r) ==
  vmBinding' = [vmBinding EXCEPT ![r] =
                  [revision |-> 1, policy |-> ResolveGroupPolicy(dry[r].host).policy]]

FinalAdmitAvailabilityPlacementScope(r) ==
  /\ dry[r] # NoDry /\ dry[r].kind = "AVAILABILITY"
  /\ ResolutionUnchanged(r)
  /\ ScopeUnchanged(r) /\ Revalidates(r)
  /\ Commit(r)
  /\ RecordVMAvailabilityBinding(r)
  /\ UNCHANGED <<catalogVars, policyVars, rebinds>>

\* The VM of the admission is gone and its claim is released.
ReleaseCompute(r) ==
  /\ admitted[r] # NoAdmission /\ admitted[r].claim # "RELEASED"
  /\ admitted' = [admitted EXCEPT ![r].claim = "RELEASED"]
  /\ UNCHANGED <<catalogVars, policyVars, dry, vmBinding, rebinds>>

-----------------------------------------------------------------------------
(* Rebinding a placed VM to another policy (availability_rebind.go).       *)

PolicyActive(q, revision) == policies[q] = [revision |-> revision, lifecycle |-> "ACTIVE"]

RecordVMAvailabilityRebindRequest(x, r, q) ==
  /\ rebinds[x] = NoRebind
  /\ vmBinding[r].revision > 0
  /\ policies[q].revision > 0 /\ PolicyActive(q, policies[q].revision)
  /\ rebinds' = [rebinds EXCEPT ![x] =
                   [state |-> "REQUESTED", workload |-> r, source |-> vmBinding[r].revision,
                    policy |-> [policy |-> q, revision |-> policies[q].revision]]]
  /\ UNCHANGED <<catalogVars, policyVars, dry, admitted, vmBinding>>

\* Trusts the revision the request was recorded against.
RebindSourceRecorded(x) == vmBinding[rebinds[x].workload].revision > 0

RebindSourceCurrent(x) == vmBinding[rebinds[x].workload].revision = rebinds[x].source

DecideVMAvailabilityRebind(x) ==
  LET q == rebinds[x] IN
  /\ q # NoRebind /\ q.state = "REQUESTED"
  /\ RebindSourceCurrent(x)
  /\ PolicyActive(q.policy.policy, q.policy.revision)
  /\ vmBinding' = [vmBinding EXCEPT ![q.workload] = [revision |-> q.source + 1, policy |-> q.policy]]
  /\ rebinds' = [rebinds EXCEPT ![x].state = "ACCEPTED"]
  /\ UNCHANGED <<catalogVars, policyVars, dry, admitted>>

-----------------------------------------------------------------------------
PlacementInit ==
  /\ catalog = [image |-> 0, flavor |-> 0, shape |-> CHOOSE s \in Shapes : TRUE]
  /\ pools = [p \in Pools |-> [gen |-> 0, lifecycle |-> "DRAINING", set |-> 0, based |-> 0,
                               members |-> [h \in PlacementHosts |-> [gen |-> 0, state |-> "NONE"]]]]
  /\ poolOf = [h \in PlacementHosts |-> [pool |-> CHOOSE p \in Pools : TRUE, gen |-> 0]]
  /\ projected = [h \in PlacementHosts |->
       [gen |-> 0, gate |-> 0, ready |-> FALSE, drain |-> NoDrain, storage |-> 0, backed |-> 0,
        capacity |-> CHOOSE c \in Capacities : TRUE, bytes |-> CHOOSE b \in BackendBytes : TRUE]]
  /\ scope = [gen |-> 0, lifecycle |-> "RETIRED", exposed |-> [p \in {} |-> 0]]
  /\ policies = [q \in Policies |-> [revision |-> 0, lifecycle |-> "DRAFT"]]
  /\ bindings = [b \in Bindings |-> [gen |-> 0]]
  /\ dry = [r \in Requests |-> NoDry]
  /\ admitted = [r \in Requests |-> NoAdmission]
  /\ vmBinding = [r \in Requests |-> NoVMBinding]
  /\ rebinds = [x \in Rebinds |-> NoRebind]

NextMembership(h, p) == Max({pools[p].members[h].gen, poolOf[h].gen}) + 1

RevisePlacement ==
  \/ RegisterImageRevision
  \/ \E s \in Shapes : RegisterFlavorRevision(s)
  \/ \E p \in Pools, l \in PoolLifecycles : UpsertPlacementPool(p, l)
  \/ \E h \in PlacementHosts, p \in Pools, s \in MemberStates :
       AssignHostPlacementPool(h, p, NextMembership(h, p), s)
  \/ \E h \in PlacementHosts, c \in Capacities : ObserveHost(h, c)
  \/ \E h \in PlacementHosts, b \in BackendBytes : RegisterLocalLVMFoundation(h, b)
  \/ \E h \in PlacementHosts, ready \in BOOLEAN : EvaluateReadiness(h, ready)
  \/ \E h \in PlacementHosts : DrainHost(h) \/ ReleaseHostPlacementDrain(h)

ReviseScope ==
  \/ \E l \in {"ACTIVE", "DRAINING", "RETIRED"}, E \in SUBSET Pools : PublishPlacementScope(l, E)
  \/ \E q \in Policies, l \in {"ACTIVE", "DRAFT", "DEPRECATED", "RETIRED"} :
       PublishAvailabilityPolicy(q, l)
  \/ \E b \in Bindings, p \in Pools, q \in Policies, n \in {0, 1}, l \in {"ACTIVE", "RETIRED"} :
       PublishGroupPolicyBinding(b, p, q, n, l)

AdmitToPool ==
  \/ \E r \in Requests, h \in PlacementHosts, p \in Pools : DryEvaluatePlacement(r, h, p)
  \/ \E r \in Requests : FinalAdmitPlacement(r) \/ ReleaseCompute(r)

AdmitToScope ==
  \/ \E r \in Requests, h \in PlacementHosts, p \in Pools : DryEvaluatePlacementScope(r, h, p)
  \/ \E r \in Requests : DryEvaluateAvailabilityPlacementScope(r)
  \/ \E r \in Requests : FinalAdmitPlacementScope(r) \/ FinalAdmitAvailabilityPlacementScope(r)

Rebind ==
  \/ \E x \in Rebinds, r \in Requests, q \in Policies : RecordVMAvailabilityRebindRequest(x, r, q)
  \/ \E x \in Rebinds : DecideVMAvailabilityRebind(x)

PlacementNext == RevisePlacement \/ ReviseScope \/ AdmitToPool \/ AdmitToScope \/ Rebind

PlacementSpec == PlacementInit /\ [][PlacementNext]_placementVars

-----------------------------------------------------------------------------
PlacementTypeOK ==
  /\ catalog.image \in Nat /\ catalog.flavor \in Nat /\ catalog.shape \in Shapes
  /\ \A p \in Pools : /\ pools[p].gen \in Nat /\ pools[p].set \in Nat
                      /\ pools[p].lifecycle \in {"ACTIVE", "DRAINING"} /\ pools[p].based <= pools[p].gen
  /\ \A h \in PlacementHosts : projected[h].gate <= projected[h].gen
                               /\ projected[h].backed <= projected[h].gen /\ poolOf[h].pool \in Pools
  /\ \A p \in DOMAIN scope.exposed : scope.exposed[p] <= pools[p].gen
  /\ \A b \in Bindings : bindings[b].gen > 0 => bindings[b].revision <= policies[bindings[b].policy].revision
  /\ \A r \in Requests : vmBinding[r].revision > 0 => admitted[r] # NoAdmission

(* When an admission commits, the compute claims then held on its host fit *)
(* what the host is observed to have, however many callers evaluated that  *)
(* host before any of them committed and whatever changed in between.      *)
AdmittedWithinCapacity ==
  [][\A r \in Requests :
       admitted[r] = NoAdmission /\ admitted'[r] # NoAdmission =>
         LET h == admitted'[r].host
             c == projected[h].capacity
         IN  /\ MapThenSumSet(LAMBDA q : admitted'[q].vcpus, Live(h) \cup {r})
                  <= (IF admitted'[r].dedicated THEN c.isolated ELSE c.vcpus)
             /\ projected[h].drain = NoDrain
    ]_placementVars

(* A VM is bound to the availability policy its caller was shown by the    *)
(* dry evaluation, at the revision shown, and that revision is current and *)
(* ACTIVE when the admission resolves it: final admission never binds the  *)
(* VM to another silently (FinalAdmitAvailabilityPlacementScope).          *)
PolicyShownIsBound ==
  [][\A r \in Requests :
       vmBinding[r].revision = 0 /\ vmBinding'[r].revision > 0 =>
         /\ vmBinding'[r].policy = dry[r].resolution.policy
         /\ PolicyActive(vmBinding'[r].policy.policy, vmBinding'[r].policy.revision)
    ]_placementVars

(* Two rebind requests recorded against the same binding do not both       *)
(* succeed: a binding advances one revision at a time, from the revision   *)
(* that the accepted request names (DecideVMAvailabilityRebind).           *)
RebindsAreSerial ==
  \A x, y \in Rebinds :
    /\ rebinds[x] # NoRebind /\ rebinds[y] # NoRebind
    /\ rebinds[x].state = "ACCEPTED" /\ rebinds[y].state = "ACCEPTED"
    /\ rebinds[x].workload = rebinds[y].workload /\ rebinds[x].source = rebinds[y].source
    => x = y
=============================================================================
