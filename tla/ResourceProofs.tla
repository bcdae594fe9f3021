--------------------------- MODULE ResourceProofs ---------------------------
(***************************************************************************)
(* What holds, for any number of requests, hosts, networks, releases and   *)
(* workers, of placement and its policies, of the network resources, of the*)
(* releases the network workers run and of the OVN work they carry out.    *)
(***************************************************************************)
EXTENDS PlacementAdmission, NetworkResources, OVNRuntime, TLAPS

USE ZenonT(60)

-----------------------------------------------------------------------------
(***************************************************************************)
(* Placement: rebinds and the policy a VM is bound to                      *)
(***************************************************************************)

\* f is a table with the keys S.
Table(f, S) == DOMAIN f = S

\* A request is admitted once, and only an admitted one is bound.
RequestInOrder(r) ==
  /\ dry[r] # NoDry => admitted[r] = NoAdmission
  /\ admitted[r] # NoAdmission => "claim" \in DOMAIN admitted[r]
  /\ vmBinding[r].revision \in Nat
  /\ vmBinding[r].revision > 0 => admitted[r] # NoAdmission

\* A rebind names a revision its VM had, and one before the current if it was accepted.
RebindInOrder(x) ==
  rebinds[x] # NoRebind =>
    /\ {"workload", "source"} \subseteq DOMAIN rebinds[x]
    /\ rebinds[x].workload \in Requests /\ rebinds[x].source \in Nat /\ rebinds[x].source > 0
    /\ rebinds[x].source <= vmBinding[rebinds[x].workload].revision
    /\ rebinds[x].state = "ACCEPTED" => rebinds[x].source < vmBinding[rebinds[x].workload].revision

PlacementInvariant ==
  /\ Table(dry, Requests) /\ Table(admitted, Requests) /\ Table(vmBinding, Requests)
  /\ Table(rebinds, Rebinds) /\ Table(bindings, Bindings)
  /\ \A b \in Bindings : bindings[b].gen > 0 => bindings[b].priority \in {0, 1}
  /\ \A r \in Requests : RequestInOrder(r)
  /\ \A x \in Rebinds : RebindInOrder(x)
  /\ RebindsAreSerial

\* What PolicyShownIsBound says of a step.
BoundAsShown ==
  \A r \in Requests :
    vmBinding[r].revision = 0 /\ vmBinding'[r].revision > 0 =>
      /\ vmBinding'[r].policy = dry[r].resolution.policy
      /\ PolicyActive(vmBinding'[r].policy.policy, vmBinding'[r].policy.revision)

LEMMA Tables ==
  ASSUME PlacementInvariant
  PROVE  /\ Table(dry, Requests) /\ Table(admitted, Requests) /\ Table(vmBinding, Requests)
         /\ Table(rebinds, Rebinds) /\ Table(bindings, Bindings)
  BY DEF PlacementInvariant

LEMMA PlacementStarts == PlacementInit => PlacementInvariant
<1>. SUFFICES ASSUME PlacementInit PROVE PlacementInvariant
  OBVIOUS
<1>1. /\ Table(dry, Requests) /\ Table(admitted, Requests) /\ Table(vmBinding, Requests)
      /\ Table(rebinds, Rebinds) /\ Table(bindings, Bindings)
  BY DEF PlacementInit, Table
<1>2. \A b \in Bindings : ~(bindings[b].gen > 0)
  BY SMTT(30) DEF PlacementInit
<1>3. NoVMBinding.revision = 0 /\ 0 \in Nat /\ ~(0 > 0)
  BY SMTT(30) DEF NoVMBinding
<1>4. \A r \in Requests : dry[r] = NoDry /\ admitted[r] = NoAdmission /\ vmBinding[r] = NoVMBinding
  BY DEF PlacementInit
<1>5. \A r \in Requests : RequestInOrder(r)
  BY <1>3, <1>4 DEF RequestInOrder
<1>6. \A x \in Rebinds : rebinds[x] = NoRebind
  BY DEF PlacementInit
<1>. QED  BY <1>1, <1>2, <1>5, <1>6 DEF PlacementInvariant, RebindInOrder, RebindsAreSerial

\* A step that writes none of the tables the invariant is about.
LEMMA AdmissionsStay ==
  ASSUME PlacementInvariant, UNCHANGED <<bindings, dry, admitted, vmBinding, rebinds>>
  PROVE  PlacementInvariant' /\ BoundAsShown
<1>1. PlacementInvariant'
  BY DEF PlacementInvariant, Table, RequestInOrder, RebindInOrder, RebindsAreSerial
<1>2. \A r \in Requests : vmBinding[r].revision = 0 => ~(vmBinding'[r].revision > 0)
  BY SMTT(30)
<1>. QED  BY <1>1, <1>2 DEF BoundAsShown

\* A step that leaves VMs and rebinds alone, and keeps requests in order.
LEMMA RebindsStay ==
  ASSUME PlacementInvariant, UNCHANGED <<vmBinding, rebinds>>,
         Table(dry', Requests), Table(admitted', Requests), Table(bindings', Bindings),
         \A b \in Bindings : bindings'[b].gen > 0 => bindings'[b].priority \in {0, 1},
         \A r \in Requests : RequestInOrder(r)'
  PROVE  PlacementInvariant' /\ BoundAsShown
<1>1. PlacementInvariant'
  BY DEF PlacementInvariant, Table, RebindInOrder, RebindsAreSerial
<1>2. \A r \in Requests : vmBinding[r].revision = 0 => ~(vmBinding'[r].revision > 0)
  BY SMTT(30)
<1>. QED  BY <1>1, <1>2 DEF BoundAsShown

LEMMA BindingPublished ==
  ASSUME PlacementInvariant, NEW b \in Bindings, NEW p \in Pools, NEW q \in Policies, NEW n \in {0, 1}, NEW l,
         PublishGroupPolicyBinding(b, p, q, n, l)
  PROVE  PlacementInvariant' /\ BoundAsShown
<1>. PICK row : row = [gen |-> bindings[b].gen + 1, pool |-> p, poolGen |-> pools[p].gen, policy |-> q,
                       revision |-> policies[q].revision, priority |-> n, lifecycle |-> l]
  OBVIOUS
<1>1. row.priority = n
  BY SMTT(30)
<1>2. bindings' = [bindings EXCEPT ![b] = row] /\ UNCHANGED <<dry, admitted, vmBinding, rebinds>>
  BY DEF PublishGroupPolicyBinding, admissionVars
<1>3. /\ Table(bindings', Bindings) /\ bindings'[b] = row
      /\ \A c \in Bindings : c # b => bindings'[c] = bindings[c]
  BY <1>2, Tables DEF Table
<1>4. \A c \in Bindings : bindings'[c].gen > 0 => bindings'[c].priority \in {0, 1}
  BY <1>1, <1>3 DEF PlacementInvariant
<1>5. Table(dry', Requests) /\ Table(admitted', Requests) /\ \A r \in Requests : RequestInOrder(r)'
  BY <1>2 DEF PlacementInvariant, RequestInOrder
<1>. QED  BY <1>2, <1>3, <1>4, <1>5, RebindsStay

\* A caller keeps a new dry result of a request that is not admitted.
LEMMA DryKept ==
  ASSUME PlacementInvariant, NEW r \in Requests, NEW row, admitted[r] = NoAdmission, dry' = [dry EXCEPT ![r] = row],
         UNCHANGED <<bindings, admitted, vmBinding, rebinds>>
  PROVE  PlacementInvariant' /\ BoundAsShown
<1>1. /\ Table(dry', Requests)
      /\ \A t \in Requests : t # r => dry'[t] = dry[t]
  BY Tables DEF Table
<1>2. \A t \in Requests : RequestInOrder(t)'
  BY <1>1 DEF PlacementInvariant, RequestInOrder
<1>3. Table(admitted', Requests) /\ Table(bindings', Bindings)
      /\ \A b \in Bindings : bindings'[b].gen > 0 => bindings'[b].priority \in {0, 1}
  BY DEF PlacementInvariant
<1>. QED  BY <1>1, <1>2, <1>3, RebindsStay

LEMMA DryEvaluated ==
  ASSUME PlacementInvariant, NEW r \in Requests, NEW h, NEW p,
         \/ DryEvaluatePlacement(r, h, p) \/ DryEvaluatePlacementScope(r, h, p)
         \/ DryEvaluateAvailabilityPlacementScope(r)
  PROVE  PlacementInvariant' /\ BoundAsShown
<1>1. UNCHANGED <<bindings, admitted, vmBinding, rebinds>>
  BY DEF DryEvaluatePlacement, DryEvaluatePlacementScope, DryEvaluateAvailabilityPlacementScope, policyVars
<1>2. admitted[r] = NoAdmission
  BY DEF DryEvaluatePlacement, DryEvaluatePlacementScope, DryEvaluateAvailabilityPlacementScope,
         PlacementInvariant, RequestInOrder
<1>3. \E row : dry' = [dry EXCEPT ![r] = row]
  BY DEF DryEvaluatePlacement, DryEvaluatePlacementScope, DryEvaluateAvailabilityPlacementScope
<1>. QED  BY <1>1, <1>2, <1>3, DryKept

\* An admission is recorded, and the dry result is used up.
LEMMA Committed ==
  ASSUME PlacementInvariant, NEW r \in Requests, Commit(r)
  PROVE  /\ Table(dry', Requests) /\ Table(admitted', Requests)
         /\ dry'[r] = NoDry /\ admitted'[r] # NoAdmission /\ "claim" \in DOMAIN admitted'[r]
         /\ \A t \in Requests : t # r => dry'[t] = dry[t] /\ admitted'[t] = admitted[t]
<1>. PICK row : row = [host |-> dry[r].host, pool |-> dry[r].evaluation.pool,
                       vcpus |-> dry[r].evaluation.vcpus, dedicated |-> catalog.shape.dedicated,
                       claim |-> "RESERVED"]
  OBVIOUS
<1>1. "claim" \in DOMAIN row
  BY SMTT(30)
<1>2. "claim" \notin DOMAIN NoAdmission
  BY SMTT(30) DEF NoAdmission
<1>3. admitted' = [admitted EXCEPT ![r] = row] /\ dry' = [dry EXCEPT ![r] = NoDry]
  BY DEF Commit
<1>4. Table(admitted', Requests) /\ admitted'[r] = row /\ \A t \in Requests : t # r => admitted'[t] = admitted[t]
  BY <1>3, Tables DEF Table
<1>5. Table(dry', Requests) /\ dry'[r] = NoDry /\ \A t \in Requests : t # r => dry'[t] = dry[t]
  BY <1>3, Tables DEF Table
<1>. QED  BY <1>1, <1>2, <1>4, <1>5

LEMMA AdmittedUnbound ==
  ASSUME PlacementInvariant, NEW r \in Requests, FinalAdmitPlacement(r) \/ FinalAdmitPlacementScope(r)
  PROVE  PlacementInvariant' /\ BoundAsShown
<1>1. Commit(r) /\ UNCHANGED <<bindings, vmBinding, rebinds>>
  BY DEF FinalAdmitPlacement, FinalAdmitPlacementScope, policyVars
<1>2. /\ Table(dry', Requests) /\ Table(admitted', Requests)
      /\ dry'[r] = NoDry /\ admitted'[r] # NoAdmission /\ "claim" \in DOMAIN admitted'[r]
      /\ \A t \in Requests : t # r => dry'[t] = dry[t] /\ admitted'[t] = admitted[t]
  BY <1>1, Committed
<1>3. \A t \in Requests : RequestInOrder(t)'
  BY <1>1, <1>2 DEF PlacementInvariant, RequestInOrder
<1>4. Table(bindings', Bindings) /\ \A b \in Bindings : bindings'[b].gen > 0 => bindings'[b].priority \in {0, 1}
  BY <1>1 DEF PlacementInvariant
<1>. QED  BY <1>1, <1>2, <1>3, <1>4, RebindsStay

\* A resolution names a policy revision that is current and ACTIVE.
LEMMA ResolvedIsActive ==
  ASSUME PlacementInvariant, NEW h, ResolveGroupPolicy(h).result = "RESOLVED"
  PROVE  PolicyActive(ResolveGroupPolicy(h).policy.policy, ResolveGroupPolicy(h).policy.revision)
<1>. DEFINE candidates == {b \in Bindings : bindings[b].gen > 0
                             /\ pools[bindings[b].pool].members[h].state = "ACTIVE"}
            top == {b \in candidates : \A c \in candidates : bindings[c].priority <= bindings[b].priority}
            named == {[policy |-> bindings[b].policy, revision |-> bindings[b].revision] : b \in top}
            input == {<<b, bindings[b].gen, pools[bindings[b].pool].set, BindingCurrent(b)>> : b \in candidates}
            result == IF candidates = {} THEN "NO_ASSIGNMENT"
                      ELSE IF \E b \in top : ~ BindingCurrent(b) THEN "STALE_ASSIGNMENT"
                      ELSE IF Cardinality(named) > 1 THEN "ASSIGNMENT_CONFLICT"
                      ELSE "RESOLVED"
            choice == IF result = "RESOLVED" THEN CHOOSE n \in named : TRUE ELSE NoDry
<1>0. ResolveGroupPolicy(h) = [result |-> result, input |-> input, policy |-> choice]
  BY DEF ResolveGroupPolicy
<1>1. ResolveGroupPolicy(h).result = result /\ ResolveGroupPolicy(h).policy = choice
  <2>. HIDE DEF result, input, choice
  <2>. QED  BY <1>0, SMTT(30)
<1>2. result = "RESOLVED"
  BY <1>1
<1>3. candidates # {} /\ \A b \in top : BindingCurrent(b)
  BY <1>2
<1>4. \A b \in candidates : b \in Bindings /\ bindings[b].priority \in {0, 1}
  BY DEF PlacementInvariant
<1>5. \E b \in candidates : \A c \in candidates : bindings[c].priority <= bindings[b].priority
  <2>. HIDE DEF candidates
  <2>1. CASE \E b \in candidates : bindings[b].priority = 1
    BY <1>4, <2>1, SMTT(30)
  <2>2. CASE \A b \in candidates : bindings[b].priority # 1
    BY <1>3, <1>4, <2>2, SMTT(30)
  <2>. QED  BY <2>1, <2>2
<1>6. top # {}
  BY <1>5
<1>7. named # {}
  BY <1>6
<1>8. choice \in named
  <2>. HIDE DEF named, result
  <2>. QED  BY <1>2, <1>7
<1>9. PICK b \in top : choice = [policy |-> bindings[b].policy, revision |-> bindings[b].revision]
  <2>. HIDE DEF top, choice
  <2>. QED  BY <1>8
<1>10. choice.policy = bindings[b].policy /\ choice.revision = bindings[b].revision
  <2>. HIDE DEF choice
  <2>. QED  BY <1>9, SMTT(30)
<1>11. policies[bindings[b].policy] = [revision |-> bindings[b].revision, lifecycle |-> "ACTIVE"]
  <2>1. BindingCurrent(b)
    BY <1>3, <1>9
  <2>. QED  BY <2>1 DEF BindingCurrent
<1>. HIDE DEF choice
<1>. QED  BY <1>1, <1>10, <1>11 DEF PolicyActive

LEMMA AdmittedBound ==
  ASSUME PlacementInvariant, NEW r \in Requests, FinalAdmitAvailabilityPlacementScope(r)
  PROVE  PlacementInvariant' /\ BoundAsShown
<1>. PICK policy : policy = ResolveGroupPolicy(dry[r].host).policy
  OBVIOUS
<1>. PICK row : row = [revision |-> 1, policy |-> policy]
  OBVIOUS
<1>1. /\ dry[r] # NoDry /\ Commit(r) /\ vmBinding' = [vmBinding EXCEPT ![r] = row] /\ UNCHANGED <<bindings, rebinds>>
      /\ ResolveGroupPolicy(dry[r].host).result = "RESOLVED" /\ ResolveGroupPolicy(dry[r].host) = dry[r].resolution
  BY DEF FinalAdmitAvailabilityPlacementScope, RecordVMAvailabilityBinding, ResolutionUnchanged, policyVars
<1>2. row.revision = 1 /\ row.policy = policy
  BY SMTT(30)
<1>3. /\ Table(vmBinding', Requests) /\ vmBinding'[r] = row
      /\ \A t \in Requests : t # r => vmBinding'[t] = vmBinding[t]
  BY <1>1, Tables DEF Table
<1>4. /\ Table(dry', Requests) /\ Table(admitted', Requests)
      /\ dry'[r] = NoDry /\ admitted'[r] # NoAdmission /\ "claim" \in DOMAIN admitted'[r]
      /\ \A t \in Requests : t # r => dry'[t] = dry[t] /\ admitted'[t] = admitted[t]
  BY <1>1, Committed
<1>5. 1 \in Nat
  BY SMTT(30)
<1>6. \A t \in Requests : RequestInOrder(t)'
  BY <1>2, <1>3, <1>4, <1>5 DEF PlacementInvariant, RequestInOrder
<1>7. vmBinding[r].revision = 0
  <2>1. vmBinding[r].revision \in Nat /\ ~(vmBinding[r].revision > 0)
    BY <1>1 DEF PlacementInvariant, RequestInOrder
  <2>. QED  BY <2>1, SMTT(30)
<1>8. \A x \in Rebinds : rebinds[x] # NoRebind => rebinds[x].workload # r
  <2>. SUFFICES ASSUME NEW x \in Rebinds, rebinds[x] # NoRebind, rebinds[x].workload = r PROVE FALSE
    OBVIOUS
  <2>1. rebinds[x].source \in Nat /\ rebinds[x].source > 0 /\ rebinds[x].source <= vmBinding[r].revision
    BY DEF PlacementInvariant, RebindInOrder
  <2>. QED  BY <1>7, <2>1, SMTT(30)
<1>9. \A x \in Rebinds : RebindInOrder(x)'
  BY <1>1, <1>3, <1>8 DEF PlacementInvariant, RebindInOrder
<1>10. RebindsAreSerial' /\ Table(rebinds', Rebinds) /\ Table(bindings', Bindings)
       /\ \A b \in Bindings : bindings'[b].gen > 0 => bindings'[b].priority \in {0, 1}
  BY <1>1 DEF PlacementInvariant, RebindsAreSerial
<1>11. PlacementInvariant'
  BY <1>3, <1>4, <1>6, <1>9, <1>10 DEF PlacementInvariant
<1>12. policy = dry[r].resolution.policy /\ PolicyActive(policy.policy, policy.revision)
  BY <1>1, ResolvedIsActive
<1>13. \A t \in Requests : t # r /\ vmBinding[t].revision = 0 => ~(vmBinding'[t].revision > 0)
  BY <1>3, SMTT(30)
<1>14. BoundAsShown
  BY <1>2, <1>3, <1>12, <1>13 DEF BoundAsShown
<1>. QED  BY <1>11, <1>14

LEMMA ComputeReleased ==
  ASSUME PlacementInvariant, NEW r \in Requests, ReleaseCompute(r)
  PROVE  PlacementInvariant' /\ BoundAsShown
<1>. PICK row : row = [admitted[r] EXCEPT !.claim = "RELEASED"]
  OBVIOUS
<1>1. admitted' = [admitted EXCEPT ![r] = row] /\ UNCHANGED <<bindings, dry, vmBinding, rebinds>>
      /\ admitted[r] # NoAdmission
  BY DEF ReleaseCompute, policyVars
<1>2. "claim" \in DOMAIN admitted[r]
  BY <1>1 DEF PlacementInvariant, RequestInOrder
<1>3. "claim" \in DOMAIN row
  BY <1>2
<1>4. "claim" \notin DOMAIN NoAdmission
  BY SMTT(30) DEF NoAdmission
<1>5. Table(admitted', Requests) /\ admitted'[r] = row /\ \A t \in Requests : t # r => admitted'[t] = admitted[t]
  BY <1>1, Tables DEF Table
<1>6. \A t \in Requests : RequestInOrder(t)'
  BY <1>1, <1>3, <1>4, <1>5 DEF PlacementInvariant, RequestInOrder
<1>7. Table(dry', Requests) /\ Table(bindings', Bindings)
      /\ \A b \in Bindings : bindings'[b].gen > 0 => bindings'[b].priority \in {0, 1}
  BY <1>1 DEF PlacementInvariant
<1>. QED  BY <1>1, <1>5, <1>6, <1>7, RebindsStay

LEMMA RebindRecorded ==
  ASSUME PlacementInvariant, NEW x \in Rebinds, NEW r \in Requests, NEW q, RecordVMAvailabilityRebindRequest(x, r, q)
  PROVE  PlacementInvariant' /\ BoundAsShown
<1>. PICK source : source = vmBinding[r].revision
  OBVIOUS
<1>. PICK policy : policy = [policy |-> q, revision |-> policies[q].revision]
  OBVIOUS
<1>. PICK row : row = [state |-> "REQUESTED", workload |-> r, source |-> source, policy |-> policy]
  OBVIOUS
<1>1. /\ row.state = "REQUESTED" /\ row.workload = r /\ row.source = source
      /\ {"workload", "source"} \subseteq DOMAIN row
  BY SMTT(30)
<1>2. /\ rebinds' = [rebinds EXCEPT ![x] = row] /\ UNCHANGED <<bindings, dry, admitted, vmBinding>>
      /\ vmBinding[r].revision > 0
  BY DEF RecordVMAvailabilityRebindRequest, policyVars
<1>3. Table(rebinds', Rebinds) /\ rebinds'[x] = row /\ \A y \in Rebinds : y # x => rebinds'[y] = rebinds[y]
  BY <1>2, Tables DEF Table
<1>4. source \in Nat /\ source > 0 /\ source <= vmBinding[r].revision
  <2>1. vmBinding[r].revision \in Nat
    BY DEF PlacementInvariant, RequestInOrder
  <2>. QED  BY <1>2, <2>1, SMTT(30)
<1>5. \A y \in Rebinds : RebindInOrder(y)'
  BY <1>1, <1>2, <1>3, <1>4 DEF PlacementInvariant, RebindInOrder
<1>6. \A y \in Rebinds : rebinds'[y].state = "ACCEPTED" => rebinds'[y] = rebinds[y]
  BY <1>1, <1>3
<1>7. RebindsAreSerial'
  BY <1>6 DEF PlacementInvariant, RebindsAreSerial
<1>8. PlacementInvariant'
  BY <1>2, <1>3, <1>5, <1>7 DEF PlacementInvariant, RequestInOrder
<1>9. \A t \in Requests : vmBinding[t].revision = 0 => ~(vmBinding'[t].revision > 0)
  BY <1>2, SMTT(30)
<1>. QED  BY <1>8, <1>9 DEF BoundAsShown

LEMMA RebindDecided ==
  ASSUME PlacementInvariant, NEW x \in Rebinds, DecideVMAvailabilityRebind(x)
  PROVE  PlacementInvariant' /\ BoundAsShown
<1>. PICK q : q = rebinds[x]
  OBVIOUS
<1>. PICK r : r = q.workload
  OBVIOUS
<1>. PICK row : row = [revision |-> q.source + 1, policy |-> q.policy]
  OBVIOUS
<1>. PICK done : done = [q EXCEPT !.state = "ACCEPTED"]
  OBVIOUS
<1>1. /\ q # NoRebind /\ q.state = "REQUESTED" /\ vmBinding[r].revision = q.source
      /\ vmBinding' = [vmBinding EXCEPT ![r] = row] /\ rebinds' = [rebinds EXCEPT ![x] = done]
      /\ UNCHANGED <<bindings, dry, admitted>>
  BY DEF DecideVMAvailabilityRebind, RebindSourceCurrent, policyVars
<1>2. r \in Requests /\ q.source \in Nat /\ q.source > 0
  BY <1>1 DEF PlacementInvariant, RebindInOrder
<1>3. row.revision = q.source + 1
  BY SMTT(30)
<1>4. /\ Table(vmBinding', Requests) /\ vmBinding'[r] = row
      /\ \A t \in Requests : t # r => vmBinding'[t] = vmBinding[t]
  BY <1>1, <1>2, Tables DEF Table
<1>5. Table(rebinds', Rebinds) /\ rebinds'[x] = done /\ \A y \in Rebinds : y # x => rebinds'[y] = rebinds[y]
  BY <1>1, Tables DEF Table
<1>6. /\ {"workload", "source"} \subseteq DOMAIN done
      /\ done.workload = r /\ done.source = q.source
  <2>1. {"workload", "source"} \subseteq DOMAIN q
    BY <1>1 DEF PlacementInvariant, RebindInOrder
  <2>2. DOMAIN done = DOMAIN q /\ "workload" \in DOMAIN q /\ "source" \in DOMAIN q
    BY <2>1
  <2>3. done.workload = q.workload /\ done.source = q.source
    BY <2>2
  <2>. QED  BY <2>1, <2>2, <2>3
<1>7. q.source + 1 \in Nat /\ q.source + 1 > 0 /\ q.source <= q.source + 1 /\ q.source < q.source + 1
  BY <1>2, SMTT(30)
<1>8. \A t \in Requests : RequestInOrder(t)'
  <2>1. admitted[r] # NoAdmission
    BY <1>1, <1>2 DEF PlacementInvariant, RequestInOrder
  <2>2. ASSUME NEW t \in Requests PROVE RequestInOrder(t)'
    <3>1. RequestInOrder(t) /\ UNCHANGED <<dry, admitted>>
      BY <1>1 DEF PlacementInvariant
    <3>2. CASE t = r
      BY <1>3, <1>4, <1>7, <2>1, <3>1, <3>2 DEF RequestInOrder
    <3>3. CASE t # r
      BY <1>4, <3>1, <3>3 DEF RequestInOrder
    <3>. QED  BY <3>2, <3>3
  <2>. QED  BY <2>2
<1>9. \A y \in Rebinds : RebindInOrder(y)'
  <2>1. RebindInOrder(x)'
    <3>1. /\ {"workload", "source"} \subseteq DOMAIN rebinds'[x]
          /\ rebinds'[x].workload = r /\ rebinds'[x].source = q.source
      BY <1>5, <1>6
    <3>2. vmBinding'[r].revision = q.source + 1
      BY <1>3, <1>4
    <3>3. /\ rebinds'[x].source <= vmBinding'[rebinds'[x].workload].revision
          /\ rebinds'[x].source < vmBinding'[rebinds'[x].workload].revision
      BY <1>7, <3>1, <3>2
    <3>. QED  BY <1>2, <3>1, <3>3 DEF RebindInOrder
  <2>2. ASSUME NEW y \in Rebinds, y # x PROVE RebindInOrder(y)'
    <3>0. rebinds'[y] = rebinds[y] /\ RebindInOrder(y)
      BY <1>5, <2>2 DEF PlacementInvariant
    <3>1. CASE rebinds[y] # NoRebind /\ rebinds[y].workload = r
      <4>. PICK source : source = rebinds[y].source
        OBVIOUS
      <4>1. source \in Nat /\ source > 0 /\ source <= q.source
        BY <1>1, <3>0, <3>1 DEF RebindInOrder
      <4>2. source <= q.source + 1 /\ source < q.source + 1
        BY <1>2, <4>1, SMTT(30)
      <4>. QED  BY <1>2, <1>3, <1>4, <3>0, <3>1, <4>1, <4>2 DEF RebindInOrder
    <3>2. CASE ~(rebinds[y] # NoRebind /\ rebinds[y].workload = r)
      BY <1>4, <3>0, <3>2 DEF RebindInOrder
    <3>. QED  BY <3>1, <3>2
  <2>. QED  BY <2>1, <2>2
<1>10. RebindsAreSerial'
  <2>1. ASSUME NEW y \in Rebinds, y # x, rebinds[y] # NoRebind, rebinds[y].state = "ACCEPTED",
               rebinds[y].workload = r, rebinds[y].source = q.source
        PROVE  FALSE
    <3>1. rebinds[y].source < vmBinding[r].revision
      BY <2>1 DEF PlacementInvariant, RebindInOrder
    <3>. QED  BY <1>1, <1>2, <2>1, <3>1, SMTT(30)
  <2>2. \A y \in Rebinds : y # x => rebinds'[y] = rebinds[y]
    BY <1>5
  <2>. SUFFICES ASSUME NEW y \in Rebinds, NEW z \in Rebinds, rebinds'[y] # NoRebind, rebinds'[z] # NoRebind,
                       rebinds'[y].state = "ACCEPTED", rebinds'[z].state = "ACCEPTED",
                       rebinds'[y].workload = rebinds'[z].workload, rebinds'[y].source = rebinds'[z].source
                PROVE  y = z
    BY DEF RebindsAreSerial
  <2>3. CASE y = x \/ z = x
    <3>0. rebinds'[x].workload = r /\ rebinds'[x].source = q.source
      BY <1>5, <1>6
    <3>1. CASE y = x /\ z # x
      <4>1. rebinds[z] # NoRebind /\ rebinds[z].state = "ACCEPTED" /\ rebinds[z].workload = r
            /\ rebinds[z].source = q.source
        BY <2>2, <3>0, <3>1
      <4>. QED  BY <2>1, <3>1, <4>1
    <3>2. CASE z = x /\ y # x
      <4>1. rebinds[y] # NoRebind /\ rebinds[y].state = "ACCEPTED" /\ rebinds[y].workload = r
            /\ rebinds[y].source = q.source
        BY <2>2, <3>0, <3>2
      <4>. QED  BY <2>1, <3>2, <4>1
    <3>. QED  BY <2>3, <3>1, <3>2
  <2>4. CASE y # x /\ z # x
    BY <2>2, <2>4 DEF PlacementInvariant, RebindsAreSerial
  <2>. QED  BY <2>3, <2>4
<1>11. PlacementInvariant'
  BY <1>1, <1>4, <1>5, <1>8, <1>9, <1>10 DEF PlacementInvariant
<1>12. \A t \in Requests : vmBinding[t].revision = 0 => ~(vmBinding'[t].revision > 0)
  <2>1. vmBinding[r].revision # 0
    BY <1>1, <1>2, SMTT(30)
  <2>2. ~(0 > 0)
    BY SMTT(30)
  <2>. QED  BY <1>4, <2>1, <2>2
<1>. QED  BY <1>11, <1>12 DEF BoundAsShown

LEMMA PlacementStep ==
  ASSUME PlacementInvariant, [PlacementNext]_placementVars
  PROVE  PlacementInvariant' /\ BoundAsShown
<1>1. CASE RevisePlacement
  <2>1. UNCHANGED <<bindings, dry, admitted, vmBinding, rebinds>>
    BY <1>1 DEF RevisePlacement, RegisterImageRevision, RegisterFlavorRevision, UpsertPlacementPool,
       AssignHostPlacementPool, ObserveHost, RegisterLocalLVMFoundation, EvaluateReadiness, DrainHost,
       ReleaseHostPlacementDrain, policyVars, admissionVars
  <2>. QED  BY <2>1, AdmissionsStay
<1>2. CASE ReviseScope
  <2>1. CASE \E l, E : PublishPlacementScope(l, E)
    BY <2>1, AdmissionsStay DEF PublishPlacementScope, admissionVars
  <2>2. CASE \E q, l : PublishAvailabilityPolicy(q, l)
    BY <2>2, AdmissionsStay DEF PublishAvailabilityPolicy, admissionVars
  <2>3. CASE \E b \in Bindings, p \in Pools, q \in Policies, n \in {0, 1},
               l \in {"ACTIVE", "RETIRED"} : PublishGroupPolicyBinding(b, p, q, n, l)
    BY <2>3, BindingPublished
  <2>. QED  BY <1>2, <2>1, <2>2, <2>3 DEF ReviseScope
<1>3. CASE AdmitToPool
  BY <1>3, DryEvaluated, AdmittedUnbound, ComputeReleased DEF AdmitToPool
<1>4. CASE AdmitToScope
  BY <1>4, DryEvaluated, AdmittedUnbound, AdmittedBound DEF AdmitToScope
<1>5. CASE Rebind
  BY <1>5, RebindRecorded, RebindDecided DEF Rebind
<1>6. CASE UNCHANGED placementVars
  BY <1>6, AdmissionsStay DEF placementVars, policyVars, admissionVars
<1>. QED  BY <1>1, <1>2, <1>3, <1>4, <1>5, <1>6 DEF PlacementNext

LEMMA PlacementInvariantTheorem == PlacementSpec => []PlacementInvariant
<1>. QED  BY PlacementStarts, PlacementStep, PTL DEF PlacementSpec

(* However many rebinds of a VM are recorded against one revision of its   *)
(* binding, at most one is accepted (DecideVMAvailabilityRebind).          *)
THEOREM RebindsAreSerialTheorem == PlacementSpec => []RebindsAreSerial
<1>1. PlacementInvariant => RebindsAreSerial
  BY DEF PlacementInvariant
<1>. QED  BY <1>1, PlacementInvariantTheorem, PTL

(* For any pools, hosts, policies and callers, the first binding of a VM   *)
(* is to the policy its dry evaluation showed, at a revision that is       *)
(* current and ACTIVE when the admission resolves it                       *)
(* (FinalAdmitAvailabilityPlacementScope).                                 *)
THEOREM PolicyShownTheorem == PlacementSpec => PolicyShownIsBound
<1>1. PlacementInvariant /\ [PlacementNext]_placementVars => [BoundAsShown]_placementVars
  BY PlacementStep
<1>. QED  BY <1>1, PlacementInvariantTheorem, PTL DEF PlacementSpec, PolicyShownIsBound, BoundAsShown

-----------------------------------------------------------------------------
(***************************************************************************)
(* Networks, subnets, ports and their realization                          *)
(***************************************************************************)

\* A resource that is to stay is being realized, not retired.
ActiveRealizes ==
  \A x \in Networks \cup Subnets : logical[x].life = "ACTIVE" => realization[x].plan.kind = "REALIZE"

\* The plan in a worker's hand is the current one or an earlier one.
HandInOrder(w) ==
  hand[w].x \in Resources =>
    /\ hand[w].plan.gen <= realization[hand[w].x].plan.gen
    /\ hand[w].plan.gen = realization[hand[w].x].plan.gen => hand[w].plan = realization[hand[w].x].plan

\* No read of a port finds a conflict: a foreign port is an error of the adapter.
PortSeen(w) == hand[w].x \in LogicalPorts => hand[w].seen # "CONFLICTING"

NetworkInvariant ==
  /\ NetworkTypeOK /\ ParentsOutliveChildren /\ ActiveRealizes
  /\ \A w \in NetworkWorkers : HandInOrder(w)
  /\ \A w \in NetworkWorkers : PortSeen(w)

\* What EndsOnItsOwnPlan says of a step.
OwnEndings ==
  \A x \in Resources : realization[x].phase = "CLAIMED" /\ realization'[x].phase = "SUCCEEDED" =>
    \E w \in NetworkWorkers : hand[w].x = x /\ hand[w].at = "COMPLETE" /\ hand[w].plan = realization[x].plan

\* Plans are replaced by later ones only.
PlansAdvance ==
  \A x \in Resources : \/ realization'[x].plan = realization[x].plan
                       \/ realization'[x].plan.gen = realization[x].plan.gen + 1

LEMMA ResourceKinds ==
  /\ Networks \subseteq Resources /\ Subnets \subseteq Resources /\ LogicalPorts \subseteq Resources
  /\ Children \subseteq Resources /\ None \notin Resources
  /\ \A x \in Children : NetworkOf[x] \in Networks
  /\ \A p \in LogicalPorts : SubnetOf[p] # None => SubnetOf[p] \in Subnets
  BY NetworkAssumption DEF Resources, Children

LEMMA NoRows ==
  /\ NoPlanYet \in RealizationPlans /\ NoPlanYet.kind = "REALIZE" /\ NoPlanYet.gen = 0
  /\ NoOperation \in OperationRow /\ NoOperation.plan = NoPlanYet
  /\ NoObject \in ObjectRow
  /\ Resting \in HandRow /\ Resting.x = None /\ Resting.at = "IDLE"
<1>1. NoPlanYet \in RealizationPlans /\ NoPlanYet.kind = "REALIZE" /\ NoPlanYet.gen = 0
  BY SMTT(30) DEF NoPlanYet, RealizationPlans
<1>2. NoOperation \in OperationRow /\ NoOperation.plan = NoPlanYet
  BY <1>1, SMTT(30) DEF NoOperation, OperationRow
<1>3. NoObject \in ObjectRow
  BY SMTT(30) DEF NoObject, ObjectRow
<1>4. Resting \in HandRow /\ Resting.x = None /\ Resting.at = "IDLE"
  BY <1>1, SMTT(30) DEF Resting, HandRow
<1>. QED  BY <1>1, <1>2, <1>3, <1>4

LEMMA NetworkStarts == NetworkInit => NetworkInvariant
<1>. SUFFICES ASSUME NetworkInit PROVE NetworkInvariant
  OBVIOUS
<1>1. [life |-> "NONE", rev |-> 0, parent |-> 0] \in LogicalRow
      /\ [life |-> "NONE", rev |-> 0, parent |-> 0].life = "NONE"
  BY SMTT(30) DEF LogicalRow
<1>2. NetworkTypeOK
  BY <1>1, NoRows DEF NetworkInit, NetworkTypeOK
<1>3. \A x \in Resources : logical[x].life = "NONE"
  BY <1>1 DEF NetworkInit
<1>4. ParentsOutliveChildren /\ ActiveRealizes
  BY <1>3, ResourceKinds DEF ParentsOutliveChildren, ActiveRealizes, Alive
<1>5. \A w \in NetworkWorkers : HandInOrder(w) /\ PortSeen(w)
  BY NoRows, ResourceKinds DEF NetworkInit, HandInOrder, PortSeen
<1>. QED  BY <1>2, <1>4, <1>5 DEF NetworkInvariant

LEMMA PlanOf ==
  ASSUME NetworkTypeOK, NEW x \in Resources
  PROVE  /\ realization[x] \in OperationRow /\ realization[x].plan \in RealizationPlans
         /\ realization[x].plan.gen \in Nat /\ realization[x].plan.dhcp \in BOOLEAN
         /\ logical[x] \in LogicalRow /\ logical[x].rev \in Nat /\ logical[x].parent \in Nat
<1>1. realization[x] \in OperationRow /\ logical[x] \in LogicalRow
  BY DEF NetworkTypeOK
<1>2. realization[x].plan \in RealizationPlans
  BY <1>1 DEF OperationRow
<1>3. realization[x].plan.gen \in Nat /\ realization[x].plan.dhcp \in BOOLEAN
  BY <1>2 DEF RealizationPlans
<1>4. logical[x].rev \in Nat /\ logical[x].parent \in Nat
  BY <1>1 DEF LogicalRow
<1>. QED  BY <1>1, <1>2, <1>3, <1>4

\* A new operation of a resource.
LEMMA Inserted ==
  ASSUME NetworkTypeOK, NEW x \in Resources, NEW kind \in {"REALIZE", "RETIRE"}, NEW parent \in Nat,
         NEW dhcp \in BOOLEAN, realization' = [realization EXCEPT ![x] = Operation(x, kind, parent, dhcp)]
  PROVE  /\ realization' \in [Resources -> OperationRow]
         /\ realization'[x].plan.gen = realization[x].plan.gen + 1
         /\ realization'[x].plan.kind = kind /\ realization'[x].phase = "PENDING"
         /\ \A y \in Resources : y # x => realization'[y] = realization[y]
<1>. PICK plan : plan = [gen |-> realization[x].plan.gen + 1, kind |-> kind, parent |-> parent, dhcp |-> dhcp]
  OBVIOUS
<1>1. plan \in RealizationPlans /\ plan.gen = realization[x].plan.gen + 1 /\ plan.kind = kind
  BY PlanOf, SMTT(30) DEF RealizationPlans
<1>. PICK row : row = [NoOperation EXCEPT !.plan = plan, !.phase = "PENDING", !.state = "PENDING"]
  OBVIOUS
<1>2. row \in OperationRow /\ row.plan = plan /\ row.phase = "PENDING"
  BY <1>1, NoRows DEF OperationRow
<1>3. realization' = [realization EXCEPT ![x] = row]
  BY DEF Operation
<1>. QED  BY <1>1, <1>2, <1>3 DEF NetworkTypeOK

\* A new revision of a resource.
LEMMA RevisedRow ==
  ASSUME NetworkTypeOK, NEW x \in Resources, NEW life \in {"ACTIVE", "RETIRE_PENDING"}, NEW parent \in Nat,
         logical' = [logical EXCEPT ![x] = Revised(x, life, parent)]
  PROVE  /\ logical' \in [Resources -> LogicalRow] /\ logical'[x].life = life
         /\ \A y \in Resources : y # x => logical'[y] = logical[y]
<1>. PICK row : row = Revised(x, life, parent)
  OBVIOUS
<1>1. logical[x].rev + 1 \in Nat
  BY PlanOf, SMTT(30)
<1>2. row \in LogicalRow /\ row.life = life
  BY <1>1, SMTT(30) DEF Revised, LogicalRow
<1>. QED  BY <1>2 DEF NetworkTypeOK

\* Hands stay in order when plans advance and no hand changes.
LEMMA HandsBehind ==
  ASSUME NetworkInvariant, PlansAdvance, UNCHANGED hand
  PROVE  \A w \in NetworkWorkers : HandInOrder(w)'
<1>. SUFFICES ASSUME NEW w \in NetworkWorkers PROVE HandInOrder(w)'
  OBVIOUS
<1>. SUFFICES ASSUME hand[w].x \in Resources
              PROVE  /\ hand[w].plan.gen <= realization'[hand[w].x].plan.gen
                     /\ hand[w].plan.gen = realization'[hand[w].x].plan.gen
                          => hand[w].plan = realization'[hand[w].x].plan
  BY DEF HandInOrder
<1>. PICK x \in Resources : x = hand[w].x
  OBVIOUS
<1>1. hand[w].plan.gen <= realization[x].plan.gen
      /\ (hand[w].plan.gen = realization[x].plan.gen => hand[w].plan = realization[x].plan)
  BY DEF NetworkInvariant, HandInOrder
<1>2. CASE realization'[x].plan = realization[x].plan
  BY <1>1, <1>2
<1>3. CASE realization'[x].plan.gen = realization[x].plan.gen + 1
  <2>1. realization[x].plan.gen \in Nat /\ hand[w].plan.gen \in Nat
    <3>1. hand[w] \in HandRow /\ NetworkTypeOK
      BY DEF NetworkInvariant, NetworkTypeOK
    <3>2. hand[w].plan \in RealizationPlans
      BY <3>1 DEF HandRow
    <3>. QED  BY <3>1, <3>2, PlanOf DEF RealizationPlans
  <2>2. hand[w].plan.gen <= realization'[x].plan.gen /\ hand[w].plan.gen # realization'[x].plan.gen
    BY <1>1, <1>3, <2>1, SMTT(30)
  <2>. QED  BY <2>2
<1>. QED  BY <1>2, <1>3 DEF PlansAdvance

\* The part of an invariant step that a request leaves to the common frame.
LEMMA RequestStep ==
  ASSUME NetworkInvariant, NEW x \in Resources, NEW kind \in {"REALIZE", "RETIRE"}, NEW parent \in Nat,
         NEW dhcp \in BOOLEAN, realization' = [realization EXCEPT ![x] = Operation(x, kind, parent, dhcp)],
         logical' \in [Resources -> LogicalRow], \A y \in Resources : y # x => logical'[y] = logical[y],
         x \in Networks \cup Subnets /\ logical'[x].life = "ACTIVE" => kind = "REALIZE",
         segment' \in [Networks -> Segments \cup {None}],
         address' \in [LogicalPorts -> SUBSET Addresses], mac' \in [LogicalPorts -> MACs \cup {None}],
         attached' \in [LogicalPorts -> {"UNATTACHED", "REQUESTED", "BOUND"}],
         UNCHANGED <<northbound, hand>>, ParentsOutliveChildren'
  PROVE  NetworkInvariant' /\ OwnEndings
<1>0. NetworkTypeOK
  BY DEF NetworkInvariant
<1>1. /\ realization' \in [Resources -> OperationRow]
      /\ realization'[x].plan.gen = realization[x].plan.gen + 1
      /\ realization'[x].plan.kind = kind /\ realization'[x].phase = "PENDING"
      /\ \A y \in Resources : y # x => realization'[y] = realization[y]
  BY <1>0, Inserted
<1>2. NetworkTypeOK'
  BY <1>0, <1>1 DEF NetworkTypeOK
<1>3. PlansAdvance
  BY <1>1 DEF PlansAdvance
<1>4. \A w \in NetworkWorkers : HandInOrder(w)' /\ PortSeen(w)'
  BY <1>3, HandsBehind DEF NetworkInvariant, PortSeen
<1>5. ActiveRealizes'
  BY <1>1, ResourceKinds DEF NetworkInvariant, ActiveRealizes
<1>6. OwnEndings
  BY <1>1 DEF OwnEndings
<1>. QED  BY <1>2, <1>4, <1>5, <1>6 DEF NetworkInvariant

LEMMA IdentitiesStay ==
  ASSUME NetworkInvariant
  PROVE  /\ UNCHANGED segment => segment' \in [Networks -> Segments \cup {None}]
         /\ UNCHANGED address => address' \in [LogicalPorts -> SUBSET Addresses]
         /\ UNCHANGED mac => mac' \in [LogicalPorts -> MACs \cup {None}]
         /\ UNCHANGED attached => attached' \in [LogicalPorts -> {"UNATTACHED", "REQUESTED", "BOUND"}]
  BY DEF NetworkInvariant, NetworkTypeOK

\* Parents stay active when the only resource that changes stays active.
LEMMA FamilyKept ==
  ASSUME NetworkInvariant, NEW x \in Resources, \A y \in Resources : y # x => logical'[y] = logical[y],
         logical'[x].life = "ACTIVE",
         x \in Children => logical[NetworkOf[x]].life = "ACTIVE",
         x \in LogicalPorts /\ SubnetOf[x] # None => logical[SubnetOf[x]].life = "ACTIVE"
  PROVE  ParentsOutliveChildren'
  BY ResourceKinds DEF NetworkInvariant, ParentsOutliveChildren, Alive

LEMMA NetworkCreated ==
  ASSUME NetworkInvariant, NEW n \in Networks, NEW seg \in Segments, CreateNetworkResource(n, seg)
  PROVE  NetworkInvariant' /\ OwnEndings
<1>. USE DEF CreateNetworkResource
<1>0. NetworkTypeOK /\ n \in Resources /\ n \notin Children /\ n \notin LogicalPorts
  BY ResourceKinds, NetworkAssumption DEF NetworkInvariant, Children
<1>1. /\ logical' \in [Resources -> LogicalRow] /\ logical'[n].life = "ACTIVE"
      /\ \A y \in Resources : y # n => logical'[y] = logical[y]
  <2>1. 0 \in Nat /\ logical' = [logical EXCEPT ![n] = Revised(n, "ACTIVE", 0)]
    OBVIOUS
  <2>. QED  BY <1>0, <2>1, RevisedRow
<1>2. ParentsOutliveChildren'
  BY <1>0, <1>1, FamilyKept
<1>3. realization' = [realization EXCEPT ![n] = Operation(n, "REALIZE", 1, FALSE)] /\ 1 \in Nat
  BY SMTT(30) DEF insertNetworkRealizationOperationTx
<1>4. segment' \in [Networks -> Segments \cup {None}]
  BY <1>0 DEF NetworkTypeOK
<1>. QED  BY <1>0, <1>1, <1>2, <1>3, <1>4, IdentitiesStay, RequestStep

LEMMA NetworkUpdated ==
  ASSUME NetworkInvariant, NEW n \in Networks, UpdateNetworkResource(n)
  PROVE  NetworkInvariant' /\ OwnEndings
<1>. USE DEF UpdateNetworkResource
<1>0. NetworkTypeOK /\ n \in Resources /\ n \notin Children /\ n \notin LogicalPorts
  BY ResourceKinds, NetworkAssumption DEF NetworkInvariant, Children
<1>1. /\ logical' \in [Resources -> LogicalRow] /\ logical'[n].life = "ACTIVE"
      /\ \A y \in Resources : y # n => logical'[y] = logical[y]
  <2>1. 0 \in Nat /\ logical' = [logical EXCEPT ![n] = Revised(n, "ACTIVE", 0)]
    OBVIOUS
  <2>. QED  BY <1>0, <2>1, RevisedRow
<1>2. ParentsOutliveChildren'
  BY <1>0, <1>1, FamilyKept
<1>. PICK parent : parent = logical[n].rev + 1
  OBVIOUS
<1>3. realization' = [realization EXCEPT ![n] = Operation(n, "REALIZE", parent, FALSE)] /\ parent \in Nat
  BY <1>0, PlanOf, SMTT(30) DEF insertNetworkRealizationOperationTx
<1>4. UNCHANGED <<segment, address, mac, attached, northbound, hand>>
  BY DEF identityVars
<1>. QED  BY <1>0, <1>1, <1>2, <1>3, <1>4, IdentitiesStay, RequestStep

LEMMA NetworkRetirementRequested ==
  ASSUME NetworkInvariant, NEW n \in Networks, RequestNetworkRetirement(n)
  PROVE  NetworkInvariant' /\ OwnEndings
<1>. USE DEF RequestNetworkRetirement
<1>0. NetworkTypeOK /\ n \in Resources /\ n \notin Children /\ n \notin LogicalPorts
  BY ResourceKinds, NetworkAssumption DEF NetworkInvariant, Children
<1>1. /\ logical' \in [Resources -> LogicalRow] /\ logical'[n].life = "RETIRE_PENDING"
      /\ \A y \in Resources : y # n => logical'[y] = logical[y]
  <2>1. 0 \in Nat /\ logical' = [logical EXCEPT ![n] = Revised(n, "RETIRE_PENDING", 0)]
    OBVIOUS
  <2>. QED  BY <1>0, <2>1, RevisedRow
<1>2. ParentsOutliveChildren'
  <2>1. \A x \in Children : x \in Resources /\ x # n /\ logical'[x] = logical[x]
    BY <1>0, <1>1, ResourceKinds
  <2>2. \A x \in Children : Alive(x) => logical[NetworkOf[x]].life = "ACTIVE" /\ NetworkOf[x] # n
    BY DEF NetworkInvariant, ParentsOutliveChildren, NetworkUnused
  <2>3. \A x \in Children : Alive(x)' => logical'[NetworkOf[x]].life = "ACTIVE"
    BY <1>1, <2>1, <2>2, ResourceKinds DEF Alive
  <2>4. \A p \in LogicalPorts : Alive(p)' /\ SubnetOf[p] # None => logical'[SubnetOf[p]].life = "ACTIVE"
    BY <2>1, ResourceKinds DEF NetworkInvariant, ParentsOutliveChildren, Alive, Children
  <2>. QED  BY <2>3, <2>4 DEF ParentsOutliveChildren
<1>. PICK parent : parent = logical[n].rev
  OBVIOUS
<1>3. realization' = [realization EXCEPT ![n] = Operation(n, "RETIRE", parent, FALSE)] /\ parent \in Nat
  BY <1>0, PlanOf DEF insertNetworkRealizationOperationTx
<1>4. UNCHANGED <<segment, address, mac, attached, northbound, hand>>
  BY DEF identityVars
<1>. QED  BY <1>0, <1>1, <1>2, <1>3, <1>4, IdentitiesStay, RequestStep

LEMMA SubnetWritten ==
  ASSUME NetworkInvariant, NEW s \in Subnets, NEW dhcp \in BOOLEAN,
         CreateSubnetResource(s, dhcp) \/ UpdateSubnetResource(s, dhcp)
  PROVE  NetworkInvariant' /\ OwnEndings
<1>0. NetworkTypeOK /\ s \in Resources /\ s \in Children /\ s \notin LogicalPorts /\ NetworkOf[s] \in Resources
  BY ResourceKinds, NetworkAssumption DEF NetworkInvariant, Children
<1>. PICK parent : parent = logical[NetworkOf[s]].rev
  OBVIOUS
<1>1. /\ parent \in Nat /\ Standing(NetworkOf[s])
      /\ logical' = [logical EXCEPT ![s] = Revised(s, "ACTIVE", parent)]
      /\ realization' = [realization EXCEPT ![s] = Operation(s, "REALIZE", parent, dhcp)]
      /\ UNCHANGED <<segment, address, mac, attached, northbound, hand>>
  BY <1>0, PlanOf DEF CreateSubnetResource, UpdateSubnetResource, insertSubnetRealizationOperationTx, identityVars
<1>2. /\ logical' \in [Resources -> LogicalRow] /\ logical'[s].life = "ACTIVE"
      /\ \A y \in Resources : y # s => logical'[y] = logical[y]
  BY <1>0, <1>1, RevisedRow
<1>3. ParentsOutliveChildren'
  BY <1>0, <1>1, <1>2, FamilyKept DEF Standing
<1>. QED  BY <1>0, <1>1, <1>2, <1>3, IdentitiesStay, RequestStep

LEMMA SubnetRetirementRequested ==
  ASSUME NetworkInvariant, NEW s \in Subnets, RequestSubnetRetirement(s)
  PROVE  NetworkInvariant' /\ OwnEndings
<1>. USE DEF RequestSubnetRetirement
<1>0. NetworkTypeOK /\ s \in Resources /\ s \in Children /\ s \notin LogicalPorts /\ s \notin Networks
  BY ResourceKinds, NetworkAssumption DEF NetworkInvariant, Children
<1>. PICK parent : parent = logical[s].parent
  OBVIOUS
<1>. PICK dhcp : dhcp = realization[s].plan.dhcp
  OBVIOUS
<1>1. /\ parent \in Nat /\ dhcp \in BOOLEAN
      /\ logical' = [logical EXCEPT ![s] = Revised(s, "RETIRE_PENDING", parent)]
      /\ realization' = [realization EXCEPT ![s] = Operation(s, "RETIRE", parent, dhcp)]
      /\ UNCHANGED <<segment, address, mac, attached, northbound, hand>>
  BY <1>0, PlanOf DEF insertSubnetRealizationOperationTx, identityVars
<1>2. /\ logical' \in [Resources -> LogicalRow] /\ logical'[s].life = "RETIRE_PENDING"
      /\ \A y \in Resources : y # s => logical'[y] = logical[y]
  BY <1>0, <1>1, RevisedRow
<1>3. ParentsOutliveChildren'
  <2>1. \A n \in Networks : logical'[n] = logical[n]
    BY <1>0, <1>2, ResourceKinds
  <2>2. Alive(s) /\ logical[NetworkOf[s]].life = "ACTIVE"
    BY DEF Alive, Standing
  <2>3. \A x \in Children : Alive(x)' => Alive(x)
    BY <1>2, <2>2, ResourceKinds DEF Alive
  <2>4. \A p \in LogicalPorts : Alive(p)' /\ SubnetOf[p] # None => SubnetOf[p] # s
    BY <2>3 DEF Children
  <2>. QED  BY <1>2, <2>1, <2>3, <2>4, ResourceKinds DEF NetworkInvariant, ParentsOutliveChildren, Children
<1>. QED  BY <1>0, <1>1, <1>2, <1>3, IdentitiesStay, RequestStep

LEMMA PortWritten ==
  ASSUME NetworkInvariant, NEW p \in LogicalPorts,
         UpdatePortResource(p) \/ \E a \in Addresses, m \in MACs : CreatePortResource(p, m, a)
  PROVE  NetworkInvariant' /\ OwnEndings
<1>0. NetworkTypeOK /\ p \in Resources /\ p \in Children /\ p \notin Networks \cup Subnets
      /\ NetworkOf[p] \in Resources
  BY ResourceKinds, NetworkAssumption DEF NetworkInvariant, Children
<1>. PICK parent : parent = logical[NetworkOf[p]].rev
  OBVIOUS
<1>1. /\ parent \in Nat
      /\ logical' = [logical EXCEPT ![p] = Revised(p, "ACTIVE", parent)]
      /\ realization' = [realization EXCEPT ![p] = Operation(p, "REALIZE", parent, FALSE)]
      /\ UNCHANGED <<segment, attached, northbound, hand>>
  BY <1>0, PlanOf DEF CreatePortResource, UpdatePortResource, insertPortRealizationOperationTx, identityVars
<1>2. /\ logical' \in [Resources -> LogicalRow] /\ logical'[p].life = "ACTIVE"
      /\ \A y \in Resources : y # p => logical'[y] = logical[y]
  BY <1>0, <1>1, RevisedRow
<1>3. logical[NetworkOf[p]].life = "ACTIVE" /\ (SubnetOf[p] # None => logical[SubnetOf[p]].life = "ACTIVE")
  <2>1. CASE UpdatePortResource(p)
    BY <1>0, <2>1 DEF UpdatePortResource, Standing, NetworkInvariant, ParentsOutliveChildren, Alive
  <2>2. CASE \E a \in Addresses, m \in MACs : CreatePortResource(p, m, a)
    BY <2>2 DEF CreatePortResource, Standing
  <2>. QED  BY <2>1, <2>2
<1>4. ParentsOutliveChildren'
  BY <1>0, <1>2, <1>3, FamilyKept
<1>5. address' \in [LogicalPorts -> SUBSET Addresses] /\ mac' \in [LogicalPorts -> MACs \cup {None}]
  <2>1. CASE UpdatePortResource(p)
    BY <2>1, IdentitiesStay DEF UpdatePortResource, identityVars
  <2>2. ASSUME NEW a \in Addresses, NEW m \in MACs, CreatePortResource(p, m, a)
        PROVE  address' \in [LogicalPorts -> SUBSET Addresses] /\ mac' \in [LogicalPorts -> MACs \cup {None}]
    <3>1. mac' = [mac EXCEPT ![p] = m] /\ (address' = address \/ address' = [address EXCEPT ![p] = address[p] \cup {a}])
      BY <2>2 DEF CreatePortResource, allocatePortMACTx, allocatePortResourceIPTx
    <3>2. mac' \in [LogicalPorts -> MACs \cup {None}]
      BY <1>0, <3>1 DEF NetworkTypeOK
    <3>3. address[p] \cup {a} \in SUBSET Addresses
      BY <1>0 DEF NetworkTypeOK
    <3>4. address' \in [LogicalPorts -> SUBSET Addresses]
      BY <1>0, <3>1, <3>3 DEF NetworkTypeOK
    <3>. QED  BY <3>2, <3>4
  <2>. QED  BY <2>1, <2>2
<1>. QED  BY <1>0, <1>1, <1>2, <1>4, <1>5, IdentitiesStay, RequestStep

LEMMA PortRetirementRequested ==
  ASSUME NetworkInvariant, NEW p \in LogicalPorts, RetirePortResource(p)
  PROVE  NetworkInvariant' /\ OwnEndings
<1>. USE DEF RetirePortResource
<1>0. NetworkTypeOK /\ p \in Resources /\ p \in Children /\ p \notin Networks \cup Subnets
      /\ NetworkOf[p] \in Resources
  BY ResourceKinds, NetworkAssumption DEF NetworkInvariant, Children
<1>. PICK parent : parent = logical[NetworkOf[p]].rev
  OBVIOUS
<1>1. /\ parent \in Nat
      /\ logical' = [logical EXCEPT ![p] = Revised(p, "RETIRE_PENDING", parent)]
      /\ realization' = [realization EXCEPT ![p] = Operation(p, "RETIRE", parent, FALSE)]
      /\ UNCHANGED <<segment, address, mac, attached, northbound, hand>>
  BY <1>0, PlanOf DEF insertPortRealizationOperationTx, identityVars
<1>2. /\ logical' \in [Resources -> LogicalRow]
      /\ \A y \in Resources : y # p => logical'[y] = logical[y]
  BY <1>0, <1>1, RevisedRow
<1>3. ParentsOutliveChildren'
  <2>1. Alive(p)
    BY DEF Alive
  <2>2. \A x \in Networks \cup Subnets : logical'[x] = logical[x]
    BY <1>0, <1>2, ResourceKinds
  <2>3. \A x \in Children : Alive(x)' => Alive(x)
    BY <1>2, <2>1, ResourceKinds DEF Alive
  <2>. QED  BY <2>2, <2>3, ResourceKinds DEF NetworkInvariant, ParentsOutliveChildren, Children
<1>. QED  BY <1>0, <1>1, <1>2, <1>3, IdentitiesStay, RequestStep

LEMMA PortBound ==
  ASSUME NetworkInvariant, NEW p \in LogicalPorts, bindPortResourceTx(p)
  PROVE  NetworkInvariant' /\ OwnEndings
<1>. USE DEF bindPortResourceTx
<1>0. NetworkTypeOK /\ p \in Resources /\ p \notin Networks \cup Subnets /\ NetworkOf[p] \in Resources
  BY ResourceKinds, NetworkAssumption DEF NetworkInvariant, Children
<1>. PICK parent : parent = logical[NetworkOf[p]].rev
  OBVIOUS
<1>1. /\ parent \in Nat
      /\ realization' = [realization EXCEPT ![p] = Operation(p, "REALIZE", parent, FALSE)]
      /\ UNCHANGED <<logical, segment, address, mac, northbound, hand>>
  BY <1>0, PlanOf DEF insertPortRealizationOperationTx, identityVars
<1>2. attached' \in [LogicalPorts -> {"UNATTACHED", "REQUESTED", "BOUND"}]
  BY <1>0 DEF NetworkTypeOK
<1>3. logical' \in [Resources -> LogicalRow] /\ ParentsOutliveChildren'
  BY <1>0, <1>1 DEF NetworkInvariant, NetworkTypeOK, ParentsOutliveChildren, Alive
<1>. QED  BY <1>0, <1>1, <1>2, <1>3, IdentitiesStay, RequestStep

\* Steps that leave resources, operations and workers alone.
LEMMA IdentityStep ==
  ASSUME NetworkInvariant, NEW p \in LogicalPorts,
         RequestPortAttachment(p) \/ \E a \in Addresses : AllocateSubnetIP(p, a)
  PROVE  NetworkInvariant' /\ OwnEndings
<1>0. NetworkTypeOK
  BY DEF NetworkInvariant
<1>1. UNCHANGED <<logical, segment, mac, realization, northbound, hand>>
  BY DEF AllocateSubnetIP, RequestPortAttachment, identityVars
<1>2. /\ address' \in [LogicalPorts -> SUBSET Addresses]
      /\ attached' \in [LogicalPorts -> {"UNATTACHED", "REQUESTED", "BOUND"}]
  <2>1. CASE \E a \in Addresses : AllocateSubnetIP(p, a)
    <3>1. PICK a \in Addresses : AllocateSubnetIP(p, a)
      BY <2>1
    <3>2. address' = [address EXCEPT ![p] = address[p] \cup {a}] /\ attached' = attached
      BY <3>1 DEF AllocateSubnetIP
    <3>3. /\ address \in [LogicalPorts -> SUBSET Addresses]
          /\ attached \in [LogicalPorts -> {"UNATTACHED", "REQUESTED", "BOUND"}]
      BY <1>0 DEF NetworkTypeOK
    <3>. QED  BY <3>2, <3>3
  <2>2. CASE RequestPortAttachment(p)
    BY <1>0, <2>2 DEF RequestPortAttachment, NetworkTypeOK, identityVars
  <2>. QED  BY <2>1, <2>2
<1>3. NetworkTypeOK'
  BY <1>0, <1>1, <1>2 DEF NetworkTypeOK
<1>. QED  BY <1>1, <1>3 DEF NetworkInvariant, ParentsOutliveChildren, Alive, ActiveRealizes, HandInOrder, PortSeen, OwnEndings
-----------------------------------------------------------------------------
\* A row of the operations is replaced and keeps its plan.
LEMMA OperationMoved ==
  ASSUME NetworkTypeOK, NEW x \in Resources, NEW row \in OperationRow, row.plan = realization[x].plan,
         realization' = [realization EXCEPT ![x] = row]
  PROVE  /\ realization' \in [Resources -> OperationRow] /\ realization'[x] = row
         /\ \A y \in Resources : realization'[y].plan = realization[y].plan
         /\ \A y \in Resources : y # x => realization'[y] = realization[y]
  BY DEF NetworkTypeOK

\* What a step leaves in worker w's hand.
HandStep(w, row) ==
  /\ row \in HandRow /\ hand' = [hand EXCEPT ![w] = row]
  /\ row.x \in Resources => \/ row.x = hand[w].x /\ row.plan = hand[w].plan
                            \/ row.plan = realization[row.x].plan
  /\ row.x \in LogicalPorts => row.seen # "CONFLICTING"

\* A worker's step, whatever it changes beside the plans.
LEMMA TurnStep ==
  ASSUME NetworkInvariant, NEW w \in NetworkWorkers, NEW row, HandStep(w, row),
         realization' \in [Resources -> OperationRow],
         \A x \in Resources : realization'[x].plan = realization[x].plan,
         northbound' \in [Resources -> ObjectRow], logical' \in [Resources -> LogicalRow],
         segment' \in [Networks -> Segments \cup {None}], UNCHANGED attached,
         address' \in [LogicalPorts -> SUBSET Addresses], mac' \in [LogicalPorts -> MACs \cup {None}],
         \A x \in Networks \cup Subnets : logical'[x].life = "ACTIVE" => logical[x].life = "ACTIVE",
         ParentsOutliveChildren'
  PROVE  NetworkInvariant'
<1>1. hand' \in [NetworkWorkers -> HandRow]
  BY DEF NetworkInvariant, NetworkTypeOK, HandStep
<1>2. NetworkTypeOK'
  BY <1>1 DEF NetworkInvariant, NetworkTypeOK
<1>3. ActiveRealizes'
  BY ResourceKinds DEF NetworkInvariant, ActiveRealizes
<1>4. \A v \in NetworkWorkers : v # w => hand'[v] = hand[v]
  BY DEF HandStep, NetworkInvariant, NetworkTypeOK
<1>5. hand'[w] = row
  BY DEF HandStep, NetworkInvariant, NetworkTypeOK
<1>6. \A v \in NetworkWorkers : v # w => HandInOrder(v)'
  <2>. SUFFICES ASSUME NEW v \in NetworkWorkers, v # w PROVE HandInOrder(v)'
    OBVIOUS
  <2>1. hand'[v] = hand[v] /\ HandInOrder(v)
    BY <1>4 DEF NetworkInvariant
  <2>. QED  BY <2>1 DEF HandInOrder
<1>7. HandInOrder(w)'
  <2>. SUFFICES ASSUME row.x \in Resources
                PROVE  /\ row.plan.gen <= realization'[row.x].plan.gen
                       /\ row.plan.gen = realization'[row.x].plan.gen => row.plan = realization'[row.x].plan
    BY <1>5 DEF HandInOrder
  <2>0. realization'[row.x].plan = realization[row.x].plan
    OBVIOUS
  <2>1. CASE row.x = hand[w].x /\ row.plan = hand[w].plan
    BY <2>0, <2>1 DEF NetworkInvariant, HandInOrder
  <2>2. CASE row.plan = realization[row.x].plan
    <3>1. NetworkTypeOK
      BY DEF NetworkInvariant
    <3>2. realization[row.x].plan.gen <= realization[row.x].plan.gen
      BY <3>1, PlanOf, SMTT(30)
    <3>. QED  BY <2>0, <2>2, <3>2
  <2>. QED  BY <2>1, <2>2 DEF HandStep
<1>8. \A v \in NetworkWorkers : PortSeen(v)'
  BY <1>4, <1>5 DEF NetworkInvariant, PortSeen, HandStep
<1>. QED  BY <1>2, <1>3, <1>6, <1>7, <1>8 DEF NetworkInvariant

LEMMA LogicalStays ==
  ASSUME NetworkInvariant, UNCHANGED logical
  PROVE  /\ logical' \in [Resources -> LogicalRow] /\ ParentsOutliveChildren'
         /\ \A x \in Networks \cup Subnets : logical'[x].life = "ACTIVE" => logical[x].life = "ACTIVE"
  BY DEF NetworkInvariant, NetworkTypeOK, ParentsOutliveChildren, Alive

LEMMA QuietTurn ==
  ASSUME NetworkInvariant, NEW w \in NetworkWorkers, NEW row, HandStep(w, row),
         realization' \in [Resources -> OperationRow],
         \A x \in Resources : realization'[x].plan = realization[x].plan,
         \A x \in Resources : realization'[x].phase = "SUCCEEDED" => realization[x].phase = "SUCCEEDED",
         northbound' \in [Resources -> ObjectRow], UNCHANGED <<logical, identityVars, attached>>
  PROVE  NetworkInvariant' /\ OwnEndings
<1>1. UNCHANGED <<segment, address, mac, logical, attached>>
  BY DEF identityVars
<1>2. NetworkInvariant'
  BY <1>1, LogicalStays, IdentitiesStay, TurnStep
<1>3. OwnEndings
  BY DEF OwnEndings
<1>. QED  BY <1>2, <1>3

LEMMA HandOf ==
  ASSUME NetworkInvariant, NEW w \in NetworkWorkers
  PROVE  /\ hand[w] \in HandRow /\ hand[w].x \in Resources \cup {None} /\ hand[w].plan \in RealizationPlans
         /\ hand[w].plan.gen \in Nat /\ hand[w].plan.parent \in Nat
         /\ hand[w].seen \in {"NONE", "VERIFIED", "ABSENT", "UNKNOWN", "CONFLICTING"}
         /\ NetworkTypeOK
<1>1. hand[w] \in HandRow /\ NetworkTypeOK
  BY DEF NetworkInvariant, NetworkTypeOK
<1>2. hand[w].x \in Resources \cup {None} /\ hand[w].plan \in RealizationPlans
      /\ hand[w].seen \in {"NONE", "VERIFIED", "ABSENT", "UNKNOWN", "CONFLICTING"}
  BY <1>1 DEF HandRow
<1>3. hand[w].plan.gen \in Nat /\ hand[w].plan.parent \in Nat
  BY <1>2 DEF RealizationPlans
<1>. QED  BY <1>1, <1>2, <1>3

LEMMA Rested ==
  ASSUME NetworkInvariant, NEW w \in NetworkWorkers, Rest(w)
  PROVE  HandStep(w, Resting)
  BY NoRows, ResourceKinds DEF HandStep, Rest

LEMMA Turned ==
  ASSUME NetworkInvariant, NEW w \in NetworkWorkers, NEW at, Turn(w, at),
         at \in {"IDLE", "CLAIMED", "OBSERVE", "AUTHORIZE", "RECONCILE", "APPLY", "READ", "COMPLETE", "ERROR"}
  PROVE  \E row : HandStep(w, row)
<1>. PICK row : row = [hand[w] EXCEPT !.at = at]
  OBVIOUS
<1>1. hand[w] \in HandRow /\ PortSeen(w)
  BY HandOf DEF NetworkInvariant
<1>2. row \in HandRow /\ row.x = hand[w].x /\ row.plan = hand[w].plan /\ row.seen = hand[w].seen
  BY <1>1 DEF HandRow
<1>3. hand' = [hand EXCEPT ![w] = row]
  BY DEF Turn
<1>. QED  BY <1>1, <1>2, <1>3 DEF HandStep, PortSeen

LEMMA OperationsStay ==
  ASSUME NetworkInvariant, UNCHANGED realization
  PROVE  /\ realization' \in [Resources -> OperationRow]
         /\ \A x \in Resources : realization'[x].plan = realization[x].plan
         /\ \A x \in Resources : realization'[x].phase = "SUCCEEDED" => realization[x].phase = "SUCCEEDED"
  BY DEF NetworkInvariant, NetworkTypeOK

LEMMA ObjectsStay ==
  ASSUME NetworkInvariant, UNCHANGED northbound
  PROVE  northbound' \in [Resources -> ObjectRow]
  BY DEF NetworkInvariant, NetworkTypeOK

LEMMA NetworkClaimed ==
  ASSUME NetworkInvariant, NEW w \in NetworkWorkers, NEW x \in Resources, ClaimNetworkRealization(w, x)
  PROVE  NetworkInvariant' /\ OwnEndings
<1>. PICK o : o = realization[x]
  OBVIOUS
<1>. PICK mode : mode = IF o.phase = "PENDING" THEN "APPLY_ALLOWED" ELSE "READ_BACK_FIRST"
  OBVIOUS
<1>. PICK claim : claim = o.claim + 1
  OBVIOUS
<1>0. NetworkTypeOK /\ o \in OperationRow /\ o.plan \in RealizationPlans
  BY PlanOf DEF NetworkInvariant
<1>1. claim \in Nat
  BY <1>0, SMTT(30) DEF OperationRow
<1>2. mode \in {"NONE", "APPLY_ALLOWED", "READ_BACK_FIRST"}
  OBVIOUS
<1>. PICK op : op = [o EXCEPT !.phase = "CLAIMED", !.owner = w, !.claim = claim,
                              !.live = TRUE, !.mode = mode, !.readBack = FALSE, !.authorized = FALSE]
  OBVIOUS
<1>3. op \in OperationRow /\ op.plan = o.plan /\ op.phase = "CLAIMED"
  BY <1>0, <1>1, <1>2 DEF OperationRow
<1>. PICK row : row = [Resting EXCEPT !.at = "CLAIMED", !.x = x, !.plan = o.plan, !.claim = claim, !.mode = mode]
  OBVIOUS
<1>4. row \in HandRow /\ row.x = x /\ row.plan = o.plan /\ row.seen = Resting.seen
  BY <1>0, <1>1, <1>2, NoRows DEF HandRow
<1>5. Resting.seen = "NONE"
  BY SMTT(30) DEF Resting
<1>6. /\ realization' = [realization EXCEPT ![x] = op] /\ hand' = [hand EXCEPT ![w] = row]
      /\ UNCHANGED <<logical, identityVars, attached, northbound>>
  BY DEF ClaimNetworkRealization
<1>7. HandStep(w, row)
  BY <1>4, <1>5, <1>6 DEF HandStep
<1>8. /\ realization' \in [Resources -> OperationRow] /\ realization'[x] = op
      /\ \A y \in Resources : realization'[y].plan = realization[y].plan
      /\ \A y \in Resources : y # x => realization'[y] = realization[y]
  BY <1>0, <1>3, <1>6, OperationMoved
<1>9. \A y \in Resources : realization'[y].phase = "SUCCEEDED" => realization[y].phase = "SUCCEEDED"
  BY <1>3, <1>8
<1>. QED  BY <1>6, <1>7, <1>8, <1>9, ObjectsStay, QuietTurn

LEMMA ClaimLapsed ==
  ASSUME NetworkInvariant, NEW x \in Resources, NetworkClaimLapses(x)
  PROVE  NetworkInvariant' /\ OwnEndings
<1>. PICK op : op = [realization[x] EXCEPT !.live = FALSE]
  OBVIOUS
<1>0. NetworkTypeOK /\ realization[x] \in OperationRow
  BY PlanOf DEF NetworkInvariant
<1>1. op \in OperationRow /\ op.plan = realization[x].plan /\ op.phase = realization[x].phase
  BY <1>0 DEF OperationRow
<1>2. realization' = [realization EXCEPT ![x] = op] /\ UNCHANGED <<logical, segment, address, mac, attached, northbound, hand>>
  BY DEF NetworkClaimLapses, identityVars
<1>3. /\ realization' \in [Resources -> OperationRow] /\ realization'[x] = op
      /\ \A y \in Resources : realization'[y].plan = realization[y].plan
      /\ \A y \in Resources : y # x => realization'[y] = realization[y]
  BY <1>0, <1>1, <1>2, OperationMoved
<1>4. NetworkTypeOK'
  BY <1>0, <1>2, <1>3 DEF NetworkTypeOK
<1>5. ActiveRealizes' /\ ParentsOutliveChildren'
  BY <1>2, <1>3, ResourceKinds DEF NetworkInvariant, ActiveRealizes, ParentsOutliveChildren, Alive
<1>6. \A w \in NetworkWorkers : HandInOrder(w)' /\ PortSeen(w)'
  BY <1>2, <1>3 DEF NetworkInvariant, HandInOrder, PortSeen
<1>7. OwnEndings
  BY <1>1, <1>3 DEF OwnEndings
<1>. QED  BY <1>4, <1>5, <1>6, <1>7 DEF NetworkInvariant

LEMMA WorkerGuarded ==
  ASSUME NetworkInvariant, NEW w \in NetworkWorkers, hand[w].x \in Resources, Guarded(w)
  PROVE  NetworkInvariant' /\ OwnEndings
<1>. PICK x \in Resources : x = hand[w].x
  OBVIOUS
<1>. PICK o : o = realization[x]
  OBVIOUS
<1>0. NetworkTypeOK /\ o \in OperationRow
  BY PlanOf DEF NetworkInvariant
<1>1. /\ UNCHANGED <<logical, identityVars, attached, northbound>>
      /\ \E row : HandStep(w, row)
  BY Turned, Rested DEF Guarded, RecordNetworkRealizationReadBackStarted, AuthorizeNetworkRealizationApply,
     MarkNetworkRealizationDispatchUnknown
<1>2. PICK op : /\ op \in OperationRow /\ op.plan = o.plan
                /\ (op.phase = o.phase \/ op.phase = "DISPATCH_UNKNOWN")
                /\ realization' = [realization EXCEPT ![x] = op]
  <2>1. CASE RecordNetworkRealizationReadBackStarted(w)
    <3>. PICK op : op = [o EXCEPT !.readBack = TRUE]
      OBVIOUS
    <3>1. op \in OperationRow /\ op.plan = o.plan /\ op.phase = o.phase
      BY <1>0 DEF OperationRow
    <3>2. realization' = [realization EXCEPT ![x] = op]
      BY <2>1 DEF RecordNetworkRealizationReadBackStarted
    <3>. QED  BY <3>1, <3>2
  <2>2. CASE AuthorizeNetworkRealizationApply(w)
    <3>. PICK op : op = [o EXCEPT !.authorized = TRUE]
      OBVIOUS
    <3>1. op \in OperationRow /\ op.plan = o.plan /\ op.phase = o.phase
      BY <1>0 DEF OperationRow
    <3>2. realization' = [realization EXCEPT ![x] = op]
      BY <2>2 DEF AuthorizeNetworkRealizationApply
    <3>. QED  BY <3>1, <3>2
  <2>3. CASE MarkNetworkRealizationDispatchUnknown(w)
    <3>. PICK op : op = [o EXCEPT !.phase = "DISPATCH_UNKNOWN", !.owner = None, !.live = FALSE]
      OBVIOUS
    <3>1. op \in OperationRow /\ op.plan = o.plan /\ op.phase = "DISPATCH_UNKNOWN"
      BY <1>0 DEF OperationRow
    <3>2. realization' = [realization EXCEPT ![x] = op]
      BY <2>3 DEF MarkNetworkRealizationDispatchUnknown
    <3>. QED  BY <3>1, <3>2
  <2>. QED  BY <2>1, <2>2, <2>3 DEF Guarded
<1>3. /\ realization' \in [Resources -> OperationRow] /\ realization'[x] = op
      /\ \A y \in Resources : realization'[y].plan = realization[y].plan
      /\ \A y \in Resources : y # x => realization'[y] = realization[y]
  BY <1>0, <1>2, OperationMoved
<1>4. \A y \in Resources : realization'[y].phase = "SUCCEEDED" => realization[y].phase = "SUCCEEDED"
  BY <1>2, <1>3
<1>. QED  BY <1>1, <1>3, <1>4, ObjectsStay, QuietTurn

LEMMA StatesRead ==
  ASSUME NEW x, NEW p
  PROVE  /\ StateOf(x, p) \in {"VERIFIED", "ABSENT", "UNKNOWN", "CONFLICTING"}
         /\ x \in LogicalPorts => StateOf(x, p) # "CONFLICTING"
<1>1. NetworkState(x, p) \in {"VERIFIED", "ABSENT", "UNKNOWN", "CONFLICTING"}
  BY DEF NetworkState
<1>2. SubnetState(x, p) \in {"VERIFIED", "ABSENT", "UNKNOWN", "CONFLICTING"}
  BY DEF SubnetState
<1>3. PortState(x, p) \in {"VERIFIED", "ABSENT", "UNKNOWN"}
  BY DEF PortState
<1>4. x \in LogicalPorts => x \notin Networks /\ x \notin Subnets
  BY NetworkAssumption DEF Children
<1>. QED  BY <1>1, <1>2, <1>3, <1>4 DEF StateOf

\* A worker reads the state of its resource.
LEMMA HandSees ==
  ASSUME NetworkInvariant, NEW w \in NetworkWorkers, NEW at \in {"COMPLETE", "AUTHORIZE"}, NEW seen,
         seen = StateOf(hand[w].x, hand[w].plan),
         hand' = [hand EXCEPT ![w] = [hand[w] EXCEPT !.seen = seen, !.at = at]]
  PROVE  \E row : HandStep(w, row)
<1>. PICK row : row = [hand[w] EXCEPT !.seen = seen, !.at = at]
  OBVIOUS
<1>0. hand[w] \in HandRow
  BY HandOf
<1>1. seen \in {"NONE", "VERIFIED", "ABSENT", "UNKNOWN", "CONFLICTING"}
      /\ (hand[w].x \in LogicalPorts => seen # "CONFLICTING")
  BY StatesRead
<1>2. row \in HandRow /\ row.x = hand[w].x /\ row.plan = hand[w].plan /\ row.seen = seen
  BY <1>0, <1>1 DEF HandRow
<1>. QED  BY <1>1, <1>2 DEF HandStep

LEMMA ObjectWritten ==
  ASSUME NetworkInvariant, NEW w \in NetworkWorkers, hand[w].x \in Resources,
         NEW object, object = Applied(hand[w].x, hand[w].plan, hand[w].before), Write(hand[w].x, object)
  PROVE  northbound' \in [Resources -> ObjectRow]
<1>. PICK x \in Resources : x = hand[w].x
  OBVIOUS
<1>. PICK p : p = hand[w].plan
  OBVIOUS
<1>1. p.gen \in Nat /\ p.parent \in Nat /\ NetworkTypeOK
  BY HandOf
<1>2. northbound[x] \in ObjectRow
  BY <1>1 DEF NetworkTypeOK
<1>3. northbound[x].copies \in Nat /\ northbound[x].copies + 1 \in Nat
  BY <1>2, SMTT(30) DEF ObjectRow
<1>4. \A rev, copies \in Nat : Object(p, rev, copies) \in ObjectRow
  BY <1>1, SMTT(30) DEF Object, ObjectRow
<1>5. 0 \in Nat /\ 1 \in Nat
  BY SMTT(30)
<1>6. object \in ObjectRow
  <2>1. AppliedNetwork(x, p, hand[w].before) \in ObjectRow
    BY <1>1, <1>2, <1>4, <1>5, NoRows DEF AppliedNetwork
  <2>2. AppliedSubnet(x, p, hand[w].before) \in ObjectRow
    BY <1>2, <1>3, <1>4, <1>5, NoRows DEF AppliedSubnet
  <2>3. AppliedPort(x, p) \in ObjectRow
    BY <1>4, <1>5, NoRows DEF AppliedPort
  <2>. QED  BY <2>1, <2>2, <2>3 DEF Applied
<1>7. \A y \in Resources : northbound[y] \in ObjectRow
  BY <1>1 DEF NetworkTypeOK
<1>. QED  BY <1>6, <1>7, NoRows DEF Write

LEMMA WorkerReconciles ==
  ASSUME NetworkInvariant, NEW w \in NetworkWorkers, hand[w].x \in Resources, Reconcile(w)
  PROVE  NetworkInvariant' /\ OwnEndings
<1>. PICK h : h = hand[w]
  OBVIOUS
<1>0. h \in HandRow /\ PortSeen(w)
  BY HandOf DEF NetworkInvariant
<1>1. UNCHANGED <<logical, identityVars, attached, realization>>
  BY DEF Reconcile, ObserveNetwork, ReadBeforeApply, ReadAfterApply, NetworkAdapterFails, ApplyRealization
<1>2. ASSUME NEW row \in HandRow, row.x = h.x, row.plan = h.plan, row.seen = h.seen, hand' = [hand EXCEPT ![w] = row]
      PROVE  \E r : HandStep(w, r)
  BY <1>0, <1>2 DEF HandStep, PortSeen
<1>3. \E row : HandStep(w, row)
  <2>1. CASE ObserveNetwork(w)
    <3>1. CASE Turn(w, "ERROR")
      BY <3>1, Turned
    <3>2. CASE Decided(w, StateOf(hand[w].x, hand[w].plan))
      <4>. PICK seen : seen = StateOf(hand[w].x, hand[w].plan)
        OBVIOUS
      <4>. PICK at : at = IF seen \in {"VERIFIED", "ABSENT"} THEN "COMPLETE" ELSE "AUTHORIZE"
        OBVIOUS
      <4>1. hand' = [hand EXCEPT ![w] = [hand[w] EXCEPT !.seen = seen, !.at = at]]
        BY <3>2 DEF Decided
      <4>2. at \in {"COMPLETE", "AUTHORIZE"}
        OBVIOUS
      <4>. QED  BY <4>1, <4>2, HandSees
    <3>. QED  BY <2>1, <3>1, <3>2 DEF ObserveNetwork
  <2>2. CASE ReadBeforeApply(w)
    <3>. PICK found : found = Found(hand[w].x)
      OBVIOUS
    <3>1. [h EXCEPT !.at = "APPLY", !.before = found] \in HandRow
          /\ [h EXCEPT !.at = "APPLY", !.before = found].x = h.x
          /\ [h EXCEPT !.at = "APPLY", !.before = found].plan = h.plan
          /\ [h EXCEPT !.at = "APPLY", !.before = found].seen = h.seen
      <4>1. found \in BOOLEAN
        BY SMTT(30) DEF Found
      <4>. QED  BY <1>0, <4>1 DEF HandRow
    <3>2. CASE hand' = [hand EXCEPT ![w] = [h EXCEPT !.at = "APPLY", !.before = found]]
      BY <1>2, <3>1, <3>2
    <3>3. CASE hand' = [hand EXCEPT ![w] = [h EXCEPT !.at = "ERROR"]]
      BY <3>3, Turned DEF Turn
    <3>. QED  BY <2>2, <3>2, <3>3 DEF ReadBeforeApply
  <2>3. CASE ReadAfterApply(w)
    <3>. PICK seen : seen = StateOf(hand[w].x, hand[w].plan)
      OBVIOUS
    <3>1. CASE hand' = [hand EXCEPT ![w] = [h EXCEPT !.at = "ERROR"]]
      BY <3>1, Turned DEF Turn
    <3>2. CASE hand' = [hand EXCEPT ![w] = [h EXCEPT !.at = "COMPLETE", !.seen = seen]]
      <4>1. [h EXCEPT !.at = "COMPLETE", !.seen = seen] = [h EXCEPT !.seen = seen, !.at = "COMPLETE"]
        BY <1>0 DEF HandRow
      <4>. QED  BY <3>2, <4>1, HandSees
    <3>. QED  BY <2>3, <3>1, <3>2 DEF ReadAfterApply
  <2>4. CASE NetworkAdapterFails(w)
    BY <2>4, Turned DEF NetworkAdapterFails
  <2>5. ASSUME NEW reached \in BOOLEAN, NEW r \in {"RECEIVED", "LOST"}, ApplyRealization(w, reached, r)
        PROVE  \E row : HandStep(w, row)
    <3>. PICK row : row = [h EXCEPT !.at = "READ", !.response = r]
      OBVIOUS
    <3>1. row \in HandRow /\ row.x = h.x /\ row.plan = h.plan /\ row.seen = h.seen
      BY <1>0 DEF HandRow
    <3>2. hand' = [hand EXCEPT ![w] = row]
      BY <2>5 DEF ApplyRealization
    <3>. QED  BY <1>2, <3>1, <3>2
  <2>. QED  BY <2>1, <2>2, <2>3, <2>4, <2>5 DEF Reconcile
<1>4. northbound' \in [Resources -> ObjectRow]
  <2>1. CASE UNCHANGED northbound
    BY <2>1, ObjectsStay
  <2>2. CASE Write(hand[w].x, Applied(hand[w].x, hand[w].plan, hand[w].before))
    BY <2>2, ObjectWritten
  <2>. QED
    BY <2>1, <2>2 DEF Reconcile, ObserveNetwork, ReadBeforeApply, ReadAfterApply, NetworkAdapterFails, ApplyRealization
<1>. QED  BY <1>1, <1>3, <1>4, OperationsStay, QuietTurn

LEMMA WorkerStopped ==
  ASSUME NetworkInvariant, NEW w \in NetworkWorkers, NetworkWorkerStops(w)
  PROVE  NetworkInvariant' /\ OwnEndings
<1>1. UNCHANGED <<logical, identityVars, attached, realization, northbound>> /\ HandStep(w, Resting)
  BY Rested DEF NetworkWorkerStops
<1>. QED  BY <1>1, OperationsStay, ObjectsStay, QuietTurn

\* A worker that holds the claim holds the current plan.
LEMMA HoldsCurrentPlan ==
  ASSUME NetworkInvariant, NEW w \in NetworkWorkers, hand[w].x \in Resources, lockNetworkRealizationClaim(w)
  PROVE  hand[w].plan = realization[hand[w].x].plan
  BY DEF NetworkInvariant, HandInOrder, lockNetworkRealizationClaim

LEMMA OperationClosed ==
  ASSUME NEW row \in OperationRow,
         NEW phase \in {"DISPATCH_UNKNOWN", "SUCCEEDED", "FAILED"},
         NEW state \in {"NONE", "PENDING", "VERIFIED", "ABSENT", "UNKNOWN"}, NEW op,
         op = [row EXCEPT !.phase = phase, !.state = state, !.owner = None, !.live = FALSE]
  PROVE  op \in OperationRow /\ op.plan = row.plan
<1>1. op \in OperationRow
  BY DEF OperationRow
<1>2. op.plan = row.plan
  BY DEF OperationRow
<1>. QED  BY <1>1, <1>2

\* An operation ends, on the worker's own plan.
LEMMA OperationEnded ==
  ASSUME NetworkInvariant, NEW w \in NetworkWorkers, hand[w].x \in Resources, lockNetworkRealizationClaim(w),
         hand[w].at = "COMPLETE",
         NEW phase \in {"DISPATCH_UNKNOWN", "SUCCEEDED", "FAILED"},
         NEW state \in {"NONE", "PENDING", "VERIFIED", "ABSENT", "UNKNOWN"}, Ended(hand[w].x, phase, state)
  PROVE  /\ realization' \in [Resources -> OperationRow]
         /\ \A y \in Resources : realization'[y].plan = realization[y].plan
         /\ OwnEndings
<1>x. PICK x \in Resources : x = hand[w].x
  OBVIOUS
<1>. PICK op : op = [realization[x] EXCEPT !.phase = phase, !.state = state, !.owner = None, !.live = FALSE]
  OBVIOUS
<1>0. NetworkTypeOK /\ realization[x] \in OperationRow
  BY <1>x, PlanOf DEF NetworkInvariant
<1>1. op \in OperationRow /\ op.plan = realization[x].plan
  BY <1>0, OperationClosed
<1>2. realization' = [realization EXCEPT ![x] = op]
  BY <1>x DEF Ended
<1>3. /\ realization' \in [Resources -> OperationRow] /\ realization'[x] = op
      /\ \A y \in Resources : realization'[y].plan = realization[y].plan
      /\ \A y \in Resources : y # x => realization'[y] = realization[y]
  BY <1>0, <1>1, <1>2, <1>x, OperationMoved
<1>4. OwnEndings
  BY <1>x, <1>3, HoldsCurrentPlan DEF OwnEndings
<1>. QED  BY <1>3, <1>4

\* A resource that is being retired, or a port, goes away.
LEMMA ResourceGone ==
  ASSUME NetworkInvariant, NEW x \in Resources, x \in LogicalPorts \/ logical[x].life # "ACTIVE",
         logical' = [logical EXCEPT ![x].life = "DELETED"]
  PROVE  /\ logical' \in [Resources -> LogicalRow] /\ ParentsOutliveChildren'
         /\ \A y \in Networks \cup Subnets : logical'[y].life = "ACTIVE" => logical[y].life = "ACTIVE"
<1>0. logical \in [Resources -> LogicalRow] /\ logical[x] \in LogicalRow
  BY DEF NetworkInvariant, NetworkTypeOK
<1>. PICK row : row = [logical[x] EXCEPT !.life = "DELETED"]
  OBVIOUS
<1>1. row \in LogicalRow /\ row.life = "DELETED"
  BY <1>0 DEF LogicalRow
<1>2. /\ logical' \in [Resources -> LogicalRow] /\ logical'[x].life = "DELETED"
      /\ \A y \in Resources : y # x => logical'[y] = logical[y]
  BY <1>0, <1>1
<1>3. \A y \in Resources : /\ logical'[y].life = "ACTIVE" => logical[y].life = "ACTIVE"
                           /\ Alive(y)' => Alive(y)
  BY <1>2 DEF Alive
<1>4. \A y \in Networks \cup Subnets : logical[y].life = "ACTIVE" => logical'[y].life = "ACTIVE"
  <2>1. \A y \in Networks \cup Subnets : y \in Resources /\ y \notin LogicalPorts
    BY ResourceKinds, NetworkAssumption DEF Children
  <2>. QED  BY <1>2, <2>1
<1>5. ParentsOutliveChildren'
  BY <1>3, <1>4, ResourceKinds DEF NetworkInvariant, ParentsOutliveChildren, Children
<1>. QED  BY <1>2, <1>3, <1>5, ResourceKinds

\* What a worker has read of an operation that did not converge.
LEMMA OperationUnsettled ==
  ASSUME NetworkInvariant, NEW w \in NetworkWorkers, hand[w].x \in Resources, lockNetworkRealizationClaim(w),
         hand[w].at = "COMPLETE",
         IF Converged(w) THEN Ended(hand[w].x, "SUCCEEDED", hand[w].seen) ELSE Unsettled(w)
  PROVE  /\ realization' \in [Resources -> OperationRow]
         /\ \A y \in Resources : realization'[y].plan = realization[y].plan
         /\ OwnEndings
<1>1. CASE Converged(w)
  <2>1. hand[w].seen \in {"NONE", "PENDING", "VERIFIED", "ABSENT", "UNKNOWN"}
    BY <1>1 DEF Converged
  <2>. QED  BY <1>1, <2>1, OperationEnded
<1>2. CASE ~Converged(w)
  <2>. PICK phase : phase = IF hand[w].seen = "CONFLICTING" THEN "FAILED" ELSE "DISPATCH_UNKNOWN"
    OBVIOUS
  <2>. PICK state : state = realization[hand[w].x].state
    OBVIOUS
  <2>1. phase \in {"DISPATCH_UNKNOWN", "SUCCEEDED", "FAILED"}
    OBVIOUS
  <2>2. state \in {"NONE", "PENDING", "VERIFIED", "ABSENT", "UNKNOWN"}
    BY PlanOf DEF NetworkInvariant, OperationRow
  <2>3. Ended(hand[w].x, phase, state)
    BY <1>2 DEF Unsettled
  <2>. QED  BY <2>1, <2>2, <2>3, OperationEnded
<1>. QED  BY <1>1, <1>2

\* Resources of retirement plans are not to stay.
LEMMA RetirePlanOf ==
  ASSUME NetworkInvariant, NEW w \in NetworkWorkers, hand[w].x \in Networks \cup Subnets,
         lockNetworkRealizationClaim(w), hand[w].plan.kind = "RETIRE"
  PROVE  logical[hand[w].x].life # "ACTIVE"
<1>1. hand[w].plan = realization[hand[w].x].plan
  BY HoldsCurrentPlan, ResourceKinds
<1>. QED  BY <1>1 DEF NetworkInvariant, ActiveRealizes

LEMMA NetworkAccepted ==
  ASSUME NetworkInvariant, NEW w \in NetworkWorkers, hand[w].x \in Networks, AcceptNetworkRealizationObservation(w)
  PROVE  NetworkInvariant' /\ OwnEndings
<1>. USE DEF AcceptNetworkRealizationObservation
<1>. PICK n \in Networks : n = hand[w].x
  OBVIOUS
<1>0. n \in Resources /\ lockNetworkRealizationClaim(w) /\ UNCHANGED <<address, mac, attached, northbound>>
      /\ HandStep(w, Resting)
  BY ResourceKinds, Rested DEF EvidenceAccepted
<1>1. /\ realization' \in [Resources -> OperationRow]
      /\ \A y \in Resources : realization'[y].plan = realization[y].plan
      /\ OwnEndings
  BY <1>0, OperationUnsettled
<1>2. segment' \in [Networks -> Segments \cup {None}]
  BY DEF NetworkInvariant, NetworkTypeOK
<1>3. /\ logical' \in [Resources -> LogicalRow] /\ ParentsOutliveChildren'
      /\ \A y \in Networks \cup Subnets : logical'[y].life = "ACTIVE" => logical[y].life = "ACTIVE"
  <2>1. CASE UNCHANGED logical
    BY <2>1, LogicalStays
  <2>2. CASE hand[w].plan.kind = "RETIRE" /\ logical' = [logical EXCEPT ![n].life = "DELETED"]
    <3>1. logical[n].life # "ACTIVE"
      BY <1>0, <2>2, RetirePlanOf
    <3>. QED  BY <1>0, <2>2, <3>1, ResourceGone
  <2>. QED  BY <2>1, <2>2
<1>4. NetworkInvariant'
  BY <1>0, <1>1, <1>2, <1>3, IdentitiesStay, ObjectsStay, TurnStep
<1>. QED  BY <1>1, <1>4

LEMMA SubnetAccepted ==
  ASSUME NetworkInvariant, NEW w \in NetworkWorkers, hand[w].x \in Subnets, AcceptSubnetRealizationObservation(w)
  PROVE  NetworkInvariant' /\ OwnEndings
<1>. USE DEF AcceptSubnetRealizationObservation
<1>. PICK s \in Subnets : s = hand[w].x
  OBVIOUS
<1>0. s \in Resources /\ lockNetworkRealizationClaim(w) /\ UNCHANGED <<segment, address, mac, attached, northbound>>
      /\ HandStep(w, Resting)
  BY ResourceKinds, Rested DEF EvidenceAccepted, identityVars
<1>1. /\ realization' \in [Resources -> OperationRow]
      /\ \A y \in Resources : realization'[y].plan = realization[y].plan
      /\ OwnEndings
  BY <1>0, OperationUnsettled
<1>3. /\ logical' \in [Resources -> LogicalRow] /\ ParentsOutliveChildren'
      /\ \A y \in Networks \cup Subnets : logical'[y].life = "ACTIVE" => logical[y].life = "ACTIVE"
  <2>1. CASE UNCHANGED logical
    BY <2>1, LogicalStays
  <2>2. CASE hand[w].plan.kind = "RETIRE" /\ logical' = [logical EXCEPT ![s].life = "DELETED"]
    <3>1. logical[s].life # "ACTIVE"
      BY <1>0, <2>2, RetirePlanOf
    <3>. QED  BY <1>0, <2>2, <3>1, ResourceGone
  <2>. QED  BY <2>1, <2>2
<1>4. NetworkInvariant'
  BY <1>0, <1>1, <1>3, IdentitiesStay, ObjectsStay, TurnStep
<1>. QED  BY <1>1, <1>4

LEMMA PortAccepted ==
  ASSUME NetworkInvariant, NEW w \in NetworkWorkers, hand[w].x \in LogicalPorts, AcceptPortRealizationObservation(w)
  PROVE  NetworkInvariant' /\ OwnEndings
<1>. USE DEF AcceptPortRealizationObservation
<1>. PICK p \in LogicalPorts : p = hand[w].x
  OBVIOUS
<1>0. p \in Resources /\ lockNetworkRealizationClaim(w) /\ UNCHANGED <<segment, attached, northbound>>
      /\ HandStep(w, Resting) /\ NetworkTypeOK
  BY ResourceKinds, Rested DEF NetworkInvariant
<1>1. /\ realization' \in [Resources -> OperationRow]
      /\ \A y \in Resources : realization'[y].plan = realization[y].plan
      /\ OwnEndings
  <2>1. CASE hand[w].seen = "UNKNOWN"
    BY <1>0, <2>1, OperationEnded
  <2>2. CASE hand[w].seen # "UNKNOWN"
    <3>1. hand[w].seen \in {"NONE", "PENDING", "VERIFIED", "ABSENT", "UNKNOWN"}
      BY HandOf DEF NetworkInvariant, PortSeen
    <3>. QED  BY <1>0, <2>2, <3>1, OperationEnded
  <2>. QED  BY <2>1, <2>2
<1>2. address' \in [LogicalPorts -> SUBSET Addresses] /\ mac' \in [LogicalPorts -> MACs \cup {None}]
  <2>1. address \in [LogicalPorts -> SUBSET Addresses] /\ mac \in [LogicalPorts -> MACs \cup {None}]
    BY <1>0 DEF NetworkTypeOK
  <2>2. mac' = mac \/ mac' = [mac EXCEPT ![p] = None]
    BY DEF completePortRetirementTx
  <2>3. address' = address \/ \E a \in address[p] : address' = [address EXCEPT ![p] = address[p] \ {a}]
    BY DEF completePortRetirementTx
  <2>4. mac' \in [LogicalPorts -> MACs \cup {None}]
    BY <2>1, <2>2
  <2>5. address' \in [LogicalPorts -> SUBSET Addresses]
    BY <2>1, <2>3
  <2>. QED  BY <2>4, <2>5
<1>3. /\ logical' \in [Resources -> LogicalRow] /\ ParentsOutliveChildren'
      /\ \A y \in Networks \cup Subnets : logical'[y].life = "ACTIVE" => logical[y].life = "ACTIVE"
  <2>1. CASE UNCHANGED logical
    BY <2>1, LogicalStays
  <2>2. CASE logical' = [logical EXCEPT ![p].life = "DELETED"]
    BY <1>0, <2>2, ResourceGone
  <2>. QED  BY <2>1, <2>2 DEF completePortRetirementTx
<1>4. NetworkInvariant'
  BY <1>0, <1>1, <1>2, <1>3, IdentitiesStay, ObjectsStay, TurnStep
<1>. QED  BY <1>1, <1>4

-----------------------------------------------------------------------------
LEMMA NetworkRequested ==
  ASSUME NetworkInvariant, NetworkRequest
  PROVE  NetworkInvariant' /\ OwnEndings
<1>1. CASE \E n \in Networks : \/ \E seg \in Segments : CreateNetworkResource(n, seg)
                               \/ UpdateNetworkResource(n) \/ RequestNetworkRetirement(n)
  BY <1>1, NetworkCreated, NetworkUpdated, NetworkRetirementRequested
<1>2. CASE \E s \in Subnets : \/ \E dhcp \in BOOLEAN : CreateSubnetResource(s, dhcp) \/ UpdateSubnetResource(s, dhcp)
                              \/ RequestSubnetRetirement(s)
  BY <1>2, SubnetWritten, SubnetRetirementRequested
<1>3. ASSUME NEW p \in LogicalPorts,
             \/ \E a \in Addresses : AllocateSubnetIP(p, a) \/ \E m \in MACs : CreatePortResource(p, m, a)
             \/ UpdatePortResource(p) \/ RequestPortAttachment(p) \/ bindPortResourceTx(p) \/ RetirePortResource(p)
      PROVE  NetworkInvariant' /\ OwnEndings
  BY <1>3, PortWritten, PortRetirementRequested, PortBound, IdentityStep
<1>. QED  BY <1>1, <1>2, <1>3 DEF NetworkRequest

LEMMA WorkerTurned ==
  ASSUME NetworkInvariant, NEW w \in NetworkWorkers, NetworkTurn(w)
  PROVE  NetworkInvariant' /\ OwnEndings
<1>1. CASE \E x \in Resources : ClaimNetworkRealization(w, x)
  BY <1>1, NetworkClaimed
<1>2. CASE hand[w].x \in Resources /\ (Reconcile(w) \/ Guarded(w))
  BY <1>2, WorkerReconciles, WorkerGuarded
<1>3. CASE hand[w].x \in Networks /\ AcceptNetworkRealizationObservation(w)
  BY <1>3, NetworkAccepted
<1>4. CASE hand[w].x \in Subnets /\ AcceptSubnetRealizationObservation(w)
  BY <1>4, SubnetAccepted
<1>5. CASE hand[w].x \in LogicalPorts /\ AcceptPortRealizationObservation(w)
  BY <1>5, PortAccepted
<1>. QED
  BY <1>1, <1>2, <1>3, <1>4, <1>5, ResourceKinds
     DEF NetworkTurn, runNetworkOnce, runSubnetOnce, runPortResourceOnce, reconcileNetwork, reconcileSubnet,
         reconcilePortResource, ClaimSubnetRealization, ClaimPortRealization

LEMMA NetworkStep ==
  ASSUME NetworkInvariant, [NetworkNext]_networkVars
  PROVE  NetworkInvariant' /\ OwnEndings
<1>1. CASE NetworkNext
  BY <1>1, NetworkRequested, WorkerTurned, ClaimLapsed, WorkerStopped DEF NetworkNext, NetworkFault
<1>2. CASE UNCHANGED networkVars
  <2>1. UNCHANGED <<logical, segment, address, mac, attached, realization, northbound, hand>>
    BY <1>2 DEF networkVars, identityVars
  <2>2. NetworkTypeOK'
    BY <2>1 DEF NetworkInvariant, NetworkTypeOK
  <2>. QED  BY <2>1, <2>2 DEF NetworkInvariant, ParentsOutliveChildren, Alive, ActiveRealizes, HandInOrder,
                              PortSeen, OwnEndings
<1>. QED  BY <1>1, <1>2

LEMMA NetworkInvariantTheorem == NetworkSpec => []NetworkInvariant
<1>. QED  BY NetworkStarts, NetworkStep, PTL DEF NetworkSpec

(* Lifecycles, identities, operations and workers stay well formed.        *)
THEOREM NetworkTypeTheorem == NetworkSpec => []NetworkTypeOK
<1>1. NetworkInvariant => NetworkTypeOK
  BY DEF NetworkInvariant
<1>. QED  BY <1>1, NetworkInvariantTheorem, PTL

(* For any sets of networks, subnets, ports and workers, a network outlives *)
(* its subnets and ports, and a subnet the ports with its addresses, through *)
(* every interleaving of requests and worker turns                          *)
(* (RequestNetworkRetirement, AcceptNetworkRealizationObservation).         *)
THEOREM ParentsOutliveChildrenTheorem == NetworkSpec => []ParentsOutliveChildren
<1>1. NetworkInvariant => ParentsOutliveChildren
  BY DEF NetworkInvariant
<1>. QED  BY <1>1, NetworkInvariantTheorem, PTL

(* Any number of workers, however delayed: an operation succeeds only by a *)
(* worker whose plan is that operation's, though claim generations start   *)
(* from zero with each operation (lockNetworkRealizationClaim).            *)
THEOREM OwnPlanTheorem == NetworkSpec => EndsOnItsOwnPlan
<1>1. NetworkInvariant /\ [NetworkNext]_networkVars => [OwnEndings]_networkVars
  BY NetworkStep
<1>. QED  BY <1>1, NetworkInvariantTheorem, PTL DEF NetworkSpec, EndsOnItsOwnPlan, OwnEndings

-----------------------------------------------------------------------------
(***************************************************************************)
(* Releases and the workers bound to them                                  *)
(***************************************************************************)

\* A binding was decided at some authority generation; one that is in use and
\* was decided at the current one understands the schema that is written.
BindingUnderstands(w) ==
  /\ bound[w].at <= release.gen
  /\ bound[w].state \in {"ACTIVE", "DRAINING"} /\ bound[w].compat \in Compatible /\ bound[w].at = release.gen
       => release.schema \in Supports[bound[w].id]

\* What an open registration decided still holds: the authority row it read
\* cannot be written before it commits.
DecisionHolds(w) ==
  registering[w] # Unbound =>
    /\ registering[w].at = release.gen
    /\ registering[w].compat \in Compatible => release.schema \in Supports[registering[w].id]

\* The authority row names a release once there is one.
AuthorityNamed == release.gen > 0 => release.id \in Releases /\ release.schema \in Schemas

ReleaseInvariant ==
  /\ ReleaseTypeOK /\ AuthorityNamed
  /\ \A w \in Workers : BindingUnderstands(w) /\ DecisionHolds(w)

LEMMA ReleaseStarts == ReleaseInit => ReleaseInvariant
<1>. SUFFICES ASSUME ReleaseInit PROVE ReleaseInvariant
  OBVIOUS
<1>1. NoAuthority \in AuthorityRow /\ NoAuthority.gen = 0
  BY SMTT(30) DEF NoAuthority, AuthorityRow
<1>2. Unbound \in BindingRow /\ Unbound.compat \notin Compatible /\ Unbound.at <= 0
  BY SMTT(30) DEF Unbound, BindingRow, Compatible
<1>3. DOMAIN edge = {}
  BY SMTT(30) DEF ReleaseInit
<1>4. ReleaseTypeOK
  BY <1>1, <1>2, <1>3, SMTT(30) DEF ReleaseInit, ReleaseTypeOK
<1>5. release.gen = 0 /\ ~(release.gen > 0)
  BY <1>1, SMTT(30) DEF ReleaseInit
<1>6. \A w \in Workers : bound[w] = Unbound /\ registering[w] = Unbound
  BY DEF ReleaseInit
<1>. QED  BY <1>2, <1>4, <1>5, <1>6 DEF ReleaseInvariant, AuthorityNamed, BindingUnderstands, DecisionHolds

\* Steps that leave the authority row, the bindings and the open registrations.
LEMMA ReleaseFrame ==
  ASSUME ReleaseInvariant, ReleaseTypeOK', UNCHANGED <<release, bound, registering>>
  PROVE  ReleaseInvariant'
BY DEF ReleaseInvariant, AuthorityNamed, BindingUnderstands, DecisionHolds

LEMMA ReleaseManifest ==
  ASSUME ReleaseInvariant, NEW r \in Releases, NEW c \in {"VALIDATED", "CANDIDATE"}, PublishReleaseManifest(r, c)
  PROVE  ReleaseInvariant'
<1>1. ReleaseTypeOK'
  BY DEF PublishReleaseManifest, ReleaseInvariant, ReleaseTypeOK, openVars
<1>. QED  BY <1>1, ReleaseFrame DEF PublishReleaseManifest, openVars

LEMMA ReleaseEdge ==
  ASSUME ReleaseInvariant, NEW r \in Releases, NEW s \in Releases, NEW allowed \in SUBSET Schemas,
         PublishReleaseCompatibilityEdge(r, s, allowed)
  PROVE  ReleaseInvariant'
<1>1. DOMAIN edge' = DOMAIN edge \cup {<<r, s>>}
  BY DEF PublishReleaseCompatibilityEdge
<1>2. \A e \in DOMAIN edge' : edge'[e] \subseteq Schemas
  BY DEF PublishReleaseCompatibilityEdge, ReleaseInvariant, ReleaseTypeOK
<1>3. DOMAIN edge' \subseteq Releases \X Releases
  BY <1>1, SMTT(30) DEF ReleaseInvariant, ReleaseTypeOK
<1>4. ReleaseTypeOK'
  BY <1>2, <1>3 DEF PublishReleaseCompatibilityEdge, ReleaseInvariant, ReleaseTypeOK, openVars
<1>. QED  BY <1>4, ReleaseFrame DEF PublishReleaseCompatibilityEdge, openVars

LEMMA ReleasePromoted ==
  ASSUME ReleaseInvariant, NEW r \in Releases, NEW first \in BOOLEAN, SetReleaseAuthority(r, first)
  PROVE  ReleaseInvariant'
<1>1. promoting' \subseteq Releases \X BOOLEAN
  BY SMTT(30) DEF SetReleaseAuthority, ReleaseInvariant, ReleaseTypeOK
<1>2. ReleaseTypeOK'
  BY <1>1 DEF SetReleaseAuthority, ReleaseInvariant, ReleaseTypeOK
<1>. QED  BY <1>2, ReleaseFrame DEF SetReleaseAuthority

LEMMA RevocationMissed ==
  ASSUME ReleaseInvariant, NEW r \in Releases, RevocationMisses(r)
  PROVE  ReleaseInvariant'
<1>1. ReleaseTypeOK'
  BY DEF RevocationMisses, ReleaseInvariant, ReleaseTypeOK
<1>. QED  BY <1>1, ReleaseFrame DEF RevocationMisses

\* Bindings decided before a new authority generation say nothing of it.
LEMMA GenerationMoved ==
  ASSUME ReleaseInvariant, NEW w \in Workers, bound' = bound, release'.gen = release.gen + 1,
         AuthorityUnshared, registering' = registering
  PROVE  BindingUnderstands(w)' /\ DecisionHolds(w)'
<1>1. bound[w].at \in Nat /\ release.gen \in Nat
  BY SMTT(30) DEF ReleaseInvariant, ReleaseTypeOK, BindingRow, AuthorityRow
<1>2. bound[w].at <= release.gen
  BY DEF ReleaseInvariant, BindingUnderstands
<1>3. bound'[w].at <= release'.gen /\ bound'[w].at # release'.gen
  BY <1>1, <1>2, SMTT(30)
<1>4. registering'[w] = Unbound
  BY DEF AuthorityUnshared
<1>5. Unbound' = Unbound
  BY DEF Unbound
<1>. QED  BY <1>3, <1>4, <1>5 DEF BindingUnderstands, DecisionHolds

LEMMA ReleaseSet ==
  ASSUME ReleaseInvariant, NEW r \in Releases, NEW first \in BOOLEAN, NEW schema \in Schemas,
         NEW state \in {"ACTIVE", "ROLLING", "PAUSED"}, PromotionCommits(r, first, schema, state)
  PROVE  ReleaseInvariant'
<1>. PICK row : row = [release EXCEPT !.id = r, !.gen = release.gen + 1, !.schema = schema, !.state = state]
  OBVIOUS
<1>0. /\ release' = row /\ AuthorityUnshared /\ promoting' = promoting \ {<<r, first>>}
      /\ UNCHANGED <<manifest, edge, distrusted, bound, held, registering, revoking>>
  BY DEF PromotionCommits
<1>1. /\ release' \in AuthorityRow
      /\ release'.gen = release.gen + 1 /\ release'.id = r /\ release'.schema = schema
  <2>1. release \in AuthorityRow
    BY DEF ReleaseInvariant, ReleaseTypeOK
  <2>2. release.gen + 1 \in Nat
    BY <2>1, SMTT(30) DEF AuthorityRow
  <2>3. row \in AuthorityRow
    BY <2>1, <2>2 DEF AuthorityRow
  <2>4. row.gen = release.gen + 1 /\ row.id = r /\ row.schema = schema
    BY <2>1 DEF AuthorityRow
  <2>. QED  BY <1>0, <2>3, <2>4
<1>2. ReleaseTypeOK'
  <2>1. promoting' \subseteq Releases \X BOOLEAN
    BY <1>0 DEF ReleaseInvariant, ReleaseTypeOK
  <2>. QED  BY <1>0, <1>1, <2>1 DEF ReleaseInvariant, ReleaseTypeOK
<1>3. \A w \in Workers : BindingUnderstands(w)' /\ DecisionHolds(w)'
  BY <1>0, <1>1, GenerationMoved
<1>. QED  BY <1>1, <1>2, <1>3 DEF ReleaseInvariant, AuthorityNamed

\* The bindings in use are asked, and no registration is open.
LEMMA ReleaseSchema ==
  ASSUME ReleaseInvariant, NEW schema \in Schemas, switchOVNWorkSchema(schema)
  PROVE  ReleaseInvariant'
<1>. PICK row : row = [release EXCEPT !.schema = schema, !.schemaGen = release.schemaGen + 1]
  OBVIOUS
<1>0. /\ release' = row /\ AuthorityUnshared
      /\ UNCHANGED <<manifest, edge, distrusted, bound, held, registering, promoting, revoking>>
      /\ \A w \in Workers : bound[w].state \in {"ACTIVE", "DRAINING"} /\ bound[w].compat \in Compatible
                              => schema \in Supports[bound[w].id]
  BY DEF switchOVNWorkSchema, openVars
<1>1. /\ release' \in AuthorityRow
      /\ release'.gen = release.gen /\ release'.id = release.id /\ release'.schema = schema
  <2>1. release \in AuthorityRow
    BY DEF ReleaseInvariant, ReleaseTypeOK
  <2>2. release.schemaGen + 1 \in Nat
    BY <2>1, SMTT(30) DEF AuthorityRow
  <2>3. row \in AuthorityRow
    BY <2>1, <2>2 DEF AuthorityRow
  <2>4. row.gen = release.gen /\ row.id = release.id /\ row.schema = schema
    BY <2>1 DEF AuthorityRow
  <2>. QED  BY <1>0, <2>3, <2>4
<1>2. ReleaseTypeOK'
  BY <1>0, <1>1 DEF ReleaseInvariant, ReleaseTypeOK
<1>3. ASSUME NEW w \in Workers PROVE BindingUnderstands(w)' /\ DecisionHolds(w)'
  <2>1. bound[w].at <= release.gen
    BY DEF ReleaseInvariant, BindingUnderstands
  <2>2. BindingUnderstands(w)'
    BY <1>0, <1>1, <2>1 DEF BindingUnderstands
  <2>3. registering'[w] = Unbound
    BY <1>0 DEF AuthorityUnshared
  <2>. QED  BY <2>2, <2>3 DEF DecisionHolds, Unbound
<1>. QED  BY <1>1, <1>2, <1>3 DEF ReleaseInvariant, AuthorityNamed

\* A revocation fences bindings, and pauses the authority in a new generation
\* only when no registration is open.
LEMMA ReleaseRevoked ==
  ASSUME ReleaseInvariant, NEW r \in Releases, NEW s \in Releases \cup {NoRelease}, NEW missed \in BOOLEAN,
         RevokeReleaseTrust(r, s, missed)
  PROVE  ReleaseInvariant'
<1>. PICK pauses : pauses = (s = NoRelease /\ ~missed)
  OBVIOUS
<1>0. /\ distrusted' = distrusted \cup {<<r, s>>} /\ UNCHANGED <<manifest, edge, held, registering, promoting>>
      /\ fenceDistrustedReleaseBindings(r, s) /\ revoking' \subseteq revoking
      /\ pauses => AuthorityUnshared
      /\ release' = IF pauses THEN [release EXCEPT !.gen = release.gen + 1, !.state = "PAUSED"] ELSE release
  BY DEF RevokeReleaseTrust
<1>1. /\ release' \in AuthorityRow /\ release.gen \in Nat /\ release'.gen \in Nat
      /\ release'.id = release.id /\ release'.schema = release.schema
      /\ pauses => release'.gen = release.gen + 1
      /\ ~pauses => release' = release
  <2>. PICK row : row = [release EXCEPT !.gen = release.gen + 1, !.state = "PAUSED"]
    OBVIOUS
  <2>1. release \in AuthorityRow
    BY DEF ReleaseInvariant, ReleaseTypeOK
  <2>2. release.gen \in Nat /\ release.gen + 1 \in Nat
    BY <2>1, SMTT(30) DEF AuthorityRow
  <2>3. row \in AuthorityRow
    BY <2>1, <2>2 DEF AuthorityRow
  <2>4. row.gen = release.gen + 1 /\ row.id = release.id /\ row.schema = release.schema
    BY <2>1 DEF AuthorityRow
  <2>. QED  BY <1>0, <2>1, <2>2, <2>3, <2>4
<1>2. ASSUME NEW w \in Workers
      PROVE  /\ bound'[w] \in BindingRow
             /\ \/ bound'[w].compat \notin Compatible /\ bound'[w].at = release'.gen
                \/ bound'[w] = bound[w]
  <2>1. CASE w \in Fenced(r, s)
    <3>. PICK row : row = [bound[w] EXCEPT !.gen = bound[w].gen + 1, !.compat = "DISTRUSTED", !.state = "FENCED",
                                           !.to = release'.id, !.at = release'.gen]
      OBVIOUS
    <3>1. bound'[w] = row
      BY <1>0, <2>1 DEF fenceDistrustedReleaseBindings
    <3>2. bound[w] \in BindingRow /\ release'.id \in Releases \cup {NoRelease} /\ release'.gen \in Nat
      BY <1>1 DEF ReleaseInvariant, ReleaseTypeOK, AuthorityRow
    <3>3. bound[w].gen + 1 \in Nat
      BY <3>2, SMTT(30) DEF BindingRow
    <3>4. row \in BindingRow
      BY <3>2, <3>3 DEF BindingRow
    <3>5. row.compat = "DISTRUSTED" /\ row.at = release'.gen
      BY <3>2 DEF BindingRow
    <3>. QED  BY <3>1, <3>4, <3>5 DEF Compatible
  <2>2. CASE w \notin Fenced(r, s)
    BY <1>0, <2>2 DEF fenceDistrustedReleaseBindings, ReleaseInvariant, ReleaseTypeOK
  <2>. QED  BY <2>1, <2>2
<1>3. ReleaseTypeOK'
  <2>1. bound' \in [Workers -> BindingRow]
    BY <1>0, <1>2 DEF fenceDistrustedReleaseBindings
  <2>2. distrusted' \subseteq Releases \X (Releases \cup {NoRelease})
    BY <1>0, SMTT(30) DEF ReleaseInvariant, ReleaseTypeOK
  <2>3. revoking' \subseteq Releases
    BY <1>0 DEF ReleaseInvariant, ReleaseTypeOK
  <2>. QED  BY <1>0, <1>1, <2>1, <2>2, <2>3 DEF ReleaseInvariant, ReleaseTypeOK
<1>4. ASSUME NEW w \in Workers PROVE BindingUnderstands(w)'
  <2>1. bound[w].at \in Nat /\ bound[w].at <= release.gen
    <3>1. bound[w].at \in Nat
      BY SMTT(30) DEF ReleaseInvariant, ReleaseTypeOK, BindingRow
    <3>. QED  BY <3>1 DEF ReleaseInvariant, BindingUnderstands
  <2>2. CASE bound'[w].compat \notin Compatible /\ bound'[w].at = release'.gen
    <3>1. bound'[w].at <= release'.gen
      BY <1>1, <2>2, SMTT(30)
    <3>. QED  BY <2>2, <3>1 DEF BindingUnderstands
  <2>3. CASE bound'[w] = bound[w] /\ pauses
    <3>1. bound'[w].at <= release'.gen /\ bound'[w].at # release'.gen
      BY <1>1, <2>1, <2>3, SMTT(30)
    <3>. QED  BY <3>1 DEF BindingUnderstands
  <2>4. CASE bound'[w] = bound[w] /\ ~pauses
    BY <1>1, <2>4 DEF ReleaseInvariant, BindingUnderstands
  <2>. QED  BY <1>2, <2>2, <2>3, <2>4
<1>5. ASSUME NEW w \in Workers PROVE DecisionHolds(w)'
  <2>1. CASE pauses
    <3>1. registering'[w] = Unbound
      BY <1>0, <2>1 DEF AuthorityUnshared
    <3>. QED  BY <3>1 DEF DecisionHolds, Unbound
  <2>2. CASE ~pauses
    BY <1>0, <1>1, <2>2 DEF ReleaseInvariant, DecisionHolds
  <2>. QED  BY <2>1, <2>2
<1>6. AuthorityNamed'
  <2>1. CASE pauses
    <3>1. release.gen > 0
      BY DEF RevokeReleaseTrust
    <3>. QED  BY <1>1, <3>1 DEF ReleaseInvariant, AuthorityNamed
  <2>2. CASE ~pauses
    BY <1>1, <2>2 DEF ReleaseInvariant, AuthorityNamed
  <2>. QED  BY <2>1, <2>2
<1>. QED  BY <1>3, <1>4, <1>5, <1>6 DEF ReleaseInvariant

LEMMA CompatibilityDecided ==
  ASSUME NEW r \in Releases
  PROVE  /\ CompatibilityOf(r) \in {"INCOMPATIBLE"} \cup Compatible
         /\ CompatibilityOf(r) \in Compatible => release.schema \in Supports[r]
<1>1. "INCOMPATIBLE" \notin Compatible
  BY DEF Compatible
<1>. QED  BY <1>1 DEF CompatibilityOf, Compatible

\* A registration is decided against the schema there is.
LEMMA ReleaseDecided ==
  ASSUME ReleaseInvariant, NEW w \in Workers, NEW r \in Releases, NEW m \in BOOLEAN,
         RegisterOVNWorkerRelease(w, r, m)
  PROVE  ReleaseInvariant'
<1>. PICK decision : decision = IF m THEN CompatibilityOf(r) ELSE "INCOMPATIBLE"
  OBVIOUS
<1>. PICK state : state = IF decision \in Compatible THEN "ACTIVE" ELSE "FENCED"
  OBVIOUS
<1>a. PICK row : row = [gen |-> 0, id |-> r, compat |-> decision, to |-> release.id, at |-> release.gen,
                        state |-> state]
  OBVIOUS
<1>1. /\ registering' = [registering EXCEPT ![w] = row]
      /\ UNCHANGED <<manifest, edge, distrusted, release, bound, held, promoting, revoking>>
  BY <1>a DEF RegisterOVNWorkerRelease
<1>2. /\ decision \in {"INCOMPATIBLE"} \cup Compatible /\ state \in {"ACTIVE", "FENCED"}
      /\ decision \in Compatible => release.schema \in Supports[r]
  BY CompatibilityDecided DEF Compatible
<1>3. release.id \in Releases \cup {NoRelease} /\ release.gen \in Nat
  BY DEF ReleaseInvariant, ReleaseTypeOK, AuthorityRow
<1>4. row \in BindingRow
  <2>1. decision \in {"NONE", "INCOMPATIBLE", "DISTRUSTED"} \cup Compatible
        /\ state \in {"NONE", "ACTIVE", "DRAINING", "STOPPED", "FENCED"}
    BY <1>2
  <2>. QED  BY <1>3, <1>a, <2>1, SMTT(30) DEF BindingRow
<1>5. row.id = r /\ row.compat = decision /\ row.at = release.gen
  BY <1>a
<1>6. /\ registering' \in [Workers -> BindingRow] /\ registering'[w] = row
      /\ \A v \in Workers : v # w => registering'[v] = registering[v]
  BY <1>1, <1>4 DEF ReleaseInvariant, ReleaseTypeOK
<1>7. ReleaseTypeOK' /\ AuthorityNamed'
  BY <1>1, <1>6 DEF ReleaseInvariant, ReleaseTypeOK, AuthorityNamed
<1>8. ASSUME NEW v \in Workers PROVE BindingUnderstands(v)'
  BY <1>1 DEF ReleaseInvariant, BindingUnderstands
<1>9. ASSUME NEW v \in Workers PROVE DecisionHolds(v)'
  <2>1. CASE v = w
    BY <1>1, <1>2, <1>5, <1>6, <2>1 DEF DecisionHolds
  <2>2. CASE v # w
    BY <1>1, <1>6, <2>2 DEF ReleaseInvariant, DecisionHolds
  <2>. QED  BY <2>1, <2>2
<1>. QED  BY <1>7, <1>8, <1>9 DEF ReleaseInvariant

LEMMA Regenerated ==
  ASSUME NEW row \in BindingRow, NEW gen \in Nat
  PROVE  \E next \in BindingRow :
           /\ next = [row EXCEPT !.gen = gen]
           /\ next.id = row.id /\ next.compat = row.compat /\ next.at = row.at
<1>. PICK next : next = [row EXCEPT !.gen = gen]
  OBVIOUS
<1>1. next \in BindingRow
  BY DEF BindingRow
<1>2. next.id = row.id /\ next.compat = row.compat /\ next.at = row.at
  BY DEF BindingRow
<1>. QED  BY <1>1, <1>2

\* The binding is the decision, which still holds.
LEMMA ReleaseRegistered ==
  ASSUME ReleaseInvariant, NEW w \in Workers, RegistrationCommits(w)
  PROVE  ReleaseInvariant'
<1>0. registering[w] \in BindingRow /\ bound[w] \in BindingRow /\ bound[w].gen \in Nat /\ Unbound \in BindingRow
  <2>1. registering[w] \in BindingRow /\ bound[w] \in BindingRow
    BY DEF ReleaseInvariant, ReleaseTypeOK
  <2>2. Unbound \in BindingRow
    BY SMTT(30) DEF Unbound, BindingRow
  <2>. QED  BY <2>1, <2>2 DEF BindingRow
<1>a. PICK row \in BindingRow :
        /\ row = [registering[w] EXCEPT !.gen = bound[w].gen]
        /\ row.id = registering[w].id /\ row.compat = registering[w].compat /\ row.at = registering[w].at
  BY <1>0, Regenerated
<1>b. PICK gen : gen = IF row = bound[w] THEN bound[w].gen ELSE bound[w].gen + 1
  OBVIOUS
<1>1. /\ registering[w] # Unbound
      /\ bound' = [bound EXCEPT ![w] = [row EXCEPT !.gen = gen]]
      /\ held' = [held EXCEPT ![w] = IF row.compat \in Compatible THEN gen ELSE 0]
      /\ registering' = [registering EXCEPT ![w] = Unbound]
      /\ UNCHANGED <<manifest, edge, distrusted, release, promoting, revoking>>
  BY <1>a, <1>b DEF RegistrationCommits
<1>2. gen \in Nat
  <2>1. bound[w].gen + 1 \in Nat
    BY <1>0, SMTT(30)
  <2>. QED  BY <1>0, <1>b, <2>1
<1>3. PICK next \in BindingRow :
        /\ next = [row EXCEPT !.gen = gen]
        /\ next.id = row.id /\ next.compat = row.compat /\ next.at = row.at
  BY <1>2, Regenerated
<1>4. /\ bound' \in [Workers -> BindingRow] /\ bound'[w] = next
      /\ \A v \in Workers : v # w => bound'[v] = bound[v]
  BY <1>1, <1>3 DEF ReleaseInvariant, ReleaseTypeOK
<1>5. /\ registering' \in [Workers -> BindingRow] /\ registering'[w] = Unbound
      /\ \A v \in Workers : v # w => registering'[v] = registering[v]
  BY <1>0, <1>1 DEF ReleaseInvariant, ReleaseTypeOK
<1>6. ReleaseTypeOK' /\ AuthorityNamed'
  <2>1. (IF row.compat \in Compatible THEN gen ELSE 0) \in Nat
    BY <1>2
  <2>2. held' \in [Workers -> Nat]
    BY <1>1, <2>1 DEF ReleaseInvariant, ReleaseTypeOK
  <2>. QED  BY <1>1, <1>4, <1>5, <2>2 DEF ReleaseInvariant, ReleaseTypeOK, AuthorityNamed
<1>7. ASSUME NEW v \in Workers PROVE BindingUnderstands(v)'
  <2>1. CASE v = w
    <3>1. /\ registering[w].at = release.gen
          /\ registering[w].compat \in Compatible => release.schema \in Supports[registering[w].id]
      BY <1>1 DEF ReleaseInvariant, DecisionHolds
    <3>2. /\ bound'[v].at = release'.gen /\ release'.schema = release.schema
          /\ bound'[v].compat \in Compatible => release.schema \in Supports[bound'[v].id]
      BY <1>1, <1>3, <1>4, <1>a, <2>1, <3>1
    <3>3. release'.gen \in Nat
      BY <1>6 DEF ReleaseTypeOK, AuthorityRow
    <3>4. bound'[v].at <= release'.gen
      BY <3>2, <3>3, SMTT(30)
    <3>. QED  BY <3>2, <3>4 DEF BindingUnderstands
  <2>2. CASE v # w
    BY <1>1, <1>4, <2>2 DEF ReleaseInvariant, BindingUnderstands
  <2>. QED  BY <2>1, <2>2
<1>8. ASSUME NEW v \in Workers PROVE DecisionHolds(v)'
  <2>1. CASE v = w
    BY <1>5, <2>1 DEF DecisionHolds, Unbound
  <2>2. CASE v # w
    BY <1>1, <1>5, <2>2 DEF ReleaseInvariant, DecisionHolds, Unbound
  <2>. QED  BY <2>1, <2>2
<1>. QED  BY <1>6, <1>7, <1>8 DEF ReleaseInvariant

LEMMA ReleaseLifecycle ==
  ASSUME ReleaseInvariant, NEW w \in Workers, NEW state \in {"DRAINING", "STOPPED"},
         SetComponentReleaseLifecycle(w, state)
  PROVE  ReleaseInvariant'
<1>0. /\ bound[w].state \in {"ACTIVE", "DRAINING"}
      /\ bound' = [bound EXCEPT ![w].state = state]
      /\ held' = IF state = "STOPPED" THEN [held EXCEPT ![w] = 0] ELSE held
      /\ UNCHANGED <<manifest, edge, distrusted, release, registering, promoting, revoking>>
  BY DEF SetComponentReleaseLifecycle, openVars
<1>1. bound[w] \in BindingRow
  BY DEF ReleaseInvariant, ReleaseTypeOK
<1>. PICK row : row = [bound[w] EXCEPT !.state = state]
  OBVIOUS
<1>2. /\ row \in BindingRow /\ row.compat = bound[w].compat /\ row.at = bound[w].at /\ row.id = bound[w].id
  BY <1>1, SMTT(30) DEF BindingRow
<1>3. /\ bound' \in [Workers -> BindingRow] /\ bound'[w] = row
      /\ \A v \in Workers : v # w => bound'[v] = bound[v]
  BY <1>0, <1>2 DEF ReleaseInvariant, ReleaseTypeOK
<1>4. held' \in [Workers -> Nat]
  BY <1>0, SMTT(30) DEF ReleaseInvariant, ReleaseTypeOK
<1>5. ReleaseTypeOK' /\ AuthorityNamed'
  BY <1>0, <1>3, <1>4 DEF ReleaseInvariant, ReleaseTypeOK, AuthorityNamed
<1>6. ASSUME NEW v \in Workers PROVE BindingUnderstands(v)' /\ DecisionHolds(v)'
  <2>1. BindingUnderstands(v) /\ DecisionHolds(v)
    BY DEF ReleaseInvariant
  <2>2. CASE v = w
    BY <1>0, <1>2, <1>3, <2>1, <2>2 DEF BindingUnderstands, DecisionHolds, Unbound
  <2>3. CASE v # w
    BY <1>0, <1>3, <2>1, <2>3 DEF BindingUnderstands, DecisionHolds, Unbound
  <2>. QED  BY <2>2, <2>3
<1>. QED  BY <1>5, <1>6 DEF ReleaseInvariant

LEMMA ReleaseExit ==
  ASSUME ReleaseInvariant, NEW w \in Workers, WorkerExits(w)
  PROVE  ReleaseInvariant'
<1>1. held' \in [Workers -> Nat]
  BY SMTT(30) DEF WorkerExits, ReleaseInvariant, ReleaseTypeOK
<1>2. ReleaseTypeOK'
  BY <1>1 DEF WorkerExits, ReleaseInvariant, ReleaseTypeOK, openVars
<1>. QED  BY <1>2, ReleaseFrame DEF WorkerExits, openVars

LEMMA ReleaseStays ==
  ASSUME ReleaseInvariant, UNCHANGED releaseVars
  PROVE  ReleaseInvariant'
<1>1. ReleaseTypeOK'
  BY DEF releaseVars, openVars, ReleaseInvariant, ReleaseTypeOK
<1>. QED  BY <1>1, ReleaseFrame DEF releaseVars, openVars
-----------------------------------------------------------------------------
(***************************************************************************)
(* Ports, their work and the retirement of their bindings                  *)
(***************************************************************************)

\* The retirement of an incarnation has one work item; once verified, the item
\* is closed.
UnbindRecorded(p) ==
  \A i \in DOMAIN work[p] : work[p][i].kind = "UNBIND" =>
    /\ work[p][i].inc \in DOMAIN retirement[p]
    /\ retirement[p][work[p][i].inc].intent = i
    /\ retirement[p][work[p][i].inc].state = "VERIFIED" => work[p][i].state \notin Open

\* Retirements are of incarnations the port has had; those it left are verified.
HistoryVerified(p) ==
  \A n \in DOMAIN retirement[p] :
    /\ n \in Nat /\ n <= port[p].inc
    /\ n < port[p].inc => retirement[p][n].state = "VERIFIED"

\* What a worker may have seen of an item of each kind.
SeenOf(kind) == IF kind = "UNBIND" THEN {"VERIFIED", "CONFLICTING", "UNKNOWN"}
                ELSE {"REALIZED", "APPLIED", "CONFLICTING", "UNKNOWN"}

\* A busy worker has an item of a port in hand.
HandsOnWork(w) ==
  proc[w].step # "IDLE" =>
    /\ proc[w].port \in OVNPorts /\ proc[w].intent \in DOMAIN work[proc[w].port]
    /\ proc[w].step = "COMPLETE" => proc[w].seen \in SeenOf(work[proc[w].port][proc[w].intent].kind)

PortsInvariant ==
  /\ OVNTypeOK
  /\ \A p \in OVNPorts : UnbindRecorded(p) /\ HistoryVerified(p)
  /\ \A w \in Workers : HandsOnWork(w)

\* What RetiredHistoryIsFixed says of a step.
HistoryFixed ==
  \A p \in OVNPorts : \A n \in DOMAIN retirement[p] : n < port[p].inc => retirement'[p][n] = retirement[p][n]

\* Items are added, and keep their kind and incarnation.
WorkGrows ==
  \A p \in OVNPorts :
    /\ DOMAIN work[p] \subseteq DOMAIN work'[p]
    /\ \A i \in DOMAIN work[p] : work'[p][i].kind = work[p][i].kind /\ work'[p][i].inc = work[p][i].inc

LEMMA WorkDomain ==
  ASSUME OVNTypeOK, NEW p \in OVNPorts
  PROVE  /\ work[p] \in Seq(WorkRow) /\ Len(work[p]) \in Nat /\ DOMAIN work[p] = 1..Len(work[p])
         /\ \A i \in DOMAIN work[p] : i \in Nat /\ work[p][i] \in WorkRow
<1>1. work[p] \in Seq(WorkRow)
  BY DEF OVNTypeOK
<1>. QED  BY <1>1, SMTT(30)

LEMMA HandsKept ==
  ASSUME \A w \in Workers : HandsOnWork(w), WorkGrows, UNCHANGED proc
  PROVE  (\A w \in Workers : HandsOnWork(w))'
  BY DEF HandsOnWork, WorkGrows

\* One item is replaced by a row of the same kind and incarnation.
LEMMA ItemReplaced ==
  ASSUME OVNTypeOK, NEW p \in OVNPorts, NEW i \in DOMAIN work[p], NEW row \in WorkRow,
         row.kind = work[p][i].kind, row.inc = work[p][i].inc,
         work' = [work EXCEPT ![p][i] = row]
  PROVE  /\ work' \in [OVNPorts -> Seq(WorkRow)]
         /\ WorkGrows
         /\ \A q \in OVNPorts : DOMAIN work'[q] = DOMAIN work[q]
         /\ work'[p][i] = row
         /\ \A q \in OVNPorts : \A j \in DOMAIN work[q] : ~(q = p /\ j = i) => work'[q][j] = work[q][j]
<1>. PICK items : items = [work[p] EXCEPT ![i] = row]
  OBVIOUS
<1>0. DOMAIN work = OVNPorts
  BY DEF OVNTypeOK
<1>1. work' = [work EXCEPT ![p] = items]
  OBVIOUS
<1>2. work[p] \in Seq(WorkRow) /\ DOMAIN work[p] = 1..Len(work[p]) /\ i \in 1..Len(work[p])
  BY WorkDomain
<1>3. items \in Seq(WorkRow)
  BY <1>2, SMTT(30)
<1>4. DOMAIN items = DOMAIN work[p] /\ items[i] = row
      /\ \A j \in DOMAIN work[p] : j # i => items[j] = work[p][j]
  OBVIOUS
<1>5. work'[p] = items /\ \A q \in OVNPorts : q # p => work'[q] = work[q]
  BY <1>0, <1>1
<1>6. work' \in [OVNPorts -> Seq(WorkRow)]
  BY <1>1, <1>3 DEF OVNTypeOK
<1>7. \A q \in OVNPorts : DOMAIN work'[q] = DOMAIN work[q]
  BY <1>4, <1>5
<1>8. \A q \in OVNPorts : \A j \in DOMAIN work[q] : ~(q = p /\ j = i) => work'[q][j] = work[q][j]
  BY <1>4, <1>5
<1>9. WorkGrows
  <2>. SUFFICES ASSUME NEW q \in OVNPorts
                PROVE  /\ DOMAIN work[q] \subseteq DOMAIN work'[q]
                       /\ \A j \in DOMAIN work[q] : work'[q][j].kind = work[q][j].kind /\ work'[q][j].inc = work[q][j].inc
    BY DEF WorkGrows
  <2>1. ASSUME NEW j \in DOMAIN work[q] PROVE work'[q][j].kind = work[q][j].kind /\ work'[q][j].inc = work[q][j].inc
    <3>1. CASE q = p /\ j = i
      BY <1>4, <1>5, <3>1
    <3>2. CASE ~(q = p /\ j = i)
      BY <1>8, <3>2
    <3>. QED  BY <3>1, <3>2
  <2>. QED  BY <1>7, <2>1
<1>. QED  BY <1>4, <1>5, <1>6, <1>7, <1>8, <1>9

\* A step on one item that does not open it leaves the history alone.
LEMMA ItemStep ==
  ASSUME PortsInvariant, NEW p \in OVNPorts, NEW i \in DOMAIN work[p], NEW row \in WorkRow,
         row.kind = work[p][i].kind, row.inc = work[p][i].inc,
         row.state \in Open => work[p][i].state \in Open,
         work' = [work EXCEPT ![p][i] = row], UNCHANGED <<port, retirement>>
  PROVE  /\ work' \in [OVNPorts -> Seq(WorkRow)]
         /\ WorkGrows
         /\ (\A q \in OVNPorts : UnbindRecorded(q) /\ HistoryVerified(q))'
<1>1. OVNTypeOK
  BY DEF PortsInvariant
<1>2. /\ work' \in [OVNPorts -> Seq(WorkRow)]
      /\ WorkGrows
      /\ \A q \in OVNPorts : DOMAIN work'[q] = DOMAIN work[q]
      /\ work'[p][i] = row
      /\ \A q \in OVNPorts : \A j \in DOMAIN work[q] : ~(q = p /\ j = i) => work'[q][j] = work[q][j]
  BY <1>1, ItemReplaced
<1>3. ASSUME NEW q \in OVNPorts PROVE UnbindRecorded(q)'
  <2>. SUFFICES ASSUME NEW j \in DOMAIN work[q], work'[q][j].kind = "UNBIND"
                PROVE  /\ work'[q][j].inc \in DOMAIN retirement[q]
                       /\ retirement[q][work'[q][j].inc].intent = j
                       /\ retirement[q][work'[q][j].inc].state = "VERIFIED" => work'[q][j].state \notin Open
    BY <1>2 DEF UnbindRecorded
  <2>1. work[q][j].kind = "UNBIND" /\ work'[q][j].inc = work[q][j].inc
        /\ (work'[q][j].state \in Open => work[q][j].state \in Open)
    BY <1>2
  <2>2. UnbindRecorded(q)
    BY DEF PortsInvariant
  <2>3. /\ work[q][j].inc \in DOMAIN retirement[q]
        /\ retirement[q][work[q][j].inc].intent = j
        /\ retirement[q][work[q][j].inc].state = "VERIFIED" => work[q][j].state \notin Open
    BY <2>1, <2>2 DEF UnbindRecorded
  <2>. QED  BY <2>1, <2>3
<1>4. ASSUME NEW q \in OVNPorts PROVE HistoryVerified(q)'
  BY DEF PortsInvariant, HistoryVerified
<1>. QED  BY <1>2, <1>3, <1>4

\* A step that ends an open item of a retirement writes the retirement of the
\* current incarnation.
LEMMA RetirementStep ==
  ASSUME PortsInvariant, NEW p \in OVNPorts, NEW i \in DOMAIN work[p], NEW row \in WorkRow,
         row.kind = work[p][i].kind, row.inc = work[p][i].inc,
         work[p][i].kind = "UNBIND", work[p][i].state \in Open,
         NEW state \in {"DISPATCH_UNKNOWN", "VERIFIED", "CONFLICTING"},
         state = "VERIFIED" => row.state \notin Open,
         work' = [work EXCEPT ![p][i] = row],
         retirement' = [retirement EXCEPT ![p][work[p][i].inc].state = state], UNCHANGED port
  PROVE  /\ work' \in [OVNPorts -> Seq(WorkRow)]
         /\ WorkGrows /\ HistoryFixed
         /\ DOMAIN retirement' = OVNPorts
         /\ \A q \in OVNPorts : \A n \in DOMAIN retirement'[q] : retirement'[q][n] \in RetirementRow
         /\ (\A q \in OVNPorts : UnbindRecorded(q) /\ HistoryVerified(q))'
<1>1. OVNTypeOK
  BY DEF PortsInvariant
<1>2. /\ work' \in [OVNPorts -> Seq(WorkRow)]
      /\ WorkGrows
      /\ \A q \in OVNPorts : DOMAIN work'[q] = DOMAIN work[q]
      /\ work'[p][i] = row
      /\ \A q \in OVNPorts : \A j \in DOMAIN work[q] : ~(q = p /\ j = i) => work'[q][j] = work[q][j]
  BY <1>1, ItemReplaced
<1>. PICK n : n = work[p][i].inc
  OBVIOUS
<1>3. /\ n \in DOMAIN retirement[p] /\ retirement[p][n].intent = i /\ retirement[p][n].state # "VERIFIED"
  BY DEF PortsInvariant, UnbindRecorded
<1>4. n = port[p].inc
  <2>1. n \in Nat /\ n <= port[p].inc /\ ~(n < port[p].inc)
    BY <1>3 DEF PortsInvariant, HistoryVerified
  <2>2. port[p].inc \in Nat
    BY <1>1, SMTT(30) DEF OVNTypeOK, PortRow
  <2>. QED  BY <2>1, <2>2, SMTT(30)
<1>. PICK ended : ended = [retirement[p][n] EXCEPT !.state = state]
  OBVIOUS
<1>5. ended \in RetirementRow /\ ended.state = state /\ ended.intent = i
  <2>1. retirement[p][n] \in RetirementRow
    BY <1>1, <1>3 DEF OVNTypeOK
  <2>2. ended \in RetirementRow
    BY <2>1 DEF RetirementRow
  <2>3. ended.state = state /\ ended.intent = retirement[p][n].intent
    BY <2>1 DEF RetirementRow
  <2>. QED  BY <1>3, <2>2, <2>3
<1>. PICK table : table = [retirement[p] EXCEPT ![n] = ended]
  OBVIOUS
<1>6. /\ retirement' = [retirement EXCEPT ![p] = table]
      /\ DOMAIN table = DOMAIN retirement[p] /\ table[n] = ended
      /\ \A m \in DOMAIN retirement[p] : m # n => table[m] = retirement[p][m]
  BY <1>3
<1>7. /\ DOMAIN retirement' = OVNPorts
      /\ \A q \in OVNPorts : DOMAIN retirement'[q] = DOMAIN retirement[q]
      /\ retirement'[p][n] = ended
      /\ \A q \in OVNPorts : \A m \in DOMAIN retirement[q] : ~(q = p /\ m = n) => retirement'[q][m] = retirement[q][m]
  <2>1. DOMAIN retirement = OVNPorts
    BY <1>1 DEF OVNTypeOK
  <2>2. DOMAIN retirement' = OVNPorts /\ retirement'[p] = table /\ \A q \in OVNPorts : q # p => retirement'[q] = retirement[q]
    BY <1>6, <2>1
  <2>. QED  BY <1>6, <2>2
<1>8. \A q \in OVNPorts : \A m \in DOMAIN retirement'[q] : retirement'[q][m] \in RetirementRow
  BY <1>1, <1>5, <1>7 DEF OVNTypeOK
<1>9. ASSUME NEW q \in OVNPorts PROVE UnbindRecorded(q)'
  <2>. SUFFICES ASSUME NEW j \in DOMAIN work[q], work'[q][j].kind = "UNBIND"
                PROVE  /\ work'[q][j].inc \in DOMAIN retirement[q]
                       /\ retirement'[q][work'[q][j].inc].intent = j
                       /\ retirement'[q][work'[q][j].inc].state = "VERIFIED" => work'[q][j].state \notin Open
    BY <1>2, <1>7 DEF UnbindRecorded
  <2>1. CASE q = p /\ j = i
    BY <1>2, <1>3, <1>5, <1>7, <2>1
  <2>2. CASE ~(q = p /\ j = i)
    <3>1. work'[q][j] = work[q][j]
      BY <1>2, <2>2
    <3>2. /\ work[q][j].inc \in DOMAIN retirement[q]
          /\ retirement[q][work[q][j].inc].intent = j
          /\ retirement[q][work[q][j].inc].state = "VERIFIED" => work[q][j].state \notin Open
      BY <3>1 DEF PortsInvariant, UnbindRecorded
    <3>3. ~(q = p /\ work[q][j].inc = n)
      BY <1>3, <2>2, <3>2
    <3>. QED  BY <1>7, <3>1, <3>2, <3>3
  <2>. QED  BY <2>1, <2>2
<1>10. ASSUME NEW q \in OVNPorts PROVE HistoryVerified(q)'
  <2>. SUFFICES ASSUME NEW m \in DOMAIN retirement[q]
                PROVE  /\ m \in Nat /\ m <= port[q].inc
                       /\ m < port[q].inc => retirement'[q][m].state = "VERIFIED"
    BY <1>7 DEF HistoryVerified
  <2>1. m \in Nat /\ m <= port[q].inc /\ (m < port[q].inc => retirement[q][m].state = "VERIFIED")
    BY DEF PortsInvariant, HistoryVerified
  <2>2. m < port[q].inc => ~(q = p /\ m = n)
    BY <1>4, <2>1, SMTT(30)
  <2>. QED  BY <1>7, <2>1, <2>2
<1>11. HistoryFixed
  <2>. SUFFICES ASSUME NEW q \in OVNPorts, NEW m \in DOMAIN retirement[q], m < port[q].inc
                PROVE  retirement'[q][m] = retirement[q][m]
    BY DEF HistoryFixed
  <2>1. m \in Nat
    BY DEF PortsInvariant, HistoryVerified
  <2>2. ~(q = p /\ m = n)
    BY <1>4, <2>1, SMTT(30)
  <2>. QED  BY <1>7, <2>2
<1>. QED  BY <1>2, <1>7, <1>8, <1>9, <1>10, <1>11

LEMMA OVNStarts == OVNInit => PortsInvariant
<1>. SUFFICES ASSUME OVNInit PROVE PortsInvariant
  OBVIOUS
<1>1. <<>> \in Seq(WorkRow) /\ DOMAIN <<>> = {}
  BY SMTT(30)
<1>2. Idle \in ProcRow /\ Idle.step = "IDLE"
  BY SMTT(30) DEF Idle, ProcRow
<1>3. port \in [OVNPorts -> PortRow] /\ \A p \in OVNPorts : port[p].host \in Chassis
  BY SMTT(30) DEF OVNInit, PortRow
<1>4. [intent |-> 0, inc |-> 0, nb |-> "PENDING", sb |-> "PENDING", seen |-> 0] \in OVNRow
  BY SMTT(30) DEF OVNRow
<1>5. nb \in [OVNPorts -> NBRow]
  BY SMTT(30) DEF OVNInit, NBRow, Marks
<1>6. sb \in [OVNPorts -> Chassis \cup {NoChassis}] /\ plugged \in [OVNPorts -> Chassis \cup {NoChassis}]
  BY <1>3 DEF OVNInit
<1>7. OVNTypeOK
  BY <1>1, <1>2, <1>3, <1>4, <1>5, <1>6 DEF OVNInit, OVNTypeOK
<1>. QED  BY <1>1, <1>2, <1>7 DEF OVNInit, PortsInvariant, UnbindRecorded, HistoryVerified, HandsOnWork

\* The row of a new item.
LEMMA NewItem ==
  ASSUME ReleaseInvariant, OVNTypeOK, NEW p \in OVNPorts, NEW kind \in {"RECONCILE", "UNBIND"}, NEW object \in Nat
  PROVE  /\ NewWork(p, kind, object) \in WorkRow
         /\ NewWork(p, kind, object).kind = kind /\ NewWork(p, kind, object).inc = port[p].inc
<1>. PICK written : written = WorkSchema
  OBVIOUS
<1>1. written \in Schemas
  BY ReleaseAssumption DEF ReleaseInvariant, AuthorityNamed, WorkSchema
<1>2. port[p].inc \in Nat /\ port[p].host \in Chassis
  BY SMTT(30) DEF OVNTypeOK, PortRow
<1>3. NewWork(p, kind, object) =
        [kind |-> kind, inc |-> port[p].inc, host |-> port[p].host, object |-> object, schema |-> written,
         state |-> "PENDING", owner |-> "NONE", gen |-> 0, live |-> FALSE, mode |-> "NONE", readBack |-> FALSE]
  BY DEF NewWork
<1>. HIDE DEF NewWork
<1>. QED  BY <1>1, <1>2, <1>3, SMTT(30) DEF WorkRow, Open

LEMMA Closed ==
  ASSUME NEW item \in WorkRow, NEW state \in Open \cup {"OBSERVED", "CONFLICTING", "SUPERSEDED"}
  PROVE  /\ Unclaimed(item, state) \in WorkRow
         /\ Unclaimed(item, state).kind = item.kind /\ Unclaimed(item, state).inc = item.inc
         /\ Unclaimed(item, state).state = state
  BY DEF Unclaimed, WorkRow

\* An item is appended to items that keep kind and incarnation.
LEMMA ItemAppended ==
  ASSUME OVNTypeOK, NEW p \in OVNPorts, NEW items \in Seq(WorkRow), Len(items) = Len(work[p]),
         \A i \in DOMAIN work[p] : items[i].kind = work[p][i].kind /\ items[i].inc = work[p][i].inc,
         NEW row \in WorkRow, work' = [work EXCEPT ![p] = Append(items, row)]
  PROVE  /\ work' \in [OVNPorts -> Seq(WorkRow)]
         /\ WorkGrows
         /\ Len(work[p]) + 1 \notin DOMAIN work[p]
         /\ DOMAIN work'[p] = DOMAIN work[p] \cup {Len(work[p]) + 1}
         /\ \A i \in DOMAIN work[p] : work'[p][i] = items[i]
         /\ work'[p][Len(work[p]) + 1] = row
         /\ \A q \in OVNPorts : q # p => work'[q] = work[q]
<1>1. Len(work[p]) \in Nat /\ DOMAIN work[p] = 1..Len(work[p])
  BY WorkDomain
<1>. PICK longer : longer = Append(items, row)
  OBVIOUS
<1>2. /\ longer \in Seq(WorkRow) /\ Len(longer) = Len(work[p]) + 1
      /\ \A i \in 1..Len(work[p]) : longer[i] = items[i]
      /\ longer[Len(work[p]) + 1] = row
  BY <1>1, SMTT(30)
<1>3. DOMAIN longer = 1..(Len(work[p]) + 1)
  BY <1>2, SMTT(30)
<1>4. work'[p] = longer /\ \A q \in OVNPorts : q # p => work'[q] = work[q]
  BY DEF OVNTypeOK
<1>5. work' \in [OVNPorts -> Seq(WorkRow)]
  BY <1>2 DEF OVNTypeOK
<1>6. /\ Len(work[p]) + 1 \notin DOMAIN work[p]
      /\ DOMAIN longer = DOMAIN work[p] \cup {Len(work[p]) + 1}
  BY <1>1, <1>3, SMTT(30)
<1>7. \A i \in DOMAIN work[p] : longer[i] = items[i]
  BY <1>1, <1>2
<1>8. WorkGrows
  <2>. SUFFICES ASSUME NEW q \in OVNPorts
                PROVE  /\ DOMAIN work[q] \subseteq DOMAIN work'[q]
                       /\ \A i \in DOMAIN work[q] : work'[q][i].kind = work[q][i].kind /\ work'[q][i].inc = work[q][i].inc
    BY DEF WorkGrows
  <2>0. /\ DOMAIN work[p] \subseteq DOMAIN work'[p]
        /\ \A i \in DOMAIN work[p] : work'[p][i].kind = work[p][i].kind /\ work'[p][i].inc = work[p][i].inc
    BY <1>4, <1>6, <1>7
  <2>1. CASE q = p
    BY <2>0, <2>1
  <2>2. CASE q # p
    BY <1>4, <2>2
  <2>. QED  BY <2>1, <2>2
<1>. QED  BY <1>2, <1>4, <1>5, <1>6, <1>7, <1>8

\* The rest of the type invariant when only work and retirement change.
LEMMA PortsFrame ==
  ASSUME PortsInvariant, UNCHANGED <<port, ovn, proc, nb, sb, plugged>>, WorkGrows,
         work' \in [OVNPorts -> Seq(WorkRow)], DOMAIN retirement' = OVNPorts,
         \A p \in OVNPorts : \A n \in DOMAIN retirement'[p] : retirement'[p][n] \in RetirementRow,
         (\A p \in OVNPorts : UnbindRecorded(p) /\ HistoryVerified(p))'
  PROVE  PortsInvariant'
<1>1. OVNTypeOK'
  BY DEF PortsInvariant, OVNTypeOK
<1>2. (\A w \in Workers : HandsOnWork(w))'
  BY HandsKept DEF PortsInvariant
<1>. QED  BY <1>1, <1>2 DEF PortsInvariant

LEMMA OVNRetirementRequested ==
  ASSUME ReleaseInvariant, PortsInvariant, NEW p \in OVNPorts, CommitOVNPortBindingRetirement(p)
  PROVE  PortsInvariant' /\ HistoryFixed
<1>0. OVNTypeOK
  BY DEF PortsInvariant
<1>r. PICK row : row = NewWork(p, "UNBIND", ovn[p].intent)
  OBVIOUS
<1>1. row \in WorkRow /\ row.kind = "UNBIND" /\ row.inc = port[p].inc
  <2>1. ovn[p].intent \in Nat
    BY <1>0, SMTT(30) DEF OVNTypeOK, OVNRow
  <2>. QED  BY <1>0, <1>r, <2>1, NewItem
<1>2. work[p] \in Seq(WorkRow) /\ Len(work[p]) \in Nat
  BY <1>0, WorkDomain
<1>. PICK i : i = Len(work[p]) + 1
  OBVIOUS
<1>a. work' = [work EXCEPT ![p] = Append(work[p], row)]
  BY <1>r DEF CommitOVNPortBindingRetirement
<1>3. /\ work' \in [OVNPorts -> Seq(WorkRow)]
      /\ WorkGrows
      /\ DOMAIN work'[p] = DOMAIN work[p] \cup {i}
      /\ \A j \in DOMAIN work[p] : work'[p][j] = work[p][j]
      /\ work'[p][i] = row
      /\ \A q \in OVNPorts : q # p => work'[q] = work[q]
  BY <1>0, <1>1, <1>2, <1>a, ItemAppended
<1>. PICK added : added = [state |-> "PENDING", intent |-> i, host |-> port[p].host]
  OBVIOUS
<1>4. added \in RetirementRow /\ added.state = "PENDING" /\ added.intent = i
  <2>1. port[p].host \in Chassis /\ i \in Nat
    BY <1>0, <1>2, SMTT(30) DEF OVNTypeOK, PortRow
  <2>. QED  BY <2>1, SMTT(30) DEF RetirementRow
<1>5. port[p].inc \notin DOMAIN retirement[p] /\ port[p].inc \in Nat
  <2>1. ~Retired(p)
    BY DEF CommitOVNPortBindingRetirement
  <2>. QED  BY <1>0, <2>1, SMTT(30) DEF Retired, OVNTypeOK, PortRow
<1>6. /\ DOMAIN retirement' = OVNPorts
      /\ DOMAIN retirement'[p] = DOMAIN retirement[p] \cup {port[p].inc}
      /\ retirement'[p][port[p].inc] = added
      /\ \A n \in DOMAIN retirement[p] : retirement'[p][n] = retirement[p][n]
      /\ \A q \in OVNPorts : q # p => retirement'[q] = retirement[q]
  <2>. PICK table : table = Recorded(retirement[p], port[p].inc, added)
    OBVIOUS
  <2>1. retirement' = [retirement EXCEPT ![p] = table]
    BY DEF CommitOVNPortBindingRetirement
  <2>2. /\ DOMAIN table = DOMAIN retirement[p] \cup {port[p].inc} /\ table[port[p].inc] = added
        /\ \A n \in DOMAIN retirement[p] : table[n] = retirement[p][n]
    BY <1>5 DEF Recorded
  <2>3. DOMAIN retirement = OVNPorts
    BY <1>0 DEF OVNTypeOK
  <2>. QED  BY <2>1, <2>2, <2>3
<1>b. UNCHANGED <<port, ovn, proc, nb, sb, plugged>>
  BY DEF CommitOVNPortBindingRetirement, backendVars
<1>7. \A q \in OVNPorts : \A n \in DOMAIN retirement'[q] : retirement'[q][n] \in RetirementRow
  BY <1>0, <1>4, <1>6 DEF OVNTypeOK
<1>8. ASSUME NEW q \in OVNPorts PROVE UnbindRecorded(q)'
  <2>0. UnbindRecorded(q)
    BY DEF PortsInvariant
  <2>1. CASE q # p
    <3>1. work'[q] = work[q] /\ retirement'[q] = retirement[q]
      BY <1>3, <1>6, <2>1
    <3>. QED  BY <2>0, <3>1 DEF UnbindRecorded
  <2>2. CASE q = p
    <3>. SUFFICES ASSUME NEW j \in DOMAIN work'[p], work'[p][j].kind = "UNBIND"
                  PROVE  /\ work'[p][j].inc \in DOMAIN retirement'[p]
                         /\ retirement'[p][work'[p][j].inc].intent = j
                         /\ retirement'[p][work'[p][j].inc].state = "VERIFIED" => work'[p][j].state \notin Open
      BY <2>2 DEF UnbindRecorded
    <3>1. CASE j \in DOMAIN work[p]
      <4>1. /\ work[p][j].inc \in DOMAIN retirement[p]
            /\ retirement[p][work[p][j].inc].intent = j
            /\ retirement[p][work[p][j].inc].state = "VERIFIED" => work[p][j].state \notin Open
        <5>1. work[p][j].kind = "UNBIND" /\ UnbindRecorded(p)
          BY <1>3, <2>0, <2>2, <3>1
        <5>. QED  BY <3>1, <5>1 DEF UnbindRecorded
      <4>2. work'[p][j] = work[p][j] /\ DOMAIN retirement[p] \subseteq DOMAIN retirement'[p]
        BY <1>3, <1>6, <3>1
      <4>3. retirement'[p][work[p][j].inc] = retirement[p][work[p][j].inc]
        BY <1>6, <4>1
      <4>. QED  BY <4>1, <4>2, <4>3
    <3>2. CASE j = i
      <4>1. work'[p][j].inc = port[p].inc /\ port[p].inc \in DOMAIN retirement'[p]
        BY <1>1, <1>3, <1>6, <3>2
      <4>2. retirement'[p][port[p].inc].intent = i /\ retirement'[p][port[p].inc].state # "VERIFIED"
        BY <1>4, <1>6
      <4>. QED  BY <3>2, <4>1, <4>2
    <3>. QED  BY <1>3, <3>1, <3>2
  <2>. QED  BY <2>1, <2>2
<1>9. ASSUME NEW q \in OVNPorts PROVE HistoryVerified(q)'
  <2>0. HistoryVerified(q)
    BY DEF PortsInvariant
  <2>1. CASE q # p
    <3>1. retirement'[q] = retirement[q] /\ port' = port
      BY <1>6, <1>b, <2>1
    <3>. QED  BY <2>0, <3>1 DEF HistoryVerified
  <2>2. CASE q = p
    <3>1. port[p].inc <= port[p].inc /\ ~(port[p].inc < port[p].inc)
      BY <1>5, SMTT(30)
    <3>. SUFFICES ASSUME NEW n \in DOMAIN retirement'[p]
                  PROVE  /\ n \in Nat /\ n <= port[p].inc
                         /\ n < port[p].inc => retirement'[p][n].state = "VERIFIED"
      BY <1>b, <2>2 DEF HistoryVerified
    <3>2. CASE n = port[p].inc
      BY <1>5, <3>1, <3>2
    <3>3. CASE n \in DOMAIN retirement[p]
      <4>1. n \in Nat /\ n <= port[p].inc /\ (n < port[p].inc => retirement[p][n].state = "VERIFIED")
        BY <2>0, <2>2, <3>3 DEF HistoryVerified
      <4>2. retirement'[p][n] = retirement[p][n]
        BY <1>6, <3>3
      <4>. QED  BY <4>1, <4>2
    <3>. QED  BY <1>6, <3>2, <3>3
  <2>. QED  BY <2>1, <2>2
<1>10. HistoryFixed
  BY <1>6 DEF HistoryFixed
<1>11. PortsInvariant'
  <2>1. UNCHANGED <<port, ovn, proc, nb, sb, plugged>>
    BY <1>b
  <2>. QED  BY <1>3, <1>6, <1>7, <1>8, <1>9, <2>1, PortsFrame
<1>. QED  BY <1>10, <1>11

\* What an intent does to the retirement of the port's incarnation.
LEMMA MadeStale ==
  ASSUME OVNTypeOK, NEW p \in OVNPorts,
         retirement' = IF Retired(p) /\ retirement[p][port[p].inc].state = "VERIFIED"
                       THEN [retirement EXCEPT ![p][port[p].inc].state = "STALE"] ELSE retirement
  PROVE  /\ DOMAIN retirement' = OVNPorts
         /\ \A q \in OVNPorts : DOMAIN retirement'[q] = DOMAIN retirement[q]
         /\ \A q \in OVNPorts : \A n \in DOMAIN retirement[q] :
              /\ retirement'[q][n] \in RetirementRow /\ retirement'[q][n].intent = retirement[q][n].intent
              /\ n # port[q].inc \/ q # p => retirement'[q][n] = retirement[q][n]
<1>. PICK n : n = port[p].inc
  OBVIOUS
<1>1. CASE Retired(p) /\ retirement[p][n].state = "VERIFIED"
  <2>. PICK stale : stale = [retirement[p][n] EXCEPT !.state = "STALE"]
    OBVIOUS
  <2>. PICK table : table = [retirement[p] EXCEPT ![n] = stale]
    OBVIOUS
  <2>1. retirement[p][n] \in RetirementRow /\ n \in DOMAIN retirement[p]
    BY <1>1 DEF OVNTypeOK, Retired
  <2>2. stale \in RetirementRow /\ stale.intent = retirement[p][n].intent
    BY <2>1 DEF RetirementRow
  <2>3. retirement' = [retirement EXCEPT ![p] = table]
    BY <1>1
  <2>4. /\ DOMAIN table = DOMAIN retirement[p] /\ table[n] = stale
        /\ \A m \in DOMAIN retirement[p] : m # n => table[m] = retirement[p][m]
    BY <2>1
  <2>5. DOMAIN retirement' = OVNPorts /\ retirement'[p] = table /\ \A q \in OVNPorts : q # p => retirement'[q] = retirement[q]
    BY <2>3 DEF OVNTypeOK
  <2>6. ASSUME NEW m \in DOMAIN retirement[p]
        PROVE  /\ table[m] \in RetirementRow /\ table[m].intent = retirement[p][m].intent
               /\ m # n => table[m] = retirement[p][m]
    BY <2>2, <2>4 DEF OVNTypeOK
  <2>7. ASSUME NEW q \in OVNPorts, NEW m \in DOMAIN retirement[q]
        PROVE  /\ retirement'[q][m] \in RetirementRow /\ retirement'[q][m].intent = retirement[q][m].intent
               /\ m # port[q].inc \/ q # p => retirement'[q][m] = retirement[q][m]
    <3>1. CASE q = p
      BY <2>5, <2>6, <3>1
    <3>2. CASE q # p
      BY <2>5, <3>2 DEF OVNTypeOK
    <3>. QED  BY <3>1, <3>2
  <2>8. \A q \in OVNPorts : DOMAIN retirement'[q] = DOMAIN retirement[q]
    BY <2>4, <2>5
  <2>. QED  BY <2>5, <2>7, <2>8
<1>2. CASE ~(Retired(p) /\ retirement[p][n].state = "VERIFIED")
  <2>1. retirement' = retirement
    BY <1>2
  <2>. QED  BY <2>1 DEF OVNTypeOK
<1>. QED  BY <1>1, <1>2

\* The items a new intent leaves behind are closed.
LEMMA SupersededItems ==
  ASSUME OVNTypeOK, NEW p \in OVNPorts, NEW items, items = Superseded(work[p])
  PROVE  /\ items \in Seq(WorkRow) /\ Len(items) = Len(work[p])
         /\ \A j \in DOMAIN work[p] : items[j].kind = work[p][j].kind /\ items[j].inc = work[p][j].inc
         /\ \A j \in DOMAIN work[p] : items[j].state \notin Open
<1>1. /\ work[p] \in Seq(WorkRow) /\ Len(work[p]) \in Nat /\ DOMAIN work[p] = 1..Len(work[p])
      /\ \A j \in DOMAIN work[p] : work[p][j] \in WorkRow
  BY WorkDomain
<1>2. "SUPERSEDED" \notin Open /\ "SUPERSEDED" \in Open \cup {"OBSERVED", "CONFLICTING", "SUPERSEDED"}
  BY DEF Open
<1>3. ASSUME NEW j \in DOMAIN work[p]
      PROVE  /\ items[j] \in WorkRow /\ items[j].kind = work[p][j].kind /\ items[j].inc = work[p][j].inc
             /\ items[j].state \notin Open
  <2>1. items[j] = IF work[p][j].state \in Open THEN Unclaimed(work[p][j], "SUPERSEDED") ELSE work[p][j]
    BY <1>1 DEF Superseded
  <2>. PICK row : row = Unclaimed(work[p][j], "SUPERSEDED")
    OBVIOUS
  <2>2. row \in WorkRow /\ row.kind = work[p][j].kind /\ row.inc = work[p][j].inc /\ row.state = "SUPERSEDED"
    BY <1>1, <1>2, Closed
  <2>3. CASE work[p][j].state \in Open
    BY <1>2, <2>1, <2>2, <2>3
  <2>4. CASE work[p][j].state \notin Open
    BY <1>1, <2>1, <2>4
  <2>. QED  BY <2>3, <2>4
<1>4. items \in [1..Len(work[p]) -> WorkRow]
  BY <1>1, <1>3 DEF Superseded
<1>5. items \in Seq(WorkRow) /\ Len(items) = Len(work[p])
  BY <1>1, <1>4, SMTT(30)
<1>. QED  BY <1>3, <1>5

LEMMA OVNIntentCommitted ==
  ASSUME ReleaseInvariant, PortsInvariant, NEW p \in OVNPorts, CommitOVNPortIntent(p)
  PROVE  PortsInvariant' /\ HistoryFixed
<1>0. OVNTypeOK
  BY DEF PortsInvariant
<1>. PICK i : i = Len(work[p]) + 1
  OBVIOUS
<1>. PICK row : row = NewWork(p, "RECONCILE", i)
  OBVIOUS
<1>. PICK items : items = Superseded(work[p])
  OBVIOUS
<1>1. /\ work' = [work EXCEPT ![p] = Append(items, row)]
      /\ ovn' = [ovn EXCEPT ![p] = [intent |-> i, inc |-> port[p].inc, nb |-> "PENDING", sb |-> "PENDING", seen |-> 0]]
      /\ UNCHANGED <<port, proc, nb, sb, plugged>>
  BY DEF CommitOVNPortIntent, backendVars
<1>2. i \in Nat
  BY <1>0, WorkDomain, SMTT(30)
<1>3. row \in WorkRow /\ row.kind = "RECONCILE"
  BY <1>0, <1>2, NewItem
<1>4. /\ items \in Seq(WorkRow) /\ Len(items) = Len(work[p])
      /\ \A j \in DOMAIN work[p] : items[j].kind = work[p][j].kind /\ items[j].inc = work[p][j].inc
      /\ \A j \in DOMAIN work[p] : items[j].state \notin Open
  BY <1>0, SupersededItems
<1>5. /\ work' \in [OVNPorts -> Seq(WorkRow)]
      /\ WorkGrows
      /\ DOMAIN work'[p] = DOMAIN work[p] \cup {i}
      /\ \A j \in DOMAIN work[p] : work'[p][j] = items[j]
      /\ work'[p][i] = row
      /\ \A q \in OVNPorts : q # p => work'[q] = work[q]
  BY <1>0, <1>1, <1>3, <1>4, ItemAppended
<1>6. /\ DOMAIN retirement' = OVNPorts
      /\ \A q \in OVNPorts : DOMAIN retirement'[q] = DOMAIN retirement[q]
      /\ \A q \in OVNPorts : \A n \in DOMAIN retirement[q] :
           /\ retirement'[q][n] \in RetirementRow /\ retirement'[q][n].intent = retirement[q][n].intent
           /\ n # port[q].inc \/ q # p => retirement'[q][n] = retirement[q][n]
  <2>1. retirement' = IF Retired(p) /\ retirement[p][port[p].inc].state = "VERIFIED"
                      THEN [retirement EXCEPT ![p][port[p].inc].state = "STALE"] ELSE retirement
    BY DEF CommitOVNPortIntent
  <2>. QED  BY <1>0, <2>1, MadeStale
<1>7. ASSUME NEW q \in OVNPorts PROVE UnbindRecorded(q)'
  <2>. SUFFICES ASSUME NEW j \in DOMAIN work'[q], work'[q][j].kind = "UNBIND"
                PROVE  /\ work'[q][j].inc \in DOMAIN retirement'[q]
                       /\ retirement'[q][work'[q][j].inc].intent = j
                       /\ retirement'[q][work'[q][j].inc].state = "VERIFIED" => work'[q][j].state \notin Open
    BY DEF UnbindRecorded
  <2>1. CASE q # p
    <3>1. work'[q] = work[q] /\ j \in DOMAIN work[q]
      BY <1>5, <2>1
    <3>. PICK n : n = work[q][j].inc
      OBVIOUS
    <3>2. /\ n \in DOMAIN retirement[q] /\ retirement[q][n].intent = j
          /\ retirement[q][n].state = "VERIFIED" => work[q][j].state \notin Open
      <4>1. UnbindRecorded(q) /\ work[q][j].kind = "UNBIND"
        BY <3>1 DEF PortsInvariant
      <4>. QED  BY <3>1, <4>1 DEF UnbindRecorded
    <3>3. retirement'[q][n] = retirement[q][n]
      BY <1>6, <2>1, <3>2
    <3>. QED  BY <1>6, <3>1, <3>2, <3>3
  <2>2. CASE q = p
    <3>1. j \in DOMAIN work[p] /\ work'[p][j] = items[j]
      BY <1>3, <1>5, <2>2
    <3>. PICK n : n = work[p][j].inc
      OBVIOUS
    <3>2. work[p][j].kind = "UNBIND" /\ work'[p][j].inc = n /\ work'[p][j].state \notin Open
      BY <1>4, <2>2, <3>1
    <3>3. n \in DOMAIN retirement[p] /\ retirement[p][n].intent = j
      <4>1. UnbindRecorded(p)
        BY DEF PortsInvariant
      <4>. QED  BY <3>1, <3>2, <4>1 DEF UnbindRecorded
    <3>4. n \in DOMAIN retirement'[p] /\ retirement'[p][n].intent = j
      BY <1>6, <3>3
    <3>. QED  BY <2>2, <3>2, <3>4
  <2>. QED  BY <2>1, <2>2
<1>8. \A q \in OVNPorts : \A n \in DOMAIN retirement[q] : n < port[q].inc => n # port[q].inc
  <2>. SUFFICES ASSUME NEW q \in OVNPorts, NEW n \in DOMAIN retirement[q], n < port[q].inc PROVE n # port[q].inc
    OBVIOUS
  <2>1. n \in Nat
    BY DEF PortsInvariant, HistoryVerified
  <2>. QED  BY <2>1, SMTT(30)
<1>9. ASSUME NEW q \in OVNPorts PROVE HistoryVerified(q)'
  <2>. SUFFICES ASSUME NEW n \in DOMAIN retirement[q]
                PROVE  /\ n \in Nat /\ n <= port[q].inc
                       /\ n < port[q].inc => retirement'[q][n].state = "VERIFIED"
    BY <1>1, <1>6 DEF HistoryVerified
  <2>1. n \in Nat /\ n <= port[q].inc /\ (n < port[q].inc => retirement[q][n].state = "VERIFIED")
    BY DEF PortsInvariant, HistoryVerified
  <2>. QED  BY <1>6, <1>8, <2>1
<1>10. HistoryFixed
  BY <1>6, <1>8 DEF HistoryFixed
<1>11. OVNTypeOK'
  <2>1. port[p].inc \in Nat
    BY <1>0, SMTT(30) DEF OVNTypeOK, PortRow
  <2>2. [intent |-> i, inc |-> port[p].inc, nb |-> "PENDING", sb |-> "PENDING", seen |-> 0] \in OVNRow
    BY <1>2, <2>1 DEF OVNRow
  <2>3. ovn' \in [OVNPorts -> OVNRow]
    BY <1>0, <1>1, <2>2 DEF OVNTypeOK
  <2>4. \A q \in OVNPorts : \A n \in DOMAIN retirement'[q] : retirement'[q][n] \in RetirementRow
    BY <1>6
  <2>. QED  BY <1>0, <1>1, <1>5, <1>6, <2>3, <2>4 DEF OVNTypeOK
<1>12. (\A w \in Workers : HandsOnWork(w))'
  BY <1>1, <1>5, HandsKept DEF PortsInvariant
<1>. QED  BY <1>7, <1>9, <1>10, <1>11, <1>12 DEF PortsInvariant

\* A handoff leaves a verified retirement behind.
LEMMA OVNHandedOff ==
  ASSUME PortsInvariant, NEW p \in OVNPorts, NEW h \in Chassis, HandOffPort(p, h)
  PROVE  PortsInvariant' /\ HistoryFixed
<1>. USE DEF HandOffPort
<1>0. OVNTypeOK
  BY DEF PortsInvariant
<1>1. port[p].inc \in Nat \ {0}
  BY <1>0, SMTT(30) DEF OVNTypeOK, PortRow
<1>. PICK row : row = [inc |-> port[p].inc + 1, host |-> h]
  OBVIOUS
<1>2. row \in PortRow /\ row.inc = port[p].inc + 1
  BY <1>1, SMTT(30) DEF PortRow
<1>3. port' \in [OVNPorts -> PortRow] /\ port'[p] = row /\ \A q \in OVNPorts : q # p => port'[q] = port[q]
  BY <1>0, <1>2 DEF OVNTypeOK
<1>4. UNCHANGED <<work, ovn, retirement, proc, nb, sb, plugged>>
  BY DEF backendVars
<1>5. OVNTypeOK'
  BY <1>0, <1>3, <1>4 DEF OVNTypeOK
<1>6. ASSUME NEW q \in OVNPorts PROVE HistoryVerified(q)'
  <2>1. CASE q # p
    BY <1>3, <1>4, <2>1 DEF PortsInvariant, HistoryVerified
  <2>2. CASE q = p
    <3>. SUFFICES ASSUME NEW n \in DOMAIN retirement[p]
                  PROVE  n \in Nat /\ n <= port[p].inc + 1 /\ retirement[p][n].state = "VERIFIED"
      BY <1>2, <1>3, <1>4, <2>2 DEF HistoryVerified
    <3>1. n \in Nat /\ n <= port[p].inc /\ (n < port[p].inc => retirement[p][n].state = "VERIFIED")
      BY DEF PortsInvariant, HistoryVerified
    <3>2. retirement[p][port[p].inc].state = "VERIFIED"
      BY DEF SourceUnbound
    <3>3. n <= port[p].inc + 1 /\ (n < port[p].inc \/ n = port[p].inc)
      BY <1>1, <3>1, SMTT(30)
    <3>. QED  BY <3>1, <3>2, <3>3
  <2>. QED  BY <2>1, <2>2
<1>7. (\A q \in OVNPorts : UnbindRecorded(q))' /\ (\A w \in Workers : HandsOnWork(w))'
  BY <1>4 DEF PortsInvariant, UnbindRecorded, HandsOnWork
<1>8. HistoryFixed
  BY <1>4 DEF HistoryFixed
<1>. QED  BY <1>5, <1>6, <1>7, <1>8 DEF PortsInvariant

\* A worker moves on.
LEMMA ProcStep ==
  ASSUME PortsInvariant, NEW w \in Workers, NEW row \in ProcRow, proc' = [proc EXCEPT ![w] = row], WorkGrows,
         row.step # "IDLE" =>
           /\ row.port \in OVNPorts /\ row.intent \in DOMAIN work[row.port]
           /\ row.step = "COMPLETE" => row.seen \in SeenOf(work[row.port][row.intent].kind)
  PROVE  proc' \in [Workers -> ProcRow] /\ (\A v \in Workers : HandsOnWork(v))'
<1>1. proc \in [Workers -> ProcRow]
  BY DEF PortsInvariant, OVNTypeOK
<1>2. proc' \in [Workers -> ProcRow] /\ proc'[w] = row /\ \A v \in Workers : v # w => proc'[v] = proc[v]
  BY <1>1
<1>3. ASSUME NEW v \in Workers PROVE HandsOnWork(v)'
  <2>1. CASE v = w
    BY <1>2, <2>1 DEF HandsOnWork, WorkGrows
  <2>2. CASE v # w
    <3>1. proc'[v] = proc[v] /\ HandsOnWork(v)
      BY <1>2, <2>2 DEF PortsInvariant
    <3>. QED  BY <3>1 DEF HandsOnWork, WorkGrows
  <2>. QED  BY <2>1, <2>2
<1>. QED  BY <1>2, <1>3

LEMMA SameWork == ASSUME UNCHANGED work PROVE WorkGrows
  BY DEF WorkGrows

\* The item a busy worker has in hand.
LEMMA InHand ==
  ASSUME PortsInvariant, NEW w \in Workers, proc[w].step # "IDLE"
  PROVE  /\ proc[w] \in ProcRow /\ proc[w].port \in OVNPorts /\ proc[w].intent \in DOMAIN work[proc[w].port]
         /\ Item(w) \in WorkRow /\ Item(w) = work[proc[w].port][proc[w].intent]
         /\ proc[w].step = "COMPLETE" => proc[w].seen \in SeenOf(Item(w).kind)
<1>1. OVNTypeOK /\ HandsOnWork(w)
  BY DEF PortsInvariant
<1>2. proc[w] \in ProcRow
  BY <1>1 DEF OVNTypeOK
<1>. QED  BY <1>1, <1>2, WorkDomain DEF HandsOnWork, Item

LEMMA IdleRow == Idle \in ProcRow /\ Idle.step = "IDLE"
  BY SMTT(30) DEF Idle, ProcRow

\* A worker moves on with its item, or rests; the tables stay.
LEMMA ProcOnly ==
  ASSUME PortsInvariant, NEW w \in Workers, NEW row \in ProcRow, proc' = [proc EXCEPT ![w] = row],
         UNCHANGED <<port, work, ovn, retirement, sb, plugged>>, nb' \in [OVNPorts -> NBRow],
         row.step # "IDLE" =>
           /\ row.port \in OVNPorts /\ row.intent \in DOMAIN work[row.port]
           /\ row.step = "COMPLETE" => row.seen \in SeenOf(work[row.port][row.intent].kind)
  PROVE  PortsInvariant' /\ HistoryFixed
<1>1. proc' \in [Workers -> ProcRow] /\ (\A v \in Workers : HandsOnWork(v))'
  BY ProcStep, SameWork
<1>2. OVNTypeOK'
  BY <1>1 DEF PortsInvariant, OVNTypeOK
<1>3. (\A p \in OVNPorts : UnbindRecorded(p) /\ HistoryVerified(p))'
  BY DEF PortsInvariant, UnbindRecorded, HistoryVerified
<1>. QED  BY <1>1, <1>2, <1>3 DEF PortsInvariant, HistoryFixed

LEMMA NBStays == ASSUME PortsInvariant, UNCHANGED nb PROVE nb' \in [OVNPorts -> NBRow]
  BY DEF PortsInvariant, OVNTypeOK

LEMMA OVNAuthorized ==
  ASSUME PortsInvariant, NEW w \in Workers, AuthorizeOVNRuntimeApply(w)
  PROVE  PortsInvariant' /\ HistoryFixed
<1>. PICK row : row = [proc[w] EXCEPT !.step = "APPLY"]
  OBVIOUS
<1>1. proc[w].step # "IDLE" /\ proc' = [proc EXCEPT ![w] = row]
      /\ UNCHANGED <<port, work, ovn, retirement, nb, sb, plugged>>
  BY DEF AuthorizeOVNRuntimeApply, At, Goes, authorityVars, backendVars
<1>2. row \in ProcRow /\ row.step = "APPLY" /\ row.port = proc[w].port /\ row.intent = proc[w].intent
  BY <1>1, InHand, SMTT(30) DEF ProcRow
<1>. QED  BY <1>1, <1>2, InHand, NBStays, ProcOnly

LEMMA Seen ==
  ASSUME NEW w \in Workers
  PROVE  Observed(w) \in SeenOf(Item(w).kind)
  BY DEF Observed, SeenOf, ObservePortBindingRetirement, ObservePort, NBState

LEMMA SeenTyped == \A kind : SeenOf(kind) \subseteq {"NONE", "UNKNOWN", "CONFLICTING", "APPLIED", "REALIZED", "VERIFIED"}
  BY DEF SeenOf

LEMMA OVNObserved ==
  ASSUME PortsInvariant, NEW w \in Workers, ReadBack(w) \/ VerifyMutation(w)
  PROVE  PortsInvariant' /\ HistoryFixed
<1>1. /\ proc[w].step # "IDLE"
      /\ UNCHANGED <<port, work, ovn, retirement, nb, sb, plugged>>
      /\ \E step \in {"COMPLETE", "AUTHORIZE"}, lost \in BOOLEAN :
           proc' = [proc EXCEPT ![w] = [proc[w] EXCEPT !.seen = Observed(w), !.lost = lost, !.step = step]]
  <2>1. CASE ReadBack(w)
    BY <2>1 DEF ReadBack, At, authorityVars, backendVars
  <2>2. CASE VerifyMutation(w)
    <3>1. proc[w] \in ProcRow
      BY <2>2 DEF PortsInvariant, OVNTypeOK
    <3>2. proc[w].lost \in BOOLEAN /\ [proc[w] EXCEPT !.seen = Observed(w), !.step = "COMPLETE"]
            = [proc[w] EXCEPT !.seen = Observed(w), !.lost = proc[w].lost, !.step = "COMPLETE"]
      BY <3>1 DEF ProcRow
    <3>. QED  BY <2>2, <3>2 DEF VerifyMutation, At, authorityVars, backendVars
  <2>. QED  BY <2>1, <2>2
<1>. PICK step \in {"COMPLETE", "AUTHORIZE"}, lost \in BOOLEAN :
       proc' = [proc EXCEPT ![w] = [proc[w] EXCEPT !.seen = Observed(w), !.lost = lost, !.step = step]]
  BY <1>1
<1>b. PICK seen : seen = Observed(w)
  OBVIOUS
<1>. PICK row : row = [proc[w] EXCEPT !.seen = seen, !.lost = lost, !.step = step]
  OBVIOUS
<1>2. seen \in SeenOf(Item(w).kind)
      /\ seen \in {"NONE", "UNKNOWN", "CONFLICTING", "APPLIED", "REALIZED", "VERIFIED"}
  BY <1>b, Seen, SeenTyped
<1>3. row \in ProcRow /\ row.port = proc[w].port /\ row.intent = proc[w].intent /\ row.seen = seen
  <2>1. proc[w] \in ProcRow
    BY <1>1, InHand
  <2>2. row \in ProcRow
    BY <1>2, <2>1 DEF ProcRow
  <2>3. row.port = proc[w].port /\ row.intent = proc[w].intent /\ row.seen = seen
    BY <2>1 DEF ProcRow
  <2>. QED  BY <2>2, <2>3
<1>4. /\ row.port \in OVNPorts /\ row.intent \in DOMAIN work[row.port]
      /\ row.seen \in SeenOf(work[row.port][row.intent].kind)
  <2>1. /\ proc[w].port \in OVNPorts /\ proc[w].intent \in DOMAIN work[proc[w].port]
        /\ Item(w) = work[proc[w].port][proc[w].intent]
    BY <1>1, InHand
  <2>. QED  BY <1>2, <1>3, <2>1
<1>5. row.step # "IDLE" =>
        /\ row.port \in OVNPorts /\ row.intent \in DOMAIN work[row.port]
        /\ row.step = "COMPLETE" => row.seen \in SeenOf(work[row.port][row.intent].kind)
  BY <1>4
<1>6. /\ proc' = [proc EXCEPT ![w] = row] /\ UNCHANGED <<port, work, ovn, retirement, sb, plugged>>
      /\ nb' \in [OVNPorts -> NBRow]
  BY <1>1, <1>b, NBStays
<1>. QED  BY <1>3, <1>5, <1>6, ProcOnly

LEMMA OVNApplied ==
  ASSUME PortsInvariant, NEW w \in Workers, NEW lost \in BOOLEAN, ApplyMutation(w, lost)
  PROVE  PortsInvariant' /\ HistoryFixed
<1>. PICK row : row = [proc[w] EXCEPT !.step = "VERIFY", !.lost = lost]
  OBVIOUS
<1>1. proc[w].step # "IDLE" /\ proc' = [proc EXCEPT ![w] = row]
      /\ UNCHANGED <<port, work, ovn, retirement, sb, plugged>>
  BY DEF ApplyMutation, At, authorityVars
<1>2. row \in ProcRow /\ row.step = "VERIFY" /\ row.port = proc[w].port /\ row.intent = proc[w].intent
  BY <1>1, InHand DEF ProcRow
<1>3. nb' \in [OVNPorts -> NBRow]
  <2>. PICK p : p = proc[w].port
    OBVIOUS
  <2>. PICK item : item = Item(w)
    OBVIOUS
  <2>1. p \in OVNPorts /\ item \in WorkRow
    BY <1>1, InHand
  <2>2. nb \in [OVNPorts -> NBRow]
    BY DEF PortsInvariant, OVNTypeOK
  <2>3. [nb[p] EXCEPT !.chassis = NoChassis] \in NBRow
    BY <2>1, <2>2, SMTT(30) DEF NBRow
  <2>4. [mark |-> Mark(item.object), chassis |-> item.host] \in NBRow
    <3>1. Mark(item.object) \in Marks /\ item.host \in Chassis
      BY <2>1, SMTT(30) DEF Mark, Marks, WorkRow
    <3>. QED  BY <3>1 DEF NBRow
  <2>5. Mutation(p, item) \in [OVNPorts -> NBRow]
    BY <2>2, <2>3, <2>4 DEF Mutation
  <2>. QED  BY <2>2, <2>5 DEF ApplyMutation
<1>. QED  BY <1>1, <1>2, <1>3, InHand, ProcOnly

LEMMA OVNRests ==
  ASSUME PortsInvariant, NEW w \in Workers, Done(w), UNCHANGED <<port, work, ovn, retirement, nb, sb, plugged>>
  PROVE  PortsInvariant' /\ HistoryFixed
  BY IdleRow, NBStays, ProcOnly DEF Done

\* One item of a port changes and stays as closed as it is.
LEMMA WorkStep ==
  ASSUME PortsInvariant, NEW p \in OVNPorts, NEW i \in DOMAIN work[p], NEW row \in WorkRow,
         row.kind = work[p][i].kind, row.inc = work[p][i].inc,
         row.state \in Open => work[p][i].state \in Open,
         work' = [work EXCEPT ![p][i] = row], UNCHANGED <<port, retirement, nb, sb, plugged>>,
         ovn' \in [OVNPorts -> OVNRow],
         WorkGrows => proc' \in [Workers -> ProcRow] /\ (\A v \in Workers : HandsOnWork(v))'
  PROVE  PortsInvariant' /\ HistoryFixed
<1>1. /\ work' \in [OVNPorts -> Seq(WorkRow)]
      /\ WorkGrows
      /\ (\A q \in OVNPorts : UnbindRecorded(q) /\ HistoryVerified(q))'
  BY ItemStep
<1>2. OVNTypeOK'
  BY <1>1 DEF PortsInvariant, OVNTypeOK
<1>. QED  BY <1>1, <1>2 DEF PortsInvariant, HistoryFixed

LEMMA OVNStays == ASSUME PortsInvariant, UNCHANGED ovn PROVE ovn' \in [OVNPorts -> OVNRow]
  BY DEF PortsInvariant, OVNTypeOK

LEMMA ProcStays ==
  ASSUME PortsInvariant, UNCHANGED proc
  PROVE  WorkGrows => proc' \in [Workers -> ProcRow] /\ (\A v \in Workers : HandsOnWork(v))'
  BY HandsKept DEF PortsInvariant, OVNTypeOK

LEMMA OVNLapsed ==
  ASSUME PortsInvariant, NEW p \in OVNPorts, NEW i \in DOMAIN work[p], OVNClaimLapses(p, i)
  PROVE  PortsInvariant' /\ HistoryFixed
<1>. PICK row : row = [work[p][i] EXCEPT !.live = FALSE]
  OBVIOUS
<1>1. work[p][i] \in WorkRow
  BY WorkDomain DEF PortsInvariant
<1>2. /\ row \in WorkRow /\ row.kind = work[p][i].kind /\ row.inc = work[p][i].inc
      /\ row.state = work[p][i].state
  BY <1>1 DEF WorkRow
<1>3. work' = [work EXCEPT ![p][i] = row] /\ UNCHANGED <<port, ovn, retirement, proc, nb, sb, plugged>>
  BY DEF OVNClaimLapses, backendVars
<1>. QED  BY <1>2, <1>3, OVNStays, ProcStays, WorkStep

LEMMA ItemTaken ==
  ASSUME NEW item \in WorkRow, item.gen + 1 \in Nat, NEW w \in Workers,
         NEW mode \in {"NONE", "APPLY_ALLOWED", "READ_BACK_FIRST"}
  PROVE  /\ Taken(item, w, mode) \in WorkRow
         /\ Taken(item, w, mode).kind = item.kind /\ Taken(item, w, mode).inc = item.inc
<1>. PICK gen \in Nat : gen = item.gen + 1
  OBVIOUS
<1>1. "CLAIMED" \in Open \cup {"OBSERVED", "CONFLICTING", "SUPERSEDED"}
  BY DEF Open
<1>2. Taken(item, w, mode) = [item EXCEPT !.state = "CLAIMED", !.owner = w, !.gen = gen,
                                         !.live = TRUE, !.mode = mode, !.readBack = FALSE]
  BY DEF Taken
<1>3. Taken(item, w, mode) \in WorkRow
  BY <1>1, <1>2 DEF WorkRow
<1>4. Taken(item, w, mode).kind = item.kind /\ Taken(item, w, mode).inc = item.inc
  BY <1>2 DEF WorkRow
<1>. QED  BY <1>3, <1>4

LEMMA OVNClaimed ==
  ASSUME PortsInvariant, NEW w \in Workers, NEW p \in OVNPorts, NEW i \in DOMAIN work[p],
         ClaimOVNRuntimeWork(w, p, i)
  PROVE  PortsInvariant' /\ HistoryFixed
<1>. PICK item : item = work[p][i]
  OBVIOUS
<1>. PICK mode : mode = IF item.state = "PENDING" THEN "APPLY_ALLOWED" ELSE "READ_BACK_FIRST"
  OBVIOUS
<1>. PICK row : row = Taken(item, w, mode)
  OBVIOUS
<1>1. item \in WorkRow /\ i \in Nat
  BY WorkDomain DEF PortsInvariant
<1>2. item.gen \in Nat /\ item.gen + 1 \in Nat
  BY <1>1, SMTT(30) DEF WorkRow
<1>3. row \in WorkRow /\ row.kind = item.kind /\ row.inc = item.inc
  <2>1. mode \in {"NONE", "APPLY_ALLOWED", "READ_BACK_FIRST"}
    OBVIOUS
  <2>. QED  BY <1>1, <1>2, <2>1, ItemTaken
<1>4. /\ row.kind = work[p][i].kind /\ row.inc = work[p][i].inc
      /\ row.state \in Open => work[p][i].state \in Open
  <2>1. work[p][i].state \in Open
    BY DEF ClaimOVNRuntimeWork, Claimable, Open
  <2>. QED  BY <1>3, <2>1
<1>5. work' = [work EXCEPT ![p][i] = row] /\ UNCHANGED <<port, ovn, retirement, nb, sb, plugged>>
  BY DEF ClaimOVNRuntimeWork, backendVars
<1>. PICK fresh : fresh = [step |-> IF mode = "READ_BACK_FIRST" THEN "RECORD" ELSE "AUTHORIZE",
                           port |-> p, intent |-> i, gen |-> item.gen + 1, seen |-> "NONE", lost |-> FALSE]
  OBVIOUS
<1>6. fresh \in ProcRow /\ fresh.step # "COMPLETE" /\ fresh.port = p /\ fresh.intent = i
  BY <1>1, <1>2, SMTT(30) DEF ProcRow
<1>7. proc' = [proc EXCEPT ![w] = fresh]
  BY DEF ClaimOVNRuntimeWork
<1>8. WorkGrows => proc' \in [Workers -> ProcRow] /\ (\A v \in Workers : HandsOnWork(v))'
  BY <1>6, <1>7, ProcStep
<1>9. ovn' \in [OVNPorts -> OVNRow]
  BY <1>5, OVNStays
<1>. QED  BY <1>3, <1>4, <1>5, <1>8, <1>9, WorkStep

LEMMA OVNRecorded ==
  ASSUME PortsInvariant, NEW w \in Workers, RecordOVNRuntimeReadBackStarted(w)
  PROVE  PortsInvariant' /\ HistoryFixed
<1>1. proc[w].step # "IDLE" /\ UNCHANGED <<port, ovn, retirement, nb, sb, plugged>>
  BY DEF RecordOVNRuntimeReadBackStarted, At, backendVars
<1>. PICK p : p = proc[w].port
  OBVIOUS
<1>. PICK i : i = proc[w].intent
  OBVIOUS
<1>2. p \in OVNPorts /\ i \in DOMAIN work[p] /\ work[p][i] \in WorkRow /\ proc[w] \in ProcRow
  BY <1>1, InHand
<1>. PICK row : row = [work[p][i] EXCEPT !.readBack = TRUE]
  OBVIOUS
<1>3. /\ row \in WorkRow /\ row.kind = work[p][i].kind /\ row.inc = work[p][i].inc
      /\ row.state = work[p][i].state
  BY <1>2 DEF WorkRow
<1>4. work' = [work EXCEPT ![p][i] = row]
  BY DEF RecordOVNRuntimeReadBackStarted
<1>. PICK next : next = [proc[w] EXCEPT !.step = "OBSERVE"]
  OBVIOUS
<1>5. next \in ProcRow /\ next.step = "OBSERVE" /\ next.port = p /\ next.intent = i
  BY <1>2, SMTT(30) DEF ProcRow
<1>6. proc' = [proc EXCEPT ![w] = next]
  BY DEF RecordOVNRuntimeReadBackStarted, Goes
<1>7. WorkGrows => proc' \in [Workers -> ProcRow] /\ (\A v \in Workers : HandsOnWork(v))'
  BY <1>2, <1>5, <1>6, ProcStep
<1>8. ovn' \in [OVNPorts -> OVNRow] /\ (row.state \in Open => work[p][i].state \in Open)
  BY <1>1, <1>3, OVNStays
<1>. QED  BY <1>1, <1>2, <1>3, <1>4, <1>7, <1>8, WorkStep

LEMMA RestStep ==
  ASSUME PortsInvariant, NEW w \in Workers, Done(w)
  PROVE  WorkGrows => proc' \in [Workers -> ProcRow] /\ (\A v \in Workers : HandsOnWork(v))'
  BY IdleRow, ProcStep DEF Done

\* An open item is closed, and its retirement written if it has one.
LEMMA RetirementEnds ==
  ASSUME PortsInvariant, NEW w \in Workers, Done(w), NEW p \in OVNPorts, NEW i \in DOMAIN work[p],
         work[p][i].kind = "UNBIND", work[p][i].state \in Open,
         NEW closed \in Open \cup {"OBSERVED", "CONFLICTING", "SUPERSEDED"},
         NEW state \in {"DISPATCH_UNKNOWN", "VERIFIED", "CONFLICTING"},
         state = "VERIFIED" => closed \notin Open,
         work' = [work EXCEPT ![p][i] = Unclaimed(work[p][i], closed)],
         retirement' = [retirement EXCEPT ![p][work[p][i].inc].state = state],
         UNCHANGED <<port, ovn, nb, sb, plugged>>
  PROVE  PortsInvariant' /\ HistoryFixed
<1>. PICK row : row = Unclaimed(work[p][i], closed)
  OBVIOUS
<1>1. work[p][i] \in WorkRow
  BY WorkDomain DEF PortsInvariant
<1>2. row \in WorkRow /\ row.kind = work[p][i].kind /\ row.inc = work[p][i].inc /\ row.state = closed
  BY <1>1, Closed
<1>3. /\ work' \in [OVNPorts -> Seq(WorkRow)]
      /\ WorkGrows /\ HistoryFixed
      /\ DOMAIN retirement' = OVNPorts
      /\ \A q \in OVNPorts : \A n \in DOMAIN retirement'[q] : retirement'[q][n] \in RetirementRow
      /\ (\A q \in OVNPorts : UnbindRecorded(q) /\ HistoryVerified(q))'
  BY <1>2, RetirementStep
<1>4. proc' \in [Workers -> ProcRow] /\ (\A v \in Workers : HandsOnWork(v))'
  BY <1>3, RestStep
<1>5. OVNTypeOK'
  BY <1>3, <1>4 DEF PortsInvariant, OVNTypeOK
<1>. QED  BY <1>3, <1>4, <1>5 DEF PortsInvariant

LEMMA OVNQuarantined ==
  ASSUME PortsInvariant, NEW w \in Workers, QuarantineOVNRuntimeWork(w)
  PROVE  PortsInvariant' /\ HistoryFixed
<1>. PICK p : p = proc[w].port
  OBVIOUS
<1>. PICK i : i = proc[w].intent
  OBVIOUS
<1>1. proc[w].step # "IDLE" /\ Done(w) /\ UNCHANGED <<port, ovn, nb, sb, plugged>>
  BY DEF QuarantineOVNRuntimeWork, At, backendVars
<1>2. p \in OVNPorts /\ i \in DOMAIN work[p] /\ work[p][i] \in WorkRow /\ Item(w) = work[p][i]
  BY <1>1, InHand
<1>3. work[p][i].state \in Open
  BY <1>2 DEF QuarantineOVNRuntimeWork, lockCurrentOVNRuntimeClaim, Open
<1>4. work' = [work EXCEPT ![p][i] = Unclaimed(work[p][i], "CONFLICTING")] /\ "CONFLICTING" \notin Open
  BY <1>2 DEF QuarantineOVNRuntimeWork, Open
<1>5. CASE work[p][i].kind = "UNBIND"
  <2>1. retirement' = [retirement EXCEPT ![p][work[p][i].inc].state = "CONFLICTING"]
    BY <1>2, <1>5 DEF QuarantineOVNRuntimeWork
  <2>. QED  BY <1>1, <1>2, <1>3, <1>4, <1>5, <2>1, RetirementEnds
<1>6. CASE work[p][i].kind # "UNBIND"
  <2>. PICK row : row = Unclaimed(work[p][i], "CONFLICTING")
    OBVIOUS
  <2>1. row \in WorkRow /\ row.kind = work[p][i].kind /\ row.inc = work[p][i].inc /\ row.state = "CONFLICTING"
    BY <1>2, Closed
  <2>2. UNCHANGED retirement
    BY <1>2, <1>6 DEF QuarantineOVNRuntimeWork
  <2>3. WorkGrows => proc' \in [Workers -> ProcRow] /\ (\A v \in Workers : HandsOnWork(v))'
    BY <1>1, RestStep
  <2>4. /\ work' = [work EXCEPT ![p][i] = row] /\ UNCHANGED <<port, retirement, nb, sb, plugged>>
        /\ ovn' \in [OVNPorts -> OVNRow] /\ (row.state \in Open => work[p][i].state \in Open)
    BY <1>1, <1>3, <1>4, <2>2, OVNStays
  <2>. QED  BY <1>2, <2>1, <2>3, <2>4, WorkStep
<1>. QED  BY <1>5, <1>6

LEMMA OVNUnbound ==
  ASSUME PortsInvariant, NEW w \in Workers, CompleteOVNPortBindingRetirement(w)
  PROVE  PortsInvariant' /\ HistoryFixed
<1>. PICK p : p = proc[w].port
  OBVIOUS
<1>. PICK i : i = proc[w].intent
  OBVIOUS
<1>. PICK seen : seen = IF proc[w].lost THEN "UNKNOWN" ELSE proc[w].seen
  OBVIOUS
<1>. PICK closed : closed = CASE seen = "VERIFIED" -> "OBSERVED" [] seen = "CONFLICTING" -> "CONFLICTING"
                              [] OTHER -> "DISPATCH_UNKNOWN"
  OBVIOUS
<1>. PICK state : state = IF seen = "UNKNOWN" THEN "DISPATCH_UNKNOWN" ELSE seen
  OBVIOUS
<1>1. proc[w].step = "COMPLETE" /\ Done(w) /\ UNCHANGED <<port, ovn, nb, sb, plugged>>
  BY DEF CompleteOVNPortBindingRetirement, At, backendVars
<1>2. p \in OVNPorts /\ i \in DOMAIN work[p] /\ work[p][i] \in WorkRow /\ Item(w) = work[p][i]
      /\ proc[w].seen \in SeenOf(work[p][i].kind)
  BY <1>1, InHand
<1>3. work[p][i].state \in Open /\ work[p][i].kind = "UNBIND"
  BY <1>2 DEF CompleteOVNPortBindingRetirement, lockCurrentOVNRuntimeClaim, Open
<1>4. seen \in {"VERIFIED", "CONFLICTING", "UNKNOWN"}
  BY <1>2, <1>3 DEF SeenOf
<1>5. /\ closed \in Open \cup {"OBSERVED", "CONFLICTING", "SUPERSEDED"}
      /\ state \in {"DISPATCH_UNKNOWN", "VERIFIED", "CONFLICTING"}
      /\ state = "VERIFIED" => closed \notin Open
  BY <1>4 DEF Open
<1>6. /\ work' = [work EXCEPT ![p][i] = Unclaimed(work[p][i], closed)]
      /\ retirement' = [retirement EXCEPT ![p][work[p][i].inc].state = state]
  BY <1>2 DEF CompleteOVNPortBindingRetirement
<1>. QED  BY <1>1, <1>2, <1>3, <1>5, <1>6, RetirementEnds

LEMMA ObservationAccepted ==
  ASSUME NEW before \in OVNRow, NEW gen \in Nat, NEW north \in {"PENDING", "MATCHED", "UNKNOWN", "CONFLICTING"},
         NEW south \in {"PENDING", "MATCHED", "UNKNOWN"}
  PROVE  [before EXCEPT !.seen = gen, !.nb = north, !.sb = south] \in OVNRow
  BY DEF OVNRow

LEMMA OVNCompleted ==
  ASSUME PortsInvariant, NEW w \in Workers, CompleteOVNRuntimeWork(w)
  PROVE  PortsInvariant' /\ HistoryFixed
<1>. PICK p : p = proc[w].port
  OBVIOUS
<1>. PICK i : i = proc[w].intent
  OBVIOUS
<1>. PICK seen : seen = proc[w].seen
  OBVIOUS
<1>. PICK closed : closed = CASE seen = "REALIZED" -> "OBSERVED" [] seen = "CONFLICTING" -> "CONFLICTING"
                              [] OTHER -> "DISPATCH_UNKNOWN"
  OBVIOUS
<1>. PICK row : row = Unclaimed(work[p][i], closed)
  OBVIOUS
<1>1. proc[w].step = "COMPLETE" /\ Done(w) /\ UNCHANGED <<port, retirement, nb, sb, plugged>>
  BY DEF CompleteOVNRuntimeWork, At, backendVars
<1>2. p \in OVNPorts /\ i \in DOMAIN work[p] /\ work[p][i] \in WorkRow /\ Item(w) = work[p][i]
      /\ seen \in SeenOf(work[p][i].kind)
  BY <1>1, InHand
<1>3. work[p][i].state \in Open /\ work[p][i].kind = "RECONCILE"
  BY <1>2 DEF CompleteOVNRuntimeWork, lockCurrentOVNRuntimeClaim, Open
<1>4. seen \in {"REALIZED", "APPLIED", "CONFLICTING", "UNKNOWN"}
  BY <1>2, <1>3 DEF SeenOf
<1>5. closed \in Open \cup {"OBSERVED", "CONFLICTING", "SUPERSEDED"}
  BY DEF Open
<1>6. row \in WorkRow /\ row.kind = work[p][i].kind /\ row.inc = work[p][i].inc
  BY <1>2, <1>5, Closed
<1>7. work' = [work EXCEPT ![p][i] = row]
  BY <1>2 DEF CompleteOVNRuntimeWork
<1>8. ovn' \in [OVNPorts -> OVNRow]
  <2>a. PICK north : north = IF seen \in {"REALIZED", "APPLIED"} THEN "MATCHED" ELSE seen
    OBVIOUS
  <2>b. PICK south : south = IF seen = "REALIZED" THEN "MATCHED" ELSE "UNKNOWN"
    OBVIOUS
  <2>. PICK after : after = [ovn[p] EXCEPT !.seen = work[p][i].gen, !.nb = north, !.sb = south]
    OBVIOUS
  <2>1. ovn \in [OVNPorts -> OVNRow]
    BY DEF PortsInvariant, OVNTypeOK
  <2>2. north \in {"PENDING", "MATCHED", "UNKNOWN", "CONFLICTING"} /\ south \in {"PENDING", "MATCHED", "UNKNOWN"}
    BY <1>4, <2>a, <2>b
  <2>3. work[p][i].gen \in Nat
    BY <1>2 DEF WorkRow
  <2>4. after \in OVNRow
    <3>1. ovn[p] \in OVNRow
      BY <1>2, <2>1
    <3>. QED  BY <2>2, <2>3, <3>1, ObservationAccepted
  <2>5. ovn' = [ovn EXCEPT ![p] = after]
    BY <1>2, <2>a, <2>b DEF CompleteOVNRuntimeWork, acceptOVNPortObservationTx
  <2>. QED  BY <2>1, <2>4, <2>5
<1>9. WorkGrows => proc' \in [Workers -> ProcRow] /\ (\A v \in Workers : HandsOnWork(v))'
  BY <1>1, RestStep
<1>10. row.state \in Open => work[p][i].state \in Open
  BY <1>3
<1>. QED  BY <1>1, <1>2, <1>6, <1>7, <1>8, <1>9, <1>10, WorkStep

LEMMA OVNBackend ==
  ASSUME PortsInvariant, NEW p \in OVNPorts,
         ControllerBinds(p) \/ \E h \in Chassis \cup {NoChassis} : PlugsInterface(p, h)
  PROVE  PortsInvariant' /\ HistoryFixed
<1>1. UNCHANGED <<port, work, ovn, retirement, proc, nb>>
  BY DEF ControllerBinds, PlugsInterface, authorityVars
<1>2. OVNTypeOK
  BY DEF PortsInvariant
<1>3. sb' \in [OVNPorts -> Chassis \cup {NoChassis}] /\ plugged' \in [OVNPorts -> Chassis \cup {NoChassis}]
  <2>1. CASE ControllerBinds(p)
    BY <1>2, <2>1 DEF ControllerBinds, OVNTypeOK
  <2>2. CASE \E h \in Chassis \cup {NoChassis} : PlugsInterface(p, h)
    BY <1>2, <2>2 DEF PlugsInterface, OVNTypeOK
  <2>. QED  BY <2>1, <2>2
<1>4. OVNTypeOK'
  BY <1>1, <1>2, <1>3 DEF OVNTypeOK
<1>. QED  BY <1>1, <1>4 DEF PortsInvariant, UnbindRecorded, HistoryVerified, HandsOnWork, HistoryFixed

LEMMA PortsStay ==
  ASSUME PortsInvariant, UNCHANGED ovnVars
  PROVE  PortsInvariant' /\ HistoryFixed
<1>1. UNCHANGED <<port, work, ovn, retirement, proc, nb, sb, plugged>>
  BY DEF ovnVars, authorityVars, backendVars
<1>2. OVNTypeOK'
  BY <1>1 DEF PortsInvariant, OVNTypeOK
<1>. QED  BY <1>1, <1>2 DEF PortsInvariant, UnbindRecorded, HistoryVerified, HandsOnWork, HistoryFixed

LEMMA WorkerRuns ==
  ASSUME PortsInvariant, NEW w \in Workers, RunOnce(w)
  PROVE  PortsInvariant' /\ HistoryFixed /\ UNCHANGED releaseVars
<1>1. ASSUME NEW p \in OVNPorts, NEW i \in DOMAIN work[p], ClaimOVNRuntimeWork(w, p, i)
      PROVE  PortsInvariant' /\ HistoryFixed /\ UNCHANGED releaseVars
  BY <1>1, OVNClaimed DEF ClaimOVNRuntimeWork
<1>2. ASSUME processWork(w) PROVE PortsInvariant' /\ HistoryFixed /\ UNCHANGED releaseVars
  <2>1. CASE RecordOVNRuntimeReadBackStarted(w)
    BY <2>1, OVNRecorded DEF RecordOVNRuntimeReadBackStarted
  <2>2. CASE AuthorizeOVNRuntimeApply(w)
    BY <2>2, OVNAuthorized DEF AuthorizeOVNRuntimeApply
  <2>3. CASE ReadBack(w) \/ VerifyMutation(w)
    BY <2>3, OVNObserved DEF ReadBack, VerifyMutation
  <2>4. CASE \E lost \in BOOLEAN : ApplyMutation(w, lost)
    BY <2>4, OVNApplied DEF ApplyMutation
  <2>5. CASE QuarantineOVNRuntimeWork(w)
    BY <2>5, OVNQuarantined DEF QuarantineOVNRuntimeWork
  <2>. QED  BY <1>2, <2>1, <2>2, <2>3, <2>4, <2>5 DEF processWork
<1>3. ASSUME complete(w) PROVE PortsInvariant' /\ HistoryFixed /\ UNCHANGED releaseVars
  <2>1. CASE CompleteOVNRuntimeWork(w)
    BY <2>1, OVNCompleted DEF CompleteOVNRuntimeWork
  <2>2. CASE CompleteOVNPortBindingRetirement(w)
    BY <2>2, OVNUnbound DEF CompleteOVNPortBindingRetirement
  <2>. QED  BY <1>3, <2>1, <2>2 DEF complete
<1>4. ASSUME AdapterFails(w) PROVE PortsInvariant' /\ HistoryFixed /\ UNCHANGED releaseVars
  BY <1>4, OVNRests DEF AdapterFails, authorityVars, backendVars
<1>. QED  BY <1>1, <1>2, <1>3, <1>4 DEF RunOnce

OVNInvariant == ReleaseInvariant /\ PortsInvariant
runtimeVars == <<releaseVars, ovnVars>>

LEMMA OVNStep ==
  OVNInvariant /\ [RuntimeNext]_runtimeVars => OVNInvariant' /\ HistoryFixed
<1>. SUFFICES ASSUME OVNInvariant, [RuntimeNext]_runtimeVars PROVE OVNInvariant' /\ HistoryFixed
  OBVIOUS
<1>. USE DEF OVNInvariant
<1>1. ASSUME UNCHANGED runtimeVars PROVE OVNInvariant' /\ HistoryFixed
  BY <1>1, ReleaseStays, PortsStay DEF runtimeVars
<1>2. ASSUME NEW p \in OVNPorts, CommitOVNPortIntent(p) PROVE OVNInvariant' /\ HistoryFixed
  BY <1>2, ReleaseStays, OVNIntentCommitted DEF CommitOVNPortIntent
<1>3. ASSUME NEW p \in OVNPorts, CommitOVNPortBindingRetirement(p) PROVE OVNInvariant' /\ HistoryFixed
  BY <1>3, ReleaseStays, OVNRetirementRequested DEF CommitOVNPortBindingRetirement
<1>4. ASSUME NEW p \in OVNPorts, NEW h \in Chassis, HandOffPort(p, h) PROVE OVNInvariant' /\ HistoryFixed
  BY <1>4, ReleaseStays, OVNHandedOff DEF HandOffPort
<1>5. ASSUME NEW p \in OVNPorts, NEW i \in DOMAIN work[p], OVNClaimLapses(p, i) PROVE OVNInvariant' /\ HistoryFixed
  BY <1>5, ReleaseStays, OVNLapsed DEF OVNClaimLapses
<1>6. ASSUME NEW w \in Workers, RunOnce(w) PROVE OVNInvariant' /\ HistoryFixed
  BY <1>6, ReleaseStays, WorkerRuns
<1>7. ASSUME NEW w \in Workers, NetworkWorkerExits(w) PROVE OVNInvariant' /\ HistoryFixed
  BY <1>7, ReleaseExit, OVNRests DEF NetworkWorkerExits, authorityVars, backendVars
<1>8. ASSUME NEW w \in Workers, NEW r \in Releases, NEW m \in BOOLEAN, NetworkWorkerStarts(w, r, m)
      PROVE  OVNInvariant' /\ HistoryFixed
  BY <1>8, ReleaseDecided, PortsStay DEF NetworkWorkerStarts
<1>9. ASSUME NEW w \in Workers, NEW state \in {"DRAINING", "STOPPED"}, NetworkWorkerDrains(w, state)
      PROVE  OVNInvariant' /\ HistoryFixed
  BY <1>9, ReleaseLifecycle, PortsStay DEF NetworkWorkerDrains
<1>10. ASSUME NEW p \in OVNPorts, ControllerBinds(p) \/ \E h \in Chassis \cup {NoChassis} : PlugsInterface(p, h)
       PROVE  OVNInvariant' /\ HistoryFixed
  <2>1. UNCHANGED releaseVars
    BY <1>10 DEF ControllerBinds, PlugsInterface
  <2>. QED  BY <1>10, <2>1, ReleaseStays, OVNBackend
<1>11. ASSUME ReleaseStep, UNCHANGED ovnVars PROVE OVNInvariant' /\ HistoryFixed
  <2>1. ReleaseInvariant'
    BY <1>11, ReleaseManifest, ReleaseEdge, ReleasePromoted, ReleaseSet, RevocationMissed, ReleaseRevoked,
       ReleaseSchema DEF ReleaseStep
  <2>. QED  BY <1>11, <2>1, PortsStay
<1>12. ASSUME NEW w \in Workers, NetworkWorkerRegistered(w) PROVE OVNInvariant' /\ HistoryFixed
  BY <1>12, ReleaseRegistered, PortsStay DEF NetworkWorkerRegistered
<1>13. ASSUME WorkerStep PROVE OVNInvariant' /\ HistoryFixed
  BY <1>6, <1>7, <1>8, <1>9, <1>12, <1>13 DEF WorkerStep
<1>. QED  BY <1>1, <1>2, <1>3, <1>4, <1>5, <1>10, <1>11, <1>13
          DEF RuntimeNext, IntentStep, ClaimStep, BackendStep

LEMMA OVNInvariantTheorem == OVNSpec => []OVNInvariant
<1>1. RuntimeInit => OVNInvariant
  BY ReleaseStarts, OVNStarts DEF RuntimeInit, OVNInvariant
<1>. QED  BY <1>1, OVNStep, PTL DEF OVNSpec, runtimeVars

\* Every row of the release authority, the work items and the retirements, and
\* every object of the OVN databases, keeps its columns and states, for any
\* number of releases, workers and ports.
THEOREM OVNTypeTheorem == OVNSpec => [](ReleaseTypeOK /\ OVNTypeOK)
<1>1. OVNInvariant => ReleaseTypeOK /\ OVNTypeOK
  BY DEF OVNInvariant, ReleaseInvariant, PortsInvariant
<1>. QED  BY <1>1, OVNInvariantTheorem, PTL

\* Whatever is registered, promoted, switched or revoked in between, and
\* however the transactions that do so overlap, a worker bound and in use at
\* the current authority generation understands the schema that is written.
THEOREM BoundWorkersTheorem == OVNSpec => []BoundWorkersUnderstandSchema
<1>1. OVNInvariant => BoundWorkersUnderstandSchema
  BY DEF OVNInvariant, ReleaseInvariant, BindingUnderstands, BoundWorkersUnderstandSchema
<1>. QED  BY <1>1, OVNInvariantTheorem, PTL

\* The proof a handoff rested on is never rewritten: quarantines and
\* completions of late workers, and superseding intents, write the retirement
\* of the port's current incarnation only.
THEOREM RetiredHistoryTheorem == OVNSpec => RetiredHistoryIsFixed
<1>. DEFINE Fixed == \A p \in OVNPorts : \A n \in DOMAIN retirement[p] :
                       n < port[p].inc => retirement'[p][n] = retirement[p][n]
<1>1. OVNInvariant /\ [RuntimeNext]_runtimeVars => [Fixed]_retirement
  BY OVNStep DEF HistoryFixed
<1>. QED  BY <1>1, OVNInvariantTheorem, PTL DEF OVNSpec, runtimeVars, RetiredHistoryIsFixed
=============================================================================
