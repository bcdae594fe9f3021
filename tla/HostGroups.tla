------------------------------ MODULE HostGroups ------------------------------
(***************************************************************************)
(* HostGroup revisions, cardinality policies, hierarchies, selectors,      *)
(* external assertions and the membership sets that are published from     *)
(* them (host_group*.go).  All groups are of one type and dimension; a     *)
(* level is its rank in the hierarchy.                                     *)
(*                                                                         *)
(* Every operation is one transaction under the advisory locks of its      *)
(* group, cardinality scope and hierarchy scope, hence one step.  A caller *)
(* sends the generations it has read; a request whose generations are not  *)
(* the current ones is refused and changes nothing, and so does the replay *)
(* of a request id, so only the accepted requests are steps.               *)
(***************************************************************************)
EXTENDS Integers, FiniteSets

CONSTANTS
  Groups, GroupHosts,
  Levels,       \* ranks, 0 is the top
  Assertions    \* assertion ids

ASSUME HostGroupsAssumption == IsFiniteSet(Groups) /\ 0 \in Levels /\ Levels \subseteq Nat

VARIABLES
  groups,        \* host_groups_current
  cardinality,   \* host_group_cardinality_policies_current, by level
  hierarchy,     \* host_group_hierarchy_sets_current and its node evidence
  selectors,     \* host_group_selectors_current, by group
  evaluations,   \* host_group_selector_evaluation_evidence
  inventory,     \* host_capability_projections: generation and what the
                 \* selector expression makes of the snapshot
  issuer,        \* host_group_external_assertion_issuers_current and scopes
  assertions,    \* host_group_external_assertion_evidence, by assertion id
  sets,          \* host_group_membership_sets_current
  members,       \* host_group_memberships_current
  frozen      \* host_group_membership_snapshot_evidence and its members

groupVars == <<groups, cardinality, hierarchy, selectors, evaluations, inventory, issuer,
               assertions, sets, members, frozen>>

Lifecycles == {"DRAFT", "ACTIVE", "DRAINING", "RETIRED"}
Cardinalities == {"EXACTLY_ONE", "ZERO_OR_ONE", "MANY"}
Matches == {"MATCHED", "NOT_MATCHED", "UNKNOWN", "UNSUPPORTED"}
SelectorStates == {"ACTIVE", "DRAINING", "RETIRED"}
MembershipStates == {"ACTIVE", "STALE", "BLOCKED", "REMOVED"}

\* source_type and source_revision of a membership.
Explicit == <<"EXPLICIT", 0>>
NoMember == [gen |-> 0, state |-> "NONE", source |-> Explicit]
NoBasis == [group |-> 0, policy |-> 0, kind |-> "MANY", hierarchy |-> 0, selector |-> 0]
Sources == {Explicit} \cup ({"SELECTOR"} \X Nat) \cup ({"EXTERNAL_ASSERTION"} \X Assertions)

GroupRow == [gen : Nat, level : Levels, lifecycle : Lifecycles]
PolicyRow == [gen : Nat, kind : Cardinalities, state : {"ACTIVE", "RETIRED"}]
SelectorRow == [gen : Nat, group : Nat, state : SelectorStates]
Projection == [gen : Nat, current : BOOLEAN, match : Matches]
Basis == [group : Nat, policy : Nat, kind : Cardinalities, hierarchy : Nat, selector : Nat]
SetRow == [gen : Nat, source : Sources, basis : Basis]
MemberRow == [gen : Nat, state : MembershipStates \cup {"NONE"}, source : Sources]

AssertionRow ==
  [verdict : {"UNTRUSTED_ISSUER", "INVALID", "STALE_HOST_GROUP", "VERIFIED"}, group : Groups,
   groupGen : Nat, issuer : Nat, hierarchy : Nat, hosts : SUBSET GroupHosts, expired : BOOLEAN]

GroupsTypeOK ==
  /\ groups \in [Groups -> GroupRow]
  /\ cardinality \in [Levels -> PolicyRow]
  /\ hierarchy.gen \in Nat
  /\ DOMAIN hierarchy.nodes \subseteq Groups /\ DOMAIN hierarchy.parent \subseteq Groups
  /\ \A n \in DOMAIN hierarchy.nodes : hierarchy.nodes[n] <= groups[n].gen
  /\ selectors \in [Groups -> SelectorRow]
  /\ inventory \in [GroupHosts -> Projection]
  /\ \A e \in evaluations : e.group \in Groups /\ e.result \in Matches /\ e.matched \subseteq GroupHosts
  /\ issuer.gen \in Nat /\ issuer.state \in {"NONE", "TRUSTED", "RETIRED", "REVOKED"}
  /\ \A a \in Assertions : assertions[a].verdict # "NONE" => assertions[a] \in AssertionRow
  /\ sets \in [Groups -> SetRow]
  /\ members \in [Groups -> [GroupHosts -> MemberRow]]

-----------------------------------------------------------------------------
(***************************************************************************)
(* Groups, cardinality policies and the hierarchy                          *)
(***************************************************************************)

Exists(g) == groups[g].gen > 0
Active(g) == Exists(g) /\ groups[g].lifecycle = "ACTIVE"

HostGroupLifecycleTransition(from, to) ==
  \/ from = to
  \/ <<from, to>> \in {<<"DRAFT", "ACTIVE">>, <<"ACTIVE", "DRAINING">>,
                       <<"DRAINING", "ACTIVE">>, <<"DRAINING", "RETIRED">>}

\* A group of a new scope brings the policy MANY with it.
UpsertHostGroup(g, gen, level, lifecycle) ==
  /\ gen > groups[g].gen
  /\ Exists(g) => /\ level = groups[g].level
                  /\ HostGroupLifecycleTransition(groups[g].lifecycle, lifecycle)
  /\ groups' = [groups EXCEPT ![g] = [gen |-> gen, level |-> level, lifecycle |-> lifecycle]]
  /\ cardinality' = IF cardinality[level].gen > 0 THEN cardinality
                    ELSE [cardinality EXCEPT ![level] = [gen |-> 1, kind |-> "MANY", state |-> "ACTIVE"]]
  /\ UNCHANGED <<hierarchy, selectors, evaluations, inventory, issuer, assertions, sets, members, frozen>>

\* The active groups of a level, without g, in which h is an active member.
AssignedElsewhere(g, h, level) ==
  {o \in Groups \ {g} : Active(o) /\ groups[o].level = level /\ members[o][h].state = "ACTIVE"}

\* Two active groups of the level already share a Host.
ExistingCardinalityViolated(level) ==
  \E g \in Groups, h \in GroupHosts : /\ Active(g) /\ groups[g].level = level
                                 /\ members[g][h].state = "ACTIVE"
                                 /\ AssignedElsewhere(g, h, level) # {}

UpsertHostGroupCardinalityPolicy(level, gen, kind, state) ==
  /\ gen > cardinality[level].gen
  /\ state = "ACTIVE" /\ kind # "MANY" => ~ExistingCardinalityViolated(level)
  /\ cardinality' = [cardinality EXCEPT ![level] = [gen |-> gen, kind |-> kind, state |-> state]]
  /\ UNCHANGED <<groups, hierarchy, selectors, evaluations, inventory, issuer, assertions, sets,
                 members, frozen>>

\* Every parent is of a lower rank, and every node below the top has one.
RelationsAccepted(nodes, parent) ==
  /\ \A c \in DOMAIN parent : /\ c \in nodes /\ parent[c] \in nodes
                              /\ groups[parent[c]].level < groups[c].level
  /\ \A n \in nodes : groups[n].level > 0 => n \in DOMAIN parent

NodesAccepted(nodes) == nodes # {} /\ \A n \in nodes : Active(n)

PublishHostGroupHierarchy(nodes, parent) ==
  LET next == [n \in nodes |-> groups[n].gen] IN
  /\ NodesAccepted(nodes)
  /\ RelationsAccepted(nodes, parent)
  /\ next # hierarchy.nodes \/ parent # hierarchy.parent
  /\ hierarchy' = [gen |-> hierarchy.gen + 1, nodes |-> next, parent |-> parent]
  /\ UNCHANGED <<groups, cardinality, selectors, evaluations, inventory, issuer, assertions, sets,
                 members, frozen>>

\* No node of the hierarchy has been revised since it was published.
HierarchyFresh ==
  \A n \in DOMAIN hierarchy.nodes : hierarchy.nodes[n] = groups[n].gen /\ Active(n)

\* A group resolves to the hierarchy there is, or there is none.
HierarchyResolves(g) ==
  hierarchy.gen > 0 => g \in DOMAIN hierarchy.nodes /\ HierarchyFresh

-----------------------------------------------------------------------------
(***************************************************************************)
(* Selectors and what they make of the inventory                           *)
(***************************************************************************)

\* What AcceptHostInventory does to the projection of a Host (HostAuthority
\* has what it does to the authority): a later observation replaces it, and
\* one that was not collected completely is DEGRADED, not CURRENT.
ProjectInventory(h, current, match) ==
  /\ inventory' = [inventory EXCEPT ![h] = [gen |-> @.gen + 1, current |-> current, match |-> match]]
  /\ UNCHANGED <<groups, cardinality, hierarchy, selectors, evaluations, issuer, assertions, sets,
                 members, frozen>>

UpsertHostGroupSelector(g, gen, state) ==
  /\ Active(g)
  /\ gen > selectors[g].gen
  /\ selectors' = [selectors EXCEPT ![g] = [gen |-> gen, group |-> groups[g].gen, state |-> state]]
  /\ UNCHANGED <<groups, cardinality, hierarchy, evaluations, inventory, issuer, assertions, sets,
                 members, frozen>>

SelectorCurrent(g) ==
  selectors[g].gen > 0 /\ selectors[g].group = groups[g].gen /\ selectors[g].state = "ACTIVE"

\* evaluateSelectorHostTx: a Host without a CURRENT projection is UNKNOWN.
HostMatch(h) ==
  IF inventory[h].gen > 0 /\ inventory[h].current THEN inventory[h].match ELSE "UNKNOWN"

OverallMatch(hs) ==
  IF \E h \in hs : HostMatch(h) = "UNKNOWN" THEN "UNKNOWN"
  ELSE IF \E h \in hs : HostMatch(h) = "UNSUPPORTED" THEN "UNSUPPORTED"
  ELSE IF \E h \in hs : HostMatch(h) = "MATCHED" THEN "MATCHED" ELSE "NOT_MATCHED"

\* The group, its policy, its hierarchy and the selector are all current.
SelectorEvaluable(g) ==
  /\ Active(g) /\ cardinality[groups[g].level].state = "ACTIVE"
  /\ HierarchyResolves(g)
  /\ SelectorCurrent(g)

EvaluateHostGroupSelector(g, hs) ==
  LET level == groups[g].level
      gen == Cardinality({e \in evaluations : e.group = g}) + 1
  IN /\ SelectorEvaluable(g)
     /\ hs # {}
     /\ evaluations' = evaluations \cup
          {[gen |-> gen, group |-> g, result |-> OverallMatch(hs),
            matched |-> {h \in hs : HostMatch(h) = "MATCHED"},
            seen |-> [h \in hs |-> inventory[h].gen],
            basis |-> [group |-> groups[g].gen, policy |-> cardinality[level].gen,
                       kind |-> cardinality[level].kind, hierarchy |-> hierarchy.gen,
                       selector |-> selectors[g].gen]]}
     /\ UNCHANGED <<groups, cardinality, hierarchy, selectors, inventory, issuer, assertions, sets,
                    members, frozen>>

\* Mutant: the projections are not read again.
EvaluationStillObservedOnce(e) ==
  e.result \notin {"UNKNOWN", "UNSUPPORTED"}

\* loadAndRevalidateSelectorEvaluationHostsTx
EvaluationStillObserved(e) ==
  /\ e.result \notin {"UNKNOWN", "UNSUPPORTED"}
  /\ \A h \in DOMAIN e.seen : e.seen[h] > 0 /\ inventory[h].gen = e.seen[h] /\ inventory[h].current

-----------------------------------------------------------------------------
(***************************************************************************)
(* External assertions                                                     *)
(***************************************************************************)

\* RETIRED and REVOKED are final.
PublishExternalAssertionIssuer(state, scope) ==
  /\ issuer.state \notin {"RETIRED", "REVOKED"}
  /\ state = "TRUSTED" => scope # {} /\ \A g \in scope : Active(g)
  /\ issuer' = [gen |-> issuer.gen + 1, state |-> state, scope |-> [g \in scope |-> groups[g].gen]]
  /\ UNCHANGED <<groups, cardinality, hierarchy, selectors, evaluations, inventory, assertions, sets,
                 members, frozen>>

InScope(g) == g \in DOMAIN issuer.scope /\ issuer.scope[g] = groups[g].gen

\* Whether schema, audience, digest, nonce, signature and window are in
\* order is decided by the assertion: wellFormed.
Verdict(g, wellFormed) ==
  IF issuer.gen = 0 \/ issuer.state # "TRUSTED" THEN "UNTRUSTED_ISSUER"
  ELSE IF ~wellFormed THEN "INVALID"
  ELSE IF ~InScope(g) \/ ~Active(g) THEN "STALE_HOST_GROUP" ELSE "VERIFIED"

\* VerifyExternalHostGroupAssertion records its verdict once per assertion
\* id.
VerifyExternalHostGroupAssertion(a, g, hs, wellFormed) ==
  LET verdict == Verdict(g, wellFormed)
  IN /\ assertions[a].verdict = "NONE"
     /\ Exists(g)
     /\ verdict = "VERIFIED" => HierarchyResolves(g)
     /\ assertions' = [assertions EXCEPT ![a] =
          [verdict |-> verdict, group |-> g, groupGen |-> groups[g].gen, issuer |-> issuer.gen,
           hierarchy |-> IF verdict = "VERIFIED" THEN hierarchy.gen ELSE 0,
           hosts |-> hs, expired |-> FALSE]]
     /\ UNCHANGED <<groups, cardinality, hierarchy, selectors, evaluations, inventory, issuer, sets,
                    members, frozen>>

\* expires_at passes.
AssertionExpires(a) ==
  /\ assertions[a].verdict # "NONE" /\ ~assertions[a].expired
  /\ assertions' = [assertions EXCEPT ![a].expired = TRUE]
  /\ UNCHANGED <<groups, cardinality, hierarchy, selectors, evaluations, inventory, issuer, sets,
                 members, frozen>>

\* MaterializeExternalAssertionMembershipSet and the validation in publish.
AssertionStillHolds(a) ==
  LET v == assertions[a] IN
  /\ v.verdict = "VERIFIED" /\ ~v.expired
  /\ issuer.gen = v.issuer /\ issuer.state = "TRUSTED"
  /\ Active(v.group) /\ groups[v.group].gen = v.groupGen
  /\ InScope(v.group)
  /\ hierarchy.gen = v.hierarchy

-----------------------------------------------------------------------------
(***************************************************************************)
(* Membership sets                                                         *)
(***************************************************************************)

\* The members of a set: the requested rows, and every other row of the
\* group as REMOVED.
CompletedMembers(g, requested, source) ==
  [h \in GroupHosts |->
     IF h \in DOMAIN requested THEN requested[h]
     ELSE IF members[g][h].state \notin {"NONE", "REMOVED"}
          THEN [gen |-> members[g][h].gen + 1, state |-> "REMOVED", source |-> source]
          ELSE members[g][h]]

\* Mutant: only the count within the group is limited.
CardinalityAllowsLocally(g, kind, rows) == TRUE

CardinalityAllows(g, kind, rows) ==
  kind = "MANY" \/
  \A h \in GroupHosts :
    LET elsewhere == Cardinality(AssignedElsewhere(g, h, groups[g].level)) IN
    CASE rows[h].state = "ACTIVE" -> elsewhere = 0
      [] rows[h].state = "NONE" -> elsewhere <= 1
      [] OTHER -> elsewhere <= 1 /\ (kind = "EXACTLY_ONE" => elsewhere = 1)

\* Evidence of one membership generation is written once.
MemberGenerationsAccepted(g, rows) ==
  \A h \in DOMAIN rows : /\ rows[h].gen >= members[g][h].gen
                         /\ rows[h].gen = members[g][h].gen => rows[h] = members[g][h]

\* The group, its policy and its hierarchy are those the request was made
\* against.
MembershipPublishable(g) ==
  /\ Active(g) /\ cardinality[groups[g].level].state = "ACTIVE"
  /\ HierarchyResolves(g)

\* The current set already says so: publishing it again returns it.
SetAlreadyCurrent(g, rows, basis, source) ==
  rows = members[g] /\ basis = sets[g].basis /\ source = sets[g].source

PublishMembershipSet(g, requested, source, selectorGen) ==
  LET policy == cardinality[groups[g].level]
      rows == CompletedMembers(g, requested, source)
      basis == [group |-> groups[g].gen, policy |-> policy.gen, kind |-> policy.kind,
                hierarchy |-> hierarchy.gen, selector |-> selectorGen]
  IN /\ MembershipPublishable(g)
     /\ MemberGenerationsAccepted(g, rows)
     /\ CardinalityAllows(g, policy.kind, rows)
     /\ ~ SetAlreadyCurrent(g, rows, basis, source)
     /\ sets' = [sets EXCEPT ![g] = [gen |-> @.gen + 1, source |-> source, basis |-> basis]]
     /\ members' = [members EXCEPT ![g] = rows]
     /\ UNCHANGED <<groups, cardinality, hierarchy, selectors, evaluations, inventory, issuer,
                    assertions, frozen>>

\* AssignHostGroupMembership: the current rows with one of them replaced.
AssignHostGroupMembership(g, h, gen, state) ==
  LET current == [o \in {o \in GroupHosts : members[g][o].gen > 0} |-> members[g][o]]
      row == [gen |-> gen, state |-> state, source |-> Explicit]
  IN PublishMembershipSet(g, [o \in DOMAIN current \cup {h} |-> IF o = h THEN row ELSE current[o]],
                          Explicit, 0)

PublishHostGroupMembershipSet(g, requested) ==
  PublishMembershipSet(g, requested, Explicit, 0)

MaterializeHostGroupSelectorEvaluation(e) ==
  LET g == e.group
      source == <<"SELECTOR", e.gen>>
      row(h) == LET current == members[g][h] IN
                [gen |-> IF current.gen = 0 THEN 1
                         ELSE IF current.state = "ACTIVE" /\ current.source = source THEN current.gen
                         ELSE current.gen + 1,
                 state |-> "ACTIVE", source |-> source]
  IN /\ selectors[g].gen = e.basis.selector /\ SelectorCurrent(g)
     /\ EvaluationStillObserved(e)
     /\ e.basis.group = groups[g].gen
     /\ e.basis.policy = cardinality[groups[g].level].gen
     /\ e.basis.hierarchy = hierarchy.gen
     /\ PublishMembershipSet(g, [h \in e.matched |-> row(h)], source, e.basis.selector)

MaterializeExternalAssertionMembershipSet(a) ==
  LET v == assertions[a] IN
  /\ AssertionStillHolds(a)
  /\ PublishMembershipSet(v.group,
       [h \in v.hosts |-> [gen |-> members[v.group][h].gen + 1, state |-> "ACTIVE",
                           source |-> <<"EXTERNAL_ASSERTION", a>>]],
       <<"EXTERNAL_ASSERTION", a>>, 0)

\* The membership set of g is authority for placements and snapshots.
MembershipSetCurrent(g) ==
  LET basis == sets[g].basis
      policy == cardinality[groups[g].level]
  IN /\ sets[g].gen > 0 /\ Active(g)
     /\ basis.group = groups[g].gen
     /\ policy.state = "ACTIVE" /\ basis.policy = policy.gen /\ basis.kind = policy.kind
     /\ IF selectors[g].gen = 0 THEN basis.selector = 0
        ELSE basis.selector = selectors[g].gen /\ SelectorCurrent(g)
     /\ IF hierarchy.gen = 0 THEN basis.hierarchy = 0
        ELSE basis.hierarchy = hierarchy.gen /\ HierarchyResolves(g)

\* The frozen members a maintenance plan or an upgrade campaign starts from.
CreateHostGroupMembershipSnapshot(g) ==
  LET snapshot == [group |-> g, groupGen |-> groups[g].gen, set |-> sets[g].gen,
                   basis |-> sets[g].basis,
                   members |-> {h \in GroupHosts : members[g][h].state = "ACTIVE"}]
  IN /\ MembershipSetCurrent(g)
     /\ snapshot \notin frozen
     /\ frozen' = frozen \cup {snapshot}
     /\ UNCHANGED <<groups, cardinality, hierarchy, selectors, evaluations, inventory, issuer,
                    assertions, sets, members>>

-----------------------------------------------------------------------------

GroupsInit ==
  /\ groups = [g \in Groups |-> [gen |-> 0, level |-> 0, lifecycle |-> "DRAFT"]]
  /\ cardinality = [l \in Levels |-> [gen |-> 0, kind |-> "MANY", state |-> "ACTIVE"]]
  /\ hierarchy = [gen |-> 0, nodes |-> <<>>, parent |-> <<>>]
  /\ selectors = [g \in Groups |-> [gen |-> 0, group |-> 0, state |-> "ACTIVE"]]
  /\ evaluations = {}
  /\ inventory = [h \in GroupHosts |-> [gen |-> 0, current |-> FALSE, match |-> "UNKNOWN"]]
  /\ issuer = [gen |-> 0, state |-> "NONE", scope |-> <<>>]
  /\ assertions = [a \in Assertions |-> [verdict |-> "NONE"]]
  /\ sets = [g \in Groups |-> [gen |-> 0, source |-> Explicit, basis |-> NoBasis]]
  /\ members = [g \in Groups |-> [h \in GroupHosts |-> NoMember]]
  /\ frozen = {}

\* A caller's new generation is the next one.
ReviseGroups ==
  \E g \in Groups, level \in Levels, lifecycle \in Lifecycles :
    UpsertHostGroup(g, groups[g].gen + 1, level, lifecycle)

RevisePolicies ==
  \E level \in Levels, kind \in Cardinalities, state \in {"ACTIVE", "RETIRED"} :
    UpsertHostGroupCardinalityPolicy(level, cardinality[level].gen + 1, kind, state)

ArrangeHierarchy ==
  \E nodes \in SUBSET Groups : \E children \in SUBSET nodes : \E parent \in [children -> nodes] :
    PublishHostGroupHierarchy(nodes, parent)

AssignMembers ==
  \E g \in Groups :
    \/ \E h \in GroupHosts, ahead \in 0..1, state \in MembershipStates :
         AssignHostGroupMembership(g, h, members[g][h].gen + ahead, state)
    \/ \E hs \in SUBSET GroupHosts, ahead \in 0..1 : \E states \in [hs -> MembershipStates] :
         PublishHostGroupMembershipSet(g,
           [h \in hs |-> [gen |-> members[g][h].gen + ahead, state |-> states[h], source |-> Explicit]])

SnapshotMembers == \E g \in Groups : CreateHostGroupMembershipSnapshot(g)

SelectMembers ==
  \/ \E h \in GroupHosts, current \in BOOLEAN, match \in Matches : ProjectInventory(h, current, match)
  \/ \E g \in Groups, state \in SelectorStates :
       UpsertHostGroupSelector(g, selectors[g].gen + 1, state)
  \/ \E g \in Groups, hs \in SUBSET GroupHosts : EvaluateHostGroupSelector(g, hs)
  \/ \E e \in evaluations : MaterializeHostGroupSelectorEvaluation(e)

AssertMembers ==
  \/ \E state \in {"TRUSTED", "RETIRED", "REVOKED"}, scope \in SUBSET Groups :
       PublishExternalAssertionIssuer(state, scope)
  \/ \E a \in Assertions :
       \/ \E g \in Groups, hs \in SUBSET GroupHosts, wellFormed \in BOOLEAN :
            VerifyExternalHostGroupAssertion(a, g, hs, wellFormed)
       \/ AssertionExpires(a)
       \/ MaterializeExternalAssertionMembershipSet(a)

GroupsNext ==
  ReviseGroups \/ RevisePolicies \/ ArrangeHierarchy \/ AssignMembers \/ SelectMembers \/ AssertMembers
  \/ SnapshotMembers

GroupsSpec == GroupsInit /\ [][GroupsNext]_groupVars

-----------------------------------------------------------------------------
(***************************************************************************)
(* Properties                                                              *)
(***************************************************************************)

\* While a level has a policy other than MANY, no Host is an active member
\* of two of its groups whose membership sets are both authority.  Draining
\* groups are not counted when a set is published and a group that becomes
\* active again is not counted afterwards either; what keeps the two apart
\* is that its old set is based on an older generation of the group.
CardinalityHolds ==
  \A g, o \in Groups : \A h \in GroupHosts :
    /\ g # o /\ groups[g].level = groups[o].level
    /\ cardinality[groups[g].level].kind # "MANY"
    /\ MembershipSetCurrent(g) /\ MembershipSetCurrent(o)
    => ~(members[g][h].state = "ACTIVE" /\ members[o][h].state = "ACTIVE")

\* A set that is published from a selector or an assertion is true at that
\* moment: its members match in their current snapshots, or its issuer is
\* trusted for this generation of the group and the assertion has not expired.
PublishedFromCurrentEvidence ==
  [][\A g \in Groups : sets'[g].gen > sets[g].gen =>
       /\ sets'[g].source[1] = "SELECTOR" =>
            \A h \in GroupHosts : members'[g][h].state = "ACTIVE" => HostMatch(h) = "MATCHED"
       /\ sets'[g].source[1] = "EXTERNAL_ASSERTION" =>
            issuer.state = "TRUSTED" /\ InScope(g) /\ ~assertions[sets'[g].source[2]].expired]_groupVars
=============================================================================
