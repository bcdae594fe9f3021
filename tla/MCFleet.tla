------------------------------ MODULE MCFleet ------------------------------
(* Instance for TLC of what happens to the Hosts of a fleet: authority,     *)
(* sessions, groups, maintenance and upgrades.  `part` selects the component *)
(* that moves; the others keep their initial state.                          *)
EXTENDS HostAuthority, SessionAdmission, HostGroups, UpgradeCampaign, FiniteSetsExt, TLC

CONSTANTS
  m1, m2, h1, h2, x1, x2,
  MaxGroupWrites,        \* bound on the revisions of groups, policies, sets and evidence
  MaxMaintenanceWrites,  \* bounds on plan revisions, claims and attempts
  MaxUpgradeWrites,
  MaxNewWrites

VARIABLE part

GroupParts == {"hierarchy", "assign", "select", "assert"}
DisruptionParts == {"maintenance", "upgrade", "both"}

fleetVars == <<hostVars, sessionVars, groupVars, maintenanceVars, upgradeVars, part>>

MCWaveOf == x1 :> 1 @@ x2 :> 2
MCHostOf == x1 :> h1 @@ x2 :> NoHost

FleetSymmetry == Permutations(SessionAttempts)

Total(f) == FoldFunction(+, 0, f)

GroupWrites ==
  hierarchy.gen + Cardinality(evaluations) + issuer.gen + Cardinality(frozen)
  + Total([g \in Groups |-> groups[g].gen + sets[g].gen + selectors[g].gen])
  + Total([l \in Levels |-> cardinality[l].gen]) + Total([h \in GroupHosts |-> inventory[h].gen])
  + Cardinality({a \in Assertions : assertions[a].verdict # "NONE"})

DisruptionWrites ==
  campaign.rev + campaign.claim + Total([t \in DOMAIN upgrade |-> upgrade[t].attempt])
  + Total([t \in DOMAIN recovery |-> recovery[t].attempt + recovery[t].gen])
  + Total([m \in Plans |-> plan[m].rev + plan[m].claim])
  + Total([t \in DOMAIN target |-> target[t].attempt])

-----------------------------------------------------------------------------
\* Two plans over the same Hosts, each with its coordinator, or a campaign in
\* its first wave: what the first four writes lead to.
Coordinated == [NoPlan EXCEPT !.state = "ACTIVE", !.rev = 1, !.claim = 1, !.held = TRUE, !.live = TRUE]

PlansActive ==
  /\ armed = FleetHosts /\ disruptive = [h \in FleetHosts |-> NoClaim]
  /\ plan = [m \in Plans |-> Coordinated]
  /\ target = [t \in {<<m1, 1, h1>>, <<m1, 1, h2>>, <<m2, 1, h1>>} |-> NewTarget]

CanaryStarted ==
  /\ campaign = [state |-> "CANARY", rev |-> 1, wave |-> 1, claim |-> 1, live |-> TRUE,
                 polling |-> TRUE, decided |-> NoDecision]
  /\ upgrade = [t \in {1} \X UpgradeTargets |-> NewUpgrade]
  /\ recovery = [t \in {1} \X UpgradeTargets |-> NoRecovery]
  /\ worker = {} /\ installed = [x \in UpgradeTargets |-> "OLD"]

FleetInit ==
  /\ part \in {"host", "session"} \cup GroupParts \cup DisruptionParts
  /\ HostInit /\ SessionInit /\ GroupsInit
  /\ IF part = "maintenance" THEN PlansActive ELSE MaintenanceInit
  /\ IF part = "upgrade" THEN CanaryStarted ELSE UpgradeInit

GroupPart ==
  /\ \/ ReviseGroups
     \/ part = "hierarchy" /\ (ArrangeHierarchy \/ AssignMembers)
     \/ part = "assign" /\ (RevisePolicies \/ AssignMembers \/ SnapshotMembers)
     \/ part = "select" /\ SelectMembers
     \/ part = "assert" /\ AssertMembers
  /\ part # "hierarchy" => /\ \A g \in Groups : groups'[g].level = 0
                            /\ \A l \in Levels \ {0} : cardinality'[l] = cardinality[l]
  /\ GroupWrites' <= MaxGroupWrites

\* In "upgrade" only the canary's target moves, so that everything that may
\* still happen to it after its wave has passed is in reach.
UpgradePart ==
  /\ UpgradeStep /\ campaign'.rev = campaign.rev /\ upgrade'[<<1, x2>>] = upgrade[<<1, x2>>]
  /\ DisruptionWrites' <= MaxUpgradeWrites

DisruptionPart ==
  \/ /\ part = "maintenance" /\ MaintenanceNext /\ UNCHANGED upgradeVars
     /\ h1 \in armed' /\ DisruptionWrites' <= MaxMaintenanceWrites
  \/ part = "upgrade" /\ UpgradePart
  \/ part = "both" /\ DisruptionNext /\ DisruptionWrites' <= MaxNewWrites

FleetNext ==
  /\ UNCHANGED part
  /\ \/ part = "host" /\ HostNext /\ UNCHANGED <<sessionVars, groupVars, maintenanceVars, upgradeVars>>
     \/ part = "session" /\ SessionNext /\ UNCHANGED <<hostVars, groupVars, maintenanceVars, upgradeVars>>
     \/ part \in GroupParts /\ GroupPart /\ UNCHANGED <<hostVars, sessionVars, maintenanceVars, upgradeVars>>
     \/ part \in DisruptionParts /\ DisruptionPart /\ UNCHANGED <<hostVars, sessionVars, groupVars>>

FleetSpec == FleetInit /\ [][FleetNext]_fleetVars

\* Every row of the tables behind the five components has the columns and
\* states of its table.
FleetTypeOK == HostTypeOK /\ SessionTypeOK /\ GroupsTypeOK /\ MaintenanceTypeOK /\ UpgradeTypeOK
=============================================================================
