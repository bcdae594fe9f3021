---------------------------- MODULE FleetProofs ----------------------------
(***************************************************************************)
(* What holds of the sessions, the groups and the disruptive operations of *)
(* a fleet of any size.                                                    *)
(***************************************************************************)
EXTENDS SessionAdmission, HostGroups, UpgradeCampaign, FiniteSetTheorems, TLAPS

USE ZenonT(60)

-----------------------------------------------------------------------------
(***************************************************************************)
(* Sessions                                                                *)
(***************************************************************************)

\* What an Agent that has accepted, or runs, knows of PostgreSQL.
AgentInStep ==
  /\ agent.step = "opening" =>
       /\ agent.generation = ledger + 1
       /\ handshake[agent.connection].state # "free"
       /\ handshake[agent.connection].generation = ledger + 1
  /\ agent.step = "accepted" => agent.generation = ledger + 1 /\ registered = ledger + 1
  /\ agent.step = "running" => agent.generation = ledger /\ registered = ledger

\* Every handshake was proposed from the ledger of then, and the ledger of a
\* running Agent has moved past all of them.
HandshakesBehind ==
  \A c \in Connections :
    /\ handshake[c].state = "hello" =>
         /\ handshake[c].generation <= ledger + 1
         /\ agent.step = "running" => handshake[c].generation <= ledger
    /\ handshake[c].state = "granted" => handshake[c].generation <= registered

SessionInvariant ==
  /\ SessionTypeOK
  /\ ledger <= registered /\ registered <= ledger + 1
  /\ AgentInStep
  /\ HandshakesBehind

LEMMA SessionStarts == SessionInit => SessionInvariant
  BY SessionAssumption, ConnectionsAssumption, SMTT(30)
  DEF SessionInit, SessionInvariant, SessionTypeOK, AgentInStep, HandshakesBehind, Generations,
      Free, Down, NoConnection

LEMMA SessionStart == SessionInvariant /\ Start => SessionInvariant'
  BY SessionAssumption, ConnectionsAssumption, SMTT(30)
  DEF Start, SessionInvariant, SessionTypeOK, AgentInStep, HandshakesBehind, Generations,
      Down, Reconnecting, NoConnection

LEMMA SessionPropose ==
  ASSUME SessionInvariant, NEW c \in Connections, Propose(c)
  PROVE  SessionInvariant'
  BY SessionAssumption, ConnectionsAssumption, SMTT(30)
  DEF Propose, SessionInvariant, SessionTypeOK, AgentInStep, HandshakesBehind, Generations,
      Free, Reconnecting, NoConnection

LEMMA SessionOpenFails == SessionInvariant /\ OpenFails => SessionInvariant'
  BY SessionAssumption, ConnectionsAssumption, SMTT(30)
  DEF OpenFails, SessionInvariant, SessionTypeOK, AgentInStep, HandshakesBehind, Generations,
      Free, Reconnecting, NoConnection

LEMMA SessionReceiveAccepted == SessionInvariant /\ ReceiveAccepted => SessionInvariant'
  BY SessionAssumption, ConnectionsAssumption, SMTT(30)
  DEF ReceiveAccepted, SessionInvariant, SessionTypeOK, AgentInStep, HandshakesBehind, Generations,
      NoConnection

LEMMA SessionCommitAccepted == SessionInvariant /\ CommitAccepted => SessionInvariant'
  BY SessionAssumption, ConnectionsAssumption, SMTT(30)
  DEF CommitAccepted, SessionInvariant, SessionTypeOK, AgentInStep, HandshakesBehind, Generations,
      NoConnection

LEMMA SessionAdmit ==
  ASSUME SessionInvariant, NEW c \in Connections, AdmitAgentSessionAttempt(c)
  PROVE  SessionInvariant'
  BY SessionAssumption, ConnectionsAssumption, SMTT(30)
  DEF AdmitAgentSessionAttempt, Grantable, SessionInvariant, SessionTypeOK, AgentInStep,
      HandshakesBehind, Generations, NoConnection

LEMMA SessionClosed ==
  ASSUME SessionInvariant, CommitFails \/ SessionEnds \/ AgentCrash
  PROVE  SessionInvariant'
<1>. USE SessionAssumption, ConnectionsAssumption
     DEF SessionInvariant, SessionTypeOK, AgentInStep, HandshakesBehind, Generations, CloseConnection,
         Free, Down, Reconnecting, NoConnection
<1>1. CASE CommitFails
  <2>1. agent.generation \in Nat /\ agent.generation = ledger + 1 /\ registered = ledger + 1
    BY <1>1, SMTT(30) DEF CommitFails
  <2>2. CASE ledger' = ledger
    BY <1>1, <2>1, <2>2, SMTT(30) DEF CommitFails
  <2>3. CASE ledger' = agent.generation
    BY <1>1, <2>1, <2>3, SMTT(30) DEF CommitFails
  <2>. QED  BY <1>1, <2>2, <2>3 DEF CommitFails
<1>2. CASE SessionEnds
  BY <1>2, SMTT(30) DEF SessionEnds
<1>3. CASE AgentCrash
  BY <1>3, SMTT(30) DEF AgentCrash
<1>. QED  BY <1>1, <1>2, <1>3

LEMMA SessionDropped ==
  ASSUME SessionInvariant, NEW c \in Connections, RefuseHandshake(c) \/ ForgetHandshake(c)
  PROVE  SessionInvariant'
  BY SessionAssumption, ConnectionsAssumption, SMTT(30)
  DEF RefuseHandshake, ForgetHandshake, SessionInvariant, SessionTypeOK, AgentInStep,
      HandshakesBehind, Generations, Free, NoConnection

LEMMA SessionUnchanged == SessionInvariant /\ UNCHANGED sessionVars => SessionInvariant'
  BY DEF SessionInvariant, SessionTypeOK, AgentInStep, HandshakesBehind, sessionVars

LEMMA SessionStep == SessionInvariant /\ [SessionNext]_sessionVars => SessionInvariant'
  BY SessionStart, SessionPropose, SessionOpenFails, SessionReceiveAccepted, SessionCommitAccepted,
     SessionClosed, SessionAdmit, SessionDropped, SessionUnchanged
  DEF SessionNext, AgentStep, GatewayStep

\* For any number of connections, and whatever is lost, given up or killed: the
\* ledger of the Agent is the registered generation or the one before it, and a
\* running Agent runs as the registered one (Ledger.Next, CommitAccepted,
\* AdmitAgentSession).
THEOREM LedgerTheorem == SessionSpec => []LedgerTracksRegistry
<1>1. SessionInvariant => LedgerTracksRegistry
  BY DEF SessionInvariant, AgentInStep, LedgerTracksRegistry
<1>. QED  BY <1>1, SessionStarts, SessionStep, PTL DEF SessionSpec

\* The rows of the Agent and of PostgreSQL stay within their types, and only an
\* Agent that is opening, accepted or running has a connection.
THEOREM SessionTypeTheorem == SessionSpec => []SessionTypeOK
<1>1. SessionInvariant => SessionTypeOK
  BY DEF SessionInvariant
<1>. QED  BY <1>1, SessionStarts, SessionStep, PTL DEF SessionSpec

-----------------------------------------------------------------------------
(***************************************************************************)
(* Disruptive operations: the types                                        *)
(***************************************************************************)

LEMMA MaintenanceStarts == MaintenanceInit => MaintenanceTypeOK
<1>. SUFFICES ASSUME MaintenanceInit PROVE MaintenanceTypeOK
  OBVIOUS
<1>1. NoPlan \in PlanRow
  BY SMTT(30) DEF NoPlan, PlanRow
<1>2. DOMAIN target = {}
  BY SMTT(30) DEF MaintenanceInit
<1>3. NoClaim.active \in BOOLEAN
  BY SMTT(30) DEF NoClaim
<1>. QED  BY <1>1, <1>2, <1>3 DEF MaintenanceInit, MaintenanceTypeOK

LEMMA TargetHost ==
  ASSUME MaintenanceTypeOK, NEW t \in DOMAIN target
  PROVE  t[1] \in Plans /\ t[3] \in FleetHosts
  BY SMTT(30) DEF MaintenanceTypeOK, MaintenanceTargets

\* One row of the plans is replaced.
LEMMA PlanReplaced ==
  ASSUME MaintenanceTypeOK, NEW m \in Plans, NEW row \in PlanRow, plan' = [plan EXCEPT ![m] = row]
  PROVE  plan' \in [Plans -> PlanRow]
  BY DEF MaintenanceTypeOK

LEMMA MaintenancePlanTypes ==
  ASSUME MaintenanceTypeOK, NEW m \in Plans,
         ClaimMaintenanceCoordinator(m) \/ CoordinatorLapses(m) \/ PauseMaintenancePlan(m)
           \/ ResumeMaintenancePlan(m)
  PROVE  MaintenanceTypeOK'
<1>. PICK row : row = plan[m]
  OBVIOUS
<1>1. row \in PlanRow
  BY DEF MaintenanceTypeOK
<1>2. row.claim + 1 \in Nat
  BY <1>1, SMTT(30) DEF PlanRow
<1>3. [row EXCEPT !.state = "ACTIVE", !.claim = row.claim + 1, !.held = TRUE, !.live = TRUE] \in PlanRow
  BY <1>1, <1>2 DEF PlanRow
<1>4. [row EXCEPT !.live = FALSE] \in PlanRow
  BY <1>1 DEF PlanRow
<1>5. [row EXCEPT !.state = "PAUSED"] \in PlanRow
  BY <1>1 DEF PlanRow
<1>6. [[row EXCEPT !.state = "ACTIVE"] EXCEPT !.held = FALSE] \in PlanRow
  BY <1>1 DEF PlanRow
<1>7. CASE ResumeMaintenancePlan(m)
  <2>1. plan' = [plan EXCEPT ![m] = [[row EXCEPT !.state = "ACTIVE"] EXCEPT !.held = FALSE]]
    BY <1>7 DEF ResumeMaintenancePlan, MaintenanceTypeOK
  <2>2. plan' \in [Plans -> PlanRow]
    BY <1>6, <2>1, PlanReplaced
  <2>. QED  BY <1>7, <2>2 DEF ResumeMaintenancePlan, MaintenanceTypeOK
<1>8. CASE ClaimMaintenanceCoordinator(m)
  <2>1. plan' = [plan EXCEPT ![m] =
                   [row EXCEPT !.state = "ACTIVE", !.claim = row.claim + 1, !.held = TRUE, !.live = TRUE]]
    BY <1>1, <1>8 DEF ClaimMaintenanceCoordinator, MaintenanceTypeOK, PlanRow
  <2>2. plan' \in [Plans -> PlanRow]
    BY <1>3, <2>1, PlanReplaced
  <2>. QED  BY <1>8, <2>2 DEF ClaimMaintenanceCoordinator, MaintenanceTypeOK
<1>. QED  BY <1>4, <1>5, <1>7, <1>8, PlanReplaced
          DEF CoordinatorLapses, PauseMaintenancePlan, MaintenanceTypeOK

LEMMA MaintenancePublishTypes ==
  ASSUME MaintenanceTypeOK, NEW m \in Plans, NEW chosen \in SUBSET FleetHosts,
         PublishMaintenancePlan(m, chosen)
  PROVE  MaintenanceTypeOK'
<1>. PICK new : new = {<<m, plan[m].rev + 1, h>> : h \in chosen}
  OBVIOUS
<1>1. plan[m].rev + 1 \in Nat
  BY SMTT(30) DEF MaintenanceTypeOK, PlanRow
<1>2. new \subseteq MaintenanceTargets
  BY <1>1, SMTT(30) DEF MaintenanceTargets
<1>3. NewTarget \in TargetRow
  BY SMTT(30) DEF NewTarget, TargetRow
<1>4. plan' \in [Plans -> PlanRow]
  <2>. PICK row : row = plan[m]
    OBVIOUS
  <2>1. [row EXCEPT !.state = "PREPARED", !.rev = row.rev + 1, !.held = FALSE, !.live = FALSE] \in PlanRow
    BY <1>1 DEF MaintenanceTypeOK, PlanRow
  <2>2. plan' = [plan EXCEPT ![m] =
                   [row EXCEPT !.state = "PREPARED", !.rev = row.rev + 1, !.held = FALSE, !.live = FALSE]]
    BY Zenon DEF PublishMaintenancePlan, MaintenanceTypeOK, PlanRow
  <2>. QED  BY <2>1, <2>2, PlanReplaced
<1>. QED  BY <1>2, <1>3, <1>4 DEF PublishMaintenancePlan, WithRows, MaintenanceTypeOK

\* One row of the targets is replaced.
LEMMA TargetReplaced ==
  ASSUME MaintenanceTypeOK, NEW t \in DOMAIN target, NEW row \in TargetRow,
         target' = [target EXCEPT ![t] = row]
  PROVE  DOMAIN target' \subseteq MaintenanceTargets /\ \A u \in DOMAIN target' : target'[u] \in TargetRow
  BY DEF MaintenanceTypeOK

LEMMA MaintenanceTargetTypes ==
  ASSUME MaintenanceTypeOK, NEW t \in DOMAIN target,
         ClaimMaintenanceTarget(t) \/ TargetLapses(t)
           \/ \E o \in {"SUCCEEDED", "FAILED"} : CompleteMaintenanceTarget(t, o)
  PROVE  MaintenanceTypeOK'
<1>1. target[t] \in TargetRow /\ t[3] \in FleetHosts
  BY TargetHost DEF MaintenanceTypeOK
<1>. PICK row : row = target[t]
  OBVIOUS
<1>2. CASE ClaimMaintenanceTarget(t)
  <2>1. [row EXCEPT !.state = "FENCED"] \in TargetRow
    BY <1>1, SMTT(30) DEF TargetRow
  <2>2. [state |-> "CLAIMED", held |-> TRUE, live |-> TRUE, attempt |-> row.attempt + 1,
         mode |-> IF row.attempt = 0 THEN "APPLY_ALLOWED" ELSE "READ_BACK_FIRST"] \in TargetRow
    BY <1>1, SMTT(30) DEF TargetRow
  <2>3. DOMAIN target' \subseteq MaintenanceTargets /\ \A u \in DOMAIN target' : target'[u] \in TargetRow
    BY <1>2, <2>1, <2>2, TargetReplaced DEF ClaimMaintenanceTarget
  <2>4. DOMAIN disruptive' = FleetHosts /\ \A h \in FleetHosts : disruptive'[h].active \in BOOLEAN
    <3>1. [active |-> TRUE, by |-> Owner(t)].active \in BOOLEAN
      BY SMTT(30)
    <3>. QED  BY <1>1, <1>2, <3>1 DEF ClaimMaintenanceTarget, AcquireDisruptive, MaintenanceTypeOK
  <2>. QED  BY <1>2, <2>3, <2>4 DEF ClaimMaintenanceTarget, MaintenanceTypeOK
<1>3. CASE TargetLapses(t)
  <2>1. [row EXCEPT !.live = FALSE] \in TargetRow
    BY <1>1 DEF TargetRow
  <2>. QED  BY <1>3, <2>1, TargetReplaced DEF TargetLapses, MaintenanceTypeOK
<1>4. ASSUME NEW o \in {"SUCCEEDED", "FAILED"}, CompleteMaintenanceTarget(t, o)
      PROVE  MaintenanceTypeOK'
  <2>1. [row EXCEPT !.state = o, !.held = FALSE, !.live = FALSE, !.mode = "NONE"] \in TargetRow
    BY <1>1 DEF TargetRow
  <2>2. DOMAIN target' \subseteq MaintenanceTargets /\ \A u \in DOMAIN target' : target'[u] \in TargetRow
    BY <1>4, <2>1, TargetReplaced DEF CompleteMaintenanceTarget
  <2>3. DOMAIN disruptive' = FleetHosts /\ \A h \in FleetHosts : disruptive'[h].active \in BOOLEAN
    BY <1>1, <1>4 DEF CompleteMaintenanceTarget, ReleaseDisruptive, MaintenanceTypeOK
  <2>. QED  BY <1>4, <2>2, <2>3 DEF CompleteMaintenanceTarget, MaintenanceTypeOK
<1>. QED  BY <1>2, <1>3, <1>4

LEMMA MaintenanceTypes ==
  MaintenanceTypeOK /\ (MaintenanceStep \/ HostStep) => MaintenanceTypeOK'
<1>1. ASSUME MaintenanceTypeOK, HostStep
      PROVE  MaintenanceTypeOK'
  BY <1>1, SMTT(30) DEF HostStep, FenceHost, ArmHost, MaintenanceTypeOK
<1>. QED  BY <1>1, MaintenancePlanTypes, MaintenancePublishTypes, MaintenanceTargetTypes
          DEF MaintenanceStep

LEMMA UpgradeStarts == UpgradeInit => UpgradeTypeOK
<1>. SUFFICES ASSUME UpgradeInit PROVE UpgradeTypeOK
  OBVIOUS
<1>1. campaign \in CampaignRow
  BY UpgradeAssumption, SMTT(30) DEF UpgradeInit, CampaignRow, WaveDecision
<1>2. DOMAIN upgrade = {} /\ DOMAIN recovery = {}
  BY SMTT(30) DEF UpgradeInit
<1>. QED  BY <1>1, <1>2 DEF UpgradeInit, UpgradeTypeOK

LEMMA UpgradeHost ==
  ASSUME UpgradeTypeOK, NEW t \in DOMAIN upgrade
  PROVE  /\ t[1] \in Nat /\ t[2] \in UpgradeTargets /\ WaveOf[t[2]] \in 1..LastWave
         /\ HostOf[t[2]] # NoHost => HostOf[t[2]] \in FleetHosts
<1>1. t \in Nat \X UpgradeTargets
  BY DEF UpgradeTypeOK
<1>2. t[1] \in Nat /\ t[2] \in UpgradeTargets
  BY <1>1, SMTT(30)
<1>. QED  BY <1>2, UpgradeAssumption

\* One row of the targets, or of their recoveries, is replaced.
LEMMA UpgradeReplaced ==
  ASSUME UpgradeTypeOK, NEW t \in DOMAIN upgrade, NEW row \in UpgradeRow,
         upgrade' = [upgrade EXCEPT ![t] = row], UNCHANGED <<campaign, recovery, installed>>,
         \A w \in worker' : w \in Executor /\ w.target \in DOMAIN upgrade
  PROVE  UpgradeTypeOK'
  BY DEF UpgradeTypeOK

LEMMA RecoveryReplaced ==
  ASSUME UpgradeTypeOK, NEW t \in DOMAIN upgrade, NEW row \in RecoveryRow,
         recovery' = [recovery EXCEPT ![t] = row], UNCHANGED <<campaign, upgrade, installed>>,
         \A w \in worker' : w \in Executor /\ w.target \in DOMAIN upgrade
  PROVE  UpgradeTypeOK'
  BY DEF UpgradeTypeOK

\* An executor goes on to another phase.
LEMMA ExecutorMoves ==
  ASSUME NEW w \in Executor, NEW phase \in {"PROBE", "RECORD", "APPLY", "COMPLETE"}
  PROVE  /\ [w EXCEPT !.phase = phase] \in Executor
         /\ [w EXCEPT !.phase = phase].target = w.target
         /\ [w EXCEPT !.phase = phase, !.applied = TRUE] \in Executor
         /\ [w EXCEPT !.phase = phase, !.applied = TRUE].target = w.target
  BY DEF Executor

LEMMA ExecutorLooks ==
  ASSUME NEW w \in Executor, NEW read \in {"MATCHED", "ABSENT", "CONFLICTING"}, NEW half \in BOOLEAN
  PROVE  /\ [w EXCEPT !.phase = "RECORD", !.read = read, !.half = half] \in Executor
         /\ [w EXCEPT !.phase = "RECORD", !.read = read, !.half = half].target = w.target
  BY DEF Executor

LEMMA Proceeds ==
  ASSUME UpgradeTypeOK, NEW w \in worker, NEW matched, NEW authorized, Proceed(w, matched, authorized)
  PROVE  \A v \in worker' : v \in Executor /\ v.target \in DOMAIN upgrade
<1>. PICK completing : completing = [w EXCEPT !.phase = "COMPLETE"]
  OBVIOUS
<1>. PICK applying : applying = [w EXCEPT !.phase = "APPLY"]
  OBVIOUS
<1>0. w \in Executor /\ w.target \in DOMAIN upgrade
  BY DEF UpgradeTypeOK
<1>3. completing \in Executor /\ completing.target = w.target
  BY <1>0, ExecutorMoves
<1>4. applying \in Executor /\ applying.target = w.target
  BY <1>0, ExecutorMoves
<1>1. \A v \in {completing, applying} : v \in Executor /\ v.target \in DOMAIN upgrade
  BY <1>0, <1>3, <1>4
<1>2. worker' \subseteq worker \cup {completing, applying}
  BY DEF Proceed
<1>. QED  BY <1>1, <1>2 DEF UpgradeTypeOK

LEMMA WorkerStarts ==
  ASSUME UpgradeTypeOK, NEW t \in DOMAIN upgrade, NEW kind \in {"UPGRADE", "RECOVER"},
         NEW gen \in Nat, NEW attempt \in Nat
  PROVE  Worker(t, kind, gen, attempt) \in Executor /\ Worker(t, kind, gen, attempt).target = t
<1>1. t \in Nat \X UpgradeTargets
  BY DEF UpgradeTypeOK
<1>. QED  BY <1>1, SMTT(30) DEF Worker, Executor

LEMMA CampaignTypes ==
  ASSUME UpgradeTypeOK,
         ClaimUpgradeCampaign \/ CampaignClaimLapses \/ ResumeUpgradeCampaign
  PROVE  UpgradeTypeOK'
<1>1. campaign.claim + 1 \in Nat
  BY SMTT(30) DEF UpgradeTypeOK, CampaignRow
<1>2. campaign' \in CampaignRow
  BY <1>1 DEF ClaimUpgradeCampaign, CampaignClaimLapses, ResumeUpgradeCampaign, UpgradeTypeOK,
              CampaignRow, WaveDecision
<1>. QED  BY <1>2 DEF ClaimUpgradeCampaign, CampaignClaimLapses, ResumeUpgradeCampaign, UpgradeTypeOK

LEMMA PublishTypes ==
  ASSUME UpgradeTypeOK, PublishUpgradeCampaignPlan
  PROVE  UpgradeTypeOK'
<1>. PICK new : new = SnapshotTargets(campaign.rev + 1)
  OBVIOUS
<1>1. campaign.rev + 1 \in Nat /\ 1 \in 1..LastWave
  BY UpgradeAssumption, SMTT(30) DEF UpgradeTypeOK, CampaignRow
<1>2. new \subseteq Nat \X UpgradeTargets
  BY <1>1, SMTT(30) DEF SnapshotTargets
<1>3. NewUpgrade \in UpgradeRow /\ NoRecovery \in RecoveryRow
  BY SMTT(30) DEF NewUpgrade, NoRecovery, UpgradeRow, RecoveryRow
<1>4. campaign' \in CampaignRow
  BY <1>1 DEF PublishUpgradeCampaignPlan, UpgradeTypeOK, CampaignRow, WaveDecision
<1>. QED  BY <1>2, <1>3, <1>4 DEF PublishUpgradeCampaignPlan, WithRows, UpgradeTypeOK

LEMMA WaveFinite ==
  ASSUME UpgradeTypeOK, NEW w
  PROVE  IsFiniteSet(WaveTargets(w)) /\ \A S : IsFiniteSet(InState(w, S)) /\ Cardinality(InState(w, S)) \in Nat
<1>. PICK snapshot : snapshot = {campaign.rev} \X UpgradeTargets
  OBVIOUS
<1>1. IsFiniteSet({campaign.rev}) /\ IsFiniteSet(UpgradeTargets)
  BY FS_Singleton, UpgradeAssumption
<1>2. IsFiniteSet(snapshot)
  BY <1>1, FS_Product
<1>3. WaveTargets(w) \subseteq snapshot
  <2>. SUFFICES ASSUME NEW t \in DOMAIN upgrade, t[1] = campaign.rev PROVE t \in snapshot
    BY DEF WaveTargets
  <2>1. t \in Nat \X UpgradeTargets
    BY DEF UpgradeTypeOK
  <2>. QED  BY <2>1, SMTT(30)
<1>4. IsFiniteSet(WaveTargets(w))
  BY <1>2, <1>3, FS_Subset
<1>5. ASSUME NEW S PROVE IsFiniteSet(InState(w, S)) /\ Cardinality(InState(w, S)) \in Nat
  <2>1. InState(w, S) \subseteq WaveTargets(w)
    BY DEF InState
  <2>2. IsFiniteSet(InState(w, S))
    BY <1>4, <2>1, FS_Subset
  <2>. QED  BY <2>2, FS_CardinalityType
<1>. QED  BY <1>4, <1>5

\* The decision of EvaluateUpgradeCanary, its counts and its effect.
LEMMA Evaluated ==
  ASSUME UpgradeTypeOK, EvaluateUpgradeCanary
  PROVE  \E decision \in {"HOLD", "PAUSE", "CONTINUE"} :
         /\ decision = "CONTINUE" =>
              /\ Cardinality(InState(campaign.wave, {"FAILED", "FENCED"})) <= Threshold
              /\ Cardinality(InState(campaign.wave, {"UNKNOWN"})) = 0
              /\ Cardinality(InState(campaign.wave, {"PENDING", "IN_PROGRESS"})) = 0
         /\ campaign' \in CampaignRow /\ campaign'.rev = campaign.rev
         /\ campaign'.live = campaign.live /\ campaign'.polling = KeepsPolling(decision)
         /\ \/ campaign'.wave = campaign.wave
            \/ campaign'.wave = campaign.wave + 1 /\ decision = "CONTINUE"
         /\ \/ campaign'.state = campaign.state
            \/ campaign'.state = "PAUSED" /\ decision = "PAUSE"
            \/ campaign'.state \in {"CANARY", "ROLLING", "VERIFYING"}
<1>. PICK w : w = campaign.wave
  OBVIOUS
<1>. PICK failed : failed = Cardinality(InState(w, {"FAILED", "FENCED"}))
  OBVIOUS
<1>. PICK unknown : unknown = Cardinality(InState(w, {"UNKNOWN"}))
  OBVIOUS
<1>. PICK pending : pending = Cardinality(InState(w, {"PENDING", "IN_PROGRESS"}))
  OBVIOUS
<1>. PICK decision : decision = CanaryDecision(failed, unknown, pending)
  OBVIOUS
<1>. SUFFICES /\ decision \in {"HOLD", "PAUSE", "CONTINUE"}
              /\ decision = "CONTINUE" => failed <= Threshold /\ unknown = 0 /\ pending = 0
              /\ campaign' \in CampaignRow /\ campaign'.rev = campaign.rev
              /\ campaign'.live = campaign.live /\ campaign'.polling = KeepsPolling(decision)
              /\ \/ campaign'.wave = w
                 \/ campaign'.wave = w + 1 /\ decision = "CONTINUE"
              /\ \/ campaign'.state = campaign.state
                 \/ campaign'.state = "PAUSED" /\ decision = "PAUSE"
                 \/ campaign'.state \in {"CANARY", "ROLLING", "VERIFYING"}
  OBVIOUS
<1>1. w \in 1..LastWave /\ campaign \in CampaignRow /\ LastWave \in Nat
  BY UpgradeAssumption DEF UpgradeTypeOK, CampaignRow
<1>2. failed \in Nat /\ unknown \in Nat /\ pending \in Nat
  BY WaveFinite
<1>3. /\ decision \in {"HOLD", "PAUSE", "CONTINUE"}
      /\ decision = "CONTINUE" => failed <= Threshold /\ unknown = 0 /\ pending = 0
  BY <1>2, UpgradeAssumption, SMTT(30) DEF CanaryDecision
<1>. PICK record : record = <<w, decision, Cardinality(InState(w, {"SUCCEEDED"})), failed, unknown, pending>>
  OBVIOUS
<1>4. record \in (1..LastWave) \X {"HOLD", "PAUSE", "CONTINUE"} \X Nat \X Nat \X Nat \X Nat
  BY <1>1, <1>2, <1>3, WaveFinite, SMTT(30)
<1>. PICK state : state = CASE decision = "HOLD" -> "CANARY"
                            [] decision = "PAUSE" -> "PAUSED"
                            [] OTHER -> IF w < LastWave THEN "ROLLING" ELSE "VERIFYING"
  OBVIOUS
<1>5. \/ state = "PAUSED" /\ decision = "PAUSE"
      \/ state \in {"CANARY", "ROLLING", "VERIFYING"}
  BY <1>3
<1>. PICK wave : wave = IF decision = "CONTINUE" /\ w < LastWave THEN w + 1 ELSE w
  OBVIOUS
<1>6. wave \in 1..LastWave /\ (wave = w \/ (wave = w + 1 /\ decision = "CONTINUE"))
  BY <1>1, SMTT(30)
<1>7. KeepsPolling(decision) \in BOOLEAN
  BY DEF KeepsPolling
<1>8. \/ campaign' = [campaign EXCEPT !.polling = KeepsPolling(decision)]
      \/ campaign' = [[campaign EXCEPT !.decided = record, !.state = state, !.wave = wave]
                      EXCEPT !.polling = KeepsPolling(decision)]
  BY DEF EvaluateUpgradeCanary
<1>9. CASE campaign' = [campaign EXCEPT !.polling = KeepsPolling(decision)]
  BY <1>1, <1>3, <1>7, <1>9 DEF CampaignRow
<1>10. CASE campaign' = [[campaign EXCEPT !.decided = record, !.state = state, !.wave = wave]
                         EXCEPT !.polling = KeepsPolling(decision)]
  <2>1. campaign' \in CampaignRow
    <3>1. state \in {"NONE", "PREPARED", "CANARY", "ROLLING", "PAUSED", "VERIFYING"}
      BY <1>5
    <3>2. record \in WaveDecision
      BY <1>4 DEF WaveDecision
    <3>3. [campaign EXCEPT !.decided = record] \in CampaignRow
      BY <1>1, <3>2 DEF CampaignRow
    <3>4. \A c \in CampaignRow : [c EXCEPT !.state = state] \in CampaignRow
      BY <3>1 DEF CampaignRow
    <3>5. \A c \in CampaignRow : [c EXCEPT !.wave = wave] \in CampaignRow
      BY <1>6 DEF CampaignRow
    <3>6. \A c \in CampaignRow : [c EXCEPT !.polling = KeepsPolling(decision)] \in CampaignRow
      BY <1>7 DEF CampaignRow
    <3>. QED  BY <1>10, <3>3, <3>4, <3>5, <3>6
  <2>2. /\ campaign'.rev = campaign.rev /\ campaign'.live = campaign.live
        /\ campaign'.polling = KeepsPolling(decision) /\ campaign'.wave = wave
        /\ campaign'.state = state
    BY <1>1, <1>10 DEF CampaignRow
  <2>. QED  BY <1>3, <1>5, <1>6, <2>1, <2>2
<1>. QED  BY <1>8, <1>9, <1>10

LEMMA EvaluateTypes ==
  ASSUME UpgradeTypeOK, EvaluateUpgradeCanary
  PROVE  UpgradeTypeOK'
<1>1. campaign' \in CampaignRow
  BY Evaluated
<1>. QED  BY <1>1 DEF EvaluateUpgradeCanary, UpgradeTypeOK

LEMMA TargetTypes ==
  ASSUME UpgradeTypeOK, NEW t \in DOMAIN upgrade,
         \/ \E o \in {"SUCCEEDED", "FAILED", "UNKNOWN"} : RecordUpgradeTargetOutcome(t, o)
         \/ ClaimUpgradeTarget(t) \/ UpgradeClaimLapses(t)
  PROVE  UpgradeTypeOK'
<1>. PICK row : row = upgrade[t]
  OBVIOUS
<1>1. row \in UpgradeRow
  BY DEF UpgradeTypeOK
<1>2. row.attempt + 1 \in Nat /\ campaign.claim \in Nat /\ 0 \in Nat
  BY <1>1, SMTT(30) DEF UpgradeTypeOK, CampaignRow, UpgradeRow
<1>3. ASSUME NEW o \in {"SUCCEEDED", "FAILED", "UNKNOWN"}, RecordUpgradeTargetOutcome(t, o)
      PROVE  UpgradeTypeOK'
  <2>1. [row EXCEPT !.state = o] \in UpgradeRow
    BY <1>1 DEF UpgradeRow
  <2>. QED  BY <1>3, <2>1, UpgradeReplaced DEF RecordUpgradeTargetOutcome, UpgradeTypeOK
<1>4. CASE UpgradeClaimLapses(t)
  <2>1. [row EXCEPT !.live = FALSE] \in UpgradeRow
    BY <1>1 DEF UpgradeRow
  <2>. QED  BY <1>4, <2>1, UpgradeReplaced DEF UpgradeClaimLapses, UpgradeTypeOK
<1>5. CASE ClaimUpgradeTarget(t)
  <2>. PICK new : new = [state |-> "IN_PROGRESS", exec |-> "CLAIMED", live |-> TRUE,
                         attempt |-> row.attempt + 1, coord |-> campaign.claim,
                         matched |-> FALSE, conflict |-> FALSE]
    OBVIOUS
  <2>1. new \in UpgradeRow
    BY <1>2, SMTT(30) DEF UpgradeRow
  <2>2. [[row EXCEPT !.state = "FENCED"] EXCEPT !.exec = "FENCED"] \in UpgradeRow
    BY <1>1 DEF UpgradeRow
  <2>3. CASE /\ upgrade' = [upgrade EXCEPT ![t].state = "FENCED", ![t].exec = "FENCED"]
             /\ UNCHANGED worker
    <3>1. upgrade' = [upgrade EXCEPT ![t] = [[row EXCEPT !.state = "FENCED"] EXCEPT !.exec = "FENCED"]]
      BY <2>3
    <3>2. UNCHANGED <<campaign, recovery, installed>>
      BY <1>5 DEF ClaimUpgradeTarget
    <3>. QED  BY <2>2, <2>3, <3>1, <3>2, UpgradeReplaced DEF UpgradeTypeOK
  <2>4. CASE /\ upgrade' = [upgrade EXCEPT ![t] = new]
             /\ worker' = worker \cup {Worker(t, "UPGRADE", 0, row.attempt + 1)}
    <3>1. Worker(t, "UPGRADE", 0, row.attempt + 1) \in Executor
          /\ Worker(t, "UPGRADE", 0, row.attempt + 1).target = t
      BY <1>2, WorkerStarts
    <3>2. UNCHANGED <<campaign, recovery, installed>>
      BY <1>5 DEF ClaimUpgradeTarget
    <3>. QED  BY <2>1, <2>4, <3>1, <3>2, UpgradeReplaced DEF UpgradeTypeOK
  <2>. QED  BY <1>5, <2>3, <2>4 DEF ClaimUpgradeTarget
<1>. QED  BY <1>3, <1>4, <1>5

LEMMA RecoveryTypes ==
  ASSUME UpgradeTypeOK, NEW t \in DOMAIN upgrade,
         ApproveUpgradeTargetRecoveryPlan(t) \/ ClaimUpgradeTargetRecovery(t)
           \/ RecoveryClaimLapses(t) \/ RearmUpgradeTargetAfterRecovery(t)
  PROVE  UpgradeTypeOK'
<1>. PICK row : row = recovery[t]
  OBVIOUS
<1>1. row \in RecoveryRow
  BY DEF UpgradeTypeOK
<1>2. row.attempt + 1 \in Nat /\ row.gen + 1 \in Nat /\ row.gen \in Nat
  BY <1>1, SMTT(30) DEF RecoveryRow
<1>3. CASE ApproveUpgradeTargetRecoveryPlan(t)
  <2>. PICK new : new = [state |-> "APPROVED", gen |-> row.gen + 1, attempt |-> 0, live |-> FALSE,
                         matched |-> FALSE]
    OBVIOUS
  <2>1. new \in RecoveryRow
    BY <1>2, SMTT(30) DEF RecoveryRow
  <2>. QED  BY <1>3, <2>1, RecoveryReplaced DEF ApproveUpgradeTargetRecoveryPlan, UpgradeTypeOK
<1>4. CASE ClaimUpgradeTargetRecovery(t)
  <2>. PICK new : new = [row EXCEPT !.state = "CLAIMED", !.attempt = row.attempt + 1, !.live = TRUE,
                                    !.matched = FALSE]
    OBVIOUS
  <2>1. new \in RecoveryRow
    BY <1>1, <1>2 DEF RecoveryRow
  <2>2. recovery' = [recovery EXCEPT ![t] = new]
    BY <1>1, <1>4 DEF ClaimUpgradeTargetRecovery, UpgradeTypeOK, RecoveryRow
  <2>3. Worker(t, "RECOVER", row.gen, row.attempt + 1) \in Executor
        /\ Worker(t, "RECOVER", row.gen, row.attempt + 1).target = t
    BY <1>2, WorkerStarts
  <2>4. worker' = worker \cup {Worker(t, "RECOVER", row.gen, row.attempt + 1)}
        /\ UNCHANGED <<campaign, upgrade, installed>>
    BY <1>4 DEF ClaimUpgradeTargetRecovery
  <2>. QED  BY <2>1, <2>2, <2>3, <2>4, RecoveryReplaced DEF UpgradeTypeOK
<1>5. CASE RecoveryClaimLapses(t)
  <2>1. [row EXCEPT !.live = FALSE] \in RecoveryRow
    BY <1>1 DEF RecoveryRow
  <2>. QED  BY <1>5, <2>1, RecoveryReplaced DEF RecoveryClaimLapses, UpgradeTypeOK
<1>6. CASE RearmUpgradeTargetAfterRecovery(t)
  <2>1. [row EXCEPT !.state = "REARMED"] \in RecoveryRow
    BY <1>1 DEF RecoveryRow
  <2>. PICK up : up = upgrade[t]
    OBVIOUS
  <2>0. up \in UpgradeRow
    BY DEF UpgradeTypeOK
  <2>2. [[up EXCEPT !.state = "PENDING"] EXCEPT !.exec = "PENDING"] \in UpgradeRow
    BY <2>0 DEF UpgradeRow
  <2>3. upgrade' = [upgrade EXCEPT ![t] = [[up EXCEPT !.state = "PENDING"] EXCEPT !.exec = "PENDING"]]
    BY <1>6 DEF RearmUpgradeTargetAfterRecovery
  <2>4. recovery' = [recovery EXCEPT ![t] = [row EXCEPT !.state = "REARMED"]]
        /\ UNCHANGED <<campaign, worker, installed>>
    BY <1>6 DEF RearmUpgradeTargetAfterRecovery
  <2>. QED  BY <2>1, <2>2, <2>3, <2>4 DEF UpgradeTypeOK
<1>. QED  BY <1>3, <1>4, <1>5, <1>6

LEMMA ExecutorTypes ==
  ASSUME UpgradeTypeOK, NEW w \in worker,
         ProbeComponent(w) \/ ApplyRelease(w) \/ RecoverRelease(w) \/ ExecutorStops(w)
  PROVE  UpgradeTypeOK'
<1>1. w \in Executor /\ w.target \in DOMAIN upgrade /\ w.target[2] \in UpgradeTargets
  BY UpgradeHost DEF UpgradeTypeOK
<1>. PICK x : x = w.target[2]
  OBVIOUS
<1>2. CASE ProbeComponent(w)
  <2>1. Read(x) \in {"MATCHED", "ABSENT", "CONFLICTING"} /\ (installed[x] = "HALF") \in BOOLEAN
    BY DEF Read
  <2>. PICK v : v = [w EXCEPT !.phase = "RECORD", !.read = Read(x), !.half = (installed[x] = "HALF")]
    OBVIOUS
  <2>2. v \in Executor /\ v.target = w.target
    BY <1>1, <2>1, ExecutorLooks
  <2>3. worker' = (worker \ {w}) \cup {v} /\ UNCHANGED <<campaign, upgrade, recovery, installed>>
    BY <1>2 DEF ProbeComponent
  <2>. QED  BY <1>1, <2>2, <2>3 DEF UpgradeTypeOK
<1>. PICK v : v = [w EXCEPT !.phase = "PROBE", !.applied = TRUE]
  OBVIOUS
<1>3. v \in Executor /\ v.target = w.target
  BY <1>1, ExecutorMoves
<1>4. CASE ApplyRelease(w) \/ RecoverRelease(w)
  <2>1. installed' \in [UpgradeTargets -> {"OLD", "NEW", "HALF", "BROKEN"}]
    BY <1>1, <1>4 DEF ApplyRelease, RecoverRelease, UpgradeTypeOK
  <2>2. worker' \subseteq worker \cup {v} /\ UNCHANGED <<campaign, upgrade, recovery>>
    BY <1>4 DEF ApplyRelease, RecoverRelease
  <2>. QED  BY <1>1, <1>3, <2>1, <2>2 DEF UpgradeTypeOK
<1>5. CASE ExecutorStops(w)
  BY <1>5 DEF ExecutorStops, UpgradeTypeOK
<1>. QED  BY <1>2, <1>4, <1>5

LEMMA ReportTypes ==
  ASSUME UpgradeTypeOK, NEW w \in worker,
         ObserveUpgradeTarget(w) \/ \E o \in {"SUCCEEDED", "FAILED"} : CompleteUpgradeTarget(w, o)
  PROVE  UpgradeTypeOK'
<1>. PICK t : t = w.target
  OBVIOUS
<1>. PICK row : row = upgrade[t]
  OBVIOUS
<1>1. t \in DOMAIN upgrade /\ row \in UpgradeRow
  BY DEF UpgradeTypeOK
<1>2. CASE ObserveUpgradeTarget(w)
  <2>. PICK new : new = CASE w.read = "MATCHED" -> [row EXCEPT !.matched = TRUE]
                          [] w.read = "CONFLICTING" -> [row EXCEPT !.state = "FENCED", !.exec = "FENCED",
                                                                   !.live = FALSE, !.conflict = TRUE]
                          [] OTHER -> row
    OBVIOUS
  <2>1. new \in UpgradeRow
    BY <1>1 DEF UpgradeRow
  <2>2. upgrade' = [upgrade EXCEPT ![t] = new] /\ UNCHANGED <<campaign, recovery, installed>>
    BY <1>2 DEF ObserveUpgradeTarget
  <2>3. \A v \in worker' : v \in Executor /\ v.target \in DOMAIN upgrade
    BY <1>2, Proceeds DEF ObserveUpgradeTarget
  <2>. QED  BY <1>1, <2>1, <2>2, <2>3, UpgradeReplaced
<1>3. ASSUME NEW o \in {"SUCCEEDED", "FAILED"}, CompleteUpgradeTarget(w, o)
      PROVE  UpgradeTypeOK'
  <2>1. [row EXCEPT !.state = o, !.exec = o, !.live = FALSE] \in UpgradeRow
    BY <1>1 DEF UpgradeRow
  <2>2. upgrade' = [upgrade EXCEPT ![t] = [row EXCEPT !.state = o, !.exec = o, !.live = FALSE]]
        /\ UNCHANGED <<campaign, recovery, installed>> /\ worker' = worker \ {w}
    BY <1>3 DEF CompleteUpgradeTarget
  <2>. QED  BY <1>1, <2>1, <2>2, UpgradeReplaced DEF UpgradeTypeOK
<1>. QED  BY <1>2, <1>3

LEMMA RecoveryReportTypes ==
  ASSUME UpgradeTypeOK, NEW w \in worker,
         ObserveUpgradeTargetRecovery(w) \/ CompleteUpgradeTargetRecovery(w)
  PROVE  UpgradeTypeOK'
<1>. PICK t : t = w.target
  OBVIOUS
<1>. PICK row : row = recovery[t]
  OBVIOUS
<1>1. t \in DOMAIN upgrade /\ row \in RecoveryRow
  BY DEF UpgradeTypeOK
<1>2. CASE ObserveUpgradeTargetRecovery(w)
  <2>. PICK new : new = CASE w.read = "MATCHED" -> [row EXCEPT !.matched = TRUE]
                          [] w.read = "CONFLICTING" /\ ~w.half -> [row EXCEPT !.state = "FENCED", !.live = FALSE]
                          [] OTHER -> row
    OBVIOUS
  <2>1. new \in RecoveryRow
    BY <1>1 DEF RecoveryRow
  <2>2. recovery' = [recovery EXCEPT ![t] = new] /\ UNCHANGED <<campaign, upgrade, installed>>
    BY <1>2 DEF ObserveUpgradeTargetRecovery
  <2>3. \A v \in worker' : v \in Executor /\ v.target \in DOMAIN upgrade
    BY <1>2, Proceeds DEF ObserveUpgradeTargetRecovery
  <2>. QED  BY <1>1, <2>1, <2>2, <2>3, RecoveryReplaced
<1>3. CASE CompleteUpgradeTargetRecovery(w)
  <2>. PICK new : new = [[row EXCEPT !.state = "VERIFIED"] EXCEPT !.live = FALSE]
    OBVIOUS
  <2>1. new \in RecoveryRow
    BY <1>1 DEF RecoveryRow
  <2>2. recovery' = [recovery EXCEPT ![t] = new] /\ UNCHANGED <<campaign, upgrade, installed>>
        /\ worker' = worker \ {w}
    BY <1>1, <1>3 DEF CompleteUpgradeTargetRecovery, UpgradeTypeOK
  <2>. QED  BY <1>1, <2>1, <2>2, RecoveryReplaced DEF UpgradeTypeOK
<1>. QED  BY <1>2, <1>3

LEMMA UpgradeTypes == UpgradeTypeOK /\ UpgradeStep => UpgradeTypeOK'
<1>1. ASSUME UpgradeTypeOK, CampaignStep PROVE UpgradeTypeOK'
  BY <1>1, CampaignTypes, PublishTypes, EvaluateTypes, TargetTypes DEF CampaignStep
<1>2. ASSUME UpgradeTypeOK, NEW w \in worker,
             (w.kind = "UPGRADE" /\ executeTarget(w)) \/ (w.kind = "RECOVER" /\ executeRecovery(w))
               \/ ExecutorStops(w)
      PROVE  UpgradeTypeOK'
  BY <1>2, ExecutorTypes, ReportTypes, RecoveryReportTypes DEF executeTarget, executeRecovery
<1>3. ASSUME UpgradeTypeOK, TargetStep PROVE UpgradeTypeOK'
  BY <1>2, <1>3, TargetTypes, RecoveryTypes DEF TargetStep
<1>. QED  BY <1>1, <1>3 DEF UpgradeStep

-----------------------------------------------------------------------------
(***************************************************************************)
(* Disruptive operations: one per Host                                     *)
(***************************************************************************)

Held(who) == [active |-> TRUE, by |-> who]

MaintenanceHolds ==
  \A t \in DOMAIN target : target[t].state = "CLAIMED" => disruptive[t[3]] = Held(Owner(t))
UpgradeHolds ==
  \A t \in DOMAIN upgrade :
    upgrade[t].exec = "CLAIMED" /\ HostOf[t[2]] # NoHost => disruptive[HostOf[t[2]]] = Held(UpgradeOwner(t))

LEMMA OwnersDiffer ==
  ASSUME NEW t, NEW u
  PROVE  /\ Owner(t) = Owner(u) => t = u
         /\ UpgradeOwner(t) = UpgradeOwner(u) => t = u
         /\ Owner(t) # UpgradeOwner(u)
         /\ Held(t) = Held(u) => t = u
         /\ Held(t).active /\ Held(t).by = t
  BY SMTT(30) DEF Owner, UpgradeOwner, Held

\* A claim that is taken takes none away.
LEMMA Acquired ==
  ASSUME MaintenanceTypeOK, NEW h \in FleetHosts, NEW who, AcquireDisruptive(h, who)
  PROVE  /\ disruptive'[h] = Held(who)
         /\ \A g \in FleetHosts : \A x : disruptive[g] = Held(x) => disruptive'[g] = Held(x)
<1>1. disruptive' = [disruptive EXCEPT ![h] = Held(who)] /\ DOMAIN disruptive = FleetHosts
  BY DEF AcquireDisruptive, MaintenanceTypeOK, Held
<1>2. ASSUME NEW x, disruptive[h] = Held(x) PROVE x = who
  BY <1>2, OwnersDiffer DEF AcquireDisruptive, DisruptiveFree
<1>. QED  BY <1>1, <1>2

\* A claim that is released is the holder's own.
LEMMA Released ==
  ASSUME MaintenanceTypeOK, NEW h \in FleetHosts, NEW who, ReleaseDisruptive(h, who)
  PROVE  \A g \in FleetHosts : \A x :
           disruptive[g] = Held(x) => x = who \/ disruptive'[g] = Held(x)
<1>1. disruptive[h] = Held(who) /\ DOMAIN disruptive = FleetHosts
  BY DEF ReleaseDisruptive, MaintenanceTypeOK, Held
<1>2. \A g \in FleetHosts : g # h => disruptive'[g] = disruptive[g]
  BY <1>1 DEF ReleaseDisruptive
<1>3. ASSUME NEW x, disruptive[h] = Held(x) PROVE x = who
  BY <1>1, <1>3, OwnersDiffer
<1>. QED  BY <1>2, <1>3

LEMMA MaintenanceKeepsClaims ==
  ASSUME MaintenanceTypeOK, UpgradeTypeOK, MaintenanceHolds, UpgradeHolds, UNCHANGED upgradeVars,
         MaintenanceStep \/ HostStep
  PROVE  MaintenanceHolds' /\ UpgradeHolds'
<1>0. ASSUME UNCHANGED disruptive PROVE UpgradeHolds'
  BY <1>0 DEF UpgradeHolds, upgradeVars
<1>1. ASSUME UNCHANGED <<disruptive, target>> PROVE MaintenanceHolds' /\ UpgradeHolds'
  BY <1>0, <1>1 DEF MaintenanceHolds
<1>2. ASSUME NEW m \in Plans, NEW chosen \in SUBSET FleetHosts, PublishMaintenancePlan(m, chosen)
      PROVE  MaintenanceHolds' /\ UpgradeHolds'
  <2>1. NewTarget.state # "CLAIMED"
    BY SMTT(30) DEF NewTarget
  <2>. QED  BY <1>0, <1>2, <2>1 DEF PublishMaintenancePlan, WithRows, MaintenanceHolds
<1>3. ASSUME NEW t \in DOMAIN target, ClaimMaintenanceTarget(t)
      PROVE  MaintenanceHolds' /\ UpgradeHolds'
  <2>0. t[3] \in FleetHosts /\ target[t] \in TargetRow
    BY TargetHost DEF MaintenanceTypeOK
  <2>1. CASE target' = [target EXCEPT ![t].state = "FENCED"] /\ UNCHANGED disruptive
    <3>1. target'[t].state # "CLAIMED"
      BY <2>0, <2>1 DEF TargetRow
    <3>. QED  BY <1>0, <2>1, <3>1 DEF MaintenanceHolds
  <2>2. CASE /\ AcquireDisruptive(t[3], Owner(t))
             /\ \E row : target' = [target EXCEPT ![t] = row]
    <3>1. /\ disruptive'[t[3]] = Held(Owner(t))
          /\ \A g \in FleetHosts : \A x : disruptive[g] = Held(x) => disruptive'[g] = Held(x)
      BY <2>0, <2>2, Acquired
    <3>2. MaintenanceHolds'
      BY <2>2, <3>1, TargetHost DEF MaintenanceHolds
    <3>3. UpgradeHolds'
      BY <3>1, UpgradeHost DEF UpgradeHolds, upgradeVars
    <3>. QED  BY <3>2, <3>3
  <2>. QED  BY <1>3, <2>1, <2>2 DEF ClaimMaintenanceTarget
<1>4. ASSUME NEW t \in DOMAIN target, TargetLapses(t)
      PROVE  MaintenanceHolds' /\ UpgradeHolds'
  <2>1. target'[t].state = target[t].state
    BY <1>4 DEF TargetLapses, MaintenanceTypeOK, TargetRow
  <2>. QED  BY <1>0, <1>4, <2>1 DEF TargetLapses, MaintenanceHolds
<1>5. ASSUME NEW t \in DOMAIN target, NEW o \in {"SUCCEEDED", "FAILED"}, CompleteMaintenanceTarget(t, o)
      PROVE  MaintenanceHolds' /\ UpgradeHolds'
  <2>0. t[3] \in FleetHosts /\ target[t] \in TargetRow
    BY TargetHost DEF MaintenanceTypeOK
  <2>1. target'[t].state = o
    BY <1>5, <2>0 DEF CompleteMaintenanceTarget, TargetRow
  <2>2. \A u \in DOMAIN target : u # t => target'[u] = target[u]
    BY <1>5 DEF CompleteMaintenanceTarget
  <2>3. DOMAIN target' = DOMAIN target
    BY <1>5 DEF CompleteMaintenanceTarget
  <2>. PICK who : who = Owner(t)
    OBVIOUS
  <2>4. \A g \in FleetHosts : \A x : disruptive[g] = Held(x) => x = who \/ disruptive'[g] = Held(x)
    <3>1. ReleaseDisruptive(t[3], who)
      BY <1>5 DEF CompleteMaintenanceTarget
    <3>. QED  BY <2>0, <3>1, Released, SMTT(30)
  <2>5. MaintenanceHolds'
    <3>. SUFFICES ASSUME NEW u \in DOMAIN target', target'[u].state = "CLAIMED"
                  PROVE  disruptive'[u[3]] = Held(Owner(u))
      BY DEF MaintenanceHolds
    <3>1. u # t /\ u \in DOMAIN target /\ target[u].state = "CLAIMED"
      BY <2>1, <2>2, <2>3
    <3>2. u[3] \in FleetHosts /\ disruptive[u[3]] = Held(Owner(u))
      BY <3>1, TargetHost DEF MaintenanceHolds
    <3>3. Owner(u) # who
      BY <3>1, OwnersDiffer
    <3>. QED  BY <2>4, <3>2, <3>3
  <2>6. UpgradeHolds'
    <3>. SUFFICES ASSUME NEW u \in DOMAIN upgrade, upgrade[u].exec = "CLAIMED", HostOf[u[2]] # NoHost
                  PROVE  disruptive'[HostOf[u[2]]] = Held(UpgradeOwner(u))
      BY DEF UpgradeHolds, upgradeVars
    <3>1. HostOf[u[2]] \in FleetHosts /\ disruptive[HostOf[u[2]]] = Held(UpgradeOwner(u))
      BY UpgradeHost DEF UpgradeHolds
    <3>2. UpgradeOwner(u) # who
      BY OwnersDiffer
    <3>. QED  BY <2>4, <3>1, <3>2
  <2>. QED  BY <2>5, <2>6
<1>6. ASSUME HostStep PROVE UNCHANGED <<disruptive, target>>
  BY <1>6 DEF HostStep, FenceHost, ArmHost
<1>7. ASSUME NEW m \in Plans,
             ClaimMaintenanceCoordinator(m) \/ CoordinatorLapses(m) \/ PauseMaintenancePlan(m)
               \/ ResumeMaintenancePlan(m)
      PROVE  UNCHANGED <<disruptive, target>>
  BY <1>7 DEF ClaimMaintenanceCoordinator, CoordinatorLapses, PauseMaintenancePlan, ResumeMaintenancePlan
<1>. QED  BY <1>1, <1>2, <1>3, <1>4, <1>5, <1>6, <1>7 DEF MaintenanceStep

\* Claims are kept by a step that leaves them alone and claims no target.
LEMMA UpgradeHoldsKept ==
  ASSUME UpgradeHolds, UNCHANGED disruptive,
         \A t \in DOMAIN upgrade' : upgrade'[t].exec = "CLAIMED" =>
            t \in DOMAIN upgrade /\ upgrade[t].exec = "CLAIMED"
  PROVE  UpgradeHolds'
  BY DEF UpgradeHolds

LEMMA UpgradeKeepsClaims ==
  ASSUME MaintenanceTypeOK, UpgradeTypeOK, MaintenanceHolds, UpgradeHolds, UpgradeStep
  PROVE  MaintenanceHolds' /\ UpgradeHolds'
<1>0. ASSUME UNCHANGED maintenanceVars PROVE MaintenanceHolds' /\ UNCHANGED disruptive
  BY <1>0 DEF MaintenanceHolds, maintenanceVars
<1>1. ASSUME UNCHANGED <<upgrade, maintenanceVars>> PROVE MaintenanceHolds' /\ UpgradeHolds'
  BY <1>0, <1>1, UpgradeHoldsKept
<1>2. ASSUME PublishUpgradeCampaignPlan PROVE MaintenanceHolds' /\ UpgradeHolds'
  <2>1. NewUpgrade.exec # "CLAIMED"
    BY SMTT(30) DEF NewUpgrade
  <2>. QED  BY <1>0, <1>2, <2>1, UpgradeHoldsKept DEF PublishUpgradeCampaignPlan, WithRows
\* One row changes, and is not claimed by it.
<1>3. ASSUME NEW t \in DOMAIN upgrade, NEW row, upgrade' = [upgrade EXCEPT ![t] = row],
             row.exec = "CLAIMED" => upgrade[t].exec = "CLAIMED", UNCHANGED maintenanceVars
      PROVE  MaintenanceHolds' /\ UpgradeHolds'
  BY <1>0, <1>3, UpgradeHoldsKept
<1>4. ASSUME NEW t \in DOMAIN upgrade, NEW o, RecordUpgradeTargetOutcome(t, o)
      PROVE  MaintenanceHolds' /\ UpgradeHolds'
  <2>1. [upgrade[t] EXCEPT !.state = o].exec = upgrade[t].exec
    BY DEF UpgradeTypeOK, UpgradeRow
  <2>. QED  BY <1>3, <1>4, <2>1 DEF RecordUpgradeTargetOutcome
<1>5. ASSUME NEW t \in DOMAIN upgrade, UpgradeClaimLapses(t)
      PROVE  MaintenanceHolds' /\ UpgradeHolds'
  <2>1. [upgrade[t] EXCEPT !.live = FALSE].exec = upgrade[t].exec
    BY DEF UpgradeTypeOK, UpgradeRow
  <2>. QED  BY <1>3, <1>5, <2>1 DEF UpgradeClaimLapses
<1>6. ASSUME NEW t \in DOMAIN upgrade, RearmUpgradeTargetAfterRecovery(t)
      PROVE  MaintenanceHolds' /\ UpgradeHolds'
  <2>1. [[upgrade[t] EXCEPT !.state = "PENDING"] EXCEPT !.exec = "PENDING"].exec = "PENDING"
    BY DEF UpgradeTypeOK, UpgradeRow
  <2>2. upgrade' = [upgrade EXCEPT ![t] = [[upgrade[t] EXCEPT !.state = "PENDING"] EXCEPT !.exec = "PENDING"]]
    BY <1>6 DEF RearmUpgradeTargetAfterRecovery
  <2>. QED  BY <1>3, <1>6, <2>1, <2>2 DEF RearmUpgradeTargetAfterRecovery
<1>7. ASSUME NEW w \in worker, ObserveUpgradeTarget(w)
      PROVE  MaintenanceHolds' /\ UpgradeHolds'
  <2>. PICK t : t = w.target
    OBVIOUS
  <2>. PICK row : row = upgrade[t]
    OBVIOUS
  <2>0. t \in DOMAIN upgrade /\ row \in UpgradeRow
    BY DEF UpgradeTypeOK
  <2>. PICK new : new = CASE w.read = "MATCHED" -> [row EXCEPT !.matched = TRUE]
                          [] w.read = "CONFLICTING" -> [row EXCEPT !.state = "FENCED", !.exec = "FENCED",
                                                                   !.live = FALSE, !.conflict = TRUE]
                          [] OTHER -> row
    OBVIOUS
  <2>1. [row EXCEPT !.matched = TRUE].exec = row.exec
    BY <2>0 DEF UpgradeRow
  <2>2. [row EXCEPT !.state = "FENCED", !.exec = "FENCED", !.live = FALSE, !.conflict = TRUE].exec = "FENCED"
    BY <2>0 DEF UpgradeRow
  <2>3. new.exec = "CLAIMED" => row.exec = "CLAIMED"
    BY <2>1, <2>2
  <2>4. upgrade' = [upgrade EXCEPT ![t] = new] /\ UNCHANGED maintenanceVars
    BY <1>7 DEF ObserveUpgradeTarget
  <2>. QED  BY <1>3, <2>0, <2>3, <2>4
<1>8. ASSUME NEW t \in DOMAIN upgrade, ClaimUpgradeTarget(t)
      PROVE  MaintenanceHolds' /\ UpgradeHolds'
  <2>0. UNCHANGED target
    BY <1>8 DEF ClaimUpgradeTarget
  <2>1. CASE upgrade' = [upgrade EXCEPT ![t].state = "FENCED", ![t].exec = "FENCED"] /\ UNCHANGED disruptive
    <3>1. upgrade' = [upgrade EXCEPT ![t] = [[upgrade[t] EXCEPT !.state = "FENCED"] EXCEPT !.exec = "FENCED"]]
      BY <2>1
    <3>2. [[upgrade[t] EXCEPT !.state = "FENCED"] EXCEPT !.exec = "FENCED"].exec = "FENCED"
      BY DEF UpgradeTypeOK, UpgradeRow
    <3>3. UNCHANGED maintenanceVars
      BY <1>8, <2>1 DEF ClaimUpgradeTarget, maintenanceVars
    <3>. QED  BY <1>3, <3>1, <3>2, <3>3
  <2>2. CASE /\ IF HostOf[t[2]] = NoHost THEN UNCHANGED disruptive
                ELSE AcquireDisruptive(HostOf[t[2]], UpgradeOwner(t))
             /\ \E row : upgrade' = [upgrade EXCEPT ![t] = row]
    <3>1. /\ HostOf[t[2]] # NoHost => disruptive'[HostOf[t[2]]] = Held(UpgradeOwner(t))
          /\ \A g \in FleetHosts : \A x : disruptive[g] = Held(x) => disruptive'[g] = Held(x)
      BY <2>2, Acquired, UpgradeHost
    <3>2. MaintenanceHolds'
      BY <2>0, <3>1, TargetHost DEF MaintenanceHolds
    <3>3. UpgradeHolds'
      BY <2>2, <3>1, UpgradeHost DEF UpgradeHolds
    <3>. QED  BY <3>2, <3>3
  <2>. QED  BY <1>8, <2>1, <2>2 DEF ClaimUpgradeTarget
<1>9. ASSUME NEW w \in worker, NEW o \in {"SUCCEEDED", "FAILED"}, CompleteUpgradeTarget(w, o)
      PROVE  MaintenanceHolds' /\ UpgradeHolds'
  <2>. PICK t : t = w.target
    OBVIOUS
  <2>. PICK who : who = UpgradeOwner(t)
    OBVIOUS
  <2>0. t \in DOMAIN upgrade /\ upgrade[t] \in UpgradeRow
    BY DEF UpgradeTypeOK
  <2>1. DOMAIN upgrade' = DOMAIN upgrade /\ \A u \in DOMAIN upgrade : u # t => upgrade'[u] = upgrade[u]
    BY <1>9 DEF CompleteUpgradeTarget
  <2>2. upgrade'[t].exec = o /\ UNCHANGED target
    BY <1>9, <2>0 DEF CompleteUpgradeTarget, UpgradeRow
  <2>3. \A g \in FleetHosts : \A x : disruptive[g] = Held(x) => x = who \/ disruptive'[g] = Held(x)
    <3>1. CASE UNCHANGED disruptive
      BY <3>1
    <3>2. CASE HostOf[t[2]] # NoHost /\ ReleaseDisruptive(HostOf[t[2]], who)
      BY <2>0, <3>2, Released, UpgradeHost, SMTT(30)
    <3>. QED  BY <1>9, <3>1, <3>2 DEF CompleteUpgradeTarget
  <2>4. MaintenanceHolds'
    <3>. SUFFICES ASSUME NEW u \in DOMAIN target, target[u].state = "CLAIMED"
                  PROVE  disruptive'[u[3]] = Held(Owner(u))
      BY <2>2 DEF MaintenanceHolds
    <3>1. u[3] \in FleetHosts /\ disruptive[u[3]] = Held(Owner(u))
      BY TargetHost DEF MaintenanceHolds
    <3>2. Owner(u) # who
      BY OwnersDiffer
    <3>. QED  BY <2>3, <3>1, <3>2
  <2>5. UpgradeHolds'
    <3>. SUFFICES ASSUME NEW u \in DOMAIN upgrade', upgrade'[u].exec = "CLAIMED", HostOf[u[2]] # NoHost
                  PROVE  disruptive'[HostOf[u[2]]] = Held(UpgradeOwner(u))
      BY DEF UpgradeHolds
    <3>1. u # t /\ u \in DOMAIN upgrade /\ upgrade[u].exec = "CLAIMED"
      BY <2>1, <2>2
    <3>2. HostOf[u[2]] \in FleetHosts /\ disruptive[HostOf[u[2]]] = Held(UpgradeOwner(u))
      BY <3>1, UpgradeHost DEF UpgradeHolds
    <3>3. UpgradeOwner(u) # who
      BY <3>1, OwnersDiffer
    <3>. QED  BY <2>3, <3>2, <3>3
  <2>. QED  BY <2>4, <2>5
<1>10. ASSUME \/ ClaimUpgradeCampaign \/ CampaignClaimLapses \/ EvaluateUpgradeCanary \/ ResumeUpgradeCampaign
              \/ \E t \in DOMAIN upgrade : ApproveUpgradeTargetRecoveryPlan(t) \/ ClaimUpgradeTargetRecovery(t)
                                             \/ RecoveryClaimLapses(t)
              \/ \E w \in worker : \/ ProbeComponent(w) \/ ApplyRelease(w) \/ RecoverRelease(w)
                                   \/ ExecutorStops(w) \/ ObserveUpgradeTargetRecovery(w)
                                   \/ CompleteUpgradeTargetRecovery(w)
       PROVE  UNCHANGED <<upgrade, maintenanceVars>>
  BY <1>10 DEF ClaimUpgradeCampaign, CampaignClaimLapses, EvaluateUpgradeCanary, ResumeUpgradeCampaign,
     ApproveUpgradeTargetRecoveryPlan, ClaimUpgradeTargetRecovery, RecoveryClaimLapses, ProbeComponent,
     ApplyRelease, RecoverRelease, ExecutorStops, ObserveUpgradeTargetRecovery, CompleteUpgradeTargetRecovery
<1>11. ASSUME CampaignStep PROVE MaintenanceHolds' /\ UpgradeHolds'
  BY <1>1, <1>2, <1>4, <1>10, <1>11 DEF CampaignStep
<1>12. ASSUME TargetStep PROVE MaintenanceHolds' /\ UpgradeHolds'
  BY <1>1, <1>5, <1>6, <1>7, <1>8, <1>9, <1>10, <1>12 DEF TargetStep, executeTarget, executeRecovery
<1>. QED  BY <1>11, <1>12 DEF UpgradeStep

DisruptionClaims ==
  MaintenanceTypeOK /\ UpgradeTypeOK /\ MaintenanceHolds /\ UpgradeHolds

LEMMA DisruptionStarts == DisruptionInit => DisruptionClaims
<1>. SUFFICES ASSUME DisruptionInit PROVE DisruptionClaims
  OBVIOUS
<1>1. DOMAIN target = {} /\ DOMAIN upgrade = {}
  BY SMTT(30) DEF DisruptionInit, MaintenanceInit, UpgradeInit
<1>. QED  BY <1>1, MaintenanceStarts, UpgradeStarts
          DEF DisruptionInit, DisruptionClaims, MaintenanceHolds, UpgradeHolds

LEMMA UpgradeLeavesTypes == MaintenanceTypeOK /\ UpgradeStep => MaintenanceTypeOK'
<1>. SUFFICES ASSUME MaintenanceTypeOK, UpgradeStep PROVE MaintenanceTypeOK'
  OBVIOUS
<1>0. ASSUME UNCHANGED maintenanceVars PROVE MaintenanceTypeOK'
  BY <1>0 DEF MaintenanceTypeOK, maintenanceVars
<1>1. ASSUME UNCHANGED <<armed, plan, target>>, NEW h, NEW who,
             UNCHANGED disruptive \/ AcquireDisruptive(h, who) \/ ReleaseDisruptive(h, who)
      PROVE  MaintenanceTypeOK'
  <2>1. [active |-> TRUE, by |-> who].active \in BOOLEAN
    BY SMTT(30)
  <2>2. DOMAIN disruptive' = FleetHosts /\ \A g \in FleetHosts : disruptive'[g].active \in BOOLEAN
    BY <1>1, <2>1 DEF AcquireDisruptive, ReleaseDisruptive, MaintenanceTypeOK
  <2>. QED  BY <1>1, <2>2 DEF MaintenanceTypeOK
<1>2. ASSUME NEW t, ClaimUpgradeTarget(t) PROVE MaintenanceTypeOK'
  BY <1>1, <1>2 DEF ClaimUpgradeTarget
<1>3. ASSUME NEW w, NEW o, CompleteUpgradeTarget(w, o) PROVE MaintenanceTypeOK'
  BY <1>1, <1>3 DEF CompleteUpgradeTarget
<1>4. CASE CampaignStep
  BY <1>0, <1>4 DEF CampaignStep, PublishUpgradeCampaignPlan, ClaimUpgradeCampaign, CampaignClaimLapses,
     EvaluateUpgradeCanary, ResumeUpgradeCampaign, RecordUpgradeTargetOutcome
<1>5. CASE TargetStep
  BY <1>0, <1>2, <1>3, <1>5 DEF TargetStep, executeTarget, executeRecovery, UpgradeClaimLapses,
     ApproveUpgradeTargetRecoveryPlan, ClaimUpgradeTargetRecovery, RecoveryClaimLapses, ProbeComponent,
     ApplyRelease, RecoverRelease, ExecutorStops, ObserveUpgradeTargetRecovery,
     CompleteUpgradeTargetRecovery, RearmUpgradeTargetAfterRecovery, ObserveUpgradeTarget
<1>. QED  BY <1>4, <1>5 DEF UpgradeStep

LEMMA UpgradeTypeUnchanged == UpgradeTypeOK /\ UNCHANGED upgradeVars => UpgradeTypeOK'
  BY DEF UpgradeTypeOK, upgradeVars

LEMMA DisruptionStep == DisruptionClaims /\ [DisruptionNext]_disruptionVars => DisruptionClaims'
<1>1. ASSUME DisruptionClaims, MaintenanceStep \/ HostStep, UNCHANGED upgradeVars PROVE DisruptionClaims'
  BY <1>1, MaintenanceTypes, UpgradeTypeUnchanged, MaintenanceKeepsClaims DEF DisruptionClaims
<1>2. ASSUME DisruptionClaims, UpgradeStep PROVE DisruptionClaims'
  BY <1>2, UpgradeLeavesTypes, UpgradeTypes, UpgradeKeepsClaims DEF DisruptionClaims
<1>3. ASSUME DisruptionClaims, UNCHANGED disruptionVars PROVE DisruptionClaims'
  <2>1. UpgradeTypeOK'
    BY <1>3, UpgradeTypeUnchanged DEF DisruptionClaims, disruptionVars
  <2>2. MaintenanceTypeOK'
    BY <1>3 DEF DisruptionClaims, disruptionVars, maintenanceVars, MaintenanceTypeOK
  <2>3. MaintenanceHolds' /\ UpgradeHolds'
    BY <1>3 DEF DisruptionClaims, disruptionVars, maintenanceVars, upgradeVars, MaintenanceHolds, UpgradeHolds
  <2>. QED  BY <2>1, <2>2, <2>3 DEF DisruptionClaims
<1>. QED  BY <1>1, <1>2, <1>3 DEF DisruptionNext

\* For any fleet, any plans and any campaign: a claimed maintenance target and a
\* claimed upgrade execution each hold the disruptive-operation claim of their
\* Host, so no two of them are claimed on one Host
\* (acquire/releaseHostDisruptiveOperationClaimTx).
THEOREM DisruptionTheorem == DisruptionSpec => []DisruptionExclusive
<1>1. DisruptionClaims => DisruptionExclusive
  BY DEF DisruptionClaims, MaintenanceHolds, UpgradeHolds, Held, DisruptionExclusive
<1>. QED  BY <1>1, DisruptionStarts, DisruptionStep, PTL DEF DisruptionSpec

\* The rows of maintenance and of the campaign, and the executors at work, stay
\* within their types; every executor works on a target there is.
THEOREM DisruptionTypeTheorem == DisruptionSpec => [](MaintenanceTypeOK /\ UpgradeTypeOK)
<1>1. DisruptionClaims => MaintenanceTypeOK /\ UpgradeTypeOK
  BY DEF DisruptionClaims
<1>. QED  BY <1>1, DisruptionStarts, DisruptionStep, PTL DEF DisruptionSpec

-----------------------------------------------------------------------------
(***************************************************************************)
(* The coordinator of a campaign                                           *)
(***************************************************************************)

\* A coordinator that goes on evaluating holds a live claim on a campaign
\* that is not paused.
PollsWhileRunning == campaign.polling => campaign.live /\ campaign.state # "PAUSED"

\* What a step does to the campaign.
LEMMA CampaignSteps ==
  ASSUME UpgradeTypeOK, DisruptionNext
  PROVE  \/ PublishUpgradeCampaignPlan \/ ClaimUpgradeCampaign \/ CampaignClaimLapses
         \/ EvaluateUpgradeCanary \/ ResumeUpgradeCampaign \/ UNCHANGED campaign
  BY DEF DisruptionNext, upgradeVars, UpgradeStep, CampaignStep, RecordUpgradeTargetOutcome, TargetStep,
     executeTarget, executeRecovery, UpgradeClaimLapses, ApproveUpgradeTargetRecoveryPlan,
     ClaimUpgradeTargetRecovery, RecoveryClaimLapses, ProbeComponent, ApplyRelease, RecoverRelease,
     ExecutorStops, ObserveUpgradeTargetRecovery, CompleteUpgradeTargetRecovery,
     RearmUpgradeTargetAfterRecovery, ObserveUpgradeTarget, ClaimUpgradeTarget, CompleteUpgradeTarget

LEMMA CoordinatorPolls ==
  ASSUME UpgradeTypeOK, PollsWhileRunning, DisruptionNext
  PROVE  /\ PollsWhileRunning'
         /\ campaign.state = "PAUSED" /\ campaign'.state # "PAUSED" => ~campaign.live
<1>0. campaign \in CampaignRow
  BY DEF UpgradeTypeOK
<1>1. CASE PublishUpgradeCampaignPlan
  BY <1>0, <1>1 DEF PublishUpgradeCampaignPlan, CampaignRow, PollsWhileRunning
<1>2. CASE ClaimUpgradeCampaign
  BY <1>0, <1>2 DEF ClaimUpgradeCampaign, CampaignRow, PollsWhileRunning
<1>3. CASE CampaignClaimLapses
  BY <1>0, <1>3 DEF CampaignClaimLapses, CampaignRow, PollsWhileRunning
<1>4. CASE ResumeUpgradeCampaign
  BY <1>0, <1>4 DEF ResumeUpgradeCampaign, CampaignRow, PollsWhileRunning
<1>5. CASE UNCHANGED campaign
  BY <1>5 DEF PollsWhileRunning
<1>6. CASE EvaluateUpgradeCanary
  <2>1. campaign.live /\ campaign.polling /\ campaign.state # "PAUSED"
    BY <1>6 DEF EvaluateUpgradeCanary, PollsWhileRunning
  <2>2. PICK decision : /\ campaign'.polling = KeepsPolling(decision) /\ campaign'.live = campaign.live
                        /\ \/ campaign'.state = campaign.state
                           \/ campaign'.state = "PAUSED" /\ decision = "PAUSE"
                           \/ campaign'.state \in {"CANARY", "ROLLING", "VERIFYING"}
    BY <1>6, Evaluated
  <2>. QED  BY <2>1, <2>2 DEF KeepsPolling, PollsWhileRunning
<1>. QED  BY <1>1, <1>2, <1>3, <1>4, <1>5, <1>6, CampaignSteps

CoordinatorInvariant == DisruptionClaims /\ PollsWhileRunning

LEMMA CoordinatorStarts == DisruptionInit => CoordinatorInvariant
<1>1. DisruptionInit => PollsWhileRunning
  BY SMTT(30) DEF DisruptionInit, UpgradeInit, PollsWhileRunning
<1>. QED  BY <1>1, DisruptionStarts DEF CoordinatorInvariant

LEMMA CoordinatorStep ==
  CoordinatorInvariant /\ [DisruptionNext]_disruptionVars =>
    /\ CoordinatorInvariant'
    /\ campaign.state = "PAUSED" /\ campaign'.state # "PAUSED" => ~campaign.live
<1>1. UNCHANGED disruptionVars /\ PollsWhileRunning => PollsWhileRunning' /\ UNCHANGED campaign
  BY DEF PollsWhileRunning, disruptionVars, upgradeVars
<1>. QED  BY <1>1, DisruptionStep, CoordinatorPolls DEF CoordinatorInvariant, DisruptionClaims

\* Whatever the campaign and its targets: a paused campaign leaves PAUSED only
\* while no coordinator holds a live claim (EvaluateUpgradeCanary,
\* ResumeUpgradeCampaign).
THEOREM PausedTheorem == DisruptionSpec => PausedUntilResumed
<1>1. CoordinatorInvariant /\ [DisruptionNext]_disruptionVars =>
        [campaign.state = "PAUSED" /\ campaign'.state # "PAUSED" => ~campaign.live]_disruptionVars
  BY CoordinatorStep
<1>. QED  BY <1>1, CoordinatorStarts, CoordinatorStep, PTL DEF DisruptionSpec, PausedUntilResumed

\* The targets of a wave without a recorded success.
NotDone(w) == WaveTargets(w) \ InState(w, {"SUCCEEDED"})

LEMMA PassedKept ==
  ASSUME UpgradeTypeOK, PassedWavesHold, UNCHANGED campaign,
         \A w \in 1..(campaign.wave - 1) : NotDone(w)' \subseteq NotDone(w)
  PROVE  PassedWavesHold'
<1>. SUFFICES ASSUME NEW w \in 1..(campaign.wave - 1) PROVE Cardinality(NotDone(w)') <= Threshold
  BY DEF PassedWavesHold, NotDone
<1>1. IsFiniteSet(NotDone(w))
  <2>1. NotDone(w) \subseteq WaveTargets(w) /\ IsFiniteSet(WaveTargets(w))
    BY WaveFinite DEF NotDone
  <2>. QED  BY <2>1, FS_Subset
<1>2. NotDone(w)' \subseteq NotDone(w) /\ Cardinality(NotDone(w)) <= Threshold
  BY DEF PassedWavesHold, NotDone
<1>3. IsFiniteSet(NotDone(w)') /\ Cardinality(NotDone(w)') <= Cardinality(NotDone(w))
  BY <1>1, <1>2, FS_Subset
<1>4. Cardinality(NotDone(w)') \in Nat /\ Cardinality(NotDone(w)) \in Nat
  BY <1>1, <1>3, FS_CardinalityType
<1>. QED  BY <1>2, <1>3, <1>4, UpgradeAssumption, SMTT(30)

\* A row of the current wave, or one that has not succeeded, changes.
LEMMA PassedRow ==
  ASSUME UpgradeTypeOK, PassedWavesHold, UNCHANGED campaign,
         NEW t \in DOMAIN upgrade, NEW row, upgrade' = [upgrade EXCEPT ![t] = row],
         \/ WaveOf[t[2]] = campaign.wave
         \/ upgrade[t].state # "SUCCEEDED"
         \/ row.state = upgrade[t].state
  PROVE  PassedWavesHold'
<1>1. ASSUME NEW w \in 1..(campaign.wave - 1) PROVE w # campaign.wave
  BY <1>1, SMTT(30) DEF UpgradeTypeOK, CampaignRow
<1>2. ASSUME NEW w \in 1..(campaign.wave - 1) PROVE NotDone(w)' \subseteq NotDone(w)
  <2>. SUFFICES ASSUME NEW u \in NotDone(w)' PROVE u \in NotDone(w)
    OBVIOUS
  <2>1. /\ u \in DOMAIN upgrade /\ u[1] = campaign.rev /\ WaveOf[u[2]] = w
        /\ upgrade'[u].state # "SUCCEEDED"
    BY DEF NotDone, WaveTargets, InState
  <2>2. upgrade[u].state # "SUCCEEDED"
    <3>1. CASE u # t
      BY <2>1, <3>1
    <3>2. CASE u = t
      BY <1>1, <2>1, <3>2
    <3>. QED  BY <3>1, <3>2
  <2>. QED  BY <2>1, <2>2 DEF NotDone, WaveTargets, InState
<1>. QED  BY <1>2, PassedKept

\* The wave that is passed: everything in it succeeded but the targets that
\* were counted as failed.
LEMMA WavePasses ==
  ASSUME UpgradeTypeOK, PassedWavesHold, EvaluateUpgradeCanary
  PROVE  PassedWavesHold'
<1>. PICK w : w = campaign.wave
  OBVIOUS
<1>1. PICK decision : /\ decision = "CONTINUE" =>
                           /\ Cardinality(InState(w, {"FAILED", "FENCED"})) <= Threshold
                           /\ Cardinality(InState(w, {"UNKNOWN"})) = 0
                           /\ Cardinality(InState(w, {"PENDING", "IN_PROGRESS"})) = 0
                      /\ campaign'.rev = campaign.rev
                      /\ campaign'.wave = w \/ (campaign'.wave = w + 1 /\ decision = "CONTINUE")
  BY Evaluated
<1>. PICK failed : failed = Cardinality(InState(w, {"FAILED", "FENCED"}))
  OBVIOUS
<1>2. w \in Nat
  BY UpgradeAssumption, SMTT(30) DEF UpgradeTypeOK, CampaignRow
<1>3. \A v : NotDone(v)' = NotDone(v)
  BY <1>1 DEF NotDone, WaveTargets, InState, EvaluateUpgradeCanary
<1>4. decision = "CONTINUE" => Cardinality(NotDone(w)) <= Threshold
  <2>. SUFFICES ASSUME decision = "CONTINUE" PROVE Cardinality(NotDone(w)) <= Threshold
    OBVIOUS
  <2>1. InState(w, {"UNKNOWN"}) = {} /\ InState(w, {"PENDING", "IN_PROGRESS"}) = {}
    BY <1>1, WaveFinite, FS_EmptySet
  <2>2. \A t \in WaveTargets(w) :
          upgrade[t].state \in {"PENDING", "IN_PROGRESS", "SUCCEEDED", "FAILED", "UNKNOWN", "FENCED"}
    BY DEF WaveTargets, UpgradeTypeOK, UpgradeRow
  <2>3. NotDone(w) \subseteq InState(w, {"FAILED", "FENCED"})
    BY <2>1, <2>2 DEF NotDone, InState
  <2>4. IsFiniteSet(NotDone(w)) /\ Cardinality(NotDone(w)) <= failed
    BY <2>3, WaveFinite, FS_Subset
  <2>5. Cardinality(NotDone(w)) \in Nat /\ failed \in Nat
    BY <2>4, WaveFinite, FS_CardinalityType
  <2>. QED  BY <1>1, <2>4, <2>5, UpgradeAssumption, SMTT(30)
<1>5. \A v \in 1..(w - 1) : Cardinality(NotDone(v)) <= Threshold
  BY DEF PassedWavesHold, NotDone
<1>6. ASSUME NEW v \in 1..(campaign'.wave - 1) PROVE Cardinality(NotDone(v)') <= Threshold
  <2>1. v \in 1..(w - 1) \/ (v = w /\ decision = "CONTINUE")
    BY <1>1, <1>2, <1>6, SMTT(30)
  <2>. QED  BY <1>3, <1>4, <1>5, <2>1
<1>. QED  BY <1>6 DEF PassedWavesHold, NotDone

LEMMA PassedUnchanged ==
  ASSUME PassedWavesHold, UNCHANGED upgrade, campaign'.rev = campaign.rev, campaign'.wave = campaign.wave
  PROVE  PassedWavesHold'
<1>1. \A v : NotDone(v)' = NotDone(v)
  BY DEF NotDone, WaveTargets, InState
<1>. QED  BY <1>1 DEF PassedWavesHold, NotDone

LEMMA PassedStep ==
  ASSUME UpgradeTypeOK, PassedWavesHold, DisruptionNext
  PROVE  PassedWavesHold'
<1>1. ASSUME UNCHANGED <<campaign, upgrade>> PROVE PassedWavesHold'
  BY <1>1, PassedUnchanged
<1>3. ASSUME ClaimUpgradeCampaign \/ CampaignClaimLapses \/ ResumeUpgradeCampaign PROVE PassedWavesHold'
  <2>1. UNCHANGED upgrade /\ campaign'.rev = campaign.rev /\ campaign'.wave = campaign.wave
    BY <1>3 DEF ClaimUpgradeCampaign, CampaignClaimLapses, ResumeUpgradeCampaign, UpgradeTypeOK, CampaignRow
  <2>. QED  BY <2>1, PassedUnchanged
<1>4. ASSUME PublishUpgradeCampaignPlan PROVE PassedWavesHold'
  <2>1. campaign'.wave = 1
    BY <1>4 DEF PublishUpgradeCampaignPlan, UpgradeTypeOK, CampaignRow
  <2>2. 1..(campaign'.wave - 1) = {}
    BY <2>1, SMTT(30)
  <2>. QED  BY <2>2 DEF PassedWavesHold
<1>5. ASSUME NEW t \in DOMAIN upgrade, NEW o, RecordUpgradeTargetOutcome(t, o) PROVE PassedWavesHold'
  BY <1>5, PassedRow DEF RecordUpgradeTargetOutcome
<1>6. ASSUME NEW t \in DOMAIN upgrade, UpgradeClaimLapses(t) PROVE PassedWavesHold'
  <2>1. [upgrade[t] EXCEPT !.live = FALSE].state = upgrade[t].state
    BY DEF UpgradeTypeOK, UpgradeRow
  <2>. QED  BY <1>6, <2>1, PassedRow DEF UpgradeClaimLapses
<1>7. ASSUME NEW t \in DOMAIN upgrade, RearmUpgradeTargetAfterRecovery(t) PROVE PassedWavesHold'
  <2>1. upgrade' = [upgrade EXCEPT ![t] = [[upgrade[t] EXCEPT !.state = "PENDING"] EXCEPT !.exec = "PENDING"]]
        /\ upgrade[t].state # "SUCCEEDED" /\ UNCHANGED campaign
    BY <1>7 DEF RearmUpgradeTargetAfterRecovery, Quarantined
  <2>. QED  BY <2>1, PassedRow
<1>8. ASSUME NEW t \in DOMAIN upgrade, ClaimUpgradeTarget(t) PROVE PassedWavesHold'
  <2>1. WaveOf[t[2]] = campaign.wave /\ UNCHANGED campaign
    BY <1>8 DEF ClaimUpgradeTarget, UpgradeTargetOpen
  <2>2. \E row : upgrade' = [upgrade EXCEPT ![t] = row]
    BY <1>8 DEF ClaimUpgradeTarget
  <2>. QED  BY <2>1, <2>2, PassedRow
<1>9. ASSUME NEW w \in worker, ObserveUpgradeTarget(w) \/ \E o : CompleteUpgradeTarget(w, o)
      PROVE  PassedWavesHold'
  <2>1. w.target \in DOMAIN upgrade /\ WaveOf[w.target[2]] = campaign.wave /\ UNCHANGED campaign
    BY <1>9 DEF ObserveUpgradeTarget, CompleteUpgradeTarget, UpgradeClaimCurrent, UpgradeTypeOK
  <2>2. \E row : upgrade' = [upgrade EXCEPT ![w.target] = row]
    BY <1>9 DEF ObserveUpgradeTarget, CompleteUpgradeTarget
  <2>. QED  BY <2>1, <2>2, PassedRow
<1>10. ASSUME \/ \E t \in DOMAIN upgrade : ApproveUpgradeTargetRecoveryPlan(t) \/ ClaimUpgradeTargetRecovery(t)
                                             \/ RecoveryClaimLapses(t)
              \/ \E w \in worker : \/ ProbeComponent(w) \/ ApplyRelease(w) \/ RecoverRelease(w)
                                   \/ ExecutorStops(w) \/ ObserveUpgradeTargetRecovery(w)
                                   \/ CompleteUpgradeTargetRecovery(w)
              \/ UNCHANGED upgradeVars
       PROVE  UNCHANGED <<campaign, upgrade>>
  BY <1>10 DEF ApproveUpgradeTargetRecoveryPlan, ClaimUpgradeTargetRecovery, RecoveryClaimLapses, ProbeComponent,
     ApplyRelease, RecoverRelease, ExecutorStops, ObserveUpgradeTargetRecovery, CompleteUpgradeTargetRecovery,
     upgradeVars
<1>11. ASSUME CampaignStep PROVE PassedWavesHold'
  BY <1>3, <1>4, <1>5, <1>11, WavePasses DEF CampaignStep
<1>12. ASSUME TargetStep PROVE PassedWavesHold'
  BY <1>1, <1>6, <1>7, <1>8, <1>9, <1>10, <1>12 DEF TargetStep, executeTarget, executeRecovery
<1>. QED  BY <1>1, <1>10, <1>11, <1>12 DEF DisruptionNext, UpgradeStep

WavesInvariant == DisruptionClaims /\ PassedWavesHold

\* For any failure threshold and any number of waves and targets: what
\* EvaluateUpgradeCanary counted when it moved on stays true of every wave it
\* has passed, whatever executors, late observations and rearms do.
THEOREM PassedWavesTheorem == DisruptionSpec => []PassedWavesHold
<1>1. DisruptionInit => WavesInvariant
  <2>1. DisruptionInit => 1..(campaign.wave - 1) = {}
    BY SMTT(30) DEF DisruptionInit, UpgradeInit
  <2>. QED  BY <2>1, DisruptionStarts DEF WavesInvariant, PassedWavesHold
<1>2. WavesInvariant /\ [DisruptionNext]_disruptionVars => WavesInvariant'
  <2>1. UNCHANGED disruptionVars /\ PassedWavesHold => PassedWavesHold'
    BY PassedUnchanged DEF disruptionVars, upgradeVars
  <2>. QED  BY <2>1, DisruptionStep, PassedStep DEF WavesInvariant, DisruptionClaims
<1>3. WavesInvariant => PassedWavesHold
  BY DEF WavesInvariant
<1>. QED  BY <1>1, <1>2, <1>3, PTL DEF DisruptionSpec

-----------------------------------------------------------------------------
(***************************************************************************)
(* Groups: what their evidence and their rows promise each other           *)
(***************************************************************************)

\* An evaluation names Hosts it has seen, and those that matched still match
\* while their projection has not been replaced.
EvidenceOK ==
  /\ IsFiniteSet(evaluations)
  /\ \A e \in evaluations :
       /\ e.group \in Groups /\ e.gen \in Nat /\ e.result \in Matches /\ e.basis \in Basis
       /\ e.matched \subseteq DOMAIN e.seen /\ DOMAIN e.seen \subseteq GroupHosts
       /\ \A h \in DOMAIN e.seen :
            /\ e.seen[h] \in Nat /\ e.seen[h] <= inventory[h].gen
            /\ h \in e.matched /\ inventory[h].gen = e.seen[h] /\ inventory[h].current =>
                 HostMatch(h) = "MATCHED"

AssertionsOK ==
  /\ DOMAIN assertions = Assertions
  /\ \A a \in Assertions : assertions[a].verdict # "NONE" => assertions[a] \in AssertionRow

\* The rows of groups, policies and the hierarchy.
RowsOK ==
  /\ groups \in [Groups -> GroupRow]
  /\ cardinality \in [Levels -> PolicyRow]
  /\ selectors \in [Groups -> SelectorRow]
  /\ inventory \in [GroupHosts -> Projection]
  /\ sets \in [Groups -> SetRow]
  /\ members \in [Groups -> [GroupHosts -> MemberRow]]

HierarchyOK ==
  /\ hierarchy.gen \in Nat
  /\ DOMAIN hierarchy.nodes \subseteq Groups /\ DOMAIN hierarchy.parent \subseteq Groups
  /\ \A n \in DOMAIN hierarchy.nodes : hierarchy.nodes[n] \in Nat /\ hierarchy.nodes[n] <= groups[n].gen

IssuerOK == issuer.gen \in Nat /\ issuer.state \in {"NONE", "TRUSTED", "RETIRED", "REVOKED"}

\* A set is based on a generation of its group and of its level's policy that
\* there has been.
BasisOK ==
  \A g \in Groups : sets[g].gen > 0 =>
    /\ Exists(g) /\ sets[g].basis.group <= groups[g].gen
    /\ sets[g].basis.policy <= cardinality[groups[g].level].gen

\* The set of g is based on the current generations of its group and policy,
\* whatever became of its selector and of the hierarchy.
Established(g) ==
  /\ sets[g].gen > 0 /\ Active(g) /\ sets[g].basis.group = groups[g].gen
  /\ sets[g].basis.policy = cardinality[groups[g].level].gen

MembersApart ==
  \A g, o \in Groups : \A h \in GroupHosts :
    /\ g # o /\ groups[g].level = groups[o].level
    /\ cardinality[groups[g].level].kind # "MANY"
    /\ Established(g) /\ Established(o)
    => ~(members[g][h].state = "ACTIVE" /\ members[o][h].state = "ACTIVE")

GroupsInvariant ==
  RowsOK /\ EvidenceOK /\ AssertionsOK /\ HierarchyOK /\ IssuerOK /\ BasisOK /\ MembersApart

\* Facts about numbers and rows that the steps below share.
LEMMA Numbers ==
  /\ 0 \in Nat /\ 1 \in Nat /\ ~(0 > 0)
  /\ \A n \in Nat : n + 1 \in Nat /\ n + 1 > 0 /\ n <= n /\ ~(n > n)
  BY SMTT(30)

LEMMA BasisMade ==
  ASSUME NEW group, NEW policy, NEW kind, NEW hier, NEW selector, NEW basis,
         basis = [group |-> group, policy |-> policy, kind |-> kind, hierarchy |-> hier, selector |-> selector]
  PROVE  basis.group = group /\ basis.policy = policy
  BY SMTT(30)

LEMMA SetMade ==
  ASSUME NEW gen, NEW source, NEW basis, NEW set, set = [gen |-> gen, source |-> source, basis |-> basis]
  PROVE  /\ set.gen = gen /\ set.source = source /\ set.basis = basis
         /\ gen \in Nat /\ source \in Sources /\ basis \in Basis => set \in SetRow
<1>1. set.gen = gen /\ set.source = source /\ set.basis = basis
  BY SMTT(30)
<1>2. gen \in Nat /\ source \in Sources /\ basis \in Basis => set \in SetRow
  BY DEF SetRow
<1>. QED  BY <1>1, <1>2

LEMMA HierarchyMade ==
  ASSUME NEW gen, NEW nodes, NEW parent, NEW row, row = [gen |-> gen, nodes |-> nodes, parent |-> parent]
  PROVE  row.gen = gen /\ row.nodes = nodes /\ row.parent = parent
  BY SMTT(30)

LEMMA EvaluationMade ==
  ASSUME NEW gen, NEW group, NEW result, NEW matched, NEW seen, NEW basis, NEW row,
         row = [gen |-> gen, group |-> group, result |-> result, matched |-> matched, seen |-> seen, basis |-> basis]
  PROVE  /\ row.gen = gen /\ row.group = group /\ row.result = result
         /\ row.matched = matched /\ row.seen = seen /\ row.basis = basis
  BY SMTT(30)

LEMMA IssuerMade ==
  ASSUME NEW gen, NEW state, NEW trusted, NEW row, row = [gen |-> gen, state |-> state, scope |-> trusted]
  PROVE  row.gen = gen /\ row.state = state
  BY SMTT(30)

LEMMA GroupMade ==
  ASSUME NEW gen \in Nat, NEW level \in Levels, NEW lifecycle \in Lifecycles, NEW row,
         row = [gen |-> gen, level |-> level, lifecycle |-> lifecycle]
  PROVE  row \in GroupRow /\ row.gen = gen /\ row.level = level
  BY SMTT(30) DEF GroupRow

LEMMA PolicyMade ==
  ASSUME NEW gen \in Nat, NEW kind \in Cardinalities, NEW state \in {"ACTIVE", "RETIRED"}, NEW row,
         row = [gen |-> gen, kind |-> kind, state |-> state]
  PROVE  row \in PolicyRow /\ row.gen = gen /\ row.kind = kind
  BY SMTT(30) DEF PolicyRow

LEMMA GroupsStart == GroupsInit => GroupsInvariant
<1>. SUFFICES ASSUME GroupsInit PROVE GroupsInvariant
  OBVIOUS
<1>1. RowsOK
  <2>1. [gen |-> 0, level |-> 0, lifecycle |-> "DRAFT"] \in GroupRow
    BY HostGroupsAssumption, SMTT(30) DEF GroupRow, Lifecycles
  <2>2. [gen |-> 0, kind |-> "MANY", state |-> "ACTIVE"] \in PolicyRow
    BY SMTT(30) DEF PolicyRow, Cardinalities
  <2>3. [gen |-> 0, group |-> 0, state |-> "ACTIVE"] \in SelectorRow
    BY SMTT(30) DEF SelectorRow, SelectorStates
  <2>4. [gen |-> 0, current |-> FALSE, match |-> "UNKNOWN"] \in Projection
    BY SMTT(30) DEF Projection, Matches
  <2>5. Explicit \in Sources
    BY DEF Sources
  <2>6. NoBasis \in Basis
    BY SMTT(30) DEF NoBasis, Basis, Cardinalities
  <2>7. [gen |-> 0, source |-> Explicit, basis |-> NoBasis] \in SetRow
    BY <2>5, <2>6, SMTT(30) DEF SetRow
  <2>8. NoMember \in MemberRow
    BY <2>5, SMTT(30) DEF NoMember, MemberRow
  <2>. QED  BY <2>1, <2>2, <2>3, <2>4, <2>7, <2>8 DEF GroupsInit, RowsOK
<1>2. EvidenceOK
  BY FS_EmptySet DEF GroupsInit, EvidenceOK
<1>3. AssertionsOK
  <2>1. [verdict |-> "NONE"].verdict = "NONE"
    BY SMTT(30)
  <2>. QED  BY <2>1 DEF GroupsInit, AssertionsOK
<1>4. HierarchyOK /\ IssuerOK
  BY SMTT(30) DEF GroupsInit, HierarchyOK, IssuerOK
<1>5. \A g \in Groups : sets[g].gen = 0 /\ ~(sets[g].gen > 0)
  BY SMTT(30) DEF GroupsInit
<1>6. BasisOK /\ MembersApart
  BY <1>5 DEF BasisOK, MembersApart, Established
<1>. QED  BY <1>1, <1>2, <1>3, <1>4, <1>6 DEF GroupsInvariant

LEMMA ApartUnchanged ==
  ASSUME BasisOK, MembersApart, UNCHANGED <<groups, cardinality, sets, members>>
  PROVE  BasisOK' /\ MembersApart'
  BY DEF BasisOK, MembersApart, Established, Active, Exists

LEMMA UpsertGroupKeeps ==
  ASSUME GroupsInvariant, NEW g \in Groups, NEW level \in Levels, NEW lifecycle \in Lifecycles,
         UpsertHostGroup(g, groups[g].gen + 1, level, lifecycle)
  PROVE  GroupsInvariant'
<1>0. /\ groups[g].gen \in Nat /\ groups[g].gen + 1 \in Nat
      /\ \A x \in Nat : x <= groups[g].gen => x <= groups[g].gen + 1 /\ x # groups[g].gen + 1
      /\ groups[g].gen + 1 > 0
  BY SMTT(30) DEF GroupsInvariant, RowsOK, GroupRow
<1>. PICK gen : gen = groups[g].gen + 1
  OBVIOUS
<1>. PICK row : row = [gen |-> gen, level |-> level, lifecycle |-> lifecycle]
  OBVIOUS
<1>. PICK many : many = [gen |-> 1, kind |-> "MANY", state |-> "ACTIVE"]
  OBVIOUS
<1>1. row \in GroupRow /\ row.gen = gen /\ row.level = level
  BY <1>0, GroupMade
<1>2. many \in PolicyRow /\ many.kind = "MANY" /\ many.gen = 1
  <2>1. "MANY" \in Cardinalities /\ "ACTIVE" \in {"ACTIVE", "RETIRED"}
    BY DEF Cardinalities
  <2>. QED  BY <2>1, Numbers, PolicyMade
<1>3. /\ groups' = [groups EXCEPT ![g] = row]
      /\ cardinality' = IF cardinality[level].gen > 0 THEN cardinality ELSE [cardinality EXCEPT ![level] = many]
      /\ UNCHANGED <<hierarchy, selectors, evaluations, inventory, issuer, assertions, sets, members>>
      /\ Exists(g) => level = groups[g].level
  BY DEF UpsertHostGroup
<1>4. RowsOK'
  BY <1>1, <1>2, <1>3 DEF GroupsInvariant, RowsOK
<1>5. EvidenceOK' /\ AssertionsOK' /\ IssuerOK'
  BY <1>3 DEF GroupsInvariant, EvidenceOK, AssertionsOK, IssuerOK, HostMatch
<1>6. HierarchyOK'
  BY <1>0, <1>1, <1>3 DEF GroupsInvariant, HierarchyOK, RowsOK
<1>7. \A l \in Levels : \A x \in Nat : x <= cardinality[l].gen => x <= cardinality'[l].gen
  <2>1. ASSUME ~(cardinality[level].gen > 0), NEW x \in Nat, x <= cardinality[level].gen PROVE x <= 1
    BY <2>1, SMTT(30) DEF GroupsInvariant, RowsOK, PolicyRow
  <2>. QED  BY <1>2, <1>3, <2>1 DEF GroupsInvariant, RowsOK
<1>8. BasisOK'
  <2>. SUFFICES ASSUME NEW o \in Groups, sets[o].gen > 0
                PROVE  /\ groups'[o].gen > 0 /\ sets[o].basis.group <= groups'[o].gen
                       /\ sets[o].basis.policy <= cardinality'[groups'[o].level].gen
    BY <1>3 DEF BasisOK, Exists
  <2>1. /\ Exists(o) /\ sets[o].basis.group <= groups[o].gen
        /\ sets[o].basis.policy <= cardinality[groups[o].level].gen
    BY DEF GroupsInvariant, BasisOK
  <2>2. sets[o].basis.policy \in Nat /\ sets[o].basis.group \in Nat
        /\ groups[o].level \in Levels
    BY DEF GroupsInvariant, RowsOK, SetRow, Basis, GroupRow
  <2>3. groups'[o].level = groups[o].level
    BY <1>1, <1>3, <2>1 DEF GroupsInvariant, RowsOK
  <2>4. groups'[o].gen > 0 /\ sets[o].basis.group <= groups'[o].gen
    BY <1>0, <1>1, <1>3, <2>1, <2>2 DEF GroupsInvariant, RowsOK, Exists
  <2>. QED  BY <1>7, <2>1, <2>2, <2>3, <2>4
<1>9. ~Established(g)'
  <2>1. sets[g].basis.group \in Nat
    BY DEF GroupsInvariant, RowsOK, SetRow, Basis
  <2>2. sets[g].gen > 0 => sets[g].basis.group # gen
    BY <1>0, <2>1 DEF GroupsInvariant, BasisOK
  <2>. QED  BY <1>1, <1>3, <2>2 DEF Established, GroupsInvariant, RowsOK
<1>10. MembersApart'
  <2>. SUFFICES ASSUME NEW a \in Groups, NEW b \in Groups, NEW h \in GroupHosts, a # b,
                       groups'[a].level = groups'[b].level,
                       cardinality'[groups'[a].level].kind # "MANY", Established(a)', Established(b)'
                PROVE  ~(members[a][h].state = "ACTIVE" /\ members[b][h].state = "ACTIVE")
    BY <1>3 DEF MembersApart
  <2>1. a # g /\ b # g /\ groups'[a] = groups[a] /\ groups'[b] = groups[b] /\ groups[a].level \in Levels
    BY <1>3, <1>9 DEF GroupsInvariant, RowsOK, GroupRow
  <2>2. cardinality'[groups[a].level] = cardinality[groups[a].level]
    BY <1>2, <1>3, <2>1 DEF GroupsInvariant, RowsOK
  <2>3. Established(a) /\ Established(b)
    BY <1>3, <2>1, <2>2 DEF Established, Active, Exists
  <2>. QED  BY <2>1, <2>2, <2>3 DEF GroupsInvariant, MembersApart
<1>. QED  BY <1>4, <1>5, <1>6, <1>8, <1>10 DEF GroupsInvariant

LEMMA UpsertPolicyKeeps ==
  ASSUME GroupsInvariant, NEW level \in Levels, NEW kind \in Cardinalities, NEW state \in {"ACTIVE", "RETIRED"},
         UpsertHostGroupCardinalityPolicy(level, cardinality[level].gen + 1, kind, state)
  PROVE  GroupsInvariant'
<1>0. /\ cardinality[level].gen + 1 \in Nat
      /\ \A x \in Nat : x <= cardinality[level].gen =>
           x <= cardinality[level].gen + 1 /\ x # cardinality[level].gen + 1
  BY SMTT(30) DEF GroupsInvariant, RowsOK, PolicyRow
<1>. PICK gen : gen = cardinality[level].gen + 1
  OBVIOUS
<1>. PICK row : row = [gen |-> gen, kind |-> kind, state |-> state]
  OBVIOUS
<1>1. row \in PolicyRow /\ row.gen = gen
  BY <1>0, PolicyMade
<1>2. /\ cardinality' = [cardinality EXCEPT ![level] = row]
      /\ UNCHANGED <<groups, hierarchy, selectors, evaluations, inventory, issuer, assertions, sets, members>>
  BY DEF UpsertHostGroupCardinalityPolicy
<1>3. RowsOK'
  BY <1>1, <1>2 DEF GroupsInvariant, RowsOK
<1>4. EvidenceOK' /\ AssertionsOK' /\ IssuerOK' /\ HierarchyOK'
  BY <1>2 DEF GroupsInvariant, EvidenceOK, AssertionsOK, IssuerOK, HierarchyOK, HostMatch
<1>5. \A g \in Groups : groups[g].level \in Levels /\ sets[g].basis.policy \in Nat
  BY DEF GroupsInvariant, RowsOK, GroupRow, SetRow, Basis
<1>6. BasisOK'
  BY <1>0, <1>1, <1>2, <1>5 DEF GroupsInvariant, RowsOK, BasisOK, Exists
<1>7. ASSUME NEW g \in Groups, Established(g)' PROVE groups[g].level # level /\ Established(g)
  <2>1. sets[g].gen > 0 /\ sets[g].basis.policy = cardinality'[groups[g].level].gen
    BY <1>2, <1>7 DEF Established
  <2>2. sets[g].basis.policy <= cardinality[groups[g].level].gen
    BY <2>1 DEF GroupsInvariant, BasisOK
  <2>3. groups[g].level # level
    BY <1>0, <1>1, <1>2, <1>5, <2>1, <2>2 DEF GroupsInvariant, RowsOK
  <2>. QED  BY <1>2, <1>5, <1>7, <2>3 DEF Established, Active, Exists, GroupsInvariant, RowsOK
<1>8. MembersApart'
  <2>. SUFFICES ASSUME NEW a \in Groups, NEW b \in Groups, NEW h \in GroupHosts, a # b,
                       groups[a].level = groups[b].level,
                       cardinality'[groups[a].level].kind # "MANY", Established(a)', Established(b)'
                PROVE  ~(members[a][h].state = "ACTIVE" /\ members[b][h].state = "ACTIVE")
    BY <1>2 DEF MembersApart
  <2>1. cardinality'[groups[a].level] = cardinality[groups[a].level]
    BY <1>2, <1>5, <1>7 DEF GroupsInvariant, RowsOK
  <2>. QED  BY <1>7, <2>1 DEF GroupsInvariant, MembersApart
<1>. QED  BY <1>3, <1>4, <1>6, <1>8 DEF GroupsInvariant

LEMMA ElsewhereNone ==
  ASSUME NEW g, NEW h, NEW level, Cardinality(AssignedElsewhere(g, h, level)) = 0
  PROVE  AssignedElsewhere(g, h, level) = {}
<1>1. AssignedElsewhere(g, h, level) \subseteq Groups
  BY DEF AssignedElsewhere
<1>2. IsFiniteSet(AssignedElsewhere(g, h, level))
  BY <1>1, HostGroupsAssumption, FS_Subset
<1>. QED  BY <1>2, FS_EmptySet

\* A set is published: its rows and its basis are in order, and where the
\* policy limits the level no active group holds an active member of it.
LEMMA PublishKeeps ==
  ASSUME GroupsInvariant, NEW g \in Groups, NEW requested, NEW source \in Sources, NEW selectorGen \in Nat,
         \A h \in GroupHosts : h \in DOMAIN requested => requested[h] \in MemberRow,
         PublishMembershipSet(g, requested, source, selectorGen)
  PROVE  GroupsInvariant'
<1>. PICK level : level = groups[g].level
  OBVIOUS
<1>. PICK policy : policy = cardinality[level]
  OBVIOUS
<1>. PICK rows : rows = CompletedMembers(g, requested, source)
  OBVIOUS
<1>. PICK basis : basis = [group |-> groups[g].gen, policy |-> policy.gen, kind |-> policy.kind,
                           hierarchy |-> hierarchy.gen, selector |-> selectorGen]
  OBVIOUS
<1>. PICK set : set = [gen |-> sets[g].gen + 1, source |-> source, basis |-> basis]
  OBVIOUS
<1>1. /\ Active(g) /\ CardinalityAllows(g, policy.kind, rows)
      /\ sets' = [sets EXCEPT ![g] = set] /\ members' = [members EXCEPT ![g] = rows]
      /\ UNCHANGED <<groups, cardinality, hierarchy, selectors, evaluations, inventory, issuer, assertions>>
  BY DEF PublishMembershipSet, MembershipPublishable
<1>2. groups[g] \in GroupRow /\ level \in Levels /\ policy \in PolicyRow /\ hierarchy.gen \in Nat
  BY DEF GroupsInvariant, RowsOK, HierarchyOK, GroupRow
<1>3. basis \in Basis /\ basis.group = groups[g].gen /\ basis.policy = policy.gen
  <2>1. groups[g].gen \in Nat /\ policy.gen \in Nat /\ policy.kind \in Cardinalities
    BY <1>2 DEF GroupRow, PolicyRow
  <2>2. basis \in Basis
    BY <1>2, <2>1 DEF Basis
  <2>3. basis.group = groups[g].gen /\ basis.policy = policy.gen
    BY BasisMade
  <2>. QED  BY <2>2, <2>3
<1>4. sets[g].gen + 1 \in Nat /\ sets[g].gen + 1 > 0
  BY Numbers DEF GroupsInvariant, RowsOK, SetRow
<1>5. set \in SetRow /\ set.gen > 0 /\ set.basis = basis
  BY <1>3, <1>4, SetMade
<1>6. rows \in [GroupHosts -> MemberRow]
  <2>1. ASSUME NEW h \in GroupHosts
        PROVE  [gen |-> members[g][h].gen + 1, state |-> "REMOVED", source |-> source] \in MemberRow
               /\ members[g][h] \in MemberRow
    <3>1. members[g][h] \in MemberRow
      BY DEF GroupsInvariant, RowsOK
    <3>2. members[g][h].gen + 1 \in Nat
      BY <3>1, Numbers DEF MemberRow
    <3>. QED  BY <3>1, <3>2 DEF MemberRow, MembershipStates
  <2>. QED  BY <2>1 DEF CompletedMembers
<1>7. RowsOK'
  BY <1>1, <1>5, <1>6 DEF GroupsInvariant, RowsOK
<1>8. EvidenceOK' /\ AssertionsOK' /\ IssuerOK' /\ HierarchyOK'
  BY <1>1 DEF GroupsInvariant, EvidenceOK, AssertionsOK, IssuerOK, HierarchyOK, HostMatch
<1>9. BasisOK'
  <2>1. groups[g].gen <= groups[g].gen /\ policy.gen <= policy.gen
    BY <1>2, Numbers DEF GroupRow, PolicyRow
  <2>2. Exists(g)
    BY <1>1 DEF Active
  <2>. QED  BY <1>1, <1>3, <1>5, <2>1, <2>2 DEF GroupsInvariant, RowsOK, BasisOK, Exists
<1>10. ASSUME NEW o \in Groups, o # g, groups[o].level = level, policy.kind # "MANY", Active(o),
              NEW h \in GroupHosts
       PROVE  ~(rows[h].state = "ACTIVE" /\ members[o][h].state = "ACTIVE")
  <2>1. rows[h].state = "ACTIVE" => Cardinality(AssignedElsewhere(g, h, level)) = 0
    BY <1>1, <1>10 DEF CardinalityAllows
  <2>. QED  BY <1>10, <2>1, ElsewhereNone DEF AssignedElsewhere
<1>11. ASSUME NEW o \in Groups, o # g, Established(o)' PROVE Established(o) /\ Active(o)
  BY <1>1, <1>11 DEF Established, Active, Exists, GroupsInvariant, RowsOK
<1>12. MembersApart'
  <2>. SUFFICES ASSUME NEW a \in Groups, NEW b \in Groups, NEW h \in GroupHosts, a # b,
                       groups[a].level = groups[b].level,
                       cardinality[groups[a].level].kind # "MANY", Established(a)', Established(b)'
                PROVE  ~(members'[a][h].state = "ACTIVE" /\ members'[b][h].state = "ACTIVE")
    BY <1>1 DEF MembersApart
  <2>0. members'[g] = rows /\ \A o \in Groups : o # g => members'[o] = members[o]
    BY <1>1 DEF GroupsInvariant, RowsOK
  <2>1. CASE a = g
    BY <1>10, <1>11, <2>0, <2>1
  <2>2. CASE b = g
    BY <1>10, <1>11, <2>0, <2>2
  <2>3. CASE a # g /\ b # g
    BY <1>11, <2>0, <2>3 DEF GroupsInvariant, MembersApart
  <2>. QED  BY <2>1, <2>2, <2>3
<1>. QED  BY <1>7, <1>8, <1>9, <1>12 DEF GroupsInvariant

LEMMA SourcesOK ==
  /\ Explicit \in Sources
  /\ \A n \in Nat : <<"SELECTOR", n>> \in Sources
  /\ \A a \in Assertions : <<"EXTERNAL_ASSERTION", a>> \in Sources
<1>1. \A n \in Nat : <<"SELECTOR", n>> \in {"SELECTOR"} \X Nat
  BY SMTT(30)
<1>2. \A a \in Assertions : <<"EXTERNAL_ASSERTION", a>> \in {"EXTERNAL_ASSERTION"} \X Assertions
  BY SMTT(30)
<1>. QED  BY <1>1, <1>2 DEF Sources

LEMMA MemberRows ==
  ASSUME GroupsInvariant, NEW g \in Groups, NEW h \in GroupHosts
  PROVE  /\ members[g][h] \in MemberRow
         /\ \A ahead \in 0..1 : members[g][h].gen + ahead \in Nat
         /\ members[g][h].gen \in Nat /\ members[g][h].gen + 1 \in Nat
<1>1. members[g][h] \in MemberRow
  BY DEF GroupsInvariant, RowsOK
<1>. QED  BY <1>1, SMTT(30) DEF MemberRow

LEMMA NewMember ==
  ASSUME NEW gen \in Nat, NEW state \in MembershipStates, NEW source \in Sources
  PROVE  [gen |-> gen, state |-> state, source |-> source] \in MemberRow
  BY SMTT(30) DEF MemberRow

LEMMA AssignKeeps ==
  ASSUME GroupsInvariant, NEW g \in Groups, NEW h \in GroupHosts, NEW gen \in Nat,
         NEW state \in MembershipStates, AssignHostGroupMembership(g, h, gen, state)
  PROVE  GroupsInvariant'
<1>. PICK current : current = [o \in {o \in GroupHosts : members[g][o].gen > 0} |-> members[g][o]]
  OBVIOUS
<1>. PICK row : row = [gen |-> gen, state |-> state, source |-> Explicit]
  OBVIOUS
<1>. PICK requested : requested = [o \in DOMAIN current \cup {h} |-> IF o = h THEN row ELSE current[o]]
  OBVIOUS
<1>1. row \in MemberRow
  BY NewMember, SourcesOK
<1>2. \A o \in GroupHosts : o \in DOMAIN requested => requested[o] \in MemberRow
  BY <1>1, MemberRows
<1>3. PublishMembershipSet(g, requested, Explicit, 0)
  BY DEF AssignHostGroupMembership
<1>4. 0 \in Nat
  BY SMTT(30)
<1>. QED  BY <1>2, <1>3, <1>4, SourcesOK, PublishKeeps

LEMMA PublishHostGroupKeeps ==
  ASSUME GroupsInvariant, NEW g \in Groups, NEW hs \in SUBSET GroupHosts, NEW ahead \in 0..1,
         NEW states \in [hs -> MembershipStates],
         PublishHostGroupMembershipSet(g,
           [h \in hs |-> [gen |-> members[g][h].gen + ahead, state |-> states[h], source |-> Explicit]])
  PROVE  GroupsInvariant'
<1>. PICK requested : requested = [h \in hs |-> [gen |-> members[g][h].gen + ahead, state |-> states[h],
                                                 source |-> Explicit]]
  OBVIOUS
<1>1. \A o \in GroupHosts : o \in DOMAIN requested => requested[o] \in MemberRow
  BY NewMember, MemberRows, SourcesOK
<1>2. PublishMembershipSet(g, requested, Explicit, 0)
  BY DEF PublishHostGroupMembershipSet
<1>3. 0 \in Nat
  BY SMTT(30)
<1>. QED  BY <1>1, <1>2, <1>3, SourcesOK, PublishKeeps

LEMMA MaterializeSelectorKeeps ==
  ASSUME GroupsInvariant, NEW e \in evaluations, MaterializeHostGroupSelectorEvaluation(e)
  PROVE  GroupsInvariant'
<1>. PICK g : g = e.group
  OBVIOUS
<1>. PICK source : source = <<"SELECTOR", e.gen>>
  OBVIOUS
<1>. PICK gens : gens = [h \in e.matched |->
                           IF members[g][h].gen = 0 THEN 1
                           ELSE IF members[g][h].state = "ACTIVE" /\ members[g][h].source = source
                                THEN members[g][h].gen ELSE members[g][h].gen + 1]
  OBVIOUS
<1>. PICK requested : requested = [h \in e.matched |-> [gen |-> gens[h], state |-> "ACTIVE", source |-> source]]
  OBVIOUS
<1>1. g \in Groups /\ source \in Sources /\ e.matched \subseteq GroupHosts /\ e.basis \in Basis
  BY SourcesOK DEF GroupsInvariant, EvidenceOK
<1>2. 1 \in Nat
  BY SMTT(30)
<1>3. \A h \in e.matched : gens[h] \in Nat
  BY <1>1, <1>2, MemberRows
<1>4. \A h \in GroupHosts : h \in DOMAIN requested => requested[h] \in MemberRow
  BY <1>1, <1>3, NewMember DEF MembershipStates
<1>5. PublishMembershipSet(g, requested, source, e.basis.selector)
  BY DEF MaterializeHostGroupSelectorEvaluation
<1>6. e.basis.selector \in Nat
  BY <1>1 DEF Basis
<1>. QED  BY <1>1, <1>4, <1>5, <1>6, PublishKeeps

LEMMA MaterializeAssertionKeeps ==
  ASSUME GroupsInvariant, NEW a \in Assertions, MaterializeExternalAssertionMembershipSet(a)
  PROVE  GroupsInvariant'
<1>. PICK v : v = assertions[a]
  OBVIOUS
<1>. PICK source : source = <<"EXTERNAL_ASSERTION", a>>
  OBVIOUS
<1>. PICK requested : requested = [h \in v.hosts |-> [gen |-> members[v.group][h].gen + 1, state |-> "ACTIVE",
                                                      source |-> source]]
  OBVIOUS
<1>1. v.group \in Groups /\ source \in Sources
  BY SourcesOK
  DEF GroupsInvariant, AssertionsOK, AssertionRow, MaterializeExternalAssertionMembershipSet, AssertionStillHolds
<1>2. \A h \in GroupHosts : h \in DOMAIN requested => requested[h] \in MemberRow
  BY <1>1, NewMember, MemberRows DEF MembershipStates
<1>3. PublishMembershipSet(v.group, requested, source, 0)
  BY DEF MaterializeExternalAssertionMembershipSet
<1>. QED  BY <1>1, <1>2, <1>3, Numbers, PublishKeeps

LEMMA HierarchyKeeps ==
  ASSUME GroupsInvariant, NEW nodes \in SUBSET Groups, NEW children \in SUBSET nodes,
         NEW parent \in [children -> nodes], PublishHostGroupHierarchy(nodes, parent)
  PROVE  GroupsInvariant'
<1>. PICK next : next = [n \in nodes |-> groups[n].gen]
  OBVIOUS
<1>. PICK row : row = [gen |-> hierarchy.gen + 1, nodes |-> next, parent |-> parent]
  OBVIOUS
<1>1. /\ hierarchy' = row
      /\ UNCHANGED <<groups, cardinality, selectors, evaluations, inventory, issuer, assertions, sets, members>>
  BY DEF PublishHostGroupHierarchy
<1>2. row.gen = hierarchy.gen + 1 /\ row.nodes = next /\ row.parent = parent
  BY HierarchyMade
<1>3. hierarchy.gen + 1 \in Nat
  BY Numbers DEF GroupsInvariant, HierarchyOK
<1>4. \A n \in nodes : groups[n].gen \in Nat /\ groups[n].gen <= groups[n].gen
  BY Numbers DEF GroupsInvariant, RowsOK, GroupRow
<1>5. HierarchyOK'
  BY <1>1, <1>2, <1>3, <1>4 DEF HierarchyOK
<1>6. RowsOK' /\ EvidenceOK' /\ AssertionsOK' /\ IssuerOK'
  BY <1>1 DEF GroupsInvariant, RowsOK, EvidenceOK, AssertionsOK, IssuerOK, HostMatch
<1>. QED  BY <1>1, <1>5, <1>6, ApartUnchanged DEF GroupsInvariant

LEMMA SelectorKeeps ==
  ASSUME GroupsInvariant, NEW g \in Groups, NEW state \in SelectorStates,
         UpsertHostGroupSelector(g, selectors[g].gen + 1, state)
  PROVE  GroupsInvariant'
<1>. PICK row : row = [gen |-> selectors[g].gen + 1, group |-> groups[g].gen, state |-> state]
  OBVIOUS
<1>1. /\ selectors' = [selectors EXCEPT ![g] = row]
      /\ UNCHANGED <<groups, cardinality, hierarchy, evaluations, inventory, issuer, assertions, sets, members>>
  BY DEF UpsertHostGroupSelector
<1>2. selectors[g] \in SelectorRow /\ groups[g] \in GroupRow
  BY DEF GroupsInvariant, RowsOK
<1>3. row \in SelectorRow
  BY <1>2, SMTT(30) DEF SelectorRow, GroupRow
<1>4. RowsOK'
  BY <1>1, <1>3 DEF GroupsInvariant, RowsOK
<1>5. EvidenceOK' /\ AssertionsOK' /\ IssuerOK' /\ HierarchyOK'
  BY <1>1 DEF GroupsInvariant, EvidenceOK, AssertionsOK, IssuerOK, HierarchyOK, HostMatch
<1>. QED  BY <1>1, <1>4, <1>5, ApartUnchanged DEF GroupsInvariant

LEMMA ProjectKeeps ==
  ASSUME GroupsInvariant, NEW h \in GroupHosts, NEW current \in BOOLEAN, NEW match \in Matches,
         ProjectInventory(h, current, match)
  PROVE  GroupsInvariant'
<1>. PICK row : row = [gen |-> inventory[h].gen + 1, current |-> current, match |-> match]
  OBVIOUS
<1>1. /\ inventory' = [inventory EXCEPT ![h] = row]
      /\ UNCHANGED <<groups, cardinality, hierarchy, selectors, evaluations, issuer, assertions, sets, members>>
  BY DEF ProjectInventory
<1>2. inventory[h].gen + 1 \in Nat
      /\ \A x \in Nat : x <= inventory[h].gen => x <= inventory[h].gen + 1 /\ inventory[h].gen + 1 # x
  BY SMTT(30) DEF GroupsInvariant, RowsOK, Projection
<1>3. row \in Projection
  BY <1>2 DEF Projection
<1>4. row.gen = inventory[h].gen + 1
  BY SMTT(30)
<1>5. RowsOK'
  BY <1>1, <1>3 DEF GroupsInvariant, RowsOK
<1>6. inventory'[h] = row /\ \A o \in GroupHosts : o # h => inventory'[o] = inventory[o]
  BY <1>1 DEF GroupsInvariant, RowsOK
<1>7. EvidenceOK'
  <2>. SUFFICES ASSUME NEW e \in evaluations, NEW o \in DOMAIN e.seen
                PROVE  /\ e.seen[o] \in Nat /\ e.seen[o] <= inventory'[o].gen
                       /\ o \in e.matched /\ inventory'[o].gen = e.seen[o] /\ inventory'[o].current =>
                            HostMatch(o)' = "MATCHED"
    BY <1>1 DEF GroupsInvariant, EvidenceOK
  <2>1. /\ o \in GroupHosts /\ e.seen[o] \in Nat /\ e.seen[o] <= inventory[o].gen
        /\ o \in e.matched /\ inventory[o].gen = e.seen[o] /\ inventory[o].current => HostMatch(o) = "MATCHED"
    BY DEF GroupsInvariant, EvidenceOK
  <2>2. CASE o = h
    BY <1>2, <1>4, <1>6, <2>1, <2>2
  <2>3. CASE o # h
    BY <1>6, <2>1, <2>3 DEF HostMatch
  <2>. QED  BY <2>2, <2>3
<1>8. AssertionsOK' /\ IssuerOK' /\ HierarchyOK'
  BY <1>1 DEF GroupsInvariant, AssertionsOK, IssuerOK, HierarchyOK
<1>. QED  BY <1>1, <1>5, <1>7, <1>8, ApartUnchanged DEF GroupsInvariant

LEMMA EvaluateKeeps ==
  ASSUME GroupsInvariant, NEW g \in Groups, NEW hs \in SUBSET GroupHosts, EvaluateHostGroupSelector(g, hs)
  PROVE  GroupsInvariant'
<1>. PICK level : level = groups[g].level
  OBVIOUS
<1>. PICK earlier : earlier = {e \in evaluations : e.group = g}
  OBVIOUS
<1>. PICK basis : basis = [group |-> groups[g].gen, policy |-> cardinality[level].gen,
                           kind |-> cardinality[level].kind, hierarchy |-> hierarchy.gen,
                           selector |-> selectors[g].gen]
  OBVIOUS
<1>. PICK matched : matched = {h \in hs : HostMatch(h) = "MATCHED"}
  OBVIOUS
<1>. PICK seen : seen = [h \in hs |-> inventory[h].gen]
  OBVIOUS
<1>. PICK new : new = [gen |-> Cardinality(earlier) + 1, group |-> g, result |-> OverallMatch(hs),
                       matched |-> matched, seen |-> seen, basis |-> basis]
  OBVIOUS
<1>1. /\ evaluations' = evaluations \cup {new}
      /\ UNCHANGED <<groups, cardinality, hierarchy, selectors, inventory, issuer, assertions, sets, members>>
  BY DEF EvaluateHostGroupSelector
<1>2. /\ groups[g] \in GroupRow /\ level \in Levels /\ cardinality[level] \in PolicyRow
      /\ selectors[g] \in SelectorRow /\ hierarchy.gen \in Nat
  BY DEF GroupsInvariant, RowsOK, HierarchyOK, GroupRow
<1>3. basis \in Basis
  <2>1. /\ groups[g].gen \in Nat /\ cardinality[level].gen \in Nat /\ cardinality[level].kind \in Cardinalities
        /\ selectors[g].gen \in Nat
    BY <1>2 DEF GroupRow, PolicyRow, SelectorRow
  <2>. QED  BY <1>2, <2>1 DEF Basis
<1>4. Cardinality(earlier) + 1 \in Nat
  <2>1. IsFiniteSet(earlier)
    BY FS_Subset DEF GroupsInvariant, EvidenceOK
  <2>2. Cardinality(earlier) \in Nat
    BY <2>1, FS_CardinalityType
  <2>. QED  BY <2>2, Numbers
<1>5. OverallMatch(hs) \in Matches
  BY DEF OverallMatch, Matches
<1>6. /\ new.gen = Cardinality(earlier) + 1 /\ new.group = g /\ new.result = OverallMatch(hs)
      /\ new.matched = matched /\ new.seen = seen /\ new.basis = basis
  BY EvaluationMade
<1>7. \A h \in hs : inventory[h].gen \in Nat /\ inventory[h].gen <= inventory[h].gen
  BY Numbers DEF GroupsInvariant, RowsOK, Projection
<1>8. IsFiniteSet(evaluations')
  BY <1>1, FS_AddElement DEF GroupsInvariant, EvidenceOK
<1>9. /\ new.group \in Groups /\ new.gen \in Nat /\ new.result \in Matches /\ new.basis \in Basis
      /\ new.matched \subseteq DOMAIN new.seen /\ DOMAIN new.seen \subseteq GroupHosts
      /\ \A h \in DOMAIN new.seen :
           /\ new.seen[h] \in Nat /\ new.seen[h] <= inventory[h].gen
           /\ h \in new.matched => HostMatch(h) = "MATCHED"
  BY <1>3, <1>4, <1>5, <1>6, <1>7
<1>10. EvidenceOK'
  <2>1. \A h : HostMatch(h)' = HostMatch(h)
    BY <1>1 DEF HostMatch
  <2>. SUFFICES ASSUME NEW e \in evaluations'
                PROVE  /\ e.group \in Groups /\ e.gen \in Nat /\ e.result \in Matches /\ e.basis \in Basis
                       /\ e.matched \subseteq DOMAIN e.seen /\ DOMAIN e.seen \subseteq GroupHosts
                       /\ \A h \in DOMAIN e.seen :
                            /\ e.seen[h] \in Nat /\ e.seen[h] <= inventory[h].gen
                            /\ h \in e.matched /\ inventory[h].gen = e.seen[h] /\ inventory[h].current =>
                                 HostMatch(h) = "MATCHED"
    BY <1>1, <1>8, <2>1 DEF EvidenceOK
  <2>2. CASE e = new
    BY <1>9, <2>2
  <2>3. CASE e # new
    BY <1>1, <2>3 DEF GroupsInvariant, EvidenceOK
  <2>. QED  BY <2>2, <2>3
<1>11. RowsOK' /\ AssertionsOK' /\ IssuerOK' /\ HierarchyOK'
  BY <1>1 DEF GroupsInvariant, RowsOK, AssertionsOK, IssuerOK, HierarchyOK
<1>. QED  BY <1>1, <1>10, <1>11, ApartUnchanged DEF GroupsInvariant

LEMMA IssuerKeeps ==
  ASSUME GroupsInvariant, NEW state \in {"TRUSTED", "RETIRED", "REVOKED"}, NEW scope \in SUBSET Groups,
         PublishExternalAssertionIssuer(state, scope)
  PROVE  GroupsInvariant'
<1>. PICK row : row = [gen |-> issuer.gen + 1, state |-> state, scope |-> [g \in scope |-> groups[g].gen]]
  OBVIOUS
<1>1. /\ issuer' = row
      /\ UNCHANGED <<groups, cardinality, hierarchy, selectors, evaluations, inventory, assertions, sets, members>>
  BY DEF PublishExternalAssertionIssuer
<1>2. row.gen = issuer.gen + 1 /\ row.state = state
  BY IssuerMade
<1>3. issuer.gen + 1 \in Nat
  BY Numbers DEF GroupsInvariant, IssuerOK
<1>4. IssuerOK'
  BY <1>1, <1>2, <1>3 DEF IssuerOK
<1>5. RowsOK' /\ EvidenceOK' /\ AssertionsOK' /\ HierarchyOK'
  BY <1>1 DEF GroupsInvariant, RowsOK, EvidenceOK, AssertionsOK, HierarchyOK, HostMatch
<1>. QED  BY <1>1, <1>4, <1>5, ApartUnchanged DEF GroupsInvariant

LEMMA VerifyKeeps ==
  ASSUME GroupsInvariant, NEW a \in Assertions,
         \/ AssertionExpires(a)
         \/ \E g \in Groups, hs \in SUBSET GroupHosts, wellFormed \in BOOLEAN :
              VerifyExternalHostGroupAssertion(a, g, hs, wellFormed)
  PROVE  GroupsInvariant'
<1>1. UNCHANGED <<groups, cardinality, hierarchy, selectors, evaluations, inventory, issuer, sets, members>>
  BY DEF AssertionExpires, VerifyExternalHostGroupAssertion
<1>2. RowsOK' /\ EvidenceOK' /\ HierarchyOK' /\ IssuerOK'
  BY <1>1 DEF GroupsInvariant, RowsOK, EvidenceOK, HierarchyOK, IssuerOK, HostMatch
<1>3. \A v \in AssertionRow : [v EXCEPT !.expired = TRUE] \in AssertionRow
  BY DEF AssertionRow
<1>4. ASSUME AssertionExpires(a) PROVE AssertionsOK'
  <2>1. assertions' = [assertions EXCEPT ![a] = [assertions[a] EXCEPT !.expired = TRUE]]
        /\ assertions[a] \in AssertionRow
    BY <1>4 DEF AssertionExpires, GroupsInvariant, AssertionsOK
  <2>2. [assertions[a] EXCEPT !.expired = TRUE] \in AssertionRow
    BY <1>3, <2>1
  <2>. QED  BY <2>1, <2>2 DEF GroupsInvariant, AssertionsOK
<1>5. ASSUME NEW g \in Groups, NEW hs \in SUBSET GroupHosts, NEW wellFormed \in BOOLEAN,
             VerifyExternalHostGroupAssertion(a, g, hs, wellFormed)
      PROVE  AssertionsOK'
  <2>. PICK verdict : verdict = Verdict(g, wellFormed)
    OBVIOUS
  <2>. PICK resolved : resolved = IF verdict = "VERIFIED" THEN hierarchy.gen ELSE 0
    OBVIOUS
  <2>. PICK v : v = [verdict |-> verdict, group |-> g, groupGen |-> groups[g].gen, issuer |-> issuer.gen,
                     hierarchy |-> resolved, hosts |-> hs, expired |-> FALSE]
    OBVIOUS
  <2>1. assertions' = [assertions EXCEPT ![a] = v]
    BY <1>5 DEF VerifyExternalHostGroupAssertion
  <2>2. verdict \in {"UNTRUSTED_ISSUER", "INVALID", "STALE_HOST_GROUP", "VERIFIED"}
    BY DEF Verdict
  <2>3. groups[g].gen \in Nat /\ issuer.gen \in Nat /\ resolved \in Nat
    BY Numbers DEF GroupsInvariant, RowsOK, GroupRow, IssuerOK, HierarchyOK
  <2>4. v \in AssertionRow
    BY <2>2, <2>3 DEF AssertionRow
  <2>. QED  BY <2>1, <2>4 DEF GroupsInvariant, AssertionsOK
<1>. QED  BY <1>1, <1>2, <1>4, <1>5, ApartUnchanged DEF GroupsInvariant

LEMMA GroupsStep ==
  ASSUME GroupsInvariant, [GroupsNext]_groupVars
  PROVE  GroupsInvariant'
<1>1. CASE UNCHANGED <<groups, cardinality, hierarchy, selectors, evaluations, inventory, issuer,
                       assertions, sets, members>>
  <2>1. RowsOK' /\ EvidenceOK' /\ AssertionsOK' /\ HierarchyOK' /\ IssuerOK'
    BY <1>1 DEF GroupsInvariant, RowsOK, EvidenceOK, AssertionsOK, HierarchyOK, IssuerOK, HostMatch
  <2>. QED  BY <1>1, <2>1, ApartUnchanged DEF GroupsInvariant
<1>2. CASE ReviseGroups
  BY <1>2, UpsertGroupKeeps DEF ReviseGroups
<1>3. CASE RevisePolicies
  BY <1>3, UpsertPolicyKeeps DEF RevisePolicies
<1>4. CASE ArrangeHierarchy
  BY <1>4, HierarchyKeeps DEF ArrangeHierarchy
<1>5. CASE AssignMembers
  <2>1. \A g \in Groups, h \in GroupHosts, ahead \in 0..1 : members[g][h].gen + ahead \in Nat
    BY SMTT(30) DEF GroupsInvariant, RowsOK, MemberRow
  <2>2. PICK g \in Groups :
          \/ \E h \in GroupHosts, ahead \in 0..1, state \in MembershipStates :
               AssignHostGroupMembership(g, h, members[g][h].gen + ahead, state)
          \/ \E hs \in SUBSET GroupHosts, ahead \in 0..1 : \E states \in [hs -> MembershipStates] :
               PublishHostGroupMembershipSet(g,
                 [h \in hs |-> [gen |-> members[g][h].gen + ahead, state |-> states[h], source |-> Explicit]])
    BY <1>5 DEF AssignMembers
  <2>. QED  BY <2>1, <2>2, AssignKeeps, PublishHostGroupKeeps
<1>6. CASE SelectMembers
  BY <1>6, ProjectKeeps, SelectorKeeps, EvaluateKeeps, MaterializeSelectorKeeps DEF SelectMembers
<1>7. CASE AssertMembers
  BY <1>7, IssuerKeeps, VerifyKeeps, MaterializeAssertionKeeps DEF AssertMembers
<1>8. CASE SnapshotMembers
  BY <1>1, <1>8 DEF SnapshotMembers, CreateHostGroupMembershipSnapshot
<1>9. CASE UNCHANGED groupVars
  BY <1>1, <1>9 DEF groupVars
<1>. QED  BY <1>2, <1>3, <1>4, <1>5, <1>6, <1>7, <1>8, <1>9 DEF GroupsNext

LEMMA GroupsInvariantTheorem == GroupsSpec => []GroupsInvariant
<1>. QED  BY GroupsStart, GroupsStep, PTL DEF GroupsSpec

\* CardinalityHolds: publish (host_group.go) counts only the
\* active groups of the level, and yet no Host is an active member of two
\* groups whose sets are authority, for any number of groups, levels and Hosts.
THEOREM CardinalityTheorem == GroupsSpec => []CardinalityHolds
<1>1. \A g : MembershipSetCurrent(g) => Established(g)
  BY DEF MembershipSetCurrent, Established
<1>2. GroupsInvariant => CardinalityHolds
  BY <1>1 DEF GroupsInvariant, MembersApart, CardinalityHolds
<1>. QED  BY <1>2, GroupsInvariantTheorem, PTL

\* GroupsTypeOK: every row keeps its type, and a hierarchy names no
\* generation of a group that there has not been.
THEOREM GroupsTypeTheorem == GroupsSpec => []GroupsTypeOK
<1>1. GroupsInvariant => GroupsTypeOK
  BY DEF GroupsInvariant, RowsOK, EvidenceOK, AssertionsOK, HierarchyOK, IssuerOK, GroupsTypeOK
<1>. QED  BY <1>1, GroupsInvariantTheorem, PTL

\* A published set is that of its group, and its active members were requested.
LEMMA PublishedAsRequested ==
  ASSUME GroupsInvariant, NEW g \in Groups, NEW requested, NEW source, NEW selectorGen,
         PublishMembershipSet(g, requested, source, selectorGen),
         NEW o \in Groups, sets'[o].gen > sets[o].gen
  PROVE  /\ o = g /\ sets'[o].source = source
         /\ \A h \in GroupHosts : members'[o][h].state = "ACTIVE" => h \in DOMAIN requested
<1>. PICK rows : rows = CompletedMembers(g, requested, source)
  OBVIOUS
<1>. PICK row : sets' = [sets EXCEPT ![g] = row] /\ row.source = source
  <2>. PICK gen : gen = sets[g].gen + 1
    OBVIOUS
  <2>. PICK basis : basis = [group |-> groups[g].gen, policy |-> cardinality[groups[g].level].gen,
                             kind |-> cardinality[groups[g].level].kind,
                             hierarchy |-> hierarchy.gen, selector |-> selectorGen]
    OBVIOUS
  <2>. PICK row : row = [gen |-> gen, source |-> source, basis |-> basis]
    OBVIOUS
  <2>1. sets' = [sets EXCEPT ![g] = row]
    BY DEF PublishMembershipSet
  <2>2. row.source = source
    BY SetMade
  <2>. QED  BY <2>1, <2>2
<1>1. members' = [members EXCEPT ![g] = rows]
  BY DEF PublishMembershipSet
<1>2. o = g
  <2>. SUFFICES ASSUME o # g PROVE FALSE
    OBVIOUS
  <2>1. sets'[o] = sets[o] /\ sets[o].gen \in Nat
    BY DEF GroupsInvariant, RowsOK, SetRow
  <2>2. ~(sets[o].gen > sets[o].gen)
    BY <2>1, SMTT(30)
  <2>. QED  BY <2>1, <2>2
<1>3. sets'[g] = row /\ members'[g] = rows
  BY <1>1 DEF GroupsInvariant, RowsOK
<1>4. \A h \in GroupHosts : rows[h].state = "ACTIVE" => h \in DOMAIN requested
  <2>. SUFFICES ASSUME NEW h \in GroupHosts, h \notin DOMAIN requested PROVE rows[h].state # "ACTIVE"
    OBVIOUS
  <2>. PICK gen : gen = members[g][h].gen + 1
    OBVIOUS
  <2>1. rows[h] = IF members[g][h].state \notin {"NONE", "REMOVED"}
                  THEN [gen |-> gen, state |-> "REMOVED", source |-> source]
                  ELSE members[g][h]
    BY DEF CompletedMembers
  <2>2. [gen |-> gen, state |-> "REMOVED", source |-> source].state = "REMOVED"
    BY SMTT(30)
  <2>. QED  BY <2>1, <2>2
<1>. QED  BY <1>2, <1>3, <1>4

\* What a step may publish, as PublishedFromCurrentEvidence says it.
Evidenced(g) ==
  /\ sets'[g].source[1] = "SELECTOR" =>
       \A h \in GroupHosts : members'[g][h].state = "ACTIVE" => HostMatch(h) = "MATCHED"
  /\ sets'[g].source[1] = "EXTERNAL_ASSERTION" =>
       issuer.state = "TRUSTED" /\ InScope(g) /\ ~assertions[sets'[g].source[2]].expired

LEMMA ExplicitEvidenced ==
  ASSUME GroupsInvariant, NEW g \in Groups, NEW requested, NEW selectorGen,
         PublishMembershipSet(g, requested, Explicit, selectorGen),
         NEW o \in Groups, sets'[o].gen > sets[o].gen
  PROVE  Evidenced(o)
<1>1. sets'[o].source = Explicit
  BY PublishedAsRequested
<1>2. Explicit[1] = "EXPLICIT"
  BY SMTT(30) DEF Explicit
<1>. QED  BY <1>1, <1>2 DEF Evidenced

LEMMA SelectorEvidenced ==
  ASSUME GroupsInvariant, NEW e \in evaluations, MaterializeHostGroupSelectorEvaluation(e),
         NEW o \in Groups, sets'[o].gen > sets[o].gen
  PROVE  Evidenced(o)
<1>. PICK source : source = <<"SELECTOR", e.gen>>
  OBVIOUS
<1>. PICK requested : /\ DOMAIN requested = e.matched
                      /\ PublishMembershipSet(e.group, requested, source, e.basis.selector)
  BY DEF MaterializeHostGroupSelectorEvaluation
<1>1. e.group \in Groups
  BY DEF GroupsInvariant, EvidenceOK
<1>2. /\ sets'[o].source = source
      /\ \A h \in GroupHosts : members'[o][h].state = "ACTIVE" => h \in DOMAIN requested
  <2>. PICK group \in Groups : group = e.group
    BY <1>1
  <2>. PICK selector : selector = e.basis.selector
    OBVIOUS
  <2>. PublishMembershipSet(group, requested, source, selector)
    OBVIOUS
  <2>. QED  BY PublishedAsRequested, SMTT(30)
<1>3. source[1] = "SELECTOR"
  BY SMTT(30)
<1>4. \A h \in DOMAIN e.seen : inventory[h].gen = e.seen[h] /\ inventory[h].current
  BY DEF MaterializeHostGroupSelectorEvaluation, EvaluationStillObserved
<1>5. \A h \in e.matched : HostMatch(h) = "MATCHED"
  BY <1>4 DEF GroupsInvariant, EvidenceOK
<1>. QED  BY <1>2, <1>3, <1>5 DEF Evidenced

LEMMA AssertionEvidenced ==
  ASSUME GroupsInvariant, NEW a \in Assertions, MaterializeExternalAssertionMembershipSet(a),
         NEW o \in Groups, sets'[o].gen > sets[o].gen
  PROVE  Evidenced(o)
<1>. PICK source : source = <<"EXTERNAL_ASSERTION", a>>
  OBVIOUS
<1>. PICK group : group = assertions[a].group
  OBVIOUS
<1>. PICK requested : PublishMembershipSet(group, requested, source, 0)
  BY DEF MaterializeExternalAssertionMembershipSet
<1>1. /\ group \in Groups /\ ~assertions[a].expired
      /\ issuer.state = "TRUSTED" /\ InScope(group)
  BY DEF GroupsInvariant, AssertionsOK, AssertionRow, MaterializeExternalAssertionMembershipSet, AssertionStillHolds
<1>2. o = group /\ sets'[o].source = source
  BY <1>1, PublishedAsRequested
<1>3. source[1] = "EXTERNAL_ASSERTION" /\ source[2] = a
  BY SMTT(30)
<1>. QED  BY <1>1, <1>2, <1>3 DEF Evidenced

LEMMA StepEvidenced ==
  ASSUME GroupsInvariant, GroupsNext, NEW o \in Groups, sets'[o].gen > sets[o].gen
  PROVE  Evidenced(o)
<1>1. sets' # sets
  <2>1. ~(sets[o].gen > sets[o].gen)
    BY SMTT(30) DEF GroupsInvariant, RowsOK, SetRow
  <2>. QED  BY <2>1
<1>2. CASE AssignMembers
  BY <1>2, ExplicitEvidenced DEF AssignMembers, AssignHostGroupMembership, PublishHostGroupMembershipSet
<1>3. CASE SelectMembers
  BY <1>1, <1>3, SelectorEvidenced
  DEF SelectMembers, ProjectInventory, UpsertHostGroupSelector, EvaluateHostGroupSelector
<1>4. CASE AssertMembers
  BY <1>1, <1>4, AssertionEvidenced
  DEF AssertMembers, PublishExternalAssertionIssuer, VerifyExternalHostGroupAssertion, AssertionExpires
<1>5. ~(ReviseGroups \/ RevisePolicies \/ ArrangeHierarchy \/ SnapshotMembers)
  BY <1>1 DEF ReviseGroups, RevisePolicies, ArrangeHierarchy, SnapshotMembers, UpsertHostGroup,
              UpsertHostGroupCardinalityPolicy, PublishHostGroupHierarchy, CreateHostGroupMembershipSnapshot
<1>. QED  BY <1>2, <1>3, <1>4, <1>5 DEF GroupsNext

\* PublishedFromCurrentEvidence: between the evaluation of a selector or the
\* verification of an assertion and the publication from it the inventory,
\* the issuer and the group may change; what is published is nevertheless
\* true when it is published.
THEOREM PublishedTheorem == GroupsSpec => PublishedFromCurrentEvidence
<1>1. GroupsInvariant /\ [GroupsNext]_groupVars =>
        [\A g \in Groups : sets'[g].gen > sets[g].gen =>
           /\ sets'[g].source[1] = "SELECTOR" =>
                \A h \in GroupHosts : members'[g][h].state = "ACTIVE" => HostMatch(h) = "MATCHED"
           /\ sets'[g].source[1] = "EXTERNAL_ASSERTION" =>
                issuer.state = "TRUSTED" /\ InScope(g) /\ ~assertions[sets'[g].source[2]].expired]_groupVars
  BY StepEvidenced DEF Evidenced
<1>. QED  BY <1>1, GroupsInvariantTheorem, PTL DEF GroupsSpec, PublishedFromCurrentEvidence
=============================================================================
