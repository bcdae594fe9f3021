-------------------------- MODULE UpgradeCampaign --------------------------
(***************************************************************************)
(* One upgrade campaign: plan revisions, the coordinator that moves it     *)
(* from wave to wave, the executors that upgrade its targets and the       *)
(* executors that recover quarantined ones.  Targets bound to a host take  *)
(* that host's disruptive-operation claim, shared with Maintenance.        *)
(*                                                                         *)
(*  campaign   upgrade_campaigns_current; polling is the coordinator       *)
(*             process of the live claim still evaluating, decided the     *)
(*             latest decision with its counts                             *)
(*  upgrade    upgrade_targets_current (state) and, of the same target,    *)
(*             upgrade_target_executions_current (exec, live, attempt,     *)
(*             coord: the coordinator claim the attempt is bound to);      *)
(*             matched and conflict: the attempt's recorded observations   *)
(*  recovery   upgrade_target_recoveries_current                           *)
(*  worker     executor processes, each with the attempt it claimed; a     *)
(*             process outlives its lease until it stops by itself         *)
(*  installed  what is on the component: the old or the target release,    *)
(*             the target release half configured, or a broken package     *)
(*                                                                         *)
(* A renewal keeps a lease live; a lease that is not renewed lapses.  The  *)
(* plan's static checks (acyclic component graph, verified provenance,     *)
(* validated releases) accept or refuse a request and are left out.        *)
(***************************************************************************)
EXTENDS Maintenance

CONSTANTS UpgradeTargets, LastWave,
          WaveOf,      \* target -> wave ordinal; wave 1 is the canary
          HostOf,      \* target -> its host, or NoHost
          NoHost,
          Threshold    \* failure_threshold of a wave

ASSUME UpgradeAssumption ==
  /\ IsFiniteSet(UpgradeTargets) /\ LastWave \in Nat \ {0} /\ Threshold \in Nat
  /\ WaveOf \in [UpgradeTargets -> 1..LastWave] /\ NoHost \notin FleetHosts
  /\ HostOf \in [UpgradeTargets -> FleetHosts \cup {NoHost}]

VARIABLES campaign, upgrade, recovery, worker, installed

upgradeVars == <<campaign, upgrade, recovery, worker, installed>>

NewUpgrade == [state |-> "PENDING", exec |-> "PENDING", live |-> FALSE, attempt |-> 0,
               coord |-> 0, matched |-> FALSE, conflict |-> FALSE]
NoRecovery == [state |-> "NONE", gen |-> 0, attempt |-> 0, live |-> FALSE, matched |-> FALSE]
NoDecision == <<>>

UpgradeOwner(t) == <<"UPGRADE", t>>
WaveTargets(w) == {t \in DOMAIN upgrade : t[1] = campaign.rev /\ WaveOf[t[2]] = w}
InState(w, S) == {t \in WaveTargets(w) : upgrade[t].state \in S}

WaveDecision ==
  {NoDecision} \cup ((1..LastWave) \X {"HOLD", "PAUSE", "CONTINUE"} \X Nat \X Nat \X Nat \X Nat)
CampaignRow ==
  [state : {"NONE", "PREPARED", "CANARY", "ROLLING", "PAUSED", "VERIFYING"},
   rev : Nat, wave : 1..LastWave, claim : Nat, live : BOOLEAN, polling : BOOLEAN,
   decided : WaveDecision]
UpgradeRow ==
  [state : {"PENDING", "IN_PROGRESS", "SUCCEEDED", "FAILED", "UNKNOWN", "FENCED"},
   exec : {"PENDING", "CLAIMED", "SUCCEEDED", "FAILED", "FENCED"}, live : BOOLEAN, attempt : Nat,
   coord : Nat, matched : BOOLEAN, conflict : BOOLEAN]
RecoveryRow ==
  [state : {"NONE", "APPROVED", "CLAIMED", "FENCED", "VERIFIED", "REARMED"},
   gen : Nat, attempt : Nat, live : BOOLEAN, matched : BOOLEAN]
Executor ==
  [target : Nat \X UpgradeTargets, kind : {"UPGRADE", "RECOVER"}, gen : Nat, attempt : Nat,
   phase : {"PROBE", "RECORD", "APPLY", "COMPLETE"}, applied : BOOLEAN,
   read : {"NONE", "MATCHED", "ABSENT", "CONFLICTING"}, half : BOOLEAN]

UpgradeTypeOK ==
  /\ campaign \in CampaignRow
  /\ DOMAIN upgrade \subseteq Nat \X UpgradeTargets /\ DOMAIN recovery = DOMAIN upgrade
  /\ \A t \in DOMAIN upgrade : upgrade[t] \in UpgradeRow /\ recovery[t] \in RecoveryRow
  /\ \A w \in worker : w \in Executor /\ w.target \in DOMAIN upgrade
  /\ installed \in [UpgradeTargets -> {"OLD", "NEW", "HALF", "BROKEN"}]

UpgradeInit ==
  /\ campaign = [state |-> "NONE", rev |-> 0, wave |-> 1, claim |-> 0, live |-> FALSE,
                 polling |-> FALSE, decided |-> NoDecision]
  /\ upgrade = <<>> /\ recovery = <<>> /\ worker = {}
  /\ installed = [x \in UpgradeTargets |-> "OLD"]

-----------------------------------------------------------------------------
(* The campaign and its coordinator.                                       *)

\* One target per component on the hosts of the snapshot, whatever became of
\* the targets of earlier revisions.
SnapshotTargets(rev) == {rev} \X UpgradeTargets

PublishUpgradeCampaignPlan ==
  /\ campaign.state \in {"NONE", "PREPARED", "PAUSED"} /\ ~campaign.live
  /\ campaign' = [campaign EXCEPT !.state = "PREPARED", !.rev = @ + 1, !.wave = 1,
                                  !.decided = NoDecision]
  /\ LET new == SnapshotTargets(campaign.rev + 1) IN
       /\ upgrade' = WithRows(upgrade, new, NewUpgrade)
       /\ recovery' = WithRows(recovery, new, NoRecovery)
  /\ UNCHANGED <<worker, installed, maintenanceVars>>

ClaimUpgradeCampaign ==
  /\ campaign.state \in {"PREPARED", "CANARY", "ROLLING"} /\ ~campaign.live
  /\ campaign' = [campaign EXCEPT !.state = IF @ = "PREPARED" THEN "CANARY" ELSE @,
                                  !.claim = @ + 1, !.live = TRUE, !.polling = TRUE]
  /\ UNCHANGED <<upgrade, recovery, worker, installed, maintenanceVars>>

CampaignClaimLapses ==
  /\ campaign.live
  /\ campaign' = [campaign EXCEPT !.live = FALSE, !.polling = FALSE]
  /\ UNCHANGED <<upgrade, recovery, worker, installed, maintenanceVars>>

\* By the holder of the live claim, for a target of the current wave.
RecordUpgradeTargetOutcome(t, outcome) ==
  /\ campaign.live /\ WaveOf[t[2]] = campaign.wave
  /\ upgrade[t].state \notin {"SUCCEEDED", "FAILED", "UNKNOWN"}
  /\ upgrade' = [upgrade EXCEPT ![t].state = outcome]
  /\ UNCHANGED <<campaign, recovery, worker, installed, maintenanceVars>>

\* Mutant: targets with an UNKNOWN outcome do not hold the wave.
CanaryDecisionOnResults(failed, unknown, pending) ==
  IF failed > Threshold THEN "PAUSE" ELSE IF pending = 0 THEN "CONTINUE" ELSE "HOLD"

CanaryDecision(failed, unknown, pending) ==
  IF failed > Threshold THEN "PAUSE"
  ELSE IF unknown = 0 /\ pending = 0 THEN "CONTINUE" ELSE "HOLD"

\* Mutant: the coordinator goes on after a PAUSE.
KeepsPollingUntilContinue(decision) == decision # "CONTINUE"

\* The coordinator process goes on evaluating.
KeepsPolling(decision) == decision = "HOLD"

\* Same decision on same counts as the latest one of this wave: no write.
EvaluateUpgradeCanary ==
  LET w == campaign.wave
      count(S) == Cardinality(InState(w, S))
      failed == count({"FAILED", "FENCED"})   unknown == count({"UNKNOWN"})
      pending == count({"PENDING", "IN_PROGRESS"})
      decision == CanaryDecision(failed, unknown, pending)
      record == <<w, decision, count({"SUCCEEDED"}), failed, unknown, pending>>
  IN
  /\ campaign.live /\ campaign.polling
  /\ campaign' = [(IF record = campaign.decided THEN campaign
                   ELSE [campaign EXCEPT
                          !.decided = record,
                          !.state = CASE decision = "HOLD" -> "CANARY"
                                      [] decision = "PAUSE" -> "PAUSED"
                                      [] OTHER -> IF w < LastWave THEN "ROLLING" ELSE "VERIFYING",
                          !.wave = IF decision = "CONTINUE" /\ w < LastWave THEN w + 1 ELSE w])
                  EXCEPT !.polling = KeepsPolling(decision)]
  /\ UNCHANGED <<upgrade, recovery, worker, installed, maintenanceVars>>

ResumeUpgradeCampaign ==
  /\ campaign.state = "PAUSED" /\ ~campaign.live
  /\ campaign' = [campaign EXCEPT !.state = IF campaign.wave = 1 THEN "CANARY" ELSE "ROLLING",
                                  !.decided = NoDecision]
  /\ UNCHANGED <<upgrade, recovery, worker, installed, maintenanceVars>>

-----------------------------------------------------------------------------
(* Upgrading a target.                                                     *)

Worker(t, kind, gen, attempt) ==
  [target |-> t, kind |-> kind, gen |-> gen, attempt |-> attempt, phase |-> "PROBE",
   applied |-> FALSE, read |-> "NONE", half |-> FALSE]

UpgradeTargetOpen(t) ==
  /\ campaign.state \in {"CANARY", "ROLLING"} /\ t[1] = campaign.rev
  /\ WaveOf[t[2]] = campaign.wave /\ campaign.live
  /\ upgrade[t].state \notin {"SUCCEEDED", "FAILED", "FENCED"}
  /\ upgrade[t].exec \notin {"SUCCEEDED", "FAILED", "FENCED"} /\ ~upgrade[t].live

ClaimUpgradeTarget(t) ==
  /\ UpgradeTargetOpen(t)
  /\ \/ /\ HostOf[t[2]] # NoHost /\ ~HostArmed(HostOf[t[2]])
        /\ upgrade' = [upgrade EXCEPT ![t].state = "FENCED", ![t].exec = "FENCED"]
        /\ UNCHANGED <<disruptive, worker>>
     \/ /\ IF HostOf[t[2]] = NoHost THEN UNCHANGED disruptive
           ELSE HostArmed(HostOf[t[2]]) /\ AcquireDisruptive(HostOf[t[2]], UpgradeOwner(t))
        /\ upgrade' = [upgrade EXCEPT ![t] =
             [state |-> "IN_PROGRESS", exec |-> "CLAIMED", live |-> TRUE, attempt |-> @.attempt + 1,
              coord |-> campaign.claim, matched |-> FALSE, conflict |-> FALSE]]
        /\ worker' = worker \cup {Worker(t, "UPGRADE", 0, upgrade[t].attempt + 1)}
  /\ UNCHANGED <<campaign, recovery, installed, armed, plan, target>>

UpgradeClaimLapses(t) ==
  /\ upgrade[t].live
  /\ upgrade' = [upgrade EXCEPT ![t].live = FALSE]
  /\ UNCHANGED <<campaign, recovery, worker, installed, maintenanceVars>>

\* requireCurrentUpgradeTargetClaim
UpgradeClaimCurrent(w) ==
  LET u == upgrade[w.target] IN
  /\ w.kind = "UPGRADE" /\ u.live /\ u.attempt = w.attempt
  /\ campaign.live /\ u.coord = campaign.claim
  /\ WaveOf[w.target[2]] = campaign.wave /\ campaign.state \in {"CANARY", "ROLLING"}

\* What follows a recorded observation: complete, apply once, or give up.
Proceed(w, matched, authorized) ==
  worker' = (worker \ {w}) \cup
    (IF matched THEN {[w EXCEPT !.phase = "COMPLETE"]}
     ELSE IF authorized /\ ~w.applied THEN {[w EXCEPT !.phase = "APPLY"]} ELSE {})

ObserveUpgradeTarget(w) ==
  LET t == w.target IN
  /\ w.phase = "RECORD" /\ UpgradeClaimCurrent(w)
  /\ upgrade' = [upgrade EXCEPT ![t] =
       CASE w.read = "MATCHED" -> [@ EXCEPT !.matched = TRUE]
         [] w.read = "CONFLICTING" -> [@ EXCEPT !.state = "FENCED", !.exec = "FENCED",
                                                !.live = FALSE, !.conflict = TRUE]
         [] OTHER -> @]
  /\ Proceed(w, w.read = "MATCHED", w.read = "ABSENT")
  /\ UNCHANGED <<campaign, recovery, installed, maintenanceVars>>

\* The executor reports success after a match; a failure may be reported at
\* any point of the attempt.
CompleteUpgradeTarget(w, outcome) ==
  LET t == w.target IN
  /\ UpgradeClaimCurrent(w)
  /\ outcome = "SUCCEEDED" => w.phase = "COMPLETE" /\ upgrade[t].matched
  /\ IF HostOf[t[2]] = NoHost THEN UNCHANGED disruptive
     ELSE ReleaseDisruptive(HostOf[t[2]], UpgradeOwner(t))
  /\ upgrade' = [upgrade EXCEPT ![t] = [@ EXCEPT !.state = outcome, !.exec = outcome, !.live = FALSE]]
  /\ worker' = worker \ {w}
  /\ UNCHANGED <<campaign, recovery, installed, armed, plan, target>>

-----------------------------------------------------------------------------
(* Recovering a quarantined target.                                        *)

Quarantined(t) == upgrade[t].state = "FENCED" /\ upgrade[t].exec = "FENCED"

ApproveUpgradeTargetRecoveryPlan(t) ==
  /\ Quarantined(t) /\ upgrade[t].conflict
  /\ recovery[t].state \in {"NONE", "FENCED", "REARMED"}
  /\ recovery' = [recovery EXCEPT ![t] = [state |-> "APPROVED", gen |-> @.gen + 1, attempt |-> 0,
                                          live |-> FALSE, matched |-> FALSE]]
  /\ UNCHANGED <<campaign, upgrade, worker, installed, maintenanceVars>>

ClaimUpgradeTargetRecovery(t) ==
  LET r == recovery[t] IN
  /\ Quarantined(t) /\ r.state \in {"APPROVED", "CLAIMED"} /\ ~r.live
  /\ recovery' = [recovery EXCEPT ![t].state = "CLAIMED", ![t].attempt = @ + 1,
                                     ![t].live = TRUE, ![t].matched = FALSE]
  /\ worker' = worker \cup {Worker(t, "RECOVER", r.gen, r.attempt + 1)}
  /\ UNCHANGED <<campaign, upgrade, installed, maintenanceVars>>

RecoveryClaimLapses(t) ==
  /\ recovery[t].live
  /\ recovery' = [recovery EXCEPT ![t].live = FALSE]
  /\ UNCHANGED <<campaign, upgrade, worker, installed, maintenanceVars>>

\* requireCurrentUpgradeTargetRecoveryClaim
RecoveryClaimCurrent(w) ==
  LET r == recovery[w.target] IN
  w.kind = "RECOVER" /\ r.state = "CLAIMED" /\ r.live /\ r.gen = w.gen /\ r.attempt = w.attempt

\* A half-configured package may be configured; any other conflict ends the
\* recovery.  An absent release is no valid observation here.
ObserveUpgradeTargetRecovery(w) ==
  LET t == w.target IN
  /\ w.phase = "RECORD" /\ RecoveryClaimCurrent(w) /\ w.read # "ABSENT"
  /\ recovery' = [recovery EXCEPT ![t] =
       CASE w.read = "MATCHED" -> [@ EXCEPT !.matched = TRUE]
         [] w.read = "CONFLICTING" /\ ~w.half -> [@ EXCEPT !.state = "FENCED", !.live = FALSE]
         [] OTHER -> @]
  /\ Proceed(w, w.read = "MATCHED", w.half)
  /\ UNCHANGED <<campaign, upgrade, installed, maintenanceVars>>

CompleteUpgradeTargetRecovery(w) ==
  /\ w.phase = "COMPLETE" /\ RecoveryClaimCurrent(w) /\ recovery[w.target].matched
  /\ recovery' = [recovery EXCEPT ![w.target].state = "VERIFIED", ![w.target].live = FALSE]
  /\ worker' = worker \ {w}
  /\ UNCHANGED <<campaign, upgrade, installed, maintenanceVars>>

RearmUpgradeTargetAfterRecovery(t) ==
  /\ Quarantined(t) /\ recovery[t].state = "VERIFIED"
  /\ recovery' = [recovery EXCEPT ![t].state = "REARMED"]
  /\ upgrade' = [upgrade EXCEPT ![t].state = "PENDING", ![t].exec = "PENDING"]
  /\ UNCHANGED <<campaign, worker, installed, maintenanceVars>>

-----------------------------------------------------------------------------
(* The executor process: look, record, apply if authorized, look and       *)
(* record again.  A look that fails, a refused record and a crash end it.  *)

Read(x) == CASE installed[x] = "NEW" -> "MATCHED"
             [] installed[x] = "OLD" -> "ABSENT"
             [] OTHER -> "CONFLICTING"

ProbeComponent(w) ==
  /\ w.phase = "PROBE"
  /\ worker' = (worker \ {w}) \cup {[w EXCEPT !.phase = "RECORD", !.read = Read(w.target[2]),
                                              !.half = installed[w.target[2]] = "HALF"]}
  /\ UNCHANGED <<campaign, upgrade, recovery, installed, maintenanceVars>>

\* Installing may fail half way; the executor then stops.
ApplyRelease(w) ==
  /\ w.phase = "APPLY" /\ w.kind = "UPGRADE"
  /\ \/ /\ installed' = [installed EXCEPT ![w.target[2]] = "NEW"]
        /\ worker' = (worker \ {w}) \cup {[w EXCEPT !.phase = "PROBE", !.applied = TRUE]}
     \/ \E left \in {"HALF", "BROKEN"} :
          /\ installed' = [installed EXCEPT ![w.target[2]] = left]
          /\ worker' = worker \ {w}
  /\ UNCHANGED <<campaign, upgrade, recovery, maintenanceVars>>

\* dpkg --configure completes a half-configured package and nothing else.
RecoverRelease(w) ==
  /\ w.phase = "APPLY" /\ w.kind = "RECOVER"
  /\ installed' = [installed EXCEPT ![w.target[2]] = IF @ = "HALF" THEN "NEW" ELSE @]
  /\ worker' = (worker \ {w}) \cup {[w EXCEPT !.phase = "PROBE", !.applied = TRUE]}
  /\ UNCHANGED <<campaign, upgrade, recovery, maintenanceVars>>

ExecutorStops(w) ==
  /\ worker' = worker \ {w}
  /\ UNCHANGED <<campaign, upgrade, recovery, installed, maintenanceVars>>

-----------------------------------------------------------------------------
CampaignStep ==
  \/ PublishUpgradeCampaignPlan \/ ClaimUpgradeCampaign \/ CampaignClaimLapses
  \/ EvaluateUpgradeCanary \/ ResumeUpgradeCampaign
  \/ \E t \in DOMAIN upgrade, o \in {"SUCCEEDED", "FAILED", "UNKNOWN"} : RecordUpgradeTargetOutcome(t, o)

executeTarget(w) ==
  \/ ProbeComponent(w) \/ ObserveUpgradeTarget(w) \/ ApplyRelease(w)
  \/ \E o \in {"SUCCEEDED", "FAILED"} : CompleteUpgradeTarget(w, o)
executeRecovery(w) ==
  \/ ProbeComponent(w) \/ ObserveUpgradeTargetRecovery(w) \/ RecoverRelease(w)
  \/ CompleteUpgradeTargetRecovery(w)

TargetStep ==
  \/ \E t \in DOMAIN upgrade : \/ ClaimUpgradeTarget(t) \/ UpgradeClaimLapses(t)
                               \/ ApproveUpgradeTargetRecoveryPlan(t)
                               \/ ClaimUpgradeTargetRecovery(t) \/ RecoveryClaimLapses(t)
                               \/ RearmUpgradeTargetAfterRecovery(t)
  \/ \E w \in worker : \/ w.kind = "UPGRADE" /\ executeTarget(w)
                       \/ w.kind = "RECOVER" /\ executeRecovery(w)
                       \/ ExecutorStops(w)

UpgradeStep == CampaignStep \/ TargetStep

DisruptionInit == MaintenanceInit /\ UpgradeInit
DisruptionNext ==
  \/ (MaintenanceStep \/ HostStep) /\ UNCHANGED upgradeVars
  \/ UpgradeStep

disruptionVars == <<upgradeVars, maintenanceVars>>
DisruptionSpec == DisruptionInit /\ [][DisruptionNext]_disruptionVars

-----------------------------------------------------------------------------
(* Properties.                                                             *)

\* A claimed maintenance target, and a claimed upgrade execution of a target
\* bound to a host, holds that host's disruptive-operation claim: two
\* disruptive operations never run on one host, whatever leases expired and
\* plans were revised in between (acquire/releaseHostDisruptiveOperationClaimTx).
DisruptionExclusive ==
  /\ \A t \in DOMAIN target :
       target[t].state = "CLAIMED" => disruptive[t[3]] = [active |-> TRUE, by |-> Owner(t)]
  /\ \A t \in DOMAIN upgrade :
       upgrade[t].exec = "CLAIMED" /\ HostOf[t[2]] # NoHost =>
         disruptive[HostOf[t[2]]] = [active |-> TRUE, by |-> UpgradeOwner(t)]

\* Once the campaign has moved past a wave, at most the failure threshold of
\* that wave's targets are without a recorded success: executors still
\* running, late observations and rearmed targets cannot undo what
\* EvaluateUpgradeCanary counted.
PassedWavesHold ==
  \A w \in 1..(campaign.wave - 1) :
    Cardinality(WaveTargets(w) \ InState(w, {"SUCCEEDED"})) <= Threshold

\* A paused campaign leaves PAUSED only when no coordinator claim is live: by
\* an explicit resume or a new plan, never by a coordinator that goes on
\* evaluating (EvaluateUpgradeCanary writes CANARY on HOLD in any state).
PausedUntilResumed ==
  [][campaign.state = "PAUSED" /\ campaign'.state # "PAUSED" => ~campaign.live]_disruptionVars
=============================================================================
