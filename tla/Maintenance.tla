---------------------------- MODULE Maintenance ----------------------------
(***************************************************************************)
(* Maintenance of a snapshot of hosts: plan, coordinator claim, target     *)
(* claims, and the host-scoped claim on disruptive operations that         *)
(* maintenance and upgrade campaigns share.                                *)
(*                                                                         *)
(*  armed       hosts whose operation authority is ARMED                   *)
(*  disruptive  host_disruptive_operation_claims_current; by is domain and *)
(*              target, which names its plan or campaign                   *)
(*  plan        maintenance_plans_current; claim is the coordinator's      *)
(*              generation, held that it has an owner, live that its       *)
(*              lease has not expired                                      *)
(*  target      maintenance_targets_current, by plan, revision and host    *)
(*                                                                         *)
(* A step is one database transaction.  Refused requests and replays are   *)
(* no steps.  A lease is live until it lapses; a stale owner or attempt is *)
(* always refused, so an operation is by the live holder.                  *)
(***************************************************************************)
EXTENDS Naturals, FiniteSets

CONSTANTS Plans, FleetHosts,
          WaveMaximum   \* maximum_concurrent of the maintenance policy

ASSUME MaintenanceAssumption == WaveMaximum \in Nat \ {0}

VARIABLES armed, disruptive, plan, target

maintenanceVars == <<armed, disruptive, plan, target>>

NoClaim == [active |-> FALSE, by |-> <<>>]
NoPlan == [state |-> "NONE", rev |-> 0, claim |-> 0, held |-> FALSE, live |-> FALSE]
NewTarget == [state |-> "PENDING", held |-> FALSE, live |-> FALSE, attempt |-> 0, mode |-> "NONE"]

\* New rows beside the ones a table has.
WithRows(table, new, row) ==
  [t \in new \cup DOMAIN table |-> IF t \in new THEN row ELSE table[t]]

MaintenanceTargets == Plans \X Nat \X FleetHosts
Owner(t) == <<"MAINTENANCE", t>>

PlanRow == [state : {"NONE", "PREPARED", "ACTIVE", "PAUSED"}, rev : Nat, claim : Nat,
            held : BOOLEAN, live : BOOLEAN]
TargetRow == [state : {"PENDING", "CLAIMED", "SUCCEEDED", "FAILED", "FENCED"}, held : BOOLEAN,
              live : BOOLEAN, attempt : Nat, mode : {"NONE", "APPLY_ALLOWED", "READ_BACK_FIRST"}]

MaintenanceTypeOK ==
  /\ armed \subseteq FleetHosts
  /\ DOMAIN disruptive = FleetHosts /\ \A h \in FleetHosts : disruptive[h].active \in BOOLEAN
  /\ plan \in [Plans -> PlanRow]
  /\ DOMAIN target \subseteq MaintenanceTargets
  /\ \A t \in DOMAIN target : target[t] \in TargetRow

MaintenanceInit ==
  /\ armed = FleetHosts
  /\ disruptive = [h \in FleetHosts |-> NoClaim]
  /\ plan = [m \in Plans |-> NoPlan]
  /\ target = <<>>

-----------------------------------------------------------------------------
(* The host-scoped claim.                                                  *)

\* Mutant: a plan takes over the host claim of another plan or campaign.
DisruptiveFreeOfDomain(h, who) ==
  disruptive[h].active => disruptive[h].by[1] = who[1]

\* An active claim of anyone else is a conflict; the holder may take it again.
DisruptiveFree(h, who) == disruptive[h].active => disruptive[h].by = who
AcquireDisruptive(h, who) ==
  /\ DisruptiveFree(h, who)
  /\ disruptive' = [disruptive EXCEPT ![h] = [active |-> TRUE, by |-> who]]
ReleaseDisruptive(h, who) ==
  /\ disruptive[h] = [active |-> TRUE, by |-> who]
  /\ disruptive' = [disruptive EXCEPT ![h].active = FALSE]

\* The operation authority of a host, as this code reads it.
HostArmed(h) == h \in armed
FenceHost(h) ==
  /\ h \in armed /\ armed' = armed \ {h}
  /\ UNCHANGED <<disruptive, plan, target>>
ArmHost(h) ==
  /\ h \notin armed /\ armed' = armed \cup {h}
  /\ UNCHANGED <<disruptive, plan, target>>

-----------------------------------------------------------------------------
(* Plans and their coordinator.                                            *)

CoordinatorGone(m) == ~plan[m].held \/ ~plan[m].live

\* One target per member of the snapshot.  Targets of the earlier revision
\* stay as they are, claimed ones included.
PublishMaintenancePlan(m, chosen) ==
  /\ plan[m].state \in {"NONE", "PREPARED", "PAUSED"} /\ CoordinatorGone(m)
  /\ chosen # {}
  /\ plan' = [plan EXCEPT ![m].state = "PREPARED", ![m].rev = @ + 1,
                             ![m].held = FALSE, ![m].live = FALSE]
  /\ target' = WithRows(target, {<<m, plan[m].rev + 1, h>> : h \in chosen}, NewTarget)
  /\ UNCHANGED <<armed, disruptive>>

ClaimMaintenanceCoordinator(m) ==
  /\ plan[m].state \in {"PREPARED", "ACTIVE"} /\ CoordinatorGone(m)
  /\ plan' = [plan EXCEPT ![m].state = "ACTIVE", ![m].claim = @ + 1,
                             ![m].held = TRUE, ![m].live = TRUE]
  /\ UNCHANGED <<armed, disruptive, target>>

CoordinatorLapses(m) ==
  /\ plan[m].live
  /\ plan' = [plan EXCEPT ![m].live = FALSE]
  /\ UNCHANGED <<armed, disruptive, target>>

\* The claim is kept.
PauseMaintenancePlan(m) ==
  /\ plan[m].live /\ plan[m].state # "PAUSED"
  /\ plan' = [plan EXCEPT ![m].state = "PAUSED"]
  /\ UNCHANGED <<armed, disruptive, target>>

ResumeMaintenancePlan(m) ==
  /\ plan[m].state = "PAUSED" /\ ~plan[m].live
  /\ plan' = [plan EXCEPT ![m].state = "ACTIVE", ![m].held = FALSE]
  /\ UNCHANGED <<armed, disruptive, target>>

-----------------------------------------------------------------------------
(* Targets.                                                                *)

ClaimedOthers(t) ==
  {u \in DOMAIN target : u[1] = t[1] /\ u[2] = t[2] /\ u # t /\ target[u].state = "CLAIMED"}

MaintenanceTargetOpen(t) ==
  LET m == t[1] IN
  /\ plan[m].state = "ACTIVE" /\ plan[m].rev = t[2] /\ plan[m].live
  /\ target[t].state \notin {"FENCED", "FAILED"} /\ ~target[t].live

\* A host that is not armed fences its target, which keeps the claim it had.
ClaimMaintenanceTarget(t) ==
  /\ MaintenanceTargetOpen(t)
  /\ \/ /\ ~HostArmed(t[3])
        /\ target' = [target EXCEPT ![t].state = "FENCED"]
        /\ UNCHANGED disruptive
     \/ /\ HostArmed(t[3]) /\ Cardinality(ClaimedOthers(t)) < WaveMaximum
        /\ AcquireDisruptive(t[3], Owner(t))
        /\ target' = [target EXCEPT ![t] =
             [state |-> "CLAIMED", held |-> TRUE, live |-> TRUE, attempt |-> @.attempt + 1,
              mode |-> IF @.attempt = 0 THEN "APPLY_ALLOWED" ELSE "READ_BACK_FIRST"]]
  /\ UNCHANGED <<armed, plan>>

TargetLapses(t) ==
  /\ target[t].live
  /\ target' = [target EXCEPT ![t].live = FALSE]
  /\ UNCHANGED <<armed, disruptive, plan>>

\* The holder reports; neither the coordinator nor the plan is asked.
CompleteMaintenanceTarget(t, outcome) ==
  /\ target[t].held /\ target[t].live
  /\ ReleaseDisruptive(t[3], Owner(t))
  /\ target' = [target EXCEPT ![t] = [@ EXCEPT !.state = outcome, !.held = FALSE, !.live = FALSE,
                                               !.mode = "NONE"]]
  /\ UNCHANGED <<armed, plan>>

-----------------------------------------------------------------------------
MaintenanceStep ==
  \/ \E m \in Plans, chosen \in SUBSET FleetHosts : PublishMaintenancePlan(m, chosen)
  \/ \E m \in Plans : \/ ClaimMaintenanceCoordinator(m) \/ CoordinatorLapses(m)
                      \/ PauseMaintenancePlan(m) \/ ResumeMaintenancePlan(m)
  \/ \E t \in DOMAIN target : \/ ClaimMaintenanceTarget(t) \/ TargetLapses(t)
                              \/ \E o \in {"SUCCEEDED", "FAILED"} : CompleteMaintenanceTarget(t, o)

HostStep == \E h \in FleetHosts : FenceHost(h) \/ ArmHost(h)

MaintenanceNext == MaintenanceStep \/ HostStep

MaintenanceSpec == MaintenanceInit /\ [][MaintenanceNext]_maintenanceVars
=============================================================================
