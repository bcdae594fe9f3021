----------------------------- MODULE OVNRuntime -----------------------------
(***************************************************************************)
(* Realization of port bindings in OVN: intents, runtime work, the workers *)
(* that claim and run it, and the retirement of a binding.                 *)
(*                                                                         *)
(*  port        incarnation (port and binding generation, which a handoff  *)
(*              moves together) and host of each port's binding            *)
(*  work        ovn_runtime_work_current of each port, by intent           *)
(*              generation; callers number the intents of a port in order  *)
(*  ovn         network_ovn_state_current: intent, NB and SB state and the *)
(*              claim generation of the observation they come from         *)
(*  retirement  network_port_binding_retirements_current, by incarnation   *)
(*  proc        what each worker process is doing                          *)
(*  nb, sb      the OVN databases: marker and requested chassis of the     *)
(*              logical switch port, chassis bound to it                   *)
(*  plugged     the host whose OVS has the port's interface                *)
(*                                                                         *)
(* A step is one database transaction or one OVN command sequence of a     *)
(* worker.  A claim is live until it lapses; renewals keep it live.  A     *)
(* worker runs one item at a time: the items of a batch share nothing but  *)
(* the process, which a refused transaction of any of them ends.           *)
(***************************************************************************)
EXTENDS ReleaseAuthority, Sequences

CONSTANTS OVNPorts, Chassis, NoChassis,
          RunsOn   \* host of each worker process

ASSUME OVNAssumption == NoChassis \notin Chassis /\ RunsOn \in [Workers -> Chassis \cup {NoChassis}]

VARIABLES port, work, ovn, retirement, proc, nb, sb, plugged

authorityVars == <<port, work, ovn, retirement>>
backendVars == <<nb, sb, plugged>>
ovnVars == <<authorityVars, proc, backendVars>>

Open == {"PENDING", "CLAIMED", "DISPATCH_UNKNOWN"}
Idle == [step |-> "IDLE", port |-> "NONE", intent |-> 0, gen |-> 0, seen |-> "NONE", lost |-> FALSE]
Marks == [by : {"NONE", "RESOURCE", "FOREIGN"}, intent : {0}] \cup [by : {"PORT"}, intent : Nat]
Mark(i) == [by |-> "PORT", intent |-> i]
PortRow == [inc : Nat \ {0}, host : Chassis]
WorkRow == [kind : {"RECONCILE", "UNBIND"}, inc : Nat, host : Chassis, object : Nat,
            schema : Schemas, state : Open \cup {"OBSERVED", "CONFLICTING", "SUPERSEDED"},
            owner : Workers \cup {"NONE"}, gen : Nat, live : BOOLEAN,
            mode : {"NONE", "APPLY_ALLOWED", "READ_BACK_FIRST"}, readBack : BOOLEAN]
OVNRow == [intent : Nat, inc : Nat, nb : {"PENDING", "MATCHED", "UNKNOWN", "CONFLICTING"},
           sb : {"PENDING", "MATCHED", "UNKNOWN"}, seen : Nat]
RetirementRow == [state : {"PENDING", "DISPATCH_UNKNOWN", "VERIFIED", "CONFLICTING", "STALE"},
                  intent : Nat, host : Chassis]
ProcRow == [step : {"IDLE", "RECORD", "OBSERVE", "AUTHORIZE", "APPLY", "VERIFY", "COMPLETE"},
            port : OVNPorts \cup {"NONE"}, intent : Nat, gen : Nat,
            seen : {"NONE", "UNKNOWN", "CONFLICTING", "APPLIED", "REALIZED", "VERIFIED"}, lost : BOOLEAN]

NBRow == [mark : Marks, chassis : Chassis \cup {NoChassis}]

OVNTypeOK ==
  /\ port \in [OVNPorts -> PortRow]
  /\ work \in [OVNPorts -> Seq(WorkRow)]
  /\ ovn \in [OVNPorts -> OVNRow]
  /\ DOMAIN retirement = OVNPorts
  /\ \A p \in OVNPorts : \A n \in DOMAIN retirement[p] : retirement[p][n] \in RetirementRow
  /\ proc \in [Workers -> ProcRow]
  /\ nb \in [OVNPorts -> NBRow]
  /\ sb \in [OVNPorts -> Chassis \cup {NoChassis}]
  /\ plugged \in [OVNPorts -> Chassis \cup {NoChassis}]

OVNInit ==
  /\ port \in [OVNPorts -> [inc : {1}, host : Chassis]]
  /\ work = [p \in OVNPorts |-> <<>>]
  /\ ovn = [p \in OVNPorts |-> [intent |-> 0, inc |-> 0, nb |-> "PENDING", sb |-> "PENDING", seen |-> 0]]
  /\ retirement = [p \in OVNPorts |-> <<>>]
  /\ proc = [w \in Workers |-> Idle]
  /\ nb \in [OVNPorts -> [mark : [by : {"NONE", "RESOURCE", "FOREIGN"}, intent : {0}], chassis : {NoChassis}]]
  /\ sb = [p \in OVNPorts |-> NoChassis]
  /\ plugged = [p \in OVNPorts |-> port[p].host]

-----------------------------------------------------------------------------
(* Intents.                                                                *)

\* The schema new work is written in; a fixed one while there is no release authority.
WorkSchema == IF release.gen > 0 THEN release.schema ELSE CHOOSE s \in Schemas : TRUE
NewWork(p, kind, object) ==
  [kind |-> kind, inc |-> port[p].inc, host |-> port[p].host, object |-> object, schema |-> WorkSchema,
   state |-> "PENDING", owner |-> "NONE", gen |-> 0, live |-> FALSE, mode |-> "NONE", readBack |-> FALSE]

Retired(p) == port[p].inc \in DOMAIN retirement[p]
Unclaimed(item, state) == [item EXCEPT !.state = state, !.owner = "NONE", !.live = FALSE]

Superseded(items) == [j \in 1..Len(items) |->
  IF items[j].state \in Open THEN Unclaimed(items[j], "SUPERSEDED") ELSE items[j]]

(* A new intent supersedes the open work of the port, and makes a verified *)
(* retirement of the same incarnation stale.                               *)
CommitOVNPortIntent(p) ==
  LET i == Len(work[p]) + 1
  IN /\ work' = [work EXCEPT ![p] = Append(Superseded(@), NewWork(p, "RECONCILE", i))]
     /\ ovn' = [ovn EXCEPT ![p] = [intent |-> i, inc |-> port[p].inc, nb |-> "PENDING", sb |-> "PENDING", seen |-> 0]]
     /\ retirement' = IF Retired(p) /\ retirement[p][port[p].inc].state = "VERIFIED"
                      THEN [retirement EXCEPT ![p][port[p].inc].state = "STALE"] ELSE retirement
     /\ UNCHANGED <<port, proc, backendVars, releaseVars>>

Recorded(f, n, row) == [m \in DOMAIN f \cup {n} |-> IF m = n THEN row ELSE f[m]]

(* Retirement of the binding: needs an intent observed in the NB database, *)
(* and leaves that intent and its work as they are.                        *)
CommitOVNPortBindingRetirement(p) ==
  /\ ~Retired(p)
  /\ ovn[p].inc = port[p].inc /\ ovn[p].nb = "MATCHED"
  /\ work' = [work EXCEPT ![p] = Append(@, NewWork(p, "UNBIND", ovn[p].intent))]
  /\ retirement' = [retirement EXCEPT ![p] = Recorded(@, port[p].inc,
                      [state |-> "PENDING", intent |-> Len(work[p]) + 1, host |-> port[p].host])]
  /\ UNCHANGED <<port, ovn, proc, backendVars, releaseVars>>

\* Mutant: a retirement that was not read back is enough.
HandOffAfterAnyRetirement(p) == Retired(p)

\* The evidence a port handoff asks of the source binding.
SourceUnbound(p) == Retired(p) /\ retirement[p][port[p].inc].state = "VERIFIED"

\* The port moves to another host as a new incarnation.
HandOffPort(p, h) ==
  /\ SourceUnbound(p) /\ h # port[p].host
  /\ port' = [port EXCEPT ![p] = [inc |-> @.inc + 1, host |-> h]]
  /\ UNCHANGED <<work, ovn, retirement, proc, backendVars, releaseVars>>

-----------------------------------------------------------------------------
(* Claims.                                                                 *)

Current(p, i) ==
  LET item == work[p][i]
  IN /\ item.inc = port[p].inc
     /\ IF item.kind = "RECONCILE" THEN ovn[p].intent = i /\ ovn[p].inc = item.inc
        ELSE retirement[p][item.inc].intent = i /\ item.host = port[p].host

Claimable(p, i) == \/ work[p][i].state \in {"PENDING", "DISPATCH_UNKNOWN"}
                   \/ work[p][i].state = "CLAIMED" /\ ~work[p][i].live

Taken(item, w, mode) == [item EXCEPT !.state = "CLAIMED", !.owner = w, !.gen = item.gen + 1,
                                     !.live = TRUE, !.mode = mode, !.readBack = FALSE]

ClaimOVNRuntimeWork(w, p, i) ==
  LET item == work[p][i]
      mode == IF item.state = "PENDING" THEN "APPLY_ALLOWED" ELSE "READ_BACK_FIRST"
  IN /\ held[w] > 0 /\ proc[w] = Idle
     /\ ClaimantAdmitted(w) /\ Claimable(p, i) /\ Current(p, i)
     /\ release.gen > 0 => item.schema \in Supports[bound[w].id]
     /\ work' = [work EXCEPT ![p][i] = Taken(@, w, mode)]
     /\ proc' = [proc EXCEPT ![w] = [step |-> IF mode = "READ_BACK_FIRST" THEN "RECORD" ELSE "AUTHORIZE",
                   port |-> p, intent |-> i, gen |-> item.gen + 1, seen |-> "NONE", lost |-> FALSE]]
     /\ UNCHANGED <<port, ovn, retirement, backendVars, releaseVars>>

\* The lease runs out, or its maximum lifetime ends the renewals.
OVNClaimLapses(p, i) ==
  /\ work[p][i].live
  /\ work' = [work EXCEPT ![p][i].live = FALSE]
  /\ UNCHANGED <<port, ovn, retirement, proc, backendVars, releaseVars>>

lockCurrentOVNRuntimeClaim(w) ==
  LET item == work[proc[w].port][proc[w].intent]
  IN item.state = "CLAIMED" /\ item.owner = w /\ item.gen = proc[w].gen /\ item.live

-----------------------------------------------------------------------------
(* The worker.  A refused transaction is fatal to the process.             *)

Item(w) == work[proc[w].port][proc[w].intent]
At(w, step) == held[w] > 0 /\ proc[w].step = step
Goes(w, step) == proc' = [proc EXCEPT ![w].step = step]
Done(w) == proc' = [proc EXCEPT ![w] = Idle]

RecordOVNRuntimeReadBackStarted(w) ==
  /\ At(w, "RECORD") /\ lockCurrentOVNRuntimeClaim(w)
  /\ work' = [work EXCEPT ![proc[w].port][proc[w].intent].readBack = TRUE]
  /\ Goes(w, "OBSERVE")
  /\ UNCHANGED <<port, ovn, retirement, backendVars, releaseVars>>

AuthorizeOVNRuntimeApply(w) ==
  /\ At(w, "AUTHORIZE") /\ lockCurrentOVNRuntimeClaim(w)
  /\ Item(w).mode = "READ_BACK_FIRST" => Item(w).readBack
  /\ Goes(w, "APPLY")
  /\ UNCHANGED <<authorityVars, backendVars, releaseVars>>

NBState(p, i) == IF nb[p].mark = Mark(i) THEN "MATCHED"
                 ELSE IF nb[p].mark.by = "NONE" THEN "UNKNOWN" ELSE "CONFLICTING"

ObservePort(p, item) ==
  IF NBState(p, item.object) # "MATCHED" THEN NBState(p, item.object)
  ELSE IF sb[p] = item.host THEN "REALIZED" ELSE "APPLIED"

\* The interface is looked up in the OVS of the host the worker runs on.
ObservePortBindingRetirement(w, p, item) ==
  IF nb[p].mark # Mark(item.object) THEN "CONFLICTING"
  ELSE IF nb[p].chassis = NoChassis /\ sb[p] # item.host /\ plugged[p] # RunsOn[w]
       THEN "VERIFIED" ELSE "UNKNOWN"

Observed(w) == IF Item(w).kind = "UNBIND" THEN ObservePortBindingRetirement(w, proc[w].port, Item(w))
               ELSE ObservePort(proc[w].port, Item(w))

Foreign(w) ==
  LET mark == nb[proc[w].port].mark
  IN /\ mark # Mark(Item(w).object)
     /\ Item(w).kind = "RECONCILE" => mark.by \notin {"NONE", "RESOURCE"}

ReadBack(w) ==
  /\ At(w, "OBSERVE") /\ ~Foreign(w)
  /\ proc' = [proc EXCEPT ![w] = [@ EXCEPT !.seen = Observed(w), !.lost = FALSE,
                !.step = IF Observed(w) \in {"REALIZED", "VERIFIED"} THEN "COMPLETE" ELSE "AUTHORIZE"]]
  /\ UNCHANGED <<authorityVars, backendVars, releaseVars>>

(* One ovn-nbctl transaction.  A lost response may have taken effect; the  *)
(* read-back follows either way.                                           *)
Mutation(p, item) ==
  IF item.kind = "UNBIND" THEN [nb EXCEPT ![p].chassis = NoChassis]
  ELSE [nb EXCEPT ![p] = [mark |-> Mark(item.object), chassis |-> item.host]]

ApplyMutation(w, lost) ==
  /\ At(w, "APPLY") /\ ~Foreign(w)
  /\ nb' \in {Mutation(proc[w].port, Item(w))} \cup (IF lost THEN {nb} ELSE {})
  /\ proc' = [proc EXCEPT ![w] = [@ EXCEPT !.step = "VERIFY", !.lost = lost]]
  /\ UNCHANGED <<authorityVars, sb, plugged, releaseVars>>

VerifyMutation(w) ==
  /\ At(w, "VERIFY")
  /\ proc' = [proc EXCEPT ![w] = [@ EXCEPT !.seen = Observed(w), !.step = "COMPLETE"]]
  /\ UNCHANGED <<authorityVars, backendVars, releaseVars>>

QuarantineOVNRuntimeWork(w) ==
  LET p == proc[w].port
      i == proc[w].intent
  IN /\ At(w, "OBSERVE") \/ At(w, "APPLY")
     /\ Foreign(w) /\ lockCurrentOVNRuntimeClaim(w)
     /\ work' = [work EXCEPT ![p][i] = Unclaimed(@, "CONFLICTING")]
     /\ retirement' = IF Item(w).kind = "UNBIND" THEN [retirement EXCEPT ![p][Item(w).inc].state = "CONFLICTING"]
                      ELSE retirement
     /\ Done(w) /\ UNCHANGED <<port, ovn, backendVars, releaseVars>>

\* The observation counts only for the port's current intent.
acceptOVNPortObservationTx(p, i, item, seen) ==
  /\ ovn[p].intent = i /\ ovn[p].inc = item.inc /\ port[p].inc = item.inc
  /\ ovn[p].seen < item.gen
  /\ ovn' = [ovn EXCEPT ![p] = [@ EXCEPT !.seen = item.gen,
               !.nb = IF seen \in {"REALIZED", "APPLIED"} THEN "MATCHED" ELSE seen,
               !.sb = IF seen = "REALIZED" THEN "MATCHED" ELSE "UNKNOWN"]]

CompleteOVNRuntimeWork(w) ==
  LET p == proc[w].port
      i == proc[w].intent
      seen == proc[w].seen
  IN /\ At(w, "COMPLETE") /\ Item(w).kind = "RECONCILE" /\ lockCurrentOVNRuntimeClaim(w)
     /\ acceptOVNPortObservationTx(p, i, Item(w), seen)
     /\ work' = [work EXCEPT ![p][i] = Unclaimed(@, CASE seen = "REALIZED" -> "OBSERVED"
                                                      [] seen = "CONFLICTING" -> "CONFLICTING"
                                                      [] OTHER -> "DISPATCH_UNKNOWN")]
     /\ Done(w) /\ UNCHANGED <<port, retirement, backendVars, releaseVars>>

(* A lost mutation response stays unknown even when the read-back of the   *)
(* same turn matched.                                                      *)
CompleteOVNPortBindingRetirement(w) ==
  LET p == proc[w].port
      i == proc[w].intent
      seen == IF proc[w].lost THEN "UNKNOWN" ELSE proc[w].seen
  IN /\ At(w, "COMPLETE") /\ Item(w).kind = "UNBIND" /\ lockCurrentOVNRuntimeClaim(w)
     /\ work' = [work EXCEPT ![p][i] = Unclaimed(@, CASE seen = "VERIFIED" -> "OBSERVED"
                                                      [] seen = "CONFLICTING" -> "CONFLICTING"
                                                      [] OTHER -> "DISPATCH_UNKNOWN")]
     /\ retirement' = [retirement EXCEPT ![p][Item(w).inc].state =
                         IF seen = "UNKNOWN" THEN "DISPATCH_UNKNOWN" ELSE seen]
     /\ Done(w) /\ UNCHANGED <<port, ovn, backendVars, releaseVars>>

(* An adapter error leaves the claim to lapse; a refused transaction or a  *)
(* kill ends the process.                                                  *)
AdapterFails(w) ==
  /\ At(w, "OBSERVE") \/ At(w, "APPLY") \/ At(w, "VERIFY")
  /\ Done(w) /\ UNCHANGED <<authorityVars, backendVars, releaseVars>>

NetworkWorkerExits(w) == WorkerExits(w) /\ Done(w) /\ UNCHANGED <<authorityVars, backendVars>>
NetworkWorkerStarts(w, r, matches) ==
  RegisterOVNWorkerRelease(w, r, matches) /\ UNCHANGED ovnVars
NetworkWorkerRegistered(w) == RegistrationCommits(w) /\ UNCHANGED ovnVars
NetworkWorkerDrains(w, state) ==
  /\ state = "STOPPED" => proc[w] = Idle
  /\ SetComponentReleaseLifecycle(w, state) /\ UNCHANGED ovnVars

-----------------------------------------------------------------------------
(* The host and ovn-controller.                                            *)

ControllerBinds(p) ==
  /\ sb[p] # IF nb[p].chassis = plugged[p] THEN plugged[p] ELSE NoChassis
  /\ sb' = [sb EXCEPT ![p] = IF nb[p].chassis = plugged[p] THEN plugged[p] ELSE NoChassis]
  /\ UNCHANGED <<authorityVars, proc, nb, plugged, releaseVars>>

\* The domain is undefined on its host, or defined on the port's.
PlugsInterface(p, h) ==
  /\ h \in {NoChassis, port[p].host} /\ h # plugged[p]
  /\ plugged' = [plugged EXCEPT ![p] = h]
  /\ UNCHANGED <<authorityVars, proc, nb, sb, releaseVars>>

IntentStep == \E p \in OVNPorts : CommitOVNPortIntent(p) \/ CommitOVNPortBindingRetirement(p)
                                  \/ \E h \in Chassis : HandOffPort(p, h)
ClaimStep == \E p \in OVNPorts : \E i \in DOMAIN work[p] : OVNClaimLapses(p, i)

processWork(w) ==
  \/ RecordOVNRuntimeReadBackStarted(w) \/ AuthorizeOVNRuntimeApply(w)
  \/ ReadBack(w) \/ VerifyMutation(w) \/ \E lost \in BOOLEAN : ApplyMutation(w, lost)
  \/ QuarantineOVNRuntimeWork(w)
complete(w) == CompleteOVNRuntimeWork(w) \/ CompleteOVNPortBindingRetirement(w)
RunOnce(w) == \/ \E p \in OVNPorts : \E i \in DOMAIN work[p] : ClaimOVNRuntimeWork(w, p, i)
              \/ processWork(w) \/ complete(w) \/ AdapterFails(w)

WorkerStep == \E w \in Workers :
  \/ RunOnce(w) \/ NetworkWorkerExits(w) \/ NetworkWorkerRegistered(w)
  \/ \E r \in Releases, m \in BOOLEAN : NetworkWorkerStarts(w, r, m)
  \/ \E state \in {"DRAINING", "STOPPED"} : NetworkWorkerDrains(w, state)
BackendStep == \E p \in OVNPorts : ControllerBinds(p) \/ \E h \in Chassis \cup {NoChassis} : PlugsInterface(p, h)

RuntimeInit == ReleaseInit /\ OVNInit
RuntimeNext ==
  \/ IntentStep \/ ClaimStep \/ WorkerStep \/ BackendStep
  \/ ReleaseStep /\ UNCHANGED ovnVars

OVNSpec == RuntimeInit /\ [][RuntimeNext]_<<releaseVars, ovnVars>>

-----------------------------------------------------------------------------
(* Properties.                                                             *)

(* The retirement of an incarnation that was handed off never changes:     *)
(* late workers, superseding intents and quarantines of a later            *)
(* incarnation cannot rewrite the proof the handoff rested on.             *)
RetiredHistoryIsFixed ==
  [][\A p \in OVNPorts : \A n \in DOMAIN retirement[p] :
       n < port[p].inc => retirement'[p][n] = retirement[p][n]]_retirement

(* While the retirement of a port's binding counts as verified, the source *)
(* host is not the requested chassis: a revived binding makes the proof    *)
(* stale.                                                                  *)
VerifiedStaysUnbound ==
  \A p \in OVNPorts : SourceUnbound(p) => nb[p].chassis # port[p].host
=============================================================================
