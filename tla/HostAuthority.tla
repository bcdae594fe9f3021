--------------------------- MODULE HostAuthority ---------------------------
(***************************************************************************)
(* Host trust and operation authority                                      *)
(* (internal/persistence/postgres: host_trust_authority.go,                *)
(* session_registry.go, host_inventory.go, agent_receipt.go).              *)
(*                                                                         *)
(* Every handler that changes a Host's authority is one PostgreSQL         *)
(* transaction that first takes the Host's advisory lock                   *)
(* (lockHostAuthorityTx), so each is one action here.  A handler that      *)
(* returns an error rolls its transaction back and changes nothing: its    *)
(* conditions are the guard of the action.  Each variable is one           *)
(* "current" table, a function from Hosts to the Host's row; revision or   *)
(* generation 0 and state "NONE" stand for a row that does not exist.      *)
(***************************************************************************)
EXTENDS Integers

CONSTANTS Hosts,             \* Host identities
          SessionAttempts,   \* session_attempt_id values Agents may present
          NoAttempt,         \* the attempt of a Host that never had a session
          Decisions,         \* Enrollment decision states used as inputs
          BindingStates,     \* Credential Binding states used as inputs
          PreflightStates,   \* readiness gate inputs
          ComplianceStates,
          GateGenerations,   \* <<baseline, preflight, compliance>> generations,
                             \* compared only for equality
          MaxDecision,       \* bound on Enrollment decision revisions
          MaxBinding,        \* bound on Credential Binding revisions
          MaxSession,        \* bound on session generations
          MaxInventory,      \* bound on inventory observation generations
          MaxArmed           \* bound on Host authority generations

ASSUME InputsAssumption ==
  /\ Decisions \subseteq {"APPROVED", "REJECTED", "QUARANTINED", "DECOMMISSIONED"}
  /\ BindingStates \subseteq {"ACTIVE", "REVOKED", "EXPIRED", "QUARANTINED"}
  /\ PreflightStates \subseteq {"PASSED", "FAILED", "UNKNOWN"}
  /\ ComplianceStates \subseteq {"COMPLIANT", "NON_COMPLIANT", "DEGRADED", "UNKNOWN"}
  /\ NoAttempt \notin SessionAttempts
  /\ GateGenerations \subseteq Nat \ {0}

ASSUME BoundsAssumption ==
  /\ MaxDecision \in Nat
  /\ MaxBinding \in Nat
  /\ MaxSession \in Nat
  /\ MaxInventory \in Nat
  /\ MaxArmed \in Nat

VARIABLES
  databaseMode,  \* database_authority.mode
  identity,      \* host_identities: enrollment_state, host_authority_generation
  enrollment,    \* host_enrollment_bindings_current
  credential,    \* agent_credential_bindings_current joined with its evidence
  session,       \* agent_transport_sessions_current
  attempts,      \* agent_transport_session_attempts: ids already recorded
  sessionAuth,   \* host_session_authorizations_current
  snapshots,     \* inventory receipt and snapshot by observation generation: the
                 \* collection_status, or "STALE" for a message refused for good
  capability,    \* host_capability_projections
  gate,          \* host_readiness_gates_current
  authority      \* host_operation_authorities_current

hostVars == <<databaseMode, identity, enrollment, credential, session, attempts,
              sessionAuth, snapshots, capability, gate, authority>>

Revisions(max) == 0..max

EnrollmentStates == {"NONE", "ENROLLED", "REJECTED", "QUARANTINED", "DECOMMISSIONED"}

IdentityStates == {"UNREGISTERED", "DISCOVERED", "APPROVED", "QUARANTINED", "DECOMMISSIONED"}

CollectionStatuses == {"COMPLETE", "PARTIAL"}

\* The rows of each table.
IdentityRows == [state : IdentityStates, generation : Revisions(MaxArmed)]

EnrollmentRows == [revision : Revisions(MaxDecision), state : EnrollmentStates]

CredentialRows == [revision : Revisions(MaxBinding),
                   state : {"NONE", "CURRENT", "REVOKED", "EXPIRED", "QUARANTINED"},
                   enrollment : Revisions(MaxDecision),
                   validity : {"FUTURE", "VALID", "PAST"}]

SessionRows == [generation : Revisions(MaxSession),
                state : {"NONE", "CURRENT", "FENCED"},
                credential : Revisions(MaxBinding),
                attempt : SessionAttempts \cup {NoAttempt}]

SessionAuthRows == [generation : Revisions(MaxSession),
                    credential : Revisions(MaxBinding),
                    enrollment : Revisions(MaxDecision),
                    capability : Revisions(MaxInventory),
                    state : {"NONE", "PENDING_CAPABILITY", "AUTHORIZED", "STALE", "FENCED"}]

CapabilityRows == [generation : Revisions(MaxInventory), state : {"NONE", "CURRENT", "DEGRADED"}]

GateRows == [capability : Revisions(MaxInventory),
             evidence : GateGenerations \cup {0},
             preflight : PreflightStates \cup {"NONE"},
             compliance : ComplianceStates \cup {"NONE"},
             state : {"NONE", "READY", "BLOCKED", "UNKNOWN"}]

AuthorityRows == [generation : Revisions(MaxArmed),
                  state : {"NONE", "ARMED", "FENCED"},
                  session : Revisions(MaxSession),
                  credential : Revisions(MaxBinding),
                  enrollment : Revisions(MaxDecision),
                  capability : Revisions(MaxInventory),
                  evidence : GateGenerations \cup {0}]

\* One type invariant: every row has the columns and states of its table.
HostTypeOK ==
  /\ databaseMode \in {"ACTIVE", "RECOVERY_READ_ONLY"}
  /\ identity \in [Hosts -> IdentityRows]
  /\ enrollment \in [Hosts -> EnrollmentRows]
  /\ credential \in [Hosts -> CredentialRows]
  /\ session \in [Hosts -> SessionRows]
  /\ attempts \subseteq SessionAttempts
  /\ sessionAuth \in [Hosts -> SessionAuthRows]
  /\ snapshots \in [Hosts -> [1..MaxInventory -> CollectionStatuses \cup {"NONE", "STALE"}]]
  /\ capability \in [Hosts -> CapabilityRows]
  /\ gate \in [Hosts -> GateRows]
  /\ authority \in [Hosts -> AuthorityRows]

HostInit ==
  /\ databaseMode = "ACTIVE"
  /\ identity = [h \in Hosts |-> [state |-> "UNREGISTERED", generation |-> 0]]
  /\ enrollment = [h \in Hosts |-> [revision |-> 0, state |-> "NONE"]]
  /\ credential = [h \in Hosts |-> [revision |-> 0, state |-> "NONE",
                                    enrollment |-> 0, validity |-> "FUTURE"]]
  /\ session = [h \in Hosts |-> [generation |-> 0, state |-> "NONE",
                                 credential |-> 0, attempt |-> NoAttempt]]
  /\ attempts = {}
  /\ sessionAuth = [h \in Hosts |-> [generation |-> 0, credential |-> 0, enrollment |-> 0,
                                     capability |-> 0, state |-> "NONE"]]
  /\ snapshots = [h \in Hosts |-> [g \in 1..MaxInventory |-> "NONE"]]
  /\ capability = [h \in Hosts |-> [generation |-> 0, state |-> "NONE"]]
  /\ gate = [h \in Hosts |-> [capability |-> 0, evidence |-> 0, preflight |-> "NONE",
                              compliance |-> "NONE", state |-> "NONE"]]
  /\ authority = [h \in Hosts |-> [generation |-> 0, state |-> "NONE", session |-> 0,
                                   credential |-> 0, enrollment |-> 0,
                                   capability |-> 0, evidence |-> 0]]

-----------------------------------------------------------------------------
(***************************************************************************)
(* Helpers shared by the handlers                                          *)
(***************************************************************************)

\* The Credential Binding of revision r is current, in its validity window and
\* bound to the current Enrollment decision.
ValidateCurrentCredentialBinding(h, r) ==
  /\ credential[h].revision = r
  /\ credential[h].validity = "VALID"
  /\ credential[h].state = "CURRENT"
  /\ credential[h].enrollment = enrollment[h].revision
  /\ enrollment[h].state = "ENROLLED"
  /\ identity[h].state = "APPROVED"

\* The authorization row that refreshHostSessionAuthorizationTx writes for the
\* session row ses and the capability row cap.  A capability generation is
\* written only when the identity part of the decision holds.
SessionAuthorization(h, ses, cap) ==
  LET trusted == ses.state = "CURRENT" /\ ValidateCurrentCredentialBinding(h, ses.credential)
  IN  [generation |-> ses.generation,
       credential |-> ses.credential,
       enrollment |-> enrollment[h].revision,
       capability |-> IF trusted THEN cap.generation ELSE 0,
       state |-> IF ~trusted THEN "FENCED"
                 ELSE IF cap.state = "CURRENT" THEN "AUTHORIZED"
                 ELSE "PENDING_CAPABILITY"]

\* A session whose Credential Binding is no longer the current one cannot be
\* evaluated (ErrSessionNotAuthorized): the caller's transaction rolls back.
RefreshHostSessionAuthorization(h, ses, cap) ==
  /\ credential[h].revision = ses.credential
  /\ sessionAuth' = [sessionAuth EXCEPT ![h] = SessionAuthorization(h, ses, cap)]

\* The Host-table half of fenceHostOperationAuthorityTx: an ARMED authority
\* keeps its generation and becomes FENCED.  Its second half, fencing the
\* Command Leases of the Host, is FenceHostCommandLeases of CommandExecution.
FenceHostOperationAuthority(h) ==
  authority' = [authority EXCEPT ![h].state = IF @ = "ARMED" THEN "FENCED" ELSE @]

\* An update of a row that does not exist changes nothing.
FenceSession(h) ==
  session' = [session EXCEPT ![h].state = IF @ = "NONE" THEN "NONE" ELSE "FENCED"]

\* Mutant: only a fence reaches the authorization row, a mere STALE does not.
SetSessionAuthorizationOnFence(h, state) ==
  sessionAuth' = [sessionAuth EXCEPT ![h].state =
    IF @ = "NONE" \/ state = "STALE" THEN @ ELSE state]

SetSessionAuthorization(h, state) ==
  sessionAuth' = [sessionAuth EXCEPT ![h].state = IF @ = "NONE" THEN "NONE" ELSE state]

-----------------------------------------------------------------------------
(***************************************************************************)
(* Enrollment, Credential Binding                                          *)
(***************************************************************************)

RegisterDiscoveredHost(h) ==
  /\ identity[h].state = "UNREGISTERED"
  /\ identity' = [identity EXCEPT ![h].state = "DISCOVERED"]
  /\ UNCHANGED <<databaseMode, enrollment, credential, session, attempts, sessionAuth,
                 snapshots, capability, gate, authority>>

\* Mutant: a decommissioned Host may be decided on again.
DecisionAdmissibleAfterDecommission(h, r, decision) ==
  identity[h].state # "UNREGISTERED" /\ r > enrollment[h].revision

DecisionAdmissible(h, r, decision) ==
  /\ identity[h].state # "UNREGISTERED"
  /\ identity[h].state = "DECOMMISSIONED" => decision = "DECOMMISSIONED"
  /\ r > enrollment[h].revision

\* Mutant: the decision is stored as the state of the binding.
EnrollmentStateUnmapped(decision) == decision

EnrollmentState(decision) == IF decision = "APPROVED" THEN "ENROLLED" ELSE decision

RecordEnrollmentDecision(h, r, decision) ==
  /\ DecisionAdmissible(h, r, decision)
  /\ enrollment' = [enrollment EXCEPT ![h] =
       [revision |-> r, state |-> EnrollmentState(decision)]]
  /\ identity' = [identity EXCEPT ![h].state =
       IF decision = "REJECTED" THEN "QUARANTINED" ELSE decision]
  /\ IF decision = "APPROVED"
       THEN SetSessionAuthorization(h, "STALE") /\ UNCHANGED session
       ELSE SetSessionAuthorization(h, "FENCED") /\ FenceSession(h)
  /\ FenceHostOperationAuthority(h)
  /\ UNCHANGED <<databaseMode, credential, attempts, snapshots, capability, gate>>

RecordAgentCredentialBinding(h, r, state, validity) ==
  /\ enrollment[h].state = "ENROLLED"
  /\ r > credential[h].revision
  /\ credential' = [credential EXCEPT ![h] =
       [revision |-> r, state |-> IF state = "ACTIVE" THEN "CURRENT" ELSE state,
        enrollment |-> enrollment[h].revision, validity |-> validity]]
  /\ IF state = "ACTIVE"
       THEN SetSessionAuthorization(h, "STALE") /\ UNCHANGED session
       ELSE SetSessionAuthorization(h, "FENCED") /\ FenceSession(h)
  /\ FenceHostOperationAuthority(h)
  /\ UNCHANGED <<databaseMode, identity, enrollment, attempts, snapshots, capability, gate>>

-----------------------------------------------------------------------------
(***************************************************************************)
(* Session admission                                                       *)
(***************************************************************************)

\* A new attempt; expected is the generation the Agent proposed, 0 for none.
\* A replay of the current attempt returns the granted generation and writes
\* nothing; any other recorded attempt is refused (ErrSessionAttemptConflict).
AdmitAgentSession(h, a, r, expected) ==
  /\ databaseMode = "ACTIVE"
  /\ ValidateCurrentCredentialBinding(h, r)
  /\ a \notin attempts
  /\ expected \in {0, session[h].generation + 1}
  /\ session[h].generation < MaxSession
  /\ attempts' = attempts \cup {a}
  /\ session' = [session EXCEPT ![h] =
       [generation |-> session[h].generation + 1, state |-> "CURRENT",
        credential |-> r, attempt |-> a]]
  /\ FenceHostOperationAuthority(h)
  /\ RefreshHostSessionAuthorization(h, session'[h], capability[h])
  /\ UNCHANGED <<databaseMode, identity, enrollment, credential, snapshots, capability, gate>>

\* Mutant: the replay is answered before the Credential Binding is validated.
ReplayGrantedUnvalidated(h, r) ==
  /\ databaseMode = "ACTIVE"
  /\ session[h].attempt # NoAttempt
  /\ session[h].credential = r

\* What the replay branch of AdmitAgentSessionTx would answer with a Grant.
ReplayGranted(h, r) ==
  /\ databaseMode = "ACTIVE"
  /\ ValidateCurrentCredentialBinding(h, r)
  /\ session[h].attempt # NoAttempt
  /\ session[h].credential = r

-----------------------------------------------------------------------------
(***************************************************************************)
(* Inventory and capability projection                                     *)
(***************************************************************************)

\* acceptAgentMessageTx followed by the snapshot insert.  A replay of an
\* accepted snapshot is answered from its receipt whatever the session, and is
\* applied again; a new one needs the current session.  A different snapshot
\* under a recorded generation is ErrHostInventoryEvidenceConflict.
AcceptInventoryMessage(h, g, status) ==
  /\ \/ snapshots[h][g] = status
     \/ snapshots[h][g] = "NONE" /\ session[h].state = "CURRENT"
  /\ snapshots' = [snapshots EXCEPT ![h][g] = status]

\* The first delivery of a message over a superseded session leaves a STALE
\* receipt, which every later replay of the message is answered with.
RejectStaleInventory(h, g) ==
  /\ snapshots[h][g] = "NONE"
  /\ session[h].state = "CURRENT"
  /\ session[h].generation > 1
  /\ snapshots' = [snapshots EXCEPT ![h][g] = "STALE"]
  /\ UNCHANGED <<databaseMode, identity, enrollment, credential, session, attempts,
                 sessionAuth, capability, gate, authority>>

\* The projection advances to a newer generation and the authority is fenced.
AcceptNewerInventory(h, g, status) ==
  /\ g > capability[h].generation
  /\ AcceptInventoryMessage(h, g, status)
  /\ capability' = [capability EXCEPT ![h] =
       [generation |-> g, state |-> IF status = "COMPLETE" THEN "CURRENT" ELSE "DEGRADED"]]
  /\ FenceHostOperationAuthority(h)
  /\ RefreshHostSessionAuthorization(h, session[h], capability'[h])
  /\ UNCHANGED <<databaseMode, identity, enrollment, credential, session, attempts, gate>>

\* A snapshot that is not newer leaves the projection and the authority alone,
\* but the session authorization is still evaluated again.
AcceptOlderInventory(h, g, status) ==
  /\ g <= capability[h].generation
  /\ AcceptInventoryMessage(h, g, status)
  /\ RefreshHostSessionAuthorization(h, session[h], capability[h])
  /\ UNCHANGED <<databaseMode, identity, enrollment, credential, session, attempts,
                 capability, gate, authority>>

-----------------------------------------------------------------------------
(***************************************************************************)
(* Readiness gate and arming                                               *)
(***************************************************************************)

GateState(h, g, preflight, compliance) ==
  IF \/ preflight = "UNKNOWN" \/ compliance = "UNKNOWN"
     \/ capability[h] # [generation |-> g, state |-> "CURRENT"]
  THEN "UNKNOWN"
  ELSE IF preflight = "PASSED" /\ compliance = "COMPLIANT" THEN "READY" ELSE "BLOCKED"

\* Writing an identical row is a no-op that fences nothing.
UpdateHostReadinessGate(h, g, evidence, preflight, compliance) ==
  LET row == [capability |-> g, evidence |-> evidence, preflight |-> preflight,
              compliance |-> compliance, state |-> GateState(h, g, preflight, compliance)]
  IN  /\ capability[h].generation > 0
      /\ gate[h] # row
      /\ gate' = [gate EXCEPT ![h] = row]
      /\ FenceHostOperationAuthority(h)
      /\ UNCHANGED <<databaseMode, identity, enrollment, credential, session, attempts,
                     sessionAuth, snapshots, capability>>

\* Mutant: any ready gate will do.
GateReadyForAnyCapability(h) ==
  gate[h].state = "READY" /\ gate[h].preflight = "PASSED" /\ gate[h].compliance = "COMPLIANT"

\* The gate was evaluated as ready for the capability generation the session
\* was authorized with.
GateReady(h) ==
  /\ gate[h].state = "READY" /\ gate[h].preflight = "PASSED" /\ gate[h].compliance = "COMPLIANT"
  /\ gate[h].capability = sessionAuth[h].capability

ReadyToArm(h) ==
  /\ databaseMode = "ACTIVE"
  /\ identity[h].state = "APPROVED"
  /\ enrollment[h].state = "ENROLLED"
  /\ credential[h].state = "CURRENT" /\ credential[h].validity = "VALID"
  /\ session[h].state = "CURRENT"
  /\ sessionAuth[h].state = "AUTHORIZED"
  /\ sessionAuth[h].generation = session[h].generation
  /\ sessionAuth[h].credential = credential[h].revision
  /\ sessionAuth[h].enrollment = enrollment[h].revision
  /\ GateReady(h)
  /\ capability[h] = [generation |-> sessionAuth[h].capability, state |-> "CURRENT"]

\* Arming takes the next authority generation and binds it to every generation
\* it was decided from.  It does not fence the Leases of an earlier generation.
ArmHostOperationAuthority(h) ==
  /\ ReadyToArm(h)
  /\ identity[h].generation < MaxArmed
  /\ identity' = [identity EXCEPT ![h].generation = @ + 1]
  /\ authority' = [authority EXCEPT ![h] =
       [generation |-> identity'[h].generation, state |-> "ARMED",
        session |-> session[h].generation, credential |-> credential[h].revision,
        enrollment |-> enrollment[h].revision, capability |-> sessionAuth[h].capability,
        evidence |-> gate[h].evidence]]
  /\ UNCHANGED <<databaseMode, enrollment, credential, session, attempts, sessionAuth,
                 snapshots, capability, gate>>

-----------------------------------------------------------------------------
(***************************************************************************)
(* The world outside: database time passing a validity boundary, and the   *)
(* restore procedure switching the database authority.                     *)
(***************************************************************************)

CredentialClock(h) ==
  /\ credential[h].revision > 0
  /\ credential[h].validity # "PAST"
  /\ credential' = [credential EXCEPT ![h].validity = IF @ = "FUTURE" THEN "VALID" ELSE "PAST"]
  /\ UNCHANGED <<databaseMode, identity, enrollment, session, attempts, sessionAuth,
                 snapshots, capability, gate, authority>>

DatabaseModeChanges ==
  /\ databaseMode' = IF databaseMode = "ACTIVE" THEN "RECOVERY_READ_ONLY" ELSE "ACTIVE"
  /\ UNCHANGED <<identity, enrollment, credential, session, attempts, sessionAuth,
                 snapshots, capability, gate, authority>>

-----------------------------------------------------------------------------
(***************************************************************************)
(* FencingStep: the handlers that end in fenceHostOperationAuthorityTx.    *)
(* QuietStep: the ones that do not.  CommandExecution composes the two     *)
(* with its own tables.                                                    *)
(***************************************************************************)

FencingStep(h) ==
  \/ \E r \in 1..MaxDecision, d \in Decisions : RecordEnrollmentDecision(h, r, d)
  \/ \E r \in 1..MaxBinding, s \in BindingStates, v \in {"FUTURE", "VALID", "PAST"} :
       RecordAgentCredentialBinding(h, r, s, v)
  \/ \E a \in SessionAttempts, r \in 1..MaxBinding, e \in 0..MaxSession :
       AdmitAgentSession(h, a, r, e)
  \/ \E g \in 1..MaxInventory, s \in CollectionStatuses : AcceptNewerInventory(h, g, s)
  \/ \E g \in 1..MaxInventory, e \in GateGenerations, p \in PreflightStates,
        c \in ComplianceStates : UpdateHostReadinessGate(h, g, e, p, c)

QuietStep(h) ==
  \/ RegisterDiscoveredHost(h)
  \/ \E g \in 1..MaxInventory, s \in CollectionStatuses : AcceptOlderInventory(h, g, s)
  \/ \E g \in 1..MaxInventory : RejectStaleInventory(h, g)
  \/ ArmHostOperationAuthority(h)
  \/ CredentialClock(h)

HostNext ==
  \/ \E h \in Hosts : FencingStep(h) \/ QuietStep(h)
  \/ DatabaseModeChanges

HostSpec == HostInit /\ [][HostNext]_hostVars

-----------------------------------------------------------------------------
(***************************************************************************)
(* Properties                                                              *)
(***************************************************************************)

\* What the authorization row was decided from is current and positive.
AuthorizationBasis(h) ==
  /\ identity[h].state = "APPROVED"
  /\ enrollment[h].revision = sessionAuth[h].enrollment
  /\ enrollment[h].state = "ENROLLED"
  /\ credential[h].revision = sessionAuth[h].credential
  /\ credential[h].state = "CURRENT"
  /\ credential[h].enrollment = enrollment[h].revision
  /\ session[h].generation = sessionAuth[h].generation
  /\ session[h].state = "CURRENT"
  /\ session[h].credential = credential[h].revision
  /\ capability[h].generation = sessionAuth[h].capability
  /\ capability[h].state = "CURRENT"

\* An AUTHORIZED session authorization never outlives what it was decided from:
\* the session, Credential Binding, Enrollment decision and capability
\* projection it names are the current ones and all still positive.  Each of
\* the five handlers that change one of them must rewrite the authorization
\* row in the same transaction; nothing re-derives it on read.
AuthorizedBasisCurrent ==
  \A h \in Hosts : sessionAuth[h].state = "AUTHORIZED" => AuthorizationBasis(h)

\* What the authority row was armed from is current and positive.
ArmingBasis(h) ==
  /\ identity[h].state = "APPROVED"
  /\ identity[h].generation = authority[h].generation
  /\ enrollment[h].revision = authority[h].enrollment
  /\ enrollment[h].state = "ENROLLED"
  /\ credential[h].revision = authority[h].credential
  /\ credential[h].state = "CURRENT"
  /\ session[h].generation = authority[h].session
  /\ session[h].state = "CURRENT"
  /\ capability[h].generation = authority[h].capability
  /\ capability[h].state = "CURRENT"
  /\ gate[h].capability = authority[h].capability
  /\ gate[h].evidence = authority[h].evidence
  /\ gate[h].state = "READY"
  /\ sessionAuth[h].generation = session[h].generation
  /\ \/ sessionAuth[h].state = "AUTHORIZED"
        /\ sessionAuth[h].capability = authority[h].capability
     \/ credential[h].validity = "PAST"

\* Fencing is complete: while an authority is ARMED every generation it is
\* bound to is the current one and every gate it was armed from still holds,
\* with one exception, a credential whose validity window ended (no handler
\* runs at that moment).  readHostMutationAuthorityTx checks all of this again
\* before each mutation; the invariant says which of its joins can ever fail.
ArmedBasisCurrent ==
  \A h \in Hosts : authority[h].state = "ARMED" => ArmingBasis(h)

\* How the revisions of a Host's rows relate.
RevisionOrder(h) ==
  /\ authority[h].generation = identity[h].generation
  /\ session[h].credential <= credential[h].revision
  /\ credential[h].enrollment <= enrollment[h].revision
  /\ session[h].attempt # NoAttempt => session[h].state # "NONE"
  /\ session[h].state = "FENCED" =>
       \/ session[h].credential < credential[h].revision
       \/ credential[h].enrollment < enrollment[h].revision
  /\ authority[h].state = "ARMED" =>
       /\ session[h].credential = credential[h].revision
       /\ credential[h].enrollment = enrollment[h].revision
       /\ credential[h].validity # "FUTURE"

\* Revisions only move forward together: the authority generation is the one
\* the Host identity counted, a session was admitted under a Credential
\* Binding no newer than the current one, a FENCED session belongs to a
\* superseded Binding or to a Binding of a superseded Enrollment decision (so
\* that no later validation can revive it), and an ARMED authority stands on a
\* session of the current Binding of the current decision.
RevisionsInOrder == \A h \in Hosts : RevisionOrder(h)

\* The idempotent replay of AdmitAgentSessionTx returns the recorded generation
\* without looking at the session's state.  It never hands out a session that
\* was FENCED meanwhile, because what fences a session also makes its
\* Credential Binding fail validation.
ReplayedGrantIsCurrent ==
  \A h \in Hosts, r \in 1..MaxBinding :
    ReplayGranted(h, r) => session[h].state = "CURRENT"

\* An authority that was FENCED or superseded never comes back: becoming ARMED
\* takes a generation no earlier authority of the Host had, and a Host that was
\* decommissioned is never armed or re-enrolled.
AuthorityNeverReturns ==
  [][\A h \in Hosts :
       /\ authority'[h] # authority[h] /\ authority'[h].state = "ARMED"
            => authority'[h].generation > authority[h].generation
       /\ identity[h].state = "DECOMMISSIONED"
            => /\ identity'[h].state = "DECOMMISSIONED"
               /\ authority'[h].state # "ARMED"]_hostVars

=============================================================================
