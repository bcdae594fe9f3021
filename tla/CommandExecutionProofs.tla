----------------------- MODULE CommandExecutionProofs -----------------------
(***************************************************************************)
(* The Hosts, the Commands they execute, and the ledger of Attempts, for   *)
(* every set of Hosts and Commands, every placement of Commands on Hosts   *)
(* and every bound: first the invariants of HostAuthority, then those of   *)
(* CommandExecution, then that CommandExecution implements AttemptLedger.  *)
(***************************************************************************)
EXTENDS CommandRefinement, TLAPS

USE ZenonT(60)

-----------------------------------------------------------------------------
(***************************************************************************)
(* Type correctness: first the helpers that write one table, then one      *)
(* step per action.                                                        *)
(***************************************************************************)

\* The helpers shared by the handlers keep the rows they write well typed.
LEMMA HelpersTyped ==
  ASSUME HostTypeOK, NEW h \in Hosts
  PROVE  /\ FenceHostOperationAuthority(h) => authority' \in [Hosts -> AuthorityRows]
         /\ FenceSession(h) => session' \in [Hosts -> SessionRows]
         /\ \A state \in {"STALE", "FENCED"} :
              SetSessionAuthorization(h, state) => sessionAuth' \in [Hosts -> SessionAuthRows]
         /\ \A ses \in SessionRows, cap \in CapabilityRows :
              RefreshHostSessionAuthorization(h, ses, cap) => sessionAuth' \in [Hosts -> SessionAuthRows]
<1>1. ASSUME FenceHostOperationAuthority(h) PROVE authority' \in [Hosts -> AuthorityRows]
  <2>1. authority[h] \in AuthorityRows
    BY DEF HostTypeOK
  <2>2. \A state \in {"NONE", "ARMED", "FENCED"} :
          [authority[h] EXCEPT !.state = state] \in AuthorityRows
    BY <2>1 DEF AuthorityRows
  <2>3. authority[h].state \in {"NONE", "ARMED", "FENCED"}
    BY <2>1 DEF AuthorityRows
  <2>4. QED
    BY <1>1, <2>2, <2>3 DEF HostTypeOK, FenceHostOperationAuthority
<1>2. ASSUME FenceSession(h) PROVE session' \in [Hosts -> SessionRows]
  <2>1. session[h] \in SessionRows
    BY DEF HostTypeOK
  <2>2. \A state \in {"NONE", "FENCED"} : [session[h] EXCEPT !.state = state] \in SessionRows
    BY <2>1 DEF SessionRows
  <2>3. QED
    BY <1>2, <2>2 DEF HostTypeOK, FenceSession
<1>3. ASSUME NEW state \in {"STALE", "FENCED"}, SetSessionAuthorization(h, state)
      PROVE  sessionAuth' \in [Hosts -> SessionAuthRows]
  <2>1. sessionAuth[h] \in SessionAuthRows
    BY DEF HostTypeOK
  <2>2. \A s \in {"NONE", "STALE", "FENCED"} : [sessionAuth[h] EXCEPT !.state = s] \in SessionAuthRows
    BY <2>1 DEF SessionAuthRows
  <2>3. (IF sessionAuth[h].state = "NONE" THEN "NONE" ELSE state) \in {"NONE", "STALE", "FENCED"}
    BY <1>3
  <2>4. QED
    BY <1>3, <2>2, <2>3 DEF HostTypeOK, SetSessionAuthorization
<1>4. ASSUME NEW ses \in SessionRows, NEW cap \in CapabilityRows,
             RefreshHostSessionAuthorization(h, ses, cap)
      PROVE  sessionAuth' \in [Hosts -> SessionAuthRows]
  <2>1. SessionAuthorization(h, ses, cap) \in SessionAuthRows
    BY BoundsAssumption, SMTT(30) DEF BoundsAssumption, HostTypeOK, SessionAuthorization, SessionAuthRows,
       SessionRows, CapabilityRows, EnrollmentRows, Revisions
  <2>2. QED
    BY <1>4, <2>1 DEF HostTypeOK, RefreshHostSessionAuthorization
<1>5. QED
  BY <1>1, <1>2, <1>3, <1>4

LEMMA DecisionTyped ==
  ASSUME HostTypeOK, NEW h \in Hosts, NEW r \in 1..MaxDecision, NEW d \in Decisions,
         RecordEnrollmentDecision(h, r, d)
  PROVE  HostTypeOK'
<1> USE InputsAssumption, BoundsAssumption DEF InputsAssumption, BoundsAssumption
<1>1. enrollment' \in [Hosts -> EnrollmentRows]
  BY SMTT(30) DEF HostTypeOK, RecordEnrollmentDecision, EnrollmentState, EnrollmentRows, EnrollmentStates,
     Revisions
<1>2. identity' \in [Hosts -> IdentityRows]
  <2>1. \A state \in IdentityStates : [identity[h] EXCEPT !.state = state] \in IdentityRows
    BY SMTT(30) DEF HostTypeOK, IdentityRows
  <2>2. (IF d = "REJECTED" THEN "QUARANTINED" ELSE d) \in IdentityStates
    BY DEF IdentityStates
  <2>3. QED
    BY <2>1, <2>2 DEF HostTypeOK, RecordEnrollmentDecision
<1>3. authority' \in [Hosts -> AuthorityRows] /\ session' \in [Hosts -> SessionRows]
      /\ sessionAuth' \in [Hosts -> SessionAuthRows]
  BY HelpersTyped DEF HostTypeOK, RecordEnrollmentDecision
<1>4. QED
  BY <1>1, <1>2, <1>3 DEF HostTypeOK, RecordEnrollmentDecision

LEMMA BindingTyped ==
  ASSUME HostTypeOK, NEW h \in Hosts, NEW r \in 1..MaxBinding, NEW s \in BindingStates,
         NEW v \in {"FUTURE", "VALID", "PAST"}, RecordAgentCredentialBinding(h, r, s, v)
  PROVE  HostTypeOK'
<1> USE InputsAssumption, BoundsAssumption DEF InputsAssumption, BoundsAssumption
<1>1. credential' \in [Hosts -> CredentialRows]
  BY SMTT(30) DEF HostTypeOK, RecordAgentCredentialBinding, CredentialRows, EnrollmentRows, Revisions
<1>2. authority' \in [Hosts -> AuthorityRows] /\ session' \in [Hosts -> SessionRows]
      /\ sessionAuth' \in [Hosts -> SessionAuthRows]
  BY HelpersTyped DEF HostTypeOK, RecordAgentCredentialBinding
<1>3. QED
  BY <1>1, <1>2 DEF HostTypeOK, RecordAgentCredentialBinding

LEMMA AdmissionTyped ==
  ASSUME HostTypeOK, NEW h \in Hosts, NEW a \in SessionAttempts, NEW r \in 1..MaxBinding,
         NEW e \in 0..MaxSession, AdmitAgentSession(h, a, r, e)
  PROVE  HostTypeOK'
<1> USE BoundsAssumption DEF BoundsAssumption
<1>1. session' \in [Hosts -> SessionRows] /\ session'[h] \in SessionRows
  BY SMTT(30) DEF HostTypeOK, AdmitAgentSession, SessionRows, Revisions
<1>2. authority' \in [Hosts -> AuthorityRows] /\ sessionAuth' \in [Hosts -> SessionAuthRows]
  BY <1>1, HelpersTyped DEF HostTypeOK, AdmitAgentSession
<1>3. QED
  BY <1>1, <1>2 DEF HostTypeOK, AdmitAgentSession

LEMMA InventoryTyped ==
  ASSUME HostTypeOK, NEW h \in Hosts, NEW g \in 1..MaxInventory, NEW s \in CollectionStatuses,
         AcceptNewerInventory(h, g, s) \/ AcceptOlderInventory(h, g, s) \/ RejectStaleInventory(h, g)
  PROVE  HostTypeOK'
<1> USE BoundsAssumption DEF BoundsAssumption
<1>1. snapshots' \in [Hosts -> [1..MaxInventory -> CollectionStatuses \cup {"NONE", "STALE"}]]
  <2>1. PICK status \in CollectionStatuses \cup {"STALE"} :
          snapshots' = [snapshots EXCEPT ![h][g] = status]
    BY DEF AcceptNewerInventory, AcceptOlderInventory, RejectStaleInventory, AcceptInventoryMessage
  <2>2. QED
    BY <2>1 DEF HostTypeOK
<1>2. CASE AcceptNewerInventory(h, g, s)
  <2>1. capability' \in [Hosts -> CapabilityRows] /\ capability'[h] \in CapabilityRows
    BY <1>2, SMTT(30) DEF HostTypeOK, AcceptNewerInventory, CapabilityRows, Revisions
  <2>2. authority' \in [Hosts -> AuthorityRows] /\ sessionAuth' \in [Hosts -> SessionAuthRows]
    BY <1>2, <2>1, HelpersTyped DEF HostTypeOK, AcceptNewerInventory
  <2>3. QED
    BY <1>1, <1>2, <2>1, <2>2 DEF HostTypeOK, AcceptNewerInventory
<1>3. CASE AcceptOlderInventory(h, g, s)
  BY <1>1, <1>3, HelpersTyped DEF HostTypeOK, AcceptOlderInventory
<1>4. CASE RejectStaleInventory(h, g)
  BY <1>1, <1>4 DEF HostTypeOK, RejectStaleInventory
<1>5. QED
  BY <1>2, <1>3, <1>4

LEMMA GateTyped ==
  ASSUME HostTypeOK, NEW h \in Hosts, NEW g \in 1..MaxInventory, NEW e \in GateGenerations,
         NEW p \in PreflightStates, NEW c \in ComplianceStates,
         UpdateHostReadinessGate(h, g, e, p, c)
  PROVE  HostTypeOK'
<1> USE BoundsAssumption DEF BoundsAssumption
<1>1. gate' \in [Hosts -> GateRows]
  BY SMTT(30) DEF HostTypeOK, UpdateHostReadinessGate, GateState, GateRows, Revisions
<1>2. authority' \in [Hosts -> AuthorityRows]
  BY HelpersTyped DEF UpdateHostReadinessGate
<1>3. QED
  BY <1>1, <1>2 DEF HostTypeOK, UpdateHostReadinessGate

LEMMA ArmTyped ==
  ASSUME HostTypeOK, NEW h \in Hosts, ArmHostOperationAuthority(h)
  PROVE  HostTypeOK'
<1> USE BoundsAssumption DEF BoundsAssumption
<1>1. identity' \in [Hosts -> IdentityRows] /\ identity'[h].generation \in Revisions(MaxArmed)
  <2>1. identity[h] \in IdentityRows /\ identity[h].generation + 1 \in Revisions(MaxArmed)
    BY SMTT(30) DEF HostTypeOK, ArmHostOperationAuthority, IdentityRows, Revisions
  <2>2. \A n \in Revisions(MaxArmed) :
          /\ [identity[h] EXCEPT !.generation = n] \in IdentityRows
          /\ [identity[h] EXCEPT !.generation = n].generation = n
    BY <2>1 DEF IdentityRows
  <2>3. QED
    BY <2>1, <2>2 DEF HostTypeOK, ArmHostOperationAuthority
<1>2. authority' \in [Hosts -> AuthorityRows]
  BY <1>1, SMTT(30) DEF HostTypeOK, ArmHostOperationAuthority, AuthorityRows, SessionRows, CredentialRows,
     EnrollmentRows, SessionAuthRows, GateRows
<1>3. QED
  BY <1>1, <1>2 DEF HostTypeOK, ArmHostOperationAuthority

LEMMA ClockTyped ==
  ASSUME HostTypeOK, NEW h \in Hosts, CredentialClock(h)
  PROVE  HostTypeOK'
<1>1. credential' \in [Hosts -> CredentialRows]
  <2>1. credential[h] \in CredentialRows
    BY DEF HostTypeOK
  <2>2. \A v \in {"VALID", "PAST"} : [credential[h] EXCEPT !.validity = v] \in CredentialRows
    BY <2>1 DEF CredentialRows
  <2>3. QED
    BY <2>2 DEF HostTypeOK, CredentialClock
<1>2. QED
  BY <1>1 DEF HostTypeOK, CredentialClock

LEMMA RegistrationTyped ==
  ASSUME HostTypeOK, NEW h \in Hosts, RegisterDiscoveredHost(h)
  PROVE  HostTypeOK'
<1>1. identity' \in [Hosts -> IdentityRows]
  <2>1. [identity[h] EXCEPT !.state = "DISCOVERED"] \in IdentityRows
    BY SMTT(30) DEF HostTypeOK, IdentityRows, IdentityStates
  <2>2. QED
    BY <2>1 DEF HostTypeOK, RegisterDiscoveredHost
<1>2. QED
  BY <1>1 DEF HostTypeOK, RegisterDiscoveredHost

\* Every step of the Host handlers keeps the tables well typed.
LEMMA HostNextTyped ==
  ASSUME HostTypeOK, [HostNext]_hostVars
  PROVE  HostTypeOK'
<1>1. ASSUME NEW h \in Hosts, FencingStep(h)
      PROVE  HostTypeOK'
  BY <1>1, DecisionTyped, BindingTyped, AdmissionTyped, InventoryTyped, GateTyped DEF FencingStep
<1>2. ASSUME NEW h \in Hosts, QuietStep(h)
      PROVE  HostTypeOK'
  <2>1. ASSUME NEW g \in 1..MaxInventory, RejectStaleInventory(h, g)
        PROVE  HostTypeOK'
    BY <2>1, InventoryTyped DEF CollectionStatuses
  <2>2. QED
    BY <1>2, <2>1, RegistrationTyped, InventoryTyped, ArmTyped, ClockTyped DEF QuietStep
<1>3. CASE DatabaseModeChanges
  BY <1>3 DEF HostTypeOK, DatabaseModeChanges
<1>4. CASE UNCHANGED hostVars
  BY <1>4 DEF HostTypeOK, hostVars
<1>5. QED
  BY <1>1, <1>2, <1>3, <1>4 DEF HostNext

LEMMA HostInitTyped == HostInit => HostTypeOK
<1> USE BoundsAssumption DEF BoundsAssumption
<1> SUFFICES ASSUME HostInit PROVE HostTypeOK
  OBVIOUS
<1>1. /\ identity \in [Hosts -> IdentityRows]
      /\ enrollment \in [Hosts -> EnrollmentRows]
      /\ credential \in [Hosts -> CredentialRows]
  BY SMTT(30) DEF HostInit, IdentityRows, IdentityStates, EnrollmentRows, EnrollmentStates, CredentialRows,
     Revisions
<1>2. /\ session \in [Hosts -> SessionRows]
      /\ sessionAuth \in [Hosts -> SessionAuthRows]
      /\ capability \in [Hosts -> CapabilityRows]
  BY SMTT(30) DEF HostInit, SessionRows, SessionAuthRows, CapabilityRows, Revisions
<1>3. /\ gate \in [Hosts -> GateRows]
      /\ authority \in [Hosts -> AuthorityRows]
      /\ snapshots \in [Hosts -> [1..MaxInventory -> CollectionStatuses \cup {"NONE", "STALE"}]]
  BY SMTT(30) DEF HostInit, GateRows, AuthorityRows, Revisions
<1>4. QED
  BY <1>1, <1>2, <1>3 DEF HostInit, HostTypeOK

\* Type correctness: whatever decisions, admissions, inventories and gates
\* arrive in whatever order, the rows keep the columns and states of their
\* tables.
THEOREM HostTypeCorrect == HostSpec => []HostTypeOK
<1>1. HostInit => HostTypeOK
  BY HostInitTyped
<1>2. HostTypeOK /\ [HostNext]_hostVars => HostTypeOK'
  BY HostNextTyped
<1>3. QED
  BY <1>1, <1>2, PTL DEF HostSpec

-----------------------------------------------------------------------------
(***************************************************************************)
(* The inductive invariant.  AuthorizedBasisCurrent and ArmedBasisCurrent  *)
(* are not inductive alone: that a re-evaluated authorization stays        *)
(* AUTHORIZED under an ARMED authority needs the revision order.           *)
(***************************************************************************)

\* The invariant of one Host.
Sound(h) ==
  /\ sessionAuth[h].state = "AUTHORIZED" => AuthorizationBasis(h)
  /\ authority[h].state = "ARMED" => ArmingBasis(h)
  /\ RevisionOrder(h)

HostInvariant == HostTypeOK /\ \A h \in Hosts : Sound(h)

\* The rows Sound reads.
RowsOf(h) == <<identity[h], enrollment[h], credential[h], session[h], sessionAuth[h],
               capability[h], gate[h], authority[h]>>

\* A Host keeps the invariant when none of its rows changes.
LEMMA SoundFrame ==
  ASSUME NEW h, Sound(h), RowsOf(h)' = RowsOf(h)
  PROVE  Sound(h)'
BY SMTT(30) DEF Sound, RowsOf, AuthorizationBasis, ArmingBasis, RevisionOrder

\* A handler changes the rows of its own Host only.
LEMMA OtherHosts ==
  ASSUME HostTypeOK, NEW h \in Hosts, NEW k \in Hosts, k # h, FencingStep(h) \/ QuietStep(h)
  PROVE  RowsOf(k)' = RowsOf(k)
<1>1. /\ FenceHostOperationAuthority(h) => authority'[k] = authority[k]
      /\ FenceSession(h) => session'[k] = session[k]
      /\ \A state : SetSessionAuthorization(h, state) => sessionAuth'[k] = sessionAuth[k]
      /\ \A ses, cap : RefreshHostSessionAuthorization(h, ses, cap) => sessionAuth'[k] = sessionAuth[k]
  BY DEF HostTypeOK, FenceHostOperationAuthority, FenceSession, SetSessionAuthorization,
     RefreshHostSessionAuthorization
<1>2. ASSUME NEW r, NEW d, RecordEnrollmentDecision(h, r, d)
      PROVE  RowsOf(k)' = RowsOf(k)
  BY <1>1, <1>2 DEF RowsOf, HostTypeOK, RecordEnrollmentDecision
<1>3. ASSUME NEW r, NEW s, NEW v, RecordAgentCredentialBinding(h, r, s, v)
      PROVE  RowsOf(k)' = RowsOf(k)
  BY <1>1, <1>3 DEF RowsOf, HostTypeOK, RecordAgentCredentialBinding
<1>4. ASSUME NEW a, NEW r, NEW e, AdmitAgentSession(h, a, r, e)
      PROVE  RowsOf(k)' = RowsOf(k)
  BY <1>1, <1>4 DEF RowsOf, HostTypeOK, AdmitAgentSession
<1>5. ASSUME NEW g, NEW s, AcceptNewerInventory(h, g, s) \/ AcceptOlderInventory(h, g, s)
      PROVE  RowsOf(k)' = RowsOf(k)
  BY <1>1, <1>5 DEF RowsOf, HostTypeOK, AcceptNewerInventory, AcceptOlderInventory
<1>6. ASSUME NEW g, NEW e, NEW p, NEW c, UpdateHostReadinessGate(h, g, e, p, c)
      PROVE  RowsOf(k)' = RowsOf(k)
  BY <1>1, <1>6 DEF RowsOf, HostTypeOK, UpdateHostReadinessGate
<1>7. CASE \/ RegisterDiscoveredHost(h) \/ ArmHostOperationAuthority(h) \/ CredentialClock(h)
           \/ \E g \in 1..MaxInventory : RejectStaleInventory(h, g)
  BY <1>7 DEF RowsOf, HostTypeOK, RegisterDiscoveredHost, ArmHostOperationAuthority,
     CredentialClock, RejectStaleInventory
<1>8. QED
  BY <1>2, <1>3, <1>4, <1>5, <1>6, <1>7 DEF FencingStep, QuietStep

-----------------------------------------------------------------------------
(***************************************************************************)
(* The invariant of the Host a handler works on, one lemma per handler.    *)
(***************************************************************************)

\* What the two fences leave in the rows of the Host.
LEMMA Fences ==
  ASSUME HostTypeOK, NEW h \in Hosts
  PROVE  /\ FenceHostOperationAuthority(h) =>
              /\ authority'[h].state # "ARMED"
              /\ authority'[h].generation = authority[h].generation
         /\ FenceSession(h) =>
              /\ session'[h].state \in {"NONE", "FENCED"}
              /\ session'[h].state = "NONE" => session[h].state = "NONE"
              /\ session'[h].credential = session[h].credential
              /\ session'[h].attempt = session[h].attempt
         /\ \A state \in {"STALE", "FENCED"} :
              SetSessionAuthorization(h, state) => sessionAuth'[h].state # "AUTHORIZED"
<1>1. authority[h] \in AuthorityRows /\ session[h] \in SessionRows /\ sessionAuth[h] \in SessionAuthRows
  BY DEF HostTypeOK
<1>2. FenceHostOperationAuthority(h) =>
              /\ authority'[h].state # "ARMED"
              /\ authority'[h].generation = authority[h].generation
  BY <1>1, SMTT(30) DEF HostTypeOK, FenceHostOperationAuthority, AuthorityRows
<1>3. FenceSession(h) =>
              /\ session'[h].state \in {"NONE", "FENCED"}
              /\ session'[h].state = "NONE" => session[h].state = "NONE"
              /\ session'[h].credential = session[h].credential
              /\ session'[h].attempt = session[h].attempt
  BY <1>1, SMTT(30) DEF HostTypeOK, FenceSession, SessionRows
<1>4. ASSUME NEW state \in {"STALE", "FENCED"}, SetSessionAuthorization(h, state)
      PROVE  sessionAuth'[h].state # "AUTHORIZED"
  BY <1>1, <1>4 DEF HostTypeOK, SetSessionAuthorization, SessionAuthRows
<1>5. QED
  BY <1>2, <1>3, <1>4

\* Integers of the rows, for the provers.
LEMMA RowNumbers ==
  ASSUME HostTypeOK, NEW h \in Hosts
  PROVE  /\ identity[h].generation \in Nat /\ enrollment[h].revision \in Nat
         /\ credential[h].revision \in Nat /\ credential[h].enrollment \in Nat
         /\ session[h].generation \in Nat /\ session[h].credential \in Nat
         /\ capability[h].generation \in Nat
BY BoundsAssumption, SMTT(30) DEF BoundsAssumption, HostTypeOK, IdentityRows, EnrollmentRows, CredentialRows,
   SessionRows, CapabilityRows, Revisions

\* An Enrollment decision supersedes the decision every Binding was made under.
LEMMA DecisionSound ==
  ASSUME HostTypeOK, NEW h \in Hosts, Sound(h), NEW r \in 1..MaxDecision, NEW d \in Decisions,
         RecordEnrollmentDecision(h, r, d)
  PROVE  Sound(h)'
<1>1. /\ enrollment'[h].revision = r /\ r > enrollment[h].revision
      /\ identity'[h].generation = identity[h].generation
      /\ credential' = credential
  BY DEF RecordEnrollmentDecision, DecisionAdmissible, HostTypeOK, IdentityRows
<1>2. sessionAuth'[h].state # "AUTHORIZED" /\ authority'[h].state # "ARMED"
      /\ authority'[h].generation = authority[h].generation
  BY Fences DEF RecordEnrollmentDecision
<1>3. /\ session'[h].credential = session[h].credential
      /\ session'[h].attempt # NoAttempt => session'[h].state # "NONE"
  BY Fences DEF RecordEnrollmentDecision, Sound, RevisionOrder
<1>4. credential[h].enrollment < enrollment'[h].revision
  BY <1>1, RowNumbers, BoundsAssumption, SMTT(30) DEF BoundsAssumption, Sound, RevisionOrder
<1>5. RevisionOrder(h)'
  BY <1>1, <1>2, <1>3, <1>4, RowNumbers, BoundsAssumption, SMTT(30)
  DEF BoundsAssumption, Sound, RevisionOrder
<1>6. QED
  BY <1>2, <1>5 DEF Sound

\* A new Binding supersedes the one every session was admitted under.
LEMMA BindingSound ==
  ASSUME HostTypeOK, NEW h \in Hosts, Sound(h), NEW r \in 1..MaxBinding, NEW s \in BindingStates,
         NEW v \in {"FUTURE", "VALID", "PAST"}, RecordAgentCredentialBinding(h, r, s, v)
  PROVE  Sound(h)'
<1>1. /\ credential'[h].revision = r /\ r > credential[h].revision
      /\ credential'[h].enrollment = enrollment[h].revision
      /\ identity' = identity /\ enrollment' = enrollment
  BY DEF RecordAgentCredentialBinding, HostTypeOK
<1>2. sessionAuth'[h].state # "AUTHORIZED" /\ authority'[h].state # "ARMED"
      /\ authority'[h].generation = authority[h].generation
  BY Fences DEF RecordAgentCredentialBinding
<1>3. /\ session'[h].credential = session[h].credential
      /\ session'[h].attempt # NoAttempt => session'[h].state # "NONE"
  BY Fences DEF RecordAgentCredentialBinding, Sound, RevisionOrder
<1>4. session[h].credential < credential'[h].revision
  BY <1>1, RowNumbers, BoundsAssumption, SMTT(30) DEF BoundsAssumption, Sound, RevisionOrder
<1>5. RevisionOrder(h)'
  BY <1>1, <1>2, <1>3, <1>4, RowNumbers, BoundsAssumption, SMTT(30)
  DEF BoundsAssumption, Sound, RevisionOrder
<1>6. QED
  BY <1>2, <1>5 DEF Sound

\* A refreshed authorization is AUTHORIZED only from current, positive rows.
LEMMA RefreshSound ==
  ASSUME HostTypeOK, NEW h \in Hosts, NEW ses \in SessionRows, NEW cap \in CapabilityRows,
         RefreshHostSessionAuthorization(h, ses, cap)
  PROVE  /\ sessionAuth'[h].generation = ses.generation
         /\ sessionAuth'[h].state = "AUTHORIZED" =>
              /\ ses.state = "CURRENT"
              /\ ValidateCurrentCredentialBinding(h, ses.credential)
              /\ cap.state = "CURRENT"
              /\ sessionAuth'[h].credential = ses.credential
              /\ sessionAuth'[h].enrollment = enrollment[h].revision
              /\ sessionAuth'[h].capability = cap.generation
         /\ ses.state = "CURRENT" /\ ValidateCurrentCredentialBinding(h, ses.credential)
            /\ cap.state = "CURRENT" => sessionAuth'[h].state = "AUTHORIZED"
<1>1. sessionAuth'[h] = SessionAuthorization(h, ses, cap)
  BY DEF HostTypeOK, RefreshHostSessionAuthorization
<1>2. QED
  BY <1>1, SMTT(30) DEF SessionAuthorization

LEMMA AdmissionSound ==
  ASSUME HostTypeOK, NEW h \in Hosts, Sound(h), NEW a \in SessionAttempts, NEW r \in 1..MaxBinding,
         NEW e \in 0..MaxSession, AdmitAgentSession(h, a, r, e)
  PROVE  Sound(h)'
<1>1. /\ session'[h] = [generation |-> session[h].generation + 1, state |-> "CURRENT",
                        credential |-> r, attempt |-> a]
      /\ credential[h].revision = r
      /\ UNCHANGED <<identity, enrollment, credential, capability>>
  BY DEF AdmitAgentSession, HostTypeOK, ValidateCurrentCredentialBinding
<1>2. authority'[h].state # "ARMED" /\ authority'[h].generation = authority[h].generation
  BY Fences DEF AdmitAgentSession
<1>3. session'[h] \in SessionRows /\ capability[h] \in CapabilityRows
  BY AdmissionTyped DEF HostTypeOK
<1>4. sessionAuth'[h].state = "AUTHORIZED" => AuthorizationBasis(h)'
  BY <1>1, <1>3, RefreshSound, SMTT(30)
  DEF AdmitAgentSession, AuthorizationBasis, ValidateCurrentCredentialBinding
<1>5. RevisionOrder(h)'
  BY <1>1, <1>2, RowNumbers, SMTT(30) DEF Sound, RevisionOrder
<1>6. QED
  BY <1>2, <1>4, <1>5 DEF Sound

LEMMA NewerInventorySound ==
  ASSUME HostTypeOK, NEW h \in Hosts, Sound(h), NEW g \in 1..MaxInventory,
         NEW s \in CollectionStatuses, AcceptNewerInventory(h, g, s)
  PROVE  Sound(h)'
<1>1. authority'[h].state # "ARMED" /\ authority'[h].generation = authority[h].generation
  BY Fences DEF AcceptNewerInventory
<1>2. session[h] \in SessionRows /\ capability'[h] \in CapabilityRows
  BY InventoryTyped DEF HostTypeOK
<1>3. sessionAuth'[h].state = "AUTHORIZED" => AuthorizationBasis(h)'
  BY <1>2, RefreshSound, SMTT(30)
  DEF AcceptNewerInventory, AuthorizationBasis, ValidateCurrentCredentialBinding
<1>4. RevisionOrder(h)'
  BY <1>1 DEF Sound, RevisionOrder, AcceptNewerInventory
<1>5. QED
  BY <1>1, <1>3, <1>4 DEF Sound

\* An inventory that is not newer fences nothing, yet the authorization row is
\* written again: under an ARMED authority it comes out AUTHORIZED with the
\* same capability, unless the credential's window ended.
LEMMA OlderInventorySound ==
  ASSUME HostTypeOK, NEW h \in Hosts, Sound(h), NEW g \in 1..MaxInventory,
         NEW s \in CollectionStatuses, AcceptOlderInventory(h, g, s)
  PROVE  Sound(h)'
<1>1. UNCHANGED <<identity, enrollment, credential, session, capability, gate, authority>>
  BY DEF AcceptOlderInventory
<1>2. session[h] \in SessionRows /\ capability[h] \in CapabilityRows
  BY DEF HostTypeOK
<1>3. RefreshHostSessionAuthorization(h, session[h], capability[h])
  BY DEF AcceptOlderInventory
<1>4. sessionAuth'[h].state = "AUTHORIZED" => AuthorizationBasis(h)'
  BY <1>1, <1>2, <1>3, RefreshSound, SMTT(30)
  DEF AuthorizationBasis, ValidateCurrentCredentialBinding
<1>5. ASSUME authority'[h].state = "ARMED" PROVE ArmingBasis(h)'
  <2>1. ArmingBasis(h) /\ credential[h].enrollment = enrollment[h].revision
        /\ session[h].credential = credential[h].revision /\ credential[h].validity # "FUTURE"
    BY <1>1, <1>5 DEF Sound, RevisionOrder
  <2>2. credential[h].validity \in {"VALID", "PAST"}
    BY <2>1 DEF HostTypeOK, CredentialRows
  <2>3. credential[h].validity = "VALID" =>
          sessionAuth'[h].state = "AUTHORIZED" /\ sessionAuth'[h].capability = capability[h].generation
    BY <1>2, <1>3, <2>1, RefreshSound, SMTT(30) DEF ArmingBasis, ValidateCurrentCredentialBinding
  <2>4. QED
    BY <1>1, <1>2, <1>3, <2>1, <2>2, <2>3, RefreshSound DEF ArmingBasis
<1>6. RevisionOrder(h)'
  BY <1>1 DEF Sound, RevisionOrder
<1>7. QED
  BY <1>4, <1>5, <1>6 DEF Sound

LEMMA GateSound ==
  ASSUME HostTypeOK, NEW h \in Hosts, Sound(h), NEW g, NEW e, NEW p, NEW c,
         UpdateHostReadinessGate(h, g, e, p, c)
  PROVE  Sound(h)'
<1>1. authority'[h].state # "ARMED" /\ authority'[h].generation = authority[h].generation
  BY Fences DEF UpdateHostReadinessGate
<1>2. QED
  BY <1>1 DEF UpdateHostReadinessGate, Sound, AuthorizationBasis, RevisionOrder

\* Arming reads every basis in the same transaction.
LEMMA ArmSound ==
  ASSUME HostTypeOK, NEW h \in Hosts, Sound(h), ArmHostOperationAuthority(h)
  PROVE  Sound(h)'
<1>1. UNCHANGED <<enrollment, credential, session, sessionAuth, capability, gate>>
  BY DEF ArmHostOperationAuthority
<1>2. /\ authority'[h].generation = identity'[h].generation
      /\ authority'[h].session = session[h].generation
      /\ authority'[h].credential = credential[h].revision
      /\ authority'[h].enrollment = enrollment[h].revision
      /\ authority'[h].capability = sessionAuth[h].capability
      /\ authority'[h].evidence = gate[h].evidence
  BY DEF ArmHostOperationAuthority, HostTypeOK
<1>3. identity'[h].state = identity[h].state
  BY DEF ArmHostOperationAuthority, HostTypeOK, IdentityRows
<1>4. ReadyToArm(h) /\ AuthorizationBasis(h)
  BY DEF ArmHostOperationAuthority, ReadyToArm, Sound
<1>5. ArmingBasis(h)'
  BY <1>1, <1>2, <1>3, <1>4 DEF ArmingBasis, AuthorizationBasis, ReadyToArm, GateReady
<1>6. AuthorizationBasis(h)'
  BY <1>1, <1>3, <1>4 DEF AuthorizationBasis
<1>7. RevisionOrder(h)'
  BY <1>1, <1>2, <1>4 DEF Sound, RevisionOrder, AuthorizationBasis, ReadyToArm
<1>8. QED
  BY <1>5, <1>6, <1>7 DEF Sound

\* Database time never moves a validity window backwards.
LEMMA ClockSound ==
  ASSUME HostTypeOK, NEW h \in Hosts, Sound(h), CredentialClock(h)
  PROVE  Sound(h)'
<1>1. UNCHANGED <<identity, enrollment, session, sessionAuth, capability, gate, authority>>
  BY DEF CredentialClock
<1>2. /\ credential'[h].revision = credential[h].revision
      /\ credential'[h].state = credential[h].state
      /\ credential'[h].enrollment = credential[h].enrollment
      /\ credential'[h].validity # "FUTURE"
      /\ credential[h].validity # "PAST"
  <2>1. credential[h] \in CredentialRows
    BY DEF HostTypeOK
  <2>2. credential'[h] = [credential[h] EXCEPT !.validity =
          IF credential[h].validity = "FUTURE" THEN "VALID" ELSE "PAST"]
    BY DEF CredentialClock, HostTypeOK
  <2>3. credential[h].validity # "PAST"
    BY DEF CredentialClock
  <2>4. QED
    BY <2>1, <2>2, <2>3 DEF CredentialRows
<1>3. QED
  BY <1>1, <1>2 DEF Sound, AuthorizationBasis, ArmingBasis, RevisionOrder

LEMMA RegistrationSound ==
  ASSUME HostTypeOK, NEW h \in Hosts, Sound(h), RegisterDiscoveredHost(h)
  PROVE  Sound(h)'
<1>1. /\ identity'[h].generation = identity[h].generation
      /\ identity[h].state = "UNREGISTERED"
      /\ UNCHANGED <<enrollment, credential, session, sessionAuth, capability, gate, authority>>
  BY DEF RegisterDiscoveredHost, HostTypeOK, IdentityRows
<1>2. QED
  BY <1>1 DEF Sound, AuthorizationBasis, ArmingBasis, RevisionOrder

-----------------------------------------------------------------------------

LEMMA HostStepSound ==
  ASSUME HostTypeOK, NEW h \in Hosts, Sound(h), FencingStep(h) \/ QuietStep(h)
  PROVE  Sound(h)'
<1>1. CASE FencingStep(h)
  BY <1>1, DecisionSound, BindingSound, AdmissionSound, NewerInventorySound, GateSound
  DEF FencingStep
<1>2. ASSUME NEW g \in 1..MaxInventory, RejectStaleInventory(h, g)
      PROVE  Sound(h)'
  BY <1>2, SoundFrame DEF RejectStaleInventory, RowsOf
<1>3. CASE QuietStep(h)
  BY <1>2, <1>3, RegistrationSound, OlderInventorySound, ArmSound, ClockSound DEF QuietStep
<1>4. QED
  BY <1>1, <1>3

LEMMA HostInvariantInit == HostInit => HostInvariant
<1> SUFFICES ASSUME HostInit PROVE HostInvariant
  OBVIOUS
<1>1. HostTypeOK
  BY HostInitTyped
<1>2. ASSUME NEW h \in Hosts PROVE Sound(h)
  BY SMTT(30) DEF HostInit, Sound, RevisionOrder
<1>3. QED
  BY <1>1, <1>2 DEF HostInvariant

LEMMA HostInvariantStep ==
  ASSUME HostInvariant, [HostNext]_hostVars
  PROVE  HostInvariant'
<1>1. HostTypeOK'
  BY HostNextTyped DEF HostInvariant
<1>2. ASSUME NEW k \in Hosts PROVE Sound(k)'
  <2>1. Sound(k) /\ HostTypeOK
    BY DEF HostInvariant
  <2>2. ASSUME NEW h \in Hosts, FencingStep(h) \/ QuietStep(h)
        PROVE  Sound(k)'
    BY <2>1, <2>2, HostStepSound, OtherHosts, SoundFrame
  <2>3. CASE DatabaseModeChanges
    BY <2>1, <2>3, SoundFrame DEF DatabaseModeChanges, RowsOf
  <2>4. CASE UNCHANGED hostVars
    BY <2>1, <2>4, SoundFrame DEF hostVars, RowsOf
  <2>5. QED
    BY <2>2, <2>3, <2>4 DEF HostNext
<1>3. QED
  BY <1>1, <1>2 DEF HostInvariant

\* The inductive invariant holds in every reachable state.
THEOREM HostInvariantHolds == HostSpec => []HostInvariant
<1>1. HostInit => HostInvariant
  BY HostInvariantInit
<1>2. HostInvariant /\ [HostNext]_hostVars => HostInvariant'
  BY HostInvariantStep
<1>3. QED
  BY <1>1, <1>2, PTL DEF HostSpec

\* An AUTHORIZED authorization row never outlives the session, Binding,
\* decision and capability it was decided from, for any number of Hosts.
THEOREM AuthorizedBasisTheorem == HostSpec => []AuthorizedBasisCurrent
<1>1. HostInvariant => AuthorizedBasisCurrent
  BY DEF HostInvariant, Sound, AuthorizedBasisCurrent
<1>2. QED
  BY <1>1, HostInvariantHolds, PTL

\* Fencing is complete: an ARMED authority stands on current, positive rows, a
\* credential past its window excepted.
THEOREM ArmedBasisTheorem == HostSpec => []ArmedBasisCurrent
<1>1. HostInvariant => ArmedBasisCurrent
  BY DEF HostInvariant, Sound, ArmedBasisCurrent
<1>2. QED
  BY <1>1, HostInvariantHolds, PTL

\* The revisions of a Host's rows stay in order.
THEOREM RevisionsTheorem == HostSpec => []RevisionsInOrder
<1>1. HostInvariant => RevisionsInOrder
  BY DEF HostInvariant, Sound, RevisionsInOrder
<1>2. QED
  BY <1>1, HostInvariantHolds, PTL

\* Replaying an admission never hands out a FENCED session: what fenced it also
\* superseded the Binding the replay is validated against.
THEOREM ReplayTheorem == HostSpec => []ReplayedGrantIsCurrent
<1>1. HostInvariant => ReplayedGrantIsCurrent
  <2> SUFFICES ASSUME HostInvariant, NEW h \in Hosts, NEW r \in 1..MaxBinding, ReplayGranted(h, r)
               PROVE  session[h].state = "CURRENT"
    BY DEF ReplayedGrantIsCurrent
  <2>1. RevisionOrder(h) /\ HostTypeOK
    BY DEF HostInvariant, Sound
  <2>2. /\ session[h].credential = credential[h].revision
        /\ credential[h].enrollment = enrollment[h].revision
        /\ session[h].attempt # NoAttempt
    BY DEF ReplayGranted, ValidateCurrentCredentialBinding
  <2>3. session[h].state \notin {"NONE", "FENCED"}
    BY <2>1, <2>2, RowNumbers, SMTT(30) DEF RevisionOrder
  <2>4. QED
    BY <2>1, <2>3 DEF HostTypeOK, SessionRows
<1>2. QED
  BY <1>1, HostInvariantHolds, PTL

\* What one step may do to the authority and identity of a Host.
NeverReturns(h) ==
  /\ authority'[h] # authority[h] /\ authority'[h].state = "ARMED"
       => authority'[h].generation > authority[h].generation
  /\ identity[h].state = "DECOMMISSIONED"
       => identity'[h].state = "DECOMMISSIONED" /\ authority'[h].state # "ARMED"

LEMMA NeverReturnsStep ==
  ASSUME HostInvariant, NEW h \in Hosts, FencingStep(h) \/ QuietStep(h)
  PROVE  NeverReturns(h)
<1>1. HostTypeOK /\ Sound(h)
  BY DEF HostInvariant
<1>2. identity[h].state = "DECOMMISSIONED" => authority[h].state # "ARMED"
  BY <1>1 DEF Sound, ArmingBasis
<1>3. ASSUME NEW r, NEW d, RecordEnrollmentDecision(h, r, d)
      PROVE  NeverReturns(h)
  <2>1. authority'[h].state # "ARMED"
    BY <1>1, <1>3, Fences DEF RecordEnrollmentDecision
  <2>2. identity[h].state = "DECOMMISSIONED" => identity'[h].state = "DECOMMISSIONED"
    BY <1>1, <1>3 DEF RecordEnrollmentDecision, DecisionAdmissible, HostTypeOK, IdentityRows
  <2>3. QED
    BY <2>1, <2>2 DEF NeverReturns
<1>4. CASE FencingStep(h)
  <2>1. \/ \E r \in 1..MaxDecision, d \in Decisions : RecordEnrollmentDecision(h, r, d)
        \/ FenceHostOperationAuthority(h) /\ UNCHANGED identity
    BY <1>4 DEF FencingStep, RecordAgentCredentialBinding, AdmitAgentSession, AcceptNewerInventory,
       UpdateHostReadinessGate
  <2>2. QED
    BY <1>1, <1>3, <2>1, Fences DEF NeverReturns
<1>5. CASE ArmHostOperationAuthority(h)
  <2>1. identity[h].state = "APPROVED" /\ authority[h].generation = identity[h].generation
        /\ identity[h].generation \in Nat
    BY <1>1, <1>5, RowNumbers DEF ArmHostOperationAuthority, ReadyToArm, Sound, RevisionOrder
  <2>2. authority'[h].generation = identity[h].generation + 1
    BY <1>1, <1>5 DEF ArmHostOperationAuthority, HostTypeOK, IdentityRows
  <2>3. QED
    BY <2>1, <2>2, SMTT(30) DEF NeverReturns
<1>6. CASE RegisterDiscoveredHost(h)
  BY <1>2, <1>6 DEF RegisterDiscoveredHost, NeverReturns
<1>7. CASE QuietStep(h) /\ ~ArmHostOperationAuthority(h) /\ ~RegisterDiscoveredHost(h)
  <2>1. UNCHANGED <<identity, authority>>
    BY <1>7 DEF QuietStep, AcceptOlderInventory, RejectStaleInventory, CredentialClock
  <2>2. QED
    BY <1>2, <2>1 DEF NeverReturns
<1>8. QED
  BY <1>4, <1>5, <1>6, <1>7

\* An authority that was FENCED or superseded never comes back, and a
\* decommissioned Host is never armed or enrolled again.
THEOREM AuthorityNeverReturnsTheorem == HostSpec => AuthorityNeverReturns
<1> DEFINE Step == \A h \in Hosts :
       /\ authority'[h] # authority[h] /\ authority'[h].state = "ARMED"
            => authority'[h].generation > authority[h].generation
       /\ identity[h].state = "DECOMMISSIONED"
            => /\ identity'[h].state = "DECOMMISSIONED"
               /\ authority'[h].state # "ARMED"
<1>1. ASSUME HostInvariant, [HostNext]_hostVars PROVE [Step]_hostVars
  <2> SUFFICES ASSUME HostNext, NEW k \in Hosts PROVE NeverReturns(k)
    BY <1>1 DEF NeverReturns
  <2>1. HostTypeOK /\ Sound(k)
    BY <1>1 DEF HostInvariant
  <2>2. identity[k].state = "DECOMMISSIONED" => authority[k].state # "ARMED"
    BY <2>1 DEF Sound, ArmingBasis
  <2>3. ASSUME RowsOf(k)' = RowsOf(k) PROVE NeverReturns(k)
    BY <2>2, <2>3 DEF RowsOf, NeverReturns
  <2>4. ASSUME NEW h \in Hosts, FencingStep(h) \/ QuietStep(h) PROVE NeverReturns(k)
    BY <1>1, <2>1, <2>3, <2>4, NeverReturnsStep, OtherHosts
  <2>5. CASE DatabaseModeChanges
    BY <2>3, <2>5 DEF DatabaseModeChanges, RowsOf
  <2>6. QED
    BY <2>4, <2>5 DEF HostNext
<1>2. QED
  BY <1>1, HostInvariantHolds, PTL DEF HostSpec, AuthorityNeverReturns

-----------------------------------------------------------------------------
(***************************************************************************)
(* The inductive invariant of one Command: what its rows say of one        *)
(* Attempt, of the Command, and of the Host it is leased to.               *)
(***************************************************************************)

Undecided(c, a) ==
  /\ ~Shown(c, a, "MATCHED")
  /\ ~Shown(c, a, "NOT_APPLIED")

AttemptRecorded(c, a) ==
  /\ EndsOnce(c, a)
  /\ a > command[c].attempt => events[c][a] = {}
  /\ a > command[c].attempt \/ (a = command[c].attempt /\ command[c].state = "LEASED") =>
       /\ result[c][a] = "NONE"
       /\ \A s \in Sources : evidence[c][s][a] = "NONE"
  /\ evidence[c]["resync"][a] = "NONE" <=> receipt[c]["resync"][a] = "NONE"
  /\ evidence[c]["result"][a] # "NONE" \/ result[c][a] # "NONE" => receipt[c]["result"][a] # "NONE"
  /\ a < command[c].attempt => Shown(c, a, "NOT_APPLIED")
  /\ a = command[c].attempt =>
       /\ command[c].state = "REDISPATCHABLE" => Shown(c, a, "NOT_APPLIED")
       /\ command[c].state = "SUCCEEDED" => Shown(c, a, "MATCHED")
       /\ command[c].state = "UNKNOWN" => Undecided(c, a) /\ result[c][a] # "FAILED"
  /\ ~(Shown(c, a, "MATCHED") /\ Shown(c, a, "NOT_APPLIED"))

CommandRecorded(c) ==
  /\ lease[c].generation = command[c].attempt
  /\ lease[c].attempt = command[c].attempt
  /\ command[c].state \in {"NONE", "PENDING"} <=> command[c].attempt = 0
  /\ command[c].state = "LEASED" <=> lease[c].state = "ACTIVE"
  /\ observing[c] # NoObservation =>
       /\ command[c].state = "UNKNOWN"
       /\ observing[c].attempt = command[c].attempt
       /\ observing[c].state \in VerificationStates
       /\ receipt[c]["resync"][command[c].attempt] = "NONE"
  /\ \A a \in Attempts : AttemptRecorded(c, a)

\* Attempts and generations are numbers.
LEMMA AttemptNumber ==
  ASSUME NEW a \in Attempts
  PROVE  a \in Nat /\ a \in Int /\ a # 0 /\ a > 0 /\ ~(a <= 0) /\ ~(a < 0)
         /\ a <= a /\ ~(a < a) /\ ~(a > a)
BY SMTT(30) DEF Attempts

\* The Attempt of a LEASED Command has not ended.
LEMMA LeasedGoesOn ==
  ASSUME NEW c, NEW a \in Attempts, EndsOnce(c, a), command[c].state = "LEASED", command[c].attempt = a
  PROVE  "RESULT_ACCEPTED" \notin events[c][a] /\ "UNKNOWN" \notin events[c][a]
<1>1. a <= command[c].attempt
  BY AttemptNumber
<1>2. events[c][a] \cap {"RESULT_ACCEPTED", "UNKNOWN"} = {}
  BY <1>1 DEF EndsOnce
<1>3. QED
  BY <1>2

LEMMA EndedNow ==
  ASSUME NEW c, NEW a, NEW e \in {"RESULT_ACCEPTED", "UNKNOWN"},
         events'[c][a] \cap {"RESULT_ACCEPTED", "UNKNOWN"} = {e}, command'[c].state # "LEASED",
         e = "RESULT_ACCEPTED" <=> result'[c][a] # "NONE"
  PROVE  EndsOnce(c, a)'
<1>1. {e} # {} /\ {e} # {"RESULT_ACCEPTED", "UNKNOWN"}
  BY SMTT(30)
<1>2. "RESULT_ACCEPTED" \in {e} <=> e = "RESULT_ACCEPTED"
  OBVIOUS
<1>3. QED
  BY <1>1, <1>2 DEF EndsOnce

LEMMA RevisionNumber ==
  ASSUME NEW n, NEW g, g \in Revisions(n) \/ g \in 1..n
  PROVE  g \in Int /\ g <= g
BY SMTT(30) DEF Revisions

CommandInvariant ==
  /\ HostInvariant
  /\ CommandTypeOK
  /\ \A c \in Commands : CommandRecorded(c)
  /\ ActiveLeaseBasis

-----------------------------------------------------------------------------
(***************************************************************************)
(* Steps of the composition are steps or stutters of the Host tables.      *)
(***************************************************************************)

\* No handler of a Command writes a Host table.
LEMMA CommandStepFrame ==
  ASSUME NEW c \in Commands, CommandStep(c)
  PROVE  UNCHANGED hostVars
<1>1. CreateExecutionCommand(c) => UNCHANGED hostVars
  BY DEF CreateExecutionCommand
<1>2. ASSUME NEW g, NEW s, AcquireCommandLease(c, g, s) PROVE UNCHANGED hostVars
  BY <1>2 DEF AcquireCommandLease
<1>3. LeaseElapses(c) \/ ExpireCommandLease(c) => UNCHANGED hostVars
  BY DEF LeaseElapses, ExpireCommandLease
<1>4. ASSUME NEW a, NEW g, NEW o, NEW v, AcceptAgentCommandResult(c, a, g, o, v)
      PROVE  UNCHANGED hostVars
  BY <1>4 DEF AcceptAgentCommandResult
<1>5. ASSUME NEW a, NEW g, NEW v, RejectStaleCommandResult(c, a, g) \/ BeginVerificationObservation(c, a, g, v)
      PROVE  UNCHANGED hostVars
  BY <1>5 DEF RejectStaleCommandResult, BeginVerificationObservation
<1>6. CommitVerificationObservation(c) \/ AbortVerificationObservation(c) => UNCHANGED hostVars
  BY DEF CommitVerificationObservation, AbortVerificationObservation
<1>7. AgentMessage(c) => UNCHANGED hostVars
  BY <1>4, <1>5 DEF AgentMessage
<1>8. QED
  BY <1>1, <1>2, <1>3, <1>6, <1>7 DEF CommandStep

LEMMA HostPart ==
  ASSUME [Next]_vars
  PROVE  [HostNext]_hostVars
<1>1. CASE HostStep
  BY <1>1 DEF HostStep, HostNext
<1>2. ASSUME NEW c \in Commands, CommandStep(c)
      PROVE  UNCHANGED hostVars
  BY <1>2, CommandStepFrame
<1>3. CASE UNCHANGED vars
  BY <1>3 DEF vars
<1>4. QED
  BY <1>1, <1>2, <1>3 DEF Next

-----------------------------------------------------------------------------
(***************************************************************************)
(* Type correctness                                                        *)
(***************************************************************************)

LEMMA LostTyped ==
  ASSUME CommandTypeOK, NEW lost \in SUBSET Commands, NEW reason \in {"EXPIRED", "FENCED"},
         MarkLeasesUnknown(lost, reason)
  PROVE  /\ command' \in [Commands -> CommandRows]
         /\ job' \in [Commands -> JobStates]
         /\ lease' \in [Commands -> LeaseRows]
         /\ events' \in [Commands -> [Attempts -> SUBSET EventTypes]]
<1>1. ASSUME NEW c \in Commands
      PROVE  /\ [command[c] EXCEPT !.state = "UNKNOWN"] \in CommandRows
             /\ [lease[c] EXCEPT !.state = reason] \in LeaseRows
  <2>1. command[c] \in CommandRows /\ lease[c] \in LeaseRows
    BY DEF CommandTypeOK
  <2>2. [command[c] EXCEPT !.state = "UNKNOWN"] \in CommandRows
    BY <2>1 DEF CommandRows, CommandStates
  <2>3. [lease[c] EXCEPT !.state = reason] \in LeaseRows
    BY <2>1 DEF LeaseRows
  <2>4. QED
    BY <2>2, <2>3
<1>2. ASSUME NEW c \in Commands
      PROVE  [events[c] EXCEPT ![lease[c].attempt] = @ \cup {"UNKNOWN"}] \in [Attempts -> SUBSET EventTypes]
  <2>1. events[c] \in [Attempts -> SUBSET EventTypes]
    BY DEF CommandTypeOK
  <2>2. \A a \in Attempts : events[c][a] \cup {"UNKNOWN"} \in SUBSET EventTypes
    BY <2>1 DEF EventTypes
  <2>3. QED
    BY <2>1, <2>2
<1>3. command' \in [Commands -> CommandRows]
  BY <1>1 DEF CommandTypeOK, MarkLeasesUnknown
<1>4. lease' \in [Commands -> LeaseRows]
  BY <1>1 DEF CommandTypeOK, MarkLeasesUnknown
<1>5. events' \in [Commands -> [Attempts -> SUBSET EventTypes]]
  BY <1>2 DEF CommandTypeOK, MarkLeasesUnknown
<1>6. job' \in [Commands -> JobStates]
  BY DEF CommandTypeOK, MarkLeasesUnknown, JobStates
<1>7. QED
  BY <1>3, <1>4, <1>5, <1>6

LEMMA HostStepTyped ==
  ASSUME CommandTypeOK, HostTypeOK', HostStep
  PROVE  CommandTypeOK'
<1>1. ASSUME NEW h \in Hosts, FenceHostCommandLeases(h)
      PROVE  CommandTypeOK'
  <2>1. ActiveLeasesOf(h) \in SUBSET Commands
    BY DEF ActiveLeasesOf
  <2>2. QED
    BY <1>1, <2>1, LostTyped DEF FenceHostCommandLeases, CommandTypeOK
<1>2. CASE UNCHANGED commandVars
  BY <1>2 DEF commandVars, CommandTypeOK
<1>3. QED
  BY <1>1, <1>2 DEF HostStep

LEMMA LeasingTyped ==
  ASSUME CommandTypeOK, HostTypeOK', NEW c \in Commands, CommandRecorded(c),
         \/ CreateExecutionCommand(c) \/ LeaseElapses(c) \/ ExpireCommandLease(c)
         \/ \E g \in 1..MaxArmed, s \in Scopes : AcquireCommandLease(c, g, s)
  PROVE  CommandTypeOK'
<1> USE CommandsAssumption, BoundsAssumption DEF CommandsAssumption, BoundsAssumption
<1>1. command[c] \in CommandRows /\ lease[c] \in LeaseRows
  BY DEF CommandTypeOK
<1>2. CASE CreateExecutionCommand(c)
  <2>1. [command[c] EXCEPT !.state = "PENDING"] \in CommandRows
    BY <1>1 DEF CommandRows, CommandStates
  <2>2. QED
    BY <1>2, <2>1 DEF CreateExecutionCommand, CommandTypeOK, JobStates
<1>3. CASE LeaseElapses(c)
  <2>1. [lease[c] EXCEPT !.elapsed = TRUE] \in LeaseRows
    BY <1>1 DEF LeaseRows
  <2>2. QED
    BY <1>3, <2>1 DEF LeaseElapses, CommandTypeOK
<1>4. CASE ExpireCommandLease(c)
  <2>1. {c} \in SUBSET Commands
    OBVIOUS
  <2>2. QED
    BY <1>4, <2>1, LostTyped DEF ExpireCommandLease, CommandTypeOK
<1>5. ASSUME NEW g \in 1..MaxArmed, NEW s \in Scopes, AcquireCommandLease(c, g, s)
      PROVE  CommandTypeOK'
  <2> DEFINE a == command[c].attempt + 1
  <2>1. a \in Attempts /\ a \in 0..MaxAttempts /\ g \in Revisions(MaxArmed)
        /\ lease[c].generation + 1 \in 0..MaxAttempts
    BY <1>1, <1>5, SMTT(30) DEF AcquireCommandLease, CommandRecorded, CommandRows, Attempts, Revisions
  <2>2. session[HostOf[c]].generation \in Revisions(MaxSession)
    BY DEF CommandTypeOK, HostTypeOK, SessionRows
  <2>3. lease' \in [Commands -> LeaseRows]
    BY <1>5, <2>1, <2>2 DEF AcquireCommandLease, CommandTypeOK, LeaseRows
  <2>4. command' \in [Commands -> CommandRows]
    BY <1>5, <2>1 DEF AcquireCommandLease, CommandTypeOK, CommandRows, CommandStates
  <2>5. events' \in [Commands -> [Attempts -> SUBSET EventTypes]]
    BY <1>5, <2>1, SMTT(30) DEF AcquireCommandLease, CommandTypeOK, EventTypes
  <2>6. QED
    BY <1>5, <2>3, <2>4, <2>5 DEF AcquireCommandLease, CommandTypeOK, JobStates
<1>6. QED
  BY <1>2, <1>3, <1>4, <1>5

LEMMA VerifiedTyped ==
  ASSUME NEW v
  PROVE  VerifiedState(v) \in CommandStates /\ JobOf(VerifiedState(v)) \in JobStates
BY DEF VerifiedState, JobOf, CommandStates, JobStates

LEMMA MessageTyped ==
  ASSUME CommandTypeOK, HostTypeOK', NEW c \in Commands, AgentMessage(c)
  PROVE  CommandTypeOK'
<1> USE CommandsAssumption DEF CommandsAssumption
<1>1. PICK a \in Attempts, g \in 1..MaxSession :
        \/ \E o \in ReportedOutcomes, v \in Observations : AcceptAgentCommandResult(c, a, g, o, v)
        \/ RejectStaleCommandResult(c, a, g)
        \/ \E v \in Observations : BeginVerificationObservation(c, a, g, v)
  BY DEF AgentMessage
<1>2. command[c] \in CommandRows /\ lease[c] \in LeaseRows
  BY DEF CommandTypeOK
<1>3. ASSUME NEW o \in ReportedOutcomes, NEW v \in Observations, AcceptAgentCommandResult(c, a, g, o, v)
      PROVE  CommandTypeOK'
  <2> DEFINE s == IF o = "FAILED" THEN "FAILED" ELSE VerifiedState(v)
  <2>1. s \in CommandStates /\ JobOf(s) \in JobStates
    BY VerifiedTyped DEF CommandStates, JobOf, JobStates
  <2> HIDE DEF s
  <2>2. command' = [command EXCEPT ![c].state = s] /\ job' = [job EXCEPT ![c] = JobOf(s)]
    BY <1>3 DEF AcceptAgentCommandResult, s
  <2>3. [command[c] EXCEPT !.state = s] \in CommandRows
    BY <1>2, <2>1 DEF CommandRows
  <2>4. command' \in [Commands -> CommandRows] /\ job' \in [Commands -> JobStates]
    BY <2>1, <2>2, <2>3 DEF CommandTypeOK
  <2>5. [lease[c] EXCEPT !.state = "CONSUMED"] \in LeaseRows
    BY <1>2 DEF LeaseRows
  <2>6. lease' \in [Commands -> LeaseRows]
    BY <1>3, <2>5 DEF AcceptAgentCommandResult, CommandTypeOK
  <2>7. events' \in [Commands -> [Attempts -> SUBSET EventTypes]]
    BY <1>3, SMTT(30) DEF AcceptAgentCommandResult, CommandTypeOK, EventTypes
  <2>8. result' \in [Commands -> [Attempts -> Outcomes \cup {"NONE"}]]
    BY <1>3 DEF AcceptAgentCommandResult, CommandTypeOK
  <2>9. evidence' \in [Commands -> [Sources -> [Attempts -> VerificationStates \cup {"NONE"}]]]
    BY <1>3, SMTT(30) DEF AcceptAgentCommandResult, CommandTypeOK, Sources
  <2>10. receipt' \in [Commands -> [Sources -> [Attempts -> {"NONE", "ACCEPTED", "STALE"}]]]
    BY <1>3 DEF AcceptAgentCommandResult, CommandTypeOK, Sources
  <2>11. QED
    BY <1>3, <2>4, <2>6, <2>7, <2>8, <2>9, <2>10 DEF AcceptAgentCommandResult, CommandTypeOK
<1>4. CASE RejectStaleCommandResult(c, a, g)
  <2>1. events' \in [Commands -> [Attempts -> SUBSET EventTypes]]
    BY <1>4, SMTT(30) DEF RejectStaleCommandResult, CommandTypeOK, EventTypes
  <2>2. receipt' \in [Commands -> [Sources -> [Attempts -> {"NONE", "ACCEPTED", "STALE"}]]]
    BY <1>4 DEF RejectStaleCommandResult, CommandTypeOK, Sources
  <2>3. QED
    BY <1>4, <2>1, <2>2 DEF RejectStaleCommandResult, CommandTypeOK
<1>5. ASSUME NEW v \in Observations, BeginVerificationObservation(c, a, g, v)
      PROVE  CommandTypeOK'
  <2>1. [attempt |-> a, session |-> g, state |-> v] \in ObservationRows
    BY BoundsAssumption, SMTT(30) DEF BoundsAssumption, ObservationRows, Attempts, Revisions
  <2>2. QED
    BY <1>5, <2>1 DEF BeginVerificationObservation, CommandTypeOK
<1>6. QED
  BY <1>1, <1>3, <1>4, <1>5

LEMMA ObservationTyped ==
  ASSUME CommandTypeOK, HostTypeOK', NEW c \in Commands, CommandRecorded(c),
         CommitVerificationObservation(c) \/ AbortVerificationObservation(c)
  PROVE  CommandTypeOK'
<1> USE CommandsAssumption, BoundsAssumption DEF CommandsAssumption, BoundsAssumption
<1> DEFINE o == observing[c]
<1>1. NoObservation \in ObservationRows
  BY SMTT(30) DEF NoObservation, ObservationRows, Revisions
<1>2. CASE AbortVerificationObservation(c)
  BY <1>1, <1>2 DEF AbortVerificationObservation, CommandTypeOK
<1>3. CASE CommitVerificationObservation(c)
  <2>1. o \in ObservationRows /\ command[c] \in CommandRows
    BY DEF CommandTypeOK
  <2>2. [command[c] EXCEPT !.state = VerifiedState(o.state)] \in CommandRows
    BY <2>1, VerifiedTyped DEF CommandRows
  <2>3. command' \in [Commands -> CommandRows] /\ job' \in [Commands -> JobStates]
    BY <1>3, <2>2, VerifiedTyped DEF CommitVerificationObservation, CommandTypeOK
  <2>4. o.state \in VerificationStates \cup {"NONE"}
    BY <2>1 DEF ObservationRows
  <2>5. evidence' \in [Commands -> [Sources -> [Attempts -> VerificationStates \cup {"NONE"}]]]
    BY <1>3, <2>4 DEF CommitVerificationObservation, CommandTypeOK, Sources
  <2>6. receipt' \in [Commands -> [Sources -> [Attempts -> {"NONE", "ACCEPTED", "STALE"}]]]
    BY <1>3 DEF CommitVerificationObservation, CommandTypeOK, Sources
  <2>7. observing' \in [Commands -> ObservationRows]
    BY <1>1, <1>3 DEF CommitVerificationObservation, CommandTypeOK
  <2>8. QED
    BY <1>3, <2>3, <2>5, <2>6, <2>7 DEF CommitVerificationObservation, CommandTypeOK
<1>4. QED
  BY <1>2, <1>3

-----------------------------------------------------------------------------
(***************************************************************************)
(* The records of one Command                                              *)
(***************************************************************************)

RecordsOf(c) == <<command[c], lease[c], events[c], result[c], evidence[c], receipt[c], observing[c]>>

\* What AttemptRecorded reads of one Attempt.
AttemptRows(c, a) == <<command[c], events[c][a], result[c][a], evidence[c]["result"][a],
                       evidence[c]["resync"][a], receipt[c]["result"][a], receipt[c]["resync"][a]>>

LEMMA AttemptFrame ==
  ASSUME NEW c, NEW a, AttemptRecorded(c, a), AttemptRows(c, a)' = AttemptRows(c, a)
  PROVE  AttemptRecorded(c, a)'
BY SMTT(30) DEF AttemptRecorded, AttemptRows, EndsOnce, Shown, Undecided, Sources

LEMMA RecordsFrame ==
  ASSUME NEW c, CommandRecorded(c), RecordsOf(c)' = RecordsOf(c)
  PROVE  CommandRecorded(c)'
<1>1. ASSUME NEW a \in Attempts PROVE AttemptRecorded(c, a)'
  <2>1. AttemptRecorded(c, a)
    BY DEF CommandRecorded
  <2>2. AttemptRows(c, a)' = AttemptRows(c, a)
    BY DEF RecordsOf, AttemptRows
  <2>3. QED
    BY <2>1, <2>2, AttemptFrame
<1>2. QED
  BY <1>1 DEF CommandRecorded, RecordsOf

\* A step of one Command leaves the records of every other Command alone.
LEMMA OtherCommands ==
  ASSUME CommandTypeOK, NEW c \in Commands, NEW d \in Commands, d # c, CommandStep(c)
  PROVE  RecordsOf(d)' = RecordsOf(d)
<1>1. ASSUME NEW reason, MarkLeasesUnknown({c}, reason)
      PROVE  lease'[d] = lease[d] /\ events'[d] = events[d] /\ command'[d] = command[d]
  BY <1>1 DEF MarkLeasesUnknown
<1>2. CASE CreateExecutionCommand(c) \/ LeaseElapses(c) \/ ExpireCommandLease(c)
           \/ \E g \in 1..MaxArmed, s \in Scopes : AcquireCommandLease(c, g, s)
  BY <1>1, <1>2, SMTT(30) DEF RecordsOf, CommandTypeOK, CreateExecutionCommand, LeaseElapses,
     ExpireCommandLease, AcquireCommandLease
<1>3. ASSUME NEW a, NEW g, NEW o, NEW v, AcceptAgentCommandResult(c, a, g, o, v)
      PROVE  RecordsOf(d)' = RecordsOf(d)
  BY <1>3 DEF RecordsOf, CommandTypeOK, AcceptAgentCommandResult
<1>4. ASSUME NEW a, NEW g, NEW v, RejectStaleCommandResult(c, a, g) \/ BeginVerificationObservation(c, a, g, v)
      PROVE  RecordsOf(d)' = RecordsOf(d)
  BY <1>4 DEF RecordsOf, CommandTypeOK, RejectStaleCommandResult, BeginVerificationObservation
<1>5. CASE CommitVerificationObservation(c) \/ AbortVerificationObservation(c)
  BY <1>5 DEF RecordsOf, CommandTypeOK, CommitVerificationObservation, AbortVerificationObservation
<1>6. CASE AgentMessage(c)
  BY <1>3, <1>4, <1>6 DEF AgentMessage
<1>7. QED
  BY <1>2, <1>5, <1>6 DEF CommandStep

\* Losing Leases ends exactly the open Attempts of the Commands that had one.
LEMMA LostRecorded ==
  ASSUME CommandTypeOK, NEW d \in Commands, CommandRecorded(d),
         NEW lost \in SUBSET Commands, \A c \in lost : lease[c].state = "ACTIVE",
         NEW reason \in {"EXPIRED", "FENCED"}, MarkLeasesUnknown(lost, reason),
         UNCHANGED <<result, evidence, receipt, observing>>
  PROVE  CommandRecorded(d)'
<1>1. CASE d \notin lost
  BY <1>1, RecordsFrame DEF MarkLeasesUnknown, RecordsOf
<1>2. CASE d \in lost
  <2> DEFINE a == lease[d].attempt
  <2>1. /\ command[d].state = "LEASED" /\ command[d].attempt = a /\ lease[d].generation = a
        /\ lease[d].state = "ACTIVE" /\ observing[d] = NoObservation
    BY <1>2 DEF CommandRecorded
  <2>2. a \in Attempts
    BY <2>1, SMTT(30) DEF CommandRecorded, CommandTypeOK, CommandRows, Attempts
  <2>3. command[d] \in CommandRows /\ lease[d] \in LeaseRows
    BY DEF CommandTypeOK
  <2>4. /\ command'[d].state = "UNKNOWN" /\ command'[d].attempt = a
        /\ lease'[d].state = reason /\ lease'[d].attempt = a /\ lease'[d].generation = a
    BY <1>2, <2>1, <2>3 DEF MarkLeasesUnknown, CommandRows, LeaseRows
  <2>5. events'[d] = [events[d] EXCEPT ![a] = @ \cup {"UNKNOWN"}]
    BY <1>2 DEF MarkLeasesUnknown
  <2>6. events[d] \in [Attempts -> SUBSET EventTypes]
    BY DEF CommandTypeOK
  <2>7. ASSUME NEW b \in Attempts PROVE AttemptRecorded(d, b)'
    <3>1. AttemptRecorded(d, b)
      BY DEF CommandRecorded
    <3>2. CASE b = a
      <4>1. events'[d][b] = events[d][b] \cup {"UNKNOWN"}
        BY <2>2, <2>5, <2>6, <3>2
      <4>2. result[d][b] = "NONE" /\ \A s \in Sources : evidence[d][s][b] = "NONE"
        BY <2>1, <3>1, <3>2 DEF AttemptRecorded
      <4>3. EndsOnce(d, b)'
        <5>1. "RESULT_ACCEPTED" \notin events[d][b] /\ "UNKNOWN" \notin events[d][b]
          BY <2>1, <3>1, <3>2, LeasedGoesOn DEF AttemptRecorded
        <5>2. events'[d][b] \cap {"RESULT_ACCEPTED", "UNKNOWN"} = {"UNKNOWN"}
          BY <4>1, <5>1
        <5>3. QED
          BY <2>4, <4>2, <5>2, EndedNow
      <4>4. ~Shown(d, b, "MATCHED")' /\ ~Shown(d, b, "NOT_APPLIED")'
        BY <4>2 DEF Shown
      <4>5. command'[d].attempt = b /\ ~(b < b) /\ ~(b > b)
        BY <2>2, <2>4, <3>2, AttemptNumber
      <4>6. QED
        BY <2>4, <3>1, <4>2, <4>3, <4>4, <4>5 DEF AttemptRecorded, Undecided, Sources
    <3>3. CASE b # a
      <4>1. events'[d][b] = events[d][b]
        BY <2>5, <2>6, <3>3
      <4>2. EndsOnce(d, b)'
        BY <2>1, <2>4, <3>1, <3>3, <4>1 DEF AttemptRecorded, EndsOnce
      <4>3. QED
        BY <2>1, <2>4, <3>1, <3>3, <4>1, <4>2 DEF AttemptRecorded, Shown, Sources
    <3>4. QED
      BY <3>2, <3>3
  <2>8. a # 0
    BY <2>2, AttemptNumber
  <2>9. QED
    BY <2>1, <2>4, <2>7, <2>8 DEF CommandRecorded
<1>3. QED
  BY <1>1, <1>2

LEMMA CreateRecorded ==
  ASSUME CommandTypeOK, NEW c \in Commands, CommandRecorded(c), CreateExecutionCommand(c)
  PROVE  CommandRecorded(c)'
<1>1. command[c] \in CommandRows
  BY DEF CommandTypeOK
<1>2. /\ command[c].state = "NONE" /\ command[c].attempt = 0
      /\ command'[c].state = "PENDING" /\ command'[c].attempt = 0
      /\ UNCHANGED <<lease, events, result, evidence, receipt, observing>>
  BY <1>1 DEF CreateExecutionCommand, CommandRecorded, CommandTypeOK, CommandRows
<1>3. ASSUME NEW a \in Attempts PROVE AttemptRecorded(c, a)'
  <2>1. AttemptRecorded(c, a)
    BY DEF CommandRecorded
  <2>2. ~(a <= 0) /\ a # 0
    BY AttemptNumber
  <2>3. EndsOnce(c, a)'
    BY <1>2, <2>1, <2>2 DEF AttemptRecorded, EndsOnce
  <2>4. QED
    BY <1>2, <2>1, <2>2, <2>3 DEF AttemptRecorded, Shown
<1>4. QED
  BY <1>2, <1>3 DEF CommandRecorded

LEMMA ElapseRecorded ==
  ASSUME CommandTypeOK, NEW c \in Commands, CommandRecorded(c), LeaseElapses(c)
  PROVE  CommandRecorded(c)'
<1>1. lease[c] \in LeaseRows
  BY DEF CommandTypeOK
<1>2. /\ lease'[c].state = lease[c].state /\ lease'[c].attempt = lease[c].attempt
      /\ lease'[c].generation = lease[c].generation
      /\ UNCHANGED <<command, events, result, evidence, receipt, observing>>
  BY <1>1 DEF LeaseElapses, CommandTypeOK, LeaseRows
<1>3. ASSUME NEW a \in Attempts PROVE AttemptRecorded(c, a)'
  BY <1>2, AttemptFrame DEF CommandRecorded, AttemptRows
<1>4. QED
  BY <1>2, <1>3 DEF CommandRecorded

\* A grant opens the next Attempt, about which nothing is recorded yet.
LEMMA AcquireRecorded ==
  ASSUME CommandTypeOK, NEW c \in Commands, CommandRecorded(c), NEW g, NEW scope,
         AcquireCommandLease(c, g, scope)
  PROVE  CommandRecorded(c)'
<1> DEFINE a == command[c].attempt + 1
<1>1. /\ command[c].attempt \in Nat /\ a \in Attempts /\ a \in Nat
  BY CommandsAssumption, SMTT(30) DEF CommandsAssumption, CommandTypeOK, CommandRows, AcquireCommandLease, Attempts
<1>2. /\ command[c].state \in {"PENDING", "REDISPATCHABLE"}
      /\ command[c].state = "PENDING" => command[c].attempt = 0
      /\ observing[c] = NoObservation
      /\ lease[c].generation = command[c].attempt
  BY DEF AcquireCommandLease, LeasableStates, CommandRecorded
<1>3. /\ command'[c].state = "LEASED" /\ command'[c].attempt = a
      /\ lease'[c].state = "ACTIVE" /\ lease'[c].attempt = a /\ lease'[c].generation = a
      /\ UNCHANGED <<result, evidence, receipt, observing>>
  BY <1>2 DEF AcquireCommandLease, CommandTypeOK
<1>4. events'[c] = [events[c] EXCEPT ![a] = @ \cup {"LEASED"}] /\ events[c] \in [Attempts -> SUBSET EventTypes]
  BY DEF AcquireCommandLease, CommandTypeOK
<1>5. ASSUME NEW b \in Attempts PROVE AttemptRecorded(c, b)'
  <2>1. AttemptRecorded(c, b) /\ b \in Nat /\ b > 0
    BY CommandsAssumption, SMTT(30) DEF CommandsAssumption, CommandRecorded, Attempts
  <2>2. CASE b = a
    <3>1. events[c][b] = {} /\ result[c][b] = "NONE" /\ \A s \in Sources : evidence[c][s][b] = "NONE"
      BY <1>1, <2>1, <2>2, SMTT(30) DEF AttemptRecorded
    <3>2. events'[c][b] = {"LEASED"}
      BY <1>1, <1>4, <2>2, <3>1
    <3>3. EndsOnce(c, b)'
      BY <1>1, <1>3, <2>2, <3>1, <3>2 DEF EndsOnce
    <3>4. ~Shown(c, b, "MATCHED")' /\ ~Shown(c, b, "NOT_APPLIED")'
      BY <1>3, <3>1 DEF Shown
    <3>5. /\ command'[c].attempt = b /\ command'[c].state = "LEASED" /\ ~(b > b) /\ ~(b < b)
          /\ result'[c][b] = "NONE" /\ \A s \in Sources : evidence'[c][s][b] = "NONE"
      BY <1>1, <1>3, <2>2, <3>1, SMTT(30)
    <3>6. /\ evidence'[c]["resync"][b] = "NONE" <=> receipt'[c]["resync"][b] = "NONE"
          /\ evidence'[c]["result"][b] = "NONE"
      BY <1>3, <2>1, <3>1 DEF AttemptRecorded, Sources
    <3>7. QED
      BY <3>3, <3>4, <3>5, <3>6 DEF AttemptRecorded
  <2>3. CASE b # a
    <3>1. events'[c][b] = events[c][b]
      BY <1>4, <2>3
    <3>2. (b <= a <=> b <= command[c].attempt) /\ (b > a => b > command[c].attempt)
          /\ (b < a <=> b < command[c].attempt \/ b = command[c].attempt)
      BY <1>1, <2>1, <2>3, SMTT(30)
    <3>3. EndsOnce(c, b)'
      BY <1>2, <1>3, <2>1, <2>3, <3>1, <3>2 DEF AttemptRecorded, EndsOnce
    <3>4. \A v : Shown(c, b, v)' <=> Shown(c, b, v)
      BY <1>3 DEF Shown
    <3>5. b < a => Shown(c, b, "NOT_APPLIED")
      BY <1>2, <2>1, <3>2 DEF AttemptRecorded
    <3>6. QED
      BY <1>3, <2>1, <2>3, <3>1, <3>2, <3>3, <3>4, <3>5 DEF AttemptRecorded, Sources
  <2>4. QED
    BY <2>2, <2>3
<1>6. a # 0
  BY <1>1, SMTT(30)
<1>7. QED
  BY <1>2, <1>3, <1>5, <1>6 DEF CommandRecorded

\* An accepted Result ends the open Attempt and the attached read-back decides.
LEMMA AcceptRecorded ==
  ASSUME CommandTypeOK, NEW c \in Commands, CommandRecorded(c), NEW a \in Attempts, NEW g,
         NEW o \in ReportedOutcomes, NEW v \in Observations, AcceptAgentCommandResult(c, a, g, o, v)
  PROVE  CommandRecorded(c)'
<1> DEFINE s == IF o = "FAILED" THEN "FAILED" ELSE VerifiedState(v)
           seen == IF o = "FAILED" THEN "NONE" ELSE v
<1>1. /\ command[c].state = "LEASED" /\ command[c].attempt = a /\ lease[c].state = "ACTIVE"
      /\ lease[c].attempt = a /\ lease[c].generation = a /\ observing[c] = NoObservation
  BY DEF AcceptAgentCommandResult, ValidateActiveLease, CommandRecorded
<1>2. command[c] \in CommandRows /\ lease[c] \in LeaseRows
  BY DEF CommandTypeOK
<1>3. command'[c].state = s /\ command'[c].attempt = a
  BY <1>1, <1>2 DEF AcceptAgentCommandResult, CommandTypeOK, CommandRows
<1>4. lease'[c].state = "CONSUMED" /\ lease'[c].attempt = a /\ lease'[c].generation = a
  BY <1>1, <1>2 DEF AcceptAgentCommandResult, CommandTypeOK, LeaseRows
<1>5. result[c][a] = "NONE" /\ \A x \in Sources : evidence[c][x][a] = "NONE"
  BY <1>1 DEF CommandRecorded, AttemptRecorded
<1>6. /\ events'[c] = [events[c] EXCEPT ![a] = @ \cup {"JOURNALED", "RESULT_ACCEPTED"}]
      /\ events[c] \in [Attempts -> SUBSET EventTypes]
      /\ result'[c] = [result[c] EXCEPT ![a] = o]
      /\ result[c] \in [Attempts -> Outcomes \cup {"NONE"}]
  BY DEF AcceptAgentCommandResult, CommandTypeOK
<1>7. \A x \in Sources : /\ evidence[c][x] \in [Attempts -> VerificationStates \cup {"NONE"}]
                          /\ receipt[c][x] \in [Attempts -> {"NONE", "ACCEPTED", "STALE"}]
  BY SMTT(30) DEF CommandTypeOK
<1>8. /\ evidence'[c]["result"] = [evidence[c]["result"] EXCEPT ![a] = seen]
      /\ evidence'[c]["resync"] = evidence[c]["resync"]
  <2>1. evidence \in [Commands -> [Sources -> [Attempts -> VerificationStates \cup {"NONE"}]]]
    BY DEF CommandTypeOK
  <2>2. evidence[c]["result"][a] = "NONE"
    BY <1>5 DEF Sources
  <2>3. evidence' = [evidence EXCEPT ![c]["result"][a] = IF o = "FAILED" THEN @ ELSE v]
    BY DEF AcceptAgentCommandResult
  <2>4. (IF o = "FAILED" THEN evidence[c]["result"][a] ELSE v) = seen
    BY <2>2
  <2>5. evidence'[c] = [evidence[c] EXCEPT !["result"][a] = IF o = "FAILED" THEN @ ELSE v]
    BY <2>1, <2>3
  <2>6. evidence'[c]["result"] = [evidence[c]["result"] EXCEPT ![a] = IF o = "FAILED" THEN @ ELSE v]
    BY <2>1, <2>5, SMTT(30) DEF Sources
  <2>7. evidence'[c]["resync"] = evidence[c]["resync"]
    BY <2>1, <2>5, SMTT(30) DEF Sources
  <2>8. QED
    BY <2>4, <2>6, <2>7
<1>9. /\ receipt'[c]["result"] = [receipt[c]["result"] EXCEPT ![a] = "ACCEPTED"]
      /\ receipt'[c]["resync"] = receipt[c]["resync"]
  BY DEF AcceptAgentCommandResult, CommandTypeOK, Sources
<1>10. o \in Outcomes /\ v \in VerificationStates
  BY CommandsAssumption DEF CommandsAssumption
<1>11. ASSUME NEW b \in Attempts PROVE AttemptRecorded(c, b)'
  <2>1. AttemptRecorded(c, b) /\ b \in Nat
    BY AttemptNumber DEF CommandRecorded
  <2>2. CASE b = a
    <3>1. /\ events'[c][b] = events[c][b] \cup {"JOURNALED", "RESULT_ACCEPTED"}
          /\ result'[c][b] = o
          /\ evidence'[c]["result"][b] = seen /\ evidence'[c]["resync"][b] = "NONE"
          /\ receipt'[c]["result"][b] = "ACCEPTED" /\ receipt'[c]["resync"][b] = receipt[c]["resync"][b]
      BY <1>5, <1>6, <1>8, <1>9, <1>7, <2>2, SMTT(30) DEF Sources
    <3>2. EndsOnce(c, b)'
      <4>1. "RESULT_ACCEPTED" \notin events[c][b] /\ "UNKNOWN" \notin events[c][b]
        BY <1>1, <2>1, <2>2, LeasedGoesOn DEF AttemptRecorded
      <4>2. events'[c][b] \cap {"RESULT_ACCEPTED", "UNKNOWN"} = {"RESULT_ACCEPTED"}
        BY <3>1, <4>1
      <4>3. s # "LEASED" /\ o # "NONE"
        BY <1>10 DEF VerifiedState, Outcomes
      <4>4. QED
        BY <1>3, <3>1, <4>2, <4>3, EndedNow
    <3>3. \A w \in VerificationStates : Shown(c, b, w)' <=> seen = w
      BY <1>10, <3>1 DEF Shown, Sources, VerificationStates
    <3>4. Shown(c, b, "MATCHED")' => s = "SUCCEEDED"
      BY <1>10, <3>3 DEF VerifiedState, VerificationStates
    <3>5. /\ s = "REDISPATCHABLE" => Shown(c, b, "NOT_APPLIED")'
          /\ s = "SUCCEEDED" => Shown(c, b, "MATCHED")'
          /\ s = "UNKNOWN" => ~Shown(c, b, "MATCHED")' /\ ~Shown(c, b, "NOT_APPLIED")' /\ o # "FAILED"
          /\ ~(Shown(c, b, "MATCHED")' /\ Shown(c, b, "NOT_APPLIED")')
          /\ s # "LEASED"
      BY <1>10, <3>3 DEF VerifiedState, VerificationStates
    <3>6. command'[c].attempt = b /\ ~(b < b) /\ ~(b > b)
      BY <1>3, <2>1, <2>2, AttemptNumber
    <3>7. evidence[c]["resync"][b] = "NONE"
      BY <1>5, <2>2 DEF Sources
    <3>8. QED
      BY <1>3, <2>1, <3>1, <3>2, <3>5, <3>6, <3>7 DEF AttemptRecorded, Undecided
  <2>3. CASE b # a
    <3>1. events'[c][b] = events[c][b] /\ result'[c][b] = result[c][b]
      BY <1>6, <2>3
    <3>2. \A x \in Sources : evidence'[c][x][b] = evidence[c][x][b] /\ receipt'[c][x][b] = receipt[c][x][b]
      <4>1. evidence'[c]["result"][b] = evidence[c]["result"][b] /\ receipt'[c]["result"][b] = receipt[c]["result"][b]
        <5>1. /\ evidence[c]["result"] \in [Attempts -> VerificationStates \cup {"NONE"}]
              /\ receipt[c]["result"] \in [Attempts -> {"NONE", "ACCEPTED", "STALE"}]
          BY <1>7 DEF Sources
        <5>2. QED
          BY <1>8, <1>9, <2>3, <5>1
      <4>2. evidence'[c]["resync"][b] = evidence[c]["resync"][b] /\ receipt'[c]["resync"][b] = receipt[c]["resync"][b]
        BY <1>8, <1>9
      <4>3. QED
        BY <4>1, <4>2 DEF Sources
    <3>3. EndsOnce(c, b)'
      BY <1>1, <1>3, <2>1, <2>3, <3>1, <3>2 DEF AttemptRecorded, EndsOnce
    <3>4. \A w : Shown(c, b, w)' <=> Shown(c, b, w)
      BY <3>2 DEF Shown
    <3>5. QED
      BY <1>1, <1>3, <2>1, <2>3, <3>1, <3>2, <3>3, <3>4 DEF AttemptRecorded, Sources
  <2>4. QED
    BY <2>2, <2>3
<1>12. s \notin {"NONE", "PENDING", "LEASED"} /\ a # 0
  BY AttemptNumber DEF VerifiedState
<1>13. UNCHANGED observing
  BY DEF AcceptAgentCommandResult
<1>14. QED
  BY <1>1, <1>3, <1>4, <1>11, <1>12, <1>13 DEF CommandRecorded

LEMMA RejectRecorded ==
  ASSUME CommandTypeOK, NEW c \in Commands, CommandRecorded(c), NEW a \in Attempts, NEW g,
         RejectStaleCommandResult(c, a, g)
  PROVE  CommandRecorded(c)'
<1>1. /\ events'[c] = [events[c] EXCEPT ![a] = @ \cup {"STALE_RESULT_REJECTED"}]
      /\ events[c] \in [Attempts -> SUBSET EventTypes]
      /\ receipt'[c]["result"] = [receipt[c]["result"] EXCEPT ![a] = "STALE"]
      /\ receipt'[c]["resync"] = receipt[c]["resync"]
      /\ receipt[c]["result"] \in [Attempts -> {"NONE", "ACCEPTED", "STALE"}]
      /\ UNCHANGED <<command, lease, result, evidence, observing>>
  BY SMTT(30) DEF RejectStaleCommandResult, CommandTypeOK, Sources
<1>2. a <= command[c].attempt
  BY DEF RejectStaleCommandResult, ResultIsLate
<1>3. ASSUME NEW b \in Attempts PROVE AttemptRecorded(c, b)'
  <2>1. AttemptRecorded(c, b) /\ a \in Int /\ command[c].attempt \in Int
    BY SMTT(30) DEF CommandRecorded, CommandTypeOK, CommandRows, Attempts
  <2>2. /\ events'[c][b] = events[c][b] \/ events'[c][b] = events[c][b] \cup {"STALE_RESULT_REJECTED"}
        /\ events'[c][b] = events[c][b] \/ b = a
        /\ receipt[c]["result"][b] # "NONE" => receipt'[c]["result"][b] # "NONE"
    BY <1>1
  <2>3. EndsOnce(c, b)'
    BY <1>1, <2>1, <2>2 DEF AttemptRecorded, EndsOnce
  <2>4. \A v : Shown(c, b, v)' <=> Shown(c, b, v)
    BY <1>1 DEF Shown
  <2>5. b > command[c].attempt => events'[c][b] = {}
    BY <1>2, <2>1, <2>2, SMTT(30) DEF AttemptRecorded
  <2>6. QED
    BY <1>1, <2>1, <2>2, <2>3, <2>4, <2>5 DEF AttemptRecorded, Undecided
<1>4. QED
  BY <1>1, <1>3 DEF CommandRecorded

LEMMA BeginRecorded ==
  ASSUME CommandTypeOK, NEW c \in Commands, CommandRecorded(c), NEW a \in Attempts, NEW g,
         NEW v \in Observations, BeginVerificationObservation(c, a, g, v)
  PROVE  CommandRecorded(c)'
<1>1. /\ UNCHANGED <<command, lease, events, result, evidence, receipt>>
      /\ command[c].state = "UNKNOWN" /\ command[c].attempt = a
      /\ receipt[c]["resync"][a] = "NONE"
      /\ observing'[c].attempt = a /\ observing'[c].state = v
  BY SMTT(30) DEF BeginVerificationObservation, CommandTypeOK
<1>2. v \in VerificationStates
  BY CommandsAssumption DEF CommandsAssumption
<1>3. ASSUME NEW b \in Attempts PROVE AttemptRecorded(c, b)'
  BY <1>1, AttemptFrame DEF CommandRecorded, AttemptRows
<1>4. QED
  BY <1>1, <1>2, <1>3 DEF CommandRecorded

LEMMA AbortRecorded ==
  ASSUME CommandTypeOK, NEW c \in Commands, CommandRecorded(c), AbortVerificationObservation(c)
  PROVE  CommandRecorded(c)'
<1>1. UNCHANGED <<command, lease, events, result, evidence, receipt>> /\ observing'[c] = NoObservation
  BY DEF AbortVerificationObservation, CommandTypeOK
<1>2. ASSUME NEW b \in Attempts PROVE AttemptRecorded(c, b)'
  BY <1>1, AttemptFrame DEF CommandRecorded, AttemptRows
<1>3. QED
  BY <1>1, <1>2 DEF CommandRecorded

\* A committed observation decides an Attempt that was undecided.
LEMMA CommitRecorded ==
  ASSUME CommandTypeOK, NEW c \in Commands, CommandRecorded(c), CommitVerificationObservation(c)
  PROVE  CommandRecorded(c)'
<1> DEFINE a == command[c].attempt
           v == observing[c].state
<1>1. /\ command[c].state = "UNKNOWN" /\ observing[c].attempt = a /\ v \in VerificationStates
      /\ receipt[c]["resync"][a] = "NONE" /\ lease[c].state # "ACTIVE"
  BY DEF CommitVerificationObservation, CommandRecorded
<1>2. a \in Attempts /\ command[c] \in CommandRows
  BY <1>1, SMTT(30) DEF CommandRecorded, CommandTypeOK, CommandRows, Attempts
<1>3. command'[c].state = VerifiedState(v) /\ command'[c].attempt = a
  BY <1>2 DEF CommitVerificationObservation, CommandTypeOK, CommandRows
<1>4. /\ UNCHANGED <<lease, events, result>> /\ observing'[c] = NoObservation
      /\ evidence'[c]["resync"] = [evidence[c]["resync"] EXCEPT ![a] = v]
      /\ evidence'[c]["result"] = evidence[c]["result"]
      /\ receipt'[c]["result"] = receipt[c]["result"]
      /\ evidence[c]["resync"] \in [Attempts -> VerificationStates \cup {"NONE"}]
      /\ receipt[c]["resync"] \in [Attempts -> {"NONE", "ACCEPTED", "STALE"}]
  BY <1>1, SMTT(30) DEF CommitVerificationObservation, CommandTypeOK, Sources
<1>5. \E r \in {"ACCEPTED", "STALE"} : receipt'[c]["resync"] = [receipt[c]["resync"] EXCEPT ![a] = r]
  BY <1>1 DEF CommitVerificationObservation, CommandTypeOK, Sources
<1>6. ASSUME NEW b \in Attempts PROVE AttemptRecorded(c, b)'
  <2>1. AttemptRecorded(c, b) /\ b \in Nat
    BY AttemptNumber DEF CommandRecorded
  <2>2. CASE b = a
    <3>1. /\ evidence'[c]["resync"][b] = v /\ v # "NONE"
          /\ receipt'[c]["resync"][b] # "NONE"
          /\ evidence[c]["resync"][b] = "NONE"
      BY <1>1, <1>2, <1>4, <1>5, <2>1, <2>2 DEF AttemptRecorded, VerificationStates
    <3>2. ~Shown(c, b, "MATCHED") /\ ~Shown(c, b, "NOT_APPLIED") /\ result[c][b] # "FAILED"
      BY <1>1, <2>1, <2>2 DEF AttemptRecorded, Undecided
    <3>3. /\ Shown(c, b, "MATCHED")' <=> v = "MATCHED"
          /\ Shown(c, b, "NOT_APPLIED")' <=> v = "NOT_APPLIED"
      BY <1>4, <3>1, <3>2, SMTT(30) DEF Shown, Sources
    <3>4. EndsOnce(c, b)'
      BY <1>1, <1>3, <1>4, <2>1, <2>2 DEF AttemptRecorded, EndsOnce, VerifiedState
    <3>5. command'[c].attempt = b /\ ~(b < b) /\ ~(b > b) /\ VerifiedState(v) # "LEASED"
      BY <1>3, <2>1, <2>2, AttemptNumber DEF VerifiedState
    <3>6. /\ VerifiedState(v) = "REDISPATCHABLE" => v = "NOT_APPLIED"
          /\ VerifiedState(v) = "SUCCEEDED" => v = "MATCHED"
          /\ VerifiedState(v) = "UNKNOWN" => v \notin {"MATCHED", "NOT_APPLIED"}
      BY DEF VerifiedState
    <3>7. QED
      BY <1>3, <1>4, <2>1, <3>1, <3>2, <3>3, <3>4, <3>5, <3>6 DEF AttemptRecorded, Undecided
  <2>3. CASE b # a
    <3>1. \A x \in Sources : evidence'[c][x][b] = evidence[c][x][b] /\ receipt'[c][x][b] = receipt[c][x][b]
      <4>1. evidence'[c]["resync"][b] = evidence[c]["resync"][b]
        BY <1>4, <2>3
      <4>2. receipt'[c]["resync"][b] = receipt[c]["resync"][b]
        BY <1>4, <1>5, <2>3
      <4>3. evidence'[c]["result"][b] = evidence[c]["result"][b] /\ receipt'[c]["result"][b] = receipt[c]["result"][b]
        BY <1>4
      <4>4. QED
        BY <4>1, <4>2, <4>3 DEF Sources
    <3>2. EndsOnce(c, b)'
      BY <1>1, <1>3, <1>4, <2>1, <2>3 DEF AttemptRecorded, EndsOnce
    <3>3. \A w : Shown(c, b, w)' <=> Shown(c, b, w)
      BY <3>1 DEF Shown
    <3>4. QED
      <4>1. /\ command'[c].attempt = command[c].attempt /\ b # command[c].attempt
            /\ events'[c][b] = events[c][b] /\ result'[c][b] = result[c][b]
        BY <1>1, <1>3, <1>4, <2>3
      <4>2. /\ evidence'[c]["resync"][b] = evidence[c]["resync"][b]
            /\ evidence'[c]["result"][b] = evidence[c]["result"][b]
            /\ receipt'[c]["resync"][b] = receipt[c]["resync"][b]
            /\ receipt'[c]["result"][b] = receipt[c]["result"][b]
        BY <3>1 DEF Sources
      <4>3. QED
        BY <2>1, <3>1, <3>2, <3>3, <4>1, <4>2 DEF AttemptRecorded
  <2>4. QED
    BY <2>2, <2>3
<1>7. VerifiedState(v) \notin {"NONE", "PENDING", "LEASED"} /\ a # 0
  BY <1>2, AttemptNumber DEF VerifiedState
<1>8. QED
  BY <1>1, <1>3, <1>4, <1>6, <1>7 DEF CommandRecorded

LEMMA CommandStepRecorded ==
  ASSUME CommandTypeOK, NEW c \in Commands, NEW d \in Commands, CommandRecorded(c), CommandRecorded(d),
         CommandStep(c)
  PROVE  CommandRecorded(d)'
<1>1. CASE d # c
  BY <1>1, OtherCommands, RecordsFrame
<1>2. ASSUME ExpireCommandLease(c) PROVE CommandRecorded(c)'
  <2>1. {c} \in SUBSET Commands /\ \A x \in {c} : lease[x].state = "ACTIVE"
    BY <1>2 DEF ExpireCommandLease
  <2>2. MarkLeasesUnknown({c}, "EXPIRED") /\ UNCHANGED <<result, evidence, receipt, observing>>
    BY <1>2 DEF ExpireCommandLease
  <2>3. QED
    BY <2>1, <2>2, LostRecorded
<1>3. ASSUME AgentMessage(c) PROVE CommandRecorded(c)'
  BY <1>3, AcceptRecorded, RejectRecorded, BeginRecorded DEF AgentMessage
<1>4. CASE d = c
  BY <1>2, <1>3, <1>4, CreateRecorded, ElapseRecorded, AcquireRecorded, CommitRecorded,
     AbortRecorded DEF CommandStep
<1>5. QED
  BY <1>1, <1>4

LEMMA HostStepRecorded ==
  ASSUME CommandTypeOK, NEW d \in Commands, CommandRecorded(d), HostStep
  PROVE  CommandRecorded(d)'
<1>1. ASSUME NEW h \in Hosts, FenceHostCommandLeases(h) PROVE CommandRecorded(d)'
  <2>1. ActiveLeasesOf(h) \in SUBSET Commands /\ \A x \in ActiveLeasesOf(h) : lease[x].state = "ACTIVE"
    BY DEF ActiveLeasesOf
  <2>2. /\ MarkLeasesUnknown(ActiveLeasesOf(h), "FENCED")
        /\ UNCHANGED <<result, evidence, receipt, observing>>
    BY <1>1 DEF FenceHostCommandLeases
  <2>3. QED
    BY <2>1, <2>2, LostRecorded
<1>2. CASE UNCHANGED commandVars
  BY <1>2, RecordsFrame DEF commandVars, RecordsOf
<1>3. QED
  BY <1>1, <1>2 DEF HostStep

-----------------------------------------------------------------------------
(***************************************************************************)
(* The Host an active Lease stands on                                      *)
(***************************************************************************)

\* Every handler that could pull the ground from under a Lease fences it.
LEMMA HostStepBasis ==
  ASSUME HostInvariant, CommandTypeOK, HostStep, NEW d \in Commands,
         lease[d].state = "ACTIVE" => LeaseBasis(d), lease'[d].state = "ACTIVE"
  PROVE  LeaseBasis(d)'
<1> DEFINE k == HostOf[d]
<1>1. k \in Hosts /\ HostTypeOK
  BY CommandsAssumption DEF CommandsAssumption, CommandTypeOK
<1>2. lease[d] \in LeaseRows
  BY DEF CommandTypeOK
<1>3. ASSUME lease'[d] = lease[d], command'[d] = command[d], session'[k] = session[k], authority'[k] = authority[k]
      PROVE  LeaseBasis(d)'
  BY <1>3 DEF LeaseBasis
<1>4. ASSUME NEW h \in Hosts, FencingStep(h), FenceHostCommandLeases(h)
      PROVE  LeaseBasis(d)'
  <2>1. d \notin ActiveLeasesOf(h)
    BY <1>2, <1>4 DEF FenceHostCommandLeases, MarkLeasesUnknown, LeaseRows
  <2>2. lease'[d] = lease[d] /\ command'[d] = command[d]
    BY <1>4, <2>1 DEF FenceHostCommandLeases, MarkLeasesUnknown
  <2>3. k # h
    BY <2>1, <2>2 DEF ActiveLeasesOf
  <2>4. session'[k] = session[k] /\ authority'[k] = authority[k]
    BY <1>1, <1>4, <2>3, OtherHosts DEF RowsOf
  <2>5. QED
    BY <1>3, <2>2, <2>4
<1>5. ASSUME NEW h \in Hosts, QuietStep(h), UNCHANGED commandVars
      PROVE  LeaseBasis(d)'
  <2>1. lease'[d] = lease[d] /\ command'[d] = command[d]
    BY <1>5 DEF commandVars
  <2>2. CASE k # h
    BY <1>1, <1>3, <1>5, <2>1, <2>2, OtherHosts DEF RowsOf
  <2>3. CASE ~ArmHostOperationAuthority(h)
    BY <1>3, <1>5, <2>1, <2>3 DEF QuietStep, RegisterDiscoveredHost, AcceptOlderInventory,
       RejectStaleInventory, CredentialClock
  <2>4. CASE k = h /\ ArmHostOperationAuthority(h)
    <3>1. /\ session'[k] = session[k]
          /\ authority'[k].state = "ARMED"
          /\ authority'[k].session = session[k].generation
          /\ authority'[k].generation = identity[k].generation + 1
      BY <1>1, <2>4 DEF ArmHostOperationAuthority, HostTypeOK, IdentityRows
    <3>2. authority[k].generation = identity[k].generation
      BY <1>1 DEF HostInvariant, Sound, RevisionOrder
    <3>3. LeaseBasis(d) /\ authority[k].generation \in Int /\ lease[d].authority \in Int
      <4>1. authority[k].generation \in Revisions(MaxArmed) /\ lease[d].authority \in Revisions(MaxArmed)
        BY <1>1, <1>2 DEF HostTypeOK, AuthorityRows, LeaseRows
      <4>2. QED
        BY <1>1, <1>2, <2>1, <4>1, RevisionNumber
    <3>4. lease[d].authority <= authority[k].generation => lease[d].authority <= authority'[k].generation
      BY <3>1, <3>2, <3>3, SMTT(30)
    <3>5. QED
      BY <2>1, <3>1, <3>3, <3>4 DEF LeaseBasis
  <2>5. QED
    BY <2>2, <2>3, <2>4
<1>6. CASE DatabaseModeChanges /\ UNCHANGED commandVars
  BY <1>3, <1>6 DEF DatabaseModeChanges, commandVars
<1>7. QED
  BY <1>4, <1>5, <1>6 DEF HostStep

\* A Lease is granted only on the basis it needs, and a step of a Command
\* leaves the Host alone.
LEMMA CommandStepBasis ==
  ASSUME HostInvariant, CommandTypeOK, UNCHANGED hostVars, NEW c \in Commands, CommandStep(c),
         NEW d \in Commands, CommandRecorded(d),
         lease[d].state = "ACTIVE" => LeaseBasis(d), lease'[d].state = "ACTIVE"
  PROVE  LeaseBasis(d)'
<1>1. UNCHANGED <<session, authority>>
  BY DEF hostVars
<1>2. ASSUME lease'[d] = lease[d], command'[d] = command[d]
      PROVE  LeaseBasis(d)'
  BY <1>1, <1>2 DEF LeaseBasis
<1>3. CASE d # c
  BY <1>2, <1>3, OtherCommands DEF RecordsOf
<1>4. lease[d] \in LeaseRows /\ command[d] \in CommandRows
  BY DEF CommandTypeOK
<1>5. ASSUME NEW g \in 1..MaxArmed, NEW s \in Scopes, AcquireCommandLease(d, g, s)
      PROVE  LeaseBasis(d)'
  <2> DEFINE h == HostOf[d]
  <2>1. /\ lease'[d].attempt = command[d].attempt + 1 /\ lease'[d].authority = g
        /\ lease'[d].session = session[h].generation /\ lease'[d].scope = s
        /\ command'[d].state = "LEASED" /\ command'[d].attempt = command[d].attempt + 1
    BY <1>5 DEF AcquireCommandLease, CommandTypeOK
  <2>2. LeaseAuthority(d, g, s)
    BY <1>5 DEF AcquireCommandLease
  <2>3. session[h].state = "CURRENT"
    BY <2>2 DEF LeaseAuthority, HostMutationAuthority, HostReadOnlyVerificationAuthority
  <2>4. s = "MUTATION" => /\ authority[h].state = "ARMED" /\ authority[h].generation = g
                          /\ authority[h].session = session[h].generation
    BY <2>2 DEF LeaseAuthority, HostMutationAuthority
  <2>5. g <= g
    BY RevisionNumber
  <2>6. QED
    BY <1>1, <2>1, <2>3, <2>4, <2>5 DEF LeaseBasis
<1>6. ASSUME LeaseElapses(d) PROVE LeaseBasis(d)'
  <2>1. /\ lease'[d].attempt = lease[d].attempt /\ lease'[d].session = lease[d].session
        /\ lease'[d].scope = lease[d].scope /\ lease'[d].authority = lease[d].authority
        /\ command'[d] = command[d] /\ lease[d].state = "ACTIVE"
    BY <1>4, <1>6 DEF LeaseElapses, CommandTypeOK, LeaseRows
  <2>2. QED
    BY <1>1, <2>1 DEF LeaseBasis
<1>7. ASSUME CreateExecutionCommand(d) \/ CommitVerificationObservation(d)
      PROVE  LeaseBasis(d)'
  <2>1. lease[d].state = "ACTIVE" /\ command[d].state # "LEASED"
    BY <1>7 DEF CreateExecutionCommand, CommitVerificationObservation, CommandRecorded
  <2>2. QED
    BY <2>1 DEF LeaseBasis
<1>8. ASSUME ExpireCommandLease(d) PROVE FALSE
  BY <1>4, <1>8 DEF ExpireCommandLease, MarkLeasesUnknown, LeaseRows
<1>9. ASSUME NEW a, NEW g, NEW o, NEW v, AcceptAgentCommandResult(d, a, g, o, v) PROVE FALSE
  BY <1>4, <1>9 DEF AcceptAgentCommandResult, CommandTypeOK, LeaseRows
<1>10. ASSUME NEW a, NEW g, NEW v, \/ RejectStaleCommandResult(d, a, g)
                                   \/ BeginVerificationObservation(d, a, g, v)
                                   \/ AbortVerificationObservation(d)
       PROVE  LeaseBasis(d)'
  BY <1>2, <1>10 DEF RejectStaleCommandResult, BeginVerificationObservation, AbortVerificationObservation
<1>11. CASE d = c
  BY <1>5, <1>6, <1>7, <1>8, <1>9, <1>10, <1>11 DEF CommandStep, AgentMessage
<1>12. QED
  BY <1>3, <1>11

-----------------------------------------------------------------------------
(***************************************************************************)
(* The theorems                                                            *)
(***************************************************************************)

LEMMA CommandInvariantInit == Init => CommandInvariant
<1> SUFFICES ASSUME Init PROVE CommandInvariant
  OBVIOUS
<1> USE CommandsAssumption, BoundsAssumption DEF CommandsAssumption, BoundsAssumption
<1>1. HostInvariant
  BY HostInvariantInit DEF Init
<1>2. CommandTypeOK
  <2>1. HostTypeOK
    BY <1>1 DEF HostInvariant
  <2>2. command \in [Commands -> CommandRows] /\ job \in [Commands -> JobStates]
    BY SMTT(30) DEF Init, CommandRows, CommandStates, JobStates
  <2>3. lease \in [Commands -> LeaseRows]
    BY SMTT(30) DEF Init, LeaseRows, Revisions, Scopes
  <2>4. observing \in [Commands -> ObservationRows]
    BY SMTT(30) DEF Init, ObservationRows, NoObservation, Revisions
  <2>5. QED
    BY <2>1, <2>2, <2>3, <2>4 DEF Init, CommandTypeOK
<1>3. ASSUME NEW c \in Commands PROVE CommandRecorded(c)
  <2>1. /\ command[c].state = "NONE" /\ command[c].attempt = 0
        /\ lease[c].generation = 0 /\ lease[c].attempt = 0 /\ lease[c].state = "NONE"
        /\ observing[c] = NoObservation
    BY DEF Init
  <2>2. ASSUME NEW a \in Attempts PROVE AttemptRecorded(c, a)
    <3>1. events[c][a] = {} /\ result[c][a] = "NONE"
          /\ \A x \in Sources : evidence[c][x][a] = "NONE" /\ receipt[c][x][a] = "NONE"
      BY DEF Init
    <3>2. ~(a <= 0) /\ a > 0 /\ ~(a < 0) /\ a # 0
      BY AttemptNumber
    <3>3. EndsOnce(c, a)
      BY <2>1, <3>1, <3>2 DEF EndsOnce
    <3>4. \A v : Shown(c, a, v) => v = "NONE"
      BY <3>1 DEF Shown
    <3>5. QED
      BY <2>1, <3>1, <3>2, <3>3, <3>4 DEF AttemptRecorded, Sources
  <2>3. QED
    BY <2>1, <2>2 DEF CommandRecorded
<1>4. ActiveLeaseBasis
  BY DEF Init, ActiveLeaseBasis
<1>5. QED
  BY <1>1, <1>2, <1>3, <1>4 DEF CommandInvariant

LEMMA CommandInvariantStep ==
  ASSUME CommandInvariant, [Next]_vars
  PROVE  CommandInvariant'
<1>1. HostInvariant' /\ HostTypeOK'
  BY HostPart, HostInvariantStep DEF CommandInvariant, HostInvariant
<1>2. CASE HostStep
  <2>1. CommandTypeOK' /\ \A d \in Commands : CommandRecorded(d)'
    BY <1>1, <1>2, HostStepTyped, HostStepRecorded DEF CommandInvariant
  <2>2. ActiveLeaseBasis'
    BY <1>2, HostStepBasis DEF CommandInvariant, ActiveLeaseBasis
  <2>3. QED
    BY <1>1, <2>1, <2>2 DEF CommandInvariant
<1>3. ASSUME NEW c \in Commands, CommandStep(c) PROVE CommandInvariant'
  <2>1. CommandTypeOK'
    BY <1>1, <1>3, LeasingTyped, MessageTyped, ObservationTyped DEF CommandInvariant, CommandStep
  <2>2. \A d \in Commands : CommandRecorded(d)'
    BY <1>3, CommandStepRecorded DEF CommandInvariant
  <2>3. UNCHANGED hostVars
    BY <1>3, CommandStepFrame
  <2>4. ActiveLeaseBasis'
    BY <1>3, <2>3, CommandStepBasis DEF CommandInvariant, ActiveLeaseBasis
  <2>5. QED
    BY <1>1, <2>1, <2>2, <2>4 DEF CommandInvariant
<1>4. CASE UNCHANGED vars
  <2>1. CommandTypeOK'
    BY <1>1, <1>4 DEF CommandInvariant, CommandTypeOK, vars, commandVars
  <2>2. \A d \in Commands : CommandRecorded(d)'
    BY <1>4, RecordsFrame DEF CommandInvariant, RecordsOf, vars, commandVars
  <2>3. ActiveLeaseBasis'
    BY <1>4 DEF CommandInvariant, ActiveLeaseBasis, LeaseBasis, vars, commandVars, hostVars
  <2>4. QED
    BY <1>1, <2>1, <2>2, <2>3 DEF CommandInvariant
<1>5. QED
  BY <1>2, <1>3, <1>4 DEF Next

\* The records of every Command, its Lease and the Host authority it stands on
\* agree after every transaction.
THEOREM CommandInvariantHolds == Spec => []CommandInvariant
<1>1. Init => CommandInvariant
  BY CommandInvariantInit
<1>2. CommandInvariant /\ [Next]_vars => CommandInvariant'
  BY CommandInvariantStep
<1>3. QED
  BY <1>1, <1>2, PTL DEF Spec

\* Every row the execution handlers write has the type of its table.
THEOREM CommandTypeCorrect == Spec => []CommandTypeOK
<1>1. CommandInvariant => CommandTypeOK
  BY DEF CommandInvariant
<1>2. QED
  BY <1>1, CommandInvariantHolds, PTL

\* fenceHostCommandLeasesTx and the expiry sweep leave no dangling Lease: an
\* ACTIVE Lease always has its session, its Attempt and its authority.
THEOREM ActiveLeaseBasisTheorem == Spec => []ActiveLeaseBasis
<1>1. CommandInvariant => ActiveLeaseBasis
  BY DEF CommandInvariant
<1>2. QED
  BY <1>1, CommandInvariantHolds, PTL

\* A Result racing the expiry sweep or a fence never ends an Attempt twice.
THEOREM AttemptEndsOnceTheorem == Spec => []AttemptEndsOnce
<1>1. CommandInvariant => AttemptEndsOnce
  BY DEF CommandInvariant, CommandRecorded, AttemptRecorded, AttemptEndsOnce
<1>2. QED
  BY <1>1, CommandInvariantHolds, PTL

\* RecordCommandVerification decides every dispatch after the first and every
\* success: no Command is retried without a NOT_APPLIED read-back, none
\* succeeds without a MATCHED one.
THEOREM ReadBackTheorem == Spec => []ReadBackDecides
<1>1. CommandInvariant => ReadBackDecides
  <2> SUFFICES ASSUME CommandInvariant, NEW c \in Commands
               PROVE  /\ \A a \in 1..command[c].attempt - 1 : Shown(c, a, "NOT_APPLIED")
                      /\ command[c].state = "REDISPATCHABLE" => Shown(c, command[c].attempt, "NOT_APPLIED")
                      /\ command[c].state = "SUCCEEDED" => Shown(c, command[c].attempt, "MATCHED")
    BY DEF ReadBackDecides
  <2>1. CommandRecorded(c) /\ command[c] \in CommandRows /\ MaxAttempts \in Nat
    BY CommandsAssumption DEF CommandsAssumption, CommandInvariant, CommandTypeOK
  <2>2. command[c].attempt \in 0..MaxAttempts
    BY <2>1 DEF CommandRows
  <2>3. ASSUME NEW a \in 1..command[c].attempt - 1 PROVE Shown(c, a, "NOT_APPLIED")
    <3>1. a \in Attempts /\ a < command[c].attempt
      BY <2>1, <2>2, SMTT(30) DEF Attempts
    <3>2. QED
      BY <2>1, <3>1 DEF CommandRecorded, AttemptRecorded
  <2>4. command[c].state \in {"REDISPATCHABLE", "SUCCEEDED"} => command[c].attempt \in Attempts
    <3>1. command[c].state \in {"REDISPATCHABLE", "SUCCEEDED"} => command[c].attempt # 0
      BY <2>1 DEF CommandRecorded
    <3>2. QED
      BY <2>1, <2>2, <3>1, SMTT(30) DEF Attempts
  <2>5. QED
    BY <2>1, <2>3, <2>4 DEF CommandRecorded, AttemptRecorded
<1>2. QED
  BY <1>1, CommandInvariantHolds, PTL

LEMMA JobStep ==
  ASSUME CommandInvariant, [Next]_vars, NEW d \in Commands, JobInStep(d)
  PROVE  JobInStep(d)'
<1>1. CommandTypeOK /\ CommandRecorded(d) /\ command[d] \in CommandRows
  BY DEF CommandInvariant, CommandTypeOK
<1>2. ASSUME NEW lost, NEW reason, MarkLeasesUnknown(lost, reason) PROVE JobInStep(d)'
  BY <1>1, <1>2 DEF MarkLeasesUnknown, JobInStep, CommandRows
<1>3. CASE HostStep
  BY <1>2, <1>3 DEF HostStep, FenceHostCommandLeases, commandVars, JobInStep
<1>4. ASSUME NEW v, command'[d].state = VerifiedState(v), job'[d] = JobOf(VerifiedState(v))
      PROVE  JobInStep(d)'
  BY <1>4 DEF VerifiedState, JobOf, JobInStep
<1>5. ASSUME NEW a, NEW g, NEW o, NEW v, AcceptAgentCommandResult(d, a, g, o, v)
      PROVE  JobInStep(d)'
  <2>1. CASE o = "FAILED"
    <3>1. command'[d].state = "FAILED" /\ job'[d] = JobOf("FAILED")
      BY <1>1, <1>5, <2>1 DEF AcceptAgentCommandResult, CommandTypeOK, CommandRows
    <3>2. QED
      BY <3>1 DEF JobOf, JobInStep
  <2>2. CASE o # "FAILED"
    <3>1. command'[d].state = VerifiedState(v) /\ job'[d] = JobOf(VerifiedState(v))
      BY <1>1, <1>5, <2>2 DEF AcceptAgentCommandResult, CommandTypeOK, CommandRows
    <3>2. QED
      BY <1>4, <3>1
  <2>3. QED
    BY <2>1, <2>2
<1>6. ASSUME CommitVerificationObservation(d) PROVE JobInStep(d)'
  <2>1. /\ command'[d].state = VerifiedState(observing[d].state)
        /\ job'[d] = JobOf(VerifiedState(observing[d].state))
    BY <1>1, <1>6 DEF CommitVerificationObservation, CommandTypeOK, CommandRows
  <2>2. QED
    BY <1>4, <2>1
<1>7. ASSUME \/ CreateExecutionCommand(d)
             \/ \E g \in 1..MaxArmed, s \in Scopes : AcquireCommandLease(d, g, s)
      PROVE  JobInStep(d)'
  <2>1. \/ command'[d].state = "PENDING" /\ job'[d] = "DISPATCHABLE"
        \/ command'[d].state = "LEASED" /\ job'[d] = "LEASED"
    BY <1>1, <1>7, SMTT(30) DEF CreateExecutionCommand, AcquireCommandLease, CommandTypeOK, CommandRows
  <2>2. QED
    BY <2>1 DEF JobInStep
<1>8. ASSUME NEW a, NEW g, NEW v,
             \/ LeaseElapses(d) \/ RejectStaleCommandResult(d, a, g)
             \/ BeginVerificationObservation(d, a, g, v) \/ AbortVerificationObservation(d)
      PROVE  JobInStep(d)'
  BY <1>8 DEF LeaseElapses, RejectStaleCommandResult, BeginVerificationObservation,
     AbortVerificationObservation, JobInStep
<1>9. CASE CommandStep(d)
  BY <1>2, <1>5, <1>6, <1>7, <1>8, <1>9 DEF CommandStep, AgentMessage, ExpireCommandLease
<1>10. ASSUME NEW c \in Commands, c # d, CommandStep(c) PROVE JobInStep(d)'
  <2>1. command'[d] = command[d]
    BY <1>1, <1>10, OtherCommands DEF RecordsOf
  <2>2. job'[d] = job[d]
    <3>1. job \in [Commands -> JobStates]
      BY <1>1 DEF CommandTypeOK
    <3>2. ASSUME \E s : job' = [job EXCEPT ![c] = s] PROVE job'[d] = job[d]
      BY <1>10, <3>1, <3>2
    <3>3. ASSUME NEW reason, MarkLeasesUnknown({c}, reason) PROVE job'[d] = job[d]
      BY <1>10, <3>1, <3>3 DEF MarkLeasesUnknown
    <3>4. CreateExecutionCommand(c) \/ CommitVerificationObservation(c) => job'[d] = job[d]
      BY <3>2 DEF CreateExecutionCommand, CommitVerificationObservation
    <3>5. ASSUME NEW g, NEW s, AcquireCommandLease(c, g, s) PROVE job'[d] = job[d]
      BY <3>2, <3>5 DEF AcquireCommandLease
    <3>6. ASSUME NEW a, NEW g, NEW o, NEW v, AcceptAgentCommandResult(c, a, g, o, v)
          PROVE  job'[d] = job[d]
      BY <3>2, <3>6 DEF AcceptAgentCommandResult
    <3>7. ASSUME NEW a, NEW g, NEW v, \/ RejectStaleCommandResult(c, a, g)
                                      \/ BeginVerificationObservation(c, a, g, v)
          PROVE  job'[d] = job[d]
      BY <3>7 DEF RejectStaleCommandResult, BeginVerificationObservation
    <3>8. LeaseElapses(c) \/ ExpireCommandLease(c) \/ AbortVerificationObservation(c) => job'[d] = job[d]
      BY <3>3 DEF LeaseElapses, ExpireCommandLease, AbortVerificationObservation
    <3>9. AgentMessage(c) => job'[d] = job[d]
      BY <3>6, <3>7 DEF AgentMessage
    <3>10. QED
      BY <1>10, <3>4, <3>5, <3>8, <3>9 DEF CommandStep
  <2>3. QED
    BY <2>1, <2>2 DEF JobInStep
<1>11. CASE UNCHANGED vars
  BY <1>11 DEF vars, commandVars, JobInStep
<1>12. QED
  BY <1>3, <1>9, <1>10, <1>11 DEF Next

\* Every handler moves the Job together with its Command.
THEOREM JobTheorem == Spec => []JobFollowsCommand
<1>1. Init => JobFollowsCommand
  BY SMTT(30) DEF Init, JobFollowsCommand, JobInStep
<1>2. CommandInvariant /\ JobFollowsCommand /\ [Next]_vars => JobFollowsCommand'
  BY JobStep DEF JobFollowsCommand
<1>3. QED
  BY <1>1, <1>2, CommandInvariantHolds, PTL DEF Spec

LEMMA LostAppends ==
  ASSUME CommandTypeOK, NEW d \in Commands, CommandRecorded(d),
         NEW lost \in SUBSET Commands, \A c \in lost : lease[c].state = "ACTIVE",
         NEW reason \in {"EXPIRED", "FENCED"}, MarkLeasesUnknown(lost, reason),
         UNCHANGED <<result, evidence, receipt, observing>>
  PROVE  AppendOnly(d)
<1>1. lease[d] \in LeaseRows /\ events[d] \in [Attempts -> SUBSET EventTypes]
  BY DEF CommandTypeOK
<1>2. lease'[d].state = "ACTIVE" => lease[d].state = "ACTIVE"
  BY <1>1 DEF MarkLeasesUnknown, LeaseRows
<1>3. command[d].state \in {"SUCCEEDED", "FAILED"} => command'[d] = command[d]
  BY DEF MarkLeasesUnknown, CommandRecorded
<1>4. \A a \in Attempts : events[d][a] \subseteq events'[d][a]
  BY <1>1 DEF MarkLeasesUnknown
<1>5. QED
  BY <1>2, <1>3, <1>4 DEF AppendOnly

\* Each handler adds only rows that were not there.
LEMMA CommandAppends ==
  ASSUME CommandTypeOK, NEW c \in Commands, CommandRecorded(c), CommandStep(c)
  PROVE  AppendOnly(c)
<1>1. /\ command[c] \in CommandRows /\ lease[c] \in LeaseRows
      /\ events[c] \in [Attempts -> SUBSET EventTypes]
      /\ result[c] \in [Attempts -> Outcomes \cup {"NONE"}]
      /\ \A x \in Sources : /\ evidence[c][x] \in [Attempts -> VerificationStates \cup {"NONE"}]
                             /\ receipt[c][x] \in [Attempts -> {"NONE", "ACCEPTED", "STALE"}]
  BY SMTT(30) DEF CommandTypeOK
<1>2. CASE CreateExecutionCommand(c)
  BY <1>1, <1>2 DEF CreateExecutionCommand, AppendOnly
<1>3. ASSUME NEW g, NEW s, AcquireCommandLease(c, g, s) PROVE AppendOnly(c)
  <2>1. /\ lease'[c].generation = lease[c].generation + 1 /\ lease'[c].attempt = lease[c].attempt + 1
        /\ lease[c].generation \in Int /\ lease[c].attempt \in Int
    <3>1. lease[c].generation \in Int /\ lease[c].attempt \in Int
      BY <1>1, CommandsAssumption, SMTT(30) DEF CommandsAssumption, LeaseRows
    <3>2. lease'[c].generation = lease[c].generation + 1 /\ lease'[c].attempt = command[c].attempt + 1
      BY <1>3 DEF AcquireCommandLease, CommandTypeOK
    <3>3. lease[c].attempt = command[c].attempt
      BY DEF CommandRecorded
    <3>4. QED
      BY <3>1, <3>2, <3>3
  <2>2. command[c].state \notin {"SUCCEEDED", "FAILED"}
    BY <1>3 DEF AcquireCommandLease, LeasableStates
  <2>3. \A a \in Attempts : events[c][a] \subseteq events'[c][a]
    BY <1>1, <1>3 DEF AcquireCommandLease, CommandTypeOK
  <2>4. UNCHANGED <<result, evidence, receipt>>
    BY <1>3 DEF AcquireCommandLease
  <2>5. QED
    BY <2>1, <2>2, <2>3, <2>4, SMTT(30) DEF AppendOnly
<1>4. CASE LeaseElapses(c)
  BY <1>4 DEF LeaseElapses, AppendOnly
<1>5. CASE ExpireCommandLease(c)
  <2>1. {c} \in SUBSET Commands /\ \A x \in {c} : lease[x].state = "ACTIVE"
    BY <1>5 DEF ExpireCommandLease
  <2>2. QED
    BY <1>5, <2>1, LostAppends DEF ExpireCommandLease
<1>6. ASSUME NEW a \in Attempts, NEW g, NEW o, NEW v, AcceptAgentCommandResult(c, a, g, o, v)
      PROVE  AppendOnly(c)
  <2>1. command[c].state = "LEASED" /\ command[c].attempt = a /\ receipt[c]["result"][a] = "NONE"
    BY <1>6 DEF AcceptAgentCommandResult, ValidateActiveLease, CommandRecorded
  <2>2. result[c][a] = "NONE" /\ \A x \in Sources : evidence[c][x][a] = "NONE"
    BY <2>1 DEF CommandRecorded, AttemptRecorded
  <2>3. lease'[c].state # "ACTIVE"
    BY <1>1, <1>6 DEF AcceptAgentCommandResult, CommandTypeOK, LeaseRows
  <2>4. \A b \in Attempts : events[c][b] \subseteq events'[c][b] /\ (b # a => result'[c][b] = result[c][b])
    BY <1>1, <1>6 DEF AcceptAgentCommandResult, CommandTypeOK
  <2>5. \A b \in Attempts, x \in Sources :
          /\ b # a \/ x # "result" => evidence'[c][x][b] = evidence[c][x][b]
          /\ b # a \/ x # "result" => receipt'[c][x][b] = receipt[c][x][b]
    BY <1>1, <1>6, SMTT(30) DEF AcceptAgentCommandResult, CommandTypeOK
  <2>6. QED
    BY <2>1, <2>2, <2>3, <2>4, <2>5, SMTT(30) DEF AppendOnly
<1>7. ASSUME NEW a \in Attempts, NEW g, RejectStaleCommandResult(c, a, g) PROVE AppendOnly(c)
  <2>1. \A b \in Attempts : events[c][b] \subseteq events'[c][b]
    BY <1>1, <1>7 DEF RejectStaleCommandResult, CommandTypeOK
  <2>2. \A b \in Attempts, x \in Sources :
          receipt[c][x][b] # "NONE" => receipt'[c][x][b] = receipt[c][x][b]
    BY <1>1, <1>7, SMTT(30) DEF RejectStaleCommandResult, CommandTypeOK
  <2>3. UNCHANGED <<command, lease, result, evidence>>
    BY <1>7 DEF RejectStaleCommandResult
  <2>4. QED
    BY <2>1, <2>2, <2>3 DEF AppendOnly
<1>8. ASSUME NEW a, NEW g, NEW v,
             BeginVerificationObservation(c, a, g, v) \/ AbortVerificationObservation(c)
      PROVE  AppendOnly(c)
  BY <1>8 DEF BeginVerificationObservation, AbortVerificationObservation, AppendOnly
<1>9. CASE CommitVerificationObservation(c)
  <2> DEFINE a == observing[c].attempt
  <2>1. command[c].state = "UNKNOWN" /\ command[c].attempt = a /\ receipt[c]["resync"][a] = "NONE"
    BY <1>9 DEF CommitVerificationObservation, CommandRecorded
  <2>2. a \in Attempts
    <3>1. command[c].attempt # 0
      BY <2>1 DEF CommandRecorded
    <3>2. command[c].attempt \in 0..MaxAttempts /\ MaxAttempts \in Nat
      BY <1>1, CommandsAssumption DEF CommandsAssumption, CommandRows
    <3>3. QED
      BY <2>1, <3>1, <3>2, SMTT(30) DEF Attempts
  <2>3. evidence[c]["resync"][a] = "NONE"
    BY <2>1, <2>2 DEF CommandRecorded, AttemptRecorded
  <2>4. \A b \in Attempts, x \in Sources :
          /\ b # a \/ x # "resync" => evidence'[c][x][b] = evidence[c][x][b]
          /\ b # a \/ x # "resync" => receipt'[c][x][b] = receipt[c][x][b]
    BY <1>1, <1>9, SMTT(30) DEF CommitVerificationObservation, CommandTypeOK
  <2>5. UNCHANGED <<lease, events, result>>
    BY <1>9 DEF CommitVerificationObservation
  <2>6. QED
    BY <2>1, <2>3, <2>4, <2>5 DEF AppendOnly
<1>10. QED
  BY <1>2, <1>3, <1>4, <1>5, <1>6, <1>7, <1>8, <1>9 DEF CommandStep, AgentMessage

\* No handler, replay or race rewrites what an earlier transaction recorded.
THEOREM HistoryTheorem == Spec => HistoryIsAppendOnly
<1>1. ASSUME CommandInvariant, [Next]_vars PROVE [\A c \in Commands : AppendOnly(c)]_vars
  <2> SUFFICES ASSUME Next, NEW d \in Commands PROVE AppendOnly(d)
    BY <1>1
  <2>1. CommandTypeOK /\ CommandRecorded(d)
    BY <1>1 DEF CommandInvariant
  <2>2. ASSUME RecordsOf(d)' = RecordsOf(d) PROVE AppendOnly(d)
    BY <2>2 DEF RecordsOf, AppendOnly
  <2>3. ASSUME NEW h \in Hosts, FenceHostCommandLeases(h) PROVE AppendOnly(d)
    <3>1. ActiveLeasesOf(h) \in SUBSET Commands /\ \A x \in ActiveLeasesOf(h) : lease[x].state = "ACTIVE"
      BY DEF ActiveLeasesOf
    <3>2. QED
      BY <2>1, <2>3, <3>1, LostAppends DEF FenceHostCommandLeases
  <2>4. CASE HostStep
    BY <2>2, <2>3, <2>4 DEF HostStep, commandVars, RecordsOf
  <2>5. ASSUME NEW c \in Commands, CommandStep(c) PROVE AppendOnly(d)
    BY <2>1, <2>2, <2>5, OtherCommands, CommandAppends
  <2>6. QED
    BY <2>4, <2>5 DEF Next
<1>2. QED
  BY <1>1, CommandInvariantHolds, PTL DEF Spec, HistoryIsAppendOnly

-----------------------------------------------------------------------------
(***************************************************************************)
(* Refinement: each transaction starts, decides or resolves one Attempt,   *)
(* loses a set of open ones, or leaves every verdict alone.                *)
(***************************************************************************)

VerdictTable == [c \in Commands |-> [a \in Attempts |-> Verdict(c, a)]]

\* Verdicts of Command c depend on no other Command.
LEMMA VerdictFrame ==
  ASSUME NEW c, NEW a, command'[c] = command[c], result'[c][a] = result[c][a],
         \A x \in Sources : evidence'[c][x][a] = evidence[c][x][a]
  PROVE  Verdict(c, a)' = Verdict(c, a)
BY DEF Verdict, Shown

\* A step that changes at most one verdict.
LEMMA OneVerdict ==
  ASSUME NEW c \in Commands, NEW a \in Attempts, NEW v, Verdict(c, a)' = v,
         \A d \in Commands, b \in Attempts : d # c \/ b # a => Verdict(d, b)' = Verdict(d, b)
  PROVE  VerdictTable' = [VerdictTable EXCEPT ![c][a] = v]
BY DEF VerdictTable

LEMMA NoVerdict ==
  ASSUME \A d \in Commands, b \in Attempts : Verdict(d, b)' = Verdict(d, b)
  PROVE  VerdictTable' = VerdictTable
BY DEF VerdictTable

LEMMA OtherVerdicts ==
  ASSUME CommandTypeOK, NEW c \in Commands, CommandStep(c), NEW d \in Commands, d # c, NEW b \in Attempts
  PROVE  Verdict(d, b)' = Verdict(d, b)
<1>1. RecordsOf(d)' = RecordsOf(d)
  BY OtherCommands
<1>2. QED
  BY <1>1, VerdictFrame DEF RecordsOf

\* The Attempts before the current one, and the current one of a
\* REDISPATCHABLE Command, were not applied.
LEMMA PastNotApplied ==
  ASSUME NEW c \in Commands, CommandRecorded(c), NEW b \in Attempts, command[c].attempt \in Nat,
         b < command[c].attempt \/ (b = command[c].attempt /\ command[c].state = "REDISPATCHABLE")
  PROVE  Verdict(c, b) = "not_applied" /\ Shown(c, b, "NOT_APPLIED") /\ ~Shown(c, b, "MATCHED")
<1>1. AttemptRecorded(c, b) /\ b \in Nat
  BY AttemptNumber DEF CommandRecorded
<1>2. Shown(c, b, "NOT_APPLIED") /\ ~Shown(c, b, "MATCHED")
  BY <1>1 DEF AttemptRecorded
<1>3. ~(b > command[c].attempt) /\ ~(b = command[c].attempt /\ command[c].state = "LEASED")
  BY <1>1, SMTT(30)
<1>4. QED
  BY <1>2, <1>3 DEF Verdict

-----------------------------------------------------------------------------
(***************************************************************************)
(* One lemma per kind of step                                              *)
(***************************************************************************)

LEMMA AcquireStarts ==
  ASSUME CommandTypeOK, NEW c \in Commands, CommandRecorded(c), NEW g \in 1..MaxArmed, NEW s \in Scopes,
         AcquireCommandLease(c, g, s), CommandStep(c)
  PROVE  \E a \in Attempts : Ledger!StartAttempt(c, a)
<1>0. PICK a \in Attempts : a = command[c].attempt + 1
  BY CommandsAssumption, SMTT(30) DEF CommandsAssumption, CommandTypeOK, CommandRows, AcquireCommandLease, Attempts
<1>1. /\ command[c].attempt \in Nat /\ a = command[c].attempt + 1
      /\ command[c].state \in {"PENDING", "REDISPATCHABLE"}
  BY <1>0, CommandsAssumption, SMTT(30)
  DEF CommandsAssumption, CommandTypeOK, CommandRows, AcquireCommandLease, LeasableStates
<1>2. /\ command'[c].state = "LEASED" /\ command'[c].attempt = a
      /\ UNCHANGED <<result, evidence>>
  BY <1>1 DEF AcquireCommandLease, CommandTypeOK
<1>3. Verdict(c, a) = "none" /\ Verdict(c, a)' = "open"
  BY <1>1, <1>2, SMTT(30) DEF Verdict
<1>4. ASSUME NEW b \in Attempts, b <= command[c].attempt
      PROVE  Verdict(c, b) = "not_applied" /\ Verdict(c, b)' = "not_applied"
  <2>1. b \in Nat /\ command[c].attempt # 0
    BY <1>1, <1>4, SMTT(30) DEF Attempts
  <2>2. command[c].state = "REDISPATCHABLE"
    BY <1>1, <2>1 DEF CommandRecorded
  <2>3. Verdict(c, b) = "not_applied" /\ Shown(c, b, "NOT_APPLIED") /\ ~Shown(c, b, "MATCHED")
    BY <1>1, <1>4, <2>1, <2>2, PastNotApplied, SMTT(30)
  <2>4. Shown(c, b, "NOT_APPLIED")' /\ ~Shown(c, b, "MATCHED")'
    BY <1>2, <2>3 DEF Shown
  <2>5. ~(b > command'[c].attempt) /\ b # command'[c].attempt
    BY <1>1, <1>2, <1>4, <2>1, SMTT(30)
  <2>6. QED
    BY <2>3, <2>4, <2>5 DEF Verdict
<1>5. ASSUME NEW b \in Attempts, b # a PROVE Verdict(c, b)' = Verdict(c, b)
  <2>1. CASE b <= command[c].attempt
    BY <1>4, <2>1
  <2>2. CASE b > a
    BY <1>1, <1>2, <2>2, SMTT(30) DEF Verdict, Attempts
  <2>3. QED
    BY <1>1, <1>5, <2>1, <2>2, SMTT(30) DEF Attempts
<1>6. VerdictTable' = [VerdictTable EXCEPT ![c][a] = "open"]
  <2>1. \A d \in Commands, b \in Attempts : d # c \/ b # a => Verdict(d, b)' = Verdict(d, b)
    BY <1>5, OtherVerdicts
  <2>2. QED
    BY <1>3, <2>1, OneVerdict
<1>7. \A b \in 1..a - 1 : VerdictTable[c][b] = "not_applied"
  <2> SUFFICES ASSUME NEW b \in 1..a - 1 PROVE VerdictTable[c][b] = "not_applied"
    OBVIOUS
  <2>1. b \in Attempts /\ b <= command[c].attempt
    BY <1>1, CommandsAssumption, SMTT(30) DEF CommandsAssumption, Attempts
  <2>2. QED
    BY <1>4, <2>1 DEF VerdictTable
<1>8. VerdictTable[c][a] = "none"
  BY <1>1, <1>3 DEF VerdictTable
<1>9. QED
  BY <1>1, <1>6, <1>7, <1>8 DEF Ledger!StartAttempt, VerdictTable

LEMMA AcceptDecides ==
  ASSUME CommandTypeOK, NEW c \in Commands, CommandRecorded(c), NEW a \in Attempts, NEW g, NEW o, NEW v,
         AcceptAgentCommandResult(c, a, g, o, v), CommandStep(c)
  PROVE  Ledger!DecideAttempt(c, a)
<1>1. /\ command[c].state = "LEASED" /\ command[c].attempt = a /\ a \in Nat
      /\ command[c] \in CommandRows
  BY SMTT(30) DEF AcceptAgentCommandResult, ValidateActiveLease, CommandRecorded, CommandTypeOK, Attempts
<1>2. command'[c].state # "LEASED" /\ command'[c].attempt = a
  BY <1>1 DEF AcceptAgentCommandResult, CommandTypeOK, CommandRows, VerifiedState
<1>3. Verdict(c, a) = "open"
  BY <1>1, SMTT(30) DEF Verdict
<1>4. PICK w \in Ledger!Verdicts \ {"none", "open"} : Verdict(c, a)' = w
  BY <1>1, <1>2, SMTT(30) DEF Verdict, Ledger!Verdicts
<1>5. ASSUME NEW b \in Attempts, b # a PROVE Verdict(c, b)' = Verdict(c, b)
  <2>1. result'[c][b] = result[c][b] /\ \A x \in Sources : evidence'[c][x][b] = evidence[c][x][b]
    BY <1>5, SMTT(30) DEF AcceptAgentCommandResult, CommandTypeOK
  <2>2. \A u : Shown(c, b, u)' <=> Shown(c, b, u)
    BY <2>1 DEF Shown
  <2>3. QED
    BY <1>1, <1>2, <1>5, <2>1, <2>2 DEF Verdict
<1>6. \A d \in Commands, b \in Attempts : d # c \/ b # a => Verdict(d, b)' = Verdict(d, b)
  BY <1>5, OtherVerdicts
<1>7. VerdictTable' = [VerdictTable EXCEPT ![c][a] = w]
  BY <1>4, <1>6, OneVerdict
<1>8. VerdictTable[c][a] = "open"
  BY <1>3 DEF VerdictTable
<1>9. QED
  BY <1>4, <1>7, <1>8 DEF Ledger!DecideAttempt, VerdictTable

LEMMA CommitResolves ==
  ASSUME CommandTypeOK, NEW c \in Commands, CommandRecorded(c),
         CommitVerificationObservation(c), CommandStep(c)
  PROVE  VerdictTable' = VerdictTable \/ \E a \in Attempts : Ledger!ResolveAttempt(c, a)
<1>1. PICK a \in Attempts : command[c].attempt = a /\ observing[c].attempt = a
  BY SMTT(30) DEF CommitVerificationObservation, CommandRecorded, CommandTypeOK, CommandRows, Attempts
<1>2. /\ command[c].state = "UNKNOWN" /\ a \in Nat /\ command[c] \in CommandRows /\ AttemptRecorded(c, a)
      /\ observing[c].state \in VerificationStates
  BY SMTT(30) DEF CommitVerificationObservation, CommandRecorded, CommandTypeOK, Attempts
<1>3. /\ command'[c].state # "LEASED" /\ command'[c].attempt = a
  BY <1>1, <1>2 DEF CommitVerificationObservation, CommandTypeOK, CommandRows, VerifiedState
<1>4. Verdict(c, a) = "unknown"
  BY <1>1, <1>2 DEF Verdict, AttemptRecorded, Undecided
<1>5. /\ \A b \in Attempts, x \in Sources : b # a => evidence'[c][x][b] = evidence[c][x][b]
      /\ UNCHANGED result
  BY <1>1, SMTT(30) DEF CommitVerificationObservation, CommandTypeOK
<1>6. ASSUME NEW b \in Attempts, b # a PROVE Verdict(c, b)' = Verdict(c, b)
  <2>1. \A w : Shown(c, b, w)' <=> Shown(c, b, w)
    BY <1>5, <1>6 DEF Shown
  <2>2. QED
    BY <1>1, <1>2, <1>3, <1>5, <1>6, <2>1 DEF Verdict
<1>7. \A d \in Commands, b \in Attempts : d # c \/ b # a => Verdict(d, b)' = Verdict(d, b)
  BY <1>6, OtherVerdicts
<1>8. PICK w \in {"applied", "not_applied", "unknown"} : Verdict(c, a)' = w
  <2>1. result'[c][a] # "FAILED"
    BY <1>1, <1>2, <1>5 DEF AttemptRecorded
  <2>2. QED
    BY <1>2, <1>3, <2>1, SMTT(30) DEF Verdict
<1>9. CASE w = "unknown"
  <2>1. \A d \in Commands, b \in Attempts : Verdict(d, b)' = Verdict(d, b)
    BY <1>4, <1>7, <1>8, <1>9
  <2>2. QED
    BY <2>1, NoVerdict
<1>10. CASE w # "unknown"
  <2>1. VerdictTable' = [VerdictTable EXCEPT ![c][a] = w]
    BY <1>7, <1>8, OneVerdict, SMTT(30)
  <2>2. VerdictTable[c][a] = "unknown" /\ w \in {"applied", "not_applied"}
    BY <1>4, <1>8, <1>10 DEF VerdictTable
  <2>3. QED
    BY <2>1, <2>2 DEF Ledger!ResolveAttempt, VerdictTable
<1>11. QED
  BY <1>9, <1>10

LEMMA LostLoses ==
  ASSUME CommandTypeOK, \A c \in Commands : CommandRecorded(c),
         NEW lost \in SUBSET Commands, \A c \in lost : lease[c].state = "ACTIVE",
         NEW reason, MarkLeasesUnknown(lost, reason), UNCHANGED <<result, evidence, receipt, observing>>
  PROVE  Ledger!LoseAttempts
<1>1. ASSUME NEW c \in lost
      PROVE  /\ command[c].state = "LEASED" /\ command'[c].state = "UNKNOWN"
             /\ command'[c].attempt = command[c].attempt
             /\ command[c].attempt \in Attempts
  <2>1. CommandRecorded(c) /\ command[c] \in CommandRows
    BY DEF CommandTypeOK
  <2>2. QED
    BY <2>1, SMTT(30) DEF CommandRecorded, MarkLeasesUnknown, CommandRows, Attempts
<1>2. \A c, b, w : Shown(c, b, w)' <=> Shown(c, b, w)
  BY DEF Shown
<1>3. ASSUME NEW c \in Commands, NEW b \in Attempts
      PROVE  Verdict(c, b)' = IF c \in lost /\ Verdict(c, b) = "open" THEN "unknown" ELSE Verdict(c, b)
  <2>1. CASE c \notin lost
    BY <1>2, <2>1 DEF Verdict, MarkLeasesUnknown
  <2>2. CASE c \in lost /\ b # command[c].attempt
    BY <1>1, <1>2, <2>2 DEF Verdict
  <2>3. CASE c \in lost /\ b = command[c].attempt
    <3>1. b \in Nat /\ AttemptRecorded(c, b)
      BY AttemptNumber DEF CommandRecorded
    <3>2. Verdict(c, b) = "open"
      BY <1>1, <2>3, <3>1, SMTT(30) DEF Verdict
    <3>3. result[c][b] = "NONE" /\ \A x \in Sources : evidence[c][x][b] = "NONE"
      BY <1>1, <2>3, <3>1 DEF AttemptRecorded
    <3>4. ~Shown(c, b, "MATCHED")' /\ ~Shown(c, b, "NOT_APPLIED")' /\ result'[c][b] = "NONE"
      BY <3>3 DEF Shown
    <3>5. Verdict(c, b)' = "unknown"
      BY <1>1, <2>3, <3>1, <3>4, SMTT(30) DEF Verdict
    <3>6. QED
      BY <2>3, <3>2, <3>5
  <2>4. QED
    BY <2>1, <2>2, <2>3
<1>4. ASSUME NEW c \in lost PROVE \E a \in Attempts : VerdictTable[c][a] = "open"
  <2>1. PICK a \in Attempts : a = command[c].attempt
    BY <1>1
  <2>2. ~(a > command[c].attempt)
    BY <2>1, AttemptNumber
  <2>3. Verdict(c, a) = "open"
    BY <1>1, <2>1, <2>2 DEF Verdict
  <2>4. QED
    BY <2>1, <2>3 DEF VerdictTable
<1>5. VerdictTable' = [c \in Commands |-> [a \in Attempts |->
        IF c \in lost /\ VerdictTable[c][a] = "open" THEN "unknown" ELSE VerdictTable[c][a]]]
  BY <1>3 DEF VerdictTable
<1>6. QED
  BY <1>4, <1>5 DEF Ledger!LoseAttempts, VerdictTable, Attempts

\* Creating a Command, the clock, a refused Result and an observation that is
\* begun or aborted are not visible in the ledger.
LEMMA OthersStutter ==
  ASSUME CommandTypeOK, NEW c \in Commands, CommandRecorded(c), CommandStep(c), NEW a, NEW g, NEW v,
         \/ CreateExecutionCommand(c) \/ LeaseElapses(c) \/ RejectStaleCommandResult(c, a, g)
         \/ BeginVerificationObservation(c, a, g, v) \/ AbortVerificationObservation(c)
  PROVE  VerdictTable' = VerdictTable
<1>1. ASSUME CreateExecutionCommand(c), NEW b \in Attempts PROVE Verdict(c, b)' = Verdict(c, b)
  <2>1. command[c].attempt = 0 /\ command'[c].attempt = 0
    BY <1>1 DEF CreateExecutionCommand, CommandRecorded, CommandTypeOK, CommandRows
  <2>2. b > 0
    BY AttemptNumber
  <2>3. QED
    BY <2>1, <2>2 DEF Verdict
<1>2. ASSUME ~CreateExecutionCommand(c), NEW b \in Attempts PROVE Verdict(c, b)' = Verdict(c, b)
  BY <1>2, VerdictFrame DEF LeaseElapses, RejectStaleCommandResult, BeginVerificationObservation,
     AbortVerificationObservation
<1>3. \A d \in Commands, b \in Attempts : Verdict(d, b)' = Verdict(d, b)
  BY <1>1, <1>2, OtherVerdicts
<1>4. QED
  BY <1>3, NoVerdict

-----------------------------------------------------------------------------
\* CommandExecution implements AttemptLedger: initial tables show an empty
\* ledger and every transaction is a step of the ledger or a stutter.
THEOREM RefinementTheorem == Spec => ImplementsLedger
<1>1. Init => Ledger!LedgerInit
  <2> SUFFICES ASSUME Init PROVE Ledger!LedgerInit
    OBVIOUS
  <2>1. ASSUME NEW c \in Commands, NEW a \in Attempts PROVE Verdict(c, a) = "none"
    BY SMTT(30) DEF Init, Verdict, Attempts
  <2>2. QED
    BY <2>1 DEF Ledger!LedgerInit, Attempts
<1>2. ASSUME CommandInvariant, [Next]_vars
      PROVE  Ledger!LedgerNext \/ VerdictTable' = VerdictTable
  <2>1. CommandTypeOK /\ \A c \in Commands : CommandRecorded(c)
    BY <1>2 DEF CommandInvariant
  <2>2. ASSUME NEW c \in Commands, NEW a \in Attempts,
               \/ Ledger!StartAttempt(c, a) \/ Ledger!DecideAttempt(c, a) \/ Ledger!ResolveAttempt(c, a)
        PROVE  Ledger!LedgerNext
    BY <2>2 DEF Ledger!LedgerNext, Attempts
  <2>3. ASSUME NEW c \in Commands, CommandStep(c)
        PROVE  Ledger!LedgerNext \/ VerdictTable' = VerdictTable
    <3>1. CASE \E g \in 1..MaxArmed, s \in Scopes : AcquireCommandLease(c, g, s)
      BY <2>1, <2>2, <2>3, <3>1, AcquireStarts
    <3>2. CASE ExpireCommandLease(c)
      <4>1. {c} \in SUBSET Commands /\ \A x \in {c} : lease[x].state = "ACTIVE"
        BY <3>2 DEF ExpireCommandLease
      <4>2. Ledger!LoseAttempts
        BY <2>1, <3>2, <4>1, LostLoses DEF ExpireCommandLease
      <4>3. QED
        BY <4>2 DEF Ledger!LedgerNext
    <3>3. CASE AgentMessage(c)
      <4>1. PICK a \in Attempts, g \in 1..MaxSession :
              \/ \E o \in ReportedOutcomes, v \in Observations : AcceptAgentCommandResult(c, a, g, o, v)
              \/ RejectStaleCommandResult(c, a, g)
              \/ \E v \in Observations : BeginVerificationObservation(c, a, g, v)
        BY <3>3 DEF AgentMessage
      <4>2. CASE \E o \in ReportedOutcomes, v \in Observations : AcceptAgentCommandResult(c, a, g, o, v)
        BY <2>1, <2>2, <2>3, <4>2, AcceptDecides
      <4>3. CASE RejectStaleCommandResult(c, a, g) \/ \E v \in Observations : BeginVerificationObservation(c, a, g, v)
        BY <2>1, <2>3, <4>3, OthersStutter
      <4>4. QED
        BY <4>1, <4>2, <4>3
    <3>4. CASE CommitVerificationObservation(c)
      BY <2>1, <2>2, <2>3, <3>4, CommitResolves
    <3>5. CASE CreateExecutionCommand(c) \/ LeaseElapses(c) \/ AbortVerificationObservation(c)
      BY <2>1, <2>3, <3>5, OthersStutter
    <3>6. QED
      BY <2>3, <3>1, <3>2, <3>3, <3>4, <3>5 DEF CommandStep
  <2>4. ASSUME NEW h \in Hosts, FenceHostCommandLeases(h) PROVE Ledger!LedgerNext
    <3>1. ActiveLeasesOf(h) \in SUBSET Commands /\ \A x \in ActiveLeasesOf(h) : lease[x].state = "ACTIVE"
      BY DEF ActiveLeasesOf
    <3>2. Ledger!LoseAttempts
      BY <2>1, <2>4, <3>1, LostLoses DEF FenceHostCommandLeases
    <3>3. QED
      BY <3>2 DEF Ledger!LedgerNext
  <2>5. CASE UNCHANGED commandVars
    <3>1. \A c \in Commands, b \in Attempts : Verdict(c, b)' = Verdict(c, b)
      BY <2>5, VerdictFrame DEF commandVars
    <3>2. QED
      BY <3>1, NoVerdict
  <2>6. QED
    BY <1>2, <2>3, <2>4, <2>5 DEF Next, HostStep, vars
<1>3. CommandInvariant /\ [Next]_vars => [Ledger!LedgerNext]_VerdictTable
  BY <1>2
<1>4. QED
  BY <1>1, <1>3, CommandInvariantHolds, PTL DEF Spec, ImplementsLedger, Ledger!LedgerSpec, VerdictTable
=============================================================================
