-------------------------- MODULE CommandExecution --------------------------
(***************************************************************************)
(* Commands, Attempts, Leases, Results and Verification                    *)
(* (internal/persistence/postgres/execution.go), composed with the Host    *)
(* authority they depend on.                                               *)
(*                                                                         *)
(* A Command is leased to the Agent of its Host, one Attempt per Lease.    *)
(* The Attempt ends when its Result is accepted or when its Lease is lost  *)
(* (expired or fenced); a lost Attempt is UNKNOWN until a read-back        *)
(* observation says what the backend holds.                                *)
(*                                                                         *)
(* Production code records journal evidence, Result and Verification only  *)
(* through AcceptAgentCommandResult, in one transaction, so the EXECUTING  *)
(* and VERIFYING rows written inside it are never seen between actions.    *)
(* The Lease token is drawn per Attempt and only its digest is compared:   *)
(* presenting the token of Attempt a is presenting a.                      *)
(***************************************************************************)
EXTENDS HostAuthority

CONSTANTS Commands,          \* command ids
          HostOf,            \* the Host of each Command (execution_commands.host_id)
          ReadOnlyCommands,  \* Commands of the registered read-only types
          ReportedOutcomes,  \* outcomes Agents report
          Observations,      \* verification states their read-backs yield
          MaxAttempts        \* bound on Attempts per Command

Outcomes == {"SUCCEEDED", "FAILED", "UNKNOWN"}

VerificationStates == {"MATCHED", "NOT_APPLIED", "CONFLICTING", "UNKNOWN"}

ASSUME CommandsAssumption ==
  /\ HostOf \in [Commands -> Hosts]
  /\ ReadOnlyCommands \subseteq Commands
  /\ ReportedOutcomes \subseteq Outcomes
  /\ Observations \subseteq VerificationStates
  /\ MaxAttempts \in Nat

VARIABLES
  command,    \* execution_commands_current: command_state, current_attempt_index
  job,        \* execution_jobs.job_state of the Command's Job
  lease,      \* command_leases_current; generation = number of grants and of
              \* Lease delivery intents in the Outbox
  events,     \* command_attempt_events: the event types recorded per Attempt
  result,     \* command_results: the accepted outcome per Attempt
  evidence,   \* command_verification_evidence: state per source and Attempt
  receipt,    \* agent_message_receipts: disposition per source and Attempt
  observing   \* an AcceptAgentVerificationObservation transaction in progress

commandVars == <<command, job, lease, events, result, evidence, receipt, observing>>

vars == <<hostVars, commandVars>>

Attempts == 1..MaxAttempts

CommandStates == {"NONE", "PENDING", "LEASED", "SUCCEEDED", "FAILED", "UNKNOWN", "REDISPATCHABLE"}

JobStates == {"NONE", "DISPATCHABLE", "LEASED", "SUCCEEDED", "FAILED", "ACTION_REQUIRED"}

Sources == {"result", "resync"}  \* the two messages that carry an observation

EventTypes == {"LEASED", "JOURNALED", "RESULT_ACCEPTED", "UNKNOWN", "STALE_RESULT_REJECTED"}

Scopes == {"MUTATION", "READ_ONLY_VERIFICATION"}

NoObservation == [attempt |-> 0, session |-> 0, state |-> "NONE"]

\* The rows of each table.
CommandRows == [state : CommandStates, attempt : 0..MaxAttempts]

LeaseRows == [generation : 0..MaxAttempts, attempt : 0..MaxAttempts,
              authority : Revisions(MaxArmed), session : Revisions(MaxSession),
              scope : Scopes, elapsed : BOOLEAN,
              state : {"NONE", "ACTIVE", "CONSUMED", "EXPIRED", "FENCED"}]

ObservationRows == [attempt : 0..MaxAttempts, session : Revisions(MaxSession),
                    state : VerificationStates \cup {"NONE"}]

\* One type invariant: rows have the columns and states of their tables.
CommandTypeOK ==
  /\ HostTypeOK
  /\ command \in [Commands -> CommandRows]
  /\ job \in [Commands -> JobStates]
  /\ lease \in [Commands -> LeaseRows]
  /\ events \in [Commands -> [Attempts -> SUBSET EventTypes]]
  /\ result \in [Commands -> [Attempts -> Outcomes \cup {"NONE"}]]
  /\ evidence \in [Commands -> [Sources -> [Attempts -> VerificationStates \cup {"NONE"}]]]
  /\ receipt \in [Commands -> [Sources -> [Attempts -> {"NONE", "ACCEPTED", "STALE"}]]]
  /\ observing \in [Commands -> ObservationRows]

Init ==
  /\ HostInit
  /\ command = [c \in Commands |-> [state |-> "NONE", attempt |-> 0]]
  /\ job = [c \in Commands |-> "NONE"]
  /\ lease = [c \in Commands |-> [generation |-> 0, attempt |-> 0, authority |-> 0,
                                  session |-> 0, scope |-> "MUTATION", elapsed |-> FALSE,
                                  state |-> "NONE"]]
  /\ events = [c \in Commands |-> [a \in Attempts |-> {}]]
  /\ result = [c \in Commands |-> [a \in Attempts |-> "NONE"]]
  /\ evidence = [c \in Commands |-> [s \in Sources |-> [a \in Attempts |-> "NONE"]]]
  /\ receipt = [c \in Commands |-> [s \in Sources |-> [a \in Attempts |-> "NONE"]]]
  /\ observing = [c \in Commands |-> NoObservation]

-----------------------------------------------------------------------------
(***************************************************************************)
(* The authority a Lease needs                                             *)
(***************************************************************************)

\* readHostMutationAuthorityTx: every join of the query.
HostMutationAuthority(h, g) ==
  /\ authority[h].state = "ARMED"
  /\ authority[h].generation = g
  /\ identity[h] = [state |-> "APPROVED", generation |-> g]
  /\ session[h].generation = authority[h].session
  /\ session[h].state = "CURRENT"
  /\ sessionAuth[h].generation = authority[h].session
  /\ sessionAuth[h].capability = authority[h].capability
  /\ sessionAuth[h].state = "AUTHORIZED"
  /\ credential[h].revision = authority[h].credential
  /\ credential[h].state = "CURRENT" /\ credential[h].validity = "VALID"
  /\ enrollment[h] = [revision |-> authority[h].enrollment, state |-> "ENROLLED"]
  /\ gate[h].capability = authority[h].capability
  /\ gate[h].evidence = authority[h].evidence
  /\ gate[h].state = "READY"
  /\ capability[h] = [generation |-> authority[h].capability, state |-> "CURRENT"]

\* readHostReadOnlyVerificationAuthorityTx: a fenced authority is enough.
HostReadOnlyVerificationAuthority(h, g) ==
  /\ authority[h].state \in {"ARMED", "FENCED"}
  /\ authority[h].generation = g
  /\ identity[h].generation = g
  /\ session[h].state = "CURRENT"
  /\ sessionAuth[h].generation = session[h].generation
  /\ sessionAuth[h].state = "AUTHORIZED"

LeaseAuthority(c, g, scope) ==
  \/ scope = "MUTATION" /\ HostMutationAuthority(HostOf[c], g)
  \/ scope = "READ_ONLY_VERIFICATION" /\ c \in ReadOnlyCommands
       /\ HostReadOnlyVerificationAuthority(HostOf[c], g)

\* validateActiveLeaseTx: the Lease is in time and active, and the authority it
\* was granted from is unchanged.
ValidateActiveLease(c, a) ==
  /\ lease[c].state = "ACTIVE"
  /\ lease[c].attempt = a
  /\ ~lease[c].elapsed
  /\ LeaseAuthority(c, lease[c].authority, lease[c].scope)
  /\ session[HostOf[c]].generation = lease[c].session

-----------------------------------------------------------------------------
(***************************************************************************)
(* Creating and leasing                                                    *)
(***************************************************************************)

CreateExecutionCommand(c) ==
  /\ command[c].state = "NONE"
  /\ identity[HostOf[c]].state # "UNREGISTERED"
  /\ command' = [command EXCEPT ![c].state = "PENDING"]
  /\ job' = [job EXCEPT ![c] = "DISPATCHABLE"]
  /\ UNCHANGED <<hostVars, lease, events, result, evidence, receipt, observing>>

\* Mutant: an UNKNOWN Command is retried blindly.
LeasableStatesWithUnknown == {"PENDING", "REDISPATCHABLE", "UNKNOWN"}

LeasableStates == {"PENDING", "REDISPATCHABLE"}

\* g is the authority generation the dispatcher read with the candidate
\* (LoadCommandDispatchCandidate), in an earlier transaction.
AcquireCommandLease(c, g, scope) ==
  /\ command[c].state \in LeasableStates
  /\ command[c].attempt < MaxAttempts
  /\ LeaseAuthority(c, g, scope)
  /\ LET a == command[c].attempt + 1 IN
       /\ lease' = [lease EXCEPT ![c] =
            [generation |-> lease[c].generation + 1, attempt |-> a, authority |-> g,
             session |-> session[HostOf[c]].generation, scope |-> scope,
             elapsed |-> FALSE, state |-> "ACTIVE"]]
       /\ events' = [events EXCEPT ![c][a] = @ \cup {"LEASED"}]
       /\ command' = [command EXCEPT ![c] = [state |-> "LEASED", attempt |-> a]]
  /\ job' = [job EXCEPT ![c] = "LEASED"]
  /\ UNCHANGED <<hostVars, result, evidence, receipt, observing>>

-----------------------------------------------------------------------------
(***************************************************************************)
(* Losing a Lease                                                          *)
(***************************************************************************)

\* Database time passes expires_at.
LeaseElapses(c) ==
  /\ lease[c].state = "ACTIVE"
  /\ ~lease[c].elapsed
  /\ lease' = [lease EXCEPT ![c].elapsed = TRUE]
  /\ UNCHANGED <<hostVars, command, job, events, result, evidence, receipt, observing>>

\* markLeaseUnknownTx for every Command of lost: the Attempt, the Command and
\* the Job follow the Lease.
MarkLeasesUnknown(lost, reason) ==
  /\ lease' = [c \in Commands |-> IF c \in lost THEN [lease[c] EXCEPT !.state = reason]
                                  ELSE lease[c]]
  /\ events' = [c \in Commands |->
       IF c \in lost THEN [events[c] EXCEPT ![lease[c].attempt] = @ \cup {"UNKNOWN"}]
       ELSE events[c]]
  /\ command' = [c \in Commands |-> IF c \in lost THEN [command[c] EXCEPT !.state = "UNKNOWN"]
                                    ELSE command[c]]
  /\ job' = [c \in Commands |-> IF c \in lost THEN "ACTION_REQUIRED" ELSE job[c]]

\* Mutant: the sweep passes over Leases whose Host authority is fenced.
ExpireArmedCommandLease(c) ==
  /\ lease[c].state = "ACTIVE"
  /\ lease[c].elapsed
  /\ authority[HostOf[c]].state = "ARMED"
  /\ MarkLeasesUnknown({c}, "EXPIRED")
  /\ UNCHANGED <<hostVars, result, evidence, receipt, observing>>

\* The sweep of ExpireDueCommandLeases calls this once per due Lease.
ExpireCommandLease(c) ==
  /\ lease[c].state = "ACTIVE"
  /\ lease[c].elapsed
  /\ MarkLeasesUnknown({c}, "EXPIRED")
  /\ UNCHANGED <<hostVars, result, evidence, receipt, observing>>

\* Mutant: read-only verification Leases survive a fence.
MutationLeasesOf(h) ==
  {c \in Commands : HostOf[c] = h /\ lease[c].state = "ACTIVE" /\ lease[c].scope = "MUTATION"}

\* Mutant: Leases that already ended are fenced again.
GrantedLeasesOf(h) == {c \in Commands : HostOf[c] = h /\ lease[c].state # "NONE"}

ActiveLeasesOf(h) == {c \in Commands : HostOf[c] = h /\ lease[c].state = "ACTIVE"}

FenceHostCommandLeases(h) ==
  /\ MarkLeasesUnknown(ActiveLeasesOf(h), "FENCED")
  /\ UNCHANGED <<result, evidence, receipt, observing>>

-----------------------------------------------------------------------------
(***************************************************************************)
(* Results and read-back observations from the Agent                       *)
(***************************************************************************)

\* RecordCommandVerification applied to a Command in state s.
VerificationAllowed(s, v) ==
  /\ v = "MATCHED" => s \in {"VERIFYING", "UNKNOWN"}
  /\ v = "NOT_APPLIED" => s = "UNKNOWN"

\* Mutant: anything that does not match is dispatched again.
VerifiedStateOptimistic(v) == IF v = "MATCHED" THEN "SUCCEEDED" ELSE "REDISPATCHABLE"

VerifiedState(v) ==
  CASE v = "MATCHED" -> "SUCCEEDED"
    [] v = "NOT_APPLIED" -> "REDISPATCHABLE"
    [] OTHER -> "UNKNOWN"

\* The job_state each handler writes next to a command_state.
JobOf(s) ==
  CASE s = "UNKNOWN" -> "ACTION_REQUIRED"
    [] s = "REDISPATCHABLE" -> "DISPATCHABLE"
    [] OTHER -> s

\* The command_state AcceptCommandResult writes for an outcome.
ResultState(outcome) == IF outcome = "SUCCEEDED" THEN "VERIFYING" ELSE outcome

\* The session the message arrives on is the current one; a message of an older
\* session is refused before anything is read (ErrStaleCommandResult).
OnCurrentSession(h, g) == session[h].state = "CURRENT" /\ session[h].generation = g

\* AcceptAgentCommandResult while the Command is leased: journal evidence,
\* Result, Lease consumption, Verification and receipt in one transaction.
\* The receiver attaches the observation v to every outcome but FAILED; one
\* that RecordCommandVerification refuses rolls everything back.
AcceptAgentCommandResult(c, a, g, outcome, v) ==
  /\ receipt[c]["result"][a] = "NONE"
  /\ OnCurrentSession(HostOf[c], g)
  /\ command[c].state = "LEASED"
  /\ ValidateActiveLease(c, a)
  /\ outcome # "FAILED" => VerificationAllowed(ResultState(outcome), v)
  /\ LET s == IF outcome = "FAILED" THEN "FAILED" ELSE VerifiedState(v) IN
       /\ command' = [command EXCEPT ![c].state = s]
       /\ job' = [job EXCEPT ![c] = JobOf(s)]
  /\ lease' = [lease EXCEPT ![c].state = "CONSUMED"]
  /\ events' = [events EXCEPT ![c][a] = @ \cup {"JOURNALED", "RESULT_ACCEPTED"}]
  /\ result' = [result EXCEPT ![c][a] = outcome]
  /\ evidence' = [evidence EXCEPT ![c]["result"][a] = IF outcome = "FAILED" THEN @ ELSE v]
  /\ receipt' = [receipt EXCEPT ![c]["result"][a] = "ACCEPTED"]
  /\ UNCHANGED <<hostVars, observing>>

\* The Command is no longer leased and a is one of its recorded Attempts.
ResultIsLate(c, a) ==
  /\ command[c].state \notin {"NONE", "LEASED"}
  /\ a <= command[c].attempt

\* AcceptAgentCommandResult once the Command is no longer leased: the Result of
\* a recorded Attempt is answered with a STALE receipt.
RejectStaleCommandResult(c, a, g) ==
  /\ receipt[c]["result"][a] = "NONE"
  /\ OnCurrentSession(HostOf[c], g)
  /\ ResultIsLate(c, a)
  /\ events' = [events EXCEPT ![c][a] = @ \cup {"STALE_RESULT_REJECTED"}]
  /\ receipt' = [receipt EXCEPT ![c]["result"][a] = "STALE"]
  /\ UNCHANGED <<hostVars, command, job, lease, result, evidence, observing>>

\* AcceptAgentVerificationObservation takes no Host lock.  Its first query reads
\* session, authorization and Command without locking them ...
BeginVerificationObservation(c, a, g, v) ==
  /\ observing[c] = NoObservation
  /\ receipt[c]["resync"][a] = "NONE"
  /\ OnCurrentSession(HostOf[c], g)
  /\ sessionAuth[HostOf[c]].generation = g
  /\ sessionAuth[HostOf[c]].state = "AUTHORIZED"
  /\ command[c] = [state |-> "UNKNOWN", attempt |-> a]
  /\ observing' = [observing EXCEPT ![c] = [attempt |-> a, session |-> g, state |-> v]]
  /\ UNCHANGED <<hostVars, command, job, lease, events, result, evidence, receipt>>

\* ... then RecordCommandVerification locks the Command row and reads it again,
\* and acceptAgentMessageTx compares the message with the session that is
\* current by now.
CommitVerificationObservation(c) ==
  LET o == observing[c] IN
  /\ o # NoObservation
  /\ command[c].attempt = o.attempt
  /\ VerificationAllowed(command[c].state, o.state)
  /\ session[HostOf[c]].state = "CURRENT"
  /\ evidence' = [evidence EXCEPT ![c]["resync"][o.attempt] = o.state]
  /\ command' = [command EXCEPT ![c].state = VerifiedState(o.state)]
  /\ job' = [job EXCEPT ![c] = JobOf(VerifiedState(o.state))]
  /\ receipt' = [receipt EXCEPT ![c]["resync"][o.attempt] =
       IF session[HostOf[c]].generation = o.session THEN "ACCEPTED" ELSE "STALE"]
  /\ observing' = [observing EXCEPT ![c] = NoObservation]
  /\ UNCHANGED <<hostVars, lease, events, result>>

\* The transaction fails: a refused Verification, no current session, or a lost
\* database connection.
AbortVerificationObservation(c) ==
  /\ observing[c] # NoObservation
  /\ observing' = [observing EXCEPT ![c] = NoObservation]
  /\ UNCHANGED <<hostVars, command, job, lease, events, result, evidence, receipt>>

-----------------------------------------------------------------------------
(***************************************************************************)
(* Composition                                                             *)
(***************************************************************************)

HostStep ==
  \/ \E h \in Hosts : FencingStep(h) /\ FenceHostCommandLeases(h)
  \/ (DatabaseModeChanges \/ \E h \in Hosts : QuietStep(h)) /\ UNCHANGED commandVars

AgentMessage(c) ==
  \E a \in Attempts, g \in 1..MaxSession :
    \/ \E o \in ReportedOutcomes, v \in Observations : AcceptAgentCommandResult(c, a, g, o, v)
    \/ RejectStaleCommandResult(c, a, g)
    \/ \E v \in Observations : BeginVerificationObservation(c, a, g, v)

CommandStep(c) ==
  \/ CreateExecutionCommand(c)
  \/ \E g \in 1..MaxArmed, s \in Scopes : AcquireCommandLease(c, g, s)
  \/ LeaseElapses(c)
  \/ ExpireCommandLease(c)
  \/ AgentMessage(c)
  \/ CommitVerificationObservation(c)
  \/ AbortVerificationObservation(c)

Next == HostStep \/ \E c \in Commands : CommandStep(c)

Spec == Init /\ [][Next]_vars

\* Database time advances and the Worker's maintenance loop sweeps due Leases
\* for ever (ExpireDueCommandLeases); nothing else is promised to happen.
Fairness ==
  \A c \in Commands : WF_vars(LeaseElapses(c)) /\ WF_vars(ExpireCommandLease(c))

FairSpec == Spec /\ Fairness

-----------------------------------------------------------------------------
(***************************************************************************)
(* Properties                                                              *)
(***************************************************************************)

LeaseBasis(c) ==
  LET h == HostOf[c] IN
  /\ command[c].state = "LEASED"
  /\ command[c].attempt = lease[c].attempt
  /\ session[h].generation = lease[c].session
  /\ session[h].state = "CURRENT"
  /\ lease[c].scope = "MUTATION" =>
       /\ authority[h].state = "ARMED"
       /\ authority[h].session = lease[c].session
       /\ lease[c].authority <= authority[h].generation

\* No Lease dangles: an ACTIVE Lease is the Lease of the Command's current
\* Attempt, the session it was granted to is still the current one, and a
\* mutation Lease still stands under an ARMED authority bound to that session.
\* Every handler that changes Host authority must fence the Leases in the same
\* transaction, because an active Lease is only re-examined when it is used.
ActiveLeaseBasis ==
  \A c \in Commands : lease[c].state = "ACTIVE" => LeaseBasis(c)

EndsOnce(c, a) ==
  LET ended == events[c][a] \cap {"RESULT_ACCEPTED", "UNKNOWN"} IN
  /\ ended # {"RESULT_ACCEPTED", "UNKNOWN"}
  /\ a <= command[c].attempt =>
       (ended = {} <=> command[c].state = "LEASED" /\ a = command[c].attempt)
  /\ "RESULT_ACCEPTED" \in ended <=> result[c][a] # "NONE"

\* An Attempt ends exactly once, either with an accepted Result or UNKNOWN
\* because its Lease was lost, and the one Attempt that has not ended is the
\* current one of a leased Command.  A Result racing the expiry sweep or a
\* fence must not end it a second time (INV-EXEC-003, INV-EXEC-007).
AttemptEndsOnce == \A c \in Commands, a \in Attempts : EndsOnce(c, a)

\* Some recorded read-back of the Attempt found v.
Shown(c, a, v) == \E s \in Sources : evidence[c][s][a] = v

\* No blind retry: a Command is dispatched again only after a read-back proved
\* that the previous Attempt was NOT_APPLIED, and it is SUCCEEDED only with a
\* MATCHED read-back of its last Attempt, whatever the Agent reported
\* (INV-EXEC-006, INV-EXEC-008).
ReadBackDecides ==
  \A c \in Commands :
    /\ \A a \in 1..command[c].attempt - 1 : Shown(c, a, "NOT_APPLIED")
    /\ command[c].state = "REDISPATCHABLE" => Shown(c, command[c].attempt, "NOT_APPLIED")
    /\ command[c].state = "SUCCEEDED" => Shown(c, command[c].attempt, "MATCHED")

\* The job_state that goes with the command_state.
JobInStep(c) ==
  /\ job[c] = "DISPATCHABLE" <=> command[c].state \in {"PENDING", "REDISPATCHABLE"}
  /\ job[c] = "ACTION_REQUIRED" <=> command[c].state = "UNKNOWN"
  /\ job[c] \notin {"DISPATCHABLE", "ACTION_REQUIRED"} => job[c] = command[c].state

\* The Job a client sees is never out of step with its Command: each handler
\* updates two tables and none may update only one.
JobFollowsCommand == \A c \in Commands : JobInStep(c)

\* What no step does to the rows of a Command.
AppendOnly(c) ==
  /\ lease[c].state # "ACTIVE" /\ lease'[c].state = "ACTIVE"
       => lease'[c].generation > lease[c].generation /\ lease'[c].attempt > lease[c].attempt
  /\ command[c].state \in {"SUCCEEDED", "FAILED"} => command'[c] = command[c]
  /\ \A a \in Attempts :
       /\ events[c][a] \subseteq events'[c][a]
       /\ result[c][a] # "NONE" => result'[c][a] = result[c][a]
       /\ \A s \in Sources :
            /\ evidence[c][s][a] # "NONE" => evidence'[c][s][a] = evidence[c][s][a]
            /\ receipt[c][s][a] # "NONE" => receipt'[c][s][a] = receipt[c][s][a]

\* A lost or consumed Lease never becomes current again, Attempts are never
\* reused, terminal Commands never change, and an accepted Result, recorded
\* evidence or receipt is never rewritten (INV-EXEC-005, INV-EXEC-010).
HistoryIsAppendOnly == [][\A c \in Commands : AppendOnly(c)]_vars

\* Every Lease ends: no Command stays leased for ever, even if its Agent never
\* answers (the Worker's expiry sweep).
LeaseEnds ==
  \A c \in Commands : command[c].state = "LEASED" ~> command[c].state # "LEASED"

\* What docs/agent-protocol.md says of messages from a stale session: they do
\* not advance current authority.  A message answered with a STALE receipt
\* must have left no Verification behind.
StaleObservationIsInert ==
  \A c \in Commands, a \in Attempts :
    receipt[c]["resync"][a] = "STALE" => evidence[c]["resync"][a] = "NONE"

\* What docs/architecture-invariants.md (INV-EXEC-028) says of the Result of an
\* expired or fenced Attempt: its first replay over the current session is
\* answered with a durable STALE receipt and does not fail the session.
LostAttemptIsAnswerable ==
  \A c \in Commands, a \in Attempts :
    "UNKNOWN" \in events[c][a] /\ receipt[c]["result"][a] = "NONE" => ResultIsLate(c, a)

=============================================================================
