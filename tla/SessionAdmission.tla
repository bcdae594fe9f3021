-------------------------- MODULE SessionAdmission --------------------------
(***************************************************************************)
(* How a Host Agent and PostgreSQL agree on a session generation           *)
(* (internal/agent/hostruntime, internal/agent/sessiongeneration,          *)
(* AdmitAgentSession).  The Agent proposes the generation after the last   *)
(* one in its durable ledger and advances the ledger only when             *)
(* SessionAccepted has arrived; PostgreSQL grants the generation after its *)
(* own current one and nothing else.                                       *)
(*                                                                         *)
(* Every handshake of the Agent has a fresh attempt id, so PostgreSQL      *)
(* never sees one twice.  A handshake the Agent has given up may still be  *)
(* admitted.  The checks of Host, credential and database mode are those   *)
(* of HostAuthority; here they may refuse any handshake.                   *)
(***************************************************************************)
EXTENDS Integers

CONSTANTS Connections,   \* transport connections, reused once they are gone
          MaxGeneration  \* bound on granted generations; faults spare the last

ASSUME SessionAssumption == MaxGeneration \in Nat \ {0}

VARIABLES
  ledger,      \* sessiongeneration: accepted_generation in current.json
  registered,  \* agent_transport_sessions_current.session_generation
  agent,       \* what the Agent process does, over which connection, as which
               \* generation
  handshake    \* each connection: the generation in SessionHello and how far
               \* the handshake got

sessionVars == <<ledger, registered, agent, handshake>>

NoConnection == "none"

ASSUME ConnectionsAssumption == NoConnection \notin Connections

Free == [state |-> "free", generation |-> 0]

Down == [step |-> "down", connection |-> NoConnection, generation |-> 0]

Reconnecting == [step |-> "reconnecting", connection |-> NoConnection, generation |-> 0]

Generations == 0..MaxGeneration

SessionTypeOK ==
  /\ ledger \in Generations
  /\ registered \in Generations
  /\ agent \in [step : {"down", "reconnecting", "opening", "accepted", "running"},
                connection : Connections \cup {NoConnection}, generation : 0..(MaxGeneration + 1)]
  /\ agent.connection = NoConnection <=> agent.step \in {"down", "reconnecting"}
  /\ handshake \in [Connections -> [state : {"free", "hello", "granted", "rejected"},
                                    generation : 0..(MaxGeneration + 1)]]

SessionInit ==
  /\ ledger = 0
  /\ registered = 0
  /\ agent = Down
  /\ handshake = [c \in Connections |-> Free]

-----------------------------------------------------------------------------
(***************************************************************************)
(* The Agent                                                               *)
(***************************************************************************)

\* hostruntime.Run starts and reads the ledger.
Start ==
  /\ agent = Down
  /\ agent' = Reconnecting
  /\ UNCHANGED <<ledger, registered, handshake>>

\* Mutant: a proposal consumes its generation.
ProposeConsuming(c) ==
  /\ agent = Reconnecting
  /\ handshake[c] = Free
  /\ ledger < MaxGeneration
  /\ ledger' = ledger + 1
  /\ agent' = [step |-> "opening", connection |-> c, generation |-> ledger + 1]
  /\ handshake' = [handshake EXCEPT ![c] = [state |-> "hello", generation |-> ledger + 1]]
  /\ UNCHANGED registered

\* Ledger.Next and Manager.Open: a new attempt for the next generation.
Propose(c) ==
  /\ agent = Reconnecting
  /\ handshake[c] = Free
  /\ agent' = [step |-> "opening", connection |-> c, generation |-> ledger + 1]
  /\ handshake' = [handshake EXCEPT ![c] = [state |-> "hello", generation |-> ledger + 1]]
  /\ UNCHANGED <<ledger, registered>>

\* Manager.Open returns an error: a rejection, or the Agent sees the connection
\* break, while the Gateway may still be working on the handshake.
OpenFails ==
  /\ agent.step = "opening"
  /\ agent' = Reconnecting
  /\ handshake' = [handshake EXCEPT ![agent.connection] =
       IF handshake[agent.connection].state = "hello" THEN @ ELSE Free]
  /\ UNCHANGED <<ledger, registered>>

ReceiveAccepted ==
  /\ agent.step = "opening"
  /\ handshake[agent.connection].state = "granted"
  /\ agent' = [agent EXCEPT !.step = "accepted"]
  /\ UNCHANGED <<ledger, registered, handshake>>

CommitAccepted ==
  /\ agent.step = "accepted"
  /\ ledger' = agent.generation
  /\ agent' = [agent EXCEPT !.step = "running"]
  /\ UNCHANGED <<registered, handshake>>

CloseConnection ==
  handshake' = IF agent.connection = NoConnection THEN handshake
               ELSE [handshake EXCEPT ![agent.connection] =
                 IF handshake[agent.connection].state = "hello" THEN @ ELSE Free]

\* CommitAccepted fails and Run returns; the rename may have taken effect.
CommitFails ==
  /\ agent.step = "accepted"
  /\ registered < MaxGeneration
  /\ ledger' \in {ledger, agent.generation}
  /\ agent' = Down
  /\ CloseConnection
  /\ UNCHANGED registered

\* Runner.Run returns and the connection is closed.
SessionEnds ==
  /\ agent.step = "running"
  /\ registered < MaxGeneration
  /\ agent' = Reconnecting
  /\ CloseConnection
  /\ UNCHANGED <<ledger, registered>>

AgentCrash ==
  /\ agent # Down
  /\ registered < MaxGeneration
  /\ agent' = Down
  /\ CloseConnection
  /\ UNCHANGED <<ledger, registered>>

-----------------------------------------------------------------------------
(***************************************************************************)
(* The Gateway and PostgreSQL                                              *)
(***************************************************************************)

Grantable(g) == g = registered + 1

\* AdmitAgentSession: the new generation, or ErrSessionGenerationConflict.
AdmitAgentSessionAttempt(c) ==
  /\ handshake[c].state = "hello"
  /\ handshake[c].generation <= MaxGeneration
  /\ IF Grantable(handshake[c].generation)
       THEN /\ registered' = handshake[c].generation
            /\ handshake' = [handshake EXCEPT ![c].state = "granted"]
       ELSE /\ handshake' = [handshake EXCEPT ![c].state = "rejected"]
            /\ UNCHANGED registered
  /\ UNCHANGED <<ledger, agent>>

\* Admission limits, another check of AdmitAgentSession or a database error.
RefuseHandshake(c) ==
  /\ handshake[c].state = "hello"
  /\ handshake' = [handshake EXCEPT ![c].state = "rejected"]
  /\ UNCHANGED <<ledger, registered, agent>>

\* The connection of a handshake the Agent has given up is gone.
ForgetHandshake(c) ==
  /\ handshake[c] # Free
  /\ agent.connection # c
  /\ handshake' = [handshake EXCEPT ![c] = Free]
  /\ UNCHANGED <<ledger, registered, agent>>

-----------------------------------------------------------------------------
AgentStep ==
  \/ Start
  \/ \E c \in Connections : Propose(c)
  \/ OpenFails \/ ReceiveAccepted
  \/ CommitAccepted \/ CommitFails
  \/ SessionEnds \/ AgentCrash

GatewayStep ==
  \E c \in Connections : AdmitAgentSessionAttempt(c) \/ RefuseHandshake(c) \/ ForgetHandshake(c)

SessionNext == AgentStep \/ GatewayStep

SessionSpec == SessionInit /\ [][SessionNext]_sessionVars

\* The Agent is restarted and, however often it dies, gets to propose; the
\* Gateway answers, abandoned connections end, and what is tried again and again
\* is not refused, broken or killed every time.
SessionFairness ==
  /\ WF_sessionVars(Start)
  /\ SF_sessionVars(\E c \in Connections : Propose(c))
  /\ SF_sessionVars(ReceiveAccepted)
  /\ SF_sessionVars(CommitAccepted)
  /\ WF_sessionVars(OpenFails)
  /\ \A c \in Connections :
       SF_sessionVars(AdmitAgentSessionAttempt(c)) /\ WF_sessionVars(ForgetHandshake(c))

FairSessionSpec == SessionSpec /\ SessionFairness

-----------------------------------------------------------------------------
\* The ledger is never ahead of PostgreSQL and never more than one generation
\* behind, whatever replies are lost, connections abandoned and processes killed
\* between the grant and the rename; a running Agent runs as the generation
\* PostgreSQL calls current, so that no handshake given up earlier is admitted
\* late and supersedes it (INV-EXEC-016).
LedgerTracksRegistry ==
  /\ ledger <= registered /\ registered <= ledger + 1
  /\ agent.step = "running" => agent.generation = registered /\ ledger = registered

\* docs/agent-protocol.md: after a transport loss the Agent goes on to a new
\* Session Grant.
AgentReconnects == []<>(agent.step = "running")
=============================================================================
