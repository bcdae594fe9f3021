-------------------------- MODULE DeliveryIntents --------------------------
(***************************************************************************)
(* The delivery intents of one Host, as the publisher and the Gateway see  *)
(* them: what PostgreSQL says of an intent when it is read again before a  *)
(* message is handed on (command_delivery.go), and how often the bus       *)
(* stored it.                                                              *)
(*                                                                         *)
(* An intent is written for one session generation of the Host.  A Lease   *)
(* intent is current while its Lease and the Host authority are; these are *)
(* lost for good (CommandExecution).  A Verification intent is current     *)
(* while its Command is UNKNOWN and the session is AUTHORIZED, and the     *)
(* authorization of a session comes and goes with the inventory            *)
(* (HostAuthority).                                                        *)
(***************************************************************************)
EXTENDS Integers

CONSTANTS Messages,       \* outbox message ids, which are also the bus message ids
          Verifications,  \* the COMMAND_VERIFICATION_DELIVERY_REQUESTED ones
          GenerationOf,   \* the session generation each intent is written for
          MaxSession      \* bound on session generations

ASSUME MessagesAssumption ==
  /\ Verifications \subseteq Messages
  /\ MaxSession \in Nat \ {0}
  /\ GenerationOf \in [Messages -> 1..MaxSession]

VARIABLES
  current,  \* agent_transport_sessions_current.session_generation of the Host
  basis,    \* what each intent rests on: its Lease and the Host authority, or
            \* its UNKNOWN Command and the session authorization
  stream    \* how often the bus stored each message id

authorityVars == <<current, basis>>

IntentsTypeOK ==
  /\ current \in 1..MaxSession
  /\ basis \in [Messages -> {"unwritten", "held", "withheld", "gone"}]
  /\ stream \in [Messages -> Nat]

IntentsInit ==
  /\ current = 1
  /\ basis = [m \in Messages |-> "unwritten"]
  /\ stream = [m \in Messages |-> 0]

\* loadCurrentCommandDeliveryTx, and the query of
\* AcceptInternalVerificationDelivery: the intent may be handed on.
Current(m) == basis[m] = "held" /\ current = GenerationOf[m]

\* AcquireCommandLease writes its intent with the Lease,
\* EnqueuePendingCommandVerifications one per UNKNOWN Command, attempt and
\* authorized session; neither writes an id twice.
WriteIntent(m) ==
  /\ basis[m] = "unwritten"
  /\ current = GenerationOf[m]
  /\ \A v \in Messages : basis[v] # "withheld"
  /\ basis' = [basis EXCEPT ![m] = "held"]
  /\ UNCHANGED current

\* AdmitAgentSession fences the Leases of the Host.  The new session is
\* authorized if the old one was.
AdmitSession ==
  /\ current < MaxSession
  /\ current' = current + 1
  /\ basis' = [m \in Messages |->
       IF basis[m] = "held" /\ m \notin Verifications THEN "gone" ELSE basis[m]]

\* The Lease expires or is answered, the Command is resolved.
BasisEnds(m) ==
  /\ basis[m] \in {"held", "withheld"}
  /\ basis' = [basis EXCEPT ![m] = "gone"]
  /\ UNCHANGED current

\* A PARTIAL inventory: the session is no longer AUTHORIZED, the Host is fenced.
AuthorizationWithdrawn ==
  /\ \E m \in Messages : basis[m] = "held"
  /\ basis' = [m \in Messages |->
       IF basis[m] # "held" THEN basis[m]
       ELSE IF m \in Verifications THEN "withheld" ELSE "gone"]
  /\ UNCHANGED current

\* A complete inventory: the session is AUTHORIZED again.
AuthorizationReturns ==
  /\ \E m \in Messages : basis[m] = "withheld"
  /\ basis' = [m \in Messages |-> IF basis[m] = "withheld" THEN "held" ELSE basis[m]]
  /\ UNCHANGED current

AuthorityChanges ==
  \/ \E m \in Messages : BasisEnds(m)
  \/ AuthorizationWithdrawn
  \/ AuthorizationReturns
=============================================================================
