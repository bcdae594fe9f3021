--------------------------- MODULE GatewayRouting ---------------------------
(***************************************************************************)
(* From the bus to the Agent's stream: the durable consumer                *)
(* (internal/messaging/natsjs), the delivery handler of the Gateway        *)
(* (internal/execution/delivery/gateway.go) and the process-local registry *)
(* of live streams (internal/agent/gateway/outbound_registry.go), for one  *)
(* Host and several Gateway processes that share the consumer.             *)
(***************************************************************************)
EXTENDS DeliveryIntents

CONSTANTS Gateways,  \* Gateway processes
          MaxStored  \* bound on how often the bus stores a message

ASSUME GatewayAssumption == MaxStored \in Nat \ {0}

VARIABLES
  pending,   \* bus entries of each message, in the order they were stored, that
             \* were not acknowledged
  inbox,     \* inbox_messages.decision_state: the first decision
  routes,    \* gateway_command_delivery_events: event types of each message
  handler,   \* the entry each Gateway handles and how far it got
  registry,  \* OutboundRegistry: the registered generation, 0 for none
  streams,   \* the Host's gRPC streams at each Gateway, by session generation
  written    \* the session generations whose stream the message was written to

routeVars == <<pending, inbox, routes, handler, written>>

gatewayVars == <<routeVars, registry, streams>>

NoDelivery == "none"

Waiting == [message |-> NoDelivery, entry |-> 0, sink |-> 0, step |-> "waiting"]

Sessions == 1..MaxSession

GatewayTypeOK ==
  /\ IntentsTypeOK
  /\ \A m \in Messages : pending[m] \subseteq 1..stream[m]
  /\ inbox \in [Messages -> {"NONE", "ACCEPTED", "REJECTED"}]
  /\ routes \in [Messages -> SUBSET {"ROUTE_STARTED", "ROUTE_ACCEPTED", "ROUTE_UNKNOWN"}]
  /\ \A m \in Messages : routes[m] # {} => inbox[m] # "NONE"
  /\ handler \in [Gateways -> [message : Messages \cup {NoDelivery}, entry : Nat, sink : 0..MaxSession,
       step : {"waiting", "fetched", "accepted", "started", "found", "sent", "failed"}]]
  /\ registry \in [Gateways -> 0..MaxSession]
  /\ streams \in [Gateways -> [Sessions -> {"none", "granted", "open", "closed"}]]
  /\ written \in [Messages -> SUBSET Sessions]

GatewayInit ==
  /\ IntentsInit
  /\ pending = [m \in Messages |-> {}]
  /\ inbox = [m \in Messages |-> "NONE"]
  /\ routes = [m \in Messages |-> {}]
  /\ handler = [gw \in Gateways |-> Waiting]
  /\ registry = [gw \in Gateways |-> 0]
  /\ streams = [gw \in Gateways |-> [g \in Sessions |-> "none"]]
  /\ written = [m \in Messages |-> {}]

-----------------------------------------------------------------------------
(***************************************************************************)
(* Streams of the Host and the OutboundRegistry                            *)
(***************************************************************************)

\* Authorize granted the session and SessionAccepted is sent; the stream is
\* registered only after that.
GrantStream(gw) ==
  /\ AdmitSession
  /\ streams' = [streams EXCEPT ![gw][current + 1] = "granted"]
  /\ UNCHANGED <<routeVars, registry, stream>>

\* OutboundRegistry.Register refuses a generation that is not newer, and
\* Connect returns.
RegisterStream(gw, g) ==
  /\ streams[gw][g] = "granted"
  /\ IF registry[gw] >= g
       THEN streams' = [streams EXCEPT ![gw][g] = "closed"] /\ UNCHANGED registry
       ELSE /\ streams' = [streams EXCEPT ![gw][g] = "open"]
            /\ registry' = [registry EXCEPT ![gw] = g]
  /\ UNCHANGED <<routeVars, authorityVars, stream>>

\* Mutant: an ending stream removes whatever entry its Host has.
ReleaseAny(gw, g) == registry' = [registry EXCEPT ![gw] = 0]

\* The deferred release removes the entry only if it is its own.
Release(gw, g) == registry' = [registry EXCEPT ![gw] = IF @ = g THEN 0 ELSE @]

\* Connect returns: the Agent left, the connection broke, a frame was refused.
CloseStream(gw, g) ==
  /\ streams[gw][g] \in {"granted", "open"}
  /\ streams' = [streams EXCEPT ![gw][g] = "closed"]
  /\ IF streams[gw][g] = "open" THEN Release(gw, g) ELSE UNCHANGED registry
  /\ UNCHANGED <<routeVars, authorityVars, stream>>

-----------------------------------------------------------------------------
(***************************************************************************)
(* Handling one bus entry                                                  *)
(***************************************************************************)

\* The bus offers a message it has just stored.
Offer(m) == pending' = [pending EXCEPT ![m] = @ \cup {stream'[m]}]

\* Consumer.Next.  An entry that is not acknowledged in time may be in the
\* hands of two Gateways.
Fetch(gw, m) ==
  /\ handler[gw] = Waiting
  /\ \E e \in pending[m] :
       handler' = [handler EXCEPT ![gw] =
         [message |-> m, entry |-> e, sink |-> 0, step |-> "fetched"]]
  /\ UNCHANGED <<pending, inbox, routes, written, registry, streams>>

Proceed(gw, step) == handler' = [handler EXCEPT ![gw].step = step]

Ack(gw) ==
  /\ pending' = [pending EXCEPT ![handler[gw].message] = @ \ {handler[gw].entry}]
  /\ handler' = [handler EXCEPT ![gw] = Waiting]

\* NAK, or an acknowledgement that does not reach the bus: the entry stays.
Nak(gw) == UNCHANGED pending /\ handler' = [handler EXCEPT ![gw] = Waiting]

\* Mutant: an entry accepted before is trusted.
AuthorityDecisionOnce(m) ==
  IF inbox[m] # "NONE" THEN inbox[m] ELSE IF Current(m) THEN "ACCEPTED" ELSE "REJECTED"

\* Authority is read again on every delivery, duplicates included.
AuthorityDecision(m) == IF Current(m) THEN "ACCEPTED" ELSE "REJECTED"

\* Handle after the Inbox transaction: a REJECTED entry is acknowledged and goes
\* nowhere, anything else is routed.
Decided(gw, decision) ==
  IF decision = "REJECTED" THEN Ack(gw) ELSE Proceed(gw, "accepted") /\ UNCHANGED pending

\* AcceptInternalCommandDelivery, AcceptInternalVerificationDelivery.  The Inbox
\* keeps the first decision.
AcceptDelivery(gw) ==
  LET m == handler[gw].message IN
  /\ handler[gw].step = "fetched"
  /\ inbox' = [inbox EXCEPT ![m] = IF @ = "NONE" THEN AuthorityDecision(m) ELSE @]
  /\ Decided(gw, AuthorityDecision(m))
  /\ UNCHANGED <<routes, written, registry, streams>>

\* The Inbox transaction fails.  AcceptInternalCommandDelivery returns the error.
\* AcceptInternalVerificationDelivery drops it and returns what it had decided
\* so far: nothing, the first decision it read, or the one it could not commit.
AcceptFails(gw) ==
  LET m == handler[gw].message IN
  /\ handler[gw].step = "fetched"
  /\ IF m \in Verifications
       THEN \E decision \in {"NONE", inbox[m], AuthorityDecision(m)} : Decided(gw, decision)
       ELSE Nak(gw)
  /\ UNCHANGED <<inbox, routes, written, registry, streams>>

RecordGatewayCommandRoute(gw, type) ==
  routes' = [routes EXCEPT ![handler[gw].message] = @ \cup {type}]

\* Route evidence refers to the Inbox row (a foreign key): without one the
\* insert fails.
StartGatewayCommandRoute(gw) ==
  /\ handler[gw].step = "accepted"
  /\ IF inbox[handler[gw].message] # "NONE"
       THEN /\ RecordGatewayCommandRoute(gw, "ROUTE_STARTED")
            /\ Proceed(gw, "started") /\ UNCHANGED pending
       ELSE Nak(gw) /\ UNCHANGED routes
  /\ UNCHANGED <<inbox, written, registry, streams>>

\* Mutant: any live stream of the Host will do.
RoutableToAny(gw, m) == registry[gw] # 0

Routable(gw, m) == registry[gw] = GenerationOf[m]

\* OutboundRegistry.Send, under the lock: the stream of exactly the generation
\* the message names.
FindSink(gw) ==
  /\ handler[gw].step = "started"
  /\ IF Routable(gw, handler[gw].message)
       THEN handler' = [handler EXCEPT ![gw].sink = registry[gw], ![gw].step = "found"]
       ELSE Proceed(gw, "failed")
  /\ UNCHANGED <<pending, inbox, routes, written, registry, streams>>

WrittenTo(gw) ==
  written' = [written EXCEPT ![handler[gw].message] = @ \cup {handler[gw].sink}]

\* OutboundRegistry.Send, after the lock: the write to that stream, which may
\* have ended or been replaced meanwhile.
WriteSink(gw) ==
  /\ handler[gw].step = "found"
  /\ streams[gw][handler[gw].sink] = "open"
  /\ WrittenTo(gw)
  /\ Proceed(gw, "sent")
  /\ UNCHANGED <<pending, inbox, routes, registry, streams>>

\* An error of the write: the Agent may still get the message.
WriteFails(gw) ==
  /\ handler[gw].step = "found"
  /\ WrittenTo(gw) \/ UNCHANGED written
  /\ Proceed(gw, "failed")
  /\ UNCHANGED <<pending, inbox, routes, registry, streams>>

RouteAccepted(gw) ==
  /\ handler[gw].step = "sent"
  /\ RecordGatewayCommandRoute(gw, "ROUTE_ACCEPTED")
  /\ Ack(gw)
  /\ UNCHANGED <<inbox, written, registry, streams>>

\* Mutant: an entry is acknowledged whether the stream took it or not.
RouteUnknownAcknowledged(gw) ==
  /\ handler[gw].step = "failed"
  /\ RecordGatewayCommandRoute(gw, "ROUTE_UNKNOWN")
  /\ Ack(gw)
  /\ UNCHANGED <<inbox, written, registry, streams>>

RouteUnknown(gw) ==
  /\ handler[gw].step = "failed"
  /\ RecordGatewayCommandRoute(gw, "ROUTE_UNKNOWN")
  /\ Nak(gw)
  /\ UNCHANGED <<inbox, written, registry, streams>>

\* A route transaction fails and the entry is NAKed.
RouteFails(gw) ==
  /\ handler[gw].step \in {"accepted", "sent", "failed"}
  /\ Nak(gw)
  /\ UNCHANGED <<inbox, routes, written, registry, streams>>

\* The acknowledgement of a routed or rejected entry is lost after its
\* transaction has committed.
AckLost(gw) ==
  LET m == handler[gw].message IN
  /\ \/ /\ handler[gw].step = "sent"
        /\ RecordGatewayCommandRoute(gw, "ROUTE_ACCEPTED")
        /\ UNCHANGED inbox
     \/ /\ handler[gw].step = "fetched"
        /\ AuthorityDecision(m) = "REJECTED"
        /\ inbox' = [inbox EXCEPT ![m] = IF @ = "NONE" THEN "REJECTED" ELSE @]
        /\ UNCHANGED routes
  /\ Nak(gw)
  /\ UNCHANGED <<written, registry, streams>>

\* The process dies: its streams break and its registry is gone.
GatewayCrash(gw) ==
  /\ handler' = [handler EXCEPT ![gw] = Waiting]
  /\ registry' = [registry EXCEPT ![gw] = 0]
  /\ streams' = [streams EXCEPT ![gw] =
       [g \in Sessions |-> IF streams[gw][g] = "none" THEN "none" ELSE "closed"]]
  /\ UNCHANGED <<pending, inbox, routes, written>>

-----------------------------------------------------------------------------
\* What the loop of Consumer.Run does of its own accord.
HandleStep(gw) ==
  \/ AcceptDelivery(gw)
  \/ StartGatewayCommandRoute(gw)
  \/ FindSink(gw) \/ WriteSink(gw) \/ WriteFails(gw)
  \/ RouteAccepted(gw) \/ RouteUnknown(gw)

HandleFault(gw) == AcceptFails(gw) \/ RouteFails(gw) \/ AckLost(gw) \/ GatewayCrash(gw)

ConsumeStep(gw) ==
  \/ \E m \in Messages : Fetch(gw, m)
  \/ HandleStep(gw)
  \/ HandleFault(gw)

StreamStep(gw) ==
  \/ GrantStream(gw)
  \/ \E g \in Sessions : RegisterStream(gw, g) \/ CloseStream(gw, g)

-----------------------------------------------------------------------------
(***************************************************************************)
(* The Gateways behind a bus that stores intents at will                   *)
(***************************************************************************)

Leases == Messages \ Verifications

allGatewayVars == <<gatewayVars, authorityVars, stream>>

\* A Worker publishes an intent that was written (OutboxDelivery).
BusStores(m) ==
  /\ basis[m] # "unwritten"
  /\ stream[m] < MaxStored
  /\ stream' = [stream EXCEPT ![m] = @ + 1]
  /\ Offer(m)
  /\ UNCHANGED <<inbox, routes, handler, written, registry, streams, authorityVars>>

Alone(A) == A /\ UNCHANGED <<authorityVars, stream>>

GatewayNext ==
  \/ \E gw \in Gateways : Alone(ConsumeStep(gw)) \/ StreamStep(gw)
  \/ \E m \in Messages : BusStores(m)
  \/ /\ (\E m \in Messages : WriteIntent(m)) \/ AuthorityChanges
     /\ UNCHANGED <<gatewayVars, stream>>

GatewaySpec == GatewayInit /\ [][GatewayNext]_allGatewayVars

-----------------------------------------------------------------------------
(***************************************************************************)
(* Properties                                                              *)
(***************************************************************************)

\* The stream of the current session can be reached as long as it is open: no
\* order of a new registration and the deferred release of an older stream
\* loses its entry, and an entry never outlives its stream.
CurrentStreamIsRegistered ==
  \A gw \in Gateways :
    /\ registry[gw] # 0 => streams[gw][registry[gw]] = "open"
    /\ streams[gw][current] = "open" => registry[gw] = current

\* A message is written only to the stream of the session it names, and only
\* after the route was recorded; a Lease message, moreover, only if the Inbox
\* accepted it (INV-EXEC-020).
RoutedToItsSession ==
  \A m \in Messages :
    written[m] # {} =>
      /\ written[m] = {GenerationOf[m]}
      /\ "ROUTE_STARTED" \in routes[m]
      /\ m \in Leases => inbox[m] = "ACCEPTED"

\* A Gateway that goes on to route message m, whose Inbox row exists, does so
\* while m is current.
AcceptsOnlyCurrent(m) ==
  \A gw \in Gateways :
    handler[gw].message = m /\ handler[gw].step = "fetched"
      /\ handler'[gw].step = "accepted" /\ inbox'[m] # "NONE" => Current(m)

\* A Lease message is revalidated on every delivery, and the outcome of the
\* last revalidation, not an earlier one, decides (INV-EXEC-020).
LeaseRevalidated == [][\A m \in Leases : AcceptsOnlyCurrent(m)]_allGatewayVars

=============================================================================
