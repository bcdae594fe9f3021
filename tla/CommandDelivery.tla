--------------------------- MODULE CommandDelivery ---------------------------
(***************************************************************************)
(* The whole path of a delivery intent: the Workers of OutboxDelivery and  *)
(* the Gateways of GatewayRouting around the bus they share.  What a       *)
(* publish stores, a Gateway may fetch.                                    *)
(***************************************************************************)
EXTENDS OutboxDelivery, GatewayRouting

pathVars == <<outboxVars, gatewayVars, authorityVars, stream>>

\* A step of the Workers or of database time; a message that the bus stores
\* becomes an entry of the consumer.
WorkerStep(A) ==
  /\ A
  /\ pending' = [m \in Messages |->
       IF stream'[m] = stream[m] THEN pending[m] ELSE pending[m] \cup {stream'[m]}]
  /\ UNCHANGED <<inbox, routes, handler, written, registry, streams, authorityVars>>

ConsumerStep(A) == A /\ UNCHANGED <<outboxVars, authorityVars, stream>>

PathNext ==
  \/ WorkerStep(OutboxStep)
  \/ \E gw \in Gateways : ConsumerStep(ConsumeStep(gw))
  \/ (\E gw \in Gateways : StreamStep(gw)) /\ UNCHANGED outboxVars
  \/ (\E m \in Messages : Enqueue(m)) /\ UNCHANGED gatewayVars
  \/ AuthorityChanges /\ UNCHANGED <<outboxVars, gatewayVars, stream>>

PathInit == OutboxInit /\ GatewayInit

PathSpec == PathInit /\ [][PathNext]_pathVars

\* The fairness of OutboxDelivery.  A Gateway that keeps asking is offered an
\* entry that stays unacknowledged, and neither its transactions nor its writes
\* to an open stream fail every time.
PathFairness ==
  /\ \A w \in Workers : WF_pathVars(WorkerStep(PublishStep(w)))
  /\ \A m \in Messages : WF_pathVars(WorkerStep(ClaimElapses(m)))
  /\ \A gw \in Gateways :
       /\ WF_pathVars(ConsumerStep(HandleStep(gw)))
       /\ \A m \in Messages : SF_pathVars(ConsumerStep(Fetch(gw, m)))
       /\ SF_pathVars(ConsumerStep(AcceptDelivery(gw)))
       /\ SF_pathVars(ConsumerStep(StartGatewayCommandRoute(gw)))
       /\ SF_pathVars(ConsumerStep(WriteSink(gw)))

FairPathSpec == PathSpec /\ PathFairness

-----------------------------------------------------------------------------
\* A Lease message is nowhere but on its way: unless its authority is gone for
\* good, it waits in the Outbox until the bus has stored it, and from then on it
\* waits on the bus or was written to the stream of its session.  A claim that
\* moves, an uncertain publish, a redelivery, a stream that ended, a crash of a
\* Worker or of a Gateway leaves no gap between Outbox and stream (INV-EXEC-021).
LeaseIsSomewhere ==
  \A m \in Leases : Current(m) =>
    IF stream[m] = 0 THEN outbox[m].state \in {"PENDING", "CLAIMED"}
                     ELSE pending[m] # {} \/ written[m] # {}

\* A Lease message of a Host whose stream stays registered while the Lease stays
\* current is eventually written to that stream.
LeaseReachesStream ==
  \A m \in Leases :
    <>[](Current(m) /\ \E gw \in Gateways : registry[gw] = GenerationOf[m])
      => <>(written[m] # {})
=============================================================================
