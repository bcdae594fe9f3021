--------------------------- MODULE OutboxDelivery ---------------------------
(***************************************************************************)
(* The transactional Outbox and the Worker processes that publish it       *)
(* (internal/persistence/postgres/outbox.go,                               *)
(* internal/execution/delivery/publisher.go).                              *)
(*                                                                         *)
(* A Worker claims a batch of rows for a short time, then takes the claims *)
(* one by one: revalidate, record DISPATCH_STARTED, publish, complete.     *)
(* Each of these is a transaction or a call of its own, so claims elapse,  *)
(* other Workers reclaim, authority changes and processes die in between.  *)
(***************************************************************************)
EXTENDS DeliveryIntents, FiniteSets

CONSTANTS Workers,     \* Worker processes (OutboxPublisher.Owner)
          BatchLimit,  \* OutboxPublisher.BatchLimit
          MaxClaims,   \* bound on claims of a row; faults spare the last one
          ReadFaults   \* whether the query of a revalidation may fail

ASSUME OutboxAssumption ==
  /\ "none" \notin Workers
  /\ BatchLimit \in Nat \ {0}
  /\ MaxClaims \in Nat \ {0}
  /\ ReadFaults \in BOOLEAN

VARIABLES
  outbox,   \* outbox_messages: state, claim_owner, last_claim_generation and
            \* whether claim_expires_at has passed
  history,  \* outbox_delivery_events: event types by message and generation
  worker    \* each Worker's batch, the claim in hand and how far it got

outboxVars == <<outbox, history, worker>>

deliveryVars == <<outboxVars, stream, authorityVars>>

NoOwner == "none"

NoMessage == "none"

Generations == 1..MaxClaims

Claims == [message : Messages, generation : Generations]

NoClaim == [message |-> NoMessage, generation |-> 0]

Idle == [batch |-> {}, claim |-> NoClaim, step |-> "idle"]

Steps == {"idle", "revalidated", "stale", "conflict", "started", "acknowledged", "unknown"}

EventTypes == {"CLAIM_GRANTED", "DISPATCH_STARTED", "DISPATCH_UNKNOWN",
               "DELIVERY_ACKNOWLEDGED", "DEAD_LETTERED"}

Ended == {"DELIVERY_ACKNOWLEDGED", "DEAD_LETTERED"}

\* One type invariant, with the CHECK constraint of the table: exactly the
\* CLAIMED rows have an owner.  The bus stores an id at most once per claim.
OutboxTypeOK ==
  /\ IntentsTypeOK
  /\ outbox \in [Messages -> [state : {"NONE", "PENDING", "CLAIMED", "DELIVERED", "DEAD_LETTER"},
                              owner : Workers \cup {NoOwner},
                              last : 0..MaxClaims, elapsed : BOOLEAN]]
  /\ \A m \in Messages : outbox[m].state = "CLAIMED" <=> outbox[m].owner # NoOwner
  /\ history \in [Messages -> [Generations -> SUBSET EventTypes]]
  /\ worker \in [Workers -> [batch : SUBSET Claims, claim : Claims \cup {NoClaim},
                             step : Steps]]
  /\ \A m \in Messages : stream[m] <= MaxClaims

OutboxInit ==
  /\ IntentsInit
  /\ outbox = [m \in Messages |-> [state |-> "NONE", owner |-> NoOwner, last |-> 0,
                                   elapsed |-> FALSE]]
  /\ history = [m \in Messages |-> [g \in Generations |-> {}]]
  /\ worker = [w \in Workers |-> Idle]

-----------------------------------------------------------------------------
(***************************************************************************)
(* Writing and claiming                                                    *)
(***************************************************************************)

\* The row is part of the transaction that makes the intent current.
Enqueue(m) ==
  /\ WriteIntent(m)
  /\ outbox' = [outbox EXCEPT ![m].state = "PENDING"]
  /\ UNCHANGED <<history, worker, stream>>

\* Mutant: a claim whose owner died is never taken over.
ClaimableOnce(m) == outbox[m].state = "PENDING" /\ outbox[m].last < MaxClaims

Claimable(m) ==
  /\ \/ outbox[m].state = "PENDING"
     \/ outbox[m].state = "CLAIMED" /\ outbox[m].elapsed
  /\ outbox[m].last < MaxClaims

Append(m, g, type) == history' = [history EXCEPT ![m][g] = @ \cup {type}]

\* PublishOnce begins: any rows that are free and not locked by another claim.
ClaimOutbox(w, batch) ==
  /\ worker[w] = Idle
  /\ batch # {} /\ Cardinality(batch) <= BatchLimit
  /\ \A m \in batch : Claimable(m)
  /\ outbox' = [m \in Messages |->
       IF m \in batch THEN [state |-> "CLAIMED", owner |-> w, last |-> outbox[m].last + 1,
                            elapsed |-> FALSE]
       ELSE outbox[m]]
  /\ history' = [m \in Messages |->
       IF m \in batch
       THEN [history[m] EXCEPT ![outbox[m].last + 1] = @ \cup {"CLAIM_GRANTED"}]
       ELSE history[m]]
  /\ worker' = [worker EXCEPT ![w].batch =
       {[message |-> m, generation |-> outbox[m].last + 1] : m \in batch}]
  /\ UNCHANGED stream

\* Database time passes claim_expires_at.
ClaimElapses(m) ==
  /\ outbox[m].state = "CLAIMED" /\ ~outbox[m].elapsed
  /\ outbox[m].last < MaxClaims
  /\ outbox' = [outbox EXCEPT ![m].elapsed = TRUE]
  /\ UNCHANGED <<history, worker, stream>>

-----------------------------------------------------------------------------
(***************************************************************************)
(* Publishing one claim                                                    *)
(***************************************************************************)

\* What publishClaim or publishVerificationClaim does next: a Verification of
\* another session is a conflict, every other loss of authority is stale.
Revalidated(m) ==
  IF Current(m) THEN "revalidated"
  ELSE IF m \in Verifications /\ basis[m] = "held" THEN "conflict"
  ELSE "stale"

Take(w, c, step) ==
  /\ worker[w].step = "idle"
  /\ c \in worker[w].batch
  /\ worker' = [worker EXCEPT ![w] = [batch |-> @.batch \ {c}, claim |-> c, step |-> step]]
  /\ UNCHANGED <<outbox, history, stream>>

Revalidate(w, c) == Take(w, c, Revalidated(c.message))

\* RecoverCommandDelivery and RecoverCommandVerificationDelivery answer every
\* failed query with ErrInternalDeliveryStale.
RevalidateFails(w, c) == ReadFaults /\ Take(w, c, "stale")

\* Worker w goes on with its claim at the given step.
Advance(w, step) == worker' = [worker EXCEPT ![w].step = step]

Finish(w) == worker' = [worker EXCEPT ![w].claim = NoClaim, ![w].step = "idle"]

RecordDispatchStarted(w) ==
  LET c == worker[w].claim IN
  /\ worker[w].step = "revalidated"
  /\ Append(c.message, c.generation, "DISPATCH_STARTED")
  /\ Advance(w, "started")
  /\ UNCHANGED <<outbox, stream>>

\* The bus drops a message id it has stored recently; after the deduplication
\* window it stores it again.
Stored(m) ==
  \/ stream' = [stream EXCEPT ![m] = @ + 1]
  \/ stream[m] > 0 /\ UNCHANGED stream

PublishAcknowledged(w) ==
  /\ worker[w].step = "started"
  /\ Stored(worker[w].claim.message)
  /\ Advance(w, "acknowledged")
  /\ UNCHANGED <<outbox, history>>

\* An error or a lost PubAck: stored or not, the Worker cannot tell.
PublishUncertain(w) ==
  /\ worker[w].step = "started"
  /\ worker[w].claim.generation < MaxClaims
  /\ Stored(worker[w].claim.message) \/ UNCHANGED stream
  /\ Advance(w, "unknown")
  /\ UNCHANGED <<outbox, history>>

\* The claim is left to elapse.
RecordDispatchUnknown(w) ==
  LET c == worker[w].claim IN
  /\ worker[w].step = "unknown"
  /\ Append(c.message, c.generation, "DISPATCH_UNKNOWN")
  /\ Finish(w)
  /\ UNCHANGED <<outbox, stream>>

\* Mutant: whoever holds the row completes it.
HoldsClaimOfAnyGeneration(w, c) == outbox[c.message].state = "CLAIMED"

HoldsClaim(w, c) ==
  /\ outbox[c.message].state = "CLAIMED"
  /\ outbox[c.message].owner = w
  /\ outbox[c.message].last = c.generation

\* A claim that is no longer the current one changes nothing
\* (ErrStaleOutboxClaim).
Complete(w, state, type) ==
  LET c == worker[w].claim IN
  /\ IF HoldsClaim(w, c)
       THEN /\ outbox' = [outbox EXCEPT ![c.message] =
                 [state |-> state, owner |-> NoOwner, last |-> @.last, elapsed |-> FALSE]]
            /\ Append(c.message, c.generation, type)
       ELSE UNCHANGED <<outbox, history>>
  /\ Finish(w)
  /\ UNCHANGED stream

\* Mutant: an uncertain publish is taken for a delivery.
MarkOutboxDeliveredUncertain(w) ==
  /\ worker[w].step \in {"acknowledged", "stale", "unknown"}
  /\ Complete(w, "DELIVERED", "DELIVERY_ACKNOWLEDGED")

\* After the PubAck, or without one when the authority is stale
\* (completeWithoutPublish).
MarkOutboxDelivered(w) ==
  /\ worker[w].step \in {"acknowledged", "stale"}
  /\ Complete(w, "DELIVERED", "DELIVERY_ACKNOWLEDGED")

MarkOutboxDeadLetter(w) ==
  /\ worker[w].step = "conflict"
  /\ Complete(w, "DEAD_LETTER", "DEAD_LETTERED")

-----------------------------------------------------------------------------
(***************************************************************************)
(* Faults                                                                  *)
(***************************************************************************)

\* A transaction of the claim fails, or the key of its token is unavailable:
\* PublishOnce goes on with the next claim.
ClaimFails(w) ==
  /\ worker[w].claim # NoClaim
  /\ worker[w].claim.generation < MaxClaims
  /\ Finish(w)
  /\ UNCHANGED <<outbox, history, stream>>

\* The process dies, or RunWithDelivery returns the error of the batch and the
\* Worker is started again.
WorkerExits(w) ==
  /\ worker[w] # Idle
  /\ \A c \in worker[w].batch \cup ({worker[w].claim} \ {NoClaim}) : c.generation < MaxClaims
  /\ worker' = [worker EXCEPT ![w] = Idle]
  /\ UNCHANGED <<outbox, history, stream>>

-----------------------------------------------------------------------------
PublishStep(w) ==
  \/ \E batch \in SUBSET Messages : ClaimOutbox(w, batch)
  \/ \E c \in worker[w].batch : Revalidate(w, c)
  \/ RecordDispatchStarted(w)
  \/ PublishAcknowledged(w)
  \/ RecordDispatchUnknown(w)
  \/ MarkOutboxDelivered(w)
  \/ MarkOutboxDeadLetter(w)

FaultStep(w) ==
  \/ \E c \in worker[w].batch : RevalidateFails(w, c)
  \/ PublishUncertain(w)
  \/ ClaimFails(w)
  \/ WorkerExits(w)

OutboxStep ==
  \/ \E w \in Workers : PublishStep(w) \/ FaultStep(w)
  \/ \E m \in Messages : ClaimElapses(m)

OutboxNext ==
  \/ OutboxStep /\ UNCHANGED authorityVars
  \/ \E m \in Messages : Enqueue(m)
  \/ (AdmitSession \/ AuthorityChanges) /\ UNCHANGED <<outboxVars, stream>>

OutboxSpec == OutboxInit /\ [][OutboxNext]_deliveryVars

\* The Worker loop ticks for ever and a dead Worker is started again, database
\* time advances; faults and authority changes are never owed.
OutboxFairness ==
  /\ \A w \in Workers : WF_deliveryVars(PublishStep(w) /\ UNCHANGED authorityVars)
  /\ \A m \in Messages : WF_deliveryVars(ClaimElapses(m) /\ UNCHANGED authorityVars)

FairOutboxSpec == OutboxSpec /\ OutboxFairness

-----------------------------------------------------------------------------
(***************************************************************************)
(* Properties                                                              *)
(***************************************************************************)

\* The row and the evidence of its claims agree: a row ends in the claim that
\* is current, exactly one claim has ending evidence if and only if the row has
\* ended, no claim both ended and was left uncertain, and generations are
\* granted without gaps.  A Worker that lost its claim to another must neither
\* complete the row nor leave evidence that it did
\* (docs/data-persistence-architecture.md, section 5).
EndedByCurrentClaim ==
  \A m \in Messages, g \in Generations :
    LET ended == history[m][g] \cap Ended IN
    /\ ended # {} <=> outbox[m].state \in {"DELIVERED", "DEAD_LETTER"} /\ g = outbox[m].last
    /\ ended # {} => "DISPATCH_UNKNOWN" \notin history[m][g] /\ ended # Ended
    /\ "CLAIM_GRANTED" \in history[m][g] <=> g <= outbox[m].last

\* Nothing is on the bus without evidence: however Workers die and claims move,
\* a stored message has at least as many claims with DISPATCH_STARTED as it was
\* stored, so a restart can tell what may have been sent (INV-EXEC-019).
StoredHasEvidence ==
  \A m \in Messages :
    stream[m] <= Cardinality({g \in Generations : "DISPATCH_STARTED" \in history[m][g]})

\* The evidence of the Outbox can be trusted by whoever takes over from a Worker
\* that died at any point (outbox.go).
EvidenceIsTrue == EndedByCurrentClaim /\ StoredHasEvidence

\* Every intent is settled: whatever claims elapse and Workers die on the way,
\* each row is eventually delivered or dead-lettered, and no row is left
\* CLAIMED by an owner that is gone.
OutboxSettles ==
  \A m \in Messages :
    outbox[m].state = "PENDING" ~> [](outbox[m].state \in {"DELIVERED", "DEAD_LETTER"})

\* An intent that stays current reaches the bus, whatever happened to it before:
\* no Worker, late or retrying, may settle it unpublished in the meantime.  For
\* Verification intents this is what docs/acceptance-test-catalog.md
\* (AT-EXEC-025) asks of an UNKNOWN Command with an authorized session.
CurrentIsPublished ==
  \A m \in Messages : <>[]Current(m) => <>(stream[m] > 0)

=============================================================================
