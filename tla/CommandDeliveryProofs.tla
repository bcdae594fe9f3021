------------------------ MODULE CommandDeliveryProofs -----------------------
(***************************************************************************)
(* The path of a delivery intent for any number of messages, sessions,     *)
(* Workers, claims and Gateways, whatever fails in between: first the      *)
(* Outbox, then the Gateways behind a bus that stores intents at will, then*)
(* the whole path, which implements both.                                  *)
(*                                                                         *)
(* The invariant of the Outbox says what a Worker may rely on without      *)
(* looking at the row again: nobody else holds its claim, and the evidence *)
(* of that claim is exactly what the Worker itself has written so far.     *)
(***************************************************************************)
EXTENDS CommandDelivery, FiniteSetTheorems, TLAPS

USE ZenonT(60)

-----------------------------------------------------------------------------
(***************************************************************************)
(* The Outbox                                                              *)
(***************************************************************************)

\* The type invariant without the bound on stream, which follows from evidence.
OutboxRowsOK ==
  outbox \in [Messages -> [state : {"NONE", "PENDING", "CLAIMED", "DELIVERED", "DEAD_LETTER"},
                           owner : Workers \cup {NoOwner},
                           last : 0..MaxClaims, elapsed : BOOLEAN]]

HistoryTypeOK == history \in [Messages -> [Generations -> SUBSET EventTypes]]

WorkerTypeOK ==
  worker \in [Workers -> [batch : SUBSET Claims, claim : Claims \cup {NoClaim}, step : Steps]]

RowsTypeOK == IntentsTypeOK /\ OutboxRowsOK /\ HistoryTypeOK /\ WorkerTypeOK

\* A row exists once its intent is written, and has an owner while it is claimed.
RowConsistent(m) ==
  /\ basis[m] = "unwritten" <=> outbox[m].state = "NONE"
  /\ outbox[m].state = "CLAIMED" <=> outbox[m].owner # NoOwner

\* The claims a Worker still works on.
Held(w) == worker[w].batch \cup ({worker[w].claim} \ {NoClaim})

\* How far the evidence of a claim has got before and after the dispatch.
EvidenceOf(c) == history[c.message][c.generation]

NotDispatched(c) == EvidenceOf(c) \subseteq {"CLAIM_GRANTED"}

Dispatched(c) ==
  /\ EvidenceOf(c) \subseteq {"CLAIM_GRANTED", "DISPATCH_STARTED"}
  /\ "DISPATCH_STARTED" \in EvidenceOf(c)

DispatchSteps == {"started", "acknowledged", "unknown"}

\* What a Worker knows of the claims it holds.
WorkerInformed(w) ==
  /\ worker[w].step = "idle" <=> worker[w].claim = NoClaim
  /\ worker[w].claim \notin worker[w].batch
  /\ \A c \in Held(w) : c.generation <= outbox[c.message].last
  /\ \A c \in worker[w].batch : NotDispatched(c)
  /\ worker[w].claim # NoClaim =>
       IF worker[w].step \in DispatchSteps THEN Dispatched(worker[w].claim)
                                           ELSE NotDispatched(worker[w].claim)

\* No two Workers hold the same claim.
ClaimsDisjoint == \A w, v \in Workers : w # v => Held(w) \cap Held(v) = {}

\* Generations beyond the last have no evidence.
Unclaimed == \A m \in Messages, g \in Generations : g > outbox[m].last => history[m][g] = {}

ClaimInvariant ==
  /\ RowsTypeOK
  /\ \A m \in Messages : RowConsistent(m)
  /\ \A w \in Workers : WorkerInformed(w)
  /\ ClaimsDisjoint
  /\ Unclaimed
  /\ EndedByCurrentClaim

\* The generations whose dispatch was recorded and is no longer under way.
Dispatching(m) ==
  {g \in Generations : \E w \in Workers :
     worker[w].step = "started" /\ worker[w].claim = [message |-> m, generation |-> g]}

Settled(m) ==
  {g \in Generations : "DISPATCH_STARTED" \in history[m][g]} \ Dispatching(m)

\* The bus stores a message only in a dispatch that is over.
StoredWasDispatched == \A m \in Messages : stream[m] <= Cardinality(Settled(m))

OutboxInvariant == ClaimInvariant /\ StoredWasDispatched

-----------------------------------------------------------------------------
(***************************************************************************)
(* What the building blocks of the actions do                              *)
(***************************************************************************)

LEMMA NoClaimIsNone == NoClaim \notin Claims
  BY SMTT(30) DEF NoClaim, Claims, Generations

LEMMA ClaimFields ==
  ASSUME NEW c \in Claims
  PROVE  c.message \in Messages /\ c.generation \in Generations
  BY SMTT(30) DEF Claims

LEMMA ClaimByFields ==
  ASSUME NEW c \in Claims, NEW d \in Claims, c.message = d.message, c.generation = d.generation
  PROVE  c = d
  BY SMTT(30) DEF Claims

Appended(c, type) ==
  /\ HistoryTypeOK'
  /\ EvidenceOf(c)' = EvidenceOf(c) \cup {type}
  /\ \A d \in Claims : d # c => EvidenceOf(d)' = EvidenceOf(d)
  /\ \A m \in Messages, g \in Generations :
       history'[m][g] # history[m][g] =>
         m = c.message /\ g = c.generation /\ history'[m][g] = history[m][g] \cup {type}

\* appendOutboxDeliveryEventTx adds to the evidence of one claim.
LEMMA AppendEffect ==
  ASSUME HistoryTypeOK, NEW c \in Claims, NEW type \in EventTypes,
         Append(c.message, c.generation, type)
  PROVE  Appended(c, type)
<1>1. c.message \in Messages /\ c.generation \in Generations
  BY ClaimFields
<1>2. history' = [history EXCEPT ![c.message][c.generation] = @ \cup {type}]
  BY DEF Append
<1>3. HistoryTypeOK'
  BY <1>1, <1>2, SMTT(30) DEF HistoryTypeOK
<1>4. \A m \in Messages, g \in Generations : history'[m][g] =
        IF m = c.message /\ g = c.generation THEN history[m][g] \cup {type} ELSE history[m][g]
  <2>1. \A m \in Messages : history'[m] =
          IF m = c.message THEN [history[m] EXCEPT ![c.generation] = @ \cup {type}]
          ELSE history[m]
    BY <1>1, <1>2 DEF HistoryTypeOK
  <2>2. \A m \in Messages : history[m] \in [Generations -> SUBSET EventTypes]
    BY DEF HistoryTypeOK
  <2>. QED
    BY <1>1, <2>1, <2>2
<1>5. EvidenceOf(c)' = EvidenceOf(c) \cup {type}
  BY <1>1, <1>4 DEF EvidenceOf
<1>6. \A d \in Claims : d # c => EvidenceOf(d)' = EvidenceOf(d)
  BY <1>1, <1>4, ClaimFields, ClaimByFields DEF EvidenceOf
<1>. QED
  BY <1>3, <1>4, <1>5, <1>6 DEF Appended

\* Only Worker w moves, and its batch stays.
Moved(w, claim, step) ==
  /\ WorkerTypeOK'
  /\ \A v \in Workers : worker'[v].batch = worker[v].batch
  /\ \A v \in Workers : v # w => worker'[v].claim = worker[v].claim /\ worker'[v].step = worker[v].step
  /\ worker'[w].claim = claim /\ worker'[w].step = step

LEMMA AdvanceEffect ==
  ASSUME WorkerTypeOK, NEW w \in Workers, NEW step \in Steps, Advance(w, step)
  PROVE  Moved(w, worker[w].claim, step)
<1>1. worker' = [worker EXCEPT ![w].step = step]
  BY DEF Advance
<1>2. WorkerTypeOK'
  BY <1>1, SMTT(30) DEF WorkerTypeOK
<1>. QED
  BY <1>1, <1>2, SMTT(30) DEF WorkerTypeOK, Moved

LEMMA FinishEffect ==
  ASSUME WorkerTypeOK, NEW w \in Workers, Finish(w)
  PROVE  Moved(w, NoClaim, "idle")
<1>1. worker' = [worker EXCEPT ![w].claim = NoClaim, ![w].step = "idle"]
  BY DEF Finish
<1>2. WorkerTypeOK'
  BY <1>1 DEF WorkerTypeOK, Steps
<1>. QED
  BY <1>1, <1>2 DEF WorkerTypeOK, Moved

-----------------------------------------------------------------------------
(***************************************************************************)
(* Preservation, conjunct by conjunct, from what a step leaves alone       *)
(***************************************************************************)

\* A row that did not end, and evidence that says nothing of endings.
LEMMA EndedKept ==
  ASSUME EndedByCurrentClaim,
         \A m \in Messages :
           /\ outbox'[m].last = outbox[m].last
           /\ outbox'[m].state \in {"DELIVERED", "DEAD_LETTER"}
                <=> outbox[m].state \in {"DELIVERED", "DEAD_LETTER"},
         \A m \in Messages, g \in Generations :
           \/ history'[m][g] = history[m][g]
           \/ history'[m][g] = history[m][g] \cup {"DISPATCH_STARTED"}
           \/ history'[m][g] = history[m][g] \cup {"DISPATCH_UNKNOWN"} /\ history[m][g] \cap Ended = {}
  PROVE  EndedByCurrentClaim'
<1>. SUFFICES ASSUME NEW m \in Messages, NEW g \in Generations
     PROVE  LET ended == history'[m][g] \cap Ended IN
            /\ ended # {} <=> outbox'[m].state \in {"DELIVERED", "DEAD_LETTER"} /\ g = outbox'[m].last
            /\ ended # {} => "DISPATCH_UNKNOWN" \notin history'[m][g] /\ ended # Ended
            /\ "CLAIM_GRANTED" \in history'[m][g] <=> g <= outbox'[m].last
  BY DEF EndedByCurrentClaim
<1>1. history'[m][g] \cap Ended = history[m][g] \cap Ended
  BY DEF Ended
<1>2. "CLAIM_GRANTED" \in history'[m][g] <=> "CLAIM_GRANTED" \in history[m][g]
  BY SMTT(30)
<1>3. history[m][g] \cap Ended # {} =>
        ("DISPATCH_UNKNOWN" \in history'[m][g] <=> "DISPATCH_UNKNOWN" \in history[m][g])
  BY SMTT(30)
<1>. QED
  BY <1>1, <1>2, <1>3, SMTT(30) DEF EndedByCurrentClaim

LEMMA ClaimInHand ==
  ASSUME ClaimInvariant, NEW w \in Workers, worker[w].step # "idle"
  PROVE  /\ worker[w].claim \in Claims
         /\ worker[w].claim # NoClaim
         /\ worker[w].claim \in Held(w)
         /\ worker[w].claim.generation <= outbox[worker[w].claim.message].last
<1>1. worker[w].claim # NoClaim
  BY DEF ClaimInvariant, WorkerInformed
<1>2. worker[w].claim \in Claims
  BY <1>1 DEF ClaimInvariant, RowsTypeOK, WorkerTypeOK
<1>3. worker[w].claim \in Held(w)
  BY <1>1 DEF Held
<1>. QED
  BY <1>1, <1>2, <1>3 DEF ClaimInvariant, WorkerInformed

\* The claim in hand is in nobody's batch and in no other hand.
LEMMA NobodyElses ==
  ASSUME ClaimInvariant, NEW w \in Workers, worker[w].claim # NoClaim
  PROVE  /\ \A v \in Workers : worker[w].claim \notin worker[v].batch
         /\ \A v \in Workers : v # w => worker[v].claim # worker[w].claim
<1>1. worker[w].claim \in Held(w)
  BY DEF Held
<1>2. ASSUME NEW v \in Workers, v # w
      PROVE  worker[w].claim \notin Held(v)
  BY <1>1, <1>2 DEF ClaimInvariant, ClaimsDisjoint
<1>3. worker[w].claim \notin worker[w].batch
  BY DEF ClaimInvariant, WorkerInformed
<1>. QED
  BY <1>2, <1>3 DEF Held

\* A step of the claim in hand that keeps the Worker informed of it.
HandStep(w, c) ==
  /\ \A d \in Claims : d # c => EvidenceOf(d)' = EvidenceOf(d)
  /\ \/ Moved(w, NoClaim, "idle")
     \/ \E step \in DispatchSteps : Moved(w, c, step) /\ Dispatched(c)'

LEMMA HandKept ==
  ASSUME ClaimInvariant, NEW w \in Workers, worker[w].step # "idle",
         NEW c, c = worker[w].claim, HandStep(w, c),
         \A m \in Messages : outbox'[m].last = outbox[m].last
  PROVE  (\A v \in Workers : WorkerInformed(v)') /\ ClaimsDisjoint'
<1>0. /\ \A d \in Claims : d # c => EvidenceOf(d)' = EvidenceOf(d)
      /\ \A v \in Workers : worker'[v].batch = worker[v].batch
      /\ \A v \in Workers : v # w => worker'[v].claim = worker[v].claim /\ worker'[v].step = worker[v].step
      /\ \/ worker'[w].claim = NoClaim /\ worker'[w].step = "idle"
         \/ worker'[w].claim = c /\ worker'[w].step \in DispatchSteps /\ Dispatched(c)'
  BY DEF HandStep, Moved
<1>1. c \in Claims /\ c # NoClaim
  BY ClaimInHand
<1>2. \A v \in Workers : c \notin worker[v].batch /\ (v # w => worker[v].claim # c)
  BY <1>1, NobodyElses
<1>3. \A v \in Workers : worker[v].batch \subseteq Claims /\ worker[v].claim \in Claims \cup {NoClaim}
  BY DEF ClaimInvariant, RowsTypeOK, WorkerTypeOK
<1>4. \A v \in Workers : Held(v)' \subseteq Held(v)
  BY <1>0 DEF Held
<1>5. ClaimsDisjoint'
  BY <1>4 DEF ClaimInvariant, ClaimsDisjoint
<1>6. ASSUME NEW v \in Workers
      PROVE  WorkerInformed(v)'
  <2>1. WorkerInformed(v)
    BY DEF ClaimInvariant
  <2>2. (worker[v].step = "idle")' <=> (worker[v].claim = NoClaim)'
    BY <1>0, <1>1, <2>1 DEF WorkerInformed, DispatchSteps
  <2>3. worker'[v].claim \notin worker'[v].batch
    BY <1>0, <1>3, <2>1, NoClaimIsNone DEF WorkerInformed
  <2>4. \A d \in Held(v)' : d.generation <= outbox'[d.message].last
    <3>1. \A d \in Held(v) : d \in Claims
      BY <1>3 DEF Held
    <3>. QED
      BY <1>4, <2>1, <3>1, ClaimFields DEF WorkerInformed
  <2>5. \A d \in worker'[v].batch : NotDispatched(d)'
    <3>. SUFFICES ASSUME NEW d \in worker[v].batch
         PROVE  NotDispatched(d)'
      BY <1>0
    <3>1. d \in Claims /\ d # c /\ NotDispatched(d)
      BY <1>2, <1>3, <2>1 DEF WorkerInformed
    <3>2. EvidenceOf(d)' = EvidenceOf(d)
      BY <1>0, <3>1
    <3>. QED
      BY <3>1, <3>2 DEF NotDispatched
  <2>6. worker'[v].claim # NoClaim =>
          IF worker'[v].step \in DispatchSteps THEN Dispatched(worker[v].claim)'
                                              ELSE NotDispatched(worker[v].claim)'
    <3>1. CASE v = w
      BY <1>0, <3>1 DEF Dispatched, EvidenceOf
    <3>2. CASE v # w
      BY <1>0, <1>2, <1>3, <2>1, <3>2 DEF WorkerInformed, NotDispatched, Dispatched
    <3>. QED
      BY <3>1, <3>2
  <2>. QED
    BY <2>2, <2>3, <2>4, <2>5, <2>6 DEF WorkerInformed
<1>. QED
  BY <1>5, <1>6

-----------------------------------------------------------------------------
(***************************************************************************)
(* The claim invariant, action by action                                   *)
(***************************************************************************)

\* What no step of a Worker touches.
LEMMA IntentsKept ==
  ASSUME RowsTypeOK, UNCHANGED authorityVars, stream' \in [Messages -> Nat]
  PROVE  IntentsTypeOK'
  BY DEF RowsTypeOK, IntentsTypeOK, authorityVars

LEMMA StoredType ==
  ASSUME RowsTypeOK, NEW m \in Messages, Stored(m) \/ UNCHANGED stream
  PROVE  stream' \in [Messages -> Nat]
<1>1. stream \in [Messages -> Nat]
  BY DEF RowsTypeOK, IntentsTypeOK
<1>2. CASE stream' = [stream EXCEPT ![m] = @ + 1]
  BY <1>1, <1>2, SMTT(30)
<1>3. CASE UNCHANGED stream
  BY <1>1, <1>3
<1>. QED
  BY <1>2, <1>3 DEF Stored

\* The evidence a step without an ending adds to the claim in hand.
OneRecorded(c) ==
  \A m \in Messages, g \in Generations :
    \/ history'[m][g] = history[m][g]
    \/ /\ m = c.message /\ g = c.generation
       /\ \/ history'[m][g] = history[m][g] \cup {"DISPATCH_STARTED"}
          \/ /\ history'[m][g] = history[m][g] \cup {"DISPATCH_UNKNOWN"}
             /\ history[m][g] \cap Ended = {}

\* Steps of the claim in hand that leave the row alone.
LEMMA DispatchPreserves ==
  ASSUME ClaimInvariant, NEW w \in Workers, UNCHANGED authorityVars,
         \/ RecordDispatchStarted(w) \/ PublishAcknowledged(w) \/ PublishUncertain(w)
         \/ RecordDispatchUnknown(w) \/ ClaimFails(w)
  PROVE  ClaimInvariant'
<1>. PICK c : c = worker[w].claim
  OBVIOUS
<1>1. worker[w].step # "idle" /\ UNCHANGED outbox
  BY DEF RecordDispatchStarted, PublishAcknowledged, PublishUncertain, RecordDispatchUnknown,
         ClaimFails, ClaimInvariant, WorkerInformed
<1>2. c \in Claims /\ c # NoClaim /\ c.generation <= outbox[c.message].last
  BY <1>1, ClaimInHand
<1>3. c.message \in Messages /\ c.generation \in Generations
  BY <1>2, ClaimFields
<1>4. RowsTypeOK /\ WorkerTypeOK /\ HistoryTypeOK /\ WorkerInformed(w)
  BY DEF ClaimInvariant, RowsTypeOK
<1>5. stream' \in [Messages -> Nat] /\ HistoryTypeOK' /\ WorkerTypeOK' /\ HandStep(w, c) /\ OneRecorded(c)
  <2>1. CASE RecordDispatchStarted(w)
    <3>1. Append(c.message, c.generation, "DISPATCH_STARTED") /\ Advance(w, "started")
          /\ UNCHANGED stream /\ worker[w].step = "revalidated"
      BY <2>1 DEF RecordDispatchStarted
    <3>2. NotDispatched(c)
      BY <1>2, <1>4, <3>1 DEF WorkerInformed, DispatchSteps
    <3>3. Appended(c, "DISPATCH_STARTED")
      BY <1>2, <1>4, <3>1, AppendEffect DEF EventTypes
    <3>4. Moved(w, c, "started")
      BY <1>4, <3>1, AdvanceEffect DEF Steps
    <3>5. Dispatched(c)'
      BY <3>2, <3>3 DEF Appended, Dispatched, NotDispatched
    <3>6. HandStep(w, c)
      BY <3>3, <3>4, <3>5 DEF HandStep, Appended, DispatchSteps
    <3>7. OneRecorded(c)
      BY <3>3 DEF OneRecorded, Appended
    <3>. QED
      BY <1>4, <3>1, <3>3, <3>4, <3>6, <3>7 DEF Appended, Moved, RowsTypeOK, IntentsTypeOK
  <2>2. CASE PublishAcknowledged(w) \/ PublishUncertain(w)
    <3>1. PICK s \in {"acknowledged", "unknown"} : Advance(w, s)
      BY <2>2 DEF PublishAcknowledged, PublishUncertain
    <3>2. UNCHANGED history /\ worker[w].step = "started" /\ (Stored(c.message) \/ UNCHANGED stream)
      BY <2>2 DEF PublishAcknowledged, PublishUncertain
    <3>3. stream' \in [Messages -> Nat]
      BY <1>3, <1>4, <3>2, StoredType
    <3>4. Dispatched(c)
      BY <1>2, <1>4, <3>2 DEF WorkerInformed, DispatchSteps
    <3>5. (\A d \in Claims : EvidenceOf(d)' = EvidenceOf(d)) /\ HistoryTypeOK' /\ Dispatched(c)'
      BY <1>4, <3>2, <3>4 DEF EvidenceOf, HistoryTypeOK, Dispatched
    <3>6. s \in Steps /\ s \in DispatchSteps
      BY DEF Steps, DispatchSteps
    <3>7. Moved(w, c, s)
      BY <1>4, <3>1, <3>6, AdvanceEffect
    <3>8. HandStep(w, c) /\ OneRecorded(c)
      BY <3>2, <3>5, <3>6, <3>7 DEF HandStep, OneRecorded
    <3>. QED
      BY <3>3, <3>5, <3>7, <3>8 DEF Moved
  <2>3. CASE RecordDispatchUnknown(w)
    <3>1. Append(c.message, c.generation, "DISPATCH_UNKNOWN") /\ Finish(w)
          /\ UNCHANGED stream /\ worker[w].step = "unknown"
      BY <2>3 DEF RecordDispatchUnknown
    <3>2. Dispatched(c)
      BY <1>2, <1>4, <3>1 DEF WorkerInformed, DispatchSteps
    <3>3. history[c.message][c.generation] \cap Ended = {}
      BY <3>2 DEF Dispatched, EvidenceOf, Ended
    <3>4. Appended(c, "DISPATCH_UNKNOWN")
      BY <1>2, <1>4, <3>1, AppendEffect DEF EventTypes
    <3>5. Moved(w, NoClaim, "idle")
      BY <1>4, <3>1, FinishEffect
    <3>6. HandStep(w, c)
      BY <3>4, <3>5 DEF HandStep, Appended
    <3>7. OneRecorded(c)
      BY <3>3, <3>4 DEF OneRecorded, Appended
    <3>. QED
      BY <1>4, <3>1, <3>4, <3>5, <3>6, <3>7 DEF Appended, Moved, RowsTypeOK, IntentsTypeOK
  <2>4. CASE ClaimFails(w)
    <3>1. Finish(w) /\ UNCHANGED <<history, stream>>
      BY <2>4 DEF ClaimFails
    <3>2. Moved(w, NoClaim, "idle")
      BY <1>4, <3>1, FinishEffect
    <3>3. HandStep(w, c) /\ OneRecorded(c)
      BY <3>1, <3>2 DEF HandStep, OneRecorded, EvidenceOf
    <3>. QED
      BY <1>4, <3>1, <3>2, <3>3 DEF Moved, RowsTypeOK, IntentsTypeOK, HistoryTypeOK
  <2>. QED
    BY <2>1, <2>2, <2>3, <2>4
<1>6. (\A v \in Workers : WorkerInformed(v)') /\ ClaimsDisjoint'
  BY <1>1, <1>5, HandKept
<1>7. Unclaimed'
  BY <1>1, <1>2, <1>3, <1>4, <1>5, SMTT(30)
     DEF ClaimInvariant, Unclaimed, RowsTypeOK, OutboxRowsOK, Generations, OneRecorded
<1>8. EndedByCurrentClaim'
  BY <1>1, <1>5, EndedKept DEF ClaimInvariant, OneRecorded
<1>9. RowsTypeOK'
  BY <1>1, <1>4, <1>5, IntentsKept DEF RowsTypeOK, OutboxRowsOK
<1>10. \A m \in Messages : RowConsistent(m)'
  BY <1>1 DEF ClaimInvariant, RowConsistent, authorityVars
<1>. QED
  BY <1>6, <1>7, <1>8, <1>9, <1>10 DEF ClaimInvariant

\* MarkOutboxDelivered and MarkOutboxDeadLetter: only the current claim ends the
\* row, and the evidence of that claim has no other ending.
LEMMA CompletePreserves ==
  ASSUME ClaimInvariant, NEW w \in Workers, UNCHANGED authorityVars,
         MarkOutboxDelivered(w) \/ MarkOutboxDeadLetter(w)
  PROVE  ClaimInvariant'
<1>. PICK c : c = worker[w].claim
  OBVIOUS
<1>1. PICK state \in {"DELIVERED", "DEAD_LETTER"}, type \in Ended : Complete(w, state, type)
  BY DEF MarkOutboxDelivered, MarkOutboxDeadLetter, Ended
<1>2. worker[w].step # "idle"
  BY DEF MarkOutboxDelivered, MarkOutboxDeadLetter
<1>3. c \in Claims /\ c # NoClaim /\ c.message \in Messages /\ c.generation \in Generations
  BY <1>2, ClaimInHand, ClaimFields
<1>4. RowsTypeOK /\ WorkerTypeOK /\ HistoryTypeOK /\ OutboxRowsOK /\ WorkerInformed(w)
  BY DEF ClaimInvariant, RowsTypeOK
<1>5. Finish(w) /\ UNCHANGED stream
  BY <1>1 DEF Complete
<1>6. Moved(w, NoClaim, "idle")
  BY <1>4, <1>5, FinishEffect
<1>7. IntentsTypeOK'
  BY <1>4, <1>5, IntentsKept DEF RowsTypeOK, IntentsTypeOK
<1>8. CASE ~HoldsClaim(w, c)
  <2>1. UNCHANGED <<outbox, history>>
    BY <1>1, <1>8 DEF Complete
  <2>2. HandStep(w, c)
    BY <1>6, <2>1 DEF HandStep, EvidenceOf
  <2>3. (\A v \in Workers : WorkerInformed(v)') /\ ClaimsDisjoint'
    BY <1>2, <2>1, <2>2, HandKept
  <2>4. RowsTypeOK'
    BY <1>4, <1>6, <1>7, <2>1 DEF RowsTypeOK, Moved, OutboxRowsOK, HistoryTypeOK
  <2>. QED
    BY <2>1, <2>3, <2>4
       DEF ClaimInvariant, RowConsistent, authorityVars, Unclaimed, EndedByCurrentClaim
<1>9. CASE HoldsClaim(w, c)
  <2>1. /\ outbox' = [outbox EXCEPT ![c.message] =
             [state |-> state, owner |-> NoOwner, last |-> @.last, elapsed |-> FALSE]]
        /\ Append(c.message, c.generation, type)
    BY <1>1, <1>9 DEF Complete
  <2>2. OutboxRowsOK'
    BY <1>3, <1>4, <2>1 DEF OutboxRowsOK
  <2>3. /\ \A m \in Messages : m # c.message => outbox'[m] = outbox[m]
        /\ \A m \in Messages : outbox'[m].last = outbox[m].last
        /\ outbox'[c.message].state = state /\ outbox'[c.message].owner = NoOwner
    BY <1>3, <1>4, <2>1 DEF OutboxRowsOK
  <2>4. Appended(c, type)
    BY <1>3, <1>4, <2>1, AppendEffect DEF Ended, EventTypes
  <2>5. HandStep(w, c)
    BY <1>6, <2>4 DEF HandStep, Appended
  <2>6. (\A v \in Workers : WorkerInformed(v)') /\ ClaimsDisjoint'
    BY <1>2, <2>3, <2>5, HandKept
  <2>7. RowsTypeOK'
    BY <1>6, <1>7, <2>2, <2>4 DEF RowsTypeOK, Moved, Appended
  <2>8. ASSUME NEW m \in Messages
        PROVE  RowConsistent(m)'
    <3>1. RowConsistent(m) /\ basis' = basis
      BY DEF ClaimInvariant, authorityVars
    <3>2. CASE m = c.message
      <4>1. basis[m] # "unwritten"
        BY <1>9, <3>1, <3>2 DEF HoldsClaim, RowConsistent
      <4>. QED
        BY <2>3, <3>1, <3>2, <4>1 DEF RowConsistent
    <3>3. CASE m # c.message
      BY <2>3, <3>1, <3>3 DEF RowConsistent
    <3>. QED
      BY <3>2, <3>3
  <2>9. Unclaimed'
    <3>. SUFFICES ASSUME NEW m \in Messages, NEW g \in Generations, g > outbox[m].last
         PROVE  history'[m][g] = {}
      BY <2>3 DEF Unclaimed
    <3>1. ~(m = c.message /\ g = c.generation)
      BY <1>3, <1>9, SMTT(30) DEF HoldsClaim, Generations
    <3>. QED
      BY <2>4, <3>1 DEF Appended, ClaimInvariant, Unclaimed
  <2>10. EndedByCurrentClaim'
    <3>. SUFFICES ASSUME NEW m \in Messages, NEW g \in Generations
         PROVE  LET ended == history'[m][g] \cap Ended IN
                /\ ended # {} <=> outbox'[m].state \in {"DELIVERED", "DEAD_LETTER"} /\ g = outbox'[m].last
                /\ ended # {} => "DISPATCH_UNKNOWN" \notin history'[m][g] /\ ended # Ended
                /\ "CLAIM_GRANTED" \in history'[m][g] <=> g <= outbox'[m].last
      BY DEF EndedByCurrentClaim
    <3>1. LET ended == history[m][g] \cap Ended IN
          /\ ended # {} <=> outbox[m].state \in {"DELIVERED", "DEAD_LETTER"} /\ g = outbox[m].last
          /\ ended # {} => "DISPATCH_UNKNOWN" \notin history[m][g] /\ ended # Ended
          /\ "CLAIM_GRANTED" \in history[m][g] <=> g <= outbox[m].last
      BY DEF ClaimInvariant, EndedByCurrentClaim
    <3>2. CASE m = c.message /\ g = c.generation
      <4>1. history[m][g] \subseteq {"CLAIM_GRANTED", "DISPATCH_STARTED"}
        BY <1>3, <1>4, <3>2 DEF WorkerInformed, Dispatched, NotDispatched, EvidenceOf
      <4>2. history'[m][g] = history[m][g] \cup {type}
        BY <2>4, <3>2 DEF Appended, EvidenceOf
      <4>3. outbox'[m].state \in {"DELIVERED", "DEAD_LETTER"} /\ g = outbox'[m].last
            /\ outbox'[m].last = outbox[m].last
        BY <1>9, <2>3, <3>2 DEF HoldsClaim
      <4>4. history'[m][g] \cap Ended = {type} /\ {type} # Ended
        BY <4>1, <4>2, SMTT(30) DEF Ended
      <4>5. "DISPATCH_UNKNOWN" \notin history'[m][g]
        BY <4>1, <4>2 DEF Ended
      <4>6. "CLAIM_GRANTED" \in history'[m][g] <=> "CLAIM_GRANTED" \in history[m][g]
        BY <4>2 DEF Ended
      <4>. QED
        BY <3>1, <4>3, <4>4, <4>5, <4>6
    <3>3. CASE m = c.message /\ g # c.generation
      <4>1. history'[m][g] = history[m][g] /\ g # outbox[m].last /\ outbox'[m].last = outbox[m].last
        BY <1>9, <2>3, <2>4, <3>3 DEF Appended, HoldsClaim
      <4>. QED
        BY <3>1, <4>1
    <3>4. CASE m # c.message
      <4>1. history'[m][g] = history[m][g] /\ outbox'[m] = outbox[m]
        BY <2>3, <2>4, <3>4 DEF Appended
      <4>. QED
        BY <3>1, <4>1
    <3>. QED
      BY <3>2, <3>3, <3>4
  <2>. QED
    BY <2>6, <2>7, <2>8, <2>9, <2>10 DEF ClaimInvariant
<1>. QED
  BY <1>8, <1>9

\* Nothing a Worker knows of its claims changes when a Worker only drops claims
\* or takes one from its batch.
LEMMA DropKept ==
  ASSUME ClaimInvariant, NEW w \in Workers, UNCHANGED <<outbox, history>>, WorkerTypeOK',
         \A v \in Workers : v # w => worker'[v] = worker[v],
         worker'[w].batch \subseteq worker[w].batch,
         \/ worker'[w].claim = NoClaim /\ worker'[w].step = "idle"
         \/ /\ worker'[w].claim \in worker[w].batch \ worker'[w].batch
            /\ worker'[w].step \notin DispatchSteps \cup {"idle"}
  PROVE  (\A v \in Workers : WorkerInformed(v)') /\ ClaimsDisjoint'
<1>1. \A v \in Workers : worker[v].batch \subseteq Claims /\ worker[v].claim \in Claims \cup {NoClaim}
  BY DEF ClaimInvariant, RowsTypeOK, WorkerTypeOK
<1>2. \A v \in Workers : Held(v)' \subseteq Held(v)
  <2>1. Held(w)' \subseteq Held(w)
    BY DEF Held
  <2>. QED
    BY <2>1 DEF Held
<1>3. ClaimsDisjoint'
  BY <1>2 DEF ClaimInvariant, ClaimsDisjoint
<1>4. \A v \in Workers : WorkerInformed(v)
  BY DEF ClaimInvariant
<1>5. ASSUME NEW v \in Workers
      PROVE  WorkerInformed(v)'
  <2>1. CASE v # w
    BY <1>4, <2>1 DEF WorkerInformed, Held, NotDispatched, Dispatched, EvidenceOf
  <2>2. CASE v = w
    <3>1. worker'[v].step = "idle" <=> worker'[v].claim = NoClaim
      BY <1>1, <2>2, NoClaimIsNone
    <3>2. worker'[v].claim \notin worker'[v].batch
      BY <1>1, <2>2, NoClaimIsNone
    <3>3. \A c \in Held(v)' : c.generation <= outbox'[c.message].last
      BY <1>2, <1>4 DEF WorkerInformed
    <3>4. \A c \in worker[v].batch : NotDispatched(c)'
      BY <1>4 DEF WorkerInformed, NotDispatched, EvidenceOf
    <3>5. worker'[v].claim # NoClaim =>
            IF worker'[v].step \in DispatchSteps THEN Dispatched(worker[v].claim)'
                                                ELSE NotDispatched(worker[v].claim)'
      BY <2>2, <3>4 DEF NotDispatched, EvidenceOf
    <3>. QED
      BY <2>2, <3>1, <3>2, <3>3, <3>4, <3>5 DEF WorkerInformed
  <2>. QED
    BY <2>1, <2>2
<1>. QED
  BY <1>3, <1>5

LEMMA DropPreserves ==
  ASSUME ClaimInvariant, NEW w \in Workers, UNCHANGED authorityVars,
         \/ \E c \in worker[w].batch : Revalidate(w, c) \/ RevalidateFails(w, c)
         \/ WorkerExits(w)
  PROVE  ClaimInvariant'
<1>1. RowsTypeOK /\ WorkerTypeOK
  BY DEF ClaimInvariant, RowsTypeOK
<1>2. /\ UNCHANGED <<outbox, history, stream>> /\ WorkerTypeOK'
      /\ \A v \in Workers : v # w => worker'[v] = worker[v]
      /\ worker'[w].batch \subseteq worker[w].batch
      /\ \/ worker'[w].claim = NoClaim /\ worker'[w].step = "idle"
         \/ /\ worker'[w].claim \in worker[w].batch \ worker'[w].batch
            /\ worker'[w].step \notin DispatchSteps \cup {"idle"}
  <2>1. CASE WorkerExits(w)
    <3>1. worker' = [worker EXCEPT ![w] = Idle] /\ UNCHANGED <<outbox, history, stream>>
      BY <2>1 DEF WorkerExits
    <3>2. Idle \in [batch : SUBSET Claims, claim : Claims \cup {NoClaim}, step : Steps]
      BY DEF Idle, Steps
    <3>. QED
      BY <1>1, <3>1, <3>2 DEF WorkerTypeOK, Idle
  <2>2. CASE \E c \in worker[w].batch : Revalidate(w, c) \/ RevalidateFails(w, c)
    <3>1. PICK c \in worker[w].batch, step \in {"revalidated", "stale", "conflict"} : Take(w, c, step)
      BY <2>2 DEF Revalidate, RevalidateFails, Revalidated
    <3>2. /\ worker' = [worker EXCEPT ![w] = [batch |-> @.batch \ {c}, claim |-> c, step |-> step]]
          /\ UNCHANGED <<outbox, history, stream>>
      BY <3>1 DEF Take
    <3>3. c \in Claims /\ worker[w].batch \subseteq Claims
      BY <1>1 DEF WorkerTypeOK
    <3>4. [batch |-> worker[w].batch \ {c}, claim |-> c, step |-> step]
            \in [batch : SUBSET Claims, claim : Claims \cup {NoClaim}, step : Steps]
      BY <3>3 DEF Steps
    <3>5. WorkerTypeOK' /\ \A v \in Workers : v # w => worker'[v] = worker[v]
      BY <1>1, <3>2, <3>4 DEF WorkerTypeOK
    <3>6. worker'[w] = [batch |-> worker[w].batch \ {c}, claim |-> c, step |-> step]
      BY <1>1, <3>2 DEF WorkerTypeOK
    <3>7. step \notin DispatchSteps \cup {"idle"}
      BY DEF DispatchSteps
    <3>8. worker'[w].batch = worker[w].batch \ {c} /\ worker'[w].claim = c /\ worker'[w].step = step
      BY <3>6, SMTT(30)
    <3>. QED
      BY <3>2, <3>5, <3>7, <3>8
  <2>. QED
    BY <2>1, <2>2
<1>3. (\A v \in Workers : WorkerInformed(v)') /\ ClaimsDisjoint'
  BY <1>2, DropKept
<1>4. RowsTypeOK'
  BY <1>1, <1>2, IntentsKept DEF RowsTypeOK, OutboxRowsOK, HistoryTypeOK, IntentsTypeOK
<1>. QED
  BY <1>2, <1>3, <1>4 DEF ClaimInvariant, RowConsistent, authorityVars, Unclaimed, EndedByCurrentClaim

\* ClaimOutbox: every claim is a generation nobody has used.
LEMMA ClaimPreserves ==
  ASSUME ClaimInvariant, NEW w \in Workers, NEW batch \in SUBSET Messages,
         ClaimOutbox(w, batch), UNCHANGED authorityVars
  PROVE  ClaimInvariant'
<1> DEFINE New(m) == [message |-> m, generation |-> outbox[m].last + 1]
<1>1. RowsTypeOK /\ WorkerTypeOK /\ OutboxRowsOK /\ HistoryTypeOK
  BY DEF ClaimInvariant, RowsTypeOK
<1>2. /\ worker[w] = Idle
      /\ \A m \in batch : Claimable(m)
      /\ outbox' = [m \in Messages |->
           IF m \in batch THEN [state |-> "CLAIMED", owner |-> w, last |-> outbox[m].last + 1,
                                elapsed |-> FALSE]
           ELSE outbox[m]]
      /\ history' = [m \in Messages |->
           IF m \in batch
           THEN [history[m] EXCEPT ![outbox[m].last + 1] = @ \cup {"CLAIM_GRANTED"}]
           ELSE history[m]]
      /\ worker' = [worker EXCEPT ![w].batch = {New(m) : m \in batch}]
      /\ UNCHANGED stream
  BY DEF ClaimOutbox
<1>. PICK taken : taken = {New(m) : m \in batch}
  OBVIOUS
<1>3. \A m \in Messages : outbox[m].last \in 0..MaxClaims
  BY <1>1 DEF OutboxRowsOK
<1>4. \A m \in batch : outbox[m].last + 1 \in Generations /\ outbox[m].last < MaxClaims
  BY <1>2, <1>3, OutboxAssumption, SMTT(30) DEF Claimable, Generations
<1>5. \A m \in batch : New(m) \in Claims /\ New(m).message = m /\ New(m).generation = outbox[m].last + 1
  BY <1>4 DEF Claims
<1>. HIDE DEF New
<1>6. OutboxRowsOK'
  <2>1. \A m \in batch : [state |-> "CLAIMED", owner |-> w, last |-> outbox[m].last + 1, elapsed |-> FALSE]
          \in [state : {"NONE", "PENDING", "CLAIMED", "DELIVERED", "DEAD_LETTER"},
               owner : Workers \cup {NoOwner}, last : 0..MaxClaims, elapsed : BOOLEAN]
    BY <1>3, <1>4, OutboxAssumption, SMTT(30)
  <2>. QED
    BY <1>1, <1>2, <2>1 DEF OutboxRowsOK
<1>7. /\ \A m \in batch : outbox'[m].state = "CLAIMED" /\ outbox'[m].owner = w
                          /\ outbox'[m].last = outbox[m].last + 1
      /\ \A m \in Messages : m \notin batch => outbox'[m] = outbox[m]
  BY <1>2
<1>8. HistoryTypeOK'
  BY <1>1, <1>2, <1>4 DEF HistoryTypeOK, EventTypes
<1>9. \A m \in Messages, g \in Generations : history'[m][g] =
        IF m \in batch /\ g = outbox[m].last + 1 THEN history[m][g] \cup {"CLAIM_GRANTED"}
        ELSE history[m][g]
  BY <1>1, <1>2, <1>4 DEF HistoryTypeOK
<1>10. taken \subseteq Claims
  BY <1>5
<1>11. /\ WorkerTypeOK'
       /\ \A v \in Workers : v # w => worker'[v] = worker[v]
       /\ worker'[w].batch = taken /\ worker'[w].claim = NoClaim /\ worker'[w].step = "idle"
  <2>1. worker' = [worker EXCEPT ![w].batch = taken]
    BY <1>2
  <2>2. worker[w].claim = NoClaim /\ worker[w].step = "idle"
    BY <1>2, SMTT(30) DEF Idle
  <2>. QED
    BY <1>1, <1>10, <2>1, <2>2 DEF WorkerTypeOK
<1>12. RowsTypeOK'
  BY <1>1, <1>2, <1>6, <1>8, <1>11, IntentsKept DEF RowsTypeOK, IntentsTypeOK
<1>13. ASSUME NEW m \in Messages
       PROVE  RowConsistent(m)'
  <2>1. RowConsistent(m) /\ basis' = basis
    BY DEF ClaimInvariant, authorityVars
  <2>2. CASE m \in batch
    <3>1. outbox[m].state # "NONE"
      BY <1>2, <2>2 DEF Claimable
    <3>2. w # NoOwner
      BY OutboxAssumption DEF NoOwner
    <3>. QED
      BY <1>7, <2>1, <2>2, <3>1, <3>2 DEF RowConsistent
  <2>3. CASE m \notin batch
    BY <1>7, <2>1, <2>3 DEF RowConsistent
  <2>. QED
    BY <2>2, <2>3
<1>14. ASSUME NEW v \in Workers, v # w, NEW c \in Held(v)
       PROVE  /\ c \in Claims /\ \A m \in batch : c # New(m)
              /\ c.generation <= outbox'[c.message].last
              /\ EvidenceOf(c)' = EvidenceOf(c)
  <2>1. c \in Claims
    BY <1>1, NoClaimIsNone DEF WorkerTypeOK, Held
  <2>2. c.message \in Messages /\ c.generation \in Generations /\ c.generation <= outbox[c.message].last
    BY <2>1, ClaimFields DEF ClaimInvariant, WorkerInformed
  <2>3. c.generation # outbox[c.message].last + 1 /\ c.generation <= outbox[c.message].last + 1
    BY <1>3, <2>2, SMTT(30) DEF Generations
  <2>4. \A m \in batch : c # New(m)
    BY <1>5, <2>3
  <2>5. c.generation <= outbox'[c.message].last
    BY <1>7, <2>2, <2>3
  <2>6. EvidenceOf(c)' = EvidenceOf(c)
    BY <1>9, <2>2, <2>3 DEF EvidenceOf
  <2>. QED
    BY <2>1, <2>4, <2>5, <2>6
<1>15. \A v \in Workers : v # w => Held(v)' = Held(v)
  BY <1>11 DEF Held
<1>16. Held(w)' = taken
  BY <1>11 DEF Held
<1>17. ClaimsDisjoint'
  <2>. SUFFICES ASSUME NEW u \in Workers, NEW v \in Workers, u # v
       PROVE  Held(u)' \cap Held(v)' = {}
    BY DEF ClaimsDisjoint
  <2>1. CASE u # w /\ v # w
    BY <1>15, <2>1 DEF ClaimInvariant, ClaimsDisjoint
  <2>2. ASSUME NEW x \in Workers, x # w
        PROVE  taken \cap Held(x) = {}
    BY <1>14, <2>2
  <2>. QED
    BY <1>15, <1>16, <2>1, <2>2
<1>18. ASSUME NEW v \in Workers
       PROVE  WorkerInformed(v)'
  <2>1. CASE v # w
    <3>1. WorkerInformed(v) /\ worker'[v] = worker[v]
      BY <1>11, <2>1 DEF ClaimInvariant
    <3>2. \A c \in Held(v) : c.generation <= outbox'[c.message].last /\ EvidenceOf(c)' = EvidenceOf(c)
      BY <1>14, <2>1
    <3>3. \A c \in worker[v].batch : c \in Held(v) /\ NotDispatched(c)'
      BY <3>1, <3>2 DEF WorkerInformed, NotDispatched, Held
    <3>4. ASSUME NEW c, c = worker[v].claim, c # NoClaim
          PROVE  IF worker[v].step \in DispatchSteps THEN Dispatched(c)' ELSE NotDispatched(c)'
      BY <3>1, <3>2, <3>4 DEF WorkerInformed, NotDispatched, Dispatched, Held
    <3>5. worker'[v].claim # NoClaim =>
            IF worker'[v].step \in DispatchSteps THEN Dispatched(worker[v].claim)'
                                                ELSE NotDispatched(worker[v].claim)'
      BY <3>1, <3>4 DEF Dispatched, NotDispatched, EvidenceOf
    <3>. QED
      BY <1>15, <2>1, <3>1, <3>2, <3>3, <3>5 DEF WorkerInformed
  <2>2. CASE v = w
    <3>1. ASSUME NEW c \in taken
          PROVE  c.generation <= outbox'[c.message].last /\ NotDispatched(c)'
      <4>1. PICK m \in batch : c = New(m)
        OBVIOUS
      <4>2. outbox[m].last + 1 > outbox[m].last /\ outbox[m].last + 1 <= outbox[m].last + 1
        BY <1>3, SMTT(30)
      <4>3. history[m][outbox[m].last + 1] = {}
        BY <1>4, <4>2 DEF ClaimInvariant, Unclaimed
      <4>4. c.message = m /\ c.generation = outbox[m].last + 1
        BY <1>5, <4>1
      <4>5. history'[m][outbox[m].last + 1] = {"CLAIM_GRANTED"}
        BY <1>4, <1>9, <4>3
      <4>6. NotDispatched(c)'
        BY <4>4, <4>5 DEF NotDispatched, EvidenceOf
      <4>. QED
        BY <1>7, <4>2, <4>4, <4>6
    <3>2. NoClaim \notin taken
      BY <1>10, NoClaimIsNone
    <3>. QED
      BY <1>11, <1>16, <2>2, <3>1, <3>2 DEF WorkerInformed
  <2>. QED
    BY <2>1, <2>2
<1>19. Unclaimed'
  <2>. SUFFICES ASSUME NEW m \in Messages, NEW g \in Generations, g > outbox'[m].last
       PROVE  history'[m][g] = {}
    BY DEF Unclaimed
  <2>1. g > outbox[m].last /\ ~(m \in batch /\ g = outbox[m].last + 1)
    BY <1>3, <1>7, SMTT(30) DEF Generations
  <2>. QED
    BY <1>9, <2>1 DEF ClaimInvariant, Unclaimed
<1>20. EndedByCurrentClaim'
  <2>. SUFFICES ASSUME NEW m \in Messages, NEW g \in Generations
       PROVE  LET ended == history'[m][g] \cap Ended IN
              /\ ended # {} <=> outbox'[m].state \in {"DELIVERED", "DEAD_LETTER"} /\ g = outbox'[m].last
              /\ ended # {} => "DISPATCH_UNKNOWN" \notin history'[m][g] /\ ended # Ended
              /\ "CLAIM_GRANTED" \in history'[m][g] <=> g <= outbox'[m].last
    BY DEF EndedByCurrentClaim
  <2>1. LET ended == history[m][g] \cap Ended IN
        /\ ended # {} <=> outbox[m].state \in {"DELIVERED", "DEAD_LETTER"} /\ g = outbox[m].last
        /\ ended # {} => "DISPATCH_UNKNOWN" \notin history[m][g] /\ ended # Ended
        /\ "CLAIM_GRANTED" \in history[m][g] <=> g <= outbox[m].last
    BY DEF ClaimInvariant, EndedByCurrentClaim
  <2>2. CASE m \in batch
    <3>1. outbox[m].state \notin {"DELIVERED", "DEAD_LETTER"}
      BY <1>2, <2>2 DEF Claimable
    <3>2. history'[m][g] \cap Ended = {}
      BY <1>9, <2>1, <3>1 DEF Ended
    <3>3. "CLAIM_GRANTED" \in history'[m][g] <=> g <= outbox[m].last \/ g = outbox[m].last + 1
      BY <1>9, <2>1, <2>2
    <3>4. "CLAIM_GRANTED" \in history'[m][g] <=> g <= outbox'[m].last
      BY <1>3, <1>7, <2>2, <3>3, SMTT(30) DEF Generations
    <3>. QED
      BY <1>7, <2>2, <3>2, <3>4
  <2>3. CASE m \notin batch
    BY <1>7, <1>9, <2>1, <2>3
  <2>. QED
    BY <2>2, <2>3
<1>. QED
  BY <1>12, <1>13, <1>17, <1>18, <1>19, <1>20 DEF ClaimInvariant

LEMMA ElapsePreserves ==
  ASSUME ClaimInvariant, NEW m \in Messages, ClaimElapses(m), UNCHANGED authorityVars
  PROVE  ClaimInvariant'
<1>1. outbox' = [outbox EXCEPT ![m].elapsed = TRUE] /\ UNCHANGED <<history, worker, stream>>
  BY DEF ClaimElapses
<1>2. RowsTypeOK /\ OutboxRowsOK
  BY DEF ClaimInvariant, RowsTypeOK
<1>3. OutboxRowsOK' /\ \A x \in Messages : /\ outbox'[x].state = outbox[x].state
                                           /\ outbox'[x].owner = outbox[x].owner
                                           /\ outbox'[x].last = outbox[x].last
  BY <1>1, <1>2 DEF OutboxRowsOK
<1>4. RowsTypeOK'
  BY <1>1, <1>2, <1>3, IntentsKept DEF RowsTypeOK, IntentsTypeOK, HistoryTypeOK, WorkerTypeOK
<1>5. \A w \in Workers : WorkerInformed(w)'
  <2>. SUFFICES ASSUME NEW w \in Workers
       PROVE  WorkerInformed(w)'
    OBVIOUS
  <2>1. \A c \in Held(w) : c \in Claims
    BY <1>2 DEF RowsTypeOK, WorkerTypeOK, Held
  <2>2. \A c \in Held(w)' : c.generation <= outbox'[c.message].last
    BY <1>1, <1>3, <2>1, ClaimFields DEF ClaimInvariant, WorkerInformed, Held
  <2>. QED
    BY <1>1, <2>2 DEF ClaimInvariant, WorkerInformed, Held, NotDispatched, Dispatched, EvidenceOf
<1>6. EndedByCurrentClaim'
  BY <1>1, <1>3, EndedKept DEF ClaimInvariant
<1>7. \A x \in Messages : RowConsistent(x)'
  BY <1>3 DEF ClaimInvariant, RowConsistent, authorityVars
<1>8. ClaimsDisjoint' /\ Unclaimed'
  BY <1>1, <1>3 DEF ClaimInvariant, Unclaimed, ClaimsDisjoint, Held
<1>. QED
  BY <1>4, <1>5, <1>6, <1>7, <1>8 DEF ClaimInvariant

\* Sessions and authority change what written intents rest on, and write none.
LEMMA AuthorityEffect ==
  ASSUME IntentsTypeOK, AdmitSession \/ AuthorityChanges, UNCHANGED stream
  PROVE  IntentsTypeOK' /\ \A x \in Messages : basis'[x] = "unwritten" <=> basis[x] = "unwritten"
<1>1. CASE AdmitSession
  <2>1. current' \in 1..MaxSession
    BY <1>1, MessagesAssumption, SMTT(30) DEF IntentsTypeOK, AdmitSession
  <2>. QED
    BY <1>1, <2>1 DEF IntentsTypeOK, AdmitSession
<1>2. CASE \E m \in Messages : BasisEnds(m)
  BY <1>2 DEF IntentsTypeOK, BasisEnds
<1>3. CASE AuthorizationWithdrawn
  BY <1>3 DEF IntentsTypeOK, AuthorizationWithdrawn
<1>4. CASE AuthorizationReturns
  BY <1>4 DEF IntentsTypeOK, AuthorizationReturns
<1>. QED
  BY <1>1, <1>2, <1>3, <1>4 DEF AuthorityChanges

\* What writes intents and changes authority leaves the claims alone.
LEMMA AuthorityPreserves ==
  ASSUME ClaimInvariant,
         \/ \E m \in Messages : Enqueue(m)
         \/ (AdmitSession \/ AuthorityChanges) /\ UNCHANGED <<outboxVars, stream>>
  PROVE  ClaimInvariant'
<1>1. RowsTypeOK /\ OutboxRowsOK /\ IntentsTypeOK
  BY DEF ClaimInvariant, RowsTypeOK
<1>2. CASE \E m \in Messages : Enqueue(m)
  <2>1. PICK m \in Messages : Enqueue(m)
    BY <1>2
  <2>2. /\ basis[m] = "unwritten" /\ basis' = [basis EXCEPT ![m] = "held"]
        /\ outbox' = [outbox EXCEPT ![m].state = "PENDING"]
        /\ UNCHANGED <<history, worker, stream, current>>
    BY <2>1 DEF Enqueue, WriteIntent
  <2>3. IntentsTypeOK' /\ \A x \in Messages : basis'[x] = IF x = m THEN "held" ELSE basis[x]
    BY <1>1, <2>2 DEF IntentsTypeOK
  <2>4. OutboxRowsOK' /\ \A x \in Messages :
          /\ outbox'[x].state = IF x = m THEN "PENDING" ELSE outbox[x].state
          /\ outbox'[x].owner = outbox[x].owner
          /\ outbox'[x].last = outbox[x].last
    BY <1>1, <2>2 DEF OutboxRowsOK
  <2>5. outbox[m].state = "NONE"
    BY <2>2 DEF ClaimInvariant, RowConsistent
  <2>6. \A x \in Messages : RowConsistent(x)'
    <3>1. ASSUME NEW x \in Messages, x # m
          PROVE  RowConsistent(x)'
      BY <2>3, <2>4, <3>1 DEF ClaimInvariant, RowConsistent
    <3>2. RowConsistent(m)'
      BY <2>3, <2>4, <2>5 DEF ClaimInvariant, RowConsistent
    <3>. QED  BY <3>1, <3>2
  <2>7. RowsTypeOK'
    BY <1>1, <2>2, <2>3, <2>4 DEF RowsTypeOK, HistoryTypeOK, WorkerTypeOK
  <2>8. \A w \in Workers : WorkerInformed(w)'
    <3>. SUFFICES ASSUME NEW w \in Workers
         PROVE  WorkerInformed(w)'
      OBVIOUS
    <3>1. \A c \in Held(w) : c \in Claims
      BY <1>1 DEF RowsTypeOK, WorkerTypeOK, Held
    <3>2. \A c \in Held(w)' : c.generation <= outbox'[c.message].last
      BY <2>2, <2>4, <3>1, ClaimFields DEF ClaimInvariant, WorkerInformed, Held
    <3>. QED
      BY <2>2, <3>2 DEF ClaimInvariant, WorkerInformed, Held, NotDispatched, Dispatched, EvidenceOf
  <2>9. EndedByCurrentClaim'
    <3>1. \A x \in Messages :
            /\ outbox'[x].last = outbox[x].last
            /\ outbox'[x].state \in {"DELIVERED", "DEAD_LETTER"}
                 <=> outbox[x].state \in {"DELIVERED", "DEAD_LETTER"}
      BY <2>4, <2>5
    <3>. QED
      BY <2>2, <3>1, EndedKept DEF ClaimInvariant
  <2>. QED
    BY <2>2, <2>4, <2>6, <2>7, <2>8, <2>9 DEF ClaimInvariant, Unclaimed, ClaimsDisjoint, Held
<1>3. CASE (AdmitSession \/ AuthorityChanges) /\ UNCHANGED <<outboxVars, stream>>
  <2>1. UNCHANGED <<outbox, history, worker, stream>>
    BY <1>3 DEF outboxVars
  <2>2. IntentsTypeOK' /\ \A x \in Messages : basis'[x] = "unwritten" <=> basis[x] = "unwritten"
    BY <1>1, <1>3, AuthorityEffect
  <2>. QED
    BY <1>1, <2>1, <2>2
       DEF ClaimInvariant, RowConsistent, RowsTypeOK, OutboxRowsOK, HistoryTypeOK, WorkerTypeOK,
           WorkerInformed, ClaimsDisjoint, Held, Unclaimed, EndedByCurrentClaim,
           NotDispatched, Dispatched, EvidenceOf
<1>. QED
  BY <1>2, <1>3

LEMMA ClaimInit == OutboxInit => ClaimInvariant
<1>. SUFFICES ASSUME OutboxInit
     PROVE  ClaimInvariant
  OBVIOUS
<1>1. IntentsTypeOK
  BY MessagesAssumption, SMTT(30) DEF OutboxInit, IntentsInit, IntentsTypeOK
<1>2. 0 \in 0..MaxClaims
  BY OutboxAssumption, SMTT(30)
<1>3. OutboxRowsOK /\ HistoryTypeOK
  BY <1>2 DEF OutboxInit, OutboxRowsOK, HistoryTypeOK
<1>4. WorkerTypeOK
  BY DEF OutboxInit, WorkerTypeOK, Idle, Steps
<1>5. \A w \in Workers : worker[w].batch = {} /\ worker[w].claim = NoClaim /\ worker[w].step = "idle"
  BY DEF OutboxInit, Idle
<1>6. \A m \in Messages : RowConsistent(m)
  BY DEF OutboxInit, IntentsInit, RowConsistent
<1>7. \A w \in Workers : WorkerInformed(w) /\ Held(w) = {}
  BY <1>5 DEF WorkerInformed, Held
<1>8. EndedByCurrentClaim /\ Unclaimed
  <2>1. \A g \in Generations : ~(g <= 0)
    BY SMTT(30) DEF Generations
  <2>. QED
    BY <2>1 DEF OutboxInit, EndedByCurrentClaim, Unclaimed
<1>. QED
  BY <1>1, <1>3, <1>4, <1>6, <1>7, <1>8 DEF ClaimInvariant, RowsTypeOK, ClaimsDisjoint

LEMMA ClaimStep == ClaimInvariant /\ [OutboxNext]_deliveryVars => ClaimInvariant'
<1>. SUFFICES ASSUME ClaimInvariant, [OutboxNext]_deliveryVars
     PROVE  ClaimInvariant'
  OBVIOUS
<1>1. CASE UNCHANGED deliveryVars
  BY <1>1 DEF deliveryVars, outboxVars, authorityVars, ClaimInvariant, RowConsistent, RowsTypeOK,
       IntentsTypeOK, OutboxRowsOK, HistoryTypeOK, WorkerTypeOK, WorkerInformed, ClaimsDisjoint,
       Held, Unclaimed, EndedByCurrentClaim, NotDispatched, Dispatched, EvidenceOf
<1>2. CASE OutboxStep /\ UNCHANGED authorityVars
  <2>1. ASSUME NEW w \in Workers, PublishStep(w) \/ FaultStep(w)
        PROVE  ClaimInvariant'
    BY <1>2, <2>1, DispatchPreserves, CompletePreserves, DropPreserves, ClaimPreserves
       DEF PublishStep, FaultStep
  <2>. QED
    BY <1>2, <2>1, ElapsePreserves DEF OutboxStep
<1>. QED
  BY <1>1, <1>2, AuthorityPreserves DEF OutboxNext

-----------------------------------------------------------------------------
(***************************************************************************)
(* Counting dispatches                                                     *)
(***************************************************************************)

LEMMA SettledFinite ==
  ASSUME NEW m \in Messages
  PROVE  IsFiniteSet(Settled(m)) /\ Cardinality(Settled(m)) \in Nat
<1>1. IsFiniteSet(Generations)
  BY OutboxAssumption, FS_Interval, SMTT(30) DEF Generations
<1>2. Settled(m) \subseteq Generations
  BY DEF Settled
<1>. QED
  BY <1>1, <1>2, FS_Subset, FS_CardinalityType

\* Nothing recorded is lost, and who is about to publish just recorded it.
DispatchesKept ==
  /\ \A m \in Messages, g \in Generations : history[m][g] \subseteq history'[m][g]
  /\ \A v \in Workers : worker'[v].step = "started" =>
       \/ worker[v].step = "started" /\ worker'[v].claim = worker[v].claim
       \/ worker'[v].claim = worker[v].claim /\ "DISPATCH_STARTED" \notin EvidenceOf(worker[v].claim)

LEMMA SettledGrows ==
  ASSUME DispatchesKept, NEW m \in Messages
  PROVE  Settled(m) \subseteq Settled(m)'
<1>. SUFFICES ASSUME NEW g \in Generations, "DISPATCH_STARTED" \in history[m][g], g \notin Dispatching(m),
                     g \in Dispatching(m)'
     PROVE  FALSE
  BY DEF DispatchesKept, Settled
<1>1. PICK v \in Workers : worker'[v].step = "started" /\ worker'[v].claim = [message |-> m, generation |-> g]
  BY DEF Dispatching
<1>2. ~(worker[v].step = "started" /\ worker[v].claim = [message |-> m, generation |-> g])
  BY DEF Dispatching
<1>3. /\ worker[v].claim = [message |-> m, generation |-> g]
      /\ "DISPATCH_STARTED" \notin EvidenceOf(worker[v].claim)
  BY <1>1, <1>2 DEF DispatchesKept
<1>4. worker[v].claim.message = m /\ worker[v].claim.generation = g
  BY <1>3, SMTT(30)
<1>. QED
  BY <1>3, <1>4 DEF EvidenceOf

LEMMA SettledFiniteNext ==
  ASSUME NEW m \in Messages
  PROVE  IsFiniteSet(Settled(m)') /\ Cardinality(Settled(m)') \in Nat
<1>1. IsFiniteSet(Generations)
  BY OutboxAssumption, FS_Interval, SMTT(30) DEF Generations
<1>2. Settled(m)' \subseteq Generations
  BY DEF Settled, Generations
<1>. QED
  BY <1>1, <1>2, FS_Subset, FS_CardinalityType

LEMMA StoredKept ==
  ASSUME StoredWasDispatched, RowsTypeOK, DispatchesKept, UNCHANGED stream
  PROVE  StoredWasDispatched'
<1>. SUFFICES ASSUME NEW m \in Messages
     PROVE  stream'[m] <= Cardinality(Settled(m)')
  BY DEF StoredWasDispatched
<1>1. Settled(m) \subseteq Settled(m)'
  BY SettledGrows
<1>2. IsFiniteSet(Settled(m)') /\ Cardinality(Settled(m)') \in Nat
  BY SettledFiniteNext
<1>3. Cardinality(Settled(m)) <= Cardinality(Settled(m)')
  BY <1>1, <1>2, FS_Subset
<1>4. stream[m] <= Cardinality(Settled(m)) /\ stream[m] \in Nat /\ Cardinality(Settled(m)) \in Nat
  BY SettledFinite DEF StoredWasDispatched, RowsTypeOK, IntentsTypeOK
<1>. QED
  BY <1>2, <1>3, <1>4, SMTT(30)

\* A step by which Worker w goes on with claim c.
LEMMA HandKeepsDispatches ==
  ASSUME NEW w \in Workers, NEW c, NEW step, Moved(w, c, step),
         step = "started" => c = worker[w].claim /\ "DISPATCH_STARTED" \notin EvidenceOf(c),
         \A m \in Messages, g \in Generations : history[m][g] \subseteq history'[m][g]
  PROVE  DispatchesKept
  BY DEF Moved, DispatchesKept

\* Publishing ends a dispatch that nobody else is in and that did not count yet.
LEMMA PublishCounts ==
  ASSUME OutboxInvariant, NEW w \in Workers, NEW step \in {"acknowledged", "unknown"},
         worker[w].step = "started", Advance(w, step), UNCHANGED history,
         Stored(worker[w].claim.message) \/ UNCHANGED stream
  PROVE  StoredWasDispatched'
<1>. PICK c : c = worker[w].claim
  OBVIOUS
<1>1. ClaimInvariant /\ RowsTypeOK /\ WorkerTypeOK /\ StoredWasDispatched
  BY DEF OutboxInvariant, ClaimInvariant, RowsTypeOK
<1>2. c \in Claims /\ c # NoClaim
  BY <1>1, ClaimInHand
<1>3. Moved(w, c, step)
  BY <1>1, AdvanceEffect DEF Steps
<1>4. DispatchesKept
  BY <1>3, HandKeepsDispatches
<1>5. CASE UNCHANGED stream
  BY <1>1, <1>4, <1>5, StoredKept
<1>6. CASE stream' = [stream EXCEPT ![c.message] = @ + 1]
  <2>. SUFFICES ASSUME NEW m \in Messages
       PROVE  stream'[m] <= Cardinality(Settled(m)')
    BY DEF StoredWasDispatched
  <2>1. Settled(m) \subseteq Settled(m)'
    BY <1>4, SettledGrows
  <2>2. IsFiniteSet(Settled(m)') /\ Cardinality(Settled(m)') \in Nat
    BY SettledFiniteNext
  <2>3. stream[m] <= Cardinality(Settled(m)) /\ stream[m] \in Nat /\ Cardinality(Settled(m)) \in Nat
    BY <1>1, SettledFinite DEF StoredWasDispatched, RowsTypeOK, IntentsTypeOK
  <2>4. CASE m # c.message
    <3>1. stream'[m] = stream[m]
      BY <1>1, <1>6, <2>4 DEF RowsTypeOK, IntentsTypeOK
    <3>2. Cardinality(Settled(m)) <= Cardinality(Settled(m)')
      BY <2>1, <2>2, FS_Subset
    <3>. QED
      BY <2>2, <2>3, <3>1, <3>2, SMTT(30)
  <2>5. CASE m = c.message
    <3>. DEFINE g == c.generation
    <3>1. stream'[m] = stream[m] + 1
      BY <1>1, <1>6, <2>5 DEF RowsTypeOK, IntentsTypeOK
    <3>2. g \in Generations /\ c = [message |-> m, generation |-> g]
      BY <1>2, <2>5, SMTT(30) DEF Claims
    <3>3. g \notin Settled(m)
      BY <3>2 DEF Settled, Dispatching
    <3>4. g \in Settled(m)'
      <4>1. "DISPATCH_STARTED" \in history[m][g]
        BY <1>1, <1>2, <2>5 DEF ClaimInvariant, WorkerInformed, Dispatched, DispatchSteps, EvidenceOf
      <4>2. g \notin Dispatching(m)'
        <5>1. \A v \in Workers : worker'[v].step = "started" => v # w /\ worker'[v].claim = worker[v].claim
          BY <1>3 DEF Moved
        <5>2. \A v \in Workers : v # w => worker[v].claim # c
          BY <1>1, <1>2, NobodyElses
        <5>. QED
          BY <3>2, <5>1, <5>2 DEF Dispatching
      <4>. QED
        BY <3>2, <4>1, <4>2 DEF Settled
    <3>5. Cardinality(Settled(m) \cup {g}) = Cardinality(Settled(m)) + 1
      BY <3>3, SettledFinite, FS_AddElement
    <3>6. Cardinality(Settled(m) \cup {g}) <= Cardinality(Settled(m)')
      BY <2>1, <2>2, <3>4, FS_Subset
    <3>. QED
      BY <2>2, <2>3, <3>1, <3>5, <3>6, SMTT(30)
  <2>. QED
    BY <2>4, <2>5
<1>. QED
  BY <1>5, <1>6 DEF Stored

\* The other steps store nothing.
LEMMA HandStores ==
  ASSUME OutboxInvariant, NEW w \in Workers,
         \/ RecordDispatchStarted(w) \/ RecordDispatchUnknown(w) \/ ClaimFails(w)
         \/ MarkOutboxDelivered(w) \/ MarkOutboxDeadLetter(w)
  PROVE  StoredWasDispatched'
<1>. PICK c : c = worker[w].claim
  OBVIOUS
<1>1. /\ ClaimInvariant /\ RowsTypeOK /\ WorkerTypeOK /\ HistoryTypeOK
      /\ StoredWasDispatched
  BY DEF OutboxInvariant, ClaimInvariant, RowsTypeOK
<1>2. worker[w].step # "idle"
  BY <1>1 DEF RecordDispatchStarted, RecordDispatchUnknown, ClaimFails, MarkOutboxDelivered,
       MarkOutboxDeadLetter, ClaimInvariant, WorkerInformed
<1>3. c \in Claims
  BY <1>1, <1>2, ClaimInHand
<1>4. ASSUME NEW type \in EventTypes, Append(c.message, c.generation, type)
      PROVE  \A m \in Messages, g \in Generations : history[m][g] \subseteq history'[m][g]
  <2>1. Appended(c, type)
    BY <1>1, <1>3, <1>4, AppendEffect
  <2>2. \A m \in Messages, g \in Generations :
          history'[m][g] # history[m][g] => history'[m][g] = history[m][g] \cup {type}
    BY <2>1 DEF Appended
  <2>. QED
    BY <2>2
<1>5. ASSUME Finish(w), \A m \in Messages, g \in Generations : history[m][g] \subseteq history'[m][g]
      PROVE  DispatchesKept
  BY <1>1, <1>5, FinishEffect, HandKeepsDispatches
<1>6. CASE RecordDispatchStarted(w)
  <2>1. Append(c.message, c.generation, "DISPATCH_STARTED") /\ Advance(w, "started") /\ UNCHANGED stream
    BY <1>6 DEF RecordDispatchStarted
  <2>2. "DISPATCH_STARTED" \notin EvidenceOf(c)
    <3>1. NotDispatched(c)
      BY <1>1, <1>3, <1>6, NoClaimIsNone DEF RecordDispatchStarted, ClaimInvariant, WorkerInformed, DispatchSteps
    <3>. QED
      BY <3>1 DEF NotDispatched
  <2>3. Moved(w, c, "started")
    BY <1>1, <2>1, AdvanceEffect DEF Steps
  <2>4. DispatchesKept
    BY <1>4, <2>1, <2>2, <2>3, HandKeepsDispatches DEF EventTypes
  <2>. QED
    BY <1>1, <2>1, <2>4, StoredKept
<1>7. CASE RecordDispatchUnknown(w)
  <2>1. Append(c.message, c.generation, "DISPATCH_UNKNOWN") /\ Finish(w) /\ UNCHANGED stream
    BY <1>7 DEF RecordDispatchUnknown
  <2>. QED
    BY <1>1, <1>4, <1>5, <2>1, StoredKept DEF EventTypes
<1>8. CASE ClaimFails(w)
  <2>1. UNCHANGED <<history, stream>> /\ Finish(w)
    BY <1>8 DEF ClaimFails
  <2>. QED
    BY <1>1, <1>5, <2>1, StoredKept
<1>9. CASE MarkOutboxDelivered(w) \/ MarkOutboxDeadLetter(w)
  <2>1. Finish(w) /\ UNCHANGED stream
    BY <1>9 DEF MarkOutboxDelivered, MarkOutboxDeadLetter, Complete
  <2>2. \/ UNCHANGED history
        \/ Append(c.message, c.generation, "DELIVERY_ACKNOWLEDGED")
        \/ Append(c.message, c.generation, "DEAD_LETTERED")
    BY <1>9 DEF MarkOutboxDelivered, MarkOutboxDeadLetter, Complete
  <2>3. \A m \in Messages, g \in Generations : history[m][g] \subseteq history'[m][g]
    BY <1>4, <2>2 DEF EventTypes
  <2>. QED
    BY <1>1, <1>5, <2>1, <2>3, StoredKept
<1>. QED
  BY <1>6, <1>7, <1>8, <1>9

LEMMA StoredStep == OutboxInvariant /\ [OutboxNext]_deliveryVars => StoredWasDispatched'
<1>. SUFFICES ASSUME OutboxInvariant, [OutboxNext]_deliveryVars
     PROVE  StoredWasDispatched'
  OBVIOUS
<1>1. /\ ClaimInvariant /\ RowsTypeOK /\ WorkerTypeOK /\ HistoryTypeOK /\ OutboxRowsOK
      /\ StoredWasDispatched
  BY DEF OutboxInvariant, ClaimInvariant, RowsTypeOK
<1>2. ASSUME UNCHANGED <<history, worker, stream>>
      PROVE  StoredWasDispatched'
  BY <1>1, <1>2 DEF StoredWasDispatched, Settled, Dispatching
<1>3. ASSUME NEW w \in Workers, PublishStep(w) \/ FaultStep(w)
      PROVE  StoredWasDispatched'
  <2>1. CASE PublishAcknowledged(w)
    BY <2>1, PublishCounts DEF PublishAcknowledged
  <2>2. CASE PublishUncertain(w)
    BY <2>2, PublishCounts DEF PublishUncertain
  <2>3. CASE \E c \in worker[w].batch : Revalidate(w, c) \/ RevalidateFails(w, c)
    <3>1. ASSUME NEW c \in worker[w].batch, NEW step, Take(w, c, step), step # "started"
          PROVE  StoredWasDispatched'
      <4>1. worker' = [worker EXCEPT ![w] = [batch |-> @.batch \ {c}, claim |-> c, step |-> step]]
        BY <3>1 DEF Take
      <4>2. worker'[w].step # "started" /\ \A v \in Workers : v # w => worker'[v] = worker[v]
        BY <1>1, <3>1, <4>1 DEF WorkerTypeOK
      <4>3. DispatchesKept
        BY <3>1, <4>2 DEF DispatchesKept, Take
      <4>. QED
        BY <1>1, <3>1, <4>3, StoredKept DEF Take
    <3>2. PICK c \in worker[w].batch : Take(w, c, Revalidated(c.message)) \/ Take(w, c, "stale")
      BY <2>3 DEF Revalidate, RevalidateFails
    <3>3. Revalidated(c.message) # "started"
      BY DEF Revalidated
    <3>. QED
      BY <3>1, <3>2, <3>3
  <2>4. CASE WorkerExits(w)
    <3>1. worker'[w].step # "started" /\ \A v \in Workers : v # w => worker'[v] = worker[v]
      BY <1>1, <2>4 DEF WorkerExits, WorkerTypeOK, Idle
    <3>2. DispatchesKept
      BY <2>4, <3>1 DEF DispatchesKept, WorkerExits
    <3>. QED
      BY <1>1, <2>4, <3>2, StoredKept DEF WorkerExits
  <2>5. CASE \E batch \in SUBSET Messages : ClaimOutbox(w, batch)
    <3>1. PICK batch \in SUBSET Messages : ClaimOutbox(w, batch)
      BY <2>5
    <3>2. \A v \in Workers : worker'[v].step = worker[v].step /\ worker'[v].claim = worker[v].claim
      BY <1>1, <3>1 DEF ClaimOutbox, WorkerTypeOK
    <3>3. \A m \in Messages : history'[m] =
            IF m \in batch THEN [history[m] EXCEPT ![outbox[m].last + 1] = @ \cup {"CLAIM_GRANTED"}]
            ELSE history[m]
      BY <3>1 DEF ClaimOutbox
    <3>4. \A m \in Messages : history[m] \in [Generations -> SUBSET EventTypes]
      BY <1>1 DEF HistoryTypeOK
    <3>5. \A m \in Messages, g \in Generations : history[m][g] \subseteq history'[m][g]
      BY <3>3, <3>4
    <3>6. DispatchesKept
      BY <3>2, <3>5 DEF DispatchesKept
    <3>. QED
      BY <1>1, <3>1, <3>6, StoredKept DEF ClaimOutbox
  <2>. QED
    BY <1>3, <2>1, <2>2, <2>3, <2>4, <2>5, HandStores DEF PublishStep, FaultStep
<1>4. CASE UNCHANGED deliveryVars
  BY <1>2, <1>4 DEF deliveryVars, outboxVars
<1>5. CASE OutboxStep
  BY <1>2, <1>3, <1>5 DEF OutboxStep, ClaimElapses
<1>6. CASE \E m \in Messages : Enqueue(m)
  BY <1>2, <1>6 DEF Enqueue
<1>. QED
  BY <1>2, <1>4, <1>5, <1>6 DEF OutboxNext, outboxVars

-----------------------------------------------------------------------------
(***************************************************************************)
(* Theorems                                                                *)
(***************************************************************************)

LEMMA OutboxStarts == OutboxInit => OutboxInvariant
<1>. SUFFICES ASSUME OutboxInit
     PROVE  StoredWasDispatched
  BY ClaimInit DEF OutboxInvariant
<1>1. \A m \in Messages : stream[m] = 0
  BY DEF OutboxInit, IntentsInit
<1>2. ASSUME NEW m \in Messages
      PROVE  0 <= Cardinality(Settled(m))
  <2>1. Cardinality(Settled(m)) \in Nat
    BY SettledFinite
  <2>. QED
    BY <2>1, SMTT(30)
<1>. QED
  BY <1>1, <1>2 DEF StoredWasDispatched

\* The inductive invariant of the Outbox (outbox.go, publisher.go): claims are
\* exclusive, and what a Worker holds matches the row and its evidence.
THEOREM OutboxInvariantTheorem == OutboxSpec => []OutboxInvariant
<1>1. OutboxInvariant /\ [OutboxNext]_deliveryVars => OutboxInvariant'
  BY ClaimStep, StoredStep DEF OutboxInvariant
<1>. QED
  BY <1>1, OutboxStarts, PTL DEF OutboxSpec

LEMMA StoredAtMostClaims ==
  ASSUME OutboxInvariant, NEW m \in Messages
  PROVE  /\ stream[m] <= Cardinality({g \in Generations : "DISPATCH_STARTED" \in history[m][g]})
         /\ stream[m] <= MaxClaims
<1>. DEFINE Recorded == {g \in Generations : "DISPATCH_STARTED" \in history[m][g]}
<1>1. IsFiniteSet(Generations) /\ Cardinality(Generations) = MaxClaims
  BY OutboxAssumption, FS_Interval, SMTT(30) DEF Generations
<1>2. Settled(m) \subseteq Recorded /\ Recorded \subseteq Generations
  BY DEF Settled
<1>3. IsFiniteSet(Recorded) /\ Cardinality(Recorded) \in Nat /\ Cardinality(Recorded) <= MaxClaims
  BY <1>1, <1>2, FS_Subset, FS_CardinalityType
<1>4. Cardinality(Settled(m)) <= Cardinality(Recorded)
  BY <1>2, <1>3, FS_Subset
<1>5. stream[m] <= Cardinality(Settled(m)) /\ stream[m] \in Nat /\ Cardinality(Settled(m)) \in Nat
  BY SettledFinite DEF OutboxInvariant, ClaimInvariant, StoredWasDispatched, RowsTypeOK, IntentsTypeOK
<1>. QED
  BY <1>3, <1>4, <1>5, OutboxAssumption, SMTT(30)

\* The rows, the evidence and the Workers stay well formed, exactly the CLAIMED
\* rows have an owner (the CHECK constraint of outbox_messages), and the bus
\* stores a message at most once per claim.
THEOREM OutboxTypeTheorem == OutboxSpec => []OutboxTypeOK
<1>1. OutboxInvariant => OutboxTypeOK
  BY StoredAtMostClaims DEF OutboxInvariant, ClaimInvariant, RowsTypeOK, OutboxRowsOK, HistoryTypeOK,
     WorkerTypeOK, RowConsistent, OutboxTypeOK
<1>. QED
  BY <1>1, OutboxInvariantTheorem, PTL

\* The evidence of the Outbox is true at every moment of every execution: rows
\* end in their current claim, once, and nothing reaches the bus without a
\* recorded dispatch (outbox.go).
THEOREM EvidenceTheorem == OutboxSpec => []EvidenceIsTrue
<1>1. OutboxInvariant => EvidenceIsTrue
  BY StoredAtMostClaims DEF OutboxInvariant, ClaimInvariant, EvidenceIsTrue, StoredHasEvidence
<1>. QED
  BY <1>1, OutboxInvariantTheorem, PTL

-----------------------------------------------------------------------------
(***************************************************************************)
(* Streams and the OutboundRegistry                                        *)
(***************************************************************************)

StreamStates == {"none", "granted", "open", "closed"}

\* No stream is newer than the current session, which is why the newest one
\* never finds a newer entry in its way.
StreamInvariant ==
  /\ current \in Sessions
  /\ registry \in [Gateways -> 0..MaxSession]
  /\ streams \in [Gateways -> [Sessions -> StreamStates]]
  /\ \A gw \in Gateways, g \in Sessions : streams[gw][g] # "none" => g <= current
  /\ CurrentStreamIsRegistered

LEMMA StreamInit == GatewayInit => StreamInvariant
<1>. SUFFICES ASSUME GatewayInit
     PROVE  StreamInvariant
  OBVIOUS
<1>1. 1 \in Sessions /\ 0 \in 0..MaxSession
  BY MessagesAssumption, SMTT(30) DEF Sessions
<1>. QED
  BY <1>1 DEF GatewayInit, IntentsInit, StreamInvariant, StreamStates, CurrentStreamIsRegistered

\* One stream of one Gateway changes.
StreamMoves(gw, g, state) ==
  /\ streams' \in [Gateways -> [Sessions -> StreamStates]]
  /\ streams'[gw][g] = state
  /\ \A v \in Gateways, x \in Sessions : v # gw \/ x # g => streams'[v][x] = streams[v][x]

LEMMA StreamEffect ==
  ASSUME StreamInvariant, NEW gw \in Gateways, NEW g \in Sessions, NEW state \in StreamStates,
         streams' = [streams EXCEPT ![gw][g] = state]
  PROVE  StreamMoves(gw, g, state)
<1>1. \A v \in Gateways : streams'[v] = IF v = gw THEN [streams[gw] EXCEPT ![g] = state] ELSE streams[v]
  BY DEF StreamInvariant
<1>2. \A v \in Gateways : streams[v] \in [Sessions -> StreamStates]
  BY DEF StreamInvariant
<1>3. streams' \in [Gateways -> [Sessions -> StreamStates]]
  BY SMTT(30) DEF StreamInvariant
<1>4. \A x \in Sessions : [streams[gw] EXCEPT ![g] = state][x] = IF x = g THEN state ELSE streams[gw][x]
  BY <1>2
<1>. QED
  BY <1>1, <1>3, <1>4 DEF StreamMoves

LEMMA GrantPreserves ==
  ASSUME StreamInvariant, NEW gw \in Gateways, GrantStream(gw)
  PROVE  StreamInvariant'
<1>. PICK g : g = current + 1
  OBVIOUS
<1>1. g \in Sessions /\ current' = g /\ UNCHANGED registry
  BY MessagesAssumption, SMTT(30) DEF GrantStream, AdmitSession, StreamInvariant, Sessions
<1>2. StreamMoves(gw, g, "granted")
  BY <1>1, StreamEffect DEF GrantStream, StreamStates
<1>3. \A x \in Sessions : x <= current => x <= g /\ x # g
  BY SMTT(30) DEF StreamInvariant, Sessions
<1>4. g <= g
  BY <1>1, SMTT(30) DEF Sessions
<1>5. \A v \in Gateways : streams[v][g] = "none"
  BY <1>1, <1>3 DEF StreamInvariant
<1>6. \A v \in Gateways, x \in Sessions : streams'[v][x] # "none" => x <= g
  BY <1>2, <1>3, <1>4 DEF StreamMoves, StreamInvariant
<1>7. CurrentStreamIsRegistered'
  <2>. SUFFICES ASSUME NEW v \in Gateways
       PROVE  /\ registry'[v] # 0 => streams'[v][registry'[v]] = "open"
              /\ streams'[v][current'] = "open" => registry'[v] = current'
    BY DEF CurrentStreamIsRegistered
  <2>1. streams'[v][g] # "open"
    BY <1>1, <1>2, <1>5 DEF StreamMoves
  <2>2. ASSUME registry[v] # 0
        PROVE  streams'[v][registry[v]] = "open"
    <3>1. registry[v] \in Sessions
      BY <2>2, SMTT(30) DEF StreamInvariant, Sessions
    <3>2. streams[v][registry[v]] = "open"
      BY <2>2 DEF StreamInvariant, CurrentStreamIsRegistered
    <3>3. registry[v] # g
      BY <1>5, <3>2
    <3>. QED
      BY <1>2, <3>1, <3>2, <3>3 DEF StreamMoves
  <2>. QED
    BY <1>1, <2>1, <2>2
<1>. QED
  BY <1>1, <1>2, <1>6, <1>7 DEF StreamInvariant, StreamMoves, Sessions

LEMMA RegisterPreserves ==
  ASSUME StreamInvariant, NEW gw \in Gateways, NEW g \in Sessions, RegisterStream(gw, g)
  PROVE  StreamInvariant'
<1>1. UNCHANGED current /\ streams[gw][g] = "granted" /\ g <= current /\ current \in Sessions
  BY DEF RegisterStream, authorityVars, StreamInvariant
<1>2. g \in Nat /\ g # 0 /\ g \in 0..MaxSession /\ registry[gw] \in Nat /\ current \in Nat
  BY MessagesAssumption, <1>1, SMTT(30) DEF Sessions, StreamInvariant
<1>3. \A v \in Gateways : registry[v] \in 0..MaxSession /\ (registry[v] # 0 => registry[v] \in Sessions)
  BY SMTT(30) DEF StreamInvariant, Sessions
<1>4. \A v \in Gateways : registry[v] # 0 => streams[v][registry[v]] = "open"
  BY DEF StreamInvariant, CurrentStreamIsRegistered
<1>5. \A v \in Gateways : streams[v][current] = "open" => registry[v] = current
  BY DEF StreamInvariant, CurrentStreamIsRegistered
<1>6. CASE registry[gw] >= g
  <2>1. StreamMoves(gw, g, "closed") /\ UNCHANGED registry
    BY <1>6, StreamEffect DEF RegisterStream, StreamStates
  <2>2. registry[gw] # g
    BY <1>1, <1>2, <1>4
  <2>3. \A v \in Gateways, x \in Sessions : streams'[v][x] # "none" => x <= current
    BY <1>1, <2>1 DEF StreamMoves, StreamInvariant
  <2>4. CurrentStreamIsRegistered'
    BY <1>1, <1>3, <1>4, <1>5, <2>1, <2>2 DEF CurrentStreamIsRegistered, StreamMoves
  <2>. QED
    BY <1>1, <2>1, <2>3, <2>4 DEF StreamInvariant, StreamMoves, Sessions
<1>7. CASE ~(registry[gw] >= g)
  <2>1. StreamMoves(gw, g, "open") /\ registry' = [registry EXCEPT ![gw] = g]
    BY <1>7, StreamEffect DEF RegisterStream, StreamStates
  <2>2. /\ registry' \in [Gateways -> 0..MaxSession]
        /\ registry'[gw] = g /\ \A v \in Gateways : v # gw => registry'[v] = registry[v]
    BY <1>2, <2>1 DEF StreamInvariant
  <2>3. \A v \in Gateways, x \in Sessions : streams'[v][x] # "none" => x <= current
    BY <1>1, <2>1 DEF StreamMoves, StreamInvariant
  <2>4. streams[gw][current] # "open"
    <3>1. registry[gw] # current
      BY <1>1, <1>2, <1>7, SMTT(30)
    <3>. QED
      BY <1>5, <3>1
  <2>5. ASSUME NEW v \in Gateways, registry'[v] # 0
        PROVE  streams'[v][registry'[v]] = "open"
    <3>1. CASE v = gw
      BY <2>1, <2>2, <3>1 DEF StreamMoves
    <3>2. CASE v # gw
      BY <1>3, <1>4, <2>1, <2>2, <2>5, <3>2 DEF StreamMoves
    <3>. QED
      BY <3>1, <3>2
  <2>6. ASSUME NEW v \in Gateways, streams'[v][current] = "open"
        PROVE  registry'[v] = current
    <3>1. CASE v = gw
      BY <1>1, <2>1, <2>2, <2>4, <2>6, <3>1 DEF StreamMoves
    <3>2. CASE v # gw
      BY <1>1, <1>5, <2>1, <2>2, <2>6, <3>2 DEF StreamMoves
    <3>. QED
      BY <3>1, <3>2
  <2>7. CurrentStreamIsRegistered'
    BY <1>1, <2>5, <2>6 DEF CurrentStreamIsRegistered
  <2>. QED
    BY <1>1, <2>1, <2>2, <2>3, <2>7 DEF StreamInvariant, StreamMoves, Sessions
<1>. QED
  BY <1>6, <1>7

LEMMA ClosePreserves ==
  ASSUME StreamInvariant, NEW gw \in Gateways, NEW g \in Sessions, CloseStream(gw, g)
  PROVE  StreamInvariant'
<1>1. UNCHANGED current /\ streams[gw][g] \in {"granted", "open"} /\ g <= current /\ current \in Sessions
  BY DEF CloseStream, authorityVars, StreamInvariant
<1>2. StreamMoves(gw, g, "closed")
  BY StreamEffect DEF CloseStream, StreamStates
<1>3. \A v \in Gateways : registry[v] \in 0..MaxSession /\ (registry[v] # 0 => registry[v] \in Sessions)
  BY SMTT(30) DEF StreamInvariant, Sessions
<1>4. \A v \in Gateways : registry[v] # 0 => streams[v][registry[v]] = "open"
  BY DEF StreamInvariant, CurrentStreamIsRegistered
<1>5. \A v \in Gateways : streams[v][current] = "open" => registry[v] = current
  BY DEF StreamInvariant, CurrentStreamIsRegistered
<1>6. /\ registry' \in [Gateways -> 0..MaxSession]
      /\ \A v \in Gateways : v # gw => registry'[v] = registry[v]
      /\ registry'[gw] = IF registry[gw] = g THEN 0 ELSE registry[gw]
  <2>1. CASE streams[gw][g] = "open"
    <3>1. registry' = [registry EXCEPT ![gw] = IF @ = g THEN 0 ELSE @]
      BY <2>1 DEF CloseStream, Release
    <3>2. 0 \in 0..MaxSession
      BY MessagesAssumption, SMTT(30)
    <3>. QED
      BY <1>3, <3>1, <3>2 DEF StreamInvariant
  <2>2. CASE streams[gw][g] # "open"
    <3>1. UNCHANGED registry /\ (registry[gw] = g => registry[gw] = 0)
      BY <1>4, <2>2 DEF CloseStream
    <3>. QED
      BY <3>1 DEF StreamInvariant
  <2>. QED
    BY <2>1, <2>2
<1>7. \A v \in Gateways, x \in Sessions : streams'[v][x] # "none" => x <= current
  BY <1>1, <1>2 DEF StreamMoves, StreamInvariant
<1>8. ASSUME NEW v \in Gateways, registry'[v] # 0
      PROVE  streams'[v][registry'[v]] = "open"
  <2>1. registry'[v] = registry[v] /\ (v = gw => registry[v] # g)
    BY <1>6, <1>8
  <2>2. registry[v] # 0 /\ registry[v] \in Sessions
    BY <1>3, <1>8, <2>1
  <2>. QED
    BY <1>2, <1>4, <2>1, <2>2 DEF StreamMoves
<1>9. ASSUME NEW v \in Gateways, streams'[v][current] = "open"
      PROVE  registry'[v] = current
  <2>1. streams[v][current] = "open" /\ (v = gw => current # g)
    BY <1>1, <1>2, <1>9 DEF StreamMoves
  <2>. QED
    BY <1>5, <1>6, <2>1
<1>10. CurrentStreamIsRegistered'
  BY <1>1, <1>8, <1>9 DEF CurrentStreamIsRegistered
<1>. QED
  BY <1>1, <1>2, <1>6, <1>7, <1>10 DEF StreamInvariant, StreamMoves, Sessions

LEMMA CrashPreserves ==
  ASSUME StreamInvariant, NEW gw \in Gateways, GatewayCrash(gw), UNCHANGED current
  PROVE  StreamInvariant'
<1>1. /\ registry' \in [Gateways -> 0..MaxSession]
      /\ registry'[gw] = 0 /\ \A v \in Gateways : v # gw => registry'[v] = registry[v]
  <2>1. 0 \in 0..MaxSession
    BY MessagesAssumption, SMTT(30)
  <2>. QED
    BY <2>1 DEF GatewayCrash, StreamInvariant
<1>2. \A v \in Gateways : streams'[v] =
        IF v = gw THEN [g \in Sessions |-> IF streams[gw][g] = "none" THEN "none" ELSE "closed"]
        ELSE streams[v]
  BY DEF GatewayCrash, StreamInvariant
<1>3. streams' \in [Gateways -> [Sessions -> StreamStates]]
  <2>1. [g \in Sessions |-> IF streams[gw][g] = "none" THEN "none" ELSE "closed"] \in [Sessions -> StreamStates]
    BY DEF StreamStates
  <2>. QED
    BY <2>1 DEF GatewayCrash, StreamInvariant
<1>4. \A v \in Gateways, x \in Sessions :
        /\ streams'[v][x] # "none" => streams[v][x] # "none"
        /\ streams'[v][x] = "open" => v # gw
  BY <1>2
<1>5. current \in Sessions
  BY DEF StreamInvariant
<1>6. CurrentStreamIsRegistered'
  <2>1. \A v \in Gateways : registry'[v] # 0 => streams'[v][registry'[v]] = "open"
    BY <1>1, <1>2 DEF StreamInvariant, CurrentStreamIsRegistered
  <2>2. \A v \in Gateways : streams'[v][current] = "open" => registry'[v] = current
    BY <1>1, <1>2, <1>4, <1>5 DEF StreamInvariant, CurrentStreamIsRegistered
  <2>. QED
    BY <2>1, <2>2 DEF CurrentStreamIsRegistered
<1>. QED
  BY <1>1, <1>3, <1>4, <1>5, <1>6 DEF StreamInvariant, Sessions

LEMMA StreamsKept ==
  ASSUME StreamInvariant, UNCHANGED <<current, registry, streams>>
  PROVE  StreamInvariant'
  BY DEF StreamInvariant, CurrentStreamIsRegistered, Sessions

LEMMA ConsumeKeepsStreams ==
  ASSUME StreamInvariant, NEW gw \in Gateways, ConsumeStep(gw), UNCHANGED current
  PROVE  StreamInvariant'
<1>1. CASE GatewayCrash(gw)
  BY <1>1, CrashPreserves
<1>2. CASE ~GatewayCrash(gw)
  <2>1. UNCHANGED <<registry, streams>>
    BY <1>2 DEF ConsumeStep, HandleStep, HandleFault, Fetch, AcceptDelivery, StartGatewayCommandRoute, FindSink,
         WriteSink, WriteFails, RouteAccepted, RouteUnknown, AcceptFails, RouteFails, AckLost
  <2>. QED
    BY <2>1, StreamsKept
<1>. QED
  BY <1>1, <1>2

\* The bus stores a message, any number of times.
BusStoresFreely(m) ==
  /\ basis[m] # "unwritten"
  /\ stream' = [stream EXCEPT ![m] = @ + 1]
  /\ Offer(m)
  /\ UNCHANGED <<inbox, routes, handler, written, registry, streams, authorityVars>>

FreeGatewayNext == GatewayNext \/ \E m \in Messages : BusStoresFreely(m)

LEMMA StreamStepPreserves == StreamInvariant /\ [FreeGatewayNext]_allGatewayVars => StreamInvariant'
<1>. SUFFICES ASSUME StreamInvariant, [FreeGatewayNext]_allGatewayVars
     PROVE  StreamInvariant'
  OBVIOUS
<1>1. ASSUME NEW gw \in Gateways, Alone(ConsumeStep(gw)) \/ StreamStep(gw)
      PROVE  StreamInvariant'
  BY <1>1, ConsumeKeepsStreams, GrantPreserves, RegisterPreserves, ClosePreserves
     DEF Alone, authorityVars, StreamStep
<1>2. ASSUME UNCHANGED <<current, registry, streams>>
      PROVE  StreamInvariant'
  BY <1>2, StreamsKept
<1>3. CASE \E m \in Messages : BusStores(m) \/ BusStoresFreely(m)
  BY <1>2, <1>3 DEF BusStores, BusStoresFreely, authorityVars
<1>4. CASE ((\E m \in Messages : WriteIntent(m)) \/ AuthorityChanges) /\ UNCHANGED <<gatewayVars, stream>>
  BY <1>2, <1>4 DEF WriteIntent, AuthorityChanges, BasisEnds, AuthorizationWithdrawn, AuthorizationReturns,
       gatewayVars
<1>5. CASE UNCHANGED allGatewayVars
  BY <1>2, <1>5 DEF allGatewayVars, gatewayVars, authorityVars
<1>. QED
  BY <1>1, <1>3, <1>4, <1>5 DEF FreeGatewayNext, GatewayNext

-----------------------------------------------------------------------------
(***************************************************************************)
(* Bus entries and their handlers                                          *)
(***************************************************************************)

HandlerSteps == {"waiting", "fetched", "accepted", "started", "found", "sent", "failed"}

HandlerTypeOK ==
  handler \in [Gateways -> [message : Messages \cup {NoDelivery}, entry : Nat, sink : 0..MaxSession,
                            step : HandlerSteps]]

RouteTypeOK ==
  /\ IntentsTypeOK
  /\ pending \in [Messages -> SUBSET Nat]
  /\ \A m \in Messages : pending[m] \subseteq 1..stream[m]
  /\ inbox \in [Messages -> {"NONE", "ACCEPTED", "REJECTED"}]
  /\ routes \in [Messages -> SUBSET {"ROUTE_STARTED", "ROUTE_ACCEPTED", "ROUTE_UNKNOWN"}]
  /\ HandlerTypeOK
  /\ written \in [Messages -> SUBSET Sessions]

\* The steps at which a handler has recorded ROUTE_STARTED.
RouteSteps == {"started", "found", "sent", "failed"}

\* What a handler has established of its message.
HandlerInformed(gw) ==
  /\ handler[gw].step # "waiting" =>
       handler[gw].message \in Messages /\ basis[handler[gw].message] # "unwritten"
  /\ handler[gw].step \in RouteSteps => "ROUTE_STARTED" \in routes[handler[gw].message]
  /\ handler[gw].step \in RouteSteps \cup {"accepted"} /\ handler[gw].message \in Leases =>
       inbox[handler[gw].message] = "ACCEPTED"
  /\ handler[gw].step \in {"found", "sent"} => handler[gw].sink = GenerationOf[handler[gw].message]
  /\ handler[gw].step = "sent" => written[handler[gw].message] # {}

\* Only written intents are stored.  The authority of a Lease is lost for good,
\* so that a Lease message rejected once is never accepted again.
AuthorityInformed(m) ==
  /\ stream[m] > 0 => basis[m] # "unwritten"
  /\ m \in Leases =>
       /\ basis[m] # "withheld"
       /\ basis[m] = "held" => current = GenerationOf[m]
       /\ inbox[m] = "REJECTED" => basis[m] = "gone"

RouteInvariant ==
  /\ RouteTypeOK
  /\ \A m \in Messages : routes[m] # {} => inbox[m] # "NONE"
  /\ \A m \in Messages : AuthorityInformed(m)
  /\ \A gw \in Gateways : HandlerInformed(gw)
  /\ RoutedToItsSession

\* Gateway gw goes on with a message, the other Gateways with theirs.
HandlerMoves(gw, message, sink, step) ==
  /\ HandlerTypeOK'
  /\ handler'[gw].message = message /\ handler'[gw].sink = sink /\ handler'[gw].step = step
  /\ \A v \in Gateways : v # gw => handler'[v] = handler[v]

LEMMA ProceedEffect ==
  ASSUME HandlerTypeOK, NEW gw \in Gateways, NEW step \in HandlerSteps, Proceed(gw, step)
  PROVE  HandlerMoves(gw, handler[gw].message, handler[gw].sink, step)
<1>1. handler' = [handler EXCEPT ![gw].step = step]
  BY DEF Proceed
<1>2. HandlerTypeOK'
  BY <1>1 DEF HandlerTypeOK
<1>. QED
  BY <1>1, <1>2 DEF HandlerTypeOK, HandlerMoves

LEMMA WaitEffect ==
  ASSUME HandlerTypeOK, NEW gw \in Gateways, handler' = [handler EXCEPT ![gw] = Waiting]
  PROVE  HandlerMoves(gw, NoDelivery, 0, "waiting")
<1>1. 0 \in Nat /\ 0 \in 0..MaxSession
  BY MessagesAssumption, SMTT(30)
<1>2. Waiting \in [message : Messages \cup {NoDelivery}, entry : Nat, sink : 0..MaxSession, step : HandlerSteps]
  BY <1>1 DEF Waiting, HandlerSteps
<1>3. HandlerTypeOK'
  BY <1>2 DEF HandlerTypeOK
<1>. QED
  BY <1>3 DEF HandlerTypeOK, HandlerMoves, Waiting

PendingShrinks ==
  /\ pending' \in [Messages -> SUBSET Nat]
  /\ \A m \in Messages : pending'[m] \subseteq pending[m]

LEMMA AckEffect ==
  ASSUME RouteTypeOK, NEW gw \in Gateways, Ack(gw)
  PROVE  HandlerMoves(gw, NoDelivery, 0, "waiting") /\ PendingShrinks
<1>1. HandlerMoves(gw, NoDelivery, 0, "waiting")
  BY WaitEffect DEF Ack, RouteTypeOK
<1>2. PendingShrinks
  BY DEF Ack, RouteTypeOK, PendingShrinks
<1>. QED
  BY <1>1, <1>2

LEMMA NakEffect ==
  ASSUME RouteTypeOK, NEW gw \in Gateways, Nak(gw)
  PROVE  HandlerMoves(gw, NoDelivery, 0, "waiting") /\ PendingShrinks
  BY WaitEffect DEF Nak, RouteTypeOK, PendingShrinks

EventKinds == {"ROUTE_STARTED", "ROUTE_ACCEPTED", "ROUTE_UNKNOWN"}

\* Evidence of message m grows.
RouteRecorded(m, type) ==
  /\ routes' \in [Messages -> SUBSET EventKinds]
  /\ routes'[m] = routes[m] \cup {type}
  /\ \A x \in Messages : x # m => routes'[x] = routes[x]

LEMMA RecordEffect ==
  ASSUME RouteTypeOK, NEW gw \in Gateways, NEW type \in EventKinds, handler[gw].message \in Messages,
         RecordGatewayCommandRoute(gw, type)
  PROVE  RouteRecorded(handler[gw].message, type)
<1>. PICK m : m = handler[gw].message
  OBVIOUS
<1>1. routes' = [routes EXCEPT ![m] = @ \cup {type}] /\ m \in Messages
  BY DEF RecordGatewayCommandRoute
<1>2. routes \in [Messages -> SUBSET EventKinds]
  BY DEF RouteTypeOK, EventKinds
<1>3. RouteRecorded(m, type)
  BY <1>1, <1>2 DEF RouteRecorded
<1>. QED
  BY <1>3 DEF RouteRecorded

\* What every step of a handler leaves true, besides what its Gateway learns.
RouteEffect(gw) ==
  /\ HandlerTypeOK' /\ \A v \in Gateways : v # gw => handler'[v] = handler[v]
  /\ PendingShrinks
  /\ inbox' \in [Messages -> {"NONE", "ACCEPTED", "REJECTED"}]
  /\ routes' \in [Messages -> SUBSET EventKinds]
  /\ written' \in [Messages -> SUBSET Sessions]
  /\ \A m \in Messages :
       /\ inbox[m] # "NONE" => inbox'[m] = inbox[m]
       /\ inbox'[m] = "REJECTED" => inbox[m] = "REJECTED" \/ (basis[m] # "unwritten" /\ ~Current(m))
       /\ routes[m] \subseteq routes'[m]
       /\ routes'[m] # routes[m] => inbox[m] # "NONE"
       /\ \/ written'[m] = written[m]
          \/ /\ written'[m] = written[m] \cup {GenerationOf[m]}
             /\ "ROUTE_STARTED" \in routes[m] /\ (m \in Leases => inbox[m] = "ACCEPTED")

LEMMA OthersInformed ==
  ASSUME NEW gw \in Gateways, NEW v \in Gateways, HandlerInformed(v), handler'[v] = handler[v],
         RouteTypeOK, RouteEffect(gw), UNCHANGED basis
  PROVE  HandlerInformed(v)'
<1>1. CASE handler[v].step = "waiting"
  BY <1>1 DEF HandlerInformed, RouteSteps
<1>2. CASE handler[v].step # "waiting"
  <2>. PICK m \in Messages : m = handler[v].message
    BY <1>2 DEF HandlerInformed
  <2>1. /\ routes[m] \subseteq routes'[m]
        /\ inbox[m] = "ACCEPTED" => inbox'[m] = "ACCEPTED"
        /\ written[m] # {} => written'[m] # {}
    BY DEF RouteEffect
  <2>. QED
    BY <2>1 DEF HandlerInformed
<1>. QED
  BY <1>1, <1>2

LEMMA EffectPreserves ==
  ASSUME RouteInvariant, NEW gw \in Gateways, UNCHANGED <<authorityVars, stream>>, RouteEffect(gw),
         HandlerInformed(gw)'
  PROVE  RouteInvariant'
<1>1. UNCHANGED <<current, basis, stream>> /\ RouteTypeOK
  BY DEF authorityVars, RouteInvariant
<1>2. RouteTypeOK'
  <2>1. IntentsTypeOK'
    BY <1>1 DEF RouteTypeOK, IntentsTypeOK
  <2>2. \A m \in Messages : pending'[m] \subseteq 1..stream'[m]
    BY <1>1 DEF RouteEffect, PendingShrinks, RouteTypeOK
  <2>. QED
    BY <1>1, <2>1, <2>2 DEF RouteTypeOK, RouteEffect, PendingShrinks, EventKinds, Sessions
<1>3. \A m \in Messages : routes'[m] # {} => inbox'[m] # "NONE"
  BY DEF RouteInvariant, RouteEffect
<1>4. \A m \in Messages : AuthorityInformed(m)'
  <2>. SUFFICES ASSUME NEW m \in Messages
       PROVE  AuthorityInformed(m)'
    OBVIOUS
  <2>1. AuthorityInformed(m) /\ Leases' = Leases
    BY DEF RouteInvariant, Leases
  <2>2. basis[m] \in {"unwritten", "held", "withheld", "gone"}
    BY <1>1 DEF RouteTypeOK, IntentsTypeOK
  <2>3. m \in Leases /\ inbox'[m] = "REJECTED" => basis[m] = "gone"
    BY <2>1, <2>2 DEF RouteEffect, AuthorityInformed, Current
  <2>. QED
    BY <1>1, <2>1, <2>3 DEF AuthorityInformed, Leases
<1>5. \A v \in Gateways : HandlerInformed(v)'
  <2>. SUFFICES ASSUME NEW v \in Gateways, v # gw
       PROVE  HandlerInformed(v)'
    OBVIOUS
  <2>1. handler'[v] = handler[v] /\ HandlerInformed(v)
    BY DEF RouteEffect, RouteInvariant
  <2>. QED
    BY <1>1, <2>1, OthersInformed
<1>6. RoutedToItsSession'
  <2>. SUFFICES ASSUME NEW m \in Messages, written'[m] # {}
       PROVE  /\ written'[m] = {GenerationOf[m]}
              /\ "ROUTE_STARTED" \in routes'[m]
              /\ m \in Leases => inbox'[m] = "ACCEPTED"
    BY DEF RoutedToItsSession, Leases
  <2>1. written[m] # {} =>
          /\ written[m] = {GenerationOf[m]}
          /\ "ROUTE_STARTED" \in routes[m]
          /\ m \in Leases => inbox[m] = "ACCEPTED"
    BY DEF RouteInvariant, RoutedToItsSession
  <2>2. /\ inbox[m] = "ACCEPTED" => inbox'[m] = "ACCEPTED"
        /\ routes[m] \subseteq routes'[m]
        /\ \/ written'[m] = written[m]
           \/ /\ written'[m] = written[m] \cup {GenerationOf[m]}
              /\ "ROUTE_STARTED" \in routes[m] /\ (m \in Leases => inbox[m] = "ACCEPTED")
    BY DEF RouteEffect
  <2>. QED
    BY <2>1, <2>2
<1>. QED
  BY <1>2, <1>3, <1>4, <1>5, <1>6 DEF RouteInvariant

LEMMA FetchPreserves ==
  ASSUME RouteInvariant, NEW gw \in Gateways, NEW m \in Messages, Fetch(gw, m),
         UNCHANGED <<authorityVars, stream>>
  PROVE  RouteInvariant'
<1>1. UNCHANGED <<basis, pending, inbox, routes, written>> /\ RouteTypeOK /\ HandlerTypeOK
  BY DEF authorityVars, RouteInvariant, Fetch, RouteTypeOK
<1>2. PICK e \in pending[m] : handler' = [handler EXCEPT ![gw] =
         [message |-> m, entry |-> e, sink |-> 0, step |-> "fetched"]]
  BY DEF Fetch
<1>3. e \in Nat /\ 0 \in 0..MaxSession /\ e \in 1..stream[m] /\ stream[m] \in Nat
  BY <1>1, MessagesAssumption, SMTT(30) DEF RouteTypeOK, IntentsTypeOK
<1>4. stream[m] > 0
  BY <1>3, SMTT(30)
<1>5. basis[m] # "unwritten"
  BY <1>4 DEF RouteInvariant, AuthorityInformed
<1>6. HandlerMoves(gw, m, 0, "fetched")
  <2>1. [message |-> m, entry |-> e, sink |-> 0, step |-> "fetched"] \in
          [message : Messages \cup {NoDelivery}, entry : Nat, sink : 0..MaxSession, step : HandlerSteps]
    BY <1>3 DEF HandlerSteps
  <2>2. HandlerTypeOK'
    BY <1>1, <1>2, <2>1 DEF HandlerTypeOK
  <2>. QED
    BY <1>1, <1>2, <2>2 DEF HandlerTypeOK, HandlerMoves
<1>7. HandlerInformed(gw)'
  BY <1>1, <1>5, <1>6 DEF HandlerMoves, HandlerInformed, RouteSteps
<1>8. RouteEffect(gw)
  BY <1>1, <1>6 DEF RouteEffect, HandlerMoves, PendingShrinks, RouteTypeOK, EventKinds
<1>. QED
  BY <1>7, <1>8, EffectPreserves

\* A handler that lets its entry go.
LEMMA LetGoPreserves ==
  ASSUME RouteInvariant, NEW gw \in Gateways, HandlerMoves(gw, NoDelivery, 0, "waiting"), PendingShrinks,
         UNCHANGED <<authorityVars, stream>>, UNCHANGED <<inbox, written>>,
         \/ UNCHANGED routes
         \/ /\ handler[gw].step \in RouteSteps
            /\ \E type \in EventKinds : RouteRecorded(handler[gw].message, type)
  PROVE  RouteInvariant'
<1>1. RouteTypeOK
  BY DEF RouteInvariant
<1>2. HandlerInformed(gw)'
  BY DEF HandlerMoves, HandlerInformed, RouteSteps
<1>3. /\ routes' \in [Messages -> SUBSET EventKinds]
      /\ \A m \in Messages : /\ routes[m] \subseteq routes'[m]
                             /\ routes'[m] # routes[m] => inbox[m] # "NONE"
  <2>1. CASE UNCHANGED routes
    BY <1>1, <2>1 DEF RouteTypeOK, EventKinds
  <2>2. CASE handler[gw].step \in RouteSteps /\ \E type \in EventKinds : RouteRecorded(handler[gw].message, type)
    <3>. PICK x : x = handler[gw].message
      OBVIOUS
    <3>1. PICK type \in EventKinds : RouteRecorded(x, type)
      BY <2>2 DEF RouteRecorded
    <3>2. x \in Messages /\ "ROUTE_STARTED" \in routes[x]
      BY <2>2 DEF RouteInvariant, HandlerInformed, RouteSteps
    <3>3. inbox[x] # "NONE"
      BY <3>2 DEF RouteInvariant
    <3>. QED
      BY <3>1, <3>3 DEF RouteRecorded
  <2>. QED
    BY <2>1, <2>2
<1>4. RouteEffect(gw)
  BY <1>1, <1>3 DEF RouteEffect, HandlerMoves, RouteTypeOK
<1>. QED
  BY <1>2, <1>4, EffectPreserves

LEMMA AcceptPreserves ==
  ASSUME RouteInvariant, NEW gw \in Gateways, AcceptDelivery(gw) \/ AcceptFails(gw),
         UNCHANGED <<authorityVars, stream>>
  PROVE  RouteInvariant'
<1>. PICK m : m = handler[gw].message
  OBVIOUS
<1>1. UNCHANGED <<basis, routes, written>> /\ RouteTypeOK /\ HandlerTypeOK
  BY DEF authorityVars, RouteInvariant, AcceptDelivery, AcceptFails, RouteTypeOK
<1>2. m \in Messages /\ basis[m] # "unwritten"
  BY DEF AcceptDelivery, AcceptFails, RouteInvariant, HandlerInformed
<1>3. ASSUME NEW decision, Decided(gw, decision)
      PROVE  /\ PendingShrinks
             /\ \/ HandlerMoves(gw, NoDelivery, 0, "waiting")
                \/ HandlerMoves(gw, m, handler[gw].sink, "accepted") /\ decision # "REJECTED"
  <2>1. CASE decision = "REJECTED"
    BY <1>1, <1>3, <2>1, AckEffect DEF Decided
  <2>2. CASE decision # "REJECTED"
    <3>1. HandlerMoves(gw, m, handler[gw].sink, "accepted")
      BY <1>1, <1>3, <2>2, ProceedEffect DEF Decided, HandlerSteps
    <3>2. PendingShrinks
      BY <1>1, <1>3, <2>2 DEF Decided, PendingShrinks, RouteTypeOK
    <3>. QED
      BY <2>2, <3>1, <3>2
  <2>. QED
    BY <2>1, <2>2
<1>4. CASE AcceptDelivery(gw)
  <2>. DEFINE decision == AuthorityDecision(m)
  <2>1. /\ inbox' = [inbox EXCEPT ![m] = IF @ = "NONE" THEN decision ELSE @]
        /\ Decided(gw, decision)
    BY <1>4 DEF AcceptDelivery
  <2>2. decision \in {"ACCEPTED", "REJECTED"} /\ (decision = "REJECTED" <=> ~Current(m))
    BY DEF AuthorityDecision
  <2>. HIDE DEF decision
  <2>3. /\ inbox' \in [Messages -> {"NONE", "ACCEPTED", "REJECTED"}]
        /\ inbox'[m] = (IF inbox[m] = "NONE" THEN decision ELSE inbox[m])
        /\ \A x \in Messages : x # m => inbox'[x] = inbox[x]
    BY <1>1, <1>2, <2>1, <2>2 DEF RouteTypeOK
  <2>4. RouteEffect(gw)
    <3>1. \A x \in Messages :
            /\ inbox[x] # "NONE" => inbox'[x] = inbox[x]
            /\ inbox'[x] = "REJECTED" => inbox[x] = "REJECTED" \/ (basis[x] # "unwritten" /\ ~Current(x))
      BY <1>2, <2>2, <2>3
    <3>2. HandlerTypeOK' /\ PendingShrinks /\ \A v \in Gateways : v # gw => handler'[v] = handler[v]
      BY <1>3, <2>1 DEF HandlerMoves
    <3>. QED
      BY <1>1, <2>3, <3>1, <3>2 DEF RouteEffect, RouteTypeOK, EventKinds
  <2>5. HandlerInformed(gw)'
    <3>1. CASE HandlerMoves(gw, NoDelivery, 0, "waiting")
      BY <3>1 DEF HandlerMoves, HandlerInformed, RouteSteps
    <3>2. CASE HandlerMoves(gw, m, handler[gw].sink, "accepted") /\ decision # "REJECTED"
      <4>1. m \in Leases => inbox[m] # "REJECTED"
        BY <1>2, <2>2, <3>2 DEF RouteInvariant, AuthorityInformed, Current
      <4>2. inbox[m] \in {"NONE", "ACCEPTED", "REJECTED"}
        BY <1>1, <1>2 DEF RouteTypeOK
      <4>3. m \in Leases => inbox'[m] = "ACCEPTED"
        BY <2>2, <2>3, <3>2, <4>1, <4>2
      <4>. QED
        BY <1>1, <1>2, <3>2, <4>3 DEF HandlerMoves, HandlerInformed, RouteSteps, Leases
    <3>. QED
      BY <1>3, <2>1, <3>1, <3>2
  <2>. QED
    BY <2>4, <2>5, EffectPreserves
<1>5. CASE AcceptFails(gw)
  <2>1. UNCHANGED inbox
    BY <1>5 DEF AcceptFails
  <2>2. CASE m \in Leases
    BY <1>1, <1>5, <2>1, <2>2, NakEffect, LetGoPreserves DEF AcceptFails, Leases
  <2>3. CASE m \notin Leases
    <3>1. PICK decision : Decided(gw, decision)
      BY <1>2, <1>5, <2>3 DEF AcceptFails, Leases
    <3>2. PendingShrinks
      BY <1>3, <3>1
    <3>3. CASE HandlerMoves(gw, NoDelivery, 0, "waiting")
      BY <1>1, <2>1, <3>2, <3>3, LetGoPreserves
    <3>4. CASE HandlerMoves(gw, m, handler[gw].sink, "accepted")
      <4>1. HandlerInformed(gw)'
        BY <1>1, <1>2, <2>3, <3>4 DEF HandlerMoves, HandlerInformed, RouteSteps, Leases
      <4>2. RouteEffect(gw)
        BY <1>1, <2>1, <3>2, <3>4 DEF RouteEffect, HandlerMoves, RouteTypeOK, EventKinds
      <4>. QED
        BY <4>1, <4>2, EffectPreserves
    <3>. QED
      BY <1>3, <3>1, <3>3, <3>4
  <2>. QED
    BY <2>2, <2>3
<1>. QED
  BY <1>4, <1>5

LEMMA StartPreserves ==
  ASSUME RouteInvariant, NEW gw \in Gateways, StartGatewayCommandRoute(gw),
         UNCHANGED <<authorityVars, stream>>
  PROVE  RouteInvariant'
<1>. PICK m : m = handler[gw].message
  OBVIOUS
<1>1. UNCHANGED <<basis, inbox, written>> /\ RouteTypeOK /\ HandlerTypeOK
  BY DEF authorityVars, RouteInvariant, StartGatewayCommandRoute, RouteTypeOK
<1>2. m \in Messages /\ basis[m] # "unwritten" /\ (m \in Leases => inbox[m] = "ACCEPTED")
  BY DEF StartGatewayCommandRoute, RouteInvariant, HandlerInformed
<1>3. CASE inbox[m] = "NONE"
  BY <1>1, <1>3, NakEffect, LetGoPreserves DEF StartGatewayCommandRoute
<1>4. CASE inbox[m] # "NONE"
  <2>1. RecordGatewayCommandRoute(gw, "ROUTE_STARTED") /\ Proceed(gw, "started") /\ UNCHANGED pending
    BY <1>4 DEF StartGatewayCommandRoute
  <2>2. RouteRecorded(m, "ROUTE_STARTED")
    <3>1. RouteRecorded(handler[gw].message, "ROUTE_STARTED")
      BY <1>1, <1>2, <2>1, RecordEffect DEF EventKinds
    <3>. QED
      BY <3>1 DEF RouteRecorded
  <2>3. HandlerMoves(gw, m, handler[gw].sink, "started")
    BY <1>1, <2>1, ProceedEffect DEF HandlerSteps
  <2>4. HandlerInformed(gw)'
    BY <1>1, <1>2, <2>2, <2>3 DEF HandlerMoves, HandlerInformed, RouteSteps, RouteRecorded, Leases
  <2>5. RouteEffect(gw)
    <3>1. \A x \in Messages : routes[x] \subseteq routes'[x] /\ (routes'[x] # routes[x] => inbox[x] # "NONE")
      BY <1>4, <2>2 DEF RouteRecorded
    <3>. QED
      BY <1>1, <2>1, <2>2, <2>3, <3>1 DEF RouteEffect, RouteRecorded, HandlerMoves, PendingShrinks, RouteTypeOK
  <2>. QED
    BY <2>4, <2>5, EffectPreserves
<1>. QED
  BY <1>3, <1>4

LEMMA SendPreserves ==
  ASSUME RouteInvariant, NEW gw \in Gateways, FindSink(gw) \/ WriteSink(gw) \/ WriteFails(gw),
         registry \in [Gateways -> 0..MaxSession], UNCHANGED <<authorityVars, stream>>
  PROVE  RouteInvariant'
<1>. PICK m : m = handler[gw].message
  OBVIOUS
<1>1. UNCHANGED <<basis, pending, inbox, routes>> /\ RouteTypeOK /\ HandlerTypeOK
  BY DEF authorityVars, RouteInvariant, FindSink, WriteSink, WriteFails, RouteTypeOK
<1>2. /\ m \in Messages /\ basis[m] # "unwritten"
      /\ "ROUTE_STARTED" \in routes[m]
      /\ m \in Leases => inbox[m] = "ACCEPTED"
      /\ handler[gw].step = "found" => handler[gw].sink = GenerationOf[m]
  BY DEF FindSink, WriteSink, WriteFails, RouteInvariant, HandlerInformed, RouteSteps
<1>3. ASSUME NEW sink, NEW step \in {"found", "sent", "failed"}, HandlerMoves(gw, m, sink, step),
             step \in {"found", "sent"} => sink = GenerationOf[m],
             \/ written' = written /\ step # "sent"
             \/ /\ written' \in [Messages -> SUBSET Sessions]
                /\ written'[m] = written[m] \cup {GenerationOf[m]}
                /\ \A x \in Messages : x # m => written'[x] = written[x]
      PROVE  RouteInvariant'
  <2>1. HandlerInformed(gw)'
    BY <1>1, <1>2, <1>3 DEF HandlerMoves, HandlerInformed, RouteSteps, Leases
  <2>2. /\ written' \in [Messages -> SUBSET Sessions]
        /\ \A x \in Messages :
             written'[x] = written[x] \/ (x = m /\ written'[x] = written[x] \cup {GenerationOf[x]})
    BY <1>1, <1>3 DEF RouteTypeOK
  <2>3. RouteEffect(gw)
    BY <1>1, <1>2, <1>3, <2>2 DEF RouteEffect, HandlerMoves, PendingShrinks, RouteTypeOK, EventKinds
  <2>. QED
    BY <2>1, <2>3, EffectPreserves
<1>4. ASSUME WrittenTo(gw), handler[gw].step = "found"
      PROVE  /\ written' \in [Messages -> SUBSET Sessions]
             /\ written'[m] = written[m] \cup {GenerationOf[m]}
             /\ \A x \in Messages : x # m => written'[x] = written[x]
  <2>1. written' = [written EXCEPT ![m] = @ \cup {GenerationOf[m]}]
    BY <1>2, <1>4 DEF WrittenTo
  <2>2. GenerationOf[m] \in Sessions
    BY <1>2, MessagesAssumption DEF Sessions
  <2>. QED
    BY <1>1, <1>2, <2>1, <2>2 DEF RouteTypeOK
<1>5. CASE FindSink(gw)
  <2>0. UNCHANGED written
    BY <1>5 DEF FindSink
  <2>1. CASE registry[gw] = GenerationOf[m]
    <3>. PICK sink : sink = registry[gw]
      OBVIOUS
    <3>1. handler' = [handler EXCEPT ![gw].sink = sink, ![gw].step = "found"]
      BY <1>5, <2>1 DEF FindSink, Routable
    <3>2. sink \in 0..MaxSession
      OBVIOUS
    <3>3. HandlerTypeOK'
      BY <1>1, <3>1, <3>2 DEF HandlerTypeOK, HandlerSteps
    <3>4. HandlerMoves(gw, m, sink, "found")
      BY <1>1, <3>1, <3>3 DEF HandlerTypeOK, HandlerMoves
    <3>. QED
      BY <1>3, <2>0, <2>1, <3>4
  <2>2. CASE registry[gw] # GenerationOf[m]
    <3>1. HandlerMoves(gw, m, handler[gw].sink, "failed")
      BY <1>1, <1>5, <2>2, ProceedEffect DEF FindSink, Routable, HandlerSteps
    <3>. QED
      BY <1>3, <2>0, <3>1
  <2>. QED
    BY <2>1, <2>2
<1>6. CASE WriteSink(gw)
  <2>1. HandlerMoves(gw, m, handler[gw].sink, "sent")
    BY <1>1, <1>6, ProceedEffect DEF WriteSink, HandlerSteps
  <2>2. handler[gw].step = "found" /\ WrittenTo(gw)
    BY <1>6 DEF WriteSink
  <2>. QED
    BY <1>2, <1>3, <1>4, <2>1, <2>2
<1>7. CASE WriteFails(gw)
  <2>1. HandlerMoves(gw, m, handler[gw].sink, "failed")
    BY <1>1, <1>7, ProceedEffect DEF WriteFails, HandlerSteps
  <2>2. handler[gw].step = "found" /\ (WrittenTo(gw) \/ UNCHANGED written)
    BY <1>7 DEF WriteFails
  <2>. QED
    BY <1>2, <1>3, <1>4, <2>1, <2>2
<1>. QED
  BY <1>5, <1>6, <1>7

LEMMA EndPreserves ==
  ASSUME RouteInvariant, NEW gw \in Gateways,
         RouteAccepted(gw) \/ RouteUnknown(gw) \/ RouteFails(gw) \/ GatewayCrash(gw),
         UNCHANGED <<authorityVars, stream>>
  PROVE  RouteInvariant'
<1>1. RouteTypeOK /\ HandlerTypeOK
  BY DEF RouteInvariant, RouteTypeOK
<1>2. CASE RouteAccepted(gw) \/ RouteUnknown(gw)
  <2>1. /\ HandlerMoves(gw, NoDelivery, 0, "waiting") /\ PendingShrinks
        /\ UNCHANGED <<inbox, written>> /\ handler[gw].step \in RouteSteps
    BY <1>1, <1>2, AckEffect, NakEffect DEF RouteAccepted, RouteUnknown, RouteSteps
  <2>2. handler[gw].message \in Messages
    BY <2>1 DEF RouteInvariant, HandlerInformed, RouteSteps
  <2>3. \E type \in EventKinds : RouteRecorded(handler[gw].message, type)
    BY <1>1, <1>2, <2>2, RecordEffect DEF RouteAccepted, RouteUnknown, EventKinds
  <2>. QED
    BY <2>1, <2>3, LetGoPreserves
<1>3. CASE RouteFails(gw)
  BY <1>1, <1>3, NakEffect, LetGoPreserves DEF RouteFails
<1>4. CASE GatewayCrash(gw)
  <2>1. HandlerMoves(gw, NoDelivery, 0, "waiting")
    BY <1>1, <1>4, WaitEffect DEF GatewayCrash
  <2>2. PendingShrinks
    BY <1>1, <1>4 DEF GatewayCrash, PendingShrinks, RouteTypeOK
  <2>. QED
    BY <1>4, <2>1, <2>2, LetGoPreserves DEF GatewayCrash
<1>. QED
  BY <1>2, <1>3, <1>4

LEMMA AckLostPreserves ==
  ASSUME RouteInvariant, NEW gw \in Gateways, AckLost(gw), UNCHANGED <<authorityVars, stream>>
  PROVE  RouteInvariant'
<1>. PICK m : m = handler[gw].message
  OBVIOUS
<1>1. RouteTypeOK /\ HandlerTypeOK /\ UNCHANGED written
  BY DEF RouteInvariant, RouteTypeOK, AckLost
<1>2. HandlerMoves(gw, NoDelivery, 0, "waiting") /\ PendingShrinks
  BY <1>1, NakEffect DEF AckLost
<1>3. m \in Messages /\ basis[m] # "unwritten"
  BY DEF AckLost, RouteInvariant, HandlerInformed
<1>4. CASE handler[gw].step = "sent" /\ RecordGatewayCommandRoute(gw, "ROUTE_ACCEPTED") /\ UNCHANGED inbox
  <2>1. \E type \in EventKinds : RouteRecorded(handler[gw].message, type)
    BY <1>1, <1>3, <1>4, RecordEffect DEF EventKinds
  <2>. QED
    BY <1>1, <1>2, <1>4, <2>1, LetGoPreserves DEF RouteSteps
<1>5. CASE /\ AuthorityDecision(m) = "REJECTED" /\ UNCHANGED routes
           /\ inbox' = [inbox EXCEPT ![m] = IF @ = "NONE" THEN "REJECTED" ELSE @]
  <2>1. ~Current(m)
    BY <1>5 DEF AuthorityDecision
  <2>2. /\ inbox' \in [Messages -> {"NONE", "ACCEPTED", "REJECTED"}]
        /\ inbox'[m] = (IF inbox[m] = "NONE" THEN "REJECTED" ELSE inbox[m])
        /\ \A x \in Messages : x # m => inbox'[x] = inbox[x]
    BY <1>1, <1>3, <1>5 DEF RouteTypeOK
  <2>3. \A x \in Messages :
          /\ inbox[x] # "NONE" => inbox'[x] = inbox[x]
          /\ inbox'[x] = "REJECTED" => inbox[x] = "REJECTED" \/ (basis[x] # "unwritten" /\ ~Current(x))
    BY <1>3, <2>1, <2>2
  <2>4. RouteEffect(gw)
    BY <1>1, <1>2, <1>5, <2>2, <2>3 DEF RouteEffect, HandlerMoves, RouteTypeOK, EventKinds
  <2>5. HandlerInformed(gw)'
    BY <1>2 DEF HandlerMoves, HandlerInformed, RouteSteps
  <2>. QED
    BY <2>4, <2>5, EffectPreserves
<1>. QED
  BY <1>4, <1>5 DEF AckLost

LEMMA ConsumePreserves ==
  ASSUME RouteInvariant, registry \in [Gateways -> 0..MaxSession], NEW gw \in Gateways, ConsumeStep(gw),
         UNCHANGED <<authorityVars, stream>>
  PROVE  RouteInvariant'
  BY FetchPreserves, AcceptPreserves, StartPreserves, SendPreserves, EndPreserves, AckLostPreserves
     DEF ConsumeStep, HandleStep, HandleFault

\* Authority moves one way for a Lease intent, and an intent stays written.
BasisMoves ==
  /\ IntentsTypeOK'
  /\ \A m \in Messages : basis[m] # "unwritten" => basis'[m] # "unwritten"
  /\ \A m \in Leases :
       /\ basis'[m] # "withheld"
       /\ basis'[m] = "held" => current' = GenerationOf[m]
       /\ basis[m] = "gone" => basis'[m] = "gone"

LEMMA BasisEffect ==
  ASSUME IntentsTypeOK, UNCHANGED stream, \A m \in Messages : AuthorityInformed(m),
         (\E m \in Messages : WriteIntent(m)) \/ AdmitSession \/ AuthorityChanges
  PROVE  BasisMoves
<1>1. basis \in [Messages -> {"unwritten", "held", "withheld", "gone"}]
  BY DEF IntentsTypeOK
<1>2. \A m \in Leases : /\ m \in Messages \ Verifications /\ basis[m] # "withheld"
                        /\ basis[m] = "held" => current = GenerationOf[m]
  BY DEF AuthorityInformed, Leases
<1>3. CASE \E m \in Messages : WriteIntent(m)
  <2>. PICK m \in Messages : WriteIntent(m)
    BY <1>3
  <2>1. basis[m] = "unwritten" /\ basis' = [basis EXCEPT ![m] = "held"] /\ current = GenerationOf[m] /\ UNCHANGED current
    BY DEF WriteIntent
  <2>2. IntentsTypeOK'
    BY <2>1 DEF IntentsTypeOK
  <2>. QED
    BY <1>1, <1>2, <2>1, <2>2 DEF BasisMoves
<1>4. CASE AdmitSession
  <2>1. IntentsTypeOK'
    BY <1>4, AuthorityEffect
  <2>2. \A m \in Messages : basis'[m] = IF basis[m] = "held" /\ m \notin Verifications THEN "gone" ELSE basis[m]
    BY <1>4 DEF AdmitSession
  <2>. QED
    BY <1>2, <2>1, <2>2 DEF BasisMoves
<1>5. CASE AuthorityChanges
  <2>1. IntentsTypeOK' /\ UNCHANGED current
    BY <1>5, AuthorityEffect DEF AuthorityChanges, BasisEnds, AuthorizationWithdrawn, AuthorizationReturns
  <2>2. CASE \E m \in Messages : BasisEnds(m)
    <3>. PICK m \in Messages : BasisEnds(m)
      BY <2>2
    <3>1. basis' = [basis EXCEPT ![m] = "gone"]
      BY DEF BasisEnds
    <3>. QED
      BY <1>1, <1>2, <2>1, <3>1 DEF BasisMoves
  <2>3. CASE AuthorizationWithdrawn
    <3>1. \A m \in Messages : basis'[m] =
            IF basis[m] # "held" THEN basis[m] ELSE IF m \in Verifications THEN "withheld" ELSE "gone"
      BY <2>3 DEF AuthorizationWithdrawn
    <3>. QED
      BY <1>2, <2>1, <3>1 DEF BasisMoves
  <2>4. CASE AuthorizationReturns
    <3>1. \A m \in Messages : basis'[m] = IF basis[m] = "withheld" THEN "held" ELSE basis[m]
      BY <2>4 DEF AuthorizationReturns
    <3>. QED
      BY <1>2, <2>1, <3>1 DEF BasisMoves
  <2>. QED
    BY <1>5, <2>2, <2>3, <2>4 DEF AuthorityChanges
<1>. QED
  BY <1>3, <1>4, <1>5

LEMMA BasisPreserves ==
  ASSUME RouteInvariant, UNCHANGED <<routeVars, stream>>,
         (\E m \in Messages : WriteIntent(m)) \/ AdmitSession \/ AuthorityChanges
  PROVE  RouteInvariant'
<1>1. RouteTypeOK /\ IntentsTypeOK /\ UNCHANGED <<pending, inbox, routes, handler, written, stream>>
  BY DEF RouteInvariant, RouteTypeOK, routeVars
<1>2. BasisMoves
  BY <1>1, BasisEffect DEF RouteInvariant
<1>3. RouteTypeOK'
  BY <1>1, <1>2 DEF RouteTypeOK, HandlerTypeOK, BasisMoves, Sessions
<1>4. \A m \in Messages : routes'[m] # {} => inbox'[m] # "NONE"
  BY <1>1 DEF RouteInvariant
<1>5. \A m \in Messages : AuthorityInformed(m)'
  BY <1>1, <1>2 DEF RouteInvariant, AuthorityInformed, BasisMoves, Leases
<1>6. \A gw \in Gateways : HandlerInformed(gw)'
  BY <1>1, <1>2 DEF RouteInvariant, HandlerInformed, BasisMoves, RouteSteps, Leases
<1>7. RoutedToItsSession'
  BY <1>1 DEF RouteInvariant, RoutedToItsSession, Leases
<1>. QED
  BY <1>3, <1>4, <1>5, <1>6, <1>7 DEF RouteInvariant

LEMMA BusPreserves ==
  ASSUME RouteInvariant, NEW m \in Messages, BusStoresFreely(m)
  PROVE  RouteInvariant'
<1>1. /\ RouteTypeOK /\ UNCHANGED <<inbox, routes, handler, written, current, basis>>
      /\ stream' = [stream EXCEPT ![m] = @ + 1] /\ basis[m] # "unwritten"
      /\ pending' = [pending EXCEPT ![m] = @ \cup {stream'[m]}]
  BY DEF RouteInvariant, BusStoresFreely, authorityVars, Offer
<1>2. /\ stream' \in [Messages -> Nat] /\ stream'[m] = stream[m] + 1 /\ stream[m] \in Nat
      /\ \A x \in Messages : x # m => stream'[x] = stream[x]
  BY <1>1, SMTT(30) DEF RouteTypeOK, IntentsTypeOK
<1>3. RouteTypeOK'
  <2>1. IntentsTypeOK'
    BY <1>1, <1>2 DEF RouteTypeOK, IntentsTypeOK
  <2>2. /\ pending' \in [Messages -> SUBSET Nat] /\ pending'[m] = pending[m] \cup {stream'[m]}
        /\ \A x \in Messages : x # m => pending'[x] = pending[x]
    <3>1. stream'[m] \in Nat
      BY <1>2
    <3>. QED
      BY <1>1, <3>1 DEF RouteTypeOK
  <2>3. 1..stream[m] \subseteq 1..stream'[m] /\ stream'[m] \in 1..stream'[m]
    BY <1>2, SMTT(30)
  <2>4. \A x \in Messages : pending'[x] \subseteq 1..stream'[x]
    BY <1>1, <1>2, <2>2, <2>3 DEF RouteTypeOK
  <2>. QED
    BY <1>1, <2>1, <2>2, <2>4 DEF RouteTypeOK, HandlerTypeOK, Sessions
<1>4. \A x \in Messages : AuthorityInformed(x)'
  BY <1>1, <1>2 DEF RouteInvariant, AuthorityInformed, Leases
<1>5. \A gw \in Gateways : HandlerInformed(gw)'
  BY <1>1 DEF RouteInvariant, HandlerInformed, RouteSteps, Leases
<1>. QED
  BY <1>1, <1>3, <1>4, <1>5 DEF RouteInvariant, RoutedToItsSession, Leases

LEMMA RoutesKept ==
  ASSUME RouteInvariant, UNCHANGED <<routeVars, authorityVars, stream>>
  PROVE  RouteInvariant'
  BY DEF routeVars, authorityVars, RouteInvariant, RouteTypeOK, IntentsTypeOK, HandlerTypeOK, AuthorityInformed,
     HandlerInformed, RoutedToItsSession, RouteSteps, Leases, Sessions

LEMMA RouteInit == GatewayInit => RouteInvariant
<1>. SUFFICES ASSUME GatewayInit
     PROVE  RouteInvariant
  OBVIOUS
<1>1. IntentsTypeOK
  BY MessagesAssumption, SMTT(30) DEF GatewayInit, IntentsInit, IntentsTypeOK
<1>2. 0 \in Nat /\ 0 \in 0..MaxSession /\ ~(0 > 0)
  BY MessagesAssumption, SMTT(30)
<1>3. HandlerTypeOK
  BY <1>2 DEF GatewayInit, HandlerTypeOK, Waiting, HandlerSteps
<1>4. RouteTypeOK
  BY <1>1, <1>3 DEF GatewayInit, RouteTypeOK
<1>5. \A m \in Messages : AuthorityInformed(m) /\ routes[m] = {} /\ written[m] = {}
  BY <1>2 DEF GatewayInit, IntentsInit, AuthorityInformed
<1>6. \A gw \in Gateways : HandlerInformed(gw)
  BY DEF GatewayInit, HandlerInformed, Waiting, RouteSteps
<1>. QED
  BY <1>4, <1>5, <1>6 DEF RouteInvariant, RoutedToItsSession

GatewayInvariant == StreamInvariant /\ RouteInvariant

LEMMA GatewayStepPreserves == GatewayInvariant /\ [FreeGatewayNext]_allGatewayVars => GatewayInvariant'
<1>. SUFFICES ASSUME GatewayInvariant, [FreeGatewayNext]_allGatewayVars
     PROVE  RouteInvariant'
  BY StreamStepPreserves DEF GatewayInvariant
<1>1. RouteInvariant /\ registry \in [Gateways -> 0..MaxSession]
  BY DEF GatewayInvariant, StreamInvariant
<1>2. ASSUME NEW gw \in Gateways, Alone(ConsumeStep(gw)) \/ StreamStep(gw)
      PROVE  RouteInvariant'
  <2>1. CASE Alone(ConsumeStep(gw))
    BY <1>1, <2>1, ConsumePreserves DEF Alone
  <2>2. CASE GrantStream(gw)
    BY <1>1, <2>2, BasisPreserves DEF GrantStream
  <2>3. CASE \E g \in Sessions : RegisterStream(gw, g) \/ CloseStream(gw, g)
    BY <1>1, <2>3, RoutesKept DEF RegisterStream, CloseStream
  <2>. QED
    BY <1>2, <2>1, <2>2, <2>3 DEF StreamStep
<1>3. CASE ((\E m \in Messages : WriteIntent(m)) \/ AuthorityChanges) /\ UNCHANGED <<gatewayVars, stream>>
  BY <1>1, <1>3, BasisPreserves DEF gatewayVars
<1>4. CASE UNCHANGED allGatewayVars
  BY <1>1, <1>4, RoutesKept DEF allGatewayVars, gatewayVars
<1>. QED
  BY <1>1, <1>2, <1>3, <1>4, BusPreserves DEF FreeGatewayNext, GatewayNext, BusStores, BusStoresFreely

\* GatewayInvariant: what the registry, the streams and the route tables of
\* the gateways owe each other is kept by every step of theirs.
THEOREM GatewayInvariantTheorem == GatewaySpec => []GatewayInvariant
<1>1. GatewayInit => GatewayInvariant
  BY StreamInit, RouteInit DEF GatewayInvariant
<1>2. [GatewayNext]_allGatewayVars => [FreeGatewayNext]_allGatewayVars
  BY DEF FreeGatewayNext
<1>. QED
  BY <1>1, <1>2, GatewayStepPreserves, PTL DEF GatewaySpec

\* The stream of the current session stays reachable through the registry of its
\* Gateway as long as it is open (outbound_registry.go), whatever the order of
\* registrations, deferred releases and crashes.
THEOREM RegistryTheorem == GatewaySpec => []CurrentStreamIsRegistered
<1>1. GatewayInvariant => CurrentStreamIsRegistered
  BY DEF GatewayInvariant, StreamInvariant
<1>. QED
  BY <1>1, GatewayInvariantTheorem, PTL

\* Whatever the bus duplicates and however Gateways fail, a message is written
\* only to the stream of its session, after its route was recorded and, for a
\* Lease message, after the Inbox accepted it (gateway.go).
THEOREM RoutedTheorem == GatewaySpec => []RoutedToItsSession
<1>1. GatewayInvariant => RoutedToItsSession
  BY DEF GatewayInvariant, RouteInvariant
<1>. QED
  BY <1>1, GatewayInvariantTheorem, PTL

\* The state of the Gateways stays well formed: entries are those the bus stored,
\* and route evidence refers to an Inbox row (the foreign key).
THEOREM GatewayTypeTheorem == GatewaySpec => []GatewayTypeOK
<1>1. GatewayInvariant => GatewayTypeOK
  BY DEF GatewayInvariant, StreamInvariant, StreamStates, RouteInvariant, RouteTypeOK, HandlerTypeOK, HandlerSteps,
     GatewayTypeOK
<1>. QED
  BY <1>1, GatewayInvariantTheorem, PTL

LEMMA RevalidatedStep ==
  GatewayInvariant /\ [FreeGatewayNext]_allGatewayVars => [\A m \in Leases : AcceptsOnlyCurrent(m)]_allGatewayVars
<1>1. ASSUME GatewayInvariant, [FreeGatewayNext]_allGatewayVars, NEW m \in Leases, NEW gw \in Gateways,
             handler[gw].message = m, handler[gw].step = "fetched", handler'[gw].step = "accepted"
      PROVE  Current(m)
  <2>1. RouteTypeOK /\ HandlerTypeOK /\ m \notin Verifications
    BY <1>1 DEF GatewayInvariant, RouteInvariant, RouteTypeOK, Leases
  <2>2. handler'[gw] # handler[gw]
    BY <1>1
  <2>3. PICK v \in Gateways : ConsumeStep(v)
    BY <1>1, <2>2 DEF FreeGatewayNext, BusStoresFreely, GatewayNext, Alone, StreamStep, GrantStream, RegisterStream, CloseStream, BusStores,
         gatewayVars, routeVars, allGatewayVars
  <2>4. \A u \in Gateways : u # v => handler'[u] = handler[u]
    BY <2>1, <2>3 DEF ConsumeStep, HandleStep, HandleFault, Fetch, AcceptDelivery, StartGatewayCommandRoute,
         FindSink, WriteSink, WriteFails, RouteAccepted, RouteUnknown, AcceptFails, RouteFails, AckLost,
         GatewayCrash, Decided, Ack, Nak, Proceed, HandlerTypeOK
  <2>5. v = gw
    BY <2>2, <2>4
  <2>6. ASSUME handler' = [handler EXCEPT ![gw] = Waiting]
        PROVE  FALSE
    BY <1>1, <2>1, <2>6, WaitEffect DEF HandlerMoves
  <2>7. AcceptDelivery(gw)
    <3>0. Waiting.step = "waiting"
      BY DEF Waiting
    <3>1. /\ handler[gw] # Waiting /\ handler[gw].step # "accepted" /\ handler[gw].step # "started"
          /\ handler[gw].step # "found" /\ handler[gw].step # "sent" /\ handler[gw].step # "failed"
      BY <1>1, <3>0
    <3>2. ~Nak(gw) /\ ~GatewayCrash(gw)
      BY <2>6 DEF Nak, GatewayCrash
    <3>. QED
      BY <1>1, <2>1, <2>3, <2>5, <3>1, <3>2 DEF ConsumeStep, HandleStep, HandleFault, Fetch, StartGatewayCommandRoute,
         FindSink, WriteSink, WriteFails, RouteAccepted, RouteUnknown, AcceptFails, RouteFails, AckLost
  <2>. QED
    BY <1>1, <2>6, <2>7 DEF AcceptDelivery, Decided, Ack, AuthorityDecision
<1>. QED
  BY <1>1 DEF AcceptsOnlyCurrent

\* A handler that comes to accept a Lease message read its authority in that
\* very step, duplicates included (AcceptInternalCommandDelivery).
THEOREM LeaseRevalidatedTheorem == GatewaySpec => LeaseRevalidated
<1>1. [GatewayNext]_allGatewayVars => [FreeGatewayNext]_allGatewayVars
  BY DEF FreeGatewayNext
<1>. QED
  BY <1>1, RevalidatedStep, GatewayInvariantTheorem, PTL DEF GatewaySpec, LeaseRevalidated

-----------------------------------------------------------------------------
(***************************************************************************)
(* The whole path                                                          *)
(***************************************************************************)

\* Workers hold claims of written intents only.
HoldsWritten(w) == \A c \in Held(w) : basis[c.message] # "unwritten"

PathInvariant ==
  /\ OutboxInvariant
  /\ GatewayInvariant
  /\ \A w \in Workers : HoldsWritten(w)

\* The path adds nothing to what Workers, claims and authority may do.
LEMMA PathIsOutbox == [PathNext]_pathVars => [OutboxNext]_deliveryVars
<1>. SUFFICES ASSUME [PathNext]_pathVars
     PROVE  [OutboxNext]_deliveryVars
  OBVIOUS
<1>1. CASE WorkerStep(OutboxStep)
  BY <1>1 DEF WorkerStep, OutboxNext
<1>2. CASE \E gw \in Gateways : ConsumerStep(ConsumeStep(gw))
  BY <1>2 DEF ConsumerStep, deliveryVars
<1>3. CASE (\E gw \in Gateways : StreamStep(gw)) /\ UNCHANGED outboxVars
  BY <1>3 DEF StreamStep, GrantStream, RegisterStream, CloseStream, OutboxNext, deliveryVars
<1>4. CASE UNCHANGED pathVars
  BY <1>4 DEF pathVars, deliveryVars
<1>. QED
  BY <1>1, <1>2, <1>3, <1>4 DEF PathNext, OutboxNext

\* The Workers on the path behave as those of OutboxDelivery, so everything
\* proved of the Outbox holds on the path.
THEOREM PathImplementsOutbox == PathSpec => OutboxSpec
<1>1. PathInit => OutboxInit
  BY DEF PathInit
<1>. QED
  BY <1>1, PathIsOutbox, PTL DEF PathSpec, OutboxSpec

\* How often a Worker step stores a message.
LEMMA StoresOnce ==
  ASSUME ClaimInvariant, OutboxStep
  PROVE  \/ UNCHANGED stream
         \/ \E w \in Workers : /\ worker[w].claim \in Held(w)
                              /\ stream' = [stream EXCEPT ![worker[w].claim.message] = @ + 1]
<1>1. ASSUME NEW w \in Workers, PublishAcknowledged(w) \/ PublishUncertain(w)
      PROVE  worker[w].claim \in Held(w)
  <2>1. worker[w].step # "idle"
    BY <1>1 DEF PublishAcknowledged, PublishUncertain
  <2>. QED
    BY <2>1, ClaimInHand DEF Held
<1>. QED
  BY <1>1 DEF OutboxStep, PublishStep, FaultStep, ClaimOutbox, Revalidate, RevalidateFails, Take,
     RecordDispatchStarted, PublishAcknowledged, PublishUncertain, Stored, RecordDispatchUnknown, Complete,
     MarkOutboxDelivered, MarkOutboxDeadLetter, ClaimFails, WorkerExits, ClaimElapses

\* What the Workers store, the bus stores at will.
LEMMA WorkersStore ==
  ASSUME ClaimInvariant, RouteTypeOK, \A w \in Workers : HoldsWritten(w), WorkerStep(OutboxStep)
  PROVE  \/ UNCHANGED allGatewayVars
         \/ \E m \in Messages : stream'[m] = stream[m] + 1 /\ BusStoresFreely(m)
<1>1. /\ OutboxStep /\ UNCHANGED <<inbox, routes, handler, written, registry, streams, authorityVars>>
      /\ pending' = [m \in Messages |->
           IF stream'[m] = stream[m] THEN pending[m] ELSE pending[m] \cup {stream'[m]}]
  BY DEF WorkerStep
<1>2. pending \in [Messages -> SUBSET Nat] /\ stream \in [Messages -> Nat]
  BY DEF RouteTypeOK, IntentsTypeOK
<1>3. CASE UNCHANGED stream
  <2>1. pending' = pending
    BY <1>1, <1>2, <1>3
  <2>. QED
    BY <1>1, <1>3, <2>1 DEF allGatewayVars, gatewayVars, routeVars
<1>4. ASSUME NEW w \in Workers, worker[w].claim \in Held(w),
             stream' = [stream EXCEPT ![worker[w].claim.message] = @ + 1]
      PROVE  \E m \in Messages : stream'[m] = stream[m] + 1 /\ BusStoresFreely(m)
  <2>. PICK m : m = worker[w].claim.message
    OBVIOUS
  <2>1. worker[w].claim \in Claims
    BY <1>4 DEF Held, ClaimInvariant, RowsTypeOK, WorkerTypeOK
  <2>2. m \in Messages /\ basis[m] # "unwritten"
    BY <1>4, <2>1, ClaimFields DEF HoldsWritten
  <2>3. stream'[m] = stream[m] + 1 /\ \A x \in Messages : x # m => stream'[x] = stream[x]
    BY <1>2, <1>4, <2>2
  <2>4. stream'[m] # stream[m]
    BY <1>2, <2>2, <2>3, SMTT(30)
  <2>5. pending' = [pending EXCEPT ![m] = @ \cup {stream'[m]}]
    BY <1>1, <1>2, <2>2, <2>3, <2>4
  <2>. QED
    BY <1>1, <1>4, <2>2, <2>3, <2>5 DEF BusStoresFreely, Offer
<1>. QED
  BY <1>1, <1>3, <1>4, StoresOnce

\* Steps of the path are steps of the Gateways behind a bus.
LEMMA PathIsGateway == PathInvariant /\ [PathNext]_pathVars => [FreeGatewayNext]_allGatewayVars
<1>. SUFFICES ASSUME PathInvariant, [PathNext]_pathVars
     PROVE  [FreeGatewayNext]_allGatewayVars
  OBVIOUS
<1>1. CASE WorkerStep(OutboxStep)
  BY <1>1, WorkersStore DEF PathInvariant, OutboxInvariant, GatewayInvariant, RouteInvariant, FreeGatewayNext
<1>2. CASE \E gw \in Gateways : ConsumerStep(ConsumeStep(gw))
  BY <1>2 DEF ConsumerStep, FreeGatewayNext, GatewayNext, Alone
<1>3. CASE \E gw \in Gateways : StreamStep(gw)
  BY <1>3 DEF FreeGatewayNext, GatewayNext
<1>4. CASE (\E m \in Messages : Enqueue(m)) /\ UNCHANGED gatewayVars
  BY <1>4 DEF FreeGatewayNext, GatewayNext, Enqueue
<1>5. CASE AuthorityChanges /\ UNCHANGED <<outboxVars, gatewayVars, stream>>
  BY <1>5 DEF FreeGatewayNext, GatewayNext
<1>6. CASE UNCHANGED pathVars
  BY <1>6 DEF pathVars, allGatewayVars
<1>. QED
  BY <1>1, <1>2, <1>3, <1>4, <1>5, <1>6 DEF PathNext

\* A step of one Worker: it goes on with its claim, takes one of its batch, lets
\* go or claims; the other Workers stay where they are.
LEMMA WorkerEffect ==
  ASSUME WorkerTypeOK, NEW w \in Workers, PublishStep(w) \/ FaultStep(w)
  PROVE  /\ \A v \in Workers : v # w => worker'[v] = worker[v]
         /\ \/ /\ worker'[w].batch \subseteq worker[w].batch
               /\ worker'[w].claim \in worker[w].batch \cup {worker[w].claim, NoClaim}
            \/ \E batch \in SUBSET Messages : ClaimOutbox(w, batch)
<1>1. \A v \in Workers : v # w => worker'[v] = worker[v]
  BY DEF WorkerTypeOK, PublishStep, FaultStep, ClaimOutbox, Revalidate, RevalidateFails, Take,
     RecordDispatchStarted, PublishAcknowledged, PublishUncertain, RecordDispatchUnknown, Complete,
     MarkOutboxDelivered, MarkOutboxDeadLetter, ClaimFails, WorkerExits, Advance, Finish
<1>2. CASE \E step \in Steps : Advance(w, step)
  <2>1. PICK step \in Steps : Moved(w, worker[w].claim, step)
    BY <1>2, AdvanceEffect
  <2>. QED
    BY <1>1, <2>1 DEF Moved
<1>3. CASE Finish(w)
  <2>1. Moved(w, NoClaim, "idle")
    BY <1>3, FinishEffect
  <2>. QED
    BY <1>1, <2>1 DEF Moved
<1>4. CASE \E c \in worker[w].batch : Revalidate(w, c) \/ RevalidateFails(w, c)
  <2>1. ASSUME NEW c \in worker[w].batch, NEW step, Take(w, c, step)
        PROVE  worker'[w].batch \subseteq worker[w].batch /\ worker'[w].claim = c
    BY <2>1 DEF Take, WorkerTypeOK
  <2>2. PICK c \in worker[w].batch : Take(w, c, Revalidated(c.message)) \/ Take(w, c, "stale")
    BY <1>4 DEF Revalidate, RevalidateFails
  <2>3. worker'[w].batch \subseteq worker[w].batch /\ worker'[w].claim = c
    BY <2>1, <2>2
  <2>. QED
    BY <1>1, <2>3
<1>5. CASE WorkerExits(w)
  <2>1. worker'[w] = Idle
    BY <1>5 DEF WorkerExits, WorkerTypeOK
  <2>2. worker'[w].batch = {} /\ worker'[w].claim = NoClaim
    BY <2>1, SMTT(30) DEF Idle
  <2>. QED
    BY <1>1, <2>2
<1>. QED
  BY <1>1, <1>2, <1>3, <1>4, <1>5 DEF PublishStep, FaultStep, RecordDispatchStarted, PublishAcknowledged,
     PublishUncertain, RecordDispatchUnknown, Complete, MarkOutboxDelivered, MarkOutboxDeadLetter, ClaimFails, Steps

\* A Worker comes to hold a claim only of a row that exists.
LEMMA HeldEffect ==
  ASSUME ClaimInvariant, OutboxStep, NEW v \in Workers, NEW c \in Held(v)'
  PROVE  c \in Held(v) \/ (c.message \in Messages /\ outbox[c.message].state # "NONE")
<1>1. WorkerTypeOK
  BY DEF ClaimInvariant, RowsTypeOK
<1>2. CASE worker'[v] = worker[v]
  BY <1>2 DEF Held
<1>3. CASE worker'[v].batch \subseteq worker[v].batch /\ worker'[v].claim \in worker[v].batch \cup {worker[v].claim, NoClaim}
  BY <1>3 DEF Held
<1>4. ASSUME NEW batch \in SUBSET Messages, ClaimOutbox(v, batch)
      PROVE  c.message \in Messages /\ outbox[c.message].state # "NONE"
  <2>. PICK granted : granted = {[message |-> m, generation |-> outbox[m].last + 1] : m \in batch}
    OBVIOUS
  <2>1. /\ worker[v] = Idle /\ worker' = [worker EXCEPT ![v].batch = granted]
        /\ \A m \in batch : Claimable(m)
    BY <1>4 DEF ClaimOutbox
  <2>2. worker[v].claim = NoClaim
    BY <2>1, SMTT(30) DEF Idle
  <2>a. worker'[v].claim = NoClaim /\ worker'[v].batch = granted
    BY <1>1, <2>1, <2>2 DEF WorkerTypeOK
  <2>3. PICK m \in batch : c = [message |-> m, generation |-> outbox[m].last + 1]
    BY <2>a DEF Held
  <2>4. c.message = m
    BY <2>3, SMTT(30)
  <2>. QED
    BY <2>1, <2>4 DEF Claimable
<1>5. CASE \E m \in Messages : ClaimElapses(m)
  BY <1>2, <1>5 DEF ClaimElapses
<1>6. ASSUME NEW w \in Workers, PublishStep(w) \/ FaultStep(w)
      PROVE  c \in Held(v) \/ (c.message \in Messages /\ outbox[c.message].state # "NONE")
  BY <1>1, <1>2, <1>3, <1>4, <1>6, WorkerEffect
<1>. QED
  BY <1>5, <1>6 DEF OutboxStep

LEMMA HoldsWrittenStep ==
  PathInvariant /\ [PathNext]_pathVars => \A w \in Workers : HoldsWritten(w)'
<1>. SUFFICES ASSUME PathInvariant, [PathNext]_pathVars, NEW w \in Workers, NEW c \in Held(w)'
     PROVE  basis'[c.message] # "unwritten"
  BY DEF HoldsWritten
<1>0. ClaimInvariant /\ RouteInvariant /\ IntentsTypeOK /\ HoldsWritten(w) /\ WorkerTypeOK
  BY DEF PathInvariant, OutboxInvariant, GatewayInvariant, ClaimInvariant, RowsTypeOK
<1>1. CASE WorkerStep(OutboxStep)
  BY <1>0, <1>1, HeldEffect DEF WorkerStep, authorityVars, HoldsWritten, ClaimInvariant, RowConsistent
<1>2. ASSUME UNCHANGED <<worker, basis>>
      PROVE  basis'[c.message] # "unwritten"
  BY <1>0, <1>2 DEF HoldsWritten, Held
<1>3. ASSUME UNCHANGED <<worker, stream>>, (\E m \in Messages : WriteIntent(m)) \/ AdmitSession \/ AuthorityChanges
      PROVE  basis'[c.message] # "unwritten"
  <2>1. BasisMoves
    BY <1>0, <1>3, BasisEffect DEF RouteInvariant
  <2>2. c \in Held(w) /\ c \in Claims
    BY <1>0, <1>3 DEF Held, WorkerTypeOK
  <2>. QED
    BY <1>0, <2>1, <2>2, ClaimFields DEF BasisMoves, HoldsWritten
<1>4. CASE \E gw \in Gateways : ConsumerStep(ConsumeStep(gw))
  BY <1>2, <1>4 DEF ConsumerStep, outboxVars, authorityVars
<1>5. CASE (\E gw \in Gateways : StreamStep(gw)) /\ UNCHANGED outboxVars
  BY <1>2, <1>3, <1>5 DEF StreamStep, GrantStream, RegisterStream, CloseStream, outboxVars, authorityVars
<1>6. CASE \E m \in Messages : Enqueue(m)
  BY <1>3, <1>6 DEF Enqueue
<1>7. CASE AuthorityChanges /\ UNCHANGED <<outboxVars, gatewayVars, stream>>
  BY <1>3, <1>7 DEF outboxVars
<1>8. CASE UNCHANGED pathVars
  BY <1>2, <1>8 DEF pathVars, outboxVars, authorityVars
<1>. QED
  BY <1>1, <1>4, <1>5, <1>6, <1>7, <1>8 DEF PathNext

\* The inductive invariant of the path: that of the Outbox, that of the Gateways,
\* and that only written intents are claimed.
THEOREM PathInvariantTheorem == PathSpec => []PathInvariant
<1>1. PathInit => PathInvariant
  <2>. SUFFICES ASSUME PathInit
       PROVE  PathInvariant
    OBVIOUS
  <2>1. OutboxInvariant /\ GatewayInvariant
    BY OutboxStarts, StreamInit, RouteInit DEF PathInit, GatewayInvariant
  <2>2. \A w \in Workers : Held(w) = {}
    BY DEF PathInit, OutboxInit, Idle, Held
  <2>. QED
    BY <2>1, <2>2 DEF PathInvariant, HoldsWritten
<1>2. PathInvariant /\ [PathNext]_pathVars => PathInvariant'
  <2>1. PathInvariant /\ [PathNext]_pathVars => OutboxInvariant'
    BY PathIsOutbox, ClaimStep, StoredStep DEF PathInvariant, OutboxInvariant
  <2>2. PathInvariant /\ [PathNext]_pathVars => GatewayInvariant'
    BY PathIsGateway, GatewayStepPreserves DEF PathInvariant
  <2>. QED
    BY <2>1, <2>2, HoldsWrittenStep DEF PathInvariant
<1>. QED
  BY <1>1, <1>2, PTL DEF PathSpec

StoreLimit == \A m \in Messages : stream[m] <= MaxClaims

\* The path behaves as the Gateways behind a bus that stores an intent at most
\* MaxStored times, if Workers claim a row at most that often: what GatewaySpec
\* assumes of the bus is what the Workers of the Outbox do.
THEOREM PathImplementsGateways ==
  ASSUME MaxClaims <= MaxStored
  PROVE  PathSpec => GatewaySpec
<1>1. PathInit => GatewayInit
  BY DEF PathInit
<1>2. PathInvariant => StoreLimit
  BY StoredAtMostClaims DEF PathInvariant, StoreLimit
<1>3. PathInvariant /\ StoreLimit' /\ [PathNext]_pathVars => [GatewayNext]_allGatewayVars
  <2>. SUFFICES ASSUME PathInvariant, StoreLimit', [PathNext]_pathVars
       PROVE  [GatewayNext]_allGatewayVars
    OBVIOUS
  <2>1. CASE WorkerStep(OutboxStep)
    <3>1. ASSUME NEW m \in Messages, stream'[m] = stream[m] + 1, BusStoresFreely(m)
          PROVE  BusStores(m)
      <4>1. stream'[m] <= MaxClaims /\ stream[m] \in Nat
        BY DEF StoreLimit, PathInvariant, OutboxInvariant, ClaimInvariant, RowsTypeOK, IntentsTypeOK
      <4>2. stream[m] < MaxStored
        BY <3>1, <4>1, OutboxAssumption, GatewayAssumption, SMTT(30)
      <4>. QED
        BY <3>1, <4>2 DEF BusStores, BusStoresFreely
    <3>. QED
      BY <2>1, <3>1, WorkersStore DEF PathInvariant, OutboxInvariant, GatewayInvariant, RouteInvariant, GatewayNext
  <2>2. CASE ~WorkerStep(OutboxStep)
    BY <2>2 DEF PathNext, ConsumerStep, GatewayNext, Alone, Enqueue, pathVars, allGatewayVars
  <2>. QED
    BY <2>1, <2>2
<1>. QED
  BY <1>1, <1>2, <1>3, PathInvariantTheorem, PTL DEF PathSpec, GatewaySpec

\* On the whole path, with every fault of Workers and Gateways: the registry and
\* the routes are as GatewayRouting promises, and Leases are read again.
THEOREM PathRoutesTheorem ==
  PathSpec => [](CurrentStreamIsRegistered /\ RoutedToItsSession) /\ LeaseRevalidated
<1>1. PathInvariant => CurrentStreamIsRegistered /\ RoutedToItsSession /\ GatewayInvariant
  BY DEF PathInvariant, GatewayInvariant, StreamInvariant, RouteInvariant
<1>. QED
  BY <1>1, PathIsGateway, RevalidatedStep, PathInvariantTheorem, PTL DEF PathSpec, LeaseRevalidated

-----------------------------------------------------------------------------
(***************************************************************************)
(* No Lease message is lost                                                *)
(***************************************************************************)

\* What a Worker knows of the intent it works on: a Lease intent that it drops
\* unpublished has lost its authority for good.
DropsInformed(w) ==
  /\ worker[w].step = "acknowledged" => stream[worker[w].claim.message] > 0
  /\ worker[w].step = "stale" /\ worker[w].claim.message \in Leases =>
       basis[worker[w].claim.message] = "gone"
  /\ worker[w].step = "conflict" => worker[w].claim.message \in Verifications

\* A settled Lease intent was stored, a stored one is offered or was written,
\* unless its authority is gone.
LeaseKept(m) ==
  /\ outbox[m].state \in {"DELIVERED", "DEAD_LETTER"} => stream[m] > 0 \/ basis[m] = "gone"
  /\ stream[m] > 0 => basis[m] = "gone" \/ pending[m] # {} \/ written[m] # {}

LeasesKept ==
  /\ \A w \in Workers : DropsInformed(w)
  /\ \A m \in Leases : LeaseKept(m)

LeaseInvariant == PathInvariant /\ LeasesKept

LEMMA StoredStays ==
  ASSUME ClaimInvariant, OutboxStep, NEW m \in Messages, stream[m] > 0
  PROVE  stream'[m] > 0
<1>1. stream \in [Messages -> Nat]
  BY DEF ClaimInvariant, RowsTypeOK, IntentsTypeOK
<1>2. CASE UNCHANGED stream
  BY <1>2
<1>3. ASSUME NEW x, stream' = [stream EXCEPT ![x] = @ + 1]
      PROVE  stream'[m] > 0
  <2>1. stream'[m] = stream[m] + 1 \/ stream'[m] = stream[m]
    BY <1>1, <1>3
  <2>2. stream[m] \in Nat
    BY <1>1
  <2>. QED
    BY <2>1, <2>2, SMTT(30)
<1>. QED
  BY <1>2, <1>3, StoresOnce

\* A Worker that finds a Lease intent stale has seen its authority gone.
LEMMA RevalidatedKnows ==
  ASSUME LeaseInvariant, NEW w \in Workers, NEW c \in worker[w].batch, Take(w, c, Revalidated(c.message)),
         UNCHANGED basis
  PROVE  DropsInformed(w)'
<1>1. /\ ClaimInvariant /\ RouteInvariant /\ HoldsWritten(w) /\ WorkerTypeOK /\ IntentsTypeOK
  BY DEF LeaseInvariant, LeasesKept, PathInvariant, OutboxInvariant, GatewayInvariant, ClaimInvariant, RowsTypeOK
<1>2. c \in Claims /\ basis[c.message] # "unwritten"
  BY <1>1 DEF WorkerTypeOK, HoldsWritten, Held
<1>3. c.message \in Messages
  BY <1>2, ClaimFields
<1>4. worker'[w].claim = c /\ worker'[w].step = Revalidated(c.message)
  BY <1>1 DEF Take, WorkerTypeOK
<1>5. Revalidated(c.message) # "acknowledged"
  BY DEF Revalidated
<1>6. Revalidated(c.message) = "conflict" => c.message \in Verifications
  BY DEF Revalidated
<1>7. Revalidated(c.message) = "stale" /\ c.message \in Leases => basis[c.message] = "gone"
  <2>1. basis[c.message] \in {"unwritten", "held", "withheld", "gone"} /\ AuthorityInformed(c.message)
    BY <1>1, <1>3 DEF IntentsTypeOK, RouteInvariant
  <2>. QED
    BY <1>2, <2>1 DEF Revalidated, AuthorityInformed, Current, Leases
<1>. QED
  BY <1>4, <1>5, <1>6, <1>7 DEF DropsInformed, Leases

LEMMA DropsStep ==
  ASSUME LeaseInvariant, ReadFaults = FALSE, OutboxStep, UNCHANGED basis, NEW v \in Workers
  PROVE  DropsInformed(v)'
<1>1. ClaimInvariant /\ WorkerTypeOK /\ DropsInformed(v) /\ (\A w \in Workers : DropsInformed(w))
  BY DEF LeaseInvariant, LeasesKept, PathInvariant, OutboxInvariant, ClaimInvariant, RowsTypeOK
<1>2. CASE worker'[v].step = worker[v].step /\ worker'[v].claim = worker[v].claim
  <2>1. worker[v].step = "acknowledged" => stream'[worker[v].claim.message] > 0
    BY <1>1, ClaimInHand, ClaimFields, StoredStays DEF DropsInformed
  <2>. QED
    BY <1>1, <1>2, <2>1 DEF DropsInformed, Leases
<1>3. CASE worker'[v].step \in {"idle", "started", "unknown"}
  BY <1>3 DEF DropsInformed
<1>4. CASE \E m \in Messages : ClaimElapses(m)
  BY <1>2, <1>4 DEF ClaimElapses
<1>5. ASSUME NEW w \in Workers, PublishStep(w) \/ FaultStep(w)
      PROVE  DropsInformed(v)'
  <2>1. CASE v # w
    BY <1>1, <1>2, <1>5, <2>1, WorkerEffect
  <2>2. CASE v = w
    <3>1. CASE \E batch \in SUBSET Messages : ClaimOutbox(w, batch)
      <4>1. worker'[w].step = worker[w].step /\ worker'[w].claim = worker[w].claim
        BY <1>1, <3>1 DEF ClaimOutbox, WorkerTypeOK
      <4>. QED
        BY <1>2, <2>2, <4>1
    <3>2. CASE \E c \in worker[w].batch : Revalidate(w, c)
      BY <2>2, <3>2, RevalidatedKnows DEF Revalidate
    <3>3. CASE Finish(w)
      <4>1. worker'[w].step = "idle"
        BY <1>1, <3>3, FinishEffect DEF Moved
      <4>. QED
        BY <1>3, <2>2, <4>1
    <3>4. CASE WorkerExits(w)
      <4>1. worker'[w].step = "idle"
        BY <1>1, <3>4 DEF WorkerExits, WorkerTypeOK, Idle
      <4>. QED
        BY <1>3, <2>2, <4>1
    <3>5. CASE RecordDispatchStarted(w) \/ PublishUncertain(w)
      <4>1. worker'[w].step \in {"started", "unknown"}
        BY <1>1, <3>5, AdvanceEffect DEF RecordDispatchStarted, PublishUncertain, Moved, Steps
      <4>. QED
        BY <1>3, <2>2, <4>1
    <3>6. CASE PublishAcknowledged(w)
      <4>. PICK c : c = worker[w].claim
        OBVIOUS
      <4>1. worker'[w].step = "acknowledged" /\ worker'[w].claim = c
        BY <1>1, <3>6, AdvanceEffect DEF PublishAcknowledged, Moved, Steps
      <4>2. c.message \in Messages /\ stream \in [Messages -> Nat]
        BY <1>1, <3>6, ClaimInHand, ClaimFields
           DEF PublishAcknowledged, ClaimInvariant, RowsTypeOK, IntentsTypeOK
      <4>3. stream'[c.message] > 0
        <5>1. CASE stream' = [stream EXCEPT ![c.message] = @ + 1]
          <6>1. stream'[c.message] = stream[c.message] + 1 /\ stream[c.message] \in Nat
            BY <4>2, <5>1
          <6>. QED
            BY <6>1, SMTT(30)
        <5>2. CASE stream[c.message] > 0 /\ UNCHANGED stream
          BY <5>2
        <5>. QED
          BY <3>6, <5>1, <5>2 DEF PublishAcknowledged, Stored
      <4>. QED
        BY <2>2, <4>1, <4>3 DEF DropsInformed
    <3>. QED
      BY <1>5, <3>1, <3>2, <3>3, <3>4, <3>5, <3>6 DEF PublishStep, FaultStep, RevalidateFails,
         RecordDispatchUnknown, MarkOutboxDelivered, MarkOutboxDeadLetter, Complete, ClaimFails
  <2>. QED
    BY <2>1, <2>2
<1>. QED
  BY <1>4, <1>5 DEF OutboxStep

\* Workers settle a Lease intent only when it was stored or is gone.
LEMMA SettledStep ==
  ASSUME LeaseInvariant, OutboxStep, NEW m \in Leases, outbox'[m].state \in {"DELIVERED", "DEAD_LETTER"}
  PROVE  stream[m] > 0 \/ basis[m] = "gone"
<1>1. /\ OutboxRowsOK /\ LeaseKept(m) /\ m \in Messages /\ m \notin Verifications
      /\ \A w \in Workers : DropsInformed(w)
  BY DEF LeaseInvariant, LeasesKept, PathInvariant, OutboxInvariant, ClaimInvariant, RowsTypeOK, Leases
<1>2. CASE outbox'[m].state = outbox[m].state
  BY <1>1, <1>2 DEF LeaseKept
<1>3. ASSUME NEW w \in Workers, NEW state, NEW type, Complete(w, state, type)
      PROVE  outbox'[m].state = outbox[m].state \/ m = worker[w].claim.message
  <2>. PICK c : c = worker[w].claim
    OBVIOUS
  <2>1. \/ UNCHANGED outbox
        \/ outbox' = [outbox EXCEPT ![c.message] =
             [state |-> state, owner |-> NoOwner, last |-> @.last, elapsed |-> FALSE]]
    BY <1>3 DEF Complete
  <2>. QED
    BY <1>1, <2>1 DEF OutboxRowsOK
<1>4. ASSUME NEW w \in Workers, MarkOutboxDelivered(w) \/ MarkOutboxDeadLetter(w)
      PROVE  stream[m] > 0 \/ basis[m] = "gone"
  <2>1. outbox'[m].state = outbox[m].state \/ m = worker[w].claim.message
    BY <1>3, <1>4 DEF MarkOutboxDelivered, MarkOutboxDeadLetter
  <2>2. worker[w].step \in {"acknowledged", "stale", "conflict"} /\ DropsInformed(w)
    BY <1>1, <1>4 DEF MarkOutboxDelivered, MarkOutboxDeadLetter
  <2>. QED
    BY <1>1, <1>2, <2>1, <2>2 DEF DropsInformed
<1>5. ASSUME NEW x \in Messages, ClaimElapses(x)
      PROVE  outbox'[m].state = outbox[m].state
  BY <1>1, <1>5 DEF ClaimElapses, OutboxRowsOK
<1>6. ASSUME NEW w \in Workers, NEW batch \in SUBSET Messages, ClaimOutbox(w, batch)
      PROVE  outbox'[m].state = outbox[m].state
  <2>1. outbox'[m] = IF m \in batch THEN [state |-> "CLAIMED", owner |-> w, last |-> outbox[m].last + 1,
                                         elapsed |-> FALSE]
                     ELSE outbox[m]
    BY <1>1, <1>6 DEF ClaimOutbox
  <2>2. m \in batch => outbox'[m].state = "CLAIMED"
    BY <2>1, SMTT(30)
  <2>. QED
    BY <2>1, <2>2
<1>. QED
  BY <1>2, <1>4, <1>5, <1>6 DEF OutboxStep, PublishStep, FaultStep, Revalidate, RevalidateFails, Take,
     RecordDispatchStarted, PublishAcknowledged, PublishUncertain, RecordDispatchUnknown, ClaimFails, WorkerExits

\* A Gateway acknowledges a Lease message only when it was written to its stream
\* or is gone.
LEMMA AckJustified ==
  ASSUME RouteInvariant, NEW gw \in Gateways, ConsumeStep(gw), NEW m \in Leases
  PROVE  pending'[m] = pending[m] \/ basis[m] = "gone" \/ written[m] # {}
<1>1. /\ RouteTypeOK /\ m \in Messages /\ m \notin Verifications /\ AuthorityInformed(m) /\ HandlerInformed(gw)
      /\ basis[m] \in {"unwritten", "held", "withheld", "gone"}
  BY DEF RouteInvariant, Leases, RouteTypeOK, IntentsTypeOK
<1>2. ASSUME Ack(gw), m # handler[gw].message
      PROVE  pending'[m] = pending[m]
  BY <1>1, <1>2 DEF Ack, RouteTypeOK
<1>3. CASE RouteAccepted(gw)
  BY <1>1, <1>2, <1>3 DEF RouteAccepted, HandlerInformed
<1>4. CASE AcceptDelivery(gw)
  <2>1. (Ack(gw) /\ AuthorityDecision(handler[gw].message) = "REJECTED") \/ UNCHANGED pending
    BY <1>4 DEF AcceptDelivery, Decided
  <2>2. handler[gw].message = m /\ AuthorityDecision(m) = "REJECTED" => basis[m] = "gone"
    BY <1>1, <1>4 DEF AcceptDelivery, AuthorityDecision, AuthorityInformed, HandlerInformed, Current
  <2>. QED
    BY <1>2, <2>1, <2>2
<1>5. CASE AcceptFails(gw)
  BY <1>1, <1>2, <1>5 DEF AcceptFails, Decided, Nak
<1>. QED
  BY <1>3, <1>4, <1>5 DEF ConsumeStep, HandleStep, HandleFault, Fetch, StartGatewayCommandRoute, FindSink, WriteSink,
     WriteFails, RouteUnknown, RouteFails, AckLost, GatewayCrash, Nak

LEMMA WrittenStays ==
  ASSUME RouteInvariant, NEW gw \in Gateways, ConsumeStep(gw), NEW m \in Messages
  PROVE  written[m] \subseteq written'[m]
<1>1. written \in [Messages -> SUBSET Sessions]
  BY DEF RouteInvariant, RouteTypeOK
<1>2. ASSUME WrittenTo(gw)
      PROVE  written[m] \subseteq written'[m]
  BY <1>1, <1>2 DEF WrittenTo
<1>. QED
  BY <1>2 DEF ConsumeStep, HandleStep, HandleFault, Fetch, AcceptDelivery, StartGatewayCommandRoute, FindSink,
     WriteSink, WriteFails, RouteAccepted, RouteUnknown, AcceptFails, RouteFails, AckLost, GatewayCrash

LEMMA LeaseStep ==
  ASSUME ReadFaults = FALSE
  PROVE  LeaseInvariant /\ [PathNext]_pathVars =>
           (\A w \in Workers : DropsInformed(w)') /\ (\A m \in Leases : LeaseKept(m)')
<1>. SUFFICES ASSUME LeaseInvariant, [PathNext]_pathVars
     PROVE  (\A w \in Workers : DropsInformed(w)') /\ (\A m \in Leases : LeaseKept(m)')
  OBVIOUS
<1>1. /\ ClaimInvariant /\ RouteInvariant /\ RouteTypeOK /\ IntentsTypeOK /\ WorkerTypeOK /\ OutboxRowsOK
      /\ \A w \in Workers : DropsInformed(w)
      /\ \A m \in Leases : LeaseKept(m) /\ m \in Messages
  BY DEF LeaseInvariant, LeasesKept, PathInvariant, OutboxInvariant, GatewayInvariant, ClaimInvariant, RowsTypeOK,
     RouteInvariant, Leases
<1>2. CASE WorkerStep(OutboxStep)
  <2>1. OutboxStep /\ UNCHANGED <<basis, written>>
    BY <1>2 DEF WorkerStep, authorityVars
  <2>2. \A w \in Workers : DropsInformed(w)'
    BY <2>1, DropsStep
  <2>3. ASSUME NEW m \in Leases
        PROVE  LeaseKept(m)'
    <3>1. outbox'[m].state \in {"DELIVERED", "DEAD_LETTER"} => stream'[m] > 0 \/ basis'[m] = "gone"
      BY <1>1, <2>1, SettledStep, StoredStays
    <3>2. pending'[m] = IF stream'[m] = stream[m] THEN pending[m] ELSE pending[m] \cup {stream'[m]}
      BY <1>1, <1>2 DEF WorkerStep
    <3>3. stream'[m] > 0 => basis'[m] = "gone" \/ pending'[m] # {} \/ written'[m] # {}
      BY <1>1, <2>1, <3>2 DEF LeaseKept
    <3>. QED
      BY <3>1, <3>3 DEF LeaseKept
  <2>. QED
    BY <2>2, <2>3
<1>3. CASE \E gw \in Gateways : ConsumerStep(ConsumeStep(gw))
  <2>. PICK gw \in Gateways : ConsumerStep(ConsumeStep(gw))
    BY <1>3
  <2>1. ConsumeStep(gw) /\ UNCHANGED <<outbox, worker, basis, stream>>
    BY DEF ConsumerStep, outboxVars, authorityVars
  <2>2. \A w \in Workers : DropsInformed(w)'
    BY <1>1, <2>1 DEF DropsInformed, Leases
  <2>3. \A m \in Leases : LeaseKept(m)'
    BY <1>1, <2>1, AckJustified, WrittenStays DEF LeaseKept
  <2>. QED
    BY <2>2, <2>3
<1>4. ASSUME UNCHANGED <<worker, stream, pending, written>>,
             \A m \in Leases : outbox'[m].state = outbox[m].state \/ outbox'[m].state = "PENDING",
             \A m \in Leases : basis[m] = "gone" => basis'[m] = "gone"
      PROVE  (\A w \in Workers : DropsInformed(w)') /\ (\A m \in Leases : LeaseKept(m)')
  BY <1>1, <1>4 DEF DropsInformed, LeaseKept, Leases
<1>5. ASSUME UNCHANGED stream, (\E m \in Messages : WriteIntent(m)) \/ AdmitSession \/ AuthorityChanges
      PROVE  \A m \in Leases : basis[m] = "gone" => basis'[m] = "gone"
  BY <1>1, <1>5, BasisEffect DEF RouteInvariant, BasisMoves
<1>6. CASE (\E gw \in Gateways : StreamStep(gw)) /\ UNCHANGED outboxVars
  <2>1. UNCHANGED <<outbox, worker, stream, pending, written>>
    BY <1>6 DEF StreamStep, GrantStream, RegisterStream, CloseStream, outboxVars, routeVars
  <2>2. UNCHANGED basis \/ AdmitSession
    BY <1>6 DEF StreamStep, GrantStream, RegisterStream, CloseStream, authorityVars
  <2>3. \A m \in Leases : basis[m] = "gone" => basis'[m] = "gone"
    BY <1>5, <2>1, <2>2
  <2>. QED
    BY <1>4, <2>1, <2>3
<1>7. CASE (\E m \in Messages : Enqueue(m)) /\ UNCHANGED gatewayVars
  <2>. PICK m \in Messages : Enqueue(m)
    BY <1>7
  <2>1. \A x \in Leases : outbox'[x].state = outbox[x].state \/ outbox'[x].state = "PENDING"
    BY <1>1 DEF Enqueue, OutboxRowsOK
  <2>2. UNCHANGED <<worker, stream, pending, written>> /\ WriteIntent(m)
    BY <1>7 DEF Enqueue, gatewayVars, routeVars
  <2>. QED
    BY <1>4, <1>5, <2>1, <2>2
<1>8. CASE AuthorityChanges /\ UNCHANGED <<outboxVars, gatewayVars, stream>>
  BY <1>4, <1>5, <1>8 DEF outboxVars, gatewayVars, routeVars
<1>9. CASE UNCHANGED pathVars
  BY <1>4, <1>9 DEF pathVars, outboxVars, gatewayVars, routeVars, authorityVars
<1>. QED
  BY <1>2, <1>3, <1>6, <1>7, <1>8, <1>9 DEF PathNext

\* A Lease message whose authority is current is never lost between the Outbox,
\* the bus and the stream, for any number of Workers and Gateways and whatever
\* claims lapse, publishes get lost and processes die: it waits in the Outbox, or
\* on the bus, or was written.  The queries of revalidation must not fail
\* (ReadFaults): RecoverCommandDelivery takes a failed query for stale authority.
THEOREM LeaseTheorem ==
  ASSUME ReadFaults = FALSE
  PROVE  PathSpec => []LeaseIsSomewhere
<1>1. PathInit => LeasesKept
  <2>. SUFFICES ASSUME PathInit
       PROVE  (\A w \in Workers : DropsInformed(w)) /\ (\A m \in Leases : LeaseKept(m))
    BY DEF LeasesKept
  <2>1. \A w \in Workers : worker[w].step = "idle"
    BY DEF PathInit, OutboxInit, Idle
  <2>2. ~(0 > 0)
    BY SMTT(30)
  <2>3. \A m \in Messages : outbox[m].state = "NONE" /\ ~(stream[m] > 0)
    BY <2>2 DEF PathInit, OutboxInit, IntentsInit
  <2>. QED
    BY <2>1, <2>3 DEF DropsInformed, LeaseKept, Leases
<1>2. LeaseInvariant => LeaseIsSomewhere
  <2>. SUFFICES ASSUME LeaseInvariant, NEW m \in Leases, Current(m)
       PROVE  IF stream[m] = 0 THEN outbox[m].state \in {"PENDING", "CLAIMED"}
                               ELSE pending[m] # {} \/ written[m] # {}
    BY DEF LeaseIsSomewhere
  <2>1. /\ LeaseKept(m) /\ m \in Messages /\ RowConsistent(m) /\ OutboxRowsOK
        /\ stream \in [Messages -> Nat]
    BY DEF LeaseInvariant, LeasesKept, PathInvariant, OutboxInvariant, ClaimInvariant, RowsTypeOK, IntentsTypeOK, Leases
  <2>2. stream[m] = 0 <=> ~(stream[m] > 0)
    <3>1. stream[m] \in Nat
      BY <2>1
    <3>. QED
      BY <3>1, SMTT(30)
  <2>3. basis[m] = "held" /\ outbox[m].state \in {"NONE", "PENDING", "CLAIMED", "DELIVERED", "DEAD_LETTER"}
    BY <2>1 DEF Current, OutboxRowsOK
  <2>. QED
    BY <2>1, <2>2, <2>3 DEF LeaseKept, RowConsistent
<1>3. LeaseInvariant /\ [PathNext]_pathVars => LeasesKept'
  BY LeaseStep DEF LeasesKept
<1>. QED
  BY <1>1, <1>2, <1>3, PathInvariantTheorem, PTL DEF PathSpec, LeaseInvariant
=============================================================================
