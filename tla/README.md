# Verification of kvm-infrastructure-manager

TLA+ models of the KVM Infrastructure Manager (KIM), TLC configurations that
check them on small instances, and TLAPS proofs of their main properties.

The models are translated from the Go code under `src/` and from the constraints
and triggers in `src/db/migrations`; the documents under `src/docs` are used only
to find out what a property should say.

    tlc -workers 2 -config MCFleet.cfg MCFleet
    tlapm FleetProofs.tla

`PROJECT.json` lists the components, the runs, the lines each definition
models, the hazards the properties are aimed at, the theorems, and for every
checked property a mutant of the model that breaks it.

## 1. The system

KIM manages VMs on many Hosts. PostgreSQL is the only authority; everything
else carries proposals and evidence to it.

    northbound API ──► PostgreSQL ◄── Worker (sweeps, Outbox publisher)
                           ▲  ▲            │ publish
                  receipts │  │ revalidate ▼
                        Gateway ◄──── NATS JetStream
                           ▲│ gRPC stream (one session per Host)
                           │▼
                      Host Agent: ledger, journal, spool, backends

| Part | State | Operations | What makes it hard |
|---|---|---|---|
| Host trust and operation authority | one `*_current` row per Host for enrollment, credential, session, authorization, capability, gate, authority | enroll, bind, admit, inventory, gate, arm, fence | five handlers change what a decision rests on; each must withdraw it in the same transaction |
| Command execution | Command, Job, Lease, Attempt events, Result, evidence, receipt | create, lease, accept Result, accept observation, expire, fence | Results race expiry and fences; an outcome may never be known |
| Outbox and publisher | rows with claims, delivery events | enqueue, claim, revalidate, publish, complete | claims elapse, PubAcks are lost, Workers die |
| Gateway delivery | Inbox rows, route evidence, registry of live streams | fetch, accept, route, acknowledge, register, release | redelivery, several Gateways, streams that move |
| Session admission | ledger file of the Agent, session row | propose, grant, accept, commit | a grant is committed on one side and lost on the other |
| Agent runtime | journal, spool, priority queue | prepare, execute, complete, enqueue, acknowledge | crashes between file operations, bounded space |
| Host groups | groups, policies, hierarchy, selectors, assertions, membership sets | upsert, evaluate, verify, publish, snapshot | evidence is gathered in one transaction and used in another |
| Maintenance and upgrades | plans, campaigns, targets, one disruptive claim per Host | publish, claim, observe, complete, recover, rearm | coordinators and executors lose their Leases while they work |
| Placement and policies | catalog, pools, scopes, dry results, admissions, bindings | evaluate dry, admit, bind, rebind | the dry result is stale when it is admitted |
| Network | releases, OVN work, resources with realizations | commit, claim, read back, apply, accept, retire | workers apply outside PostgreSQL after their claim ended |
| VMs | machines, readiness, power, aggregates | materialize, power, delete, relocate | read-backs of Commands arrive late |
| Evacuation and recovery | drains, children, slots, epochs, proofs, budgets | claim, quiesce, relocate, confirm, fence, recover | authority is lost, proofs are overtaken, Hosts come back |

A Host handler is a READ COMMITTED transaction that takes the advisory lock of
its Host first (`lockHostAuthorityTx`), so it is one action of the model. A
handler that reads before it locks, or does not lock, is split into a step that
reads and a step that writes where a transaction in between leads to what no
serial order does. Where a serial order explains every outcome it stays one
step: a final admission resolves the policy of its Host without a lock
(availability_placement.go:99), but nothing it reads afterwards is written by
the publication of a policy or binding, so an overtaken admission is one that
ran first, and "current" below means when it resolves the policy. A handler that
returns an error rolls back, so its conditions are the guard of the action.

## 2. Modules

| Module | Models | State and actions |
|---|---|---|
| `HostAuthority` | host_trust_authority.go, session_registry.go, host_inventory.go | one variable per current table, one action per handler |
| `CommandExecution` | execution.go, agent_receipt.go | extends HostAuthority: every handler that fences a Host also loses its Leases in the same step |
| `AttemptLedger`, `CommandRefinement` | what execution promises, and the mapping from the tables to it | one verdict per Attempt, no sessions, Leases or clocks; `ImplementsLedger` |
| `DeliveryIntents` | command_delivery.go as its readers see it | what an intent rests on, and what the bus stored |
| `OutboxDelivery` | outbox.go, delivery/publisher.go | rows, event history and each Worker's place in `publishClaim` |
| `GatewayRouting` | delivery/gateway.go, natsjs, outbound_registry.go | bus entries, Inbox, each Gateway's place in `Handle`, registry and streams |
| `CommandDelivery` | the two together | what a publish stores, a Gateway may fetch |
| `SessionAdmission` | hostruntime, sessiongeneration, `AdmitAgentSession` | ledger, session row, Agent, connections in flight |
| `HostGroups` | host_group*.go | one variable per table of groups, policies, evidence and sets; evaluation and publication are separate actions |
| `Maintenance`, `UpgradeCampaign` | maintenance_snapshot.go, host_disruptive_operation.go; upgrade_*.go and the three executables | plans, campaign, targets, recoveries, and the executors as processes with a phase |
| `PlacementAdmission` | placement*.go, availability_*.go, group_policy.go, evaluator.go | dry results kept apart from what they were computed from |
| `ReleaseAuthority`, `OVNRuntime` | release_compatibility.go; network_ovn_work.go, network_ovn_convergence.go, network_port_retirement.go, ovnadapter, ovnruntime | releases, worker bindings, and the open registrations, promotions and revocations; work items, the worker's steps, the OVN databases |
| `NetworkResources` | network_resource.go, subnet_resource.go, port_resource.go and their adapters | logical rows, realizations with claims, what a worker holds in hand, northbound objects |
| `VMRuntime` | vm_*.go without the aggregate | machines, readiness, ports, power Commands, the check and the projection of their late read-backs, domains |
| `HostEvacuation`, `VMAggregate`, `Recovery` | host_evacuation*.go; vm_aggregate*.go; failure_*.go, recovery_*.go, source_root_safety.go | each extends VMRuntime: what they read, its actions change |
| `CommandExecutionProofs` | | theorems on Host authority, Command execution and its refinement (section 5) |
| `CommandDeliveryProofs` | | theorems on the Outbox, the Gateways and their composition |
| `FleetProofs` | | theorems on sessions, groups, maintenance and upgrades |
| `ResourceProofs` | | theorems on placement, network resources, releases and OVN work |
| `RuntimeProofs` | | lemmas on the tables of a VM that the next two share |
| `AggregateProofs`, `RecoveryProofs` | | theorems on the VM lifecycle with an evacuation beside it, and on failure and recovery |
| `CapacityProofs` | | the two limits: evacuation slots and recovery budget |
| `MC*` | | instances for TLC: constant values, bounds, starting states and symmetry |

Abstractions worth knowing:

- A digest, token or payload is the identity of what it is computed from. A
  Lease token is drawn per Attempt, so presenting it is presenting the Attempt.
- Time is an action that makes a window elapse (`LeaseElapses`,
  `ClaimElapses`, `AssertionExpires`, `NetworkClaimLapses`), at any moment. A
  renewal is a window that does not elapse.
- A request that is repeated under its request id returns what was recorded:
  it is a stutter and has no action, except where the replay reads something
  (`ReplayGranted`).
- `AcceptAgentCommandResult` is one transaction, so the EXECUTING and VERIFYING
  rows it writes on the way are not states of the model.
- `AcceptAgentVerificationObservation` reads without a lock, so it is two
  actions (`observing` holds what was read). For the same reason
  `projectMatchedVMPowerVerificationTx` is `CheckPowerStillWanted` and
  `ProjectPower`, and a registration, a promotion and the revocation of a
  manifest have a step each that reads and a step that commits. A registration
  holds the authority row FOR SHARE in between, which whatever writes that row
  waits for (`AuthorityUnshared`).
- Of a drain, `PlacementAdmission` has the start and the explicit undrain, with
  the pool and membership they ask for; that the evacuation was verified in
  between is in `HostEvacuation`. An inventory and the storage backend of a
  Host are registered apart, and a backend counts only for the inventory
  generation it was observed under.
- `DeliveryIntents` replaces the Host and Command tables by what a revalidation
  can find: `held`, `withheld` (authorization withdrawn for now) or `gone`. That
  a Lease basis only ends, and that an authorization may return, are behaviours
  of `CommandExecution` and `HostAuthority`; this correspondence is by reading,
  it is not checked.
- `Maintenance` has its own `armed` and `VMRuntime` its own `authority`: of a
  Host they need only whether it is armed and by which generation.
- JetStream is external. It stores a message id once unless the duplicate
  window has passed, keeps an entry until it is acknowledged, and redelivers
  without a limit. The consumer is provisioned outside the repository, and a
  small MaxDeliver there would invalidate `LeaseReachesStream`.
- Malformed messages do not occur: every message is written by code of this
  repository.

## 3. Runs

Passing runs. Three of them hold several components side by side: a constant
selects the parts, each behaviour belongs to one `part`, and only that part's
component moves.

| Run | Parts and bounds | Shows |
|---|---|---|
| `command_execution` | `retry`: 1 mutation Command, 2 Attempts, 2 sessions; `fencing`: 2 Commands (one read-only), 1 Attempt each | Attempts end once, only a read-back decides, no active Lease outlives its basis, the ledger is implemented, every Lease ends |
| `outbox_delivery` | 2 Workers, 1 Lease and 1 Verification intent, 2 claims each, failing reads | evidence can be trusted by whoever takes over; every intent settles |
| `command_delivery` | 2 Workers, 2 Gateways, 3 sessions, one Lease along its path or one Verification stored twice | a current Lease message is in the Outbox, on the bus or written; the current stream stays registered; only the session a message names is written to, and each delivery is revalidated |
| `lease_reaches_stream` | 1 Worker, 2 Gateways, 2 sessions | a Lease message whose stream stays registered is eventually written |
| `fleet` | `host`: 1 Host, 2 of each revision; `session`: 3 connections, 3 generations; `hierarchy`, `assign`, `select`, `assert`: 2 groups, 2 levels, 7 writes; `maintenance`: 2 plans over 2 Hosts; `upgrade`: 2 waves; `both` from nothing | authority never outlives its basis; ledger and database differ by at most one; memberships keep their cardinality and are true when published; one disruptive operation per Host; passed waves hold; a paused campaign waits |
| `resources` | `pool`, `scope`: 2 requests for 1 Host; `publish`, `release`: 2 releases, 2 workers; `port`: 1 port, 2 chassis; `network`, `realized`: 1 network, 1 subnet, 2 ports, 2 workers | admissions stay within what there is; the policy shown is the one bound; rebinds are serial; a bound worker understands the schema that is written; retired history is fixed; parents outlive children; an operation ends on its own plan |
| `workloads` | `create`, `lifecycle`, `attached`: 1 VM without or with ports and data; `evacuate`, `slots`: up to 3 VMs, 1 slot; `suspect`, `recover`, `rebuild`, `budget`: 1 or 2 epochs, 1 recovery at a time | slots and budgets are kept; deleted VMs are gone; convergence and confirmation rest on what is current; a verified child stays; a VM moves with its claim; recovery runs only from a fenced source |

A part starts in the initial state of its component or, where the way there is
long, in a state its handlers reach (`PlansActive`, `ScopeOffered`,
`IntentApplied`, `NetworkRealized`, `PlacedAs`, `ProvenFenced` spell it out).

Two of every revision are enough for "current" and "superseded" to differ, and
two claims, sessions or stored copies for the first to be stale while the second
is in use. Three generations let a session be replaced while a stream of the one
before is still open. Two Workers, Gateways, plans, requests or epochs are the
least that race. Counters that the code never bounds are bounded together by the
`Max...Writes` of the parts: each bound is past the shortest violation of every
mutant of the part's properties. The theorems of section 5 have no such bounds.

A second Attempt of two Commands at once is out of reach of a run, so
`retry` has one Command and `fencing` one Attempt each; the theorems have any
number of both. `lease_reaches_stream` has one Worker because liveness cannot
use symmetry; the race of two is in `command_delivery`. `LeaseIsSomewhere` is
checked with `ReadFaults = FALSE`: `loadCurrentCommandDeliveryTx` answers a
failed query with `ErrInternalDeliveryStale` (command_delivery.go:61), the
publisher then completes the intent of a current Lease unpublished, and the
message is lost. `outbox_delivery` has these faults.
`LeaseRevalidated` speaks of Lease messages only:
`AcceptInternalVerificationDelivery` drops the error of its transaction
(command_delivery.go:282), so a decision filled in from the Inbox row of an
earlier delivery survives a revalidation that failed.

`CHECK_DEADLOCK FALSE` is used where the system may really stop: a delivered
message leaves nothing to do, and the bounds on writes, claims, generations and
connections are reached.

Violation runs, each a disagreement between the code and a sentence of the
repository (quoted under `findings`):

| Run | Property | What happens |
|---|---|---|
| `stale_observation` | `StaleObservationIsInert` | a session is admitted between the unlocked read and the receipt: the observation takes effect and is answered STALE |
| `late_result` | `LostAttemptIsAnswerable` | the Result of a lost Attempt that arrives while the next one is leased is neither recorded nor answered |
| `withheld_verification` | `CurrentIsPublished` | a Verification completed while its session is not authorized is never written again |
| `reconnect` | `AgentReconnects` | after a lost SessionAccepted every later handshake proposes a generation PostgreSQL refuses |
| `verified_stays_unbound` | `VerifiedStaysUnbound` | a worker that was authorized earlier binds a port again after its retirement was verified |

`reconnect` assumes strong fairness of proposing, admitting, receiving and
committing; its counterexample is therefore not an endless series of faults. With
the loss of a granted handshake removed from the model the property holds.

## 4. Fairness

- Leases (`Fairness`): database time advances, and the sweep of the Worker runs
  at every tick (`workerruntime.RunWithDelivery`). Agents and operators owe
  nothing.
- Outbox (`OutboxFairness`): the publish ticker, the restart of a Worker that
  exited, and time. Faults are not owed; they are bounded by the number of claims
  of a row, and the last claim is spared, so a liveness property cannot hold
  because a bound was hit or fail because every publish failed.
- Gateway (`PathFairness`): weak fairness for the consumer
  loop; strong fairness for being offered an entry, for the Inbox transaction
  and for the write, since each is retried after a Nak and none fails every time.
- Session (`SessionFairness`): `Run` retries for ever (`hostruntime`).

The fleet, resource and workload models state no fairness: their handlers are
called by operators and by workers that may stay away.

## 5. Proofs

All theorems hold for every value of the constants that meets the named
assumptions (`InputsAssumption`, `BoundsAssumption`, `CommandsAssumption`,
`SessionAssumption`, `HostGroupsAssumption`, `UpgradeAssumption`,
`PlacementAssumption`, `ReleaseAssumption`, `OVNAssumption`,
`NetworkAssumption`, `RuntimeAssumption`, `RecoveryAssumption`, ...): the input sets contain only states the tables allow,
sets of groups, targets, VMs and failure epochs are finite, bounds are natural numbers, networks,
subnets and ports are told apart, and there is a work schema (the code has a
first one for a fleet without a release authority).

`CommandExecutionProofs`. Hosts: the inductive invariant is `HostInvariant`: the type
invariant and, per Host, `AuthorizedBasisCurrent`, `ArmedBasisCurrent` and
`RevisionsInOrder`. The first two are not inductive alone: an inventory or a
replayed admission re-evaluates the authorization long after the session was
admitted, and that the outcome stays AUTHORIZED under an ARMED authority needs
the order of the revisions. One lemma per handler shows that it preserves the
invariant of its Host, `OtherHosts` that it leaves the others alone.
`ReplayedGrantIsCurrent` follows from the invariant; `AuthorityNeverReturns` is
an action property over it.

Commands: the inductive invariant `CommandInvariant` joins
`HostInvariant`, the type invariant, `ActiveLeaseBasis` and `CommandRecorded`:
what the rows of a Command say of the Command and of each Attempt (an Attempt
still to come has no event, Result or evidence; an earlier one was shown
NOT_APPLIED; an UNKNOWN one is undecided; an observation in progress is of the
current Attempt). `ActiveLeaseBasis` needs the Host part because a Lease is lost
in the step of a Host handler. `AttemptEndsOnce` and `ReadBackDecides` are read
off `CommandRecorded`; `JobFollowsCommand` and the action property
`HistoryIsAppendOnly` are proved from the invariant, action by action.

Refinement: the initial state maps to an empty ledger and every
step to a step of `AttemptLedger` or to a stutter; a fence maps to
`LoseAttempts`.

`CommandDeliveryProofs`. Outbox: `EvidenceIsTrue` has two halves. That only the current
claim ends a row is inductive once each Worker's place in `publishClaim` is tied
to the events it has written (`ClaimInvariant`). That a stored message has its
DISPATCH_STARTED evidence compares the number of copies on the bus with the
number of claims that have that event: a publish adds one to both, and the
cardinality argument needs that a Worker between the event and the publish is
not yet counted on the bus (`StoredAtMostClaims`).

Gateways: `GatewayInvariant` joins
`StreamInvariant` (an older stream is never registered over a newer one) and
`RouteInvariant` (what each handler has been told before it writes). It is
proved of a bus that may store a message at any time (`FreeGatewayNext`), so that
it holds both of the Gateways alone and of the composition. `PathImplementsOutbox`
and `PathImplementsGateways` are the two refinements of the composition: every
step is one of the component or a stutter of it; the second assumes
`MaxClaims <= MaxStored`, since each claim stores at most one copy.
`LeaseTheorem` then ties the two: a Lease message leaves the Outbox only when it
was stored, and the bus only when it was written or its basis was gone. It
assumes `ReadFaults = FALSE`, for the reason given in section 3.

`FleetProofs`. Sessions: `SessionInvariant` adds to `LedgerTracksRegistry` what
an Agent that is opening knows of the row (`AgentInStep`) and that every
handshake still under way is behind (`HandshakesBehind`), without which a late
admission could run ahead of the ledger. Disruption: `DisruptionExclusive` is
inductive together with the rows of the claims (`DisruptionClaims`); a target
that is CLAIMED names the claim of its Host, and every release is of the owner's
own. `PausedUntilResumed` rests on `PollsWhileRunning`: a coordinator process
that goes on evaluating holds a live claim on a campaign that is not paused, so
no evaluation overwrites PAUSED (the HOLD branch writes CANARY whatever it finds). `PassedWavesHold`
needs that a target that succeeded is never executed or rearmed again. Groups:
`CardinalityHolds` is not inductive because publishing counts ACTIVE groups
only; `MembersApart` says it of every set that is based on the current
generations of its group and policy, whatever became of selector and hierarchy,
and `BasisOK` that a basis is never ahead, so that a group that becomes active
again has outrun its old set. `PublishedFromCurrentEvidence` needs that an
evaluation stays true of every Host whose projection has not been replaced
(`EvidenceOK`).

`ResourceProofs`. Placement: `RebindsAreSerial` needs that an accepted rebind
names a revision its VM has left, and a pending one a revision it has had
(`RebindInOrder`): only then does comparing the source with the current revision
exclude a second acceptance. `PolicyShownIsBound` needs that a request with a
dry result has not been admitted (`RequestInOrder`), so that the resolution that
is compared is the one that was shown. Networks: `ParentsOutliveChildren` is
inductive with `ActiveRealizes`, that a network or subnet that is to stay has no
retirement plan; without it a worker that ends late could delete one under its
children. `EndsOnItsOwnPlan` rests on `HandInOrder`: plans are replaced by later
generations only, so a worker whose plan has the current generation holds the
current plan, even where its claim generation has come back.

Releases and OVN work: `BoundWorkersUnderstandSchema` is not inductive, since a
registration under way commits what it decided earlier. `DecisionHolds` says that
the authority it read still stands, with its generation and schema, because a
writer of the row waits for it; `BindingUnderstands` adds that no binding is ahead
of the authority, so that a promotion, which asks no worker, leaves every binding
behind.
`RetiredHistoryIsFixed` rests on `PortsInvariant`: every UNBIND item has the
retirement it was written with and is closed once that is VERIFIED
(`UnbindRecorded`), every incarnation before the current one is VERIFIED
(`HistoryVerified`), and a worker that is about to complete holds what a
read-back of its kind of work can say (`HandsOnWork`). A delayed worker
then finds its item closed and cannot write the retirement of an incarnation
that was handed off. Items are looked up in a sequence that only grows
(`WorkGrows`).

`RuntimeProofs`. For each step of `VMRuntime`: the rows it writes keep their
types, and the rows of every other VM are the same. The type invariants name
the set of rows of each table (`MachineRow`, `ChildRow`, `EpochRow`, ...).

`AggregateProofs` (of `AggregateSpec`: one create, update and delete lifecycle
per VM, the runtime, and evacuations of any Host). `DeletedIsGone` is far from
inductive. A delete reads the domain absent on one Host, the bound one, so
nothing may be left on another. That rests on `AtHome` (a VM that was never
relocated has its domain, its evacuations and its power read-backs on its first
Host only, and no second admission while that one is reserved), on `BoundHome`
(while the admission of the bound first plan is reserved, the VM is still there
and its definition was verified), on `Deleting` (a delete is of the bound first
plan, and a domain read back absent is not defined again while the admission is
reserved) and on `Gone` (no evacuation has released a deleted VM, so none can
relocate it). The evacuations need `ChildHeld`: a slot
belongs to a child under way, and a destination is authorized only after the
source admission was released. `AggregateInv` joins these with the types; one
lemma per action shows `AggregateMove`, which is the invariant in the next state
together with what the action properties `VerifiedChildStays`,
`MovesWithItsClaim` and `ConvergedAsObserved` say of the step. Between the check
and the projection of a read-back the VM may move; `CheckedHere` says what is
still known then, and only of a VM that was never relocated.
`ConvergedAsObserved` needs `OpBound`: the verdict of an operation names the Host
and plan of the operation that is completed.

`RecoveryProofs` (of `RecoverySpec`: the runtime, its first placements, and any
number of failure epochs). `RecoveryInv` adds to the types that nothing was
decided about an epoch that is not open (`EpochOpen`) and that an evaluation
which nothing has overtaken was made on the evidence there is (`Evaluated`).
The latter is what `ConfirmedOnAllEvidence` needs: the decision compares
counters, and equal counters have to mean equal evidence. It holds because an
observation is appended and counted in one transaction.
`RecoversFromFencedSource` follows from the guards of the two
transactions that act, over typed rows.

`CapacityProofs`. A step of either part only removes members from a limited set,
or adds one where its own transaction counted fewer than the limit
(`StaysWithin`, shown action by action in the two modules above as `SlotsMove`
and `BudgetMove`). `LimitKept` then counts, and gives `SlotsBounded` and
`BudgetBounded`. The budget is counted for every revision, published or not
(`BudgetHeld`), since an epoch names the revision it was opened under.

Only model-checked: liveness (`LeaseEnds`, `OutboxSettles`,
`LeaseReachesStream`, and the violation run `reconnect`), since fairness and
ENABLED are out of the prover's reach; `MovesWithItsClaim` where a recovery
moves the VM (the theorem is about evacuations); `AdmittedWithinCapacity`, which compares
a sum over the claims of a host (a fold over a set, and what a fold computes is
shown by induction over data); the types of the placement tables
(`PlacementTypeOK`), of which the proofs need only the keys; the violation
runs, which are counterexamples. Each type invariant of a component but that one
is a theorem of its specification; `FleetTypeOK`, `ResourcesTypeOK` and
`WorkloadsTypeOK`, the conjunctions a run checks of parts side by side, are not
stated as one. The theorems about VMs start
from nothing. Most parts of the `workloads` run start in a written-out state
(`PlacedAs`, `ProvenFenced`); that the handlers lead there is by reading. The
lifecycle and the recovery are separate parts and separate specifications: that
a recovery and a delete of the same VM do not disturb each other is neither run
nor proved.

## 6. Not modelled

Questions the models raise and no property answers: whether an UNKNOWN
evacuation slot, a FAILED realization or the disruptive claim of a target whose
outcome the coordinator recorded first is ever taken up again (the models have no
handler for it, as the code has none); that budgets are counted per policy
revision; that each volume of a request is compared with the free bytes by
itself; an Agent that applies a release or a Command after its Lease ended;
that a worker is not bound, nor a release promoted, while the revocation of that
release commits (distrust evidence is read without a lock); that the power row
of a VM that moved is of its new Host (the projection checks the Host in one
statement and writes in the next, and the verification of a recovery,
recovery_terminal.go:482 and :646, does not compare it); that a resumed campaign
ends; that the volumes and ports of a deleted VM are gone (`DeletedIsGone` is
about its domain and compute claim, on Agents that can report a volume of an
undefined domain, `ReadsDetached`).

- The batch loops with ORDER BY and LIMIT, and whether each UNKNOWN Command can
  still be resolved.
- The journal, spool and priority queue of the Agent, with their crash points.
- The order in which handlers take row locks, and deadlocks between them.
- Volume resources, cleanup work, PCI devices, Image ingestion, network
  foundation and identity release.
- Generated protocol code, HTTP decoding, OVSDB encoding, backend drivers and
  inventory collection (I/O), the Terraform provider, the qualification tools
  and the documentation linter.
