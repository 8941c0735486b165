# Solace Workload Balancer: TLA+ verification

This directory models the workload balancer, model-checks the models with TLC
and proves the main results with TLAPS. Paths below are relative to `src/`.

## The system

A **controller** process owns the membership of each *scaling group*: which data
brokers serve it in the current *epoch*. Every epoch has its own queue on each
of its brokers. To change the membership, the controller runs a durable
transition

    PREPARE -> PAUSE -> (fence) -> DRAIN -> COMMIT -> ACTIVATE

and may roll it back until COMMIT. In each phase it saves the new membership
snapshot, publishes it on Broker 0, sends typed commands to the participants and
waits for their acknowledgements. **Publishers** keep accepted events in a
durable outbox and dispatch them to the queue their business hash selects.
**Subscribers** consume the queues and keep per-hash order. **SEMP** calls create
queues, switch their ingress and read their depth.

### Inventory

| Part | Source | Model |
| --- | --- | --- |
| Transition controller and its store | `controller/` | `Controller` |
| Snapshots and their acceptance order | `control/snapshot.go`, `control/reconciler.go` | `Snapshots` |
| Reconcile loop, timeout rollback | `runtime/runtime.go` | `Controller` |
| Bootstrap, catalog, command publisher, applying recommendations | `runtime/production.go` | `Controller`, `Snapshots` |
| Phase of an acknowledgement (`controllerPhase`) | `broker0/envelope.go` | `Controller` |
| Epoch queues, fence, drain monitor | `runtime/resources.go`, `adapters.go`, `drain_monitor.go`, `semp/queue.go` | `Controller` |
| Outbox, dispatcher, publisher shim | `outbox/`, `shim/publisher/` | planned |
| Subscriber shim | `shim/subscriber/` | planned |
| Participant, inbox, operation store, orchestrator | `broker0/`, `runtime/participant*.go` | planned |
| Policy engine, scale-in proof | `policy/`, `runtime/scale_in.go` | planned |
| Cloud lifecycle and journal | `cloud/` | planned |
| Encoding, HTTP and AMQP adapters, naming, configuration, commands, tools | the rest | not modelled: I/O, formatting, wiring |

`PROJECT.json` lists every part, and every hazard with the properties that cover
it or the module planned for it.

## Modules

`Snapshots` holds the data: transition specifications, membership snapshots, the
snapshot `controlSnapshot` publishes in each phase, the one
`expectedPrecommitSnapshot` expects, and `validateAdvance`, a participant's
acceptance rule. A missing pointer or map entry is a record of zeros.

`Controller` is the state machine of one group. The correspondence:

| Variable | Code |
| --- | --- |
| `mem`, `disk` | `Controller.state` and the JSON file; a document has the group's transition and its membership |
| `pc` | where the holder of the group lock is inside `Reconcile`; `down` while no process runs |
| `late` | the phase deadline has passed |
| `aged` | participants whose DRAIN answer is older than `ReadinessFreshness` |
| `catalog` | `MembershipCatalog` |
| `wire`, `commands` | everything ever published on Broker 0 |
| `queues`, `open`, `residue` | managed queues `<<epoch, broker>>`: existing, accepting, closed but not empty |
| `sample` | a drain reading between the monitor and `Observe` |
| `cleaning` | the queues that `runGroup`'s clean-up still has to go through |
| `policy` | `ApplyRecommendations`: its specification, the queues still to delete and to prepare |
| `begun`, `crashes`, `faults` | how much of each bound is used |

The boolean fields of `GroupState` are a set of flag names. Each update and each
side effect of `Reconcile` is its own action, so acknowledgements, crashes and
failures fall between any two. `Save` can succeed, fail with the old file in
place, or fail with the new file in place (an error after the rename).
A fence, unfence or enable that fails has changed any subset of its queues. The
catalog is lost in a crash; the queues and Broker 0 are not.

Two workers run without the group lock. `runGroup` cleans up after a completed
transition from a copy of the state (`StartCleanup`, then one queue per
`CleanupNext`). `ApplyRecommendations` reads the catalog and the group
(`Recommend`), cleans up from its own copy (`PolicyCleanup`), creates the target
queues one by one (`PolicyPrepare`), and only then calls `Begin`, which takes
the lock. Both may stop at any queue with an error, and a crash ends both.

A command carries the wire phase (`commandPhases`), and an acknowledgement brings
it back through `controllerPhase`. Acknowledgements may arrive late, repeatedly, and from an earlier transition,
because every command ever published stays in `commands`. While a queue is open
its content is unknown; when it closes it may hold messages (`residue`) until a
consumer empties it.

`ControllerInv` states the inductive invariant. `MCController` gives the model
values. `ControllerProofs`, `ControllerDocumentProofs`, `ControllerStepProofs`,
`ControllerWorkerProofs`, `ControllerSafetyProofs` and `ControllerTheorems` hold
the proofs.

Abstractions:

- a membership is a set, because broker order only affects routing; one queue
  per epoch and broker (one consumer set); one group, so a queue is never held
  back from clean-up by another group's reference;
- transition IDs are a counter, because the code's IDs carry a timestamp and are
  fresh; command IDs are the scope they are derived from;
- of the time windows, the phase deadline (`late`) and the readiness of DRAIN
  answers (`aged`) may expire at any moment. The drain grace, the freshness of
  samples and of fence checks are left out: the monitor and the verification
  renew what they look at, so these windows only delay COMMIT. Safety holds with
  fewer guards, and for liveness each of them is met by waiting;
- with the samples reduced to a verdict per source, `Open`'s field-by-field
  checks of recorded telemetry, and the checks of the times in the clean-up
  evidence, are left out: `RestartAccepted` says nothing about the former;
- the bounded history of completed transitions is written but never read;
- `Recommend` reads the catalog and the group in one step.

## What the runs check

All runs use two brokers, one publisher and one subscriber. Two brokers give
partial fences, partial opens, and every kind of change (grow, shrink, move).
Runs do not check for deadlock: a controller with nothing to do may stop.

**controller_safety** (two transitions, one crash, one failure, operator
rollback in any pre-commit phase; 207,182 states). Two transitions are needed
for leftovers of a rolled-back one and for a clean-up that overlaps the next
transition; one crash and one failure for a failed save followed by a restart.
It checks:

- `SingleOpenEpoch`: queues of two epochs are never open together.
- `AdvertisedIngressOpen`, `PublishedIngressOpen`: a snapshot that tells
  publishers to send names only open queues, as served by memory or disk, and as
  last published.
- `CommittedIsDrained`: a durable COMMIT leaves no source queue open or with
  messages.
- `WireAdvances`: each snapshot published is one that a participant holding the
  previous one accepts.
- `WireIsDurable`: nothing is published before it is durable.
- `RestartAccepted`: whatever is on disk passes `Open`, and its source queues
  pass `EnsureBootstrap`.
- `AcknowledgedCommands`: an acknowledgement counts only for a published command
  of this very transition.
- `CommitIsFinal`: no step takes a transition back from a COMMIT the controller
  has seen (for one it has not, see `controller_commit`).
- `CleanupLosesNothing`: whichever copy a clean-up works on, a queue it deletes
  was closed, empty, named by neither document, and not needed by the
  recommendation being applied.
- `TypeOK` and `IInv`, the inductive invariant of the proofs.

**controller_faults** (one transition, two crashes, three failures; 142,957
states): `IInv`, `RestartAccepted` and `WireIsDurable` when the replay of a
failed step itself fails or is interrupted by a second crash.

**controller_progress** (two transitions, one crash, one failure, no deadline;
37,660 states): `TransitionEnds`. Every transition ends, the controller is
stranded as below, or DRAIN answers are outdated again and again. The last case
is real: `readinessFresh` refuses COMMIT while an answer to DRAIN is older than
`ReadinessFreshness`, and the command is published once, so nothing makes the
participant answer again. A transition whose answers are renewed for good does
end.

**controller_rollback** (one transition, one crash, one failure, operator
rollbacks; 35,027 states): `RollbackEnds`.

**controller_expiry** (the same with deadlines and without operator; 15,545
states): `UnpublishedTimeoutRollsBack`, for a PREPARE that expires before
anything of it was saved or published.

**Fairness.** `runGroup` calls `Reconcile` again after every error and asks for
the rollback after every expired deadline; its clean-up calls return, for they
have a timeout; a supervisor restarts the process; consumers of a closed queue
eventually take the last message. A participant eventually gives its *first*
answer to a command; later answers happen or not. These are weak. A monitor read is strongly fair for each broker, because
`observeGroup` goes through all sources on every cycle while a sample of another
source may be in flight. Neither operator rollbacks nor recommendations, crashes
or deadlines are fair.

### Disagreements

**controller_timeout**: `TimeoutRollsBack` fails without any crash or failure.
`expectedPrecommitSnapshot` leaves out the broker descriptors that
`controlSnapshot` publishes. From the publication of PREPARE on, the comparison
in `requestSafeTimeoutRollback` therefore fails, and an expired transition
neither advances nor rolls back. The repository's test covers only an
unpublished PREPARE.

**controller_restart**: `NeverStranded` fails with one crash. The target queues
are opened before `TargetIngressEnabled` is saved. After a crash in between,
`EnsureBootstrap` demands them closed, `EnsureQueue` refuses, and each restart
stops at the same point. The fence avoids this by saving `FenceAttempted` first.

**controller_commit**: `DurableCommitIsFinal` fails with one failure.
`JSONStore.Save` may report an error after the rename, when the file already
holds COMMIT. Memory stays in DRAIN, and a `RequestRollback` that comes before
the next `Reconcile` is accepted and saved over it, although the comment at
`controller/controller.go:583` calls the durable COMMIT the point of no return.
Nothing was published yet, and the caller must use the exported
`RequestRollback`; the loop's own timeout path does not get there, for the
reason `controller_timeout` shows.

## What is proved

For any sets of brokers and participants and any bounds, under the assumptions
named in `Controller` (publishers and subscribers are nonempty and disjoint, the
genesis brokers are a nonempty set of brokers, the bounds are naturals):

| Theorem | States |
| --- | --- |
| `TypeCorrect` | `Spec => []TypeOK` |
| `Invariant` | `Spec => []IInv` |
| `EpochsExclusive` | `Spec => []SingleOpenEpoch` |
| `AdvertisedQueuesAccept` | `Spec => []AdvertisedIngressOpen` |
| `CommitLeavesNothing` | `Spec => []CommittedIsDrained` |
| `RestartIsAccepted` | `Spec => []RestartAccepted` |
| `CommitFinal` | `Spec => CommitIsFinal` |
| `CleanupIsSafe` | `Spec => CleanupLosesNothing` |

None of these properties is inductive alone. `SingleOpenEpoch`, for example,
needs to know which epoch may be open in each phase, hence which flags go with a
phase, for the document in memory *and* for the one a crash would load. So
`IInv` says, for both documents:

- `Shape`: which flags, publications and acknowledgements a phase can have;
- `Held`: the membership beside it is the one the phase was entered with, the
  one it publishes, or the rollback's;
- `Ingress`: exactly which queues are then open, with `MayBeFenced` marking the
  interval in which a fence may be partial;
- `Drained`: a source counted as drained is empty;

and that the disk is at most one update ahead of memory (`AheadOf`), what the
lock holder has established at each label (`AtLabel`), that the catalog is
current between transitions, that a zero sample in flight is true
(`SampleTrue`), and that transition IDs are fresh (`IdsUsed`).

For the workers it says that every queue of a copy is *left behind*
(`CopiesBehind`): its epoch is before the target epoch of a completed transition,
and before the source epoch of any other. A queue left behind is closed in every
good document (`BehindClosed`), is not named by it (`BehindUnnamed`), and stays
left behind in any document that is ahead, the first one of the next transition
included (`BehindAdvances`). So a copy may be arbitrarily old. `PolicyCurrent`
says that no other actor can move the group while a recommendation is applied,
so what it was computed from is unchanged when `Begin` is called.

`ControllerProofs` proves type lemmas per operator and action.
`ControllerDocumentProofs` shows that a save, successful or failed, preserves
`Good` and `AheadOf` when the new document is good and ahead of the old, and that
each update the controller makes gives such a document. `ControllerStepProofs`
and `ControllerSafetyProofs` have one lemma per group of actions, with
`ControllerWorkerProofs` in between for the clean-ups and the policy; `NextStep`
and `Invariant` combine them. `ControllerTheorems`
derives the properties; the action properties use `AheadOf(mem, mem')`,
which every step lemma also gives, and `BehindAdvances` from memory to disk.

**Only model-checked**: the liveness properties (fairness is out of the prover's
reach), and `PublishedIngressOpen`, `WireAdvances`, `WireIsDurable` and
`AcknowledgedCommands`, whose proofs need the invariant extended to the history
variables `wire` and `commands`.

## Not modelled yet, and the plan

In this order:

1. `Drain`: telemetry sources, zero intervals, grace, freshness and the times in
   the clean-up evidence, with an explicit clock; late SEMP changes.
2. `Reconciler` and `Orchestrator`: baseline, buffered updates, reconnects,
   staleness, lost and reordered updates.
3. `Participant`: inbox, command handler, operation store with its limit and
   expiry, crash between acknowledging and recording.
4. `Outbox`, shown to implement an abstract FIFO queue per ordering lane
   (refinement mapping); then `Dispatcher` and `Publisher` on top of it.
5. `Subscriber`: prepare, activate, rollback, fail closed; the ordering lanes.
6. `Policy` and scale-in evidence, two groups sharing brokers.
7. `Cloud`: create intents, uncertain creates, adoption, journal saves.
8. `Handover`: controller, one publisher and one subscriber composed; no event
   is lost or overtaken within its lane across a transition.

Runs will keep the bounds of this directory's style: two brokers, two to three
events, one crash, one or two failures. Planned proofs: the invariant for `wire`
and `commands`; `Outbox` refines its abstract queue; exclusivity of lanes;
monotonic membership in `Reconciler`.
