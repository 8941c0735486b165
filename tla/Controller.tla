----------------------------- MODULE Controller -----------------------------
(***************************************************************************)
(* The transition controller of one scaling group (controller/), with the  *)
(* runtime code that surrounds it: the reconcile loop and its timeout      *)
(* rollback (runtime/runtime.go), bootstrap after a restart and the        *)
(* command publisher (runtime/production.go), the per-epoch queues         *)
(* (runtime/resources.go) and their ingress fence (runtime/adapters.go).   *)
(*                                                                         *)
(* A transition moves the group from the brokers of fromEpoch to those of  *)
(* fromEpoch + 1: PREPARE, PAUSE, (fence), DRAIN, COMMIT, ACTIVATE, or     *)
(* back to the source before COMMIT.  Every step is a durable update, so   *)
(* the model keeps the state document twice: mem, what the process works   *)
(* on, and disk, what the next process would load.  Reconcile holds the    *)
(* group lock over several updates and side effects; pc says how far it    *)
(* is, so that acknowledgements, crashes and failures fall in between.     *)
(*                                                                         *)
(* Wall-clock time is abstracted: a phase deadline may pass at any moment  *)
(* (late), and a DRAIN acknowledgement may grow too old for COMMIT at any  *)
(* moment (aged), after which nothing asks for it again.  The drain grace  *)
(* and the freshness of samples and fence checks are left out: the monitor *)
(* and the verification renew what they look at, so they only delay COMMIT.*)
(*                                                                         *)
(* Two more workers run without the group lock, each on a copy of the      *)
(* state: runGroup's clean-up after a completed transition (cleaning), and *)
(* ApplyRecommendations up to its call of Begin (policy).                  *)
(***************************************************************************)
EXTENDS Snapshots

CONSTANTS
  Publisher, Subscriber,   \* the required participants of the group
  GenesisBrokers,          \* OrderedBrokerIDs of the configuration
  OperatorRollback,        \* is RequestRollback also called from outside?
  Deadlines,               \* can phase deadlines pass?
  MaxTransitions,          \* bound: calls of Begin
  MaxCrashes,              \* bound: crashes of the controller process
  MaxFaults                \* bound: failed saves, publications, SEMP calls

Participant == Publisher \cup Subscriber

ASSUME ParticipantAssumption ==
  Publisher # {} /\ Subscriber # {} /\ Publisher \cap Subscriber = {}

ASSUME GenesisAssumption == GenesisBrokers \subseteq Broker /\ GenesisBrokers # {}

ASSUME BoundAssumption ==
  /\ MaxTransitions \in Nat /\ MaxCrashes \in Nat /\ MaxFaults \in Nat
  /\ OperatorRollback \in BOOLEAN /\ Deadlines \in BOOLEAN

VARIABLES
  mem,        \* Controller.state: the state document in memory
  disk,       \* the state document of the JSONStore
  pc,         \* where the holder of the group lock is in Reconcile, or "down"
  late,       \* has the deadline of mem's phase passed?
  aged,       \* participants whose DRAIN acknowledgement is no longer fresh
  catalog,    \* MembershipCatalog: the snapshot the runtime believes retained
  wire,       \* the snapshots ever published on Broker 0
  commands,   \* the participant commands ever published on Broker 0
  queues,     \* the managed queues <<epoch, broker>> that exist
  open,       \* the queues whose ingress is enabled
  residue,    \* closed queues that still hold messages
  sample,     \* the drain monitor's reading on its way to Observe
  cleaning,   \* the queues runGroup's clean-up still has to go through
  policy,     \* ApplyRecommendations: its specification, queues to delete, to prepare
  begun, crashes, faults   \* how much of each bound is used

store == <<mem, disk, faults>>
broker0 == <<catalog, wire, commands>>
ingress == <<queues, open, residue>>
workers == <<cleaning, policy>>
vars == <<mem, disk, pc, late, aged, catalog, wire, commands, queues, open, residue,
          sample, cleaning, policy, begun, crashes, faults>>

-----------------------------------------------------------------------------
(* The state document *)

\* The boolean fields of GroupState, held as the set of those that are true.
Flag == {"FenceAttempted", "Fenced", "FenceVerified", "Unfenced",
         "TargetIngressEnabled", "TargetIngressVerified", "CleanupRecorded",
         "RollingBack", "RollbackPublished", "Completed"}

\* published: the phases whose ...Published field is set; issued: those with
\* IssuedCommandIDs; drained: the sources whose latest sample is a known zero.
GroupState ==
  [spec : TransitionSpec, phase : Phase, acks : [Phase -> SUBSET Participant],
   issued : SUBSET Phase, published : SUBSET Phase, drained : SUBSET Broker,
   flags : SUBSET Flag]

PersistentState == [group : GroupState, membership : MembershipSnapshot]

\* The state Begin creates for a specification.
Created(spec) ==
  [spec |-> spec, phase |-> "PREPARE", acks |-> [p \in Phase |-> {}],
   issued |-> {}, published |-> {}, drained |-> {}, flags |-> {}]

\* A group without transition history: id 0 stands for the missing map entry.
NoGroup ==
  [Created([id |-> 0, revision |-> 0, fromEpoch |-> 0, current |-> {},
            proposed |-> {}]) EXCEPT !.flags = {"Completed"}]

EmptyState == [group |-> NoGroup, membership |-> NoSnapshot]

\* typedRequirements: who must answer the command of a phase.
Requirements(phase) ==
  CASE phase \in {"PREPARE", "DRAIN"} -> Subscriber
    [] phase = "PAUSE"                -> Publisher
    [] phase = "ACTIVATE"             -> Participant
    [] phase = "COMMIT"               -> {}

group == mem.group
spec0 == mem.group.spec
Is(flag) == flag \in mem.group.flags

allAcknowledged(g, phase) == Requirements(phase) \subseteq g.acks[phase]

\* The queues of the source and of the target epoch.
SourceQueues(g) == {g.spec.fromEpoch} \X g.spec.current
TargetQueues(g) == {ToEpoch(g.spec)} \X g.spec.proposed

\* The CurrentResources and ProposedResources of a snapshot.
CurrentQueues(m) == {m.epoch} \X m.current
ProposedQueues(m) == {m.transition.toEpoch} \X m.proposed

\* What Open requires of a loaded transition, up to its telemetry: the drain
\* samples are checked field by field, and the model keeps only their verdict.
validateGroupState(g) ==
  /\ "PAUSE" \in g.published => "PREPARE" \in g.published
  /\ "DRAIN" \in g.published => "PAUSE" \in g.published /\ "Fenced" \in g.flags
  /\ "COMMIT" \in g.published => g.phase \in {"COMMIT", "ACTIVATE"}
  /\ "ACTIVATE" \in g.published =>
       /\ g.phase = "ACTIVATE"
       /\ {"FenceVerified", "TargetIngressEnabled", "TargetIngressVerified"} \subseteq g.flags
  /\ \A p \in Phase : g.acks[p] # {} => p \in g.issued /\ g.acks[p] \subseteq Requirements(p)
  /\ g.issued \subseteq g.published \cup {g.phase}
  /\ g.published \ {"COMMIT"} \subseteq g.issued
  /\ \/ g.phase = "DRAIN" /\ "DRAIN" \in g.published
     \/ g.phase = "COMMIT" /\ "COMMIT" \in g.published
     \/ g.phase = "ACTIVATE"
     => g.flags \cap {"Fenced", "RollingBack"} # {}
  /\ "Completed" \in g.flags => "RollingBack" \in g.flags \/ "ACTIVATE" \in g.published
  /\ "Fenced" \in g.flags => "FenceAttempted" \in g.flags
  /\ "TargetIngressVerified" \in g.flags => "TargetIngressEnabled" \in g.flags
  /\ "RollbackPublished" \in g.flags /\ g.flags \cap {"FenceAttempted", "Fenced"} # {}
       => "Unfenced" \in g.flags

-----------------------------------------------------------------------------
(* Saving.  JSONStore.Save replaces the file by a rename: on an error the  *)
(* file holds the old or the new document, and updateState keeps memory.   *)

Fault == faults < MaxFaults /\ faults' = faults + 1

Saved(next) == mem' = next /\ disk' = next /\ UNCHANGED faults

\* Mutant of SaveFailed: memory is updated before the save is known to succeed.
MemoryBeforeSave(next) == Fault /\ mem' = next /\ disk' \in {disk, next}

SaveFailed(next) == Fault /\ UNCHANGED mem /\ disk' \in {disk, next}

\* updateGroup by the holder of the group lock, who goes on at label then.
updateGroup(g, then) ==
  LET next == [mem EXCEPT !.group = g]
  IN \/ Saved(next) /\ pc' = then
     \/ SaveFailed(next) /\ pc' = "idle"

SetFlag(flag, then) == updateGroup([group EXCEPT !.flags = @ \cup {flag}], then)

\* A new phase has a new deadline.
enterPhase(phase, extra) ==
  LET next == [mem EXCEPT !.group.phase = phase, !.group.flags = @ \cup extra]
  IN /\ pc' = "idle"
     /\ \/ Saved(next) /\ late' = FALSE
        \/ SaveFailed(next) /\ UNCHANGED late

-----------------------------------------------------------------------------
(* Queue ingress *)

Switch(S, Q, on) == IF on THEN S \cup Q ELSE S \ Q

\* A queue that is closed while open may hold messages; an open one accepts any.
Residue == residue' = (residue \cup open) \ open'

SetIngress(Q, on) == open' = Switch(open, Q, on) /\ Residue

\* SEMPBrokerFence.change: queue by queue, stopping at the first error.
Change(Q, on, then) ==
  \/ SetIngress(Q, on) /\ pc' = then /\ UNCHANGED faults
  \/ Fault /\ (\E S \in SUBSET Q : SetIngress(S, on)) /\ pc' = "idle"

\* SEMPBrokerFence.verifyIngressState
VerifyFence == SourceQueues(group) \cap open = {}
VerifyIngress == TargetQueues(group) \subseteq open

-----------------------------------------------------------------------------
(* Publication: publish() saves the membership, CommandPublisher.Publish   *)
(* sends the snapshot, updates the catalog and sends the typed commands,   *)
(* and Reconcile then records the phase as published.                      *)

PublishedPhase == IF Is("RollingBack") THEN "ACTIVATE" ELSE group.phase

Advertised == controlSnapshot(spec0, PublishedPhase, Is("RollingBack"))

\* Mutant of commandPhases: the controller's own phase goes on the wire.
unconverted(phase) == phase

\* The phase a participant command carries on the wire.
commandPhases(phase) ==
  CASE phase = "PREPARE"  -> "PREPARE"
    [] phase = "PAUSE"    -> "PAUSED"
    [] phase = "DRAIN"    -> "DRAIN"
    [] phase = "COMMIT"   -> "COMMITTED"
    [] phase = "ACTIVATE" -> "ACTIVE"

\* The phase Acknowledge is called with for an acknowledgement that carries the
\* command's phase back; any other one is refused.
controllerPhase(phase) ==
  CASE phase = "PREPARE"   -> "PREPARE"
    [] phase = "PAUSED"    -> "PAUSE"
    [] phase = "DRAIN"     -> "DRAIN"
    [] phase = "COMMITTED" -> "COMMIT"
    [] phase = "ACTIVE"    -> "ACTIVATE"
    [] OTHER               -> ""

\* Rollback commands carry the source epoch.
CommandsOf ==
  {[transition |-> spec0.id,
    epoch |-> IF Is("RollingBack") THEN spec0.fromEpoch ELSE ToEpoch(spec0),
    phase |-> commandPhases(PublishedPhase), participant |-> p] :
     p \in Requirements(PublishedPhase)}

\* SaveMembership accepts no older revision or epoch and no conflict; a refusal
\* would be retried for ever.
SaveMembership ==
  LET current == mem.membership
      next == [mem EXCEPT !.membership = Advertised]
  IN /\ pc = "membership"
     /\ Advertised.revision >= current.revision /\ Advertised.epoch >= current.epoch
     /\ Advertised.revision = current.revision => Advertised = current
     /\ \/ Advertised = current /\ pc' = "publish" /\ UNCHANGED store
        \/ Advertised # current /\ Saved(next) /\ pc' = "publish"
        \/ Advertised # current /\ SaveFailed(next) /\ pc' = "idle"
     /\ UNCHANGED <<late, aged, broker0, ingress, sample, begun, crashes, workers>>

Publish ==
  /\ pc = "publish"
  /\ \/ /\ wire' = wire \cup {Advertised}
        /\ catalog' = Advertised
        /\ commands' = commands \cup CommandsOf
        /\ pc' = "record" /\ UNCHANGED faults
     \/ /\ Fault /\ pc' = "idle"
        /\ \/ UNCHANGED broker0
           \/ wire' = wire \cup {Advertised} /\ UNCHANGED <<catalog, commands>>
           \/ /\ wire' = wire \cup {Advertised}
              /\ catalog' = Advertised
              /\ \E sent \in SUBSET CommandsOf : commands' = commands \cup sent
  /\ UNCHANGED <<mem, disk, late, aged, ingress, sample, begun, crashes, workers>>

RecordPublished ==
  /\ pc = "record"
  /\ IF Is("RollingBack")
     THEN SetFlag("RollbackPublished", "idle")
     ELSE updateGroup([group EXCEPT
            !.published = @ \cup {group.phase},
            !.flags = IF group.phase = "COMMIT"
                      THEN @ \cup {"FenceAttempted", "Fenced", "FenceVerified"} ELSE @], "idle")
  /\ UNCHANGED <<late, aged, broker0, ingress, sample, begun, crashes, workers>>

-----------------------------------------------------------------------------
(* Reconcile *)

\* A call of Reconcile that finds a transition to work on; runGroup makes it
\* once its clean-up has returned.
Turn == pc = "idle" /\ cleaning = {} /\ spec0.id # 0 /\ ~Is("Completed")

Forward(phase) ==
  /\ Turn /\ ~Is("RollingBack") /\ group.phase = phase
  /\ late => phase \in {"COMMIT", "ACTIVATE"}

Back == Turn /\ Is("RollingBack")

\* Mutant of EnsureCommandIntent: ACTIVE is published before the target is open.
ActivateUnverified ==
  /\ \E phase \in Phase \ {"COMMIT"} :
       /\ Forward(phase) /\ phase \notin group.published
       /\ \/ phase \in group.issued /\ pc' = "membership" /\ UNCHANGED store
          \/ /\ phase \notin group.issued
             /\ updateGroup([group EXCEPT !.issued = @ \cup {phase}], "membership")
  /\ UNCHANGED <<late, aged, broker0, ingress, sample, begun, crashes, workers>>

\* The command IDs are durable before anything is published.
EnsureCommandIntent ==
  /\ \E phase \in Phase \ {"COMMIT"} :
       /\ Forward(phase) /\ phase \notin group.published
       /\ phase = "ACTIVATE" => Is("TargetIngressVerified") /\ VerifyIngress
       /\ \/ phase \in group.issued /\ pc' = "membership" /\ UNCHANGED store
          \/ /\ phase \notin group.issued
             /\ updateGroup([group EXCEPT !.issued = @ \cup {phase}], "membership")
  /\ UNCHANGED <<late, aged, broker0, ingress, sample, begun, crashes, workers>>

AdvanceToPause ==
  /\ Forward("PREPARE")
  /\ "PREPARE" \in group.published /\ allAcknowledged(group, "PREPARE")
  /\ enterPhase("PAUSE", {})
  /\ UNCHANGED <<aged, broker0, ingress, sample, begun, crashes, workers>>

PauseAcknowledged ==
  /\ Forward("PAUSE")
  /\ "PAUSE" \in group.published /\ allAcknowledged(group, "PAUSE")

\* Mutant of PersistFenceAttempt: the fence is attempted without durable intent.
FenceWithoutIntent ==
  /\ PauseAcknowledged /\ ~Is("FenceAttempted")
  /\ mem' = [mem EXCEPT !.group.flags = @ \cup {"FenceAttempted"}] /\ pc' = "fence"
  /\ UNCHANGED <<disk, faults, late, aged, broker0, ingress, sample, begun, crashes, workers>>

PersistFenceAttempt ==
  /\ PauseAcknowledged /\ ~Is("FenceAttempted")
  /\ SetFlag("FenceAttempted", "fence")
  /\ UNCHANGED <<late, aged, broker0, ingress, sample, begun, crashes, workers>>

\* Mutant of Fence: a fence that failed is not attempted again.
FenceOnce ==
  /\ pc = "fence"
  /\ Change(SourceQueues(group), FALSE, "recordFence")
  /\ UNCHANGED <<mem, disk, late, aged, broker0, queues, sample, begun, crashes, workers>>

Fence ==
  /\ \/ pc = "fence"
     \/ PauseAcknowledged /\ Is("FenceAttempted") /\ ~Is("Fenced")
  /\ Change(SourceQueues(group), FALSE, "recordFence")
  /\ UNCHANGED <<mem, disk, late, aged, broker0, queues, sample, begun, crashes, workers>>

RecordFenced ==
  /\ pc = "recordFence"
  /\ SetFlag("Fenced", "idle")
  /\ UNCHANGED <<late, aged, broker0, ingress, sample, begun, crashes, workers>>

\* Mutant of AdvanceToDrain: an attempted fence counts as a complete one.
DrainAfterAttempt ==
  /\ PauseAcknowledged /\ Is("FenceAttempted")
  /\ enterPhase("DRAIN", {})
  /\ UNCHANGED <<aged, broker0, ingress, sample, begun, crashes, workers>>

AdvanceToDrain ==
  /\ PauseAcknowledged /\ Is("FenceAttempted") /\ Is("Fenced")
  /\ enterPhase("DRAIN", {})
  /\ UNCHANGED <<aged, broker0, ingress, sample, begun, crashes, workers>>

\* Mutant of drainComplete: one drained source is enough.
anyDrained(g) == g.spec.current \cap g.drained # {}

\* drainComplete without its time windows (the grace, the newest sample's age and
\* the length of the zero interval): every source's latest sample is zero.  The
\* windows only make COMMIT wait for a later sample of the same kind.
drainComplete(g) == g.spec.current \subseteq g.drained

\* Every required answer to DRAIN is recent enough.
readinessFresh(g) == Requirements("DRAIN") \subseteq g.acks["DRAIN"] \ aged

\* The point of no return; updateGroup adds the cleanup evidence.
AdvanceToCommit ==
  /\ Forward("DRAIN") /\ "DRAIN" \in group.published
  /\ drainComplete(group) /\ allAcknowledged(group, "DRAIN") /\ readinessFresh(group)
  /\ VerifyFence
  /\ enterPhase("COMMIT", {"FenceVerified", "CleanupRecorded"})
  /\ UNCHANGED <<aged, broker0, ingress, sample, begun, crashes, workers>>

PublishCommit ==
  /\ Forward("COMMIT") /\ "COMMIT" \notin group.published
  /\ VerifyFence
  /\ pc' = "membership"
  /\ UNCHANGED <<store, late, aged, broker0, ingress, sample, begun, crashes, workers>>

AdvanceToActivate ==
  /\ Forward("COMMIT") /\ "COMMIT" \in group.published
  /\ enterPhase("ACTIVATE", {})
  /\ UNCHANGED <<aged, broker0, ingress, sample, begun, crashes, workers>>

EnableIngress ==
  /\ Forward("ACTIVATE") /\ ~Is("TargetIngressEnabled")
  /\ Change(TargetQueues(group), TRUE, "recordEnable")
  /\ UNCHANGED <<mem, disk, late, aged, broker0, queues, sample, begun, crashes, workers>>

RecordEnabled ==
  /\ pc = "recordEnable"
  /\ SetFlag("TargetIngressEnabled", "idle")
  /\ UNCHANGED <<late, aged, broker0, ingress, sample, begun, crashes, workers>>

RecordVerified ==
  /\ Forward("ACTIVATE") /\ Is("TargetIngressEnabled") /\ ~Is("TargetIngressVerified")
  /\ VerifyIngress
  /\ SetFlag("TargetIngressVerified", "idle")
  /\ UNCHANGED <<late, aged, broker0, ingress, sample, begun, crashes, workers>>

\* Mutant of Unfence: a partial fence is not undone.
UnfenceOnlyFenced ==
  /\ Back /\ Is("Fenced") /\ ~Is("Unfenced")
  /\ Change(SourceQueues(group), TRUE, "recordUnfence")
  /\ UNCHANGED <<mem, disk, late, aged, broker0, queues, sample, begun, crashes, workers>>

Unfence ==
  /\ Back /\ (Is("FenceAttempted") \/ Is("Fenced")) /\ ~Is("Unfenced")
  /\ Change(SourceQueues(group), TRUE, "recordUnfence")
  /\ UNCHANGED <<mem, disk, late, aged, broker0, queues, sample, begun, crashes, workers>>

RecordUnfenced ==
  /\ pc = "recordUnfence"
  /\ SetFlag("Unfenced", "idle")
  /\ UNCHANGED <<late, aged, broker0, ingress, sample, begun, crashes, workers>>

\* Mutant of PublishRollback: the source is advertised before it is open again.
PublishRollbackEarly ==
  /\ Back /\ ~Is("RollbackPublished")
  /\ pc' = "membership"
  /\ UNCHANGED <<store, late, aged, broker0, ingress, sample, begun, crashes, workers>>

PublishRollback ==
  /\ Back /\ (Is("FenceAttempted") \/ Is("Fenced") => Is("Unfenced"))
  /\ ~Is("RollbackPublished")
  /\ pc' = "membership"
  /\ UNCHANGED <<store, late, aged, broker0, ingress, sample, begun, crashes, workers>>

\* completeState, forward or after the rollback was published.
Complete ==
  /\ \/ Forward("ACTIVATE") /\ "ACTIVATE" \in group.published /\ allAcknowledged(group, "ACTIVATE")
     \/ Back /\ Is("RollbackPublished") /\ (Is("FenceAttempted") \/ Is("Fenced") => Is("Unfenced"))
  /\ SetFlag("Completed", "idle")
  /\ UNCHANGED <<late, aged, broker0, ingress, sample, begun, crashes, workers>>

Reconcile ==
  \/ EnsureCommandIntent \/ SaveMembership \/ Publish \/ RecordPublished
  \/ AdvanceToPause \/ PersistFenceAttempt \/ Fence \/ RecordFenced
  \/ AdvanceToDrain \/ AdvanceToCommit \/ PublishCommit \/ AdvanceToActivate
  \/ EnableIngress \/ RecordEnabled \/ RecordVerified
  \/ Unfence \/ RecordUnfenced \/ PublishRollback \/ Complete

-----------------------------------------------------------------------------
(* The other handlers.  All but Acknowledge take the group lock.           *)

\* updateState by a caller outside Reconcile: pc stays where it is.
Update(g) ==
  LET next == [mem EXCEPT !.group = g]
  IN (Saved(next) \/ SaveFailed(next)) /\ UNCHANGED pc

\* The answer of participant p to the command of a phase: it is recorded, and a
\* later one to DRAIN renews the readiness.
RecordAnswer(phase, p) ==
  LET next == [mem EXCEPT !.group.acks[phase] = @ \cup {p}]
  IN /\ \/ Saved(next) /\ aged' \in {aged} \cup (IF phase = "DRAIN" THEN {aged \ {p}} ELSE {})
        \/ SaveFailed(next) /\ UNCHANGED aged
     /\ UNCHANGED <<pc, late, broker0, ingress, sample, begun, crashes, workers>>

\* Mutant of Acknowledge: neither the transition nor its command ID is compared.
AcknowledgeAnyTransition(c) ==
  LET phase == controllerPhase(c.phase)
  IN /\ pc # "down"
     /\ spec0.id # 0 /\ ~Is("Completed") /\ ~Is("RollingBack")
     /\ phase \in group.issued
     /\ c.epoch = ToEpoch(spec0) /\ phase = group.phase
     /\ c.participant \in Requirements(phase)
     /\ RecordAnswer(phase, c.participant)

\* A participant answers a command it received, once or many times and
\* arbitrarily late; the acknowledgement carries the command's scope.
Acknowledge(c) ==
  LET phase == controllerPhase(c.phase)
  IN /\ pc # "down"
     /\ spec0.id # 0 /\ ~Is("Completed") /\ ~Is("RollingBack")
     /\ phase \in group.issued
     /\ c.transition = spec0.id /\ c.epoch = ToEpoch(spec0) /\ phase = group.phase
     /\ c.participant \in Requirements(phase)
     /\ RecordAnswer(phase, c.participant)

\* The transition accepts drain telemetry.
Draining ==
  /\ ~Is("Completed") /\ ~Is("RollingBack")
  /\ group.phase = "DRAIN" /\ "DRAIN" \in group.published

\* SEMPDrainMonitor reads a source queue; a failed or partial read is unknown.
MonitorRead(b) ==
  /\ pc # "down" /\ Draining /\ sample = {} /\ b \in spec0.current
  /\ \E zero \in BOOLEAN :
       /\ sample' = {[transition |-> spec0.id, broker |-> b, zero |-> zero]}
       /\ \/ zero = (<<spec0.fromEpoch, b>> \notin residue) /\ UNCHANGED faults
          \/ ~zero /\ Fault
  /\ UNCHANGED <<mem, disk, pc, late, aged, broker0, ingress, begun, crashes, workers>>

\* A sample that is not a known zero ends the source's zero interval.
Observe ==
  /\ pc = "idle" /\ sample' = {}
  /\ \E s \in sample :
       \/ /\ Draining /\ s.transition = spec0.id
          /\ Update([group EXCEPT !.drained = IF s.zero THEN @ \cup {s.broker}
                                                        ELSE @ \ {s.broker}])
       \/ ~(Draining /\ s.transition = spec0.id) /\ UNCHANGED <<store, pc>>
  /\ UNCHANGED <<late, aged, broker0, ingress, begun, crashes, workers>>

\* Mutant of requestRollback: only the published phases are looked at.
rollbackAfterCommit ==
  /\ pc = "idle" /\ spec0.id # 0
  /\ group.published \cap {"COMMIT", "ACTIVATE"} = {}
  /\ ~Is("RollingBack")
  /\ Update([group EXCEPT !.flags = @ \cup {"RollingBack"}])
  /\ UNCHANGED <<late, aged, broker0, ingress, sample, begun, crashes, workers>>

\* RequestRollback with a complete proof.
requestRollback ==
  /\ pc = "idle" /\ spec0.id # 0
  /\ group.phase \notin {"COMMIT", "ACTIVATE"}
  /\ group.published \cap {"COMMIT", "ACTIVATE"} = {}
  /\ ~Is("RollingBack")
  /\ Update([group EXCEPT !.flags = @ \cup {"RollingBack"}])
  /\ UNCHANGED <<late, aged, broker0, ingress, sample, begun, crashes, workers>>

RequestRollback == OperatorRollback /\ requestRollback

\* runGroup after ErrPhaseDeadline: requestSafeTimeoutRollback.
TimeoutRollback ==
  /\ Turn /\ late
  /\ catalog = expectedPrecommitSnapshot(spec0, group.phase, group.published)
  /\ requestRollback

DeadlinePasses ==
  /\ Deadlines /\ ~late /\ spec0.id # 0 /\ ~Is("Completed")
  /\ group.phase \notin {"COMMIT", "ACTIVATE"}
  /\ late' = TRUE
  /\ UNCHANGED <<store, pc, aged, broker0, ingress, sample, begun, crashes, workers>>

\* An answer to DRAIN becomes older than ReadinessFreshness.
ReadinessAges(p) ==
  /\ Draining /\ p \in group.acks["DRAIN"] \ aged
  /\ aged' = aged \cup {p}
  /\ UNCHANGED <<store, pc, late, broker0, ingress, sample, begun, crashes, workers>>

\* A consumer takes the last message of a closed queue.
Consume(q) ==
  /\ q \in residue /\ residue' = residue \ {q}
  /\ UNCHANGED <<store, pc, late, aged, broker0, queues, open, sample, begun, crashes, workers>>

-----------------------------------------------------------------------------
(* Deleting the source queues of a completed transition.  runGroup and     *)
(* ApplyRecommendations both do it, each from a copy of the state document *)
(* and without the group lock; only the catalog is read live.              *)

\* Mutant of Cleanable: the transition need not be completed.
CleanableBeforeCompletion(g) ==
  IF "CleanupRecorded" \in g.flags /\ "RollingBack" \notin g.flags THEN SourceQueues(g) ELSE {}

\* The queues cleanupCompletedGroup goes through for a copy g of the group.
Cleanable(g) ==
  IF {"Completed", "CleanupRecorded"} \subseteq g.flags /\ "RollingBack" \notin g.flags
  THEN SourceQueues(g) ELSE {}

\* resourceReferenced, for the catalog.
Referenced(q) == q \in CurrentQueues(catalog) \cup ProposedQueues(catalog)

\* DeleteQueue, unless the queue is still referenced.
Delete(q) ==
  LET gone == IF Referenced(q) THEN {} ELSE {q}
  IN queues' = queues \ gone /\ open' = open \ gone /\ residue' = residue \ gone

\* runGroup after a Reconcile that returned no error.  A copy whose queues are
\* all gone has nothing to do.
StartCleanup ==
  /\ pc = "idle" /\ cleaning = {} /\ Cleanable(group) \cap queues # {}
  /\ cleaning' = Cleanable(group)
  /\ UNCHANGED <<store, pc, late, aged, broker0, ingress, sample, policy, begun, crashes>>

CleanupNext ==
  /\ \E q \in cleaning :
       \/ Delete(q) /\ cleaning' = cleaning \ {q} /\ UNCHANGED faults
       \/ Fault /\ (Delete(q) \/ UNCHANGED ingress) /\ cleaning' = {}
  /\ UNCHANGED <<mem, disk, pc, late, aged, broker0, sample, policy, begun, crashes>>

-----------------------------------------------------------------------------
(* ApplyRecommendations: read the catalog, clean up, prepare the queues of *)
(* the target epoch, and call Begin, which alone takes the group lock.     *)

canReplaceCompleted(g, next) ==
  /\ "Completed" \in g.flags /\ next.id # g.spec.id
  /\ IF "RollingBack" \in g.flags
     THEN /\ next.fromEpoch = g.spec.fromEpoch /\ next.current = g.spec.current
          /\ next.revision > g.spec.revision + 5
     ELSE /\ next.fromEpoch = ToEpoch(g.spec) /\ next.current = g.spec.proposed
          /\ next.revision > g.spec.revision + 4

\* EnsureQueue: create the missing queues; the others must match exactly.
Exact(Q, on) == IF on THEN Q \cap queues \subseteq open ELSE Q \cap open = {}

\* transitionSpec: the successor of the ACTIVE snapshot in the catalog.
NextSpec(proposed) ==
  [id |-> begun + 1, revision |-> catalog.revision + 1, fromEpoch |-> catalog.epoch,
   current |-> catalog.current, proposed |-> proposed]

\* A recommendation that is being applied: its transition, the queues still to
\* be cleaned up and those still to be prepared.
Recommendation ==
  [spec : TransitionSpec, old : SUBSET (Nat \X Broker), new : SUBSET (Nat \X Broker)]

\* No recommendation is being applied.
NoPolicy == [spec |-> NoGroup.spec, old |-> {}, new |-> {}]

Recommending == policy.spec.id # 0

Recommend(proposed) ==
  /\ pc # "down" /\ ~Recommending /\ begun < MaxTransitions
  /\ catalog.phase = "ACTIVE" /\ Is("Completed")
  /\ proposed # {} /\ proposed # catalog.current
  /\ policy' = [spec |-> NextSpec(proposed), old |-> Cleanable(group),
                new |-> {ToEpoch(NextSpec(proposed))} \X proposed]
  /\ UNCHANGED <<store, pc, late, aged, broker0, ingress, sample, cleaning, begun, crashes>>

PolicyCleanup ==
  /\ \E q \in policy.old :
       \/ Delete(q) /\ policy' = [policy EXCEPT !.old = @ \ {q}] /\ UNCHANGED faults
       \/ Fault /\ (Delete(q) \/ UNCHANGED ingress) /\ policy' = NoPolicy
  /\ UNCHANGED <<mem, disk, pc, late, aged, broker0, sample, cleaning, begun, crashes>>

\* Mutant of Create: the target queues are created with ingress enabled.
CreateOpen(q) == queues' = queues \cup {q} /\ open' = open \cup {q} /\ UNCHANGED residue

Create(q) == queues' = queues \cup {q} /\ UNCHANGED <<open, residue>>

\* Prepare, once the clean-up is through.
PolicyPrepare ==
  /\ policy.old = {}
  /\ \E q \in policy.new :
       /\ Exact({q}, FALSE)
       /\ \/ Create(q) /\ policy' = [policy EXCEPT !.new = @ \ {q}] /\ UNCHANGED faults
          \/ Fault /\ (Create(q) \/ UNCHANGED ingress) /\ policy' = NoPolicy
  /\ UNCHANGED <<mem, disk, pc, late, aged, broker0, sample, cleaning, begun, crashes>>

Begin ==
  LET next == [mem EXCEPT !.group = Created(policy.spec)]
  IN /\ pc = "idle" /\ Recommending /\ policy.old = {} /\ policy.new = {}
     /\ group = NoGroup \/ canReplaceCompleted(group, policy.spec)
     /\ \/ Saved(next) /\ late' = FALSE /\ aged' = {}
        \/ SaveFailed(next) /\ UNCHANGED <<late, aged>>
     /\ begun' = begun + 1 /\ policy' = NoPolicy
     /\ UNCHANGED <<pc, broker0, ingress, sample, cleaning, crashes>>

-----------------------------------------------------------------------------
(* Crash and restart.  While the process is down mem is what it will load. *)

Crash ==
  /\ pc # "down" /\ crashes < MaxCrashes
  /\ crashes' = crashes + 1 /\ pc' = "down"
  /\ mem' = disk /\ catalog' = NoSnapshot /\ sample' = {}
  /\ late' = (late /\ disk.group.spec.id = spec0.id /\ disk.group.phase = group.phase)
  /\ aged' = (IF disk.group.spec.id = spec0.id THEN aged ELSE {})
  /\ cleaning' = {} /\ policy' = NoPolicy
  /\ UNCHANGED <<disk, faults, wire, commands, ingress, begun>>

Genesis == ActiveSnapshot(1, 1, GenesisBrokers)

\* BootstrapMembership of a group without membership: queues, save, publish.
BootstrapGenesis ==
  LET next == [mem EXCEPT !.membership = Genesis]
      Q == {1} \X GenesisBrokers
  IN /\ pc = "down" /\ mem.membership = NoSnapshot /\ group = NoGroup
     /\ Exact(Q, TRUE)
     /\ \/ /\ queues' = queues \cup Q /\ SetIngress(Q, TRUE)
           /\ \/ Saved(next) /\ wire' = wire \cup {Genesis} /\ catalog' = Genesis /\ pc' = "idle"
              \/ /\ Fault /\ UNCHANGED <<catalog, pc>>
                 /\ \/ UNCHANGED <<mem, disk, wire>>
                    \/ mem' = next /\ disk' = next /\ wire' \in {wire, wire \cup {Genesis}}
        \/ /\ Fault /\ UNCHANGED <<mem, disk, wire, catalog, pc>>
           /\ \E S \in SUBSET Q : queues' = queues \cup S /\ SetIngress(S, TRUE)
     /\ UNCHANGED <<late, aged, commands, sample, begun, crashes, workers>>

\* Open and BootstrapMembership accept the documents read from disk.
Loadable(ps) ==
  /\ ps.group = NoGroup \/ validateGroupState(ps.group)
  /\ ps.membership.phase # "ACTIVE" => ps.group # NoGroup
  /\ ps.membership.transition # NilTransition =>
       ps.membership.transition.id = ps.group.spec.id

InTransition(g) == g.spec.id # 0 /\ "Completed" \notin g.flags

\* EnsureBootstrap for the membership of a group that is not in transition.
CurrentIngress(m) == m.phase \in {"ACTIVE", "PREPARE"}

\* EnsureBootstrap for the source and the target of a transition: durable
\* intent is replayed, anything else must be found exactly as expected.
SourceReplayed(g) == g.flags \cap {"FenceAttempted", "Unfenced"} # {}
SourceIngress(g) == "Unfenced" \in g.flags \/ "FenceAttempted" \notin g.flags
SourceAccepted(g) == SourceReplayed(g) \/ Exact(SourceQueues(g), SourceIngress(g))
TargetIngress(g) == "TargetIngressEnabled" \in g.flags
TargetAccepted(g) == TargetIngress(g) \/ Exact(TargetQueues(g), FALSE)

ResumeIdle ==
  LET Q == CurrentQueues(mem.membership)
      on == CurrentIngress(mem.membership)
  IN /\ pc = "down" /\ mem.membership # NoSnapshot /\ Loadable(mem)
     /\ ~InTransition(group) /\ Exact(Q, on)
     /\ queues' = queues \cup Q /\ SetIngress(Q, on)
     /\ catalog' = mem.membership /\ pc' = "idle"
     /\ UNCHANGED <<store, late, aged, wire, commands, sample, begun, crashes, workers>>

ResumeTransition ==
  LET source == Switch(open, SourceQueues(group), SourceIngress(group))
  IN /\ pc = "down" /\ mem.membership # NoSnapshot /\ Loadable(mem)
     /\ InTransition(group) /\ SourceAccepted(group) /\ TargetAccepted(group)
     /\ queues' = queues \cup SourceQueues(group) \cup TargetQueues(group)
     /\ open' = Switch(source, TargetQueues(group), TargetIngress(group)) /\ Residue
     /\ catalog' = mem.membership /\ pc' = "idle"
     /\ UNCHANGED <<store, late, aged, wire, commands, sample, begun, crashes, workers>>

\* Bootstrap stops at an error after replaying part of the ingress.
ResumeFails ==
  /\ pc = "down" /\ mem.membership # NoSnapshot /\ Loadable(mem)
  /\ InTransition(group) /\ SourceAccepted(group)
  /\ \/ /\ Fault /\ SourceReplayed(group)
        /\ \E S \in SUBSET SourceQueues(group) : SetIngress(S, SourceIngress(group))
     \/ /\ Fault /\ TargetIngress(group)
        /\ \E S \in SUBSET TargetQueues(group) :
             open' = Switch(Switch(open, SourceQueues(group), SourceIngress(group)), S, TRUE)
        /\ Residue
     \/ /\ ~TargetAccepted(group) /\ UNCHANGED faults
        /\ SetIngress(SourceQueues(group), SourceIngress(group))
  /\ UNCHANGED <<mem, disk, pc, late, aged, broker0, queues, sample, begun, crashes, workers>>

Bootstrap == BootstrapGenesis \/ ResumeIdle \/ ResumeTransition \/ ResumeFails

-----------------------------------------------------------------------------

Init ==
  /\ mem = EmptyState /\ disk = EmptyState /\ pc = "down"
  /\ late = FALSE /\ aged = {}
  /\ catalog = NoSnapshot /\ wire = {} /\ commands = {}
  /\ queues = {} /\ open = {} /\ residue = {} /\ sample = {}
  /\ cleaning = {} /\ policy = NoPolicy
  /\ begun = 0 /\ crashes = 0 /\ faults = 0

Next ==
  \/ Reconcile
  \/ \E c \in commands : Acknowledge(c)
  \/ \E b \in Broker : MonitorRead(b)
  \/ Observe
  \/ RequestRollback \/ TimeoutRollback
  \/ DeadlinePasses
  \/ \E p \in Participant : ReadinessAges(p)
  \/ \E q \in residue : Consume(q)
  \/ StartCleanup \/ CleanupNext
  \/ \E proposed \in SUBSET Broker : Recommend(proposed)
  \/ PolicyCleanup \/ PolicyPrepare \/ Begin
  \/ Crash \/ Bootstrap

Spec == Init /\ [][Next]_vars

\* The first answer to a command of phase by p; the participant records it, so
\* nothing makes it answer the same command a second time.
FirstAnswer(phase, p) ==
  /\ p \notin group.acks[phase]
  /\ \E c \in commands : controllerPhase(c.phase) = phase /\ c.participant = p /\ Acknowledge(c)

\* runGroup retries Reconcile for ever and its clean-up calls return, a
\* supervisor restarts the process, the monitor polls every source in turn, and
\* participants and consumers answer.
Fairness ==
  /\ WF_vars(Reconcile) /\ WF_vars(TimeoutRollback) /\ WF_vars(CleanupNext)
  /\ WF_vars(Bootstrap) /\ WF_vars(Observe) /\ WF_vars(\E q \in residue : Consume(q))
  /\ \A b \in Broker : SF_vars(MonitorRead(b))
  /\ \A phase \in Phase, p \in Participant : WF_vars(FirstAnswer(phase, p))

FairSpec == Spec /\ Fairness

-----------------------------------------------------------------------------
(* Properties *)

Label == {"down", "idle", "membership", "publish", "record",
          "fence", "recordFence", "recordUnfence", "recordEnable"}

Command == [transition : Nat, epoch : Nat, phase : WirePhase, participant : Participant]

\* Type correctness of the whole state.
TypeOK ==
  /\ mem \in PersistentState /\ disk \in PersistentState
  /\ pc \in Label /\ late \in BOOLEAN /\ aged \subseteq Participant
  /\ catalog \in MembershipSnapshot /\ wire \subseteq MembershipSnapshot
  /\ commands \subseteq Command
  /\ queues \subseteq Nat \X Broker /\ open \subseteq Nat \X Broker /\ residue \subseteq Nat \X Broker
  /\ sample \subseteq [transition : Nat, broker : Broker, zero : BOOLEAN]
  /\ cleaning \subseteq Nat \X Broker
  /\ policy \in Recommendation
  /\ begun \in Nat /\ crashes \in Nat /\ faults \in Nat

\* The queues of two epochs never accept messages at the same time: the target
\* is opened only once every source queue is fenced for good, and a rollback
\* reopens the source only while the target is closed, whatever was fenced,
\* opened or replayed partially around a crash.
SingleOpenEpoch == \A q, r \in open : q[1] = r[1]

\* A membership that tells publishers to send (ACTIVE, and PREPARE which keeps
\* the source active) names only queues that accept messages.  mem is what the
\* snapshot server answers with, disk what it will after a crash.  Rollback
\* must unfence before it advertises ACTIVE (reconcileRollback), activation
\* must enable and verify the target first.
AdvertisedIngressOpen ==
  \A ps \in {mem, disk} :
    CurrentIngress(ps.membership) => CurrentQueues(ps.membership) \subseteq open

\* The same for the newest snapshot on Broker 0, which participants follow.
PublishedIngressOpen ==
  \A m \in wire : (\A n \in wire : n.revision <= m.revision) =>
    (CurrentIngress(m) => CurrentQueues(m) \subseteq open)

\* Once COMMIT is durable no source queue accepts or still holds a message:
\* nothing is left behind in the old epoch (fence, drain telemetry and
\* verification together).
CommittedIsDrained ==
  \A ps \in {mem, disk} : ps.group.phase \in {"COMMIT", "ACTIVATE"} =>
    SourceQueues(ps.group) \cap (open \cup residue) = {}

\* Each published snapshot is a valid advance over the one published before it,
\* so no participant that follows the update topic ever meets a regression or
\* a conflict (validateAdvance), across rollbacks, retries and restarts.
WireAdvances ==
  \A m, n \in wire :
    /\ m.revision = n.revision => m = n
    /\ (m.revision < n.revision /\ ~\E k \in wire : m.revision < k.revision /\ k.revision < n.revision)
         => m.epoch <= n.epoch /\ validateAdvance(m, n)

\* A snapshot is published only after it is durable: a restarted controller
\* never serves an older membership than one it published.
WireIsDurable ==
  \A m \in wire : /\ m.revision <= disk.membership.revision
                  /\ m.revision = disk.membership.revision => m = disk.membership

\* Any state document that can be on disk is accepted at the next start: Open
\* validates it and EnsureBootstrap finds the source queues as it expects.  The
\* checks of the recorded telemetry are not among those modelled.
RestartAccepted ==
  /\ disk.membership # NoSnapshot => Loadable(disk)
  /\ disk.membership # NoSnapshot /\ ~InTransition(disk.group) =>
       Exact(CurrentQueues(disk.membership), CurrentIngress(disk.membership))
  /\ InTransition(disk.group) => SourceAccepted(disk.group)

\* An acknowledgement counts only for a command of this very transition and
\* phase that was published, never one left over from an earlier transition
\* to the same epoch.
AcknowledgedCommands ==
  \A phase \in Phase : \A p \in group.acks[phase] :
    [transition |-> spec0.id, epoch |-> ToEpoch(spec0), phase |-> commandPhases(phase),
     participant |-> p] \in commands

CommitKept ==
  group.phase \in {"COMMIT", "ACTIVATE"} /\ mem'.group.spec.id = spec0.id =>
    /\ mem'.group.phase \in {group.phase, "ACTIVATE"}
    /\ "RollingBack" \notin mem'.group.flags

\* A transition the controller has seen reach COMMIT is never rolled back or
\* taken back to an earlier phase, not even by a crash after a failed save.
CommitIsFinal == [][CommitKept]_vars

DurableCommitKept ==
  disk.group.phase \in {"COMMIT", "ACTIVATE"} /\ disk'.group.spec.id = disk.group.spec.id =>
    "RollingBack" \notin disk'.group.flags

\* A transition whose COMMIT the state document holds is never rolled back: the
\* point of no return is the durable COMMIT, whether or not the save that wrote
\* it was reported to have succeeded.
DurableCommitIsFinal == [][DurableCommitKept]_vars

\* No document names the queue.
Unnamed(q, ps) ==
  /\ q \notin CurrentQueues(ps.membership) \cup ProposedQueues(ps.membership)
  /\ InTransition(ps.group) => q \notin SourceQueues(ps.group) \cup TargetQueues(ps.group)

DeletedIsDone ==
  \A q \in queues \ queues' :
    /\ q \notin open \cup residue /\ Unnamed(q, mem') /\ Unnamed(q, disk')
    /\ policy'.spec.id # 0 =>
         q \notin TargetQueues(policy') \cup SourceQueues(policy')

\* Deleting an old epoch loses nothing.  Both clean-ups go on from a copy of the
\* state while Begin, acknowledgements and new recommendations change it, and
\* each runs while the other may be half way; still a deleted queue accepted and
\* held no message, no state document names it, and neither does the transition
\* whose queues are being prepared.
CleanupLosesNothing == [][DeletedIsDone]_vars

\* A crash between enabling the target ingress and recording it leaves queues
\* that EnsureBootstrap expects closed: the restart is refused, every time.
Stranded == pc = "down" /\ InTransition(group) /\ ~TargetAccepted(group)

\* No crash strands the controller: unfinished actions replay after a restart.
NeverStranded == ~Stranded

\* An answer to DRAIN has grown too old for COMMIT: Reconcile waits for a newer
\* one, but the command it answers is never published again.
Unready == InTransition(group) /\ group.phase = "DRAIN" /\ aged # {}

\* While no deadline passes, every transition ends, through any crashes and
\* failures: lost publications, saves and fences are all made up for.  Only a
\* stranded restart, or DRAIN answers that are outdated again and again (or for
\* good), leave it waiting.
TransitionEnds ==
  InTransition(group) ~> (~InTransition(group) \/ Stranded \/ []<>Unready)

\* A requested rollback runs to its end: the source is open and ACTIVE again.
RollbackEnds == Is("RollingBack") ~> (Is("RollbackPublished") /\ Is("Completed"))

\* A transition whose PREPARE deadline passes before anything of it was saved
\* or published is rolled back by the reconcile loop.
UnpublishedTimeoutRollsBack ==
  (late /\ pc = "idle" /\ InTransition(group) /\ disk.membership.phase = "ACTIVE")
    ~> Is("RollingBack")

\* The same for every expired pre-commit transition.
TimeoutRollsBack ==
  (late /\ InTransition(group) /\ group.phase \notin {"COMMIT", "ACTIVATE"}) ~> Is("RollingBack")

=============================================================================
