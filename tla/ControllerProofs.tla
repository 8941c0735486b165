-------------------------- MODULE ControllerProofs --------------------------
(***************************************************************************)
(* Proofs about Controller for every set of brokers and participants and   *)
(* for every bound: type correctness first, then the inductive invariant   *)
(* of ControllerInv and what follows from it.                              *)
(***************************************************************************)
EXTENDS ControllerInv, TLAPS

-----------------------------------------------------------------------------
(* Types *)

\* The requirements of a phase are participants of the group.
LEMMA RequirementsType ==
  ASSUME NEW phase \in Phase
  PROVE  Requirements(phase) \subseteq Participant
BY DEF Phase, Requirements, Participant

\* What publish() advertises is a snapshot.
LEMMA ControlSnapshotType ==
  ASSUME NEW spec \in TransitionSpec, NEW phase \in Phase, NEW rollback \in BOOLEAN
  PROVE  controlSnapshot(spec, phase, rollback) \in MembershipSnapshot
<1>1. CASE rollback
  BY <1>1 DEF controlSnapshot, RollbackSnapshot, ActiveSnapshot, MembershipSnapshot,
       TransitionSpec, WirePhase, Transition, NilTransition
<1>2. CASE ~rollback
  BY <1>2 DEF controlSnapshot, ProposalSnapshot, CommittedSnapshot, ActiveSnapshot, Phase,
       MembershipSnapshot, TransitionSpec, TransitionOf, ToEpoch, WirePhase, Transition, NilTransition
<1> QED BY <1>1, <1>2

\* Genesis, and the group Begin creates, are well typed.
LEMMA FreshTypes ==
  /\ Genesis \in MembershipSnapshot /\ NoSnapshot \in MembershipSnapshot
  /\ \A spec \in TransitionSpec : Created(spec) \in GroupState
  /\ NoGroup \in GroupState
<1>1. Genesis \in MembershipSnapshot /\ NoSnapshot \in MembershipSnapshot
  BY GenesisAssumption DEF Genesis, NoSnapshot, ActiveSnapshot, MembershipSnapshot, WirePhase, Transition, NilTransition
<1>2. \A spec \in TransitionSpec : Created(spec) \in GroupState
  BY DEF Created, GroupState, Phase, Flag
<1>3. NoGroup \in GroupState
  BY DEF Created, NoGroup, GroupState, Phase, Flag, TransitionSpec
<1> QED BY <1>1, <1>2, <1>3

\* Saving a well-typed document, whatever the outcome, keeps both documents
\* and the fault counter well typed.
LEMMA SaveType ==
  ASSUME TypeOK, NEW next \in PersistentState, Saved(next) \/ SaveFailed(next)
  PROVE  mem' \in PersistentState /\ disk' \in PersistentState /\ faults' \in Nat
BY DEF TypeOK, Saved, SaveFailed, Fault

LEMMA UpdateGroupType ==
  ASSUME TypeOK, NEW g \in GroupState, NEW then \in Label, updateGroup(g, then)
  PROVE  mem' \in PersistentState /\ disk' \in PersistentState /\ faults' \in Nat /\ pc' \in Label
<1>1. [mem EXCEPT !.group = g] \in PersistentState
  BY DEF TypeOK, PersistentState
<1>2. pc' \in Label /\ (Saved([mem EXCEPT !.group = g]) \/ SaveFailed([mem EXCEPT !.group = g]))
  BY DEF updateGroup, Label
<1> QED BY <1>1, <1>2, SaveType

LEMMA SetFlagType ==
  ASSUME TypeOK, NEW flag \in Flag, NEW then \in Label, SetFlag(flag, then)
  PROVE  mem' \in PersistentState /\ disk' \in PersistentState /\ faults' \in Nat /\ pc' \in Label
<1>1. [group EXCEPT !.flags = @ \cup {flag}] \in GroupState
  BY DEF TypeOK, PersistentState, group, GroupState
<1> QED BY <1>1, UpdateGroupType DEF SetFlag

LEMMA EnterPhaseType ==
  ASSUME TypeOK, NEW phase \in Phase, NEW extra \in SUBSET Flag, enterPhase(phase, extra)
  PROVE  /\ mem' \in PersistentState /\ disk' \in PersistentState /\ faults' \in Nat
         /\ pc' \in Label /\ late' \in BOOLEAN
<1> DEFINE next == [mem EXCEPT !.group.phase = phase, !.group.flags = @ \cup extra]
<1>1. next \in PersistentState
  BY DEF TypeOK, PersistentState, GroupState
<1>2. pc' \in Label /\ late' \in BOOLEAN /\ (Saved(next) \/ SaveFailed(next))
  BY DEF enterPhase, Label, TypeOK
<1> QED BY <1>1, <1>2, SaveType

\* Queues stay pairs of an epoch and a broker.
LEMMA QueueTypes ==
  ASSUME NEW ps \in PersistentState
  PROVE  /\ SourceQueues(ps.group) \subseteq Nat \X Broker
         /\ TargetQueues(ps.group) \subseteq Nat \X Broker
         /\ CurrentQueues(ps.membership) \subseteq Nat \X Broker
BY DEF PersistentState, GroupState, MembershipSnapshot, TransitionSpec, SourceQueues, TargetQueues,
     CurrentQueues, ToEpoch

LEMMA SetIngressType ==
  ASSUME TypeOK, NEW Q, Q \subseteq Nat \X Broker, NEW on \in BOOLEAN, SetIngress(Q, on)
  PROVE  open' \subseteq Nat \X Broker /\ residue' \subseteq Nat \X Broker
BY DEF TypeOK, SetIngress, Switch, Residue

LEMMA ChangeType ==
  ASSUME TypeOK, NEW Q, Q \subseteq Nat \X Broker, NEW on \in BOOLEAN, NEW then \in Label,
         Change(Q, on, then)
  PROVE  /\ open' \subseteq Nat \X Broker /\ residue' \subseteq Nat \X Broker
         /\ pc' \in Label /\ faults' \in Nat
<1>1. pc' \in Label /\ faults' \in Nat
  BY DEF Change, Fault, TypeOK, Label
<1>2. PICK S : S \subseteq Q /\ SetIngress(S, on)
  BY DEF Change
<1> QED BY <1>1, <1>2, SetIngressType

\* The phase of a command is a wire phase.
LEMMA CommandPhaseType ==
  ASSUME NEW phase \in Phase
  PROVE  commandPhases(phase) \in WirePhase
BY DEF Phase, WirePhase, commandPhases

\* A document has one type; so have the advertised snapshot and its commands.
LEMMA AdvertisedType ==
  ASSUME TypeOK
  PROVE  /\ Advertised \in MembershipSnapshot /\ CommandsOf \subseteq Command
         /\ [mem EXCEPT !.membership = Advertised] \in PersistentState
<1>1. spec0 \in TransitionSpec /\ PublishedPhase \in Phase /\ Is("RollingBack") \in BOOLEAN
  BY DEF TypeOK, PersistentState, GroupState, spec0, group, PublishedPhase, Phase, Is
<1>2. Advertised \in MembershipSnapshot
  BY <1>1, ControlSnapshotType DEF Advertised
<1>3. CommandsOf \subseteq Command
  BY <1>1, RequirementsType, CommandPhaseType DEF CommandsOf, Command, TransitionSpec, ToEpoch
<1>4. [mem EXCEPT !.membership = Advertised] \in PersistentState
  BY <1>2 DEF TypeOK, PersistentState
<1> QED BY <1>2, <1>3, <1>4

\* Every step of Reconcile keeps the types.
LEMMA ReconcileType == TypeOK /\ Reconcile => TypeOK'
<1> SUFFICES ASSUME TypeOK, Reconcile PROVE TypeOK'
  OBVIOUS
<1> USE DEF store, broker0, ingress, workers
<1>g. /\ mem.group \in GroupState /\ group = mem.group /\ mem \in PersistentState
  BY DEF TypeOK, PersistentState, group
<1>q. SourceQueues(group) \subseteq Nat \X Broker /\ TargetQueues(group) \subseteq Nat \X Broker
  BY <1>g, QueueTypes
<1>f. /\ "RollbackPublished" \in Flag /\ "FenceAttempted" \in Flag /\ "Fenced" \in Flag
      /\ "TargetIngressEnabled" \in Flag /\ "TargetIngressVerified" \in Flag
      /\ "Unfenced" \in Flag /\ "Completed" \in Flag
      /\ {"FenceVerified", "CleanupRecorded"} \in SUBSET Flag /\ {} \in SUBSET Flag
      /\ "idle" \in Label /\ "fence" \in Label /\ "membership" \in Label /\ "recordFence" \in Label
      /\ "recordEnable" \in Label /\ "recordUnfence" \in Label
      /\ "PAUSE" \in Phase /\ "DRAIN" \in Phase /\ "COMMIT" \in Phase /\ "ACTIVATE" \in Phase
  BY DEF Flag, Label, Phase
<1>1. CASE EnsureCommandIntent
  <2>1. PICK phase \in Phase :
          \/ pc' = "membership" /\ UNCHANGED store
          \/ updateGroup([group EXCEPT !.issued = @ \cup {phase}], "membership")
    BY <1>1 DEF EnsureCommandIntent
  <2>2. [group EXCEPT !.issued = @ \cup {phase}] \in GroupState
    BY <1>g DEF GroupState
  <2>3. mem' \in PersistentState /\ disk' \in PersistentState /\ faults' \in Nat /\ pc' \in Label
    BY <2>1, <2>2, <1>f, UpdateGroupType DEF TypeOK
  <2> QED BY <2>3, <1>1 DEF EnsureCommandIntent, TypeOK
<1>2. CASE SaveMembership
  <2>1. mem' \in PersistentState /\ disk' \in PersistentState /\ faults' \in Nat
    BY <1>2, AdvertisedType, SaveType DEF SaveMembership, TypeOK
  <2>2. pc' \in Label
    BY <1>2 DEF SaveMembership, Label
  <2> QED BY <2>1, <2>2, <1>2 DEF SaveMembership, TypeOK
<1>3. CASE Publish
  BY <1>3, AdvertisedType DEF Publish, TypeOK, Label, Fault
<1>4. CASE RecordPublished
  <2>1. [group EXCEPT !.published = @ \cup {group.phase},
            !.flags = IF group.phase = "COMMIT"
                      THEN @ \cup {"FenceAttempted", "Fenced", "FenceVerified"} ELSE @] \in GroupState
    BY <1>g DEF GroupState, Flag
  <2>2. mem' \in PersistentState /\ disk' \in PersistentState /\ faults' \in Nat /\ pc' \in Label
    BY <2>1, <1>4, <1>f, SetFlagType, UpdateGroupType DEF RecordPublished
  <2> QED BY <2>2, <1>4 DEF RecordPublished, TypeOK
<1>5. CASE AdvanceToPause \/ AdvanceToDrain \/ AdvanceToCommit \/ AdvanceToActivate
  <2>1. /\ mem' \in PersistentState /\ disk' \in PersistentState /\ faults' \in Nat
        /\ pc' \in Label /\ late' \in BOOLEAN
    BY <1>5, <1>f, EnterPhaseType DEF AdvanceToPause, AdvanceToDrain, AdvanceToCommit, AdvanceToActivate
  <2> QED BY <2>1, <1>5 DEF AdvanceToPause, AdvanceToDrain, AdvanceToCommit, AdvanceToActivate, TypeOK
<1>6. CASE \/ PersistFenceAttempt \/ RecordFenced \/ RecordEnabled \/ RecordVerified
           \/ RecordUnfenced \/ Complete
  <2>1. mem' \in PersistentState /\ disk' \in PersistentState /\ faults' \in Nat /\ pc' \in Label
    BY <1>6, <1>f, SetFlagType DEF PersistFenceAttempt, RecordFenced, RecordEnabled, RecordVerified,
         RecordUnfenced, Complete
  <2> QED BY <2>1, <1>6 DEF PersistFenceAttempt, RecordFenced, RecordEnabled, RecordVerified,
               RecordUnfenced, Complete, TypeOK
<1>7. CASE Fence \/ EnableIngress \/ Unfence
  <2>1. /\ open' \subseteq Nat \X Broker /\ residue' \subseteq Nat \X Broker
        /\ pc' \in Label /\ faults' \in Nat
    BY <1>7, <1>f, <1>q, ChangeType DEF Fence, EnableIngress, Unfence
  <2> QED BY <2>1, <1>7 DEF Fence, EnableIngress, Unfence, TypeOK
<1>8. CASE PublishCommit \/ PublishRollback
  BY <1>8, <1>f DEF PublishCommit, PublishRollback, TypeOK
<1> QED BY <1>1, <1>2, <1>3, <1>4, <1>5, <1>6, <1>7, <1>8 DEF Reconcile

\* A caller outside Reconcile that updates the group keeps the types.
LEMMA UpdateType ==
  ASSUME TypeOK, NEW g \in GroupState, Update(g)
  PROVE  mem' \in PersistentState /\ disk' \in PersistentState /\ faults' \in Nat /\ pc' \in Label
<1>1. [mem EXCEPT !.group = g] \in PersistentState
  BY DEF TypeOK, PersistentState
<1> QED BY <1>1, SaveType DEF Update, TypeOK

\* So do the other handlers.
LEMMA HandlerType ==
  ASSUME TypeOK,
         \/ \E c \in commands : Acknowledge(c)
         \/ \E b \in Broker : MonitorRead(b)
         \/ Observe \/ RequestRollback \/ TimeoutRollback \/ DeadlinePasses
         \/ \E q \in residue : Consume(q)
         \/ \E p \in Participant : ReadinessAges(p)
  PROVE  TypeOK'
<1> USE DEF store, broker0, ingress, workers
<1>g. mem.group \in GroupState /\ group = mem.group
  BY DEF TypeOK, PersistentState, group
<1>1. ASSUME NEW c \in commands, Acknowledge(c) PROVE TypeOK'
  <2> DEFINE phase == controllerPhase(c.phase)
             next == [mem EXCEPT !.group.acks[phase] = @ \cup {c.participant}]
  <2>1. phase \in Phase /\ c.participant \in Participant /\ RecordAnswer(phase, c.participant)
    BY <1>1, <1>g DEF Acknowledge, TypeOK, Command, GroupState
  <2> HIDE DEF phase
  <2>2. next \in PersistentState
    BY <2>1 DEF TypeOK, PersistentState, GroupState
  <2>3. Saved(next) \/ SaveFailed(next)
    BY <2>1 DEF RecordAnswer
  <2>4. aged' \subseteq Participant
    <3>1. aged' \subseteq aged
      BY <2>1 DEF RecordAnswer
    <3> QED BY <3>1 DEF TypeOK
  <2>5. mem' \in PersistentState /\ disk' \in PersistentState /\ faults' \in Nat
    BY <2>2, <2>3, SaveType
  <2> QED BY <2>1, <2>4, <2>5 DEF RecordAnswer, TypeOK
<1>2. ASSUME NEW b \in Broker, MonitorRead(b) PROVE TypeOK'
  BY <1>2, <1>g DEF MonitorRead, TypeOK, Fault, spec0, GroupState, TransitionSpec
<1>3. CASE Observe
  <2>1. PICK s \in sample :
          \/ Update([group EXCEPT !.drained = IF s.zero THEN @ \cup {s.broker} ELSE @ \ {s.broker}])
          \/ UNCHANGED <<store, pc>>
    BY <1>3 DEF Observe
  <2>2. [group EXCEPT !.drained = IF s.zero THEN @ \cup {s.broker} ELSE @ \ {s.broker}] \in GroupState
    BY <1>g DEF GroupState, TypeOK
  <2>3. mem' \in PersistentState /\ disk' \in PersistentState /\ faults' \in Nat /\ pc' \in Label
    BY <2>1, <2>2, UpdateType DEF TypeOK
  <2> QED BY <2>3, <1>3 DEF Observe, TypeOK
<1>4. CASE RequestRollback \/ TimeoutRollback
  <2>1. requestRollback
    BY <1>4 DEF RequestRollback, TimeoutRollback
  <2>2. [group EXCEPT !.flags = @ \cup {"RollingBack"}] \in GroupState
    BY <1>g DEF GroupState, Flag
  <2>3. mem' \in PersistentState /\ disk' \in PersistentState /\ faults' \in Nat /\ pc' \in Label
    BY <2>1, <2>2, UpdateType DEF requestRollback
  <2> QED BY <2>3, <2>1 DEF requestRollback, TypeOK
<1>5. CASE DeadlinePasses
  BY <1>5 DEF DeadlinePasses, TypeOK
<1>6. ASSUME NEW q \in residue, Consume(q) PROVE TypeOK'
  BY <1>6 DEF Consume, TypeOK
<1>7. ASSUME NEW p \in Participant, ReadinessAges(p) PROVE TypeOK'
  BY <1>7 DEF ReadinessAges, TypeOK
<1> QED BY <1>1, <1>2, <1>3, <1>4, <1>5, <1>6, <1>7

\* The specification of a recommendation is well typed.
LEMMA NextSpecType ==
  ASSUME TypeOK, NEW proposed \in SUBSET Broker
  PROVE  NextSpec(proposed) \in TransitionSpec
<1>1. catalog \in MembershipSnapshot /\ begun \in Nat
  BY DEF TypeOK
<1>2. catalog.revision \in Nat /\ catalog.epoch \in Nat /\ catalog.current \in SUBSET Broker
  BY <1>1 DEF MembershipSnapshot
<1>3. begun + 1 \in Nat /\ catalog.revision + 1 \in Nat
  BY <1>1, <1>2
<1> QED BY <1>2, <1>3 DEF NextSpec, TransitionSpec

\* So is the recommendation that is not there.
LEMMA NoPolicyType == NoPolicy \in Recommendation
<1>1. NoGroup.spec \in TransitionSpec
  BY FreshTypes DEF GroupState
<1> QED BY <1>1 DEF NoPolicy, Recommendation

\* Cleaning up, applying a recommendation and beginning a transition keep the
\* types.
LEMMA WorkerType ==
  ASSUME TypeOK,
         \/ StartCleanup \/ CleanupNext \/ PolicyCleanup \/ PolicyPrepare \/ Begin
         \/ \E proposed \in SUBSET Broker : Recommend(proposed)
  PROVE  TypeOK'
<1> USE DEF store, broker0, ingress, workers
<1>p. policy \in Recommendation
  BY DEF TypeOK, Recommendation
<1>c. Cleanable(group) \subseteq Nat \X Broker
  <2>1. SourceQueues(mem.group) \subseteq Nat \X Broker
    BY QueueTypes DEF TypeOK
  <2> QED BY <2>1 DEF Cleanable, group
<1>1. CASE StartCleanup
  BY <1>1, <1>c DEF StartCleanup, TypeOK
<1>2. CASE CleanupNext
  BY <1>2 DEF CleanupNext, Delete, Fault, TypeOK
<1>3. CASE PolicyCleanup
  <2>1. PICK q \in policy.old :
          /\ Delete(q) \/ UNCHANGED ingress
          /\ policy' = [policy EXCEPT !.old = @ \ {q}] \/ policy' = NoPolicy
          /\ UNCHANGED faults \/ Fault
    BY <1>3 DEF PolicyCleanup
  <2>2. policy' \in Recommendation
    BY <2>1, <1>p, NoPolicyType DEF Recommendation
  <2>3. queues' \subseteq queues /\ open' \subseteq open /\ residue' \subseteq residue
    BY <2>1 DEF Delete
  <2>4. faults' \in Nat
    BY <2>1 DEF Fault, TypeOK
  <2> QED BY <2>2, <2>3, <2>4, <1>3 DEF PolicyCleanup, TypeOK, Recommendation
<1>4. CASE PolicyPrepare
  <2>1. PICK q \in policy.new :
          /\ Create(q) \/ UNCHANGED ingress
          /\ policy' = [policy EXCEPT !.new = @ \ {q}] \/ policy' = NoPolicy
          /\ UNCHANGED faults \/ Fault
    BY <1>4 DEF PolicyPrepare
  <2>2. policy' \in Recommendation
    BY <2>1, <1>p, NoPolicyType DEF Recommendation
  <2>3. queues' \subseteq queues \cup {q} /\ q \in Nat \X Broker /\ open' = open /\ residue' = residue
    BY <2>1, <1>p DEF Create, Recommendation
  <2>4. faults' \in Nat
    BY <2>1 DEF Fault, TypeOK
  <2> QED BY <2>2, <2>3, <2>4, <1>4 DEF PolicyPrepare, TypeOK, Recommendation
<1>5. CASE Begin
  <2> DEFINE next == [mem EXCEPT !.group = Created(policy.spec)]
  <2>1. next \in PersistentState
    BY <1>p, FreshTypes DEF TypeOK, PersistentState, Recommendation
  <2>2. Saved(next) \/ SaveFailed(next)
    BY <1>5 DEF Begin
  <2>3. late' \in BOOLEAN
    BY <1>5, Zenon DEF Begin, TypeOK
  <2>3a. aged' \subseteq Participant
    BY <1>5 DEF Begin, TypeOK
  <2> HIDE DEF next
  <2>4. mem' \in PersistentState /\ disk' \in PersistentState /\ faults' \in Nat
    BY <2>1, <2>2, SaveType
  <2>5. begun' \in Nat /\ policy' \in Recommendation
    BY <1>5, NoPolicyType DEF Begin, TypeOK
  <2> QED BY <2>3, <2>3a, <2>4, <2>5, <1>5 DEF Begin, TypeOK, Recommendation
<1>6. ASSUME NEW proposed \in SUBSET Broker, Recommend(proposed) PROVE TypeOK'
  <2>1. NextSpec(proposed) \in TransitionSpec
    BY NextSpecType
  <2>2. {ToEpoch(NextSpec(proposed))} \X proposed \subseteq Nat \X Broker
    BY <2>1 DEF ToEpoch, TransitionSpec
  <2>3. policy' \in Recommendation
    BY <2>1, <2>2, <1>c, <1>6 DEF Recommend, Recommendation
  <2> QED BY <2>3, <1>6 DEF Recommend, TypeOK, Recommendation
<1> QED BY <1>1, <1>2, <1>3, <1>4, <1>5, <1>6

\* Crashing and restarting keep the types.
LEMMA RestartType == ASSUME TypeOK, Crash \/ Bootstrap PROVE TypeOK'
<1> USE DEF store, broker0, ingress, workers
<1>g. /\ mem \in PersistentState /\ mem.group \in GroupState /\ group = mem.group
      /\ mem.membership \in MembershipSnapshot
  BY DEF TypeOK, PersistentState, group
<1>q. /\ SourceQueues(group) \subseteq Nat \X Broker /\ TargetQueues(group) \subseteq Nat \X Broker
      /\ CurrentQueues(mem.membership) \subseteq Nat \X Broker
  BY <1>g, QueueTypes
<1>1. CASE Crash
  <2>1. policy' = NoPolicy /\ cleaning' = {} /\ aged' \subseteq aged
    BY <1>1 DEF Crash
  <2> QED BY <2>1, <1>1, FreshTypes, NoPolicyType DEF Crash, TypeOK, Label, Recommendation
<1>2. CASE BootstrapGenesis
  <2> DEFINE next == [mem EXCEPT !.membership = Genesis]
             Q == {1} \X GenesisBrokers
  <2>1. next \in PersistentState
    BY <1>g, FreshTypes DEF PersistentState
  <2>2. Q \subseteq Nat \X Broker
    BY GenesisAssumption
  <2> HIDE DEF next, Q
  <2>3. \E S : S \subseteq Q /\ SetIngress(S, TRUE) /\ queues' = queues \cup S
    BY <1>2 DEF BootstrapGenesis, Q
  <2>4. /\ queues' \subseteq Nat \X Broker /\ open' \subseteq Nat \X Broker
        /\ residue' \subseteq Nat \X Broker
    BY <2>2, <2>3, SetIngressType DEF TypeOK
  <2>5. /\ mem' \in {mem, next} /\ disk' \in {disk, next} /\ (Fault \/ UNCHANGED faults)
        /\ pc' \in {pc, "idle"} /\ wire' \subseteq wire \cup {Genesis} /\ catalog' \in {catalog, Genesis}
    BY <1>2 DEF BootstrapGenesis, Saved, next
  <2>6. /\ mem' \in PersistentState /\ disk' \in PersistentState /\ faults' \in Nat
        /\ pc' \in Label /\ wire' \subseteq MembershipSnapshot /\ catalog' \in MembershipSnapshot
    BY <2>5, <2>1, FreshTypes DEF Fault, TypeOK, Label
  <2> QED BY <2>4, <2>6, <1>2 DEF BootstrapGenesis, TypeOK
<1>3. CASE ResumeIdle
  <2>1. CurrentIngress(mem.membership) \in BOOLEAN
    BY DEF CurrentIngress
  <2>2. open' \subseteq Nat \X Broker /\ residue' \subseteq Nat \X Broker
    BY <1>3, <1>q, <2>1, SetIngressType DEF ResumeIdle
  <2> QED BY <2>2, <1>3, <1>g, <1>q DEF ResumeIdle, TypeOK, Label
<1>4. CASE ResumeTransition
  <2>1. open' \subseteq Nat \X Broker /\ residue' \subseteq Nat \X Broker
    BY <1>4, <1>q DEF ResumeTransition, Switch, Residue, TypeOK
  <2> QED BY <2>1, <1>4, <1>g, <1>q DEF ResumeTransition, TypeOK, Label
<1>5. CASE ResumeFails
  <2>1. SourceIngress(group) \in BOOLEAN
    BY DEF SourceIngress
  <2>2. open' \subseteq Nat \X Broker /\ residue' \subseteq Nat \X Broker
    BY <1>5, <1>q, <2>1 DEF ResumeFails, SetIngress, Switch, Residue, TypeOK
  <2>3. faults' \in Nat
    <3>1. Fault \/ UNCHANGED faults
      BY <1>5 DEF ResumeFails
    <3> QED BY <3>1 DEF Fault, TypeOK
  <2> QED BY <2>2, <2>3, <1>5 DEF ResumeFails, TypeOK
<1> QED BY <1>1, <1>2, <1>3, <1>4, <1>5 DEF Bootstrap

LEMMA InitType == Init => TypeOK
<1> SUFFICES ASSUME Init PROVE TypeOK
  OBVIOUS
<1>0. EmptyState \in PersistentState
  BY FreshTypes DEF EmptyState, PersistentState
<1>1. late \in BOOLEAN
  BY Zenon DEF Init
<1>2. /\ mem = EmptyState /\ disk = EmptyState /\ pc \in Label
      /\ catalog = NoSnapshot /\ wire = {} /\ commands = {}
      /\ queues = {} /\ open = {} /\ residue = {} /\ sample = {}
      /\ aged = {} /\ cleaning = {} /\ policy = NoPolicy
      /\ begun = 0 /\ crashes = 0 /\ faults = 0
  BY DEF Init, Label
<1> QED BY <1>0, <1>1, <1>2, FreshTypes, NoPolicyType DEF TypeOK, Recommendation

\* Every reachable state of the controller, its store, Broker 0 and the queues
\* is well typed.
THEOREM TypeCorrect == Spec => []TypeOK
<1>2. TypeOK /\ [Next]_vars => TypeOK'
  <2> SUFFICES ASSUME TypeOK, [Next]_vars PROVE TypeOK'
    OBVIOUS
  <2>1. CASE UNCHANGED vars
    BY <2>1 DEF vars, TypeOK
  <2>2. CASE Next
    BY <2>2, ReconcileType, HandlerType, WorkerType, RestartType DEF Next
  <2> QED BY <2>1, <2>2
<1> QED BY InitType, <1>2, PTL DEF Spec

=============================================================================
