----------------------------- MODULE Snapshots -----------------------------
(***************************************************************************)
(* The data the controller publishes: transition specifications            *)
(* (controller/types.go), membership snapshots (control/snapshot.go), the  *)
(* snapshot each transition phase advertises (controller.go), the one the  *)
(* timeout rollback expects to find (runtime/production.go), and the order *)
(* in which a participant accepts snapshots (control/reconciler.go).       *)
(*                                                                         *)
(* One scaling group.  A membership is the set of its brokers: the broker  *)
(* order only matters to routing.  The per-epoch queues a snapshot lists   *)
(* (EpochResourceIdentity) are a function of the epoch and the membership, *)
(* so they are compared through those two.  Namespace, library version,    *)
(* hash contract, algorithm and destination never change within a group.   *)
(***************************************************************************)
EXTENDS Naturals

CONSTANT Broker          \* the data brokers of the inventory

Phase == {"PREPARE", "PAUSE", "DRAIN", "COMMIT", "ACTIVATE"}

WirePhase == {"NONE", "ACTIVE", "PREPARE", "PAUSED", "DRAIN", "COMMITTED"}

TransitionSpec ==
  [id : Nat, revision : Nat, fromEpoch : Nat,
   current : SUBSET Broker, proposed : SUBSET Broker]

ToEpoch(spec) == spec.fromEpoch + 1

\* control.Transition; the nil pointer is the record of zeros.
Transition == [id : Nat, fromEpoch : Nat, toEpoch : Nat]

NilTransition == [id |-> 0, fromEpoch |-> 0, toEpoch |-> 0]

TransitionOf(spec) ==
  [id |-> spec.id, fromEpoch |-> spec.fromEpoch, toEpoch |-> ToEpoch(spec)]

\* currentBrokers and proposedBrokers are the brokers that have a descriptor
\* (id and AMQP endpoint) in the snapshot.
MembershipSnapshot ==
  [revision : Nat, epoch : Nat, phase : WirePhase,
   current : SUBSET Broker, proposed : SUBSET Broker,
   currentBrokers : SUBSET Broker, proposedBrokers : SUBSET Broker,
   transition : Transition]

NoSnapshot ==
  [revision |-> 0, epoch |-> 0, phase |-> "NONE", current |-> {}, proposed |-> {},
   currentBrokers |-> {}, proposedBrokers |-> {}, transition |-> NilTransition]

\* An ACTIVE snapshot: one membership, no transition.
ActiveSnapshot(revision, epoch, brokers) ==
  [revision |-> revision, epoch |-> epoch, phase |-> "ACTIVE",
   current |-> brokers, proposed |-> {},
   currentBrokers |-> brokers, proposedBrokers |-> {},
   transition |-> NilTransition]

\* A PREPARE, PAUSED or DRAIN snapshot: the source epoch with its proposal.
ProposalSnapshot(spec, offset, phase) ==
  [revision |-> spec.revision + offset, epoch |-> spec.fromEpoch, phase |-> phase,
   current |-> spec.current, proposed |-> spec.proposed,
   currentBrokers |-> spec.current, proposedBrokers |-> spec.proposed,
   transition |-> TransitionOf(spec)]

CommittedSnapshot(spec) ==
  [revision |-> spec.revision + 3, epoch |-> ToEpoch(spec), phase |-> "COMMITTED",
   current |-> spec.proposed, proposed |-> {},
   currentBrokers |-> spec.proposed, proposedBrokers |-> {},
   transition |-> TransitionOf(spec)]

\* Mutant of RollbackSnapshot: the rollback advertises the target epoch.
RollbackToTarget(spec) ==
  ActiveSnapshot(spec.revision + 5, ToEpoch(spec), spec.current)

RollbackSnapshot(spec) ==
  ActiveSnapshot(spec.revision + 5, spec.fromEpoch, spec.current)

\* What publish() advertises for a phase of the transition.
controlSnapshot(spec, phase, rollback) ==
  CASE rollback           -> RollbackSnapshot(spec)
    [] ~rollback /\ phase = "PREPARE"  -> ProposalSnapshot(spec, 0, "PREPARE")
    [] ~rollback /\ phase = "PAUSE"    -> ProposalSnapshot(spec, 1, "PAUSED")
    [] ~rollback /\ phase = "DRAIN"    -> ProposalSnapshot(spec, 2, "DRAIN")
    [] ~rollback /\ phase = "COMMIT"   -> CommittedSnapshot(spec)
    [] ~rollback /\ phase = "ACTIVATE" ->
         ActiveSnapshot(spec.revision + 4, ToEpoch(spec), spec.proposed)

\* Mutant of sourceActiveSnapshot: the revision of the transition itself.
sourceSameRevision(spec) ==
  ActiveSnapshot(spec.revision, spec.fromEpoch, spec.current)

\* The ACTIVE snapshot the transition started from.
sourceActiveSnapshot(spec) ==
  ActiveSnapshot(spec.revision - 1, spec.fromEpoch, spec.current)

\* The snapshot requestSafeTimeoutRollback wants the catalog to hold, for a
\* pre-commit transition in the given phase whose published phases are given.
\* The proposal form carries no broker descriptors; NoSnapshot stands for the
\* "not pre-commit" answer, which no catalog entry equals.
expectedPrecommitSnapshot(spec, phase, published) ==
  LET Bare(offset, wire) ==
        [ProposalSnapshot(spec, offset, wire) EXCEPT !.currentBrokers = {},
                                                     !.proposedBrokers = {}]
  IN CASE phase = "PREPARE" /\ "PREPARE" \notin published -> sourceActiveSnapshot(spec)
       [] phase = "PREPARE" /\ "PREPARE" \in published    -> Bare(0, "PREPARE")
       [] phase = "PAUSE" /\ "PAUSE" \in published        -> Bare(1, "PAUSED")
       [] phase = "PAUSE" /\ published = {"PREPARE"}      -> Bare(0, "PREPARE")
       [] phase = "DRAIN" /\ "DRAIN" \in published        -> Bare(2, "DRAIN")
       [] phase = "DRAIN" /\ published = {"PREPARE", "PAUSE"} -> Bare(1, "PAUSED")
       [] OTHER                                           -> NoSnapshot

-----------------------------------------------------------------------------
(* The participant's acceptance order *)

SameSource(left, right) == right.epoch = left.epoch /\ right.current = left.current

wireRank == [PREPARE |-> 1, PAUSED |-> 2, DRAIN |-> 3]

\* validateAdvance: may a participant that holds left install the newer right?
validateAdvance(left, right) ==
  CASE right.phase = "ACTIVE" /\ left.phase = "ACTIVE" ->
         right.epoch = left.epoch => right.current = left.current
    [] right.phase = "ACTIVE" /\ left.phase # "ACTIVE" ->
         /\ left.transition # NilTransition
         /\ \/ SameSource(left, right)
            \/ /\ right.epoch # left.epoch
               /\ right.epoch = left.transition.toEpoch
               /\ right.current = left.proposed
    [] right.phase = "COMMITTED" ->
         /\ left.phase = "DRAIN"
         /\ left.transition = right.transition
         /\ right.epoch = left.transition.toEpoch
         /\ right.current = left.proposed
    [] right.phase \notin {"ACTIVE", "COMMITTED"} /\ left.phase = "COMMITTED" -> FALSE
    [] right.phase \notin {"ACTIVE", "COMMITTED"} /\ left.phase = "ACTIVE" ->
         right.phase = "PREPARE" /\ SameSource(left, right)
    [] OTHER ->
         /\ left.transition = right.transition
         /\ left.transition # NilTransition
         /\ SameSource(left, right)
         /\ right.proposed = left.proposed
         /\ wireRank[right.phase] >= wireRank[left.phase]

=============================================================================
