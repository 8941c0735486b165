------------------------ MODULE ControllerWorkerProofs ------------------------
(***************************************************************************)
(* The workers that run without the group lock, on copies of the state:    *)
(* runGroup's clean-up and ApplyRecommendations.  Whatever the group does  *)
(* meanwhile, the queues their copies name stay left behind, and what a    *)
(* recommendation was computed from stays as it is until Begin.            *)
(***************************************************************************)
EXTENDS ControllerStepProofs

\* What a group that is not in transition looks like.
LEMMA CompletedIs ==
  ASSUME NEW ps \in PersistentState, NEW O, NEW R, Good(ps, O, R), "Completed" \in ps.group.flags
  PROVE  \/ /\ ps.group = NoGroup
            /\ \/ ps.membership = NoSnapshot /\ O \subseteq GenesisQueues
               \/ ps.membership = Genesis /\ O = GenesisQueues
         \/ /\ ps.group.spec.id # 0 /\ {"RollingBack", "RollbackPublished"} \subseteq ps.group.flags
            /\ ps.membership = RollbackSnapshot(ps.group.spec) /\ O = SourceQueues(ps.group)
         \/ /\ ps.group.spec.id # 0 /\ "RollingBack" \notin ps.group.flags
            /\ ps.group.phase = "ACTIVATE" /\ "ACTIVATE" \in ps.group.published
            /\ ps.membership = ActiveSnapshot(ps.group.spec.revision + 4, ToEpoch(ps.group.spec), ps.group.spec.proposed)
            /\ O = TargetQueues(ps.group)
<1> DEFINE g == ps.group
           m == ps.membership
<1>1. CASE g = NoGroup
  BY <1>1 DEF Good, Sound, Shape, NoGroup, Created
<1>2. CASE g # NoGroup
  <2>1. Sound(g, m, O, R) /\ g.spec.id # 0
    BY <1>2 DEF Good, Sound, Shape
  <2> HIDE DEF g, m
  <2>2. "Completed" \in g.flags
    BY DEF g
  <2>3. CASE "RollbackPublished" \in g.flags
    <3>1. "RollingBack" \in g.flags /\ g.phase \in PreCommit /\ ~MayBeFenced(g)
      BY <2>1, <2>3 DEF Sound, Shape
    <3>2. m = RollbackSnapshot(g.spec) /\ O = SourceQueues(g)
      BY <2>1, <2>3, <3>1 DEF Sound, Held, Ingress
    <3> QED BY <2>1, <2>3, <3>1, <3>2 DEF g, m
  <2>4. CASE "RollbackPublished" \notin g.flags
    <3>1. /\ g.phase = "ACTIVATE" /\ "ACTIVATE" \in g.published /\ "RollingBack" \notin g.flags
          /\ "TargetIngressEnabled" \in g.flags
      BY <2>1, <2>2, <2>4 DEF Sound, Shape, PreCommit
    <3>2. m = controlSnapshot(g.spec, "ACTIVATE", FALSE) /\ O = TargetQueues(g)
      BY <2>1, <3>1 DEF Sound, Held, Ingress
    <3>3. controlSnapshot(g.spec, "ACTIVATE", FALSE) = ActiveSnapshot(g.spec.revision + 4, ToEpoch(g.spec), g.spec.proposed)
      BY DEF controlSnapshot
    <3> QED BY <2>1, <3>1, <3>2, <3>3 DEF g, m
  <2> QED BY <2>3, <2>4
<1> QED BY <1>1, <1>2

\* The fields of an ACTIVE snapshot.
LEMMA ActiveFields ==
  ASSUME NEW r, NEW e, NEW b
  PROVE  /\ ActiveSnapshot(r, e, b).revision = r /\ ActiveSnapshot(r, e, b).epoch = e
         /\ ActiveSnapshot(r, e, b).current = b /\ ActiveSnapshot(r, e, b).phase = "ACTIVE"
         /\ ActiveSnapshot(r, e, b).proposed = {} /\ ActiveSnapshot(r, e, b).transition = NilTransition
BY DEF ActiveSnapshot

LEMMA NoSnapshotPhase == NoSnapshot.phase = "NONE"
BY DEF NoSnapshot

\* Between transitions the membership is ACTIVE and exactly its queues are open.
LEMMA CompletedActive ==
  ASSUME NEW ps \in PersistentState, NEW O, NEW R, Good(ps, O, R), "Completed" \in ps.group.flags,
         ps.membership # NoSnapshot
  PROVE  LET m == ps.membership
         IN m = ActiveSnapshot(m.revision, m.epoch, m.current) /\ O = {m.epoch} \X m.current
<1>1. \E r, e, b : ps.membership = ActiveSnapshot(r, e, b) /\ O = {e} \X b
  <2>1. CASE ps.membership = Genesis /\ O = GenesisQueues
    BY <2>1 DEF Genesis, GenesisQueues
  <2>2. CASE ps.membership = RollbackSnapshot(ps.group.spec) /\ O = SourceQueues(ps.group)
    BY <2>2 DEF RollbackSnapshot, SourceQueues
  <2>3. CASE /\ ps.membership = ActiveSnapshot(ps.group.spec.revision + 4, ToEpoch(ps.group.spec), ps.group.spec.proposed)
             /\ O = TargetQueues(ps.group)
    BY <2>3 DEF TargetQueues
  <2> QED BY <2>1, <2>2, <2>3, CompletedIs
<1> QED BY <1>1, ActiveFields

\* What each phase advertises.
LEMMA AdvertisedPhase ==
  ASSUME NEW spec
  PROVE  /\ controlSnapshot(spec, "PREPARE", FALSE) = ProposalSnapshot(spec, 0, "PREPARE")
         /\ controlSnapshot(spec, "PAUSE", FALSE) = ProposalSnapshot(spec, 1, "PAUSED")
         /\ controlSnapshot(spec, "DRAIN", FALSE) = ProposalSnapshot(spec, 2, "DRAIN")
         /\ controlSnapshot(spec, "COMMIT", FALSE) = CommittedSnapshot(spec)
         /\ controlSnapshot(spec, "ACTIVATE", FALSE) =
              ActiveSnapshot(spec.revision + 4, ToEpoch(spec), spec.proposed)
BY DEF controlSnapshot

\* The wire phase, epoch, membership and transition of a snapshot.
Shows(m, wirephase, epoch, brokers, transition) ==
  m.phase = wirephase /\ m.epoch = epoch /\ m.current = brokers /\ m.transition = transition

LEMMA SnapshotsShow ==
  ASSUME NEW spec
  PROVE  /\ Shows(sourceActiveSnapshot(spec), "ACTIVE", spec.fromEpoch, spec.current, NilTransition)
         /\ Shows(RollbackSnapshot(spec), "ACTIVE", spec.fromEpoch, spec.current, NilTransition)
         /\ Shows(controlSnapshot(spec, "PREPARE", FALSE), "PREPARE", spec.fromEpoch, spec.current, TransitionOf(spec))
         /\ Shows(controlSnapshot(spec, "PAUSE", FALSE), "PAUSED", spec.fromEpoch, spec.current, TransitionOf(spec))
         /\ Shows(controlSnapshot(spec, "DRAIN", FALSE), "DRAIN", spec.fromEpoch, spec.current, TransitionOf(spec))
         /\ Shows(controlSnapshot(spec, "COMMIT", FALSE), "COMMITTED", ToEpoch(spec), spec.proposed, TransitionOf(spec))
         /\ Shows(controlSnapshot(spec, "ACTIVATE", FALSE), "ACTIVE", ToEpoch(spec), spec.proposed, NilTransition)
<1>1. /\ Shows(sourceActiveSnapshot(spec), "ACTIVE", spec.fromEpoch, spec.current, NilTransition)
      /\ Shows(RollbackSnapshot(spec), "ACTIVE", spec.fromEpoch, spec.current, NilTransition)
  BY DEF Shows, sourceActiveSnapshot, RollbackSnapshot, ActiveSnapshot
<1>2. \A o, w : Shows(ProposalSnapshot(spec, o, w), w, spec.fromEpoch, spec.current, TransitionOf(spec))
  BY DEF Shows, ProposalSnapshot
<1>3. Shows(CommittedSnapshot(spec), "COMMITTED", ToEpoch(spec), spec.proposed, TransitionOf(spec))
  BY DEF Shows, CommittedSnapshot
<1>4. Shows(ActiveSnapshot(spec.revision + 4, ToEpoch(spec), spec.proposed), "ACTIVE", ToEpoch(spec), spec.proposed,
            NilTransition)
  BY DEF Shows, ActiveSnapshot
<1> QED BY <1>1, <1>2, <1>3, <1>4, AdvertisedPhase, Zenon

\* The same for the membership of a document: what it held when it entered the
\* phase, what the phase publishes, or the rollback.
LEMMA HeldShows ==
  ASSUME NEW g \in GroupState, NEW m, Held(g, m)
  PROVE  \/ /\ g.phase \notin g.published
            /\ \/ g.phase = "PREPARE" /\ Shows(m, "ACTIVE", g.spec.fromEpoch, g.spec.current, NilTransition)
               \/ g.phase = "PAUSE" /\ Shows(m, "PREPARE", g.spec.fromEpoch, g.spec.current, TransitionOf(g.spec))
               \/ g.phase = "DRAIN" /\ Shows(m, "PAUSED", g.spec.fromEpoch, g.spec.current, TransitionOf(g.spec))
               \/ g.phase = "COMMIT" /\ Shows(m, "DRAIN", g.spec.fromEpoch, g.spec.current, TransitionOf(g.spec))
               \/ g.phase = "ACTIVATE" /\ Shows(m, "COMMITTED", ToEpoch(g.spec), g.spec.proposed, TransitionOf(g.spec))
         \/ g.phase = "PREPARE" /\ Shows(m, "PREPARE", g.spec.fromEpoch, g.spec.current, TransitionOf(g.spec))
         \/ g.phase = "PAUSE" /\ Shows(m, "PAUSED", g.spec.fromEpoch, g.spec.current, TransitionOf(g.spec))
         \/ g.phase = "DRAIN" /\ Shows(m, "DRAIN", g.spec.fromEpoch, g.spec.current, TransitionOf(g.spec))
         \/ g.phase = "COMMIT" /\ Shows(m, "COMMITTED", ToEpoch(g.spec), g.spec.proposed, TransitionOf(g.spec))
         \/ /\ g.phase = "ACTIVATE" /\ "TargetIngressVerified" \in g.flags
            /\ Shows(m, "ACTIVE", ToEpoch(g.spec), g.spec.proposed, NilTransition)
         \/ /\ "RollingBack" \in g.flags /\ ~MayBeFenced(g)
            /\ Shows(m, "ACTIVE", g.spec.fromEpoch, g.spec.current, NilTransition)
<1>p. \/ g.phase = "PREPARE" \/ g.phase = "PAUSE" \/ g.phase = "DRAIN" \/ g.phase = "COMMIT" \/ g.phase = "ACTIVATE"
  BY DEF GroupState, Phase
<1>1. CASE m = EnteredWith(g) /\ g.phase \notin g.published
  <2>1. /\ g.phase = "PREPARE" => EnteredWith(g) = sourceActiveSnapshot(g.spec)
        /\ g.phase = "PAUSE" => EnteredWith(g) = controlSnapshot(g.spec, "PREPARE", FALSE)
        /\ g.phase = "DRAIN" => EnteredWith(g) = controlSnapshot(g.spec, "PAUSE", FALSE)
        /\ g.phase = "COMMIT" => EnteredWith(g) = controlSnapshot(g.spec, "DRAIN", FALSE)
        /\ g.phase = "ACTIVATE" => EnteredWith(g) = controlSnapshot(g.spec, "COMMIT", FALSE)
    BY DEF EnteredWith
  <2> QED BY <1>1, <1>p, <2>1, SnapshotsShow, Zenon
<1>2. CASE /\ m = controlSnapshot(g.spec, g.phase, FALSE)
           /\ g.phase = "ACTIVATE" => "TargetIngressVerified" \in g.flags
  BY <1>2, <1>p, SnapshotsShow, Zenon
<1>3. CASE m = RollbackSnapshot(g.spec) /\ "RollingBack" \in g.flags /\ ~MayBeFenced(g)
  BY <1>3, SnapshotsShow, Zenon
<1> QED BY <1>1, <1>2, <1>3 DEF Held

\* Once COMMIT is durable the source epoch is closed and empty.
LEMMA SourceDone ==
  ASSUME NEW ps \in PersistentState, NEW O, NEW R, Good(ps, O, R), ps.group.phase \in {"COMMIT", "ACTIVATE"}
  PROVE  SourceQueues(ps.group) \cap (O \cup R) = {} /\ "RollingBack" \notin ps.group.flags
<1> DEFINE g == ps.group
<1>1. Sound(g, ps.membership, O, R) /\ g \in GroupState
  BY NoGroupFields DEF Good, PersistentState
<1> HIDE DEF g
<1>2. g.phase \in {"COMMIT", "ACTIVATE"}
  BY DEF g
<1>3. "RollingBack" \notin g.flags /\ g.spec.current \subseteq g.drained
  BY <1>1, <1>2 DEF Sound, Shape, PreCommit
<1>4. SourceQueues(g) \cap R = {}
  BY <1>1, <1>3 DEF Sound, Drained, SourceQueues
<1>5. SourceQueues(g) \cap O = {}
  BY <1>1, <1>2, EpochsDiffer DEF Sound, Ingress
<1> QED BY <1>3, <1>4, <1>5 DEF g

-----------------------------------------------------------------------------
(* Queues left behind *)

\* A queue of an epoch that is left behind is closed.
LEMMA BehindClosed ==
  ASSUME NEW ps \in PersistentState, NEW O, NEW R, Good(ps, O, R),
         NEW q \in Nat \X Broker, Behind(q, ps.group)
  PROVE  q \notin O
<1> DEFINE g == ps.group
<1>1. /\ g \in GroupState /\ g.spec.id # 0 /\ Sound(g, ps.membership, O, R)
      /\ g.spec.fromEpoch \in Nat /\ q[1] \in Nat
  BY GoodSound DEF Behind, PersistentState, GroupState, TransitionSpec
<1>2. CASE "Completed" \in g.flags /\ "RollingBack" \notin g.flags
  <2>1. O = TargetQueues(g)
    BY <1>1, <1>2, CompletedIs, NoGroupFields
  <2>2. q[1] < ToEpoch(g.spec)
    BY <1>2 DEF Behind
  <2> HIDE DEF g
  <2>3. q[1] # ToEpoch(g.spec)
    BY <2>2, <1>1 DEF ToEpoch
  <2> QED BY <2>1, <2>3 DEF TargetQueues
<1>3. CASE ~("Completed" \in g.flags /\ "RollingBack" \notin g.flags)
  <2>1. q[1] < g.spec.fromEpoch
    BY <1>3 DEF Behind
  <2> HIDE DEF g
  <2>2. O \subseteq SourceQueues(g) \/ O \subseteq TargetQueues(g)
    BY <1>1 DEF Sound, Ingress, PreCommit, GroupState, Phase
  <2>3. q[1] # g.spec.fromEpoch /\ q[1] # ToEpoch(g.spec)
    BY <2>1, <1>1 DEF ToEpoch
  <2> QED BY <2>2, <2>3 DEF SourceQueues, TargetQueues
<1> QED BY <1>2, <1>3

\* The epoch of a document's membership, after and at the start of a transition.
LEMMA CompletedEpoch ==
  ASSUME NEW ps \in PersistentState, NEW O, NEW R, Good(ps, O, R), "Completed" \in ps.group.flags,
         ps.group.spec.id # 0
  PROVE  ps.membership.epoch = IF "RollingBack" \notin ps.group.flags
                               THEN ToEpoch(ps.group.spec) ELSE ps.group.spec.fromEpoch
BY CompletedIs, NoGroupFields, ActiveFields DEF RollbackSnapshot

LEMMA CreatedEpoch ==
  ASSUME NEW ps \in PersistentState, NEW O, NEW R, Good(ps, O, R), ps.group = Created(ps.group.spec)
  PROVE  /\ ps.group.spec.id # 0 /\ ps.group.flags = {}
         /\ ps.membership.epoch = ps.group.spec.fromEpoch
<1> DEFINE g == ps.group
<1>1. g.phase = "PREPARE" /\ g.flags = {} /\ g.published = {}
  <2>1. \A sp : /\ Created(sp).phase = "PREPARE" /\ Created(sp).flags = {}
                /\ Created(sp).published = {}
    BY DEF Created
  <2> HIDE DEF g
  <2>2. g = Created(g.spec)
    BY DEF g
  <2> QED BY <2>1, <2>2
<1>2. g.spec.id # 0
  BY <1>1, GoodSound, NoGroupFields
<1>3. g \in GroupState /\ Held(g, ps.membership)
  BY <1>2, GoodSound DEF Sound, PersistentState
<1> HIDE DEF g
<1>4. ps.membership.epoch = g.spec.fromEpoch
  BY <1>1, <1>3, HeldShows DEF Shows
<1> QED BY <1>1, <1>2, <1>4 DEF g

\* What is left behind stays left behind when a document is replaced by one
\* that is ahead of it, the first document of the next transition included.
LEMMA BehindAdvances ==
  ASSUME NEW old \in PersistentState, NEW new \in PersistentState, NEW O, NEW R, NEW P, NEW S,
         Good(old, O, R), Good(new, P, S), AheadOf(old, new),
         NEW q \in Nat \X Broker, Behind(q, old.group)
  PROVE  Behind(q, new.group)
<1> DEFINE g == old.group
           h == new.group
<1>g. g.spec.id # 0 /\ q[1] \in Nat /\ g.spec.fromEpoch \in Nat
  BY DEF Behind, PersistentState, GroupState, TransitionSpec
<1>1. CASE /\ h.spec = g.spec /\ g.flags \subseteq h.flags
           /\ g.phase \in {"COMMIT", "ACTIVATE"} => h.phase \in {g.phase, "ACTIVATE"}
  <2>1. CASE "Completed" \in g.flags /\ "RollingBack" \notin g.flags
    <3>1. g.phase = "ACTIVATE"
      BY <2>1, <1>g, CompletedIs, NoGroupFields
    <3>2. "RollingBack" \notin h.flags
      BY <3>1, <1>1, SourceDone
    <3>3. q[1] < ToEpoch(g.spec)
      BY <2>1 DEF Behind
    <3> QED BY <3>2, <3>3, <2>1, <1>1, <1>g DEF Behind
  <2>2. CASE ~("Completed" \in g.flags /\ "RollingBack" \notin g.flags)
    <3>1. q[1] < g.spec.fromEpoch
      BY <2>2 DEF Behind
    <3> HIDE DEF g
    <3>2. q[1] < ToEpoch(g.spec)
      BY <3>1, <1>g DEF ToEpoch
    <3> QED BY <3>1, <3>2, <1>1, <1>g DEF Behind
  <2> QED BY <2>1, <2>2
<1>2. CASE "Completed" \in g.flags /\ h = Created(h.spec) /\ new.membership = old.membership
  <2>1. q[1] < old.membership.epoch
    BY <1>2, <1>g, CompletedEpoch DEF Behind
  <2>2. h.spec.id # 0 /\ h.flags = {} /\ new.membership.epoch = h.spec.fromEpoch
    BY <1>2, CreatedEpoch
  <2> QED BY <2>1, <2>2, <1>2 DEF Behind
<1> QED BY <1>1, <1>2 DEF AheadOf

\* What a clean-up may go through when its copy is taken.
LEMMA CleanableBehind ==
  ASSUME IInv, NEW q \in Cleanable(group)
  PROVE  q \in Nat \X Broker /\ Behind(q, group) /\ q \notin residue
<1>g. mem \in PersistentState /\ group = mem.group /\ group \in GroupState /\ Good(mem, open, residue)
      /\ group.spec \in TransitionSpec
  BY DEF IInv, TypeOK, group, PersistentState, GroupState
<1>1. "Completed" \in group.flags /\ "RollingBack" \notin group.flags /\ q \in SourceQueues(group)
  BY DEF Cleanable
<1>2. group # NoGroup
  BY <1>1 DEF SourceQueues, NoGroup, Created
<1>3. group.spec.id # 0 /\ group.phase = "ACTIVATE"
  BY <1>1, <1>2, <1>g, CompletedIs
<1>4. q \notin residue
  BY <1>1, <1>3, <1>g, SourceDone
<1>5. q \in Nat \X Broker /\ q[1] < ToEpoch(group.spec)
  BY <1>1, <1>g DEF SourceQueues, ToEpoch, TransitionSpec
<1> QED BY <1>1, <1>3, <1>4, <1>5 DEF Behind

\* Only a copy taken now adds queues to a clean-up, and only queues that were
\* open are left with messages.
LEMMA WorkerSets ==
  ASSUME Next, policy \in Recommendation
  PROVE  /\ cleaning' \subseteq cleaning \cup Cleanable(group)
         /\ policy'.old \subseteq policy.old \cup Cleanable(group)
         /\ residue' \subseteq residue \cup open
<1> USE DEF ingress, workers
<1> DEFINE Sets == /\ cleaning' \subseteq cleaning \cup Cleanable(group)
                   /\ policy'.old \subseteq policy.old \cup Cleanable(group)
                   /\ residue' \subseteq residue \cup open
<1>1. CASE Reconcile
  BY <1>1 DEF Reconcile, EnsureCommandIntent, SaveMembership, Publish, RecordPublished, AdvanceToPause,
       PersistFenceAttempt, Fence, RecordFenced, AdvanceToDrain, AdvanceToCommit, PublishCommit,
       AdvanceToActivate, EnableIngress, RecordEnabled, RecordVerified, Unfence, RecordUnfenced,
       PublishRollback, Complete, Change, SetIngress, Residue
<1>2. CASE \/ (\E c \in commands : Acknowledge(c)) \/ (\E b \in Broker : MonitorRead(b))
           \/ Observe \/ RequestRollback \/ TimeoutRollback \/ DeadlinePasses
           \/ (\E p \in Participant : ReadinessAges(p)) \/ (\E q \in residue : Consume(q))
  BY <1>2 DEF Acknowledge, RecordAnswer, MonitorRead, Observe, RequestRollback, TimeoutRollback,
       requestRollback, DeadlinePasses, ReadinessAges, Consume
<1>3. CASE Bootstrap
  BY <1>3 DEF Bootstrap, BootstrapGenesis, ResumeIdle, ResumeTransition, ResumeFails, SetIngress, Residue
<1>4. CASE StartCleanup \/ CleanupNext
  BY <1>4 DEF StartCleanup, CleanupNext, Delete
<1>5. NoPolicy.old = {}
  BY DEF NoPolicy
<1>6. CASE PolicyCleanup \/ PolicyPrepare
  BY <1>5, <1>6 DEF PolicyCleanup, PolicyPrepare, Delete, Create, Recommendation
<1>7. CASE (\E proposed \in SUBSET Broker : Recommend(proposed)) \/ Begin \/ Crash
  BY <1>5, <1>7 DEF Recommend, Begin, Crash
<1> QED BY <1>1, <1>2, <1>3, <1>4, <1>6, <1>7 DEF Next

\* Whatever the group does while a clean-up goes through its copy, the queues of
\* the copy stay left behind and empty.
LEMMA CopiesStep ==
  ASSUME IInv, Next, mem' \in PersistentState, Good(mem', open', residue'), AheadOf(mem, mem')
  PROVE  CopiesBehind'
<1>g. /\ mem \in PersistentState /\ group = mem.group /\ Good(mem, open, residue)
      /\ policy \in Recommendation /\ cleaning \subseteq Nat \X Broker
  BY DEF IInv, TypeOK, group
<1>1. ASSUME NEW q \in cleaning' \cup policy'.old PROVE Behind(q, mem'.group) /\ q \notin residue'
  <2>1. q \in cleaning \cup policy.old \cup Cleanable(group)
    BY <1>g, <1>1, WorkerSets
  <2>2. q \in Nat \X Broker /\ Behind(q, mem.group) /\ q \notin residue
    BY <2>1, <1>g, CleanableBehind DEF IInv, CopiesBehind, Recommendation
  <2>3. Behind(q, mem'.group)
    BY <2>2, <1>g, BehindAdvances
  <2>4. q \notin open
    BY <2>2, <1>g, BehindClosed
  <2> QED BY <2>2, <2>3, <2>4, <1>g, WorkerSets
<1> QED BY <1>1 DEF CopiesBehind, group

\* Deleting what a copy names, and creating queues, leaves the ingress alone.
LEMMA WorkerSteps ==
  ASSUME IInv,
         \/ StartCleanup \/ CleanupNext \/ PolicyCleanup \/ PolicyPrepare
         \/ \E proposed \in SUBSET Broker : Recommend(proposed)
  PROVE  /\ Documents' /\ IdsUsed' /\ AheadOf(mem, mem')
         /\ AtLabel' /\ CatalogCurrent' /\ SampleTrue'
<1> USE DEF store, broker0, ingress
<1>1. UNCHANGED <<mem, disk, pc, catalog, sample, begun>>
  BY DEF StartCleanup, CleanupNext, PolicyCleanup, PolicyPrepare, Recommend
<1>2. \/ \E q \in cleaning \cup policy.old : Delete(q)
      \/ \E q \in policy.new : Create(q)
      \/ UNCHANGED ingress
  BY DEF StartCleanup, CleanupNext, PolicyCleanup, PolicyPrepare, Recommend
<1>3. \A q \in cleaning \cup policy.old : q \notin open
  BY BehindClosed DEF IInv, CopiesBehind, TypeOK, Recommendation, group
<1>4. open' = open /\ residue' \subseteq residue
  BY <1>2, <1>3 DEF Delete, Create
<1>5. Documents' /\ AheadOf(mem, mem')
  BY <1>1, <1>4, ResidueShrinks, AheadRefl DEF Documents, IInv, TypeOK
<1>6. IdsUsed' /\ CatalogCurrent' /\ SampleTrue'
  BY <1>1, <1>4 DEF IdsUsed, CatalogCurrent, SampleTrue, IInv, Is, group, spec0
<1>7. AtLabel'
  BY <1>1, <1>4 DEF AtLabel, IInv, InTransition, Publishing, Advertised, PublishedPhase, Is, group, spec0,
       SourceQueues, TargetQueues
<1> QED BY <1>5, <1>6, <1>7

-----------------------------------------------------------------------------
(* A recommendation that is being applied *)

\* While a recommendation is applied no other actor moves the transition.
LEMMA PolicyAlone ==
  ASSUME IInv, Recommending
  PROVE  /\ pc = "idle" /\ ~Reconcile /\ ~Bootstrap /\ ~requestRollback
         /\ \A c \in commands : ~Acknowledge(c)
         /\ ~Draining
<1>1. pc # "down" /\ Is("Completed")
  BY DEF IInv, PolicyCurrent
<1>2. pc = "idle"
  <2>1. pc \notin {"down", "idle"} => InTransition(group)
    BY DEF IInv, AtLabel
  <2> QED BY <1>1, <2>1 DEF InTransition, Is, group
<1>3. ~Reconcile
  BY <1>1, <1>2 DEF Reconcile, EnsureCommandIntent, SaveMembership, Publish, RecordPublished,
       AdvanceToPause, PersistFenceAttempt, Fence, RecordFenced, AdvanceToDrain, AdvanceToCommit,
       PublishCommit, AdvanceToActivate, EnableIngress, RecordEnabled, RecordVerified, Unfence,
       RecordUnfenced, PublishRollback, Complete, PauseAcknowledged, Forward, Back, Turn
<1>4. ~requestRollback
  <2>1. group # NoGroup /\ "RollingBack" \notin group.flags => group.phase = "ACTIVATE"
    BY <1>1, CompletedIs DEF IInv, TypeOK, Is, group
  <2>2. requestRollback => group.spec.id # 0 /\ group.phase # "ACTIVATE" /\ "RollingBack" \notin group.flags
    BY DEF requestRollback, Is, spec0, group
  <2> QED BY <2>1, <2>2, NoGroupFields
<1> QED BY <1>1, <1>2, <1>3, <1>4 DEF Bootstrap, BootstrapGenesis, ResumeIdle, ResumeTransition,
     ResumeFails, Acknowledge, Draining

\* Until Begin, or a crash, what a recommendation was computed from stays as it is.
LEMMA PolicyStep ==
  ASSUME IInv, Next
  PROVE  PolicyCurrent'
<1> USE DEF store, broker0, ingress, workers
<1> DEFINE Rest == <<mem, pc, catalog, begun>>
<1>g. policy \in Recommendation /\ PolicyCurrent
  BY DEF IInv, TypeOK
<1>0. ~(NoPolicy.spec.id # 0)
  BY NoGroupFields DEF NoPolicy
<1>1. CASE policy' = NoPolicy
  BY <1>0, <1>1 DEF PolicyCurrent, Recommending
<1>2. CASE policy' = policy /\ ~Recommending
  BY <1>2, <1>1, <1>g DEF PolicyCurrent
<1>3. ASSUME Recommending, policy'.spec = policy.spec, policy'.new \subseteq policy.new, UNCHANGED Rest
      PROVE  PolicyCurrent'
  BY <1>3, <1>g DEF PolicyCurrent, Recommending, Is, NextSpec, TargetQueues
<1>4. CASE \/ Reconcile \/ (\E c \in commands : Acknowledge(c)) \/ Bootstrap
           \/ RequestRollback \/ TimeoutRollback
  <2>1. policy' = policy
    BY <1>4 DEF Reconcile, EnsureCommandIntent, SaveMembership, Publish, RecordPublished, AdvanceToPause,
         PersistFenceAttempt, Fence, RecordFenced, AdvanceToDrain, AdvanceToCommit, PublishCommit,
         AdvanceToActivate, EnableIngress, RecordEnabled, RecordVerified, Unfence, RecordUnfenced,
         PublishRollback, Complete, Acknowledge, RecordAnswer, RequestRollback, TimeoutRollback,
         requestRollback, Bootstrap, BootstrapGenesis, ResumeIdle, ResumeTransition, ResumeFails
  <2>2. ~Recommending
    BY <1>4, PolicyAlone DEF RequestRollback, TimeoutRollback
  <2> QED BY <2>1, <2>2, <1>2
<1>5. CASE \/ (\E b \in Broker : MonitorRead(b)) \/ Observe \/ DeadlinePasses
           \/ (\E p \in Participant : ReadinessAges(p)) \/ (\E q \in residue : Consume(q))
           \/ StartCleanup \/ CleanupNext
  <2>1. policy' = policy
    BY <1>5 DEF MonitorRead, Observe, DeadlinePasses, ReadinessAges, Consume, StartCleanup, CleanupNext
  <2>2. Recommending => UNCHANGED Rest
    BY <1>5, PolicyAlone DEF MonitorRead, Observe, DeadlinePasses, ReadinessAges, Consume, StartCleanup,
         CleanupNext
  <2> QED BY <2>1, <2>2, <1>2, <1>3
<1>6. CASE PolicyCleanup \/ PolicyPrepare
  <2>1. UNCHANGED Rest
    BY <1>6 DEF PolicyCleanup, PolicyPrepare
  <2>2. policy' # NoPolicy => policy'.spec = policy.spec /\ policy'.new \subseteq policy.new
    <3>1. \/ policy' = NoPolicy
          \/ \E q : policy' \in {[policy EXCEPT !.old = @ \ {q}], [policy EXCEPT !.new = @ \ {q}]}
      BY <1>6 DEF PolicyCleanup, PolicyPrepare
    <3> QED BY <3>1, <1>g DEF Recommendation
  <2>3. Recommending
    <3>1. policy.old # {} \/ policy.new # {}
      BY <1>6 DEF PolicyCleanup, PolicyPrepare
    <3>2. NoPolicy.old = {} /\ NoPolicy.new = {}
      BY DEF NoPolicy
    <3> QED BY <3>1, <3>2, <1>g DEF PolicyCurrent
  <2> QED BY <2>1, <2>2, <2>3, <1>1, <1>3
<1>7. ASSUME NEW proposed \in SUBSET Broker, Recommend(proposed) PROVE PolicyCurrent'
  <2> DEFINE spec == NextSpec(proposed)
  <2>1. UNCHANGED Rest /\ pc # "down" /\ catalog.phase = "ACTIVE" /\ Is("Completed")
    BY <1>7 DEF Recommend
  <2>2. policy'.spec = spec /\ policy'.new = {ToEpoch(spec)} \X proposed
    BY <1>7 DEF Recommend
  <2>3. spec.proposed = proposed /\ spec.id = begun + 1 /\ begun \in Nat
    BY DEF NextSpec, IInv, TypeOK
  <2>4. policy'.spec.proposed = proposed /\ begun' = begun /\ catalog' = catalog
    BY <2>1, <2>2, <2>3
  <2>5. NextSpec(policy.spec.proposed)' = spec
    BY <2>4, Zenon DEF NextSpec
  <2>6. (policy.new \subseteq TargetQueues(policy))'
    BY <2>2, <2>3 DEF TargetQueues
  <2>7. Recommending'
    BY <2>2, <2>3 DEF Recommending
  <2>8. (pc # "down" /\ catalog.phase = "ACTIVE" /\ Is("Completed"))'
    BY <2>1 DEF Is
  <2> HIDE DEF spec
  <2> QED BY <2>2, <2>5, <2>6, <2>7, <2>8 DEF PolicyCurrent
<1>8. CASE Begin \/ Crash
  BY <1>8, <1>1 DEF Begin, Crash
<1> QED BY <1>4, <1>5, <1>6, <1>7, <1>8 DEF Next

=============================================================================
