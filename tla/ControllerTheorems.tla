------------------------- MODULE ControllerTheorems -------------------------
(***************************************************************************)
(* What the inductive invariant of ControllerInv implies: the safety       *)
(* properties of Controller, for any brokers, participants and numbers of  *)
(* transitions, crashes and failures.                                      *)
(***************************************************************************)
EXTENDS ControllerSafetyProofs

\* The open queues belong to one epoch.
LEMMA OneEpoch ==
  ASSUME NEW ps \in PersistentState, NEW O, NEW R, Good(ps, O, R)
  PROVE  \E e, B : O \subseteq {e} \X B
<1>1. CASE Sound(ps.group, ps.membership, O, R)
  <2>1. O \subseteq SourceQueues(ps.group) \/ O \subseteq TargetQueues(ps.group)
    BY <1>1 DEF Sound, Ingress, PreCommit, PersistentState, GroupState, Phase
  <2> QED BY <2>1 DEF SourceQueues, TargetQueues
<1>2. CASE O \subseteq GenesisQueues
  BY <1>2 DEF GenesisQueues
<1> QED BY <1>1, <1>2 DEF Good

\* At no time do queues of two epochs accept messages.
THEOREM EpochsExclusive == Spec => []SingleOpenEpoch
<1>1. IInv => SingleOpenEpoch
  <2> SUFFICES ASSUME IInv PROVE SingleOpenEpoch
    OBVIOUS
  <2>1. PICK e, B : open \subseteq {e} \X B
    BY OneEpoch DEF IInv, TypeOK
  <2> QED BY <2>1 DEF SingleOpenEpoch
<1> QED BY <1>1, Invariant, PTL

\* A membership with current ingress names the queues that are open.
LEMMA IngressOpen ==
  ASSUME NEW ps \in PersistentState, NEW O, NEW R, Good(ps, O, R), CurrentIngress(ps.membership)
  PROVE  CurrentQueues(ps.membership) = O
<1> DEFINE g == ps.group
           m == ps.membership
<1>1. CASE Sound(g, m, O, R)
  <2>g. g \in GroupState /\ m.phase \in {"ACTIVE", "PREPARE"}
    BY DEF PersistentState, CurrentIngress
  <2> HIDE DEF g, m
  <2>1. \/ /\ m.epoch = g.spec.fromEpoch /\ m.current = g.spec.current
           /\ \/ g.phase \notin g.published /\ g.phase \in {"PREPARE", "PAUSE"}
              \/ g.phase = "PREPARE"
              \/ "RollingBack" \in g.flags /\ ~MayBeFenced(g)
        \/ /\ m.epoch = ToEpoch(g.spec) /\ m.current = g.spec.proposed
           /\ g.phase = "ACTIVATE" /\ "TargetIngressVerified" \in g.flags
    BY <1>1, <2>g, HeldShows DEF Sound, Shows
  <2>2. CASE /\ m.epoch = g.spec.fromEpoch /\ m.current = g.spec.current
             /\ \/ g.phase \notin g.published /\ g.phase \in {"PREPARE", "PAUSE"}
                \/ g.phase = "PREPARE"
                \/ "RollingBack" \in g.flags /\ ~MayBeFenced(g)
    <3>1. ~MayBeFenced(g) /\ g.phase \in PreCommit
      BY <1>1, <2>2 DEF Sound, Shape, MayBeFenced, PreCommit
    <3>2. O = SourceQueues(g)
      BY <1>1, <3>1 DEF Sound, Ingress
    <3> QED BY <2>2, <3>2 DEF CurrentQueues, SourceQueues, m
  <2>3. CASE /\ m.epoch = ToEpoch(g.spec) /\ m.current = g.spec.proposed
             /\ g.phase = "ACTIVATE" /\ "TargetIngressVerified" \in g.flags
    <3>1. O = TargetQueues(g)
      BY <1>1, <2>3 DEF Sound, Shape, Ingress
    <3> QED BY <2>3, <3>1 DEF CurrentQueues, TargetQueues, m
  <2> QED BY <2>1, <2>2, <2>3
<1>2. CASE ps.membership = Genesis /\ O = GenesisQueues
  BY <1>2, ActiveFields DEF Genesis, GenesisQueues, CurrentQueues
<1>3. CASE ps.membership = NoSnapshot
  BY <1>3 DEF NoSnapshot, CurrentIngress
<1> QED BY <1>1, <1>2, <1>3 DEF Good

\* The controller advertises only queues that accept messages, in memory and in
\* what it would load after a crash.
THEOREM AdvertisedQueuesAccept == Spec => []AdvertisedIngressOpen
<1>1. IInv => AdvertisedIngressOpen
  BY IngressOpen DEF IInv, TypeOK, AdvertisedIngressOpen
<1> QED BY <1>1, Invariant, PTL

\* Nothing is left behind in the old epoch once COMMIT is durable.
THEOREM CommitLeavesNothing == Spec => []CommittedIsDrained
<1>1. IInv => CommittedIsDrained
  BY SourceDone DEF IInv, TypeOK, CommittedIsDrained
<1> QED BY <1>1, Invariant, PTL

-----------------------------------------------------------------------------

\* A transition past COMMIT is never rolled back and never returns to an
\* earlier phase.
THEOREM CommitFinal == Spec => CommitIsFinal
<1>1. IInv /\ IInv' /\ [Next]_vars => [CommitKept]_vars
  <2> SUFFICES ASSUME IInv, IInv', Next, group.phase \in {"COMMIT", "ACTIVATE"},
                      mem'.group.spec.id = spec0.id
               PROVE  /\ mem'.group.phase \in {group.phase, "ACTIVATE"}
                      /\ "RollingBack" \notin mem'.group.flags
    BY DEF CommitKept
  <2>1. AheadOf(mem, mem')
    BY NextStep
  <2>2. mem'.group.phase \in {group.phase, "ACTIVATE"}
    BY <2>1 DEF AheadOf, group, spec0
  <2>3. mem' \in PersistentState /\ Good(mem', open', residue')
    BY DEF IInv, TypeOK
  <2>4. "RollingBack" \notin mem'.group.flags
    BY <2>2, <2>3, SourceDone
  <2> QED BY <2>2, <2>4
<1> QED BY <1>1, Invariant, PTL DEF Spec, CommitIsFinal

\* A good document passes the validation of Open and BootstrapMembership, and
\* finds the queues of its source as EnsureBootstrap expects them.
LEMMA GoodLoads ==
  ASSUME NEW ps \in PersistentState, Good(ps, open, residue), ps.membership # NoSnapshot
  PROVE  Loadable(ps) /\ (InTransition(ps.group) => SourceAccepted(ps.group))
<1> DEFINE g == ps.group
           m == ps.membership
<1>1. CASE g = NoGroup /\ m = Genesis
  <2>1. m.phase = "ACTIVE" /\ m.transition = NilTransition
    BY <1>1, ActiveFields DEF Genesis
  <2> QED BY <1>1, <2>1, NoGroupFields DEF Loadable, InTransition
<1>2. CASE Sound(g, m, open, residue)
  <2>g. g \in GroupState
    BY DEF PersistentState
  <2> HIDE DEF g, m
  <2>1. validateGroupState(g)
    <3>1. Shape(g) /\ g.phase \in Phase
      BY <1>2, <2>g DEF Sound, GroupState
    <3> QED BY <3>1 DEF Shape, validateGroupState, PreCommit, Phase, MayBeFenced
  <2>2. m.transition = NilTransition \/ m.transition = TransitionOf(g.spec)
    BY <1>2, <2>g, HeldShows DEF Sound, Shows
  <2>3. m.transition # NilTransition => m.transition.id = g.spec.id
    BY <2>2 DEF TransitionOf
  <2>4. g # NoGroup
    BY <1>2, NoGroupFields DEF Sound, Shape
  <2>5. SourceAccepted(g)
    <3>1. CASE "FenceAttempted" \in g.flags
      BY <3>1 DEF SourceAccepted, SourceReplayed
    <3>2. CASE "FenceAttempted" \notin g.flags
      <4>1. open = SourceQueues(g)
        BY <1>2, <2>g, <3>2 DEF Sound, Shape, Ingress, MayBeFenced, PreCommit, GroupState, Phase
      <4>2. SourceIngress(g)
        BY <3>2 DEF SourceIngress
      <4> QED BY <4>1, <4>2 DEF SourceAccepted, Exact
    <3> QED BY <3>1, <3>2
  <2> QED BY <2>1, <2>3, <2>4, <2>5 DEF Loadable, g, m
<1> QED BY <1>1, <1>2 DEF Good

\* Whatever is on disk when the process stops is accepted by the next start, up
\* to the target queues (see NeverStranded).
THEOREM RestartIsAccepted == Spec => []RestartAccepted
<1>1. IInv => RestartAccepted
  <2> SUFFICES ASSUME IInv PROVE RestartAccepted
    OBVIOUS
  <2>g. disk \in PersistentState /\ Good(disk, open, residue)
    BY DEF IInv, TypeOK
  <2>1. disk.membership # NoSnapshot =>
          Loadable(disk) /\ (InTransition(disk.group) => SourceAccepted(disk.group))
    BY <2>g, GoodLoads
  <2>2. InTransition(disk.group) => disk.membership # NoSnapshot
    <3> SUFFICES ASSUME InTransition(disk.group) PROVE disk.membership.phase # "NONE"
      BY NoSnapshotPhase
    <3>1. Held(disk.group, disk.membership) /\ disk.group \in GroupState
      BY <2>g, GoodSound DEF InTransition, Sound, PersistentState
    <3> QED BY <3>1, HeldShows DEF Shows
  <2>3. ASSUME disk.membership # NoSnapshot, ~InTransition(disk.group)
        PROVE  Exact(CurrentQueues(disk.membership), CurrentIngress(disk.membership))
    <3>1. "Completed" \in disk.group.flags
      BY <2>3, <2>g, GoodSound, NoGroupFields DEF InTransition
    <3>2. LET m == disk.membership IN m = ActiveSnapshot(m.revision, m.epoch, m.current)
      BY <2>3, <2>g, <3>1, CompletedActive
    <3>3. CurrentIngress(disk.membership)
      BY <3>2, ActiveFields DEF CurrentIngress
    <3> QED BY <3>3, <2>g, IngressOpen DEF Exact
  <2> QED BY <2>1, <2>2, <2>3 DEF RestartAccepted
<1> QED BY <1>1, Invariant, PTL

\* A membership proposes brokers only for the transition it is held beside.
LEMMA HeldProposes ==
  ASSUME NEW g \in GroupState, NEW m, Held(g, m)
  PROVE  m.proposed = {} \/ m.transition = TransitionOf(g.spec)
<1> DEFINE Fits(s) == s.proposed = {} \/ s.transition = TransitionOf(g.spec)
<1>1. Fits(sourceActiveSnapshot(g.spec)) /\ Fits(RollbackSnapshot(g.spec))
  BY ActiveFields DEF sourceActiveSnapshot, RollbackSnapshot
<1>2. Fits(controlSnapshot(g.spec, "ACTIVATE", FALSE))
  <2>1. controlSnapshot(g.spec, "ACTIVATE", FALSE) =
          ActiveSnapshot(g.spec.revision + 4, ToEpoch(g.spec), g.spec.proposed)
    BY AdvertisedPhase, Zenon
  <2>2. \A r, e, b : ActiveSnapshot(r, e, b).proposed = {}
    BY ActiveFields
  <2> QED BY <2>1, <2>2, Zenon
<1>3. \A p \in {"PREPARE", "PAUSE", "DRAIN", "COMMIT"} : Fits(controlSnapshot(g.spec, p, FALSE))
  <2>1. \A p \in {"PREPARE", "PAUSE", "DRAIN", "COMMIT"} :
          \E w, e, b : Shows(controlSnapshot(g.spec, p, FALSE), w, e, b, TransitionOf(g.spec))
    BY SnapshotsShow, Zenon
  <2> QED BY <2>1 DEF Shows
<1>4. g.phase \in {"PREPARE", "PAUSE", "DRAIN", "COMMIT", "ACTIVATE"}
  BY DEF GroupState, Phase
<1> HIDE DEF Fits
<1>5. Fits(EnteredWith(g)) /\ Fits(controlSnapshot(g.spec, g.phase, FALSE))
  BY <1>1, <1>2, <1>3, <1>4 DEF EnteredWith
<1>6. Fits(m)
  BY <1>1, <1>5 DEF Held
<1> QED BY <1>6 DEF Fits

\* A queue left behind by a document's transition is not named by the document.
LEMMA BehindUnnamed ==
  ASSUME NEW ps \in PersistentState, NEW O, NEW R, Good(ps, O, R),
         NEW q \in Nat \X Broker, Behind(q, ps.group)
  PROVE  Unnamed(q, ps)
<1> DEFINE g == ps.group
           m == ps.membership
           epochs == {g.spec.fromEpoch, ToEpoch(g.spec)}
<1>1. /\ g \in GroupState /\ g.spec.id # 0 /\ Held(g, m) /\ m \in MembershipSnapshot
      /\ g.spec.fromEpoch \in Nat /\ q[1] \in Nat
  BY GoodSound DEF Behind, Sound, PersistentState, GroupState, TransitionSpec
<1>2. CASE InTransition(g)
  <2>1. q[1] < g.spec.fromEpoch
    BY <1>2 DEF Behind, InTransition
  <2> HIDE DEF g, m
  <2>2. q[1] \notin epochs
    BY <2>1, <1>1 DEF ToEpoch
  <2>3. m.epoch \in epochs
    BY <1>1, HeldShows DEF Shows
  <2>4. m.proposed = {} \/ m.transition = TransitionOf(g.spec)
    BY <1>1, HeldProposes
  <2>5. TransitionOf(g.spec).toEpoch = ToEpoch(g.spec)
    BY DEF TransitionOf
  <2>6. q \notin CurrentQueues(m) \cup ProposedQueues(m)
    BY <2>2, <2>3, <2>4, <2>5 DEF CurrentQueues, ProposedQueues
  <2>7. q \notin SourceQueues(g) \cup TargetQueues(g)
    BY <2>2 DEF SourceQueues, TargetQueues
  <2> QED BY <2>6, <2>7 DEF Unnamed, g, m
<1>3. CASE ~InTransition(g)
  <2>1. "Completed" \in g.flags
    BY <1>1, <1>3 DEF InTransition
  <2>2. q[1] < m.epoch
    BY <2>1, <1>1, CompletedEpoch DEF Behind
  <2>3. m.proposed = {}
    <3>1. m # NoSnapshot
      BY <1>1, HeldShows, NoSnapshotPhase DEF Shows
    <3>2. m = ActiveSnapshot(m.revision, m.epoch, m.current)
      BY <2>1, <3>1, CompletedActive
    <3> QED BY <3>2, ActiveFields
  <2>4. q[1] # m.epoch
    BY <2>2, <1>1 DEF MembershipSnapshot
  <2>5. q \notin CurrentQueues(m) \cup ProposedQueues(m)
    BY <2>3, <2>4 DEF CurrentQueues, ProposedQueues
  <2> QED BY <2>5, <1>3 DEF Unnamed
<1> QED BY <1>2, <1>3

\* Only cleanup deletes queues.
LEMMA QueuesKept ==
  ASSUME Next, ~CleanupNext, ~PolicyCleanup
  PROVE  queues \subseteq queues'
<1> USE DEF ingress
<1>1. CASE Reconcile
  BY <1>1 DEF Reconcile, EnsureCommandIntent, SaveMembership, Publish, RecordPublished, AdvanceToPause,
       PersistFenceAttempt, Fence, RecordFenced, AdvanceToDrain, AdvanceToCommit, PublishCommit,
       AdvanceToActivate, EnableIngress, RecordEnabled, RecordVerified, Unfence, RecordUnfenced,
       PublishRollback, Complete
<1>2. CASE \/ (\E c \in commands : Acknowledge(c)) \/ (\E b \in Broker : MonitorRead(b))
           \/ Observe \/ RequestRollback \/ TimeoutRollback \/ DeadlinePasses
           \/ (\E p \in Participant : ReadinessAges(p)) \/ (\E q \in residue : Consume(q)) \/ Crash
  BY <1>2 DEF Acknowledge, RecordAnswer, MonitorRead, Observe, RequestRollback, TimeoutRollback,
       requestRollback, DeadlinePasses, ReadinessAges, Consume, Crash
<1>3. CASE Bootstrap
  BY <1>3 DEF Bootstrap, BootstrapGenesis, ResumeIdle, ResumeTransition, ResumeFails
<1>4. CASE StartCleanup \/ (\E proposed \in SUBSET Broker : Recommend(proposed)) \/ PolicyPrepare \/ Begin
  BY <1>4 DEF StartCleanup, Recommend, PolicyPrepare, Begin, Create
<1> QED BY <1>1, <1>2, <1>3, <1>4 DEF Next

\* A clean-up deletes only what its copy still goes through.
LEMMA DeletedFromCopy ==
  ASSUME Next, NEW q \in queues \ queues'
  PROVE  q \in cleaning \cup policy.old /\ UNCHANGED <<mem, disk, catalog>>
<1>1. CleanupNext \/ PolicyCleanup
  BY QueuesKept
<1> QED BY <1>1 DEF CleanupNext, PolicyCleanup, Delete, ingress, broker0

\* The clean-ups run without the group lock, from copies that may be a whole
\* transition old, while transitions complete, begin, fail and are restarted.
\* Still a queue they delete is closed and empty, is named by neither document
\* a restart could load, and is not one a recommendation in progress needs.
THEOREM CleanupIsSafe == Spec => CleanupLosesNothing
<1>1. IInv /\ IInv' /\ [Next]_vars => [DeletedIsDone]_vars
  <2> SUFFICES ASSUME IInv, IInv', Next, NEW q \in queues \ queues'
               PROVE  /\ q \notin open \cup residue /\ Unnamed(q, mem') /\ Unnamed(q, disk')
                      /\ policy'.spec.id # 0 => q \notin TargetQueues(policy') \cup SourceQueues(policy')
    BY DEF DeletedIsDone
  <2>g. /\ mem \in PersistentState /\ disk \in PersistentState /\ group = mem.group
        /\ Good(mem, open, residue) /\ Good(disk, open, residue) /\ AheadOf(mem, disk)
        /\ policy \in Recommendation /\ cleaning \subseteq Nat \X Broker
    BY DEF IInv, TypeOK, group
  <2>1. q \in cleaning \cup policy.old /\ UNCHANGED <<mem, disk, catalog>>
    BY DeletedFromCopy
  <2>2. q \in Nat \X Broker /\ Behind(q, mem.group) /\ q \notin residue
    BY <2>1, <2>g DEF IInv, CopiesBehind, Recommendation
  <2>3. Behind(q, disk.group)
    BY <2>2, <2>g, BehindAdvances
  <2>4. q \notin open
    BY <2>2, <2>g, BehindClosed
  <2>5. Unnamed(q, mem) /\ Unnamed(q, disk)
    BY <2>2, <2>3, <2>g, BehindUnnamed
  <2>6. ASSUME policy'.spec.id # 0 PROVE q \notin TargetQueues(policy') \cup SourceQueues(policy')
    <3>1. /\ policy'.spec.fromEpoch = catalog.epoch /\ mem'.group = mem.group
          /\ "Completed" \in mem.group.flags
      <4>1. PolicyCurrent' /\ Recommending'
        BY <2>6 DEF IInv, Recommending
      <4>2. (Is("Completed") /\ policy.spec = NextSpec(policy.spec.proposed))'
        BY <4>1 DEF PolicyCurrent
      <4> QED BY <4>2, <2>1 DEF NextSpec, Is
    <3>2. catalog.epoch = mem.membership.epoch
      <4>1. mem.group = NoGroup \/ "RollbackPublished" \in mem.group.flags \/ "ACTIVATE" \in mem.group.published
        BY <3>1, <2>g, CompletedIs
      <4>2. pc' # "down"
        BY <2>6 DEF IInv, PolicyCurrent, Recommending
      <4> QED BY <4>1, <4>2, <2>1 DEF IInv, CatalogCurrent, Is, group
    <3>3. q[1] < mem.membership.epoch /\ mem.membership.epoch \in Nat /\ q[1] \in Nat
      <4>1. mem.membership.epoch \in Nat /\ q[1] \in Nat
        BY <2>2, <2>g DEF PersistentState, MembershipSnapshot
      <4>2. mem.group.spec.id # 0
        BY <2>2 DEF Behind
      <4>3. mem.membership.epoch = IF "RollingBack" \notin mem.group.flags
                                   THEN ToEpoch(mem.group.spec) ELSE mem.group.spec.fromEpoch
        BY <2>g, <3>1, <4>2, CompletedEpoch
      <4> QED BY <2>2, <3>1, <4>1, <4>3 DEF Behind
    <3>4. q[1] # policy'.spec.fromEpoch /\ q[1] # ToEpoch(policy'.spec)
      BY <3>1, <3>2, <3>3 DEF ToEpoch
    <3> QED BY <3>4 DEF SourceQueues, TargetQueues
  <2> QED BY <2>1, <2>2, <2>4, <2>5, <2>6
<1> QED BY <1>1, Invariant, PTL DEF Spec, CleanupLosesNothing

=============================================================================
