----------------------- MODULE ControllerSafetyProofs -----------------------
(***************************************************************************)
(* The invariant of ControllerInv is inductive.  The last groups of actions*)
(* (cleanup and the next transition, crash and restart), all of Next, and  *)
(* the theorem.                                                            *)
(***************************************************************************)
EXTENDS ControllerWorkerProofs

\* A new transition starts from the queues and the membership that are there.
LEMMA BeginGood ==
  ASSUME IInv, NEW proposed \in SUBSET Broker, pc = "idle", catalog.phase = "ACTIVE", Is("Completed"),
         NEW R
  PROVE  /\ Good([mem EXCEPT !.group = Created(NextSpec(proposed))], open, R)
         /\ AheadOf(mem, [mem EXCEPT !.group = Created(NextSpec(proposed))])
<1> DEFINE spec == NextSpec(proposed)
           h == Created(spec)
           next == [mem EXCEPT !.group = h]
<1>g. /\ mem \in PersistentState /\ group \in GroupState /\ group = mem.group /\ spec0 = group.spec
      /\ begun \in Nat /\ catalog \in MembershipSnapshot /\ catalog.revision \in Nat /\ spec0.id \in Nat
      /\ spec0 \in TransitionSpec
  BY DEF IInv, TypeOK, PersistentState, group, spec0, GroupState, TransitionSpec, MembershipSnapshot
<1>1. /\ next.group = h /\ next.membership = mem.membership /\ next \in PersistentState
      /\ spec \in TransitionSpec
  <2>1. spec \in TransitionSpec
    BY NextSpecType DEF IInv
  <2> QED BY <2>1, <1>g, FreshTypes DEF PersistentState
<1>2. /\ h.spec = spec /\ h.phase = "PREPARE" /\ h.issued = {} /\ h.published = {} /\ h.drained = {}
      /\ h.flags = {} /\ \A p \in Phase : h.acks[p] = {}
  BY DEF Created
<1>3. /\ spec.id = begun + 1 /\ spec.revision = catalog.revision + 1 /\ spec.fromEpoch = catalog.epoch
      /\ spec.current = catalog.current
  BY DEF NextSpec
<1>4. catalog = mem.membership /\ catalog = ActiveSnapshot(catalog.revision, catalog.epoch, catalog.current)
      /\ open = {catalog.epoch} \X catalog.current
  <2>1. "Completed" \in mem.group.flags /\ Good(mem, open, residue)
    BY DEF Is, IInv
  <2>2. catalog = mem.membership
    <3>1. CASE group = NoGroup
      BY <3>1 DEF IInv, CatalogCurrent
    <3>2. CASE group # NoGroup
      <4>1. Is("RollbackPublished") \/ "ACTIVATE" \in group.published
        BY <2>1, <3>2, <1>g, CompletedIs DEF Is
      <4> QED BY <4>1 DEF IInv, CatalogCurrent
    <3> QED BY <3>1, <3>2
  <2>3. mem.membership # NoSnapshot
    BY <2>2, NoSnapshotPhase
  <2> QED BY <2>1, <2>2, <2>3, <1>g, CompletedActive
<1>5. spec.id # spec0.id /\ spec.id # 0
  <2>1. spec0.id <= begun
    BY <1>g DEF IInv, IdsUsed
  <2> QED BY <2>1, <1>3, <1>g
<1> HIDE DEF h, spec, next
<1>6. Shape(h)
  <2>1. h.spec.id # 0 /\ h.spec.revision # 0
    BY <1>2, <1>3, <1>5, <1>g
  <2>2. \A p \in Phase : h.acks[p] # {} => p \in h.issued /\ h.acks[p] \subseteq Requirements(p)
    BY <1>2
  <2> QED BY <2>1, <2>2, <1>2 DEF Shape, MayBeFenced, PreCommit
<1>7. Held(h, mem.membership)
  <2>1. EnteredWith(h) = sourceActiveSnapshot(spec)
    BY <1>2 DEF EnteredWith
  <2>2. sourceActiveSnapshot(spec) = catalog
    <3>1. spec.revision - 1 = catalog.revision
      BY <1>3, <1>g
    <3> QED BY <3>1, <1>3, <1>4 DEF sourceActiveSnapshot
  <2> QED BY <2>1, <2>2, <1>2, <1>4 DEF Held
<1>8. Ingress(h, open) /\ Drained(h, R)
  BY <1>2, <1>3, <1>4 DEF Ingress, Drained, SourceQueues
<1>9. Good(next, open, R)
  BY <1>1, <1>6, <1>7, <1>8, GoodSound DEF Sound
<1>10. AheadOf(mem, next)
  <2>1. h = Created(h.spec)
    BY <1>2 DEF h
  <2> QED BY <2>1, <1>1, <1>2, <1>5, <1>g DEF AheadOf, Is
<1> QED BY <1>9, <1>10 DEF next, h, spec

LEMMA BeginStep ==
  ASSUME IInv, Begin
  PROVE  /\ Documents' /\ IdsUsed' /\ AheadOf(mem, mem')
         /\ AtLabel' /\ CatalogCurrent' /\ SampleTrue'
<1> USE DEF store, broker0, ingress
<1> DEFINE proposed == policy.spec.proposed
           next == [mem EXCEPT !.group = Created(NextSpec(proposed))]
<1>p. proposed \in SUBSET Broker
  BY DEF IInv, TypeOK, Recommendation, TransitionSpec
<1>g. /\ mem \in PersistentState /\ disk \in PersistentState /\ begun \in Nat /\ spec0 = mem.group.spec
      /\ NextSpec(proposed) \in TransitionSpec
      /\ mem.group.spec.id \in Nat /\ disk.group.spec.id \in Nat
      /\ \A s \in sample : s.transition \in Nat
  <2>1. /\ mem \in PersistentState /\ disk \in PersistentState /\ begun \in Nat
        /\ sample \subseteq [transition : Nat, broker : Broker, zero : BOOLEAN]
        /\ catalog \in MembershipSnapshot
    BY DEF IInv, TypeOK
  <2>2. NextSpec(proposed) \in TransitionSpec
    BY <1>p, NextSpecType DEF IInv
  <2>3. mem.group.spec.id \in Nat /\ disk.group.spec.id \in Nat
    BY <2>1 DEF PersistentState, GroupState, TransitionSpec
  <2>4. \A s \in sample : s.transition \in Nat
    BY <2>1
  <2> QED BY <2>1, <2>2, <2>3, <2>4 DEF spec0
<1>1. /\ pc = "idle" /\ catalog.phase = "ACTIVE" /\ Is("Completed") /\ policy.spec = NextSpec(proposed)
      /\ UNCHANGED <<pc, catalog, sample, open, residue>> /\ begun' = begun + 1
  BY DEF Begin, IInv, PolicyCurrent
<1>2. /\ next \in PersistentState /\ next.group = Created(NextSpec(proposed))
      /\ next.membership = mem.membership
  BY <1>g, FreshTypes DEF PersistentState
<1>3. Good(next, open, residue) /\ AheadOf(mem, next)
  BY <1>1, <1>p, BeginGood
<1>4. Saved(next) \/ SaveFailed(next)
  BY <1>1 DEF Begin
<1>5. NextSpec(proposed).id = begun + 1 /\ Created(NextSpec(proposed)).spec = NextSpec(proposed)
  BY DEF NextSpec, Created
<1>6. Created(NextSpec(proposed)).flags = {} /\ Created(NextSpec(proposed)).published = {}
  BY DEF Created
<1> HIDE DEF next
<1>7. Documents'
  BY <1>1, <1>2, <1>3, <1>4, SaveGood DEF Documents, IInv
<1>8. mem' \in {mem, next} /\ disk' \in {disk, next}
  BY <1>4 DEF Saved, SaveFailed
<1>9. IdsUsed'
  <2>1. next.group.spec.id = begun + 1
    BY <1>2, <1>5
  <2>2. mem.group.spec.id <= begun' /\ disk.group.spec.id <= begun' /\ next.group.spec.id <= begun'
    <3>1. mem.group.spec.id <= begun /\ disk.group.spec.id <= begun
      BY DEF IInv, IdsUsed
    <3> QED BY <3>1, <2>1, <1>1, <1>g
  <2> QED BY <2>2, <1>8 DEF IdsUsed
<1>10. AtLabel'
  BY <1>1 DEF AtLabel
<1>11. CatalogCurrent'
  <2>1. CASE mem' = mem
    BY <2>1, <1>1 DEF IInv, CatalogCurrent, Is, group
  <2>2. CASE mem' = next
    <3>1. next.group # NoGroup
      BY <1>2, <1>5, <1>g, NoGroupFields
    <3> QED BY <2>2, <3>1, <1>2, <1>6 DEF CatalogCurrent, Is, group
  <2> QED BY <1>8, <2>1, <2>2
<1>12. SampleTrue'
  <2>0. \A s \in sample' : pc' # "down" /\ s.transition <= begun'
    <3> TAKE s \in sample'
    <3>1. s.transition \in Nat /\ s.transition <= begun
      BY <1>1, <1>g DEF IInv, SampleTrue
    <3> QED BY <3>1, <1>1, <1>g
  <2>1. CASE mem' = mem
    <3>1. group' = group /\ spec0' = spec0 /\ sample' = sample /\ residue' = residue
      BY <2>1, <1>1 DEF group, spec0
    <3> QED BY <3>1, <2>0, <1>1 DEF IInv, SampleTrue, Is, group
  <2>2. CASE mem' = next
    <3>1. spec0'.id = begun + 1
      BY <2>2, <1>2, <1>5 DEF spec0
    <3>2. \A s \in sample : s.transition # spec0'.id
      <4> TAKE s \in sample
      <4>1. s.transition \in Nat /\ s.transition <= begun
        BY <1>g DEF IInv, SampleTrue
      <4> QED BY <4>1, <3>1, <1>g
    <3> QED BY <3>2, <2>0, <1>1 DEF SampleTrue
  <2> QED BY <1>8, <2>1, <2>2
<1>13. AheadOf(mem, mem')
  BY <1>3, <1>8, <1>g, AheadRefl DEF IInv
<1> QED BY <1>7, <1>9, <1>10, <1>11, <1>12, <1>13

\* After a crash memory is the document on disk.
LEMMA CrashStep ==
  ASSUME IInv, Crash
  PROVE  /\ Documents' /\ IdsUsed' /\ AheadOf(mem, mem')
         /\ AtLabel' /\ CatalogCurrent' /\ SampleTrue'
<1> USE DEF ingress
<1>1. /\ mem' = disk /\ disk' = disk /\ pc' = "down" /\ sample' = {}
      /\ UNCHANGED <<open, residue, begun>>
  BY DEF Crash
<1>2. AheadOf(disk, disk)
  BY AheadRefl DEF IInv, TypeOK
<1>3. Documents' /\ AheadOf(mem, mem') /\ IdsUsed'
  BY <1>1, <1>2 DEF Documents, IInv, IdsUsed
<1>4. AtLabel'
  BY <1>1 DEF AtLabel
<1>5. CatalogCurrent' /\ SampleTrue'
  BY <1>1 DEF CatalogCurrent, SampleTrue
<1> QED BY <1>3, <1>4, <1>5

\* A first start opens the genesis queues, then saves and publishes.
LEMMA GenesisStep ==
  ASSUME IInv, BootstrapGenesis
  PROVE  /\ Documents' /\ IdsUsed' /\ AheadOf(mem, mem')
         /\ AtLabel' /\ CatalogCurrent' /\ SampleTrue'
<1> DEFINE next == [mem EXCEPT !.membership = Genesis]
<1>g. /\ mem \in PersistentState /\ pc = "down" /\ mem = disk /\ mem.group = NoGroup
      /\ mem.membership = NoSnapshot /\ sample = {} /\ UNCHANGED <<sample, begun>>
  BY DEF BootstrapGenesis, IInv, TypeOK, AtLabel, SampleTrue, group
<1>1. next.membership = Genesis /\ next.group = NoGroup
  BY <1>g DEF PersistentState
<1>2. \E S \in SUBSET GenesisQueues : SetIngress(S, TRUE) /\ (mem' # mem => S = GenesisQueues)
  <2>1. GenesisQueues = {1} \X GenesisBrokers
    BY DEF GenesisQueues
  <2> QED BY <2>1, Zenon DEF BootstrapGenesis
<1>3. /\ (mem' = mem /\ disk' = disk) \/ (mem' = next /\ disk' = next)
      /\ (pc' = "idle" /\ catalog' = Genesis /\ mem' = next) \/ pc' = "down"
  BY <1>g DEF BootstrapGenesis, Saved
<1> HIDE DEF next
<1>4. open \subseteq GenesisQueues
  BY <1>g, CompletedIs, NoGroupFields DEF IInv, Genesis, ActiveSnapshot, NoSnapshot
<1>5. open' \subseteq GenesisQueues /\ (mem' # mem => open' = GenesisQueues)
  BY <1>2, <1>4 DEF SetIngress, Switch
<1>6. next # mem
  <2>1. Genesis.revision = 1 /\ NoSnapshot.revision = 0
    BY DEF Genesis, ActiveSnapshot, NoSnapshot
  <2> QED BY <1>g, <1>1, <2>1
<1>7. mem' = disk' /\ mem'.group = NoGroup
      /\ \/ mem'.membership = NoSnapshot
         \/ mem'.membership = Genesis /\ open' = GenesisQueues
  BY <1>1, <1>3, <1>5, <1>6, <1>g
<1>8. Documents' /\ AheadOf(mem, mem')
  <2>1. Good(mem', open', residue')
    BY <1>5, <1>7 DEF Good
  <2>2. AheadOf(mem, mem') /\ AheadOf(mem', mem')
    <3>1. AheadOf(mem, mem)
      BY <1>g, AheadRefl DEF IInv
    <3>2. mem'.group = mem.group
      BY <1>7, <1>g
    <3> QED BY <3>1, <3>2 DEF AheadOf
  <2> QED BY <2>1, <2>2, <1>7 DEF Documents
<1>9. IdsUsed'
  BY <1>7, <1>g DEF IInv, IdsUsed
<1>10. AtLabel' /\ CatalogCurrent' /\ SampleTrue'
  BY <1>1, <1>3, <1>7, <1>g DEF AtLabel, CatalogCurrent, SampleTrue
<1> QED BY <1>8, <1>9, <1>10

\* What a restart during a transition does to the queues: it closes source
\* queues that may be closed already, or nothing at all.
LEMMA ResumeOpen ==
  ASSUME IInv, ResumeTransition \/ ResumeFails
  PROVE  /\ residue' = (residue \cup open) \ open'
         /\ \/ open' = open
            \/ /\ MayBeFenced(group)
               /\ \E S \in SUBSET SourceQueues(group) : open' = open \ S
<1> DEFINE src == SourceQueues(group)
           tgt == TargetQueues(group)
<1>g. /\ mem \in PersistentState /\ group \in GroupState /\ group.spec.id # 0
      /\ Sound(group, mem.membership, open, residue)
  BY GoodSound DEF IInv, TypeOK, PersistentState, group, ResumeTransition, ResumeFails, InTransition
<1>1. src \cap tgt = {}
  BY <1>g, EpochsDiffer
<1>2. residue' = (residue \cup open) \ open'
  BY DEF ResumeTransition, ResumeFails, SetIngress, Residue
<1>3. SourceIngress(group) => open = src
  BY <1>g DEF SourceIngress, Sound, Shape, Ingress, MayBeFenced, GroupState, Phase, PreCommit
<1>4. ~SourceIngress(group) => MayBeFenced(group)
  BY DEF SourceIngress, MayBeFenced
<1>5. TargetIngress(group) => open = tgt
  BY <1>g DEF TargetIngress, Sound, Shape, Ingress
<1>6. TargetAccepted(group) /\ ~TargetIngress(group) => tgt \cap open = {}
  BY DEF TargetAccepted, Exact
<1>7. CASE ResumeTransition
  <2>1. open' = Switch(Switch(open, src, SourceIngress(group)), tgt, TargetIngress(group))
        /\ TargetAccepted(group)
    BY <1>7 DEF ResumeTransition
  <2> HIDE DEF src, tgt
  <2>2. CASE TargetIngress(group)
    <3>1. open' = open
      BY <2>1, <2>2, <1>1, <1>3, <1>5 DEF Switch
    <3> QED BY <3>1, <1>2
  <2>3. CASE ~TargetIngress(group)
    <3>1. open' = Switch(open, src, SourceIngress(group))
      BY <2>1, <2>3, <1>1, <1>3, <1>6 DEF Switch
    <3>2. open' = open \/ (MayBeFenced(group) /\ open' = open \ src)
      BY <3>1, <1>3, <1>4 DEF Switch
    <3> QED BY <3>2, <1>2 DEF src
  <2> QED BY <2>2, <2>3
<1>8. CASE ResumeFails
  <2>1. \/ \E S \in SUBSET src : open' = Switch(open, S, SourceIngress(group))
        \/ /\ TargetIngress(group)
           /\ \E S \in SUBSET tgt : open' = Switch(Switch(open, src, SourceIngress(group)), S, TRUE)
    BY <1>8 DEF ResumeFails, SetIngress
  <2> HIDE DEF src, tgt
  <2>2. CASE \E S \in SUBSET src : open' = Switch(open, S, SourceIngress(group))
    <3>1. PICK S \in SUBSET src : open' = Switch(open, S, SourceIngress(group))
      BY <2>2
    <3>2. open' = open \/ (MayBeFenced(group) /\ open' = open \ S)
      BY <3>1, <1>3, <1>4 DEF Switch
    <3> QED BY <3>2, <1>2 DEF src
  <2>3. CASE /\ TargetIngress(group)
             /\ \E S \in SUBSET tgt : open' = Switch(Switch(open, src, SourceIngress(group)), S, TRUE)
    <3>1. open' = open
      BY <2>3, <1>1, <1>3, <1>5 DEF Switch
    <3> QED BY <3>1, <1>2
  <2> QED BY <2>1, <2>2, <2>3
<1> QED BY <1>7, <1>8

\* Every other start finds, or replays, the ingress the document stands for.
LEMMA ResumeStep ==
  ASSUME IInv, ResumeIdle \/ ResumeTransition \/ ResumeFails
  PROVE  /\ Documents' /\ IdsUsed' /\ AheadOf(mem, mem')
         /\ AtLabel' /\ CatalogCurrent' /\ SampleTrue'
<1> USE DEF store, broker0
<1>g. /\ mem \in PersistentState /\ group = mem.group /\ mem = disk
      /\ sample = {} /\ UNCHANGED <<mem, disk, sample, begun>>
      /\ Good(mem, open, residue)
  BY DEF ResumeIdle, ResumeTransition, ResumeFails, IInv, TypeOK, AtLabel, SampleTrue, group
<1>1. \/ pc' = "idle" /\ catalog' = mem.membership
      \/ pc' = "down"
  BY DEF ResumeIdle, ResumeTransition, ResumeFails
<1>2. Good(mem, open', residue')
  <2>1. CASE ResumeIdle
    <3>1. "Completed" \in mem.group.flags
      BY <2>1, <1>g, GoodSound, NoGroupFields DEF ResumeIdle, InTransition, Good, Sound, Shape
    <3>2. mem.membership # NoSnapshot
      BY <2>1 DEF ResumeIdle
    <3>3. LET m == mem.membership
          IN m = ActiveSnapshot(m.revision, m.epoch, m.current) /\ open = {m.epoch} \X m.current
      BY <3>1, <3>2, <1>g, CompletedActive
    <3>4. open = CurrentQueues(mem.membership) /\ CurrentIngress(mem.membership)
      <4>1. mem.membership.phase = "ACTIVE"
        BY <3>3, ActiveFields
      <4> QED BY <4>1, <3>3 DEF CurrentQueues, CurrentIngress
    <3>5. open' = open /\ residue' \subseteq residue
      BY <2>1, <3>4 DEF ResumeIdle, SetIngress, Switch, Residue
    <3> QED BY <3>5, <1>g, ResidueShrinks
  <2>2. CASE ResumeTransition \/ ResumeFails
    <3>1. CASE open' = open
      <4>1. residue' \subseteq residue
        BY <2>2, <3>1, ResumeOpen
      <4> QED BY <3>1, <4>1, <1>g, ResidueShrinks
    <3>2. CASE open' # open
      <4>1. MayBeFenced(mem.group) /\ \E S \in SUBSET SourceQueues(mem.group) : open' = open \ S
        BY <2>2, <3>2, <1>g, ResumeOpen
      <4>2. PICK S \in SUBSET SourceQueues(mem.group) : open' = open \ S
        BY <4>1
      <4>3. mem.group.spec.id # 0
        BY <2>2, <1>g DEF ResumeTransition, ResumeFails, InTransition
      <4>4. residue' = (residue \cup open) \ (open \ S)
        BY <2>2, <4>2, ResumeOpen
      <4> QED BY <4>1, <4>2, <4>3, <4>4, <1>g, CloseGood
    <3> QED BY <3>1, <3>2
  <2> QED BY <2>1, <2>2
<1>3. AheadOf(mem, mem)
  BY <1>g, AheadRefl
<1>4. Documents' /\ IdsUsed' /\ AheadOf(mem, mem')
  BY <1>2, <1>3, <1>g DEF Documents, IdsUsed, IInv
<1>5. AtLabel' /\ CatalogCurrent' /\ SampleTrue'
  BY <1>1, <1>g DEF AtLabel, CatalogCurrent, SampleTrue
<1> QED BY <1>4, <1>5

-----------------------------------------------------------------------------

\* One step of any actor preserves the inductive invariant, and memory never
\* falls behind itself.
LEMMA NextStep ==
  ASSUME IInv, Next
  PROVE  IInv' /\ AheadOf(mem, mem')
<1> DEFINE Kept == /\ Documents' /\ IdsUsed' /\ AheadOf(mem, mem')
                   /\ AtLabel' /\ CatalogCurrent' /\ SampleTrue'
<1>1. TypeOK'
  BY ReconcileType, HandlerType, WorkerType, RestartType DEF Next, IInv
<1> SUFFICES Kept
  <2>1. ASSUME Kept PROVE IInv' /\ AheadOf(mem, mem')
    <3>1. mem' \in PersistentState /\ Good(mem', open', residue')
      BY <1>1, <2>1 DEF TypeOK, Documents
    <3>2. CopiesBehind' /\ PolicyCurrent'
      BY <2>1, <3>1, CopiesStep, PolicyStep
    <3> QED BY <1>1, <2>1, <3>2 DEF IInv, Documents
  <2> QED BY <2>1
<1>2. CASE Reconcile
  BY <1>2, IntentStep, MembershipStep, PublishSteps, RecordStep, PhaseSteps, FlagSteps, IngressSteps
     DEF Reconcile
<1>3. ASSUME NEW c \in commands, Acknowledge(c) PROVE Kept
  BY <1>3, AcknowledgeStep
<1>4. CASE (\E b \in Broker : MonitorRead(b)) \/ Observe
  BY <1>4, DrainSteps
<1>5. CASE RequestRollback \/ TimeoutRollback
  BY <1>5, RollbackStep DEF RequestRollback, TimeoutRollback
<1>6. CASE \/ DeadlinePasses \/ \E q \in residue : Consume(q)
           \/ \E p \in Participant : ReadinessAges(p)
  BY <1>6, EnvironmentSteps
<1>7. CASE \/ StartCleanup \/ CleanupNext \/ PolicyCleanup \/ PolicyPrepare
           \/ \E proposed \in SUBSET Broker : Recommend(proposed)
  BY <1>7, WorkerSteps
<1>8. CASE Begin
  BY <1>8, BeginStep
<1>9. CASE Crash
  BY <1>9, CrashStep
<1>10. CASE Bootstrap
  BY <1>10, GenesisStep, ResumeStep DEF Bootstrap
<1> QED
  BY <1>2, <1>3, <1>4, <1>5, <1>6, <1>7, <1>8, <1>9, <1>10 DEF Next

LEMMA InitInv == Init => IInv
<1> SUFFICES ASSUME Init PROVE IInv
  OBVIOUS
<1>1. TypeOK
  BY InitType
<1>2. /\ mem = EmptyState /\ disk = EmptyState /\ pc = "down" /\ open = {} /\ residue = {} /\ sample = {}
      /\ begun = 0 /\ cleaning = {} /\ policy = NoPolicy
  BY DEF Init
<1>3. mem.group = NoGroup /\ mem.membership = NoSnapshot
  BY <1>2 DEF EmptyState
<1>4. Good(mem, open, residue) /\ AheadOf(mem, mem)
  <2>1. Good(mem, open, residue)
    BY <1>2, <1>3 DEF Good
  <2>2. mem \in PersistentState
    BY <1>1 DEF TypeOK
  <2> QED BY <2>1, <2>2, AheadRefl
<1>5. IdsUsed
  <2>1. mem.group.spec.id = 0 /\ disk.group.spec.id = 0
    BY <1>2, <1>3, NoGroupFields
  <2> QED BY <2>1, <1>2 DEF IdsUsed
<1>6. CopiesBehind /\ PolicyCurrent
  <2>1. NoPolicy.old = {} /\ NoPolicy.spec.id = 0
    BY NoGroupFields DEF NoPolicy
  <2> QED BY <1>2, <2>1 DEF CopiesBehind, PolicyCurrent, Recommending
<1> QED BY <1>1, <1>2, <1>4, <1>5, <1>6 DEF IInv, AtLabel, CatalogCurrent, SampleTrue

\* The inductive invariant holds in every reachable state, for any brokers,
\* participants and numbers of transitions, crashes and failures.
THEOREM Invariant == Spec => []IInv
<1>1. IInv /\ [Next]_vars => IInv'
  <2> SUFFICES ASSUME IInv, [Next]_vars PROVE IInv'
    OBVIOUS
  <2>1. CASE Next
    BY <2>1, NextStep
  <2>2. CASE UNCHANGED vars
    <3>1. TypeOK' /\ Good(mem, open, residue)' /\ Good(disk, open, residue)' /\ AheadOf(mem, disk)'
      BY <2>2 DEF IInv, TypeOK, vars
    <3>2. CatalogCurrent' /\ SampleTrue' /\ IdsUsed'
      BY <2>2 DEF IInv, CatalogCurrent, SampleTrue, IdsUsed, vars, Is, group, spec0
    <3>3. AtLabel'
      BY <2>2 DEF IInv, AtLabel, InTransition, Publishing, Advertised, PublishedPhase, Is, group, spec0,
           SourceQueues, TargetQueues, vars
    <3>4. CopiesBehind' /\ PolicyCurrent'
      BY <2>2 DEF IInv, CopiesBehind, PolicyCurrent, Behind, Recommending, NextSpec, TargetQueues, vars, Is,
           group, workers
    <3> QED BY <3>1, <3>2, <3>3, <3>4 DEF IInv
  <2> QED BY <2>1, <2>2
<1> QED BY <1>1, InitInv, PTL DEF Spec
=============================================================================
