------------------------ MODULE ControllerStepProofs ------------------------
(***************************************************************************)
(* The actions that publish a phase, change or verify queue ingress, record*)
(* what participants and brokers report, or ask for the rollback: each one *)
(* preserves the invariant of ControllerInv.                               *)
(***************************************************************************)
EXTENDS ControllerDocumentProofs

\* What publish() advertises, in the two cases.
LEMMA AdvertisedIs ==
  /\ Is("RollingBack") => Advertised = RollbackSnapshot(spec0)
  /\ ~Is("RollingBack") => Advertised = controlSnapshot(spec0, group.phase, FALSE)
<1>1. CASE Is("RollingBack")
  <2>1. Advertised = controlSnapshot(spec0, "ACTIVATE", Is("RollingBack"))
    BY <1>1 DEF Advertised, PublishedPhase
  <2>2. controlSnapshot(spec0, "ACTIVATE", Is("RollingBack")) = RollbackSnapshot(spec0)
    BY <1>1, Zenon DEF controlSnapshot
  <2> QED BY <1>1, <2>1, <2>2
<1>2. CASE ~Is("RollingBack")
  <2>1. Is("RollingBack") = FALSE
    BY <1>2 DEF Is
  <2>2. Advertised = controlSnapshot(spec0, group.phase, Is("RollingBack"))
    BY <1>2 DEF Advertised, PublishedPhase
  <2> QED BY <1>2, <2>1, <2>2, Zenon
<1> QED BY <1>1, <1>2

\* Saving the membership before it is published.
LEMMA MembershipStep ==
  ASSUME IInv, SaveMembership
  PROVE  /\ Documents' /\ IdsUsed' /\ AheadOf(mem, mem')
         /\ AtLabel' /\ CatalogCurrent' /\ SampleTrue'
<1> USE DEF store, broker0, ingress
<1>g. /\ mem \in PersistentState /\ disk \in PersistentState
      /\ group \in GroupState /\ group = mem.group /\ spec0 = group.spec
  BY DEF IInv, TypeOK, PersistentState, group, spec0
<1>id. pc = "membership" /\ spec0.id # 0 /\ "Completed" \notin group.flags /\ Publishing
  BY DEF SaveMembership, IInv, AtLabel, InTransition, spec0, group
<1>s. Sound(group, mem.membership, open, residue)
  BY <1>g, <1>id, GoodSound DEF IInv
<1> DEFINE next == [mem EXCEPT !.membership = Advertised]
<1>1. next \in PersistentState /\ next.group = group /\ next.membership = Advertised
  BY <1>g, AdvertisedType DEF IInv, PersistentState
<1>2. \/ Advertised = mem.membership /\ pc' = "publish" /\ UNCHANGED store
      \/ Saved(next) /\ pc' = "publish"
      \/ SaveFailed(next) /\ pc' = "idle"
  BY DEF SaveMembership
<1>3. UNCHANGED <<catalog, open, residue, sample, begun>>
  BY DEF SaveMembership
<1> HIDE DEF next
<1>4. Held(group, Advertised)
  BY <1>id, <1>s, <1>g, AdvertisedIs DEF Publishing, Held, Sound, Shape, Is, group
<1>5. Good(next, open, residue) /\ AheadOf(mem, next)
  <2>1. Sound(next.group, next.membership, open, residue)
    BY <1>1, <1>4, <1>s DEF Sound
  <2>2. AheadOf(mem, mem)
    BY <1>g, AheadRefl DEF IInv
  <2>3. AheadOf(mem, next)
    BY <2>2, <1>1, <1>g DEF AheadOf
  <2> QED BY <2>1, <2>3, <1>1, GoodSound
<1>6. Documents' /\ AheadOf(mem, mem') /\ mem' \in {mem, next} /\ disk' \in {disk, next}
  <2>0. AheadOf(mem, mem)
    BY <1>g, AheadRefl DEF IInv
  <2>1. CASE UNCHANGED store
    BY <2>0, <2>1, <1>3 DEF Documents, IInv
  <2>2. CASE Saved(next) \/ SaveFailed(next)
    BY <2>0, <2>2, <1>1, <1>3, <1>5, SaveGood DEF Documents, IInv, Saved, SaveFailed
  <2> QED BY <1>2, <2>1, <2>2
<1>7. mem'.group = group /\ IdsUsed'
  BY <1>6, <1>1, <1>3, <1>g DEF IdsUsed, IInv
<1>8. pc' = "publish" => mem'.membership = Advertised
  BY <1>2, <1>1 DEF Saved
<1>9. Advertised' = Advertised /\ Publishing'
  BY <1>7, <1>g, <1>id DEF Advertised, PublishedPhase, Publishing, Is, group, spec0
<1>10. AtLabel'
  BY <1>2, <1>7, <1>8, <1>9, <1>id, <1>g DEF AtLabel, InTransition, group, spec0
<1>11. CatalogCurrent'
  <2>1. mem'.group # NoGroup
    BY <1>7, <1>id, <1>g, NoGroupFields
  <2>2. "RollbackPublished" \notin group.flags /\ "ACTIVATE" \notin group.published
    BY <1>id, <1>s DEF Publishing, Is, group, Sound, Shape, PreCommit
  <2> QED BY <2>1, <2>2, <1>7 DEF CatalogCurrent, Is, group
<1>12. SampleTrue'
  BY <1>2, <1>3, <1>7, <1>g DEF SampleTrue, IInv, Is, group, spec0
<1> QED BY <1>6, <1>7, <1>10, <1>11, <1>12

\* Starting a publication, and sending it to Broker 0.
LEMMA PublishSteps ==
  ASSUME IInv, PublishCommit \/ PublishRollback \/ Publish
  PROVE  /\ Documents' /\ IdsUsed' /\ AheadOf(mem, mem')
         /\ AtLabel' /\ CatalogCurrent' /\ SampleTrue'
<1> USE DEF store, broker0, ingress
<1>g. /\ mem \in PersistentState /\ group \in GroupState /\ group = mem.group /\ spec0 = group.spec
  BY DEF IInv, TypeOK, PersistentState, group, spec0
<1>1. UNCHANGED <<mem, disk, open, residue, sample, begun>> /\ pc # "down" /\ pc' # "down"
  BY DEF PublishCommit, PublishRollback, Publish, Forward, Back, Turn
<1>id. spec0.id # 0 /\ "Completed" \notin group.flags
  BY DEF PublishCommit, PublishRollback, Publish, IInv, AtLabel, InTransition, Forward, Back, Turn, Is,
       group, spec0
<1>s. Sound(group, mem.membership, open, residue)
  BY <1>g, <1>id, GoodSound DEF IInv
<1>2. Documents' /\ IdsUsed' /\ AheadOf(mem, mem') /\ SampleTrue'
  BY <1>1, <1>g, AheadRefl DEF Documents, IdsUsed, SampleTrue, IInv, Is, group, spec0
<1>3. Publishing
  <2>1. CASE PublishCommit
    BY <2>1 DEF PublishCommit, Forward, Publishing, Is, group
  <2>2. CASE PublishRollback
    BY <2>2 DEF PublishRollback, Back, Publishing, MayBeFenced, Is, group
  <2>3. CASE Publish
    BY <2>3 DEF Publish, IInv, AtLabel
  <2> QED BY <2>1, <2>2, <2>3
<1>4. Publishing' /\ Advertised' = Advertised
  BY <1>3, <1>1 DEF Publishing, Advertised, PublishedPhase, Is, group, spec0
<1>5. /\ pc' \in {"membership", "record", "idle"}
      /\ pc' = "record" => pc = "publish" /\ catalog' = Advertised
  BY DEF PublishCommit, PublishRollback, Publish
<1>6. AtLabel'
  BY <1>1, <1>4, <1>5, <1>id DEF AtLabel, IInv, InTransition, group, spec0
<1>7. CatalogCurrent'
  <2>1. mem'.group # NoGroup
    BY <1>1, <1>id, <1>g, NoGroupFields
  <2>2. "RollbackPublished" \notin group.flags /\ "ACTIVATE" \notin group.published
    BY <1>3, <1>s DEF Publishing, Is, group, Sound, Shape, PreCommit
  <2> QED BY <2>1, <2>2, <1>1 DEF CatalogCurrent, Is, group
<1> QED BY <1>2, <1>6, <1>7

\* Recording a publication.
LEMMA RecordStep ==
  ASSUME IInv, RecordPublished
  PROVE  /\ Documents' /\ IdsUsed' /\ AheadOf(mem, mem')
         /\ AtLabel' /\ CatalogCurrent' /\ SampleTrue'
<1> USE DEF store, broker0, ingress
<1>g. /\ mem \in PersistentState /\ group \in GroupState /\ group = mem.group /\ spec0 = group.spec
  BY DEF IInv, TypeOK, PersistentState, group, spec0
<1>id. /\ pc = "record" /\ spec0.id # 0 /\ "Completed" \notin group.flags /\ Publishing
       /\ mem.membership = Advertised /\ catalog = Advertised
  BY DEF RecordPublished, IInv, AtLabel, InTransition, group, spec0
<1>s. Sound(group, mem.membership, open, residue)
  BY <1>g, <1>id, GoodSound DEF IInv
<1>1. UNCHANGED <<catalog, open, residue, sample, begun>>
  BY DEF RecordPublished
<1>2. PICK h : /\ Advances(h) /\ updateGroup(h, "idle") /\ h.phase = group.phase
               /\ "RollingBack" \in h.flags <=> "RollingBack" \in group.flags
  <2>1. CASE Is("RollingBack")
    <3> DEFINE h == [group EXCEPT !.flags = @ \cup {"RollbackPublished"}]
    <3>1. FlagAllowed(group, mem.membership, open, "RollbackPublished") /\ "RollbackPublished" \in Flag
      BY <2>1, <1>id, <1>g, AdvertisedIs DEF FlagAllowed, Publishing, Is, group, Flag
    <3>2. Advances(h)
      BY <3>1, <1>id, FlagAdvances
    <3>3. h.phase = group.phase /\ ("RollingBack" \in h.flags <=> "RollingBack" \in group.flags)
      BY <1>g DEF GroupState
    <3>4. updateGroup(h, "idle")
      BY <2>1 DEF RecordPublished, SetFlag
    <3> HIDE DEF h
    <3> QED BY <3>2, <3>3, <3>4
  <2>2. CASE ~Is("RollingBack")
    <3> DEFINE F == IF group.phase = "COMMIT"
                    THEN group.flags \cup {"FenceAttempted", "Fenced", "FenceVerified"} ELSE group.flags
               h == [group EXCEPT !.published = @ \cup {group.phase}, !.flags = F]
    <3>1. /\ F \in {group.flags, group.flags \cup {"FenceAttempted", "Fenced", "FenceVerified"}}
          /\ group.phase # "COMMIT" => F = group.flags
      OBVIOUS
    <3>2. F = group.flags
      BY <1>s DEF Sound, Shape
    <3>3. updateGroup(h, "idle")
      BY <2>2 DEF RecordPublished
    <3> HIDE DEF F
    <3>4. h \in GroupState /\ h.phase = group.phase /\ h.flags = group.flags /\ h.spec = group.spec
      BY <3>2, <1>g DEF GroupState
    <3>5. mem.membership = controlSnapshot(group.spec, group.phase, FALSE)
      BY <2>2, <1>id, <1>g, AdvertisedIs
    <3>6. /\ "RollingBack" \notin group.flags
          /\ group.phase # "COMMIT" => group.phase \in group.issued
          /\ group.phase = "ACTIVATE" => "TargetIngressVerified" \in group.flags
      BY <2>2, <1>id DEF Publishing, Is, group
    <3>6a. Sound(group, controlSnapshot(group.spec, group.phase, FALSE), open, residue)
      BY <3>5, <1>s
    <3>6b. Sound(h, controlSnapshot(group.spec, group.phase, FALSE), open, residue)
      BY <3>1, <3>6, <3>6a, <1>g, AddPublished, Zenon
    <3>7. Sound(h, mem.membership, open, residue)
      BY <3>5, <3>6b
    <3> HIDE DEF h
    <3>8. Advances(h)
      BY <3>4, <3>7, <1>g, <1>s DEF Advances, Sound, Shape
    <3> QED BY <3>3, <3>4, <3>8
  <2> QED BY <2>1, <2>2
<1>3. /\ Documents' /\ IdsUsed' /\ AheadOf(mem, mem') /\ mem'.membership = mem.membership /\ pc' = "idle"
      /\ mem' = mem \/ mem'.group = h
  BY <1>1, <1>2, UpdateStep DEF updateGroup
<1>4. /\ mem'.group.spec = spec0 /\ mem'.group.phase = group.phase
      /\ "RollingBack" \in mem'.group.flags <=> "RollingBack" \in group.flags
  BY <1>2, <1>3, <1>g DEF Advances
<1>5. AtLabel'
  BY <1>3 DEF AtLabel
<1>6. CatalogCurrent'
  BY <1>1, <1>3, <1>id DEF CatalogCurrent
<1>7. SampleTrue'
  BY <1>1, <1>3, <1>4, <1>id DEF SampleTrue, IInv, Is, group, spec0
<1> QED BY <1>3, <1>5, <1>6, <1>7

\* The steps that switch queue ingress.
LEMMA IngressSteps ==
  ASSUME IInv, Fence \/ EnableIngress \/ Unfence
  PROVE  /\ Documents' /\ IdsUsed' /\ AheadOf(mem, mem')
         /\ AtLabel' /\ CatalogCurrent' /\ SampleTrue'
<1> USE DEF store, broker0, ingress
<1>g. /\ mem \in PersistentState /\ disk \in PersistentState
      /\ group \in GroupState /\ group = mem.group /\ spec0 = group.spec
  BY DEF IInv, TypeOK, PersistentState, group, spec0
<1>1. UNCHANGED <<mem, disk, catalog, sample, begun>> /\ pc # "down"
  BY DEF Fence, EnableIngress, Unfence, PauseAcknowledged, Forward, Back, Turn
<1>id. spec0.id # 0 /\ "Completed" \notin group.flags
  BY DEF Fence, EnableIngress, Unfence, PauseAcknowledged, Forward, Back, Turn, IInv, AtLabel,
       InTransition, Is, group, spec0
<1>s. Sound(group, mem.membership, open, residue) /\ AheadOf(mem, mem)
  BY <1>g, <1>id, GoodSound, AheadRefl DEF IInv
<1>2. IdsUsed' /\ AheadOf(mem, mem')
  BY <1>1, <1>s DEF IdsUsed, IInv
<1>3. ASSUME pc' # "down" PROVE CatalogCurrent'
  BY <1>1, <1>3 DEF CatalogCurrent, IInv, Is, group
<1>4. CASE Fence
  <2>1. group.phase = "PAUSE" /\ "FenceAttempted" \in group.flags /\ "RollingBack" \notin group.flags
    BY <1>4 DEF Fence, PauseAcknowledged, Forward, IInv, AtLabel, Is, group
  <2>2. PICK S \in SUBSET SourceQueues(group) :
          /\ SetIngress(S, FALSE) /\ pc' \in {"recordFence", "idle"}
          /\ pc' = "recordFence" => S = SourceQueues(group)
    BY <1>4, Zenon DEF Fence, Change
  <2>3. open' = open \ S /\ residue' = (residue \cup open) \ (open \ S)
    BY <2>2 DEF SetIngress, Switch, Residue
  <2>4. Documents'
    BY <2>1, <2>3, <1>1, <1>g, <1>id, <1>s, FenceGood DEF Documents, IInv
  <2>5. open \subseteq SourceQueues(group)
    BY <2>1, <1>s DEF Sound, Ingress, PreCommit
  <2>6. AtLabel'
    BY <2>1, <2>2, <2>3, <2>5, <1>1, <1>id DEF AtLabel, InTransition, Is, group, spec0
  <2>7. SampleTrue'
    BY <2>1, <2>2, <1>1 DEF SampleTrue, IInv, Is, group, spec0
  <2> QED BY <2>2, <2>4, <2>6, <2>7, <1>2, <1>3
<1>5. CASE EnableIngress
  <2>1. group.phase = "ACTIVATE" /\ "RollingBack" \notin group.flags
    BY <1>5 DEF EnableIngress, Forward, Is, group
  <2>2. PICK S \in SUBSET TargetQueues(group) :
          /\ SetIngress(S, TRUE) /\ pc' \in {"recordEnable", "idle"}
          /\ pc' = "recordEnable" => S = TargetQueues(group)
    BY <1>5, Zenon DEF EnableIngress, Change
  <2>3. open' = open \cup S /\ residue' = (residue \cup open) \ (open \cup S)
    BY <2>2 DEF SetIngress, Switch, Residue
  <2>4. Documents'
    BY <2>1, <2>3, <1>1, <1>g, <1>id, <1>s, EnableGood DEF Documents, IInv
  <2>5. open \subseteq TargetQueues(group)
    BY <2>1, <1>s DEF Sound, Ingress
  <2>6. AtLabel'
    <3>1. pc' = "recordEnable" => open' = TargetQueues(group)'
      BY <2>2, <2>3, <2>5, <1>1 DEF TargetQueues, group
    <3> QED BY <3>1, <2>1, <2>2, <1>1, <1>id DEF AtLabel, InTransition, Is, group, spec0
  <2>7. SampleTrue'
    BY <2>2, <2>3, <1>1 DEF SampleTrue, IInv, Is, group, spec0
  <2> QED BY <2>2, <2>4, <2>6, <2>7, <1>2, <1>3
<1>6. CASE Unfence
  <2>1. "RollingBack" \in group.flags /\ "FenceAttempted" \in group.flags
    BY <1>6, <1>s DEF Unfence, Back, Is, group, Sound, Shape
  <2>2. PICK S \in SUBSET SourceQueues(group) :
          /\ SetIngress(S, TRUE) /\ pc' \in {"recordUnfence", "idle"}
          /\ pc' = "recordUnfence" => S = SourceQueues(group)
    BY <1>6, Zenon DEF Unfence, Change
  <2>3. open' = open \cup S /\ residue' = (residue \cup open) \ (open \cup S)
    BY <2>2 DEF SetIngress, Switch, Residue
  <2>4. Documents'
    BY <2>1, <2>3, <1>1, <1>g, <1>id, <1>s, UnfenceGood DEF Documents, IInv
  <2>5. open \subseteq SourceQueues(group)
    BY <2>1, <1>s DEF Sound, Shape, Ingress
  <2>6. AtLabel'
    <3>1. pc' = "recordUnfence" => open' = SourceQueues(group)'
      BY <2>2, <2>3, <2>5, <1>1 DEF SourceQueues, group
    <3> QED BY <3>1, <2>1, <2>2, <1>1, <1>id DEF AtLabel, InTransition, Is, group, spec0
  <2>7. SampleTrue'
    BY <2>1, <2>2, <1>1 DEF SampleTrue, IInv, Is, group, spec0
  <2> QED BY <2>2, <2>4, <2>6, <2>7, <1>2, <1>3
<1> QED BY <1>4, <1>5, <1>6

\* An acknowledgement, at any moment of Reconcile.
LEMMA AcknowledgeStep ==
  ASSUME IInv, NEW c \in commands, Acknowledge(c)
  PROVE  /\ Documents' /\ IdsUsed' /\ AheadOf(mem, mem')
         /\ AtLabel' /\ CatalogCurrent' /\ SampleTrue'
<1> USE DEF store, broker0, ingress
<1> DEFINE phase == controllerPhase(c.phase)
<1>g. /\ mem \in PersistentState /\ group \in GroupState /\ group = mem.group /\ spec0 = group.spec
      /\ c.participant \in Participant
  BY DEF IInv, TypeOK, PersistentState, group, spec0, Command
<1>id. /\ spec0.id # 0 /\ phase \in group.issued /\ c.participant \in Requirements(phase)
       /\ phase \in Phase /\ RecordAnswer(phase, c.participant) /\ pc # "down"
  BY <1>g DEF Acknowledge, GroupState
<1> HIDE DEF phase
<1>s. Sound(group, mem.membership, open, residue)
  BY <1>g, <1>id, GoodSound DEF IInv
<1> DEFINE h == [group EXCEPT !.acks[phase] = @ \cup {c.participant}]
<1>1. /\ h \in GroupState /\ h.flags = group.flags /\ h.spec = group.spec /\ h.phase = group.phase
      /\ h.published = group.published /\ h.issued = group.issued
  BY <1>g, <1>id DEF GroupState
<1>2. Sound(h, mem.membership, open, residue)
  BY <1>g, <1>s, <1>id, AddAck
<1>3. (Saved([mem EXCEPT !.group = h]) \/ SaveFailed([mem EXCEPT !.group = h])) /\ UNCHANGED pc
  <2>1. [mem EXCEPT !.group.acks[phase] = @ \cup {c.participant}] = [mem EXCEPT !.group = h]
    BY <1>g, <1>id DEF PersistentState
  <2> QED BY <2>1, <1>id DEF RecordAnswer
<1> HIDE DEF h
<1>4. Advances(h)
  BY <1>1, <1>2, <1>g, <1>s DEF Advances, Sound, Shape
<1>5. UNCHANGED <<pc, catalog, open, residue, sample, begun>> /\ pc # "down"
  BY <1>id DEF RecordAnswer
<1>6. /\ Documents' /\ IdsUsed' /\ AheadOf(mem, mem') /\ mem'.membership = mem.membership
      /\ mem' = mem \/ mem'.group = h
  BY <1>3, <1>4, <1>5, UpdateStep
<1>7. /\ mem'.group.spec = spec0 /\ mem'.group.published = group.published /\ mem'.group.issued = group.issued
      /\ mem'.group.phase = group.phase /\ mem'.group.flags = group.flags
  BY <1>1, <1>6, <1>g
<1>8. AtLabel'
  <2>1. Publishing' = Publishing
    BY <1>7, <1>g DEF Publishing, Is, group, MayBeFenced
  <2>2. Advertised' = Advertised
    BY <1>7, <1>g DEF Advertised, PublishedPhase, Is, group, spec0
  <2>3. SourceQueues(group)' = SourceQueues(group) /\ TargetQueues(group)' = TargetQueues(group)
    BY <1>7, <1>g DEF SourceQueues, TargetQueues, group
  <2> QED BY <2>1, <2>2, <2>3, <1>5, <1>6, <1>7, <1>g DEF AtLabel, IInv, InTransition, Is, group
<1>9. CatalogCurrent'
  <2>1. mem'.group # NoGroup
    BY <1>7, <1>id, NoGroupFields
  <2> QED BY <2>1, <1>5, <1>6, <1>7 DEF CatalogCurrent, IInv, Is, group
<1>10. SampleTrue'
  BY <1>5, <1>7 DEF SampleTrue, IInv, Is, group, spec0
<1> QED BY <1>6, <1>8, <1>9, <1>10

\* The drain monitor reads a source, and the controller takes the sample.
LEMMA DrainSteps ==
  ASSUME IInv, Observe \/ \E b \in Broker : MonitorRead(b)
  PROVE  /\ Documents' /\ IdsUsed' /\ AheadOf(mem, mem')
         /\ AtLabel' /\ CatalogCurrent' /\ SampleTrue'
<1> USE DEF store, broker0, ingress
<1>g. /\ mem \in PersistentState /\ group \in GroupState /\ group = mem.group /\ spec0 = group.spec
      /\ spec0.id \in Nat /\ begun \in Nat
  BY DEF IInv, TypeOK, PersistentState, group, spec0, GroupState, TransitionSpec
<1>1. CASE \E b \in Broker : MonitorRead(b)
  <2>1. PICK b \in Broker : MonitorRead(b)
    BY <1>1
  <2>2. UNCHANGED <<mem, disk, pc, catalog, open, residue, begun>> /\ pc # "down" /\ group.phase = "DRAIN"
    BY <2>1 DEF MonitorRead, Draining
  <2>3. Documents' /\ IdsUsed' /\ AheadOf(mem, mem') /\ CatalogCurrent'
    BY <2>2, <1>g, AheadRefl DEF Documents, IdsUsed, CatalogCurrent, IInv, Is, group
  <2>4. AtLabel'
    BY <2>2 DEF AtLabel, IInv, InTransition, Publishing, Advertised, PublishedPhase, Is, group, spec0,
         SourceQueues, TargetQueues
  <2>5. PICK zero \in BOOLEAN :
          /\ sample' = {[transition |-> spec0.id, broker |-> b, zero |-> zero]}
          /\ zero => <<spec0.fromEpoch, b>> \notin residue
    BY <2>1 DEF MonitorRead
  <2>6. spec0.id <= begun
    BY <1>g DEF IInv, IdsUsed
  <2>7. SampleTrue'
    <3>1. group' = group /\ spec0' = spec0
      BY <2>2 DEF group, spec0
    <3>2. \A s \in sample' : s.transition = spec0.id /\ s.broker = b /\ s.zero = zero
      BY <2>5
    <3>3. \A s \in sample' : pc' # "down" /\ s.transition <= begun'
      BY <3>2, <2>2, <2>6
    <3>4. group'.phase \notin {"PREPARE", "PAUSE"}
      BY <3>1, <2>2
    <3>5. \A s \in sample' : s.zero => <<spec0'.fromEpoch, s.broker>> \notin residue'
      BY <3>1, <3>2, <2>2, <2>5
    <3> QED BY <3>3, <3>4, <3>5 DEF SampleTrue
  <2> QED BY <2>3, <2>4, <2>7
<1>2. CASE Observe
  <2>1. UNCHANGED <<pc, catalog, open, residue, begun>> /\ pc = "idle" /\ sample' = {}
    BY <1>2 DEF Observe, Update
  <2>2. AtLabel' /\ SampleTrue'
    BY <2>1 DEF AtLabel, SampleTrue
  <2>3. PICK s \in sample :
          \/ /\ Draining /\ s.transition = spec0.id
             /\ Update([group EXCEPT !.drained = IF s.zero THEN @ \cup {s.broker} ELSE @ \ {s.broker}])
          \/ UNCHANGED <<store, pc>>
    BY <1>2 DEF Observe
  <2>4. CASE UNCHANGED <<store, pc>>
    BY <2>1, <2>2, <2>4, <1>g, AheadRefl DEF Documents, IdsUsed, CatalogCurrent, IInv, Is, group
  <2>5. CASE /\ Draining /\ s.transition = spec0.id
             /\ Update([group EXCEPT !.drained = IF s.zero THEN @ \cup {s.broker} ELSE @ \ {s.broker}])
    <3> DEFINE D == IF s.zero THEN group.drained \cup {s.broker} ELSE group.drained \ {s.broker}
               h == [group EXCEPT !.drained = D]
    <3>1. s.broker \in Broker
      BY DEF IInv, TypeOK
    <3>2. group.phase = "DRAIN" /\ "RollingBack" \notin group.flags
      BY <2>5 DEF Draining, Is, group
    <3>3. spec0.id # 0
      BY <1>g, <3>2, GoodSound, NoGroupFields DEF IInv
    <3>4. Sound(group, mem.membership, open, residue)
      BY <1>g, <3>3, GoodSound DEF IInv
    <3>5. D \subseteq Broker
      BY <3>1, <1>g DEF GroupState
    <3>6. \A b \in D \ group.drained : <<group.spec.fromEpoch, b>> \notin residue
      BY <2>5, <3>2, <1>g DEF IInv, SampleTrue, Is, group
    <3>7. Saved([mem EXCEPT !.group = h]) \/ SaveFailed([mem EXCEPT !.group = h])
      BY <2>5 DEF Update
    <3> HIDE DEF D
    <3>8. Sound(h, mem.membership, open, residue)
      BY <1>g, <3>2, <3>4, <3>5, <3>6, RecordSample
    <3>9. /\ h \in GroupState /\ h.flags = group.flags /\ h.spec = group.spec /\ h.phase = group.phase
          /\ h.published = group.published
      BY <1>g, <3>5 DEF GroupState
    <3> HIDE DEF h
    <3>10. Advances(h)
      BY <3>4, <3>8, <3>9, <1>g DEF Advances, Sound, Shape
    <3>11. /\ Documents' /\ IdsUsed' /\ AheadOf(mem, mem') /\ mem'.membership = mem.membership
           /\ mem' = mem \/ mem'.group = h
      BY <3>7, <3>10, <2>1, UpdateStep
    <3>12. CatalogCurrent'
      <4>1. mem'.group # NoGroup
        BY <3>3, <3>9, <3>11, <1>g, NoGroupFields
      <4>2. mem'.group.published = group.published /\ mem'.group.flags = group.flags
        BY <3>9, <3>11, <1>g
      <4> QED BY <4>1, <4>2, <3>11, <2>1 DEF CatalogCurrent, IInv, Is, group
    <3> QED BY <3>11, <3>12, <2>2
  <2> QED BY <2>3, <2>4, <2>5
<1> QED BY <1>1, <1>2

\* A rollback request.
LEMMA RollbackStep ==
  ASSUME IInv, RequestRollback \/ TimeoutRollback
  PROVE  /\ Documents' /\ IdsUsed' /\ AheadOf(mem, mem')
         /\ AtLabel' /\ CatalogCurrent' /\ SampleTrue'
<1> USE DEF store, broker0, ingress
<1>0. requestRollback
  BY DEF RequestRollback, TimeoutRollback
<1>g. /\ mem \in PersistentState /\ group \in GroupState /\ group = mem.group /\ spec0 = group.spec
  BY DEF IInv, TypeOK, PersistentState, group, spec0
<1>1. /\ pc = "idle" /\ spec0.id # 0 /\ group.phase \in PreCommit
      /\ UNCHANGED <<pc, catalog, open, residue, sample, begun>>
  BY <1>0, <1>g DEF requestRollback, Update, PreCommit, GroupState, Phase
<1> DEFINE h == [group EXCEPT !.flags = @ \cup {"RollingBack"}]
<1>2. Advances(h)
  <2>1. FlagAllowed(group, mem.membership, open, "RollingBack") /\ "RollingBack" \in Flag
    BY <1>1 DEF FlagAllowed, Flag
  <2> QED BY <2>1, <1>1, FlagAdvances
<1>3. Saved([mem EXCEPT !.group = h]) \/ SaveFailed([mem EXCEPT !.group = h])
  BY <1>0 DEF requestRollback, Update
<1>4. /\ h.flags = group.flags \cup {"RollingBack"} /\ h.spec = group.spec /\ h.phase = group.phase
      /\ h.published = group.published
  BY <1>g DEF GroupState
<1> HIDE DEF h
<1>5. /\ Documents' /\ IdsUsed' /\ AheadOf(mem, mem') /\ mem'.membership = mem.membership
      /\ mem' = mem \/ mem'.group = h
  BY <1>1, <1>2, <1>3, UpdateStep
<1>6. AtLabel'
  BY <1>1 DEF AtLabel
<1>7. CatalogCurrent'
  <2>1. mem'.group # NoGroup
    BY <1>1, <1>4, <1>5, <1>g, NoGroupFields
  <2>2. /\ mem'.group.published = group.published
        /\ "RollbackPublished" \in mem'.group.flags => "RollbackPublished" \in group.flags
    BY <1>4, <1>5, <1>g
  <2> QED BY <2>1, <2>2, <1>1, <1>5 DEF CatalogCurrent, IInv, Is, group
<1>8. SampleTrue'
  BY <1>1, <1>4, <1>5, <1>g DEF SampleTrue, IInv, Is, group, spec0
<1> QED BY <1>5, <1>6, <1>7, <1>8

\* Time passes, and consumers empty closed queues.
LEMMA EnvironmentSteps ==
  ASSUME IInv,
         \/ DeadlinePasses
         \/ \E q \in residue : Consume(q)
         \/ \E p \in Participant : ReadinessAges(p)
  PROVE  /\ Documents' /\ IdsUsed' /\ AheadOf(mem, mem')
         /\ AtLabel' /\ CatalogCurrent' /\ SampleTrue'
<1> USE DEF store, broker0, ingress
<1>1. UNCHANGED <<mem, disk, pc, catalog, open, sample, begun>> /\ residue' \subseteq residue
  BY DEF DeadlinePasses, Consume, ReadinessAges
<1>2. Documents' /\ AheadOf(mem, mem')
  BY <1>1, ResidueShrinks, AheadRefl DEF Documents, IInv, TypeOK
<1>3. IdsUsed' /\ CatalogCurrent' /\ SampleTrue'
  BY <1>1 DEF IdsUsed, CatalogCurrent, SampleTrue, IInv, Is, group, spec0
<1>4. AtLabel'
  BY <1>1 DEF AtLabel, IInv, InTransition, Publishing, Advertised, PublishedPhase, Is, group, spec0,
       SourceQueues, TargetQueues
<1> QED BY <1>2, <1>3, <1>4
=============================================================================
