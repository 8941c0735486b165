---------------------- MODULE ControllerDocumentProofs ----------------------
(***************************************************************************)
(* One state document: each update the controller makes, under the         *)
(* conditions it makes it, leads from a sound transition to a sound one.   *)
(* Then queue ingress, and the actions that do no more than save an update.*)
(***************************************************************************)
EXTENDS ControllerProofs

-----------------------------------------------------------------------------
(* Updates of a transition *)

\* When the controller sets a flag of the transition g beside membership m.
FlagAllowed(g, m, O, flag) ==
  \/ /\ flag = "FenceAttempted" /\ g.phase = "PAUSE" /\ "PAUSE" \in g.published
     /\ "RollingBack" \notin g.flags
  \/ /\ flag = "Fenced" /\ g.phase = "PAUSE" /\ "FenceAttempted" \in g.flags
     /\ "RollingBack" \notin g.flags /\ O = {}
  \/ /\ flag = "TargetIngressEnabled" /\ g.phase = "ACTIVATE" /\ O = TargetQueues(g)
  \/ /\ flag = "TargetIngressVerified" /\ g.phase = "ACTIVATE" /\ "TargetIngressEnabled" \in g.flags
  \/ /\ flag = "RollingBack" /\ g.phase \in PreCommit
  \/ /\ flag = "Unfenced" /\ "RollingBack" \in g.flags /\ "FenceAttempted" \in g.flags
     /\ O = SourceQueues(g)
  \/ /\ flag = "RollbackPublished" /\ "RollingBack" \in g.flags /\ ~MayBeFenced(g)
     /\ m = RollbackSnapshot(g.spec)
  \/ /\ flag = "Completed"
     /\ "RollbackPublished" \in g.flags \/ "ACTIVATE" \in g.published

\* Setting a flag when it is allowed leaves the transition sound.
LEMMA AddFlag ==
  ASSUME NEW g \in GroupState, NEW m, NEW O, NEW R, NEW flag \in Flag,
         Sound(g, m, O, R), FlagAllowed(g, m, O, flag)
  PROVE  Sound([g EXCEPT !.flags = @ \cup {flag}], m, O, R)
<1> DEFINE h == [g EXCEPT !.flags = @ \cup {flag}]
<1>0. /\ h.flags = g.flags \cup {flag} /\ h.spec = g.spec /\ h.phase = g.phase
      /\ h.acks = g.acks /\ h.issued = g.issued /\ h.published = g.published /\ h.drained = g.drained
  BY DEF GroupState
<1> HIDE DEF h
<1>1. Shape(h)
  BY <1>0 DEF Sound, Shape, MayBeFenced, PreCommit, FlagAllowed, Ingress, TargetQueues
<1>2. Held(h, m)
  BY <1>0 DEF Sound, Shape, Held, EnteredWith, MayBeFenced, FlagAllowed
<1>3. Ingress(h, O) /\ Drained(h, R)
  BY <1>0 DEF Sound, Shape, Ingress, Drained, MayBeFenced, PreCommit, SourceQueues, TargetQueues, FlagAllowed
<1> QED BY <1>1, <1>2, <1>3 DEF Sound, h

\* Recording command intent, acknowledgements and drain samples.
LEMMA AddIssued ==
  ASSUME NEW g \in GroupState, NEW m, NEW O, NEW R, Sound(g, m, O, R)
  PROVE  Sound([g EXCEPT !.issued = @ \cup {g.phase}], m, O, R)
<1> DEFINE h == [g EXCEPT !.issued = @ \cup {g.phase}]
<1>0. /\ h.flags = g.flags /\ h.spec = g.spec /\ h.phase = g.phase /\ h.acks = g.acks
      /\ h.issued = g.issued \cup {g.phase} /\ h.published = g.published /\ h.drained = g.drained
  BY DEF GroupState
<1> HIDE DEF h
<1>1. Shape(h)
  BY <1>0 DEF Sound, Shape, MayBeFenced, PreCommit
<1>2. Held(h, m) /\ Ingress(h, O) /\ Drained(h, R)
  BY <1>0 DEF Sound, Held, EnteredWith, MayBeFenced, Ingress, Drained, SourceQueues, TargetQueues
<1> QED BY <1>1, <1>2 DEF Sound, h

LEMMA AddAck ==
  ASSUME NEW g \in GroupState, NEW m, NEW O, NEW R, Sound(g, m, O, R),
         NEW phase \in Phase, NEW p \in Requirements(phase), phase \in g.issued
  PROVE  Sound([g EXCEPT !.acks[phase] = @ \cup {p}], m, O, R)
<1> DEFINE h == [g EXCEPT !.acks[phase] = @ \cup {p}]
<1>0. /\ h.flags = g.flags /\ h.spec = g.spec /\ h.phase = g.phase
      /\ h.issued = g.issued /\ h.published = g.published /\ h.drained = g.drained
      /\ \A q \in Phase : h.acks[q] = IF q = phase THEN g.acks[q] \cup {p} ELSE g.acks[q]
  BY DEF GroupState
<1> HIDE DEF h
<1>1. \A q \in Phase : h.acks[q] # {} => q \in h.issued /\ h.acks[q] \subseteq Requirements(q)
  <2>1. \A q \in Phase : g.acks[q] # {} => q \in g.issued /\ g.acks[q] \subseteq Requirements(q)
    BY DEF Sound, Shape
  <2>2. TAKE q \in Phase
  <2>3. CASE q = phase
    <3>1. g.acks[q] \subseteq Requirements(q)
      BY <2>1
    <3> QED BY <3>1, <2>3, <1>0
  <2>4. CASE q # phase
    BY <2>4, <2>1, <1>0
  <2> QED BY <2>3, <2>4
<1>2. Shape(h)
  BY <1>0, <1>1 DEF Sound, Shape, MayBeFenced, PreCommit
<1>3. Held(h, m) /\ Ingress(h, O) /\ Drained(h, R)
  BY <1>0 DEF Sound, Held, EnteredWith, MayBeFenced, Ingress, Drained, SourceQueues, TargetQueues
<1> QED BY <1>2, <1>3 DEF Sound, h

LEMMA RecordSample ==
  ASSUME NEW g \in GroupState, NEW m, NEW O, NEW R, Sound(g, m, O, R),
         g.phase = "DRAIN", NEW D, D \subseteq Broker,
         \A b \in D \ g.drained : <<g.spec.fromEpoch, b>> \notin R
  PROVE  Sound([g EXCEPT !.drained = D], m, O, R)
<1> DEFINE h == [g EXCEPT !.drained = D]
<1>0. /\ h.flags = g.flags /\ h.spec = g.spec /\ h.phase = g.phase /\ h.acks = g.acks
      /\ h.issued = g.issued /\ h.published = g.published /\ h.drained = D
  BY DEF GroupState
<1> HIDE DEF h
<1>1. Shape(h)
  BY <1>0 DEF Sound, Shape, MayBeFenced, PreCommit
<1>2. Held(h, m) /\ Ingress(h, O)
  BY <1>0 DEF Sound, Held, EnteredWith, MayBeFenced, Ingress, SourceQueues, TargetQueues
<1>3. Drained(h, R)
  BY <1>0 DEF Sound, Drained
<1> QED BY <1>1, <1>2, <1>3 DEF Sound, h

\* Recording that the phase, whose snapshot is the membership, was published.
\* At COMMIT the fence flags set again are set already.
LEMMA AddPublished ==
  ASSUME NEW g \in GroupState, NEW O, NEW R, NEW F \in {g.flags, g.flags \cup {"FenceAttempted", "Fenced", "FenceVerified"}},
         Sound(g, controlSnapshot(g.spec, g.phase, FALSE), O, R),
         "RollingBack" \notin g.flags, g.phase # "COMMIT" => F = g.flags,
         g.phase # "COMMIT" => g.phase \in g.issued,
         g.phase = "ACTIVATE" => "TargetIngressVerified" \in g.flags
  PROVE  Sound([g EXCEPT !.published = @ \cup {g.phase}, !.flags = F],
               controlSnapshot(g.spec, g.phase, FALSE), O, R)
<1> DEFINE h == [g EXCEPT !.published = @ \cup {g.phase}, !.flags = F]
<1>f. F = g.flags
  BY DEF Sound, Shape
<1>0. /\ h.flags = g.flags /\ h.spec = g.spec /\ h.phase = g.phase /\ h.acks = g.acks
      /\ h.issued = g.issued /\ h.published = g.published \cup {g.phase} /\ h.drained = g.drained
  BY <1>f DEF GroupState
<1> HIDE DEF h
<1>1. Shape(h)
  BY <1>0 DEF Sound, Shape, MayBeFenced, PreCommit
<1>2. Held(h, controlSnapshot(g.spec, g.phase, FALSE))
  BY <1>0 DEF Sound, Shape, Held
<1>3. Ingress(h, O) /\ Drained(h, R)
  BY <1>0 DEF Sound, MayBeFenced, Ingress, Drained, SourceQueues, TargetQueues
<1> QED BY <1>1, <1>2, <1>3 DEF Sound, h

\* Entering the next phase.
PhaseAllowed(g, phase, extra) ==
  /\ g.phase \in g.published /\ "RollingBack" \notin g.flags /\ "Completed" \notin g.flags
  /\ \/ g.phase = "PREPARE" /\ phase = "PAUSE" /\ extra = {}
     \/ g.phase = "PAUSE" /\ phase = "DRAIN" /\ "Fenced" \in g.flags /\ extra = {}
     \/ /\ g.phase = "DRAIN" /\ phase = "COMMIT" /\ extra = {"FenceVerified", "CleanupRecorded"}
        /\ g.spec.current \subseteq g.drained
     \/ g.phase = "COMMIT" /\ phase = "ACTIVATE" /\ extra = {}

LEMMA EnterPhase ==
  ASSUME NEW g \in GroupState, NEW m, NEW O, NEW R, Sound(g, m, O, R),
         NEW phase \in Phase, NEW extra \in SUBSET Flag, PhaseAllowed(g, phase, extra)
  PROVE  Sound([g EXCEPT !.phase = phase, !.flags = @ \cup extra], m, O, R)
<1> DEFINE h == [g EXCEPT !.phase = phase, !.flags = @ \cup extra]
<1>0. /\ h.flags = g.flags \cup extra /\ h.spec = g.spec /\ h.phase = phase /\ h.acks = g.acks
      /\ h.issued = g.issued /\ h.published = g.published /\ h.drained = g.drained
  BY DEF GroupState
<1> HIDE DEF h
<1>1. Shape(h)
  BY <1>0 DEF Sound, Shape, MayBeFenced, PreCommit, PhaseAllowed
<1>2. m = controlSnapshot(g.spec, g.phase, FALSE)
  BY DEF Sound, Held, PhaseAllowed
<1>3. Held(h, m)
  BY <1>0, <1>2 DEF Sound, Shape, Held, EnteredWith, PhaseAllowed
<1>4. Ingress(h, O) /\ Drained(h, R)
  BY <1>0 DEF Sound, Shape, MayBeFenced, Ingress, Drained, SourceQueues, TargetQueues, PreCommit, PhaseAllowed
<1> QED BY <1>1, <1>3, <1>4 DEF Sound, h

-----------------------------------------------------------------------------
(* Documents *)

\* A document with a transition is sound, one without has id 0.
LEMMA GoodSound ==
  ASSUME NEW ps \in PersistentState, NEW O, NEW R
  PROVE  /\ Good(ps, O, R) /\ ps.group.spec.id # 0 => Sound(ps.group, ps.membership, O, R)
         /\ Sound(ps.group, ps.membership, O, R) => Good(ps, O, R) /\ ps.group.spec.id # 0
         /\ Good(ps, O, R) /\ ps.group.spec.id = 0 => ps.group = NoGroup
<1>1. NoGroup.spec.id = 0
  BY DEF NoGroup, Created
<1>2. Sound(ps.group, ps.membership, O, R) => ps.group.spec.id # 0
  BY DEF Sound, Shape
<1> QED BY <1>1, <1>2 DEF Good

LEMMA NoGroupFields ==
  NoGroup.spec.id = 0 /\ NoGroup.flags = {"Completed"} /\ NoGroup.published = {} /\ NoGroup.phase = "PREPARE"
BY DEF NoGroup, Created

\* A document is ahead of itself.
LEMMA AheadRefl ==
  ASSUME NEW ps \in PersistentState, NEW O, NEW R, Good(ps, O, R)
  PROVE  AheadOf(ps, ps)
<1>1. "Unfenced" \in ps.group.flags => "RollingBack" \in ps.group.flags
  BY NoGroupFields DEF Good, Sound, Shape
<1> QED BY <1>1 DEF AheadOf

\* A save of a good document that is ahead of memory, whatever its outcome,
\* leaves two good documents, the one on disk ahead.
LEMMA SaveGood ==
  ASSUME Good(mem, open, residue), Good(disk, open, residue), AheadOf(mem, disk),
         NEW next \in PersistentState, NEW O, NEW R,
         Good(mem, O, R), Good(disk, O, R), Good(next, O, R), AheadOf(mem, next),
         Saved(next) \/ SaveFailed(next)
  PROVE  Good(mem', O, R) /\ Good(disk', O, R) /\ AheadOf(mem', disk')
<1>1. CASE Saved(next)
  BY <1>1, AheadRefl DEF Saved
<1>2. CASE SaveFailed(next)
  BY <1>2 DEF SaveFailed
<1> QED BY <1>1, <1>2

\* Updating the transition of a document: flags grow and the phase advances.
LEMMA UpdateAhead ==
  ASSUME NEW ps \in PersistentState, NEW g \in GroupState, NEW O, NEW R, Good(ps, O, R),
         Sound(g, ps.membership, O, R), g.spec = ps.group.spec,
         ps.group.flags \subseteq g.flags,
         ps.group.phase \in {"COMMIT", "ACTIVATE"} => g.phase \in {ps.group.phase, "ACTIVATE"},
         ps.group.phase # "PREPARE" => g.phase # "PREPARE",
         "RollingBack" \notin ps.group.flags => "Unfenced" \notin g.flags
  PROVE  /\ [ps EXCEPT !.group = g] \in PersistentState
         /\ Good([ps EXCEPT !.group = g], O, R)
         /\ AheadOf(ps, [ps EXCEPT !.group = g])
<1> DEFINE next == [ps EXCEPT !.group = g]
<1>1. next \in PersistentState /\ next.group = g /\ next.membership = ps.membership
  BY DEF PersistentState
<1> HIDE DEF next
<1>2. Good(next, O, R)
  BY <1>1, GoodSound
<1>3. AheadOf(ps, next)
  BY <1>1 DEF AheadOf
<1> QED BY <1>1, <1>2, <1>3 DEF next

\* Queues of different epochs differ.
LEMMA EpochsDiffer ==
  ASSUME NEW g \in GroupState
  PROVE  SourceQueues(g) \cap TargetQueues(g) = {}
BY DEF SourceQueues, TargetQueues, ToEpoch, GroupState, TransitionSpec

\* Emptying queues keeps a document good.
LEMMA ResidueShrinks ==
  ASSUME NEW ps \in PersistentState, NEW O, NEW R, NEW S, S \subseteq R, Good(ps, O, R)
  PROVE  Good(ps, O, S)
BY DEF Good, Sound, Drained

\* Closing source queues of a transition that may be fenced anyway.
LEMMA CloseGood ==
  ASSUME NEW ps \in PersistentState, NEW O, NEW R, NEW S, Good(ps, O, R),
         ps.group.spec.id # 0, MayBeFenced(ps.group), S \subseteq SourceQueues(ps.group)
  PROVE  Good(ps, O \ S, (R \cup O) \ (O \ S))
<1> DEFINE g == ps.group
<1>1. g \in GroupState /\ MayBeFenced(g) /\ S \subseteq SourceQueues(g)
  BY DEF PersistentState
<1>2. Sound(g, ps.membership, O, R)
  BY GoodSound
<1> HIDE DEF g
<1>3. Ingress(g, O \ S)
  BY <1>1, <1>2, EpochsDiffer DEF Sound, Ingress
<1>4. Drained(g, (R \cup O) \ (O \ S))
  <2> SUFFICES ASSUME "RollingBack" \notin g.flags, NEW b \in g.drained
               PROVE  <<g.spec.fromEpoch, b>> \notin R \cup O
    BY DEF Drained
  <2>1. g.phase \in {"DRAIN", "COMMIT", "ACTIVATE"}
    BY <1>1, <1>2 DEF Sound, Shape, GroupState, Phase
  <2>2. O = {} \/ O \subseteq TargetQueues(g)
    BY <2>1, <1>2 DEF Sound, Shape, Ingress, PreCommit
  <2>3. <<g.spec.fromEpoch, b>> \notin O
    BY <1>1, <2>2 DEF TargetQueues, ToEpoch, GroupState, TransitionSpec
  <2> QED BY <2>3, <1>2 DEF Sound, Drained
<1> QED BY <1>2, <1>3, <1>4, GoodSound DEF Sound, g

\* Closing source queues after the durable fence attempt: the document on disk
\* allows any part of the source to be closed as well.
LEMMA FenceGood ==
  ASSUME NEW old \in PersistentState, NEW ps \in PersistentState, NEW O, NEW R, NEW S,
         old.group.spec.id # 0, Good(ps, O, R), AheadOf(old, ps),
         "Completed" \notin old.group.flags, "FenceAttempted" \in old.group.flags,
         "RollingBack" \notin old.group.flags, S \subseteq SourceQueues(old.group)
  PROVE  Good(ps, O \ S, (R \cup O) \ (O \ S))
<1>1. ps.group.spec = old.group.spec /\ MayBeFenced(ps.group)
  BY DEF AheadOf, MayBeFenced
<1>2. S \subseteq SourceQueues(ps.group)
  BY <1>1 DEF SourceQueues
<1> QED BY <1>1, <1>2, CloseGood

\* Opening source queues during a rollback.
LEMMA UnfenceGood ==
  ASSUME NEW old \in PersistentState, NEW ps \in PersistentState, NEW O, NEW R, NEW S,
         old.group.spec.id # 0, Good(ps, O, R), AheadOf(old, ps),
         "Completed" \notin old.group.flags, "RollingBack" \in old.group.flags,
         S \subseteq SourceQueues(old.group)
  PROVE  Good(ps, O \cup S, (R \cup O) \ (O \cup S))
<1> DEFINE g == ps.group
<1>1. g \in GroupState /\ g.spec = old.group.spec /\ "RollingBack" \in g.flags
  BY DEF AheadOf, PersistentState
<1>2. Sound(g, ps.membership, O, R)
  BY <1>1, GoodSound
<1>3. S \subseteq SourceQueues(g)
  BY <1>1 DEF SourceQueues
<1> HIDE DEF g
<1>4. Ingress(g, O \cup S)
  BY <1>1, <1>2, <1>3 DEF Sound, Shape, Ingress, PreCommit
<1>5. Drained(g, (R \cup O) \ (O \cup S))
  BY <1>1 DEF Drained
<1> QED BY <1>2, <1>4, <1>5, GoodSound DEF Sound, g

\* Opening target queues in ACTIVATE.
LEMMA EnableGood ==
  ASSUME NEW old \in PersistentState, NEW ps \in PersistentState, NEW O, NEW R, NEW S,
         old.group.spec.id # 0, Good(ps, O, R), AheadOf(old, ps),
         "Completed" \notin old.group.flags, old.group.phase = "ACTIVATE",
         S \subseteq TargetQueues(old.group)
  PROVE  Good(ps, O \cup S, (R \cup O) \ (O \cup S))
<1> DEFINE g == ps.group
<1>1. g \in GroupState /\ g.spec = old.group.spec /\ g.phase = "ACTIVATE"
  BY DEF AheadOf, PersistentState
<1>2. Sound(g, ps.membership, O, R)
  BY <1>1, GoodSound
<1>3. S \subseteq TargetQueues(g)
  BY <1>1 DEF TargetQueues
<1> HIDE DEF g
<1>4. Ingress(g, O \cup S)
  BY <1>1, <1>2, <1>3 DEF Sound, Ingress, PreCommit
<1>5. Drained(g, (R \cup O) \ (O \cup S))
  BY <1>2 DEF Sound, Drained
<1> QED BY <1>2, <1>4, <1>5, GoodSound DEF Sound, g

-----------------------------------------------------------------------------
(* Steps *)

\* The two documents in a state, and in the next one.
Documents == Good(mem, open, residue) /\ Good(disk, open, residue) /\ AheadOf(mem, disk)

\* An update of memory's transition.
Advances(g) ==
  /\ g \in GroupState /\ Sound(g, mem.membership, open, residue)
  /\ g.spec = mem.group.spec /\ mem.group.flags \subseteq g.flags
  /\ mem.group.phase \in {"COMMIT", "ACTIVATE"} => g.phase \in {mem.group.phase, "ACTIVATE"}
  /\ mem.group.phase # "PREPARE" => g.phase # "PREPARE"
  /\ "RollingBack" \notin mem.group.flags => "Unfenced" \notin g.flags

LEMMA UpdateStep ==
  ASSUME IInv, NEW g, Advances(g), UNCHANGED <<open, residue, begun>>,
         Saved([mem EXCEPT !.group = g]) \/ SaveFailed([mem EXCEPT !.group = g])
  PROVE  /\ Documents' /\ IdsUsed' /\ AheadOf(mem, mem')
         /\ mem'.membership = mem.membership
         /\ SaveFailed([mem EXCEPT !.group = g]) => mem' = mem
         /\ Saved([mem EXCEPT !.group = g]) => mem'.group = g
<1> DEFINE next == [mem EXCEPT !.group = g]
<1>1. mem \in PersistentState /\ disk \in PersistentState
  BY DEF IInv, TypeOK
<1>2. next \in PersistentState /\ Good(next, open, residue) /\ AheadOf(mem, next)
  BY <1>1, UpdateAhead DEF IInv, Advances
<1>3. next.group = g /\ next.membership = mem.membership
  BY <1>1 DEF PersistentState
<1>4. Saved(next) \/ SaveFailed(next)
  OBVIOUS
<1> HIDE DEF next
<1>5. Good(mem', open, residue) /\ Good(disk', open, residue) /\ AheadOf(mem', disk')
  BY <1>2, <1>4, SaveGood DEF IInv
<1>6. /\ mem' \in {mem, next} /\ disk' \in {disk, next}
      /\ Saved(next) => mem' = next
      /\ SaveFailed(next) => mem' = mem
  BY <1>4 DEF Saved, SaveFailed
<1>7. IdsUsed'
  BY <1>3, <1>6 DEF IdsUsed, IInv, Advances
<1>8. AheadOf(mem, mem')
  BY <1>1, <1>2, <1>6, AheadRefl DEF IInv
<1> QED BY <1>3, <1>5, <1>6, <1>7, <1>8 DEF Documents, next

\* Setting a flag is an update.
LEMMA FlagAdvances ==
  ASSUME IInv, NEW flag \in Flag, spec0.id # 0,
         FlagAllowed(group, mem.membership, open, flag)
  PROVE  Advances([group EXCEPT !.flags = @ \cup {flag}])
<1> DEFINE h == [group EXCEPT !.flags = @ \cup {flag}]
<1>1. mem \in PersistentState /\ group \in GroupState /\ group = mem.group
  BY DEF IInv, TypeOK, PersistentState, group
<1>2. Sound(group, mem.membership, open, residue)
  BY <1>1, GoodSound DEF IInv, spec0
<1>3. /\ h \in GroupState /\ h.flags = group.flags \cup {flag} /\ h.spec = group.spec
      /\ h.phase = group.phase
  BY <1>1 DEF GroupState
<1>4. Sound(h, mem.membership, open, residue)
  BY <1>1, <1>2, AddFlag
<1> HIDE DEF h
<1>5. "RollingBack" \notin group.flags => "Unfenced" \notin h.flags
  BY <1>2, <1>3 DEF Sound, Shape, FlagAllowed
<1> QED BY <1>1, <1>3, <1>4, <1>5 DEF Advances, h

\* Entering a phase is an update.
LEMMA PhaseAdvances ==
  ASSUME IInv, NEW phase \in Phase, NEW extra \in SUBSET Flag, spec0.id # 0,
         PhaseAllowed(group, phase, extra)
  PROVE  Advances([group EXCEPT !.phase = phase, !.flags = @ \cup extra])
<1> DEFINE h == [group EXCEPT !.phase = phase, !.flags = @ \cup extra]
<1>1. mem \in PersistentState /\ group \in GroupState /\ group = mem.group
  BY DEF IInv, TypeOK, PersistentState, group
<1>2. Sound(group, mem.membership, open, residue)
  BY <1>1, GoodSound DEF IInv, spec0
<1>3. h \in GroupState /\ h.flags = group.flags \cup extra /\ h.spec = group.spec /\ h.phase = phase
  BY <1>1 DEF GroupState
<1>4. Sound(h, mem.membership, open, residue)
  BY <1>1, <1>2, EnterPhase
<1> HIDE DEF h
<1>5. "RollingBack" \notin group.flags => "Unfenced" \notin h.flags
  BY <1>2, <1>3 DEF Sound, Shape, PhaseAllowed
<1>6. /\ group.phase \in {"COMMIT", "ACTIVATE"} => phase \in {group.phase, "ACTIVATE"}
      /\ group.phase # "PREPARE" => phase # "PREPARE"
  BY DEF PhaseAllowed
<1> QED BY <1>1, <1>3, <1>4, <1>5, <1>6 DEF Advances, h

\* The steps of Reconcile that set one flag and return to idle.
LEMMA FlagSteps ==
  ASSUME IInv,
         \/ PersistFenceAttempt \/ RecordFenced \/ RecordEnabled \/ RecordVerified
         \/ RecordUnfenced \/ Complete
  PROVE  /\ Documents' /\ IdsUsed' /\ AheadOf(mem, mem')
         /\ AtLabel' /\ CatalogCurrent' /\ SampleTrue'
<1> USE DEF store, broker0, ingress
<1>g. /\ mem \in PersistentState /\ group \in GroupState /\ group = mem.group /\ spec0 = group.spec
  BY DEF IInv, TypeOK, PersistentState, group, spec0
<1>id. spec0.id # 0 /\ "Completed" \notin group.flags
  BY DEF PersistFenceAttempt, RecordFenced, RecordEnabled, RecordVerified, RecordUnfenced, Complete,
       PauseAcknowledged, Forward, Back, Turn, Is, group, IInv, AtLabel, InTransition, spec0
<1>s. Sound(group, mem.membership, open, residue)
  BY <1>g, <1>id, GoodSound DEF IInv
<1>1. PICK flag \in Flag, then \in {"fence", "idle"} :
        /\ FlagAllowed(group, mem.membership, open, flag)
        /\ SetFlag(flag, then)
        /\ flag # "RollbackPublished"
        /\ then = "fence" => flag = "FenceAttempted"
  <2>1. CASE PersistFenceAttempt
    <3>1. FlagAllowed(group, mem.membership, open, "FenceAttempted")
      BY <2>1 DEF PersistFenceAttempt, PauseAcknowledged, Forward, FlagAllowed, Is, group
    <3> QED BY <3>1, <2>1 DEF PersistFenceAttempt, Flag
  <2>2. CASE RecordFenced
    <3>1. FlagAllowed(group, mem.membership, open, "Fenced")
      BY <2>2 DEF RecordFenced, IInv, AtLabel, FlagAllowed, Is, group
    <3> QED BY <3>1, <2>2 DEF RecordFenced, Flag
  <2>3. CASE RecordEnabled
    <3>1. FlagAllowed(group, mem.membership, open, "TargetIngressEnabled")
      BY <2>3 DEF RecordEnabled, IInv, AtLabel, FlagAllowed
    <3> QED BY <3>1, <2>3 DEF RecordEnabled, Flag
  <2>4. CASE RecordVerified
    <3>1. FlagAllowed(group, mem.membership, open, "TargetIngressVerified")
      BY <2>4 DEF RecordVerified, Forward, FlagAllowed, Is, group
    <3> QED BY <3>1, <2>4 DEF RecordVerified, Flag
  <2>5. CASE RecordUnfenced
    <3>1. FlagAllowed(group, mem.membership, open, "Unfenced")
      BY <2>5 DEF RecordUnfenced, IInv, AtLabel, FlagAllowed, Is, group
    <3> QED BY <3>1, <2>5 DEF RecordUnfenced, Flag
  <2>6. CASE Complete
    <3>1. FlagAllowed(group, mem.membership, open, "Completed")
      BY <2>6 DEF Complete, FlagAllowed, Is, group
    <3> QED BY <3>1, <2>6 DEF Complete, Flag
  <2> QED BY <2>1, <2>2, <2>3, <2>4, <2>5, <2>6
<1> DEFINE h == [group EXCEPT !.flags = @ \cup {flag}]
<1>2. Advances(h)
  BY <1>1, <1>id, FlagAdvances
<1>3. \/ Saved([mem EXCEPT !.group = h]) /\ pc' = then
      \/ SaveFailed([mem EXCEPT !.group = h]) /\ pc' = "idle"
  BY <1>1 DEF SetFlag, updateGroup
<1>4. /\ h.flags = group.flags \cup {flag} /\ h.spec = group.spec /\ h.phase = group.phase
      /\ h.published = group.published
  BY <1>g DEF GroupState
<1> HIDE DEF h
<1>5. UNCHANGED <<catalog, open, residue, sample, begun>> /\ pc # "down" /\ pc' \in {"idle", "fence"}
  BY <1>3 DEF PersistFenceAttempt, RecordFenced, RecordEnabled, RecordVerified,
       RecordUnfenced, Complete, PauseAcknowledged, Forward, Back, Turn
<1>6. /\ Documents' /\ IdsUsed' /\ AheadOf(mem, mem') /\ mem'.membership = mem.membership
      /\ mem' = mem \/ mem'.group = h
      /\ pc' = "fence" => mem'.group = h /\ then = "fence"
  BY <1>2, <1>3, <1>5, UpdateStep
<1>7. /\ mem'.group.spec = spec0 /\ mem'.group.phase = group.phase /\ mem'.group.published = group.published
      /\ mem'.group.flags \in {group.flags, group.flags \cup {flag}}
      /\ pc' = "fence" => mem'.group.flags = group.flags \cup {flag} /\ flag = "FenceAttempted"
  BY <1>1, <1>4, <1>6, <1>g
<1>8. AtLabel'
  <2>1. flag = "FenceAttempted" => group.phase = "PAUSE" /\ "RollingBack" \notin group.flags
    BY <1>1 DEF FlagAllowed
  <2> QED BY <1>5, <1>7, <2>1, <1>id DEF AtLabel, InTransition, Is, group
<1>9. CatalogCurrent'
  <2>1. mem'.group # NoGroup
    BY <1>7, <1>id, NoGroupFields
  <2> QED BY <2>1, <1>1, <1>5, <1>6, <1>7 DEF CatalogCurrent, IInv, Is, group
<1>10. SampleTrue'
  BY <1>5, <1>7 DEF SampleTrue, IInv, Is, group, spec0
<1> QED BY <1>6, <1>8, <1>9, <1>10

\* The steps of Reconcile that enter a phase.
LEMMA PhaseSteps ==
  ASSUME IInv, AdvanceToPause \/ AdvanceToDrain \/ AdvanceToCommit \/ AdvanceToActivate
  PROVE  /\ Documents' /\ IdsUsed' /\ AheadOf(mem, mem')
         /\ AtLabel' /\ CatalogCurrent' /\ SampleTrue'
<1> USE DEF store, broker0, ingress
<1>g. /\ mem \in PersistentState /\ group \in GroupState /\ group = mem.group /\ spec0 = group.spec
  BY DEF IInv, TypeOK, PersistentState, group, spec0
<1>id. spec0.id # 0 /\ pc = "idle" /\ "Completed" \notin group.flags /\ "RollingBack" \notin group.flags
  BY DEF AdvanceToPause, AdvanceToDrain, AdvanceToCommit, AdvanceToActivate, PauseAcknowledged,
       Forward, Turn, Is, group
<1>1. PICK phase \in Phase, extra \in SUBSET Flag :
        PhaseAllowed(group, phase, extra) /\ enterPhase(phase, extra)
  <2>1. CASE AdvanceToPause
    <3>1. PhaseAllowed(group, "PAUSE", {})
      BY <2>1, <1>id DEF AdvanceToPause, Forward, PhaseAllowed
    <3> QED BY <3>1, <2>1 DEF AdvanceToPause, Phase
  <2>2. CASE AdvanceToDrain
    <3>1. PhaseAllowed(group, "DRAIN", {})
      BY <2>2, <1>id DEF AdvanceToDrain, PauseAcknowledged, Forward, PhaseAllowed, Is, group
    <3> QED BY <3>1, <2>2 DEF AdvanceToDrain, Phase
  <2>3. CASE AdvanceToCommit
    <3>1. PhaseAllowed(group, "COMMIT", {"FenceVerified", "CleanupRecorded"})
      BY <2>3, <1>id DEF AdvanceToCommit, Forward, PhaseAllowed, drainComplete
    <3> QED BY <3>1, <2>3 DEF AdvanceToCommit, Phase, Flag
  <2>4. CASE AdvanceToActivate
    <3>1. PhaseAllowed(group, "ACTIVATE", {})
      BY <2>4, <1>id DEF AdvanceToActivate, Forward, PhaseAllowed
    <3> QED BY <3>1, <2>4 DEF AdvanceToActivate, Phase
  <2> QED BY <2>1, <2>2, <2>3, <2>4
<1> DEFINE h == [group EXCEPT !.phase = phase, !.flags = @ \cup extra]
<1>2. Advances(h)
  BY <1>1, <1>id, PhaseAdvances
<1>3. [mem EXCEPT !.group.phase = phase, !.group.flags = @ \cup extra] = [mem EXCEPT !.group = h]
  BY <1>g DEF PersistentState, GroupState
<1>4. pc' = "idle" /\ (Saved([mem EXCEPT !.group = h]) \/ SaveFailed([mem EXCEPT !.group = h]))
  BY <1>1, <1>3 DEF enterPhase
<1>5. /\ h.flags = group.flags \cup extra /\ h.spec = group.spec /\ h.phase = phase
      /\ h.published = group.published
  BY <1>g DEF GroupState
<1> HIDE DEF h
<1>6. UNCHANGED <<catalog, open, residue, sample, begun>>
  BY DEF AdvanceToPause, AdvanceToDrain, AdvanceToCommit, AdvanceToActivate
<1>7. /\ Documents' /\ IdsUsed' /\ AheadOf(mem, mem') /\ mem'.membership = mem.membership
      /\ mem' = mem \/ mem'.group = h
  BY <1>2, <1>4, <1>6, UpdateStep
<1>8. /\ extra \subseteq {"FenceVerified", "CleanupRecorded"}
      /\ phase \notin {"PREPARE", "PAUSE"} \/ group.phase = "PREPARE"
  BY <1>1 DEF PhaseAllowed
<1>9. /\ mem'.group.spec = spec0 /\ mem'.group.published = group.published
      /\ "RollbackPublished" \in mem'.group.flags <=> "RollbackPublished" \in group.flags
      /\ "RollingBack" \in mem'.group.flags <=> "RollingBack" \in group.flags
      /\ mem'.group.phase \notin {"PREPARE", "PAUSE"} \/ group.phase \in {"PREPARE", "PAUSE"}
  BY <1>5, <1>7, <1>8, <1>g
<1>10. AtLabel'
  BY <1>4 DEF AtLabel
<1>11. CatalogCurrent'
  <2>1. mem'.group # NoGroup
    BY <1>9, <1>id, NoGroupFields
  <2> QED BY <2>1, <1>id, <1>6, <1>7, <1>9 DEF CatalogCurrent, IInv, Is, group
<1>12. SampleTrue'
  BY <1>4, <1>6, <1>9 DEF SampleTrue, IInv, Is, group, spec0
<1> QED BY <1>7, <1>10, <1>11, <1>12

\* Persisting the command intent of a phase.
LEMMA IntentStep ==
  ASSUME IInv, EnsureCommandIntent
  PROVE  /\ Documents' /\ IdsUsed' /\ AheadOf(mem, mem')
         /\ AtLabel' /\ CatalogCurrent' /\ SampleTrue'
<1> USE DEF store, broker0, ingress
<1>g. /\ mem \in PersistentState /\ group \in GroupState /\ group = mem.group /\ spec0 = group.spec
  BY DEF IInv, TypeOK, PersistentState, group, spec0
<1>id. /\ spec0.id # 0 /\ pc = "idle" /\ "Completed" \notin group.flags /\ "RollingBack" \notin group.flags
       /\ group.phase \notin group.published
       /\ group.phase = "ACTIVATE" => "TargetIngressVerified" \in group.flags
  BY DEF EnsureCommandIntent, Forward, Turn, Is, group
<1>s. Sound(group, mem.membership, open, residue)
  BY <1>g, <1>id, GoodSound DEF IInv
<1> DEFINE h == [group EXCEPT !.issued = @ \cup {group.phase}]
<1>1. \/ group.phase \in group.issued /\ pc' = "membership" /\ UNCHANGED store
      \/ updateGroup(h, "membership")
  BY DEF EnsureCommandIntent, Forward
<1>2. /\ h \in GroupState /\ h.flags = group.flags /\ h.spec = group.spec /\ h.phase = group.phase
      /\ h.published = group.published /\ h.issued = group.issued \cup {group.phase}
  BY <1>g DEF GroupState
<1>3. Sound(h, mem.membership, open, residue)
  BY <1>g, <1>s, AddIssued
<1> HIDE DEF h
<1>4. Advances(h)
  BY <1>2, <1>3, <1>g, <1>s DEF Advances, Sound, Shape
<1>5. UNCHANGED <<catalog, open, residue, sample, begun>>
  BY DEF EnsureCommandIntent
<1>6. /\ Documents' /\ IdsUsed' /\ AheadOf(mem, mem') /\ mem'.membership = mem.membership
      /\ mem' = mem \/ mem'.group = h
      /\ pc' \in {"membership", "idle"}
      /\ pc' = "membership" => group.phase \in mem'.group.issued
  <2>1. CASE group.phase \in group.issued /\ pc' = "membership" /\ UNCHANGED store
    BY <2>1, <1>5, <1>g, AheadRefl DEF Documents, IdsUsed, IInv
  <2>2. CASE updateGroup(h, "membership")
    BY <2>2, <1>2, <1>4, <1>5, UpdateStep DEF updateGroup
  <2> QED BY <1>1, <2>1, <2>2
<1>7. /\ mem'.group.spec = spec0 /\ mem'.group.published = group.published
      /\ mem'.group.phase = group.phase /\ mem'.group.flags = group.flags
  BY <1>2, <1>6, <1>g
<1>8. AtLabel'
  BY <1>6, <1>7, <1>id DEF AtLabel, InTransition, Publishing, Is, group
<1>9. CatalogCurrent'
  <2>1. mem'.group # NoGroup
    BY <1>7, <1>id, NoGroupFields
  <2> QED BY <2>1, <1>id, <1>5, <1>6, <1>7 DEF CatalogCurrent, IInv, Is, group
<1>10. SampleTrue'
  BY <1>5, <1>6, <1>7 DEF SampleTrue, IInv, Is, group, spec0
<1> QED BY <1>6, <1>8, <1>9, <1>10
=============================================================================
