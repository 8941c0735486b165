---------------------------- MODULE ControllerInv ----------------------------
(***************************************************************************)
(* The inductive invariant of Controller.  It says, for the document in    *)
(* memory and for the one on disk alike, which flags and memberships go    *)
(* together (Shape, Held) and which queues are then open (Ingress); that   *)
(* the disk is never behind memory (AheadOf); and what the lock holder has *)
(* established at each label (AtLabel).  ControllerSafetyProofs proves     *)
(* that every step preserves it.                                           *)
(***************************************************************************)
EXTENDS Controller

PreCommit == {"PREPARE", "PAUSE", "DRAIN"}

\* The source may have been fenced, wholly or in part.
MayBeFenced(g) == "FenceAttempted" \in g.flags /\ "Unfenced" \notin g.flags

\* Which flags, publications and commands a transition in each phase has.
Shape(g) ==
  /\ g.spec.id # 0 /\ g.spec.revision # 0
  /\ "Fenced" \in g.flags => "FenceAttempted" \in g.flags
  /\ "FenceAttempted" \in g.flags => g.phase # "PREPARE" /\ "PAUSE" \in g.published
  /\ g.phase \in {"DRAIN", "COMMIT", "ACTIVATE"} => "Fenced" \in g.flags
  /\ "Unfenced" \in g.flags \/ "RollbackPublished" \in g.flags => "RollingBack" \in g.flags
  /\ "RollbackPublished" \in g.flags => ~MayBeFenced(g)
  /\ "RollingBack" \in g.flags => g.phase \in PreCommit
  /\ "TargetIngressEnabled" \in g.flags => g.phase = "ACTIVATE"
  /\ "TargetIngressVerified" \in g.flags => "TargetIngressEnabled" \in g.flags
  /\ "Completed" \in g.flags =>
       \/ "RollbackPublished" \in g.flags
       \/ g.phase = "ACTIVATE" /\ "ACTIVATE" \in g.published
  /\ g.phase \in {"COMMIT", "ACTIVATE"} => "FenceVerified" \in g.flags /\ g.spec.current \subseteq g.drained
  /\ g.drained # {} => g.phase \notin {"PREPARE", "PAUSE"}
  /\ "ACTIVATE" \in g.published => "TargetIngressVerified" \in g.flags
  /\ g.phase # "PREPARE" => "PREPARE" \in g.published
  /\ g.phase \notin {"PREPARE", "PAUSE"} => "PAUSE" \in g.published
  /\ g.phase \in {"COMMIT", "ACTIVATE"} => "DRAIN" \in g.published
  /\ g.phase = "ACTIVATE" => "COMMIT" \in g.published
  /\ "PAUSE" \in g.published => g.phase # "PREPARE"
  /\ "DRAIN" \in g.published => g.phase \notin {"PREPARE", "PAUSE"}
  /\ "COMMIT" \in g.published => g.phase \in {"COMMIT", "ACTIVATE"}
  /\ "ACTIVATE" \in g.published => g.phase = "ACTIVATE"
  /\ g.issued \subseteq g.published \cup {g.phase}
  /\ g.published \ {"COMMIT"} \subseteq g.issued
  /\ \A p \in Phase : g.acks[p] # {} => p \in g.issued /\ g.acks[p] \subseteq Requirements(p)

\* The snapshot that was current when the phase was entered.
EnteredWith(g) ==
  CASE g.phase = "PREPARE"  -> sourceActiveSnapshot(g.spec)
    [] g.phase = "PAUSE"    -> controlSnapshot(g.spec, "PREPARE", FALSE)
    [] g.phase = "DRAIN"    -> controlSnapshot(g.spec, "PAUSE", FALSE)
    [] g.phase = "COMMIT"   -> controlSnapshot(g.spec, "DRAIN", FALSE)
    [] g.phase = "ACTIVATE" -> controlSnapshot(g.spec, "COMMIT", FALSE)

\* The memberships a document may hold beside a transition.
Held(g, m) ==
  \/ m = EnteredWith(g) /\ g.phase \notin g.published /\ "RollbackPublished" \notin g.flags
  \/ /\ m = controlSnapshot(g.spec, g.phase, FALSE) /\ "RollbackPublished" \notin g.flags
     /\ g.phase = "ACTIVATE" => "TargetIngressVerified" \in g.flags
  \/ m = RollbackSnapshot(g.spec) /\ "RollingBack" \in g.flags /\ ~MayBeFenced(g)

\* Exactly which queues are open beside a transition: O is the set of them.
Ingress(g, O) ==
  /\ g.phase \in PreCommit =>
       /\ O \subseteq SourceQueues(g)
       /\ ~MayBeFenced(g) => O = SourceQueues(g)
       /\ "Fenced" \in g.flags /\ "RollingBack" \notin g.flags => O = {}
  /\ g.phase = "COMMIT" => O = {}
  /\ g.phase = "ACTIVATE" =>
       /\ O \subseteq TargetQueues(g)
       /\ "TargetIngressEnabled" \in g.flags => O = TargetQueues(g)

\* A source counted as drained is empty, unless the source is being restored:
\* R is the set of closed queues that hold messages.
Drained(g, R) ==
  "RollingBack" \notin g.flags =>
    \A b \in g.drained : <<g.spec.fromEpoch, b>> \notin R

GenesisQueues == {1} \X GenesisBrokers

\* Everything that holds of a transition g beside the membership m.
Sound(g, m, O, R) == Shape(g) /\ Held(g, m) /\ Ingress(g, O) /\ Drained(g, R)

\* Everything that holds of one state document.
Good(ps, O, R) ==
  \/ /\ ps.group = NoGroup
     /\ \/ ps.membership = NoSnapshot /\ O \subseteq GenesisQueues
        \/ ps.membership = Genesis /\ O = GenesisQueues
  \/ Sound(ps.group, ps.membership, O, R)

\* Document new is old or is one update ahead of it.
AheadOf(old, new) ==
  \/ /\ new.group.spec = old.group.spec
     /\ old.group.flags \subseteq new.group.flags
     /\ old.group.phase \in {"COMMIT", "ACTIVATE"} => new.group.phase \in {old.group.phase, "ACTIVATE"}
     /\ old.group.phase # "PREPARE" => new.group.phase # "PREPARE"
     /\ "RollingBack" \notin old.group.flags => "Unfenced" \notin new.group.flags
  \/ /\ new.group.spec.id # old.group.spec.id
     /\ "Completed" \in old.group.flags
     /\ new.group = Created(new.group.spec)
     /\ new.membership = old.membership

\* publish() has started for this phase or for the rollback.
Publishing ==
  /\ "RollingBack" \notin group.flags => group.phase \notin group.published
  /\ "RollingBack" \notin group.flags /\ group.phase # "COMMIT" => group.phase \in group.issued
  /\ "RollingBack" \notin group.flags /\ group.phase = "ACTIVATE" => Is("TargetIngressVerified")
  /\ "RollingBack" \in group.flags => ~MayBeFenced(group) /\ ~Is("RollbackPublished")

AtLabel ==
  /\ pc = "down" => mem = disk
  /\ pc \notin {"down", "idle"} => InTransition(group)
  /\ pc \in {"membership", "publish", "record"} => Publishing
  /\ pc \in {"publish", "record"} => mem.membership = Advertised
  /\ pc = "record" => catalog = Advertised
  /\ pc \in {"fence", "recordFence"} =>
       group.phase = "PAUSE" /\ Is("FenceAttempted") /\ ~Is("RollingBack")
  /\ pc = "recordFence" => open = {}
  /\ pc = "recordUnfence" =>
       Is("RollingBack") /\ Is("FenceAttempted") /\ open = SourceQueues(group)
  /\ pc = "recordEnable" => group.phase = "ACTIVATE" /\ open = TargetQueues(group)

\* Between transitions the catalog holds the membership Begin starts from.
CatalogCurrent ==
  (\/ pc # "down" /\ group = NoGroup
   \/ pc # "down" /\ Is("RollbackPublished")
   \/ pc # "down" /\ "ACTIVATE" \in group.published)
  => catalog = mem.membership

\* A zero sample in flight tells the truth about a source still fenced.
SampleTrue ==
  \A s \in sample :
    /\ pc # "down" /\ s.transition <= begun
    /\ s.transition = spec0.id => group.phase \notin {"PREPARE", "PAUSE"}
    /\ s.zero /\ s.transition = spec0.id /\ ~Is("RollingBack") =>
         <<spec0.fromEpoch, s.broker>> \notin residue

IdsUsed == mem.group.spec.id <= begun /\ disk.group.spec.id <= begun

\* The queue belongs to an epoch that group g has left behind.
Behind(q, g) ==
  /\ g.spec.id # 0
  /\ q[1] < IF "Completed" \in g.flags /\ "RollingBack" \notin g.flags
            THEN ToEpoch(g.spec) ELSE g.spec.fromEpoch

\* The queues a clean-up still goes through stay left behind, and empty, however
\* far the group has moved on since its copy was taken.
CopiesBehind ==
  \A q \in cleaning \cup policy.old : Behind(q, group) /\ q \notin residue

\* While a recommendation is applied nothing it was computed from changes.
PolicyCurrent ==
  /\ Recommending =>
       /\ pc # "down" /\ catalog.phase = "ACTIVE" /\ Is("Completed")
       /\ policy.spec = NextSpec(policy.spec.proposed)
       /\ policy.new \subseteq TargetQueues(policy)
  /\ ~Recommending => policy = NoPolicy

\* The inductive invariant: after any save, crash, failed SEMP call or replay,
\* the flags of the durable document, the membership beside it and the ingress
\* of the queues fit together, a zero sample still in flight is true, and the
\* copies the clean-ups and the policy work on are still good.
IInv ==
  /\ TypeOK /\ Good(mem, open, residue) /\ Good(disk, open, residue)
  /\ AheadOf(mem, disk) /\ AtLabel
  /\ CatalogCurrent /\ SampleTrue /\ IdsUsed
  /\ CopiesBehind /\ PolicyCurrent

=============================================================================
