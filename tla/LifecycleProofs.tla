--------------------------- MODULE LifecycleProofs ---------------------------
(***************************************************************************)
(* Proofs about Lifecycle.  The variables keep their types and etcd is     *)
(* bootstrapped on the declared image only, whatever the user does.  That  *)
(* no two declared control planes belong to different etcd clusters needs  *)
(* a careful user and edits that leave etcd an anchor (EditsKeep).         *)
(***************************************************************************)
EXTENDS Lifecycle, FiniteSetTheorems, WellFoundedInduction, TLAPS

-----------------------------------------------------------------------------
(* The inductive invariant: runs. *)

CPs == declared \cap ControlPlane

\* cluster.yaml names a control plane.
SomeControlPlane == CPs # {}

\* A run is about the declared nodes; what it was begun for is not yet done.
JobFits ==
    /\ job.kind \in {"create", "converge", "destroy"} => job.want = declared
    /\ job.kind = "restore" => declared \subseteq job.want
    /\ job.kind \in {"create", "converge"} => open = "apply"
    /\ job.kind \in {"destroy", "restore"} => open = job.kind
    /\ job.kind = "converge" => job.adds \subseteq declared /\ job.removes \cap declared = {}
    /\ job.step \in {"install", "join"} => job.todo \subseteq declared
    /\ job.step \in {"reset", "forget"} => job.todo \cap declared = {}

\* imageAll leaves every node that it is past on the declared image.
ImagesFit ==
    /\ At("create", "image") /\ ~job.wrong =>
          \A n \in job.want \ job.todo : image[n] = "declared"
    /\ BootstrapsOnDeclaredImage

RInv == TypeOK /\ SomeControlPlane /\ JobFits /\ ImagesFit

-----------------------------------------------------------------------------
(* The inductive invariant: etcd. *)

\* All data are of one etcd cluster, whoever declares their control planes.
OneData == \A m, n \in ControlPlane : data[m] # 0 /\ data[n] # 0 => data[m] = data[n]

\* Who has data is a member of its etcd cluster.
HoldersArePeers == \A n \in ControlPlane : data[n] # 0 => n \in peers[data[n]]

NoData == \A n \in ControlPlane : data[n] = 0

\* A destroy or restore that was begun is yet to be finished.
Unfinished == open \in {"destroy", "restore"}
Recovered == job.kind = "restore" /\ job.step \in {"members", "ready"}

\* ... else every member of an etcd cluster that has data has them.
PeersHold ==
    ~Unfinished \/ Recovered =>
        \A n \in ControlPlane : data[n] # 0 => \A p \in peers[data[n]] : data[p] = data[n]

\* The first declared control plane, which create would bootstrap, has data if any has.
FirstHas == data[First(CPs)] # 0 \/ NoData
FirstSafe == Unfinished \/ FirstHas

\* Every control plane that is a member is declared.
MembersDeclared == \A n \in ControlPlane : machine[n] = "member" => n \in declared

\* A careful user destroys and restores a cluster that is as declared.
UnfinishedFits == Unfinished => AsDeclared

\* What a restore has wiped stays empty until it recovers etcd on the first.
RestoreFits ==
    /\ job.kind = "restore" /\ job.step # "check" => WantCPs = CPs
    /\ At("restore", "wipe") => \A n \in CPs \ job.todo : data[n] = 0
    /\ At("restore", "recover") => NoData
    /\ Recovered => data[First(CPs)] # 0

\* A create that goes on can only bootstrap where no data are.
CreateFits == job.kind = "create" => FirstHas

\* What edits may do to a cluster: keep the control plane create would bootstrap,
\* keep every control plane, or, if there is one edit only, the one or the other.
KeepsFirst(e) == First(e.to \cap ControlPlane) = First(e.from \cap ControlPlane)
KeepsAll(e) == e.from \cap ControlPlane \subseteq e.to
StartsFirst ==
    \A s \in Starts : s.members \cap ControlPlane # {} => First(s.declared \cap ControlPlane) \in s.members
AllKeepFirst == StartsFirst /\ \A e \in Edits : KeepsFirst(e)
AllKeepAll == \A e \in Edits : KeepsAll(e)
OneKeeps == StartsFirst /\ MaxEdits <= 1 /\ \A e \in Edits : KeepsFirst(e) \/ KeepsAll(e)
EditsKeep == AllKeepFirst \/ AllKeepAll \/ OneKeeps

\* The edits made so far have left one anchor of etcd at least.
Anchored ==
    /\ FirstSafe \/ MembersDeclared
    /\ StartsFirst /\ (edits = 0 \/ AllKeepFirst) => FirstSafe
    /\ edits = 0 \/ AllKeepAll => MembersDeclared

EInv ==
    /\ OneData /\ HoldersArePeers /\ PeersHold
    /\ UnfinishedFits /\ RestoreFits /\ CreateFits /\ Anchored

-----------------------------------------------------------------------------
(* Lemmas about the operators. *)

\* The bounds are numbers, and what the ranges they bound contain.
LEMMA Bounds ==
  /\ MaxEtcd \in Nat /\ MaxEdits \in Nat /\ MaxTrouble \in Nat
  /\ 0 \in 0..MaxEtcd /\ 1 \in 0..MaxEtcd /\ 0 \in 0..MaxEdits /\ 0 \in 0..MaxTrouble
  /\ \A k \in 1..MaxEtcd : k \in 0..MaxEtcd
<1>1. MaxEtcd \in Nat /\ MaxEdits \in Nat /\ MaxTrouble \in Nat /\ MaxEtcd # 0
  BY BoundAssumption
<1>. QED BY <1>1

\* A set of numbers that is not empty has a least one.
LEMMA Least ==
  ASSUME NEW S \in SUBSET Nat, S # {}
  PROVE  \E n \in S : \A m \in S : n <= m
<1>. DEFINE R == OpToRel(<, Nat)
<1>1. IsWellFoundedOn(R, Nat)
  BY NatLessThanWellFounded
<1>2. \A m, n \in Nat : m < n => <<m, n>> \in R
  BY DEF OpToRel
<1>. HIDE DEF R
<1>3. PICK n \in S : \A m \in S : <<m, n>> \notin R
  BY <1>1, WFMin
<1>4. \A m \in S : m \in Nat /\ n \in Nat /\ ~(m < n)
  BY <1>2, <1>3
<1>. QED BY <1>3, <1>4

\* The first of some nodes, in the order of cluster.yaml, is one of them.
LEMMA FirstIn ==
  ASSUME NEW S \in SUBSET Node, S # {}
  PROVE  First(S) \in S
<1>1. S \in SUBSET Nat
  BY NodeAssumption
<1>. QED BY <1>1, Least DEF First

\* An etcd cluster with a quorum has a member with data.
LEMMA QuorateHolds ==
  ASSUME TypeOK, NEW k \in 1..MaxEtcd, Quorate(k)
  PROVE  \E n \in ControlPlane : data[n] = k /\ n \in peers[k]
<1>. DEFINE S == {n \in peers[k] : up[n] /\ data[n] = k}
<1>1. peers[k] \subseteq ControlPlane
  BY DEF TypeOK
<1>2. IsFiniteSet(peers[k])
  BY <1>1, NodeAssumption, FS_Subset
<1>3. Cardinality(peers[k]) \in Nat /\ 2 * Cardinality(S) > Cardinality(peers[k])
  BY <1>2, FS_CardinalityType DEF Quorate
<1>4. S # {}
  BY <1>3, FS_EmptySet
<1>. QED BY <1>1, <1>4

\* An etcd cluster all of whose members run with its data has a quorum.
LEMMA AllUpIsQuorate ==
  ASSUME TypeOK, NEW k \in 1..MaxEtcd, peers[k] # {},
         \A p \in peers[k] : up[p] /\ data[p] = k
  PROVE  Quorate(k)
<1>1. IsFiniteSet(peers[k])
  <2>1. peers[k] \subseteq ControlPlane
    BY DEF TypeOK
  <2>. QED BY <2>1, NodeAssumption, FS_Subset
<1>. DEFINE S == {n \in peers[k] : up[n] /\ data[n] = k}
<1>2. Cardinality(S) = Cardinality(peers[k])
  <2>1. S = peers[k]
    OBVIOUS
  <2>. QED BY <2>1
<1>3. Cardinality(peers[k]) \in Nat /\ Cardinality(peers[k]) # 0
  BY <1>1, FS_CardinalityType, FS_EmptySet
<1>. HIDE DEF S
<1>4. 2 * Cardinality(S) > Cardinality(peers[k])
  BY <1>2, <1>3
<1>. QED BY <1>4 DEF Quorate, S

\* Without data etcd has no quorum anywhere, and neither has the API.
LEMMA NoDataNoQuorum == TypeOK /\ NoData => \A k \in 1..MaxEtcd : ~Quorate(k)
  BY QuorateHolds DEF NoData

\* The first declared control plane is one.
LEMMA FirstIsControlPlane ==
  ASSUME TypeOK, SomeControlPlane
  PROVE  First(CPs) \in CPs /\ First(CPs) \in ControlPlane /\ First(CPs) \in declared
<1>1. CPs \in SUBSET Node
  BY NodeAssumption DEF CPs
<1>. QED BY <1>1, FirstIn DEF SomeControlPlane, CPs

\* Who has data is a member.
LEMMA HolderIsMember ==
  ASSUME TypeOK, NEW n \in ControlPlane, data[n] # 0
  PROVE  machine[n] = "member"
  BY NodeAssumption DEF TypeOK

-----------------------------------------------------------------------------
(* The run: what its steps leave of it. *)

JobType ==
    [kind : Kinds, by : {"cli", "console"}, step : Steps, want : SUBSET Node, applied : SUBSET Node,
     todo : SUBSET Node, adds : SUBSET Node, removes : SUBSET Node, wrong : BOOLEAN]

\* What Goes sets of the run, and what it leaves.
LEMMA GoesIs ==
  ASSUME job \in JobType, NEW step \in Steps, NEW todo \in SUBSET Node, Goes(step, todo)
  PROVE  /\ job' \in JobType /\ job'.step = step /\ job'.todo = todo /\ job'.wrong = job.wrong
         /\ job'.kind = job.kind /\ job'.by = job.by /\ job'.want = job.want
         /\ job'.applied = job.applied /\ job'.adds = job.adds /\ job'.removes = job.removes
  BY DEF Goes, JobType

\* No run is a run too, without a step.
LEMMA NoJobIs ==
  NoJob \in JobType /\ NoJob.kind = "none" /\ NoJob.step = "none"
<1>1. NoJob.kind = "none" /\ NoJob.step = "none"
  BY DEF NoJob
<1>2. {} \in SUBSET Node /\ FALSE \in BOOLEAN /\ "none" \in Steps /\ "none" \in Kinds
  BY DEF Steps, Kinds
<1>3. NoJob \in JobType
  BY <1>2 DEF NoJob, JobType
<1>. QED BY <1>1, <1>3

WorldTyped ==
    /\ kube \subseteq Node
    /\ machine \in [Node -> {"maint", "member"}]
    /\ image \in [Node -> {"none", "old", "declared"}]
    /\ up \in [Node -> BOOLEAN] /\ kubelet \in [Node -> BOOLEAN]
    /\ data \in [ControlPlane -> 0..MaxEtcd]
    /\ peers \in [1..MaxEtcd -> SUBSET ControlPlane]
    /\ \A n \in Node : machine[n] = "maint" =>
                        ~kubelet[n] /\ (n \in ControlPlane => data[n] = 0)

UserTyped ==
    /\ declared \subseteq Node
    /\ open \in {"none", "apply", "destroy", "restore"}
    /\ edits \in 0..MaxEdits

RowTyped == row \in [{"cli", "console"} -> SUBSET Node]
CalmTyped == apiLost \in BOOLEAN /\ trouble \in 0..MaxTrouble
JobTyped == job \in JobType /\ job.step \in StepsOf(job.kind)

\* The types, by the part of the state they are about.
LEMMA TypeParts == TypeOK <=> WorldTyped /\ UserTyped /\ RowTyped /\ CalmTyped /\ JobTyped
  BY DEF TypeOK, WorldTyped, UserTyped, RowTyped, CalmTyped, JobTyped, JobType

\* The same of the state after a step.
LEMMA TypePartsNext ==
  TypeOK' <=> WorldTyped' /\ UserTyped' /\ RowTyped' /\ CalmTyped' /\ JobTyped'
  BY DEF TypeOK, WorldTyped, UserTyped, RowTyped, CalmTyped, JobTyped, JobType

\* Machines, etcd and Kubernetes that stay as they are keep their types.
LEMMA SameWorld == WorldTyped /\ UNCHANGED world => WorldTyped'
  BY DEF WorldTyped, world

\* So do the API's address and the count of troubles.
LEMMA CalmKeeps == CalmTyped /\ Calm => CalmTyped'
  BY DEF CalmTyped, Calm

\* A step of a run that goes on with the same user and fits it keeps RInv.
LEMMA MoveKeeps ==
  ASSUME RInv, CalmTyped', RowTyped', WorldTyped', UNCHANGED user,
         JobTyped', job'.kind = job.kind, job'.want = job.want, job'.adds \subseteq job.adds,
         job'.removes \subseteq job.removes,
         job'.step \in {"install", "join"} => job'.todo \subseteq declared,
         job'.step \in {"reset", "forget"} => job'.todo \cap declared = {},
         ImagesFit'
  PROVE  RInv'
<1>1. UserTyped'
  BY TypeParts DEF RInv, UserTyped, user
<1>2. TypeOK'
  BY <1>1, TypePartsNext
<1>3. SomeControlPlane'
  BY DEF RInv, SomeControlPlane, CPs, user
<1>4. JobFits'
  BY DEF RInv, JobFits, user
<1>. QED BY <1>2, <1>3, <1>4 DEF RInv

\* A run that ends, well or not, keeps RInv.
LEMMA EndKeeps ==
  ASSUME RInv, CalmTyped', RowTyped', WorldTyped', job' = NoJob,
         UNCHANGED <<declared, edits>>, open' \in {open, "none"}
  PROVE  RInv'
<1>1. UserTyped'
  BY TypeParts DEF RInv, UserTyped
<1>2. JobTyped'
  BY NoJobIs DEF JobTyped, StepsOf
<1>3. TypeOK'
  BY <1>1, <1>2, TypePartsNext
<1>4. SomeControlPlane'
  BY DEF RInv, SomeControlPlane, CPs
<1>5. JobFits'
  BY NoJobIs DEF JobFits
<1>6. ImagesFit'
  BY NoJobIs DEF ImagesFit, BootstrapsOnDeclaredImage, At
<1>. QED BY <1>3, <1>4, <1>5, <1>6 DEF RInv

\* A step that fails keeps RInv.
LEMMA UnlessKeeps ==
  ASSUME RInv, Calm, NEW ok \in BOOLEAN, Unless(ok)
  PROVE  RInv'
<1>1. job' = NoJob /\ UNCHANGED <<row, declared, open, edits>> /\ UNCHANGED world
  BY DEF Unless, user
<1>2. WorldTyped' /\ RowTyped' /\ CalmTyped'
  BY <1>1, TypeParts, SameWorld, CalmKeeps DEF RInv, RowTyped
<1>. QED BY <1>1, <1>2, EndKeeps

\* What is said of images is about two steps of create only.
LEMMA ImagesElsewhere ==
  ASSUME ~(job'.kind = "create" /\ job'.step \in {"image", "bootstrap"})
  PROVE  ImagesFit'
  BY DEF ImagesFit, BootstrapsOnDeclaredImage, At

\* A run goes to its next step and the machines stay as they are.
LEMMA GoKeeps ==
  ASSUME RInv, Calm, UNCHANGED world, UNCHANGED user, RowTyped',
         NEW step \in Steps, NEW todo \in SUBSET Node, Goes(step, todo),
         step \in StepsOf(job.kind),
         step \in {"install", "join"} => todo \subseteq declared,
         step \in {"reset", "forget"} => todo \cap declared = {},
         job.kind = "create" /\ step \in {"image", "bootstrap"} => ImagesFit'
  PROVE  RInv'
<1>1. job \in JobType
  BY TypeParts DEF RInv, JobTyped
<1>2. /\ job' \in JobType /\ job'.step = step /\ job'.todo = todo
      /\ job'.kind = job.kind /\ job'.want = job.want
      /\ job'.adds = job.adds /\ job'.removes = job.removes
  BY <1>1, GoesIs
<1>3. WorldTyped' /\ CalmTyped' /\ JobTyped'
  BY <1>2, TypeParts, SameWorld, CalmKeeps DEF RInv, JobTyped
<1>4. ImagesFit'
  BY <1>2, ImagesElsewhere
<1>. QED BY <1>2, <1>3, <1>4, MoveKeeps

\* A machine that gets its config.
LEMMA InstallsTyped ==
  ASSUME WorldTyped, NEW n \in Node, Installs(n)
  PROVE  WorldTyped'
<1>1. /\ machine' \in [Node -> {"maint", "member"}]
      /\ image' \in [Node -> {"none", "old", "declared"}]
      /\ kubelet' \in [Node -> BOOLEAN]
      /\ UNCHANGED <<up, data, peers, kube>>
  BY DEF WorldTyped, Installs
<1>2. \A m \in Node : machine'[m] = "maint" => machine[m] = "maint" /\ kubelet'[m] = kubelet[m]
  BY DEF WorldTyped, Installs
<1>. QED BY <1>1, <1>2 DEF WorldTyped

-----------------------------------------------------------------------------
(* Create and its steps keep what is said of the run. *)

\* saveTarget writes the row of the cluster.
LEMMA SaveTargetKeepsRun ==
  ASSUME RInv, Calm, SaveTarget
  PROVE  RInv'
<1>1. "preflight" \in Steps /\ "preflight" \in StepsOf(job.kind) /\ {} \in SUBSET Node
  BY DEF SaveTarget, At, Steps, StepsOf
<1>2. RowTyped'
  BY TypeParts DEF RInv, RowTyped, JobTyped, JobType, SaveTarget, Records
<1>3. UNCHANGED world /\ UNCHANGED user /\ Goes("preflight", {})
  BY DEF SaveTarget
<1>. QED BY <1>1, <1>2, <1>3, GoKeeps

\* Only declared nodes are pending.
LEMMA PreflightKeepsRun ==
  ASSUME RInv, Calm, Preflight
  PROVE  RInv'
<1>1. CASE Unless(\A n \in Pending : Maint(n))
  BY <1>1, UnlessKeeps
<1>2. CASE Goes("install", Pending) /\ UNCHANGED <<world, row, user>>
  <2>1. "install" \in Steps /\ "install" \in StepsOf(job.kind)
    BY DEF Preflight, At, Steps, StepsOf
  <2>2. Pending \in SUBSET Node /\ Pending \subseteq declared
    BY TypeParts DEF RInv, JobFits, Pending, Preflight, At, UserTyped
  <2>3. RowTyped'
    BY <1>2, TypeParts DEF RInv, RowTyped
  <2>4. UNCHANGED world /\ UNCHANGED user
    BY <1>2
  <2>. QED BY <1>2, <2>1, <2>2, <2>3, <2>4, GoKeeps
<1>. QED BY <1>1, <1>2 DEF Preflight

\* A node at a time gets its config.
LEMMA InstallKeepsRun ==
  ASSUME RInv, Calm, Install
  PROVE  RInv'
<1>1. job \in JobType /\ job.kind = "create" /\ job.step = "install"
  BY TypeParts DEF RInv, JobTyped, Install, At
<1>2. ASSUME NEW n \in job.todo,
             job' = [job EXCEPT !.todo = @ \ {n}, !.wrong = @ \/ ~Maint(n)],
             IF Maint(n) THEN Installs(n) ELSE UNCHANGED world,
             UNCHANGED <<row, user>>
      PROVE  RInv'
  <2>1. /\ job' \in JobType /\ job'.kind = "create" /\ job'.step = "install"
        /\ job'.todo \subseteq job.todo /\ job'.want = job.want
        /\ job'.adds = job.adds /\ job'.removes = job.removes
    BY <1>1, <1>2 DEF JobType
  <2>2. JobTyped' /\ ImagesFit'
    BY <2>1, ImagesElsewhere DEF JobTyped, StepsOf
  <2>3. n \in Node /\ job.todo \subseteq declared
    BY <1>1 DEF JobType, RInv, JobFits
  <2>4. WorldTyped'
    BY <1>2, <2>3, TypeParts, InstallsTyped, SameWorld DEF RInv
  <2>5. RowTyped' /\ CalmTyped' /\ UNCHANGED user
    BY <1>2, TypeParts, CalmKeeps DEF RInv, RowTyped
  <2>. QED BY <1>1, <2>1, <2>2, <2>3, <2>4, <2>5, MoveKeeps
<1>3. ASSUME Goes("image", job.want), UNCHANGED <<world, row, user>>
      PROVE  RInv'
  <2>1. "image" \in Steps /\ "image" \in StepsOf(job.kind) /\ job.want \in SUBSET Node
    BY <1>1 DEF Steps, StepsOf, JobType
  <2>2. ImagesFit'
    <3>1. job'.step = "image" /\ job'.todo = job.want /\ job'.want = job.want
      BY <1>1, <1>3, <2>1, GoesIs
    <3>. QED BY <3>1 DEF ImagesFit, BootstrapsOnDeclaredImage, At
  <2>3. RowTyped'
    BY <1>3, TypeParts DEF RInv, RowTyped
  <2>4. UNCHANGED world /\ UNCHANGED user
    BY <1>3
  <2>. QED BY <1>3, <2>1, <2>2, <2>3, <2>4, GoKeeps
<1>4. Unless(~job.wrong) => RInv'
  BY <1>1, UnlessKeeps DEF JobType
<1>. QED BY <1>2, <1>3, <1>4 DEF Install

\* The machine that is asked runs the declared image from then on.
LEMMA ReimageKeepsRun ==
  ASSUME RInv, Calm, Reimage
  PROVE  RInv'
<1>1. job \in JobType /\ job.kind = "create" /\ job.step = "image"
  BY TypeParts DEF RInv, JobTyped, Reimage, At
<1>2. ASSUME NEW n \in job.todo,
             job' = [job EXCEPT !.todo = @ \ {n}, !.wrong = @ \/ ~Member(n)],
             image' = [image EXCEPT ![n] = IF Member(n) THEN "declared" ELSE @],
             UNCHANGED <<machine, up, kubelet, data, peers, kube, row, user>>
      PROVE  RInv'
  <2>1. /\ job' \in JobType /\ job'.kind = "create" /\ job'.step = "image"
        /\ job'.todo = job.todo \ {n} /\ job'.want = job.want
        /\ job'.adds = job.adds /\ job'.removes = job.removes
        /\ ~job'.wrong => ~job.wrong /\ Member(n)
    BY <1>1, <1>2 DEF JobType
  <2>2. image \in [Node -> {"none", "old", "declared"}] /\ job.want \subseteq Node /\ n \in Node
    BY <1>1, TypeParts DEF RInv, WorldTyped, JobType
  <2>3. image' \in [Node -> {"none", "old", "declared"}]
    BY <1>2, <2>2
  <2>4. ImagesFit'
    <3>1. ASSUME ~job'.wrong, NEW m \in job.want \ (job.todo \ {n})
          PROVE  image'[m] = "declared"
      BY <1>1, <1>2, <2>1, <2>2, <3>1 DEF RInv, ImagesFit, At
    <3>. QED BY <2>1, <3>1 DEF ImagesFit, BootstrapsOnDeclaredImage, At
  <2>5. JobTyped'
    BY <2>1 DEF JobTyped, StepsOf
  <2>6. WorldTyped'
    BY <1>2, <2>3, TypeParts DEF RInv, WorldTyped
  <2>7. RowTyped' /\ CalmTyped' /\ UNCHANGED user
    BY <1>2, TypeParts, CalmKeeps DEF RInv, RowTyped
  <2>. QED BY <1>1, <2>1, <2>4, <2>5, <2>6, <2>7, MoveKeeps
<1>3. ASSUME job.todo = {}, ~job.wrong, Goes("bootstrap", {}), UNCHANGED <<world, row, user>>
      PROVE  RInv'
  <2>1. "bootstrap" \in Steps /\ "bootstrap" \in StepsOf(job.kind) /\ {} \in SUBSET Node
    BY <1>1 DEF Steps, StepsOf
  <2>2. ImagesFit'
    <3>1. job'.step = "bootstrap" /\ job'.want = job.want
      BY <1>1, <1>3, <2>1, GoesIs
    <3>2. \A n \in job.want : image'[n] = "declared"
      BY <1>1, <1>3 DEF RInv, ImagesFit, At, world
    <3>. QED BY <3>1, <3>2 DEF ImagesFit, BootstrapsOnDeclaredImage, At
  <2>3. RowTyped'
    BY <1>3, TypeParts DEF RInv, RowTyped
  <2>4. UNCHANGED world /\ UNCHANGED user
    BY <1>3
  <2>. QED BY <1>3, <2>1, <2>2, <2>3, <2>4, GoKeeps
<1>4. Unless(~job.wrong) => RInv'
  BY <1>1, UnlessKeeps DEF JobType
<1>. QED BY <1>2, <1>3, <1>4 DEF Reimage

\* Making an etcd cluster of one member.
LEMMA FoundsTyped ==
  ASSUME WorldTyped, NEW cp \in ControlPlane, Member(cp), NEW objects \in SUBSET Node,
         Founds(cp, objects)
  PROVE  WorldTyped'
<1>. DEFINE Free == {i \in 1..MaxEtcd : \A n \in ControlPlane : data[n] # i}
            k == First(Free)
<1>1. Free \in SUBSET Nat /\ Free # {}
  BY DEF Founds
<1>2. k \in 1..MaxEtcd
  BY <1>1, Least DEF First
<1>3. data' = [data EXCEPT ![cp] = k] /\ peers' = [peers EXCEPT ![k] = {cp}]
  BY DEF Founds
<1>. HIDE DEF k, Free
<1>4. /\ data' \in [ControlPlane -> 0..MaxEtcd]
      /\ peers' \in [1..MaxEtcd -> SUBSET ControlPlane]
      /\ \A n \in ControlPlane : n # cp => data'[n] = data[n]
  BY <1>2, <1>3 DEF WorldTyped
<1>5. kube' \in SUBSET Node /\ UNCHANGED <<machine, image, up, kubelet>>
  BY DEF Founds
<1>6. machine[cp] = "member"
  BY DEF Member
<1>. QED BY <1>4, <1>5, <1>6 DEF WorldTyped

\* What create bootstraps, and restore recovers on, is a control plane.
LEMMA FirstWanted ==
  ASSUME RInv, job.kind \in {"create", "restore"}
  PROVE  First(WantCPs) \in ControlPlane
<1>1. WantCPs \in SUBSET Node /\ WantCPs \subseteq ControlPlane
  BY TypeParts DEF RInv, JobTyped, JobType, WantCPs
<1>2. WantCPs # {}
  BY DEF RInv, JobFits, SomeControlPlane, CPs, WantCPs
<1>. QED BY <1>1, <1>2, FirstIn

\* The step that makes etcd, or finds it healthy.
LEMMA BootstrapKeepsRun ==
  ASSUME RInv, Calm, Bootstrap
  PROVE  RInv'
<1>. DEFINE cp == First(WantCPs)
            ok == Member(cp) /\ (data[cp] = 0 \/ (data[cp] # 0 /\ Quorate(data[cp])))
<1>1. job \in JobType /\ job.kind = "create" /\ job.step = "bootstrap"
  BY TypeParts DEF RInv, JobTyped, Bootstrap, At
<1>2. cp \in ControlPlane
  BY <1>1, FirstWanted
<1>3. ASSUME Member(cp), UNCHANGED world \/ Founds(cp, {}), Goes("members", {}),
             UNCHANGED <<row, user>>
      PROVE  RInv'
  <2>1. "members" \in Steps /\ {} \in SUBSET Node
    BY DEF Steps
  <2>2. /\ job' \in JobType /\ job'.step = "members" /\ job'.todo = {} /\ job'.kind = job.kind
        /\ job'.want = job.want /\ job'.adds = job.adds /\ job'.removes = job.removes
    BY <1>1, <1>3, <2>1, GoesIs
  <2>3. JobTyped' /\ ImagesFit'
    BY <1>1, <2>2, ImagesElsewhere DEF JobTyped, StepsOf
  <2>4. WorldTyped'
    BY <1>2, <1>3, <2>1, TypeParts, FoundsTyped, SameWorld DEF RInv
  <2>5. RowTyped' /\ CalmTyped' /\ UNCHANGED user
    BY <1>3, TypeParts, CalmKeeps DEF RInv, RowTyped
  <2>. QED BY <2>2, <2>3, <2>4, <2>5, MoveKeeps
<1>4. ok \in BOOLEAN /\ (Unless(ok) => RInv')
  <2>1. ok \in BOOLEAN
    OBVIOUS
  <2>. HIDE DEF ok
  <2>. QED BY <2>1, UnlessKeeps
<1>. QED BY <1>3, <1>4 DEF Bootstrap

\* waitEtcdMembers changes the run only.
LEMMA WaitMembersKeepsRun ==
  ASSUME RInv, Calm, WaitMembers
  PROVE  RInv'
<1>1. job \in JobType /\ job.step = "members" /\ "members" \in StepsOf(job.kind)
  BY TypeParts DEF RInv, JobTyped, WaitMembers
<1>2. "ready" \in Steps /\ "ready" \in StepsOf(job.kind) /\ {} \in SUBSET Node
  BY <1>1 DEF Steps, StepsOf
<1>3. ASSUME Goes("ready", {}), UNCHANGED <<world, row, user>>
      PROVE  RInv'
  <2>1. RowTyped' /\ UNCHANGED world /\ UNCHANGED user
    BY <1>3, TypeParts DEF RInv, RowTyped
  <2>. QED BY <1>2, <1>3, <2>1, GoKeeps
<1>4. ASSUME NEW ok \in BOOLEAN, Unless(ok) PROVE RInv'
  BY <1>4, UnlessKeeps
<1>. QED
  <2>. DEFINE joined == LET cp == First(WantCPs) IN
                        /\ Member(cp) /\ data[cp] # 0 /\ Quorate(data[cp])
                        /\ Cardinality(peers[data[cp]]) >= Cardinality(WantCPs)
  <2>1. joined \in BOOLEAN
    OBVIOUS
  <2>2. (Goes("ready", {}) /\ UNCHANGED <<world, row, user>>) \/ Unless(joined)
    BY DEF WaitMembers
  <2>. HIDE DEF joined
  <2>. QED BY <1>3, <1>4, <2>1, <2>2

\* So does the wait for the Node objects, at the end.
LEMMA WaitReadyKeepsRun ==
  ASSUME RInv, Calm, WaitReady
  PROVE  RInv'
<1>1. CASE Unless(NodesReady(job.want))
  BY <1>1, UnlessKeeps DEF NodesReady
<1>2. CASE job' = NoJob /\ open' = "none" /\ UNCHANGED <<world, row, declared, edits>>
  <2>1. WorldTyped' /\ RowTyped' /\ CalmTyped'
    BY <1>2, TypeParts, SameWorld, CalmKeeps DEF RInv, RowTyped
  <2>. QED BY <1>2, <2>1, EndKeeps
<1>. QED BY <1>1, <1>2 DEF WaitReady

\* Every step of create.
LEMMA CreateKeepsRun == RInv /\ CreateStep => RInv'
  BY SaveTargetKeepsRun, PreflightKeepsRun, InstallKeepsRun, ReimageKeepsRun,
     BootstrapKeepsRun, WaitMembersKeepsRun, WaitReadyKeepsRun DEF CreateStep

-----------------------------------------------------------------------------
(* Converge, destroy and restore keep what is said of the run. *)

\* A step of a run that is no create, and goes on as the machines are.
LEMMA OtherGoKeeps ==
  ASSUME RInv, Calm, UNCHANGED <<world, user>>, RowTyped', job.kind # "create",
         NEW step \in Steps, NEW todo \in SUBSET Node, Goes(step, todo),
         step \in StepsOf(job.kind),
         step \in {"install", "join"} => todo \subseteq declared,
         step \in {"reset", "forget"} => todo \cap declared = {}
  PROVE  RInv'
  BY GoKeeps

\* A step of a run that is no create, and may change its fields and the machines.
LEMMA OtherMoveKeeps ==
  ASSUME RInv, Calm, WorldTyped', RowTyped', UNCHANGED user, job.kind # "create",
         job' \in JobType, job'.kind = job.kind, job'.want = job.want, job'.step \in StepsOf(job.kind),
         job'.adds \subseteq job.adds, job'.removes \subseteq job.removes,
         job'.step \in {"install", "join"} => job'.todo \subseteq declared,
         job'.step \in {"reset", "forget"} => job'.todo \cap declared = {}
  PROVE  RInv'
<1>1. CalmTyped' /\ JobTyped' /\ ImagesFit'
  BY TypeParts, CalmKeeps, ImagesElsewhere DEF RInv, JobTyped
<1>. QED BY <1>1, MoveKeeps

\* A row that stays as it is keeps its type.
LEMMA SameRow == RInv /\ UNCHANGED row => RowTyped'
  BY TypeParts DEF RInv, RowTyped

\* So does one that a run writes.
LEMMA RecordsTyped ==
  ASSUME RInv, NEW by, NEW nodes \in SUBSET Node, Records(by, nodes)
  PROVE  RowTyped'
  BY TypeParts DEF RInv, RowTyped, Records

\* The row that a run reads.
LEMMA RowIs ==
  ASSUME RInv
  PROVE  job.by \in {"cli", "console"} /\ row[job.by] \in SUBSET Node
  BY TypeParts DEF RInv, RowTyped, JobTyped, JobType

\* The fields of a run of converge.
LEMMA ConvergeJob ==
  ASSUME RInv, job.kind = "converge"
  PROVE  /\ job \in JobType /\ job.want = declared /\ job.adds \in SUBSET Node
         /\ job.removes \in SUBSET Node /\ job.todo \in SUBSET Node /\ job.applied \in SUBSET Node
         /\ job.adds \subseteq declared /\ job.removes \cap declared = {}
         /\ {"adopt", "add", "join", "joined", "remove", "reset", "forget"} \subseteq
               StepsOf(job.kind) \cap Steps
  BY TypeParts DEF RInv, JobFits, JobTyped, JobType, StepsOf, Steps

\* publish writes the row.
LEMMA AdoptKeepsRun ==
  ASSUME RInv, Calm, Adopt
  PROVE  RInv'
<1>1. job.kind = "converge"
  BY DEF Adopt, At
<1>2. RowTyped'
  BY <1>1, RowIs, ConvergeJob, RecordsTyped DEF Adopt
<1>. QED BY <1>1, <1>2, ConvergeJob, OtherGoKeeps DEF Adopt

\* AddNode takes the first node to add, which is declared.
LEMMA AddKeepsRun ==
  ASSUME RInv, Calm, Add
  PROVE  RInv'
<1>. DEFINE n == First(job.adds)
<1>1. job.kind = "converge"
  BY DEF Add, At
<1>2. CASE /\ job.adds # {} /\ Records(job.by, row[job.by] \cup {n})
           /\ Goes("join", {n}) /\ UNCHANGED <<world, user>>
  <2>1. n \in job.adds
    BY <1>1, <1>2, ConvergeJob, FirstIn
  <2>. HIDE DEF n
  <2>2. {n} \in SUBSET Node /\ {n} \subseteq declared
    BY <1>1, <2>1, ConvergeJob
  <2>3. row[job.by] \cup {n} \in SUBSET Node
    BY <2>2, RowIs
  <2>4. RowTyped'
    BY <1>2, <2>3, RecordsTyped
  <2>. QED BY <1>1, <1>2, <2>2, <2>4, ConvergeJob, OtherGoKeeps
<1>3. CASE Unless(n \notin row[job.by] /\ Maint(n))
  BY <1>3, UnlessKeeps
<1>4. CASE Goes("remove", {}) /\ UNCHANGED <<world, row, user>>
  BY <1>1, <1>4, ConvergeJob, SameRow, OtherGoKeeps
<1>. QED BY <1>2, <1>3, <1>4 DEF Add

\* The node gets its config.
LEMMA JoinKeepsRun ==
  ASSUME RInv, Calm, Join
  PROVE  RInv'
<1>1. job.kind = "converge" /\ job.step = "join"
  BY DEF Join, At
<1>2. ASSUME NEW n \in job.todo, Installs(n), Goes("joined", {n}), UNCHANGED <<row, user>>
      PROVE  RInv'
  <2>1. "joined" \in Steps /\ "joined" \in StepsOf(job.kind) /\ {n} \in SUBSET Node /\ n \in Node
    BY <1>1, ConvergeJob
  <2>2. /\ job' \in JobType /\ job'.step = "joined" /\ job'.kind = job.kind
        /\ job'.want = job.want /\ job'.adds = job.adds /\ job'.removes = job.removes
    BY <1>1, <1>2, <2>1, ConvergeJob, GoesIs
  <2>3. WorldTyped' /\ RowTyped' /\ UNCHANGED user
    BY <1>2, <2>1, InstallsTyped, TypeParts, SameRow DEF RInv
  <2>. QED BY <1>1, <2>1, <2>2, <2>3, OtherMoveKeeps
<1>3. ASSUME NEW n \in job.todo, Unless(Maint(n)) PROVE RInv'
  BY <1>3, UnlessKeeps DEF Maint
<1>. QED BY <1>2, <1>3 DEF Join

\* The node is Ready and is one less to add.
LEMMA JoinedKeepsRun ==
  ASSUME RInv, Calm, Joined
  PROVE  RInv'
<1>1. job.kind = "converge" /\ job.step = "joined"
  BY DEF Joined, At
<1>2. ASSUME NEW n \in job.todo, UNCHANGED <<world, row, user>>,
             job' = [job EXCEPT !.step = "add", !.todo = {}, !.adds = @ \ {n}]
      PROVE  RInv'
  <2>1. /\ job' \in JobType /\ job'.step = "add" /\ job'.kind = job.kind
        /\ job'.want = job.want /\ job'.adds \subseteq job.adds /\ job'.removes = job.removes
    BY <1>1, <1>2, ConvergeJob DEF JobType, Steps
  <2>2. WorldTyped' /\ RowTyped' /\ UNCHANGED user
    BY <1>2, SameWorld, TypeParts, SameRow DEF RInv
  <2>. QED BY <1>1, <2>1, <2>2, ConvergeJob, OtherMoveKeeps
<1>3. ASSUME NEW n \in job.todo, Unless(NodesReady({n})) PROVE RInv'
  BY <1>3, UnlessKeeps DEF NodesReady
<1>. QED BY <1>2, <1>3 DEF Joined

\* RemoveNode takes the first node to remove, which is not declared.
LEMMA RemoveKeepsRun ==
  ASSUME RInv, Calm, Remove
  PROVE  RInv'
<1>. DEFINE h == First(job.removes)
<1>1. job.kind = "converge"
  BY DEF Remove, At
<1>2. CASE /\ job.removes # {} /\ kube' = kube \ {h} /\ Goes("reset", {h})
           /\ UNCHANGED <<machine, image, up, kubelet, data, peers, row, user>>
  <2>1. h \in job.removes
    BY <1>1, <1>2, ConvergeJob, FirstIn
  <2>. HIDE DEF h
  <2>2. {h} \in SUBSET Node /\ {h} \cap declared = {}
    BY <1>1, <2>1, ConvergeJob
  <2>3. /\ job' \in JobType /\ job'.step = "reset" /\ job'.kind = job.kind /\ job'.todo = {h}
        /\ job'.want = job.want /\ job'.adds = job.adds /\ job'.removes = job.removes
    BY <1>1, <1>2, <2>2, ConvergeJob, GoesIs
  <2>4. WorldTyped' /\ RowTyped' /\ UNCHANGED user
    BY <1>2, TypeParts, SameRow DEF RInv, WorldTyped
  <2>. QED BY <1>1, <2>2, <2>3, <2>4, ConvergeJob, OtherMoveKeeps
<1>3. CASE Unless(MayRemove(h) /\ ApiUp)
  BY <1>3, UnlessKeeps
<1>4. CASE job' = NoJob /\ open' = "none" /\ UNCHANGED <<world, row, declared, edits>>
  <2>1. WorldTyped' /\ RowTyped' /\ CalmTyped'
    BY <1>4, TypeParts, SameWorld, CalmKeeps, SameRow DEF RInv
  <2>. QED BY <1>4, <2>1, EndKeeps
<1>. QED BY <1>2, <1>3, <1>4 DEF Remove

\* A machine that leaves its cluster, with its data.
LEMMA LeavesTyped ==
  ASSUME WorldTyped, NEW h \in Node,
         machine' = [machine EXCEPT ![h] = "maint"],
         kubelet' = [kubelet EXCEPT ![h] = FALSE],
         data' = [n \in ControlPlane |-> IF n = h THEN 0 ELSE data[n]],
         peers' \in [1..MaxEtcd -> SUBSET ControlPlane],
         UNCHANGED <<image, up, kube>>
  PROVE  WorldTyped'
<1>1. /\ machine' \in [Node -> {"maint", "member"}]
      /\ kubelet' \in [Node -> BOOLEAN]
      /\ data' \in [ControlPlane -> 0..MaxEtcd]
  BY BoundAssumption DEF WorldTyped
<1>2. ASSUME NEW n \in Node, machine'[n] = "maint"
      PROVE  ~kubelet'[n] /\ (n \in ControlPlane => data'[n] = 0)
  BY <1>2 DEF WorldTyped
<1>. QED BY <1>1, <1>2 DEF WorldTyped

\* The node leaves etcd and boots into maintenance mode.
LEMMA ResetKeepsRun ==
  ASSUME RInv, Calm, Reset
  PROVE  RInv'
<1>1. job.kind = "converge" /\ job.step = "reset"
  BY DEF Reset, At
<1>2. ASSUME NEW h \in job.todo, NEW k,
             machine' = [machine EXCEPT ![h] = "maint"],
             kubelet' = [kubelet EXCEPT ![h] = FALSE],
             data' = [n \in ControlPlane |-> IF n = h THEN 0 ELSE data[n]],
             peers' = [i \in 1..MaxEtcd |-> IF i = k THEN peers[i] \ {h} ELSE peers[i]],
             Goes("forget", {h}),
             UNCHANGED <<image, up, kube, row, user>>
      PROVE  RInv'
  <2>1. {h} \in SUBSET Node /\ h \in Node /\ {h} \cap declared = {}
    BY <1>1, ConvergeJob DEF RInv, JobFits
  <2>2. /\ job' \in JobType /\ job'.step = "forget" /\ job'.kind = job.kind /\ job'.todo = {h}
        /\ job'.want = job.want /\ job'.adds = job.adds /\ job'.removes = job.removes
    BY <1>1, <1>2, <2>1, ConvergeJob, GoesIs
  <2>3. peers' \in [1..MaxEtcd -> SUBSET ControlPlane]
    BY <1>2, TypeParts DEF RInv, WorldTyped
  <2>4. WorldTyped' /\ RowTyped' /\ UNCHANGED user
    BY <1>2, <2>1, <2>3, LeavesTyped, TypeParts, SameRow DEF RInv
  <2>. QED BY <1>1, <2>1, <2>2, <2>4, ConvergeJob, OtherMoveKeeps
<1>3. ASSUME NEW ok \in BOOLEAN, Unless(ok) PROVE RInv'
  BY <1>3, UnlessKeeps
<1>. DEFINE k(h) == IF h \in ControlPlane THEN data[h] ELSE 0
            can(h) == Member(h) /\ (k(h) # 0 => Quorate(k(h)))
<1>4. PICK h \in job.todo :
        \/ /\ machine' = [machine EXCEPT ![h] = "maint"]
           /\ kubelet' = [kubelet EXCEPT ![h] = FALSE]
           /\ data' = [n \in ControlPlane |-> IF n = h THEN 0 ELSE data[n]]
           /\ peers' = [i \in 1..MaxEtcd |-> IF i = k(h) THEN peers[i] \ {h} ELSE peers[i]]
           /\ Goes("forget", {h})
           /\ UNCHANGED <<image, up, kube, row, user>>
        \/ Unless(can(h))
  BY DEF Reset
<1>5. can(h) \in BOOLEAN
  OBVIOUS
<1>. HIDE DEF k, can
<1>. QED BY <1>2, <1>3, <1>4, <1>5

\* The node leaves the row and is one less to remove.
LEMMA ForgetKeepsRun ==
  ASSUME RInv, Calm, Forget
  PROVE  RInv'
<1>1. job.kind = "converge"
  BY DEF Forget, At
<1>2. row[job.by] \ job.todo \in SUBSET Node
  BY RowIs
<1>3. WorldTyped' /\ RowTyped' /\ UNCHANGED user
  BY <1>2, RecordsTyped, SameWorld, TypeParts DEF RInv, Forget
<1>4. /\ job' \in JobType /\ job'.step = "remove" /\ job'.kind = job.kind
      /\ job'.want = job.want /\ job'.adds = job.adds /\ job'.removes \subseteq job.removes
  BY <1>1, ConvergeJob DEF Forget, JobType, Steps
<1>. QED BY <1>1, <1>3, <1>4, ConvergeJob, OtherMoveKeeps

\* Every step of converge.
LEMMA ConvergeKeepsRun == RInv /\ ConvergeStep => RInv'
  BY AdoptKeepsRun, AddKeepsRun, JoinKeepsRun, JoinedKeepsRun, RemoveKeepsRun, ResetKeepsRun,
     ForgetKeepsRun DEF ConvergeStep

\* A destroy resets its nodes.
LEMMA WipeNodesKeepsRun ==
  ASSUME RInv, Calm, WipeNodes
  PROVE  RInv'
<1>1. job \in JobType /\ job.kind = "destroy" /\ job.step \in {"workers", "control planes"}
  BY TypeParts DEF RInv, JobTyped, WipeNodes
<1>2. ASSUME NEW n \in job.todo,
             job' = [job EXCEPT !.todo = @ \ {n}, !.wrong = @ \/ ~Member(n)],
             IF Member(n) THEN Wipes(n) ELSE UNCHANGED world,
             UNCHANGED <<row, user>>
      PROVE  RInv'
  <2>1. /\ job' \in JobType /\ job'.step = job.step /\ job'.kind = job.kind
        /\ job'.want = job.want /\ job'.adds = job.adds /\ job'.removes = job.removes
    BY <1>1, <1>2 DEF JobType
  <2>2. n \in Node
    BY <1>1 DEF JobType
  <2>3. Wipes(n) => WorldTyped'
    BY <2>2, LeavesTyped, TypeParts DEF RInv, Wipes, WorldTyped
  <2>4. WorldTyped' /\ RowTyped' /\ UNCHANGED user
    BY <1>2, <2>3, SameWorld, TypeParts, SameRow DEF RInv
  <2>5. job'.step \in StepsOf(job.kind)
    BY <1>1, <2>1 DEF StepsOf
  <2>. QED BY <1>1, <2>1, <2>4, <2>5, OtherMoveKeeps
<1>3. ASSUME NEW step \in {"control planes", "maintenance"}, NEW todo \in SUBSET Node,
             Goes(step, todo), UNCHANGED <<world, row, user>>
      PROVE  RInv'
  <2>1. step \in Steps /\ step \in StepsOf(job.kind)
    BY <1>1 DEF Steps, StepsOf
  <2>. QED BY <1>1, <1>3, <2>1, SameRow, OtherGoKeeps
<1>4. Unless(~job.wrong) => RInv'
  BY <1>1, UnlessKeeps DEF JobType
<1>5. {n \in job.applied \cap ControlPlane : machine[n] = "member"} \in SUBSET Node
  BY <1>1 DEF JobType
<1>. QED BY <1>2, <1>3, <1>4, <1>5 DEF WipeNodes

\* A destroy ends when they wait in maintenance mode.
LEMMA WaitMaintenanceKeepsRun ==
  ASSUME RInv, Calm, WaitMaintenance
  PROVE  RInv'
<1>1. CASE job' = NoJob /\ open' = "none" /\ UNCHANGED <<world, row, declared, edits>>
  <2>1. WorldTyped' /\ RowTyped' /\ CalmTyped'
    BY <1>1, TypeParts, SameWorld, CalmKeeps, SameRow DEF RInv
  <2>. QED BY <1>1, <2>1, EndKeeps
<1>2. Unless(\A n \in job.want : Maint(n)) => RInv'
  BY UnlessKeeps
<1>. QED BY <1>1, <1>2 DEF WaitMaintenance

\* Every step of a destroy.
LEMMA DestroyKeepsRun == RInv /\ DestroyStep => RInv'
  BY WipeNodesKeepsRun, WaitMaintenanceKeepsRun DEF DestroyStep

\* The fields of a run of restore.
LEMMA RestoreJob ==
  ASSUME RInv, job.kind = "restore"
  PROVE  /\ job \in JobType /\ job.todo \in SUBSET Node /\ job.want \in SUBSET Node
         /\ WantCPs \in SUBSET Node /\ {} \in SUBSET Node
         /\ {"check", "wipe", "recover", "members", "ready"} \subseteq StepsOf(job.kind) \cap Steps
  BY TypeParts DEF RInv, JobTyped, JobType, WantCPs, StepsOf, Steps

\* A restore asks its control planes.
LEMMA RestoreCheckKeepsRun ==
  ASSUME RInv, Calm, RestoreCheck
  PROVE  RInv'
<1>1. job.kind = "restore"
  BY DEF RestoreCheck, At
<1>2. CASE Goes("wipe", WantCPs) /\ UNCHANGED <<world, row, user>>
  BY <1>1, <1>2, RestoreJob, SameRow, OtherGoKeeps
<1>3. Unless(\A n \in WantCPs : Member(n)) => RInv'
  BY UnlessKeeps
<1>. QED BY <1>2, <1>3 DEF RestoreCheck

\* What the first node to wipe is, and that it is one.
LEMMA FirstToWipe ==
  ASSUME RInv, job.kind = "restore", job.todo # {}
  PROVE  First(job.todo) \in job.todo /\ First(job.todo) \in Node
  BY RestoreJob, FirstIn

\* wipeEtcd takes the first node that is left.
LEMMA WipeEtcdKeepsRun ==
  ASSUME RInv, Calm, WipeEtcd
  PROVE  RInv'
<1>. DEFINE n == First(job.todo)
<1>1. job.kind = "restore"
  BY DEF WipeEtcd, At
<1>2. CASE /\ job.todo # {} /\ Member(n)
           /\ data' = [data EXCEPT ![n] = 0]
           /\ kubelet' = [kubelet EXCEPT ![n] = TRUE]
           /\ Goes("wipe", job.todo \ {n})
           /\ UNCHANGED <<machine, image, up, peers, kube, row, user>>
  <2>1. n \in Node
    BY <1>1, <1>2, FirstToWipe
  <2>. HIDE DEF n
  <2>2. job.todo \ {n} \in SUBSET Node
    BY <1>1, RestoreJob
  <2>3. /\ job' \in JobType /\ job'.step = "wipe" /\ job'.kind = job.kind
        /\ job'.want = job.want /\ job'.adds = job.adds /\ job'.removes = job.removes
    BY <1>1, <1>2, <2>2, RestoreJob, GoesIs
  <2>4. WorldTyped'
    <3>1. data \in [ControlPlane -> 0..MaxEtcd] /\ kubelet \in [Node -> BOOLEAN]
      BY TypeParts DEF RInv, WorldTyped
    <3>2. /\ data' \in [ControlPlane -> 0..MaxEtcd]
          /\ \A m \in ControlPlane : data[m] = 0 => data'[m] = 0
      <4>1. data' = [data EXCEPT ![n] = 0] /\ 0 \in 0..MaxEtcd
        BY <1>2, Bounds
      <4>. QED BY <3>1, <4>1
    <3>3. /\ kubelet' \in [Node -> BOOLEAN]
          /\ \A m \in Node : m # n => kubelet'[m] = kubelet[m]
      BY <1>2, <2>1, <3>1
    <3>. QED BY <1>2, <3>2, <3>3, TypeParts DEF RInv, WorldTyped, Member
  <2>5. RowTyped' /\ UNCHANGED user
    BY <1>2, SameRow
  <2>. QED BY <1>1, <2>3, <2>4, <2>5, RestoreJob, OtherMoveKeeps
<1>3. Unless(Member(n)) => RInv'
  <2>1. Member(n) \in BOOLEAN
    BY DEF Member
  <2>. QED BY <2>1, UnlessKeeps
<1>4. CASE Goes("recover", {}) /\ UNCHANGED <<world, row, user>>
  BY <1>1, <1>4, RestoreJob, SameRow, OtherGoKeeps
<1>. QED BY <1>2, <1>3, <1>4 DEF WipeEtcd

\* bootstrapRecovered makes etcd again.
LEMMA RecoverKeepsRun ==
  ASSUME RInv, Calm, Recover
  PROVE  RInv'
<1>. DEFINE cp == First(WantCPs)
<1>1. job.kind = "restore"
  BY DEF Recover, At
<1>2. cp \in ControlPlane
  BY <1>1, FirstWanted
<1>. HIDE DEF cp
<1>3. CASE Member(cp) /\ Founds(cp, job.want) /\ Goes("members", {}) /\ UNCHANGED <<row, user>>
  <2>1. WorldTyped'
    BY <1>1, <1>2, <1>3, RestoreJob, FoundsTyped, TypeParts DEF RInv
  <2>2. /\ job' \in JobType /\ job'.step = "members" /\ job'.kind = job.kind
        /\ job'.want = job.want /\ job'.adds = job.adds /\ job'.removes = job.removes
    BY <1>1, <1>3, RestoreJob, GoesIs
  <2>. QED BY <1>1, <1>3, <2>1, <2>2, RestoreJob, SameRow, OtherMoveKeeps
<1>4. Unless(Member(cp) /\ data[cp] = 0) => RInv'
  BY UnlessKeeps
<1>. QED BY <1>3, <1>4 DEF Recover, cp

\* Every step of a restore.
LEMMA RestoreKeepsRun == RInv /\ RestoreStep => RInv'
  BY RestoreCheckKeepsRun, WipeEtcdKeepsRun, RecoverKeepsRun DEF RestoreStep

-----------------------------------------------------------------------------
(* So do the plan that begins a run, the machines and the user. *)

\* A plan that begins a run.
LEMMA BeginKeeps ==
  ASSUME RInv, CalmTyped', RowTyped', WorldTyped', UNCHANGED <<declared, edits>>,
         job' \in JobType, job'.step \in StepsOf(job'.kind),
         job'.kind \in {"create", "converge", "destroy"} => job'.want = declared,
         job'.kind = "restore" => declared \subseteq job'.want,
         job'.kind \in {"create", "converge"} => open' = "apply",
         job'.kind \in {"destroy", "restore"} => open' = job'.kind,
         job'.kind = "converge" => job'.adds \subseteq declared /\ job'.removes \cap declared = {},
         job'.step \notin {"install", "join", "reset", "forget", "image", "bootstrap"},
         open' \in {"none", "apply", "destroy", "restore"}
  PROVE  RInv'
<1>1. UserTyped' /\ JobTyped'
  BY TypeParts DEF RInv, UserTyped, JobTyped
<1>2. TypeOK'
  BY <1>1, TypePartsNext
<1>3. SomeControlPlane' /\ JobFits' /\ ImagesFit'
  BY ImagesElsewhere DEF RInv, SomeControlPlane, CPs, JobFits
<1>. QED BY <1>2, <1>3 DEF RInv

\* The row of the CLI, whose store is a new process's own.
LEMMA OwnStore ==
  ASSUME RInv, NEW by, row' = [row EXCEPT !["cli"] = IF by = "cli" THEN {} ELSE @]
  PROVE  RowTyped'
  BY TypeParts DEF RInv, RowTyped

\* What a plan computes are sets of nodes; what it adds is declared, what it removes is not.
LEMMA SetsIn ==
  ASSUME RInv
  PROVE  /\ declared \in SUBSET Node /\ {} \in SUBSET Node /\ AppliedOf(declared) \in SUBSET Node
         /\ Adds \in SUBSET Node /\ Removes \in SUBSET Node
         /\ Adds \subseteq declared /\ Removes \cap declared = {}
  BY TypeParts DEF RInv, UserTyped, WorldTyped, Adds, Removes, AppliedOf

\* A create begins.
LEMMA StartCreateKeepsRun ==
  ASSUME RInv, NEW by \in Source, StartCreate(by)
  PROVE  RInv'
<1>1. by \in {"cli", "console"} /\ "secrets" \in Steps /\ "create" \in Kinds
  BY SourceAssumption DEF Steps, Kinds
<1>2. job' = [NoJob EXCEPT !.kind = "create", !.by = by, !.step = "secrets", !.want = declared]
  BY DEF StartCreate
<1>3. /\ job' \in JobType /\ job'.kind = "create" /\ job'.step = "secrets" /\ job'.want = declared
  BY <1>1, <1>2, NoJobIs, SetsIn DEF JobType
<1>4. job'.step \in StepsOf(job'.kind)
  BY <1>3 DEF StepsOf
<1>5. WorldTyped' /\ RowTyped' /\ CalmTyped'
  BY SameWorld, OwnStore, CalmKeeps, TypeParts DEF RInv, StartCreate
<1>6. UNCHANGED <<declared, edits>> /\ open' = "apply"
  BY DEF StartCreate
<1>. QED BY <1>3, <1>4, <1>5, <1>6, BeginKeeps

\* A converge begins.
LEMMA StartConvergeKeepsRun ==
  ASSUME RInv, NEW by \in Source, StartConverge(by)
  PROVE  RInv'
<1>1. by \in {"cli", "console"} /\ "adopt" \in Steps /\ "converge" \in Kinds
  BY SourceAssumption DEF Steps, Kinds
<1>2. job' = [NoJob EXCEPT !.kind = "converge", !.by = by, !.step = "adopt", !.want = declared,
                           !.applied = Applied, !.adds = Adds, !.removes = Removes]
  BY DEF StartConverge
<1>3. Applied \in SUBSET Node
  BY SetsIn DEF Applied
<1>4. /\ job' \in JobType /\ job'.kind = "converge" /\ job'.step = "adopt" /\ job'.want = declared
      /\ job'.adds = Adds /\ job'.removes = Removes
  BY <1>1, <1>2, <1>3, NoJobIs, SetsIn DEF JobType
<1>5. job'.step \in StepsOf(job'.kind)
  BY <1>4 DEF StepsOf
<1>6. WorldTyped' /\ RowTyped' /\ CalmTyped'
  BY SameWorld, OwnStore, CalmKeeps, TypeParts DEF RInv, StartConverge
<1>7. UNCHANGED <<declared, edits>> /\ open' = "apply"
  BY DEF StartConverge
<1>. QED BY <1>4, <1>5, <1>6, <1>7, SetsIn, BeginKeeps

\* A destroy begins.
LEMMA StartDestroyKeepsRun ==
  ASSUME RInv, NEW by \in Source, StartDestroy(by)
  PROVE  RInv'
<1>. DEFINE R == {n \in declared : Member(n) \/ Maint(n)}
            W == {n \in declared \ ControlPlane : Member(n)}
<1>1. by \in {"cli", "console"} /\ "workers" \in Steps /\ "destroy" \in Kinds
  BY SourceAssumption DEF Steps, Kinds
<1>2. job' = [NoJob EXCEPT !.kind = "destroy", !.by = by, !.step = "workers", !.want = declared,
                           !.applied = R, !.todo = W]
  BY DEF StartDestroy
<1>3. R \in SUBSET Node /\ W \in SUBSET Node
  BY SetsIn
<1>. HIDE DEF R, W
<1>4. /\ job' \in JobType /\ job'.kind = "destroy" /\ job'.step = "workers" /\ job'.want = declared
  BY <1>1, <1>2, <1>3, NoJobIs, SetsIn DEF JobType
<1>5. job'.step \in StepsOf(job'.kind)
  BY <1>4 DEF StepsOf
<1>6. WorldTyped' /\ RowTyped' /\ CalmTyped'
  BY SameWorld, SameRow, CalmKeeps, TypeParts DEF RInv, StartDestroy
<1>7. UNCHANGED <<declared, edits>> /\ open' = "destroy"
  BY DEF StartDestroy
<1>. QED BY <1>4, <1>5, <1>6, <1>7, BeginKeeps

\* A restore begins.
LEMMA StartRestoreKeepsRun ==
  ASSUME RInv, StartRestore
  PROVE  RInv'
<1>. DEFINE nodes == Applied \cup declared
<1>1. "check" \in Steps /\ "restore" \in Kinds
  BY DEF Steps, Kinds
<1>2. /\ job' = [NoJob EXCEPT !.kind = "restore", !.step = "check", !.want = nodes]
      /\ Records("cli", nodes)
  BY DEF StartRestore
<1>3. nodes \in SUBSET Node /\ declared \subseteq nodes
  BY SetsIn DEF Applied
<1>. HIDE DEF nodes
<1>4. /\ job' \in JobType /\ job'.kind = "restore" /\ job'.step = "check" /\ job'.want = nodes
  BY <1>1, <1>2, <1>3, NoJobIs DEF JobType
<1>5. job'.step \in StepsOf(job'.kind)
  BY <1>4 DEF StepsOf
<1>6. WorldTyped' /\ RowTyped' /\ CalmTyped'
  BY <1>2, <1>3, SameWorld, RecordsTyped, CalmKeeps, TypeParts DEF RInv, StartRestore
<1>7. UNCHANGED <<declared, edits>> /\ open' = "restore"
  BY DEF StartRestore
<1>. QED BY <1>3, <1>4, <1>5, <1>6, <1>7, BeginKeeps

\* A plan is empty.
LEMMA NothingToDoKeepsRun ==
  ASSUME RInv, NothingToDo
  PROVE  RInv'
<1>1. WorldTyped' /\ RowTyped' /\ CalmTyped'
  BY SameWorld, SameRow, CalmKeeps, TypeParts DEF RInv, NothingToDo
<1>2. UNCHANGED <<job, declared, edits>> /\ open' = "none" /\ job.kind = "none"
  BY DEF NothingToDo, May
<1>3. job' \in JobType /\ job'.step = "none" /\ job'.kind = "none"
  BY <1>2, TypeParts DEF RInv, JobTyped, StepsOf
<1>4. job'.step \in StepsOf(job'.kind)
  BY <1>3 DEF StepsOf
<1>. QED BY <1>1, <1>2, <1>3, <1>4, BeginKeeps

\* The machines, etcd and Kubernetes change while the run waits.
LEMMA WaitKeeps ==
  ASSUME RInv, WorldTyped', RowTyped', CalmTyped', UNCHANGED <<image, job>>, UNCHANGED user
  PROVE  RInv'
<1>1. JobTyped' /\ ImagesFit'
  BY TypeParts DEF RInv, JobTyped, ImagesFit, BootstrapsOnDeclaredImage, At
<1>. QED BY <1>1, MoveKeeps DEF RInv, JobFits

\* A control plane joins etcd.
LEMMA EtcdJoinKeepsRun ==
  ASSUME RInv, NEW n \in Node, EtcdJoin(n)
  PROVE  RInv'
<1>1. PICK k \in 1..MaxEtcd : /\ data' = [data EXCEPT ![n] = k]
                              /\ peers' = [peers EXCEPT ![k] = @ \cup {n}]
  BY DEF EtcdJoin
<1>2. /\ n \in ControlPlane /\ machine[n] = "member"
      /\ UNCHANGED <<machine, image, up, kubelet, kube, row, job>> /\ UNCHANGED user /\ Calm
  BY DEF EtcdJoin, Member
<1>3. /\ data' \in [ControlPlane -> 0..MaxEtcd]
      /\ \A m \in ControlPlane : m # n => data'[m] = data[m]
  <2>1. k \in 0..MaxEtcd /\ data \in [ControlPlane -> 0..MaxEtcd]
    BY Bounds, TypeParts DEF RInv, WorldTyped
  <2>. QED BY <1>1, <2>1
<1>4. peers' \in [1..MaxEtcd -> SUBSET ControlPlane]
  BY <1>1, <1>2, TypeParts DEF RInv, WorldTyped
<1>5. WorldTyped'
  BY <1>2, <1>3, <1>4, TypeParts DEF RInv, WorldTyped
<1>. QED BY <1>2, <1>5, WaitKeeps, SameRow, CalmKeeps, TypeParts DEF RInv

\* A kubelet registers its Node object.
LEMMA RegisterKeepsRun ==
  ASSUME RInv, NEW n \in Node, Register(n)
  PROVE  RInv'
<1>1. WorldTyped'
  BY TypeParts DEF RInv, WorldTyped, Register, Member
<1>2. UNCHANGED <<image, job, row>> /\ UNCHANGED user /\ Calm
  BY DEF Register
<1>. QED BY <1>1, <1>2, WaitKeeps, SameRow, CalmKeeps, TypeParts DEF RInv

\* A machine goes down or comes back.
LEMMA PowerKeepsRun ==
  ASSUME RInv, NEW n \in Node, Down(n) \/ Up(n)
  PROVE  RInv'
<1>1. /\ up' \in [Node -> BOOLEAN] /\ kubelet' \in [Node -> BOOLEAN]
      /\ \A m \in Node : machine[m] = "maint" => kubelet'[m] = kubelet[m] \/ kubelet'[m] = FALSE
  BY TypeParts DEF RInv, WorldTyped, Down, Up
<1>2. WorldTyped'
  BY <1>1, TypeParts DEF RInv, WorldTyped, Down, Up
<1>3. UNCHANGED <<image, job, row>> /\ UNCHANGED user
  BY DEF Down, Up
<1>4. CalmTyped'
  BY TypeParts, Bounds DEF RInv, CalmTyped, Down, Up, Calm, Trouble
<1>. QED BY <1>2, <1>3, <1>4, WaitKeeps, SameRow

\* The API's address is lost or comes back.
LEMMA ApiKeepsRun ==
  ASSUME RInv, ApiLoss \/ ApiBack
  PROVE  RInv'
<1>1. UNCHANGED world /\ UNCHANGED <<row, job>> /\ UNCHANGED user
  BY DEF ApiLoss, ApiBack
<1>2. CalmTyped'
  <2>1. apiLost' \in BOOLEAN
    BY DEF ApiLoss, ApiBack
  <2>2. trouble' \in 0..MaxTrouble
    BY Bounds, TypeParts DEF RInv, CalmTyped, ApiLoss, ApiBack, Trouble
  <2>. QED BY <2>1, <2>2 DEF CalmTyped
<1>3. UNCHANGED image
  BY <1>1 DEF world
<1>. QED BY <1>1, <1>2, <1>3, WaitKeeps, SameRow, SameWorld, TypeParts DEF RInv

\* What Track records are nodes.
LEMMA TrackedIn ==
  ASSUME RInv, NEW d \in SUBSET Node, NEW known
  PROVE  Tracked(d, known) \in SUBSET Node
  BY TypeParts DEF RInv, WorldTyped, Tracked, AppliedOf

\* A run gives up or dies.
LEMMA BreaksKeepsRun ==
  ASSUME RInv, Breaks
  PROVE  RInv'
<1>1. Tracked(declared, declared) \in SUBSET Node
  BY TrackedIn, SetsIn
<1>2. RowTyped'
  BY <1>1, TypeParts DEF RInv, RowTyped, Breaks
<1>3. CalmTyped'
  BY TypeParts, Bounds DEF RInv, CalmTyped, Breaks, Trouble
<1>4. job' = NoJob /\ UNCHANGED world /\ UNCHANGED <<declared, open, edits>>
  BY DEF Breaks, user
<1>. QED BY <1>2, <1>3, <1>4, EndKeeps, SameWorld, TypeParts DEF RInv

\* The user edits cluster.yaml, which keeps a control plane.
LEMMA EditKeepsRun ==
  ASSUME RInv, Edit
  PROVE  RInv'
<1>1. PICK e \in Edits : /\ declared' = e.to
                         /\ row' = [row EXCEPT !["console"] = Tracked(e.to, @)]
  BY DEF Edit
<1>2. declared' \in SUBSET Node /\ declared' \cap ControlPlane # {}
  BY <1>1, FileAssumption DEF IsFile
<1>3. RowTyped'
  <2>1. Tracked(e.to, row["console"]) \in SUBSET Node
    BY <1>1, <1>2, TrackedIn
  <2>. QED BY <1>1, <2>1, TypeParts DEF RInv, RowTyped
<1>4. UserTyped'
  BY <1>2, Bounds, TypeParts DEF RInv, UserTyped, Edit
<1>5. /\ job' = job /\ job.kind = "none" /\ UNCHANGED world /\ Calm
  BY DEF Edit
<1>6. job.step = "none" /\ JobTyped'
  BY <1>5, TypeParts DEF RInv, JobTyped, StepsOf
<1>7. TypeOK'
  BY <1>3, <1>4, <1>5, <1>6, TypeParts, TypePartsNext, SameWorld, CalmKeeps DEF RInv
<1>8. SomeControlPlane' /\ JobFits' /\ ImagesFit'
  BY <1>2, <1>5, <1>6, ImagesElsewhere DEF SomeControlPlane, CPs, JobFits
<1>. QED BY <1>7, <1>8 DEF RInv

-----------------------------------------------------------------------------
(* The variables keep their types, and etcd starts on the declared image. *)

\* The clusters the behaviours start from.
LEMMA InitRInv == Init => RInv
<1>. SUFFICES ASSUME Init PROVE RInv
  OBVIOUS
<1>1. PICK s \in Starts :
         /\ declared = s.declared
         /\ machine = [n \in Node |-> IF n \in s.members THEN "member" ELSE "maint"]
         /\ image = [n \in Node |-> IF n \in s.members THEN "declared"
                                    ELSE IF n \in Reused THEN "old" ELSE "none"]
         /\ data = [n \in ControlPlane |-> IF n \in s.members THEN 1 ELSE 0]
         /\ peers = [k \in 1..MaxEtcd |-> IF k = 1 THEN s.members \cap ControlPlane ELSE {}]
         /\ kube = s.members
         /\ row = [b \in {"cli", "console"} |-> IF b = "cli" THEN {} ELSE s.declared]
  BY DEF Init
<1>2. s.declared \in SUBSET Node /\ s.members \in SUBSET Node /\ s.declared \cap ControlPlane # {}
  BY FileAssumption DEF IsFile
<1>3. WorldTyped
  <2>1. machine \in [Node -> {"maint", "member"}] /\ image \in [Node -> {"none", "old", "declared"}]
    BY <1>1
  <2>2. data \in [ControlPlane -> 0..MaxEtcd]
    BY <1>1, Bounds
  <2>3. peers \in [1..MaxEtcd -> SUBSET ControlPlane]
    BY <1>1
  <2>4. up \in [Node -> BOOLEAN] /\ kubelet \in [Node -> BOOLEAN] /\ \A n \in Node : ~kubelet[n]
    BY DEF Init
  <2>5. \A n \in Node : machine[n] = "maint" => n \notin s.members
    BY <1>1
  <2>6. \A n \in ControlPlane : n \notin s.members => data[n] = 0
    BY <1>1
  <2>. QED BY <1>1, <1>2, <2>1, <2>2, <2>3, <2>4, <2>5, <2>6 DEF WorldTyped
<1>4. UserTyped /\ CalmTyped
  BY <1>1, <1>2, Bounds DEF Init, UserTyped, CalmTyped
<1>5. RowTyped
  BY <1>1, <1>2 DEF RowTyped
<1>6. job = NoJob /\ JobTyped
  BY NoJobIs DEF Init, JobTyped, StepsOf
<1>7. TypeOK
  BY <1>3, <1>4, <1>5, <1>6, TypeParts
<1>8. SomeControlPlane /\ JobFits /\ ImagesFit
  BY <1>1, <1>2, <1>6, NoJobIs
     DEF SomeControlPlane, CPs, JobFits, ImagesFit, BootstrapsOnDeclaredImage, At
<1>. QED BY <1>7, <1>8 DEF RInv

\* Every step keeps what is said of runs.
LEMMA RInvStep == RInv /\ [Next]_vars => RInv'
<1>. SUFFICES ASSUME RInv, [Next]_vars PROVE RInv'
  OBVIOUS
<1>1. CASE \E by \in Source : StartCreate(by) \/ StartConverge(by) \/ StartDestroy(by)
  BY <1>1, StartCreateKeepsRun, StartConvergeKeepsRun, StartDestroyKeepsRun
<1>2. CASE NothingToDo \/ StartRestore
  BY <1>2, NothingToDoKeepsRun, StartRestoreKeepsRun
<1>3. CASE CreateStep \/ ConvergeStep \/ DestroyStep \/ RestoreStep
  BY <1>3, CreateKeepsRun, ConvergeKeepsRun, DestroyKeepsRun, RestoreKeepsRun
<1>4. CASE Machines \/ \E n \in Node : Down(n)
  BY <1>4, EtcdJoinKeepsRun, RegisterKeepsRun, PowerKeepsRun DEF Machines
<1>5. CASE ApiLoss \/ ApiBack
  BY <1>5, ApiKeepsRun
<1>6. CASE Breaks \/ Edit
  BY <1>6, BreaksKeepsRun, EditKeepsRun
<1>7. CASE UNCHANGED vars
  <2>1. UNCHANGED world /\ UNCHANGED user /\ UNCHANGED <<image, row, job, apiLost, trouble>>
    BY <1>7 DEF vars, world, user
  <2>. QED BY <2>1, WaitKeeps, SameRow, SameWorld, CalmKeeps, TypeParts DEF RInv, Calm
<1>. QED BY <1>1, <1>2, <1>3, <1>4, <1>5, <1>6, <1>7 DEF Next

\* What is said of runs holds always, whoever edits, destroys and restores.
THEOREM RunInvariance == Spec => []RInv
  BY InitRInv, RInvStep, PTL DEF Spec

\* Every variable keeps its type, and a machine in maintenance mode has nothing
\* left of a cluster (TypeOK).
THEOREM TypeCorrect == Spec => []TypeOK
<1>1. RInv => TypeOK
  BY DEF RInv
<1>. QED BY <1>1, RunInvariance, PTL

\* Create bootstraps etcd only when every node of the cluster runs the declared
\* image (imageAll, then bootstrap, in create.go).
THEOREM OnDeclaredImage == Spec => []BootstrapsOnDeclaredImage
<1>1. RInv => BootstrapsOnDeclaredImage
  BY DEF RInv, ImagesFit
<1>. QED BY <1>1, RunInvariance, PTL

-----------------------------------------------------------------------------
(* What the steps leave of what is said of etcd. *)

\* What a step owes etcd when the file stays as it is.
LEMMA EtcdOwes ==
  ASSUME EInv, UNCHANGED <<declared, edits>>,
         OneData', HoldersArePeers', PeersHold', UnfinishedFits', RestoreFits', CreateFits',
         MembersDeclared => MembersDeclared',
         FirstSafe => FirstSafe'
  PROVE  EInv'
  BY DEF EInv, Anchored

\* ... and when the data stay as they are.
LEMMA SameDataKeeps ==
  ASSUME EInv, UNCHANGED <<declared, edits, data, peers>>,
         ~Unfinished' \/ Recovered' => ~Unfinished \/ Recovered,
         UnfinishedFits', RestoreFits', CreateFits',
         MembersDeclared => MembersDeclared',
         FirstSafe => FirstSafe'
  PROVE  EInv'
<1>1. OneData' /\ HoldersArePeers'
  BY DEF EInv, OneData, HoldersArePeers
<1>2. PeersHold'
  BY DEF EInv, PeersHold
<1>. QED BY <1>1, <1>2, EtcdOwes

\* The first control plane has data as long as the data and the file are the same.
LEMMA SameFirst == UNCHANGED <<declared, data>> => (FirstHas <=> FirstHas')
  BY DEF FirstHas, CPs, NoData

\* What is said of a restore is about a run of it.
LEMMA NoRestore == job'.kind # "restore" => RestoreFits' /\ ~Recovered'
  BY DEF RestoreFits, Recovered, At

\* What is said of a create is about a run of it.
LEMMA NoCreate == job'.kind # "create" => CreateFits'
  BY DEF CreateFits

\* A step of a run that leaves data, configs and the kind of run as they are.
LEMMA SameConfigsKeep ==
  ASSUME EInv, UNCHANGED <<declared, edits, data, peers, machine, open>>,
         job'.kind \in {job.kind, "none"}, RestoreFits', Recovered' => Recovered
  PROVE  EInv'
<1>1. Unfinished' <=> Unfinished
  BY DEF Unfinished
<1>2. UnfinishedFits' /\ (MembersDeclared => MembersDeclared')
  BY <1>1 DEF EInv, UnfinishedFits, AsDeclared, MembersDeclared
<1>3. CreateFits' /\ (FirstSafe => FirstSafe')
  BY <1>1, SameFirst DEF EInv, CreateFits, FirstSafe
<1>. QED BY <1>1, <1>2, <1>3, SameDataKeeps

\* ... where no restore goes on.
LEMMA OtherConfigsKeep ==
  ASSUME EInv, UNCHANGED <<declared, edits, data, peers, machine, open>>,
         job'.kind \in {job.kind, "none"}, job'.kind # "restore"
  PROVE  EInv'
  BY NoRestore, SameConfigsKeep

\* ... and the run too: the machines, etcd and Kubernetes move on.
LEMMA SameJobKeeps ==
  ASSUME EInv, UNCHANGED <<declared, edits, data, peers, machine, open, job>>
  PROVE  EInv'
<1>1. RestoreFits' /\ (Recovered' => Recovered)
  BY DEF EInv, RestoreFits, Recovered, At, WantCPs, CPs, NoData
<1>. QED BY <1>1, SameConfigsKeep

\* A step that fails ends the run, and nothing else.
LEMMA UnlessKeepsEtcd ==
  ASSUME EInv, NEW ok, Unless(ok)
  PROVE  EInv'
<1>1. UNCHANGED <<declared, edits, data, peers, machine, open>> /\ job' = NoJob
  BY DEF Unless, world, user
<1>. QED BY <1>1, NoJobIs, OtherConfigsKeep

\* A declared machine gets its config while a run of apply goes on.
LEMMA InstallsKeeps ==
  ASSUME RInv, EInv, NEW n \in declared, Installs(n), UNCHANGED user,
         job.kind \in {"create", "converge"}, job'.kind = job.kind
  PROVE  EInv'
<1>1. UNCHANGED <<declared, edits, data, peers, open>>
  BY DEF Installs, user
<1>2. ~Unfinished /\ ~Unfinished'
  BY <1>1 DEF RInv, JobFits, Unfinished
<1>3. UnfinishedFits' /\ RestoreFits'
  BY <1>2, NoRestore DEF UnfinishedFits
<1>4. CreateFits' /\ (FirstSafe => FirstSafe')
  BY <1>1, <1>2, SameFirst DEF EInv, CreateFits, FirstSafe
<1>5. MembersDeclared => MembersDeclared'
  <2>1. ASSUME NEW m \in ControlPlane, machine'[m] = "member"
        PROVE  m = n \/ machine[m] = "member"
    <3>1. machine \in [Node -> {"maint", "member"}] /\ m \in Node
      BY TypeParts, NodeAssumption DEF RInv, WorldTyped
    <3>2. machine' = [machine EXCEPT ![n] = "member"]
      BY DEF Installs
    <3>. QED BY <2>1, <3>1, <3>2
  <2>2. n \in declared'
    BY <1>1
  <2>. QED BY <1>1, <2>1, <2>2 DEF MembersDeclared
<1>. QED BY <1>1, <1>2, <1>3, <1>4, <1>5, SameDataKeeps

\* The first etcd cluster that is made: its one member is the first control plane.
LEMMA FoundsAlone ==
  ASSUME RInv, EInv, NoData, NEW objects, Founds(First(CPs), objects),
         UNCHANGED user
  PROVE  /\ OneData' /\ HoldersArePeers' /\ PeersHold' /\ FirstHas' /\ data'[First(CPs)] # 0
         /\ UNCHANGED machine
<1>. DEFINE Free == {i \in 1..MaxEtcd : \A n \in ControlPlane : data[n] # i}
            k == First(Free)
            cp == First(CPs)
<1>1. Free \in SUBSET Nat /\ Free # {}
  BY DEF Founds
<1>2. k \in 1..MaxEtcd
  BY <1>1, Least DEF First
<1>3. data' = [data EXCEPT ![cp] = k] /\ peers' = [peers EXCEPT ![k] = {cp}] /\ UNCHANGED machine
  BY DEF Founds
<1>4. cp \in ControlPlane
  BY FirstIsControlPlane DEF RInv
<1>5. cp = First(CPs)'
  BY DEF CPs, user
<1>6. data \in [ControlPlane -> 0..MaxEtcd] /\ peers \in [1..MaxEtcd -> SUBSET ControlPlane]
  BY TypeParts DEF RInv, WorldTyped
<1>7. k # 0 /\ k \in Nat
  BY <1>2, Bounds
<1>8. cp = First(CPs)
  OBVIOUS
<1>. HIDE DEF k, Free, cp
<1>9. /\ data'[cp] = k /\ peers'[k] = {cp}
      /\ \A n \in ControlPlane : n # cp => data'[n] = 0
  BY <1>2, <1>3, <1>4, <1>6 DEF NoData
<1>10. \A n \in ControlPlane : data'[n] # 0 => n = cp /\ data'[n] = k
  BY <1>9
<1>11. OneData' /\ HoldersArePeers' /\ PeersHold'
  BY <1>9, <1>10 DEF OneData, HoldersArePeers, PeersHold
<1>12. data'[cp] # 0
  BY <1>7, <1>9
<1>13. FirstHas'
  BY <1>5, <1>12 DEF FirstHas
<1>. QED BY <1>3, <1>8, <1>11, <1>12, <1>13
-----------------------------------------------------------------------------
(* Create, converge, destroy and restore keep what is said of etcd. *)

\* bootstrapEtcd finds its etcd healthy, or makes the only one.
LEMMA BootstrapKeepsEtcd ==
  ASSUME RInv, EInv, Bootstrap
  PROVE  EInv'
<1>. DEFINE cp == First(WantCPs)
            ok == Member(cp) /\ (data[cp] = 0 \/ (data[cp] # 0 /\ Quorate(data[cp])))
<1>1. job.kind = "create" /\ job.want = declared /\ job \in JobType
  BY TypeParts DEF RInv, JobFits, JobTyped, Bootstrap, At
<1>2. cp = First(CPs)
  BY <1>1 DEF CPs, WantCPs
<1>3. Unless(ok) => EInv'
  BY UnlessKeepsEtcd
<1>4. ASSUME Goes("members", {}), UNCHANGED <<row, user>>, UNCHANGED world \/ Founds(cp, {})
      PROVE  EInv'
  <2>1. "members" \in Steps /\ {} \in SUBSET Node
    BY DEF Steps
  <2>2. job'.kind = "create"
    BY <1>1, <1>4, <2>1, GoesIs
  <2>3. CASE UNCHANGED world
    <3>1. UNCHANGED <<declared, edits, data, peers, machine, open>>
      BY <1>4, <2>3 DEF world, user
    <3>. QED BY <1>1, <2>2, <3>1, OtherConfigsKeep
  <2>4. CASE Founds(cp, {})
    <3>1. FirstHas /\ data[cp] = 0
      BY <1>1, <2>4 DEF EInv, CreateFits, Founds
    <3>2. NoData
      BY <1>2, <3>1 DEF FirstHas
    <3>3. Founds(First(CPs), {}) /\ UNCHANGED user
      BY <1>2, <1>4, <2>4
    <3>4. OneData' /\ HoldersArePeers' /\ PeersHold' /\ FirstHas' /\ UNCHANGED machine
      BY <3>2, <3>3, FoundsAlone
    <3>5. UNCHANGED <<declared, edits, open>> /\ ~Unfinished'
      BY <1>1, <3>3 DEF user, RInv, JobFits, Unfinished
    <3>6. UnfinishedFits' /\ RestoreFits' /\ CreateFits' /\ FirstSafe'
      BY <2>2, <3>4, <3>5, NoRestore DEF UnfinishedFits, CreateFits, FirstSafe
    <3>7. MembersDeclared => MembersDeclared'
      BY <3>4, <3>5 DEF MembersDeclared
    <3>. QED BY <3>4, <3>5, <3>6, <3>7, EtcdOwes
  <2>. QED BY <1>4, <2>3, <2>4
<1>. HIDE DEF ok
<1>5. Unless(ok) \/ (Goes("members", {}) /\ UNCHANGED <<row, user>> /\ (UNCHANGED world \/ Founds(cp, {})))
  BY DEF Bootstrap, ok
<1>. QED BY <1>3, <1>4, <1>5

\* Only declared nodes become members.
LEMMA InstallKeepsEtcd ==
  ASSUME RInv, EInv, Install
  PROVE  EInv'
<1>1. job \in JobType /\ job.kind = "create" /\ job.step = "install" /\ job.todo \subseteq declared
  BY TypeParts DEF RInv, JobFits, JobTyped, Install, At
<1>2. ASSUME NEW n \in job.todo,
             job' = [job EXCEPT !.todo = @ \ {n}, !.wrong = @ \/ ~Maint(n)],
             IF Maint(n) THEN Installs(n) ELSE UNCHANGED world,
             UNCHANGED <<row, user>>
      PROVE  EInv'
  <2>1. job'.kind = "create"
    BY <1>1, <1>2 DEF JobType
  <2>2. CASE Installs(n)
    BY <1>1, <1>2, <2>1, <2>2, InstallsKeeps
  <2>3. CASE UNCHANGED world
    BY <1>1, <1>2, <2>1, <2>3, OtherConfigsKeep DEF world, user
  <2>. QED BY <1>2, <2>2, <2>3
<1>3. ASSUME Goes("image", job.want), UNCHANGED <<world, row, user>>
      PROVE  EInv'
  <2>1. job'.kind = "create"
    <3>1. "image" \in Steps /\ job.want \in SUBSET Node
      BY <1>1 DEF Steps, JobType
    <3>. QED BY <1>1, <1>3, <3>1, GoesIs
  <2>. QED BY <1>1, <1>3, <2>1, OtherConfigsKeep DEF world, user
<1>. QED BY <1>2, <1>3, UnlessKeepsEtcd DEF Install

\* The steps of create that touch neither configs nor data.
LEMMA CreateGoesKeeps ==
  ASSUME RInv, EInv, SaveTarget \/ Preflight \/ Reimage
  PROVE  EInv'
<1>1. job.kind = "create" /\ job \in JobType
  BY TypeParts DEF RInv, JobTyped, SaveTarget, Preflight, Reimage, At
<1>2. \/ \E ok : Unless(ok)
      \/ job'.kind = job.kind /\ UNCHANGED <<declared, edits, data, peers, machine, open>>
  <2>1. CASE SaveTarget
    BY <1>1, <2>1 DEF SaveTarget, Goes, JobType, world, user
  <2>2. CASE Preflight
    BY <1>1, <2>2 DEF Preflight, Goes, JobType, world, user
  <2>3. CASE Reimage
    BY <1>1, <2>3 DEF Reimage, Goes, JobType, world, user
  <2>. QED BY <2>1, <2>2, <2>3
<1>. QED BY <1>1, <1>2, UnlessKeepsEtcd, OtherConfigsKeep

\* Both create and restore wait for etcd's members.
LEMMA WaitMembersKeepsEtcd ==
  ASSUME RInv, EInv, WaitMembers
  PROVE  EInv'
<1>1. job \in JobType /\ job.step = "members" /\ "members" \in StepsOf(job.kind)
  BY TypeParts DEF RInv, JobTyped, WaitMembers
<1>2. job.kind \in {"create", "restore"}
  BY <1>1 DEF StepsOf
<1>3. ASSUME Goes("ready", {}), UNCHANGED <<world, row, user>>
      PROVE  EInv'
  <2>1. job'.kind = job.kind /\ job'.want = job.want /\ job'.step = "ready"
    <3>1. "ready" \in Steps /\ {} \in SUBSET Node
      BY DEF Steps
    <3>. QED BY <1>1, <1>3, <3>1, GoesIs
  <2>2. UNCHANGED <<declared, edits, data, peers, machine, open>>
    BY <1>3 DEF world, user
  <2>3. RestoreFits' /\ (Recovered' => Recovered)
    BY <1>1, <1>2, <2>1, <2>2 DEF EInv, RestoreFits, Recovered, At, WantCPs, CPs
  <2>. QED BY <2>1, <2>2, <2>3, SameConfigsKeep
<1>4. Goes("ready", {}) /\ UNCHANGED <<world, row, user>> => EInv'
  BY <1>3
<1>. QED BY <1>4, UnlessKeepsEtcd DEF WaitMembers

\* A run that ends well; a restore has recovered etcd on the first control plane.
LEMMA EndKeepsEtcd ==
  ASSUME RInv, EInv, job' = NoJob, open' = "none", UNCHANGED <<world, declared, edits>>,
         Unfinished => Recovered
  PROVE  EInv'
<1>1. UNCHANGED <<data, peers, machine>>
  BY DEF world
<1>2. ~Unfinished' /\ ~Recovered'
  BY NoJobIs DEF Unfinished, Recovered
<1>3. UnfinishedFits' /\ RestoreFits' /\ CreateFits'
  BY <1>2, NoJobIs, NoRestore, NoCreate DEF UnfinishedFits
<1>4. MembersDeclared => MembersDeclared'
  BY <1>1 DEF MembersDeclared
<1>5. FirstSafe => FirstSafe'
  BY <1>1, SameFirst DEF FirstSafe, EInv, RestoreFits, FirstHas
<1>. QED BY <1>1, <1>2, <1>3, <1>4, <1>5, SameDataKeeps

\* A create or a restore ends well.
LEMMA WaitReadyKeepsEtcd ==
  ASSUME RInv, EInv, WaitReady
  PROVE  EInv'
<1>1. job.step = "ready" /\ job.kind \in {"create", "restore"}
  BY TypeParts DEF RInv, JobTyped, WaitReady, StepsOf
<1>2. Unfinished => Recovered
  BY <1>1 DEF Unfinished, Recovered, RInv, JobFits
<1>. QED BY <1>2, UnlessKeepsEtcd, EndKeepsEtcd DEF WaitReady

\* Every step of create.
LEMMA CreateKeepsEtcd == RInv /\ EInv /\ CreateStep => EInv'
  BY BootstrapKeepsEtcd, InstallKeepsEtcd, CreateGoesKeeps, WaitMembersKeepsEtcd,
     WaitReadyKeepsEtcd DEF CreateStep

\* The steps of converge that touch neither configs nor data.
LEMMA ConvergeGoesKeeps ==
  ASSUME RInv, EInv, Adopt \/ Add \/ Joined \/ Remove \/ Forget
  PROVE  EInv'
<1>1. job.kind = "converge" /\ job \in JobType /\ ~Unfinished
  BY TypeParts DEF RInv, JobFits, Unfinished, JobTyped, Adopt, Add, Joined, Remove, Forget, At
<1>2. \/ \E ok : Unless(ok)
      \/ job'.kind = job.kind /\ UNCHANGED <<declared, edits, data, peers, machine, open>>
      \/ job' = NoJob /\ open' = "none" /\ UNCHANGED <<world, declared, edits>>
  <2>1. CASE Adopt
    BY <1>1, <2>1 DEF Adopt, Goes, JobType, world, user
  <2>2. CASE Add
    BY <1>1, <2>2 DEF Add, Goes, JobType, world, user
  <2>3. CASE Joined
    BY <1>1, <2>3 DEF Joined, Goes, JobType, world, user
  <2>4. CASE Remove
    BY <1>1, <2>4 DEF Remove, Goes, JobType, world, user
  <2>5. CASE Forget
    BY <1>1, <2>5 DEF Forget, JobType, world, user
  <2>. QED BY <2>1, <2>2, <2>3, <2>4, <2>5
<1>. QED BY <1>1, <1>2, UnlessKeepsEtcd, OtherConfigsKeep, EndKeepsEtcd

\* AddNode makes a declared node a member.
LEMMA JoinKeepsEtcd ==
  ASSUME RInv, EInv, Join
  PROVE  EInv'
<1>1. job.kind = "converge" /\ job \in JobType /\ job.todo \subseteq declared
  BY TypeParts DEF RInv, JobFits, JobTyped, Join, At
<1>2. ASSUME NEW n \in job.todo, Installs(n), Goes("joined", {n}), UNCHANGED <<row, user>>
      PROVE  EInv'
  <2>1. job'.kind = job.kind
    BY <1>1, <1>2 DEF Goes, JobType
  <2>. QED BY <1>1, <1>2, <2>1, InstallsKeeps
<1>. QED BY <1>2, UnlessKeepsEtcd DEF Join

\* A machine that is removed is not declared, and leaves etcd with its data.
LEMMA ResetKeepsEtcd ==
  ASSUME RInv, EInv, Reset
  PROVE  EInv'
<1>1. job.kind = "converge" /\ job.todo \cap declared = {} /\ job \in JobType /\ ~Unfinished
  BY TypeParts DEF RInv, JobFits, JobTyped, Unfinished, Reset, At
<1>2. data \in [ControlPlane -> 0..MaxEtcd] /\ peers \in [1..MaxEtcd -> SUBSET ControlPlane]
  BY TypeParts DEF RInv, WorldTyped
<1>. DEFINE k(h) == IF h \in ControlPlane THEN data[h] ELSE 0
            can(h) == Member(h) /\ (k(h) # 0 => Quorate(k(h)))
<1>3. ASSUME NEW h \in job.todo,
             machine' = [machine EXCEPT ![h] = "maint"],
             data' = [n \in ControlPlane |-> IF n = h THEN 0 ELSE data[n]],
             peers' = [i \in 1..MaxEtcd |-> IF i = k(h) THEN peers[i] \ {h} ELSE peers[i]],
             Goes("forget", {h}), UNCHANGED user
      PROVE  EInv'
  <2>1. job'.kind = "converge" /\ UNCHANGED <<declared, edits, open>>
    BY <1>1, <1>3 DEF Goes, JobType, user
  <2>2. h \in Node /\ h \notin declared
    BY <1>1 DEF JobType
  <2>3. \A n \in ControlPlane : data'[n] # 0 =>
           n # h /\ data'[n] = data[n] /\ data[n] # 0 /\ data[n] \in 1..MaxEtcd
    BY <1>2, <1>3, Bounds
  <2>4. \A i \in 1..MaxEtcd : /\ peers'[i] = IF i = k(h) THEN peers[i] \ {h} ELSE peers[i]
                              /\ peers'[i] \subseteq ControlPlane
    BY <1>2, <1>3
  <2>5. OneData'
    BY <2>3 DEF EInv, OneData
  <2>6. HoldersArePeers'
    BY <2>3, <2>4 DEF EInv, HoldersArePeers
  <2>7. PeersHold'
    <3>1. ASSUME NEW n \in ControlPlane, data'[n] # 0, NEW p \in peers'[data'[n]]
          PROVE  data'[p] = data'[n]
      <4>1. data[n] # 0 /\ data'[n] = data[n] /\ data[n] \in 1..MaxEtcd
        BY <2>3, <3>1
      <4>2. p \in peers[data[n]] /\ p \in ControlPlane /\ (data[n] = k(h) => p # h)
        BY <2>4, <3>1, <4>1
      <4>3. data[p] = data[n]
        BY <1>1, <4>1, <4>2 DEF EInv, PeersHold
      <4>4. p # h
        BY <4>2, <4>3
      <4>. QED BY <1>3, <4>1, <4>2, <4>3, <4>4
    <3>. QED BY <3>1 DEF PeersHold
  <2>8. FirstHas => FirstHas'
    <3>1. First(CPs) \in ControlPlane /\ First(CPs) # h /\ First(CPs)' = First(CPs)
      BY <2>1, <2>2, FirstIsControlPlane DEF RInv, CPs
    <3>2. data'[First(CPs)] = data[First(CPs)]
      BY <1>3, <3>1
    <3>3. NoData => NoData'
      BY <2>3 DEF NoData
    <3>. QED BY <3>1, <3>2, <3>3 DEF FirstHas
  <2>9. FirstSafe => FirstSafe'
    BY <1>1, <2>8 DEF FirstSafe
  <2>10. MembersDeclared => MembersDeclared'
    <3>1. machine \in [Node -> {"maint", "member"}]
      BY TypeParts DEF RInv, WorldTyped
    <3>2. \A n \in ControlPlane : machine'[n] = "member" => machine[n] = "member"
      BY <1>3, <3>1, NodeAssumption
    <3>. QED BY <2>1, <3>2 DEF MembersDeclared
  <2>11. UnfinishedFits' /\ RestoreFits' /\ CreateFits'
    BY <1>1, <2>1, NoRestore, NoCreate DEF UnfinishedFits, Unfinished
  <2>. QED BY <2>1, <2>5, <2>6, <2>7, <2>9, <2>10, <2>11, EtcdOwes
<1>4. PICK h \in job.todo :
        \/ /\ machine' = [machine EXCEPT ![h] = "maint"]
           /\ data' = [n \in ControlPlane |-> IF n = h THEN 0 ELSE data[n]]
           /\ peers' = [i \in 1..MaxEtcd |-> IF i = k(h) THEN peers[i] \ {h} ELSE peers[i]]
           /\ Goes("forget", {h})
           /\ UNCHANGED user
        \/ Unless(can(h))
  BY DEF Reset
<1>. QED BY <1>3, <1>4, UnlessKeepsEtcd

\* Every step of converge.
LEMMA ConvergeKeepsEtcd == RInv /\ EInv /\ ConvergeStep => EInv'
  BY ConvergeGoesKeeps, JoinKeepsEtcd, ResetKeepsEtcd DEF ConvergeStep
\* A destroy leaves members in etcd without their data, and says so by being unfinished.
LEMMA WipeNodesKeepsEtcd ==
  ASSUME RInv, EInv, WipeNodes
  PROVE  EInv'
<1>1. job.kind = "destroy" /\ job \in JobType /\ open = "destroy"
  BY TypeParts DEF RInv, JobFits, JobTyped, WipeNodes
<1>2. ASSUME NEW n \in job.todo, Wipes(n), UNCHANGED user, job'.kind = "destroy"
      PROVE  EInv'
  <2>1. UNCHANGED <<declared, edits, open, peers>> /\ Unfinished' /\ ~Recovered'
    BY <1>1, <1>2 DEF Wipes, user, Unfinished, Recovered
  <2>2. n \in Node
    BY <1>1 DEF JobType
  <2>3. \A m \in ControlPlane : data'[m] # 0 => data'[m] = data[m]
    BY <1>2 DEF Wipes
  <2>4. \A m \in Node : machine'[m] = "member" => machine[m] = "member"
    BY <1>2, <2>2, TypeParts DEF Wipes, RInv, WorldTyped
  <2>5. OneData'
    BY <2>3 DEF EInv, OneData
  <2>6. HoldersArePeers'
    BY <2>1, <2>3 DEF EInv, HoldersArePeers
  <2>7. PeersHold'
    BY <2>1 DEF PeersHold
  <2>8. UnfinishedFits'
    BY <1>1, <2>1, <2>4 DEF EInv, UnfinishedFits, AsDeclared, Unfinished
  <2>9. MembersDeclared => MembersDeclared'
    BY <2>1, <2>4, NodeAssumption DEF MembersDeclared
  <2>10. RestoreFits' /\ CreateFits' /\ FirstSafe'
    BY <1>2, <2>1, NoRestore, NoCreate DEF FirstSafe
  <2>. QED BY <2>1, <2>5, <2>6, <2>7, <2>8, <2>9, <2>10, EtcdOwes
<1>3. \/ \E ok : Unless(ok)
      \/ job'.kind = "destroy" /\ UNCHANGED <<declared, edits, data, peers, machine, open>>
      \/ job'.kind = "destroy" /\ UNCHANGED user /\ \E n \in job.todo : Wipes(n)
  BY <1>1 DEF WipeNodes, Goes, JobType, world, user
<1>. QED BY <1>1, <1>2, <1>3, UnlessKeepsEtcd, OtherConfigsKeep

\* Where all that runs is declared and nothing declared runs, no data are left.
LEMMA AllMaintIsEmpty ==
  ASSUME RInv, AsDeclared \/ MembersDeclared, \A n \in declared : Maint(n)
  PROVE  NoData
<1>. SUFFICES ASSUME NEW n \in ControlPlane, data[n] # 0 PROVE FALSE
  BY DEF NoData
<1>1. machine[n] = "member"
  BY HolderIsMember DEF RInv
<1>2. n \in declared
  BY <1>1, NodeAssumption DEF AsDeclared, MembersDeclared
<1>. QED BY <1>1, <1>2 DEF Maint

\* A destroy that has ended has left no data anywhere.
LEMMA WaitMaintenanceKeepsEtcd ==
  ASSUME RInv, EInv, WaitMaintenance
  PROVE  EInv'
<1>1. job.want = declared /\ Unfinished
  BY DEF RInv, JobFits, WaitMaintenance, At, Unfinished
<1>2. ASSUME \A n \in job.want : Maint(n), job' = NoJob, open' = "none",
             UNCHANGED <<world, row, declared, edits>>
      PROVE  EInv'
  <2>1. NoData
    BY <1>1, <1>2, AllMaintIsEmpty DEF EInv, UnfinishedFits
  <2>2. UNCHANGED <<data, peers, machine>> /\ ~Unfinished'
    BY <1>2 DEF world, Unfinished
  <2>3. NoData'
    BY <2>1, <2>2 DEF NoData
  <2>4. OneData' /\ HoldersArePeers' /\ PeersHold' /\ FirstSafe'
    BY <2>3 DEF NoData, OneData, HoldersArePeers, PeersHold, FirstSafe, FirstHas
  <2>5. UnfinishedFits' /\ RestoreFits' /\ CreateFits'
    BY <1>2, <2>2, NoJobIs, NoRestore, NoCreate DEF UnfinishedFits
  <2>6. MembersDeclared => MembersDeclared'
    BY <1>2, <2>2 DEF MembersDeclared
  <2>. QED BY <1>2, <2>4, <2>5, <2>6, EtcdOwes
<1>. QED BY <1>2, UnlessKeepsEtcd DEF WaitMaintenance

\* Every step of a destroy.
LEMMA DestroyKeepsEtcd == RInv /\ EInv /\ DestroyStep => EInv'
  BY WipeNodesKeepsEtcd, WaitMaintenanceKeepsEtcd DEF DestroyStep

\* A restore that goes on, once it knows its control planes.
LEMMA RestoreRuns ==
  ASSUME RInv, EInv, job.kind = "restore"
  PROVE  /\ job \in JobType /\ Unfinished /\ AsDeclared /\ CPs \subseteq WantCPs
         /\ job.step # "check" => WantCPs = CPs
  BY TypeParts DEF RInv, EInv, JobTyped, JobFits, Unfinished, UnfinishedFits, RestoreFits,
     WantCPs, CPs

\* What every step of a restore leaves as it is.
LEMMA RestoreKeeps ==
  ASSUME RInv, EInv, job.kind = "restore", job'.kind = "restore",
         UNCHANGED <<declared, edits, open, machine>>,
         OneData', HoldersArePeers', PeersHold', RestoreFits'
  PROVE  EInv'
<1>1. Unfinished' /\ UnfinishedFits'
  BY RestoreRuns DEF Unfinished, UnfinishedFits, AsDeclared
<1>2. FirstSafe' /\ CreateFits' /\ (MembersDeclared => MembersDeclared')
  BY <1>1, NoCreate DEF FirstSafe, MembersDeclared
<1>. QED BY <1>1, <1>2, EtcdOwes

\* Every control plane that the restore resets is asked first, and is declared.
LEMMA RestoreCheckKeepsEtcd ==
  ASSUME RInv, EInv, RestoreCheck
  PROVE  EInv'
<1>1. job.kind = "restore" /\ job.step = "check"
  BY DEF RestoreCheck, At
<1>2. ASSUME \A n \in WantCPs : Member(n), Goes("wipe", WantCPs), UNCHANGED <<world, row, user>>
      PROVE  EInv'
  <2>1. /\ job'.kind = "restore" /\ job'.step = "wipe" /\ job'.todo = WantCPs
        /\ job'.want = job.want
    BY <1>1, <1>2, RestoreJob, GoesIs
  <2>2. WantCPs = CPs
    <3>1. WantCPs \subseteq Node /\ WantCPs \subseteq ControlPlane
      BY <1>1, RestoreJob DEF WantCPs
    <3>2. WantCPs \subseteq declared
      BY <1>1, <1>2, <3>1, RestoreRuns DEF Member, AsDeclared
    <3>. QED BY <1>1, <3>1, <3>2, RestoreRuns DEF CPs
  <2>3. UNCHANGED <<declared, edits, open, machine, data, peers>>
    BY <1>2 DEF world, user
  <2>4. WantCPs' = WantCPs /\ CPs' = CPs
    BY <2>1, <2>3 DEF WantCPs, CPs
  <2>5. RestoreFits'
    BY <2>1, <2>2, <2>4 DEF RestoreFits, At, Recovered
  <2>6. ~Recovered /\ ~Recovered' /\ Unfinished'
    BY <1>1, <2>1, <2>3, RestoreRuns DEF Recovered, Unfinished
  <2>7. OneData' /\ HoldersArePeers' /\ PeersHold'
    BY <2>3, <2>6 DEF EInv, OneData, HoldersArePeers, PeersHold
  <2>. QED BY <1>1, <2>1, <2>3, <2>5, <2>7, RestoreKeeps
<1>. QED BY <1>2, UnlessKeepsEtcd DEF RestoreCheck

\* The control planes that wipeEtcd is past are empty; at the end all are.
LEMMA WipeEtcdKeepsEtcd ==
  ASSUME RInv, EInv, WipeEtcd
  PROVE  EInv'
<1>. DEFINE n == First(job.todo)
<1>1. job.kind = "restore" /\ job.step = "wipe"
  BY DEF WipeEtcd, At
<1>2. WantCPs = CPs /\ \A m \in CPs \ job.todo : data[m] = 0
  BY <1>1, RestoreRuns DEF EInv, RestoreFits, At
<1>. HIDE DEF n
<1>3. ASSUME data' = [data EXCEPT ![n] = 0], Goes("wipe", job.todo \ {n}),
             UNCHANGED <<machine, peers, user>>
      PROVE  EInv'
  <2>1. /\ job'.kind = "restore" /\ job'.step = "wipe" /\ job'.todo = job.todo \ {n}
        /\ job'.want = job.want
    <3>1. job.todo \ {n} \in SUBSET Node
      BY <1>1, RestoreJob
    <3>. QED BY <1>1, <1>3, <3>1, RestoreJob, GoesIs
  <2>2. UNCHANGED <<declared, edits, open, machine, peers>>
    BY <1>3 DEF user
  <2>3. \A m \in ControlPlane : /\ data'[m] # 0 => data'[m] = data[m]
                                /\ m = n \/ data[m] = 0 => data'[m] = 0
    <3>1. data \in [ControlPlane -> 0..MaxEtcd]
      BY TypeParts DEF RInv, WorldTyped
    <3>. QED BY <1>3, <3>1
  <2>4. WantCPs' = WantCPs /\ CPs' = CPs /\ CPs \subseteq ControlPlane
    BY <2>1, <2>2 DEF WantCPs, CPs
  <2>5. RestoreFits'
    <3>1. ASSUME NEW m \in CPs \ (job.todo \ {n}) PROVE data'[m] = 0
      BY <1>2, <2>3, <2>4
    <3>. QED BY <1>2, <2>1, <2>4, <3>1 DEF RestoreFits, At, Recovered
  <2>6. ~Recovered' /\ Unfinished'
    BY <1>1, <2>1, <2>2, RestoreRuns DEF Recovered, Unfinished
  <2>7. OneData'
    BY <2>3 DEF EInv, OneData
  <2>8. HoldersArePeers'
    BY <2>2, <2>3 DEF EInv, HoldersArePeers
  <2>9. PeersHold'
    BY <2>6 DEF PeersHold
  <2>. QED BY <1>1, <2>1, <2>2, <2>5, <2>7, <2>8, <2>9, RestoreKeeps
<1>4. ASSUME job.todo = {}, Goes("recover", {}), UNCHANGED <<world, row, user>>
      PROVE  EInv'
  <2>1. job'.kind = "restore" /\ job'.step = "recover" /\ job'.want = job.want
    BY <1>1, <1>4, RestoreJob, GoesIs
  <2>2. UNCHANGED <<declared, edits, open, machine, data, peers>>
    BY <1>4 DEF world, user
  <2>3. NoData
    <3>. SUFFICES ASSUME NEW m \in ControlPlane, data[m] # 0 PROVE FALSE
      BY DEF NoData
    <3>1. m \in CPs
      <4>1. machine[m] = "member"
        BY HolderIsMember DEF RInv
      <4>2. AsDeclared
        BY <1>1, RestoreRuns
      <4>. QED BY <4>1, <4>2, NodeAssumption DEF AsDeclared, CPs
    <3>. QED BY <1>2, <1>4, <3>1
  <2>4. WantCPs' = WantCPs /\ CPs' = CPs /\ NoData'
    BY <2>1, <2>2, <2>3 DEF WantCPs, CPs, NoData
  <2>5. RestoreFits'
    BY <1>2, <2>1, <2>4 DEF RestoreFits, At, Recovered
  <2>6. OneData' /\ HoldersArePeers' /\ PeersHold'
    BY <2>4 DEF NoData, OneData, HoldersArePeers, PeersHold
  <2>. QED BY <1>1, <2>1, <2>2, <2>5, <2>6, RestoreKeeps
<1>. QED BY <1>3, <1>4, UnlessKeepsEtcd DEF WipeEtcd, n

\* bootstrapRecovered makes the only etcd, on the first control plane.
LEMMA RecoverKeepsEtcd ==
  ASSUME RInv, EInv, Recover
  PROVE  EInv'
<1>. DEFINE cp == First(WantCPs)
<1>1. job.kind = "restore" /\ job.step = "recover"
  BY DEF Recover, At
<1>2. WantCPs = CPs /\ NoData
  BY <1>1, RestoreRuns DEF EInv, RestoreFits, At
<1>3. ASSUME Founds(First(CPs), job.want), Goes("members", {}), UNCHANGED <<row, user>>
      PROVE  EInv'
  <2>1. job'.kind = "restore" /\ job'.step = "members" /\ job'.want = job.want
    BY <1>1, <1>3, RestoreJob, GoesIs
  <2>2. /\ OneData' /\ HoldersArePeers' /\ PeersHold' /\ data'[First(CPs)] # 0
        /\ UNCHANGED machine
    BY <1>2, <1>3, FoundsAlone
  <2>3. UNCHANGED <<declared, edits, open>>
    BY <1>3 DEF user
  <2>4. WantCPs' = WantCPs /\ CPs' = CPs
    BY <2>1, <2>3 DEF WantCPs, CPs
  <2>5. RestoreFits'
    BY <1>2, <2>1, <2>2, <2>4 DEF RestoreFits, At, Recovered
  <2>. QED BY <1>1, <2>1, <2>2, <2>3, <2>5, RestoreKeeps
<1>. QED BY <1>2, <1>3, UnlessKeepsEtcd DEF Recover

\* Every step of a restore.
LEMMA RestoreKeepsEtcd == RInv /\ EInv /\ RestoreStep => EInv'
  BY RestoreCheckKeepsEtcd, WipeEtcdKeepsEtcd, RecoverKeepsEtcd DEF RestoreStep
-----------------------------------------------------------------------------
(* So do the plan that begins a run, the machines and a user who is careful. *)

\* A run of apply that begins, or a plan with nothing to do.
LEMMA ApplyKeeps ==
  ASSUME EInv, ~Unfinished, open' \in {"apply", "none"}, UNCHANGED <<declared, edits>>,
         UNCHANGED world, job'.kind # "restore", CreateFits'
  PROVE  EInv'
<1>1. UNCHANGED <<data, peers, machine>> /\ ~Unfinished'
  BY DEF world, Unfinished
<1>2. UnfinishedFits' /\ RestoreFits'
  BY <1>1, NoRestore DEF UnfinishedFits
<1>3. MembersDeclared => MembersDeclared'
  BY <1>1 DEF MembersDeclared
<1>4. FirstSafe => FirstSafe'
  BY <1>1, SameFirst DEF FirstSafe
<1>. QED BY <1>1, <1>2, <1>3, <1>4, SameDataKeeps

\* No etcd answers the plan of a create: its first control plane has data if any has.
LEMMA CreateIsSafe ==
  ASSUME RInv, EInv, ~Unfinished, PlansNew \/ PlansResume
  PROVE  FirstHas
<1>1. CASE FirstSafe
  BY <1>1 DEF FirstSafe
<1>2. CASE MembersDeclared
  <2>. SUFFICES ASSUME NEW n \in ControlPlane, data[n] # 0 PROVE FALSE
    BY DEF FirstHas, NoData
  <2>1. CASE PlansNew
    <3>1. NoData
      BY <1>2, <2>1, AllMaintIsEmpty DEF PlansNew
    <3>. QED BY <3>1 DEF NoData
  <2>2. CASE PlansResume
    <3>1. data[n] \in 1..MaxEtcd /\ peers[data[n]] \subseteq ControlPlane
      BY Bounds, TypeParts DEF RInv, WorldTyped
    <3>2. n \in peers[data[n]] /\ \A p \in peers[data[n]] : data[p] = data[n]
      BY DEF EInv, HoldersArePeers, PeersHold
    <3>3. ASSUME NEW p \in ControlPlane, data[p] # 0
          PROVE  p \in declared /\ machine[p] = "member" /\ up[p]
      BY <1>2, <2>2, <3>3, HolderIsMember DEF RInv, MembersDeclared, PlansResume
    <3>4. \A p \in peers[data[n]] : up[p] /\ data[p] = data[n]
      BY <3>1, <3>2, <3>3
    <3>5. Quorate(data[n])
      BY <3>1, <3>2, <3>4, AllUpIsQuorate DEF RInv
    <3>6. EtcdAnswers
      BY <3>3, <3>5 DEF EtcdAnswers, Member
    <3>. QED BY <2>2, <3>6 DEF PlansResume
  <2>. QED BY <2>1, <2>2
<1>. QED BY <1>1, <1>2 DEF EInv, Anchored

\* A create begins.
LEMMA StartCreateKeepsEtcd ==
  ASSUME Careful, RInv, EInv, NEW by, StartCreate(by)
  PROVE  EInv'
<1>1. job'.kind = "create" /\ open' = "apply" /\ UNCHANGED <<declared, edits>> /\ UNCHANGED world
  BY DEF StartCreate, NoJob
<1>2. ~Unfinished /\ FirstHas
  BY CreateIsSafe DEF StartCreate, May, Unfinished
<1>3. FirstHas'
  BY <1>1, <1>2, SameFirst DEF world
<1>. QED BY <1>1, <1>2, <1>3, ApplyKeeps DEF CreateFits

\* A converge begins, or has nothing to do.
LEMMA StartConvergeKeepsEtcd ==
  ASSUME Careful, RInv, EInv, NEW by, StartConverge(by) \/ NothingToDo
  PROVE  EInv'
<1>1. /\ job'.kind \in {"converge", "none"} /\ open' \in {"apply", "none"}
      /\ UNCHANGED <<declared, edits>> /\ UNCHANGED world
  BY DEF StartConverge, NothingToDo, NoJob, May
<1>2. ~Unfinished
  BY DEF StartConverge, NothingToDo, May, Unfinished
<1>. QED BY <1>1, <1>2, ApplyKeeps, NoCreate

\* A destroy or restore that begins, on a cluster that is as declared.
LEMMA StartEndKeepsEtcd ==
  ASSUME Careful, RInv, EInv, NEW by, StartDestroy(by) \/ StartRestore
  PROVE  EInv'
<1>1. /\ job'.kind = "destroy" \/ (job'.kind = "restore" /\ job'.step = "check")
      /\ open' \in {"destroy", "restore"} /\ UNCHANGED <<declared, edits>> /\ UNCHANGED world
      /\ AsDeclared
  BY DEF StartDestroy, StartRestore, NoJob
<1>2. UNCHANGED <<data, peers, machine>> /\ Unfinished' /\ ~Recovered'
  BY <1>1 DEF world, Unfinished, Recovered
<1>3. UnfinishedFits' /\ FirstSafe' /\ (MembersDeclared => MembersDeclared')
  BY <1>1, <1>2 DEF UnfinishedFits, AsDeclared, FirstSafe, MembersDeclared
<1>4. RestoreFits' /\ CreateFits'
  BY <1>1, <1>2 DEF RestoreFits, At, CreateFits
<1>. QED BY <1>1, <1>2, <1>3, <1>4, SameDataKeeps

\* A control plane joins the one etcd there is, never one a restore is about to replace.
LEMMA EtcdJoinKeepsEtcd ==
  ASSUME RInv, EInv, NEW n \in Node, EtcdJoin(n)
  PROVE  EInv'
<1>1. PICK k \in 1..MaxEtcd : /\ Quorate(k)
                              /\ data' = [data EXCEPT ![n] = k]
                              /\ peers' = [peers EXCEPT ![k] = @ \cup {n}]
  BY DEF EtcdJoin
<1>2. /\ n \in ControlPlane /\ data[n] = 0 /\ ~At("restore", "wipe")
      /\ UNCHANGED <<machine, job, declared, open, edits>>
  BY DEF EtcdJoin, user
<1>3. data \in [ControlPlane -> 0..MaxEtcd] /\ peers \in [1..MaxEtcd -> SUBSET ControlPlane]
  BY TypeParts DEF RInv, WorldTyped
<1>4. k # 0
  BY Bounds
<1>5. PICK h \in ControlPlane : data[h] = k
  BY <1>1, QuorateHolds DEF RInv
<1>6. ~NoData /\ \A m \in ControlPlane : data[m] # 0 => data[m] = k
  BY <1>4, <1>5 DEF NoData, EInv, OneData
<1>7. /\ data'[n] = k /\ \A m \in ControlPlane : m # n => data'[m] = data[m]
      /\ peers'[k] = peers[k] \cup {n}
  BY <1>1, <1>2, <1>3
<1>8. \A m \in ControlPlane : data'[m] # 0 => data'[m] = k
  BY <1>6, <1>7
<1>9. OneData' /\ HoldersArePeers'
  BY <1>6, <1>7, <1>8 DEF EInv, OneData, HoldersArePeers
<1>10. PeersHold'
  <2>1. (~Unfinished' \/ Recovered') => (~Unfinished \/ Recovered)
    BY <1>2 DEF Unfinished, Recovered
  <2>2. ASSUME ~Unfinished \/ Recovered, NEW p \in peers'[k] PROVE data'[p] = k
    <3>1. CASE p = n
      BY <1>7, <3>1
    <3>2. CASE p # n
      <4>1. p \in peers[k] /\ p \in ControlPlane
        BY <1>3, <1>7, <2>2, <3>2
      <4>2. data[p] = k
        BY <1>4, <1>5, <2>2, <4>1 DEF EInv, PeersHold
      <4>. QED BY <1>7, <3>2, <4>1, <4>2
    <3>. QED BY <3>1, <3>2
  <2>. QED BY <1>8, <2>1, <2>2 DEF PeersHold
<1>11. CPs' = CPs /\ WantCPs' = WantCPs
  BY <1>2 DEF CPs, WantCPs
<1>12. data[First(CPs)] # 0 => data'[First(CPs)] # 0
  <2>1. First(CPs) \in ControlPlane
    BY FirstIsControlPlane DEF RInv
  <2>. QED BY <1>2, <1>7, <2>1
<1>13. (FirstHas => FirstHas') /\ (FirstSafe => FirstSafe') /\ CreateFits'
  BY <1>2, <1>6, <1>11, <1>12 DEF FirstHas, FirstSafe, Unfinished, EInv, CreateFits
<1>14. RestoreFits'
  BY <1>2, <1>6, <1>11, <1>12 DEF EInv, RestoreFits, Recovered, At
<1>15. UnfinishedFits' /\ (MembersDeclared => MembersDeclared')
  BY <1>2 DEF EInv, UnfinishedFits, Unfinished, AsDeclared, MembersDeclared
<1>. QED BY <1>2, <1>9, <1>10, <1>13, <1>14, <1>15, EtcdOwes

\* Kubelets that register, machines that stop and start, and the API's address.
LEMMA WorldKeepsEtcd ==
  ASSUME EInv, \/ \E n \in Node : Register(n) \/ Up(n) \/ Down(n)
               \/ ApiLoss \/ ApiBack \/ UNCHANGED vars
  PROVE  EInv'
<1>1. UNCHANGED <<declared, edits, data, peers, machine, open, job>>
  BY DEF Register, Up, Down, ApiLoss, ApiBack, vars, world, user
<1>. QED BY <1>1, SameJobKeeps

\* A run that gives up or dies leaves its kind unfinished.
LEMMA BreaksKeepsEtcd ==
  ASSUME EInv, Breaks
  PROVE  EInv'
<1>1. UNCHANGED <<declared, edits, data, peers, machine, open>> /\ job' = NoJob
  BY DEF Breaks, world, user
<1>. QED BY <1>1, NoJobIs, OtherConfigsKeep

\* An edit leaves etcd one of its anchors.
LEMMA EditKeepsEtcd ==
  ASSUME EditsKeep, RInv, EInv, Edit
  PROVE  EInv'
<1>1. PICK e \in Edits : e.from = declared /\ declared' = e.to
  BY DEF Edit
<1>2. /\ UNCHANGED <<data, peers, machine, job, open>> /\ job.kind = "none" /\ ~Unfinished
      /\ edits' = edits + 1 /\ edits \in Nat /\ edits < MaxEdits
  BY Bounds, TypeParts DEF RInv, UserTyped, Edit, world, Unfinished
<1>3. ~Unfinished' /\ edits' # 0
  BY <1>2 DEF Unfinished
<1>4. OneData' /\ HoldersArePeers' /\ PeersHold'
  BY <1>2 DEF EInv, OneData, HoldersArePeers, PeersHold
<1>5. UnfinishedFits' /\ RestoreFits' /\ CreateFits'
  BY <1>2, <1>3, NoRestore, NoCreate DEF UnfinishedFits
<1>6. KeepsFirst(e) /\ FirstSafe => FirstSafe'
  BY <1>1, <1>2 DEF KeepsFirst, FirstSafe, FirstHas, CPs, NoData
<1>7. KeepsAll(e) /\ MembersDeclared => MembersDeclared'
  BY <1>1, <1>2 DEF KeepsAll, MembersDeclared
<1>8. AllKeepFirst => FirstSafe'
  BY <1>6 DEF AllKeepFirst, EInv, Anchored
<1>9. AllKeepAll => MembersDeclared'
  BY <1>7 DEF AllKeepAll, EInv, Anchored
<1>10. OneKeeps => FirstSafe' \/ MembersDeclared'
  <2>1. MaxEdits <= 1 => edits = 0
    BY <1>2, Bounds
  <2>2. OneKeeps => FirstSafe /\ MembersDeclared /\ (KeepsFirst(e) \/ KeepsAll(e))
    BY <2>1 DEF OneKeeps, EInv, Anchored
  <2>. QED BY <1>6, <1>7, <2>2
<1>11. Anchored'
  BY <1>3, <1>8, <1>9, <1>10 DEF Anchored, EditsKeep
<1>. QED BY <1>4, <1>5, <1>11 DEF EInv

-----------------------------------------------------------------------------
(* One etcd cluster. *)

\* The clusters the behaviours start from have one etcd at most.
LEMMA InitEInv == Init => EInv
<1>. SUFFICES ASSUME Init PROVE EInv
  OBVIOUS
<1>1. PICK s \in Starts :
         /\ declared = s.declared
         /\ machine = [n \in Node |-> IF n \in s.members THEN "member" ELSE "maint"]
         /\ data = [n \in ControlPlane |-> IF n \in s.members THEN 1 ELSE 0]
         /\ peers = [k \in 1..MaxEtcd |-> IF k = 1 THEN s.members \cap ControlPlane ELSE {}]
  BY DEF Init
<1>2. /\ s.declared \in SUBSET Node /\ s.members \subseteq s.declared
      /\ s.declared \cap ControlPlane # {}
  BY FileAssumption DEF IsFile
<1>3. job = NoJob /\ open = "none" /\ edits = 0
  BY DEF Init
<1>4. OneData
  BY <1>1 DEF OneData
<1>5. HoldersArePeers /\ PeersHold
  <2>1. 1 \in 1..MaxEtcd
    BY Bounds
  <2>2. peers[1] = s.members \cap ControlPlane
    BY <1>1, <2>1
  <2>3. \A n \in ControlPlane : data[n] = IF n \in s.members THEN 1 ELSE 0
    BY <1>1
  <2>. QED BY <2>2, <2>3 DEF HoldersArePeers, PeersHold
<1>6. MembersDeclared
  BY <1>1, <1>2, NodeAssumption DEF MembersDeclared
<1>7. StartsFirst => FirstSafe
  <2>1. First(CPs) \in ControlPlane
    <3>1. CPs \in SUBSET Node /\ CPs # {} /\ CPs \subseteq ControlPlane
      BY <1>1, <1>2 DEF CPs
    <3>. QED BY <3>1, FirstIn
  <2>2. CASE s.members \cap ControlPlane = {}
    BY <1>1, <2>2 DEF NoData, FirstHas, FirstSafe
  <2>3. CASE s.members \cap ControlPlane # {}
    BY <1>1, <2>1, <2>3 DEF StartsFirst, CPs, FirstHas, FirstSafe
  <2>. QED BY <2>2, <2>3
<1>8. UnfinishedFits /\ RestoreFits /\ CreateFits
  BY <1>3, NoJobIs DEF UnfinishedFits, Unfinished, RestoreFits, At, Recovered, CreateFits
<1>. QED BY <1>4, <1>5, <1>6, <1>7, <1>8 DEF EInv, Anchored

\* Every step keeps what is said of etcd.
LEMMA EInvStep ==
  ASSUME Careful, EditsKeep
  PROVE  RInv /\ EInv /\ [Next]_vars => EInv'
<1>. SUFFICES ASSUME RInv, EInv, [Next]_vars PROVE EInv'
  OBVIOUS
<1>1. CASE \E by \in Source : StartCreate(by) \/ StartConverge(by) \/ StartDestroy(by)
  BY <1>1, StartCreateKeepsEtcd, StartConvergeKeepsEtcd, StartEndKeepsEtcd
<1>2. CASE NothingToDo \/ StartRestore
  BY <1>2, StartConvergeKeepsEtcd, StartEndKeepsEtcd
<1>3. CASE CreateStep \/ ConvergeStep \/ DestroyStep \/ RestoreStep
  BY <1>3, CreateKeepsEtcd, ConvergeKeepsEtcd, DestroyKeepsEtcd, RestoreKeepsEtcd
<1>4. CASE Machines \/ \E n \in Node : Down(n)
  BY <1>4, EtcdJoinKeepsEtcd, WorldKeepsEtcd DEF Machines
<1>5. CASE ApiLoss \/ ApiBack \/ UNCHANGED vars
  BY <1>5, WorldKeepsEtcd
<1>6. CASE Breaks \/ Edit
  BY <1>6, BreaksKeepsEtcd, EditKeepsEtcd
<1>. QED BY <1>1, <1>2, <1>3, <1>4, <1>5, <1>6 DEF Next

\* What is said of etcd holds always, for a careful user whose edits keep an anchor.
THEOREM EtcdInvariance ==
  ASSUME Careful, EditsKeep
  PROVE  Spec => [](RInv /\ EInv)
<1>1. Init => RInv /\ EInv
  BY InitRInv, InitEInv
<1>2. RInv /\ EInv /\ [Next]_vars => RInv' /\ EInv'
  BY RInvStep, EInvStep
<1>. QED BY <1>1, <1>2, PTL DEF Spec

\* No two declared control planes ever hold data of different etcd clusters:
\* bootstrapEtcd and bootstrapRecovered never found a second one beside the
\* data of the first.
THEOREM OneEtcdCluster ==
  ASSUME Careful, EditsKeep
  PROVE  Spec => []OneEtcd
<1>1. RInv /\ EInv => OneEtcd
  BY DEF EInv, OneData, OneEtcd
<1>. QED BY <1>1, EtcdInvariance, PTL

\* A create that goes on bootstraps the control plane that has the data, if any
\* has: Talos then answers that etcd runs (bootstrapEtcd in create.go).
THEOREM CreateNeverRefounds ==
  ASSUME Careful, EditsKeep
  PROVE  Spec => [](job.kind = "create" => data[First(CPs)] # 0 \/ NoData)
<1>1. RInv /\ EInv => (job.kind = "create" => data[First(CPs)] # 0 \/ NoData)
  BY DEF EInv, CreateFits, FirstHas
<1>. QED BY <1>1, EtcdInvariance, PTL
==============================================================================
