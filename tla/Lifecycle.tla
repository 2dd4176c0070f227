------------------------------ MODULE Lifecycle ------------------------------
(***************************************************************************)
(* How a cluster comes to be, grows, shrinks, is restored and destroyed:   *)
(* the part of the plan that decides between create, resume, add and       *)
(* remove (internal/cluster/converge.go), the runs themselves (create.go,  *)
(* addnode.go, remove.go, destroy.go, RestoreEtcd of etcd.go), the record  *)
(* of the cluster they read and write (store/clusters.go), and what the    *)
(* machines, etcd and Kubernetes do meanwhile.                             *)
(*                                                                         *)
(* A run may die, or give up on a lost answer, between any two steps, and  *)
(* is repeated by its user; control planes join etcd and kubelets register *)
(* at their own pace.  Upgrades, configs, addresses and add-ons are the    *)
(* business of other modules; so is the Lease (ApplyLease), which lets one *)
(* run of a cluster go on at a time.                                       *)
(***************************************************************************)
EXTENDS Naturals, FiniteSets

CONSTANTS
    Node,          \* numbered in the order of cluster.yaml
    ControlPlane,
    Source,        \* where applies come from: "cli" (a process of its own), "console"
    Starts,        \* the clusters the behaviours start from: [declared, members]
    Edits,         \* the edits of cluster.yaml the user may make: [from, to]
    Reused,        \* machines that boot an earlier install in maintenance mode
    Careful,       \* the user finishes an interrupted restore or destroy first, and
                   \*   restores and destroys only a cluster that is as declared
    MaxEtcd,       \* bound on the etcd clusters that have data at the same time
    MaxEdits,      \* bound on the edits of cluster.yaml
    MaxTrouble     \* bound on crashes, nodes that go down, losses of the API's
                   \*   address, and calls that fail for no reason the state shows

ASSUME NodeAssumption ==
    Node \subseteq Nat \ {0} /\ IsFiniteSet(Node) /\ ControlPlane \subseteq Node
ASSUME SourceAssumption == Source # {} /\ Source \subseteq {"cli", "console"}
ASSUME BoundAssumption ==
    {MaxEtcd, MaxEdits, MaxTrouble} \subseteq Nat /\ MaxEtcd # 0 /\ Careful \in BOOLEAN

\* cluster.yaml is refused without a control plane.
IsFile(nodes) == nodes \subseteq Node /\ nodes \cap ControlPlane # {}
ASSUME FileAssumption ==
    /\ \A s \in Starts : IsFile(s.declared) /\ s.members \subseteq s.declared
    /\ \A e \in Edits : IsFile(e.to)

VARIABLES
    declared,  \* the nodes of cluster.yaml
    machine,   \* "maint": in maintenance mode; "member": runs this cluster's config
    image,     \* Talos on the disk: "none", "old" (not the declared image), "declared"
    up,        \* the machine answers
    kubelet,   \* the kubelet has yet to register its Node object since it started
    data,      \* the etcd cluster a control plane's data directory belongs to; 0: empty
    peers,     \* the members of each etcd cluster
    apiLost,   \* the API's address does not answer although etcd runs
    kube,      \* the Node objects
    row,       \* the nodes of the cluster's row in the store of each source
    job,       \* the run that goes on
    open,      \* the kind of run that was begun and has not ended well
    edits, trouble

world == <<machine, image, up, kubelet, data, peers, kube>>
user == <<declared, open, edits>>
vars == <<declared, machine, image, up, kubelet, data, peers, apiLost, kube, row, job, open, edits, trouble>>

First(S) == CHOOSE n \in S : \A m \in S : n <= m
Member(n) == machine[n] = "member" /\ up[n]
Maint(n) == machine[n] = "maint" /\ up[n]

Quorate(k) ==
    /\ peers[k] # {}
    /\ 2 * Cardinality({n \in peers[k] : up[n] /\ data[n] = k}) > Cardinality(peers[k])
EtcdUp == \E k \in 1..MaxEtcd : Quorate(k)
ApiUp == EtcdUp /\ ~apiLost

NoJob == [kind |-> "none", by |-> "cli", step |-> "none", want |-> {}, applied |-> {},
          todo |-> {}, adds |-> {}, removes |-> {}, wrong |-> FALSE]
At(kind, step) == job.kind = kind /\ job.step = step
Goes(step, todo) == job' = [job EXCEPT !.step = step, !.todo = todo]
WantCPs == job.want \cap ControlPlane

\* saveCluster, which is PutCluster.
Records(by, nodes) == row' = [row EXCEPT ![by] = nodes]

\* The Node objects register and their nodes are Ready.
NodesReady(nodes) == ApiUp /\ \A n \in nodes : n \in kube /\ up[n]

\* A run that cannot take its step fails, at once or when its wait times out.
Unless(ok) == ~ok /\ job' = NoJob /\ UNCHANGED <<world, row, user>>

Calm == UNCHANGED <<apiLost, trouble>>
Trouble == trouble < MaxTrouble /\ trouble' = trouble + 1

-----------------------------------------------------------------------------
(* observe and planWith. *)

\* etcdRunning asks every declared control plane that is a member; the list of
\* the members is a linearizable read.
EtcdAnswers == \E n \in declared \cap ControlPlane : Member(n) /\ data[n] # 0 /\ Quorate(data[n])

\* Nothing is a member yet: every declared node waits in maintenance mode.
PlansNew == ~ApiUp /\ \A n \in declared : Maint(n)

\* Variant: etcd is not asked.
PlansResumeBlindly == ~ApiUp /\ (\A n \in declared : up[n]) /\ \E n \in declared : Member(n)

\* Members answer, and neither the API nor etcd does: an earlier create is resumed.
PlansResume ==
    /\ ~ApiUp /\ ~EtcdAnswers
    /\ \A n \in declared : up[n]
    /\ \E n \in declared : Member(n)

\* appliedSpec: the declared members and, if the API answers, the Node objects
\* nobody declares.
AppliedOf(d) == {n \in d : Member(n)} \cup (IF ApiUp THEN kube \ d ELSE {})
Applied == AppliedOf(declared)

EnoughControlPlanes ==
    \/ Cardinality(declared \cap ControlPlane) >= Cardinality(Applied \cap ControlPlane)
    \/ Cardinality(declared \cap ControlPlane) >= 3

\* The problems that keep a plan from being applied.
PlansConverge == ApiUp /\ (\A n \in declared : up[n]) /\ EnoughControlPlanes

Adds == {n \in declared : Maint(n)}
Removes == kube \ declared

AsDeclared == {n \in Node : machine[n] = "member"} \subseteq declared
May(kind) == job.kind = "none" /\ (Careful => open \in {"none", kind})

StartCreate(by) ==
    /\ May("apply") /\ (PlansNew \/ PlansResume)
    /\ job' = [NoJob EXCEPT !.kind = "create", !.by = by, !.step = "secrets", !.want = declared]
    /\ open' = "apply"
    /\ row' = [row EXCEPT !["cli"] = IF by = "cli" THEN {} ELSE @]
    /\ UNCHANGED <<world, declared, edits>> /\ Calm

StartConverge(by) ==
    /\ May("apply") /\ PlansConverge /\ Adds \cup Removes # {}
    /\ job' = [NoJob EXCEPT !.kind = "converge", !.by = by, !.step = "adopt", !.want = declared,
                            !.applied = Applied, !.adds = Adds, !.removes = Removes]
    /\ open' = "apply"
    /\ row' = [row EXCEPT !["cli"] = IF by = "cli" THEN {} ELSE @]
    /\ UNCHANGED <<world, declared, edits>> /\ Calm

\* An apply whose plan is empty.
NothingToDo ==
    /\ May("apply") /\ open = "apply" /\ PlansConverge /\ Adds \cup Removes = {}
    /\ open' = "none"
    /\ UNCHANGED <<world, row, job, declared, edits>> /\ Calm

-----------------------------------------------------------------------------
(* Create, from the start or resumed. *)

SaveTarget ==
    /\ At("create", "secrets")
    /\ Records(job.by, job.want)
    /\ Goes("preflight", {})
    /\ UNCHANGED <<world, user>>

\* Variant: a node that is installed already is an error, not a step that is done.
PendingAll == job.want

\* pendingInstall: the nodes that do not answer as installed.
Pending == {n \in job.want : ~Member(n)}

Preflight ==
    /\ At("create", "preflight")
    /\ \/ /\ \A n \in Pending : Maint(n)
          /\ Goes("install", Pending)
          /\ UNCHANGED <<world, row, user>>
       \/ Unless(\A n \in Pending : Maint(n))

\* The config is written and the machine boots what its disk then holds: Talos
\* does not install over an earlier install.
Installs(n) ==
    /\ machine' = [machine EXCEPT ![n] = "member"]
    /\ image' = [image EXCEPT ![n] = IF @ = "none" THEN "declared" ELSE @]
    /\ kubelet' = [kubelet EXCEPT ![n] = TRUE]
    /\ UNCHANGED <<up, data, peers, kube>>

\* The nodes are installed in parallel; one that fails does not stop the others.
Install ==
    /\ At("create", "install")
    /\ \/ \E n \in job.todo :
            /\ job' = [job EXCEPT !.todo = @ \ {n}, !.wrong = @ \/ ~Maint(n)]
            /\ IF Maint(n) THEN Installs(n) ELSE UNCHANGED world
            /\ UNCHANGED <<row, user>>
       \/ job.todo = {} /\ ~job.wrong /\ Goes("image", job.want) /\ UNCHANGED <<world, row, user>>
       \/ job.todo = {} /\ Unless(~job.wrong)

\* Variant: a node that cannot be asked is passed over.
ReimageReachable ==
    /\ At("create", "image")
    /\ \/ \E n \in job.todo :
            /\ job' = [job EXCEPT !.todo = @ \ {n}]
            /\ image' = [image EXCEPT ![n] = IF Member(n) THEN "declared" ELSE @]
            /\ UNCHANGED <<machine, up, kubelet, data, peers, kube, row, user>>
       \/ job.todo = {} /\ Goes("bootstrap", {}) /\ UNCHANGED <<world, row, user>>

\* imageOne: installs the declared image where another one runs, and reboots.
Reimage ==
    /\ At("create", "image")
    /\ \/ \E n \in job.todo :
            /\ job' = [job EXCEPT !.todo = @ \ {n}, !.wrong = @ \/ ~Member(n)]
            /\ image' = [image EXCEPT ![n] = IF Member(n) THEN "declared" ELSE @]
            /\ UNCHANGED <<machine, up, kubelet, data, peers, kube, row, user>>
       \/ job.todo = {} /\ ~job.wrong /\ Goes("bootstrap", {}) /\ UNCHANGED <<world, row, user>>
       \/ job.todo = {} /\ Unless(~job.wrong)

\* Talos makes a cluster of one member, and refuses where there is data.
Founds(cp, objects) ==
    LET k == First({i \in 1..MaxEtcd : \A n \in ControlPlane : data[n] # i}) IN
    /\ \E i \in 1..MaxEtcd : \A n \in ControlPlane : data[n] # i
    /\ data[cp] = 0
    /\ data' = [data EXCEPT ![cp] = k]
    /\ peers' = [peers EXCEPT ![k] = {cp}]
    /\ kube' = objects
    /\ UNCHANGED <<machine, image, up, kubelet>>

Bootstrap ==
    LET cp == First(WantCPs)
        healthy == data[cp] # 0 /\ Quorate(data[cp])
    IN
    /\ At("create", "bootstrap")
    /\ \/ /\ Member(cp)
          /\ (healthy /\ UNCHANGED world) \/ (~healthy /\ Founds(cp, {}))
          /\ Goes("members", {})
          /\ UNCHANGED <<row, user>>
       \/ Unless(Member(cp) /\ (data[cp] = 0 \/ healthy))

\* waitEtcdMembers
WaitMembers ==
    LET cp == First(WantCPs)
        joined == /\ Member(cp) /\ data[cp] # 0 /\ Quorate(data[cp])
                  /\ Cardinality(peers[data[cp]]) >= Cardinality(WantCPs)
    IN
    /\ job.step = "members"
    /\ \/ joined /\ Goes("ready", {}) /\ UNCHANGED <<world, row, user>>
       \/ Unless(joined)

WaitReady ==
    /\ job.step = "ready"
    /\ \/ /\ NodesReady(job.want)
          /\ job' = NoJob /\ open' = "none"
          /\ UNCHANGED <<world, row, declared, edits>>
       \/ Unless(NodesReady(job.want))

-----------------------------------------------------------------------------
(* Converge: adopt, the nodes to add, then those to remove. *)

\* publish keeps the declared nodes its row knows that do not run.
Adopt ==
    /\ At("converge", "adopt")
    /\ Records(job.by, job.applied \cup (job.want \cap row[job.by]))
    /\ Goes("add", {})
    /\ UNCHANGED <<world, user>>

\* AddNode refuses a node its row has; else it writes the row before it installs.
Add ==
    LET n == First(job.adds) IN
    /\ At("converge", "add")
    /\ \/ /\ job.adds # {} /\ n \notin row[job.by] /\ Maint(n)
          /\ Records(job.by, row[job.by] \cup {n})
          /\ Goes("join", {n})
          /\ UNCHANGED <<world, user>>
       \/ job.adds # {} /\ Unless(n \notin row[job.by] /\ Maint(n))
       \/ job.adds = {} /\ Goes("remove", {}) /\ UNCHANGED <<world, row, user>>

Join ==
    /\ At("converge", "join")
    /\ \E n \in job.todo :
         \/ Maint(n) /\ Installs(n) /\ Goes("joined", {n}) /\ UNCHANGED <<row, user>>
         \/ Unless(Maint(n))

Joined ==
    /\ At("converge", "joined")
    /\ \E n \in job.todo :
         \/ /\ NodesReady({n})
            /\ job' = [job EXCEPT !.step = "add", !.todo = {}, !.adds = @ \ {n}]
            /\ UNCHANGED <<world, row, user>>
         \/ Unless(NodesReady({n}))

\* RemoveNode's guard; two control planes that are left are only warned of.
MayRemove(h) ==
    /\ h \in row[job.by]
    /\ h \in ControlPlane => row[job.by] \cap ControlPlane # {h}

\* removeFromKube: drained and deleted.
Remove ==
    LET h == First(job.removes) IN
    /\ At("converge", "remove")
    /\ \/ /\ job.removes # {} /\ MayRemove(h) /\ ApiUp
          /\ kube' = kube \ {h}
          /\ Goes("reset", {h})
          /\ UNCHANGED <<machine, image, up, kubelet, data, peers, row, user>>
       \/ job.removes # {} /\ Unless(MayRemove(h) /\ ApiUp)
       \/ job.removes = {} /\ job' = NoJob /\ open' = "none"
          /\ UNCHANGED <<world, row, declared, edits>>

\* The graceful reset: a member leaves etcd, which needs its quorum, and the
\* machine boots into maintenance mode.
Reset ==
    /\ At("converge", "reset")
    /\ \E h \in job.todo :
         LET k == IF h \in ControlPlane THEN data[h] ELSE 0
             can == Member(h) /\ (k # 0 => Quorate(k))
         IN
         \/ /\ can
            /\ machine' = [machine EXCEPT ![h] = "maint"]
            /\ kubelet' = [kubelet EXCEPT ![h] = FALSE]
            /\ data' = [n \in ControlPlane |-> IF n = h THEN 0 ELSE data[n]]
            /\ peers' = [i \in 1..MaxEtcd |-> IF i = k THEN peers[i] \ {h} ELSE peers[i]]
            /\ Goes("forget", {h})
            /\ UNCHANGED <<image, up, kube, row, user>>
         \/ Unless(can)

Forget ==
    /\ At("converge", "forget")
    /\ Records(job.by, row[job.by] \ job.todo)
    /\ job' = [job EXCEPT !.step = "remove", !.todo = {}, !.removes = @ \ job.todo]
    /\ UNCHANGED <<world, user>>

-----------------------------------------------------------------------------
(* Destroy: the workers in parallel, then the control planes. *)

StartDestroy(by) ==
    /\ May("destroy")
    /\ Careful => AsDeclared
    /\ \E n \in declared : machine[n] = "member"
    /\ job' = [NoJob EXCEPT !.kind = "destroy", !.by = by, !.step = "workers", !.want = declared,
                            !.applied = {n \in declared : Member(n) \/ Maint(n)},
                            !.todo = {n \in declared \ ControlPlane : Member(n)}]
    /\ open' = "destroy"
    /\ UNCHANGED <<world, row, declared, edits>> /\ Calm

\* The machine loses its config and its etcd data; etcd is not told.
Wipes(n) ==
    /\ machine' = [machine EXCEPT ![n] = "maint"]
    /\ kubelet' = [kubelet EXCEPT ![n] = FALSE]
    /\ data' = [m \in ControlPlane |-> IF m = n THEN 0 ELSE data[m]]
    /\ UNCHANGED <<image, up, peers, kube>>

WipeNodes ==
    /\ job.kind = "destroy" /\ job.step \in {"workers", "control planes"}
    /\ \/ \E n \in job.todo :
            /\ job' = [job EXCEPT !.todo = @ \ {n}, !.wrong = @ \/ ~Member(n)]
            /\ IF Member(n) THEN Wipes(n) ELSE UNCHANGED world
            /\ UNCHANGED <<row, user>>
       \/ /\ job.todo = {} /\ ~job.wrong
          /\ IF job.step = "workers"
             THEN Goes("control planes", {n \in job.applied \cap ControlPlane : machine[n] = "member"})
             ELSE Goes("maintenance", {})
          /\ UNCHANGED <<world, row, user>>
       \/ job.todo = {} /\ Unless(~job.wrong)

\* waitMaintenance, and the error if a node was not reached at the start.
WaitMaintenance ==
    LET done == \A n \in job.want : Maint(n) IN
    /\ At("destroy", "maintenance")
    /\ \/ done /\ job' = NoJob /\ open' = "none" /\ UNCHANGED <<world, row, declared, edits>>
       \/ Unless(done)

-----------------------------------------------------------------------------
(* RestoreEtcd, from the CLI; Track has put every declared node in its row. *)

StartRestore ==
    /\ May("restore")
    /\ Careful => AsDeclared
    /\ ApiUp \/ \E n \in declared : Member(n)
    /\ LET nodes == Applied \cup declared IN
       /\ Records("cli", nodes)
       /\ job' = [NoJob EXCEPT !.kind = "restore", !.step = "check", !.want = nodes]
    /\ open' = "restore"
    /\ UNCHANGED <<world, declared, edits>> /\ Calm

RestoreCheck ==
    LET answer == \A n \in WantCPs : Member(n) IN
    /\ At("restore", "check")
    /\ \/ answer /\ Goes("wipe", WantCPs) /\ UNCHANGED <<world, row, user>>
       \/ Unless(answer)

\* wipeEtcd resets EPHEMERAL one node after the other and stops at a failure.
WipeEtcd ==
    LET n == First(job.todo) IN
    /\ At("restore", "wipe")
    /\ \/ /\ job.todo # {} /\ Member(n)
          /\ data' = [data EXCEPT ![n] = 0]
          /\ kubelet' = [kubelet EXCEPT ![n] = TRUE]
          /\ Goes("wipe", job.todo \ {n})
          /\ UNCHANGED <<machine, image, up, peers, kube, row, user>>
       \/ job.todo # {} /\ Unless(Member(n))
       \/ job.todo = {} /\ Goes("recover", {}) /\ UNCHANGED <<world, row, user>>

\* uploadSnapshot and bootstrapRecovered on the first control plane.
Recover ==
    LET cp == First(WantCPs) IN
    /\ At("restore", "recover")
    /\ \/ Member(cp) /\ Founds(cp, job.want) /\ Goes("members", {}) /\ UNCHANGED <<row, user>>
       \/ Unless(Member(cp) /\ data[cp] = 0)

-----------------------------------------------------------------------------
(* The machines, etcd, Kubernetes, the user and the daemon. *)

\* A control plane without data joins the etcd cluster its peers run.  The model
\* assumes that a restore asks every control plane to reset before the first one
\* is back from its reboot.
EtcdJoin(n) ==
    /\ ~At("restore", "wipe")
    /\ n \in ControlPlane /\ Member(n) /\ data[n] = 0
    /\ \E k \in 1..MaxEtcd :
         /\ Quorate(k)
         /\ data' = [data EXCEPT ![n] = k]
         /\ peers' = [peers EXCEPT ![k] = @ \cup {n}]
    /\ UNCHANGED <<machine, image, up, kubelet, kube, row, job, user>> /\ Calm

Register(n) ==
    /\ Member(n) /\ kubelet[n] /\ ApiUp
    /\ kube' = kube \cup {n}
    /\ kubelet' = [kubelet EXCEPT ![n] = FALSE]
    /\ UNCHANGED <<machine, image, up, data, peers, row, job, user>> /\ Calm

Down(n) ==
    /\ up[n] /\ Trouble
    /\ up' = [up EXCEPT ![n] = FALSE]
    /\ UNCHANGED <<machine, image, kubelet, data, peers, apiLost, kube, row, job, user>>

Up(n) ==
    /\ ~up[n]
    /\ up' = [up EXCEPT ![n] = TRUE]
    /\ kubelet' = [kubelet EXCEPT ![n] = machine[n] = "member"]
    /\ UNCHANGED <<machine, image, data, peers, kube, row, job, user>> /\ Calm

ApiLoss ==
    /\ ~apiLost /\ Trouble /\ apiLost' = TRUE
    /\ UNCHANGED <<world, row, job, user>>

ApiBack ==
    /\ apiLost /\ apiLost' = FALSE
    /\ UNCHANGED <<world, row, job, user, trouble>>

\* What Track leaves in the daemon's row: all that is declared if it knew nothing,
\* else what runs and the declared nodes it knew.
Tracked(d, known) ==
    IF ApiUp \/ \E n \in d : Member(n) THEN AppliedOf(d) \cup (d \cap known) ELSE d

\* The run gives up, or dies; a daemon that died starts with an empty store.
Breaks ==
    /\ job.kind # "none" /\ Trouble
    /\ job' = NoJob
    /\ row' \in {row} \cup {[row EXCEPT !["console"] = Tracked(declared, declared)] :
                            b \in {job.by} \cap {"console"}}
    /\ UNCHANGED <<world, apiLost, user>>

\* The user edits cluster.yaml, and the daemon loads it.
Edit ==
    /\ job.kind = "none" /\ open = "none" /\ edits < MaxEdits
    /\ \E e \in Edits :
         /\ e.from = declared /\ declared' = e.to
         /\ row' = [row EXCEPT !["console"] = Tracked(e.to, @)]
    /\ edits' = edits + 1
    /\ UNCHANGED <<world, job, open>> /\ Calm

-----------------------------------------------------------------------------

Init ==
    /\ \E s \in Starts :
         /\ declared = s.declared
         /\ machine = [n \in Node |-> IF n \in s.members THEN "member" ELSE "maint"]
         /\ image = [n \in Node |-> IF n \in s.members THEN "declared"
                                    ELSE IF n \in Reused THEN "old" ELSE "none"]
         /\ data = [n \in ControlPlane |-> IF n \in s.members THEN 1 ELSE 0]
         /\ peers = [k \in 1..MaxEtcd |-> IF k = 1 THEN s.members \cap ControlPlane ELSE {}]
         /\ kube = s.members
         /\ row = [b \in {"cli", "console"} |-> IF b = "cli" THEN {} ELSE s.declared]
    /\ up = [n \in Node |-> TRUE]
    /\ kubelet = [n \in Node |-> FALSE]
    /\ apiLost = FALSE
    /\ job = NoJob /\ open = "none" /\ edits = 0 /\ trouble = 0

CreateStep == Calm /\ (SaveTarget \/ Preflight \/ Install \/ Reimage \/ Bootstrap \/ WaitMembers \/ WaitReady)
ConvergeStep == Calm /\ (Adopt \/ Add \/ Join \/ Joined \/ Remove \/ Reset \/ Forget)
DestroyStep == Calm /\ (WipeNodes \/ WaitMaintenance)
RestoreStep == Calm /\ (RestoreCheck \/ WipeEtcd \/ Recover)
Machines == \E n \in Node : EtcdJoin(n) \/ Register(n) \/ Up(n)

Next ==
    \/ \E by \in Source : StartCreate(by) \/ StartConverge(by) \/ StartDestroy(by)
    \/ NothingToDo \/ StartRestore
    \/ CreateStep \/ ConvergeStep \/ DestroyStep \/ RestoreStep
    \/ Machines \/ ApiBack
    \/ \E n \in Node : Down(n)
    \/ ApiLoss \/ Breaks \/ Edit

\* The runs and the machines go on by themselves; the user of the CLI repeats an
\* apply that did not end well (operations.md: re-running resumes).
Fairness ==
    /\ WF_vars(CreateStep) /\ WF_vars(ConvergeStep) /\ WF_vars(DestroyStep) /\ WF_vars(RestoreStep)
    /\ \A n \in Node : WF_vars(EtcdJoin(n)) /\ WF_vars(Register(n)) /\ WF_vars(Up(n))
    /\ WF_vars(ApiBack)
    /\ SF_vars(open = "apply" /\ StartCreate("cli"))
    /\ SF_vars(open = "apply" /\ StartConverge("cli"))

Spec == Init /\ [][Next]_vars /\ Fairness

-----------------------------------------------------------------------------
(* Properties. *)

Kinds == {"none", "create", "converge", "destroy", "restore"}
Steps ==
    {"none", "secrets", "preflight", "install", "image", "bootstrap", "adopt", "add", "join", "joined",
     "remove", "reset", "forget", "workers", "control planes", "maintenance", "check", "wipe",
     "recover", "members", "ready"}

\* The steps of a run, by its kind.
StepsOf(kind) ==
    {s \in {"none"} : kind = "none"}
        \cup {s \in {"secrets", "preflight", "install", "image", "bootstrap"} : kind = "create"}
        \cup {s \in {"adopt", "add", "join", "joined", "remove", "reset", "forget"} : kind = "converge"}
        \cup {s \in {"workers", "control planes", "maintenance"} : kind = "destroy"}
        \cup {s \in {"check", "wipe", "recover"} : kind = "restore"}
        \cup {s \in {"members", "ready"} : kind \in {"create", "restore"}}

\* The variables keep their types, and a machine in maintenance mode has nothing
\* left of a cluster, whichever of the three resets brought it there.
TypeOK ==
    /\ declared \subseteq Node /\ kube \subseteq Node
    /\ machine \in [Node -> {"maint", "member"}]
    /\ image \in [Node -> {"none", "old", "declared"}]
    /\ up \in [Node -> BOOLEAN] /\ kubelet \in [Node -> BOOLEAN]
    /\ data \in [ControlPlane -> 0..MaxEtcd]
    /\ peers \in [1..MaxEtcd -> SUBSET ControlPlane]
    /\ apiLost \in BOOLEAN
    /\ row \in [{"cli", "console"} -> SUBSET Node]
    /\ job \in [kind : Kinds, by : {"cli", "console"}, step : Steps, want : SUBSET Node,
                applied : SUBSET Node, todo : SUBSET Node, adds : SUBSET Node,
                removes : SUBSET Node, wrong : BOOLEAN]
    /\ job.step \in StepsOf(job.kind)
    /\ open \in {"none", "apply", "destroy", "restore"}
    /\ edits \in 0..MaxEdits /\ trouble \in 0..MaxTrouble
    /\ \A n \in Node : machine[n] = "maint" =>
                        ~kubelet[n] /\ (n \in ControlPlane => data[n] = 0)

\* No two declared control planes ever hold data of different etcd clusters:
\* neither a resumed create nor a repeated bootstrap, restore or lost API
\* founds a second cluster beside the one that has the data.
OneEtcd ==
    \A m, n \in declared \cap ControlPlane : data[m] # 0 /\ data[n] # 0 => data[m] = data[n]

\* Create bootstraps etcd only when every node of the cluster runs the declared
\* image, installed by this run or found from an interrupted one.
BootstrapsOnDeclaredImage ==
    At("create", "bootstrap") => \A n \in job.want : image[n] = "declared"

\* A create that fails or dies anywhere is completed by repeating the apply:
\* the cluster is up with every declared node, unless the user edits, destroys or
\* restores it meanwhile.
CreateCompletes ==
    \A e \in 0..MaxEdits :
        (job.kind = "create" /\ edits = e) ~>
            ((ApiUp /\ declared \subseteq kube) \/ edits # e \/ open \in {"destroy", "restore"})

=============================================================================
