------------------------------ MODULE Converge ------------------------------
(***************************************************************************)
(* An apply of a cluster that runs: what the plan sees of the nodes and    *)
(* compares with cluster.yaml (cluster/converge.go plan, appliedSpec,      *)
(* configDrift), and the phases that then change them, one node after      *)
(* another: config (apply.go), Talos and its image, Kubernetes             *)
(* (upgrade.go, precheck.go), and the add-ons (module Platform).           *)
(* Adding, removing and creating nodes are in Lifecycle; one node's drain  *)
(* and reboot, in NodeCycle.                                               *)
(*                                                                         *)
(* A run may fail or die at any step; the user edits cluster.yaml and      *)
(* applies again.  Nothing is remembered between runs but what the nodes   *)
(* report.                                                                 *)
(***************************************************************************)
EXTENDS Platform, Sequences, FiniteSetsExt

CONSTANTS
    Order,       \* the nodes as the phases take them: control planes first
    First,       \* the node that cluster.yaml names first
    ControlPlane,
    Supports,    \* the Kubernetes versions (minors) each Talos version supports
    Scenarios,   \* [have, specs: what the user declares, one after the other]
    Prompt,      \* whether kubelets take their version before the next phase looks at them
    MaxTrouble   \* bound on the runs that fail or die

Node == {Order[i] : i \in DOMAIN Order}

\* What a node may run and a user may declare; of images, those with and those
\* without Longhorn's extensions; of the rest of a config, its edition.
Versions == DOMAIN Supports
Kubes == UNION {Supports[t] : t \in Versions}
Image == {"plain", "longhorn"}
Declaration ==
    [talos : [Node -> Versions], image : Image, kube : Kubes, rest : Nat, addons : SUBSET Addon]

ASSUME OrderAssumption == Order \in Seq(Node) /\ First \in Node /\ ControlPlane \subseteq Node
ASSUME TwoAssumption == {1, 2} \subseteq Runner
ASSUME SupportsAssumption == Kubes \subseteq Nat
ASSUME ScenarioAssumption ==
    \A s \in Scenarios :
        /\ s.have \in [talos : Versions, kube : Kubes, image : Image, rest : Nat]
        /\ s.specs \in Seq(Declaration) /\ s.specs # <<>>
        /\ s.repo \in States /\ s.secret \in States
ASSUME TroubleAssumption == MaxTrouble \in Nat /\ Prompt \in BOOLEAN

VARIABLES
    node,      \* what every node runs and has on its disk
    manifests, \* the version of the bootstrap manifests in the cluster
    spec,      \* cluster.yaml, and what the user will declare next
    recorded,  \* the cluster as Kubit recorded it (LoadCluster)
    run,       \* the run of Converge
    last,      \* how the last run ended, and for what
    trouble

vars == <<node, manifests, spec, recorded, run, last, trouble, platformVars>>

Declared == spec[1]

\* The machine config of a node: the image it installs, the Kubernetes version, and the rest.
Config(talos, image, kube, rest) == [talos |-> talos, image |-> image, kube |-> kube, rest |-> rest]

NoRun == [step |-> "none", todo |-> <<>>, phases |-> {}, want |-> <<>>, by |-> 1]
NoResult == [result |-> "none", want |-> <<>>, phases |-> {}]
Running == run.step # "none"

-----------------------------------------------------------------------------
(* What the plan sees. *)

Lowest(versions) == CHOOSE v \in versions : \A w \in versions : v <= w
Kubelets == {node[n].kube : n \in Node}

\* appliedSpec: every node's own Talos version, the lowest kubelet, the image of the
\* first node.
Applied ==
    [talos |-> [n \in Node |-> node[n].talos], image |-> node[First].image,
     kube |-> Lowest(Kubelets), rest |-> Declared.rest]

\* config.Generate for what was observed, or for what an upgrade brings.
Generated(c, n) == Config(c.talos[n], c.image, c.kube, c.rest)

Drift == {n \in Node : node[n].conf # Generated(Applied, n)}

\* Variant: the first node stands for all.
ChangesFirstOnly ==
    (IF Drift # {} THEN {"config"} ELSE {})
    \cup (IF Declared.talos[First] # node[First].talos \/ Declared.image # Applied.image THEN {"talos"} ELSE {})
    \cup (IF Declared.kube # Applied.kube THEN {"kubernetes"} ELSE {})
    \cup (IF PlatformChanges(Declared.addons) # {} \/ repoState # NoState THEN {"platform"} ELSE {})

Changes ==
    (IF Drift # {} THEN {"config"} ELSE {})
    \cup (IF \E n \in Node : Declared.talos[n] # node[n].talos THEN {"talos"} ELSE {})
    \cup (IF Declared.image # Applied.image THEN {"talos"} ELSE {})
    \cup (IF Declared.kube # Applied.kube THEN {"kubernetes"} ELSE {})
    \cup (IF PlatformChanges(Declared.addons) # {} \/ repoState # NoState THEN {"platform"} ELSE {})

-----------------------------------------------------------------------------
(* The phases.  run.todo holds the nodes that the phase has left. *)

Quiet == UNCHANGED <<spec, trouble, platformVars>>
Proceed(step) == run' = [run EXCEPT !.step = step, !.todo = Order]
NextNode == run' = [run EXCEPT !.step = @, !.todo = Tail(@)]
At(step) == run.step = step
This == Head(run.todo)
Looks == Prompt => \A n \in Node : node[n].kube = node[n].conf.kube

Ends(result) == run' = [NoRun EXCEPT !.by = IF run.by = 1 THEN 2 ELSE 1] /\ last' = [result |-> result, want |-> run.want, phases |-> run.phases]

\* A plan with changes, taken under the Lease, is recorded (adopt) and followed.
Start ==
    /\ ~Running /\ Looks /\ Changes # {}
    /\ run' = [run EXCEPT !.step = IF "config" \in Changes THEN "config" ELSE "talos", !.todo = Order,
                          !.phases = Changes, !.want = Declared]
    /\ recorded' = Applied
    /\ last' = NoResult
    /\ UNCHANGED <<node, manifests>> /\ Quiet

\* An image that an interrupted run installed and did not boot.
Pending(n) == node[n].slot.talos # node[n].talos \/ node[n].slot.image # node[n].image

\* applyNodeConfig: a dry run first.  A node that reboots comes up with the image that
\* an earlier run installed in the other boot slot; its kubelet follows its config.
Configured(n, conf) ==
    LET m == node[n]
        boots == conf.rest # m.conf.rest IN
    IF m.conf = conf THEN m
    ELSE [m EXCEPT !.conf = conf, !.odd = @ \/ (boots /\ Pending(n)),
                   !.kube = IF boots THEN conf.kube ELSE @,
                   !.talos = IF boots THEN m.slot.talos ELSE @,
                   !.image = IF boots THEN m.slot.image ELSE @]

ApplyConfigs ==
    /\ At("config") /\ run.todo # <<>>
    /\ node' = [node EXCEPT ![This] = Configured(This, Generated(recorded, This))]
    /\ NextNode
    /\ UNCHANGED <<manifests, recorded, last>> /\ Quiet

\* Talos renders the bootstrap manifests from the config of the first control plane that
\* answers.
Rendered == {node[n].conf.kube : n \in ControlPlane}

SyncManifests(step, next) ==
    /\ At(step) /\ run.todo = <<>>
    /\ manifests' \in Rendered
    /\ Proceed(next)
    /\ UNCHANGED <<node, recorded, last>> /\ Quiet

\* A kubelet of a new version starts once its config is there.
KubeletFollows(n) ==
    /\ node[n].kube # node[n].conf.kube
    /\ node' = [node EXCEPT ![n].kube = node[n].conf.kube]
    /\ UNCHANGED <<manifests, recorded, run, last>> /\ Quiet

Behind(n) == run.want.image # recorded.image \/ recorded.talos[n] # run.want.talos[n]

\* checkSupported
Supported(talos, kube) == kube \in Supports[talos]

\* UpgradeTalos, when the plan has it; with nothing to do it goes on to Kubernetes.
\* The precheck compares the new versions with the lowest kubelet, and refuses a
\* node the user cordoned.
StartTalos ==
    /\ At("talos") /\ Looks
    /\ IF "talos" \notin run.phases \/ \A n \in Node : ~Behind(n)
       THEN Proceed("kubernetes") /\ UNCHANGED last
       ELSE IF \A n \in Node : (Behind(n) => Supported(run.want.talos[n], Lowest(Kubelets))) /\ node[n].cordon # "user"
            THEN Proceed("install") /\ UNCHANGED last
            ELSE Ends("refused")
    /\ UNCHANGED <<node, manifests, recorded>> /\ Quiet

\* A node that has the image gets its config; one that has not is installed first.
HasImage(n) == node[n].talos = run.want.talos[n] /\ node[n].image = run.want.image
ForImage(n) == Config(run.want.talos[n], run.want.image, recorded.kube, recorded.rest)

SkipNode ==
    /\ At("install") /\ run.todo # <<>>
    /\ ~Behind(This) /\ node[This].cordon # "kubit"
    /\ NextNode
    /\ UNCHANGED <<node, manifests, recorded, last>> /\ Quiet

AlreadyThere ==
    /\ At("install") /\ run.todo # <<>>
    /\ Behind(This) \/ node[This].cordon = "kubit"
    /\ HasImage(This)
    /\ node' = [node EXCEPT ![This] = [Configured(This, ForImage(This)) EXCEPT !.cordon = IF @ = "kubit" THEN "none" ELSE @]]
    /\ NextNode
    /\ UNCHANGED <<manifests, recorded, last>> /\ Quiet

Install ==
    /\ At("install") /\ run.todo # <<>>
    /\ Behind(This) \/ node[This].cordon = "kubit"
    /\ ~HasImage(This)
    /\ node' = [node EXCEPT ![This].slot = [talos |-> run.want.talos[This], image |-> run.want.image],
                            ![This].odd = FALSE]
    /\ run' = [run EXCEPT !.step = "drain"]
    /\ UNCHANGED <<manifests, recorded, last>> /\ Quiet

Drain ==
    /\ At("drain")
    /\ node' = [node EXCEPT ![This].cordon = IF @ = "user" THEN @ ELSE "kubit"]
    /\ run' = [run EXCEPT !.step = "reboot"]
    /\ UNCHANGED <<manifests, recorded, last>> /\ Quiet

Reboot ==
    /\ At("reboot")
    /\ node' = [node EXCEPT ![This].talos = node[This].slot.talos, ![This].image = node[This].slot.image,
                            ![This].kube = node[This].conf.kube]
    /\ run' = [run EXCEPT !.step = "back"]
    /\ UNCHANGED <<manifests, recorded, last>> /\ Quiet

\* Variant: the config of the old version stays.
BackAsIs ==
    /\ At("back")
    /\ node' = [node EXCEPT ![This].cordon = IF @ = "kubit" THEN "none" ELSE @]
    /\ run' = [run EXCEPT !.step = "install", !.todo = Tail(@)]
    /\ UNCHANGED <<manifests, recorded, last>> /\ Quiet

Back ==
    /\ At("back")
    /\ node' = [node EXCEPT ![This] = [Configured(This, ForImage(This)) EXCEPT !.cordon = IF @ = "kubit" THEN "none" ELSE @]]
    /\ run' = [run EXCEPT !.step = "install", !.todo = Tail(@)]
    /\ UNCHANGED <<manifests, recorded, last>> /\ Quiet

\* The new versions are recorded, the manifests synced.
Upgraded ==
    /\ At("install") /\ run.todo = <<>>
    /\ recorded' = [recorded EXCEPT !.talos = run.want.talos, !.image = run.want.image]
    /\ run' = [run EXCEPT !.step = "talos synced", !.todo = <<>>]
    /\ UNCHANGED <<node, manifests, last>> /\ Quiet

OneMinorUp(from, to) == to \in from..from + 1

\* UpgradeKubernetes: nothing to do when every kubelet is there; its precheck goes from the lowest kubelet, one minor up at most,
\* and refuses any cordoned node.
StartKubernetes ==
    LET to == run.want.kube
        rolled == \A n \in Node : node[n].kube = to IN
    /\ At("kubernetes") /\ Looks
    /\ IF "kubernetes" \notin run.phases THEN Proceed("platform") /\ UNCHANGED last
       ELSE IF rolled THEN run' = [run EXCEPT !.step = "kubelets", !.todo = <<>>] /\ UNCHANGED last
       ELSE IF /\ OneMinorUp(Lowest(Kubelets), to)
               /\ \A n \in Node : Supported(recorded.talos[n], to) /\ node[n].cordon = "none"
            THEN Proceed("kubelets") /\ UNCHANGED last
            ELSE Ends("refused")
    /\ UNCHANGED <<node, manifests, recorded>> /\ Quiet

\* Every node gets the new version, and its kubelet is waited for.
UpgradeKubelet ==
    LET conf == Generated([recorded EXCEPT !.kube = run.want.kube], This) IN
    /\ At("kubelets") /\ run.todo # <<>>
    /\ IF node[This].conf # conf
       THEN node' = [node EXCEPT ![This] = Configured(This, conf)] /\ UNCHANGED run
       ELSE node[This].kube = run.want.kube /\ NextNode /\ UNCHANGED node
    /\ UNCHANGED <<manifests, recorded, last>> /\ Quiet

KubernetesUpgraded ==
    /\ At("kubelets") /\ run.todo = <<>>
    /\ recorded' = [recorded EXCEPT !.kube = run.want.kube]
    /\ run' = [run EXCEPT !.step = "kubernetes synced"]
    /\ UNCHANGED <<node, manifests, last>> /\ Quiet

-----------------------------------------------------------------------------
(* ApplyPlatform *)

\* Longhorn needs its extensions in the recorded image.
StartPlatform ==
    /\ At("platform")
    /\ IF "longhorn" \in run.want.addons /\ run.want.image # recorded.image
       THEN Ends("refused") /\ UNCHANGED platformVars
       ELSE /\ Open(run.by, run.want.addons)
            /\ run' = [run EXCEPT !.step = "tofu"] /\ UNCHANGED last
    /\ UNCHANGED <<node, manifests, recorded, spec, trouble>>

RunPlatform(r) ==
    /\ PlatformStep(r)
    /\ UNCHANGED <<node, manifests, recorded, run, last, spec, trouble>>

EndPlatform ==
    /\ At("tofu") /\ tofu[run.by].step \in {"ok", "failed"}
    /\ Ends(IF tofu[run.by].step = "ok" THEN "done" ELSE "failed")
    /\ Close(run.by)
    /\ UNCHANGED <<node, manifests, recorded, spec, trouble>>

OrphanEnds(r) ==
    /\ tofu[r].orphan /\ Close(r)
    /\ UNCHANGED <<node, manifests, recorded, run, last, spec, trouble>>

-----------------------------------------------------------------------------
(* Outside. *)

UserCordons(n) ==
    /\ trouble < MaxTrouble /\ trouble' = trouble + 1
    /\ node[n].cordon # "kubit"
    /\ node' = [node EXCEPT ![n].cordon = IF @ = "user" THEN "none" ELSE "user"]
    /\ UNCHANGED <<manifests, spec, recorded, run, last, platformVars>>

\* A step fails, or Kubit dies in it; a node that was drained and did not reboot is
\* uncordoned when Kubit lives.
Stops ==
    /\ Running /\ trouble < MaxTrouble /\ trouble' = trouble + 1
    /\ Ends("failed")
    /\ \/ At("reboot") /\ node' = [node EXCEPT ![This].cordon = IF @ = "kubit" THEN "none" ELSE @]
       \/ UNCHANGED node
    /\ Orphan(run.by)
    /\ UNCHANGED <<manifests, recorded, spec>>

UserEdits ==
    /\ Len(spec) > 1
    /\ spec' = Tail(spec)
    /\ last' = NoResult
    /\ UNCHANGED <<node, manifests, recorded, run, trouble, platformVars>>

Init ==
    \E s \in Scenarios :
        LET h == s.have IN
        /\ spec = s.specs /\ manifests = h.kube
        /\ node = [n \in Node |->
              [talos |-> h.talos, image |-> h.image, kube |-> h.kube, cordon |-> "none",
               slot |-> [talos |-> h.talos, image |-> h.image], odd |-> FALSE,
               conf |-> Config(h.talos, h.image, h.kube, h.rest)]]
        /\ repoState = s.repo /\ secret = s.secret /\ installed = Known.addons
        /\ recorded = [talos |-> [n \in Node |-> h.talos], image |-> h.image, kube |-> h.kube, rest |-> h.rest]
        /\ run = NoRun /\ last = NoResult /\ trouble = 0
        /\ stateLock = Nobody /\ tofu = [r \in Runner |-> AtRest]

Phases ==
    \/ Start \/ ApplyConfigs \/ SyncManifests("config", "talos")
    \/ StartTalos \/ SkipNode \/ AlreadyThere \/ Install \/ Drain \/ Reboot \/ Back \/ Upgraded
    \/ SyncManifests("talos synced", "kubernetes")
    \/ StartKubernetes \/ UpgradeKubelet \/ KubernetesUpgraded \/ SyncManifests("kubernetes synced", "platform")
    \/ StartPlatform \/ EndPlatform

Next ==
    \/ Phases \/ Stops \/ UserEdits
    \/ \E r \in Runner : RunPlatform(r) \/ OrphanEnds(r)
    \/ \E n \in Node : KubeletFollows(n) \/ UserCordons(n)

Spec == Init /\ [][Next]_vars

-----------------------------------------------------------------------------
(* Properties. *)

Phase == {"config", "talos", "kubernetes", "platform"}
Steps == Phase \cup {"none", "install", "drain", "reboot", "back", "talos synced", "kubelets",
                     "kubernetes synced", "tofu"}
Configs == [talos : Versions, image : Image, kube : Kubes, rest : Nat]
Machine == [talos : Versions, image : Image, kube : Kubes, cordon : {"none", "kubit", "user"},
            slot : [talos : Versions, image : Image], odd : BOOLEAN, conf : Configs]
Cluster == [talos : [Node -> Versions], image : Image, kube : Kubes, rest : Nat]
Run == [step : Steps, todo : Seq(Node), phases : SUBSET Phase, want : Declaration \cup {<<>>},
        by : {1, 2}]
Result == [result : {"none", "done", "failed", "refused"}, want : Declaration \cup {<<>>},
           phases : SUBSET Phase]

\* Types of the variables.
TypeOK ==
    /\ node \in [Node -> Machine]
    /\ manifests \in Kubes
    /\ spec \in Seq(Declaration) /\ spec # <<>>
    /\ recorded \in Cluster
    /\ run \in Run /\ (Running => run.want \in Declaration)
    /\ (run.step \in {"drain", "reboot", "back"} => run.todo # <<>>)
    /\ last \in Result
    /\ trouble \in 0..MaxTrouble
    /\ PlatformTypeOK

\* After an apply that was done, with nothing declared since, a plan has no changes
\* (docs/operations.md: a second kubit apply right after finds nothing to do).
SecondApplyFindsNothing ==
    last.result = "done" /\ last.want = Declared /\ (\A n \in Node : ~node[n].odd) => Changes = {}

\* An apply that was done leaves every node, the add-ons and, after an upgrade, the
\* bootstrap manifests with what was declared when it was planned, whatever earlier
\* runs left behind (upgrade.go UpgradeTalos, UpgradeKubernetes, platform.go).
DoneIsDeclared ==
    last.result = "done" /\ last.want = Declared =>
        /\ \A n \in Node : /\ node[n].conf.kube = Declared.kube /\ node[n].conf.rest = Declared.rest
                           /\ node[n].talos = Declared.talos[n] \/ node[n].odd
        /\ installed = Declared.addons
        /\ last.phases \cap {"talos", "kubernetes"} # {} => manifests = Declared.kube

\* Longhorn is in the cluster only once every node has its extensions
\* (docs/operations.md: kubit apply re-images the nodes before the platform).
LonghornOnItsImage == "longhorn" \in installed => \A n \in Node : node[n].image = "longhorn"
=============================================================================
