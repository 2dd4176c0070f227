------------------------------ MODULE NodeCycle ------------------------------
(***************************************************************************)
(* Taking nodes down one at a time: `Restart` of the console               *)
(* (internal/cluster/power.go RestartNodes) and the Talos upgrade of an    *)
(* apply (upgrade.go UpgradeTalos), which share the cycle of nodeops.go:   *)
(* etcd check, cordon, drain, reboot, wait, uncordon.                      *)
(*                                                                         *)
(* The apply Lease lets one run go on at a time (module ApplyLease).  Any  *)
(* call may fail, kubit may die between any two calls, and users cordon    *)
(* and uncordon with kubectl whenever they like.  A node goes down when a  *)
(* run reboots it, as soon as it accepts the request, and any machine may  *)
(* fail by itself at any time.                                             *)
(***************************************************************************)
EXTENDS Naturals, FiniteSets

CONSTANTS
    Node,          \* hostnames of the declared nodes
    ControlPlane,  \* those that run etcd
    NoNode,
    Kinds,         \* the runs users start: "restart", "upgrade"
    MaxRuns,       \* bound on the runs started
    MaxKubectl,    \* bound on the users' cordons and uncordons
    MaxFailures    \* bound on the machines that fail by themselves

ASSUME NodeAssumption == ControlPlane \subseteq Node /\ NoNode \notin Node
ASSUME KindAssumption == Kinds \subseteq {"restart", "upgrade"}
ASSUME BoundAssumption == MaxRuns \in Nat /\ MaxKubectl \in Nat /\ MaxFailures \in Nat

VARIABLES
    unsched,    \* spec.unschedulable of the Node object
    by,         \* its annotation kubit.dev/cordoned-by: "", or the reason
    ready, cur, \* the Node object says Ready; it shows the machine's running boot
    up,         \* the machine runs and its Talos answers
    etcd,       \* its etcd member is healthy
    version,    \* the Talos it runs: "old" or "new", the declared one
    installed,  \* the new Talos is in the inactive boot slot
    run,        \* the run that goes on
    asked,      \* history: whose cordon it is; "clean" and "marked" are a user's,
                \*   made while no run was at the node, on a node without or with
                \*   Kubit's annotation
    finished,   \* history: an apply ended without an error and no run began since
    runs, kubectl, \* how many runs and kubectl commands there were
    lost,       \* history: members that failed by themselves since the last etcd
                \*   check that passed, and have not joined again
    failures    \* how many machines failed

cordon == <<unsched, by>>
machine == <<ready, cur, up, etcd, version, installed>>
bounds == <<runs, kubectl>>
faults == <<lost, failures>>
vars == <<cordon, machine, run, asked, finished, bounds, faults>>

Idle == [at |-> "idle", kind |-> "restart", node |-> NoNode, todo |-> {}, behind |-> {},
         already |-> FALSE, hold |-> "kubit", phase |-> "cycle", known |-> FALSE, differs |-> FALSE]

n0 == run.node
Goto(at) == run' = [run EXCEPT !.at = at]
OfKubit(n) == by[n] # ""            \* cordonOf = cordonKubit
OfUser(n) == by[n] = "" /\ unsched[n]  \* cordonOf = cordonUser

\* The run ends, with an error or because kubit died.
Abandon == run' = Idle

-----------------------------------------------------------------------------
(* Starting a run. *)

StartRestart ==
    /\ run.at = "idle" /\ runs < MaxRuns
    /\ runs' = runs + 1
    /\ "restart" \in Kinds
    /\ \E S \in SUBSET Node \ {{}} : run' = [Idle EXCEPT !.at = "next", !.todo = S]
    /\ finished' = FALSE
    /\ UNCHANGED <<cordon, machine, asked, kubectl, faults>>

\* precheckUpgrade; its etcd check asks the first control plane that answers.
Precheck ==
    /\ \A n \in Node : up[n] /\ ready[n] /\ (unsched[n] => OfKubit(n))
    /\ \E n \in ControlPlane : etcd[n]

\* Converge records what the nodes run (adopt); UpgradeTalos works from that.
StartUpgrade ==
    /\ run.at = "idle" /\ runs < MaxRuns
    /\ runs' = runs + 1
    /\ "upgrade" \in Kinds
    /\ \E n \in Node : version[n] = "old"
    /\ Precheck
    /\ run' = [Idle EXCEPT !.at = "next", !.kind = "upgrade", !.todo = Node,
                           !.behind = {n \in Node : version[n] = "old"}]
    /\ finished' = FALSE
    /\ UNCHANGED <<cordon, machine, asked, kubectl, faults>>

\* Every node runs its declared Talos: the apply has no upgrade to make.
NothingToUpgrade ==
    /\ run.at = "idle"
    /\ "upgrade" \in Kinds
    /\ \A n \in Node : version[n] = "new" /\ up[n]
    /\ finished' = TRUE
    /\ UNCHANGED <<cordon, machine, run, asked, bounds, faults>>

\* The next node, control planes first.
First(n) == n \in run.todo /\ (n \in ControlPlane \/ run.todo \cap ControlPlane = {})

Take(n, at) == run' = [run EXCEPT !.at = at, !.node = n, !.todo = @ \ {n},
    !.already = (at = "config"), !.hold = "kubit", !.phase = "cycle", !.known = FALSE, !.differs = FALSE]

NextRestarts(n) ==
    /\ run.at = "next" /\ run.kind = "restart"
    /\ First(n)
    /\ Take(n, "check")
    /\ UNCHANGED <<cordon, machine, asked, finished, bounds, faults>>

\* Variant: a node under Kubit's cordon is taken for one that is being upgraded.
NextSkipsMarked(n) ==
    /\ run.at = "next" /\ run.kind = "upgrade"
    /\ First(n)
    /\ n \notin run.behind \/ OfKubit(n)
    /\ run' = [run EXCEPT !.todo = @ \ {n}]
    /\ UNCHANGED <<cordon, machine, asked, finished, bounds, faults>>

\* A node that is not behind and not under Kubit's cordon is passed over; so is
\* one whose cordon cannot be read.
NextSkips(n) ==
    /\ run.at = "next" /\ run.kind = "upgrade"
    /\ First(n)
    /\ n \notin run.behind
    /\ run' = [run EXCEPT !.todo = @ \ {n}]
    /\ UNCHANGED <<cordon, machine, asked, finished, bounds, faults>>

\* upgradeInPlace: a node already on its Talos only gets its config and its
\* cordon released.
NextUpgrades(n) ==
    /\ run.at = "next" /\ run.kind = "upgrade"
    /\ First(n)
    /\ n \in run.behind \/ OfKubit(n)
    /\ \/ up[n] /\ version[n] = "new" /\ Take(n, "config")
       \/ Take(n, "check")
    /\ UNCHANGED <<cordon, machine, asked, finished, bounds, faults>>

Finish ==
    /\ run.at = "next"
    /\ run.todo = {}
    /\ run' = Idle
    /\ finished' = (run.kind = "upgrade")
    /\ UNCHANGED <<cordon, machine, asked, bounds, faults>>

-----------------------------------------------------------------------------
(* One node's cycle: reinstallWith and drainReboot. *)

\* etcdTolerates: not two members, and every one healthy.
Tolerates(n) ==
    n \in ControlPlane =>
        up[n] /\ Cardinality(ControlPlane) # 2 /\ \A m \in ControlPlane : etcd[m]

Check ==
    /\ run.at = "check"
    /\ Tolerates(n0)
    /\ Goto(IF run.kind = "upgrade" THEN "install" ELSE "hold")
    /\ lost' = {}
    /\ UNCHANGED <<cordon, machine, asked, finished, bounds, failures>>

Install ==
    /\ run.at = "install"
    /\ up[n0]
    /\ installed' = [installed EXCEPT ![n0] = TRUE]
    /\ Goto("recheck") \/ Abandon
    /\ UNCHANGED <<cordon, ready, cur, up, etcd, version, asked, finished, bounds, faults>>

\* Variant: the check before the install is taken to be enough.
RecheckSkipped ==
    /\ run.at = "recheck"
    /\ Goto("hold")
    /\ lost' = {}
    /\ UNCHANGED <<cordon, machine, asked, finished, bounds, failures>>

Recheck ==
    /\ run.at = "recheck"
    /\ Tolerates(n0)
    /\ Goto("hold")
    /\ lost' = {}
    /\ UNCHANGED <<cordon, machine, asked, finished, bounds, failures>>

\* holdCordon reads the node: a user's cordon is left alone.
Hold ==
    /\ run.at = "hold"
    /\ \/ /\ OfUser(n0)
          /\ run' = [run EXCEPT !.at = "cordon", !.hold = "user"]
       \/ /\ ~OfUser(n0)
          /\ Goto("mark")
    /\ UNCHANGED <<cordon, machine, asked, finished, bounds, faults>>

\* MarkCordon; when its answer is lost the run ends with the mark set.
Mark ==
    /\ run.at = "mark"
    /\ by' = [by EXCEPT ![n0] = run.kind]
    /\ Goto("cordon") \/ Abandon
    /\ UNCHANGED <<unsched, machine, asked, finished, bounds, faults>>

\* kubeBootID, "" when the Node object cannot be read.
NoteBoot(r) == {[r EXCEPT !.known = k, !.differs = FALSE] : k \in BOOLEAN}

\* DrainAll cordons (RunCordonOrUncordon) ...
Cordon ==
    /\ run.at = "cordon"
    /\ unsched' = [unsched EXCEPT ![n0] = TRUE]
    /\ \E r \in NoteBoot(run) : \E at \in {"evict", "undo"} : run' = [r EXCEPT !.at = at]
    /\ UNCHANGED <<by, machine, asked, finished, bounds, faults>>

CordonFails ==
    /\ run.at = "cordon"
    /\ Goto("undo")
    /\ UNCHANGED <<cordon, machine, asked, finished, bounds, faults>>

\* ... and evicts.
Evict ==
    /\ run.at = "evict"
    /\ Goto("reboot") \/ Goto("undo")
    /\ UNCHANGED <<cordon, machine, asked, finished, bounds, faults>>

\* The machine goes down and comes up with what is installed.
GoDown(n) ==
    /\ up' = [up EXCEPT ![n] = FALSE]
    /\ cur' = [cur EXCEPT ![n] = FALSE]
    /\ etcd' = [etcd EXCEPT ![n] = FALSE]
    /\ version' = [version EXCEPT ![n] = IF installed[n] THEN "new" ELSE @]
    /\ installed' = [installed EXCEPT ![n] = FALSE]
    /\ UNCHANGED ready

\* rebootRequested, or the staged config that reboots; when the answer is lost
\* the cordon is undone while the machine goes down.
Reboot ==
    /\ run.at = "reboot"
    /\ up[n0]
    /\ GoDown(n0)
    /\ Goto("talos") \/ Goto("undo")
    /\ UNCHANGED <<cordon, asked, finished, bounds, faults>>

RebootFails ==
    /\ run.at = "reboot"
    /\ Goto("undo")
    /\ UNCHANGED <<cordon, machine, asked, finished, bounds, faults>>

\* talos.WaitForReboot.
TalosBack ==
    /\ run.at = "talos"
    /\ up[n0]
    /\ Goto("ready")
    /\ UNCHANGED <<cordon, machine, asked, finished, bounds, faults>>

Waited == IF run.kind = "upgrade" /\ run.phase = "cycle" THEN "config" ELSE "finish"

\* WaitRebooted: Ready, and with another boot than the one noted.
IsBack == ready[n0] /\ (~run.known \/ run.differs)

\* waitBack.
KubeletBack ==
    /\ run.at = "ready"
    /\ IsBack
    /\ Goto(IF n0 \in ControlPlane THEN "etcd" ELSE Waited)
    /\ UNCHANGED <<cordon, machine, asked, finished, bounds, faults>>

EtcdBack ==
    /\ run.at = "etcd"
    /\ up[n0] /\ etcd[n0]
    /\ Goto(Waited)
    /\ UNCHANGED <<cordon, machine, asked, finished, bounds, faults>>

\* applyBehindAndWait: the final config, which may need another reboot.
Config ==
    /\ run.at = "config"
    /\ up[n0]
    /\ Goto("finish")
    /\ UNCHANGED <<cordon, machine, asked, finished, bounds, faults>>

ConfigReboots ==
    /\ run.at = "config"
    /\ up[n0]
    /\ GoDown(n0)
    /\ \E r \in NoteBoot([run EXCEPT !.phase = "config"]) :
           run' = [r EXCEPT !.at = "talos"]
    /\ UNCHANGED <<cordon, asked, finished, bounds, faults>>

\* Nothing to release: the user's cordon stays, or (releaseCordon) there is none.
LeaveCordon ==
    /\ run.at = "finish"
    /\ run.hold = "user" \/ (run.already /\ ~OfKubit(n0))
    /\ Goto("next")
    /\ UNCHANGED <<cordon, machine, asked, finished, bounds, faults>>

\* Uncordon, first write; then the annotation goes in a write of its own.
Uncordon ==
    /\ run.at = "finish"
    /\ run.hold = "kubit" /\ (run.already => OfKubit(n0))
    /\ unsched' = [unsched EXCEPT ![n0] = FALSE]
    /\ Goto("unmark") \/ Abandon
    /\ UNCHANGED <<by, machine, asked, finished, bounds, faults>>

\* Variant: the error of the second write is dropped.
UnmarkMaybe ==
    /\ run.at = "unmark"
    /\ by' \in {by, [by EXCEPT ![n0] = ""]}
    /\ Goto("next") \/ Abandon
    /\ UNCHANGED <<unsched, machine, asked, finished, bounds, faults>>

Unmark ==
    /\ run.at = "unmark"
    /\ by' = [by EXCEPT ![n0] = ""]
    /\ Goto("next") \/ Abandon
    /\ UNCHANGED <<unsched, machine, asked, finished, bounds, faults>>

\* A cycle that failed before the reboot takes Kubit's cordon back.
Undo ==
    /\ run.at = "undo"
    /\ run.hold = "kubit"
    /\ unsched' = [unsched EXCEPT ![n0] = FALSE]
    /\ Goto("undomark") \/ Abandon
    /\ UNCHANGED <<by, machine, asked, finished, bounds, faults>>

UndoMark ==
    /\ run.at = "undomark"
    /\ by' = [by EXCEPT ![n0] = ""]
    /\ Abandon
    /\ UNCHANGED <<unsched, machine, asked, finished, bounds, faults>>

\* A call fails, a wait times out, a check refuses, the undo is over, kubit
\* dies: nothing more is done.
Ends ==
    /\ run.at \notin {"idle", "next"}
    /\ Abandon
    /\ UNCHANGED <<cordon, machine, asked, finished, bounds, faults>>

Cycle ==
    \/ Check \/ Install \/ Recheck \/ Hold \/ Mark \/ Cordon \/ CordonFails \/ Evict
    \/ Reboot \/ RebootFails \/ TalosBack \/ KubeletBack \/ EtcdBack
    \/ Config \/ ConfigReboots \/ LeaveCordon \/ Uncordon \/ Unmark
    \/ Undo \/ UndoMark \/ Ends

-----------------------------------------------------------------------------
(* The nodes and the users. *)

\* A machine loses power, hangs or panics, whatever the run is doing.
Fails(n) ==
    /\ failures < MaxFailures
    /\ failures' = failures + 1
    /\ up[n]
    /\ GoDown(n)
    /\ lost' = lost \cup ({n} \cap ControlPlane)
    /\ UNCHANGED <<cordon, run, asked, finished, bounds>>

Boots(n) ==
    /\ ~up[n]
    /\ up' = [up EXCEPT ![n] = TRUE]
    /\ UNCHANGED <<cordon, ready, cur, etcd, version, installed, run, asked, finished, bounds, faults>>

EtcdJoins(n) ==
    /\ n \in ControlPlane /\ up[n] /\ ~etcd[n]
    /\ etcd' = [etcd EXCEPT ![n] = TRUE]
    /\ lost' = lost \ {n}
    /\ UNCHANGED <<cordon, ready, cur, up, version, installed, run, asked, finished, bounds, failures>>

\* The kubelet posts its status: Ready, with the boot that runs.
KubeletPosts(n) ==
    /\ up[n] /\ ~(ready[n] /\ cur[n])
    /\ ready' = [ready EXCEPT ![n] = TRUE]
    /\ cur' = [cur EXCEPT ![n] = TRUE]
    /\ run' = [run EXCEPT !.differs = @ \/ (n = n0 /\ ~cur[n])]
    /\ UNCHANGED <<cordon, up, etcd, version, installed, asked, finished, bounds, faults>>

\* Kubernetes misses the kubelet's heartbeat, some 40 s after it went.
NotReady(n) ==
    /\ ready[n] /\ ~cur[n]
    /\ ready' = [ready EXCEPT ![n] = FALSE]
    /\ UNCHANGED <<cordon, cur, up, etcd, version, installed, run, asked, finished, bounds, faults>>

\* kubectl cordon does not look at annotations.
UserCordons(n) ==
    /\ kubectl < MaxKubectl
    /\ kubectl' = kubectl + 1
    /\ ~unsched[n]
    /\ unsched' = [unsched EXCEPT ![n] = TRUE]
    /\ asked' = [asked EXCEPT ![n] =
           IF n = n0 THEN "no" ELSE IF by[n] = "" THEN "clean" ELSE "marked"]
    /\ UNCHANGED <<by, machine, run, finished, runs, faults>>

UserUncordons(n) ==
    /\ kubectl < MaxKubectl
    /\ kubectl' = kubectl + 1
    /\ unsched[n]
    /\ unsched' = [unsched EXCEPT ![n] = FALSE]
    /\ asked' = [asked EXCEPT ![n] = "no"]
    /\ UNCHANGED <<by, machine, run, finished, runs, faults>>

Next ==
    \/ StartRestart \/ StartUpgrade \/ NothingToUpgrade
    \/ \E n \in Node : NextRestarts(n) \/ NextSkips(n) \/ NextUpgrades(n)
    \/ Finish
    \/ Cycle
    \/ \E n \in Node : Fails(n) \/ Boots(n) \/ EtcdJoins(n) \/ KubeletPosts(n) \/ NotReady(n)
    \/ \E n \in Node : UserCordons(n) \/ UserUncordons(n)

Init ==
    /\ unsched = [n \in Node |-> FALSE]
    /\ by = [n \in Node |-> ""]
    /\ ready = [n \in Node |-> TRUE]
    /\ cur = [n \in Node |-> TRUE]
    /\ up = [n \in Node |-> TRUE]
    /\ etcd = [n \in Node |-> n \in ControlPlane]
    /\ version = [n \in Node |-> "old"]
    /\ installed = [n \in Node |-> FALSE]
    /\ run = Idle
    /\ asked = [n \in Node |-> "no"]
    /\ finished = FALSE
    /\ runs = 0 /\ kubectl = 0
    /\ lost = {} /\ failures = 0

Spec == Init /\ [][Next]_vars

-----------------------------------------------------------------------------
(* Properties. *)

Places ==
    {"idle", "next", "check", "install", "recheck", "hold", "mark", "cordon", "evict",
     "reboot", "talos", "ready", "etcd", "config", "finish", "unmark", "undo", "undomark"}

Run == [at : Places, kind : {"restart", "upgrade"}, node : Node \cup {NoNode},
        todo : SUBSET Node, behind : SUBSET Node, already : BOOLEAN, hold : {"kubit", "user"},
        phase : {"cycle", "config"}, known : BOOLEAN, differs : BOOLEAN]

TypeOK ==
    /\ unsched \in [Node -> BOOLEAN] /\ by \in [Node -> {"", "restart", "upgrade"}]
    /\ ready \in [Node -> BOOLEAN] /\ cur \in [Node -> BOOLEAN] /\ up \in [Node -> BOOLEAN]
    /\ etcd \in [Node -> BOOLEAN]
    /\ version \in [Node -> {"old", "new"}] /\ installed \in [Node -> BOOLEAN]
    /\ run \in Run
    /\ run.at \notin {"idle", "next"} => run.node \in Node
    /\ asked \in [Node -> {"no", "clean", "marked"}]
    /\ finished \in BOOLEAN
    /\ runs \in 0..MaxRuns /\ kubectl \in 0..MaxKubectl
    /\ lost \subseteq ControlPlane /\ failures \in 0..MaxFailures

\* Kubit never takes a drained control plane down on top of a member that its
\* checks could have seen down: when the reboot of one is accepted, every member
\* that is not healthy has failed by itself since the check just before the
\* cordon.  A member that failed while Talos was being installed, that an earlier
\* run left down when it died, or that has not joined again since its own reboot,
\* stops the run.  (The reboot that a final config asks for has no check.)
OneMemberDown ==
    [][(run.at = "reboot" /\ run'.at # "reboot" /\ n0 \in ControlPlane /\ up[n0] /\ ~up'[n0])
            => \A m \in ControlPlane : etcd[m] \/ m \in lost]_vars

\* Every cordon goes back to whose it is: one a user put on a node that bore no
\* mark of Kubit's stays until a user lifts it, whatever runs cycle the node, and
\* a node a run is done with is not left under the run's own, whatever an
\* earlier run that died left there.
CordonsGoBack ==
    [][/\ \A n \in Node : asked'[n] = "clean" => unsched'[n]
       /\ (run.at \notin {"idle", "next"} /\ run'.at = "next") => by'[n0] = ""]_vars

\* An upgrade that ends without an error leaves every node on the declared
\* Talos, also when it resumes one that died at any point.
FinishedIsUpgraded == finished => \A n \in Node : version[n] = "new"

=============================================================================
