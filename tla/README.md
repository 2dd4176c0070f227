# Kubit in TLA+

Kubit builds and runs Talos Linux clusters from a repository: a CLI (`kubit apply`) and a
daemon (`kubit serve`) with a web console converge machines to `cluster.yaml`. This
directory models the parts of it where several processes, goroutines, machines or users
meet: TLA+ modules translated from the source, TLC configurations that check them on small
instances, and TLAPS proofs of what holds for every instance.

Paths below are relative to the repository. `PROJECT.json` maps every definition to the
lines it models; its `hazards` list says what each property is for.

## The system

| Component | State it keeps | Operations | Hard behaviour | Module |
|---|---|---|---|---|
| Apply Lease (`internal/cluster/lock.go`) | the Lease object `kube-system/kubit-apply` | `LockApply`, release, `ApplyHolder`, `WaitApplyReleased` | competing processes, lost answers, crashes, reused pids, no renewal | `ApplyLease` |
| Planner and applies (`internal/api/planner.go`, `apply.go`) | per cluster a slot, the stored plan, runs, `releases` | `kickPlan`, `planLoop`, `planOnce`, `afterRelease`, `handleApply` | lost wake-ups, plans that are stale when stored or applied | `Planner` |
| Live feed (`internal/api/live.go`, `web/src/live.ts`) | sequence number, ring, subscribers; a browser's `lastSeq` | publish, subscribe, replay, resync, reconnect | slow subscribers, ring boundary, restarts that number from zero | `LiveFeed` |
| Watcher (`internal/watch`) | counts of faults, open alerts, the observer | tick, `confirm.Apply`, `Reset` | pauses, blind observer, restarts, facts that cannot be seen | `Watcher` |
| Node cycle (`internal/cluster/nodeops.go`, `upgrade.go`, `precheck.go`, `internal/k8s/drain.go`) | cordon, annotation, boot slot of a node | etcd check, install, cordon, drain, reboot, wait, uncordon, undo | a death between any two calls, stale Ready, users' cordons | `NodeCycle` |
| Node power (`internal/cluster/power.go`, `internal/api/power.go`) | off marks in memory and on Node objects | restart, shut down, power on | an old status, marks racing ticks, quorum | `NodePower` |
| Create, add, remove, destroy, restore (`create.go`, `addnode.go`, `remove.go`, `destroy.go`, `etcd.go`) | the recorded cluster; disks, etcd data | plan, parallel install, bootstrap, reset, recover | partial failure, a second etcd, an interrupted run that looks like another one | `Lifecycle` |
| Converge (`converge.go`, `apply.go`, `upgrade.go`) | nothing between runs but the record | plan from what nodes report; config, Talos, Kubernetes, platform | an interrupted phase, versions in between | `Converge` |
| Platform (`platform.go`, `internal/tofu`) | OpenTofu's state, in a file or in the cluster | move, plan, apply | an OpenTofu that outlives its kubit, a state read twice | `Platform` |
| Address moves (`address.go`, `etcdpeer.go`, `endpoint.go`) | recorded address, Talos try mode, etcd peer URL, endpoint | try, find, confirm, reboot, repair, record | a 3-minute rollback racing the confirmation, a death at each step | `AddressMove` |
| Repository and secrets (`internal/repo`, `internal/sops`, `internal/fsx`, `internal/api/secrets.go`) | files, kustomizations, `.sops.yaml`, file locks | new, edit, move, delete, connect, init | handlers and editors racing, a death between two files, keys that leak | `RepoEdits` |
| Machine store and discovery (`internal/store`, `internal/watch/candidates.go`, `internal/api/discover.go`) | rows by MAC or `ip:` key | scan, reprobe, ping, upsert, unassign | stale probes, two keys for one machine, addresses that move | `Machines` |
| PXE server (`internal/pxe`, `cmd/kubit/pxe.go`, `internal/api/pxe.go`) | boots and their index by address; a run file | DHCP, script, kernel; the daemon following | a full table, leases given again, a server that restarts | `NetBoot` |
| `cluster.yaml` (`internal/config`, `internal/repo/edit.go`, `spec.go`, `internal/api/edit.go`) | the file | parse, default, validate, design, add, remove, move, upgrade | defaults that depend on each other and on the number of nodes | `ClusterSpec` |
| Certificates, webhook, git, rendering of configs | files | sequential I/O and pure functions | - | - |

What makes each correct, in one line: the Lease keeps applies apart; what a user reviewed is
what the run finds, and no edit is forgotten; a browser never counts what it missed; alerts open
on confirmed evidence only and tell of what is new; no control plane is rebooted on top of an etcd
member that a check could have seen down and every cordon goes back to its owner; a cluster has one etcd, whatever died; applying again always
finishes what an interrupted apply began, and then finds nothing to do; a node keeps no
address it was not reached at; no secret is lost, overwritten blindly or readable to another
cluster; a machine has one row, and a declared one boots its own disk.

How they meet: an apply (console or CLI) takes the Lease, the planner does not plan while it
is held and plans again afterwards, the watcher keeps quiet meanwhile; the apply takes nodes
down one at a time; everything that changes is published on the live feed. Discovery lists
machines that booted from the network; the console turns them into `cluster.yaml`; a run
installs them; from then on the PXE server leaves them alone (module `Enrol`).

## Modules

A module starts with the files it models. Histories (variables that exist for a property
only) are marked so where they are declared. `MC<module>` gives an instance for TLC.

### ApplyMutex, ApplyLease, ApplyLeaseProofs

`ApplyMutex` is the lock one wants: a process is out, the owner, or overdue (it outlived the
Lease and was not told). `ApplyLease` is lock.go call by call: `Create`, then on
AlreadyExists `Get`, the test `Held`, `Take` (an Update that the apiserver refuses unless the
object is the one read: the variable `fresh` is the set of processes whose last Get still is
current); the release is `ReleaseGet` and `Release`. Every write has a form whose answer is
lost; the API comes and goes (`ApiChanges`); a process crashes anywhere, leaving its pid
unused or reused (`PidReused`), which is what `orphaned` looks at. Time is a number of ticks;
the model keeps the ages the code compares, saturated at `Duration`. A `LockApply` that
cannot ask the API goes on without a lock (lock.go:48): such a process is `unlocked` and
outside what the Lease promises.

*Run* `apply_lease`: three processes, two on one host, `Duration` 2, calls of at most one
tick: enough for a process to read the Lease, for it to expire or to be released and taken by
a second, and for a third to take it over before the first writes. It checks mutual exclusion
until expiry, that a live holder loses the Lease to nobody, that a dead one's Lease lapses
(liveness), and the refinement `ImplementsMutex`.

*Fairness*: clocks advance and calls end (every call has a deadline). An apply need not end,
the API need not come back. *Assumption*: the clocks of the hosts agree (`held` compares the
time of one with what another wrote).

### Planner, PlannerProofs

The slot of one cluster and every goroutine that touches it, one action per region the locks
or channel operations separate: `planLoop`/`planOnce` (the places of `loop`), the goroutine of
`afterRelease` (`waiter`), `handleApply` and the run it starts (`pc` of each client), a CLI
apply, edits, the repository watch and drift. A plan is the pair it is a function of, the
repository's content and what the cluster runs; a hash is the plan. The Lease is what
`ApplyLease` shows it to be: one holder, freed by release or expiry; `"left"` is a Lease in this
daemon's name that no run will release (the answer to its take was lost, or the release failed).
A call that fails may let the run go on without a Lease (lock.go:48) or end it.

*Run* `planner`: two users, two contents, two events (edits, applies) and an API that may
fail; every pair of {edit, console apply, CLI apply} overlaps there. `ReviewStands`: when a run that
holds the Lease begins its work, the cluster and the `cluster.yaml` it loaded are those of the plan its
user reviewed, although the comparison was made steps before and other users, the CLI, edits and newer plans
go on meanwhile; it is what `startRun` and the Lease are for. No edit is left unplanned, and the summary
settles (both liveness).

*Fairness*: goroutines run, the Lease is freed in the end (checked of `ApplyLease` when its
holder dies; a CLI apply is assumed to end within its hour), the repository watch reports edits, a console
is open and `planDrift` kicks every half hour. Users owe nothing. The drift is what rescues a wake-up that
was lost (Disagreements, 3): without it both liveness properties fail, so they say that the planner
recovers, not that it loses nothing.

### LiveFeed

The hub's ring and subscribers, the handler's writer, the connection, and live.ts. A message
is its number. `wire` holds what was written and not read; a lost connection drops it. The
history variable `sure` says up to which number a browser really has everything; the
properties compare `lastSeq` with it. The last message of a daemon that stops ("stopped") is
numbered by the hub, but live.ts shows it without counting it.

*Run* `live_feed`: a ring of 3, channels of 2, 5 messages, 2 daemons, 2 lost connections:
more messages than the ring holds, and a restarted daemon that can pass the browser's last
number.

*Fairness*: a browser goes on connecting and reading, the handler goes on writing; publishers
owe nothing. Liveness is claimed for a daemon that stays up, and for a browser that has seen a
message (see Disagreements, 2).

### Watcher, WatcherProofs

One cluster: `tick` with each branch of its switch as an action (skipped, offline, off, gap,
quiet, judged), `confirm` with the code's field names, alerts (`alert`), the observer, and
`Track`, which other goroutines call whenever the repository is loaded. What a tick reads is
any `Status` the fields allow. History: how many judged ticks in a row saw each fault (`held`), and whether it
is one of the daemon's start, one that came back or a new one (`origin`). `Seed` is left out: the daemon
makes a confirmer at its first tick, before any alert is open, and both end with the process.

*Run* `watcher`: two nodes, three ticks to confirm, as in the code; `confirm` counts every
kind of fault by itself, so two kinds stand for all: `node.notready`, which only the API shows, and
`api.unreachable`, which hides it. `WebhooksTellNews` says that an alert of a fault that was there at the
daemon's start and never gone opens silently, and one of a fault that was not there with a webhook,
however many pauses, blind ticks and applies came before it was confirmed. Which branch a tick
takes is not assumed, and nothing is claimed to happen in the end. Nothing is claimed of closing: what an
evaluated tick closes is decided on that tick's facts alone, and an API outage closes what it hides
(Disagreements, 4).

### NodeCycle, NodeCycleProofs

`RestartNodes` and `UpgradeTalos` over the cycle of nodeops.go. `run` is the run that goes on
(the Lease lets one); its `at` is the next call. Each call may fail, lose its answer or be the
last one before kubit dies (`Ends`, `Abandon` and the "`\/ Abandon`" of a write). The machine has
`up`, `etcd`, `version`, `installed` (the inactive boot slot); the Node object `ready` and `cur`
(whether it shows the running boot), because Kubernetes goes on calling a node Ready for some
40 s after it went. Users cordon and uncordon at any time; `asked` remembers whose cordon it is.

*Run* `node_cycle`: three control planes (the smallest number that tolerates one being down),
two runs, so that one dies anywhere and the next resumes, one kubectl command, before or during a
run, and one machine that fails by itself at any point (`Fails`) and boots again. Control planes are
interchangeable (symmetry; no liveness is checked). `OneMemberDown`: a control plane is rebooted only if
every member was healthy at the last check before its cordon; a member that failed while Talos was
installed, that an earlier run left down or that has not joined again stops the run. `lost` holds the members that
failed since that check: nothing looks at etcd again during the minutes of the drain, so the reboot may come on
top of one of those (Disagreements, 16).
Deadlock is not checked: when the bounds are used up the system stops.

*Abstractions*: a reboot is immediate once accepted; the check of
`/var` is left out. `OneMemberDown` is stated for drained reboots: the reboot a final machine
config may ask for is not preceded by an etcd check.

### NodePower, NodePowerProofs

A shutdown from the request to the last node. `Request` is the handler: it decides on the
watcher's last `status`, however old; `Begin` decides again with the Lease held. A shutdown of some
nodes goes node by node (`Take`, `Check`, `MarkOff`, then the node's `task`); one of every node
marks all of them, shuts the workers down in parallel and, if none failed, the control planes
(`AllMarked`, `WorkersDone`, `ControlPlanesDone`). `task[n]` is where shutdownOne is with node n:
`Shutdown`, `WaitDown`, `UnmarkOff`. `mem` is `Manager.off` (its false is "marked", its true "off"),
`mark` the annotation of the Node object as offMarked reads it. A watcher's tick first probes
(`TickReads`) and later compares what it read with the marks (`TickApplies`, offSeen); everything
else may happen in between. Machines drain before they go down, crash, boot; the API answers with a
majority of the control planes and its endpoint.

*Run* `node_power`: three control planes, one of them the endpoint, and a worker; three
shutdowns, so that one is decided on what two others left; one piece of trouble (`MaxTrouble`):
a crash, a boot, a restart of the daemon, a missed probe, a lost answer or a failed call.

*Abstractions*: markOff and unmarkOff are one step each, and the annotations are read when the
marks are compared; a failure of the API between is the failed patch. Power on sends packets and
changes no state of Kubit; the machine that follows is `Boots`. The snapshot before a whole
shutdown only warns; the Lease, released before the control planes go, is left to `ApplyLease`.
Two exceptions are part of the properties: a node that goes down after its run gave it up is not
counted by `OnePartialDown`; `early` names the nodes a tick missed while they drained, whose
mark in memory is lost, so that only the annotation keeps them quiet.

### Lifecycle, LifecycleProofs

A cluster from nothing to its destruction: what the plan makes of what answers (`PlansNew`,
`PlansResume`, `PlansConverge`, with `appliedSpec` as `Applied`), and the runs it becomes,
step by step: create (save, preflight, installs in parallel, re-imaging, bootstrap, the waits), converge
with `Adds` and `Removes`, destroy, restore. `data[n]` is the etcd cluster whose data a control
plane holds, `peers[k]` the members of cluster k, so a second founding is visible as a second k;
`row` is the cluster as each store has it (the CLI's and the console's are different processes).
A run may die between any two steps (`Breaks`) and is repeated by its user; nodes and the API's
address go and come back.

*Run* `lifecycle`: three starts (a new cluster, one whose first control plane is yet to come,
one of four control planes that shrinks), one edit of `cluster.yaml` (of four: a node is swapped, one
comes, one goes, two go), two etcd clusters, one piece of trouble.
`OneEtcd` says that no two declared control planes hold data of different clusters,
`BootstrapsOnDeclaredImage` that etcd is founded only when every node runs the declared image,
`CreateCompletes` (liveness) that repeating an interrupted create ends in the cluster.

*Fairness*: a run takes its steps, members join, kubelets register, machines come back, the API's
address comes back; the user repeats a run that failed until it is through (strong fairness of the
start: it is refused in between). *Assumptions*: the cluster has a VIP; a restore requests all
its resets before the first machine is back; an interrupted restore or destroy is finished first
and only a cluster as declared is restored or destroyed (`Careful`; without it see Disagreements, 9).

### Converge, Platform, ConvergeProofs

An apply of a running cluster. `node[n]` is what a node runs and has on disk: Talos, image, the
inactive slot, kubelet, config, cordon. The plan (`Changes`) compares `Applied`, what appliedSpec
makes of the nodes, with `Declared`; the phases config, Talos (install, drain, reboot, back),
Kubernetes (kubelets one by one, manifests, the record) and platform then run in order. One
node's drain and reboot are one step each here, in detail in `NodeCycle`. `Platform` is EXTENDed: the state in the
repository's file or in the cluster, its lock and serial, the saved plan that is stale when the
serial moved, and an OpenTofu that goes on when its kubit died (`Orphan`). Versions are small numbers; `Supports`
is which Kubernetes each Talos supports.

*Run* `converge`: a control plane and a worker; every pair of declarations over 2 Talos and 3
Kubernetes versions from three starts, a config that reboots, an image that changes, add-ons that
come and go, an old state file; two runners, three pieces of trouble. `DoneIsDeclared` and
`SecondApplyFindsNothing` hold for what earlier runs left behind; `StateKnowsAddons` for two
OpenTofu at a time. *Run* `converge_image` is the disagreement LonghornOnItsImage.

*Assumptions*: kubelets take their version before the next phase looks at them (`Prompt`); a
staged config is folded into the final one; a node that rebooted into the image of a
withdrawn upgrade is exempt (`odd`). The trouble bounds the users' cordons too.

### AddressMove

address.go for every node: `Kind` (record, release, move, pin, retune), the order of the nodes,
`Refused`, and the run: try the config, find the node at its new address, confirm there, reboot,
repair its etcd peer URL, record the ip. Talos takes the config on trial (`TakesHold`) and rolls
it back after 3 minutes unless it was confirmed. `bad` are nodes whose declared addressing cuts
them off, `taken` those whose new address a stranger answers at.

*Run* `address_move`: three control planes and a worker, two of which change in every way
`cluster.yaml` can say it, with or without a VIP, one of them perhaps badly: 642 initial states;
three deaths, early rollbacks, power cuts, strangers or new leases. `Settles` (liveness) says that
applying again gets every node where it is declared, with its ip, peer URL and endpoint.

*Fairness*: the run takes its steps and the user applies again; Talos rolls back and machines
boot; a stranger leaves in the end. *Assumptions*: a run starts only when no try waits for its
rollback (`Patient`, docs/operations.md says to wait 3 minutes); the endpoint's holder is the
first declared control plane or the VIP; a member with an old peer URL still reports healthy;
no control plane loses power while another is away, nor between the check of etcd and the reboot it lets
through (Kubit looks once, Disagreements, 16); DHCP gives another address on release.

### RepoEdits, RepoEditsProofs

The handlers that write the files of a repository, each at one of its steps (`job[w].step`):
secrets (new, edit, delete, move), cluster.yaml (edit, the CLI's ip), connect, "Let Flux
decrypt", init. A file is a name (which secret), a revision and the keys it can be read with; a folder's kustomization
is the set it lists; rules are ordered as in `.sops.yaml`, and the first that matches counts. File locks,
fingerprints, the atomic write and the errors between two files are as in the code. Editors save, and the
daemon dies, at any step (`trouble`).

*Run* `repo_edits`: two workers, three requests, ten settings of files, folders and rules (see
MCRepoEdits), one piece of trouble. A kustomization that goes while a request waits for its lock fails that request (`LoseList`): its file stays, unlisted,
and the user is told; such files are excused of `Listed`. Nothing written is lost, nothing is overwritten that the user
did not see, no key leaks, kustomizations list what is there, every request is answered (liveness).

*Fairness*: a handler takes its steps, and gets a lock that is free again and again (Go's mutexes
are fair). *Assumptions*: an editor's save does not fall between read and rename; opposite moves
are not among the settings, nor is a secret that is made in a folder while the last other one is deleted
(`Listed` fails then; see Disagreements, 11, for both); "Let Flux decrypt" is asked for connected
clusters only. The deploy key that Connect makes for a private repository is left out.

### Machines, NetBoot, ClusterSpec, Enrol

`Machines` is the table: `Upsert`, `SetNodeState`, `Unassign`, the minute tick (scan, then
reprobe), scans on demand, the ping with its counts, late answers; what a scan, a probe or a ping read is
stored in a later step (`Deliver` and the loops' own). `NetBoot` is the PXE server's list of boots and its index by address, and the
daemon that follows it through its run file. `ClusterSpec` has no state: `cluster.yaml` as a
record, its defaults, `Valid`, and the edits of console and runs as operators. `Enrol`
composes them with the machines themselves (firmware, disk, DHCP): what DHCP and the scripts decide depends on the
file the daemon last read, what the table lists on which machine answers where, and what a run installs on both.

*Run* `enrol`: four settings, each with what moves in it (`focus`) and budgets (`left`): two
machines that move under all loops; machines that join and leave a cluster with a VIP by runs
beside the loops or an edit; three machines booting through PXE with time, an unreadable file and
restarts of the server; two console edits in a row on five kinds of files. The server keeps 2 boots (512 in
the code) and the daemon tries twice (5).

*Fairness*: the loops' steps, late answers and the following daemon; users and machines owe
nothing. *Assumptions*: one cluster; a handler's edit is atomic (its hash is checked in
`RepoEdits`); a removed machine comes back in maintenance; iPXE's second DHCP request and TFTP are part
of the offer. Run steps are those of `Lifecycle` in short.

## Runs

| Run | Expect | Bounds | States |
|---|---|---|---|
| `apply_lease` | pass | 3 processes, 2 hosts, Duration 2, CallTicks 1 | 52,224 |
| `planner` | pass | 2 users, 2 contents, 2 events | 392,880 |
| `live_feed` | pass | ring 3, buffer 2, 5 messages, 2 daemons, 2 losses | 45,508 |
| `watcher` | pass | 2 nodes, 2 kinds, 3 ticks | 11,036 |
| `node_cycle` | pass | 3 control planes, 2 runs, 1 kubectl command, 1 failure | 9.2 million |
| `node_power` | pass | 3 control planes, 1 worker, 3 shutdowns, 1 trouble | 5.6 million |
| `lifecycle` | pass | 4 control planes, 1 worker, 2 etcd clusters, 1 edit, 1 trouble | 394,323 |
| `converge` | pass | 2 nodes, 2 runners, 5 serials, 3 troubles | 551,684 |
| `converge_image` | violation | as `converge` | - |
| `address_move` | pass | 3 control planes, 1 worker, 3 troubles | 281,742 |
| `repo_edits` | pass | 4 files, 3 folders, 2 workers, 3 requests, 1 trouble | 144,824 |
| `enrol` | pass | 4 machines, 8 addresses, see above | 280,383 |

Each module's `TypeOK` holds at the same bounds. Every property of a passing run has a mutant
in PROJECT.json: a variant of one mapped definition (beside the original, marked "Variant") that
breaks it. Deadlock is not checked where a settled system stops: everywhere but in the Lease,
the planner and the watcher.

## Disagreements between code and docs

One is a run; the others were met while modelling, are exempted by the assumption or condition
named above, and are listed so that a reader knows what the properties do not say.

1. `converge_image`: the plan takes the first member's image for that of all (converge.go:581). A
   re-image that stopped after its first node is not continued and Longhorn is installed anyway;
   docs/operations.md:138-139 says a changed extension set re-images every node.
2. `lastSeq` 0 is not sent as `?since=` (live.ts:25): a browser that connected before the first
   message gets neither replay nor resync until the next message shows the gap (docs/console.md:142).
3. A Lease that is taken again between the waiter's kick and its removal from `releases` gets no
   waiter (planner.go:175); the console shows "applying" after the release, until something else
   kicks the planner (docs/console.md:77-78).
4. An API outage resolves an open `node.notready` (confirm.go:115), and a repository loaded during
   one makes the cluster "bootstrapped": its ticks are skipped and open alerts stay (loop.go:252);
   docs/operations.md:241-243 says alerts stay open while they hold and resolve themselves. A fault of the
   daemon's start that ends unseen, in a pause or a quiet apply, keeps its quiet mark (confirm.go:42, 60-65), so when
   it comes back its alert opens without a webhook (docs/operations.md:251-252); a fault that the API hid at the start
   counts as new.
5. The annotation an interrupted run left makes Kubit remove a user's later cordon
   (nodeops.go:199; docs/operations.md:162-163); an upgrade interrupted between the last reboot and the uncordon is not
   resumed and the node stays cordoned (upgrade.go:81, precheck.go:54).
6. With one of two control planes gone and replaced in `cluster.yaml`, nothing that is declared
   answers: the plan resumes a create and founds an empty etcd (converge.go:187; docs/operations.md:82).
7. The console's record of a declared node that has not joined makes AddNode refuse it as already
   in the cluster (addnode.go:16; docs/operations.md:91, 132).
8. A removal interrupted after the Node object went is never planned again (docs/operations.md:94).
9. After an interrupted restore, a removal or a swap of a control plane leaves members of two etcd
   clusters; a restore or destroy with the API down leaves undeclared members alone.
10. Converge: a rerun's config step generates configs with the lowest kubelet and takes upgraded
    kubelets back (converge.go:564-601); a run that dies between the last kubelet and `SyncManifests` leaves
    them unsynced though upgrade.go says to run again; `ApplyConfigs` reboots a control plane
    without asking etcd (apply.go:29-47); an OpenTofu killed after its WaitDelay leaves its lock.
11. Repository: two moves A to B and B to A wait for each other (secrets.go:300, 321); Delete prunes a
    folder without its lock (kustomize.go:212-214), so a concurrent New may go unlisted; a Move into
    a folder without a kustomization, or the Delete of a Move's target, leaves listings
    wrong (console.md:98, 191); deleting a cluster's last secret removes the kustomization Connect wrote; a
    `kubit init` that dies after the bundle cannot be repeated (repo.go:195); locks are per process,
    so a CLI that saves an ip beside a console edit can lose it.
12. Address moves: a run started while a try is pending records what Talos then rolls back
    (address.go:100-104; docs/operations.md:113); with another holder than the first control plane
    an interrupted move of the endpoint cannot be resumed (converge.go:419-424;
    docs/operations.md:118-119); peer repairs are skipped whenever a control plane moves and their
    errors ignored (address.go:132, 149-158); a node whose DHCP reservation is its static address cannot be
    released (address.go:315); a pin or retune that cuts the node off may be confirmed; the peer
    repair's ten minutes of retries use a context of one call (address.go:372).
13. Machines: a probe read in maintenance and stored after the installation lists a member as
    "configured" (machines.go merge; docs/operations.md:11-13), and while its row says maintenance the
    disk layout of an installed node can be edited (storage.go:135; docs/console.md:45-46); a machine that went off and
    lost its address stays "maintenance" without one (machines.go:90-98); SetNodeState marks
    whoever has the address by now (candidates.go:83).
14. PXE: a machine that was declared and power-cycles before its installation is told to boot
    its disk and never comes back to maintenance; an HTTP request from an unknown address is put on the
    latest boot without one.
15. cluster.yaml: the default of allowScheduling flips at the sixth node; a machine can be declared
    in two clusters within the reload window (edit.go:196); NextHostname gives the name of a
    machine that is still a member (design.go:132); RemoveNode of the control plane that the endpoint names is not refused.
16. etcd is checked before the installation and again before the cordon (nodeops.go:62, 73; precheck.go:113: "every
    member must be healthy before a control plane goes down"), and not during the minutes of the drain: a member that
    fails then is the second one down. An address move checks once, before the try (address.go:232).

## Proofs

Eight modules are proved about, for every value of their constants that the named assumptions
allow. Each `<module>Proofs` has the same shape: the parts of the inductive invariant `IInv`, each
with what it says; lemmas about the operators; one lemma per action (`<Action>Keeps`); `InitIInv`
and `IInvStep`; and the theorems, which follow from `Invariance` by temporal logic. Every `IInv` was
checked by TLC on the instance of its run before it was proved. `TypeCorrect` is a theorem of each.

**ApplyLeaseProofs**: `Exclusive` (mutual exclusion until expiry), `LiveHolder` (nobody takes the Lease
from a live holder) and `Refinement` (every step of the protocol is a step of `ApplyMutex` or
leaves it alone). Mutual exclusion is not inductive: whether a second process may enter depends
on what it read and whether that is still current. `IInv` adds that (a) the owner is the one the
Lease names, and the age of its RenewTime is the time since it took it; (b) a process about to
take the Lease with a current read found a holder that is dead or expired; (c) a process about
to release with a current read found itself; (d) a pid is its process's own exactly while that
lives; (e) calls are shorter than the Lease; (f) before the first Create nothing
is held or read. (e) is where `CallTicks < Duration` is used: the `now` written by `Take` was read before
the Create, so a longer call could write a RenewTime that has expired already.

**PlannerProofs**: `ReviewHolds` (`ReviewStands`) and `OneRunAtATime`, the claim of `startRun`. What a run compared
under the Lease stays so until its work begins, because nobody else changes the cluster: another console apply
is past its start only if this one is not (`OneRun`), and the CLI needs the Lease. A run that lost its Lease, or
never had one, is outside the property: the code goes on without a Lease when the API fails, and another apply may come between
(hazard at lock.go:48).

**WatcherProofs**: `Alerted`, `Confirmed`, `News`. `IInv` says that the count of the confirmer is
the history `held`, that its set `open` is the store's open alerts, that what is counted is open, and, for `News`, that the quiet marks
hold every fault of the start and no new one (`QuietIsOfStart`), which a pause must not change.

**NodeCycleProofs**: `Upgraded` (an upgrade that ends has every node upgraded), `OneDown`,
`CordonsReturned`. An upgrade's promise needs `OldAreBehind`: an old node is still in front of the run or
under it, and is among those the run found behind when it was planned. `OneDown` rests on
`OthersFailedSince`: what the last etcd check saw holds until the reboot for every member but those that failed by
themselves since, so a failure before that check stops the run. `CordonsReturned` rests on `CleanIsTheirs` and `UsersBearsNoMark`.

**NodePowerProofs**: `OneDown` (`OnePartialDown`), `MarksTrue`, `MarksStay`. `OneAtATime` bounds what a run past its
check may add to; `AheadIsFresh` says that nodes which a shutdown of everything has marked but
not begun are forgotten by earlier runs; `SilentIsDown` is why a tick that read a node before its
mark was made cannot take the mark back.

**ConvergeProofs**: two invariants. `AddonsInv` is about OpenTofu: who may be between commands, that the
repository's file goes before a command runs, what a saved plan that is not stale says, and that the state is
the cluster but for the change that is being saved; it gives `AddonsAreKnown` for any crashes
and orphaned OpenTofus, with no assumption. `NodesInv` follows the phases (which nodes are as
recorded, which as wanted) and gives `Converges` and `Idempotent` under `Prompt`, the assumption the
run makes too: without it a kubelet may still run its old version when the last phase looks.

**RepoEditsProofs**: `NoneLost`, `KeysKept`, `NoneBlind`, `ListedWhereKept`. `NotLost` strengthens `NothingLost`: a kept secret is in a file
that no move is about to drop. `RulesOk` says that the rules are sound for lists of any length: a
cluster's own rule stands before those for everything and names only it, the bundle's rule names the operator,
and a rule for everything that names a cluster has a bundle's rule before it; `AddRecipientIs`,
`AddClusterRuleIs` and `InitRulesSound` show that each way to change the rules keeps this, splitting
included. `JobsOk` says what a handler still holds: the lock and version it read, and, between
encrypting and creating, keys of the target's folder. Assumptions beyond those of the run: clusters are
finitely many, are not called "bundle", "all", "operator" or "none", and a repository that `kubit init` makes has new and
moved secrets in the folders of its one cluster only (init's rule for everything names that cluster's key).

`Listed` has an invariant of its own, `LInv`: a file is in its folder's list or the handler that made it
is yet to list it (`FileIsListed`); an entry is of a file or of one whose handler is yet to take it away
(`EntryIsThere`); a handler that read a list holds its lock and the list is as read (`OwnLocks`); and nobody has seen
a version that is about to be created or that is not listed yet (`AddedIsNew`, `NewVersions`,
`CopiesUnseen`), so that no delete gets between a file and its entry. `ListedWhereKept` gives the property for
every file whose folders list other files too (`Steady`), for any requests, deaths and editors, where no move
begins at the end of another (`MovesApart`). Both hypotheses are needed, TLC shows: where a folder comes and goes a delete prunes it under
a new file (Disagreements, 11), and with three moves in a chain a version that a death left in two places comes back to a
place where a delete that saw it still waits, which removes it before it is listed. `LInv` was also checked by TLC with
four requests and two workers and with three workers (0.7 and 0.9 million states).

**LifecycleProofs**: `BootstrapsOnDeclaredImage` (`OnDeclaredImage`) whatever the user does, from `RInv`: a run is about
the nodes that are declared while it goes on, what it was begun for is not yet done (`JobFits`), and imageAll
leaves every node it is past on the declared image (`ImagesFit`). `OneEtcd` (`OneEtcdCluster`) for any number of
control planes, edits, troubles and etcd clusters, from `EInv`: all data there are are of one etcd (`OneData`); who has
data is a member of it (`HoldersArePeers`), and unless a destroy or a restore is unfinished every member has data
(`PeersHold`); what a restore has wiped stays empty until it recovers etcd on the first control plane
(`RestoreFits`); and etcd has an anchor (`Anchored`): either the first declared control plane, which a create
would bootstrap, has data if any has (`FirstSafe`), or every control plane that is a member is declared, so that
the plan sees it answer and does not create (`MembersDeclared`). `CreateNeverRefounds` is that anchor as a create finds
it. Each anchor is lost by edits that the code accepts, so two hypotheses are made. `Careful` is that of the
run. `EditsKeep` says that the edits of `cluster.yaml` all keep the first control plane, or all keep
every control plane, or that there is one edit only, of either kind. The edits of the run are of the last form. Without
it a second etcd is founded: control planes 2, 3 are declared anew as 1, 2, 3 and, before 1 has
joined, as 1, 2; or one that was taken out of `cluster.yaml` and left Kubernetes but was never reset (see
Disagreements, 6 and 8) is still a member of the old etcd when the rest is gone. `EInv` was also checked by TLC with
two edits, two troubles and three etcd clusters, once for each of the first two forms of `EditsKeep` (7.4 and
2.8 million states).

What the proofs changed in the models: definitions that chose with overlapping `CASE` arms (`Converge!Open`,
`AddressMove!Kind`, `RepoEdits!Encrypt`) read as `IF` / `ELSE IF` now, because TLA+ leaves open
which of two true arms is taken while TLC takes the first; the order is the code's. `TypeOK` is complete
in the modules above (it left the fields of runs and handlers open), which made some assumptions on constants explicit:
`Converge` needs an order over declared nodes, `RepoEdits` that only the requests about SOPS files
make, move or delete files under `Path` and that the way from a file to the top is two folders long, `Lifecycle` that nodes are finitely many, that each `cluster.yaml` names a
control plane and that the members it starts from are declared in it. A folder that lists other files is
listed in its own parent from the start in `RepoEdits`. No run changed its answer.

Model-checked only:

- liveness (`CrashedHolderLapses`, `SummarySettles`, `EditIsPlanned`, `CatchesUp`, `CreateCompletes`, `Settles`,
  `RequestsAnswered`, `ListSettles`, `PxeIsFollowed`): it needs fairness and ENABLED, beyond this prover;
- `LiveFeed` (`NothingSkipped`): what a reader filters is a `SelectSeq`, recursive; `AddressMove` (`OneAway`, `KeepsOnlyProven`,
  `RecordsWhatIsKept`): the plan's order is built with `FlattenSeq` and `SelectSeq`; `Machines` (`OneRowPerAddress`): `Reload` is a fold.
  What a fold or a filter computes for every input needs induction over data;
- `Enrol` with `NetBoot` (`BootsAreIndexed`, `DeclaredBootTheirDisk`, `EditsStayLocal`, `EndpointIsHeld`): they build on
  `Machines`, whose list is such a fold;
- `RepoEdits!Listed` in folders that come and go, for the settings of the run, which leave out the race of Disagreements, 11.

## Not modelled, and why

Rendering of machine configs (generate.go and its templates) is pure and has golden tests; certificates,
git and the webhook are sequential I/O; pages of the console render what the stores hold, and the
stores behind the live feed (store.ts: a resync's answer that was read before a frame overtakes it) and the order in which
two changes of a row or of a summary are published need a model of the browser's stores that the runs do not
have. A second cluster in `Watcher` (the observer's counter is shared) is left out. Metrics,
versions, samples and logs never decide anything that is modelled. Data disks, patches,
taints and authentication in `cluster.yaml` are data no property tells apart.

## Plan

The models are complete as far as the list above goes; what is left is proof. In order:

1. `NetBoot` for itself: `BootsAreIndexed` over the tracker's operators, then `DeclaredBootTheirDisk`.
2. `LiveFeed`, `AddressMove` and `Machines` stay with TLC unless their folds are replaced by functions.
