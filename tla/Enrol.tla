------------------------------- MODULE Enrol --------------------------------
(***************************************************************************)
(* From a machine's first boot to a node of a cluster: Machines, NetBoot   *)
(* and ClusterSpec together.  Machines boot from the network or their      *)
(* disk, discovery lists them, the console designs a cluster from them or  *)
(* adds them (api/edit.go), the daemon loads the file again, a run         *)
(* installs what it declares, and from then on the PXE server leaves the   *)
(* machine to its disk.                                                    *)
(*                                                                         *)
(* What a run does beside is in Lifecycle, Converge and AddressMove; how   *)
(* files are written, in RepoEdits.                                        *)
(***************************************************************************)
EXTENDS Machines, NetBoot, ClusterSpec

CONSTANTS
    Wanted,    \* the static addresses the console may ask for
    Scenarios  \* what there is at the start and what may happen: see Init

ASSUME SameAssumption == Guest = Machine /\ Lease = Subnet /\ Place = Addr /\ Wanted \subseteq Place

VARIABLES
    disk,     \* what a machine's disk has: "empty", "image", "config"
    fixed,    \* the static address of that config, or Dhcp
    chain,    \* how far a network boot is: "none", "offered", "script"
    yaml,     \* cluster.yaml, or NewFile as long as there is none
    readable, \* whether it parses (an editor may be half way)
    loaded,   \* the file as the daemon has it
    run,      \* the node a run is installing, or NoNode
    asked,    \* the last edit of the console: [op, hosts, version]
    sure,     \* the machines declared without a gap since they were powered on
    focus,    \* what moves: machines, loops; "closed" (kubit pxe --closed)
    left      \* what may still happen, by kind

machineVars == <<disk, fixed, chain>>
fileVars == <<yaml, readable, loaded, asked>>
enrolVars == <<machineVars, fileVars, run, sure, focus, left>>
vars == <<tableVars, bootVars, enrolVars>>

Spends(kind) == left[kind] > 0 /\ left' = [left EXCEPT ![kind] = @ - 1]
Declares(s, m) == m \in Macs(s)
NodeOf(s, m) == CHOOSE n \in Node(s) : n.mac = m
NoNode == [mac |-> Nobody]
Vips == {loaded.vip} \ {Unset}

-----------------------------------------------------------------------------
(* Machines boot. *)

KeepsTable == UNCHANGED <<rows, loops>>
KeepsFiles == UNCHANGED <<fileVars, run, focus>>

PowerOn(m, a) ==
    /\ Spends("power") /\ m \in focus
    /\ mode[m] = "off" /\ a # Vip /\ \A x \in Machine : at[x] # a
    /\ fixed[m] \in {Dhcp, a}
    /\ at' = [at EXCEPT ![m] = a] /\ mode' = [mode EXCEPT ![m] = "booting"]
    /\ sure' = IF Declares(yaml, m) THEN sure \cup {m} ELSE sure \ {m}
    /\ KeepsTable /\ KeepsFiles /\ UNCHANGED <<bootVars, machineVars>>

PowerOff(m) ==
    /\ Spends("power") /\ m \in focus
    /\ mode[m] # "off"
    /\ at' = [at EXCEPT ![m] = Nowhere] /\ mode' = [mode EXCEPT ![m] = "off"]
    /\ chain' = [chain EXCEPT ![m] = "none"]
    /\ KeepsTable /\ KeepsFiles /\ UNCHANGED <<bootVars, disk, fixed, sure>>

\* Its disk may hold a system with a config, one without, or none.
BootsDisk(m) ==
    /\ mode' = [mode EXCEPT ![m] =
                  CASE disk[m] = "config" -> "talos" [] disk[m] = "image" -> "maintenance" [] disk[m] = "empty" -> "off"]
    /\ at' = IF disk[m] = "empty" THEN [at EXCEPT ![m] = Nowhere] ELSE at
    /\ chain' = [chain EXCEPT ![m] = "none"]

Decision(m) == Decide(m, readable, Macs(yaml), "closed" \in focus)
Booting(m, step) == mode[m] = "booting" /\ chain[m] = step
BootStep == KeepsTable /\ KeepsFiles /\ UNCHANGED <<disk, fixed, serving, feed, sure, left>>

AsksPlain(m) ==
    /\ Booting(m, "none")
    /\ IF serving THEN SeesPlain(m) ELSE UNCHANGED tracker
    /\ BootsDisk(m)
    /\ BootStep

\* The DHCP offer, ...
AsksPXE(m) ==
    /\ Booting(m, "none")
    /\ IF serving /\ Decision(m) = "talos"
       THEN SeesDHCP(m) /\ chain' = [chain EXCEPT ![m] = "offered"] /\ UNCHANGED network
       ELSE BootsDisk(m) /\ UNCHANGED tracker
    /\ BootStep

\* ... the script, for which the server decides again if it is told the MAC
\* (iPXE tells that of its first port, whichever it boots from), ...
AsksScript(m) ==
    /\ Booting(m, "offered")
    /\ \E told \in BOOLEAN : IF serving /\ (told => Decision(m) = "talos")
       THEN SeesHTTP(at[m], "ipxe") /\ chain' = [chain EXCEPT ![m] = "script"] /\ UNCHANGED network
       ELSE BootsDisk(m) /\ UNCHANGED tracker
    /\ BootStep

\* ... and the kernel, which anyone gets.
AsksKernel(m) ==
    /\ Booting(m, "script")
    /\ IF serving
       THEN /\ SeesHTTP(at[m], "kernel")
            /\ mode' = [mode EXCEPT ![m] = "maintenance"]
            /\ chain' = [chain EXCEPT ![m] = "none"]
            /\ UNCHANGED at
       ELSE BootsDisk(m) /\ UNCHANGED tracker
    /\ BootStep

Others == UNCHANGED <<tableVars, machineVars, fileVars, run, sure, focus>>
TimePasses(d) == Spends("time") /\ Ages(d) /\ Others
Serves == Spends("pxe") /\ (ServerStarts \/ ServerStops) /\ Others
Watches == FollowNext /\ Others /\ UNCHANGED left

-----------------------------------------------------------------------------
(* The daemon's loops, on a network that moves. *)

Loop(name, step) == name \in focus /\ step /\ UNCHANGED <<bootVars, enrolVars>>
Reachable(m) == Declares(loaded, m) /\ at[m] \in Places(NodeOf(loaded, m))

Looks ==
    \/ Loop("tick", TickNext(Vips))
    \/ Loop("demand", DemandNext(Vips))
    \/ Loop("ping", PingNext)
    \/ Loop("ping", LateNext)
    \/ Loop("demand", AskScan)
    \/ \E m \in Machine : Loop("ping", Reachable(m) /\ Inspect(m, at[m]))

-----------------------------------------------------------------------------
(* The file. *)

\* The watcher saw it change: the daemon takes it over and records the nodes
\* it finds as members.
Members == {m \in Machine : Declares(yaml, m) /\ mode[m] = "talos" /\ at[m] \in Places(NodeOf(yaml, m))}
Reload ==
    /\ readable /\ loaded # yaml
    /\ loaded' = yaml
    /\ rows' = FoldLeft(LAMBDA t, m : RecordNode(t, m, at[m]), rows, SetToSeq(Members))
    /\ UNCHANGED <<network, loops, bootVars, machineVars, yaml, readable, asked, run, sure, focus, left>>

Breaks ==
    /\ Spends("breaks")
    /\ readable' = ~readable
    /\ UNCHANGED <<tableVars, bootVars, machineVars, yaml, loaded, asked, run, sure, focus>>

Edit(op, hosts, version, next) ==
    /\ Spends("edits")
    /\ readable /\ next # yaml /\ Parses(next)
    /\ yaml' = next
    /\ asked' = [op |-> op, hosts |-> hosts, version |-> version]
    /\ sure' = sure \cap Macs(next)
    /\ UNCHANGED <<tableVars, bootVars, machineVars, readable, run, focus>>
Later == UNCHANGED loaded

\* What may be added: a machine in maintenance that no loaded file declares.
Unlisted == {m \in Machine : Kind(rows[m]) = "maintenance" /\ ~Declares(loaded, m)}
Chosen(m, role, to) == [mac |-> m, ip |-> rows[m].ip, role |-> role, to |-> to]

\* A new cluster: the handler loads the file it wrote before it answers.
CreateRepo ==
    /\ left.edits > 0 /\ yaml = NewFile
    /\ \E ms \in SUBSET Unlisted \ {{}} : \E roles \in [ms -> {"auto", "worker"}] :
        Edit("create", {}, Unset, Design({Chosen(m, roles[m], Dhcp) : m \in ms}))
    /\ loaded' = yaml'

Existing == left.edits > 0 /\ yaml # NewFile

ConsoleAdds ==
    /\ Existing
    /\ \E m \in Unlisted : \E role \in {"cp", "worker"} : \E to \in {Dhcp} \cup Wanted :
        Edit("add", {}, Unset, AddNodes(yaml, <<Chosen(m, role, to)>>))
    /\ Later

ConsoleRemoves ==
    Existing /\ \E h \in Hosts(yaml) : Edit("remove", {h}, Unset, RemoveNode(yaml, h)) /\ Later

ConsoleMoves ==
    Existing /\ \E h \in Hosts(yaml) : \E to \in {Dhcp} \cup Wanted :
        Edit("network", {h}, Unset, SetNodeNetwork(yaml, h, to)) /\ Later

Versions == 1..3

ConsoleUpgrades ==
    /\ Existing
    /\ \E v \in Versions : Edit("versions", {}, v, SetVersions(yaml, v))
    /\ Later

ConsoleUpgradesNodes ==
    Existing /\ \E hosts \in SUBSET Hosts(yaml) \ {{}} : \E v \in Versions :
        Edit("nodeVersions", hosts, v, SetNodeTalos(yaml, hosts, v)) /\ Later

ConsoleSetsAddon ==
    /\ Existing
    /\ \E key \in {"longhorn", "builds", "metallb"} : \E on \in BOOLEAN : \E replicas \in {0, 2} :
        Edit("addon", {}, Unset, SetAddon(yaml, key, on, replicas))
    /\ Later

\* Refused once the machine is installed: its layout is fixed.
AwaitsInstall(n) == Kind(rows[n.mac]) = "maintenance"
ConsoleSetsDisk ==
    Existing /\ \E n \in Node(yaml) : \E on \in BOOLEAN :
        AwaitsInstall(n) /\ Edit("disk", {n.host}, Unset, SetNodeSystemDisk(yaml, n.host, on)) /\ Later

ConsoleEdits ==
    \/ CreateRepo \/ ConsoleAdds \/ ConsoleRemoves \/ ConsoleMoves
    \/ ConsoleUpgrades \/ ConsoleUpgradesNodes \/ ConsoleSetsAddon \/ ConsoleSetsDisk

-----------------------------------------------------------------------------
(* A run. *)

RunStep == UNCHANGED <<loops, bootVars, chain, readable, loaded, asked, focus>>

\* It records the machine as a member, ...
StartInstall(m) ==
    /\ Spends("runs")
    /\ run = NoNode /\ Declares(loaded, m)
    /\ mode[m] = "maintenance" /\ at[m] = NodeOf(loaded, m).ip
    /\ run' = NodeOf(loaded, m)
    /\ rows' = RecordNode(rows, m, at[m])
    /\ RunStep /\ UNCHANGED <<network, disk, fixed, yaml, sure>>

\* ... hands it its config, ...
ApplyConfig ==
    /\ run # NoNode /\ mode[run.mac] = "maintenance"
    /\ mode' = [mode EXCEPT ![run.mac] = "installing"]
    /\ RunStep /\ UNCHANGED <<at, rows, disk, fixed, yaml, run, sure, left>>

\* ... and when it is up at another address than it had, records it there and
\* writes the address.
Installed ==
    LET moved == Target(run) # run.ip
    IN  /\ run # NoNode /\ mode[run.mac] = "installing"
        /\ \A x \in Machine \ {run.mac} : at[x] # Target(run)
        /\ mode' = [mode EXCEPT ![run.mac] = "talos"]
        /\ at' = [at EXCEPT ![run.mac] = Target(run)]
        /\ disk' = [disk EXCEPT ![run.mac] = "config"]
        /\ fixed' = [fixed EXCEPT ![run.mac] = run.to]
        /\ rows' = IF moved THEN RecordNode(rows, run.mac, Target(run)) ELSE rows
        /\ yaml' = IF moved /\ Parses(SetNodeIP(yaml, run.host, Target(run)))
                   THEN SetNodeIP(yaml, run.host, Target(run)) ELSE yaml
        /\ run' = NoNode
        /\ RunStep /\ UNCHANGED <<sure, left>>

RunFails ==
    /\ run # NoNode /\ mode[run.mac] \notin {"maintenance", "installing"}
    /\ run' = NoNode
    /\ RunStep /\ UNCHANGED <<network, rows, disk, fixed, yaml, sure, left>>

\* A member that is no longer declared is reset and forgotten.
RemoveMember(m) ==
    /\ Spends("runs")
    /\ run = NoNode /\ rows[m].member /\ ~Declares(loaded, m) /\ mode[m] = "talos"
    /\ mode' = [mode EXCEPT ![m] = "maintenance"]
    /\ disk' = [disk EXCEPT ![m] = "image"]
    /\ fixed' = [fixed EXCEPT ![m] = Dhcp]
    /\ rows' = Unassign(rows, m, at[m])
    /\ RunStep /\ UNCHANGED <<at, yaml, run, sure>>

Runs ==
    \/ \E m \in Machine : StartInstall(m) \/ RemoveMember(m)
    \/ ApplyConfig \/ Installed \/ RunFails

-----------------------------------------------------------------------------
\* A scenario: where the machines are, what their disks hold, the rows, the
\* file, which parts move and how often.  The daemon's first look for a PXE
\* server, which it takes in any case, is left out where there is none to find.
Init ==
    /\ \E s \in Scenarios :
        /\ at = s.at /\ mode = s.mode /\ disk = s.disk
        /\ rows = s.rows
        /\ yaml = s.yaml /\ loaded = s.yaml
        /\ focus = s.focus /\ left = s.left
        /\ serving = ("pxe" \in s.focus) /\ starts = serving
    /\ LoopInit
    /\ BootInit
    /\ fixed = [m \in Machine |-> Dhcp]
    /\ chain = [m \in Machine |-> "none"]
    /\ readable = TRUE /\ run = NoNode /\ sure = {}
    /\ asked = [op |-> "none", hosts |-> {}, version |-> Unset]

Boots ==
    \/ \E m \in Machine : AsksPlain(m) \/ AsksPXE(m) \/ AsksScript(m) \/ AsksKernel(m)
    \/ \E m \in Machine : PowerOff(m) \/ \E a \in Subnet : PowerOn(m, a)
    \/ \E d \in {Minute, Day} : TimePasses(d)
    \/ Serves \/ Watches

Next == Boots \/ Looks \/ Reload \/ Breaks \/ ConsoleEdits \/ Runs

\* The daemon's loops go on and it follows the PXE server; nobody has to edit,
\* apply or power anything.
Fairness ==
    /\ WF_vars(Loop("tick", TickNext(Vips)))
    /\ WF_vars(Loop("demand", DemandNext(Vips)))
    /\ WF_vars(Loop("ping", PingNext))
    /\ WF_vars(Loop("ping", LateNext))
    /\ WF_vars(Watches)

Spec == Init /\ [][Next]_vars /\ Fairness

-----------------------------------------------------------------------------
(* What is promised. *)

TypeOK == TableTypeOK /\ BootTypeOK /\ chain \in [Machine -> {"none", "offered", "script"}]

\* The table settles (see Machines) wherever the daemon's loops run.
ListSettles == {"tick", "ping"} \subseteq focus => TableSettles

\* A machine that cluster.yaml declares from the moment it is powered on boots
\* what is on its disk, even while the file cannot be read: the network never
\* puts it into maintenance, where a run would install it again ("A MAC declared
\* in any of the repos' cluster.yaml boots its own disk", docs/operations.md).
DeclaredBootTheirDisk ==
    [][\A m \in sure : mode[m] = "booting" /\ mode'[m] = "maintenance" => disk[m] = "image"]_vars

Edited == left'.edits # left.edits
Same(s, n, t, u) ==
    /\ u.mac = n.mac /\ u.role = n.role /\ Places(u) = Places(n)
    /\ UsesSystemDisk(s, n) = UsesSystemDisk(t, u)

\* An edit changes what it names and nothing else, whatever the file leaves to
\* its defaults: no other node gets another Talos version, address, role or disk
\* layout; a node that is named runs the version asked for; and the cluster's
\* version overrules a node's own only if that is not newer (docs/cluster-yaml.md).
EditsStayLocal ==
    [][Edited /\ yaml # NewFile =>
        LET s == Defaults(yaml)
            t == Defaults(yaml')
        IN  \A n \in Node(s) : \A u \in Named(t, n.host) :
              /\ n.host \notin asked'.hosts => Same(s, n, t, u)
              /\ NodeTalos(t, u) =
                    IF asked'.op = "versions"
                    THEN IF n.talos > asked'.version THEN n.talos ELSE asked'.version
                    ELSE IF asked'.op = "nodeVersions" /\ n.host \in asked'.hosts THEN asked'.version
                    ELSE NodeTalos(s, n)]_vars

Held(s) == s.endpoint = s.vip \/ EndpointNode(s) # {}

\* The endpoint goes on naming the VIP or a control plane, through addresses that
\* are edited, edited again before a run, and moved to by a run; only removing
\* the control plane it names, which the console does not refuse, leaves it alone.
EndpointIsHeld ==
    [][yaml # NewFile /\ yaml' # yaml /\ Held(Defaults(yaml)) =>
        \/ Held(Defaults(yaml'))
        \/ Edited /\ asked'.op = "remove" /\ \E n \in EndpointNode(Defaults(yaml)) : n.host \in asked'.hosts]_vars
=============================================================================
