---------------------------- MODULE ClusterSpec -----------------------------
(***************************************************************************)
(* cluster.yaml as data: its defaults and its validation (config/cluster.  *)
(* go, config/validate.go, config/storage.go), the design of a new cluster *)
(* from machines (config/design.go, api/edit.go) and the edits the console *)
(* and a run make (repo/edit.go, repo/spec.go).  Nothing here has a state: *)
(* an edit maps the file to the next one, and the file is written only if  *)
(* that one parses.                                                        *)
(*                                                                         *)
(* Names, sizes and wording are left out; of a network, what an address    *)
(* may not be; of the add-ons, those that depend on the nodes.             *)
(***************************************************************************)
EXTENDS Integers, FiniteSets, SequencesExt

CONSTANTS
    Place,          \* the addresses, as numbers
    Reserved,       \* those of them no node may have: the network's own, its gateway, a pod's
    Pool,           \* those of them in MetalLB's range
    SuggestedVip,   \* the virtual address Kubit picks
    BigDisk,        \* the machines whose disk has room for Longhorn beside the system
    DefaultVersion, \* the Talos version of a file that names none
    SchedulesBelow  \* with fewer nodes control planes run workloads by default (6)

Unset == 0
Dhcp == 0

ASSUME PlaceAssumption == Unset \notin Place /\ SuggestedVip \in Place /\ DefaultVersion \in Nat \ {0}

-----------------------------------------------------------------------------
(* Nodes.  `ip` is where Kubit finds one now, `to` its static address.     *)

Node(s) == Range(s.nodes)
Target(n) == IF n.to = Dhcp THEN n.ip ELSE n.to
Places(n) == {n.ip, Target(n)}
WithRole(s, role) == SelectSeq(s.nodes, LAMBDA n : n.role = role)
Named(s, h) == {n \in Node(s) : n.host = h}
Hosts(s) == {n.host : n \in Node(s)}
Macs(s) == {n.mac : n \in Node(s)}

NodeTalos(s, n) == IF n.talos # Unset THEN n.talos ELSE s.talos
UsesSystemDisk(s, n) == IF n.system = "unset" THEN s.system ELSE n.system = "on"
RunsWorkloads(s, n) == n.role = "worker" \/ s.schedules # "no"
LonghornNodes(s) == {n \in Node(s) : RunsWorkloads(s, n) /\ UsesSystemDisk(s, n)}
EndpointNode(s) == {n \in Node(s) : n.role = "cp" /\ s.endpoint # s.vip /\ s.endpoint \in Places(n)}

-----------------------------------------------------------------------------
(* What a file means, and whether it is accepted.                          *)

Defaults(s) ==
    LET cps == WithRole(s, "cp")
        host == IF s.vip # Unset THEN s.vip ELSE IF cps # <<>> THEN Target(cps[1]) ELSE Unset
    IN  [s EXCEPT !.talos = IF @ = Unset THEN DefaultVersion ELSE @,
                  !.schedules = IF @ # "unset" THEN @ ELSE IF Len(s.nodes) < SchedulesBelow THEN "yes" ELSE "no",
                  !.endpoint = IF @ = Unset THEN host ELSE @]

ValidPlatform(s) ==
    /\ s.longhorn => LonghornNodes(s) # {} /\ s.replicas <= Cardinality(LonghornNodes(s))
    /\ s.builds => s.longhorn

ValidControlPlane(s) ==
    /\ WithRole(s, "cp") # <<>>
    /\ s.schedules = "no" => WithRole(s, "worker") # <<>>
    /\ s.endpoint # Unset
    /\ s.vip # Unset => \A n \in Node(s) : s.vip \notin Places(n)
    /\ s.vip = Unset => \A n \in Node(s) : n.role = "cp" /\ s.endpoint = n.ip => Target(n) = n.ip

ValidNodeNetwork(s, n) ==
    n.to # Dhcp => n.to \notin Reserved \cup {s.vip} /\ (s.metallb => n.to \notin Pool)

ValidNodes(s) ==
    /\ \A i, j \in DOMAIN s.nodes : i # j =>
          /\ s.nodes[i].host # s.nodes[j].host
          /\ s.nodes[i].mac # s.nodes[j].mac
          /\ Places(s.nodes[i]) \cap Places(s.nodes[j]) = {}
    /\ \A n \in Node(s) : ValidNodeNetwork(s, n)

Valid(s) == ValidPlatform(s) /\ ValidControlPlane(s) /\ ValidNodes(s)
Parses(s) == Valid(Defaults(s))

-----------------------------------------------------------------------------
(* The design of a cluster from machines.  A choice is a machine with the  *)
(* address its row has and what was chosen for it: a role, an address.     *)

NextHostname(s, role) ==
    LET free == {i \in 1..(Len(s.nodes) + 1) : <<role, i>> \notin Hosts(s)}
    IN  <<role, CHOOSE i \in free : \A j \in free : i <= j>>

SystemDisk(s, on) == IF on = s.system THEN "unset" ELSE IF on THEN "on" ELSE "off"

\* Longhorn's data shares the system disk where workloads run and it fits.
PlaceStorage(s, n) ==
    IF ~s.longhorn \/ ~s.system THEN n
    ELSE [n EXCEPT !.system = SystemDisk(s, RunsWorkloads(s, n) /\ n.mac \in BigDisk)]

NodeFor(s, choice, role) ==
    [host |-> NextHostname(s, role), mac |-> choice.mac, role |-> role, ip |-> choice.ip,
     to |-> choice.to, talos |-> Unset, system |-> "unset"]

Add(s, node) == [s EXCEPT !.nodes = Append(@, node)]

\* One control plane, or three from three machines.
Recommend(n) == IF n < 3 THEN 1 ELSE 3
RecommendsScheduling(n) == n < 6

\* The roles not chosen are given out in the order of the machines.
Roles(choices) ==
    LET chosen == {i \in DOMAIN choices : choices[i].role = "cp"}
        auto == {i \in DOMAIN choices : choices[i].role = "auto"}
        open == Recommend(Len(choices)) - Cardinality(chosen)
        rank(i) == Cardinality({j \in auto : j <= i})
    IN  [i \in DOMAIN choices |->
            IF i \in auto THEN IF rank(i) <= open THEN "cp" ELSE "worker" ELSE choices[i].role]

NewFile == [nodes |-> <<>>, talos |-> Unset, vip |-> Unset, endpoint |-> Unset, schedules |-> "unset",
            system |-> FALSE, longhorn |-> FALSE, replicas |-> 0, builds |-> FALSE, metallb |-> FALSE]

\* Control planes come first.  Longhorn is on if any machine has the room.
Design(machines) ==
    LET choices == SetToSortSeq(machines, LAMBDA x, y : x.ip < y.ip)
        roles == Roles(choices)
        place(s, role) ==
            FoldLeft(LAMBDA t, i : IF roles[i] = role THEN Add(t, NodeFor(t, choices[i], role)) ELSE t,
                     s, [i \in DOMAIN choices |-> i])
        placed == place(place(NewFile, "cp"), "worker")
        cps == Len(WithRole(placed, "cp"))
        all == Len(choices)
        c == Defaults([placed EXCEPT
                !.schedules = IF RecommendsScheduling(all) \/ cps = all THEN "yes" ELSE "no",
                !.vip = IF cps >= 3 THEN SuggestedVip ELSE Unset])
        fits == {n \in Node(c) : RunsWorkloads(c, n) /\ n.mac \in BigDisk}
        shared == [c EXCEPT !.system = TRUE, !.longhorn = TRUE]
    IN  IF fits = {} THEN c
        ELSE [shared EXCEPT !.nodes = [i \in DOMAIN @ |-> PlaceStorage(shared, @[i])]]

-----------------------------------------------------------------------------
(* Edits. *)

WithNode(s, h, key, value) ==
    [s EXCEPT !.nodes = [i \in DOMAIN @ |-> IF @[i].host = h THEN [@[i] EXCEPT ![key] = value] ELSE @[i]]]

\* The nodes are designed one after the other on top of what the file means.
AddNodes(s, choices) ==
    LET role(ch) == IF ch.role = "auto" THEN "worker" ELSE ch.role
        grow(c, ch) == Add(c, PlaceStorage(c, NodeFor(c, ch, role(ch))))
        c == FoldLeft(grow, Defaults(s), choices)
    IN  [s EXCEPT !.nodes = @ \o SubSeq(c.nodes, Len(@) + 1, Len(c.nodes))]

RemoveNode(s, h) == [s EXCEPT !.nodes = SelectSeq(@, LAMBDA n : n.host # h)]

SetNodeIP(s, h, ip) == WithNode(s, h, "ip", ip)

\* Variant: only where the control plane is now counts, not where it goes.
EndpointFollowsNow(s, n) ==
    LET c == Defaults(s) IN n.role = "cp" /\ c.vip = Unset /\ c.endpoint = n.ip

\* The endpoint moves with the control plane it names.
EndpointFollows(s, n) ==
    LET c == Defaults(s) IN n.role = "cp" /\ c.vip = Unset /\ c.endpoint \in Places(n)

SetNodeNetwork(s, h, to) ==
    LET n == CHOOSE x \in Named(s, h) : TRUE
        target == IF to = Dhcp THEN n.ip ELSE to
        next == WithNode(s, h, "to", to)
    IN  IF EndpointFollows(s, n) /\ target # Defaults(s).endpoint
        THEN [next EXCEPT !.endpoint = target] ELSE next

\* Versions of a node that are not newer than the cluster's are dropped.
SetVersions(s, v) ==
    [s EXCEPT !.talos = v,
              !.nodes = [i \in DOMAIN @ |-> [@[i] EXCEPT !.talos = IF v < @ THEN @ ELSE Unset]]]

\* Variant: a node without a version of its own does not count.
SharedVersions(s) == {n.talos : n \in Node(s)} \ {Unset}

OwnVersions(s) == {n.talos : n \in Node(s)}

\* A version that every node has of its own moves to the cluster.
Collapse(s) ==
    LET own == OwnVersions(s)
        v == CHOOSE x \in own : TRUE
    IN  IF Cardinality(own) # 1 \/ v = Unset THEN s
        ELSE [s EXCEPT !.talos = v, !.nodes = [i \in DOMAIN @ |-> [@[i] EXCEPT !.talos = Unset]]]

SetNodeTalos(s, hosts, v) ==
    LET own == IF v = Defaults(s).talos THEN Unset ELSE v
    IN  Collapse([s EXCEPT !.nodes =
            [i \in DOMAIN @ |-> IF @[i].host \in hosts THEN [@[i] EXCEPT !.talos = own] ELSE @[i]]])

SetNodeSystemDisk(s, h, on) == WithNode(s, h, "system", SystemDisk(s, on))

SetAddon(s, key, on, replicas) ==
    CASE key = "longhorn" -> [s EXCEPT !.longhorn = on, !.replicas = replicas]
      [] key = "builds" -> [s EXCEPT !.builds = on]
      [] key = "metallb" -> [s EXCEPT !.metallb = on]
=============================================================================
