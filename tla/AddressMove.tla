---------------------------- MODULE AddressMove ----------------------------
(***************************************************************************)
(* Address changes (cluster/address.go): what a plan makes of the          *)
(* addresses it finds, and the run that moves one node at a time.  Talos   *)
(* tries a new config and rolls it back after three minutes unless Kubit   *)
(* finds the node at the new address and confirms it there; the node then  *)
(* reboots, a control plane gets its new etcd peer URL, and cluster.yaml   *)
(* the new ip.  The other phases of a run are in Converge; of them only    *)
(* the config step, which hands out the new endpoint, is here.             *)
(*                                                                         *)
(* A run may die at any step.  The next one starts from what the nodes     *)
(* report.                                                                 *)
(***************************************************************************)
EXTENDS Naturals, Sequences, FiniteSets, SequencesExt

CONSTANTS
    NodeOrder,    \* the nodes, as cluster.yaml lists them
    ControlPlane, \* which of them run etcd and the API
    Holder,       \* the control plane the endpoint names when there is no VIP
    Scenarios,    \* [have, want: addressing of every node, vip, bad]
    Patient,      \* whether a run starts only when no try waits for its rollback
    MaxTrouble    \* bound on deaths of a run, early rollbacks, power cuts, strangers, leases

Node == Range(NodeOrder)
First == NodeOrder[1]

ASSUME NodesAssumption == First \in ControlPlane /\ Holder \in ControlPlane /\ ControlPlane \subseteq Node
ASSUME TroubleAssumption == MaxTrouble \in Nat /\ Patient \in BOOLEAN

\* An address is the spot it is at among those a node may have; 0 is none.
\* "static" and "retuned" differ in gateway, prefix or VLAN only.
Nowhere == 0
Spot == [static |-> 1, retuned |-> 1, moved |-> 2]
Addressing == DOMAIN Spot \cup {"dhcp"}
Leased == 3
Spots == 1..4
Vip == 9

VARIABLES
    want, vip, ip,  \* cluster.yaml: each node's addressing, whether there is a VIP, each node's ip
    bad,            \* the nodes whose declared addressing does not work (a wrong VLAN, a wrong prefix)
    taken,          \* the nodes whose new address a stranger has
    conf, endpoint, \* what each node keeps on its disk: its addressing, the cluster's endpoint
    try,            \* a config on trial: "none", "set", or "live" once the network follows it
    up, lease,      \* whether a node is booted; the address DHCP gives it
    peer,           \* the address etcd's member list has for a control plane
    row,            \* the address Kubit recorded for each node in its store
    pin,            \* the endpoint Kubit reaches the API at (manager.liveEndpoint)
    pc, todo, found,
    trouble

world == <<conf, endpoint, try, up, lease, peer>>
yaml == <<want, vip, bad>>
vars == <<yaml, ip, taken, world, row, pin, pc, todo, found, trouble>>

-----------------------------------------------------------------------------
(* Where the nodes are. *)

Live(n) == IF try[n] = "live" THEN want[n] ELSE conf[n]
Works(n, a) == ~(n \in bad /\ a = want[n]) /\ ~(n \in taken /\ a = "moved")
At(n) == IF ~up[n] \/ ~Works(n, Live(n)) THEN Nowhere
         ELSE IF Live(n) = "dhcp" THEN lease[n] ELSE Spot[Live(n)]

\* The config provider returns the config on trial as soon as it is set.
LiveConfig(n) == IF try[n] = "none" THEN conf[n] ELSE want[n]
TargetIP(n) == IF want[n] = "dhcp" THEN ip[n] ELSE Spot[want[n]]
Endpoint == IF vip THEN Vip ELSE TargetIP(Holder)
LiveEndpoint(n) == IF try[n] = "none" THEN endpoint[n] ELSE Endpoint

Answers(e) == IF e = Vip THEN \E n \in ControlPlane : At(n) # Nowhere
              ELSE e # Nowhere /\ At(Holder) = e

-----------------------------------------------------------------------------
(* The plan. *)

Kind(n) ==
    IF LiveConfig(n) = want[n] THEN IF At(n) = ip[n] THEN "none" ELSE "record"
    ELSE IF want[n] = "dhcp" THEN "release"
    ELSE IF At(n) # TargetIP(n) THEN "move"
    ELSE IF LiveConfig(n) = "dhcp" THEN "pin"
    ELSE "retune"

Moves(kind) == kind \in {"release", "move", "pin", "retune"}

Change(n, kind) == [n |-> n, kind |-> kind, from |-> At(n),
                    to |-> CASE kind \in {"release", "repair"} -> Nowhere
                             [] kind = "record"                -> At(n)
                             [] OTHER                          -> TargetIP(n)]

Refused(n) ==
    \/ Kind(n) = "move" /\ n \in taken
    \/ Kind(n) \in {"move", "release"} /\ n \in ControlPlane /\ Cardinality(ControlPlane) = 2
    \/ Kind(n) = "release" /\ n = Holder /\ ~vip /\ LiveEndpoint(First) = At(n)

RepairsOfTheFirst == IF peer[First] # At(First) THEN {First} ELSE {}

\* planPeerRepairs: only when no control plane moves.
Repairs == IF \E n \in ControlPlane : Moves(Kind(n)) THEN {}
           ELSE {n \in ControlPlane : peer[n] # At(n)}

\* addressOrder: the other control planes, then the endpoint's, then the workers.
Rank(c) == IF c.n \notin ControlPlane THEN 2
           ELSE IF c.n = Holder /\ Endpoint \in {c.to, c.from} THEN 1 ELSE 0
InOrder(cs) == LET Ranked(r) == SelectSeq(cs, LAMBDA c : Rank(c) = r)
               IN Ranked(0) \o Ranked(1) \o Ranked(2)

Plan ==
    LET planned(n) == IF Kind(n) = "none" THEN <<>> ELSE <<Change(n, Kind(n))>>
        repair(n) == IF n \in Repairs THEN <<Change(n, "repair")>> ELSE <<>>
        each(f(_)) == FlattenSeq([i \in DOMAIN NodeOrder |-> f(NodeOrder[i])])
    IN InOrder(each(planned) \o each(repair))

-----------------------------------------------------------------------------
Init ==
    \E s \in Scenarios :
        /\ want = s.want /\ vip = s.vip /\ bad = s.bad /\ conf = s.have
        /\ ip = [n \in Node |-> 1] /\ row = ip
        /\ peer = [n \in ControlPlane |-> 1]
        /\ endpoint = [n \in Node |-> IF s.vip THEN Vip ELSE 1]
        /\ lease = [n \in Node |-> IF s.have[n] = "dhcp" THEN 1 ELSE Leased]
        /\ try = [n \in Node |-> "none"] /\ up = [n \in Node |-> TRUE]
        /\ taken = {} /\ pin = Nowhere
        /\ pc = "idle" /\ todo = <<>> /\ found = Nowhere /\ trouble = 0

Cur == Head(todo)
Controls == Cur.n \in ControlPlane

\* The plan and the run it becomes: refused while a node is not found, the API does not
\* answer where the first control plane says it is, or an address cannot be moved.
Start ==
    /\ pc = "idle"
    /\ Patient => \A n \in Node : try[n] = "none"
    /\ \A n \in Node : At(n) # Nowhere /\ ~Refused(n)
    /\ Answers(LiveEndpoint(First))
    /\ Plan # <<>> \/ \E n \in Node : LiveEndpoint(n) # Endpoint
    /\ LiveEndpoint(First) # Endpoint =>
           \E i \in DOMAIN Plan : Plan[i].kind = "move" /\ Plan[i].n = Holder /\ Plan[i].to = Endpoint
    /\ pin' = LiveEndpoint(First)
    /\ row' = [n \in Node |-> At(n)]
    /\ todo' = Plan
    /\ pc' = "moves"
    /\ UNCHANGED <<yaml, ip, taken, world, found, trouble>>

Stop == pc' = "idle" /\ todo' = <<>> /\ found' = Nowhere
Next1(step) == pc' = step /\ UNCHANGED <<todo, found>>
Done == pc' = "moves" /\ todo' = Tail(todo) /\ found' = Nowhere

ToleratesTheSilent == \A c \in ControlPlane : At(c) # Nowhere => At(c) = row[c]

\* etcdTolerates: etcd answers as healthy on every member, where Kubit has it recorded.
Tolerates == \A c \in ControlPlane : At(c) # Nowhere /\ At(c) = row[c]

Check ==
    /\ pc = "moves" /\ todo # <<>> /\ Moves(Cur.kind)
    /\ IF (Controls => Tolerates) /\ ~(Cur.kind = "move" /\ Cur.n \in taken)
       THEN Next1("try") ELSE Stop
    /\ UNCHANGED <<yaml, ip, taken, world, row, pin, trouble>>

TriedForGood(n) ==
    /\ conf' = [conf EXCEPT ![n] = want[n]] /\ endpoint' = [endpoint EXCEPT ![n] = Endpoint]
    /\ UNCHANGED try

\* tryConfig.  A lost answer counts as applied.
Tried(n) == try' = [try EXCEPT ![n] = "set"] /\ UNCHANGED <<conf, endpoint>>

TryConfig ==
    /\ pc = "try"
    /\ IF At(Cur.n) = Cur.from /\ Cur.from # Nowhere THEN Tried(Cur.n) /\ Next1("find")
       ELSE Stop /\ UNCHANGED <<try, conf, endpoint>>
    /\ UNCHANGED <<yaml, ip, taken, up, lease, peer, row, pin, trouble>>

FindMovedIsEnough ==
    /\ pc = "find"
    /\ IF At(Cur.n) \in {Nowhere, Cur.from} THEN Stop ELSE pc' = "ready" /\ found' = At(Cur.n) /\ UNCHANGED todo
    /\ UNCHANGED <<yaml, ip, taken, world, row, pin, trouble>>

\* findMoved: by hostname at the new address, or anywhere else on the LAN for a release.
Seen == IF Cur.kind = "release" THEN At(Cur.n) \notin {Nowhere, Cur.from} ELSE At(Cur.n) = Cur.to
FindMoved ==
    /\ pc = "find"
    /\ \/ Seen /\ pc' = "confirm" /\ found' = At(Cur.n) /\ UNCHANGED todo
       \/ ~Seen /\ try[Cur.n] # "set" /\ up[Cur.n] /\ Next1("back")
    /\ UNCHANGED <<yaml, ip, taken, world, row, pin, trouble>>

\* Talos restored the previous config: the run ends with an error.
RolledBack ==
    /\ pc = "back" /\ try[Cur.n] = "none" /\ up[Cur.n] /\ Stop
    /\ UNCHANGED <<yaml, ip, taken, world, row, pin, trouble>>

\* confirmConfig, then the row in the store and pinEndpoint, which only matter to this run.
Confirm ==
    /\ pc = "confirm"
    /\ IF At(Cur.n) = found
       THEN /\ conf' = [conf EXCEPT ![Cur.n] = want[Cur.n]]
            /\ endpoint' = [endpoint EXCEPT ![Cur.n] = Endpoint]
            /\ try' = [try EXCEPT ![Cur.n] = "none"]
            /\ row' = [row EXCEPT ![Cur.n] = found]
            /\ pin' = IF Cur.n = Holder /\ Endpoint = found THEN Endpoint ELSE pin
            /\ Next1("reboot")
       ELSE Stop /\ UNCHANGED <<conf, endpoint, try, row, pin>>
    /\ UNCHANGED <<yaml, ip, taken, up, lease, peer, trouble>>

Reboot ==
    /\ pc = "reboot"
    /\ IF At(Cur.n) = found THEN up' = [up EXCEPT ![Cur.n] = FALSE] /\ Next1("boot")
       ELSE Stop /\ UNCHANGED up
    /\ UNCHANGED <<yaml, ip, taken, conf, endpoint, try, lease, peer, row, pin, trouble>>

Booted ==
    /\ pc = "boot" /\ up[Cur.n]
    /\ IF At(Cur.n) # found THEN Stop ELSE Next1(IF Controls THEN "peer" ELSE "ready")
    /\ UNCHANGED <<yaml, ip, taken, world, row, pin, trouble>>

\* repairEtcdPeer, in a move and as a change of its own; it waits for every member.
RepairEtcdPeer ==
    /\ \/ pc = "peer"
       \/ pc = "moves" /\ todo # <<>> /\ Cur.kind = "repair"
    /\ LET at == IF pc = "peer" THEN found ELSE Cur.from IN
       IF At(Cur.n) = at /\ \A c \in ControlPlane : up[c]
       THEN peer' = [peer EXCEPT ![Cur.n] = at] /\ (IF pc = "peer" THEN Next1("ready") ELSE Done)
       ELSE Stop /\ UNCHANGED peer
    /\ UNCHANGED <<yaml, ip, taken, conf, endpoint, try, up, lease, row, pin, trouble>>

\* waitNodeAt, through the API where Kubit has it pinned.
Ready ==
    /\ pc = "ready"
    /\ IF At(Cur.n) = found /\ Answers(pin) THEN Next1("record") ELSE Stop
    /\ UNCHANGED <<yaml, ip, taken, world, row, pin, trouble>>

RecordAddress ==
    /\ \/ pc = "record" /\ ip' = [ip EXCEPT ![Cur.n] = found]
       \/ pc = "moves" /\ todo # <<>> /\ Cur.kind = "record" /\ ip' = [ip EXCEPT ![Cur.n] = Cur.to]
    /\ Done
    /\ UNCHANGED <<yaml, taken, world, row, pin, trouble>>

\* The config step of the same run hands the endpoint to the nodes that did not move.
ApplyConfigs ==
    /\ pc = "moves" /\ todo = <<>>
    /\ endpoint' = [n \in Node |-> IF At(n) = row[n] THEN Endpoint ELSE endpoint[n]]
    /\ Stop
    /\ UNCHANGED <<yaml, ip, taken, conf, try, up, lease, peer, row, pin, trouble>>

-----------------------------------------------------------------------------
(* Talos, the network and accidents. *)

Away == {n \in ControlPlane : try[n] # "none" \/ ~up[n]}
Trouble == trouble < MaxTrouble /\ trouble' = trouble + 1

TakesHold(n) ==
    /\ try[n] = "set" /\ try' = [try EXCEPT ![n] = "live"]
    /\ UNCHANGED <<yaml, ip, taken, conf, endpoint, up, lease, peer, row, pin, pc, todo, found, trouble>>

\* The rollback outlasts the two minutes of findMoved; that it still comes before the
\* confirmation is trouble.
Watched(n) == pc \in {"find", "confirm"} /\ Cur.n = n
Rollback(n) ==
    /\ try[n] # "none" /\ try' = [try EXCEPT ![n] = "none"]
    /\ IF Watched(n) THEN Trouble ELSE UNCHANGED trouble
    /\ UNCHANGED <<yaml, ip, taken, conf, endpoint, up, lease, peer, row, pin, pc, todo, found>>

Boot(n) ==
    /\ ~up[n] /\ up' = [up EXCEPT ![n] = TRUE]
    /\ \/ UNCHANGED <<lease, trouble>>
       \/ Trouble /\ conf[n] = "dhcp" /\ (n = Holder => vip)
          /\ lease' = [lease EXCEPT ![n] = CHOOSE s \in {3, 4} : s # lease[n]]
    /\ UNCHANGED <<yaml, ip, taken, conf, endpoint, try, peer, row, pin, pc, todo, found>>

\* A node loses power while a config is on trial, or one control plane of a whole etcd does,
\* but for the time between the check of etcd and the reboot it lets through: Kubit does not
\* look again, and a member that fails then is the second one away.  The trial is in memory
\* only.
PowerCut(n) ==
    /\ Trouble /\ up[n]
    /\ try[n] # "none" \/ (n \in ControlPlane /\ pc \notin {"try", "find", "confirm", "reboot"} /\ Away = {})
    /\ up' = [up EXCEPT ![n] = FALSE] /\ try' = [try EXCEPT ![n] = "none"]
    /\ UNCHANGED <<yaml, ip, taken, conf, endpoint, lease, peer, row, pin, pc, todo, found>>

Stranger(n) ==
    /\ \/ Trouble /\ n \notin taken /\ want[n] = "moved" /\ conf[n] # "moved" /\ try[n] = "none" /\ taken' = taken \cup {n}
       \/ n \in taken /\ taken' = taken \ {n} /\ UNCHANGED trouble
    /\ UNCHANGED <<yaml, ip, world, row, pin, pc, todo, found>>

\* A call of the run fails, or Kubit dies.
Die ==
    /\ pc # "idle" /\ Trouble /\ Stop /\ pin' = Nowhere
    /\ UNCHANGED <<yaml, ip, taken, world, row>>

Run == Start \/ Check \/ TryConfig \/ FindMoved \/ RolledBack \/ Confirm \/ Reboot \/ Booted
         \/ RepairEtcdPeer \/ Ready \/ RecordAddress \/ ApplyConfigs

Next ==
    \/ Run \/ Die
    \/ \E n \in Node : TakesHold(n) \/ Rollback(n) \/ Boot(n) \/ PowerCut(n) \/ Stranger(n)

\* The user applies again after an error; Talos rolls back and boots by itself; a
\* stranger on the address goes away.
Spec ==
    /\ Init /\ [][Next]_vars
    /\ WF_vars(Run)
    /\ \A n \in Node : WF_vars(TakesHold(n)) /\ WF_vars(Rollback(n) /\ ~Watched(n)) /\ WF_vars(Boot(n))
                       /\ WF_vars(Stranger(n) /\ n \in taken)

-----------------------------------------------------------------------------
(* Properties. *)

\* Every variable keeps its type over all actions of the run and of the network.
TypeOK ==
    /\ want \in [Node -> Addressing] /\ conf \in [Node -> Addressing]
    /\ ip \in [Node -> Spots] /\ row \in [Node -> Spots] /\ lease \in [Node -> Spots]
    /\ peer \in [ControlPlane -> Spots] /\ endpoint \in [Node -> Spots \cup {Vip}]
    /\ try \in [Node -> {"none", "set", "live"}] /\ up \in [Node -> BOOLEAN]
    /\ taken \subseteq Node /\ bad \subseteq Node

\* No second control plane is taken off its address or rebooted while one is on trial
\* or down, whatever failed before the check of etcd (address.go etcdTolerates).
OneAway == Cardinality(Away) <= 1

\* A node keeps a new address over a reboot only if it answered there: a config that
\* cuts the node off is never made permanent (address.go tryConfig, findMoved,
\* confirmConfig).  A retune keeps the address, where the old config answers as well.
KeepsOnlyProven == \A n \in bad : conf[n] = want[n] => Spot[want[n]] = 1

\* The ip in cluster.yaml and the peer URL in etcd change only to an address the node
\* has on its disk, not to one that a rollback will take away (address.go recordAddress,
\* repairEtcdPeer).
Kept(n, at) == conf[n] = "dhcp" \/ Spot[conf[n]] = at
RecordsWhatIsKept ==
    [][/\ \A n \in Node : ip'[n] # ip[n] => Kept(n, ip'[n])
       /\ \A n \in ControlPlane : peer'[n] # peer[n] => Kept(n, peer'[n])]_vars

\* Whatever step the runs before it died at, applying again ends with every node where
\* cluster.yaml wants it, its ip and peer URL following, and the endpoint known to all.
Settled ==
    /\ \A n \in Node : conf[n] = want[n] /\ At(n) = ip[n] /\ endpoint[n] = Endpoint
    /\ \A n \in ControlPlane : peer[n] = At(n)
Settles == bad = {} => <>[]Settled
=============================================================================
