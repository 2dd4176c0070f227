------------------------------ MODULE MCEnrol -------------------------------
(***************************************************************************)
(* Three kinds of starts.  Two machines come and go on two addresses while *)
(* the daemon's loops run; three machines boot from the network, with a    *)
(* server that restarts and a file that cannot be read at times; and a     *)
(* file is edited again and again while nothing moves.                     *)
(***************************************************************************)
EXTENDS Enrol

CONSTANTS m1, m2, m3, m4

MCMachine == {m1, m2, m3, m4}
MCBigDisk == {m1, m3}
Ordered == <<m1, m2, m3, m4>>
Rank(m) == CHOOSE i \in 1..4 : Ordered[i] = m

None == [kind \in {"power", "edits", "runs", "time", "pxe", "breaks"} |-> 0]
May(f) == f @@ None

Entry(a, state) == [ip |-> a, member |-> FALSE, state |-> state]
Start(on, disks, file, listed, parts, may) ==
    [at |-> [m \in Machine |-> IF m \in DOMAIN on THEN Rank(m) ELSE Nowhere],
     mode |-> [m \in Machine |-> IF m \in DOMAIN on THEN on[m] ELSE "off"],
     disk |-> [m \in Machine |-> IF m \in DOMAIN disks THEN disks[m] ELSE "empty"],
     rows |-> [k \in Key |-> IF k \in DOMAIN listed THEN listed[k] ELSE NoRow],
     yaml |-> file, focus |-> parts, left |-> May(may)]

Pick(m, role) == [mac |-> m, ip |-> Rank(m), role |-> role, to |-> Dhcp]
OneNode == Design({Pick(m1, "auto")})
TwoNodes == Design({Pick(m1, "cp"), Pick(m2, "worker")})
WithVip == [TwoNodes EXCEPT !.vip = 9, !.endpoint = 9]
Three == Design({Pick(m1, "auto"), Pick(m2, "auto"), Pick(m3, "auto")})

\* A file by hand: what can be left out is, and the nodes have versions of their own.
ByHand(own) ==
    [Three EXCEPT !.talos = Unset, !.vip = Unset, !.endpoint = Unset, !.schedules = "unset",
                  !.nodes = [i \in DOMAIN @ |-> [@[i] EXCEPT !.talos = own[i]]]]

Listed(ms) == [m \in ms |-> Entry(Rank(m), "maintenance")]
As(ms, what) == [m \in ms |-> what]

Moving ==
    {Start(As({}, "off"), (m1 :> "image") @@ (m2 :> "config"), NewFile, <<>>, {m1, m2, "tick", "ping"}, ("power" :> 5))}
Joining ==
    {Start(As({m1}, "maintenance"), As({m1, m2}, "image"), WithVip, Listed({m1}), {m1, m2, part},
           ("power" :> 2) @@ ("runs" :> 2)) : part \in {"tick", "demand", "ping"}}
    \cup {Start(As({m1, m2}, "maintenance"), As({m1, m2}, "image"), WithVip, Listed({m1}), {"demand"},
                ("runs" :> 2) @@ ("edits" :> 1))}
Booted ==
    {Start(As({}, "off"), As({m1}, "config"), OneNode, <<>>, {m1, m2, m3, "pxe"}, may) :
        may \in {("power" :> 3) @@ ("time" :> 2), ("power" :> 2) @@ ("breaks" :> 2) @@ ("edits" :> 1)}}
    \cup {Start(As({}, "off"), As({m1}, "config"), OneNode, <<>>, {m1, m2, "pxe"} \cup more,
                ("power" :> 2) @@ ("pxe" :> 3)) : more \in {{}, {"closed"}}}
Edits ==
    {Start(As(MCMachine, "maintenance"), As({}, "empty"), file, Listed(MCMachine), {}, ("edits" :> 2)) :
        file \in {NewFile, OneNode, TwoNodes, ByHand(<<0, 0, 0>>), ByHand(<<3, 1, 0>>)}}
SomeScenarios == Moving \cup Joining \cup Booted \cup Edits
=============================================================================
