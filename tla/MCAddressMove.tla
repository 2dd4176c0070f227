--------------------------- MODULE MCAddressMove ---------------------------
(***************************************************************************)
(* Three control planes and a worker.  Two of the nodes change, in every   *)
(* way cluster.yaml can say it, and what is declared for one of them may   *)
(* not work.                                                               *)
(***************************************************************************)
EXTENDS AddressMove

CONSTANTS c1, c2, c3, w

MCOrder == <<c1, c2, c3, w>>
MCControlPlane == {c1, c2, c3}
MCHolder == c1

\* Releasing the holder of the endpoint takes a VIP; a node on DHCP is pinned or moved.
MCScenarios ==
    LET pairs == {{c1, c2}, {c1, w}, {c2, c3}}
        ways == [have : {"static", "dhcp"}, want : Addressing]
        case(p, f, v, b) ==
            [have |-> [n \in Node |-> IF n \in p THEN f[n].have ELSE "static"],
             want |-> [n \in Node |-> IF n \in p THEN f[n].want ELSE "static"],
             vip |-> v, bad |-> {n \in b : f[n].want \notin {f[n].have, "static"}}]
    IN UNION {{case(p, f, v, b) : f \in {g \in [p -> ways] : v \/ c1 \notin p \/ "dhcp" \notin {g[c1].have, g[c1].want}},
                                  b \in {{}} \cup {{n} : n \in p}} : p \in pairs, v \in BOOLEAN}
=============================================================================
