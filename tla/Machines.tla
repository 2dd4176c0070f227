------------------------------ MODULE Machines ------------------------------
(***************************************************************************)
(* The machines Kubit knows (store/machines.go) and who writes them: the   *)
(* minute tick that scans the subnets and reprobes the known machines, the *)
(* ten-second ping of those that are no members, scans a user asks for     *)
(* (watch/candidates.go, api/discover.go, talos/scan.go), and the runs and *)
(* the watcher that record members.  A row is kept under its MAC, or under *)
(* its address as long as no MAC is known.                                 *)
(*                                                                         *)
(* Every probe is read before it is stored, so it may be stale by then.    *)
(***************************************************************************)
EXTENDS Naturals, FiniteSets, SequencesExt

CONSTANTS
    Machine,   \* the machines, by MAC
    Addr,      \* the addresses, as numbers
    Subnet,    \* those of them DHCP gives, which the scans cover
    Vip        \* the virtual address of the cluster, one of them

Nowhere == 0
Nobody == "nobody"
Key == Machine \cup Addr

ASSUME AddressAssumption == Nowhere \notin Addr /\ Vip \in Addr /\ Subnet \subseteq Addr

VARIABLES
    at,     \* the address a machine has, or Nowhere
    mode,   \* "off", "booting", "maintenance", "installing", "talos" (it runs a config)
    rows,   \* the table
    tick,   \* the minute tick: what it scans or reprobes next, what it has found
    demand, \* a scan that was asked for
    round,  \* what the ping round saw of the rows it has still to check
    missed, \* how often in a row each was missed
    late    \* what the watcher's own probes and pings saw, read and not stored

network == <<at, mode>>
loops == <<tick, demand, round, missed, late>>
tableVars == <<network, rows, loops>>

-----------------------------------------------------------------------------
(* What answers on the network.  A member rejects a client without its     *)
(* certificate: it is configured, and nothing else is known of it.         *)

Row(m, a, state) == [mac |-> m, ip |-> a, state |-> state, member |-> FALSE]
At(a) == {m \in Machine : at[m] = a}
Answer(a) ==
    {Row(m, a, "maintenance") : m \in {x \in At(a) : mode[x] = "maintenance"}}
        \cup {Row(m, a, "configured") : m \in {x \in At(a) : mode[x] = "installing"}}
        \cup {Row(Nobody, a, "configured") :
                m \in {x \in Machine : mode[x] = "talos" /\ a \in {at[x], Vip}}}
PortOpen(a) == Answer(a) # {}

-----------------------------------------------------------------------------
(* The table.  A row that is not there is NoRow.                           *)

NoRow == [ip |-> Nowhere, member |-> FALSE, state |-> "absent"]
Known(t) == {k \in Key : t[k] # NoRow}

Kind(row) == IF row.member THEN "member"
             ELSE IF row.state \in {"maintenance", "configured"} THEN row.state ELSE "offline"

KeyByIP(t, a) ==
    LET with == {m \in Machine : t[m].ip = a}
    IN  IF t[a] # NoRow \/ with = {} THEN a ELSE CHOOSE m \in with : TRUE

Merge(prev, r) ==
    IF prev = NoRow THEN [ip |-> r.ip, member |-> r.member, state |-> r.state]
    ELSE [ip |-> r.ip,
          member |-> r.member \/ (prev.member /\ r.state # "maintenance"),
          state |-> IF r.state = "none" THEN prev.state ELSE r.state]

\* Variant: another row keeps the address.
UpsertShared(t, r) ==
    LET key == IF r.mac = Nobody THEN KeyByIP(t, r.ip) ELSE r.mac
    IN  [t EXCEPT ![key] = Merge(@, r)]

\* A row of a MAC takes over what was known under its address only; any other
\* row at that address loses it, and keeps the state it was seen in.
Upsert(t, r) ==
    LET key == IF r.mac = Nobody THEN KeyByIP(t, r.ip) ELSE r.mac
        prev == IF t[key] = NoRow THEN t[r.ip] ELSE t[key]
        left == [k \in Key |->
                   IF k = r.ip /\ k # key THEN NoRow
                   ELSE IF t[k].ip = r.ip THEN [t[k] EXCEPT !.ip = Nowhere] ELSE t[k]]
    IN  [left EXCEPT ![key] = Merge(prev, r)]

Updated(row, state, member) == [row EXCEPT !.state = state, !.member = member]
UpdateAt(t, a, state, stays) ==
    LET k == KeyByIP(t, a)
    IN  IF t[k] = NoRow THEN t ELSE [t EXCEPT ![k] = Updated(@, state, @.member /\ stays)]
SetNodeState(t, a, state) == UpdateAt(t, a, state, TRUE)
Unassign(t, m, a) ==
    IF t[m] # NoRow THEN [t EXCEPT ![m] = Updated(@, "maintenance", FALSE)]
    ELSE UpdateAt(t, a, "maintenance", FALSE)
RecordNode(t, m, a) == Upsert(t, [mac |-> m, ip |-> a, state |-> "none", member |-> TRUE])

-----------------------------------------------------------------------------
(* The loops. *)

Nothing == [step |-> "idle", todo |-> {}, got |-> {}]
Scanning == [step |-> "scan", todo |-> Subnet, got |-> {}]
Reading(job, found, a) == [job EXCEPT !.todo = @ \ {a}, !.got = @ \cup found]

RecordScan(t, r, vips) == IF r.ip \in vips THEN t ELSE Upsert(t, r)

\* A scan stores what it found one by one, in the order of the addresses.
Found(job) == job.step = "scan" /\ job.todo = {} /\ job.got # {}
Lowest(found) == CHOOSE r \in found : \A x \in found : r.ip <= x.ip
Stored(job) == [job EXCEPT !.got = @ \ {Lowest(@)}]

\* The tick scans for machines in maintenance, ...
TickScan(a) ==
    /\ tick.step = "scan" /\ a \in tick.todo
    /\ tick' = Reading(tick, {r \in Answer(a) : r.state = "maintenance"}, a)
    /\ UNCHANGED <<network, rows, demand, round, missed, late>>

\* Variant: the tick does not reprobe.
ToReprobeNone(t) == {}

ToReprobe(t) == {t[k].ip : k \in {x \in Key : Kind(t[x]) \in {"maintenance", "configured"}}} \ {Nowhere}

TickRecord(vips) ==
    /\ Found(tick)
    /\ rows' = RecordScan(rows, Lowest(tick.got), vips)
    /\ tick' = Stored(tick)
    /\ UNCHANGED <<network, demand, round, missed, late>>

\* ... then it reprobes one after the other the machines listed by then.
TickReprobe ==
    /\ tick.step = "scan" /\ tick.todo = {} /\ tick.got = {}
    /\ tick' = [step |-> "probe", todo |-> ToReprobe(rows), got |-> {}]
    /\ UNCHANGED <<network, rows, demand, round, missed, late>>

TickProbe(a) ==
    /\ tick.step = "probe" /\ a \in tick.todo /\ tick.got = {}
    /\ tick' = Reading(tick, Answer(a), a)
    /\ UNCHANGED <<network, rows, demand, round, missed, late>>

TickStore ==
    /\ tick.step = "probe" /\ tick.got # {}
    /\ rows' = Upsert(rows, Lowest(tick.got))
    /\ tick' = [tick EXCEPT !.got = {}]
    /\ UNCHANGED <<network, demand, round, missed, late>>

TickAgain ==
    /\ tick.step = "probe" /\ tick.todo = {} /\ tick.got = {}
    /\ tick' = Scanning
    /\ UNCHANGED <<network, rows, demand, round, missed, late>>

\* A scan that was asked for keeps the configured machines too.
AskScan ==
    /\ demand = Nothing
    /\ demand' = Scanning
    /\ UNCHANGED <<network, rows, tick, round, missed, late>>

DemandScan(a) ==
    /\ a \in demand.todo
    /\ demand' = Reading(demand, Answer(a), a)
    /\ UNCHANGED <<network, rows, tick, round, missed, late>>

DemandRecord(vips) ==
    /\ Found(demand)
    /\ rows' = RecordScan(rows, Lowest(demand.got), vips)
    /\ demand' = Stored(demand)
    /\ UNCHANGED <<network, tick, round, missed, late>>

DemandDone ==
    /\ demand.step = "scan" /\ demand.todo = {} /\ demand.got = {}
    /\ demand' = Nothing
    /\ UNCHANGED <<network, rows, tick, round, missed, late>>

\* A ping round checks the machines that are no members, all at once, and ends
\* with the answers it stores.
PingRound ==
    /\ round = {} /\ \A r \in late : r.state = "none"
    /\ round' = {[key |-> k, ip |-> rows[k].ip, kind |-> Kind(rows[k])] :
                    k \in {x \in Known(rows) : rows[x].ip # Nowhere /\ ~rows[x].member}}
    /\ UNCHANGED <<network, rows, tick, demand, missed, late>>

MissesOffline == 2
Misses(key, up) ==
    [missed EXCEPT ![key] = IF up THEN 0 ELSE IF @ = MissesOffline THEN @ ELSE @ + 1]

\* A machine that does not answer is counted; one that does again is reprobed.
Pinged(p) ==
    LET up == PortOpen(p.ip)
        back == up /\ p.kind = "offline"
    IN  /\ p.kind # "reprobe"
        /\ round' = (round \ {p}) \cup (IF back THEN {[p EXCEPT !.kind = "reprobe"]} ELSE {})
        /\ missed' = Misses(p.key, up)
        /\ late' = late \cup (IF missed'[p.key] = MissesOffline /\ p.kind # "offline"
                              THEN {Row(Nobody, p.ip, "offline")} ELSE {})
        /\ UNCHANGED <<network, rows, tick, demand>>

Reprobed(p) ==
    /\ p.kind = "reprobe"
    /\ round' = round \ {p}
    /\ late' = late \cup Answer(p.ip)
    /\ UNCHANGED <<network, rows, tick, demand, missed>>

\* What was read is stored: SetNodeState of a machine that is gone, UpsertNode.
Deliver(r) ==
    /\ r \in late
    /\ late' = late \ {r}
    /\ rows' = IF r.state = "offline" THEN SetNodeState(rows, r.ip, "offline") ELSE Upsert(rows, r)
    /\ UNCHANGED <<network, tick, demand, round, missed>>

\* The watcher reads the hardware of a member it reaches at its declared address.
Inspect(m, a) ==
    /\ rows[m] # NoRow /\ mode[m] = "talos" /\ at[m] = a
    /\ late = {}
    /\ late' = {[mac |-> m, ip |-> a, state |-> "none", member |-> FALSE]}
    /\ UNCHANGED <<network, rows, tick, demand, round, missed>>

-----------------------------------------------------------------------------
LoopInit ==
    /\ tick = Scanning /\ demand = Nothing /\ round = {} /\ late = {}
    /\ missed = [k \in Key |-> 0]

TickNext(vips) ==
    \/ TickRecord(vips) \/ TickReprobe \/ TickStore \/ TickAgain
    \/ \E a \in Addr : TickScan(a) \/ TickProbe(a)
DemandNext(vips) == DemandRecord(vips) \/ DemandDone \/ \E a \in Addr : DemandScan(a)
PingNext == PingRound \/ \E p \in round : Pinged(p) \/ Reprobed(p)
LateNext == \E r \in late : Deliver(r)

-----------------------------------------------------------------------------
(* What is promised of the table. *)

TableTypeOK ==
    /\ at \in [Machine -> Addr \cup {Nowhere}]
    /\ mode \in [Machine -> {"off", "booting", "maintenance", "installing", "talos"}]
    /\ rows \in [Key -> [ip : Addr \cup {Nowhere}, member : BOOLEAN,
                         state : {"absent", "none", "maintenance", "configured", "offline"}]]
    /\ missed \in [Key -> 0..MissesOffline]

\* No address is in two rows, whichever answers came late and whoever had it
\* before: the console, the pings and UnassignMachine find a machine by its
\* address.  A row without a MAC is at the address it is kept under, and a row
\* that has only a MAC of its own is never the cluster's virtual address.
OneRowPerAddress ==
    /\ \A j, k \in Known(rows) : rows[j].ip = rows[k].ip /\ rows[j].ip # Nowhere => j = k
    /\ \A a \in Addr : rows[a] # NoRow => rows[a].ip = a
    /\ \A k \in Known(rows) : rows[k].ip # Vip

\* Once the network is quiet for good, the table is right for good: a machine in
\* maintenance is listed, as such and where it is, and what is listed at an
\* address as in maintenance or configured is what answers there.  What has lost
\* its address to another is left out: nothing checks it any more.
TableSettles ==
    <>[](/\ \A m \in Machine : mode[m] = "maintenance" =>
              rows[m] = [ip |-> at[m], member |-> FALSE, state |-> "maintenance"]
         /\ \A k \in Key : Kind(rows[k]) \in {"maintenance", "configured"} /\ rows[k].ip # Nowhere =>
              \E r \in Answer(rows[k].ip) : r.state = Kind(rows[k]))
=============================================================================
