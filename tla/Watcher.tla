------------------------------- MODULE Watcher -------------------------------
(***************************************************************************)
(* The health watcher's loop for one cluster (internal/watch): a tick      *)
(* reads the cluster's status, decides whether it may be judged, counts    *)
(* each fault (confirm.go) and opens or resolves alerts (alerts.go).       *)
(*                                                                         *)
(* What a tick reads is arbitrary: nodes, the API, etcd and the observer's *)
(* own network come and go between ticks.  Events that are only logged     *)
(* (Derive) and the samples are left out.  So is Seed, which the daemon    *)
(* never reaches: a confirm is made by the first tick, before which no     *)
(* alert of the cluster can be open, and both go with the process.         *)
(***************************************************************************)
EXTENDS Naturals, FiniteSets

CONSTANTS
    Node,          \* hostnames of the declared nodes
    NoNode,        \* the node of a fault of the whole cluster
    confirmAfter,  \* ticks a fault must hold
    offlineAfter,  \* ticks the observer must be blind
    Kind           \* kinds of fault an instance follows

ASSUME NodeAssumption == NoNode \notin Node /\ Node # {}
ASSUME CountAssumption == confirmAfter \in Nat \ {0} /\ offlineAfter \in Nat \ {0}
ASSUME KindAssumption ==
    Kind \subseteq {"talos.unreachable", "node.notready", "api.unreachable", "etcd.unhealthy"}

VARIABLES
    mode,          \* the store's state of the cluster: "bootstrapped", "ready"
    ticked,        \* this process has ticked
    lastNet,       \* the last status' observer was online
    started, bad, open, quiet,  \* the confirm of this cluster
    alert,         \* alert[k]: "closed", or open and "loud" (webhooked) or "silent"
    online, offlineTicks,       \* the observer
    held,          \* history: judged ticks in a row that saw k
    origin         \* history: "start", every judged tick of this process saw k;
                   \*   "back", the first did and a later one did not; "new"

confirm == <<started, bad, open, quiet>>
observer == <<online, offlineTicks>>
history == <<held, origin>>
vars == <<mode, ticked, lastNet, confirm, alert, observer, history>>

\* confirm counts every fault by itself, so an instance may follow a few.
Key == {k \in ({"talos.unreachable", "node.notready"} \X Node)
                  \cup ({"api.unreachable", "etcd.unhealthy"} \X {NoNode}) : k[1] \in Kind}

\* What Manager.Status reports.  `ready` is what the kubelets are; the API must
\* answer for the watcher to know.  A node Kubit shut down is off until it
\* answers again; a machine without a network reaches nothing.
Status ==
    {s \in [up : SUBSET Node, ready : SUBSET Node, off : SUBSET Node,
            api : BOOLEAN, etcd : BOOLEAN, net : BOOLEAN] :
        /\ s.off \cap s.up = {}
        /\ ~s.net => (~s.api /\ s.up = {})
        /\ s.etcd => s.up # {}
        /\ "talos.unreachable" \in Kind \/ s.up \in {{}, Node \ s.off}
        /\ "node.notready" \in Kind \/ s.ready = Node
        /\ "etcd.unhealthy" \in Kind \/ ~s.etcd}

AllOff(s) == s.off = Node

\* badFacts.
Holds(k, s) ==
    CASE k[1] = "talos.unreachable" -> k[2] \notin s.off \cup s.up
      [] k[1] = "node.notready" -> k[2] \notin s.off \cup s.ready /\ s.api
      [] k[1] = "api.unreachable" -> ~s.api
      [] k[1] = "etcd.unhealthy" -> ~s.etcd

BadFacts(s) == IF AllOff(s) THEN {} ELSE {k \in Key : Holds(k, s)}

\* A count saturates where it stops mattering.
More(n, most) == IF n < most THEN n + 1 ELSE n

-----------------------------------------------------------------------------
(* confirm: Reset and Apply, and the alerts Apply's transitions change.      *)

\* Variant: a pause that forgets nothing.
ResetNothing == UNCHANGED <<bad, started, open, quiet, alert>>

\* Variant: a pause forgets which faults were there from the start.
ResetAll ==
    /\ bad' = [k \in Key |-> 0] /\ quiet' = {}
    /\ UNCHANGED <<started, open, alert>>

Reset ==
    /\ bad' = [k \in Key |-> 0]
    /\ UNCHANGED <<started, open, quiet, alert>>

\* The first Apply of a process marks the faults it finds.
Quieted(facts) == IF started THEN quiet ELSE facts

Count(k, facts) == IF k \in facts THEN More(bad[k], confirmAfter) ELSE 0

\* Variant: one tick too late.
RaisesLate(k, facts) == k \in facts /\ k \notin open /\ Count(k, facts) > confirmAfter

Raises(k, facts) == k \in facts /\ k \notin open /\ Count(k, facts) >= confirmAfter

\* A fault that is gone resolves, unless its node was shut down.
Resolves(k, facts, off) == k \in open /\ k \notin facts /\ k[2] \notin off

Apply(facts, off) ==
    /\ started' = TRUE
    /\ bad' = [k \in Key |-> Count(k, facts)]
    /\ quiet' = {k \in Quieted(facts) : k \in facts \/ bad[k] = 0}
    /\ open' = {k \in Key :
           Raises(k, facts) \/ (k \in open /\ ~Resolves(k, facts, off))}
    /\ alert' = [k \in Key |->
           CASE Raises(k, facts) -> IF k \in Quieted(facts) THEN "silent" ELSE "loud"
             [] Resolves(k, facts, off) -> "closed"
             [] OTHER -> alert[k]]

-----------------------------------------------------------------------------
(* tick *)

\* noteOffline, noteOnline, resetOffline.
NoteObserver(s, gap) ==
    \/ gap /\ offlineTicks' = 0 /\ UNCHANGED online
    \/ /\ ~gap /\ ~s.net
       /\ offlineTicks' = More(offlineTicks, offlineAfter)
       /\ online' = (online /\ More(offlineTicks, offlineAfter) < offlineAfter)
    \/ ~gap /\ s.net /\ offlineTicks' = 0 /\ online' = TRUE

\* What every tick does.  gap: the last tick ended too long ago, or this one
\* took too long.
Observe(s, gap) ==
    /\ ~ticked => ~gap
    /\ ticked' = TRUE
    /\ lastNet' = s.net
    /\ NoteObserver(s, gap)
    /\ UNCHANGED mode

\* A cluster that is not ready is not judged, and nothing is forgotten.
TickSkipped(s, gap) ==
    /\ mode # "ready"
    /\ Observe(s, gap)
    /\ UNCHANGED <<confirm, alert, history>>

Unjudged(s, gap) ==
    /\ mode = "ready"
    /\ Observe(s, gap)
    /\ Reset
    /\ held' = [k \in Key |-> 0]
    /\ UNCHANGED origin

TickOffline(s, gap) == ~s.net /\ Unjudged(s, gap)

TickOff(s, gap) == s.net /\ AllOff(s) /\ Unjudged(s, gap)

\* The first status after a pause, or after the observer was offline.
TickGap(s, gap) ==
    /\ s.net /\ ~AllOff(s)
    /\ gap \/ ~lastNet
    /\ Unjudged(s, gap)

Comparable(s, gap) == s.net /\ ~AllOff(s) /\ ~gap /\ lastNet

\* ApplyQuiet: an apply holds its Lease or released it a moment ago.
TickQuiet(s, gap) ==
    /\ Comparable(s, gap)
    /\ BadFacts(s) # {}
    /\ Unjudged(s, gap)

TickJudged(s, gap) ==
    /\ mode = "ready"
    /\ Comparable(s, gap)
    /\ Observe(s, gap)
    /\ \E facts \in {BadFacts(s)} :
           /\ Apply(facts, s.off)
           /\ held' = [k \in Key |-> IF k \in facts THEN More(held[k], confirmAfter) ELSE 0]
           /\ origin' = [k \in Key |->
                  IF k \in facts \/ origin[k] # "start" THEN origin[k]
                  ELSE IF started THEN "back" ELSE "new"]

Tick == \E s \in Status, gap \in BOOLEAN :
    \/ TickSkipped(s, gap) \/ TickOffline(s, gap) \/ TickOff(s, gap)
    \/ TickGap(s, gap) \/ TickQuiet(s, gap) \/ TickJudged(s, gap)

\* Track, whenever the repository is loaded again: a cluster whose API does
\* not answer at that moment is "bootstrapped", however long it was ready.
Track ==
    /\ \E answers \in BOOLEAN : mode' = IF answers THEN "ready" ELSE "bootstrapped"
    /\ UNCHANGED <<ticked, lastNet, confirm, alert, observer, history>>

Zero == [k \in Key |-> 0]
Unseen == [k \in Key |-> "start"]

\* The daemon dies and starts: alerts live only in its memory.
Restart ==
    /\ mode' \in {"bootstrapped", "ready"}
    /\ ticked' = FALSE /\ lastNet' = TRUE
    /\ started' = FALSE /\ bad' = Zero /\ open' = {} /\ quiet' = {}
    /\ alert' = [k \in Key |-> "closed"]
    /\ online' = TRUE /\ offlineTicks' = 0
    /\ held' = Zero /\ origin' = Unseen

Next == Tick \/ Track \/ Restart

Init ==
    /\ mode \in {"bootstrapped", "ready"}
    /\ ticked = FALSE /\ lastNet = TRUE
    /\ started = FALSE /\ bad = Zero /\ open = {} /\ quiet = {}
    /\ alert = [k \in Key |-> "closed"]
    /\ online = TRUE /\ offlineTicks = 0
    /\ held = Zero /\ origin = Unseen

Spec == Init /\ [][Next]_vars

-----------------------------------------------------------------------------
(* Properties. *)

TypeOK ==
    /\ mode \in {"bootstrapped", "ready"}
    /\ ticked \in BOOLEAN /\ lastNet \in BOOLEAN
    /\ started \in BOOLEAN
    /\ bad \in [Key -> 0..confirmAfter]
    /\ open \subseteq Key /\ quiet \subseteq Key
    /\ alert \in [Key -> {"closed", "silent", "loud"}]
    /\ online \in BOOLEAN /\ offlineTicks \in 0..offlineAfter
    /\ held \in [Key -> 0..confirmAfter] /\ origin \in [Key -> {"start", "back", "new"}]

\* Opening an alert takes a fault seen by confirmAfter ticks of the ready
\* cluster in a row, with no pause, no blind, off or quiet tick in between.
RaisedOnlyConfirmed ==
    [][\A k \in Key :
        (alert[k] = "closed" /\ alert'[k] # "closed") => held'[k] >= confirmAfter]_vars

\* Faults that were there when the daemon started open without a webhook, and
\* only such: an alert of a fault that every judged tick of this process saw is
\* silent, however many pauses, blind ticks and applies came before it was
\* confirmed, and one of a fault that the first judged tick did not see is not.
\* (After a fault of the start was gone once, the code may do either.)
WebhooksTellNews ==
    [][\A k \in Key : (alert[k] = "closed" /\ alert'[k] # "closed") =>
          /\ origin'[k] = "start" => alert'[k] = "silent"
          /\ origin'[k] = "new" => alert'[k] = "loud"]_vars

\* A fault that confirmAfter judged ticks in a row saw is open, and stays open
\* through pauses and blind ticks until it is seen gone.
HeldFaultIsAlerted == \A k \in Key : held[k] >= confirmAfter => alert[k] # "closed"

=============================================================================
