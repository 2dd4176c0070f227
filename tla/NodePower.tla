------------------------------ MODULE NodePower ------------------------------
(***************************************************************************)
(* Shutting nodes down from the console (internal/cluster/power.go         *)
(* ShutdownNodes) and the off marks that keep the watcher from calling a   *)
(* node that was shut down a fault: one in the daemon's memory, one on the *)
(* Node object.  The watcher's ticks, which turn the marks into the status *)
(* "off", and which the handler of the request reads, go on meanwhile.     *)
(*                                                                         *)
(* Any call may fail or lose its answer, the daemon may be restarted       *)
(* between any two steps, nodes crash, boot (by Power on or its button)    *)
(* and miss probes.  The Lease is module ApplyLease's; the daemon runs one *)
(* shutdown of a cluster at a time (startRun).                             *)
(***************************************************************************)
EXTENDS Naturals, FiniteSets

CONSTANTS
    Node, ControlPlane, NoNode,
    Endpoint,      \* the control plane that is the API endpoint; NoNode with a VIP
    MaxRuns,       \* bound on the shutdowns requested
    MaxTrouble     \* bound on what may happen beside them: crashes and boots of
                   \*   nodes, restarts of the daemon, probes that miss a node, calls
                   \*   that fail or lose their answer for no reason the state shows

ASSUME NodeAssumption == ControlPlane \subseteq Node /\ NoNode \notin Node
ASSUME EndpointAssumption == Endpoint \in ControlPlane \cup {NoNode}
ASSUME BoundAssumption == MaxRuns \in Nat /\ MaxTrouble \in Nat

VARIABLES
    machine,  \* "up", "going" (it accepted a shutdown and drains), "down"
    posted,   \* the Node object shows the boot id of the machine's last boot
    mark,     \* the Node object's kubit.dev/off is the boot id it shows
    mem,      \* Manager.off: "none", "marked" (false), "off" (true: seen silent)
    status,   \* the watcher's last status of the cluster
    tick,     \* what the tick that goes on has read
    run,      \* the shutdown that goes on
    task,     \* where shutdownOne is with a node
    how,      \* history: what took a node down: "partial" or "whole" if a run
              \*   that was waiting for it did, "other", or "up"
    early,    \* history: nodes whose mark was seen silent, or that booted, before
              \*   the shutdown it stands for
    runs, trouble  \* how much of each bound is used up

env == <<machine, posted, how>>
daemon == <<status, tick>>
bounds == <<runs, trouble>>
vars == <<machine, posted, mark, mem, status, tick, run, task, how, early, runs, trouble>>

Worker == Node \ ControlPlane
Idle == [at |-> "idle", whole |-> FALSE, sel |-> {}, left |-> {}, down |-> {}, node |-> NoNode]
NoStatus == [known |-> FALSE, off |-> {}, silent |-> {}]
NoTick == [at |-> "idle", reach |-> {}]

Answers(n) == machine[n] # "down"

\* The API needs a majority of the etcd members, and its endpoint.
ApiUp ==
    /\ 2 * Cardinality({n \in ControlPlane : Answers(n)}) > Cardinality(ControlPlane)
    /\ Endpoint # NoNode => Answers(Endpoint)

Works == UNCHANGED trouble
Trouble == trouble < MaxTrouble /\ trouble' = trouble + 1

\* A patch of a Node object: it fails if the API is down, or for another reason.
Annotates(n, on) ==
    \/ ApiUp /\ mark' = [mark EXCEPT ![n] = on] /\ Works
    \/ ~ApiUp /\ UNCHANGED mark /\ Works
    \/ ApiUp /\ UNCHANGED mark /\ Trouble

-----------------------------------------------------------------------------
(* CheckShutdown, for the selection S and the nodes known to be down.  The *)
(* variants after a definition are what the checks of the properties break *)
(* it into.                                                                *)

IsWhole(S, down) == S \cup down = Node

Refused(S, down) ==
    /\ ~IsWhole(S, down)
    /\ \/ Endpoint \in S \ down
       \/ /\ S \cap ControlPlane # {}
          /\ \/ ControlPlane \subseteq S \cup down
             \/ Cardinality(ControlPlane) = 2
             \/ Cardinality(ControlPlane \cap (S \cup down)) > 1

OffNodes == {n \in Node : mem[n] = "off"}

\* Variant: etcd is not asked.
ToleratesAnything(n) == Answers(n)

\* etcdTolerates: not two members, and every one healthy.  A node that drains
\* before it shuts down still runs its member.
Tolerates(n) ==
    n \in ControlPlane =>
        Cardinality(ControlPlane) # 2 /\ \A m \in ControlPlane : Answers(m)

-----------------------------------------------------------------------------
(* The request and the start of its run. *)

\* handleNodePower decides on the last status, however old it is; allUp refuses
\* a node that is off or silent there.
Request ==
    /\ run.at = "idle" /\ status.known
    /\ \E S \in SUBSET Node \ {{}} :
         LET down == OffNodes \cup status.off \cup status.silent IN
         /\ ~Refused(S, down)
         /\ S \cap (status.off \cup status.silent) = {}
         /\ run' = [Idle EXCEPT !.at = "begin", !.whole = IsWhole(S, down),
                                !.sel = S, !.left = S, !.down = down]
    /\ runs < MaxRuns /\ runs' = runs + 1
    /\ UNCHANGED <<env, mark, mem, daemon, task, early, trouble>>

\* With the Lease, the check is made again with the marks of now.
Confirmed ==
    LET gone == OffNodes \cup run.down IN
    ~Refused(run.sel, gone) /\ IsWhole(run.sel, gone) = run.whole

Begin ==
    /\ run.at = "begin" /\ Confirmed
    /\ run' = [run EXCEPT !.at = "next", !.down = {}]
    /\ UNCHANGED <<env, mark, mem, daemon, task, early, bounds>>

\* The run ends with an error before it touches the next node: the Lease, the
\* second check or the etcd check refused it, or could not be made.
GiveUp ==
    /\ \/ run.at = "begin" /\ ~Confirmed /\ Works
       \/ run.at = "check" /\ ~Tolerates(run.node) /\ Works
       \/ run.at \in {"begin", "check"} /\ Trouble
    /\ run' = Idle
    /\ UNCHANGED <<env, mark, mem, daemon, task, early, runs>>

-----------------------------------------------------------------------------
(* Some nodes, one at a time; or every node, marked first. *)

\* workersFirst; every node is marked in the order of the selection.
Take(n) ==
    /\ run.at = "next" /\ n \in run.left
    /\ ~run.whole /\ n \in ControlPlane => run.left \cap Worker = {}
    /\ run' = [run EXCEPT !.node = n, !.left = @ \ {n},
                          !.at = IF run.whole THEN "mark" ELSE "check"]
    /\ UNCHANGED <<env, mark, mem, daemon, task, early, bounds>>

Check ==
    /\ run.at = "check" /\ Tolerates(run.node)
    /\ run' = [run EXCEPT !.at = "mark"]
    /\ UNCHANGED <<env, mark, mem, daemon, task, early, bounds>>

\* markOff: in memory, and on the Node object with the boot id that object shows,
\* if the API takes it.  A tick that goes on may have read the node before.
MarkOff ==
    LET n == run.node IN
    /\ run.at = "mark"
    /\ mem' = [mem EXCEPT ![n] = "marked"]
    /\ Annotates(n, TRUE)
    /\ early' = early \ {n}
    /\ task' = [task EXCEPT ![n] = IF run.whole THEN "none" ELSE "dial"]
    /\ run' = [run EXCEPT !.at = IF run.whole THEN "next" ELSE "node"]
    /\ UNCHANGED <<env, daemon, runs>>

Finished(S) == \A n \in S : task[n] \in {"done", "failed"}
Failed(S) == \E n \in S : task[n] = "failed"

NodeDone ==
    /\ run.at = "node" /\ Finished({run.node})
    /\ run' = IF Failed({run.node}) THEN Idle ELSE [run EXCEPT !.at = "next"]
    /\ UNCHANGED <<env, mark, mem, daemon, task, early, bounds>>

\* shutdownAll of some of the selected nodes, in parallel.
ShutdownAll(S, at) ==
    /\ task' = [n \in Node |-> IF n \in S THEN "dial" ELSE task[n]]
    /\ run' = [run EXCEPT !.at = at]

AllMarked ==
    /\ run.at = "next" /\ run.left = {}
    /\ IF run.whole
       THEN ShutdownAll(run.sel \cap Worker, "workers")
       ELSE run' = Idle /\ UNCHANGED task
    /\ UNCHANGED <<env, mark, mem, daemon, early, bounds>>

\* Variant: the control planes keep the marks they got before the workers.
WorkersDoneKeepsMarks ==
    /\ run.at = "workers" /\ Finished(run.sel \cap Worker)
    /\ IF Failed(run.sel \cap Worker)
       THEN run' = Idle /\ UNCHANGED task
       ELSE ShutdownAll(run.sel \cap ControlPlane, "cps")
    /\ UNCHANGED <<env, mark, mem, daemon, early, bounds>>

\* If a worker failed, the control planes stay up and lose their marks.
WorkersDone ==
    /\ run.at = "workers" /\ Finished(run.sel \cap Worker)
    /\ IF Failed(run.sel \cap Worker)
       THEN /\ task' = [n \in Node |-> IF n \in run.sel \cap ControlPlane
                                         THEN "unmark" ELSE task[n]]
            /\ run' = [run EXCEPT !.at = "cps"]
       ELSE ShutdownAll(run.sel \cap ControlPlane, "cps")
    /\ UNCHANGED <<env, mark, mem, daemon, early, bounds>>

ControlPlanesDone ==
    /\ run.at = "cps" /\ Finished(run.sel \cap ControlPlane)
    /\ run' = Idle
    /\ UNCHANGED <<env, mark, mem, daemon, task, early, bounds>>

-----------------------------------------------------------------------------
(* shutdownOne. *)

Goto(n, at) == task' = [task EXCEPT ![n] = at]

\* Talos accepts the shutdown; its answer may be lost.
Shutdown(n) ==
    /\ task[n] = "dial" /\ Answers(n)
    /\ machine' = [machine EXCEPT ![n] = "going"]
    /\ (Goto(n, "wait") /\ Works) \/ (Goto(n, "unmark") /\ Trouble)
    /\ UNCHANGED <<posted, how, mark, mem, daemon, run, early, runs>>

ShutdownFails(n) ==
    /\ task[n] = "dial"
    /\ IF Answers(n) THEN Trouble ELSE Works
    /\ Goto(n, "unmark")
    /\ UNCHANGED <<env, mark, mem, daemon, run, early, runs>>

\* WaitDown: the port is closed, or the time is over.
WaitDown(n) ==
    /\ task[n] = "wait"
    /\ \/ ~Answers(n) /\ Goto(n, "done") /\ Works
       \/ Goto(n, "unmark") /\ Trouble
    /\ UNCHANGED <<env, mark, mem, daemon, run, early, runs>>

\* unmarkOff; an error of ClearOff is ignored.
UnmarkOff(n) ==
    /\ task[n] = "unmark"
    /\ mem' = [mem EXCEPT ![n] = "none"]
    /\ Annotates(n, FALSE)
    /\ Goto(n, "failed")
    /\ UNCHANGED <<env, daemon, run, early, runs>>

-----------------------------------------------------------------------------
(* The watcher's tick: the nodes are probed, then the answers are compared *)
(* with the marks in memory and those of the Node objects, if the API      *)
(* answers.                                                                *)

TickReads ==
    /\ tick.at = "idle"
    /\ LET reachable == {n \in Node : Answers(n)} IN
       \/ tick' = [at |-> "read", reach |-> reachable] /\ Works
       \/ /\ \E n \in reachable : tick' = [at |-> "read", reach |-> reachable \ {n}]
          /\ Trouble
    /\ UNCHANGED <<env, mark, mem, status, run, task, early, runs>>

\* Variant: any answer takes the mark away.
OffSeenOnce(n, reachable) ==
    IF mem[n] = "none" THEN "none" ELSE IF reachable THEN "none" ELSE "off"

\* offSeen: what the memory holds of the node afterwards.
OffSeen(n, reachable) ==
    IF mem[n] = "none" THEN "none"
    ELSE IF ~reachable THEN "off"
    ELSE IF mem[n] = "off" THEN "none" ELSE mem[n]

TickApplies ==
    LET seen == [n \in Node |-> OffSeen(n, n \in tick.reach)]
        silent == Node \ tick.reach
        off == {n \in silent : seen[n] = "off" \/ (ApiUp /\ mark[n])} IN
    /\ tick.at = "read"
    /\ mem' = seen
    /\ status' = [known |-> TRUE, off |-> off, silent |-> silent]
    /\ tick' = NoTick
    /\ early' = early \cup {n \in silent : mem[n] = "marked" /\ Answers(n)}
    /\ UNCHANGED <<env, mark, run, task, bounds>>

\* The daemon is restarted: its runs die, its memory is lost.
Restart ==
    /\ Trouble
    /\ mem' = [n \in Node |-> "none"]
    /\ status' = NoStatus /\ tick' = NoTick /\ run' = Idle
    /\ task' = [n \in Node |-> "none"]
    /\ early' = {}
    /\ UNCHANGED <<env, mark, runs>>

-----------------------------------------------------------------------------
(* The machines. *)

\* A node that accepted a shutdown has drained.
GoesDown(n) ==
    /\ machine[n] = "going"
    /\ machine' = [machine EXCEPT ![n] = "down"]
    /\ how' = [how EXCEPT ![n] = IF task[n] # "wait" THEN "other"
                                 ELSE IF run.whole THEN "whole" ELSE "partial"]
    /\ UNCHANGED <<posted, mark, mem, daemon, run, task, early, bounds>>

Crashes(n) ==
    /\ machine[n] = "up"
    /\ machine' = [machine EXCEPT ![n] = "down"]
    /\ how' = [how EXCEPT ![n] = "other"]
    /\ Trouble
    /\ UNCHANGED <<posted, mark, mem, daemon, run, task, early, runs>>

Boots(n) ==
    /\ machine[n] = "down"
    /\ machine' = [machine EXCEPT ![n] = "up"]
    /\ posted' = [posted EXCEPT ![n] = FALSE]
    /\ how' = [how EXCEPT ![n] = "up"]
    /\ early' = IF mem[n] # "none" /\ task[n] # "done" THEN early \cup {n} ELSE early
    /\ Trouble
    /\ UNCHANGED <<mark, mem, daemon, run, task, runs>>

\* The kubelet posts its new boot id: a mark of the boot before says nothing.
KubeletPosts(n) ==
    /\ machine[n] = "up" /\ ~posted[n] /\ ApiUp
    /\ posted' = [posted EXCEPT ![n] = TRUE]
    /\ mark' = [mark EXCEPT ![n] = FALSE]
    /\ UNCHANGED <<machine, how, mem, daemon, run, task, early, bounds>>

ShutdownOne(n) == Shutdown(n) \/ ShutdownFails(n) \/ WaitDown(n) \/ UnmarkOff(n)

Next ==
    \/ Request \/ Begin \/ GiveUp
    \/ \E n \in Node : Take(n) \/ ShutdownOne(n)
    \/ Check \/ MarkOff \/ NodeDone
    \/ AllMarked \/ WorkersDone \/ ControlPlanesDone
    \/ TickReads \/ TickApplies \/ Restart
    \/ \E n \in Node : GoesDown(n) \/ Crashes(n) \/ Boots(n) \/ KubeletPosts(n)

Init ==
    /\ machine = [n \in Node |-> "up"]
    /\ posted = [n \in Node |-> TRUE]
    /\ mark = [n \in Node |-> FALSE]
    /\ mem = [n \in Node |-> "none"]
    /\ status = NoStatus /\ tick = NoTick /\ run = Idle
    /\ task = [n \in Node |-> "none"]
    /\ how = [n \in Node |-> "up"]
    /\ early = {}
    /\ runs = 0 /\ trouble = 0

Spec == Init /\ [][Next]_vars

-----------------------------------------------------------------------------
(* Properties. *)

Places == {"idle", "begin", "next", "check", "mark", "node", "workers", "cps"}
Tasks == {"none", "dial", "wait", "unmark", "done", "failed"}

Run == [at : Places, whole : BOOLEAN, sel : SUBSET Node, left : SUBSET Node,
        down : SUBSET Node, node : Node \cup {NoNode}]

\* The types of the state; a run that is at a node has one, and only a
\* tick that goes on has read anything.
TypeOK ==
    /\ machine \in [Node -> {"up", "going", "down"}]
    /\ posted \in [Node -> BOOLEAN] /\ mark \in [Node -> BOOLEAN]
    /\ mem \in [Node -> {"none", "marked", "off"}]
    /\ status \in [known : BOOLEAN, off : SUBSET Node, silent : SUBSET Node]
    /\ status.off \subseteq status.silent
    /\ tick \in [at : {"idle", "read"}, reach : SUBSET Node]
    /\ tick.at = "idle" => tick = NoTick
    /\ run \in Run
    /\ run.left \subseteq run.sel
    /\ run.at \in {"check", "mark", "node"} => run.node \in run.sel \ run.left
    /\ task \in [Node -> Tasks]
    /\ how \in [Node -> {"up", "partial", "whole", "other"}]
    /\ early \subseteq Node
    /\ runs \in 0..MaxRuns /\ trouble \in 0..MaxTrouble

\* docs/operations.md:164 "Refused when more than one control plane would be
\* down": shutdowns of some nodes never take down two control planes between
\* them, although each is decided on a status that may be older than the last
\* one.  (A node that went down after its run had given it up is not counted.)
OnePartialDown == Cardinality({n \in ControlPlane : how[n] = "partial"}) <= 1

\* When no run goes on, the daemon remembers as shut down only nodes whose
\* shutdown it saw done: a node that stayed up, or whose shutdown failed, is
\* not kept quiet, whatever a tick read before the mark was taken back.
MarksMeanShutdown ==
    run.at = "idle" => \A n \in Node : mem[n] # "none" => task[n] = "done"

\* docs/operations.md:176 "the daemon remembers it too: the node shows off": a
\* node that a run saw go down stays marked until it boots, over ticks that
\* still reached it while it drained.  (`early`: one of them missed it then.)
ShutDownStaysMarked ==
    \A n \in Node :
        (task[n] = "done" /\ how[n] \in {"partial", "whole"} /\ n \notin early) => mem[n] # "none"

=============================================================================
