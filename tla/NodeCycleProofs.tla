--------------------------- MODULE NodeCycleProofs ---------------------------
(***************************************************************************)
(* Proofs about taking nodes down one at a time (module NodeCycle), for    *)
(* any set of nodes, any control planes among them and any number of runs, *)
(* of users' commands and of machines that fail: an upgrade that ends      *)
(* upgraded everything, no drained member is rebooted on top of one that   *)
(* the checks could have seen down, and a cordon goes back to whose it is. *)
(***************************************************************************)
EXTENDS NodeCycle, TLAPS

-----------------------------------------------------------------------------
(* The inductive invariant. *)

\* Places of a cycle that has passed its etcd check and has not rebooted yet.
Checked == {"install", "recheck", "hold", "mark", "cordon", "evict", "reboot"}
\* Those after the new Talos was installed, and those after its reboot.
Staged == Checked \ {"install"}
Rebooted == {"talos", "ready", "etcd", "config", "finish", "unmark"}
\* Those at which the run knows whose the node's cordon is.
Settled == {"mark", "cordon", "evict", "reboot", "undo", "undomark"}

\* What the check of a control plane saw still holds when it is rebooted, but for
\* the members that failed by themselves.
OthersFailedSince ==
    (run.at \in Checked /\ n0 \in ControlPlane) => \A m \in ControlPlane : etcd[m] \/ m \in lost

\* An upgrade has the nodes that are not upgraded still before it, or under it.
OldAreBehind ==
    (run.at # "idle" /\ run.kind = "upgrade") =>
        \A n \in Node : version[n] = "old" =>
            /\ n \in run.behind
            /\ n \in run.todo \/ (n = n0 /\ run.at \notin Rebooted \cup {"next"})

\* What an upgrade is about to boot is the new Talos; a node that failed after the
\* install runs it already.
StagedBoots ==
    (run.at \in Staged /\ run.kind = "upgrade") => installed[n0] \/ version[n0] = "new"

\* A node that is already upgraded is not drained.
AlreadyOnlyConfigures == run.already => run.at \in Rebooted \cup {"idle", "next"}

\* A user's cordon is seen only by the cycle's hold, and bears no mark.
UsersBearsNoMark ==
    run.hold = "user" =>
        /\ run.at \notin {"check", "install", "recheck", "hold", "mark"}
        /\ n0 \in Node /\ by[n0] = ""

\* A cordon that is a user's is there, unmarked, and the run at its node knows.
CleanIsTheirs ==
    \A n \in Node : asked[n] = "clean" =>
        /\ unsched[n] /\ by[n] = ""
        /\ (n = n0 /\ run.at \in Settled \cup Rebooted) => (run.hold = "user" \/ run.already)

IInv ==
    /\ TypeOK
    /\ FinishedIsUpgraded
    /\ OthersFailedSince
    /\ OldAreBehind
    /\ StagedBoots
    /\ AlreadyOnlyConfigures
    /\ UsersBearsNoMark
    /\ CleanIsTheirs

-----------------------------------------------------------------------------
(* What a step makes of the run. *)

\* A counter below its bound.
LEMMA CountsUp == ASSUME NEW Max \in Nat, NEW k \in 0..Max, k < Max PROVE k + 1 \in 0..Max
  OBVIOUS

\* The fields no step inside a cycle changes, but for Hold.
Same == /\ run'.kind = run.kind /\ run'.node = run.node /\ run'.todo = run.todo
        /\ run'.behind = run.behind /\ run'.already = run.already

Moves(at) == run' \in Run /\ run'.at = at /\ Same /\ run'.hold = run.hold

Stops ==
    /\ run' \in Run /\ run'.at = "idle" /\ run'.kind = "restart" /\ run'.node = NoNode
    /\ ~run'.already /\ run'.hold = "kubit"

\* Going to another place of the cycle.
LEMMA GotoMoves == ASSUME TypeOK, NEW at \in Places, Goto(at) PROVE Moves(at)
  BY DEF Goto, Moves, Same, Run, TypeOK

\* The end of a run.
LEMMA IdleStops == ASSUME run' = Idle PROVE Stops
  BY NodeAssumption DEF Idle, Stops, Run, Places

\* A restart begins with the nodes the user chose.
LEMMA BeginsRestart ==
    ASSUME StartRestart
    PROVE  /\ run' \in Run /\ run'.at = "next" /\ run'.kind = "restart" /\ run'.node = NoNode
           /\ ~run'.already /\ run'.hold = "kubit"
  <1>1. PICK S \in SUBSET Node : run' = [Idle EXCEPT !.at = "next", !.todo = S]
        BY DEF StartRestart
  <1>. QED
        BY <1>1, NodeAssumption DEF Idle, Run, Places

\* An upgrade begins with every node to do.
LEMMA BeginsUpgrade ==
    ASSUME StartUpgrade
    PROVE  /\ run' \in Run /\ run'.at = "next" /\ run'.kind = "upgrade" /\ run'.node = NoNode
           /\ run'.todo = Node /\ run'.behind = {n \in Node : version[n] = "old"}
           /\ ~run'.already /\ run'.hold = "kubit"
  BY NodeAssumption DEF StartUpgrade, Idle, Run, Places

\* The next node is taken.
LEMMA TakeIs ==
    ASSUME TypeOK, NEW n \in Node, NEW at \in {"check", "config"}, Take(n, at)
    PROVE  /\ run' \in Run /\ run'.at = at /\ run'.kind = run.kind /\ run'.node = n
           /\ run'.todo = run.todo \ {n} /\ run'.behind = run.behind
           /\ run'.already = (at = "config") /\ run'.hold = "kubit"
  BY DEF Take, TypeOK, Run, Places

\* A node is passed over.
LEMMA SkipIs ==
    ASSUME TypeOK, NEW n \in Node, NextSkips(n)
    PROVE  /\ run' \in Run /\ run'.at = "next" /\ run'.kind = run.kind /\ run'.node = run.node
           /\ run'.todo = run.todo \ {n} /\ run'.behind = run.behind
           /\ run'.already = run.already /\ run'.hold = run.hold
  BY DEF NextSkips, TypeOK, Run, Places

\* Noting the boot and going on.
LEMMA NoteMoves ==
    ASSUME NEW r \in Run, NEW s \in NoteBoot(r), NEW at \in Places, run' = [s EXCEPT !.at = at]
    PROVE  /\ run' \in Run /\ run'.at = at /\ run'.kind = r.kind /\ run'.node = r.node
           /\ run'.todo = r.todo /\ run'.behind = r.behind /\ run'.already = r.already
           /\ run'.hold = r.hold
  BY DEF NoteBoot, Run

\* The kubelet's post may differ from the boot noted.
LEMMA PostIs ==
    ASSUME TypeOK, NEW n \in Node, KubeletPosts(n)
    PROVE  /\ run' \in Run /\ run'.at = run.at /\ Same /\ run'.hold = run.hold
           /\ run'.kind = run.kind /\ run'.node = run.node /\ run'.todo = run.todo
           /\ run'.behind = run.behind /\ run'.already = run.already
  BY DEF KubeletPosts, Same, TypeOK, Run

\* Where each step of a cycle leads.
LEMMA CycleMoves ==
    ASSUME TypeOK
    PROVE  /\ Install => Moves("recheck") \/ Stops
           /\ Recheck => Moves("hold")
           /\ Mark => Moves("cordon") \/ Stops
           /\ CordonFails => Moves("undo")
           /\ Evict => Moves("reboot") \/ Moves("undo")
           /\ Reboot => Moves("talos") \/ Moves("undo")
           /\ RebootFails => Moves("undo")
           /\ TalosBack => Moves("ready")
           /\ KubeletBack => Moves("etcd") \/ Moves("config") \/ Moves("finish")
           /\ EtcdBack => Moves("config") \/ Moves("finish")
           /\ Config => Moves("finish")
           /\ LeaveCordon => Moves("next")
           /\ Uncordon => Moves("unmark") \/ Stops
           /\ Unmark => Moves("next") \/ Stops
           /\ Undo => Moves("undomark") \/ Stops
           /\ UndoMark => Stops
           /\ Ends => Stops
           /\ Finish => Stops
           /\ Check => IF run.kind = "upgrade" THEN Moves("install") ELSE Moves("hold")
           /\ (Hold /\ ~OfUser(n0)) => Moves("mark")
           /\ (Hold /\ OfUser(n0)) =>
                  (run' \in Run /\ run'.at = "cordon" /\ Same /\ run'.hold = "user")
           /\ Cordon => Moves("evict") \/ Moves("undo")
           /\ ConfigReboots => Moves("talos")
  <1>1. Install => Moves("recheck") \/ Stops
        BY GotoMoves, IdleStops DEF Install, Abandon, Places
  <1>2. Recheck => Moves("hold")
        BY GotoMoves DEF Recheck, Places
  <1>3. Mark => Moves("cordon") \/ Stops
        BY GotoMoves, IdleStops DEF Mark, Abandon, Places
  <1>4. CordonFails => Moves("undo")
        BY GotoMoves DEF CordonFails, Places
  <1>5. Evict => Moves("reboot") \/ Moves("undo")
        BY GotoMoves DEF Evict, Places
  <1>6. Reboot => Moves("talos") \/ Moves("undo")
        BY GotoMoves DEF Reboot, Places
  <1>7. RebootFails => Moves("undo")
        BY GotoMoves DEF RebootFails, Places
  <1>8. TalosBack => Moves("ready")
        BY GotoMoves DEF TalosBack, Places
  <1>9. KubeletBack => Moves("etcd") \/ Moves("config") \/ Moves("finish")
        BY GotoMoves DEF KubeletBack, Places, Waited
  <1>10. EtcdBack => Moves("config") \/ Moves("finish")
        BY GotoMoves DEF EtcdBack, Places, Waited
  <1>11. Config => Moves("finish")
        BY GotoMoves DEF Config, Places
  <1>12. LeaveCordon => Moves("next")
        BY GotoMoves DEF LeaveCordon, Places
  <1>13. Uncordon => Moves("unmark") \/ Stops
        BY GotoMoves, IdleStops DEF Uncordon, Abandon, Places
  <1>14. Unmark => Moves("next") \/ Stops
        BY GotoMoves, IdleStops DEF Unmark, Abandon, Places
  <1>15. Undo => Moves("undomark") \/ Stops
        BY GotoMoves, IdleStops DEF Undo, Abandon, Places
  <1>16. UndoMark => Stops
        BY IdleStops DEF UndoMark, Abandon
  <1>17. Ends => Stops
        BY IdleStops DEF Ends, Abandon
  <1>18. Finish => Stops
        BY IdleStops DEF Finish
  <1>19. Check => IF run.kind = "upgrade" THEN Moves("install") ELSE Moves("hold")
        BY GotoMoves DEF Check, Places
  <1>20. ASSUME Hold, ~OfUser(n0) PROVE Moves("mark")
    <2>1. Goto("mark")
          BY <1>20 DEF Hold
    <2>. QED
          BY <2>1, GotoMoves DEF Places
  <1>21. ASSUME Hold, OfUser(n0)
        PROVE  run' \in Run /\ run'.at = "cordon" /\ Same /\ run'.hold = "user"
    <2>1. run' = [run EXCEPT !.at = "cordon", !.hold = "user"]
          BY <1>21 DEF Hold
    <2>. QED
          BY <2>1 DEF TypeOK, Run, Places, Same
  <1>22. Cordon => Moves("evict") \/ Moves("undo")
    <2> SUFFICES ASSUME Cordon PROVE Moves("evict") \/ Moves("undo")
        OBVIOUS
    <2>1. PICK r \in NoteBoot(run), at \in {"evict", "undo"} : run' = [r EXCEPT !.at = at]
          BY DEF Cordon
    <2>2. run \in Run /\ at \in Places
          BY DEF TypeOK, Places
    <2>. QED
          BY <2>1, <2>2, NoteMoves DEF Moves, Same
  <1>23. ConfigReboots => Moves("talos")
    <2>1. [run EXCEPT !.phase = "config"] \in Run
          BY DEF TypeOK, Run
    <2>2. /\ [run EXCEPT !.phase = "config"].kind = run.kind
          /\ [run EXCEPT !.phase = "config"].node = run.node
          /\ [run EXCEPT !.phase = "config"].todo = run.todo
          /\ [run EXCEPT !.phase = "config"].behind = run.behind
          /\ [run EXCEPT !.phase = "config"].already = run.already
          /\ [run EXCEPT !.phase = "config"].hold = run.hold
          BY DEF TypeOK, Run
    <2>. QED
          BY <2>1, <2>2, NoteMoves DEF ConfigReboots, Places, Moves, Same
  <1>. QED
        BY <1>1, <1>2, <1>3, <1>4, <1>5, <1>6, <1>7, <1>8, <1>9, <1>10, <1>11, <1>12,
           <1>13, <1>14, <1>15, <1>16, <1>17, <1>18, <1>19, <1>20, <1>21, <1>22, <1>23

-----------------------------------------------------------------------------
(* Initial states, and types. *)

\* The first state satisfies the invariant.
LEMMA InitIInv == Init => IInv
  <1> SUFFICES ASSUME Init PROVE IInv
      OBVIOUS
  <1>1. /\ Idle \in Run /\ Idle.at = "idle" /\ Idle.kind = "restart" /\ Idle.node = NoNode
        /\ ~Idle.already /\ Idle.hold = "kubit"
        BY NodeAssumption DEF Idle, Run, Places
  <1>2. etcd \in [Node -> BOOLEAN]
    <2>1. etcd = [n \in Node |-> n \in ControlPlane]
          BY DEF Init
    <2>. QED
          BY <2>1
  <1>3. 0 \in 0..MaxRuns /\ 0 \in 0..MaxKubectl /\ 0 \in 0..MaxFailures
        BY BoundAssumption
  <1>4. TypeOK
        BY <1>1, <1>2, <1>3 DEF Init, TypeOK
  <1>. QED
        BY <1>1, <1>4, NodeAssumption
        DEF Init, IInv, FinishedIsUpgraded, OthersFailedSince, OldAreBehind, StagedBoots,
            AlreadyOnlyConfigures, UsersBearsNoMark, CleanIsTheirs,
            Checked, Staged, Rebooted, Settled

\* Every step keeps the types.
LEMMA TypeOKStep == TypeOK /\ [Next]_vars => TypeOK'
  <1> SUFFICES ASSUME TypeOK, [Next]_vars PROVE TypeOK'
      OBVIOUS
  <1> USE NodeAssumption, BoundAssumption DEF TypeOK, n0
  <1>1. CASE StartRestart
    <2>1. runs < MaxRuns /\ runs \in 0..MaxRuns
          BY <1>1 DEF StartRestart
    <2>2. runs' \in 0..MaxRuns
          BY <1>1, <2>1, CountsUp DEF StartRestart
    <2>. QED
          BY <1>1, <2>2, BeginsRestart DEF StartRestart, cordon, machine, faults
  <1>2. CASE StartUpgrade
    <2>1. runs < MaxRuns /\ runs \in 0..MaxRuns
          BY <1>2 DEF StartUpgrade
    <2>2. runs' \in 0..MaxRuns
          BY <1>2, <2>1, CountsUp DEF StartUpgrade
    <2>. QED
          BY <1>2, <2>2, BeginsUpgrade DEF StartUpgrade, cordon, machine, faults
  <1>3. CASE NothingToUpgrade
        BY <1>3 DEF NothingToUpgrade, cordon, machine, bounds, faults
  <1>4. ASSUME NEW n \in Node, NextRestarts(n) PROVE TypeOK'
        BY <1>4, TakeIs DEF NextRestarts, cordon, machine, bounds, faults
  <1>5. ASSUME NEW n \in Node, NextSkips(n) PROVE TypeOK'
        BY <1>5, SkipIs DEF NextSkips, cordon, machine, bounds, faults
  <1>6. ASSUME NEW n \in Node, NextUpgrades(n) PROVE TypeOK'
        BY <1>6, TakeIs DEF NextUpgrades, cordon, machine, bounds, faults
  <1>7. CASE Finish
        BY <1>7, CycleMoves DEF Finish, Moves, Same, Stops, cordon, machine, bounds, faults
  <1>8. CASE Check
        BY <1>8, CycleMoves DEF Check, Moves, Same, Stops, Tolerates, cordon, machine, bounds, faults
  <1>9. CASE Install
        BY <1>9, CycleMoves DEF Install, Moves, Same, Stops, cordon, bounds, faults
  <1>10. CASE Recheck
        BY <1>10, CycleMoves DEF Recheck, Moves, Same, Stops, Tolerates, cordon, machine, bounds, faults
  <1>11. CASE Hold
        BY <1>11, CycleMoves DEF Hold, Moves, Same, Stops, OfUser, cordon, machine, bounds, faults
  <1>12. CASE Mark
    <2>1. run.kind \in {"restart", "upgrade"}
          BY DEF Run
    <2>. QED
          BY <1>12, <2>1, CycleMoves DEF Mark, Moves, Same, Stops, machine, bounds, faults
  <1>13. CASE Cordon
        BY <1>13, CycleMoves DEF Cordon, Moves, Same, Stops, machine, bounds, faults
  <1>14. CASE CordonFails
        BY <1>14, CycleMoves DEF CordonFails, Moves, Same, Stops, cordon, machine, bounds, faults
  <1>15. CASE Evict
        BY <1>15, CycleMoves DEF Evict, Moves, Same, Stops, cordon, machine, bounds, faults
  <1>16. CASE Reboot
        BY <1>16, CycleMoves DEF Reboot, Moves, Same, Stops, GoDown, cordon, bounds, faults
  <1>17. CASE RebootFails
        BY <1>17, CycleMoves DEF RebootFails, Moves, Same, Stops, cordon, machine, bounds, faults
  <1>18. CASE TalosBack
        BY <1>18, CycleMoves DEF TalosBack, Moves, Same, Stops, cordon, machine, bounds, faults
  <1>19. CASE KubeletBack
        BY <1>19, CycleMoves DEF KubeletBack, Moves, Same, Stops, cordon, machine, bounds, faults
  <1>20. CASE EtcdBack
        BY <1>20, CycleMoves DEF EtcdBack, Moves, Same, Stops, cordon, machine, bounds, faults
  <1>21. CASE Config
        BY <1>21, CycleMoves DEF Config, Moves, Same, Stops, cordon, machine, bounds, faults
  <1>22. CASE ConfigReboots
        BY <1>22, CycleMoves DEF ConfigReboots, Moves, Same, Stops, GoDown, cordon, bounds, faults
  <1>23. CASE LeaveCordon
        BY <1>23, CycleMoves DEF LeaveCordon, Moves, Same, Stops, OfKubit, cordon, machine,
           bounds, faults
  <1>24. CASE Uncordon
        BY <1>24, CycleMoves DEF Uncordon, Moves, Same, Stops, OfKubit, machine, bounds, faults
  <1>25. CASE Unmark
        BY <1>25, CycleMoves DEF Unmark, Moves, Same, Stops, machine, bounds, faults
  <1>26. CASE Undo
        BY <1>26, CycleMoves DEF Undo, Moves, Same, Stops, machine, bounds, faults
  <1>27. CASE UndoMark
        BY <1>27, CycleMoves DEF UndoMark, Moves, Same, Stops, machine, bounds, faults
  <1>28. CASE Ends
        BY <1>28, CycleMoves DEF Ends, Moves, Same, Stops, cordon, machine, bounds, faults
  <1>29. ASSUME NEW n \in Node, Boots(n) PROVE TypeOK'
        BY <1>29 DEF Boots, cordon, bounds, faults
  <1>30. ASSUME NEW n \in Node, EtcdJoins(n) PROVE TypeOK'
        BY <1>30 DEF EtcdJoins, cordon, bounds, faults
  <1>31. ASSUME NEW n \in Node, KubeletPosts(n) PROVE TypeOK'
        BY <1>31, PostIs DEF KubeletPosts, cordon, bounds, faults
  <1>32. ASSUME NEW n \in Node, NotReady(n) PROVE TypeOK'
        BY <1>32 DEF NotReady, cordon, bounds, faults
  <1>33. ASSUME NEW n \in Node, UserCordons(n) PROVE TypeOK'
    <2>1. kubectl < MaxKubectl /\ kubectl \in 0..MaxKubectl
          BY <1>33 DEF UserCordons
    <2>2. kubectl' \in 0..MaxKubectl
          BY <1>33, <2>1, CountsUp DEF UserCordons
    <2>. QED
          BY <1>33, <2>2 DEF UserCordons, machine, faults
  <1>34. ASSUME NEW n \in Node, UserUncordons(n) PROVE TypeOK'
    <2>1. kubectl < MaxKubectl /\ kubectl \in 0..MaxKubectl
          BY <1>34 DEF UserUncordons
    <2>2. kubectl' \in 0..MaxKubectl
          BY <1>34, <2>1, CountsUp DEF UserUncordons
    <2>. QED
          BY <1>34, <2>2 DEF UserUncordons, machine, faults
  <1>35. CASE UNCHANGED vars
        BY <1>35 DEF vars, cordon, machine, bounds, faults
  <1>36. ASSUME NEW n \in Node, Fails(n) PROVE TypeOK'
    <2>1. failures < MaxFailures /\ failures \in 0..MaxFailures
          BY <1>36 DEF Fails
    <2>2. failures' \in 0..MaxFailures
          BY <1>36, <2>1, CountsUp DEF Fails
    <2>. QED
          BY <1>36, <2>2 DEF Fails, GoDown, cordon, bounds
  <1>. QED
        BY <1>1, <1>2, <1>3, <1>4, <1>5, <1>6, <1>7, <1>8, <1>9, <1>10, <1>11, <1>12, <1>13,
           <1>14, <1>15, <1>16, <1>17, <1>18, <1>19, <1>20, <1>21, <1>22, <1>23, <1>24,
           <1>25, <1>26, <1>27, <1>28, <1>29, <1>30, <1>31, <1>32, <1>33, <1>34, <1>35,
           <1>36 DEF Next, Cycle

\* Every step keeps the invariant.
LEMMA IInvStep == IInv /\ [Next]_vars => IInv'
  <1> SUFFICES ASSUME IInv, [Next]_vars PROVE IInv'
      OBVIOUS
  <1> DEFINE Rest == /\ FinishedIsUpgraded /\ OthersFailedSince /\ OldAreBehind /\ StagedBoots
                     /\ AlreadyOnlyConfigures /\ UsersBearsNoMark /\ CleanIsTheirs
  <1>1. TypeOK /\ TypeOK' /\ Rest
        BY TypeOKStep DEF IInv
  <1>0. /\ unsched \in [Node -> BOOLEAN] /\ by \in [Node -> {"", "restart", "upgrade"}]
        /\ etcd \in [Node -> BOOLEAN] /\ version \in [Node -> {"old", "new"}]
        /\ installed \in [Node -> BOOLEAN] /\ asked \in [Node -> {"no", "clean", "marked"}]
        /\ run.at \notin {"idle", "next"} => run.node \in Node
        BY <1>1 DEF TypeOK
  <1> USE <1>1, <1>0, NodeAssumption
      DEF IInv, FinishedIsUpgraded, OthersFailedSince, OldAreBehind, StagedBoots,
          AlreadyOnlyConfigures, UsersBearsNoMark, CleanIsTheirs,
          Checked, Staged, Rebooted, Settled, n0
  <1>2. CASE StartRestart
        BY <1>2, BeginsRestart DEF StartRestart, cordon, machine, faults
  <1>3. CASE StartUpgrade
        BY <1>3, BeginsUpgrade DEF StartUpgrade, cordon, machine, faults
  <1>4. CASE NothingToUpgrade
        BY <1>4 DEF NothingToUpgrade, cordon, machine, bounds, faults
  <1>5. ASSUME NEW n \in Node, NextRestarts(n) PROVE Rest'
        BY <1>5, TakeIs DEF NextRestarts, cordon, machine, bounds, faults
  <1>6. ASSUME NEW n \in Node, NextSkips(n) PROVE Rest'
    <2>1. UNCHANGED <<unsched, by, etcd, version, installed, asked, finished, lost>>
          BY <1>6 DEF NextSkips, cordon, machine, faults
    <2>2. /\ run'.at = "next" /\ run.at = "next" /\ run'.kind = run.kind /\ run'.node = run.node
          /\ run'.todo = run.todo \ {n} /\ run'.behind = run.behind /\ n \notin run.behind
          /\ run'.already = run.already /\ run'.hold = run.hold
          BY <1>6, SkipIs DEF NextSkips
    <2>3. FinishedIsUpgraded' /\ OthersFailedSince' /\ OldAreBehind' /\ StagedBoots'
          BY <2>1, <2>2
    <2>4. AlreadyOnlyConfigures' /\ UsersBearsNoMark' /\ CleanIsTheirs'
          BY <2>1, <2>2
    <2>. QED
          BY <2>3, <2>4
  <1>7. ASSUME NEW n \in Node, NextUpgrades(n) PROVE Rest'
    <2>1. CASE version[n] = "new" /\ Take(n, "config")
      <3>1. /\ run'.at = "config" /\ run'.kind = run.kind /\ run'.node = n
            /\ run'.todo = run.todo \ {n} /\ run'.behind = run.behind
            /\ run'.already /\ run'.hold = "kubit"
            BY <2>1, TakeIs
      <3>. QED
            BY <1>7, <2>1, <3>1 DEF NextUpgrades, cordon, machine, bounds, faults
    <2>2. CASE Take(n, "check")
          BY <1>7, <2>2, TakeIs DEF NextUpgrades, cordon, machine, bounds, faults
    <2>. QED
          BY <1>7, <2>1, <2>2 DEF NextUpgrades
  <1>8. CASE Finish
    <2>1. Stops
          BY <1>8, CycleMoves
    <2>. QED
          BY <1>8, <2>1 DEF Finish, cordon, machine, bounds, faults, Moves, Same, Stops
  <1>9. CASE Check
    <2>1. IF run.kind = "upgrade" THEN Moves("install") ELSE Moves("hold")
          BY <1>9, CycleMoves
    <2>. QED
          BY <1>9, <2>1 DEF Check, Tolerates, cordon, machine, bounds, faults, Moves, Same, Stops
  <1>10. CASE Install
    <2>1. Moves("recheck") \/ Stops
          BY <1>10, CycleMoves
    <2>. QED
          BY <1>10, <2>1 DEF Install, cordon, bounds, faults, Moves, Same, Stops
  <1>11. CASE Recheck
    <2>1. Moves("hold")
          BY <1>11, CycleMoves
    <2>. QED
          BY <1>11, <2>1 DEF Recheck, Tolerates, cordon, machine, bounds, faults, Moves, Same, Stops
  <1>12. CASE Hold
    <2>1. CASE OfUser(n0)
          BY <1>12, <2>1, CycleMoves DEF Hold, Same, OfUser, cordon, machine, bounds, faults
    <2>2. CASE ~OfUser(n0)
      <3>1. Moves("mark")
            BY <1>12, <2>2, CycleMoves
      <3>2. run.at = "hold" /\ ~run.already /\ asked[n0] # "clean"
            BY <1>12, <2>2 DEF Hold, OfUser
      <3>3. UNCHANGED <<unsched, by, etcd, version, installed, asked, finished, lost>>
            BY <1>12 DEF Hold, cordon, machine, faults
      <3>4. AlreadyOnlyConfigures' /\ UsersBearsNoMark' /\ CleanIsTheirs'
            BY <3>1, <3>2, <3>3 DEF Moves, Same
      <3>5. FinishedIsUpgraded' /\ OthersFailedSince' /\ OldAreBehind' /\ StagedBoots'
            BY <3>1, <3>2, <3>3 DEF Moves, Same
      <3>. QED
            BY <3>4, <3>5
    <2>. QED
          BY <2>1, <2>2
  <1>13. CASE Mark
    <2>1. Moves("cordon") \/ Stops
          BY <1>13, CycleMoves
    <2>. QED
          BY <1>13, <2>1 DEF Mark, machine, bounds, faults, Moves, Same, Stops
  <1>14. CASE Cordon
    <2>1. Moves("evict") \/ Moves("undo")
          BY <1>14, CycleMoves
    <2>. QED
          BY <1>14, <2>1 DEF Cordon, machine, bounds, faults, Moves, Same, Stops
  <1>15. CASE CordonFails
    <2>1. Moves("undo")
          BY <1>15, CycleMoves
    <2>. QED
          BY <1>15, <2>1 DEF CordonFails, cordon, machine, bounds, faults, Moves, Same, Stops
  <1>16. CASE Evict
    <2>1. Moves("reboot") \/ Moves("undo")
          BY <1>16, CycleMoves
    <2>. QED
          BY <1>16, <2>1 DEF Evict, cordon, machine, bounds, faults, Moves, Same, Stops
  <1>17. CASE Reboot
    <2>1. Moves("talos") \/ Moves("undo")
          BY <1>17, CycleMoves
    <2>2. FinishedIsUpgraded' /\ OthersFailedSince' /\ OldAreBehind' /\ StagedBoots'
          BY <1>17, <2>1 DEF Reboot, GoDown, cordon, bounds, faults, Moves, Same, Stops
    <2>3. AlreadyOnlyConfigures' /\ UsersBearsNoMark' /\ CleanIsTheirs'
          BY <1>17, <2>1 DEF Reboot, GoDown, cordon, bounds, faults, Moves, Same, Stops
    <2>. QED
          BY <2>2, <2>3
  <1>18. CASE RebootFails
    <2>1. Moves("undo")
          BY <1>18, CycleMoves
    <2>. QED
          BY <1>18, <2>1 DEF RebootFails, cordon, machine, bounds, faults, Moves, Same, Stops
  <1>19. CASE TalosBack
    <2>1. Moves("ready")
          BY <1>19, CycleMoves
    <2>. QED
          BY <1>19, <2>1 DEF TalosBack, cordon, machine, bounds, faults, Moves, Same, Stops
  <1>20. CASE KubeletBack
    <2>1. Moves("etcd") \/ Moves("config") \/ Moves("finish")
          BY <1>20, CycleMoves
    <2>. QED
          BY <1>20, <2>1 DEF KubeletBack, cordon, machine, bounds, faults, Moves, Same, Stops
  <1>21. CASE EtcdBack
    <2>1. Moves("config") \/ Moves("finish")
          BY <1>21, CycleMoves
    <2>. QED
          BY <1>21, <2>1 DEF EtcdBack, cordon, machine, bounds, faults, Moves, Same, Stops
  <1>22. CASE Config
    <2>1. Moves("finish")
          BY <1>22, CycleMoves
    <2>. QED
          BY <1>22, <2>1 DEF Config, cordon, machine, bounds, faults, Moves, Same, Stops
  <1>23. CASE ConfigReboots
    <2>1. Moves("talos")
          BY <1>23, CycleMoves
    <2>2. FinishedIsUpgraded' /\ OthersFailedSince' /\ OldAreBehind' /\ StagedBoots'
          BY <1>23, <2>1 DEF ConfigReboots, GoDown, cordon, bounds, faults, Moves, Same, Stops
    <2>3. AlreadyOnlyConfigures' /\ UsersBearsNoMark' /\ CleanIsTheirs'
          BY <1>23, <2>1 DEF ConfigReboots, GoDown, cordon, bounds, faults, Moves, Same, Stops
    <2>. QED
          BY <2>2, <2>3
  <1>24. CASE LeaveCordon
    <2>1. Moves("next")
          BY <1>24, CycleMoves
    <2>. QED
          BY <1>24, <2>1 DEF LeaveCordon, OfKubit, cordon, machine, bounds, faults, Moves, Same, Stops
  <1>25. CASE Uncordon
    <2>1. Moves("unmark") \/ Stops
          BY <1>25, CycleMoves
    <2>. QED
          BY <1>25, <2>1 DEF Uncordon, OfKubit, machine, bounds, faults, Moves, Same, Stops
  <1>26. CASE Unmark
    <2>1. Moves("next") \/ Stops
          BY <1>26, CycleMoves
    <2>. QED
          BY <1>26, <2>1 DEF Unmark, machine, bounds, faults, Moves, Same, Stops
  <1>27. CASE Undo
    <2>1. Moves("undomark") \/ Stops
          BY <1>27, CycleMoves
    <2>. QED
          BY <1>27, <2>1 DEF Undo, machine, bounds, faults, Moves, Same, Stops
  <1>28. CASE UndoMark
    <2>1. Stops
          BY <1>28, CycleMoves
    <2>. QED
          BY <1>28, <2>1 DEF UndoMark, machine, bounds, faults, Moves, Same, Stops
  <1>29. CASE Ends
    <2>1. Stops
          BY <1>29, CycleMoves
    <2>. QED
          BY <1>29, <2>1 DEF Ends, cordon, machine, bounds, faults, Moves, Same, Stops
  <1>30. ASSUME NEW n \in Node, Boots(n) PROVE Rest'
        BY <1>30 DEF Boots, cordon, bounds, faults
  <1>31. ASSUME NEW n \in Node, EtcdJoins(n) PROVE Rest'
        BY <1>31 DEF EtcdJoins, cordon, bounds, faults
  <1>32. ASSUME NEW n \in Node, KubeletPosts(n) PROVE Rest'
        BY <1>32, PostIs DEF KubeletPosts, cordon, bounds, faults
  <1>33. ASSUME NEW n \in Node, NotReady(n) PROVE Rest'
        BY <1>33 DEF NotReady, cordon, bounds, faults
  <1>34. ASSUME NEW n \in Node, UserCordons(n) PROVE Rest'
        BY <1>34 DEF UserCordons, machine, faults
  <1>35. ASSUME NEW n \in Node, UserUncordons(n) PROVE Rest'
        BY <1>35 DEF UserUncordons, machine, faults
  <1>36. CASE UNCHANGED vars
        BY <1>36 DEF vars, cordon, machine, bounds, faults
  <1>37. ASSUME NEW n \in Node, Fails(n) PROVE Rest'
    <2>1. /\ version' = [version EXCEPT ![n] = IF installed[n] THEN "new" ELSE @]
          /\ etcd' = [etcd EXCEPT ![n] = FALSE] /\ installed' = [installed EXCEPT ![n] = FALSE]
          /\ lost' = lost \cup ({n} \cap ControlPlane)
          /\ UNCHANGED <<unsched, by, run, asked, finished>>
          BY <1>37 DEF Fails, GoDown, cordon
    <2>2. FinishedIsUpgraded' /\ OldAreBehind' /\ StagedBoots'
          BY <2>1
    <2>3. OthersFailedSince'
          BY <2>1
    <2>4. AlreadyOnlyConfigures' /\ UsersBearsNoMark' /\ CleanIsTheirs'
          BY <2>1
    <2>. QED
          BY <2>2, <2>3, <2>4
  <1>. QED
        BY <1>2, <1>3, <1>4, <1>5, <1>6, <1>7, <1>8, <1>9, <1>10, <1>11, <1>12, <1>13,
           <1>14, <1>15, <1>16, <1>17, <1>18, <1>19, <1>20, <1>21, <1>22, <1>23, <1>24,
           <1>25, <1>26, <1>27, <1>28, <1>29, <1>30, <1>31, <1>32, <1>33, <1>34, <1>35,
           <1>36, <1>37 DEF Next, Cycle

-----------------------------------------------------------------------------

\* The invariant holds in every reachable state.
THEOREM Invariance == Spec => []IInv
  BY InitIInv, IInvStep, PTL DEF Spec

\* Types: what the nodes and the run that goes on can be.
THEOREM TypeCorrect == Spec => []TypeOK
  <1>1. IInv => TypeOK
        BY DEF IInv
  <1>. QED
        BY <1>1, Invariance, PTL

\* Whatever failed, died or was cordoned on the way, an upgrade that ended
\* without an error left every node on the declared Talos (upgrade.go:66-120).
THEOREM Upgraded == Spec => []FinishedIsUpgraded
  <1>1. IInv => FinishedIsUpgraded
        BY DEF IInv
  <1>. QED
        BY <1>1, Invariance, PTL

\* Kubit never reboots a drained control plane on top of a member that its
\* checks could have seen down (nodeops.go reinstallWith, precheck.go
\* etcdTolerates), for any number of control planes and of machines that fail:
\* what the last check saw before the drain is still so at the reboot, but for
\* the members that failed by themselves since.
THEOREM OneDown == Spec => OneMemberDown
  <1>1. ASSUME IInv, run.at = "reboot", n0 \in ControlPlane
        PROVE  \A m \in ControlPlane : etcd[m] \/ m \in lost
        BY <1>1 DEF IInv, OthersFailedSince, Checked
  <1>2. IInv /\ [Next]_vars =>
            [(run.at = "reboot" /\ run'.at # "reboot" /\ n0 \in ControlPlane /\ up[n0] /\ ~up'[n0])
                => \A m \in ControlPlane : etcd[m] \/ m \in lost]_vars
        BY <1>1
  <1>. QED
        BY <1>2, Invariance, PTL DEF Spec, OneMemberDown

\* A run that is done with a node has taken its own mark off it.
LEMMA DoneIsUnmarked ==
    ASSUME IInv, [Next]_vars, run.at \notin {"idle", "next"}, run'.at = "next"
    PROVE  by'[n0] = ""
  <1> USE DEF IInv
  <1>1. TypeOK /\ run.node \in Node
        BY DEF TypeOK
  <1>2. CASE LeaveCordon
    <2>1. run.hold = "user" => by[n0] = ""
          BY DEF UsersBearsNoMark
    <2>2. by' = by
          BY <1>2 DEF LeaveCordon, cordon
    <2>. QED
          BY <1>1, <1>2, <2>1, <2>2 DEF LeaveCordon, OfKubit, n0, TypeOK
  <1>3. CASE Unmark
        BY <1>1, <1>3 DEF Unmark, n0, TypeOK
  <1>4. ASSUME Cycle, ~LeaveCordon, ~Unmark PROVE FALSE
        BY <1>1, <1>4, CycleMoves DEF Cycle, Moves, Stops
  <1>5. CASE StartRestart \/ StartUpgrade \/ Finish
        BY <1>5 DEF StartRestart, StartUpgrade, Finish
  <1>6. CASE NothingToUpgrade
        BY <1>6 DEF NothingToUpgrade
  <1>7. ASSUME NEW m \in Node, NextRestarts(m) \/ NextSkips(m) \/ NextUpgrades(m) PROVE FALSE
        BY <1>7 DEF NextRestarts, NextSkips, NextUpgrades
  <1>8. ASSUME NEW m \in Node, KubeletPosts(m) PROVE FALSE
        BY <1>1, <1>8, PostIs
  <1>9. ASSUME NEW m \in Node,
               \/ Fails(m) \/ Boots(m) \/ EtcdJoins(m) \/ NotReady(m)
               \/ UserCordons(m) \/ UserUncordons(m)
        PROVE  FALSE
        BY <1>9 DEF Fails, Boots, EtcdJoins, NotReady, UserCordons, UserUncordons
  <1>10. CASE UNCHANGED vars
        BY <1>10 DEF vars
  <1>. QED
        BY <1>2, <1>3, <1>4, <1>5, <1>6, <1>7, <1>8, <1>9, <1>10 DEF Next

\* Every cordon goes back to whose it is (nodeops.go holdCordon, releaseCordon):
\* a user's stays, and the run's own mark goes, for any users' commands between
\* any two of its steps and whatever an earlier run left.
THEOREM CordonsReturned == Spec => CordonsGoBack
  <1>1. IInv' => \A n \in Node : asked'[n] = "clean" => unsched'[n]
        BY DEF IInv, CleanIsTheirs
  <1>2. IInv /\ [Next]_vars =>
            [/\ \A n \in Node : asked'[n] = "clean" => unsched'[n]
             /\ (run.at \notin {"idle", "next"} /\ run'.at = "next") => by'[n0] = ""]_vars
        BY <1>1, IInvStep, DoneIsUnmarked
  <1>. QED
        BY <1>2, Invariance, PTL DEF Spec, CordonsGoBack

=============================================================================
