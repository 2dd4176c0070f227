--------------------------- MODULE NodePowerProofs ---------------------------
(***************************************************************************)
(* Proofs about shutting nodes down (module NodePower), for any set of     *)
(* nodes, any control planes among them, with or without an endpoint, and  *)
(* any number of shutdowns and of troubles: the marks say what they mean,  *)
(* and partial shutdowns have one control plane down at a time.            *)
(***************************************************************************)
EXTENDS NodePower, FiniteSetTheorems, TLAPS

-----------------------------------------------------------------------------
(* The inductive invariant. *)

Active == {"dial", "wait", "unmark"}

\* Nodes that are shut down are those of the run that goes on.
TasksOfTheRun ==
    \A n \in Node : task[n] \in Active =>
        \/ run.at = "node" /\ ~run.whole /\ n = run.node
        \/ run.at = "workers" /\ run.whole /\ n \in run.sel \cap Worker
        \/ run.at = "cps" /\ run.whole /\ n \in run.sel \cap ControlPlane

\* Only a selection that is not everything is checked and taken one by one.
PlacesOfTheRun ==
    /\ run.at \in {"check", "node"} => ~run.whole
    /\ run.at \in {"workers", "cps"} => run.whole

\* A node that a partial shutdown took down has not booted since.
PartialIsDown == \A n \in Node : how[n] \in {"partial", "whole"} => machine[n] = "down"

\* No two control planes are down by partial shutdowns; past its etcd check, a
\* run may only add to none, or be about the one.
OneAtATime ==
    /\ \A n, m \in ControlPlane : how[n] = "partial" /\ how[m] = "partial" => n = m
    /\ (run.at \in {"mark", "node"} /\ ~run.whole /\ run.node \in ControlPlane) =>
           \A m \in ControlPlane : how[m] = "partial" => m = run.node

\* Nodes that a shutdown of every node has marked and not begun to shut down.
Ahead(n) ==
    /\ task[n] = "none" /\ run.whole
    /\ \/ run.at \in {"next", "mark"} /\ n \in run.sel \ run.left
       \/ run.at = "workers" /\ n \in run.sel \cap ControlPlane

\* Those nodes are new to the run: what an earlier one made of them is forgotten.
AheadIsFresh ==
    /\ run.at = "begin" => run.left = run.sel
    /\ run.whole => \A n \in run.sel :
         (\/ run.at \in {"next", "mark"} /\ n \notin run.left /\ ~(run.at = "mark" /\ n = run.node)
          \/ run.at = "workers" /\ n \in ControlPlane) => task[n] = "none"

\* Who is marked in memory: a node whose shutdown was seen done or goes on.
MarkedByRuns ==
    \A n \in Node : mem[n] # "none" => task[n] \in Active \cup {"done"} \/ Ahead(n)

\* What a run marked stays marked while the run is at it.
StaysMarked ==
    \A n \in Node :
        (/\ n \notin early
         /\ task[n] \in {"dial", "wait"} \/ (Ahead(n) /\ ~(run.at = "mark" /\ n = run.node)))
            => mem[n] # "none"

\* A mark that was seen silent is of a node that is down, and no tick that goes
\* on has reached it before.
SilentIsDown ==
    \A n \in Node :
        (mem[n] = "off" /\ n \notin early /\ (task[n] # "done" \/ how[n] \in {"partial", "whole"}))
            => (machine[n] = "down" /\ n \notin tick.reach)

\* A node whose shutdown was seen done does not drain any more.
DoneIsNotGoing == \A n \in Node : task[n] = "done" => machine[n] # "going"

IInv ==
    /\ TypeOK
    /\ TasksOfTheRun
    /\ PlacesOfTheRun
    /\ PartialIsDown
    /\ OneAtATime
    /\ AheadIsFresh
    /\ MarkedByRuns
    /\ StaysMarked
    /\ ShutDownStaysMarked
    /\ SilentIsDown
    /\ DoneIsNotGoing

-----------------------------------------------------------------------------
(* What a step makes of the run, of a counter, and of a mark. *)

\* A counter below its bound.
LEMMA CountsUp == ASSUME NEW Max \in Nat, NEW k \in 0..Max, k < Max PROVE k + 1 \in 0..Max
  OBVIOUS

Moves(at) ==
    /\ run' \in Run /\ run'.at = at /\ run'.whole = run.whole /\ run'.sel = run.sel
    /\ run'.left = run.left /\ run'.node = run.node

Stops ==
    /\ run' \in Run /\ run'.at = "idle" /\ ~run'.whole /\ run'.sel = {}
    /\ run'.left = {} /\ run'.node = NoNode

\* Going to another place of the run.
LEMMA GotoMoves ==
    ASSUME TypeOK, NEW at \in Places, run' = [run EXCEPT !.at = at] PROVE Moves(at)
  BY DEF Moves, Run, TypeOK

\* The end of a run.
LEMMA IdleStops == ASSUME run' = Idle PROVE Stops
  BY DEF Idle, Stops, Run, Places

\* A run begins with the whole selection before it.
LEMMA RequestIs ==
    ASSUME TypeOK, Request
    PROVE  /\ run' \in Run /\ run'.at = "begin" /\ run'.left = run'.sel /\ run'.node = NoNode
  <1>1. PICK S \in SUBSET Node \ {{}}, down \in SUBSET Node :
            run' = [Idle EXCEPT !.at = "begin", !.whole = IsWhole(S, down),
                                !.sel = S, !.left = S, !.down = down]
        BY DEF Request, TypeOK, OffNodes
  <1>2. IsWhole(S, down) \in BOOLEAN
        BY DEF IsWhole
  <1>. QED
        BY <1>1, <1>2 DEF Idle, Run, Places

\* The second check drops what the request had seen down.
LEMMA BeginMoves == ASSUME TypeOK, Begin PROVE Moves("next")
  BY DEF Begin, Moves, Run, Places, TypeOK

\* The next node is taken.
LEMMA TakeIs ==
    ASSUME TypeOK, NEW n \in Node, Take(n)
    PROVE  /\ run' \in Run /\ run'.at = (IF run.whole THEN "mark" ELSE "check")
           /\ run'.whole = run.whole /\ run'.sel = run.sel
           /\ run'.left = run.left \ {n} /\ run'.node = n
  BY DEF Take, Run, Places, TypeOK

\* Where each other step of a run leads.
LEMMA RunMoves ==
    ASSUME TypeOK
    PROVE  /\ GiveUp => Stops
           /\ Check => Moves("mark")
           /\ MarkOff => Moves(IF run.whole THEN "next" ELSE "node")
           /\ NodeDone => Moves("next") \/ Stops
           /\ AllMarked => IF run.whole THEN Moves("workers") ELSE Stops
           /\ WorkersDone => Moves("cps")
           /\ ControlPlanesDone => Stops
           /\ Restart => Stops
  <1>1. GiveUp => Stops
        BY IdleStops DEF GiveUp
  <1>2. Check => Moves("mark")
        BY GotoMoves DEF Check, Places
  <1>3. MarkOff => Moves(IF run.whole THEN "next" ELSE "node")
        BY GotoMoves DEF MarkOff, Places
  <1>4. NodeDone => Moves("next") \/ Stops
        BY GotoMoves, IdleStops DEF NodeDone, Places
  <1>5. AllMarked => IF run.whole THEN Moves("workers") ELSE Stops
        BY GotoMoves, IdleStops DEF AllMarked, ShutdownAll, Places
  <1>6. WorkersDone => Moves("cps")
        BY GotoMoves DEF WorkersDone, ShutdownAll, Places
  <1>7. ControlPlanesDone => Stops
        BY IdleStops DEF ControlPlanesDone
  <1>8. Restart => Stops
        BY IdleStops DEF Restart
  <1>. QED
        BY <1>1, <1>2, <1>3, <1>4, <1>5, <1>6, <1>7, <1>8

\* Whatever becomes of a patch of a Node object, marks stay marks.
LEMMA AnnotatesTypes ==
    ASSUME TypeOK, NEW n \in Node, NEW on \in BOOLEAN, Annotates(n, on)
    PROVE  mark' \in [Node -> BOOLEAN] /\ (UNCHANGED trouble \/ Trouble)
  BY DEF Annotates, Works, Trouble, TypeOK

\* Trouble stays in its bound.
LEMMA TroubleTypes ==
    ASSUME TypeOK, UNCHANGED trouble \/ Trouble PROVE trouble' \in 0..MaxTrouble
  <1>1. trouble \in 0..MaxTrouble
        BY DEF TypeOK
  <1>. QED
        BY <1>1, BoundAssumption, CountsUp DEF Trouble

-----------------------------------------------------------------------------
(* Initial states, and types. *)

\* The first state satisfies the invariant.
LEMMA InitIInv == Init => IInv
  <1> SUFFICES ASSUME Init PROVE IInv
      OBVIOUS
  <1>1. /\ Idle \in Run /\ Idle.at = "idle" /\ ~Idle.whole /\ Idle.left = {} /\ Idle.sel = {}
        BY DEF Idle, Run, Places
  <1>2. 0 \in 0..MaxRuns /\ 0 \in 0..MaxTrouble
        BY BoundAssumption
  <1>3. TypeOK
        BY <1>1, <1>2 DEF Init, TypeOK, NoStatus, NoTick, Tasks
  <1>. QED
        BY <1>1, <1>3, NodeAssumption
        DEF Init, IInv, TasksOfTheRun, PlacesOfTheRun, PartialIsDown, OneAtATime,
            AheadIsFresh, Ahead, MarkedByRuns, StaysMarked, ShutDownStaysMarked, SilentIsDown,
            DoneIsNotGoing, Active

\* Every step keeps the types.
LEMMA TypeOKStep == TypeOK /\ [Next]_vars => TypeOK'
  <1> SUFFICES ASSUME TypeOK, [Next]_vars PROVE TypeOK'
      OBVIOUS
  <1> USE NodeAssumption DEF TypeOK
  <1>1. CASE Request
    <2>1. runs < MaxRuns /\ runs \in 0..MaxRuns
          BY <1>1 DEF Request
    <2>2. runs' \in 0..MaxRuns
          BY <1>1, <2>1, BoundAssumption, CountsUp DEF Request
    <2>. QED
          BY <1>1, <2>2, RequestIs DEF Request, env, daemon
  <1>2. CASE Begin
        BY <1>2, BeginMoves DEF Begin, Moves, env, daemon, bounds
  <1>3. CASE GiveUp
    <2>1. trouble' \in 0..MaxTrouble
          BY <1>3, TroubleTypes DEF GiveUp, Works
    <2>. QED
          BY <1>3, <2>1, RunMoves DEF GiveUp, Stops, env, daemon
  <1>4. ASSUME NEW n \in Node, Take(n) PROVE TypeOK'
    <2>1. n \in run.left
          BY <1>4 DEF Take
    <2>. QED
          BY <1>4, <2>1, TakeIs DEF Take, env, daemon, bounds
  <1>5. CASE Check
        BY <1>5, RunMoves DEF Check, Moves, env, daemon, bounds
  <1>6. CASE MarkOff
    <2>1. run.node \in Node
          BY <1>6 DEF MarkOff, Run
    <2>2. mark' \in [Node -> BOOLEAN] /\ trouble' \in 0..MaxTrouble
          BY <1>6, <2>1, AnnotatesTypes, TroubleTypes DEF MarkOff
    <2>3. task' \in [Node -> Tasks] /\ mem' \in [Node -> {"none", "marked", "off"}]
          BY <1>6 DEF MarkOff, Tasks
    <2>4. Moves(IF run.whole THEN "next" ELSE "node")
          BY <1>6, RunMoves
    <2>. QED
          BY <1>6, <2>2, <2>3, <2>4 DEF MarkOff, Moves, env, daemon
  <1>7. CASE NodeDone
        BY <1>7, RunMoves DEF NodeDone, Moves, Stops, env, daemon, bounds
  <1>8. CASE AllMarked
    <2>1. task' \in [Node -> Tasks]
          BY <1>8 DEF AllMarked, ShutdownAll, Tasks
    <2>. QED
          BY <1>8, <2>1, RunMoves DEF AllMarked, Moves, Stops, env, daemon, bounds
  <1>9. CASE WorkersDone
    <2>1. task' \in [Node -> Tasks]
          BY <1>9 DEF WorkersDone, ShutdownAll, Tasks
    <2>. QED
          BY <1>9, <2>1, RunMoves DEF WorkersDone, Moves, env, daemon, bounds
  <1>10. CASE ControlPlanesDone
        BY <1>10, RunMoves DEF ControlPlanesDone, Stops, env, daemon, bounds
  <1>11. ASSUME NEW n \in Node, Shutdown(n) PROVE TypeOK'
    <2>1. trouble' \in 0..MaxTrouble
          BY <1>11, TroubleTypes DEF Shutdown, Works
    <2>2. task' \in [Node -> Tasks]
          BY <1>11 DEF Shutdown, Goto, Tasks
    <2>. QED
          BY <1>11, <2>1, <2>2 DEF Shutdown, daemon
  <1>12. ASSUME NEW n \in Node, ShutdownFails(n) PROVE TypeOK'
    <2>1. trouble' \in 0..MaxTrouble
          BY <1>12, TroubleTypes DEF ShutdownFails, Works
    <2>2. task' \in [Node -> Tasks]
          BY <1>12 DEF ShutdownFails, Goto, Tasks
    <2>. QED
          BY <1>12, <2>1, <2>2 DEF ShutdownFails, env, daemon
  <1>13. ASSUME NEW n \in Node, WaitDown(n) PROVE TypeOK'
    <2>1. trouble' \in 0..MaxTrouble
          BY <1>13, TroubleTypes DEF WaitDown, Works
    <2>2. task' \in [Node -> Tasks]
          BY <1>13 DEF WaitDown, Goto, Tasks
    <2>. QED
          BY <1>13, <2>1, <2>2 DEF WaitDown, env, daemon
  <1>14. ASSUME NEW n \in Node, UnmarkOff(n) PROVE TypeOK'
    <2>1. mark' \in [Node -> BOOLEAN] /\ trouble' \in 0..MaxTrouble
          BY <1>14, AnnotatesTypes, TroubleTypes DEF UnmarkOff
    <2>2. task' \in [Node -> Tasks]
          BY <1>14 DEF UnmarkOff, Goto, Tasks
    <2>. QED
          BY <1>14, <2>1, <2>2 DEF UnmarkOff, env, daemon
  <1>15. CASE TickReads
    <2>1. trouble' \in 0..MaxTrouble
          BY <1>15, TroubleTypes DEF TickReads, Works
    <2>2. tick' \in [at : {"idle", "read"}, reach : SUBSET Node] /\ tick'.at = "read"
          BY <1>15 DEF TickReads
    <2>. QED
          BY <1>15, <2>1, <2>2 DEF TickReads, env
  <1>16. CASE TickApplies
    <2>1. mem' = [n \in Node |-> OffSeen(n, n \in tick.reach)]
          BY <1>16 DEF TickApplies
    <2>2. mem' \in [Node -> {"none", "marked", "off"}]
          BY <2>1 DEF OffSeen
    <2>3. /\ status' \in [known : BOOLEAN, off : SUBSET Node, silent : SUBSET Node]
          /\ status'.off \subseteq status'.silent
          BY <1>16 DEF TickApplies
    <2>4. tick' = NoTick /\ NoTick \in [at : {"idle", "read"}, reach : SUBSET Node]
          BY <1>16 DEF TickApplies, NoTick
    <2>. QED
          BY <1>16, <2>2, <2>3, <2>4 DEF TickApplies, env, bounds
  <1>17. CASE Restart
    <2>1. trouble' \in 0..MaxTrouble
          BY <1>17, TroubleTypes DEF Restart
    <2>. QED
          BY <1>17, <2>1, RunMoves DEF Restart, Stops, NoStatus, NoTick, Tasks, env
  <1>18. ASSUME NEW n \in Node, GoesDown(n) PROVE TypeOK'
        BY <1>18 DEF GoesDown, daemon, bounds
  <1>19. ASSUME NEW n \in Node, Crashes(n) PROVE TypeOK'
    <2>1. trouble' \in 0..MaxTrouble
          BY <1>19, TroubleTypes DEF Crashes
    <2>. QED
          BY <1>19, <2>1 DEF Crashes, daemon
  <1>20. ASSUME NEW n \in Node, Boots(n) PROVE TypeOK'
    <2>1. trouble' \in 0..MaxTrouble
          BY <1>20, TroubleTypes DEF Boots
    <2>. QED
          BY <1>20, <2>1 DEF Boots, daemon
  <1>21. ASSUME NEW n \in Node, KubeletPosts(n) PROVE TypeOK'
        BY <1>21 DEF KubeletPosts, daemon, bounds
  <1>22. CASE UNCHANGED vars
        BY <1>22 DEF vars
  <1>. QED
        BY <1>1, <1>2, <1>3, <1>4, <1>5, <1>6, <1>7, <1>8, <1>9, <1>10, <1>11, <1>12, <1>13,
           <1>14, <1>15, <1>16, <1>17, <1>18, <1>19, <1>20, <1>21, <1>22 DEF Next, ShutdownOne

\* Every step keeps the invariant.
LEMMA IInvStep == IInv /\ [Next]_vars => IInv'
  <1> SUFFICES ASSUME IInv, [Next]_vars PROVE IInv'
      OBVIOUS
  <1> DEFINE Going == /\ TasksOfTheRun /\ PlacesOfTheRun /\ PartialIsDown /\ OneAtATime
                      /\ AheadIsFresh
             Marks == MarkedByRuns /\ StaysMarked
             Seen == ShutDownStaysMarked /\ SilentIsDown /\ DoneIsNotGoing
  <1>1. TypeOK /\ TypeOK' /\ Going /\ Marks /\ Seen
        BY TypeOKStep DEF IInv
  <1>2. /\ machine \in [Node -> {"up", "going", "down"}]
        /\ mem \in [Node -> {"none", "marked", "off"}]
        /\ task \in [Node -> Tasks]
        /\ how \in [Node -> {"up", "partial", "whole", "other"}]
        /\ early \subseteq Node
        /\ run.sel \subseteq Node /\ run.left \subseteq run.sel /\ run.whole \in BOOLEAN
        /\ run.at \in {"check", "mark", "node"} => run.node \in run.sel \ run.left
        BY <1>1 DEF TypeOK, Run
  <1> USE <1>1, <1>2, NodeAssumption
      DEF TasksOfTheRun, PlacesOfTheRun, PartialIsDown, OneAtATime, AheadIsFresh,
          Active, Worker
  <1>3. CASE Request
    <2>1. /\ run' \in Run /\ run'.at = "begin" /\ run'.left = run'.sel /\ run.at = "idle"
          /\ UNCHANGED <<env, mark, mem, daemon, task, early>>
          BY <1>3, RequestIs DEF Request
    <2>. QED
          BY <2>1 DEF IInv, MarkedByRuns, Ahead, StaysMarked, ShutDownStaysMarked,
             SilentIsDown, DoneIsNotGoing, env, daemon
  <1>4. CASE Begin
    <2>1. Moves("next")
          BY <1>4, BeginMoves
    <2>2. Going'
          BY <1>4, <2>1 DEF Begin, Moves, Stops, env, daemon, bounds
    <2>3. Marks'
          BY <1>4, <2>1 DEF Begin, Moves, Stops, env, daemon, bounds,
             MarkedByRuns, StaysMarked, Ahead
    <2>4. Seen'
          BY <1>4, <2>1 DEF Begin, Moves, Stops, env, daemon, bounds,
             ShutDownStaysMarked, SilentIsDown, DoneIsNotGoing, StaysMarked, Ahead
    <2>. QED
          BY <2>2, <2>3, <2>4 DEF IInv
  <1>5. CASE GiveUp
    <2>1. Stops
          BY <1>5, RunMoves
    <2>2. Going'
          BY <1>5, <2>1 DEF GiveUp, Moves, Stops, env, daemon, bounds
    <2>3. Marks'
          BY <1>5, <2>1 DEF GiveUp, Moves, Stops, env, daemon, bounds,
             MarkedByRuns, StaysMarked, Ahead
    <2>4. Seen'
          BY <1>5, <2>1 DEF GiveUp, Moves, Stops, env, daemon, bounds,
             ShutDownStaysMarked, SilentIsDown, DoneIsNotGoing, StaysMarked, Ahead
    <2>. QED
          BY <2>2, <2>3, <2>4 DEF IInv
  <1>6. ASSUME NEW n \in Node, Take(n) PROVE Going' /\ Marks' /\ Seen'
    <2>1. /\ run'.at = IF run.whole THEN "mark" ELSE "check"
          /\ run'.whole = run.whole /\ run'.sel = run.sel
          /\ run'.left = run.left \ {n} /\ run'.node = n
          BY <1>6, TakeIs
    <2>2. /\ run.at = "next" /\ n \in run.left
          /\ UNCHANGED <<env, mark, mem, daemon, task, early>>
          BY <1>6 DEF Take
    <2>3. CASE run.whole
      <3>1. run'.at = "mark"
            BY <2>1, <2>3
      <3>2. Going'
            BY <2>1, <2>2, <2>3, <3>1 DEF env
      <3>3. Marks'
            BY <2>1, <2>2, <2>3, <3>1 DEF MarkedByRuns, StaysMarked, Ahead
      <3>4. Seen'
            BY <2>1, <2>2, <2>3, <3>1
            DEF ShutDownStaysMarked, SilentIsDown, DoneIsNotGoing, env, daemon
      <3>. QED
            BY <3>2, <3>3, <3>4
    <2>4. CASE ~run.whole
      <3>1. run'.at = "check"
            BY <2>1, <2>4
      <3>2. Going'
            BY <2>1, <2>2, <2>4, <3>1 DEF env
      <3>3. Marks'
            BY <2>1, <2>2, <2>4, <3>1 DEF MarkedByRuns, StaysMarked, Ahead
      <3>4. Seen'
            BY <2>1, <2>2, <2>4, <3>1
            DEF ShutDownStaysMarked, SilentIsDown, DoneIsNotGoing, env, daemon
      <3>. QED
            BY <3>2, <3>3, <3>4
    <2>. QED
          BY <2>3, <2>4
  <1>7. CASE Check
    <2>1. Moves("mark")
          BY <1>7, RunMoves
    <2>2. Going'
          BY <1>7, <2>1 DEF Check, Tolerates, Answers, Moves, Stops, env, daemon, bounds
    <2>3. Marks'
          BY <1>7, <2>1 DEF Check, Tolerates, Answers, Moves, Stops, env, daemon, bounds,
             MarkedByRuns, StaysMarked, Ahead
    <2>4. Seen'
          BY <1>7, <2>1 DEF Check, Tolerates, Answers, Moves, Stops, env, daemon, bounds,
             ShutDownStaysMarked, SilentIsDown, DoneIsNotGoing, StaysMarked, Ahead
    <2>. QED
          BY <2>2, <2>3, <2>4 DEF IInv
  <1>8. CASE MarkOff
    <2>1. Moves(IF run.whole THEN "next" ELSE "node")
          BY <1>8, RunMoves
    <2>2. Going'
          BY <1>8, <2>1 DEF MarkOff, Moves, Stops, env, daemon, bounds
    <2>3. Marks'
          BY <1>8, <2>1 DEF MarkOff, Moves, Stops, env, daemon, bounds,
             MarkedByRuns, StaysMarked, Ahead
    <2>4. Seen'
          BY <1>8, <2>1 DEF MarkOff, Moves, Stops, env, daemon, bounds,
             ShutDownStaysMarked, SilentIsDown, DoneIsNotGoing, StaysMarked, Ahead
    <2>. QED
          BY <2>2, <2>3, <2>4 DEF IInv
  <1>9. CASE NodeDone
    <2>1. Moves("next") \/ Stops
          BY <1>9, RunMoves
    <2>2. Going'
          BY <1>9, <2>1 DEF NodeDone, Finished, Moves, Stops, env, daemon, bounds
    <2>3. Marks'
          BY <1>9, <2>1 DEF NodeDone, Finished, Moves, Stops, env, daemon, bounds,
             MarkedByRuns, StaysMarked, Ahead
    <2>4. Seen'
          BY <1>9, <2>1 DEF NodeDone, Finished, Moves, Stops, env, daemon, bounds,
             ShutDownStaysMarked, SilentIsDown, DoneIsNotGoing, StaysMarked, Ahead
    <2>. QED
          BY <2>2, <2>3, <2>4 DEF IInv
  <1>10. CASE AllMarked
    <2>1. IF run.whole THEN Moves("workers") ELSE Stops
          BY <1>10, RunMoves
    <2>2. Going'
          BY <1>10, <2>1 DEF AllMarked, ShutdownAll, Moves, Stops, env, daemon, bounds
    <2>3. Marks'
          BY <1>10, <2>1 DEF AllMarked, ShutdownAll, Moves, Stops, env, daemon, bounds,
             MarkedByRuns, StaysMarked, Ahead
    <2>4. Seen'
          BY <1>10, <2>1 DEF AllMarked, ShutdownAll, Moves, Stops, env, daemon, bounds,
             ShutDownStaysMarked, SilentIsDown, DoneIsNotGoing, StaysMarked, Ahead
    <2>. QED
          BY <2>2, <2>3, <2>4 DEF IInv
  <1>11. CASE WorkersDone
    <2>1. Moves("cps")
          BY <1>11, RunMoves
    <2>2. Going'
          BY <1>11, <2>1 DEF WorkersDone, ShutdownAll, Finished, Moves, Stops, env, daemon, bounds
    <2>3. Marks'
          BY <1>11, <2>1 DEF WorkersDone, ShutdownAll, Finished, Moves, Stops, env, daemon, bounds,
             MarkedByRuns, StaysMarked, Ahead
    <2>4. Seen'
          BY <1>11, <2>1 DEF WorkersDone, ShutdownAll, Finished, Moves, Stops, env, daemon, bounds,
             ShutDownStaysMarked, SilentIsDown, DoneIsNotGoing, StaysMarked, Ahead
    <2>. QED
          BY <2>2, <2>3, <2>4 DEF IInv
  <1>12. CASE ControlPlanesDone
    <2>1. Stops
          BY <1>12, RunMoves
    <2>2. Going'
          BY <1>12, <2>1 DEF ControlPlanesDone, Finished, Moves, Stops, env, daemon, bounds
    <2>3. Marks'
          BY <1>12, <2>1 DEF ControlPlanesDone, Finished, Moves, Stops, env, daemon, bounds,
             MarkedByRuns, StaysMarked, Ahead
    <2>4. Seen'
          BY <1>12, <2>1 DEF ControlPlanesDone, Finished, Moves, Stops, env, daemon, bounds,
             ShutDownStaysMarked, SilentIsDown, DoneIsNotGoing, StaysMarked, Ahead
    <2>. QED
          BY <2>2, <2>3, <2>4 DEF IInv
  <1>13. ASSUME NEW n \in Node, Shutdown(n) PROVE Going' /\ Marks' /\ Seen'
    <2>1. Going'
          BY <1>13 DEF Shutdown, Goto, Answers, env, daemon, bounds
    <2>2. Marks'
          BY <1>13 DEF Shutdown, Goto, Answers, env, daemon, bounds,
             MarkedByRuns, StaysMarked, Ahead
    <2>3. Seen'
          BY <1>13 DEF Shutdown, Goto, Answers, env, daemon, bounds,
             ShutDownStaysMarked, SilentIsDown, DoneIsNotGoing, StaysMarked, Ahead
    <2>. QED
          BY <2>1, <2>2, <2>3
  <1>14. ASSUME NEW n \in Node, ShutdownFails(n) PROVE Going' /\ Marks' /\ Seen'
    <2>1. Going'
          BY <1>14 DEF ShutdownFails, Goto, env, daemon, bounds
    <2>2. Marks'
          BY <1>14 DEF ShutdownFails, Goto, env, daemon, bounds,
             MarkedByRuns, StaysMarked, Ahead
    <2>3. Seen'
          BY <1>14 DEF ShutdownFails, Goto, env, daemon, bounds,
             ShutDownStaysMarked, SilentIsDown, DoneIsNotGoing, StaysMarked, Ahead
    <2>. QED
          BY <2>1, <2>2, <2>3
  <1>15. ASSUME NEW n \in Node, WaitDown(n) PROVE Going' /\ Marks' /\ Seen'
    <2>1. Going'
          BY <1>15 DEF WaitDown, Goto, Answers, env, daemon, bounds
    <2>2. Marks'
          BY <1>15 DEF WaitDown, Goto, Answers, env, daemon, bounds,
             MarkedByRuns, StaysMarked, Ahead
    <2>3. Seen'
          BY <1>15 DEF WaitDown, Goto, Answers, env, daemon, bounds,
             ShutDownStaysMarked, SilentIsDown, DoneIsNotGoing, StaysMarked, Ahead
    <2>. QED
          BY <2>1, <2>2, <2>3
  <1>16. ASSUME NEW n \in Node, UnmarkOff(n) PROVE Going' /\ Marks' /\ Seen'
    <2>1. Going'
          BY <1>16 DEF UnmarkOff, Goto, env, daemon, bounds
    <2>2. Marks'
          BY <1>16 DEF UnmarkOff, Goto, env, daemon, bounds,
             MarkedByRuns, StaysMarked, Ahead
    <2>3. Seen'
          BY <1>16 DEF UnmarkOff, Goto, env, daemon, bounds,
             ShutDownStaysMarked, SilentIsDown, DoneIsNotGoing, StaysMarked, Ahead
    <2>. QED
          BY <2>1, <2>2, <2>3
  <1>17. CASE TickReads
    <2>1. Going'
          BY <1>17 DEF TickReads, Answers, env, daemon, bounds
    <2>2. Marks'
          BY <1>17 DEF TickReads, Answers, env, daemon, bounds,
             MarkedByRuns, StaysMarked, Ahead
    <2>3. Seen'
          BY <1>17 DEF TickReads, Answers, env, daemon, bounds,
             ShutDownStaysMarked, SilentIsDown, DoneIsNotGoing, StaysMarked, Ahead
    <2>. QED
          BY <2>1, <2>2, <2>3 DEF IInv
  <1>18. CASE TickApplies
    <2>1. Going'
          BY <1>18 DEF TickApplies, OffSeen, Answers, NoTick, env, daemon, bounds
    <2>2. Marks'
          BY <1>18 DEF TickApplies, OffSeen, Answers, NoTick, env, daemon, bounds,
             MarkedByRuns, StaysMarked, Ahead, SilentIsDown
    <2>3. Seen'
          BY <1>18 DEF TickApplies, OffSeen, Answers, NoTick, env, daemon, bounds,
             ShutDownStaysMarked, SilentIsDown, DoneIsNotGoing, StaysMarked, Ahead
    <2>. QED
          BY <2>1, <2>2, <2>3 DEF IInv
  <1>19. CASE Restart
    <2>1. Stops
          BY <1>19, RunMoves
    <2>2. Going'
          BY <1>19, <2>1 DEF Restart, NoTick, Moves, Stops, env, daemon, bounds
    <2>3. Marks'
          BY <1>19, <2>1 DEF Restart, NoTick, Moves, Stops, env, daemon, bounds,
             MarkedByRuns, StaysMarked, Ahead
    <2>4. Seen'
          BY <1>19, <2>1 DEF Restart, NoTick, Moves, Stops, env, daemon, bounds,
             ShutDownStaysMarked, SilentIsDown, DoneIsNotGoing, StaysMarked, Ahead
    <2>. QED
          BY <2>2, <2>3, <2>4 DEF IInv
  <1>20. ASSUME NEW n \in Node, GoesDown(n) PROVE Going' /\ Marks' /\ Seen'
    <2>1. Going'
          BY <1>20 DEF GoesDown, env, daemon, bounds
    <2>2. Marks'
          BY <1>20 DEF GoesDown, env, daemon, bounds,
             MarkedByRuns, StaysMarked, Ahead
    <2>3. Seen'
          BY <1>20 DEF GoesDown, env, daemon, bounds,
             ShutDownStaysMarked, SilentIsDown, DoneIsNotGoing, StaysMarked, Ahead
    <2>. QED
          BY <2>1, <2>2, <2>3
  <1>21. ASSUME NEW n \in Node, Crashes(n) PROVE Going' /\ Marks' /\ Seen'
    <2>1. Going'
          BY <1>21 DEF Crashes, env, daemon, bounds
    <2>2. Marks'
          BY <1>21 DEF Crashes, env, daemon, bounds,
             MarkedByRuns, StaysMarked, Ahead
    <2>3. Seen'
          BY <1>21 DEF Crashes, env, daemon, bounds,
             ShutDownStaysMarked, SilentIsDown, DoneIsNotGoing, StaysMarked, Ahead
    <2>. QED
          BY <2>1, <2>2, <2>3
  <1>22. ASSUME NEW n \in Node, Boots(n) PROVE Going' /\ Marks' /\ Seen'
    <2>1. Going'
          BY <1>22 DEF Boots, env, daemon, bounds
    <2>2. Marks'
          BY <1>22 DEF Boots, env, daemon, bounds,
             MarkedByRuns, StaysMarked, Ahead
    <2>3. Seen'
          BY <1>22 DEF Boots, env, daemon, bounds,
             ShutDownStaysMarked, SilentIsDown, DoneIsNotGoing, StaysMarked, Ahead
    <2>. QED
          BY <2>1, <2>2, <2>3
  <1>23. ASSUME NEW n \in Node, KubeletPosts(n) PROVE Going' /\ Marks' /\ Seen'
    <2>1. Going'
          BY <1>23 DEF KubeletPosts, env, daemon, bounds
    <2>2. Marks'
          BY <1>23 DEF KubeletPosts, env, daemon, bounds,
             MarkedByRuns, StaysMarked, Ahead
    <2>3. Seen'
          BY <1>23 DEF KubeletPosts, env, daemon, bounds,
             ShutDownStaysMarked, SilentIsDown, DoneIsNotGoing, StaysMarked, Ahead
    <2>. QED
          BY <2>1, <2>2, <2>3
  <1>24. CASE UNCHANGED vars
        BY <1>24 DEF vars, IInv, MarkedByRuns, Ahead, StaysMarked, ShutDownStaysMarked,
           SilentIsDown, DoneIsNotGoing
  <1>. QED
        BY <1>3, <1>4, <1>5, <1>6, <1>7, <1>8, <1>9, <1>10, <1>11, <1>12, <1>13, <1>14, <1>15,
           <1>16, <1>17, <1>18, <1>19, <1>20, <1>21, <1>22, <1>23, <1>24
        DEF Next, ShutdownOne, IInv

-----------------------------------------------------------------------------

\* The invariant holds in every reachable state.
THEOREM Invariance == Spec => []IInv
  BY InitIInv, IInvStep, PTL DEF Spec

\* Types: what the nodes, the marks, the tick and the run can be.
THEOREM TypeCorrect == Spec => []TypeOK
  <1>1. IInv => TypeOK
        BY DEF IInv
  <1>. QED
        BY <1>1, Invariance, PTL

\* A set all of whose members are equal has at most one.
LEMMA AtMostOne ==
    ASSUME NEW S, \A x, y \in S : x = y PROVE Cardinality(S) <= 1
  <1>1. CASE S = {}
        BY <1>1, FS_EmptySet
  <1>2. CASE S # {}
    <2>1. PICK x \in S : S = {x}
          BY <1>2
    <2>. QED
          BY <2>1, FS_Singleton
  <1>. QED
        BY <1>1, <1>2

\* Shutdowns of some nodes never take down two control planes between them,
\* however old the status they were decided on (power.go CheckShutdown,
\* etcdTolerates), for any number of control planes.
THEOREM OneDown == Spec => []OnePartialDown
  <1>1. IInv => OnePartialDown
        BY AtMostOne DEF IInv, OneAtATime, OnePartialDown
  <1>. QED
        BY <1>1, Invariance, PTL

\* When no run goes on, only nodes whose shutdown was seen done are marked in
\* memory (power.go markOff, unmarkOff), whatever failed, died or was retried.
THEOREM MarksTrue == Spec => []MarksMeanShutdown
  <1>1. IInv => MarksMeanShutdown
        BY DEF IInv, MarkedByRuns, TasksOfTheRun, Ahead, MarksMeanShutdown
  <1>. QED
        BY <1>1, Invariance, PTL

\* A node that a run saw go down stays marked until it boots (watcher.go
\* offSeen), over ticks that still reached it while it drained.
THEOREM MarksStay == Spec => []ShutDownStaysMarked
  <1>1. IInv => ShutDownStaysMarked
        BY DEF IInv
  <1>. QED
        BY <1>1, Invariance, PTL

=============================================================================
