---------------------------- MODULE PlannerProofs ---------------------------
(***************************************************************************)
(* What Planner promises of an apply from the console, for any number of   *)
(* users, any contents of cluster.yaml and any bound: the daemon runs one  *)
(* apply at a time, and as long as the run holds the Lease the cluster it  *)
(* converges is still the one its user saw the plan for.                   *)
(***************************************************************************)
EXTENDS Planner, TLAPS

Places == {"idle", "reviewed", "loaded", "start", "cancel", "mark", "lock", "replan",
           "overwrite", "converge", "unlock", "end", "kick"}

\* Where a client's run is between startRun and its end.
Started == {"cancel", "mark", "lock", "replan", "overwrite", "converge", "unlock", "end"}

\* Where a client's handler or run still uses what it loaded.
Loaded == {"loaded", "start"} \cup (Started \ {"unlock", "end"})

\* startRun's claim: whoever is in a run holds the daemon's only one.
OneRun ==
    /\ \A c \in Client : pc[c] \in Started => run
    /\ \A c, d \in Client : pc[c] \in Started /\ pc[d] \in Started => c = d

HandlerHasLoaded == \A c \in Client : pc[c] \in Loaded => desired[c] \in Version

IInv == TypeOK /\ OneRun /\ HandlerHasLoaded /\ ReviewStands

-----------------------------------------------------------------------------
(* The planSlot: what is done to it keeps its type.                          *)

SlotTyped ==
    /\ summary \in [state : {"checking", "ready", "applying", "failed"}, hash : Plans \cup {None}]
    /\ dirty \in BOOLEAN
    /\ ctx \in {"none", "live", "cancelled"}
    /\ loop \in {"off", "top", "check", "running", "holder", "held", "await", "begin",
                 "planning", "planned", "store"}
    /\ plan \in Plans \cup {None}

\* kickPlan marks the slot and starts the loop.
LEMMA KickTyped ==
  ASSUME SlotTyped, NEW b \in BOOLEAN, Kick(b)
  PROVE  SlotTyped'
<1>1. dirty' \in BOOLEAN /\ UNCHANGED <<summary, plan>>
  BY DEF Kick
<1>2. ctx' \in {"none", "live", "cancelled"}
  BY DEF Kick, SlotTyped
<1>3. loop' = loop \/ loop' = "top"
  BY DEF Kick
<1>. QED BY <1>1, <1>2, <1>3 DEF SlotTyped

\* setSummary changes the state and keeps the hash.
LEMMA ShowTyped ==
  ASSUME SlotTyped, NEW state \in {"checking", "ready", "applying", "failed"}, Show(state)
  PROVE  summary' \in [state : {"checking", "ready", "applying", "failed"}, hash : Plans \cup {None}]
  BY DEF Show, SlotTyped

\* storePlan shows a plan with its hash.
LEMMA StoreTyped ==
  ASSUME NEW p \in Plans, Store(p)
  PROVE  summary' \in [state : {"checking", "ready", "applying", "failed"}, hash : Plans \cup {None}]
  BY DEF Store

\* A handler that answers forgets what it loaded.
LEMMA ForgetTyped ==
  ASSUME NEW c \in Client, Forget(c),
         reviewed \in [Client -> Plans \cup {None}], desired \in [Client -> Version \cup {None}]
  PROVE  reviewed' \in [Client -> Plans \cup {None}] /\ desired' \in [Client -> Version \cup {None}]
  BY DEF Forget

\* Counting an event stays within the bound.
LEMMA EventTyped == events \in 0..MaxEvents /\ Event => events' \in 0..MaxEvents
  BY BoundAssumption DEF Event

-----------------------------------------------------------------------------
(* The inductive invariant. *)

\* The daemon starts with no apply under way.
LEMMA InitIInv == Init => IInv
<1>. SUFFICES ASSUME Init PROVE IInv
  OBVIOUS
<1>. USE DEF Init
<1>1. summary \in [state : {"checking", "ready", "applying", "failed"}, hash : Plans \cup {None}]
  OBVIOUS
<1>2. events \in 0..MaxEvents
  BY BoundAssumption
<1>3. TypeOK
  BY <1>1, <1>2 DEF TypeOK
<1>4. \A c \in Client : pc[c] = "idle"
  OBVIOUS
<1>5. OneRun /\ HandlerHasLoaded
  BY <1>4 DEF OneRun, HandlerHasLoaded, Started, Loaded
<1>6. ReviewStands
  BY <1>4 DEF ReviewStands
<1>. QED BY <1>3, <1>5, <1>6 DEF IInv

\* The plan loop and the goroutine of afterRelease touch no apply and no Lease.
LEMMA LoopKeeps ==
  ASSUME IInv, Loop \/ Waiter
  PROVE  IInv'
<1>. USE BoundAssumption DEF IInv, OneRun, HandlerHasLoaded, ReviewStands, Current,
     runVars, slotVars
<1>1. TypeOK'
  <2>1. CASE LoopOver \/ LoopAgain \/ CheckRun \/ CheckHolder
    BY <2>1 DEF TypeOK, LoopOver, LoopAgain, CheckRun, CheckHolder, At
  <2>5. CASE AfterRelease
    BY <2>5 DEF TypeOK, AfterRelease, At
  <2>2. CASE ShowRunning \/ ShowHolder \/ ShowChecking
    BY <2>2 DEF TypeOK, ShowRunning, ShowHolder, ShowChecking, Show, At
  <2>3. CASE MakePlan \/ JudgePlan \/ StorePlan
    BY <2>3 DEF TypeOK, MakePlan, JudgePlan, StorePlan, Show, Store, At, Plans
  <2>4. CASE Waiter
    <3>1. SlotTyped /\ SlotTyped'
      <4>1. SlotTyped
        BY DEF TypeOK, SlotTyped
      <4>2. CASE WaiterKicks
        BY <4>1, <4>2, KickTyped DEF WaiterKicks
      <4>3. CASE WaitEnds \/ WaiterForgets
        BY <4>1, <4>3 DEF SlotTyped, WaitEnds, WaiterForgets
      <4>. QED BY <2>4, <4>1, <4>2, <4>3 DEF Waiter
    <3>2. waiter' \in {"off", "wait", "kick", "forget"}
      BY <2>4 DEF Waiter, WaitEnds, WaiterKicks, WaiterForgets
    <3>3. UNCHANGED <<repo, live, unseen, lease, runVars, events>>
      BY <2>4 DEF Waiter, WaitEnds, WaiterKicks, WaiterForgets
    <3>. QED BY <3>1, <3>2, <3>3 DEF TypeOK, SlotTyped
  <2>. QED BY <2>1, <2>2, <2>3, <2>4, <2>5 DEF Loop
<1>2. UNCHANGED <<repo, live, lease, run, pc, reviewed, desired>>
  BY DEF Loop, LoopOver, LoopAgain, CheckRun, ShowRunning, CheckHolder, ShowHolder,
     AfterRelease, ShowChecking, MakePlan, JudgePlan, StorePlan, Waiter, WaitEnds,
     WaiterKicks, WaiterForgets
<1>. QED BY <1>1, <1>2

\* A handler loads, compares and claims the run before it touches anything.
LEMMA HandlerKeeps ==
  ASSUME IInv, NEW c \in Client,
         ReadPlan(c) \/ LoadDesired(c) \/ MatchHash(c) \/ StartRun(c) \/ EndRun(c)
  PROVE  IInv'
<1>. USE BoundAssumption DEF IInv, Current, slotVars
<1>1. TypeOK'
  <2>1. CASE ReadPlan(c)
    BY <2>1, EventTyped DEF TypeOK, ReadPlan, Step
  <2>2. CASE LoadDesired(c)
    BY <2>2 DEF TypeOK, LoadDesired, Step
  <2>3. CASE MatchHash(c) \/ StartRun(c)
    <3>1. reviewed' \in [Client -> Plans \cup {None}] /\ desired' \in [Client -> Version \cup {None}]
      BY <2>3, ForgetTyped DEF TypeOK, MatchHash, StartRun
    <3>2. pc' \in [Client -> Places]
      BY <2>3 DEF TypeOK, Places, MatchHash, StartRun, Step
    <3>3. run' \in BOOLEAN
      BY <2>3 DEF TypeOK, MatchHash, StartRun
    <3>4. UNCHANGED <<repo, live, unseen, lease, slotVars, waiter, events>>
      BY <2>3 DEF MatchHash, StartRun
    <3>. QED BY <3>1, <3>2, <3>3, <3>4 DEF TypeOK, Places
  <2>4. CASE EndRun(c)
    <3>1. reviewed' \in [Client -> Plans \cup {None}] /\ desired' \in [Client -> Version \cup {None}]
      BY <2>4, ForgetTyped DEF TypeOK, EndRun
    <3>2. pc' \in [Client -> Places]
      BY <2>4 DEF TypeOK, Places, EndRun, Step
    <3>3. run' \in BOOLEAN /\ UNCHANGED <<repo, live, unseen, lease, slotVars, waiter, events>>
      BY <2>4 DEF EndRun
    <3>. QED BY <3>1, <3>2, <3>3 DEF TypeOK, Places
  <2>. QED BY <2>1, <2>2, <2>3, <2>4
<1>2. OneRun'
  BY DEF TypeOK, OneRun, Started, ReadPlan, LoadDesired, MatchHash, StartRun, EndRun, Step
<1>3. HandlerHasLoaded'
  BY DEF TypeOK, HandlerHasLoaded, Loaded, Started, ReadPlan, LoadDesired, MatchHash,
     StartRun, EndRun, Forget, Step
<1>4. ReviewStands'
  BY DEF TypeOK, ReviewStands, ReadPlan, LoadDesired, MatchHash, StartRun, EndRun, Forget,
     Step
<1>. QED BY <1>1, <1>2, <1>3, <1>4

\* A run locks, plans again and converges what it planned.
LEMMA RunKeeps ==
  ASSUME IInv, NEW c \in Client,
         \/ CancelPlan(c) \/ MarkApplying(c) \/ LockRun(c) \/ Replan(c) \/ ReplanFails(c)
         \/ StoreReplan(c) \/ Converge(c) \/ UnlockRun(c) \/ RunKicks(c)
  PROVE  IInv'
<1>. USE BoundAssumption DEF IInv, slotVars
<1>1. TypeOK'
  <2>0. SlotTyped
    BY DEF TypeOK, SlotTyped
  <2>1. CASE CancelPlan(c)
    BY <2>1 DEF TypeOK, CancelPlan, Step
  <2>4. CASE MarkApplying(c)
    BY <2>0, <2>4, ShowTyped DEF TypeOK, MarkApplying, Step
  <2>5. CASE RunKicks(c)
    <3>1. SlotTyped'
      BY <2>0, <2>5, KickTyped DEF RunKicks
    <3>. QED BY <2>5, <3>1 DEF TypeOK, SlotTyped, RunKicks, Step
  <2>2. CASE LockRun(c) \/ Replan(c) \/ ReplanFails(c) \/ UnlockRun(c)
    BY <2>2 DEF TypeOK, LockRun, Replan, ReplanFails, UnlockRun, Step
  <2>3. CASE StoreReplan(c) \/ Converge(c)
    <3>1. desired[c] \in Version
      BY <2>3 DEF HandlerHasLoaded, Loaded, Started, StoreReplan, Converge, Step
    <3>2. Current(desired[c]) \in Plans
      BY <3>1 DEF TypeOK, Current, Plans
    <3>3. CASE StoreReplan(c)
      BY <3>2, <3>3, StoreTyped DEF TypeOK, StoreReplan, Step
    <3>4. CASE Converge(c)
      BY <3>1, <3>4 DEF TypeOK, Converge, Step
    <3>. QED BY <2>3, <3>3, <3>4
  <2>. QED BY <2>1, <2>2, <2>3, <2>4, <2>5
<1>2. /\ \A d \in Client \ {c} : pc'[d] = pc[d]
      /\ UNCHANGED <<run, reviewed, desired>>
  BY DEF TypeOK, CancelPlan, MarkApplying, LockRun, Replan, ReplanFails, StoreReplan,
     Converge, UnlockRun, RunKicks, Step
<1>3. /\ pc'[c] \in Started => pc[c] \in Started
      /\ pc'[c] \in Loaded => pc[c] \in Loaded
  BY DEF TypeOK, Started, Loaded, CancelPlan, MarkApplying, LockRun, Replan, ReplanFails,
     StoreReplan, Converge, UnlockRun, RunKicks, Step
<1>4. OneRun' /\ HandlerHasLoaded'
  BY <1>2, <1>3 DEF OneRun, HandlerHasLoaded
<1>5. ReviewStands'
  <2>1. ASSUME NEW d \in Client, pc'[d] = "converge", lease' = "run"
        PROVE  reviewed'[d] = <<desired'[d], live'>>
    <3>1. CASE Replan(c)
      <4>1. CASE d = c
        BY <2>1, <3>1, <4>1 DEF TypeOK, Replan, Step, Current
      <4>2. CASE d # c
        BY <2>1, <3>1, <4>2 DEF TypeOK, ReviewStands, Replan, Step, Current
      <4>. QED BY <4>1, <4>2
    <3>2. CASE Converge(c) \/ LockRun(c)
      <4>1. pc[c] \in Started /\ pc'[c] # "converge"
        BY <3>2 DEF TypeOK, Started, Converge, LockRun, Step
      <4>2. pc[d] \in Started /\ d # c
        BY <2>1, <1>2, <4>1 DEF Started
      <4>. QED BY <4>1, <4>2 DEF OneRun
    <3>3. CASE ~(Replan(c) \/ Converge(c) \/ LockRun(c))
      <4>1. pc[d] = "converge" /\ lease = "run"
        BY <2>1, <3>3 DEF TypeOK, CancelPlan, MarkApplying, ReplanFails, StoreReplan,
           UnlockRun, RunKicks, Step
      <4>2. UNCHANGED live
        BY <3>3 DEF CancelPlan, MarkApplying, ReplanFails, StoreReplan, UnlockRun, RunKicks
      <4>. QED BY <1>2, <4>1, <4>2 DEF ReviewStands, Current
    <3>. QED BY <3>1, <3>2, <3>3
  <2>. QED BY <2>1 DEF ReviewStands, Current
<1>. QED BY <1>1, <1>4, <1>5

\* Edits, kicks and the CLI beside it: while the run holds the Lease, the CLI
\* does not change the cluster.
LEMMA OthersKeep ==
  ASSUME IInv, Edit \/ RepoChanged \/ Drift \/ CliLocks \/ CliEnds \/ LeaseExpires
  PROVE  IInv'
<1>. USE BoundAssumption DEF IInv, slotVars, runVars
<1>1. TypeOK'
  <2>0. SlotTyped
    BY DEF TypeOK, SlotTyped
  <2>1. CASE Edit
    BY <2>1, EventTyped DEF TypeOK, Edit
  <2>4. CASE CliLocks
    BY <2>4, EventTyped DEF TypeOK, CliLocks
  <2>2. CASE RepoChanged \/ Drift
    <3>1. SlotTyped'
      BY <2>0, <2>2, KickTyped DEF RepoChanged, Drift
    <3>. QED BY <2>2, <3>1 DEF TypeOK, SlotTyped, RepoChanged, Drift
  <2>3. CASE CliEnds \/ LeaseExpires
    BY <2>3 DEF TypeOK, CliEnds, LeaseExpires
  <2>. QED BY <2>1, <2>2, <2>3, <2>4
<1>2. UNCHANGED runVars
  BY DEF Edit, RepoChanged, Drift, CliLocks, CliEnds, LeaseExpires
<1>3. OneRun' /\ HandlerHasLoaded'
  BY <1>2 DEF OneRun, HandlerHasLoaded
<1>4. ReviewStands'
  BY <1>2 DEF ReviewStands, Current, Edit, RepoChanged, Drift, CliLocks, CliEnds,
     LeaseExpires
<1>. QED BY <1>1, <1>3, <1>4

\* Every step keeps the invariant.
LEMMA IInvStep == IInv /\ [Next]_vars => IInv'
<1>. SUFFICES ASSUME IInv, [Next]_vars PROVE IInv'
  OBVIOUS
<1>1. CASE Loop \/ Waiter
  BY <1>1, LoopKeeps
<1>2. ASSUME NEW c \in Client, ReadPlan(c) \/ LoadDesired(c) \/ Run(c) PROVE IInv'
  BY <1>2, HandlerKeeps, RunKeeps DEF Run
<1>3. CASE Edit \/ RepoChanged \/ Drift \/ CliLocks \/ CliEnds \/ LeaseExpires
  BY <1>3, OthersKeep
<1>4. CASE UNCHANGED vars
  BY <1>4 DEF vars, slotVars, runVars, IInv, TypeOK, OneRun, HandlerHasLoaded,
     ReviewStands, Current
<1>. QED BY <1>1, <1>2, <1>3, <1>4 DEF Next

\* The inductive invariant of the planner and the console's applies.
THEOREM Invariance == Spec => []IInv
  BY InitIInv, IInvStep, PTL DEF Spec

\* Every variable keeps its type: internal/api/planner.go and apply.go.
THEOREM TypeCorrect == Spec => []TypeOK
<1>1. IInv => TypeOK
  BY DEF IInv
<1>. QED BY Invariance, <1>1, PTL

\* applyReviewed: from the review step until the work begins, the cluster stays
\* the one the reviewed plan is about as long as the run has its Lease, which
\* startRun (the daemon's other applies) and LockApply (the CLI's) bring about
\* together, whichever calls go unanswered.
THEOREM ReviewHolds == Spec => []ReviewStands
<1>1. IInv => ReviewStands
  BY DEF IInv
<1>. QED BY Invariance, <1>1, PTL

\* startRun: one apply of the daemon at a time on a cluster.
THEOREM OneRunAtATime == Spec => []OneRun
<1>1. IInv => OneRun
  BY DEF IInv
<1>. QED BY Invariance, <1>1, PTL

=============================================================================
