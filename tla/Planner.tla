------------------------------- MODULE Planner ------------------------------
(***************************************************************************)
(* The daemon's planner and its runs for one cluster                       *)
(* (internal/api/planner.go, internal/api/apply.go): the plan loop, the    *)
(* waiter for the apply Lease, the handlers and goroutines of applies      *)
(* started from the console, and an apply of the CLI beside them.          *)
(*                                                                         *)
(* The Lease is seen as ApplyLease proves it: one holder at a time, freed  *)
(* by a release or by expiry.  A plan is the pair it is a function of: the *)
(* repository's content and what the live cluster runs.                    *)
(***************************************************************************)
EXTENDS Naturals, FiniteSets

CONSTANTS
    Client,       \* console users that may start an apply
    Version,      \* contents of cluster.yaml; also what the cluster may run
    None,         \* no plan, no hash, nothing loaded
    ConsoleOpen,  \* somebody has a console open: hub.idle() is false
    ApiMayFail,   \* calls about the Lease may go unanswered
    MaxEvents     \* bound on edits, console applies and CLI applies together

ASSUME BoundAssumption ==
    /\ MaxEvents \in Nat
    /\ ConsoleOpen \in BOOLEAN /\ ApiMayFail \in BOOLEAN
    /\ None \notin Version \cup (Version \X Version)

VARIABLES
    repo,      \* content of the repository
    live,      \* what the cluster runs
    unseen,    \* an edit the repository watch has not reported yet
    lease,     \* holder of the apply Lease: "free", "cli", a "run" of this daemon,
               \* or "left": this daemon's name, but no run will release it
    summary,   \* planSlot.summary: the state and hash the console shows
    dirty,     \* planSlot.dirty
    ctx,       \* the context behind planSlot.cancel
    loop,      \* where planLoop is; "off" is planSlot.running = FALSE
    plan,      \* the plan planOnce holds, or None after an error
    waiter,    \* where afterRelease's goroutine is; "off" is no releases entry
    run,       \* runs[name].Running
    pc,        \* where each client's handler, then its run, is
    reviewed,  \* the plan a client reviewed
    desired,   \* the Desired a client's handler loaded
    events     \* counter behind MaxEvents

slotVars == <<summary, dirty, ctx, loop, plan>>
runVars == <<run, pc, reviewed, desired>>
vars == <<repo, live, unseen, lease, slotVars, waiter, runVars, events>>

Plans == Version \X Version
Current(v) == <<v, live>>

\* Bounds what users and other processes start.
Event == events < MaxEvents /\ events' = events + 1

-----------------------------------------------------------------------------
(* kickPlan: mark the slot dirty and see that a loop runs.  A reason other   *)
(* than "repo" leaves a plan in flight alone.                                *)

\* Variant: a kick that does not start the loop.
KickOnly(cancels) ==
    /\ dirty' = TRUE
    /\ ctx' = IF cancels /\ loop # "off" /\ ctx # "none" THEN "cancelled" ELSE ctx
    /\ UNCHANGED <<loop, summary, plan>>

Kick(cancels) ==
    /\ dirty' = TRUE
    /\ ctx' = IF cancels /\ loop # "off" /\ ctx # "none" THEN "cancelled" ELSE ctx
    /\ loop' = IF loop = "off" THEN "top" ELSE loop
    /\ UNCHANGED <<summary, plan>>

\* setSummary: the hash stays what the last stored plan left.
Show(state) == summary' = [summary EXCEPT !.state = state]

\* storePlan.
Store(p) == summary' = [state |-> "ready", hash |-> p]

-----------------------------------------------------------------------------
(* planLoop and planOnce. *)

At(here, there) == loop = here /\ loop' = there

LoopOver ==
    /\ At("top", "off")
    /\ ~dirty
    /\ ctx' = "none"
    /\ UNCHANGED <<repo, live, unseen, lease, summary, dirty, plan, waiter, runVars, events>>

\* Variant: the loop plans again under the cancelled context.
LoopAgainSameCtx ==
    /\ At("top", "check")
    /\ dirty
    /\ dirty' = FALSE
    /\ ctx' = IF ctx = "cancelled" THEN ctx ELSE "live"
    /\ UNCHANGED <<repo, live, unseen, lease, summary, plan, waiter, runVars, events>>

LoopAgain ==
    /\ At("top", "check")
    /\ dirty
    /\ dirty' = FALSE
    /\ ctx' = "live"
    /\ UNCHANGED <<repo, live, unseen, lease, summary, plan, waiter, runVars, events>>

\* runKind.
CheckRun ==
    /\ loop = "check"
    /\ loop' = IF run THEN "running" ELSE "holder"
    /\ UNCHANGED <<repo, live, unseen, lease, summary, dirty, ctx, plan, waiter, runVars, events>>

ShowRunning ==
    /\ At("running", "top")
    /\ Show("applying")
    /\ UNCHANGED <<repo, live, unseen, lease, dirty, ctx, plan, waiter, runVars, events>>

\* ApplyHolder: a call that fails counts as nobody holding the Lease.
CheckHolder ==
    /\ loop = "holder"
    /\ \/ lease # "free" /\ loop' = "held"
       \/ (lease = "free" \/ ApiMayFail) /\ loop' = "begin"
    /\ UNCHANGED <<repo, live, unseen, lease, summary, dirty, ctx, plan, waiter, runVars, events>>

ShowHolder ==
    /\ At("held", "await")
    /\ Show("applying")
    /\ UNCHANGED <<repo, live, unseen, lease, dirty, ctx, plan, waiter, runVars, events>>

\* afterRelease: one goroutine waits at a time.
AfterRelease ==
    /\ At("await", "top")
    /\ waiter' = IF waiter = "off" THEN "wait" ELSE waiter
    /\ UNCHANGED <<repo, live, unseen, lease, summary, dirty, ctx, plan, runVars, events>>

ShowChecking ==
    /\ At("begin", "planning")
    /\ Show("checking")
    /\ UNCHANGED <<repo, live, unseen, lease, dirty, ctx, plan, waiter, runVars, events>>

\* planFromRepo: loads the repository, observes the cluster, or fails.
MakePlan ==
    /\ At("planning", "planned")
    /\ plan' \in {Current(repo), None}
    /\ UNCHANGED <<repo, live, unseen, lease, summary, dirty, ctx, waiter, runVars, events>>

\* What planOnce does with its result: drop it when a run began or it was
\* cancelled, show an error, store a plan.
Drop == run \/ ctx = "cancelled"

JudgePlan ==
    /\ loop = "planned"
    /\ loop' = IF Drop THEN "top" ELSE "store"
    /\ plan' = IF Drop THEN None ELSE plan
    /\ UNCHANGED <<repo, live, unseen, lease, summary, dirty, ctx, waiter, runVars, events>>

StorePlan ==
    /\ At("store", "top")
    /\ IF plan = None THEN Show("failed") ELSE Store(plan)
    /\ plan' = None
    /\ UNCHANGED <<repo, live, unseen, lease, dirty, ctx, waiter, runVars, events>>

Loop ==
    \/ LoopOver \/ LoopAgain \/ CheckRun \/ ShowRunning \/ CheckHolder \/ ShowHolder
    \/ AfterRelease \/ ShowChecking \/ MakePlan \/ JudgePlan \/ StorePlan

-----------------------------------------------------------------------------
(* The goroutine of afterRelease: WaitApplyReleased, a kick, and last the    *)
(* deferred removal from `releases`.                                         *)

WaitEnds ==
    /\ waiter = "wait"
    /\ \/ lease = "free" /\ waiter' = "kick"
       \/ ApiMayFail /\ waiter' = "forget"
    /\ UNCHANGED <<repo, live, unseen, lease, slotVars, runVars, events>>

WaiterKicks ==
    /\ waiter = "kick"
    /\ waiter' = "forget"
    /\ Kick(FALSE)
    /\ UNCHANGED <<repo, live, unseen, lease, runVars, events>>

WaiterForgets ==
    /\ waiter = "forget"
    /\ waiter' = "off"
    /\ UNCHANGED <<repo, live, unseen, lease, slotVars, runVars, events>>

Waiter == WaitEnds \/ WaiterKicks \/ WaiterForgets

-----------------------------------------------------------------------------
(* An apply from the console: handleApply, startRun, run, applyReviewed.     *)

Step(c, here, there) == pc[c] = here /\ pc' = [pc EXCEPT ![c] = there]

\* A user reads the plan on the Changes page.
ReadPlan(c) ==
    /\ Step(c, "idle", "reviewed")
    /\ Event
    /\ summary.state = "ready"
    /\ reviewed' = [reviewed EXCEPT ![c] = summary.hash]
    /\ UNCHANGED <<repo, live, unseen, lease, slotVars, waiter, run, desired>>

\* handleApply loads the repository first, ...
LoadDesired(c) ==
    /\ Step(c, "reviewed", "loaded")
    /\ desired' = [desired EXCEPT ![c] = repo]
    /\ UNCHANGED <<repo, live, unseen, lease, slotVars, waiter, run, reviewed, events>>

\* A handler that answers, or a run that ends, leaves nothing behind.
Forget(c) ==
    /\ reviewed' = [reviewed EXCEPT ![c] = None]
    /\ desired' = [desired EXCEPT ![c] = None]

\* ... then compares the hashes: no longer the latest plan is a conflict.
MatchHash(c) ==
    /\ \/ /\ summary.hash = reviewed[c]
          /\ Step(c, "loaded", "start")
          /\ UNCHANGED <<reviewed, desired>>
       \/ /\ summary.hash # reviewed[c]
          /\ Step(c, "loaded", "idle")
          /\ Forget(c)
    /\ UNCHANGED <<repo, live, unseen, lease, slotVars, waiter, run, events>>

\* Variant: startRun does not look for a run under way.
StartRunAnyway(c) ==
    /\ run' = TRUE
    /\ Step(c, "start", "cancel")
    /\ UNCHANGED <<repo, live, unseen, lease, slotVars, waiter, reviewed, desired, events>>

\* startRun claims the cluster's only run or answers with a conflict.
StartRun(c) ==
    /\ \/ /\ ~run
          /\ run' = TRUE
          /\ Step(c, "start", "cancel")
          /\ UNCHANGED <<reviewed, desired>>
       \/ /\ run
          /\ Step(c, "start", "idle")
          /\ Forget(c)
          /\ UNCHANGED run
    /\ UNCHANGED <<repo, live, unseen, lease, slotVars, waiter, events>>

CancelPlan(c) ==
    /\ Step(c, "cancel", "mark")
    /\ ctx' = IF loop # "off" /\ ctx # "none" THEN "cancelled" ELSE ctx
    /\ UNCHANGED <<repo, live, unseen, lease, summary, dirty, loop, plan, waiter>>
    /\ UNCHANGED <<run, reviewed, desired, events>>

MarkApplying(c) ==
    /\ Step(c, "mark", "lock")
    /\ Show("applying")
    /\ UNCHANGED <<repo, live, unseen, lease, dirty, ctx, loop, plan, waiter>>
    /\ UNCHANGED <<run, reviewed, desired, events>>

\* LockApply: taken or refused.  Where a call fails, the run goes on without
\* the Lease (create) or ends (get, update), and the Lease may be taken for it
\* all the same when only the answer was lost.
LockRun(c) ==
    /\ \/ lease = "free" /\ lease' = "run" /\ Step(c, "lock", "replan")
       \/ lease # "free" /\ lease' = lease /\ Step(c, "lock", "end")
       \/ /\ ApiMayFail
          /\ lease' \in {lease, IF lease = "free" THEN "left" ELSE lease}
          /\ Step(c, "lock", "replan") \/ Step(c, "lock", "end")
    /\ UNCHANGED <<repo, live, unseen, slotVars, waiter, run, reviewed, desired, events>>

\* The review step plans again from what the handler loaded and compares.
Replan(c) ==
    /\ Step(c, "replan", IF Current(desired[c]) = reviewed[c] THEN "converge" ELSE "overwrite")
    /\ UNCHANGED <<repo, live, unseen, lease, slotVars, waiter, run, reviewed, desired, events>>

\* Planning fails, or the plan has problems.
ReplanFails(c) ==
    /\ Step(c, "replan", "unlock")
    /\ UNCHANGED <<repo, live, unseen, lease, slotVars, waiter, run, reviewed, desired, events>>

StoreReplan(c) ==
    /\ Step(c, "overwrite", "unlock")
    /\ Store(Current(desired[c]))
    /\ UNCHANGED <<repo, live, unseen, lease, dirty, ctx, loop, plan, waiter>>
    /\ UNCHANGED <<run, reviewed, desired, events>>

Converge(c) ==
    /\ Step(c, "converge", "unlock")
    /\ live' \in {desired[c], live}
    /\ UNCHANGED <<repo, unseen, lease, slotVars, waiter, run, reviewed, desired, events>>

\* unlock, where LockApply took the Lease: a release that fails leaves it to
\* expire.
UnlockRun(c) ==
    /\ Step(c, "unlock", "end")
    /\ lease' \in IF lease # "run" THEN {lease}
                  ELSE {"free"} \cup (IF ApiMayFail THEN {"left"} ELSE {})
    /\ UNCHANGED <<repo, live, unseen, slotVars, waiter, run, reviewed, desired, events>>

EndRun(c) ==
    /\ Step(c, "end", "kick")
    /\ run' = FALSE
    /\ Forget(c)
    /\ UNCHANGED <<repo, live, unseen, lease, slotVars, waiter, events>>

RunKicks(c) ==
    /\ Step(c, "kick", "idle")
    /\ Kick(FALSE)
    /\ UNCHANGED <<repo, live, unseen, lease, waiter, run, reviewed, desired, events>>

\* Once requested, an apply ends by itself.
Run(c) ==
    \/ MatchHash(c) \/ StartRun(c) \/ CancelPlan(c) \/ MarkApplying(c) \/ LockRun(c)
    \/ Replan(c) \/ ReplanFails(c) \/ StoreReplan(c) \/ Converge(c) \/ UnlockRun(c)
    \/ EndRun(c) \/ RunKicks(c)

-----------------------------------------------------------------------------
(* Everything else that kicks or applies. *)

Edit ==
    /\ Event
    /\ repo' \in Version \ {repo}
    /\ unseen' = TRUE
    /\ UNCHANGED <<live, lease, slotVars, waiter, runVars>>

\* The repository watch reports the edit: kickPlan(name, "repo").
RepoChanged ==
    /\ unseen
    /\ unseen' = FALSE
    /\ Kick(TRUE)
    /\ UNCHANGED <<repo, live, lease, waiter, runVars, events>>

\* planDrift, every half hour; noteStatus and a manual kick look the same.
Drift ==
    /\ ConsoleOpen
    /\ ~run
    /\ Kick(FALSE)
    /\ UNCHANGED <<repo, live, unseen, lease, waiter, runVars, events>>

CliLocks ==
    /\ Event
    /\ lease = "free"
    /\ lease' = "cli"
    /\ UNCHANGED <<repo, live, unseen, slotVars, waiter, runVars>>

\* The CLI's apply ends, or stops and its Lease expires; it does not work on
\* beyond the hour.
CliEnds ==
    /\ lease = "cli"
    /\ lease' = "free"
    /\ live' \in {repo, live}
    /\ UNCHANGED <<repo, unseen, slotVars, waiter, runVars, events>>

\* A Lease of this daemon after its hour, which nothing renews: one that
\* nobody releases, or that of a run which takes longer.
LeaseExpires ==
    /\ lease \in {"run", "left"}
    /\ lease' = "free"
    /\ UNCHANGED <<repo, live, unseen, slotVars, waiter, runVars, events>>

Next ==
    \/ Loop \/ Waiter
    \/ \E c \in Client : ReadPlan(c) \/ LoadDesired(c) \/ Run(c)
    \/ Edit \/ RepoChanged \/ Drift \/ CliLocks \/ CliEnds \/ LeaseExpires

Init ==
    /\ repo \in Version /\ live \in Version
    /\ unseen = FALSE
    /\ lease = "free"
    /\ summary = [state |-> "checking", hash |-> None]
    /\ dirty = TRUE /\ ctx = "none" /\ loop = "top" /\ plan = None
    /\ waiter = "off"
    /\ run = FALSE
    /\ pc = [c \in Client |-> "idle"]
    /\ reviewed = [c \in Client |-> None]
    /\ desired = [c \in Client |-> None]
    /\ events = 0

\* Goroutines run, the Lease is freed in the end (ApplyLease), the watch
\* reports edits; users and the CLI owe nothing.
Fairness ==
    /\ WF_vars(Loop) /\ WF_vars(Waiter)
    /\ \A c \in Client : WF_vars(Run(c))
    /\ WF_vars(RepoChanged) /\ WF_vars(Drift)
    /\ WF_vars(CliEnds) /\ WF_vars(LeaseExpires)

Spec == Init /\ [][Next]_vars /\ Fairness

-----------------------------------------------------------------------------
(* Properties. *)

TypeOK ==
    /\ repo \in Version /\ live \in Version /\ unseen \in BOOLEAN
    /\ lease \in {"free", "run", "left", "cli"}
    /\ summary \in [state : {"checking", "ready", "applying", "failed"}, hash : Plans \cup {None}]
    /\ dirty \in BOOLEAN
    /\ ctx \in {"none", "live", "cancelled"}
    /\ loop \in {"off", "top", "check", "running", "holder", "held", "await", "begin",
                 "planning", "planned", "store"}
    /\ plan \in Plans \cup {None}
    /\ waiter \in {"off", "wait", "kick", "forget"}
    /\ run \in BOOLEAN
    /\ pc \in [Client -> {"idle", "reviewed", "loaded", "start", "cancel", "mark", "lock",
                          "replan", "overwrite", "converge", "unlock", "end", "kick"}]
    /\ reviewed \in [Client -> Plans \cup {None}]
    /\ desired \in [Client -> Version \cup {None}]
    /\ events \in 0..MaxEvents

\* A run that holds the Lease converges a cluster that is still the one its
\* user reviewed the plan of: nobody applies to it between the review step and
\* the work, although users, edits, newer plans and the CLI go on meanwhile.
ReviewStands ==
    \A c \in Client :
        pc[c] = "converge" /\ lease = "run" => reviewed[c] = Current(desired[c])

ShowsPlanOf(v) == summary.hash # None /\ summary.hash[1] = v

\* With a console open the summary leaves "checking" and "applying": neither a
\* cancelled plan nor a Lease nobody waits for any more sticks.
SummarySettles ==
    (summary.state \in {"checking", "applying"}) ~> (summary.state \in {"ready", "failed"})

\* Every content of the repository that stays is planned and shown, unless
\* planning it fails.
EditIsPlanned ==
    \A v \in Version :
        (repo = v) ~> (repo # v \/ summary.state = "failed" \/ ShowsPlanOf(v))

=============================================================================
