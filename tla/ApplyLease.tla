----------------------------- MODULE ApplyLease -----------------------------
(***************************************************************************)
(* The Lease kube-system/kubit-apply (internal/cluster/lock.go): how kubit *)
(* processes on several hosts keep their applies apart, with an apiserver  *)
(* that goes away, calls whose answer is lost, processes that crash and    *)
(* pids that are reused.                                                   *)
(*                                                                         *)
(* One behaviour is the life of one Lease object.  Time is a number of     *)
(* ticks; what the code compares are ages (now - RenewTime), so the model  *)
(* keeps ages, which stop growing at Duration.  All hosts agree on an age: *)
(* their clocks are taken to show the same time.                           *)
(***************************************************************************)
EXTENDS Naturals

CONSTANTS
    Kubit,      \* kubit processes; a restarted one is another element
    HostOf,     \* HostOf[p]: the machine p runs on
    NoOne,      \* an empty HolderIdentity
    Duration,   \* applyLeaseTime, in ticks
    CallTicks   \* the most ticks LockApply's 10 s call context spans

ASSUME HolderAssumption == NoOne \notin Kubit
ASSUME DurationAssumption ==
    /\ Duration \in Nat
    /\ CallTicks \in Nat
    /\ CallTicks < Duration

VARIABLES
    api,        \* the apiserver answers
    lease,      \* the Lease object: does it exist, its holder, its RenewTime's age
    fresh,      \* processes whose last Get returned the current resourceVersion
    pc,         \* where each process is
    since,      \* age of the `now` a process puts into RenewTime
    pid         \* who has the pid of a kubit process: itself, nobody, another program

vars == <<api, lease, fresh, pc, since, pid>>

Calling == {"create", "get", "take"}
Locked == {"locked", "relget", "relput"}
Control == {"idle", "unlocked", "dead"} \cup Calling \cup Locked

\* Ages saturate: past Duration nothing distinguishes them.
Older(age) == IF age < Duration THEN age + 1 ELSE age

\* Variant: the pid is looked up for holders on every host.
OrphanedAnywhere(h, p) == pid[h] = "gone" \/ HostOf[h] # HostOf[p]

\* orphaned: on p's own host, nobody has the pid the holder names.
Orphaned(h, p) == HostOf[h] = HostOf[p] /\ pid[h] = "gone"

\* Variant: a Lease that never expires.
HeldForever(l, p) == l.holder # NoOne /\ ~Orphaned(l.holder, p)

\* held, as p evaluates it.
Held(l, p) ==
    /\ l.holder # NoOne
    /\ ~Orphaned(l.holder, p)
    /\ l.age < Duration

-----------------------------------------------------------------------------
(* LockApply. *)

Goto(p, at) == pc' = [pc EXCEPT ![p] = at]
Idle(p) == Goto(p, "idle") /\ since' = [since EXCEPT ![p] = 0]

\* A successful write: nobody else's copy is current any more.
WriteLease(h, age) ==
    /\ lease' = [exists |-> TRUE, holder |-> h, age |-> age]
    /\ fresh' = {}

Begin(p) ==
    /\ pc[p] = "idle"
    /\ Goto(p, "create")
    /\ since' = [since EXCEPT ![p] = 0]
    /\ UNCHANGED <<api, lease, fresh, pid>>

\* Create made the Lease.  When the answer is lost the error is not
\* AlreadyExists, so the apply goes on without a lock it does hold.
Create(p) ==
    /\ pc[p] = "create"
    /\ api
    /\ ~lease.exists
    /\ WriteLease(p, since[p])
    /\ \/ Goto(p, "locked") /\ UNCHANGED since
       \/ Goto(p, "unlocked") /\ since' = [since EXCEPT ![p] = 0]
    /\ UNCHANGED <<api, pid>>

CreateExists(p) ==
    /\ pc[p] = "create"
    /\ api
    /\ lease.exists
    /\ Goto(p, "get")
    /\ UNCHANGED <<api, lease, fresh, since, pid>>

\* Any other error of Create (no client, no answer) starts the apply unlocked.
CreateFails(p) ==
    /\ pc[p] = "create"
    /\ Goto(p, "unlocked")
    /\ since' = [since EXCEPT ![p] = 0]
    /\ UNCHANGED <<api, lease, fresh, pid>>

Get(p) ==
    /\ pc[p] = "get"
    /\ api
    /\ ~Held(lease, p)
    /\ fresh' = fresh \cup {p}
    /\ Goto(p, "take")
    /\ UNCHANGED <<api, lease, since, pid>>

\* The Lease is held: LockApply refuses.
GetHeld(p) ==
    /\ pc[p] = "get"
    /\ api
    /\ Held(lease, p)
    /\ Idle(p)
    /\ UNCHANGED <<api, lease, fresh, pid>>

\* Variant: an Update without resourceVersion.
TakeBlindly(p) ==
    /\ pc[p] = "take"
    /\ api
    /\ WriteLease(p, since[p])
    /\ Goto(p, "locked") /\ UNCHANGED since
    /\ UNCHANGED <<api, pid>>

\* Update carries the resourceVersion Get returned.
Take(p) ==
    /\ pc[p] = "take"
    /\ api
    /\ p \in fresh
    /\ WriteLease(p, since[p])
    /\ Goto(p, "locked") /\ UNCHANGED since
    /\ UNCHANGED <<api, pid>>

\* The Update was applied and its answer lost: LockApply returns the error.
TakeUnanswered(p) ==
    /\ pc[p] = "take"
    /\ api
    /\ p \in fresh
    /\ WriteLease(p, since[p])
    /\ Idle(p)
    /\ UNCHANGED <<api, pid>>

\* A Get or an Update that fails, a conflict among them, ends LockApply.
LockFails(p) ==
    /\ pc[p] \in {"get", "take"}
    /\ Idle(p)
    /\ fresh' = fresh \ {p}
    /\ UNCHANGED <<api, lease, pid>>

-----------------------------------------------------------------------------
(* The function LockApply returns, deferred by every caller. *)

Finish(p) ==
    \/ /\ pc[p] = "locked"
       /\ Goto(p, "relget")
       /\ UNCHANGED <<api, lease, fresh, since, pid>>
    \/ /\ pc[p] = "unlocked"
       /\ Idle(p)
       /\ UNCHANGED <<api, lease, fresh, pid>>

\* Variant: the release does not look at the holder.
ReleaseGetAny(p) ==
    /\ pc[p] = "relget"
    /\ api
    /\ fresh' = fresh \cup {p}
    /\ Goto(p, "relput")
    /\ UNCHANGED <<api, lease, since, pid>>

ReleaseGet(p) ==
    /\ pc[p] = "relget"
    /\ api
    /\ lease.holder = p
    /\ fresh' = fresh \cup {p}
    /\ Goto(p, "relput")
    /\ UNCHANGED <<api, lease, since, pid>>

Release(p) ==
    /\ pc[p] = "relput"
    /\ api
    /\ p \in fresh
    /\ WriteLease(NoOne, 0)
    /\ Idle(p)
    /\ UNCHANGED <<api, pid>>

\* No answer, a conflict, or a Lease that names another holder: give up.
ReleaseFails(p) ==
    /\ pc[p] \in {"relget", "relput"}
    /\ Idle(p)
    /\ fresh' = fresh \ {p}
    /\ UNCHANGED <<api, lease, pid>>

-----------------------------------------------------------------------------
(* The world around the processes. *)

\* A process dies at any point of its run.
Crash(p) ==
    /\ pc[p] # "dead"
    /\ pc' = [pc EXCEPT ![p] = "dead"]
    /\ since' = [since EXCEPT ![p] = 0]
    /\ pid' = [pid EXCEPT ![p] = "gone"]
    /\ fresh' = fresh \ {p}
    /\ UNCHANGED <<api, lease>>

\* The kernel hands a dead process's pid to another program, which may exit too.
PidReused(p) ==
    /\ pc[p] = "dead"
    /\ pid' = [pid EXCEPT ![p] = IF @ = "gone" THEN "other" ELSE "gone"]
    /\ UNCHANGED <<api, lease, fresh, pc, since>>

ApiChanges ==
    /\ api' = ~api
    /\ UNCHANGED <<lease, fresh, pc, since, pid>>

\* Time passes, but never beyond a call's deadline while it is out.
Tick ==
    /\ \A p \in Kubit : pc[p] \in Calling => since[p] < CallTicks
    /\ lease' = [lease EXCEPT !.age = Older(@)]
    /\ since' = [p \in Kubit |->
                    IF pc[p] \in Calling \cup Locked THEN Older(since[p]) ELSE since[p]]
    /\ UNCHANGED <<api, fresh, pc, pid>>

Call(p) ==
    \/ Create(p) \/ CreateExists(p) \/ CreateFails(p)
    \/ Get(p) \/ GetHeld(p) \/ Take(p) \/ TakeUnanswered(p) \/ LockFails(p)
    \/ ReleaseGet(p) \/ Release(p) \/ ReleaseFails(p)

Next ==
    \/ \E p \in Kubit : Begin(p) \/ Call(p) \/ Finish(p) \/ Crash(p) \/ PidReused(p)
    \/ ApiChanges
    \/ Tick

Init ==
    /\ api \in BOOLEAN
    /\ lease = [exists |-> FALSE, holder |-> NoOne, age |-> 0]
    /\ fresh = {}
    /\ pc = [p \in Kubit |-> "idle"]
    /\ since = [p \in Kubit |-> 0]
    /\ pid = [p \in Kubit |-> "own"]

\* Clocks advance and calls end, by an answer or by their deadline.  How long
\* an apply takes, and whether it ends at all, is not assumed.
Fairness ==
    /\ WF_vars(Tick)
    /\ \A p \in Kubit : WF_vars(Call(p))

Spec == Init /\ [][Next]_vars /\ Fairness

-----------------------------------------------------------------------------
(* Properties. *)

TypeOK ==
    /\ api \in BOOLEAN
    /\ lease \in [exists : BOOLEAN, holder : Kubit \cup {NoOne}, age : 0..Duration]
    /\ fresh \subseteq Kubit
    /\ pc \in [Kubit -> Control]
    /\ since \in [Kubit -> 0..Duration]
    /\ pid \in [Kubit -> {"own", "gone", "other"}]

\* Two applies that both took the Lease overlap only once one of them has run
\* longer than the Lease's duration: Get, Update and the release of several
\* processes interleave, and the resourceVersion keeps them apart.
ExclusiveUntilExpiry ==
    \A p, q \in Kubit :
        (p # q /\ pc[p] \in Locked /\ pc[q] \in Locked)
            => (since[p] >= Duration \/ since[q] >= Duration)

\* The Lease of a process that is alive is replaced or cleared only by that
\* process, or once it expired: neither a slow release nor a take-over based on
\* an old Get undoes a later acquisition.
LiveHolderKeepsLease ==
    [][\A p \in Kubit :
        (lease.holder = p /\ lease'.holder # p /\ pc[p] # "dead")
            => (pc[p] = "relput" \/ lease.age >= Duration)]_vars

\* The Lease a crashed process left behind stops keeping others out, also for a
\* process on another host and when another program has the dead one's pid.
CrashedHolderLapses ==
    \A p, q \in Kubit :
        (lease.holder = p /\ pc[p] = "dead")
            ~> ~(lease.holder = p /\ Held(lease, q))

\* The processes' standing as the abstract lock sees it.
Claim == [p \in Kubit |->
             CASE pc[p] \notin Locked -> "out"
               [] pc[p] \in Locked /\ since[p] < Duration -> "owner"
               [] OTHER -> "overdue"]

Mutex == INSTANCE ApplyMutex WITH claim <- Claim

\* LockApply and its release implement the abstract lock of ApplyMutex.
ImplementsMutex == Mutex!Spec

-----------------------------------------------------------------------------
(* Why it holds: the invariant behind the properties above, proved inductive  *)
(* in ApplyLeaseProofs.                                                       *)

\* A process that runs has its pid; a dead one does not.
PidsTellTheDead == \A p \in Kubit : pid[p] = "own" <=> pc[p] # "dead"

\* LockApply's call context ends before a Lease could expire.
CallsAreShort == \A p \in Kubit : pc[p] \in Calling => since[p] <= CallTicks

\* Before the first Create nobody holds anything, nothing was read and nobody
\* was told that the Lease exists.
NothingBeforeCreate ==
    ~lease.exists => lease.holder = NoOne /\ fresh = {} /\ \A p \in Kubit : pc[p] # "get"

\* Whoever took the Lease and has not outlived it is named by it, and the age
\* of its RenewTime is the time since it took the Lease.
OwnerIsNamed ==
    \A p \in Kubit :
        (pc[p] \in Locked /\ since[p] < Duration)
            => lease.exists /\ lease.holder = p /\ lease.age = since[p]

\* A take-over about to succeed finds a holder that is dead or expired ...
TakesFromNobodyAlive ==
    \A p, q \in Kubit :
        (pc[p] = "take" /\ p \in fresh /\ lease.holder = q)
            => (pc[q] = "dead" \/ lease.age >= Duration)

\* ... and a release about to succeed finds the process itself.
ReleasesItsOwn ==
    \A p \in Kubit : (pc[p] = "relput" /\ p \in fresh) => lease.holder = p

IInv ==
    /\ TypeOK
    /\ PidsTellTheDead
    /\ CallsAreShort
    /\ NothingBeforeCreate
    /\ OwnerIsNamed
    /\ TakesFromNobodyAlive
    /\ ReleasesItsOwn

=============================================================================
