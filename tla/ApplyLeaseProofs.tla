--------------------------- MODULE ApplyLeaseProofs --------------------------
(***************************************************************************)
(* Proofs about the apply Lease, for any processes, hosts and durations:   *)
(* IInv is inductive, and from it follow the mutual exclusion of applies   *)
(* that have not outlived their Lease, the safety of a live holder's Lease *)
(* and the refinement of ApplyMutex.                                       *)
(***************************************************************************)
EXTENDS ApplyLease, TLAPS

\* Ages stay ages, and grow together.
LEMMA OlderAge ==
    ASSUME NEW age \in 0..Duration
    PROVE  /\ Older(age) \in 0..Duration
           /\ Older(age) >= age
           /\ Older(age) < Duration => age < Duration
  BY DurationAssumption DEF Older

\* The initial states satisfy the invariant.
LEMMA InitIInv == Init => IInv
  BY HolderAssumption, DurationAssumption
  DEF Init, IInv, TypeOK, PidsTellTheDead, CallsAreShort, NothingBeforeCreate, OwnerIsNamed,
      TakesFromNobodyAlive, ReleasesItsOwn, Control, Calling, Locked

\* A step of a process keeps the types.
LEMMA TypeOKStep == TypeOK /\ [Next]_vars => TypeOK'
  <1> SUFFICES ASSUME TypeOK, [Next]_vars PROVE TypeOK'
      OBVIOUS
  <1> USE DurationAssumption DEF TypeOK, Control, Calling, Locked
  <1>1. ASSUME NEW p \in Kubit, Begin(p) PROVE TypeOK'
        BY <1>1 DEF Begin, Goto
  <1>2. ASSUME NEW p \in Kubit, Create(p) PROVE TypeOK'
        BY <1>2 DEF Create, WriteLease, Goto
  <1>3. ASSUME NEW p \in Kubit, CreateExists(p) PROVE TypeOK'
        BY <1>3 DEF CreateExists, Goto
  <1>4. ASSUME NEW p \in Kubit, CreateFails(p) PROVE TypeOK'
        BY <1>4 DEF CreateFails, Goto
  <1>5. ASSUME NEW p \in Kubit, Get(p) PROVE TypeOK'
        BY <1>5 DEF Get, Goto
  <1>6. ASSUME NEW p \in Kubit, GetHeld(p) PROVE TypeOK'
        BY <1>6 DEF GetHeld, Idle, Goto
  <1>7. ASSUME NEW p \in Kubit, Take(p) PROVE TypeOK'
        BY <1>7 DEF Take, WriteLease, Goto
  <1>8. ASSUME NEW p \in Kubit, TakeUnanswered(p) PROVE TypeOK'
        BY <1>8 DEF TakeUnanswered, WriteLease, Idle, Goto
  <1>9. ASSUME NEW p \in Kubit, LockFails(p) PROVE TypeOK'
        BY <1>9 DEF LockFails, Idle, Goto
  <1>10. ASSUME NEW p \in Kubit, Finish(p) PROVE TypeOK'
        BY <1>10 DEF Finish, Idle, Goto
  <1>11. ASSUME NEW p \in Kubit, ReleaseGet(p) PROVE TypeOK'
        BY <1>11 DEF ReleaseGet, Goto
  <1>12. ASSUME NEW p \in Kubit, Release(p) PROVE TypeOK'
        BY <1>12 DEF Release, WriteLease, Idle, Goto
  <1>13. ASSUME NEW p \in Kubit, ReleaseFails(p) PROVE TypeOK'
        BY <1>13 DEF ReleaseFails, Idle, Goto
  <1>14. ASSUME NEW p \in Kubit, Crash(p) PROVE TypeOK'
        BY <1>14 DEF Crash
  <1>15. ASSUME NEW p \in Kubit, PidReused(p) PROVE TypeOK'
        BY <1>15 DEF PidReused
  <1>16. CASE ApiChanges
        BY <1>16 DEF ApiChanges
  <1>17. CASE Tick
        BY <1>17, OlderAge DEF Tick
  <1>18. CASE UNCHANGED vars
        BY <1>18 DEF vars
  <1>. QED
        BY <1>1, <1>2, <1>3, <1>4, <1>5, <1>6, <1>7, <1>8, <1>9, <1>10, <1>11, <1>12, <1>13,
           <1>14, <1>15, <1>16, <1>17, <1>18 DEF Next, Call

-----------------------------------------------------------------------------

\* Every step keeps the invariant.
LEMMA IInvStep == IInv /\ [Next]_vars => IInv'
  <1> SUFFICES ASSUME IInv, [Next]_vars PROVE IInv'
      OBVIOUS
  <1> DEFINE Rest == /\ PidsTellTheDead /\ CallsAreShort /\ NothingBeforeCreate
                     /\ OwnerIsNamed /\ TakesFromNobodyAlive /\ ReleasesItsOwn
  <1>1. TypeOK /\ TypeOK'
        BY TypeOKStep DEF IInv
  <1> USE <1>1, HolderAssumption, DurationAssumption
      DEF IInv, TypeOK, PidsTellTheDead, CallsAreShort, NothingBeforeCreate, OwnerIsNamed,
          TakesFromNobodyAlive, ReleasesItsOwn, Control, Calling, Locked
  <1>2. ASSUME NEW p \in Kubit, Begin(p) PROVE Rest'
        BY <1>2 DEF Begin, Goto
  <1>3. ASSUME NEW p \in Kubit, Create(p) PROVE Rest'
        BY <1>3 DEF Create, WriteLease, Goto
  <1>4. ASSUME NEW p \in Kubit, CreateExists(p) PROVE Rest'
        BY <1>4 DEF CreateExists, Goto
  <1>5. ASSUME NEW p \in Kubit, CreateFails(p) PROVE Rest'
        BY <1>5 DEF CreateFails, Goto
  <1>6. ASSUME NEW p \in Kubit, Get(p) PROVE Rest'
    <2>1. lease' = lease /\ pid' = pid /\ since' = since /\ fresh' = fresh \cup {p}
          BY <1>6 DEF Get
    <2>2. pc' = [pc EXCEPT ![p] = "take"] /\ pc[p] = "get"
          BY <1>6 DEF Get, Goto
    <2>3. ASSUME NEW q \in Kubit, lease.holder = q PROVE pc[q] = "dead" \/ lease.age >= Duration
      <3>1. Orphaned(q, p) \/ ~(lease.age < Duration)
            BY <1>6, <2>3 DEF Get, Held
      <3>2. Orphaned(q, p) => pc[q] = "dead"
            BY DEF Orphaned
      <3>. QED
            BY <3>1, <3>2
    <2>4. (PidsTellTheDead /\ CallsAreShort /\ NothingBeforeCreate /\ OwnerIsNamed)'
      <3>1. lease.exists
            BY <2>2
      <3>. QED
            BY <2>1, <2>2, <3>1
    <2>5. TakesFromNobodyAlive'
          BY <2>1, <2>2, <2>3
    <2>6. ReleasesItsOwn'
          BY <2>1, <2>2
    <2>. QED
          BY <2>4, <2>5, <2>6
  <1>7. ASSUME NEW p \in Kubit, GetHeld(p) PROVE Rest'
        BY <1>7 DEF GetHeld, Idle, Goto
  <1>8. ASSUME NEW p \in Kubit, Take(p) PROVE Rest'
        BY <1>8 DEF Take, WriteLease, Goto
  <1>9. ASSUME NEW p \in Kubit, TakeUnanswered(p) PROVE Rest'
        BY <1>9 DEF TakeUnanswered, WriteLease, Idle, Goto
  <1>10. ASSUME NEW p \in Kubit, LockFails(p) PROVE Rest'
        BY <1>10 DEF LockFails, Idle, Goto
  <1>11. ASSUME NEW p \in Kubit, Finish(p) PROVE Rest'
        BY <1>11 DEF Finish, Idle, Goto
  <1>12. ASSUME NEW p \in Kubit, ReleaseGet(p) PROVE Rest'
        BY <1>12 DEF ReleaseGet, Goto
  <1>13. ASSUME NEW p \in Kubit, Release(p) PROVE Rest'
        BY <1>13 DEF Release, WriteLease, Idle, Goto
  <1>14. ASSUME NEW p \in Kubit, ReleaseFails(p) PROVE Rest'
        BY <1>14 DEF ReleaseFails, Idle, Goto
  <1>15. ASSUME NEW p \in Kubit, Crash(p) PROVE Rest'
        BY <1>15 DEF Crash
  <1>16. ASSUME NEW p \in Kubit, PidReused(p) PROVE Rest'
        BY <1>16 DEF PidReused
  <1>17. CASE ApiChanges
        BY <1>17 DEF ApiChanges
  <1>18. CASE Tick
    <2>1. /\ lease' = [lease EXCEPT !.age = Older(@)]
          /\ fresh' = fresh /\ pc' = pc /\ pid' = pid
          BY <1>18 DEF Tick
    <2>2. \A p \in Kubit : since'[p] = IF pc[p] \in Calling \cup Locked THEN Older(since[p]) ELSE since[p]
          BY <1>18 DEF Tick
    <2>3. PidsTellTheDead' /\ NothingBeforeCreate' /\ ReleasesItsOwn'
          BY <2>1
    <2>4. CallsAreShort'
      <3>1. ASSUME NEW p \in Kubit, pc[p] \in Calling PROVE Older(since[p]) <= CallTicks
            BY <1>18, <3>1 DEF Tick, Older
      <3>. QED
            BY <2>1, <2>2, <3>1
    <2>5. OwnerIsNamed'
      <3>1. ASSUME NEW p \in Kubit, pc[p] \in Locked, since'[p] < Duration
            PROVE  lease.exists /\ lease.holder = p /\ lease'.age = since'[p]
        <4>1. since'[p] = Older(since[p]) /\ since[p] \in 0..Duration
              BY <2>2, <3>1
        <4>2. since[p] < Duration
              BY <3>1, <4>1 DEF Older
        <4>. QED
              BY <2>1, <3>1, <4>1, <4>2
      <3>. QED
            BY <2>1, <3>1
    <2>6. TakesFromNobodyAlive'
      <3>1. lease.age >= Duration => lease'.age >= Duration
            BY <2>1 DEF Older
      <3>. QED
            BY <2>1, <3>1
    <2>. QED
          BY <2>3, <2>4, <2>5, <2>6
  <1>19. CASE UNCHANGED vars
        BY <1>19 DEF vars
  <1>. QED
        BY <1>2, <1>3, <1>4, <1>5, <1>6, <1>7, <1>8, <1>9, <1>10, <1>11, <1>12, <1>13, <1>14, <1>15, <1>16, <1>17, <1>18, <1>19 DEF Next, Call

-----------------------------------------------------------------------------

\* The invariant holds in every reachable state.
THEOREM Invariance == Spec => []IInv
  BY InitIInv, IInvStep, PTL DEF Spec

\* Types: what every process and the Lease can be (lock.go).
THEOREM TypeCorrect == Spec => []TypeOK
  <1>1. IInv => TypeOK
        BY DEF IInv
  <1>. QED
        BY <1>1, Invariance, PTL

\* Two applies that both took the Lease overlap only once one of them has run
\* longer than its duration, for any number of processes, hosts and any
\* interleaving of LockApply and its release (lock.go:23-67).
THEOREM Exclusive == Spec => []ExclusiveUntilExpiry
  <1>1. IInv => ExclusiveUntilExpiry
    <2> SUFFICES ASSUME IInv, NEW p \in Kubit, NEW q \in Kubit, p # q,
                        pc[p] \in Locked, pc[q] \in Locked,
                        since[p] < Duration, since[q] < Duration
                 PROVE  FALSE
        BY DurationAssumption DEF ExclusiveUntilExpiry, IInv, TypeOK
    <2>1. lease.holder = p /\ lease.holder = q
        BY DEF IInv, OwnerIsNamed
    <2>. QED
        BY <2>1
  <1>. QED
        BY <1>1, Invariance, PTL

\* What a step may do to the Lease of a process that is alive.
LEMMA LiveHolderStep ==
    ASSUME IInv, [Next]_vars,
           NEW p \in Kubit, lease.holder = p, lease'.holder # p, pc[p] # "dead"
    PROVE  pc[p] = "relput" \/ lease.age >= Duration
  <1> USE HolderAssumption
  <1>1. ASSUME NEW q \in Kubit, Create(q) PROVE FALSE
        BY <1>1 DEF Create, IInv, NothingBeforeCreate
  <1>2. ASSUME NEW q \in Kubit, Take(q) \/ TakeUnanswered(q)
        PROVE  lease.age >= Duration
        BY <1>2 DEF Take, TakeUnanswered, IInv, TakesFromNobodyAlive
  <1>3. ASSUME NEW q \in Kubit, Release(q) PROVE pc[p] = "relput"
        BY <1>3 DEF Release, IInv, ReleasesItsOwn
  <1>4. ASSUME NEW q \in Kubit,
               \/ Begin(q) \/ CreateExists(q) \/ CreateFails(q) \/ Get(q) \/ GetHeld(q)
               \/ LockFails(q) \/ Finish(q) \/ ReleaseGet(q) \/ ReleaseFails(q)
               \/ Crash(q) \/ PidReused(q)
        PROVE  lease' = lease
        BY <1>4 DEF Begin, CreateExists, CreateFails, Get, GetHeld, LockFails, Finish, ReleaseGet,
                    ReleaseFails, Crash, PidReused
  <1>5. CASE Tick
        BY <1>5 DEF Tick, IInv, TypeOK
  <1>6. CASE ApiChanges
        BY <1>6 DEF ApiChanges
  <1>7. CASE UNCHANGED vars
        BY <1>7 DEF vars
  <1>. QED
        BY <1>1, <1>2, <1>3, <1>4, <1>5, <1>6, <1>7 DEF Next, Call

\* The Lease of a process that is alive is replaced or cleared only by its own
\* release or after it expired: neither a slow release nor a take-over decided
\* on an old Get undoes a later acquisition (lock.go:37-47, 59-65).
THEOREM LiveHolder == Spec => LiveHolderKeepsLease
  <1>1. IInv /\ [Next]_vars =>
            [\A p \in Kubit :
                (lease.holder = p /\ lease'.holder # p /\ pc[p] # "dead")
                    => (pc[p] = "relput" \/ lease.age >= Duration)]_vars
        BY LiveHolderStep
  <1>. QED
        BY <1>1, Invariance, PTL DEF Spec, LiveHolderKeepsLease

-----------------------------------------------------------------------------
(* The refinement of ApplyMutex. *)

\* What a standing is, before and after a step.
LEMMA ClaimIs ==
    ASSUME NEW p \in Kubit
    PROVE  /\ pc[p] \notin Locked => Claim[p] = "out"
           /\ (pc[p] \in Locked /\ since[p] < Duration) => Claim[p] = "owner"
           /\ (pc[p] \in Locked /\ ~(since[p] < Duration)) => Claim[p] = "overdue"
           /\ pc'[p] \notin Locked => Claim'[p] = "out"
           /\ (pc'[p] \in Locked /\ since'[p] < Duration) => Claim'[p] = "owner"
           /\ (pc'[p] \in Locked /\ ~(since'[p] < Duration)) => Claim'[p] = "overdue"
  BY DEF Claim, Locked

\* A step of one process changes no other's standing.
LEMMA ClaimOfOne ==
    ASSUME NEW p \in Kubit,
           \A q \in Kubit \ {p} : pc'[q] = pc[q] /\ since'[q] = since[q]
    PROVE  Claim' = [Claim EXCEPT ![p] = Claim'[p]]
  <1>1. ASSUME NEW q \in Kubit \ {p} PROVE Claim'[q] = Claim[q]
        BY <1>1 DEF Claim, Locked
  <1>2. Claim = [q \in Kubit |-> Claim[q]] /\ Claim' = [q \in Kubit |-> Claim'[q]]
        BY DEF Claim
  <1>. QED
        BY <1>1, <1>2

\* Taking the Lease is Acquire.
LEMMA TakingAcquires ==
    ASSUME IInv, IInv', NEW p \in Kubit,
           pc[p] \in {"create", "take"}, pc'[p] = "locked", since'[p] = since[p],
           \A q \in Kubit \ {p} : pc'[q] = pc[q] /\ since'[q] = since[q],
           \A q \in Kubit : ~(pc[q] \in Locked /\ since[q] < Duration)
    PROVE  Mutex!Acquire(p)
  <1>1. since'[p] < Duration
        BY DurationAssumption DEF IInv, TypeOK, CallsAreShort, Calling
  <1>2. Claim[p] = "out" /\ Claim'[p] = "owner"
        BY <1>1, ClaimIs DEF Locked
  <1>3. \A q \in Kubit : Claim[q] # "owner"
    <2>1. ASSUME NEW q \in Kubit PROVE Claim[q] # "owner"
          BY ClaimIs
    <2>. QED
          BY <2>1
  <1>. QED
        BY <1>2, <1>3, ClaimOfOne DEF Mutex!Acquire

\* A process that is at most as locked as before leaves or keeps its standing.
LEMMA EndingLeaves ==
    ASSUME NEW p \in Kubit,
           pc'[p] \in Locked => pc[p] \in Locked /\ since'[p] = since[p],
           \A q \in Kubit \ {p} : pc'[q] = pc[q] /\ since'[q] = since[q]
    PROVE  Mutex!Leave(p) \/ Claim' = Claim
  <1>1. CASE pc'[p] \in Locked
    <2>1. Claim'[p] = Claim[p]
          BY <1>1 DEF Claim, Locked
    <2>2. Claim = [q \in Kubit |-> Claim[q]]
          BY DEF Claim
    <2>. QED
          BY <2>1, <2>2, ClaimOfOne
  <1>2. CASE pc'[p] \notin Locked /\ pc[p] \notin Locked
    <2>1. Claim'[p] = Claim[p]
          BY <1>2, ClaimIs
    <2>2. Claim = [q \in Kubit |-> Claim[q]]
          BY DEF Claim
    <2>. QED
          BY <2>1, <2>2, ClaimOfOne
  <1>3. CASE pc'[p] \notin Locked /\ pc[p] \in Locked
    <2>1. Claim'[p] = "out" /\ Claim[p] \in {"owner", "overdue"}
          BY <1>3, ClaimIs
    <2>. QED
          BY <2>1, ClaimOfOne DEF Mutex!Leave
  <1>. QED
        BY <1>1, <1>2, <1>3

\* Time makes at most one owner overdue, the one the Lease names.
LEMMA TickOutlives ==
    ASSUME IInv, IInv', Tick
    PROVE  Mutex!Next \/ Claim' = Claim
  <1> DEFINE Late(p) == pc[p] \in Locked /\ since[p] < Duration /\ ~(since'[p] < Duration)
  <1>1. pc' = pc
        BY DEF Tick
  <1>2. ASSUME NEW q \in Kubit, ~Late(q) PROVE Claim'[q] = Claim[q]
    <2>1. pc[q] \in Locked => since'[q] = Older(since[q])
          BY DEF Tick
    <2>2. (pc[q] \in Locked /\ since'[q] < Duration) => since[q] < Duration
          BY <2>1, OlderAge DEF IInv, TypeOK
    <2>. QED
          BY <1>1, <1>2, <2>2, ClaimIs
  <1>3. Claim = [q \in Kubit |-> Claim[q]] /\ Claim' = [q \in Kubit |-> Claim'[q]]
        BY DEF Claim
  <1>4. CASE \E p \in Kubit : Late(p)
    <2>1. PICK p \in Kubit : Late(p)
          BY <1>4
    <2>2. ASSUME NEW q \in Kubit \ {p} PROVE ~Late(q)
          BY <2>1 DEF IInv, OwnerIsNamed
    <2>3. Claim' = [Claim EXCEPT ![p] = Claim'[p]]
          BY <1>2, <1>3, <2>2
    <2>4. Claim[p] = "owner" /\ Claim'[p] = "overdue"
          BY <1>1, <2>1, ClaimIs
    <2>. QED
          BY <2>3, <2>4 DEF Mutex!Next, Mutex!Outlive
  <1>5. CASE ~\E p \in Kubit : Late(p)
        BY <1>2, <1>3, <1>5
  <1>. QED
        BY <1>4, <1>5

\* Every step maps to a step of the abstract lock or to none.
LEMMA StepImplements ==
    ASSUME IInv, IInv', [Next]_vars
    PROVE  [Mutex!Next]_Claim
  <1> SUFFICES Mutex!Next \/ Claim' = Claim
      OBVIOUS
  <1>1. ASSUME NEW p \in Kubit, Create(p) PROVE Mutex!Next \/ Claim' = Claim
    <2>1. CASE pc' = [pc EXCEPT ![p] = "locked"] /\ since' = since
      <3>1. \A q \in Kubit : ~(pc[q] \in Locked /\ since[q] < Duration)
            BY <1>1 DEF Create, IInv, OwnerIsNamed
      <3>2. Mutex!Acquire(p)
            BY <1>1, <2>1, <3>1, TakingAcquires DEF Create, IInv, TypeOK
      <3>. QED
            BY <3>2 DEF Mutex!Next
    <2>2. CASE pc' = [pc EXCEPT ![p] = "unlocked"] /\ since' = [since EXCEPT ![p] = 0]
      <3>1. Mutex!Leave(p) \/ Claim' = Claim
            BY <1>1, <2>2, EndingLeaves DEF Create, IInv, TypeOK, Locked
      <3>. QED
            BY <3>1 DEF Mutex!Next
    <2>. QED
          BY <1>1, <2>1, <2>2 DEF Create, Goto
  <1>2. ASSUME NEW p \in Kubit, Take(p) PROVE Mutex!Next
    <2>1. \A q \in Kubit : ~(pc[q] \in Locked /\ since[q] < Duration)
          BY <1>2, DurationAssumption
          DEF Take, IInv, TypeOK, OwnerIsNamed, TakesFromNobodyAlive, Locked
    <2>2. Mutex!Acquire(p)
          BY <1>2, <2>1, TakingAcquires DEF Take, Goto, IInv, TypeOK
    <2>. QED
          BY <2>2 DEF Mutex!Next
  <1>3. ASSUME NEW p \in Kubit,
               \/ Begin(p) \/ CreateExists(p) \/ CreateFails(p) \/ Get(p) \/ GetHeld(p)
               \/ TakeUnanswered(p) \/ LockFails(p) \/ Finish(p) \/ ReleaseGet(p)
               \/ Release(p) \/ ReleaseFails(p) \/ Crash(p) \/ PidReused(p)
        PROVE  Mutex!Next \/ Claim' = Claim
    <2>1. /\ pc'[p] \in Locked => pc[p] \in Locked /\ since'[p] = since[p]
          /\ \A q \in Kubit \ {p} : pc'[q] = pc[q] /\ since'[q] = since[q]
          BY <1>3
          DEF Begin, CreateExists, CreateFails, Get, GetHeld, TakeUnanswered, LockFails, Finish,
              ReleaseGet, Release, ReleaseFails, Crash, PidReused, Idle, Goto, IInv, TypeOK, Locked
    <2>. QED
          BY <2>1, EndingLeaves DEF Mutex!Next
  <1>4. CASE Tick
        BY <1>4, TickOutlives
  <1>5. CASE ApiChanges
        BY <1>5 DEF ApiChanges, Claim
  <1>6. CASE UNCHANGED vars
        BY <1>6 DEF vars, Claim
  <1>. QED
        BY <1>1, <1>2, <1>3, <1>4, <1>5, <1>6 DEF Next, Call

\* LockApply and its release implement the abstract lock (ApplyMutex).
THEOREM Refinement == Spec => ImplementsMutex
  <1>1. Init => Mutex!Init
        BY DEF Init, Mutex!Init, Claim, Locked
  <1>. QED
        BY <1>1, Invariance, StepImplements, PTL DEF Spec, ImplementsMutex, Mutex!Spec

=============================================================================
