------------------------------ MODULE Platform ------------------------------
(***************************************************************************)
(* The add-ons of a cluster and the OpenTofu runs that install and remove  *)
(* them (cluster/platform.go, tofu/runner.go).  OpenTofu's state says which *)
(* add-ons there are; older repositories carry it in a file, which the      *)
(* first apply moves into a Secret of the cluster.                          *)
(*                                                                         *)
(* OpenTofu itself is external: it locks the state while it plans and      *)
(* while it applies, refuses a saved plan when the state was written since, *)
(* and goes on when the kubit that started it dies.                        *)
(***************************************************************************)
EXTENDS Naturals, FiniteSets

CONSTANTS Addon, Runner, MaxSerial

ASSUME SerialAssumption == MaxSerial \in Nat
ASSUME RunnerAssumption == Runner \subseteq Nat \ {0}

VARIABLES
    repoState,  \* platform.tfstate of the repository
    secret,     \* the state in the cluster
    installed,  \* the add-ons in the cluster
    stateLock,  \* the runner whose OpenTofu holds the state lock
    tofu        \* what every runner is at

platformVars == <<repoState, secret, installed, stateLock, tofu>>

NoState == [serial |-> 0, addons |-> {}]
Nobody == 0
AtRest == [step |-> "idle", want |-> {}, serial |-> 0, todo |-> {}, orphan |-> FALSE]
State(serial, addons) == [serial |-> serial, addons |-> addons]
States == [serial : 0..MaxSerial, addons : SUBSET Addon]

To(r, step) == tofu' = [tofu EXCEPT ![r].step = step]

\* The state that the next run reads.
Known == IF secret # NoState THEN secret ELSE repoState

Difference(a, b) == (a \ b) \cup (b \ a)

\* What a plan shows: it reads either state, without a lock.
PlatformChanges(want) == Difference(want, Known.addons)

\* Variant: the file goes before its contents are in the cluster.
OpenRemoving(r, want) ==
    /\ tofu[r] = AtRest
    /\ tofu' = [tofu EXCEPT ![r].want = want, ![r].step = "plan"]
    /\ repoState' = NoState
    /\ UNCHANGED <<secret, installed, stateLock>>

\* stateMoveFor: whether there is a file to move or to remove.
Open(r, want) ==
    /\ tofu[r] = AtRest
    /\ tofu' = [tofu EXCEPT ![r].want = want, ![r].step =
                    IF repoState = NoState THEN "plan" ELSE IF secret = NoState THEN "copy" ELSE "remove"]
    /\ UNCHANGED <<repoState, secret, installed, stateLock>>

\* MigrateFrom: tofu init copies the state, if that of the cluster is still not there.
Migrate(r) ==
    /\ tofu[r].step = "copy"
    /\ secret' = repoState
    /\ To(r, "remove")
    /\ UNCHANGED <<repoState, installed, stateLock>>

RemoveRepoState(r) ==
    /\ tofu[r].step = "remove"
    /\ repoState' = NoState
    /\ To(r, "plan")
    /\ UNCHANGED <<secret, installed, stateLock>>

\* The lock is waited for, for a minute.
LockTimesOut(r) ==
    /\ tofu[r].step \in {"plan", "apply"} /\ stateLock \notin {Nobody, r}
    /\ To(r, "failed")
    /\ UNCHANGED <<repoState, secret, installed, stateLock>>

PlanPlatform(r) ==
    LET todo == Difference(tofu[r].want, Known.addons) IN
    /\ tofu[r].step = "plan" /\ stateLock = Nobody
    /\ tofu' = [tofu EXCEPT ![r].step = IF todo = {} THEN "ok" ELSE "apply",
                            ![r].serial = Known.serial, ![r].todo = todo]
    /\ UNCHANGED <<repoState, secret, installed, stateLock>>

\* A saved plan is stale when the state was written since.
ApplyPlan(r) ==
    /\ tofu[r].step = "apply" /\ stateLock = Nobody
    /\ IF tofu[r].serial # Known.serial
       THEN To(r, "failed") /\ UNCHANGED stateLock
       ELSE To(r, "work") /\ stateLock' = r
    /\ UNCHANGED <<repoState, secret, installed>>

\* A resource is made or deleted, and then the state says so.
ChangeAddon(r) ==
    /\ tofu[r].step = "work" /\ Known.serial < MaxSerial
    /\ \E a \in tofu[r].todo :
        /\ installed' = Difference(installed, {a})
        /\ tofu' = [tofu EXCEPT ![r].step = "save", ![r].todo = @ \ {a}]
    /\ UNCHANGED <<repoState, secret, stateLock>>

SaveState(r) ==
    LET left == tofu[r].todo IN
    /\ tofu[r].step = "save"
    /\ secret' = State(Known.serial + 1, Difference(tofu[r].want, left))
    /\ To(r, "work")
    /\ UNCHANGED <<repoState, installed, stateLock>>

\* The last change is made, or one fails; the lock is given back.
EndApply(r) ==
    /\ tofu[r].step = "work"
    /\ \/ tofu[r].todo = {} /\ To(r, "ok")
       \/ tofu[r].todo # {} /\ To(r, "failed")
    /\ stateLock' = Nobody
    /\ UNCHANGED <<repoState, secret, installed>>

\* Its kubit is told the outcome, or is dead.
Close(r) ==
    /\ tofu[r].step \in {"ok", "failed"}
    /\ tofu' = [tofu EXCEPT ![r] = AtRest]
    /\ UNCHANGED <<repoState, secret, installed, stateLock>>

\* Kubit dies: what it does between the OpenTofu commands stops, a command goes on.
Orphan(r) ==
    /\ tofu' = [tofu EXCEPT ![r] = IF @.step \in {"work", "save"} THEN [@ EXCEPT !.orphan = TRUE] ELSE AtRest]
    /\ UNCHANGED <<repoState, secret, installed, stateLock>>

PlatformStep(r) ==
    \/ Migrate(r) \/ RemoveRepoState(r) \/ LockTimesOut(r) \/ PlanPlatform(r)
    \/ ApplyPlan(r) \/ ChangeAddon(r) \/ SaveState(r) \/ EndApply(r)

TofuSteps == {"idle", "copy", "remove", "plan", "apply", "work", "save", "ok", "failed"}
Tofu == [step : TofuSteps, want : SUBSET Addon, serial : 0..MaxSerial, todo : SUBSET Addon,
         orphan : BOOLEAN]

PlatformTypeOK ==
    /\ repoState \in States /\ secret \in States
    /\ installed \subseteq Addon
    /\ stateLock \in Runner \cup {Nobody}
    /\ tofu \in [Runner -> Tofu]
    /\ \A r \in Runner : stateLock = r <=> tofu[r].step \in {"work", "save"}

\* What is in the cluster is what the state that the next run reads says, but for
\* the one resource the one OpenTofu that works is changing: no add-on is made
\* twice, or left behind when it is turned off, although the apply Lease of a
\* kubit that died is taken over while its OpenTofu goes on (lock.go takeOver,
\* runner.go lockArgs, platform.go preparePlatform, removeRepoState).
StateKnowsAddons ==
    LET working == {r \in Runner : tofu[r].step \in {"work", "save"}}
        saving == {r \in Runner : tofu[r].step = "save"}
    IN /\ Cardinality(working) <= 1
       /\ Cardinality(Difference(installed, Known.addons)) <= Cardinality(saving)
=============================================================================
