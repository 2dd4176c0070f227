---------------------------- MODULE ConvergeProofs ----------------------------
(***************************************************************************)
(* Proofs about an apply of a running cluster (module Converge) and the    *)
(* add-ons it brings (module Platform).                                    *)
(***************************************************************************)
EXTENDS Converge, TLAPS, FiniteSetTheorems, WellFoundedInduction

-----------------------------------------------------------------------------
(* The add-ons. *)

\* Only the OpenTofu of the run that is in its platform phase is between commands; every
\* other is at rest, or goes on alone with the command that its dead kubit began.
WhoRuns ==
    \A r \in Runner :
        IF run.step = "tofu" /\ r = run.by
        THEN ~tofu[r].orphan /\ tofu[r].step # "idle" /\ tofu[r].want = run.want.addons
        ELSE \/ tofu[r] = AtRest
             \/ tofu[r].orphan /\ tofu[r].step \in {"work", "save", "ok", "failed"}

\* No command is run before the file is out of the repository, and none is copied over
\* a state that the cluster has.
FileGoesFirst ==
    \A r \in Runner :
        /\ tofu[r].step = "copy" => secret = NoState /\ repoState # NoState
        /\ tofu[r].step = "remove" => secret # NoState
        /\ tofu[r].step \notin {"idle", "copy", "remove"} => repoState = NoState

\* A saved plan that is not stale says what to change.
PlanIsOfItsState ==
    \A r \in Runner : tofu[r].step = "apply" =>
        /\ tofu[r].serial <= Known.serial
        /\ tofu[r].serial = Known.serial => tofu[r].todo = Difference(tofu[r].want, Known.addons)

\* Between changes the state is what was wanted but for the rest of the plan; while one
\* is not in the state yet, this holds of the cluster.
WorkIsOnTrack ==
    \A r \in Runner :
        /\ tofu[r].step = "work" => Known.addons = Difference(tofu[r].want, tofu[r].todo)
        /\ tofu[r].step = "save" =>
              /\ Known.serial < MaxSerial
              /\ installed = Difference(tofu[r].want, tofu[r].todo)
              /\ \E a \in Addon : installed = Difference(Known.addons, {a})

StateIsTrue == (\A r \in Runner : tofu[r].step # "save") => installed = Known.addons

\* A run whose OpenTofu ended well has what it wanted, and nobody changes it.
GotWhatItWanted ==
    run.step = "tofu" /\ tofu[run.by].step = "ok" =>
        stateLock = Nobody /\ Known.addons = run.want.addons

AddonsInv ==
    /\ WhoRuns /\ FileGoesFirst /\ PlanIsOfItsState /\ WorkIsOnTrack /\ StateIsTrue
    /\ GotWhatItWanted

-----------------------------------------------------------------------------
(* The nodes. *)

\* The nodes that the phase has not finished.
Left == {run.todo[i] : i \in DOMAIN run.todo}

\* A node runs what c says, and has the config of it.
Runs(n, c) ==
    /\ node[n].odd \/ node[n].talos = c.talos[n]
    /\ n = First => node[n].odd \/ node[n].image = c.image
Follows(n, c) == node[n].conf = Generated(c, n) /\ Runs(n, c)

\* What the nodes have once an upgrade of Talos, and one of Kubernetes, is through.
NewTalos == [recorded EXCEPT !.talos = run.want.talos, !.image = run.want.image]
NewKube == [recorded EXCEPT !.kube = run.want.kube]

\* A phase that is not in the plan has nothing to do, and one that is has.
PlanIsWhole ==
    Running =>
        /\ recorded.rest = run.want.rest
        /\ "kubernetes" \notin run.phases => recorded.kube = run.want.kube
        /\ run.step \in {"config", "talos"} =>
              ("talos" \in run.phases <=> \E n \in Node : Behind(n))

ConfigPhase ==
    run.step = "config" =>
        \A n \in Node : Runs(n, recorded) /\ (n \notin Left => Follows(n, recorded))

Settled ==
    run.step \in {"talos", "talos synced", "kubernetes", "kubernetes synced", "platform", "tofu"} =>
        \A n \in Node : Follows(n, recorded)

\* A node is as it was recorded or as it is wanted, but for the one that is installed.
InstallPhase ==
    /\ run.step \in {"install", "drain", "reboot", "back"} =>
          \A n \in Node :
              /\ n \notin Left => Follows(n, NewTalos)
              /\ run.step = "install" \/ n # This => Follows(n, recorded) \/ Follows(n, NewTalos)
    /\ run.step \in {"drain", "reboot", "back"} =>
          /\ ~node[This].odd
          /\ node[This].slot = [talos |-> run.want.talos[This], image |-> run.want.image]
    /\ run.step = "back" => HasImage(This)

TalosIsRecorded ==
    run.step \in {"talos synced", "kubernetes", "kubelets", "kubernetes synced", "platform",
                  "tofu"} =>
        recorded.talos = run.want.talos /\ recorded.image = run.want.image

KubeletPhase ==
    run.step = "kubelets" =>
        \A n \in Node :
            /\ Follows(n, recorded) \/ Follows(n, NewKube)
            /\ n \notin Left => Follows(n, NewKube) /\ node[n].kube = node[n].conf.kube

KubeIsRecorded ==
    run.step \in {"kubernetes synced", "platform", "tofu"} =>
        recorded.kube = run.want.kube /\ \A n \in Node : node[n].kube = node[n].conf.kube

ManifestsAreSynced ==
    /\ run.step = "kubernetes" /\ "talos" \in run.phases => manifests = recorded.kube
    /\ run.step \in {"platform", "tofu"} /\ run.phases \cap {"talos", "kubernetes"} # {} =>
          manifests = recorded.kube

\* What holds from the end of an apply that was done until the next begins.
DoneLasts ==
    last.result = "done" =>
        /\ ~Running /\ last.want \in Declaration
        /\ \A n \in Node : Follows(n, last.want) /\ node[n].kube = node[n].conf.kube
        /\ last.phases \cap {"talos", "kubernetes"} # {} => manifests = last.want.kube
        /\ \A r \in Runner : tofu[r].step \notin {"work", "save"}
        /\ Known.addons = last.want.addons /\ repoState = NoState

NodesInv ==
    /\ PlanIsWhole /\ ConfigPhase /\ Settled /\ InstallPhase /\ TalosIsRecorded
    /\ KubeletPhase /\ KubeIsRecorded /\ ManifestsAreSynced /\ DoneLasts

IInv == TypeOK /\ AddonsInv
-----------------------------------------------------------------------------
(* The platform's steps. *)

\* A difference taken twice is gone.
LEMMA Differences ==
    ASSUME NEW A, NEW B
    PROVE  /\ Difference(A, Difference(A, B)) = B
           /\ Difference(A, {}) = A
           /\ Difference(A, B) = {} => A = B
BY DEF Difference

\* OpenTofu of one runner goes to another step, and nobody else's does.
TofuAt(r, step) ==
    /\ tofu' \in [Runner -> Tofu]
    /\ tofu'[r].step = step
    /\ \A q \in Runner \ {r} : tofu'[q] = tofu[q]

Keeps(r) ==
    /\ tofu'[r].want = tofu[r].want /\ tofu'[r].serial = tofu[r].serial
    /\ tofu'[r].todo = tofu[r].todo /\ tofu'[r].orphan = tofu[r].orphan

\* OpenTofu of one runner that goes on: nothing else of it changes.
LEMMA ToMoves ==
    ASSUME NEW r \in Runner, NEW step \in TofuSteps, tofu \in [Runner -> Tofu], To(r, step)
    PROVE  TofuAt(r, step) /\ Keeps(r)
BY DEF To, TofuAt, Keeps, Tofu

Ready == PlatformTypeOK /\ AddonsInv /\ run.by \in Runner

\* Copying the state into the cluster leaves what the next run reads.
LEMMA MigrateInv ==
    ASSUME NEW r \in Runner, Ready, Migrate(r), UNCHANGED run
    PROVE  PlatformTypeOK' /\ AddonsInv'
<1>1. TofuAt(r, "remove") /\ Keeps(r)
  BY ToMoves DEF Migrate, Ready, PlatformTypeOK, TofuSteps
<1>2. run.step = "tofu" /\ r = run.by
  BY DEF Ready, AddonsInv, WhoRuns, Migrate, AtRest
<1>3. secret = NoState /\ repoState # NoState /\ secret' = repoState /\ Known' = Known
  BY DEF Ready, AddonsInv, FileGoesFirst, Migrate, Known
<1>4. \A q \in Runner \ {r} : tofu[q] = AtRest
  BY <1>2, <1>3 DEF Ready, AddonsInv, WhoRuns, FileGoesFirst
<1>5. PlatformTypeOK'
  BY <1>1, <1>3 DEF Ready, PlatformTypeOK, TofuAt, Migrate
<1>6. WhoRuns'
  BY <1>1, <1>2 DEF Ready, AddonsInv, WhoRuns, TofuAt, Keeps
<1>7. FileGoesFirst' /\ PlanIsOfItsState' /\ WorkIsOnTrack'
  BY <1>1, <1>3, <1>4
  DEF Ready, AddonsInv, FileGoesFirst, PlanIsOfItsState, WorkIsOnTrack, TofuAt, Migrate, AtRest
<1>8. StateIsTrue' /\ GotWhatItWanted'
  BY <1>1, <1>2, <1>3, <1>4
  DEF Ready, AddonsInv, StateIsTrue, GotWhatItWanted, TofuAt, Migrate, AtRest
<1>. QED
  BY <1>5, <1>6, <1>7, <1>8 DEF AddonsInv

\* So does removing the file that was copied.
LEMMA RemoveInv ==
    ASSUME NEW r \in Runner, Ready, RemoveRepoState(r), UNCHANGED run
    PROVE  PlatformTypeOK' /\ AddonsInv'
<1>1. TofuAt(r, "plan") /\ Keeps(r)
  BY ToMoves DEF RemoveRepoState, Ready, PlatformTypeOK, TofuSteps
<1>2. run.step = "tofu" /\ r = run.by
  BY DEF Ready, AddonsInv, WhoRuns, RemoveRepoState, AtRest
<1>3. secret # NoState /\ repoState' = NoState /\ secret' = secret /\ Known' = Known
  BY DEF Ready, AddonsInv, FileGoesFirst, RemoveRepoState, Known
<1>4. NoState \in States
  BY SerialAssumption DEF NoState, States
<1>5. PlatformTypeOK'
  BY <1>1, <1>3, <1>4 DEF Ready, PlatformTypeOK, TofuAt, RemoveRepoState
<1>6. WhoRuns'
  BY <1>1, <1>2 DEF Ready, AddonsInv, WhoRuns, TofuAt, Keeps
<1>7. FileGoesFirst' /\ PlanIsOfItsState' /\ WorkIsOnTrack'
  BY <1>1, <1>3
  DEF Ready, AddonsInv, FileGoesFirst, PlanIsOfItsState, WorkIsOnTrack, TofuAt, RemoveRepoState
<1>8. StateIsTrue' /\ GotWhatItWanted'
  BY <1>1, <1>2, <1>3
  DEF Ready, AddonsInv, StateIsTrue, GotWhatItWanted, TofuAt, RemoveRepoState
<1>. QED
  BY <1>5, <1>6, <1>7, <1>8 DEF AddonsInv

\* A run that waits in vain for the lock has changed nothing.
LEMMA LockTimesOutInv ==
    ASSUME NEW r \in Runner, Ready, LockTimesOut(r), UNCHANGED run
    PROVE  PlatformTypeOK' /\ AddonsInv'
<1>1. TofuAt(r, "failed") /\ Keeps(r)
  BY ToMoves DEF LockTimesOut, Ready, PlatformTypeOK, TofuSteps
<1>2. run.step = "tofu" /\ r = run.by
  BY DEF Ready, AddonsInv, WhoRuns, LockTimesOut, AtRest
<1>3. UNCHANGED <<repoState, secret, installed, stateLock>> /\ Known' = Known
  BY DEF LockTimesOut, Known
<1>5. PlatformTypeOK'
  BY <1>1, <1>3 DEF Ready, PlatformTypeOK, TofuAt, LockTimesOut
<1>6. WhoRuns'
  BY <1>1, <1>2 DEF Ready, AddonsInv, WhoRuns, TofuAt, Keeps
<1>7. FileGoesFirst' /\ PlanIsOfItsState' /\ WorkIsOnTrack'
  BY <1>1, <1>3
  DEF Ready, AddonsInv, FileGoesFirst, PlanIsOfItsState, WorkIsOnTrack, TofuAt, LockTimesOut
<1>8. StateIsTrue' /\ GotWhatItWanted'
  BY <1>1, <1>2, <1>3
  DEF Ready, AddonsInv, StateIsTrue, GotWhatItWanted, TofuAt, LockTimesOut
<1>. QED
  BY <1>5, <1>6, <1>7, <1>8 DEF AddonsInv

\* A plan says what differs from the state it read.
LEMMA PlanInv ==
    ASSUME NEW r \in Runner, Ready, PlanPlatform(r), UNCHANGED run
    PROVE  PlatformTypeOK' /\ AddonsInv'
<1>. DEFINE todo == Difference(tofu[r].want, Known.addons)
            step == IF todo = {} THEN "ok" ELSE "apply"
<1>1. UNCHANGED <<repoState, secret, installed, stateLock>> /\ Known' = Known
  BY DEF PlanPlatform, Known
<1>2. todo \in SUBSET Addon /\ Known \in States
  BY DEF Ready, PlatformTypeOK, Known, Difference, Tofu, States
<1>3. /\ tofu' = [tofu EXCEPT ![r].step = step, ![r].serial = Known.serial, ![r].todo = todo]
      /\ tofu[r].step = "plan" /\ stateLock = Nobody
  BY DEF PlanPlatform
<1>. HIDE DEF todo, step
<1>4. step \in {"ok", "apply"} /\ Known.serial \in 0..MaxSerial
  BY <1>2 DEF step, States
<1>5. /\ TofuAt(r, step)
      /\ tofu'[r].want = tofu[r].want /\ tofu'[r].orphan = tofu[r].orphan
      /\ tofu'[r].todo = todo /\ tofu'[r].serial = Known.serial
  BY <1>2, <1>3, <1>4 DEF Ready, PlatformTypeOK, TofuAt, Tofu, TofuSteps
<1>6. run.step = "tofu" /\ r = run.by
  BY <1>3 DEF Ready, AddonsInv, WhoRuns, AtRest
<1>7. PlatformTypeOK'
  BY <1>1, <1>3, <1>4, <1>5 DEF Ready, PlatformTypeOK, TofuAt
<1>8. WhoRuns'
  BY <1>4, <1>5, <1>6 DEF Ready, AddonsInv, WhoRuns, TofuAt
<1>9. FileGoesFirst' /\ WorkIsOnTrack' /\ StateIsTrue'
  BY <1>1, <1>3, <1>4, <1>5
  DEF Ready, AddonsInv, FileGoesFirst, WorkIsOnTrack, StateIsTrue, TofuAt
<1>10. PlanIsOfItsState'
  <2>1. Known.serial <= Known.serial
    BY <1>4
  <2>. QED
    BY <2>1, <1>1, <1>5 DEF Ready, AddonsInv, PlanIsOfItsState, TofuAt, todo
<1>11. GotWhatItWanted'
  <2>1. step = "ok" => Known.addons = tofu[r].want
    BY Differences DEF step, todo
  <2>. QED
    BY <2>1, <1>1, <1>3, <1>5, <1>6 DEF Ready, AddonsInv, WhoRuns, GotWhatItWanted, TofuAt
<1>. QED
  BY <1>7, <1>8, <1>9, <1>10, <1>11 DEF AddonsInv

\* Work begins under the lock, with a plan of the state as it is, or not at all.
LEMMA ApplyPlanInv ==
    ASSUME NEW r \in Runner, Ready, ApplyPlan(r), UNCHANGED run
    PROVE  PlatformTypeOK' /\ AddonsInv'
<1>1. /\ UNCHANGED <<repoState, secret, installed>> /\ Known' = Known
      /\ tofu[r].step = "apply" /\ stateLock = Nobody
  BY DEF ApplyPlan, Known
<1>2. run.step = "tofu" /\ r = run.by
  BY <1>1 DEF Ready, AddonsInv, WhoRuns, AtRest
<1>3. r # Nobody
  BY RunnerAssumption DEF Nobody
<1>4. CASE tofu[r].serial # Known.serial
  <2>1. TofuAt(r, "failed") /\ Keeps(r) /\ stateLock' = stateLock
    BY <1>4, ToMoves DEF ApplyPlan, Ready, PlatformTypeOK, TofuSteps
  <2>2. PlatformTypeOK'
    BY <1>1, <2>1 DEF Ready, PlatformTypeOK, TofuAt
  <2>3. WhoRuns'
    BY <1>2, <2>1 DEF Ready, AddonsInv, WhoRuns, TofuAt, Keeps
  <2>4. FileGoesFirst' /\ PlanIsOfItsState' /\ WorkIsOnTrack' /\ StateIsTrue' /\ GotWhatItWanted'
    BY <1>1, <1>2, <2>1
    DEF Ready, AddonsInv, FileGoesFirst, PlanIsOfItsState, WorkIsOnTrack, StateIsTrue,
        GotWhatItWanted, TofuAt
  <2>. QED
    BY <2>2, <2>3, <2>4 DEF AddonsInv
<1>5. CASE tofu[r].serial = Known.serial
  <2>1. TofuAt(r, "work") /\ Keeps(r) /\ stateLock' = r
    BY <1>5, ToMoves DEF ApplyPlan, Ready, PlatformTypeOK, TofuSteps
  <2>2. PlatformTypeOK'
    <3>1. \A q \in Runner : q # Nobody /\ tofu[q].step \notin {"work", "save"}
      BY <1>1, RunnerAssumption DEF Ready, PlatformTypeOK, Nobody
    <3>. QED
      BY <3>1, <1>1, <2>1 DEF Ready, PlatformTypeOK, TofuAt
  <2>3. WhoRuns'
    BY <1>2, <2>1 DEF Ready, AddonsInv, WhoRuns, TofuAt, Keeps
  <2>4. Known.addons = Difference(tofu[r].want, tofu[r].todo)
    BY <1>1, <1>5, Differences DEF Ready, AddonsInv, PlanIsOfItsState
  <2>5. WorkIsOnTrack'
    BY <1>1, <2>1, <2>4 DEF Ready, AddonsInv, WorkIsOnTrack, TofuAt, Keeps
  <2>6. FileGoesFirst' /\ PlanIsOfItsState' /\ StateIsTrue' /\ GotWhatItWanted'
    BY <1>1, <1>2, <2>1
    DEF Ready, AddonsInv, FileGoesFirst, PlanIsOfItsState, StateIsTrue, GotWhatItWanted, TofuAt
  <2>. QED
    BY <2>2, <2>3, <2>5, <2>6 DEF AddonsInv
<1>. QED
  BY <1>4, <1>5

\* The cluster is one add-on ahead of the state.
LEMMA ChangeInv ==
    ASSUME NEW r \in Runner, Ready, ChangeAddon(r), UNCHANGED run
    PROVE  PlatformTypeOK' /\ AddonsInv'
<1>1. PICK a \in tofu[r].todo :
          /\ installed' = Difference(installed, {a})
          /\ tofu' = [tofu EXCEPT ![r].step = "save", ![r].todo = @ \ {a}]
  BY DEF ChangeAddon
<1>2. /\ UNCHANGED <<repoState, secret, stateLock>> /\ Known' = Known
      /\ tofu[r].step = "work" /\ Known.serial < MaxSerial
  BY DEF ChangeAddon, Known
<1>3. a \in Addon
  BY DEF Ready, PlatformTypeOK, Tofu
<1>4. /\ TofuAt(r, "save") /\ tofu'[r].todo = tofu[r].todo \ {a}
      /\ tofu'[r].want = tofu[r].want /\ tofu'[r].orphan = tofu[r].orphan
  BY <1>1 DEF Ready, PlatformTypeOK, TofuAt, Tofu, TofuSteps
<1>5. PlatformTypeOK'
  BY <1>1, <1>2, <1>3, <1>4 DEF Ready, PlatformTypeOK, TofuAt, Difference
<1>6. \A q \in Runner \ {r} : tofu[q].step \notin {"work", "save"}
  BY <1>2 DEF Ready, PlatformTypeOK
<1>7. installed = Known.addons /\ installed = Difference(tofu[r].want, tofu[r].todo)
  BY <1>2, <1>6 DEF Ready, AddonsInv, StateIsTrue, WorkIsOnTrack
<1>8. installed' = Difference(tofu[r].want, tofu[r].todo \ {a})
  <2>1. Difference(Difference(tofu[r].want, tofu[r].todo), {a})
          = Difference(tofu[r].want, tofu[r].todo \ {a})
    BY DEF Difference
  <2>. QED
    BY <2>1, <1>1, <1>7
<1>9. WorkIsOnTrack'
  <2>1. \E b \in Addon : installed' = Difference(Known'.addons, {b})
    BY <1>1, <1>2, <1>3, <1>7
  <2>. QED
    BY <2>1, <1>2, <1>4, <1>6, <1>8 DEF Ready, AddonsInv, WorkIsOnTrack, TofuAt
<1>10. WhoRuns'
  BY <1>2, <1>4 DEF Ready, AddonsInv, WhoRuns, TofuAt, AtRest
<1>11. FileGoesFirst' /\ PlanIsOfItsState' /\ StateIsTrue'
  BY <1>2, <1>4 DEF Ready, AddonsInv, FileGoesFirst, PlanIsOfItsState, StateIsTrue, TofuAt
<1>12. GotWhatItWanted'
  BY <1>2, <1>4 DEF Ready, AddonsInv, GotWhatItWanted, TofuAt
<1>. QED
  BY <1>5, <1>9, <1>10, <1>11, <1>12 DEF AddonsInv

\* The state catches up, and every plan made before is stale.
LEMMA SaveInv ==
    ASSUME NEW r \in Runner, Ready, SaveState(r), UNCHANGED run
    PROVE  PlatformTypeOK' /\ AddonsInv'
<1>1. TofuAt(r, "work") /\ Keeps(r)
  BY ToMoves DEF SaveState, Ready, PlatformTypeOK, TofuSteps
<1>2. /\ UNCHANGED <<repoState, installed, stateLock>> /\ tofu[r].step = "save"
      /\ secret' = State(Known.serial + 1, Difference(tofu[r].want, tofu[r].todo))
  BY DEF SaveState
<1>3. \A q \in Runner \ {r} : tofu[q].step \notin {"work", "save"}
  BY <1>2 DEF Ready, PlatformTypeOK
<1>4. /\ Known.serial < MaxSerial /\ installed = Difference(tofu[r].want, tofu[r].todo)
      /\ repoState = NoState
  BY <1>2 DEF Ready, AddonsInv, WorkIsOnTrack, FileGoesFirst
<1>5. Known \in States
  BY DEF Ready, PlatformTypeOK, Known
<1>6. Known.serial + 1 \in 1..MaxSerial
  BY <1>4, <1>5, SerialAssumption DEF States
<1>7. secret' \in States /\ secret' # NoState
  BY <1>2, <1>4, <1>6 DEF States, State, NoState, Ready, PlatformTypeOK
<1>8. Known' = secret' /\ Known'.addons = installed /\ Known'.serial = Known.serial + 1
  BY <1>2, <1>4, <1>7 DEF Known, State
<1>9. PlatformTypeOK'
  BY <1>1, <1>2, <1>7 DEF Ready, PlatformTypeOK, TofuAt
<1>10. WhoRuns'
  BY <1>1, <1>2 DEF Ready, AddonsInv, WhoRuns, TofuAt, Keeps, AtRest
<1>11. FileGoesFirst'
  BY <1>1, <1>2, <1>4, <1>7 DEF Ready, AddonsInv, FileGoesFirst, TofuAt
<1>12. PlanIsOfItsState'
  <2>1. SUFFICES ASSUME NEW q \in Runner, tofu'[q].step = "apply"
                 PROVE  tofu'[q].serial <= Known'.serial /\ tofu'[q].serial # Known'.serial
    BY DEF PlanIsOfItsState
  <2>2. tofu[q].step = "apply" /\ tofu'[q].serial = tofu[q].serial
    BY <1>1, <2>1 DEF TofuAt
  <2>3. tofu[q].serial <= Known.serial /\ tofu[q].serial \in Nat /\ Known.serial \in Nat
    BY <2>2, <1>5, SerialAssumption
    DEF Ready, AddonsInv, PlanIsOfItsState, PlatformTypeOK, Tofu, States
  <2>. QED
    BY <1>8, <2>2, <2>3
<1>13. WorkIsOnTrack' /\ StateIsTrue'
  BY <1>1, <1>2, <1>3, <1>4, <1>8
  DEF Ready, AddonsInv, WorkIsOnTrack, StateIsTrue, TofuAt, Keeps
<1>14. GotWhatItWanted'
  <2>1. stateLock = r /\ r # Nobody
    BY <1>2, RunnerAssumption DEF Ready, PlatformTypeOK, Nobody
  <2>. QED
    BY <2>1, <1>1 DEF Ready, AddonsInv, GotWhatItWanted, TofuAt
<1>. QED
  BY <1>9, <1>10, <1>11, <1>12, <1>13, <1>14 DEF AddonsInv

\* The lock is given back with the state true, and at its end what was wanted.
LEMMA EndApplyInv ==
    ASSUME NEW r \in Runner, Ready, EndApply(r), UNCHANGED run
    PROVE  PlatformTypeOK' /\ AddonsInv'
<1>1. PICK step \in {"ok", "failed"} : To(r, step) /\ (step = "ok" => tofu[r].todo = {})
  BY DEF EndApply
<1>2. TofuAt(r, step) /\ Keeps(r)
  BY <1>1, ToMoves DEF Ready, PlatformTypeOK, TofuSteps
<1>3. /\ UNCHANGED <<repoState, secret, installed>> /\ Known' = Known
      /\ tofu[r].step = "work" /\ stateLock' = Nobody
  BY DEF EndApply, Known
<1>4. \A q \in Runner : q # Nobody /\ (q # r => tofu[q].step \notin {"work", "save"})
  BY <1>3, RunnerAssumption DEF Ready, PlatformTypeOK, Nobody
<1>5. PlatformTypeOK'
  BY <1>2, <1>3, <1>4 DEF Ready, PlatformTypeOK, TofuAt
<1>6. WhoRuns'
  BY <1>2, <1>3 DEF Ready, AddonsInv, WhoRuns, TofuAt, Keeps, AtRest
<1>7. installed = Known.addons /\ Known.addons = Difference(tofu[r].want, tofu[r].todo)
  BY <1>3, <1>4 DEF Ready, AddonsInv, StateIsTrue, WorkIsOnTrack
<1>8. FileGoesFirst' /\ PlanIsOfItsState' /\ WorkIsOnTrack' /\ StateIsTrue'
  BY <1>2, <1>3, <1>7
  DEF Ready, AddonsInv, FileGoesFirst, PlanIsOfItsState, WorkIsOnTrack, StateIsTrue, TofuAt
<1>9. GotWhatItWanted'
  <2>1. step = "ok" => Known.addons = tofu[r].want
    BY <1>1, <1>7, Differences
  <2>. QED
    BY <2>1, <1>2, <1>3 DEF Ready, AddonsInv, WhoRuns, GotWhatItWanted, TofuAt
<1>. QED
  BY <1>5, <1>6, <1>8, <1>9 DEF AddonsInv

\* Every step of OpenTofu keeps what the platform rests on.
LEMMA PlatformStepInv ==
    ASSUME NEW r \in Runner, Ready, PlatformStep(r), UNCHANGED run
    PROVE  PlatformTypeOK' /\ AddonsInv'
BY MigrateInv, RemoveInv, LockTimesOutInv, PlanInv, ApplyPlanInv, ChangeInv, SaveInv, EndApplyInv
   DEF PlatformStep

\* The platform is kept by what does not touch it and does not begin or end its phase.
LEMMA PlatformKept ==
    ASSUME Ready, UNCHANGED platformVars,
           \/ UNCHANGED run
           \/ run.step # "tofu" /\ run'.step # "tofu"
    PROVE  PlatformTypeOK' /\ AddonsInv'
<1>1. UNCHANGED <<repoState, secret, installed, stateLock, tofu>> /\ Known' = Known
  BY DEF platformVars, Known
<1>2. PlatformTypeOK'
  BY <1>1 DEF Ready, PlatformTypeOK
<1>3. WhoRuns' /\ GotWhatItWanted'
  BY <1>1 DEF Ready, AddonsInv, WhoRuns, GotWhatItWanted
<1>4. FileGoesFirst' /\ PlanIsOfItsState' /\ WorkIsOnTrack' /\ StateIsTrue'
  BY <1>1 DEF Ready, AddonsInv, FileGoesFirst, PlanIsOfItsState, WorkIsOnTrack, StateIsTrue
<1>. QED
  BY <1>2, <1>3, <1>4 DEF AddonsInv

\* A run enters the platform phase with its OpenTofu at rest.
LEMMA OpenInv ==
    ASSUME Ready, run.step # "tofu", run'.step = "tofu", run'.by = run.by, run'.want = run.want,
           run.want.addons \in SUBSET Addon, Open(run.by, run.want.addons)
    PROVE  PlatformTypeOK' /\ AddonsInv'
<1>. DEFINE r == run.by
            step == IF repoState = NoState THEN "plan"
                    ELSE IF secret = NoState THEN "copy" ELSE "remove"
<1>1. /\ UNCHANGED <<repoState, secret, installed, stateLock>> /\ Known' = Known
      /\ tofu[r] = AtRest
      /\ tofu' = [tofu EXCEPT ![r].want = run.want.addons, ![r].step = step]
  BY DEF Open, Known
<1>2. /\ step \in {"plan", "copy", "remove"}
      /\ step = "plan" => repoState = NoState
      /\ step = "copy" => repoState # NoState /\ secret = NoState
      /\ step = "remove" => secret # NoState
  OBVIOUS
<1>3. r \in Runner
  BY DEF Ready
<1>. HIDE DEF step, r
<1>4. /\ TofuAt(r, step) /\ tofu'[r].want = run.want.addons
      /\ tofu'[r].orphan = FALSE
  BY <1>1, <1>2, <1>3 DEF Ready, PlatformTypeOK, TofuAt, Tofu, TofuSteps, AtRest
<1>5. PlatformTypeOK'
  BY <1>1, <1>2, <1>4 DEF Ready, PlatformTypeOK, TofuAt, AtRest
<1>6. WhoRuns' /\ GotWhatItWanted'
  BY <1>2, <1>3, <1>4 DEF Ready, AddonsInv, WhoRuns, GotWhatItWanted, TofuAt, r
<1>7. FileGoesFirst' /\ PlanIsOfItsState' /\ WorkIsOnTrack' /\ StateIsTrue'
  BY <1>1, <1>2, <1>4
  DEF Ready, AddonsInv, FileGoesFirst, PlanIsOfItsState, WorkIsOnTrack, StateIsTrue, TofuAt, AtRest
<1>. QED
  BY <1>5, <1>6, <1>7 DEF AddonsInv

\* One OpenTofu comes to rest, with its run or long after it.
LEMMA CloseInv ==
    ASSUME Ready, NEW r \in Runner, Close(r), run'.step # "tofu" \/ UNCHANGED run,
           run.step = "tofu" => (r = run.by <=> run'.step # "tofu")
    PROVE  PlatformTypeOK' /\ AddonsInv'
<1>1. /\ UNCHANGED <<repoState, secret, installed, stateLock>> /\ Known' = Known
      /\ tofu[r].step \in {"ok", "failed"} /\ tofu' = [tofu EXCEPT ![r] = AtRest]
  BY DEF Close, Known
<1>2. AtRest \in Tofu
  BY SerialAssumption DEF AtRest, Tofu, TofuSteps
<1>3. TofuAt(r, "idle") /\ tofu'[r] = AtRest
  BY <1>1, <1>2 DEF Ready, PlatformTypeOK, TofuAt, AtRest
<1>4. PlatformTypeOK'
  BY <1>1, <1>3 DEF Ready, PlatformTypeOK, TofuAt
<1>5. WhoRuns' /\ GotWhatItWanted'
  BY <1>1, <1>3 DEF Ready, AddonsInv, WhoRuns, GotWhatItWanted, TofuAt
<1>6. FileGoesFirst' /\ PlanIsOfItsState' /\ WorkIsOnTrack' /\ StateIsTrue'
  BY <1>1, <1>3
  DEF Ready, AddonsInv, FileGoesFirst, PlanIsOfItsState, WorkIsOnTrack, StateIsTrue, TofuAt
<1>. QED
  BY <1>4, <1>5, <1>6 DEF AddonsInv

\* A run ends anywhere: its OpenTofu is at rest or goes on as an orphan.
LEMMA OrphanInv ==
    ASSUME Ready, Orphan(run.by), run'.step # "tofu"
    PROVE  PlatformTypeOK' /\ AddonsInv'
<1>. DEFINE r == run.by
<1>1. /\ UNCHANGED <<repoState, secret, installed, stateLock>> /\ Known' = Known
      /\ tofu' = [tofu EXCEPT ![r] = IF tofu[r].step \in {"work", "save"}
                                      THEN [tofu[r] EXCEPT !.orphan = TRUE] ELSE AtRest]
  BY DEF Orphan, Known
<1>2. r \in Runner /\ tofu \in [Runner -> Tofu]
  BY DEF Ready, PlatformTypeOK
<1>. HIDE DEF r
<1>3. CASE tofu[r].step \in {"work", "save"}
  <2>1. tofu' = [tofu EXCEPT ![r].orphan = TRUE]
    BY <1>1, <1>2, <1>3
  <2>2. /\ TofuAt(r, tofu[r].step) /\ tofu'[r].orphan
        /\ tofu'[r].want = tofu[r].want /\ tofu'[r].todo = tofu[r].todo
    BY <2>1, <1>2 DEF TofuAt, Tofu
  <2>3. PlatformTypeOK'
    BY <1>1, <2>2 DEF Ready, PlatformTypeOK, TofuAt
  <2>4. WhoRuns' /\ GotWhatItWanted'
    BY <1>3, <2>2 DEF Ready, AddonsInv, WhoRuns, GotWhatItWanted, TofuAt, r
  <2>5. FileGoesFirst' /\ PlanIsOfItsState' /\ WorkIsOnTrack' /\ StateIsTrue'
    BY <1>1, <1>3, <2>2
    DEF Ready, AddonsInv, FileGoesFirst, PlanIsOfItsState, WorkIsOnTrack, StateIsTrue, TofuAt
  <2>. QED
    BY <2>3, <2>4, <2>5 DEF AddonsInv
<1>4. CASE tofu[r].step \notin {"work", "save"}
  <2>1. tofu' = [tofu EXCEPT ![r] = AtRest]
    BY <1>1, <1>4
  <2>2. AtRest \in Tofu
    BY SerialAssumption DEF AtRest, Tofu, TofuSteps
  <2>3. TofuAt(r, "idle") /\ tofu'[r] = AtRest
    BY <2>1, <2>2, <1>2 DEF TofuAt, AtRest
  <2>4. PlatformTypeOK'
    BY <1>1, <1>4, <2>3 DEF Ready, PlatformTypeOK, TofuAt
  <2>5. WhoRuns' /\ GotWhatItWanted'
    BY <2>3 DEF Ready, AddonsInv, WhoRuns, GotWhatItWanted, TofuAt, r
  <2>6. FileGoesFirst' /\ PlanIsOfItsState' /\ WorkIsOnTrack' /\ StateIsTrue'
    BY <1>1, <1>4, <2>3
    DEF Ready, AddonsInv, FileGoesFirst, PlanIsOfItsState, WorkIsOnTrack, StateIsTrue, TofuAt
  <2>. QED
    BY <2>4, <2>5, <2>6 DEF AddonsInv
<1>. QED
  BY <1>3, <1>4

-----------------------------------------------------------------------------
(* What the plan sees, and what a config does to a node. *)

\* A set of numbers has a least one.
LEMMA LeastNat ==
    ASSUME NEW T, T \subseteq Nat, T # {}
    PROVE  \E x \in T : \A y \in T : x <= y
<1>. DEFINE R == {p \in Nat \X Nat : p[1] < p[2]}
<1>1. OpToRel(<, Nat) = R
  BY Zenon DEF OpToRel
<1>2. IsWellFoundedOn(R, Nat)
  BY NatLessThanWellFounded, <1>1, Zenon
<1>3. PICK x \in T : \A y \in T : ~(<<y, x>> \in R)
  BY <1>2, WFMin, Zenon
<1>4. \A y \in T : ~(y < x)
  BY <1>3
<1>. QED
  BY <1>4

\* The types of everything but the platform.
NodesTypeOK ==
    /\ node \in [Node -> Machine]
    /\ manifests \in Kubes
    /\ spec \in Seq(Declaration) /\ spec # <<>>
    /\ recorded \in Cluster
    /\ run \in Run /\ (Running => run.want \in Declaration)
    /\ (run.step \in {"drain", "reboot", "back"} => run.todo # <<>>)
    /\ last \in Result
    /\ trouble \in 0..MaxTrouble

\* The types of the nodes and those of the platform are all.
LEMMA TypeParts == TypeOK <=> NodesTypeOK /\ PlatformTypeOK
BY DEF TypeOK, NodesTypeOK

\* The version that the plan compares with is that of the kubelets that are furthest behind.
LEMMA LowestKubelet ==
    ASSUME NodesTypeOK
    PROVE  /\ Lowest(Kubelets) \in Kubes
           /\ \A v : (\A n \in Node : node[n].kube = v) => Lowest(Kubelets) = v
<1>0. \A n \in Node : node[n].kube \in Kubes
  BY DEF NodesTypeOK, Machine
<1>1. Kubelets \subseteq Kubes /\ Kubelets \subseteq Nat /\ Kubelets # {}
  BY <1>0, OrderAssumption, SupportsAssumption DEF Kubelets
<1>2. \E v \in Kubelets : \A w \in Kubelets : v <= w
  BY <1>1, LeastNat
<1>3. Lowest(Kubelets) \in Kubelets
  BY <1>2 DEF Lowest
<1>. QED
  BY <1>1, <1>3 DEF Kubelets

\* What a plan sees is a cluster, field by field.
LEMMA AppliedType ==
    ASSUME NodesTypeOK
    PROVE  /\ Applied \in Cluster /\ Declared \in Declaration
           /\ Applied.talos = [n \in Node |-> node[n].talos]
           /\ Applied.image = node[First].image
           /\ Applied.kube = Lowest(Kubelets)
           /\ Applied.rest = Declared.rest
<1>1. Declared \in Declaration
  BY DEF NodesTypeOK, Declared
<1>2. Declared.rest \in Nat
  BY <1>1 DEF Declaration
<1>3. [n \in Node |-> node[n].talos] \in [Node -> Versions] /\ node[First].image \in Image
  BY OrderAssumption DEF NodesTypeOK, Machine
<1>. QED
  BY <1>1, <1>2, <1>3, LowestKubelet DEF Applied, Cluster

\* A config generated for a cluster is one.
LEMMA GeneratedType ==
    ASSUME NEW c, NEW n \in Node,
           c.talos \in [Node -> Versions], c.image \in Image, c.kube \in Kubes, c.rest \in Nat
    PROVE  Generated(c, n) \in Configs
BY DEF Generated, Config, Configs

\* So are the configs that the phases bring.
LEMMA ForImageType ==
    ASSUME NodesTypeOK, Running, NEW n \in Node
    PROVE  /\ ForImage(n) \in Configs /\ Generated(recorded, n) \in Configs
           /\ Generated([recorded EXCEPT !.kube = run.want.kube], n) \in Configs
BY DEF NodesTypeOK, ForImage, Generated, Config, Configs, Cluster, Declaration

\* The node has the config; it is as before, or came up with what its other boot slot had.
LEMMA ConfiguredIs ==
    ASSUME node \in [Node -> Machine], NEW n \in Node, NEW conf \in Configs
    PROVE  /\ Configured(n, conf) \in Machine
           /\ Configured(n, conf).conf = conf
           /\ Configured(n, conf).cordon = node[n].cordon
           /\ Configured(n, conf).slot = node[n].slot
           /\ node[n].odd => Configured(n, conf).odd
           /\ \/ /\ Configured(n, conf).talos = node[n].talos
                 /\ Configured(n, conf).image = node[n].image
              \/ Configured(n, conf).odd
           /\ Configured(n, conf).odd => node[n].odd \/ Pending(n)
<1>. DEFINE m == node[n]
<1>1. m \in Machine
  OBVIOUS
<1>2. CASE m.conf = conf
  BY <1>1, <1>2 DEF Configured, Machine
<1>3. CASE m.conf # conf /\ conf.rest = m.conf.rest
  <2>1. Configured(n, conf) = [m EXCEPT !.conf = conf, !.odd = m.odd, !.kube = m.kube,
                                        !.talos = m.talos, !.image = m.image]
    BY <1>1, <1>3 DEF Configured, Machine
  <2>. QED
    BY <2>1, <1>1 DEF Machine
<1>4. CASE m.conf # conf /\ conf.rest # m.conf.rest
  <2>1. Configured(n, conf) = [m EXCEPT !.conf = conf, !.odd = m.odd \/ Pending(n),
                                        !.kube = conf.kube, !.talos = m.slot.talos,
                                        !.image = m.slot.image]
    BY <1>1, <1>4 DEF Configured, Machine
  <2>2. conf.kube \in Kubes /\ m.slot.talos \in Versions /\ m.slot.image \in Image
    BY <1>1 DEF Configs, Machine
  <2>3. (m.odd \/ Pending(n)) \in BOOLEAN
    BY <1>1 DEF Machine, Pending
  <2>4. ~Pending(n) => m.slot.talos = m.talos /\ m.slot.image = m.image
    BY DEF Pending
  <2>. HIDE DEF m
  <2>. QED
    BY <2>1, <2>2, <2>3, <2>4, <1>1 DEF Machine, m
<1>. QED
  BY <1>2, <1>3, <1>4

-----------------------------------------------------------------------------
(* Where the steps take the run. *)

\* The run goes on to a step with these nodes left, or ends.
RunAt(step, todo) ==
    /\ run' \in Run
    /\ run'.step = step /\ run'.todo = todo
    /\ run'.phases = run.phases /\ run'.want = run.want /\ run'.by = run.by

EndedAs(result) ==
    /\ run' \in Run /\ run'.step = "none"
    /\ last' \in Result /\ last'.result = result
    /\ last'.want = run.want /\ last'.phases = run.phases

\* A run that goes to a step, with the nodes it has there.
LEMMA RunMoves ==
    ASSUME run \in Run, NEW step \in Steps
    PROVE  /\ \A todo \in Seq(Node) :
                 run' = [run EXCEPT !.step = step, !.todo = todo] => RunAt(step, todo)
           /\ run' = [run EXCEPT !.step = step] => RunAt(step, run.todo)
           /\ Proceed(step) => RunAt(step, Order)
<1>1. Order \in Seq(Node)
  BY OrderAssumption
<1>. QED
  BY <1>1 DEF RunAt, Run, Proceed

\* A run that goes to its next node.
LEMMA NextMoves ==
    ASSUME run \in Run, run.todo # <<>>, NextNode
    PROVE  RunAt(run.step, Tail(run.todo))
<1>1. Tail(run.todo) \in Seq(Node)
  BY DEF Run
<1>2. run' = [run EXCEPT !.step = run.step, !.todo = Tail(run.todo)]
  BY DEF NextNode
<1>. QED
  BY <1>1, <1>2 DEF RunAt, Run

\* A run that ends says how and for what.
LEMMA EndMoves ==
    ASSUME run \in Run, NEW result \in {"done", "failed", "refused"}, Ends(result)
    PROVE  EndedAs(result)
<1>1. /\ run.want \in Declaration \cup {<<>>} /\ run.phases \in SUBSET Phase
      /\ (IF run.by = 1 THEN 2 ELSE 1) \in {1, 2}
  BY DEF Run
<1>2. run' = [step |-> "none", todo |-> <<>>, phases |-> {}, want |-> <<>>,
              by |-> IF run.by = 1 THEN 2 ELSE 1]
  BY DEF Ends, NoRun
<1>3. last' = [result |-> result, want |-> run.want, phases |-> run.phases]
  BY DEF Ends
<1>4. <<>> \in Seq(Node) /\ "none" \in Steps
  BY DEF Steps
<1>. QED
  BY <1>1, <1>2, <1>3, <1>4 DEF EndedAs, Run, Result

\* When each phase is in a plan.
LEMMA ChangesAre ==
    /\ Changes \in SUBSET Phase
    /\ "config" \in Changes <=> Drift # {}
    /\ "talos" \in Changes <=>
          (\E n \in Node : Declared.talos[n] # node[n].talos) \/ Declared.image # Applied.image
    /\ "kubernetes" \in Changes <=> Declared.kube # Applied.kube
    /\ "platform" \in Changes <=> PlatformChanges(Declared.addons) # {} \/ repoState # NoState
BY DEF Changes, Phase

\* Where a run begins.
LEMMA StartMoves ==
    ASSUME NodesTypeOK, Start
    PROVE  /\ run' \in Run /\ run'.todo = Order /\ run'.want = Declared
           /\ run'.phases = Changes
           /\ run'.step = IF Drift # {} THEN "config" ELSE "talos"
<1>. DEFINE step == IF "config" \in Changes THEN "config" ELSE "talos"
<1>1. /\ run' = [run EXCEPT !.step = step, !.todo = Order, !.phases = Changes, !.want = Declared]
      /\ run \in Run /\ Declared \in Declaration
  BY AppliedType DEF Start, NodesTypeOK
<1>2. /\ step \in Steps /\ Changes \in SUBSET Phase
      /\ step = IF Drift # {} THEN "config" ELSE "talos"
  BY ChangesAre DEF Steps, Phase
<1>. HIDE DEF step
<1>. QED
  BY <1>1, <1>2, OrderAssumption DEF Run

\* Where each step of the phases takes the run.
LEMMA PhasesMove ==
    ASSUME NodesTypeOK
    PROVE  /\ ApplyConfigs => RunAt("config", Tail(run.todo))
           /\ \A step \in Steps, next \in Steps : SyncManifests(step, next) => RunAt(next, Order)
           /\ StartTalos => \/ (RunAt("kubernetes", Order) /\ last' = last)
                            \/ (RunAt("install", Order) /\ last' = last)
                            \/ EndedAs("refused")
           /\ SkipNode => RunAt("install", Tail(run.todo))
           /\ AlreadyThere => RunAt("install", Tail(run.todo))
           /\ Install => RunAt("drain", run.todo)
           /\ Drain => RunAt("reboot", run.todo)
           /\ Reboot => RunAt("back", run.todo)
           /\ Back => RunAt("install", Tail(run.todo))
           /\ Upgraded => RunAt("talos synced", <<>>)
           /\ StartKubernetes => \/ (RunAt("platform", Order) /\ last' = last)
                                 \/ (RunAt("kubelets", <<>>) /\ last' = last)
                                 \/ (RunAt("kubelets", Order) /\ last' = last)
                                 \/ EndedAs("refused")
           /\ UpgradeKubelet => RunAt("kubelets", Tail(run.todo)) \/ UNCHANGED run
           /\ KubernetesUpgraded => RunAt("kubernetes synced", run.todo)
           /\ StartPlatform => \/ (RunAt("tofu", run.todo) /\ last' = last)
                               \/ EndedAs("refused")
<1>1. run \in Run /\ <<>> \in Seq(Node)
  BY DEF NodesTypeOK
<1>2. {"talos", "kubernetes", "platform", "install", "drain", "reboot", "back", "talos synced",
       "kubelets", "kubernetes synced", "tofu"} \subseteq Steps
  BY DEF Steps, Phase
<1>3. ApplyConfigs => RunAt("config", Tail(run.todo))
  BY <1>1, NextMoves DEF ApplyConfigs, At
<1>4. \A step \in Steps, next \in Steps : SyncManifests(step, next) => RunAt(next, Order)
  BY <1>1, RunMoves DEF SyncManifests
<1>5. StartTalos => \/ (RunAt("kubernetes", Order) /\ last' = last)
                   \/ (RunAt("install", Order) /\ last' = last)
                   \/ EndedAs("refused")
  BY <1>1, <1>2, RunMoves, EndMoves DEF StartTalos
<1>6. SkipNode \/ AlreadyThere => RunAt("install", Tail(run.todo))
  BY <1>1, NextMoves DEF SkipNode, AlreadyThere, At
<1>7. /\ Install => RunAt("drain", run.todo)
      /\ Drain => RunAt("reboot", run.todo)
      /\ Reboot => RunAt("back", run.todo)
  BY <1>1, <1>2, RunMoves DEF Install, Drain, Reboot
<1>8. Back => RunAt("install", Tail(run.todo))
  <2>. HAVE Back
  <2>1. run.todo # <<>> /\ run' = [run EXCEPT !.step = "install", !.todo = Tail(run.todo)]
    BY DEF Back, At, NodesTypeOK
  <2>2. Tail(run.todo) \in Seq(Node)
    BY <1>1, <2>1 DEF Run
  <2>. QED
    BY <1>1, <1>2, <2>1, <2>2, RunMoves
<1>9. Upgraded => RunAt("talos synced", <<>>)
  BY <1>1, <1>2, RunMoves DEF Upgraded
<1>10. StartKubernetes => \/ (RunAt("platform", Order) /\ last' = last)
                         \/ (RunAt("kubelets", <<>>) /\ last' = last)
                         \/ (RunAt("kubelets", Order) /\ last' = last)
                         \/ EndedAs("refused")
  BY <1>1, <1>2, RunMoves, EndMoves DEF StartKubernetes
<1>11. UpgradeKubelet => RunAt("kubelets", Tail(run.todo)) \/ UNCHANGED run
  BY <1>1, NextMoves DEF UpgradeKubelet, At
<1>12. KubernetesUpgraded => RunAt("kubernetes synced", run.todo)
  BY <1>1, <1>2, RunMoves DEF KubernetesUpgraded
<1>13. StartPlatform => \/ (RunAt("tofu", run.todo) /\ last' = last)
                       \/ EndedAs("refused")
  BY <1>1, <1>2, RunMoves, EndMoves DEF StartPlatform
<1>. QED
  BY <1>3, <1>4, <1>5, <1>6, <1>7, <1>8, <1>9, <1>10, <1>11, <1>12, <1>13

-----------------------------------------------------------------------------
(* Types. *)

\* The node in turn is one that is left.
LEMMA ThisType ==
    ASSUME NodesTypeOK, run.todo # <<>>
    PROVE  This \in Node /\ This \in Left
BY DEF NodesTypeOK, Run, This, Left

\* A node gets another cordon.
LEMMA CordonMoves ==
    ASSUME node \in [Node -> Machine], NEW n \in Node, NEW c \in {"none", "kubit", "user"},
           node' = [node EXCEPT ![n].cordon = c]
    PROVE  /\ node' \in [Node -> Machine]
           /\ \A m \in Node :
                 /\ node'[m].talos = node[m].talos /\ node'[m].image = node[m].image
                 /\ node'[m].kube = node[m].kube /\ node'[m].conf = node[m].conf
                 /\ node'[m].odd = node[m].odd /\ node'[m].slot = node[m].slot
BY DEF Machine

\* A node gets a config, and keeps its cordon or loses Kubit's.
LEMMA ConfigMoves ==
    ASSUME node \in [Node -> Machine], NEW n \in Node, NEW conf \in Configs,
           \/ node' = [node EXCEPT ![n] = Configured(n, conf)]
           \/ node' = [node EXCEPT ![n] = [Configured(n, conf) EXCEPT !.cordon =
                                                IF @ = "kubit" THEN "none" ELSE @]]
    PROVE  /\ node' \in [Node -> Machine]
           /\ \A m \in Node \ {n} : node'[m] = node[m]
           /\ node'[n].conf = conf
           /\ node'[n].slot = node[n].slot
           /\ node[n].odd => node'[n].odd
           /\ node'[n].odd => node[n].odd \/ Pending(n)
           /\ \/ node'[n].talos = node[n].talos /\ node'[n].image = node[n].image
              \/ node'[n].odd
<1>. DEFINE m == Configured(n, conf)
<1>1. /\ m \in Machine /\ m.conf = conf /\ m.slot = node[n].slot
      /\ node[n].odd => m.odd
      /\ m.odd => node[n].odd \/ Pending(n)
      /\ (m.talos = node[n].talos /\ m.image = node[n].image) \/ m.odd
  BY ConfiguredIs
<1>. HIDE DEF m
<1>2. CASE node' = [node EXCEPT ![n] = m]
  BY <1>1, <1>2
<1>3. CASE node' = [node EXCEPT ![n] = [m EXCEPT !.cordon = IF @ = "kubit" THEN "none" ELSE @]]
  BY <1>1, <1>3 DEF Machine
<1>. QED
  BY <1>2, <1>3 DEF m

\* A step that goes on, ends a run or leaves it alone keeps the types.
LEMMA Typed ==
    ASSUME NodesTypeOK, node' \in [Node -> Machine], manifests' \in Kubes, recorded' \in Cluster,
           UNCHANGED spec, trouble' \in 0..MaxTrouble,
           \/ /\ Running /\ run' \in Run /\ run'.want = run.want /\ last' = last
              /\ run'.step \in {"drain", "reboot", "back"} => run'.todo # <<>>
           \/ EndedAs("refused") \/ EndedAs("failed") \/ EndedAs("done")
           \/ UNCHANGED <<run, last>>
    PROVE  NodesTypeOK'
BY DEF NodesTypeOK, Running, EndedAs

\* The types hold at first.
LEMMA InitType ==
    ASSUME Init
    PROVE  NodesTypeOK /\ PlatformTypeOK
<1>1. PICK s \in Scenarios :
          /\ spec = s.specs /\ manifests = s.have.kube
          /\ node = [n \in Node |->
                [talos |-> s.have.talos, image |-> s.have.image, kube |-> s.have.kube,
                 cordon |-> "none",
                 slot |-> [talos |-> s.have.talos, image |-> s.have.image], odd |-> FALSE,
                 conf |-> Config(s.have.talos, s.have.image, s.have.kube, s.have.rest)]]
          /\ repoState = s.repo /\ secret = s.secret /\ installed = Known.addons
          /\ recorded = [talos |-> [n \in Node |-> s.have.talos], image |-> s.have.image,
                         kube |-> s.have.kube, rest |-> s.have.rest]
          /\ run = NoRun /\ last = NoResult /\ trouble = 0
          /\ stateLock = Nobody /\ tofu = [r \in Runner |-> AtRest]
  BY DEF Init
<1>2. /\ s.have.talos \in Versions /\ s.have.kube \in Kubes /\ s.have.image \in Image
      /\ s.have.rest \in Nat /\ s.specs \in Seq(Declaration) /\ s.specs # <<>>
      /\ s.repo \in States /\ s.secret \in States
  BY ScenarioAssumption
<1>3. node \in [Node -> Machine] /\ recorded \in Cluster
  BY <1>1, <1>2 DEF Machine, Configs, Config, Cluster
<1>4. run \in Run /\ last \in Result /\ run.step = "none"
  BY <1>1 DEF NoRun, NoResult, Run, Result, Steps
<1>5. trouble \in 0..MaxTrouble
  BY <1>1, TroubleAssumption
<1>6. NodesTypeOK
  BY <1>1, <1>2, <1>3, <1>4, <1>5 DEF NodesTypeOK, Running
<1>7. AtRest \in Tofu /\ AtRest.step = "idle"
  BY SerialAssumption DEF AtRest, Tofu, TofuSteps
<1>8. installed \subseteq Addon
  BY <1>1, <1>2 DEF Known, States
<1>9. \A r \in Runner : r # Nobody
  BY RunnerAssumption DEF Nobody
<1>10. PlatformTypeOK
  BY <1>1, <1>2, <1>7, <1>8, <1>9 DEF PlatformTypeOK
<1>. QED
  BY <1>6, <1>10

\* The phases but the last keep the types.
LEMMA PhasesType ==
    ASSUME NodesTypeOK
    PROVE  /\ ApplyConfigs => NodesTypeOK'
           /\ \A step \in Steps \ {"none"}, next \in Phase :
                 SyncManifests(step, next) => NodesTypeOK'
           /\ StartTalos => NodesTypeOK'
           /\ SkipNode => NodesTypeOK'
           /\ AlreadyThere => NodesTypeOK'
           /\ Install => NodesTypeOK'
           /\ Drain => NodesTypeOK'
           /\ Reboot => NodesTypeOK'
           /\ Back => NodesTypeOK'
           /\ Upgraded => NodesTypeOK'
           /\ StartKubernetes => NodesTypeOK'
           /\ UpgradeKubelet => NodesTypeOK'
           /\ KubernetesUpgraded => NodesTypeOK'
<1>. USE PhasesMove DEF At, Quiet, Running
<1>0. /\ node \in [Node -> Machine] /\ manifests \in Kubes /\ recorded \in Cluster
      /\ trouble \in 0..MaxTrouble
      /\ \A n \in Node : node[n].conf.kube \in Kubes
  BY DEF NodesTypeOK, Machine, Configs
<1>1. ApplyConfigs => NodesTypeOK'
  <2>. HAVE ApplyConfigs
  <2>1. This \in Node /\ Generated(recorded, This) \in Configs
    BY ThisType, ForImageType DEF ApplyConfigs
  <2>2. node' \in [Node -> Machine]
    BY <1>0, <2>1, ConfigMoves DEF ApplyConfigs
  <2>. QED
    BY <1>0, <2>2, Typed DEF ApplyConfigs, RunAt
<1>2. ASSUME NEW step \in Steps \ {"none"}, NEW next \in Phase, SyncManifests(step, next)
      PROVE  NodesTypeOK'
  <2>1. manifests' \in Kubes
    BY <1>0, <1>2, OrderAssumption DEF SyncManifests, Rendered
  <2>2. RunAt(next, Order) /\ next \notin {"drain", "reboot", "back"}
    BY <1>2 DEF Steps, Phase
  <2>. QED
    BY <1>0, <1>2, <2>1, <2>2, Typed DEF SyncManifests, RunAt
<1>3. StartTalos => NodesTypeOK'
  BY <1>0, Typed DEF StartTalos, RunAt
<1>4. SkipNode => NodesTypeOK'
  BY <1>0, Typed DEF SkipNode, RunAt
<1>5. AlreadyThere => NodesTypeOK'
  <2>. HAVE AlreadyThere
  <2>1. This \in Node /\ ForImage(This) \in Configs
    BY ThisType, ForImageType DEF AlreadyThere
  <2>2. node' \in [Node -> Machine]
    BY <1>0, <2>1, ConfigMoves DEF AlreadyThere
  <2>. QED
    BY <1>0, <2>2, Typed DEF AlreadyThere, RunAt
<1>6. Install => NodesTypeOK'
  <2>. HAVE Install
  <2>1. This \in Node /\ run.want.talos[This] \in Versions /\ run.want.image \in Image
    BY ThisType DEF Install, NodesTypeOK, Declaration
  <2>2. node' \in [Node -> Machine]
    BY <1>0, <2>1 DEF Install, Machine
  <2>. QED
    BY <1>0, <2>2, Typed DEF Install, RunAt
<1>7. Drain => NodesTypeOK'
  <2>. HAVE Drain
  <2>1. This \in Node /\ run.todo # <<>>
    BY ThisType DEF Drain, NodesTypeOK
  <2>2. node' \in [Node -> Machine]
    BY <1>0, <2>1 DEF Drain, Machine
  <2>. QED
    BY <1>0, <2>1, <2>2, Typed DEF Drain, RunAt
<1>8. Reboot => NodesTypeOK'
  <2>. HAVE Reboot
  <2>1. This \in Node /\ run.todo # <<>>
    BY ThisType DEF Reboot, NodesTypeOK
  <2>2. /\ node[This].slot.talos \in Versions /\ node[This].slot.image \in Image
        /\ node[This].conf.kube \in Kubes
    BY <1>0, <2>1 DEF Machine
  <2>. DEFINE m == [node[This] EXCEPT !.talos = node[This].slot.talos,
                                      !.image = node[This].slot.image,
                                      !.kube = node[This].conf.kube]
  <2>3. node' \in [Node -> Machine]
    <3>1. node' = [node EXCEPT ![This] = m]
      BY <1>0, <2>1 DEF Reboot
    <3>2. m \in Machine
      BY <1>0, <2>1, <2>2 DEF Machine
    <3>. HIDE DEF m
    <3>. QED
      BY <1>0, <2>1, <3>1, <3>2
  <2>. QED
    BY <1>0, <2>1, <2>3, Typed DEF Reboot, RunAt
<1>9. Back => NodesTypeOK'
  <2>. HAVE Back
  <2>1. This \in Node /\ ForImage(This) \in Configs
    BY ThisType, ForImageType DEF Back, NodesTypeOK
  <2>2. node' \in [Node -> Machine]
    BY <1>0, <2>1, ConfigMoves DEF Back
  <2>. QED
    BY <1>0, <2>2, Typed DEF Back, RunAt
<1>10. Upgraded => NodesTypeOK'
  <2>. HAVE Upgraded
  <2>1. recorded' \in Cluster
    BY DEF Upgraded, NodesTypeOK, Cluster, Declaration
  <2>. QED
    BY <1>0, <2>1, Typed DEF Upgraded, RunAt
<1>11. StartKubernetes => NodesTypeOK'
  BY <1>0, Typed DEF StartKubernetes, RunAt
<1>12. UpgradeKubelet => NodesTypeOK'
  <2>. HAVE UpgradeKubelet
  <2>. DEFINE conf == Generated([recorded EXCEPT !.kube = run.want.kube], This)
  <2>1. This \in Node /\ conf \in Configs
    BY ThisType, ForImageType DEF UpgradeKubelet
  <2>2. (node' = [node EXCEPT ![This] = Configured(This, conf)]) \/ UNCHANGED node
    BY DEF UpgradeKubelet
  <2>. HIDE DEF conf
  <2>3. node' \in [Node -> Machine]
    BY <1>0, <2>1, <2>2, ConfigMoves
  <2>. QED
    BY <1>0, <2>3, Typed DEF UpgradeKubelet, RunAt
<1>13. KubernetesUpgraded => NodesTypeOK'
  <2>. HAVE KubernetesUpgraded
  <2>1. recorded' \in Cluster
    BY DEF KubernetesUpgraded, NodesTypeOK, Cluster, Declaration
  <2>. QED
    BY <1>0, <2>1, Typed DEF KubernetesUpgraded, RunAt
<1>. QED
  BY <1>1, <1>2, <1>3, <1>4, <1>5, <1>6, <1>7, <1>8, <1>9, <1>10, <1>11, <1>12, <1>13

\* What happens outside keeps the types.
LEMMA OutsideType ==
    ASSUME NodesTypeOK
    PROVE  /\ UserEdits => NodesTypeOK'
           /\ \A n \in Node : KubeletFollows(n) \/ UserCordons(n) => NodesTypeOK'
<1>0. node \in [Node -> Machine] /\ trouble \in 0..MaxTrouble
  BY DEF NodesTypeOK
<1>1. UserEdits => NodesTypeOK'
  <2>. HAVE UserEdits
  <2>1. spec \in Seq(Declaration) /\ Len(spec) > 1 /\ spec' = Tail(spec)
    BY DEF UserEdits, NodesTypeOK
  <2>2. spec' \in Seq(Declaration) /\ spec' # <<>>
    BY <2>1
  <2>3. last' \in Result
    BY DEF UserEdits, NoResult, Result
  <2>. QED
    BY <2>2, <2>3 DEF UserEdits, NodesTypeOK, Running
<1>2. ASSUME NEW n \in Node, KubeletFollows(n)
      PROVE  NodesTypeOK'
  <2>1. node[n].conf.kube \in Kubes
    BY <1>0 DEF Machine, Configs
  <2>2. node' \in [Node -> Machine]
    BY <1>0, <1>2, <2>1 DEF KubeletFollows, Machine
  <2>. QED
    BY <1>0, <1>2, <2>2, Typed DEF KubeletFollows, Quiet, NodesTypeOK
<1>3. ASSUME NEW n \in Node, UserCordons(n)
      PROVE  NodesTypeOK'
  <2>1. node' \in [Node -> Machine]
    BY <1>0, <1>3, CordonMoves DEF UserCordons
  <2>2. trouble' \in 0..MaxTrouble
    BY <1>0, <1>3, TroubleAssumption DEF UserCordons
  <2>. QED
    BY <2>1, <2>2, <1>3, Typed DEF UserCordons, NodesTypeOK
<1>. QED
  BY <1>1, <1>2, <1>3

\* A run that stops: its node is as it was, or loses the cordon of the drain.
LEMMA StopsDoes ==
    ASSUME NodesTypeOK, Stops
    PROVE  NodesTypeOK' /\ EndedAs("failed")
<1>1. EndedAs("failed") /\ Running
  BY EndMoves DEF Stops, NodesTypeOK
<1>2. trouble' \in 0..MaxTrouble
  BY TroubleAssumption DEF Stops, NodesTypeOK
<1>3. node' \in [Node -> Machine]
  <2>1. CASE UNCHANGED node
    BY <2>1 DEF NodesTypeOK
  <2>2. CASE /\ At("reboot")
             /\ node' = [node EXCEPT ![This].cordon = IF @ = "kubit" THEN "none" ELSE @]
    <3>1. This \in Node
      BY <2>2, ThisType DEF At, NodesTypeOK
    <3>2. node[This].cordon \in {"none", "kubit", "user"} /\ node \in [Node -> Machine]
      BY <3>1 DEF NodesTypeOK, Machine
    <3>. QED
      BY <2>2, <3>1, <3>2, CordonMoves
  <2>. QED
    BY <2>1, <2>2 DEF Stops
<1>. QED
  BY <1>1, <1>2, <1>3, Typed DEF Stops, NodesTypeOK

\* A run begins with the types kept.
LEMMA StartType ==
    ASSUME NodesTypeOK, Start
    PROVE  NodesTypeOK'
<1>1. run' \in Run /\ run'.want \in Declaration /\ run'.step \in {"config", "talos"}
  BY StartMoves, AppliedType
<1>2. recorded' \in Cluster /\ last' \in Result
  BY AppliedType DEF Start, NoResult, Result
<1>. QED
  BY <1>1, <1>2 DEF Start, Quiet, NodesTypeOK, Running

\* The platform phase begins and ends with all in order.
LEMMA PlatformPhaseInv ==
    ASSUME NodesTypeOK, Ready
    PROVE  StartPlatform \/ EndPlatform => NodesTypeOK' /\ PlatformTypeOK' /\ AddonsInv'
<1>0. /\ node \in [Node -> Machine] /\ manifests \in Kubes /\ recorded \in Cluster
      /\ trouble \in 0..MaxTrouble /\ run \in Run
  BY DEF NodesTypeOK
<1>1. ASSUME StartPlatform PROVE NodesTypeOK' /\ PlatformTypeOK' /\ AddonsInv'
  <2>1. NodesTypeOK'
    BY <1>0, <1>1, PhasesMove, Typed DEF StartPlatform, At, Running, RunAt
  <2>2. CASE "longhorn" \in run.want.addons /\ run.want.image # recorded.image
    <3>1. EndedAs("refused") /\ UNCHANGED platformVars /\ run.step = "platform"
      BY <1>0, <1>1, <2>2, EndMoves DEF StartPlatform, At
    <3>. QED
      BY <2>1, <3>1, PlatformKept DEF EndedAs
  <2>3. CASE ~("longhorn" \in run.want.addons /\ run.want.image # recorded.image)
    <3>1. /\ Open(run.by, run.want.addons) /\ run' = [run EXCEPT !.step = "tofu"]
          /\ run.step = "platform"
      BY <1>1, <2>3 DEF StartPlatform, At
    <3>2. RunAt("tofu", run.todo)
      BY <1>0, <3>1, RunMoves DEF Steps
    <3>3. run.want.addons \in SUBSET Addon
      BY <3>1 DEF NodesTypeOK, Running, Declaration
    <3>. QED
      BY <2>1, <3>1, <3>2, <3>3, OpenInv DEF RunAt
  <2>. QED
    BY <2>2, <2>3
<1>2. ASSUME EndPlatform PROVE NodesTypeOK' /\ PlatformTypeOK' /\ AddonsInv'
  <2>1. EndedAs("done") \/ EndedAs("failed")
    BY <1>0, <1>2, EndMoves DEF EndPlatform
  <2>2. NodesTypeOK'
    BY <1>0, <1>2, <2>1, Typed DEF EndPlatform
  <2>3. PlatformTypeOK' /\ AddonsInv'
    BY <1>2, <2>1, CloseInv DEF EndPlatform, At, EndedAs, Ready
  <2>. QED
    BY <2>2, <2>3
<1>. QED
  BY <1>1, <1>2

-----------------------------------------------------------------------------

\* The invariant holds at first.
LEMMA InitIInv == Init => IInv
<1>. SUFFICES ASSUME Init PROVE IInv
  OBVIOUS
<1>1. TypeOK
  BY InitType, TypeParts
<1>2. /\ run.step = "none" /\ tofu = [r \in Runner |-> AtRest] /\ installed = Known.addons
  BY DEF Init, NoRun
<1>. QED
  BY <1>1, <1>2
  DEF IInv, AddonsInv, WhoRuns, FileGoesFirst, PlanIsOfItsState, WorkIsOnTrack, StateIsTrue,
      GotWhatItWanted, AtRest

\* Every step keeps the invariant.
LEMMA IInvStep == IInv /\ [Next]_vars => IInv'
<1>. SUFFICES ASSUME IInv, [Next]_vars PROVE NodesTypeOK' /\ PlatformTypeOK' /\ AddonsInv'
  BY DEF IInv, TypeOK, NodesTypeOK
<1>0. NodesTypeOK /\ Ready
  BY TypeParts, TwoAssumption DEF IInv, Ready, NodesTypeOK, Run
<1>1. CASE Start
  <2>1. /\ UNCHANGED platformVars /\ run.step = "none"
        /\ run'.step \in {"config", "talos"}
    BY <1>0, <1>1, StartMoves DEF Start, Quiet, Running
  <2>. QED
    BY <1>0, <1>1, <2>1, StartType, PlatformKept
<1>2. CASE \/ ApplyConfigs \/ SyncManifests("config", "talos") \/ StartTalos \/ SkipNode
           \/ AlreadyThere \/ Install \/ Drain \/ Reboot \/ Back \/ Upgraded
           \/ SyncManifests("talos synced", "kubernetes") \/ StartKubernetes \/ UpgradeKubelet
           \/ KubernetesUpgraded \/ SyncManifests("kubernetes synced", "platform")
  <2>1. NodesTypeOK'
    BY <1>0, <1>2, PhasesType DEF Steps, Phase
  <2>2. UNCHANGED platformVars /\ run.step # "tofu"
    BY <1>2
    DEF ApplyConfigs, SyncManifests, StartTalos, SkipNode, AlreadyThere, Install, Drain, Reboot,
        Back, Upgraded, StartKubernetes, UpgradeKubelet, KubernetesUpgraded, Quiet, At
  <2>3. run'.step # "tofu"
    <3>1. ASSUME NEW step \in Steps, NEW next \in Phase, SyncManifests(step, next)
          PROVE  run'.step # "tofu"
      BY <1>0, <3>1, PhasesMove DEF RunAt, Steps, Phase
    <3>2. {"config", "talos synced", "kubernetes synced", "talos", "kubernetes", "platform"}
              \subseteq Steps
      BY DEF Steps, Phase
    <3>3. \/ ApplyConfigs \/ StartTalos \/ SkipNode \/ AlreadyThere \/ Install \/ Drain \/ Reboot
          \/ Back \/ Upgraded \/ StartKubernetes \/ UpgradeKubelet \/ KubernetesUpgraded
          => run'.step # "tofu"
      BY <1>0, <2>2, PhasesMove DEF RunAt, EndedAs
    <3>. QED
      BY <1>2, <3>1, <3>2, <3>3 DEF Phase
  <2>. QED
    BY <1>0, <2>1, <2>2, <2>3, PlatformKept
<1>3. CASE StartPlatform \/ EndPlatform
  BY <1>0, <1>3, PlatformPhaseInv
<1>4. CASE Stops
  BY <1>0, <1>4, StopsDoes, OrphanInv DEF Stops, EndedAs
<1>5. CASE UserEdits
  BY <1>0, <1>5, OutsideType, PlatformKept DEF UserEdits
<1>6. ASSUME NEW n \in Node, KubeletFollows(n) \/ UserCordons(n)
      PROVE  NodesTypeOK' /\ PlatformTypeOK' /\ AddonsInv'
  <2>1. UNCHANGED platformVars /\ UNCHANGED run
    BY <1>6 DEF KubeletFollows, UserCordons, Quiet
  <2>. QED
    BY <1>0, <1>6, <2>1, OutsideType, PlatformKept
<1>7. ASSUME NEW r \in Runner, RunPlatform(r)
      PROVE  NodesTypeOK' /\ PlatformTypeOK' /\ AddonsInv'
  <2>1. PlatformTypeOK' /\ AddonsInv'
    BY <1>0, <1>7, PlatformStepInv DEF RunPlatform
  <2>2. NodesTypeOK'
    BY <1>0, <1>7 DEF RunPlatform, NodesTypeOK, Running
  <2>. QED
    BY <2>1, <2>2
<1>8. ASSUME NEW r \in Runner, OrphanEnds(r)
      PROVE  NodesTypeOK' /\ PlatformTypeOK' /\ AddonsInv'
  <2>1. UNCHANGED run /\ Close(r) /\ tofu[r].orphan
    BY <1>8 DEF OrphanEnds
  <2>2. run.step = "tofu" => r # run.by
    BY <1>0, <2>1 DEF Ready, AddonsInv, WhoRuns
  <2>3. PlatformTypeOK' /\ AddonsInv'
    BY <1>0, <2>1, <2>2, CloseInv
  <2>4. NodesTypeOK'
    BY <1>0, <1>8 DEF OrphanEnds, NodesTypeOK, Running
  <2>. QED
    BY <2>3, <2>4
<1>9. CASE UNCHANGED vars
  BY <1>0, <1>9, PlatformKept DEF vars, NodesTypeOK, Running
<1>. QED
  BY <1>1, <1>2, <1>3, <1>4, <1>5, <1>6, <1>7, <1>8, <1>9 DEF Next, Phases

\* The invariant that everything below rests on.
THEOREM Invariance == Spec => []IInv
BY InitIInv, IInvStep, PTL DEF Spec

\* The variables keep their types.
THEOREM TypeCorrect == Spec => []TypeOK
BY Invariance, PTL DEF IInv

\* A set whose elements are all the same has at most one.
LEMMA AtMostOne ==
    ASSUME NEW S, \A x, y \in S : x = y
    PROVE  Cardinality(S) <= 1
<1>1. CASE S = {}
  BY <1>1, FS_EmptySet
<1>2. CASE S # {}
  <2>1. PICK x : x \in S
    BY <1>2
  <2>2. S = {x}
    BY <2>1
  <2>. QED
    BY <2>2, FS_Singleton
<1>. QED
  BY <1>1, <1>2

\* The invariant says what the add-ons property says.
LEMMA AddonsKnown == IInv => StateKnowsAddons
<1>. SUFFICES ASSUME IInv PROVE StateKnowsAddons
  OBVIOUS
<1>. DEFINE working == {r \in Runner : tofu[r].step \in {"work", "save"}}
            saving == {r \in Runner : tofu[r].step = "save"}
            differ == Difference(installed, Known.addons)
<1>1. PlatformTypeOK /\ AddonsInv
  BY TypeParts DEF IInv
<1>2. Cardinality(working) <= 1
  BY <1>1, AtMostOne DEF PlatformTypeOK
<1>3. Cardinality(differ) <= Cardinality(saving)
  <2>1. CASE saving = {}
    <3>1. differ = {}
      BY <2>1, <1>1 DEF AddonsInv, StateIsTrue, Difference
    <3>. QED
      BY <2>1, <3>1, FS_EmptySet
  <2>2. CASE saving # {}
    <3>1. PICK r \in Runner : tofu[r].step = "save"
      BY <2>2
    <3>2. saving = {r}
      BY <3>1, <1>1 DEF PlatformTypeOK
    <3>3. PICK a \in Addon : installed = Difference(Known.addons, {a})
      BY <3>1, <1>1 DEF AddonsInv, WorkIsOnTrack
    <3>4. differ = {a}
      BY <3>3 DEF Difference
    <3>5. Cardinality({a}) = 1 /\ Cardinality({r}) = 1
      BY FS_Singleton
    <3>. HIDE DEF differ, saving
    <3>. QED
      BY <3>2, <3>4, <3>5
  <2>. QED
    BY <2>1, <2>2
<1>. QED
  BY <1>2, <1>3 DEF StateKnowsAddons

\* What is in the cluster is what the state that the next run reads says, but for the one
\* resource that the one OpenTofu at work is changing, whatever runs are orphaned.
THEOREM AddonsAreKnown == Spec => []StateKnowsAddons
BY Invariance, AddonsKnown, PTL

-----------------------------------------------------------------------------
(* The nodes, step by step. *)

\* What is left after a node, before the first, and after the last.
LEMMA TailLeaves ==
    ASSUME run.todo \in Seq(Node), run.todo # <<>>, run'.todo = Tail(run.todo),
           NEW n, n \notin Left'
    PROVE  n \notin Left \/ n = This
<1>. SUFFICES ASSUME n \in Left PROVE n = This
  OBVIOUS
<1>1. PICK i \in 1..Len(run.todo) : n = run.todo[i]
  BY DEF Left
<1>2. CASE i = 1
  BY <1>1, <1>2 DEF This
<1>3. CASE i # 1
  <2>1. i - 1 \in 1..Len(Tail(run.todo)) /\ Tail(run.todo)[i - 1] = run.todo[i]
    BY <1>1, <1>3
  <2>2. DOMAIN Tail(run.todo) = 1..Len(Tail(run.todo))
    OBVIOUS
  <2>. QED
    BY <1>1, <2>1, <2>2 DEF Left
<1>. QED
  BY <1>2, <1>3

\* Before the first node all are left; after the last, none.
LEMMA OrderLeaves ==
    /\ run'.todo = Order => \A n \in Node : n \in Left'
    /\ run.todo = <<>> => \A n : n \notin Left
    /\ run'.todo = <<>> => \A n : n \notin Left'
BY DEF Left, Node

\* The versions that an upgrade brings.
LEMMA NewIs ==
    ASSUME recorded \in Cluster
    PROVE  /\ NewTalos.talos = run.want.talos /\ NewTalos.image = run.want.image
           /\ NewTalos.kube = recorded.kube /\ NewTalos.rest = recorded.rest
           /\ NewKube.talos = recorded.talos /\ NewKube.image = recorded.image
           /\ NewKube.kube = run.want.kube /\ NewKube.rest = recorded.rest
           /\ \A n : Generated(NewTalos, n) = ForImage(n)
BY DEF Cluster, NewTalos, NewKube, Generated, ForImage

\* A node that has the config of c and stands with c, or has come up with something odd.
LEMMA ConfigFollows ==
    ASSUME NodesTypeOK, NEW n \in Node, NEW c, Generated(c, n) \in Configs,
           Runs(n, c),
           \/ node' = [node EXCEPT ![n] = Configured(n, Generated(c, n))]
           \/ node' = [node EXCEPT ![n] = [Configured(n, Generated(c, n)) EXCEPT !.cordon =
                                                IF @ = "kubit" THEN "none" ELSE @]]
    PROVE  /\ node'[n].conf = Generated(c, n)
           /\ node'[n].odd \/ node'[n].talos = c.talos[n]
           /\ n = First => node'[n].odd \/ node'[n].image = c.image
           /\ \A m \in Node \ {n} : node'[m] = node[m]
<1>1. node \in [Node -> Machine]
  BY DEF NodesTypeOK
<1>2. /\ \A m \in Node \ {n} : node'[m] = node[m]
      /\ node'[n].conf = Generated(c, n)
      /\ node[n].odd => node'[n].odd
      /\ \/ node'[n].talos = node[n].talos /\ node'[n].image = node[n].image
         \/ node'[n].odd
  BY <1>1, ConfigMoves
<1>. QED
  BY <1>2 DEF Runs

\* What a run's plan said stays so while what is recorded stays.
LEMMA PlanKept ==
    ASSUME PlanIsWhole, Running, UNCHANGED recorded, run'.phases = run.phases, run'.want = run.want,
           run'.step \in {"config", "talos"} => run.step \in {"config", "talos"}
    PROVE  PlanIsWhole'
<1>1. \A n \in Node : Behind(n)' <=> Behind(n)
  BY DEF Behind
<1>. QED
  BY <1>1 DEF PlanIsWhole, Running

\* A run that goes on is not done.
LEMMA NotDone ==
    ASSUME DoneLasts, Running, last' = last
    PROVE  DoneLasts'
BY DEF DoneLasts

\* A run that ended without being done promises nothing of the nodes.
LEMMA EndedInv ==
    ASSUME run'.step = "none", last'.result # "done"
    PROVE  NodesInv'
BY DEF NodesInv, PlanIsWhole, ConfigPhase, Settled, InstallPhase, TalosIsRecorded, KubeletPhase,
       KubeIsRecorded, ManifestsAreSynced, DoneLasts, Running

\* Nothing that the phases rest on changes but a kubelet that takes its version.
LEMMA OutsideInv ==
    ASSUME NodesInv, DoneLasts', UNCHANGED <<run, recorded, manifests>>,
           \A n \in Node :
               /\ node'[n].conf = node[n].conf /\ node'[n].odd = node[n].odd
               /\ node'[n].talos = node[n].talos /\ node'[n].image = node[n].image
               /\ node'[n].slot = node[n].slot
               /\ node[n].kube = node[n].conf.kube => node'[n].kube = node[n].kube,
           run.step \in {"drain", "reboot", "back"} => This \in Node
    PROVE  NodesInv'
<1>1. /\ NewTalos' = NewTalos /\ NewKube' = NewKube /\ This' = This /\ Left' = Left
      /\ \A n \in Node : Behind(n)' <=> Behind(n)
  BY DEF NewTalos, NewKube, This, Left, Behind
<1>2. \A n \in Node : /\ Follows(n, recorded)' <=> Follows(n, recorded)
                      /\ Follows(n, NewTalos)' <=> Follows(n, NewTalos)
                      /\ Follows(n, NewKube)' <=> Follows(n, NewKube)
                      /\ Runs(n, recorded)' <=> Runs(n, recorded)
  BY <1>1, OrderAssumption DEF Follows, Runs, Generated
<1>3. PlanIsWhole' /\ TalosIsRecorded' /\ ManifestsAreSynced'
  BY <1>1 DEF NodesInv, PlanIsWhole, TalosIsRecorded, ManifestsAreSynced, Running
<1>4. ConfigPhase' /\ Settled'
  BY <1>1, <1>2 DEF NodesInv, ConfigPhase, Settled
<1>5. InstallPhase'
  BY <1>1, <1>2 DEF NodesInv, InstallPhase, HasImage
<1>6. KubeletPhase' /\ KubeIsRecorded'
  BY <1>1, <1>2 DEF NodesInv, KubeletPhase, KubeIsRecorded
<1>. QED
  BY <1>3, <1>4, <1>5, <1>6 DEF NodesInv

\* A run begins with what it recorded of the nodes.
LEMMA StartInv ==
    ASSUME NodesTypeOK, NodesInv, Start
    PROVE  NodesInv'
<1>1. /\ run'.todo = Order /\ run'.want = Declared /\ run'.phases = Changes
      /\ run'.step = IF Drift # {} THEN "config" ELSE "talos"
      /\ recorded' = Applied /\ last'.result = "none" /\ UNCHANGED node
  BY StartMoves DEF Start, NoResult
<1>2. /\ Applied.talos = [n \in Node |-> node[n].talos] /\ Applied.image = node[First].image
      /\ Applied.rest = Declared.rest
  BY AppliedType
<1>3. PlanIsWhole'
  <2>1. \A n \in Node : Behind(n)' <=> \/ Declared.image # Applied.image
                                      \/ node[n].talos # Declared.talos[n]
    BY <1>1, <1>2 DEF Behind
  <2>2. "talos" \in Changes <=> \E n \in Node : Behind(n)'
    BY <2>1, ChangesAre, OrderAssumption
  <2>3. "kubernetes" \notin Changes => Declared.kube = Applied.kube
    BY ChangesAre
  <2>. QED
    BY <1>1, <1>2, <2>2, <2>3 DEF PlanIsWhole
<1>4. \A n \in Node : Runs(n, recorded)'
  BY <1>1, <1>2 DEF Runs
<1>5. ConfigPhase'
  BY <1>1, <1>4, OrderLeaves DEF ConfigPhase
<1>6. Settled'
  BY <1>1, <1>4 DEF Settled, Follows, Generated, Drift
<1>. QED
  BY <1>1, <1>3, <1>5, <1>6
  DEF NodesInv, InstallPhase, TalosIsRecorded, KubeletPhase, KubeIsRecorded, ManifestsAreSynced,
      DoneLasts

\* The node in turn gets the config that was generated for it.
LEMMA ApplyConfigsInv ==
    ASSUME NodesTypeOK, NodesInv, ApplyConfigs
    PROVE  NodesInv'
<1>1. /\ RunAt("config", Tail(run.todo)) /\ run.step = "config" /\ run.todo # <<>>
      /\ UNCHANGED <<recorded, last, manifests>> /\ Running
      /\ node' = [node EXCEPT ![This] = Configured(This, Generated(recorded, This))]
  BY PhasesMove DEF ApplyConfigs, At, Running
<1>2. This \in Node /\ Generated(recorded, This) \in Configs /\ run.todo \in Seq(Node)
  BY <1>1, ThisType, ForImageType DEF NodesTypeOK, Run
<1>3. Runs(This, recorded)
  BY <1>1, <1>2 DEF NodesInv, ConfigPhase
<1>4. /\ node'[This].conf = Generated(recorded, This)
      /\ node'[This].odd \/ node'[This].talos = recorded.talos[This]
      /\ This = First => node'[This].odd \/ node'[This].image = recorded.image
      /\ \A m \in Node \ {This} : node'[m] = node[m]
  BY <1>1, <1>2, <1>3, ConfigFollows
<1>6. ConfigPhase'
  <2>1. SUFFICES ASSUME NEW n \in Node
                 PROVE  Runs(n, recorded)' /\ (n \notin Left' => Follows(n, recorded)')
    BY DEF ConfigPhase
  <2>2. n \notin Left' => n \notin Left \/ n = This
    BY <1>1, <1>2, TailLeaves DEF RunAt
  <2>3. CASE n = This
    BY <1>1, <1>4, <2>3 DEF Runs, Follows, Generated
  <2>4. CASE n # This
    <3>1. Runs(n, recorded) /\ (n \notin Left => Follows(n, recorded))
      BY <1>1 DEF NodesInv, ConfigPhase
    <3>2. node'[n] = node[n]
      BY <1>4, <2>4
    <3>. QED
      BY <1>1, <1>2, <2>2, <2>4, <3>1, <3>2 DEF Runs, Follows, Generated
  <2>. QED
    BY <2>3, <2>4
<1>7. PlanIsWhole' /\ DoneLasts'
  BY <1>1, PlanKept, NotDone DEF NodesInv, RunAt
<1>. QED
  BY <1>1, <1>6, <1>7
  DEF NodesInv, RunAt, Settled, InstallPhase, TalosIsRecorded, KubeletPhase, KubeIsRecorded,
      ManifestsAreSynced

\* The manifests follow the config of a control plane, which is by then the recorded one.
LEMMA SyncInv ==
    ASSUME NodesTypeOK, NodesInv,
           \/ SyncManifests("config", "talos") \/ SyncManifests("talos synced", "kubernetes")
           \/ SyncManifests("kubernetes synced", "platform")
    PROVE  NodesInv'
<1>0. {"config", "talos", "talos synced", "kubernetes", "kubernetes synced", "platform"}
          \subseteq Steps
  BY DEF Steps, Phase
<1>1. PICK step \in {"config", "talos synced", "kubernetes synced"},
           next \in {"talos", "kubernetes", "platform"} :
          /\ SyncManifests(step, next)
          /\ <<step, next>> \in {<<"config", "talos">>, <<"talos synced", "kubernetes">>,
                                <<"kubernetes synced", "platform">>}
  OBVIOUS
<1>2. /\ RunAt(next, Order) /\ run.step = step /\ run.todo = <<>> /\ manifests' \in Rendered
      /\ UNCHANGED <<node, recorded, last>> /\ Running
  BY <1>0, <1>1, PhasesMove DEF SyncManifests, At, Running
<1>3. \A n \in Node : Follows(n, recorded)
  BY <1>1, <1>2, OrderLeaves DEF NodesInv, ConfigPhase, Settled
<1>4. manifests' = recorded.kube
  <2>1. PICK n \in ControlPlane : manifests' = node[n].conf.kube
    BY <1>2 DEF Rendered
  <2>2. node[n].conf = Generated(recorded, n)
    BY <1>3, OrderAssumption DEF Follows
  <2>3. Generated(recorded, n).kube = recorded.kube
    BY DEF Generated, Config
  <2>. QED
    BY <2>1, <2>2, <2>3
<1>5. PlanIsWhole' /\ DoneLasts'
  BY <1>1, <1>2, PlanKept, NotDone DEF NodesInv, RunAt
<1>6. Settled'
  BY <1>2, <1>3 DEF Settled, Follows, Runs, Generated
<1>7. TalosIsRecorded' /\ KubeIsRecorded'
  BY <1>1, <1>2 DEF NodesInv, TalosIsRecorded, KubeIsRecorded, RunAt
<1>8. ManifestsAreSynced'
  BY <1>2, <1>4 DEF ManifestsAreSynced
<1>. QED
  BY <1>1, <1>2, <1>5, <1>6, <1>7, <1>8
  DEF NodesInv, RunAt, ConfigPhase, InstallPhase, KubeletPhase

\* The nodes have their configs; those to be upgraded are as recorded.
LEMMA StartTalosInv ==
    ASSUME NodesTypeOK, NodesInv, StartTalos
    PROVE  NodesInv'
<1>1. /\ run.step = "talos" /\ UNCHANGED <<node, manifests, recorded>> /\ Running
      /\ \A n \in Node : Follows(n, recorded)
  BY DEF StartTalos, At, Running, NodesInv, Settled
<1>2. EndedAs("refused") => NodesInv'
  BY EndedInv DEF EndedAs
<1>3. CASE "talos" \notin run.phases \/ \A n \in Node : ~Behind(n)
  <2>1. RunAt("kubernetes", Order) /\ last' = last
    <3>1. Proceed("kubernetes") /\ last' = last
      BY <1>3 DEF StartTalos
    <3>. QED
      BY <3>1, RunMoves DEF NodesTypeOK, Steps, Phase
  <2>2. "talos" \notin run.phases /\ \A n \in Node : ~Behind(n)
    BY <1>1, <1>3 DEF NodesInv, PlanIsWhole
  <2>3. recorded.talos = run.want.talos /\ recorded.image = run.want.image
    <3>1. \A n \in Node : recorded.talos[n] = run.want.talos[n]
      BY <2>2 DEF Behind
    <3>2. recorded.talos \in [Node -> Versions] /\ run.want.talos \in [Node -> Versions]
      BY <1>1 DEF NodesTypeOK, Cluster, Declaration
    <3>. QED
      BY <2>2, <3>1, <3>2, OrderAssumption DEF Behind
  <2>4. PlanIsWhole' /\ DoneLasts'
    BY <1>1, <2>1, PlanKept, NotDone DEF NodesInv, RunAt
  <2>5. Settled'
    BY <1>1 DEF Settled, Follows, Runs, Generated
  <2>. QED
    BY <1>1, <2>1, <2>2, <2>3, <2>4, <2>5
    DEF NodesInv, RunAt, ConfigPhase, InstallPhase, TalosIsRecorded, KubeletPhase, KubeIsRecorded,
        ManifestsAreSynced
<1>4. CASE ~("talos" \notin run.phases \/ \A n \in Node : ~Behind(n))
  <2>1. CASE Ends("refused")
    BY <2>1, EndMoves, <1>2 DEF NodesTypeOK
  <2>2. CASE Proceed("install") /\ last' = last
    <3>1. RunAt("install", Order)
      BY <2>2, RunMoves DEF NodesTypeOK, Steps
    <3>2. PlanIsWhole' /\ DoneLasts'
      BY <1>1, <2>2, <3>1, PlanKept, NotDone DEF NodesInv, RunAt
    <3>3. \A n \in Node : n \in Left' /\ Follows(n, recorded)'
      BY <1>1, <3>1, OrderLeaves DEF RunAt, Follows, Runs, Generated
    <3>4. InstallPhase'
      BY <3>1, <3>3 DEF InstallPhase, RunAt
    <3>. QED
      BY <3>1, <3>2, <3>4
      DEF NodesInv, RunAt, ConfigPhase, Settled, TalosIsRecorded, KubeletPhase, KubeIsRecorded,
          ManifestsAreSynced
  <2>. QED
    BY <1>4, <2>1, <2>2 DEF StartTalos
<1>. QED
  BY <1>3, <1>4

\* A node that stays as it is follows what it followed.
LEMMA Still ==
    ASSUME UNCHANGED recorded, run'.want = run.want, NEW n,
           /\ node'[n].conf = node[n].conf /\ node'[n].odd = node[n].odd
           /\ node'[n].talos = node[n].talos /\ node'[n].image = node[n].image
    PROVE  /\ Follows(n, recorded)' <=> Follows(n, recorded)
           /\ Follows(n, NewTalos)' <=> Follows(n, NewTalos)
           /\ Follows(n, NewKube)' <=> Follows(n, NewKube)
<1>1. NewTalos' = NewTalos /\ NewKube' = NewKube
  BY DEF NewTalos, NewKube
<1>. QED
  BY <1>1 DEF Follows, Runs, Generated

\* Within the upgrade only the nodes' own state is at stake.
LEMMA InstallOnly ==
    ASSUME NodesInv, Running, UNCHANGED <<recorded, last>>,
           run'.step \in {"install", "drain", "reboot", "back"},
           run'.phases = run.phases, run'.want = run.want, InstallPhase'
    PROVE  NodesInv'
<1>1. PlanIsWhole' /\ DoneLasts'
  BY PlanKept, NotDone DEF NodesInv
<1>. QED
  BY <1>1
  DEF NodesInv, ConfigPhase, Settled, TalosIsRecorded, KubeletPhase, KubeIsRecorded,
      ManifestsAreSynced

\* A node is through once it follows the new versions.
LEMMA NodeIsThrough ==
    ASSUME NodesTypeOK, NodesInv, UNCHANGED <<recorded, last>>,
           run.step \in {"install", "back"}, run.todo # <<>>,
           RunAt("install", Tail(run.todo)), NEW t \in Node, t = This, Follows(t, NewTalos)',
           \A m \in Node \ {t} : node'[m] = node[m]
    PROVE  NodesInv'
<1>1. SUFFICES ASSUME NEW n \in Node
               PROVE  /\ n \notin Left' => Follows(n, NewTalos)'
                      /\ Follows(n, recorded)' \/ Follows(n, NewTalos)'
  BY InstallOnly DEF InstallPhase, RunAt, Running
<1>2. n \notin Left' => n \notin Left \/ n = t
  BY TailLeaves DEF RunAt, NodesTypeOK, Run
<1>3. CASE n = t
  BY <1>3
<1>4. CASE n # t
  <2>1. /\ n \notin Left => Follows(n, NewTalos)
        /\ Follows(n, recorded) \/ Follows(n, NewTalos)
    BY <1>4 DEF NodesInv, InstallPhase
  <2>2. /\ Follows(n, recorded)' <=> Follows(n, recorded)
        /\ Follows(n, NewTalos)' <=> Follows(n, NewTalos)
    BY <1>4, Still DEF RunAt
  <2>. QED
    BY <1>2, <1>4, <2>1, <2>2
<1>. QED
  BY <1>3, <1>4

\* A node that is not behind has what the upgrade brings.
LEMMA SkipNodeInv ==
    ASSUME NodesTypeOK, NodesInv, SkipNode
    PROVE  NodesInv'
<1>1. /\ run.step = "install" /\ run.todo # <<>> /\ RunAt("install", Tail(run.todo))
      /\ UNCHANGED <<recorded, last, node>> /\ ~Behind(This)
  BY PhasesMove DEF SkipNode, At
<1>2. PICK t \in Node : t = This
  BY <1>1, ThisType
<1>3. Follows(t, recorded) \/ Follows(t, NewTalos)
  BY <1>1 DEF NodesInv, InstallPhase
<1>4. recorded.talos[t] = run.want.talos[t] /\ recorded.image = run.want.image
  BY <1>1, <1>2 DEF Behind
<1>5. Follows(t, NewTalos)
  BY <1>3, <1>4, NewIs DEF NodesTypeOK, Follows, Runs, Generated
<1>6. Follows(t, NewTalos)'
  BY <1>1, <1>5, Still DEF RunAt
<1>. QED
  BY <1>1, <1>2, <1>6, NodeIsThrough

\* A node that has the image gets the config of it.
LEMMA ThisIsThrough ==
    ASSUME NodesTypeOK, NodesInv, AlreadyThere \/ Back
    PROVE  NodesInv'
<1>1. /\ run.step \in {"install", "back"} /\ run.todo # <<>> /\ RunAt("install", Tail(run.todo))
      /\ UNCHANGED <<recorded, last>> /\ HasImage(This) /\ Running
      /\ node' = [node EXCEPT ![This] = [Configured(This, ForImage(This)) EXCEPT !.cordon =
                                             IF @ = "kubit" THEN "none" ELSE @]]
  BY PhasesMove DEF AlreadyThere, Back, At, NodesTypeOK, NodesInv, InstallPhase, Running
<1>2. PICK t \in Node : t = This
  BY <1>1, ThisType
<1>3. /\ NewTalos.talos = run.want.talos /\ NewTalos.image = run.want.image
      /\ Generated(NewTalos, t) = ForImage(t) /\ ForImage(t) \in Configs
  BY <1>1, NewIs, ForImageType DEF NodesTypeOK
<1>4. Runs(t, NewTalos)
  BY <1>1, <1>2, <1>3 DEF Runs, HasImage
<1>5. /\ node'[t].conf = Generated(NewTalos, t)
      /\ node'[t].odd \/ node'[t].talos = NewTalos.talos[t]
      /\ t = First => node'[t].odd \/ node'[t].image = NewTalos.image
      /\ \A m \in Node \ {t} : node'[m] = node[m]
  BY <1>1, <1>2, <1>3, <1>4, ConfigFollows
<1>6. NewTalos' = NewTalos
  BY <1>1 DEF NewTalos, RunAt
<1>7. Follows(t, NewTalos)'
  BY <1>5, <1>6 DEF Follows, Runs, Generated
<1>. QED
  BY <1>1, <1>2, <1>5, <1>7, NodeIsThrough

\* The image is in the other boot slot, and nothing odd is there any more.
LEMMA InstallInv ==
    ASSUME NodesTypeOK, NodesInv, Install
    PROVE  NodesInv'
<1>1. /\ run.step = "install" /\ run.todo # <<>> /\ RunAt("drain", run.todo)
      /\ UNCHANGED <<recorded, last>> /\ Running
  BY PhasesMove DEF Install, At, Running
<1>2. PICK t \in Node : t = This /\ t \in Left
  BY <1>1, ThisType
<1>3. This' = t /\ Left' = Left
  BY <1>1, <1>2 DEF RunAt, This, Left
<1>4. /\ \A m \in Node \ {t} : node'[m] = node[m]
      /\ ~node'[t].odd
      /\ node'[t].slot = [talos |-> run.want.talos[t], image |-> run.want.image]
  BY <1>2 DEF Install, NodesTypeOK, Machine
<1>5. ASSUME NEW n \in Node, n # t
      PROVE  /\ n \notin Left' => Follows(n, NewTalos)'
             /\ Follows(n, recorded)' \/ Follows(n, NewTalos)'
  <2>1. /\ Follows(n, recorded)' <=> Follows(n, recorded)
        /\ Follows(n, NewTalos)' <=> Follows(n, NewTalos)
    BY <1>1, <1>4, <1>5, Still DEF RunAt
  <2>. QED
    BY <1>1, <1>3, <2>1 DEF NodesInv, InstallPhase
<1>6. InstallPhase'
  BY <1>1, <1>2, <1>3, <1>4, <1>5 DEF InstallPhase, RunAt
<1>. QED
  BY <1>1, <1>6, InstallOnly DEF RunAt

\* A drain changes the cordon only.
LEMMA DrainInv ==
    ASSUME NodesTypeOK, NodesInv, Drain
    PROVE  NodesInv'
<1>1. /\ run.step = "drain" /\ run.todo # <<>> /\ RunAt("reboot", run.todo)
      /\ UNCHANGED <<recorded, last>> /\ Running
  BY PhasesMove DEF Drain, At, Running, NodesTypeOK
<1>2. PICK t \in Node : t = This /\ t \in Left
  BY <1>1, ThisType
<1>3. This' = t /\ Left' = Left
  BY <1>1, <1>2 DEF RunAt, This, Left
<1>4. \A m \in Node : /\ node'[m].talos = node[m].talos /\ node'[m].image = node[m].image
                      /\ node'[m].conf = node[m].conf /\ node'[m].odd = node[m].odd
                      /\ node'[m].slot = node[m].slot
  <2>1. node \in [Node -> Machine] /\ node[t].cordon \in {"none", "kubit", "user"}
    BY DEF NodesTypeOK, Machine
  <2>. QED
    BY <1>2, <2>1, CordonMoves DEF Drain
<1>5. ASSUME NEW n \in Node
      PROVE  /\ n \notin Left' => Follows(n, NewTalos)'
             /\ n # t => Follows(n, recorded)' \/ Follows(n, NewTalos)'
  <2>1. /\ Follows(n, recorded)' <=> Follows(n, recorded)
        /\ Follows(n, NewTalos)' <=> Follows(n, NewTalos)
    BY <1>1, <1>4, Still DEF RunAt
  <2>. QED
    BY <1>1, <1>2, <1>3, <2>1 DEF NodesInv, InstallPhase
<1>6. InstallPhase'
  <2>1. ~node[t].odd /\ node[t].slot = [talos |-> run.want.talos[t], image |-> run.want.image]
    BY <1>1, <1>2 DEF NodesInv, InstallPhase
  <2>. QED
    BY <1>1, <1>3, <1>4, <1>5, <2>1 DEF InstallPhase, RunAt
<1>. QED
  BY <1>1, <1>6, InstallOnly DEF RunAt

\* The node comes up with what was installed.
LEMMA RebootInv ==
    ASSUME NodesTypeOK, NodesInv, Reboot
    PROVE  NodesInv'
<1>1. /\ run.step = "reboot" /\ run.todo # <<>> /\ RunAt("back", run.todo)
      /\ UNCHANGED <<recorded, last>> /\ Running
  BY PhasesMove DEF Reboot, At, Running, NodesTypeOK
<1>2. PICK t \in Node : t = This /\ t \in Left
  BY <1>1, ThisType
<1>3. This' = t /\ Left' = Left
  BY <1>1, <1>2 DEF RunAt, This, Left
<1>4. ~node[t].odd /\ node[t].slot = [talos |-> run.want.talos[t], image |-> run.want.image]
  BY <1>1, <1>2 DEF NodesInv, InstallPhase
<1>5. /\ \A m \in Node \ {t} : node'[m] = node[m]
      /\ node'[t].odd = node[t].odd /\ node'[t].slot = node[t].slot
      /\ node'[t].talos = run.want.talos[t] /\ node'[t].image = run.want.image
  <2>. DEFINE m == [node[t] EXCEPT !.talos = node[t].slot.talos, !.image = node[t].slot.image,
                                   !.kube = node[t].conf.kube]
  <2>1. node' = [node EXCEPT ![t] = m]
    BY <1>2 DEF Reboot, NodesTypeOK
  <2>2. /\ m.odd = node[t].odd /\ m.slot = node[t].slot
        /\ m.talos = node[t].slot.talos /\ m.image = node[t].slot.image
    BY DEF NodesTypeOK, Machine
  <2>. HIDE DEF m
  <2>. QED
    BY <1>4, <2>1, <2>2 DEF NodesTypeOK
<1>6. ASSUME NEW n \in Node, n # t
      PROVE  /\ n \notin Left' => Follows(n, NewTalos)'
             /\ Follows(n, recorded)' \/ Follows(n, NewTalos)'
  <2>1. /\ Follows(n, recorded)' <=> Follows(n, recorded)
        /\ Follows(n, NewTalos)' <=> Follows(n, NewTalos)
    BY <1>1, <1>5, <1>6, Still DEF RunAt
  <2>. QED
    BY <1>1, <1>2, <1>3, <1>6, <2>1 DEF NodesInv, InstallPhase
<1>7. InstallPhase'
  BY <1>1, <1>2, <1>3, <1>4, <1>5, <1>6 DEF InstallPhase, RunAt, HasImage
<1>. QED
  BY <1>1, <1>7, InstallOnly DEF RunAt

\* With every node through, the new versions are recorded.
LEMMA UpgradedInv ==
    ASSUME NodesTypeOK, NodesInv, Upgraded
    PROVE  NodesInv'
<1>1. /\ run.step = "install" /\ run.todo = <<>> /\ RunAt("talos synced", <<>>)
      /\ UNCHANGED <<node, manifests, last>> /\ Running /\ recorded' = NewTalos
  BY PhasesMove DEF Upgraded, At, Running, NewTalos
<1>2. \A n \in Node : Follows(n, NewTalos)
  BY <1>1, OrderLeaves DEF NodesInv, InstallPhase
<1>3. /\ recorded'.talos = run.want.talos /\ recorded'.image = run.want.image
      /\ recorded'.kube = recorded.kube /\ recorded'.rest = recorded.rest
  BY <1>1, NewIs DEF NodesTypeOK
<1>4. Settled'
  BY <1>1, <1>2 DEF Settled, Follows, Runs, Generated
<1>5. PlanIsWhole' /\ DoneLasts'
  BY <1>1, <1>3, NotDone DEF NodesInv, PlanIsWhole, RunAt
<1>. QED
  BY <1>1, <1>3, <1>4, <1>5
  DEF NodesInv, RunAt, ConfigPhase, InstallPhase, TalosIsRecorded, KubeletPhase, KubeIsRecorded,
      ManifestsAreSynced

\* The Kubernetes phase begins with kubelets that have taken the version of their config.
LEMMA StartKubernetesInv ==
    ASSUME NodesTypeOK, NodesInv, Prompt, StartKubernetes
    PROVE  NodesInv'
<1>1. /\ run.step = "kubernetes" /\ UNCHANGED <<node, manifests, recorded>> /\ Running
      /\ \A n \in Node : Follows(n, recorded) /\ node[n].kube = node[n].conf.kube
      /\ recorded.talos = run.want.talos /\ recorded.image = run.want.image
      /\ run \in Run /\ run.want \in Declaration /\ recorded \in Cluster
  BY DEF StartKubernetes, At, Running, NodesInv, Settled, TalosIsRecorded, Looks, NodesTypeOK
<1>2. \A n \in Node : Follows(n, recorded)' <=> Follows(n, recorded)
  BY <1>1 DEF Follows, Runs, Generated
<1>3. CASE Ends("refused")
  BY <1>1, <1>3, EndMoves, EndedInv DEF EndedAs
<1>4. CASE "kubernetes" \notin run.phases
  <2>1. RunAt("platform", Order) /\ last' = last
    BY <1>1, <1>4, RunMoves DEF StartKubernetes, Steps, Phase
  <2>2. recorded.kube = run.want.kube
    BY <1>1, <1>4 DEF NodesInv, PlanIsWhole
  <2>3. PlanIsWhole' /\ DoneLasts'
    BY <1>1, <2>1, PlanKept, NotDone DEF NodesInv, RunAt
  <2>4. Settled' /\ TalosIsRecorded' /\ KubeIsRecorded'
    BY <1>1, <1>2, <2>1, <2>2 DEF RunAt, Settled, TalosIsRecorded, KubeIsRecorded
  <2>5. ManifestsAreSynced'
    BY <1>1, <1>4, <2>1 DEF NodesInv, RunAt, ManifestsAreSynced
  <2>. QED
    BY <2>1, <2>3, <2>4, <2>5 DEF NodesInv, RunAt, ConfigPhase, InstallPhase, KubeletPhase
<1>5. ASSUME NEW todo \in {<<>>, Order}, RunAt("kubelets", todo), last' = last,
             todo = <<>> => \A n \in Node : node[n].kube = run.want.kube
      PROVE  NodesInv'
  <2>1. PlanIsWhole' /\ DoneLasts'
    BY <1>1, <1>5, PlanKept, NotDone DEF NodesInv, RunAt
  <2>2. TalosIsRecorded'
    BY <1>1, <1>5 DEF RunAt, TalosIsRecorded
  <2>3. KubeletPhase'
    <3>1. CASE todo = Order
      BY <1>1, <1>2, <1>5, <3>1, OrderLeaves DEF RunAt, KubeletPhase
    <3>2. CASE todo = <<>>
      <4>1. SUFFICES ASSUME NEW n \in Node
                     PROVE  /\ Follows(n, NewKube)'
                            /\ node'[n].kube = node'[n].conf.kube
        BY DEF KubeletPhase
      <4>2. node[n].conf.kube = run.want.kube /\ node[n].conf = Generated(recorded, n)
        BY <1>1, <1>5, <3>2 DEF Follows
      <4>3. Generated(recorded, n).kube = recorded.kube
        BY DEF Generated, Config
      <4>4. recorded.kube = run.want.kube
        BY <4>2, <4>3
      <4>5. Generated(NewKube, n) = Generated(recorded, n)
        BY <1>1, <4>4, NewIs DEF Generated
      <4>6. Follows(n, NewKube)
        BY <1>1, <4>5, NewIs DEF Follows, Runs
      <4>. QED
        BY <1>1, <1>5, <4>6, Still DEF RunAt
    <3>. QED
      BY <3>1, <3>2
  <2>. QED
    BY <1>5, <2>1, <2>2, <2>3
    DEF NodesInv, RunAt, ConfigPhase, Settled, InstallPhase, KubeIsRecorded, ManifestsAreSynced
<1>6. CASE /\ run' = [run EXCEPT !.step = "kubelets", !.todo = <<>>] /\ last' = last
           /\ \A n \in Node : node[n].kube = run.want.kube
  <2>1. RunAt("kubelets", <<>>)
    <3>1. <<>> \in Seq(Node) /\ "kubelets" \in Steps
      BY DEF Steps
    <3>. QED
      BY <1>1, <1>6, <3>1, RunMoves
  <2>. QED
    BY <1>5, <1>6, <2>1
<1>7. CASE Proceed("kubelets") /\ last' = last
  <2>1. RunAt("kubelets", Order)
    BY <1>1, <1>7, RunMoves DEF Steps
  <2>2. Order # <<>>
    BY OrderAssumption DEF Node
  <2>. QED
    BY <1>5, <1>7, <2>1, <2>2
<1>. QED
  BY <1>3, <1>4, <1>6, <1>7 DEF StartKubernetes

\* Within the Kubernetes phase only the nodes' own state is at stake.
LEMMA KubeletsOnly ==
    ASSUME NodesInv, UNCHANGED <<recorded, last>>, run.step = "kubelets", run'.step = "kubelets",
           run'.phases = run.phases, run'.want = run.want, KubeletPhase'
    PROVE  NodesInv'
<1>1. Running
  BY DEF Running
<1>2. PlanIsWhole' /\ DoneLasts'
  BY <1>1, PlanKept, NotDone DEF NodesInv
<1>. QED
  BY <1>2
  DEF NodesInv, ConfigPhase, Settled, InstallPhase, TalosIsRecorded, KubeIsRecorded,
      ManifestsAreSynced

\* A node gets the new version in its config, and is left when its kubelet has it.
LEMMA UpgradeKubeletInv ==
    ASSUME NodesTypeOK, NodesInv, UpgradeKubelet
    PROVE  NodesInv'
<1>1. /\ run.step = "kubelets" /\ run.todo # <<>> /\ UNCHANGED <<manifests, recorded, last>>
      /\ Running /\ recorded \in Cluster
  BY DEF UpgradeKubelet, At, Running, NodesTypeOK
<1>2. PICK t \in Node : t = This /\ t \in Left
  BY <1>1, ThisType
<1>3. /\ NewKube.talos = recorded.talos /\ NewKube.image = recorded.image
      /\ Generated(NewKube, t) \in Configs
  BY <1>1, NewIs, ForImageType DEF NewKube
<1>4. Runs(t, NewKube) /\ (Follows(t, recorded) \/ Follows(t, NewKube))
  BY <1>1, <1>3 DEF NodesInv, KubeletPhase, Follows, Runs
<1>5. CASE node[t].conf # Generated(NewKube, t)
  <2>1. node' = [node EXCEPT ![t] = Configured(t, Generated(NewKube, t))] /\ UNCHANGED run
    BY <1>2, <1>5 DEF UpgradeKubelet, NewKube
  <2>2. /\ node'[t].conf = Generated(NewKube, t)
        /\ node'[t].odd \/ node'[t].talos = NewKube.talos[t]
        /\ t = First => node'[t].odd \/ node'[t].image = NewKube.image
        /\ \A m \in Node \ {t} : node'[m] = node[m]
    BY <1>3, <1>4, <2>1, ConfigFollows
  <2>3. NewKube' = NewKube /\ Left' = Left
    BY <1>1, <2>1 DEF NewKube, Left
  <2>4. Follows(t, NewKube)'
    BY <2>2, <2>3 DEF Follows, Runs, Generated
  <2>5. KubeletPhase'
    <3>1. ASSUME NEW n \in Node, n # t
          PROVE  /\ Follows(n, recorded)' <=> Follows(n, recorded)
                 /\ Follows(n, NewKube)' <=> Follows(n, NewKube)
      BY <1>1, <2>1, <2>2, <3>1, Still
    <3>. QED
      BY <1>1, <1>2, <2>1, <2>2, <2>3, <2>4, <3>1 DEF NodesInv, KubeletPhase
  <2>. QED
    BY <1>1, <2>1, <2>5, KubeletsOnly
<1>6. CASE node[t].conf = Generated(NewKube, t)
  <2>1. node[t].kube = run.want.kube /\ NextNode /\ UNCHANGED node
    BY <1>2, <1>6 DEF UpgradeKubelet, NewKube
  <2>2. RunAt("kubelets", Tail(run.todo)) /\ run.todo \in Seq(Node)
    BY <1>1, <2>1, NextMoves DEF NodesTypeOK, Run
  <2>3. \A n \in Node : /\ Follows(n, recorded)' <=> Follows(n, recorded)
                        /\ Follows(n, NewKube)' <=> Follows(n, NewKube)
    BY <1>1, <2>1, <2>2, Still DEF RunAt
  <2>4. \A n \in Node : n \notin Left' => n \notin Left \/ n = t
    BY <1>1, <1>2, <2>2, TailLeaves DEF RunAt
  <2>5. Follows(t, NewKube) /\ node[t].kube = node[t].conf.kube
    <3>1. Generated(NewKube, t).kube = run.want.kube
      BY <1>1, NewIs DEF Generated, Config
    <3>. QED
      BY <1>4, <1>6, <2>1, <3>1 DEF Follows
  <2>6. KubeletPhase'
    BY <1>1, <2>1, <2>3, <2>4, <2>5 DEF NodesInv, KubeletPhase
  <2>. QED
    BY <1>1, <2>2, <2>6, KubeletsOnly DEF RunAt
<1>. QED
  BY <1>5, <1>6

\* With every kubelet there, the new version is recorded.
LEMMA KubernetesUpgradedInv ==
    ASSUME NodesTypeOK, NodesInv, KubernetesUpgraded
    PROVE  NodesInv'
<1>1. /\ run.step = "kubelets" /\ run.todo = <<>> /\ RunAt("kubernetes synced", run.todo)
      /\ UNCHANGED <<node, manifests, last>> /\ Running /\ recorded' = NewKube
  BY PhasesMove DEF KubernetesUpgraded, At, Running, NewKube
<1>2. \A n \in Node : Follows(n, NewKube) /\ node[n].kube = node[n].conf.kube
  BY <1>1, OrderLeaves DEF NodesInv, KubeletPhase
<1>3. /\ recorded'.talos = recorded.talos /\ recorded'.image = recorded.image
      /\ recorded'.kube = run.want.kube /\ recorded'.rest = recorded.rest
  BY <1>1, NewIs DEF NodesTypeOK
<1>4. Settled'
  BY <1>1, <1>2 DEF Settled, Follows, Runs, Generated
<1>5. PlanIsWhole' /\ DoneLasts'
  BY <1>1, <1>3, NotDone DEF NodesInv, PlanIsWhole, RunAt
<1>6. TalosIsRecorded' /\ KubeIsRecorded'
  BY <1>1, <1>2, <1>3 DEF NodesInv, TalosIsRecorded, KubeIsRecorded, RunAt
<1>. QED
  BY <1>1, <1>4, <1>5, <1>6
  DEF NodesInv, RunAt, ConfigPhase, InstallPhase, KubeletPhase, ManifestsAreSynced

\* The platform phase finds every node as wanted.
LEMMA StartPlatformInv ==
    ASSUME NodesTypeOK, NodesInv, StartPlatform
    PROVE  NodesInv'
<1>1. run.step = "platform" /\ UNCHANGED <<node, manifests, recorded>> /\ Running
  BY DEF StartPlatform, At, Running
<1>2. CASE EndedAs("refused")
  BY <1>2, EndedInv DEF EndedAs
<1>3. CASE RunAt("tofu", run.todo) /\ last' = last
  <2>1. PlanIsWhole' /\ DoneLasts'
    BY <1>1, <1>3, PlanKept, NotDone DEF NodesInv, RunAt
  <2>2. Settled'
    BY <1>1 DEF NodesInv, Settled, Follows, Runs, Generated
  <2>3. TalosIsRecorded' /\ KubeIsRecorded' /\ ManifestsAreSynced'
    BY <1>1, <1>3 DEF NodesInv, TalosIsRecorded, KubeIsRecorded, ManifestsAreSynced, RunAt
  <2>. QED
    BY <1>3, <2>1, <2>2, <2>3 DEF NodesInv, RunAt, ConfigPhase, InstallPhase, KubeletPhase
<1>. QED
  BY <1>2, <1>3, PhasesMove

\* The run that is done leaves what it wanted.
LEMMA EndPlatformInv ==
    ASSUME NodesTypeOK, Ready, NodesInv, EndPlatform
    PROVE  NodesInv'
<1>1. /\ run.step = "tofu" /\ UNCHANGED <<node, manifests, recorded>> /\ Running
      /\ tofu[run.by].step \in {"ok", "failed"} /\ Close(run.by)
      /\ Ends(IF tofu[run.by].step = "ok" THEN "done" ELSE "failed")
      /\ run.want \in Declaration /\ run.by \in Runner
  BY DEF EndPlatform, At, Running, NodesTypeOK, Ready
<1>2. CASE tofu[run.by].step = "failed"
  BY <1>1, <1>2, EndMoves, EndedInv DEF NodesTypeOK, EndedAs
<1>3. CASE tofu[run.by].step = "ok"
  <2>1. EndedAs("done")
    BY <1>1, <1>3, EndMoves DEF NodesTypeOK
  <2>2. /\ stateLock = Nobody /\ Known.addons = run.want.addons /\ repoState = NoState
        /\ Known' = Known /\ repoState' = repoState
    BY <1>1, <1>3
    DEF Ready, AddonsInv, GotWhatItWanted, FileGoesFirst, Close, Known
  <2>3. \A r \in Runner : tofu'[r].step \notin {"work", "save"}
    <3>1. \A r \in Runner : tofu[r].step \notin {"work", "save"}
      BY <2>2, RunnerAssumption DEF Ready, PlatformTypeOK, Nobody
    <3>. QED
      BY <1>1, <3>1 DEF Close, AtRest, Ready, PlatformTypeOK
  <2>4. /\ recorded.talos = run.want.talos /\ recorded.image = run.want.image
        /\ recorded.kube = run.want.kube /\ recorded.rest = run.want.rest
        /\ \A n \in Node : Follows(n, recorded) /\ node[n].kube = node[n].conf.kube
    BY <1>1 DEF NodesInv, PlanIsWhole, Settled, TalosIsRecorded, KubeIsRecorded
  <2>5. \A n \in Node : Follows(n, last.want)'
    BY <1>1, <2>1, <2>4 DEF EndedAs, Follows, Runs, Generated
  <2>6. run.phases \cap {"talos", "kubernetes"} # {} => manifests = run.want.kube
    BY <1>1, <2>4 DEF NodesInv, ManifestsAreSynced
  <2>7. DoneLasts'
    BY <1>1, <2>1, <2>2, <2>3, <2>4, <2>5, <2>6 DEF DoneLasts, EndedAs, Running
  <2>. QED
    BY <2>1, <2>7
    DEF NodesInv, EndedAs, PlanIsWhole, ConfigPhase, Settled, InstallPhase, TalosIsRecorded,
        KubeletPhase, KubeIsRecorded, ManifestsAreSynced, Running
<1>. QED
  BY <1>1, <1>2, <1>3

\* Users, kubelets and OpenTofu leave what the phases rest on.
LEMMA OutsideStepInv ==
    ASSUME NodesTypeOK, Ready, NodesInv
    PROVE  /\ UserEdits => NodesInv'
           /\ \A n \in Node : KubeletFollows(n) \/ UserCordons(n) => NodesInv'
           /\ \A r \in Runner : RunPlatform(r) \/ OrphanEnds(r) => NodesInv'
           /\ UNCHANGED vars => NodesInv'
<1>0. /\ run.step \in {"drain", "reboot", "back"} => This \in Node
      /\ node \in [Node -> Machine] /\ DoneLasts
  BY ThisType DEF NodesTypeOK, NodesInv
<1>1. UserEdits => NodesInv'
  <2>. HAVE UserEdits
  <2>1. DoneLasts'
    BY DEF UserEdits, NoResult, DoneLasts
  <2>. QED
    BY <1>0, <2>1, OutsideInv DEF UserEdits
<1>2. ASSUME NEW n \in Node, KubeletFollows(n)
      PROVE  NodesInv'
  <2>1. /\ node[n].kube # node[n].conf.kube
        /\ node' = [node EXCEPT ![n].kube = node[n].conf.kube]
        /\ UNCHANGED <<manifests, recorded, run, last>>
    BY <1>2 DEF KubeletFollows
  <2>2. \A m \in Node :
            /\ node'[m].conf = node[m].conf /\ node'[m].odd = node[m].odd
            /\ node'[m].talos = node[m].talos /\ node'[m].image = node[m].image
            /\ node'[m].slot = node[m].slot
            /\ node[m].kube = node[m].conf.kube => node'[m].kube = node[m].kube
    BY <1>0, <2>1 DEF Machine
  <2>3. last.result # "done"
    BY <1>0, <2>1 DEF DoneLasts
  <2>4. DoneLasts'
    BY <2>1, <2>3 DEF DoneLasts
  <2>. QED
    BY <1>0, <2>1, <2>2, <2>4, OutsideInv
<1>3. ASSUME NEW n \in Node, UserCordons(n)
      PROVE  NodesInv'
  <2>1. /\ UNCHANGED <<manifests, recorded, run, last, platformVars>>
        /\ \A m \in Node :
               /\ node'[m].conf = node[m].conf /\ node'[m].odd = node[m].odd
               /\ node'[m].talos = node[m].talos /\ node'[m].image = node[m].image
               /\ node'[m].slot = node[m].slot /\ node'[m].kube = node[m].kube
    BY <1>0, <1>3, CordonMoves DEF UserCordons
  <2>2. UNCHANGED <<tofu, repoState, secret>> /\ Known' = Known
    BY <2>1 DEF platformVars, Known
  <2>3. DoneLasts'
    BY <1>0, <2>1, <2>2 DEF DoneLasts, Follows, Runs, Generated, Running
  <2>. QED
    BY <1>0, <2>1, <2>3, OutsideInv
<1>4. ASSUME NEW r \in Runner, RunPlatform(r)
      PROVE  NodesInv'
  <2>1. UNCHANGED <<node, manifests, recorded, run, last>> /\ PlatformStep(r)
    BY <1>4 DEF RunPlatform
  <2>2. tofu[r].step \in {"copy", "remove", "plan", "apply", "work", "save"}
    BY <2>1
    DEF PlatformStep, Migrate, RemoveRepoState, LockTimesOut, PlanPlatform, ApplyPlan, ChangeAddon,
        SaveState, EndApply
  <2>3. last.result # "done"
    BY <1>0, <2>2 DEF DoneLasts, Ready, AddonsInv, WhoRuns, AtRest, Running
  <2>4. DoneLasts'
    BY <2>1, <2>3 DEF DoneLasts
  <2>. QED
    BY <1>0, <2>1, <2>4, OutsideInv
<1>5. ASSUME NEW r \in Runner, OrphanEnds(r)
      PROVE  NodesInv'
  <2>1. /\ UNCHANGED <<node, manifests, recorded, run, last, repoState, secret>> /\ Known' = Known
        /\ tofu' = [tofu EXCEPT ![r] = AtRest]
    BY <1>5 DEF OrphanEnds, Close, Known
  <2>2. \A q \in Runner : tofu'[q] = tofu[q] \/ tofu'[q].step = "idle"
    BY <2>1 DEF AtRest, Ready, PlatformTypeOK
  <2>3. DoneLasts'
    BY <1>0, <2>1, <2>2 DEF DoneLasts, Follows, Runs, Generated, Running
  <2>. QED
    BY <1>0, <2>1, <2>3, OutsideInv
<1>6. UNCHANGED vars => NodesInv'
  <2>. HAVE UNCHANGED vars
  <2>1. /\ UNCHANGED <<node, manifests, recorded, run, last, repoState, secret, tofu>>
        /\ Known' = Known
    BY DEF vars, platformVars, Known
  <2>2. DoneLasts'
    BY <1>0, <2>1 DEF DoneLasts, Follows, Runs, Generated, Running
  <2>. QED
    BY <1>0, <2>1, <2>2, OutsideInv
<1>. QED
  BY <1>1, <1>2, <1>3, <1>4, <1>5, <1>6

\* Nothing has run at first.
LEMMA InitNodesInv == Init => NodesInv
BY DEF Init, NoRun, NoResult, NodesInv, PlanIsWhole, ConfigPhase, Settled, InstallPhase,
       TalosIsRecorded, KubeletPhase, KubeIsRecorded, ManifestsAreSynced, DoneLasts, Running

\* Every step keeps what is said of the nodes.
LEMMA NodesInvStep == Prompt /\ IInv /\ NodesInv /\ [Next]_vars => NodesInv'
<1>. SUFFICES ASSUME Prompt, IInv, NodesInv, [Next]_vars PROVE NodesInv'
  OBVIOUS
<1>0. NodesTypeOK /\ Ready
  BY TypeParts, TwoAssumption DEF IInv, Ready, NodesTypeOK, Run
<1>1. CASE Phases
  BY <1>0, <1>1, StartInv, ApplyConfigsInv, SyncInv, StartTalosInv, SkipNodeInv, ThisIsThrough,
     InstallInv, DrainInv, RebootInv, UpgradedInv, StartKubernetesInv, UpgradeKubeletInv,
     KubernetesUpgradedInv, StartPlatformInv, EndPlatformInv
  DEF Phases
<1>2. CASE Stops
  BY <1>0, <1>2, StopsDoes, EndedInv DEF EndedAs
<1>3. CASE UserEdits \/ UNCHANGED vars
  BY <1>0, <1>3, OutsideStepInv
<1>4. CASE \/ \E r \in Runner : RunPlatform(r) \/ OrphanEnds(r)
           \/ \E n \in Node : KubeletFollows(n) \/ UserCordons(n)
  BY <1>0, <1>4, OutsideStepInv
<1>. QED
  BY <1>1, <1>2, <1>3, <1>4 DEF Next

\* Where kubelets take their version before the next phase looks at them, every phase
\* leaves every node with what the run recorded or with what it was asked for.
THEOREM NodesInvariance ==
    ASSUME Prompt
    PROVE  Spec => []NodesInv
<1>1. IInv /\ NodesInv /\ [Next]_vars => NodesInv'
  BY NodesInvStep
<1>. QED
  BY <1>1, Invariance, InitNodesInv, PTL DEF Spec

\* What lasts after a run that was done is what the two properties say.
LEMMA WantedIsFound == TypeOK /\ NodesInv /\ IInv => DoneIsDeclared /\ SecondApplyFindsNothing
<1>. SUFFICES ASSUME TypeOK, NodesInv, IInv, last.result = "done", last.want = Declared
              PROVE  /\ \A n \in Node :
                            /\ node[n].conf.kube = Declared.kube
                            /\ node[n].conf.rest = Declared.rest
                            /\ node[n].talos = Declared.talos[n] \/ node[n].odd
                     /\ installed = Declared.addons
                     /\ last.phases \cap {"talos", "kubernetes"} # {} => manifests = Declared.kube
                     /\ (\A n \in Node : ~node[n].odd) => Changes = {}
  BY DEF DoneIsDeclared, SecondApplyFindsNothing
<1>1. /\ \A n \in Node : Follows(n, Declared) /\ node[n].kube = node[n].conf.kube
      /\ last.phases \cap {"talos", "kubernetes"} # {} => manifests = Declared.kube
      /\ \A r \in Runner : tofu[r].step \notin {"work", "save"}
      /\ Known.addons = Declared.addons /\ repoState = NoState
  BY DEF NodesInv, DoneLasts
<1>2. installed = Declared.addons
  BY <1>1 DEF IInv, AddonsInv, StateIsTrue
<1>3. \A n \in Node : /\ node[n].conf.kube = Declared.kube /\ node[n].conf.rest = Declared.rest
                      /\ node[n].conf = Generated(Declared, n)
                      /\ node[n].kube = Declared.kube
                      /\ node[n].talos = Declared.talos[n] \/ node[n].odd
  <2>. TAKE n \in Node
  <2>1. Generated(Declared, n).kube = Declared.kube /\ Generated(Declared, n).rest = Declared.rest
    BY DEF Generated, Config
  <2>. QED
    BY <1>1, <2>1 DEF Follows, Runs
<1>4. ASSUME \A n \in Node : ~node[n].odd
      PROVE  Changes = {}
  <2>1. /\ \A n \in Node : node[n].talos = Declared.talos[n]
        /\ node[First].image = Declared.image
    BY <1>1, <1>4, OrderAssumption DEF Follows, Runs
  <2>2. /\ Applied.talos = [n \in Node |-> node[n].talos] /\ Applied.image = node[First].image
        /\ Applied.kube = Declared.kube /\ Applied.rest = Declared.rest
    BY <1>3, TypeParts, AppliedType, LowestKubelet
  <2>3. \A n \in Node : Generated(Applied, n) = Generated(Declared, n)
    BY <2>1, <2>2 DEF Generated
  <2>4. Drift = {}
    BY <1>3, <2>3 DEF Drift
  <2>5. PlatformChanges(Declared.addons) = {}
    BY <1>1 DEF PlatformChanges, Difference
  <2>. QED
    BY <1>1, <2>1, <2>2, <2>4, <2>5 DEF Changes
<1>. QED
  BY <1>1, <1>2, <1>3, <1>4

\* An apply that was done leaves the nodes, the add-ons and, after an upgrade, the manifests
\* with what was declared, whatever runs before it failed or died, and where.
THEOREM Converges ==
    ASSUME Prompt
    PROVE  Spec => []DoneIsDeclared
BY NodesInvariance, Invariance, TypeCorrect, WantedIsFound, PTL

\* Right after an apply that was done, a plan has no changes.
THEOREM Idempotent ==
    ASSUME Prompt
    PROVE  Spec => []SecondApplyFindsNothing
BY NodesInvariance, Invariance, TypeCorrect, WantedIsFound, PTL
=============================================================================
