------------------------------ MODULE RepoEdits ------------------------------
(***************************************************************************)
(* The files of a served repository and the requests that write them:      *)
(* cluster.yaml (repo/edit.go, repo/spec.go), the Talos bundle and the     *)
(* SOPS files (repo/secrets.go, repo/flux.go), the kustomization.yaml of   *)
(* every folder (repo/kustomize.go), the rules of .sops.yaml that say whom *)
(* a file is encrypted to (sops/recipients.go, sops/config.go), the        *)
(* connection of an apps repository (repo/apps.go) and kubit init          *)
(* (repo/repo.go).                                                         *)
(*                                                                         *)
(* The handlers of internal/api run at the same time.  A file is written   *)
(* under a lock of its path (fsx.Lock), atomically, and most writes carry  *)
(* the hash of the version their user saw; one request writes several      *)
(* files, one after another, and the daemon may die in between.  The       *)
(* console learns of a write from the watcher (repo/watch.go).             *)
(***************************************************************************)
EXTENDS Naturals, FiniteSets, SequencesExt

CONSTANTS
    Path,          \* SOPS files
    Folder,        \* the folders they are in
    In,            \* the folder of a file, and the parent of a folder; the folder that
                   \*   Flux applies for a cluster is its own
    Cluster,
    Owner,         \* the cluster whose Flux applies a folder, or "none"
    Worker,        \* the handlers of the daemon, numbered; an idle one takes a request
    Scenarios,     \* [asks: requests, files: the files there at first,
                   \*  unlisted: those of them that no kustomization lists,
                   \*  full: folders whose kustomization lists other files too,
                   \*  rules: "none", "shared", "split" or "connected"]
    MaxAsks,       \* bound on the requests
    MaxTrouble     \* bound on the deaths of the daemon and the saves of an editor

ASSUME FolderAssumption ==
    /\ \A x \in Path \cup Folder : In[x] \in Folder
    /\ \A f \in Folder : Owner[f] \in Cluster \cup {"none"}
    /\ (Path \cup Folder) \cap {"bundle", "spec", "other"} = {} /\ Path \cap Folder = {}
    \* The way from a file to the folder that Flux applies is two folders long.
    /\ \A p \in Path : In[In[In[p]]] = In[In[p]]
ASSUME ClusterAssumption ==
    IsFiniteSet(Cluster) /\ Cluster \cap {"bundle", "all", "operator", "none"} = {}
ASSUME BoundAssumption == Worker \subseteq Nat \ {0} /\ {MaxAsks, MaxTrouble} \subseteq Nat

File == Path \cup {"bundle", "spec"}
Key == Cluster \cup {"operator"}

\* What a request is about: only a SOPS file is made, moved or deleted.
Files(op) == IF op \in {"new", "delete", "move"} THEN Path ELSE File
Requests ==
    {r \in [op : {"edit", "ip", "delete", "new", "move", "flux", "connect", "init"},
            src : File, dst : File, who : Cluster] :
        {r.src, r.dst} \subseteq Files(r.op)}

ASSUME ScenarioAssumption ==
    \A s \in Scenarios :
        /\ s.asks \subseteq Requests
        /\ s.files \subseteq File /\ IsFiniteSet(s.files) /\ s.unlisted \subseteq Path
        /\ s.rules \in {"none", "shared", "split", "connected"}
        \* A repository that kubit init makes is one cluster's.
        /\ \A i, r \in s.asks : i.op = "init" /\ r.op \in {"new", "move"} =>
              \A p \in {r.src, r.dst} : Owner[In[p]] = i.who

VARIABLES
    doc,     \* the contents of every file
    kust,    \* the resources of every folder's kustomization.yaml
    rules,   \* the creation rules of .sops.yaml
    lock,    \* who holds the lock of a path
    job,     \* what every handler is at
    shown,   \* the versions the console shows
    kept,    \* the secrets that were written and that nobody deleted
    excused, \* files and folders left half done by a death or by a refusal
    rev,     \* the last version written
    asks, trouble, scenario

data == <<doc, kust, rules>>
vars == <<doc, kust, rules, lock, job, shown, kept, excused, rev, asks, trouble, scenario>>

\* Every encryption has a data key of its own: no two writes have the same hash.
NoFile == [name |-> 0, rev |-> 0, keys |-> {}]
Version(name, n, keys) == [name |-> name, rev |-> n, keys |-> keys]

\* A kustomization that is not there.
NoList == {"no file"}

Free == 0
Idle == [op |-> "none", src |-> "spec", dst |-> "spec", who |-> "none", step |-> "idle",
         seen |-> NoFile, got |-> NoFile, child |-> "spec", todo |-> {},
         read |-> NoList]

At(w, ops, step) == job[w].op \in ops /\ job[w].step = step
Becomes(w, next) == job' = [job EXCEPT ![w] = next]
Goes(w, step) == Becomes(w, [job[w] EXCEPT !.step = step])

Takes(w, p) == lock' = [lock EXCEPT ![p] = w]
\* Variant: a lock is kept when the handler answers.
AnswersHolding(w) == Becomes(w, Idle) /\ UNCHANGED lock

\* The handler answers: its deferred unlocks run.
Answers(w) ==
    /\ Becomes(w, Idle)
    /\ lock' = [p \in DOMAIN lock |-> IF lock[p] = w THEN Free ELSE lock[p]]

Quietly == UNCHANGED <<shown, asks, trouble, scenario>>
NoWrite == UNCHANGED <<doc, kust, rules, kept, rev, excused>>
Writes(f, v) == doc' = [doc EXCEPT ![f] = v]
Lists(f, l) == kust' = [kust EXCEPT ![f] = l]

-----------------------------------------------------------------------------
(* The rules of .sops.yaml.  The first rule that matches a file counts.    *)

Class(f) == IF f = "bundle" THEN "bundle" ELSE Owner[In[f]]
Rule(for, keys) == [for |-> for, keys |-> keys]
RuleMatches(r, class) == r.for \in {"all", class}
FirstRule(rs, class) ==
    LET hits == {i \in DOMAIN rs : RuleMatches(rs[i], class)}
    IN  IF hits = {} THEN 0 ELSE CHOOSE i \in hits : \A j \in hits : i <= j
RuleFor(class) == LET i == FirstRule(rules, class) IN IF i = 0 THEN {} ELSE rules[i].keys

\* Variant: the rule of the bundle is not split off a shared one.
AddRecipientShared(rs, c) ==
    LET i == FirstRule(rs, c)
    IN  IF i = 0 THEN rs ELSE [rs EXCEPT ![i].keys = @ \cup {c}]

\* A shared rule is split first, so that the bundle keeps its recipients.
AddRecipient(rs, c) ==
    LET guard == FirstRule(rs, "bundle")
        split == IF RuleMatches(rs[guard], c) THEN InsertAt(rs, guard, Rule("bundle", rs[guard].keys)) ELSE rs
        i == FirstRule(split, c)
    IN  IF i \in {0, guard} THEN split ELSE [split EXCEPT ![i].keys = @ \cup {c}]

\* A cluster's own rule goes before the one for everything.
AddClusterRule(rs, c) ==
    LET all == {i \in DOMAIN rs : rs[i].for = "all"}
        at == IF all = {} THEN Len(rs) + 1 ELSE CHOOSE i \in all : \A j \in all : i <= j
    IN  IF \E i \in DOMAIN rs : rs[i].for = c THEN rs ELSE InsertAt(rs, at, Rule(c, {"operator"}))

AppsConfig == <<Rule("bundle", {"operator"}), Rule("all", {"operator"})>>
StartRules(kind) ==
    CASE kind = "none" -> <<>>
      [] kind = "shared" -> <<Rule("all", {"operator"})>>
      [] kind = "split" -> AppsConfig
      [] kind = "connected" -> 
            <<AppsConfig[1]>> \o SetToSeq({Rule(c, {"operator", c}) : c \in Cluster}) \o <<AppsConfig[2]>>

-----------------------------------------------------------------------------
(* What Flux applies. *)

\* The folders on the way from a folder, and from a file, to the top.
Over(f) == {f, In[f]}
Above(p) == Over(In[p])
Towards(f, p) == CHOOSE x \in {p} \cup Above(p) : In[x] = f /\ x # f

\* Every kustomization on the way lists the next step, and once there is one,
\* every folder below has its own; Flux takes every file where there is none.
Applied(p) ==
    \A f \in Above(p) : kust[f] # NoList =>
        /\ Towards(f, p) \in kust[f]
        /\ \A g \in Above(p) : f \in Over(g) => kust[g] # NoList

\* The folders that need a kustomization before p can be listed, up to the
\* nearest that has one.
Missing(p) == {f \in Above(p) : \A g \in Above(p) : f \in Over(g) => kust[g] = NoList}

\* Nothing is left in a folder but a kustomization that lists nothing.
EmptyKustomization(f) ==
    /\ kust[f] = {}
    /\ \A p \in Path : In[p] = f => doc[p] = NoFile
    /\ \A g \in Folder \ {f} : In[g] = f => kust[g] = NoList /\ \A p \in Path : In[p] = g => doc[p] = NoFile

-----------------------------------------------------------------------------
(* Requests. *)

\* The request carries the hash of the version its user sees.
Ask(w, r) ==
    /\ job[w] = Idle /\ \A v \in Worker : v < w => job[v] # Idle
    /\ asks < MaxAsks /\ asks' = asks + 1
    /\ r.op \in {"edit", "delete", "move"} => shown[r.src] # NoFile
    /\ r.op = "flux" => \E i \in DOMAIN rules : rules[i].for = r.who
    /\ Becomes(w, [Idle EXCEPT !.op = r.op, !.src = r.src, !.dst = r.dst, !.who = r.who,
                               !.seen = shown[r.src], !.step = "start"])
    /\ UNCHANGED <<lock, shown, trouble, scenario>> /\ NoWrite

\* Variant: the lock is left before the file is written.
ReadUnlocked(w) ==
    LET p == job[w].src
        stale == job[w].op # "ip" /\ job[w].seen # doc[p]
    IN
    /\ At(w, {"edit", "delete", "move", "ip"}, "start")
    /\ lock[p] = Free
    /\ IF doc[p] = NoFile \/ stale THEN Answers(w)
       ELSE /\ Becomes(w, [job[w] EXCEPT !.step = "held", !.seen = doc[p], !.got = doc[p]])
            /\ UNCHANGED lock
    /\ Quietly /\ NoWrite

\* The lock, the file and its hash; SetNodeIP, which an apply calls, has no hash.
Read(w) ==
    LET p == job[w].src
        stale == job[w].op # "ip" /\ job[w].seen # doc[p]
    IN
    /\ At(w, {"edit", "delete", "move", "ip"}, "start")
    /\ lock[p] = Free
    /\ IF doc[p] = NoFile \/ stale THEN Answers(w)
       ELSE Takes(w, p) /\ Becomes(w, [job[w] EXCEPT !.step = "held", !.seen = doc[p], !.got = doc[p]])
    /\ Quietly /\ NoWrite

\* The file that was read, edited; one that is not valid then is not written.
Saves(w) ==
    LET v == job[w].got IN
    /\ \/ Writes(job[w].src, Version(v.name, rev + 1, v.keys)) /\ rev' = rev + 1
       \/ UNCHANGED <<doc, rev>>
    /\ Answers(w)
    /\ Quietly /\ UNCHANGED <<kust, rules, kept, excused>>

SaveSpec(w) == At(w, {"edit", "ip"}, "held") /\ job[w].src = "spec" /\ Saves(w)

\* A SOPS file keeps the recipients and the rule it was encrypted with.
SaveSecret(w) == At(w, {"edit"}, "held") /\ job[w].src # "spec" /\ Saves(w)

Delete(w) ==
    /\ At(w, {"delete"}, "held")
    /\ Writes(job[w].src, NoFile)
    /\ kept' = kept \ {job[w].got.name}
    /\ Becomes(w, [job[w] EXCEPT !.step = "unlist", !.child = job[w].src])
    /\ Quietly /\ UNCHANGED <<kust, rules, lock, rev, excused>>

-----------------------------------------------------------------------------
(* NewSecret and MoveSecret. *)

Target(w) == IF job[w].op = "new" THEN job[w].src ELSE job[w].dst

Stat(w) ==
    /\ At(w, {"new"}, "start")
    /\ IF doc[job[w].src] # NoFile THEN Answers(w) ELSE Goes(w, "held") /\ UNCHANGED lock
    /\ Quietly /\ NoWrite

\* The rule of the target says whom the file is encrypted to; a file that is
\* moved between paths of the same recipients stays as it is.
Encrypt(w) ==
    LET keys == RuleFor(Class(Target(w)))
        v == job[w].got
    IN
    /\ At(w, {"new", "move"}, "held")
    /\ IF keys = {} THEN Answers(w) /\ UNCHANGED rev
       ELSE /\ rev' = rev + 1
            /\ Becomes(w, [job[w] EXCEPT !.step = "create",
                    !.got = IF job[w].op = "new" THEN Version(rev + 1, rev + 1, keys)
                            ELSE IF v.keys = keys THEN v
                            ELSE Version(v.name, rev + 1, keys)])
            /\ UNCHANGED lock
    /\ Quietly /\ UNCHANGED <<doc, kust, rules, kept, excused>>

\* Variant: a file that is there is written over.
CreateOver(w) ==
    LET p == Target(w) IN
    /\ At(w, {"new", "move"}, "create")
    /\ lock[p] = Free
    /\ Writes(p, job[w].got) /\ Goes(w, "created")
    /\ kept' = kept \cup {job[w].got.name}
    /\ UNCHANGED lock
    /\ Quietly /\ UNCHANGED <<kust, rules, excused, rev>>

\* A file that is there is never written over.
Create(w) ==
    LET p == Target(w) IN
    /\ At(w, {"new", "move"}, "create")
    /\ lock[p] = Free
    /\ IF doc[p] # NoFile THEN Answers(w) /\ UNCHANGED <<doc, kept>>
       ELSE /\ Writes(p, job[w].got) /\ Goes(w, "created")
            /\ kept' = kept \cup {job[w].got.name}
            /\ UNCHANGED lock
    /\ Quietly /\ UNCHANGED <<kust, rules, excused, rev>>

Drop(w) ==
    /\ At(w, {"move"}, "created")
    /\ Writes(job[w].src, NoFile)
    /\ Becomes(w, [job[w] EXCEPT !.step = "unlist", !.child = job[w].src])
    /\ Quietly /\ UNCHANGED <<kust, rules, lock, kept, excused, rev>>

-----------------------------------------------------------------------------
(* ListPath, UnlistPath, ListResource and UnlistResource. *)

\* A new file needs a kustomization in every folder on its way.
Plan(w) ==
    LET todo == Missing(job[w].src) IN
    /\ At(w, {"new"}, "created")
    /\ IF \E f \in todo : In[f] = f THEN Answers(w)
       ELSE /\ Becomes(w, [job[w] EXCEPT !.step = "list", !.child = job[w].src, !.todo = todo])
            /\ UNCHANGED lock
    /\ Quietly /\ NoWrite

\* Another request may have made the kustomization since: the answer is an
\* error, and the file stays without an entry.
MakeList(w) ==
    LET f == In[job[w].child] IN
    /\ At(w, {"new"}, "list") /\ job[w].todo # {}
    /\ lock[f] = Free
    /\ IF kust[f] # NoList
       THEN Answers(w) /\ excused' = excused \cup {job[w].src} /\ UNCHANGED kust
       ELSE /\ Lists(f, {job[w].child})
            /\ Becomes(w, [job[w] EXCEPT !.child = f, !.todo = @ \ {f}])
            /\ UNCHANGED <<lock, excused>>
    /\ Quietly /\ UNCHANGED <<doc, rules, kept, rev>>

\* Once its entry is written, or needs no writing, a move goes from the one
\* kustomization to the other, and a delete sees whether its own is empty now.
AfterList(w, changed) ==
    LET j == job[w]
        next == CASE j.op = "delete" /\ changed -> [j EXCEPT !.step = "prune", !.read = NoList]
                  [] j.op = "move" /\ j.step = "unlist" ->
                        [j EXCEPT !.step = "list", !.child = j.dst, !.read = NoList]
                  [] OTHER -> Idle
    IN  /\ Becomes(w, next)
        /\ lock' = [p \in DOMAIN lock |->
               IF lock[p] = w /\ (next = Idle \/ p = In[j.child]) THEN Free ELSE lock[p]]

Listing(w) == job[w].step \in {"unlist", "list"} /\ job[w].todo = {}

\* The files of a request, and a folder whose kustomization is made or removed
\* and whose own entry does not say so yet.
Unfinished(w) ==
    IF job[w] = Idle THEN {}
    ELSE {job[w].src, job[w].dst} \cup (IF job[w].child \in Folder THEN {In[job[w].src]} ELSE {})

\* No kustomization: nothing to list in.
SkipList(w) ==
    /\ Listing(w) /\ job[w].read = NoList
    /\ kust[In[job[w].child]] = NoList
    /\ AfterList(w, FALSE)
    /\ Quietly /\ NoWrite

\* Variant: the list is read without its lock.
ReadListUnlocked(w) ==
    LET f == In[job[w].child] IN
    /\ Listing(w) /\ job[w].read = NoList
    /\ kust[f] # NoList
    /\ Becomes(w, [job[w] EXCEPT !.read = kust[f]])
    /\ UNCHANGED lock
    /\ Quietly /\ NoWrite

\* The kustomization is found, and gone when it is to be read, for another
\* request is about to remove it: the answer is an error, half way.
LoseList(w) ==
    LET f == In[job[w].child] IN
    /\ Listing(w) /\ job[w].read = NoList
    /\ \E v \in Worker \ {w} : At(v, {"delete"}, "remove") /\ In[job[v].child] = f
    /\ kust[f] # NoList
    /\ Answers(w)
    /\ excused' = excused \cup Unfinished(w)
    /\ Quietly /\ UNCHANGED <<doc, kust, rules, kept, rev>>

\* editResources: the lock and the read, then the write.
ReadList(w) ==
    LET f == In[job[w].child] IN
    /\ Listing(w) /\ job[w].read = NoList
    /\ kust[f] # NoList
    /\ lock[f] = Free
    /\ Becomes(w, [job[w] EXCEPT !.read = kust[f]])
    /\ Takes(w, f)
    /\ Quietly /\ NoWrite

WriteList(w) ==
    LET old == job[w].read
        child == job[w].child
        new == IF job[w].step = "list" THEN old \cup {child} ELSE old \ {child}
    IN
    /\ Listing(w) /\ old # NoList
    /\ IF new = old THEN UNCHANGED kust ELSE Lists(In[child], new)
    /\ AfterList(w, new # old)
    /\ Quietly /\ UNCHANGED <<doc, rules, kept, excused, rev>>

\* A kustomization that lists nothing and is alone in its folder is removed:
\* it is looked at, and then removed, without its lock.
Prune(w) ==
    /\ At(w, {"delete"}, "prune")
    /\ IF EmptyKustomization(In[job[w].child]) THEN Goes(w, "remove") /\ UNCHANGED lock ELSE Answers(w)
    /\ Quietly /\ NoWrite

RemoveList(w) ==
    LET f == In[job[w].child] IN
    /\ At(w, {"delete"}, "remove")
    /\ IF kust[f] = NoList THEN UNCHANGED kust ELSE Lists(f, NoList)
    /\ IF kust[f] = NoList \/ In[f] = f THEN Answers(w)
       ELSE Becomes(w, [job[w] EXCEPT !.step = "unlist", !.child = f]) /\ UNCHANGED lock
    /\ Quietly /\ UNCHANGED <<doc, rules, kept, excused, rev>>

-----------------------------------------------------------------------------
(* LetFluxDecrypt, Connect and Init: the rules, then the files. *)

NewRules(rs) == rules' = rs

\* Connect writes .sops.yaml if there is none, and then the cluster's own rule;
\* Init writes it for its one cluster, whose Flux reads every application file.
Config(w) ==
    LET c == job[w].who IN
    /\ At(w, {"connect", "init"}, "start")
    /\ IF job[w].op = "init" /\ \E f \in {"bundle", "spec"} : doc[f] # NoFile
       THEN Answers(w) /\ UNCHANGED rules
       ELSE /\ NewRules(IF rules # <<>> THEN rules ELSE
                        IF job[w].op = "connect" THEN AppsConfig
                        ELSE <<Rule("bundle", {"operator"}), Rule("all", {"operator", c})>>)
            /\ Goes(w, "rule") /\ UNCHANGED lock
    /\ Quietly /\ UNCHANGED <<doc, kust, kept, excused, rev>>

OwnRule(w) ==
    /\ At(w, {"connect"}, "rule")
    /\ NewRules(AddClusterRule(rules, job[w].who))
    /\ Goes(w, "key")
    /\ Quietly /\ UNCHANGED <<doc, kust, lock, kept, excused, rev>>

\* The cluster's key joins the rule of its own paths.
AddKey(w) ==
    /\ \/ At(w, {"connect"}, "key") \/ At(w, {"flux"}, "start") \/ At(w, {"init"}, "rule")
    /\ NewRules(AddRecipient(rules, job[w].who))
    /\ Goes(w, IF job[w].op = "flux" THEN "scan" ELSE "files")
    /\ Quietly /\ UNCHANGED <<doc, kust, lock, kept, excused, rev>>

Scan(w) ==
    LET c == job[w].who
        blind == {p \in Path : Owner[In[p]] = c /\ doc[p] # NoFile /\ c \notin doc[p].keys}
    IN
    /\ At(w, {"flux"}, "scan")
    /\ Becomes(w, [job[w] EXCEPT !.step = "rekey", !.todo = {<<p, doc[p]>> : p \in blind}])
    /\ Quietly /\ UNCHANGED lock /\ NoWrite

\* A file that changed since it was listed is left to the next time.
Rekey(w) ==
    /\ At(w, {"flux"}, "rekey")
    /\ IF job[w].todo = {} THEN Answers(w) /\ UNCHANGED <<doc, rev>>
       ELSE \E t \in job[w].todo :
            LET p == t[1]
                v == t[2]
                keys == RuleFor(Class(p))
            IN  /\ lock[p] = Free
                /\ IF doc[p] = v /\ job[w].who \in keys
                   THEN Writes(p, Version(v.name, rev + 1, keys)) /\ rev' = rev + 1
                   ELSE UNCHANGED <<doc, rev>>
                /\ Becomes(w, [job[w] EXCEPT !.todo = @ \ {t}])
                /\ UNCHANGED lock
    /\ Quietly /\ UNCHANGED <<kust, rules, kept, excused>>

\* ConnectApps makes the kustomization of the cluster's folder.
MakeFolder(w) ==
    LET f == CHOOSE g \in Folder : Owner[g] = job[w].who /\ In[g] = g IN
    /\ At(w, {"connect"}, "files")
    /\ lock[f] = Free
    /\ IF kust[f] = NoList THEN Lists(f, {}) ELSE UNCHANGED kust
    /\ Goes(w, "addon")
    /\ Quietly /\ UNCHANGED <<doc, rules, lock, kept, excused, rev>>

\* SetAddon, with the hash of cluster.yaml that the request brought along.  The deploy
\* key that Connect makes for a private repository is a file nobody else writes; it is
\* left out.
SetAddon(w) ==
    /\ At(w, {"connect"}, "addon")
    /\ lock["spec"] = Free
    /\ IF doc["spec"] = job[w].seen /\ doc["spec"] # NoFile
       THEN Writes("spec", Version(doc["spec"].name, rev + 1, {})) /\ rev' = rev + 1
       ELSE UNCHANGED <<doc, rev>>
    /\ Answers(w)
    /\ Quietly /\ UNCHANGED <<kust, rules, kept, excused>>

\* Init: the bundle, which has a Flux key of its own, and then cluster.yaml.
InitFile(w) ==
    LET f == IF job[w].step = "files" THEN "bundle" ELSE "spec" IN
    /\ At(w, {"init"}, "files") \/ At(w, {"init"}, "spec")
    /\ lock[f] = Free
    /\ IF doc[f] # NoFile THEN Answers(w) /\ UNCHANGED <<doc, kept, rev>>
       ELSE /\ Writes(f, Version(rev + 1, rev + 1, IF f = "bundle" THEN RuleFor("bundle") ELSE {}))
            /\ rev' = rev + 1 /\ kept' = kept \cup {rev + 1}
            /\ IF f = "bundle" THEN Goes(w, "spec") /\ UNCHANGED lock ELSE Answers(w)
    /\ Quietly /\ UNCHANGED <<kust, rules, excused>>

-----------------------------------------------------------------------------
(* The daemon, the watcher and the editors of the machine. *)

\* What the console shows of the files: it reads them when they change.
SecretIndex == doc

\* The daemon dies and starts again: the handlers and the locks are gone.
Dies ==
    /\ trouble < MaxTrouble /\ trouble' = trouble + 1
    /\ \E w \in Worker : job[w] # Idle
    /\ excused' = excused \cup UNION {Unfinished(w) : w \in Worker}
    /\ job' = [w \in Worker |-> Idle]
    /\ lock' = [p \in DOMAIN lock |-> Free]
    /\ shown' = SecretIndex
    /\ UNCHANGED <<data, kept, rev, asks, scenario>>

\* An editor takes no lock; one that saves while Kubit holds the file is left out.
EditorSaves(f) ==
    /\ trouble < MaxTrouble /\ trouble' = trouble + 1
    /\ doc[f] # NoFile /\ lock[f] = Free
    /\ Writes(f, Version(doc[f].name, rev + 1, doc[f].keys)) /\ rev' = rev + 1
    /\ UNCHANGED <<kust, rules, lock, job, shown, kept, excused, asks, scenario>>

\* Every write of a request starts the watcher's wait anew; once the writes have
\* settled, the console reads what is there.
Settles ==
    /\ shown # SecretIndex
    /\ \A w \in Worker : job[w].step \notin {"created", "unlist", "list", "prune", "remove"}
    /\ shown' = SecretIndex
    /\ UNCHANGED <<data, lock, job, kept, excused, rev, asks, trouble, scenario>>

-----------------------------------------------------------------------------
Init ==
    /\ scenario \in Scenarios
    /\ rules = StartRules(scenario.rules)
    /\ LET order == SetToSeq(scenario.files)
           At0(f) == CHOOSE i \in DOMAIN order : order[i] = f
           keys(f) == IF f = "spec" THEN {} ELSE {"operator"} IN
       /\ doc = [f \in File |-> IF f \in scenario.files THEN Version(At0(f), At0(f), keys(f)) ELSE NoFile]
       /\ rev = Len(order) /\ kept = DOMAIN order
    /\ kust = [f \in Folder |->
          LET has(p) == p \in scenario.files \ scenario.unlisted
              here == {p \in Path : has(p) /\ In[p] = f}
              below == {g \in Folder \ {f} : In[g] = f /\ (g \in scenario.full \/ \E p \in Path : has(p) /\ In[p] = g)}
          IN  IF here \cup below = {} /\ f \notin scenario.full THEN NoList
              ELSE here \cup below \cup (IF f \in scenario.full THEN {"other"} ELSE {})]
    /\ lock = [p \in File \cup Folder |-> Free]
    /\ job = [w \in Worker |-> Idle]
    /\ shown = doc
    /\ excused = scenario.unlisted /\ asks = 0 /\ trouble = 0

Handles(w) ==
    \/ Read(w) \/ SaveSpec(w) \/ SaveSecret(w) \/ Delete(w)
    \/ Stat(w) \/ Encrypt(w) \/ Create(w) \/ Drop(w)
    \/ Plan(w) \/ MakeList(w) \/ SkipList(w) \/ LoseList(w) \/ ReadList(w) \/ WriteList(w)
    \/ Prune(w) \/ RemoveList(w)
    \/ Config(w) \/ OwnRule(w) \/ AddKey(w) \/ Scan(w) \/ Rekey(w)
    \/ MakeFolder(w) \/ SetAddon(w) \/ InitFile(w)

Next ==
    \/ \E w \in Worker : Handles(w)
    \/ \E w \in Worker, r \in scenario.asks : Ask(w, r)
    \/ Dies \/ Settles
    \/ \E r \in scenario.asks : EditorSaves(r.src)

\* A handler goes on until it answers; nothing keeps it but a lock, which
\* sync.Mutex hands to those who wait for it.
Fairness == \A w \in Worker : WF_vars(Handles(w)) /\ SF_vars(Read(w)) /\ SF_vars(ReadList(w))

Spec == Init /\ [][Next]_vars /\ Fairness

-----------------------------------------------------------------------------
(* Properties. *)

\* Types of the variables.
Doc == [name : 0..rev, rev : 0..rev, keys : SUBSET Key]
Resources == (SUBSET (Path \cup Folder \cup {"other"})) \cup {NoList}
Rules == [for : Cluster \cup {"bundle", "all"}, keys : SUBSET Key]
Steps == {"idle", "start", "held", "create", "created", "unlist", "list", "prune", "remove", "rule",
          "key", "files", "addon", "spec", "scan", "rekey"}
Todo(op, docs) == IF op = "flux" THEN SUBSET (Path \X docs) ELSE SUBSET Folder
Entry(op) == IF op \in {"new", "delete", "move"} THEN Path \cup Folder \cup {"spec"} ELSE {"spec"}
JobOf(op, docs) ==
    [op : {op}, src : Files(op), dst : Files(op), who : Cluster \cup {"none"}, step : Steps,
     seen : docs, got : docs, child : Entry(op),
     todo : Todo(op, docs), read : Resources]
TypeOK ==
    /\ doc \in [File -> Doc] /\ shown \in [File -> Doc]
    /\ kust \in [Folder -> Resources]
    /\ rules \in Seq(Rules)
    /\ lock \in [File \cup Folder -> Worker \cup {Free}]
    /\ job = [w \in Worker |-> job[w]]
    /\ \A w \in Worker : job[w] \in JobOf(job[w].op, Doc)
    /\ kept \subseteq 1..rev /\ excused \subseteq File \cup Folder
    /\ rev \in Nat /\ asks \in 0..MaxAsks /\ trouble \in 0..MaxTrouble
    /\ scenario \in Scenarios

\* A secret that was written and that nobody deleted is in the repository,
\* wherever it was moved and whenever the daemon died: a move (repo/secrets.go
\* MoveSecret) removes the old file once the new one is there, and no request
\* writes over a file it did not read (create).
NothingLost == \A n \in kept : \E f \in File : doc[f].name = n

\* What a request overwrites or removes is the version its user saw, or the one
\* it read under the lock: two edits of one version never both land
\* (repo/write.go replace).
NoBlindWrite ==
    [][\A f \in File : doc[f] # NoFile /\ doc'[f] # doc[f] =>
          \/ trouble' # trouble
          \/ \E w \in Worker : job'[w] # job[w]
                /\ (doc[f] = job[w].seen \/ <<f, doc[f]>> \in job[w].todo \/ job[w].op = "connect")]_vars

\* The bundle is encrypted to its operator alone, and an application's secret to
\* no other cluster's Flux, for the files that are there and for those that will
\* be: a shared rule is split before a key is added (sops/recipients.go
\* AddRecipient), and a file that is moved is encrypted anew (MoveSecret).
KeysStayHome ==
    /\ doc["bundle"].keys \cup RuleFor("bundle") \subseteq {"operator"}
    /\ \A p \in Path : doc[p].keys \subseteq {"operator", Owner[In[p]]}

Busy == UNION {Unfinished(w) : w \in Worker}

\* Flux applies p, if it is there, and its kustomization does not list it, if it
\* is gone, unless a request about it or its folders is or was left half way.
ListedAt(p) ==
    ({p} \cup Above(p)) \cap (Busy \cup excused) = {} =>
        /\ doc[p] # NoFile => Applied(p)
        /\ kust[In[p]] # NoList /\ p \in kust[In[p]] => doc[p] # NoFile

\* Once the requests about a file have answered, Flux applies it, and its
\* kustomization lists no file that is gone, unless the daemon died in one of
\* them, or one was refused half way (repo/kustomize.go ListPath, UnlistPath).
Listed == \A p \in Path : ListedAt(p)

\* Every request is answered: no handlers wait for each other's files, except two
\* moves in opposite directions (secrets.go MoveSecret locks src, then dst), which
\* no scenario asks for at the same time.
RequestsAnswered == \A w \in Worker : job[w] # Idle ~> job[w] = Idle
=============================================================================
