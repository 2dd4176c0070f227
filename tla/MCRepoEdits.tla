----------------------------- MODULE MCRepoEdits -----------------------------
(* Instances of RepoEdits: the clusters A and B of one apps repository. *)
EXTENDS RepoEdits

Places ==
    [x \in Path \cup Folder |->
        CASE x \in {"a/x/db", "a/x/web"} -> "a/x" [] x = "a/api" -> "a" [] x = "a/x" -> "a"
          [] x = "b/db" -> "b" [] OTHER -> x]
Owners == [f \in Folder |-> IF f = "b" THEN "B" ELSE "A"]

Of(op, src) == [op |-> op, src |-> src, dst |-> src, who |-> "A"]
To(src, dst) == [op |-> "move", src |-> src, dst |-> dst, who |-> "A"]
For(op, c) == [op |-> op, src |-> "spec", dst |-> "spec", who |-> c]

Begin(requests, files, unlisted, full, kind) ==
    [asks |-> requests, files |-> files, unlisted |-> unlisted, full |-> full, rules |-> kind]
Start(requests, files, full, kind) == Begin(requests, files, {}, full, kind)
Repo == {"bundle", "spec"}

\* One folder, which has other files.
Folder1 ==
    Start({Of("new", "a/x/db"), Of("delete", "a/x/db"), Of("edit", "a/x/db"), Of("new", "a/x/web")},
          Repo \cup {"a/x/db"}, {"a", "a/x"}, "split")

\* A folder that comes and goes.
Folder2 ==
    Start({Of("new", "a/x/db"), Of("delete", "a/x/db"), Of("new", "a/api"), Of("delete", "a/api")},
          Repo, {"a"}, "split")

\* Two files for one new folder.
Folder3 == Start({Of("new", "a/x/db"), Of("new", "a/x/web"), Of("edit", "a/x/db")}, Repo, {"a"}, "split")

\* The end of a folder, with a file that nobody listed.
Folder4 ==
    Begin({Of("delete", "a/x/db"), Of("delete", "a/x/web"), Of("edit", "a/x/web")},
          Repo \cup {"a/x/db", "a/x/web"}, {"a/x/web"}, {"a"}, "split")

\* Moves, within a cluster and between two.
Moves ==
    Start({To("a/x/db", "a/api"), To("a/api", "b/db"), Of("edit", "a/x/db"), Of("new", "a/x/db")},
          Repo \cup {"a/x/db"}, {"a", "a/x", "b"}, "connected")

\* Two clusters are connected, with a shared rule; one, with none.
Shared ==
    Start({For("connect", "A"), For("connect", "B"), For("flux", "B"), Of("new", "b/db")},
          Repo, {"b"}, "shared")
New ==
    Start({For("connect", "A"), For("flux", "A"), Of("edit", "a/api"), Of("edit", "spec")},
          Repo \cup {"a/api"}, {"a"}, "none")

\* cluster.yaml and the bundle.
Spec1 == Start({Of("edit", "spec"), Of("ip", "spec"), Of("edit", "bundle"), For("init", "A")}, Repo, {}, "split")
Spec2 == Start({For("init", "A"), Of("edit", "spec")}, {}, {}, "none")
Spec3 == Start({For("init", "A"), Of("edit", "spec")}, {}, {}, "shared")

SomeScenarios == {Folder1, Folder2, Folder3, Folder4, Moves, Shared, New, Spec1, Spec2, Spec3}
=============================================================================
