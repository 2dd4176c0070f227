----------------------------- MODULE MCConverge -----------------------------
(* Instances of Converge: a control plane and a worker. *)
EXTENDS Converge

\* Talos 1 supports Kubernetes 1 to 3, Talos 2 supports 2 to 4.
Support == [t \in 1..2 |-> t..t + 2]
Both == <<"cp", "w">>

All(talos) == [n \in {"cp", "w"} |-> talos]
Has(talos, kube, image) == [talos |-> talos, kube |-> kube, image |-> image, rest |-> 1]
Wants(talos, kube, image, rest, addons) ==
    [talos |-> talos, kube |-> kube, image |-> image, rest |-> rest, addons |-> addons]

Scenario(have, specs, repo, state) == [have |-> have, specs |-> specs, repo |-> repo, secret |-> state]

\* Versions of any kind, and another thought.
Wanted == {Wants(t, k, "plain", 1, {}) : t \in [{"cp", "w"} -> 1..2], k \in 1..3}
Versions2 ==
    {Scenario(Has(h[1], h[2], "plain"), <<one, two>>, NoState, State(1, {})) :
        h \in {<<1, 1>>, <<1, 2>>, <<2, 3>>}, one \in Wanted, two \in Wanted}
\* A config that needs a reboot.
Reboots == Scenario(Has(1, 2, "plain"), <<Wants([All(1) EXCEPT !["w"] = 2], 2, "plain", 2, {}), Wants(All(1), 2, "plain", 3, {})>>, NoState, State(1, {}))
\* Longhorn needs another image.
Storage == Scenario(Has(1, 1, "plain"), <<Wants(All(1), 1, "longhorn", 1, {"longhorn"}), Wants(All(1), 1, "plain", 1, {})>>, NoState, State(1, {}))
\* The state moves out of the repository; add-ons come and go.
OldState == Scenario(Has(1, 1, "plain"), <<Wants(All(1), 1, "plain", 1, {"flux"}), Wants(All(1), 1, "plain", 1, {"metallb"})>>, State(1, {"metallb"}), NoState)
Stale == Scenario(Has(1, 1, "plain"), <<Wants(All(1), 1, "plain", 1, {"flux"})>>, State(1, {}), State(2, {"metallb"}))

AllScenarios == Versions2 \cup {Reboots, Storage, OldState, Stale}
=============================================================================
