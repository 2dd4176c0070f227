----------------------------- MODULE MCLifecycle -----------------------------
(* Instances of Lifecycle: 1 to 4 are control planes, 5 is a worker. *)
EXTENDS Lifecycle

From(d, m) == [declared |-> d, members |-> m]

\* A new cluster; one whose first control plane is yet to come; one that shrinks.
SomeStarts == {From({1, 2, 5}, {}), From({2, 3}, {2, 3}), From({1, 2, 3, 4}, {1, 2, 3, 4})}

Edited(d, e) == [from |-> d, to |-> e]
SomeEdits ==
    {Edited({1, 2, 5}, {1, 2, 3}), Edited({2, 3}, {1, 2, 3}),
     Edited({1, 2, 3, 4}, {1, 2, 3}), Edited({1, 2, 3, 4}, {1, 2})}
=============================================================================
