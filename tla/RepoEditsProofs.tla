--------------------------- MODULE RepoEditsProofs ---------------------------
(***************************************************************************)
(* What RepoEdits promises of the secrets and files of a repository, for   *)
(* any files and folders, any clusters, any number of handlers and any     *)
(* requests: no secret is lost, no write lands on a version its writer did *)
(* not see, no file is encrypted to a cluster it is not of, and every file *)
(* whose folders stay is listed once its requests have answered.           *)
(***************************************************************************)
EXTENDS RepoEdits, FiniteSetTheorems, WellFoundedInduction, SequenceTheorems, TLAPS

-----------------------------------------------------------------------------
(* The rules of .sops.yaml. *)

\* A set of numbers has a least one.
LEMMA LeastNat ==
  ASSUME NEW T, T \subseteq Nat, T # {}
  PROVE  \E x \in T : \A y \in T : x <= y
<1>. DEFINE R == {p \in Nat \X Nat : p[1] < p[2]}
<1>1. OpToRel(<, Nat) = R
  BY Zenon DEF OpToRel
<1>2. IsWellFoundedOn(R, Nat)
  BY NatLessThanWellFounded, <1>1, Zenon
<1>3. PICK x \in T : \A y \in T : ~(<<y, x>> \in R)
  BY <1>2, WFMin, Zenon
<1>4. \A y \in T : ~(y < x)
  BY <1>3
<1>. QED BY <1>4

\* The rule sops takes for a file: the first that matches, or none.
LEMMA FirstRuleIs ==
  ASSUME NEW rs \in Seq(Rules), NEW class
  PROVE  \/ /\ FirstRule(rs, class) = 0
            /\ \A i \in 1..Len(rs) : ~RuleMatches(rs[i], class)
         \/ /\ FirstRule(rs, class) \in 1..Len(rs)
            /\ RuleMatches(rs[FirstRule(rs, class)], class)
            /\ \A i \in 1..Len(rs) : RuleMatches(rs[i], class) => FirstRule(rs, class) <= i
<1>. DEFINE hits == {i \in DOMAIN rs : RuleMatches(rs[i], class)}
<1>1. DOMAIN rs = 1..Len(rs) /\ hits \subseteq Nat
  OBVIOUS
<1>2. FirstRule(rs, class) = IF hits = {} THEN 0 ELSE CHOOSE i \in hits : \A j \in hits : i <= j
  BY DEF FirstRule
<1>3. CASE hits = {}
  BY <1>1, <1>2, <1>3
<1>4. CASE hits # {}
  <2>. HIDE DEF hits
  <2>1. \E i \in hits : \A j \in hits : i <= j
    BY <1>1, <1>4, LeastNat
  <2>2. FirstRule(rs, class) \in hits /\ \A j \in hits : FirstRule(rs, class) <= j
    BY <1>2, <1>4, <2>1
  <2>. QED BY <1>1, <2>2 DEF hits
<1>. QED BY <1>3, <1>4

\* A rule that is put in moves those behind it by one place.
LEMMA InsertAtIs ==
  ASSUME NEW rs \in Seq(Rules), NEW i \in 1..(Len(rs) + 1), NEW e \in Rules
  PROVE  LET t == InsertAt(rs, i, e)
         IN  /\ t \in Seq(Rules) /\ Len(t) = Len(rs) + 1
             /\ \A k \in 1..(i - 1) : t[k] = rs[k]
             /\ t[i] = e
             /\ \A k \in i..Len(rs) : t[k + 1] = rs[k]
<1>. DEFINE a == SubSeq(rs, 1, i - 1)
            b == SubSeq(rs, i, Len(rs))
            t == (a \o <<e>>) \o b
<1>1. a \in Seq(Rules) /\ Len(a) = i - 1 /\ \A k \in 1..(i - 1) : a[k] = rs[k]
  BY SubSeqProperties
<1>2. /\ b \in Seq(Rules) /\ Len(b) = Len(rs) - i + 1
      /\ \A k \in 1..Len(b) : b[k] = rs[i + k - 1]
  BY SubSeqProperties
<1>3. <<e>> \in Seq(Rules) /\ Len(<<e>>) = 1 /\ <<e>>[1] = e
  OBVIOUS
<1>. HIDE DEF a, b
<1>4. /\ a \o <<e>> \in Seq(Rules) /\ Len(a \o <<e>>) = i
      /\ \A k \in 1..(i - 1) : (a \o <<e>>)[k] = rs[k]
      /\ (a \o <<e>>)[i] = e
  BY <1>1, <1>3, ConcatProperties
<1>5. /\ t \in Seq(Rules) /\ Len(t) = Len(rs) + 1
      /\ \A k \in 1..i : t[k] = (a \o <<e>>)[k]
      /\ \A k \in (i + 1)..(Len(rs) + 1) : t[k] = b[k - i]
  <2>. DEFINE c == a \o <<e>>
  <2>. HIDE DEF c
  <2>1. c \in Seq(Rules) /\ Len(c) = i
    BY <1>4 DEF c
  <2>2. /\ c \o b \in Seq(Rules) /\ Len(c \o b) = i + Len(b)
        /\ \A k \in 1..(i + Len(b)) : (c \o b)[k] = IF k <= i THEN c[k] ELSE b[k - i]
    BY <1>2, <2>1, ConcatProperties
  <2>3. i + Len(b) = Len(rs) + 1 /\ i \in Nat
    BY <1>2
  <2>. QED BY <2>2, <2>3 DEF c
<1>6. \A k \in i..Len(rs) : t[k + 1] = rs[k]
  BY <1>2, <1>5
<1>7. InsertAt(rs, i, e) = t
  BY DEF InsertAt, a, b
<1>. HIDE DEF t
<1>. QED BY <1>4, <1>5, <1>6, <1>7

\* Whom the rules are for.
Fors(rs) == {rs[i].for : i \in 1..Len(rs)}

\* A cluster's own rule names no other cluster and stands before those for
\* everything; the bundle's rule names the operator alone, and stands before a
\* rule for everything that names more.  Others are the clusters a rule for
\* everything may name.
OwnRulesOwnKeys(rs) ==
    \A i \in 1..Len(rs) : rs[i].for \in Cluster => rs[i].keys \subseteq {"operator", rs[i].for}
BundleRulesForTheOperator(rs) ==
    \A i \in 1..Len(rs) : rs[i].for = "bundle" => rs[i].keys \subseteq {"operator"}
SharedRulesFor(rs, others) ==
    \A i \in 1..Len(rs) : rs[i].for = "all" => rs[i].keys \subseteq {"operator"} \cup others
BundleFirst(rs) ==
    \A i \in 1..Len(rs) : rs[i].for = "all" =>
        rs[i].keys \subseteq {"operator"} \/ \E j \in 1..(i - 1) : rs[j].for = "bundle"
OwnFirst(rs) ==
    \A i, j \in 1..Len(rs) : rs[i].for \in Cluster /\ rs[j].for = "all" => i < j
Sound(rs, others) ==
    /\ OwnRulesOwnKeys(rs) /\ BundleRulesForTheOperator(rs) /\ SharedRulesFor(rs, others)
    /\ BundleFirst(rs) /\ OwnFirst(rs)

\* A rule that is not for everything may be put into sound rules, a cluster's
\* own before those for everything.
LEMMA InsertSound ==
  ASSUME NEW rs \in Seq(Rules), NEW others, Sound(rs, others),
         NEW i \in 1..(Len(rs) + 1), NEW e \in Rules, e.for # "all",
         e.for = "bundle" => e.keys \subseteq {"operator"},
         e.for \in Cluster => /\ e.keys \subseteq {"operator", e.for}
                              /\ \A j \in 1..Len(rs) : rs[j].for = "all" => i <= j
  PROVE  /\ InsertAt(rs, i, e) \in Seq(Rules)
         /\ Fors(InsertAt(rs, i, e)) = Fors(rs) \cup {e.for}
         /\ Sound(InsertAt(rs, i, e), others)
<1>. DEFINE t == InsertAt(rs, i, e)
            sh(k) == IF k < i THEN k ELSE k + 1
<1>0. t = InsertAt(rs, i, e)
  OBVIOUS
<1>. HIDE DEF t, sh
<1>1. /\ t \in Seq(Rules) /\ Len(t) = Len(rs) + 1
      /\ \A k \in 1..(i - 1) : t[k] = rs[k]
      /\ t[i] = e
      /\ \A k \in i..Len(rs) : t[k + 1] = rs[k]
  BY <1>0, InsertAtIs
<1>. USE DEF sh
<1>2. /\ i \in 1..Len(t)
      /\ \A k \in 1..Len(rs) : sh(k) \in 1..Len(t) /\ sh(k) # i /\ t[sh(k)] = rs[k]
  BY <1>1
<1>3. \A k \in 1..Len(t) : k # i => \E l \in 1..Len(rs) : sh(l) = k /\ t[k] = rs[l]
  <2>. SUFFICES ASSUME NEW k \in 1..Len(t), k # i
                PROVE  \E l \in 1..Len(rs) : sh(l) = k /\ t[k] = rs[l]
    OBVIOUS
  <2>1. CASE k < i
    BY <1>1, <2>1
  <2>2. CASE k > i
    <3>1. (k - 1) \in 1..Len(rs) /\ sh(k - 1) = k /\ t[k] = rs[k - 1]
      BY <1>1, <2>2
    <3>. QED BY <3>1
  <2>. QED BY <2>1, <2>2
<1>. HIDE DEF sh
<1>4. Fors(t) = Fors(rs) \cup {e.for}
  <2>1. \A k \in 1..Len(t) : t[k].for \in Fors(rs) \cup {e.for}
    BY <1>1, <1>3 DEF Fors
  <2>2. \A k \in 1..Len(rs) : rs[k].for \in Fors(t)
    BY <1>2 DEF Fors
  <2>3. e.for \in Fors(t)
    BY <1>1, <1>2 DEF Fors
  <2>. QED BY <2>1, <2>2, <2>3 DEF Fors
<1>5. OwnRulesOwnKeys(t)
  BY <1>1, <1>3 DEF Sound, OwnRulesOwnKeys
<1>6. BundleRulesForTheOperator(t)
  <2>. SUFFICES ASSUME NEW k \in 1..Len(t), t[k].for = "bundle"
                PROVE  t[k].keys \subseteq {"operator"}
    BY DEF BundleRulesForTheOperator
  <2>1. CASE k = i
    BY <1>1, <2>1
  <2>2. CASE k # i
    BY <1>3, <2>2 DEF Sound, BundleRulesForTheOperator
  <2>. QED BY <2>1, <2>2
<1>7. SharedRulesFor(t, others)
  BY <1>1, <1>3 DEF Sound, SharedRulesFor
<1>8. BundleFirst(t)
  <2>. SUFFICES ASSUME NEW k \in 1..Len(t), t[k].for = "all", ~(t[k].keys \subseteq {"operator"})
                PROVE  \E j \in 1..(k - 1) : t[j].for = "bundle"
    BY DEF BundleFirst
  <2>. USE DEF sh
  <2>1. PICK l \in 1..Len(rs) : sh(l) = k /\ t[k] = rs[l]
    BY <1>1, <1>3
  <2>2. PICK j \in 1..(l - 1) : rs[j].for = "bundle"
    BY <2>1 DEF Sound, BundleFirst
  <2>3. sh(j) \in 1..(k - 1) /\ t[sh(j)].for = "bundle"
    BY <1>2, <2>1, <2>2
  <2>. QED BY <2>3
<1>9. OwnFirst(t)
  <2>. SUFFICES ASSUME NEW k \in 1..Len(t), NEW j \in 1..Len(t),
                       t[k].for \in Cluster, t[j].for = "all"
                PROVE  k < j
    BY DEF OwnFirst
  <2>. USE DEF sh
  <2>1. PICK l \in 1..Len(rs) : sh(l) = j /\ t[j] = rs[l]
    BY <1>1, <1>3
  <2>2. CASE k = i
    BY <1>1, <2>1, <2>2
  <2>3. CASE k # i
    <3>1. PICK m \in 1..Len(rs) : sh(m) = k /\ t[k] = rs[m]
      BY <1>3, <2>3
    <3>2. m < l
      BY <2>1, <3>1 DEF Sound, OwnFirst
    <3>. QED BY <2>1, <3>1, <3>2
  <2>. QED BY <2>2, <2>3
<1>. QED BY <1>1, <1>4, <1>5, <1>6, <1>7, <1>8, <1>9 DEF Sound, t

\* A cluster's own rule is put in.
LEMMA AddClusterRuleIs ==
  ASSUME NEW rs \in Seq(Rules), NEW others, Sound(rs, others), "all" \in Fors(rs), NEW c \in Cluster
  PROVE  /\ AddClusterRule(rs, c) \in Seq(Rules)
         /\ Fors(rs) \cup {c} \subseteq Fors(AddClusterRule(rs, c))
         /\ Sound(AddClusterRule(rs, c), others)
<1>. DEFINE all == {i \in DOMAIN rs : rs[i].for = "all"}
            at == CHOOSE i \in all : \A j \in all : i <= j
<1>1. DOMAIN rs = 1..Len(rs) /\ all \subseteq Nat /\ all # {}
  BY DEF Fors
<1>2. at \in 1..Len(rs) /\ \A j \in 1..Len(rs) : rs[j].for = "all" => at <= j
  <2>. HIDE DEF all
  <2>1. \E i \in all : \A j \in all : i <= j
    BY <1>1, LeastNat
  <2>2. at \in all /\ \A j \in all : at <= j
    BY <2>1
  <2>. HIDE DEF at
  <2>. QED BY <1>1, <2>2 DEF all
<1>. HIDE DEF at
<1>3. CASE c \in Fors(rs)
  <2>1. AddClusterRule(rs, c) = rs
    BY <1>1, <1>3 DEF AddClusterRule, Fors
  <2>. QED BY <1>3, <2>1
<1>4. CASE c \notin Fors(rs)
  <2>1. AddClusterRule(rs, c) = InsertAt(rs, at, Rule(c, {"operator"}))
    BY <1>1, <1>4 DEF AddClusterRule, Fors, at
  <2>2. Rule(c, {"operator"}) \in Rules /\ Rule(c, {"operator"}).for = c
        /\ Rule(c, {"operator"}).keys = {"operator"}
    BY DEF Rule, Rules, Key
  <2>3. at \in 1..(Len(rs) + 1) /\ c # "all" /\ c # "bundle"
    BY <1>2, ClusterAssumption
  <2>. HIDE DEF Sound
  <2>. QED BY <1>2, <2>1, <2>2, <2>3, InsertSound
<1>. QED BY <1>3, <1>4

\* The recipients of one rule grow.
LEMMA GrowSound ==
  ASSUME NEW rs \in Seq(Rules), NEW others, Sound(rs, others),
         NEW i \in 1..Len(rs), NEW c \in Cluster,
         \/ rs[i].for = c
         \/ /\ rs[i].for = "all" /\ c \in others
            /\ \E j \in 1..(i - 1) : rs[j].for = "bundle"
  PROVE  LET t == [rs EXCEPT ![i].keys = @ \cup {c}]
         IN  t \in Seq(Rules) /\ Fors(t) = Fors(rs) /\ Sound(t, others)
<1>. DEFINE e == [rs[i] EXCEPT !.keys = @ \cup {c}]
            t == [rs EXCEPT ![i] = e]
<1>1. e \in Rules /\ e.for = rs[i].for /\ e.keys = rs[i].keys \cup {c}
  <2>1. rs[i] \in Rules
    OBVIOUS
  <2>. QED BY <2>1 DEF Rules, Key
<1>. HIDE DEF e
<1>2. t \in Seq(Rules) /\ Len(t) = Len(rs)
  BY <1>1
<1>3. \A k \in 1..Len(rs) : t[k] = IF k = i THEN e ELSE rs[k]
  OBVIOUS
<1>4. t = [rs EXCEPT ![i].keys = @ \cup {c}]
  BY DEF e
<1>. HIDE DEF t
<1>5. \A k \in 1..Len(rs) : t[k].for = rs[k].for
  BY <1>1, <1>3
<1>6. Fors(t) = Fors(rs)
  BY <1>2, <1>5 DEF Fors
<1>7. c # "all" /\ c # "bundle"
  BY ClusterAssumption
<1>8. OwnRulesOwnKeys(t) /\ BundleRulesForTheOperator(t) /\ SharedRulesFor(t, others)
  <2>1. \A k \in 1..Len(rs) : k # i => t[k] = rs[k]
    BY <1>3
  <2>2. t[i] = e
    BY <1>3
  <2>3. e.for \in Cluster => e.keys \subseteq {"operator", e.for}
    BY <1>1, <1>7, ClusterAssumption DEF Sound, OwnRulesOwnKeys
  <2>4. e.for # "bundle"
    BY <1>1, <1>7
  <2>5. e.for = "all" => e.keys \subseteq {"operator"} \cup others
    BY <1>1, <1>7 DEF Sound, SharedRulesFor
  <2>. QED BY <1>2, <2>1, <2>2, <2>3, <2>4, <2>5
           DEF Sound, OwnRulesOwnKeys, BundleRulesForTheOperator, SharedRulesFor
<1>9. BundleFirst(t)
  <2>. SUFFICES ASSUME NEW k \in 1..Len(rs), t[k].for = "all", ~(t[k].keys \subseteq {"operator"})
                PROVE  \E j \in 1..(k - 1) : t[j].for = "bundle"
    BY <1>2 DEF BundleFirst
  <2>1. \E j \in 1..(k - 1) : rs[j].for = "bundle"
    <3>1. CASE k = i
      BY <1>5, <1>7, <3>1
    <3>2. CASE k # i
      BY <1>3, <3>2 DEF Sound, BundleFirst
    <3>. QED BY <3>1, <3>2
  <2>. QED BY <1>5, <2>1
<1>10. OwnFirst(t)
  BY <1>2, <1>5 DEF Sound, OwnFirst
<1>. QED BY <1>2, <1>4, <1>6, <1>8, <1>9, <1>10 DEF Sound

\* A cluster's key is added to its own rule, or, where the rules may name it for
\* everything, to that one, once the bundle has a rule of its own.
LEMMA AddRecipientIs ==
  ASSUME NEW rs \in Seq(Rules), NEW others, Sound(rs, others), "all" \in Fors(rs),
         NEW c \in Cluster, c \in Fors(rs) \cup others
  PROVE  /\ AddRecipient(rs, c) \in Seq(Rules)
         /\ Fors(rs) \subseteq Fors(AddRecipient(rs, c))
         /\ Sound(AddRecipient(rs, c), others)
<1>. DEFINE guard == FirstRule(rs, "bundle")
            e == Rule("bundle", rs[guard].keys)
            split == IF RuleMatches(rs[guard], c) THEN InsertAt(rs, guard, e) ELSE rs
            i == FirstRule(split, c)
<1>1. AddRecipient(rs, c) =
        IF i \in {0, guard} THEN split ELSE [split EXCEPT ![i].keys = @ \cup {c}]
  BY DEF AddRecipient
<1>2. c # "all" /\ c # "bundle"
  BY ClusterAssumption
<1>3. /\ guard \in 1..Len(rs) /\ rs[guard].for \in {"all", "bundle"}
      /\ \A j \in 1..Len(rs) : rs[j].for \in {"all", "bundle"} => guard <= j
  BY FirstRuleIs DEF RuleMatches, Fors
<1>. HIDE DEF guard
<1>4. /\ split \in Seq(Rules) /\ Sound(split, others) /\ Fors(rs) \subseteq Fors(split)
      /\ Fors(split) \subseteq Fors(rs) \cup {"bundle"}
      /\ \A j \in 1..Len(split) :
            split[j].for = "all" => \E k \in 1..(j - 1) : split[k].for = "bundle"
  <2>1. CASE RuleMatches(rs[guard], c)
    <3>1. rs[guard].for = "all"
      BY <1>2, <1>3, <2>1 DEF RuleMatches
    <3>2. rs[guard].keys \subseteq {"operator"}
      BY <1>3, <3>1 DEF Sound, BundleFirst
    <3>3. e \in Rules /\ e.for = "bundle" /\ e.keys = rs[guard].keys
      <4>1. rs[guard] \in Rules
        BY <1>3
      <4>. QED BY <4>1 DEF Rule, Rules
    <3>. HIDE DEF e
    <3>4. guard \in 1..(Len(rs) + 1)
      BY <1>3
    <3>5. split = InsertAt(rs, guard, e)
      BY <2>1
    <3>6. /\ split \in Seq(Rules) /\ Sound(split, others) /\ Fors(split) = Fors(rs) \cup {"bundle"}
      BY <3>2, <3>3, <3>4, <3>5, ClusterAssumption, InsertSound
    <3>7. /\ Len(split) = Len(rs) + 1 /\ split[guard] = e
          /\ \A k \in 1..(guard - 1) : split[k] = rs[k]
      BY <3>3, <3>4, <3>5, InsertAtIs
    <3>. HIDE DEF split
    <3>8. \A j \in 1..Len(split) : split[j].for = "all" => guard < j
      BY <1>3, <3>3, <3>7
    <3>. QED BY <1>3, <3>3, <3>6, <3>7, <3>8
  <2>2. CASE ~RuleMatches(rs[guard], c)
    <3>1. rs[guard].for = "bundle" /\ split = rs
      BY <1>3, <2>2 DEF RuleMatches
    <3>2. \A j \in 1..Len(rs) : rs[j].for = "all" => guard < j
      BY <1>3, <3>1
    <3>. QED BY <1>3, <3>1, <3>2
  <2>. QED BY <2>1, <2>2
<1>. HIDE DEF split
<1>5. CASE i \in {0, guard}
  BY <1>1, <1>4, <1>5
<1>6. CASE i \notin {0, guard}
  <2>1. /\ i \in 1..Len(split) /\ split[i].for \in {"all", c}
        /\ \A j \in 1..Len(split) : split[j].for \in {"all", c} => i <= j
    BY <1>4, <1>6, FirstRuleIs DEF RuleMatches
  <2>. HIDE DEF i
  <2>2. split[i].for = "all" => c \in others
    <3>. SUFFICES ASSUME split[i].for = "all", c \in Fors(rs) PROVE FALSE
      OBVIOUS
    <3>1. PICK j \in 1..Len(split) : split[j].for = c
      BY <1>4 DEF Fors
    <3>2. j < i /\ i <= j
      BY <1>4, <2>1, <3>1 DEF Sound, OwnFirst
    <3>. QED BY <2>1, <3>2
  <2>3. AddRecipient(rs, c) = [split EXCEPT ![i].keys = @ \cup {c}]
    BY <1>1, <1>6 DEF i
  <2>4. \/ split[i].for = c
        \/ split[i].for = "all" /\ c \in others /\ \E j \in 1..(i - 1) : split[j].for = "bundle"
    BY <1>4, <2>1, <2>2
  <2>5. /\ [split EXCEPT ![i].keys = @ \cup {c}] \in Seq(Rules)
        /\ Fors([split EXCEPT ![i].keys = @ \cup {c}]) = Fors(split)
        /\ Sound([split EXCEPT ![i].keys = @ \cup {c}], others)
    BY <1>4, <2>1, <2>4, GrowSound, Zenon
  <2>. QED BY <1>4, <2>3, <2>5
<1>. QED BY <1>5, <1>6

\* What sound rules encrypt a file to.
LEMMA RuleForIs ==
  ASSUME rules \in Seq(Rules), NEW others, Sound(rules, others)
  PROVE  /\ \A class : RuleFor(class) \subseteq Key
         /\ RuleFor("bundle") \subseteq {"operator"}
         /\ \A c \in Cluster \cup {"none"} : RuleFor(c) \subseteq {"operator", c} \cup others
         /\ \A c \in Cluster \cap Fors(rules) : RuleFor(c) \subseteq {"operator", c}
<1>1. \A class : \/ RuleFor(class) = {}
                 \/ \E i \in 1..Len(rules) :
                       /\ RuleFor(class) = rules[i].keys /\ rules[i].for \in {"all", class}
                       /\ \A j \in 1..Len(rules) : rules[j].for \in {"all", class} => i <= j
  <2>. TAKE class
  <2>. DEFINE i == FirstRule(rules, class)
  <2>1. RuleFor(class) = IF i = 0 THEN {} ELSE rules[i].keys
    BY DEF RuleFor
  <2>2. i = 0 \/ /\ i \in 1..Len(rules) /\ rules[i].for \in {"all", class}
                 /\ \A j \in 1..Len(rules) : rules[j].for \in {"all", class} => i <= j
    BY FirstRuleIs DEF RuleMatches
  <2>. HIDE DEF i
  <2>3. CASE i = 0
    BY <2>1, <2>3
  <2>4. CASE i # 0
    <3>1. i \in 1..Len(rules) /\ RuleFor(class) = rules[i].keys
      BY <2>1, <2>2, <2>4
    <3>. QED BY <2>2, <2>4, <3>1
  <2>. QED BY <2>3, <2>4
<1>2. \A i \in 1..Len(rules) :
         rules[i].keys \subseteq Key /\ rules[i].for \in Cluster \cup {"bundle", "all"}
  <2>1. \A i \in 1..Len(rules) : rules[i] \in Rules
    OBVIOUS
  <2>. QED BY <2>1 DEF Rules
<1>3. \A class : RuleFor(class) \subseteq Key
  BY <1>1, <1>2
<1>4. RuleFor("bundle") \subseteq {"operator"}
  <2>1. CASE RuleFor("bundle") = {}
    BY <2>1
  <2>2. CASE RuleFor("bundle") # {}
    <3>1. PICK i \in 1..Len(rules) :
             /\ RuleFor("bundle") = rules[i].keys /\ rules[i].for \in {"all", "bundle"}
             /\ \A j \in 1..Len(rules) : rules[j].for \in {"all", "bundle"} => i <= j
      BY <1>1, <2>2
    <3>. QED BY <3>1 DEF Sound, BundleRulesForTheOperator, BundleFirst
  <2>. QED BY <2>1, <2>2
<1>5. ASSUME NEW c \in Cluster \cup {"none"}
      PROVE  /\ RuleFor(c) \subseteq {"operator", c} \cup others
             /\ c \in Cluster \cap Fors(rules) => RuleFor(c) \subseteq {"operator", c}
  <2>1. CASE RuleFor(c) = {}
    BY <2>1
  <2>2. CASE RuleFor(c) # {}
    <3>1. PICK i \in 1..Len(rules) :
             /\ RuleFor(c) = rules[i].keys /\ rules[i].for \in {"all", c}
             /\ \A j \in 1..Len(rules) : rules[j].for \in {"all", c} => i <= j
      BY <1>1, <2>2
    <3>2. rules[i].for \in Cluster \cup {"bundle", "all"}
      BY <1>2, <3>1
    <3>3. CASE rules[i].for = "all"
      <4>1. RuleFor(c) \subseteq {"operator"} \cup others
        BY <3>1, <3>3 DEF Sound, SharedRulesFor
      <4>2. ~(c \in Cluster \cap Fors(rules))
        <5>. SUFFICES ASSUME c \in Cluster \cap Fors(rules) PROVE FALSE
          OBVIOUS
        <5>1. PICK j \in 1..Len(rules) : rules[j].for = c
          BY DEF Fors
        <5>2. j < i /\ i <= j
          BY <3>1, <3>3, <5>1 DEF Sound, OwnFirst
        <5>. QED BY <5>2
      <4>. QED BY <4>1, <4>2
    <3>4. CASE rules[i].for # "all"
      <4>1. rules[i].for = c /\ c \in Cluster
        BY <3>1, <3>2, <3>4, ClusterAssumption
      <4>2. rules[i].keys \subseteq {"operator", c}
        BY <4>1 DEF Sound, OwnRulesOwnKeys
      <4>. QED BY <3>1, <4>2
    <3>. QED BY <3>3, <3>4
  <2>. QED BY <2>1, <2>2
<1>. QED BY <1>3, <1>4, <1>5

\* SetToSeq lists a finite set, every element once.
LEMMA SetToSeqIs ==
  ASSUME NEW S, IsFiniteSet(S)
  PROVE  /\ SetToSeq(S) \in Seq(S) /\ Len(SetToSeq(S)) \in Nat
         /\ DOMAIN SetToSeq(S) = 1..Len(SetToSeq(S))
         /\ \A i \in 1..Len(SetToSeq(S)) : SetToSeq(S)[i] \in S
         /\ \A x \in S : \E i \in 1..Len(SetToSeq(S)) : SetToSeq(S)[i] = x
         /\ \A i, k \in 1..Len(SetToSeq(S)) : SetToSeq(S)[i] = SetToSeq(S)[k] => i = k
<1>. DEFINE n == Cardinality(S)
            f == SetToSeq(S)
<1>1. n \in Nat /\ ExistsBijection(1..n, S)
  BY FS_CardinalityType
<1>. HIDE DEF n
<1>2. \E g \in [1..n -> S] : IsInjective(g)
  BY <1>1 DEF ExistsBijection, Bijection, Injection, IsInjective
<1>3. f \in [1..n -> S] /\ IsInjective(f)
  BY <1>2 DEF SetToSeq, n
<1>. HIDE DEF f
<1>4. f \in Injection(1..n, S)
  BY <1>3 DEF Injection, IsInjective
<1>5. Cardinality(1..n) = n
  BY <1>1, FS_Interval
<1>6. f \in Surjection(1..n, S)
  BY <1>4, <1>5, FS_Injection DEF n
<1>7. f \in Seq(S) /\ Len(f) = n
  BY <1>1, <1>3
<1>8. DOMAIN f = 1..n /\ \A i \in 1..n : f[i] \in S
  BY <1>3
<1>9. \A x \in S : \E i \in 1..n : f[i] = x
  BY <1>6 DEF Surjection
<1>10. \A i, k \in 1..n : f[i] = f[k] => i = k
  BY <1>3, <1>8 DEF IsInjective
<1>. QED BY <1>1, <1>7, <1>8, <1>9, <1>10 DEF f

\* The rules a repository starts with are sound.
LEMMA StartRulesSound ==
  ASSUME NEW kind \in {"none", "shared", "split", "connected"}, NEW others
  PROVE  /\ StartRules(kind) \in Seq(Rules) /\ Sound(StartRules(kind), others)
         /\ Fors(StartRules(kind)) # {} => "all" \in Fors(StartRules(kind))
<1>. USE DEF Sound, OwnRulesOwnKeys, BundleRulesForTheOperator, SharedRulesFor, BundleFirst,
     OwnFirst, Fors
<1>0. \A k \in {"bundle", "all"} : /\ Rule(k, {"operator"}) \in Rules
                                   /\ Rule(k, {"operator"}).for = k
                                   /\ Rule(k, {"operator"}).keys = {"operator"}
  BY DEF Rule, Rules, Key
<1>1. CASE kind = "none"
  <2>1. StartRules(kind) = <<>>
    BY <1>1 DEF StartRules
  <2>. QED BY <2>1
<1>2. CASE kind = "shared"
  <2>1. StartRules(kind) = <<Rule("all", {"operator"})>>
    BY <1>2 DEF StartRules
  <2>. QED BY <1>0, <2>1, ClusterAssumption
<1>3. CASE kind = "split"
  <2>1. StartRules(kind) = <<Rule("bundle", {"operator"}), Rule("all", {"operator"})>>
    BY <1>3 DEF StartRules, AppsConfig
  <2>. QED BY <1>0, <2>1, ClusterAssumption
<1>4. CASE kind = "connected"
  <2>. DEFINE S == {Rule(c, {"operator", c}) : c \in Cluster}
              s == SetToSeq(S)
              b == Rule("bundle", {"operator"})
              a == Rule("all", {"operator"})
              t == (<<b>> \o s) \o <<a>>
  <2>1. StartRules(kind) = t
    BY <1>4 DEF StartRules, AppsConfig
  <2>2. IsFiniteSet(S)
    <3>. DEFINE f == [c \in Cluster |-> Rule(c, {"operator", c})]
    <3>1. f \in Surjection(Cluster, S)
      BY DEF Surjection
    <3>. HIDE DEF f, S
    <3>. QED BY <3>1, FS_Surjection, ClusterAssumption
  <2>3. \A r \in S : r \in Rules /\ r.for \in Cluster /\ r.keys \subseteq {"operator", r.for}
    BY DEF Rule, Rules, Key
  <2>. HIDE DEF S
  <2>4. /\ s \in Seq(S) /\ Len(s) \in Nat
        /\ \A i \in 1..Len(s) : s[i] \in S
    BY <2>2, SetToSeqIs
  <2>. HIDE DEF s
  <2>5. a \in Rules /\ a.for = "all" /\ a.keys = {"operator"}
        /\ b \in Rules /\ b.for = "bundle" /\ b.keys = {"operator"}
    BY <1>0
  <2>. HIDE DEF a, b
  <2>6. s \in Seq(Rules)
    BY <2>3, <2>4
  <2>7. <<a>> \in Seq(Rules) /\ <<b>> \in Seq(Rules) /\ Len(<<a>>) = 1 /\ Len(<<b>>) = 1
    BY <2>5
  <2>8. /\ <<b>> \o s \in Seq(Rules) /\ Len(<<b>> \o s) = Len(s) + 1
        /\ (<<b>> \o s)[1] = b /\ \A i \in 2..(Len(s) + 1) : (<<b>> \o s)[i] = s[i - 1]
    BY <2>4, <2>6, <2>7, ConcatProperties
  <2>9. /\ t \in Seq(Rules) /\ Len(t) = Len(s) + 2
        /\ \A i \in 1..(Len(s) + 1) : t[i] = (<<b>> \o s)[i]
        /\ t[Len(s) + 2] = a
    <3>. DEFINE c == <<b>> \o s
    <3>1. c \in Seq(Rules) /\ Len(c) = Len(s) + 1
      BY <2>8
    <3>. HIDE DEF c
    <3>2. /\ c \o <<a>> \in Seq(Rules) /\ Len(c \o <<a>>) = Len(c) + 1
          /\ \A i \in 1..(Len(c) + 1) :
                (c \o <<a>>)[i] = IF i <= Len(c) THEN c[i] ELSE <<a>>[i - Len(c)]
      BY <2>7, <3>1, ConcatProperties
    <3>. QED BY <2>4, <3>1, <3>2 DEF c
  <2>. HIDE DEF t
  <2>10. /\ t[1] = b /\ t[Len(t)] = a
         /\ \A i \in 2..(Len(t) - 1) : t[i] \in S
    <3>1. t[1] = b
      BY <2>4, <2>8, <2>9
    <3>2. t[Len(t)] = a
      BY <2>9
    <3>3. ASSUME NEW i \in 2..(Len(t) - 1) PROVE t[i] \in S
      <4>1. i \in 1..(Len(s) + 1) /\ i \in 2..(Len(s) + 1) /\ i - 1 \in 1..Len(s)
        BY <2>4, <2>9
      <4>2. t[i] = s[i - 1]
        BY <2>8, <2>9, <4>1
      <4>. QED BY <2>4, <4>1, <4>2
    <3>. QED BY <3>1, <3>2, <3>3
  <2>11. \A i \in 1..Len(t) :
            \/ i = 1 /\ t[i].for = "bundle" /\ t[i].keys = {"operator"}
            \/ i = Len(t) /\ t[i].for = "all" /\ t[i].keys = {"operator"}
            \/ i < Len(t) /\ t[i].for \in Cluster /\ t[i].keys \subseteq {"operator", t[i].for}
    BY <2>3, <2>4, <2>5, <2>9, <2>10
  <2>12. Len(t) \in 1..Len(t) /\ t[Len(t)].for = "all"
    BY <2>4, <2>5, <2>9
  <2>. QED BY <2>1, <2>9, <2>11, <2>12, ClusterAssumption
<1>. QED BY <1>1, <1>2, <1>3, <1>4

-----------------------------------------------------------------------------
(* The inductive invariant. *)

\* The clusters a repository is made for.
Inits(asked) == {r.who : r \in {q \in asked : q.op = "init"}}

\* There is a rule for everything as soon as there is one, and the rules are sound.
RulesOk ==
    /\ Fors(rules) # {} => "all" \in Fors(rules)
    /\ Sound(rules, Inits(scenario.asks))

\* A handler that edits an entry is about a SOPS file.
ListJob(j) ==
    j.step \in {"unlist", "list", "prune", "remove"} =>
        j.op \in {"new", "delete", "move"} /\ j.child \in Path \cup Folder

\* A handler that read a file under its lock still has both.
HeldJob(w, j, docs, locks) ==
    j.op \in {"edit", "delete", "move", "ip"} /\ j.step \in {"held", "create", "created"} =>
        /\ locks[j.src] = w
        /\ docs[j.src] = j.seen /\ j.seen # NoFile
        /\ j.got.name = j.seen.name
        /\ j.step = "held" => j.got = j.seen

\* What is about to be created is a secret, for those who may read it there.
NewFile(j) == IF j.op = "new" THEN j.src ELSE j.dst
KeysOf(p) == {"operator", Owner[In[p]]}
CreateJob(j) ==
    j.op \in {"new", "move"} /\ j.step = "create" =>
        j.got.name # 0 /\ j.got.keys \subseteq KeysOf(NewFile(j))

\* What adds a key to the rules finds the rules it needs.
RuledJob(j, rs) ==
    /\ j.op = "flux" \/ (j.op = "connect" /\ j.step = "key") =>
          j.who \in Cluster /\ j.who \in Fors(rs)
    /\ j.op \in {"connect", "init"} /\ j.step = "rule" => Fors(rs) # {}
    /\ j.op \in {"connect", "init"} => j.who \in Cluster

\* What a handler does is what one asked for.
AskedJob(j, asked) ==
    /\ j.op \in {"new", "move"} => \E r \in asked : r.op = j.op /\ r.src = j.src /\ r.dst = j.dst
    /\ j.op = "init" => j.who \in Inits(asked)

\* The files that get Flux's key are its cluster's.
FluxJob(j) == j.op = "flux" => \A t \in j.todo : Owner[In[t[1]]] = j.who /\ t[2] # NoFile

Lawful(j, rs, asked) ==
    ListJob(j) /\ CreateJob(j) /\ RuledJob(j, rs) /\ AskedJob(j, asked) /\ FluxJob(j)

JobsOk ==
    \A w \in Worker : /\ Lawful(job[w], rules, scenario.asks)
                      /\ HeldJob(w, job[w], doc, lock)

\* A file that is there has a name, and nobody reads it who may not.
DocsOk ==
    /\ \A f \in File : doc[f] # NoFile => doc[f].name # 0
    /\ doc["bundle"].keys \subseteq {"operator"}
    /\ \A p \in Path : doc[p].keys \subseteq KeysOf(p)

\* A secret is in the repository elsewhere than where a move is about to drop it.
Dropped(f) == \E w \in Worker : job[w].op = "move" /\ job[w].step = "created" /\ job[w].src = f
NotLost == \A n \in kept : \E f \in File : doc[f].name = n /\ ~Dropped(f)

IInv == TypeOK /\ RulesOk /\ JobsOk /\ DocsOk /\ NotLost

-----------------------------------------------------------------------------
(* The records of the handlers. *)

\* A version is never taken back.
LEMMA DocGrows ==
  ASSUME rev \in Nat, rev' \in Nat, rev <= rev'
  PROVE  /\ Doc \subseteq Doc' /\ NoFile \in Doc'
         /\ \A op : JobOf(op, Doc) \subseteq JobOf(op, Doc')
<1>1. Doc \subseteq Doc' /\ NoFile \in Doc'
  BY DEF Doc, NoFile
<1>2. \A op : Todo(op, Doc) \subseteq Todo(op, Doc')
  BY <1>1 DEF Todo
<1>3. ASSUME NEW op, NEW j \in JobOf(op, Doc) PROVE j \in JobOf(op, Doc')
  <2>. DEFINE D == Doc
              E == Doc'
  <2>1. D \subseteq E /\ Todo(op, D) \subseteq Todo(op, E)
    BY <1>1, <1>2
  <2>2. j \in JobOf(op, D)
    BY <1>3
  <2>. HIDE DEF D, E
  <2>3. j \in JobOf(op, E)
    BY <2>1, <2>2 DEF JobOf
  <2>. QED BY <2>3 DEF E
<1>. QED BY <1>1, <1>3

\* A kustomization that is not there is one of the lists.
LEMMA NoListIs == NoList \in Resources
  BY DEF Resources

\* An idle handler.
LEMMA IdleIs ==
  ASSUME NEW docs, NoFile \in docs
  PROVE  /\ Idle \in JobOf("none", docs) /\ Idle.op = "none" /\ Idle.step = "idle"
         /\ \A rs, asked : Lawful(Idle, rs, asked)
         /\ \A w, ds, locks : HeldJob(w, Idle, ds, locks)
<1>1. Idle.op = "none" /\ Idle.step = "idle"
  BY DEF Idle
<1>2. \A rs, asked : Lawful(Idle, rs, asked)
  BY <1>1 DEF Lawful, ListJob, CreateJob, RuledJob, AskedJob, FluxJob
<1>3. \A w, ds, locks : HeldJob(w, Idle, ds, locks)
  BY <1>1 DEF HeldJob
<1>4. Idle \in JobOf("none", docs)
  <2>1. NoList \in Resources /\ {} \in Todo("none", docs)
    BY NoListIs DEF Todo
  <2>2. "spec" \in Files("none") /\ "idle" \in Steps /\ "spec" \in Entry("none")
    BY DEF Files, File, Steps, Entry
  <2>. QED BY <2>1, <2>2 DEF Idle, JobOf
<1>. QED BY <1>1, <1>2, <1>3, <1>4

\* The fields of a handler.
LEMMA FieldsOf ==
  ASSUME NEW op, NEW docs, NEW j \in JobOf(op, docs)
  PROVE  /\ j.op = op /\ j.src \in Files(op) /\ j.dst \in Files(op)
         /\ j.who \in Cluster \cup {"none"} /\ j.step \in Steps
         /\ j.seen \in docs /\ j.got \in docs /\ j.child \in Path \cup Folder \cup {"spec"}
         /\ j.todo \in Todo(op, docs) /\ j.read \in Resources
         /\ j.src \in File /\ j.dst \in File
         /\ j.child = "spec" \/ op \in {"new", "delete", "move"}
  BY DEF JobOf, Files, File, Entry

Same(k, j, fields) ==
    /\ k.op = j.op /\ k.src = j.src /\ k.dst = j.dst /\ k.who = j.who
    /\ "step" \in fields \/ k.step = j.step
    /\ "seen" \in fields \/ k.seen = j.seen
    /\ "got" \in fields \/ k.got = j.got
    /\ "child" \in fields \/ k.child = j.child
    /\ "todo" \in fields \/ k.todo = j.todo
    /\ "read" \in fields \/ k.read = j.read

\* A handler that goes on to a step.
LEMMA StepIs ==
  ASSUME NEW op, NEW docs, NEW j \in JobOf(op, docs), NEW s \in Steps
  PROVE  LET k == [j EXCEPT !.step = s]
         IN  k \in JobOf(op, docs) /\ k.step = s /\ Same(k, j, {"step"})
  BY DEF JobOf, Same

\* A handler that reads its file.
LEMMA HeldIs ==
  ASSUME NEW op, NEW docs, NEW j \in JobOf(op, docs), NEW d \in docs
  PROVE  LET k == [j EXCEPT !.step = "held", !.seen = d, !.got = d]
         IN  /\ k \in JobOf(op, docs) /\ k.step = "held" /\ k.seen = d /\ k.got = d
             /\ Same(k, j, {"step", "seen", "got"})
  BY DEF JobOf, Same, Steps

\* A handler that encrypts a file.
LEMMA CreateIs ==
  ASSUME NEW op, NEW docs, NEW j \in JobOf(op, docs), NEW d \in docs
  PROVE  LET k == [j EXCEPT !.step = "create", !.got = d]
         IN  /\ k \in JobOf(op, docs) /\ k.step = "create" /\ k.got = d
             /\ Same(k, j, {"step", "got"})
  BY DEF JobOf, Same, Steps

\* A request that edits entries.
Lister(op) == op \in {"new", "delete", "move"}

\* A handler that goes to an entry.
LEMMA ChildIs ==
  ASSUME NEW op, NEW docs, NEW j \in JobOf(op, docs), NEW c \in Path \cup Folder,
         Lister(op)
  PROVE  LET k == [j EXCEPT !.step = "unlist", !.child = c]
         IN  /\ k \in JobOf(op, docs) /\ k.step = "unlist" /\ k.child = c
             /\ Same(k, j, {"step", "child"})
  BY DEF JobOf, Same, Steps, Entry, Lister

AreFolders(T) == T \subseteq Folder

\* A handler that makes the kustomizations on its way.
LEMMA PlanIs ==
  ASSUME NEW op, NEW docs, NEW j \in JobOf(op, docs), NEW c \in Path \cup Folder, Lister(op),
         NEW T, AreFolders(T)
  PROVE  LET k == [j EXCEPT !.step = "list", !.child = c, !.todo = T]
         IN  /\ k \in JobOf(op, docs) /\ k.step = "list" /\ k.child = c /\ k.todo = T
             /\ Same(k, j, {"step", "child", "todo"})
  BY DEF JobOf, Same, Steps, Todo, Entry, Lister, AreFolders

\* ... one after another.
LEMMA MadeIs ==
  ASSUME NEW op, NEW docs, NEW j \in JobOf(op, docs), NEW f \in Folder, Lister(op)
  PROVE  LET k == [j EXCEPT !.child = f, !.todo = @ \ {f}]
         IN  /\ k \in JobOf(op, docs) /\ k.child = f
             /\ Same(k, j, {"child", "todo"})
  BY DEF JobOf, Same, Todo, Entry, Lister

\* A delete that looks at the kustomization it wrote.
LEMMA PruneIs ==
  ASSUME NEW op, NEW docs, NEW j \in JobOf(op, docs)
  PROVE  LET k == [j EXCEPT !.step = "prune", !.read = NoList]
         IN  /\ k \in JobOf(op, docs) /\ k.step = "prune"
             /\ Same(k, j, {"step", "read"})
  BY NoListIs DEF JobOf, Same, Steps

\* A move that goes to its second entry.
LEMMA MovedIs ==
  ASSUME NEW op, NEW docs, NEW j \in JobOf(op, docs), NEW c \in Path \cup Folder,
         Lister(op)
  PROVE  LET k == [j EXCEPT !.step = "list", !.child = c, !.read = NoList]
         IN  /\ k \in JobOf(op, docs) /\ k.step = "list" /\ k.child = c
             /\ Same(k, j, {"step", "child", "read"})
  BY NoListIs DEF JobOf, Same, Steps, Entry, Lister

\* A handler that reads a kustomization.
LEMMA ReadIs ==
  ASSUME NEW op, NEW docs, NEW j \in JobOf(op, docs), NEW r \in Resources
  PROVE  LET k == [j EXCEPT !.read = r]
         IN  k \in JobOf(op, docs) /\ Same(k, j, {"read"})
  BY DEF JobOf, Same

\* A handler that lists the files to encrypt anew.
LEMMA ScanIs ==
  ASSUME NEW docs, NEW j \in JobOf("flux", docs), NEW T \in SUBSET (Path \X docs)
  PROVE  LET k == [j EXCEPT !.step = "rekey", !.todo = T]
         IN  /\ k \in JobOf("flux", docs) /\ k.step = "rekey" /\ k.todo = T
             /\ Same(k, j, {"step", "todo"})
  BY DEF JobOf, Same, Steps, Todo

\* ... one after another.
LEMMA RekeyIs ==
  ASSUME NEW op, NEW docs, NEW j \in JobOf(op, docs), NEW t
  PROVE  LET k == [j EXCEPT !.todo = @ \ {t}]
         IN  /\ k \in JobOf(op, docs) /\ k.todo = j.todo \ {t}
             /\ Same(k, j, {"todo"})
  BY DEF JobOf, Same, Todo

-----------------------------------------------------------------------------
(* What a step of one handler leaves to the others. *)

\* The others keep what they hold, and the rules only grow.
LEMMA JobMoves ==
  ASSUME TypeOK, JobsOk, NEW w \in Worker, NEW j, job' = [job EXCEPT ![w] = j],
         rev' \in Nat, rev <= rev', scenario' = scenario, Fors(rules) \subseteq Fors(rules'),
         j \in JobOf(j.op, Doc'), Lawful(j, rules', scenario.asks), HeldJob(w, j, doc', lock'),
         \A p \in File : lock[p] \notin {Free, w} => lock'[p] = lock[p] /\ doc'[p] = doc[p]
  PROVE  /\ job' = [v \in Worker |-> job'[v]]
         /\ \A v \in Worker : job'[v] \in JobOf(job'[v].op, Doc')
         /\ JobsOk'
<1>1. /\ job' = [v \in Worker |-> job'[v]] /\ job'[w] = j
      /\ \A v \in Worker \ {w} : job'[v] = job[v]
  BY DEF TypeOK
<1>2. \A v \in Worker : job'[v] \in JobOf(job'[v].op, Doc')
  BY <1>1, DocGrows DEF TypeOK
<1>3. ASSUME NEW v \in Worker
      PROVE  Lawful(job'[v], rules', scenario'.asks) /\ HeldJob(v, job'[v], doc', lock')
  <2>1. CASE v = w
    BY <1>1, <2>1
  <2>2. CASE v # w
    <3>1. job'[v] = job[v] /\ Lawful(job[v], rules, scenario.asks) /\ HeldJob(v, job[v], doc, lock)
      BY <1>1, <2>2 DEF JobsOk
    <3>2. Lawful(job[v], rules', scenario.asks)
      BY <3>1 DEF Lawful, RuledJob
    <3>3. job[v].src \in File
      BY FieldsOf DEF TypeOK
    <3>4. v # Free
      BY BoundAssumption DEF Free
    <3>5. HeldJob(v, job[v], doc', lock')
      BY <2>2, <3>1, <3>3, <3>4 DEF HeldJob
    <3>. QED BY <3>1, <3>2, <3>5
  <2>. QED BY <2>1, <2>2
<1>4. JobsOk'
  BY <1>3 DEF JobsOk
<1>. QED BY <1>1, <1>2, <1>4

\* A step that writes no file.
LEMMA QuietKeeps ==
  ASSUME IInv, NEW w \in Worker, NEW j, job' = [job EXCEPT ![w] = j],
         rev' \in Nat, rev <= rev', UNCHANGED <<doc, kept, shown, trouble, scenario>>,
         asks' \in 0..MaxAsks, kust' \in [Folder -> Resources], excused' \subseteq File \cup Folder,
         rules' \in Seq(Rules), RulesOk', Fors(rules) \subseteq Fors(rules'),
         j \in JobOf(j.op, Doc'), Lawful(j, rules', scenario.asks), HeldJob(w, j, doc, lock'),
         ~(j.op = "move" /\ j.step = "created"),
         lock' \in [File \cup Folder -> Worker \cup {Free}],
         \A p \in File : lock[p] \notin {Free, w} => lock'[p] = lock[p]
  PROVE  IInv'
<1>1. /\ job' = [v \in Worker |-> job'[v]]
      /\ \A v \in Worker : job'[v] \in JobOf(job'[v].op, Doc')
      /\ JobsOk'
  BY JobMoves DEF IInv
<1>2. doc' \in [File -> Doc'] /\ shown' \in [File -> Doc'] /\ kept' \subseteq 1..rev'
  BY DocGrows DEF IInv, TypeOK
<1>3. TypeOK'
  BY <1>1, <1>2 DEF IInv, TypeOK
<1>4. DocsOk'
  BY DEF IInv, DocsOk
<1>5. \A f : Dropped(f)' => Dropped(f)
  <2>1. \A v \in Worker : job'[v] = IF v = w THEN j ELSE job[v]
    BY DEF IInv, TypeOK
  <2>. QED BY <2>1 DEF Dropped
<1>6. NotLost'
  BY <1>5 DEF IInv, NotLost
<1>. QED BY <1>1, <1>3, <1>4, <1>6 DEF IInv

\* The rules as they are.
LEMMA SameRules ==
  ASSUME IInv, UNCHANGED <<rules, scenario>>
  PROVE  rules' \in Seq(Rules) /\ RulesOk' /\ Fors(rules) \subseteq Fors(rules')
  BY DEF IInv, TypeOK, RulesOk

\* An answer leaves the handler's locks, and no other's.
LEMMA AnswersIs ==
  ASSUME TypeOK, NEW w \in Worker, Answers(w)
  PROVE  /\ job' = [job EXCEPT ![w] = Idle]
         /\ lock' \in [File \cup Folder -> Worker \cup {Free}]
         /\ \A p \in File \cup Folder : lock[p] \notin {Free, w} => lock'[p] = lock[p]
  BY DEF TypeOK, Answers, Becomes

\* A handler that answers without having written a file.
LEMMA AnswerKeeps ==
  ASSUME IInv, NEW w \in Worker, Answers(w),
         UNCHANGED <<doc, rules, kept, rev, shown, asks, trouble, scenario>>,
         kust' \in [Folder -> Resources], excused' \subseteq File \cup Folder
  PROVE  IInv'
<1>1. NoFile \in Doc'
  BY DocGrows DEF IInv, TypeOK
<1>2. /\ Idle \in JobOf("none", Doc') /\ Idle.op = "none" /\ Lawful(Idle, rules', scenario.asks)
      /\ HeldJob(w, Idle, doc, lock')
  BY <1>1, IdleIs
<1>3. /\ job' = [job EXCEPT ![w] = Idle]
      /\ lock' \in [File \cup Folder -> Worker \cup {Free}]
      /\ \A p \in File : lock[p] \notin {Free, w} => lock'[p] = lock[p]
  BY AnswersIs DEF IInv
<1>4. rev' \in Nat /\ rev <= rev' /\ asks' \in 0..MaxAsks
  BY DEF IInv, TypeOK
<1>5. rules' \in Seq(Rules) /\ RulesOk' /\ Fors(rules) \subseteq Fors(rules')
  BY SameRules
<1>. QED BY <1>2, <1>3, <1>4, <1>5, QuietKeeps

\* A handler that goes on without having written anything.
LEMMA GoesKeeps ==
  ASSUME IInv, NEW w \in Worker, NEW j, Becomes(w, j),
         UNCHANGED <<doc, kust, rules, kept, rev, excused, shown, asks, trouble, scenario>>,
         j \in JobOf(j.op, Doc), Lawful(j, rules, scenario.asks), HeldJob(w, j, doc, lock'),
         ~(j.op = "move" /\ j.step = "created"),
         lock' \in [File \cup Folder -> Worker \cup {Free}],
         \A p \in File : lock[p] \notin {Free, w} => lock'[p] = lock[p]
  PROVE  IInv'
<1>1. rev' \in Nat /\ rev <= rev' /\ asks' \in 0..MaxAsks
      /\ kust' \in [Folder -> Resources] /\ excused' \subseteq File \cup Folder
  BY DEF IInv, TypeOK
<1>2. rules' \in Seq(Rules) /\ RulesOk' /\ Fors(rules) \subseteq Fors(rules')
  BY SameRules
<1>3. j \in JobOf(j.op, Doc')
  BY <1>1, DocGrows DEF IInv, TypeOK
<1>4. job' = [job EXCEPT ![w] = j] /\ Lawful(j, rules', scenario.asks)
  BY DEF Becomes
<1>. QED BY <1>1, <1>2, <1>3, <1>4, QuietKeeps

\* What is known of a handler.
LEMMA JobIs ==
  ASSUME IInv, NEW w \in Worker
  PROVE  /\ job[w] \in JobOf(job[w].op, Doc)
         /\ job[w].src \in Files(job[w].op) /\ job[w].dst \in Files(job[w].op)
         /\ job[w].src \in File /\ job[w].dst \in File
         /\ job[w].who \in Cluster \cup {"none"} /\ job[w].step \in Steps
         /\ job[w].seen \in Doc /\ job[w].got \in Doc
         /\ job[w].child \in Path \cup Folder \cup {"spec"}
         /\ job[w].todo \in Todo(job[w].op, Doc) /\ job[w].read \in Resources
         /\ Lawful(job[w], rules, scenario.asks) /\ HeldJob(w, job[w], doc, lock)
         /\ job[w].child = "spec" \/ job[w].op \in {"new", "delete", "move"}
         /\ w # Free
  BY FieldsOf, BoundAssumption DEF IInv, TypeOK, JobsOk, Free

-----------------------------------------------------------------------------
(* Requests, and the handlers up to the write. *)

\* A request starts a handler.
LEMMA AskKeeps ==
  ASSUME IInv, NEW w \in Worker, NEW r \in scenario.asks, Ask(w, r)
  PROVE  IInv'
<1>. DEFINE j == [Idle EXCEPT !.op = r.op, !.src = r.src, !.dst = r.dst, !.who = r.who,
                              !.seen = shown[r.src], !.step = "start"]
<1>1. r \in Requests
  BY ScenarioAssumption DEF IInv, TypeOK
<1>2. /\ r.op \in {"edit", "ip", "delete", "new", "move", "flux", "connect", "init"}
      /\ r.src \in Files(r.op) /\ r.dst \in Files(r.op) /\ r.src \in File /\ r.who \in Cluster
  BY <1>1 DEF Requests
<1>3. shown[r.src] \in Doc /\ NoFile \in Doc /\ NoList \in Resources
  BY <1>2, NoListIs DEF IInv, TypeOK, Doc, NoFile
<1>4. /\ j.op = r.op /\ j.src = r.src /\ j.dst = r.dst /\ j.who = r.who
      /\ j.step = "start" /\ j.todo = {}
  BY DEF Idle
<1>5. j \in JobOf(j.op, Doc)
  <2>1. {} \in Todo(r.op, Doc) /\ "start" \in Steps
    BY DEF Todo, Steps
  <2>2. "spec" \in Entry(r.op)
    BY DEF Entry
  <2>. QED BY <1>2, <1>3, <1>4, <2>1, <2>2 DEF JobOf, Idle
<1>6. r.op = "flux" => r.who \in Fors(rules)
  BY DEF Ask, Fors, IInv, TypeOK
<1>. HIDE DEF j
<1>7. Lawful(j, rules, scenario.asks)
  BY <1>2, <1>4, <1>6 DEF Lawful, ListJob, CreateJob, RuledJob, AskedJob, FluxJob, Inits
<1>8. HeldJob(w, j, doc, lock')
  BY <1>4 DEF HeldJob
<1>9. /\ job' = [job EXCEPT ![w] = j] /\ asks' \in 0..MaxAsks
      /\ UNCHANGED <<doc, kust, rules, kept, rev, excused, shown, lock, trouble, scenario>>
  <2>1. asks' \in 0..MaxAsks
    BY BoundAssumption DEF Ask, IInv, TypeOK
  <2>. QED BY <2>1 DEF Ask, Becomes, NoWrite, j
<1>10. rules' \in Seq(Rules) /\ RulesOk' /\ Fors(rules) \subseteq Fors(rules')
  BY <1>9, SameRules
<1>11. /\ rev' \in Nat /\ rev <= rev' /\ kust' \in [Folder -> Resources]
       /\ excused' \subseteq File \cup Folder /\ lock' \in [File \cup Folder -> Worker \cup {Free}]
       /\ j \in JobOf(j.op, Doc')
  BY <1>5, <1>9, DocGrows DEF IInv, TypeOK
<1>12. Lawful(j, rules', scenario.asks) /\ ~(j.op = "move" /\ j.step = "created")
       /\ \A p \in File : lock[p] \notin {Free, w} => lock'[p] = lock[p]
  BY <1>4, <1>7, <1>9
<1>. QED BY <1>8, <1>9, <1>10, <1>11, <1>12, QuietKeeps

\* The lock, the file and its hash.
LEMMA ReadKeeps ==
  ASSUME IInv, NEW w \in Worker, Read(w)
  PROVE  IInv'
<1>. DEFINE p == job[w].src
            j == [job[w] EXCEPT !.step = "held", !.seen = doc[p], !.got = doc[p]]
<1>1. UNCHANGED <<doc, kust, rules, kept, rev, excused, shown, asks, trouble, scenario>>
  BY DEF Read, Quietly, NoWrite
<1>2. CASE Answers(w)
  BY <1>1, <1>2, AnswerKeeps DEF IInv, TypeOK
<1>3. CASE ~Answers(w)
  <2>1. /\ job[w].op \in {"edit", "delete", "move", "ip"} /\ lock[p] = Free /\ doc[p] # NoFile
        /\ Takes(w, p) /\ Becomes(w, j)
    BY <1>3 DEF Read, At
  <2>2. p \in File /\ job[w] \in JobOf(job[w].op, Doc) /\ doc[p] \in Doc
        /\ Lawful(job[w], rules, scenario.asks)
    BY JobIs DEF IInv, TypeOK
  <2>3. /\ j \in JobOf(job[w].op, Doc) /\ j.step = "held" /\ j.seen = doc[p] /\ j.got = doc[p]
        /\ Same(j, job[w], {"step", "seen", "got"})
    BY <2>2, HeldIs
  <2>. HIDE DEF j
  <2>4. j.op = job[w].op /\ j.src = p /\ j.dst = job[w].dst
    BY <2>3 DEF Same
  <2>5. Lawful(j, rules, scenario.asks)
    BY <2>1, <2>2, <2>3, <2>4 DEF Lawful, ListJob, CreateJob, RuledJob, AskedJob, FluxJob
  <2>6. /\ lock' \in [File \cup Folder -> Worker \cup {Free}] /\ lock'[p] = w
        /\ \A q \in File : lock[q] \notin {Free, w} => lock'[q] = lock[q]
    BY <2>1, <2>2 DEF Takes, IInv, TypeOK
  <2>7. HeldJob(w, j, doc, lock')
    BY <2>1, <2>3, <2>4, <2>6 DEF HeldJob
  <2>. QED BY <1>1, <2>1, <2>3, <2>4, <2>5, <2>6, <2>7, GoesKeeps
<1>. QED BY <1>2, <1>3

\* A new file is looked for, and not found.
LEMMA StatKeeps ==
  ASSUME IInv, NEW w \in Worker, Stat(w)
  PROVE  IInv'
<1>. DEFINE j == [job[w] EXCEPT !.step = "held"]
<1>1. UNCHANGED <<doc, kust, rules, kept, rev, excused, shown, asks, trouble, scenario>>
  BY DEF Stat, Quietly, NoWrite
<1>2. CASE Answers(w)
  BY <1>1, <1>2, AnswerKeeps DEF IInv, TypeOK
<1>3. CASE ~Answers(w)
  <2>1. job[w].op = "new" /\ Becomes(w, j) /\ lock' = lock
    BY <1>3 DEF Stat, At, Goes
  <2>2. job[w] \in JobOf(job[w].op, Doc) /\ Lawful(job[w], rules, scenario.asks)
    BY JobIs
  <2>3. j \in JobOf(job[w].op, Doc) /\ j.step = "held" /\ Same(j, job[w], {"step"})
    BY <2>2, StepIs DEF Steps
  <2>. HIDE DEF j
  <2>4. j.op = "new" /\ j.src = job[w].src /\ j.dst = job[w].dst
    BY <2>1, <2>3 DEF Same
  <2>5. Lawful(j, rules, scenario.asks) /\ HeldJob(w, j, doc, lock')
    BY <2>1, <2>2, <2>3, <2>4
       DEF Lawful, ListJob, CreateJob, RuledJob, AskedJob, FluxJob, HeldJob
  <2>6. /\ lock' \in [File \cup Folder -> Worker \cup {Free}]
        /\ \A q \in File : lock[q] \notin {Free, w} => lock'[q] = lock[q]
    BY <2>1 DEF IInv, TypeOK
  <2>. QED BY <1>1, <2>1, <2>3, <2>4, <2>5, <2>6, GoesKeeps
<1>. QED BY <1>2, <1>3

\* Whom a file of a path is encrypted to.
LEMMA KeysOfPath ==
  ASSUME IInv, NEW p \in Path
  PROVE  /\ RuleFor(Class(p)) \subseteq Key
         /\ RuleFor(Class(p)) \subseteq KeysOf(p) \cup Inits(scenario.asks)
         /\ Owner[In[p]] \in Cluster \cap Fors(rules) => RuleFor(Class(p)) \subseteq KeysOf(p)
<1>1. Class(p) = Owner[In[p]] /\ Owner[In[p]] \in Cluster \cup {"none"}
  BY FolderAssumption DEF Class
<1>2. rules \in Seq(Rules) /\ Sound(rules, Inits(scenario.asks))
  BY DEF IInv, TypeOK, RulesOk
<1>. QED BY <1>1, <1>2, RuleForIs DEF KeysOf

\* A file is encrypted to those who may read it where it goes.
LEMMA EncryptKeeps ==
  ASSUME IInv, NEW w \in Worker, Encrypt(w)
  PROVE  IInv'
<1>. DEFINE keys == RuleFor(Class(Target(w)))
            v == job[w].got
            d == IF job[w].op = "new" THEN Version(rev + 1, rev + 1, keys)
                 ELSE IF v.keys = keys THEN v
                 ELSE Version(v.name, rev + 1, keys)
            j == [job[w] EXCEPT !.step = "create", !.got = d]
<1>1. UNCHANGED <<doc, kust, rules, kept, excused, shown, asks, trouble, scenario>>
  BY DEF Encrypt, Quietly
<1>2. CASE keys = {}
  <2>1. Answers(w) /\ rev' = rev
    BY <1>2 DEF Encrypt
  <2>. QED BY <1>1, <2>1, AnswerKeeps DEF IInv, TypeOK
<1>3. CASE keys # {}
  <2>1. /\ job[w].op \in {"new", "move"} /\ job[w].step = "held"
        /\ rev' = rev + 1 /\ job' = [job EXCEPT ![w] = j] /\ lock' = lock
    BY <1>3 DEF Encrypt, At, Becomes
  <2>2. /\ job[w] \in JobOf(job[w].op, Doc) /\ Lawful(job[w], rules, scenario.asks)
        /\ HeldJob(w, job[w], doc, lock) /\ v \in Doc
        /\ job[w].src \in Path /\ job[w].dst \in Path /\ job[w].src \in File
    BY <2>1, JobIs DEF Files
  <2>3. rev \in Nat /\ rev' \in Nat /\ rev <= rev'
    BY <2>1 DEF IInv, TypeOK
  <2>4. Target(w) = NewFile(job[w]) /\ Target(w) \in Path
    BY <2>2 DEF Target, NewFile
  <2>5. keys \subseteq Key /\ keys \subseteq KeysOf(Target(w))
    <3>1. PICK r \in scenario.asks : r.op = job[w].op /\ r.src = job[w].src /\ r.dst = job[w].dst
      BY <2>1, <2>2 DEF Lawful, AskedJob
    <3>2. scenario \in Scenarios
      BY DEF IInv, TypeOK
    <3>3. \A i \in scenario.asks : i.op = "init" => Owner[In[Target(w)]] = i.who
      BY <2>1, <3>1, <3>2, ScenarioAssumption DEF Target
    <3>4. Inits(scenario.asks) \subseteq KeysOf(Target(w))
      BY <3>3 DEF Inits, KeysOf
    <3>. QED BY <2>4, <3>4, KeysOfPath
  <2>. HIDE DEF keys
  <2>6. v.name # 0 \/ job[w].op = "new"
    BY <2>1, <2>2 DEF HeldJob, IInv, DocsOk
  <2>7. d \in Doc' /\ d.name # 0 /\ d.keys = keys /\ (job[w].op = "move" => d.name = v.name)
    BY <2>1, <2>2, <2>3, <2>5, <2>6 DEF Doc, Version
  <2>8. job[w] \in JobOf(job[w].op, Doc')
    BY <2>2, <2>3, DocGrows
  <2>. HIDE DEF d
  <2>9. /\ j \in JobOf(job[w].op, Doc') /\ j.step = "create" /\ j.got = d
        /\ Same(j, job[w], {"step", "got"})
    BY <2>7, <2>8, CreateIs
  <2>. HIDE DEF j, v
  <2>10. j.op = job[w].op /\ j.src = job[w].src /\ j.dst = job[w].dst /\ j.seen = job[w].seen
    BY <2>9 DEF Same
  <2>11. Lawful(j, rules, scenario.asks)
    <3>1. CreateJob(j)
      BY <2>4, <2>5, <2>7, <2>9, <2>10 DEF CreateJob, NewFile
    <3>. QED BY <2>1, <2>2, <2>9, <2>10, <3>1
             DEF Lawful, ListJob, RuledJob, AskedJob, FluxJob
  <2>12. HeldJob(w, j, doc, lock')
    BY <2>1, <2>2, <2>7, <2>9, <2>10 DEF HeldJob, v
  <2>13. rules' \in Seq(Rules) /\ RulesOk' /\ Fors(rules) \subseteq Fors(rules')
    BY <1>1, SameRules
  <2>14. /\ asks' \in 0..MaxAsks /\ kust' \in [Folder -> Resources]
         /\ excused' \subseteq File \cup Folder
         /\ lock' \in [File \cup Folder -> Worker \cup {Free}]
         /\ \A p \in File : lock[p] \notin {Free, w} => lock'[p] = lock[p]
    BY <1>1, <2>1 DEF IInv, TypeOK
  <2>15. j \in JobOf(j.op, Doc') /\ Lawful(j, rules', scenario.asks)
    BY <1>1, <2>9, <2>10, <2>11
  <2>. QED BY <1>1, <2>1, <2>3, <2>9, <2>12, <2>13, <2>14, <2>15, QuietKeeps
<1>. QED BY <1>2, <1>3

-----------------------------------------------------------------------------
(* The writes. *)

\* A step of a handler that writes one file: it holds the file's lock, or nobody does.
LEMMA WriteKeeps ==
  ASSUME IInv, NEW w \in Worker, NEW j, job' = [job EXCEPT ![w] = j],
         NEW f \in File, NEW d \in Doc', doc' = [doc EXCEPT ![f] = d],
         rev' \in Nat, rev <= rev', lock[f] \in {Free, w},
         UNCHANGED <<kust, rules, shown, excused, asks, trouble, scenario>>,
         j \in JobOf(j.op, Doc'), Lawful(j, rules, scenario.asks), HeldJob(w, j, doc', lock'),
         lock' \in [File \cup Folder -> Worker \cup {Free}],
         \A p \in File : lock[p] \notin {Free, w} => lock'[p] = lock[p],
         d # NoFile => d.name # 0,
         f = "bundle" => d.keys \subseteq {"operator"},
         f \in Path => d.keys \subseteq KeysOf(f),
         kept' \subseteq 1..rev', NotLost'
  PROVE  IInv'
<1>0. doc \in [File -> Doc]
  BY DEF IInv, TypeOK
<1>1. /\ doc'[f] = d /\ \A g \in File \ {f} : doc'[g] = doc[g]
  BY <1>0
<1>2. \A p \in File : lock[p] \notin {Free, w} => lock'[p] = lock[p] /\ doc'[p] = doc[p]
  BY <1>1
<1>3. Fors(rules) \subseteq Fors(rules') /\ Lawful(j, rules', scenario.asks)
  OBVIOUS
<1>4. /\ job' = [v \in Worker |-> job'[v]]
      /\ \A v \in Worker : job'[v] \in JobOf(job'[v].op, Doc')
      /\ JobsOk'
  BY <1>2, <1>3, JobMoves DEF IInv
<1>5. doc' \in [File -> Doc'] /\ shown' \in [File -> Doc']
  BY <1>0, DocGrows DEF IInv, TypeOK
<1>6. TypeOK'
  BY <1>4, <1>5 DEF IInv, TypeOK
<1>7. DocsOk'
  <2>1. \A g \in File : doc'[g] # NoFile => doc'[g].name # 0
    BY <1>1 DEF IInv, DocsOk
  <2>2. doc'["bundle"].keys \subseteq {"operator"}
    BY <1>1 DEF IInv, DocsOk, File
  <2>3. \A p \in Path : doc'[p].keys \subseteq KeysOf(p)
    BY <1>1 DEF IInv, DocsOk, File
  <2>. QED BY <2>1, <2>2, <2>3 DEF DocsOk, KeysOf
<1>8. RulesOk'
  BY DEF IInv, RulesOk
<1>. QED BY <1>4, <1>6, <1>7, <1>8 DEF IInv

\* Who drops a file, once a handler has gone on.
LEMMA DroppedIs ==
  ASSUME TypeOK, NEW w \in Worker, NEW j, job' = [job EXCEPT ![w] = j]
  PROVE  \A f : Dropped(f)' => Dropped(f) \/ (j.op = "move" /\ j.step = "created" /\ j.src = f)
<1>1. \A v \in Worker : job'[v] = IF v = w THEN j ELSE job[v]
  BY DEF TypeOK
<1>. QED BY <1>1 DEF Dropped

\* A file that keeps its name keeps the secret.
LEMMA NamesStay ==
  ASSUME NotLost, kept' \subseteq kept, \A f : Dropped(f)' => Dropped(f),
         \A f \in File : doc'[f].name = doc[f].name
  PROVE  NotLost'
  BY DEF NotLost

\* A file is written with a new version and what it had.
Renews(w, f, d) ==
    /\ lock[f] \in {Free, w} /\ doc[f] # NoFile
    /\ d.name = doc[f].name /\ d.rev = rev + 1 /\ d.keys \in {doc[f].keys, {}}
    /\ d = [name |-> d.name, rev |-> d.rev, keys |-> d.keys]
    /\ doc' = [doc EXCEPT ![f] = d] /\ rev' = rev + 1

\* A handler renews a file and answers.
LEMMA VersionKeeps ==
  ASSUME IInv, NEW w \in Worker, Answers(w), NEW f \in File, NEW d, Renews(w, f, d),
         UNCHANGED <<kust, rules, kept, shown, excused, asks, trouble, scenario>>
  PROVE  IInv'
<1>0. /\ lock[f] \in {Free, w} /\ doc[f] # NoFile
      /\ d.name = doc[f].name /\ d.rev = rev' /\ d.keys \in {doc[f].keys, {}}
      /\ d = [name |-> d.name, rev |-> d.rev, keys |-> d.keys]
      /\ doc' = [doc EXCEPT ![f] = d] /\ rev' = rev + 1
  BY DEF Renews
<1>1. rev \in Nat /\ rev' \in Nat /\ rev <= rev' /\ doc \in [File -> Doc] /\ doc[f] \in Doc
  BY <1>0 DEF IInv, TypeOK
<1>2. d.name \in 0..rev' /\ d.rev \in 0..rev' /\ d.keys \in SUBSET Key
  BY <1>0, <1>1 DEF Doc
<1>3. d \in Doc'
  BY <1>0, <1>2 DEF Doc
<1>4. d.name # 0 /\ (f = "bundle" => d.keys \subseteq {"operator"})
      /\ (f \in Path => d.keys \subseteq KeysOf(f))
  BY <1>0 DEF IInv, DocsOk
<1>5. /\ job' = [job EXCEPT ![w] = Idle]
      /\ lock' \in [File \cup Folder -> Worker \cup {Free}]
      /\ \A p \in File : lock[p] \notin {Free, w} => lock'[p] = lock[p]
  BY AnswersIs DEF IInv
<1>6. /\ Idle \in JobOf("none", Doc') /\ Idle.op = "none" /\ Lawful(Idle, rules, scenario.asks)
      /\ HeldJob(w, Idle, doc', lock')
  BY <1>1, DocGrows, IdleIs
<1>7. \A g \in File : doc'[g].name = doc[g].name
  BY <1>0, <1>1
<1>8. \A g : Dropped(g)' => Dropped(g)
  BY <1>5, <1>6, DroppedIs DEF IInv
<1>9. NotLost'
  BY <1>7, <1>8, NamesStay DEF IInv
<1>10. kept' \subseteq 1..rev'
  BY <1>1 DEF IInv, TypeOK
<1>. QED BY <1>0, <1>1, <1>3, <1>4, <1>5, <1>6, <1>9, <1>10, WriteKeeps

\* What a new version is.
LEMMA VersionIs ==
  \A name, n, keys : /\ Version(name, n, keys).name = name /\ Version(name, n, keys).rev = n
                     /\ Version(name, n, keys).keys = keys
                     /\ Version(name, n, keys) = [name |-> name, rev |-> n, keys |-> keys]
  BY DEF Version

\* An edit, of cluster.yaml or a SOPS file, is written under the lock.
LEMMA SavesKeeps ==
  ASSUME IInv, NEW w \in Worker, job[w].op \in {"edit", "ip"}, job[w].step = "held", Saves(w)
  PROVE  IInv'
<1>1. /\ Answers(w) /\ UNCHANGED <<kust, rules, kept, shown, excused, asks, trouble, scenario>>
  BY DEF Saves, Quietly
<1>2. /\ lock[job[w].src] = w /\ doc[job[w].src] = job[w].got /\ doc[job[w].src] # NoFile
      /\ job[w].src \in File
  BY JobIs DEF HeldJob
<1>3. CASE UNCHANGED <<doc, rev>>
  BY <1>1, <1>3, AnswerKeeps DEF IInv, TypeOK
<1>4. CASE ~UNCHANGED <<doc, rev>>
  <2>1. PICK f, d : f \in File /\ f = job[w].src /\ d = Version(doc[f].name, rev + 1, doc[f].keys)
    BY <1>2
  <2>2. doc' = [doc EXCEPT ![f] = d] /\ rev' = rev + 1
    BY <1>2, <1>4, <2>1 DEF Saves, Writes
  <2>3. Renews(w, f, d)
    BY <1>2, <2>1, <2>2, VersionIs DEF Renews
  <2>. QED BY <1>1, <2>1, <2>3, VersionKeeps
<1>. QED BY <1>3, <1>4

\* ConnectApps turns Flux on in the cluster.yaml its request brought along.
LEMMA SetAddonKeeps ==
  ASSUME IInv, NEW w \in Worker, SetAddon(w)
  PROVE  IInv'
<1>1. /\ Answers(w) /\ UNCHANGED <<kust, rules, kept, shown, excused, asks, trouble, scenario>>
  BY DEF SetAddon, Quietly
<1>2. CASE UNCHANGED <<doc, rev>>
  BY <1>1, <1>2, AnswerKeeps DEF IInv, TypeOK
<1>3. CASE ~UNCHANGED <<doc, rev>>
  <2>1. PICK f, d : f \in File /\ f = "spec" /\ d = Version(doc[f].name, rev + 1, {})
    BY DEF File
  <2>2. /\ doc[f] # NoFile /\ lock[f] = Free
        /\ doc' = [doc EXCEPT ![f] = d] /\ rev' = rev + 1
    BY <1>3, <2>1 DEF SetAddon, Writes
  <2>3. Renews(w, f, d)
    BY <2>1, <2>2, VersionIs DEF Renews
  <2>. QED BY <1>1, <2>1, <2>3, VersionKeeps
<1>. QED BY <1>2, <1>3

\* A file is removed by a delete or by a move that has created its copy.
LEMMA RemoveKeeps ==
  ASSUME IInv, NEW w \in Worker, job[w].op \in {"delete", "move"},
         job[w].step \in {"held", "created"},
         doc' = [doc EXCEPT ![job[w].src] = NoFile],
         job' = [job EXCEPT ![w] = [job[w] EXCEPT !.step = "unlist", !.child = job[w].src]],
         UNCHANGED <<kust, rules, lock, rev, shown, excused, asks, trouble, scenario>>,
         kept' \subseteq kept, NotLost'
  PROVE  IInv'
<1>. DEFINE f == job[w].src
            j == [job[w] EXCEPT !.step = "unlist", !.child = f]
            d == NoFile
<1>1. /\ rev' \in Nat /\ rev <= rev' /\ lock' \in [File \cup Folder -> Worker \cup {Free}]
      /\ kept' \subseteq 1..rev' /\ d \in Doc'
  BY DocGrows DEF IInv, TypeOK
<1>2. /\ job[w] \in JobOf(job[w].op, Doc) /\ Lawful(job[w], rules, scenario.asks)
      /\ HeldJob(w, job[w], doc, lock) /\ f \in Path /\ f \in File
  BY JobIs DEF Files
<1>3. job[w] \in JobOf(job[w].op, Doc')
  BY <1>1, <1>2, DocGrows DEF IInv, TypeOK
<1>4. /\ j \in JobOf(job[w].op, Doc') /\ j.step = "unlist" /\ j.child = f
      /\ Same(j, job[w], {"step", "child"})
  <2>1. Lister(job[w].op) /\ f \in Path \cup Folder
    BY <1>2 DEF Lister
  <2>. QED BY <1>3, <2>1, ChildIs
<1>5. doc' = [doc EXCEPT ![f] = d] /\ job' = [job EXCEPT ![w] = j]
  OBVIOUS
<1>6. d.keys = {}
  BY DEF NoFile
<1>7. lock[f] = w
  BY <1>2 DEF HeldJob
<1>. HIDE DEF j, d
<1>8. j.op = job[w].op /\ j.src = f /\ j.dst = job[w].dst
  BY <1>4 DEF Same
<1>9. Lawful(j, rules, scenario.asks) /\ HeldJob(w, j, doc', lock')
  BY <1>2, <1>4, <1>8 DEF Lawful, ListJob, CreateJob, RuledJob, AskedJob, FluxJob, HeldJob
<1>10. /\ \A p \in File : lock[p] \notin {Free, w} => lock'[p] = lock[p]
       /\ lock[f] \in {Free, w} /\ (d # NoFile => d.name # 0)
       /\ (f = "bundle" => d.keys \subseteq {"operator"})
       /\ (f \in Path => d.keys \subseteq KeysOf(f))
  BY <1>6, <1>7 DEF d
<1>11. j \in JobOf(j.op, Doc')
  BY <1>4, <1>8
<1>. HIDE DEF f
<1>. QED BY <1>1, <1>2, <1>5, <1>9, <1>10, <1>11, WriteKeeps

\* A delete takes its secret out of those that are kept.
LEMMA DeleteKeeps ==
  ASSUME IInv, NEW w \in Worker, Delete(w)
  PROVE  IInv'
<1>. DEFINE f == job[w].src
            j == [job[w] EXCEPT !.step = "unlist", !.child = f]
<1>1. /\ job[w].op = "delete" /\ job[w].step = "held"
      /\ doc' = [doc EXCEPT ![f] = NoFile] /\ job' = [job EXCEPT ![w] = j]
      /\ kept' = kept \ {job[w].got.name}
      /\ UNCHANGED <<kust, rules, lock, rev, shown, excused, asks, trouble, scenario>>
  BY DEF Delete, At, Writes, Becomes, Quietly
<1>2. doc[f].name = job[w].got.name
  BY <1>1, JobIs DEF HeldJob
<1>3. \A g \in File : g # f => doc'[g] = doc[g]
  BY <1>1 DEF IInv, TypeOK
<1>4. j.op = "delete"
  BY <1>1, JobIs DEF JobOf
<1>5. \A g : Dropped(g)' => Dropped(g)
  BY <1>1, <1>4, DroppedIs DEF IInv
<1>6. NotLost'
  BY <1>1, <1>2, <1>3, <1>5 DEF IInv, NotLost
<1>. QED BY <1>1, <1>6, RemoveKeeps

\* A move drops the old file when the new one is there.
LEMMA DropKeeps ==
  ASSUME IInv, NEW w \in Worker, Drop(w)
  PROVE  IInv'
<1>. DEFINE f == job[w].src
            j == [job[w] EXCEPT !.step = "unlist", !.child = f]
<1>1. /\ job[w].op = "move" /\ job[w].step = "created"
      /\ doc' = [doc EXCEPT ![f] = NoFile] /\ job' = [job EXCEPT ![w] = j]
      /\ UNCHANGED <<kust, rules, lock, kept, rev, shown, excused, asks, trouble, scenario>>
  BY DEF Drop, At, Writes, Becomes, Quietly
<1>2. \A g \in File : g # f => doc'[g] = doc[g]
  BY <1>1 DEF IInv, TypeOK
<1>3. j.step = "unlist"
  BY <1>1, JobIs DEF JobOf
<1>4. \A g : Dropped(g)' => Dropped(g)
  BY <1>1, <1>3, DroppedIs DEF IInv
<1>5. Dropped(f)
  BY <1>1 DEF Dropped
<1>6. NotLost'
  BY <1>1, <1>2, <1>4, <1>5 DEF IInv, NotLost
<1>. QED BY <1>1, <1>6, RemoveKeeps

\* A file that is there is never written over; a move's copy has the name of
\* what it will drop.
LEMMA CreateKeeps ==
  ASSUME IInv, NEW w \in Worker, Create(w)
  PROVE  IInv'
<1>0. PICK f : f = Target(w)
  OBVIOUS
<1>. DEFINE d == job[w].got
            j == [job[w] EXCEPT !.step = "created"]
<1>1. /\ job[w].op \in {"new", "move"} /\ job[w].step = "create" /\ lock[f] = Free
      /\ UNCHANGED <<kust, rules, rev, shown, excused, asks, trouble, scenario>>
  BY <1>0 DEF Create, At, Quietly
<1>2. CASE doc[f] # NoFile
  <2>1. Answers(w) /\ UNCHANGED <<doc, kept>>
    BY <1>0, <1>2 DEF Create
  <2>. QED BY <1>1, <2>1, AnswerKeeps DEF IInv, TypeOK
<1>3. CASE doc[f] = NoFile
  <2>1. /\ doc' = [doc EXCEPT ![f] = d] /\ job' = [job EXCEPT ![w] = j]
        /\ kept' = kept \cup {d.name} /\ lock' = lock
    BY <1>0, <1>3 DEF Create, Writes, Goes, Becomes
  <2>2. /\ job[w] \in JobOf(job[w].op, Doc) /\ Lawful(job[w], rules, scenario.asks)
        /\ HeldJob(w, job[w], doc, lock) /\ d \in Doc /\ w # Free
        /\ job[w].src \in Path /\ job[w].dst \in Path /\ job[w].src \in File
    BY <1>1, JobIs DEF Files
  <2>3. f = NewFile(job[w]) /\ f \in Path /\ f \in File
    BY <1>0, <2>2 DEF Target, NewFile, File
  <2>4. d.name # 0 /\ d.keys \subseteq KeysOf(f)
    BY <1>1, <2>2, <2>3 DEF Lawful, CreateJob
  <2>5. /\ rev \in Nat /\ rev' \in Nat /\ rev <= rev'
        /\ lock' \in [File \cup Folder -> Worker \cup {Free}]
        /\ d \in Doc' /\ job[w] \in JobOf(job[w].op, Doc')
    BY <1>1, <2>1, <2>2, DocGrows DEF IInv, TypeOK
  <2>6. kept' \subseteq 1..rev'
    BY <1>1, <2>1, <2>2, <2>4 DEF IInv, TypeOK, Doc
  <2>7. j \in JobOf(job[w].op, Doc') /\ j.step = "created" /\ Same(j, job[w], {"step"})
    BY <2>5, StepIs DEF Steps
  <2>. HIDE DEF j, d
  <2>8. /\ j.op = job[w].op /\ j.src = job[w].src /\ j.dst = job[w].dst /\ j.seen = job[w].seen
        /\ j.got = d
    BY <2>7 DEF Same, d
  <2>9. Lawful(j, rules, scenario.asks)
    BY <1>1, <2>2, <2>7, <2>8 DEF Lawful, ListJob, CreateJob, RuledJob, AskedJob, FluxJob
  <2>10. doc \in [File -> Doc] /\ doc'[f] = d /\ \A g \in File : g # f => doc'[g] = doc[g]
    BY <2>1, <2>3 DEF IInv, TypeOK
  <2>11. job[w].op = "move" => /\ job[w].src # f
                               /\ lock[job[w].src] = w /\ doc[job[w].src] = job[w].seen
                               /\ job[w].seen # NoFile /\ d.name = job[w].seen.name
    BY <1>1, <2>2 DEF HeldJob, d
  <2>12. HeldJob(w, j, doc', lock')
    BY <1>1, <2>1, <2>2, <2>7, <2>8, <2>10, <2>11 DEF HeldJob
  <2>13. ~Dropped(f)
    <3>. SUFFICES ASSUME NEW v \in Worker, job[v].op = "move", job[v].step = "created",
                         job[v].src = f
                  PROVE  FALSE
      BY DEF Dropped
    <3>1. lock[f] = v /\ v # Free
      BY JobIs DEF HeldJob
    <3>. QED BY <1>1, <3>1
  <2>14. \A g : Dropped(g)' => Dropped(g) \/ (job[w].op = "move" /\ g = job[w].src)
    <3>1. \A g : Dropped(g)' => Dropped(g) \/ (j.op = "move" /\ j.step = "created" /\ j.src = g)
      BY <2>1, DroppedIs DEF IInv
    <3>. QED BY <2>8, <3>1
  <2>15. ~Dropped(f)'
    BY <2>11, <2>13, <2>14
  <2>16. NotLost'
    <3>. SUFFICES ASSUME NEW n \in kept'
                  PROVE  \E g \in File : doc'[g].name = n /\ ~Dropped(g)'
      BY DEF NotLost
    <3>1. CASE n = d.name
      BY <2>3, <2>10, <2>15, <3>1
    <3>2. CASE n # d.name
      <4>1. n \in kept /\ n # 0
        BY <2>1, <3>2 DEF IInv, TypeOK
      <4>2. PICK g \in File : doc[g].name = n /\ ~Dropped(g)
        BY <4>1 DEF IInv, NotLost
      <4>3. g # f
        BY <1>3, <4>1, <4>2 DEF NoFile
      <4>4. ~(job[w].op = "move" /\ g = job[w].src)
        BY <2>11, <3>2, <4>2
      <4>. QED BY <2>10, <2>14, <4>2, <4>3, <4>4
    <3>. QED BY <3>1, <3>2
  <2>17. f # "bundle" /\ j \in JobOf(j.op, Doc')
    BY <2>3, <2>7, <2>8, FolderAssumption
  <2>18. \A p \in File : lock[p] \notin {Free, w} => lock'[p] = lock[p]
    BY <2>1
  <2>. QED BY <1>1, <2>1, <2>3, <2>4, <2>5, <2>6, <2>9, <2>12, <2>16, <2>17, <2>18, WriteKeeps
<1>. QED BY <1>2, <1>3

\* A file whose hash is the one that was listed gets the keys of its cluster's rule.
LEMMA RekeyKeeps ==
  ASSUME IInv, NEW w \in Worker, Rekey(w)
  PROVE  IInv'
<1>1. /\ job[w].op = "flux" /\ job[w].step = "rekey"
      /\ UNCHANGED <<kust, rules, kept, shown, excused, asks, trouble, scenario>>
  BY DEF Rekey, At, Quietly
<1>2. CASE job[w].todo = {}
  <2>1. Answers(w) /\ UNCHANGED <<doc, rev>>
    BY <1>2 DEF Rekey
  <2>. QED BY <1>1, <2>1, AnswerKeeps DEF IInv, TypeOK
<1>3. CASE job[w].todo # {}
  <2>1. PICK t \in job[w].todo :
           /\ lock[t[1]] = Free
           /\ IF doc[t[1]] = t[2] /\ job[w].who \in RuleFor(Class(t[1]))
              THEN /\ Writes(t[1], Version(t[2].name, rev + 1, RuleFor(Class(t[1]))))
                   /\ rev' = rev + 1
              ELSE UNCHANGED <<doc, rev>>
           /\ Becomes(w, [job[w] EXCEPT !.todo = @ \ {t}])
           /\ UNCHANGED lock
    BY <1>3 DEF Rekey
  <2>. DEFINE j == [job[w] EXCEPT !.todo = @ \ {t}]
  <2>2. /\ job[w] \in JobOf(job[w].op, Doc) /\ Lawful(job[w], rules, scenario.asks)
        /\ job[w].todo \in SUBSET (Path \X Doc)
    BY <1>1, JobIs DEF Todo
  <2>3. /\ t = <<t[1], t[2]>> /\ t[1] \in Path /\ t[2] \in Doc /\ t[1] \in File
    BY <2>2 DEF File
  <2>4. j \in JobOf(job[w].op, Doc) /\ j.todo = job[w].todo \ {t} /\ Same(j, job[w], {"todo"})
    BY <2>2, RekeyIs
  <2>5. job' = [job EXCEPT ![w] = j] /\ lock' = lock
    BY <2>1 DEF Becomes
  <2>. HIDE DEF j
  <2>6. j.op = "flux" /\ j.src = job[w].src /\ j.who = job[w].who /\ j.step = "rekey"
    BY <1>1, <2>4 DEF Same
  <2>7. Lawful(j, rules, scenario.asks)
    <3>1. FluxJob(j)
      BY <1>1, <2>2, <2>4, <2>6 DEF Lawful, FluxJob
    <3>2. RuledJob(j, rules)
      BY <1>1, <2>2, <2>6 DEF Lawful, RuledJob
    <3>. QED BY <2>6, <3>1, <3>2 DEF Lawful, ListJob, CreateJob, AskedJob
  <2>8. /\ \A ds : HeldJob(w, j, ds, lock')
        /\ lock' \in [File \cup Folder -> Worker \cup {Free}]
        /\ \A p \in File : lock[p] \notin {Free, w} => lock'[p] = lock[p]
    BY <2>5, <2>6 DEF HeldJob, IInv, TypeOK
  <2>9. CASE UNCHANGED <<doc, rev>>
    <3>1. j \in JobOf(j.op, Doc) /\ Becomes(w, j) /\ ~(j.op = "move" /\ j.step = "created")
      BY <1>1, <2>4, <2>5, <2>6 DEF Becomes
    <3>2. UNCHANGED <<doc, kust, rules, kept, rev, excused, shown, asks, trouble, scenario>>
      BY <1>1, <2>9
    <3>3. HeldJob(w, j, doc, lock')
      BY <2>8
    <3>. QED BY <2>7, <2>8, <3>1, <3>2, <3>3, GoesKeeps
  <2>10. CASE ~UNCHANGED <<doc, rev>>
    <3>0. PICK f, d : f \in Path /\ f = t[1] /\ d = Version(doc[f].name, rev + 1, RuleFor(Class(f)))
      BY <2>3
    <3>1. /\ doc' = [doc EXCEPT ![f] = d] /\ rev' = rev + 1
          /\ job[w].who \in RuleFor(Class(f)) /\ lock[f] = Free /\ f \in File
      BY <2>1, <2>3, <2>10, <3>0 DEF Writes
    <3>2. rev \in Nat /\ rev' \in Nat /\ rev <= rev' /\ doc \in [File -> Doc] /\ doc[f] \in Doc
      BY <3>1 DEF IInv, TypeOK
    <3>3. RuleFor(Class(f)) \subseteq Key /\ RuleFor(Class(f)) \subseteq KeysOf(f)
      <4>1. Owner[In[f]] \in Cluster \cap Fors(rules)
        BY <1>1, <2>2, <3>0 DEF Lawful, RuledJob, FluxJob
      <4>. QED BY <3>0, <4>1, KeysOfPath
    <3>4. d \in Doc' /\ d.name = doc[f].name /\ d.keys = RuleFor(Class(f))
      BY <3>0, <3>1, <3>2, <3>3 DEF Doc, Version
    <3>5. doc[f] # NoFile
      <4>1. Owner[In[f]] = job[w].who
        BY <1>1, <2>2, <3>0 DEF Lawful, FluxJob
      <4>2. t \in job[w].todo /\ t[2] # NoFile
        BY <1>1, <2>2 DEF Lawful, FluxJob
      <4>. QED BY <2>1, <2>10, <3>0, <4>2
    <3>6. d # NoFile => d.name # 0
      BY <3>1, <3>4, <3>5 DEF IInv, DocsOk
    <3>7. /\ f = "bundle" => d.keys \subseteq {"operator"}
          /\ f \in Path => d.keys \subseteq KeysOf(f)
      BY <3>0, <3>3, <3>4, FolderAssumption
    <3>8. \A g \in File : doc'[g].name = doc[g].name
      BY <3>1, <3>2, <3>4
    <3>9. \A g : Dropped(g)' => Dropped(g)
      BY <2>5, <2>6, DroppedIs DEF IInv
    <3>10. NotLost'
      BY <1>1, <3>8, <3>9, NamesStay DEF IInv
    <3>11. kept' \subseteq 1..rev' /\ j \in JobOf(j.op, Doc') /\ lock[f] \in {Free, w}
      BY <1>1, <2>4, <2>6, <3>1, <3>2, DocGrows DEF IInv, TypeOK
    <3>12. HeldJob(w, j, doc', lock')
      BY <2>8
    <3>. QED BY <1>1, <2>5, <2>7, <2>8, <3>1, <3>2, <3>4, <3>6, <3>7, <3>10, <3>11, <3>12,
                WriteKeeps
  <2>. QED BY <2>9, <2>10
<1>. QED BY <1>2, <1>3

\* kubit init makes the bundle and cluster.yaml where there are none.
LEMMA InitFileKeeps ==
  ASSUME IInv, NEW w \in Worker, InitFile(w)
  PROVE  IInv'
<1>. DEFINE file == IF job[w].step = "files" THEN "bundle" ELSE "spec"
            j == IF job[w].step = "files" THEN [job[w] EXCEPT !.step = "spec"] ELSE Idle
<1>1. /\ job[w].op = "init" /\ lock[file] = Free
      /\ UNCHANGED <<kust, rules, shown, excused, asks, trouble, scenario>>
  BY DEF InitFile, At, Quietly
<1>2. CASE doc[file] # NoFile
  <2>1. Answers(w) /\ UNCHANGED <<doc, kept, rev>>
    BY <1>2 DEF InitFile
  <2>. QED BY <1>1, <2>1, AnswerKeeps DEF IInv, TypeOK
<1>3. CASE doc[file] = NoFile
  <2>0. PICK f, d : /\ f \in File /\ f = file
                             /\ d = Version(rev + 1, rev + 1,
                                            IF f = "bundle" THEN RuleFor("bundle") ELSE {})
    BY DEF File
  <2>1. /\ doc' = [doc EXCEPT ![f] = d] /\ rev' = rev + 1 /\ kept' = kept \cup {rev + 1}
        /\ lock[f] = Free
    BY <1>1, <1>3, <2>0 DEF InitFile, Writes
  <2>2. job' = [job EXCEPT ![w] = j]
    BY <1>3, <2>0 DEF InitFile, Answers, Goes, Becomes
  <2>3. /\ job[w] \in JobOf(job[w].op, Doc) /\ Lawful(job[w], rules, scenario.asks)
    BY JobIs
  <2>4. rev \in Nat /\ rev' \in Nat /\ rev <= rev' /\ doc \in [File -> Doc]
    BY <2>1 DEF IInv, TypeOK
  <2>5. /\ j.op \in {"init", "none"} /\ j \in JobOf(j.op, Doc') /\ Lawful(j, rules, scenario.asks)
        /\ \A ds, locks : HeldJob(w, j, ds, locks)
    <3>1. CASE job[w].step = "files"
      <4>. DEFINE k == [job[w] EXCEPT !.step = "spec"]
      <4>1. job[w] \in JobOf(job[w].op, Doc')
        BY <2>3, <2>4, DocGrows
      <4>2. k \in JobOf(job[w].op, Doc') /\ k.step = "spec" /\ Same(k, job[w], {"step"})
        BY <4>1, StepIs DEF Steps
      <4>3. j = k
        BY <3>1
      <4>. HIDE DEF k, j
      <4>4. k.op = "init" /\ k.src = job[w].src /\ k.who = job[w].who
        BY <1>1, <4>2 DEF Same
      <4>5. Lawful(k, rules, scenario.asks)
        BY <1>1, <2>3, <4>2, <4>4
           DEF Lawful, ListJob, CreateJob, RuledJob, AskedJob, FluxJob
      <4>6. \A ds, locks : HeldJob(w, k, ds, locks)
        BY <4>4 DEF HeldJob
      <4>. QED BY <1>1, <4>2, <4>3, <4>4, <4>5, <4>6
    <3>2. CASE job[w].step # "files"
      <4>1. j = Idle /\ NoFile \in Doc'
        BY <2>4, <3>2, DocGrows
      <4>. HIDE DEF j
      <4>2. /\ Idle \in JobOf("none", Doc') /\ Idle.op = "none"
            /\ Lawful(Idle, rules, scenario.asks)
            /\ \A ds, locks : HeldJob(w, Idle, ds, locks)
        BY <4>1, IdleIs
      <4>. QED BY <4>1, <4>2
    <3>. QED BY <3>1, <3>2
  <2>. HIDE DEF j, file
  <2>6. /\ lock' \in [File \cup Folder -> Worker \cup {Free}]
        /\ \A p \in File : lock[p] \notin {Free, w} => lock'[p] = lock[p]
    <3>1. CASE lock' = lock
      BY <3>1 DEF IInv, TypeOK
    <3>2. CASE Answers(w)
      BY <3>2, AnswersIs DEF IInv
    <3>. QED BY <1>3, <2>0, <3>1, <3>2 DEF InitFile, file
  <2>7. RuleFor("bundle") \subseteq {"operator"}
    BY RuleForIs DEF IInv, TypeOK, RulesOk
  <2>8. /\ d \in Doc' /\ d.name = rev + 1 /\ d.keys \subseteq {"operator"}
    BY <2>0, <2>1, <2>4, <2>7 DEF Doc, Version, Key
  <2>9. \A g : Dropped(g)' => Dropped(g)
    BY <2>2, <2>5, DroppedIs DEF IInv
  <2>10. /\ kept \subseteq 1..rev /\ kept' \subseteq 1..rev'
    BY <2>1, <2>4 DEF IInv, TypeOK
  <2>11. ~Dropped(f)
    <3>. SUFFICES ASSUME NEW v \in Worker, job[v].op = "move", job[v].step = "created",
                         job[v].src = f
                  PROVE  FALSE
      BY DEF Dropped
    <3>1. lock[f] = v /\ v # Free
      BY JobIs DEF HeldJob
    <3>. QED BY <2>1, <3>1
  <2>12. NotLost'
    <3>. SUFFICES ASSUME NEW n \in kept'
                  PROVE  \E g \in File : doc'[g].name = n /\ ~Dropped(g)'
      BY DEF NotLost
    <3>1. CASE n = rev + 1
      <4>1. doc'[f].name = n
        BY <2>0, <2>1, <2>4, <2>8, <3>1
      <4>. QED BY <2>0, <2>9, <2>11, <4>1
    <3>2. CASE n # rev + 1
      <4>1. n \in kept /\ n # 0
        BY <2>1, <2>10, <3>2
      <4>2. PICK g \in File : doc[g].name = n /\ ~Dropped(g)
        BY <4>1 DEF IInv, NotLost
      <4>3. g # f
        BY <1>3, <2>0, <4>1, <4>2 DEF NoFile
      <4>. QED BY <2>1, <2>4, <2>9, <4>2, <4>3
    <3>. QED BY <3>1, <3>2
  <2>13. /\ (d # NoFile => d.name # 0) /\ (f = "bundle" => d.keys \subseteq {"operator"})
         /\ (f \in Path => d.keys \subseteq KeysOf(f)) /\ lock[f] \in {Free, w}
         /\ HeldJob(w, j, doc', lock')
    BY <2>1, <2>4, <2>5, <2>8 DEF KeysOf
  <2>. QED BY <1>1, <2>0, <2>1, <2>2, <2>4, <2>5, <2>6, <2>8, <2>10, <2>12, <2>13, WriteKeeps
<1>. QED BY <1>2, <1>3

-----------------------------------------------------------------------------
(* The entries of the kustomizations. *)

\* A step that goes on with an entry, and writes at most a kustomization.
LEMMA ListKeeps ==
  ASSUME IInv, NEW w \in Worker, NEW j, job' = [job EXCEPT ![w] = j],
         UNCHANGED <<doc, rules, kept, rev, shown, excused, asks, trouble, scenario>>,
         kust' \in [Folder -> Resources],
         j \in JobOf(j.op, Doc), j.op = job[w].op, j.op \in {"new", "delete", "move"},
         j.src = job[w].src, j.dst = job[w].dst,
         j.step \in {"unlist", "list", "prune", "remove"}, j.child \in Path \cup Folder,
         lock' \in [File \cup Folder -> Worker \cup {Free}],
         \A p \in File : lock[p] \notin {Free, w} => lock'[p] = lock[p]
  PROVE  IInv'
<1>1. /\ rev' \in Nat /\ rev <= rev' /\ asks' \in 0..MaxAsks /\ excused' \subseteq File \cup Folder
      /\ j \in JobOf(j.op, Doc')
  BY DocGrows DEF IInv, TypeOK
<1>2. rules' \in Seq(Rules) /\ RulesOk' /\ Fors(rules) \subseteq Fors(rules')
  BY SameRules
<1>3. Lawful(job[w], rules, scenario.asks)
  BY JobIs
<1>4. Lawful(j, rules', scenario.asks) /\ HeldJob(w, j, doc, lock')
  BY <1>3 DEF Lawful, ListJob, CreateJob, RuledJob, AskedJob, FluxJob, HeldJob
<1>5. ~(j.op = "move" /\ j.step = "created")
  OBVIOUS
<1>. QED BY <1>1, <1>2, <1>4, <1>5, QuietKeeps

\* A new file needs its folders.
LEMMA PlanKeeps ==
  ASSUME IInv, NEW w \in Worker, Plan(w)
  PROVE  IInv'
<1>1. /\ job[w].op = "new" /\ job[w].step = "created"
      /\ UNCHANGED <<doc, kust, rules, kept, rev, shown, excused, asks, trouble, scenario>>
  BY DEF Plan, At, Quietly, NoWrite
<1>2. CASE Answers(w)
  BY <1>1, <1>2, AnswerKeeps DEF IInv, TypeOK
<1>3. CASE ~Answers(w)
  <2>0. PICK c, T : c = job[w].src /\ T = Missing(c)
    OBVIOUS
  <2>. DEFINE j == [job[w] EXCEPT !.step = "list", !.child = c, !.todo = T]
  <2>1. job' = [job EXCEPT ![w] = j] /\ lock' = lock
    BY <1>3, <2>0 DEF Plan, Becomes
  <2>2. job[w] \in JobOf(job[w].op, Doc) /\ c \in Path
    BY <1>1, <2>0, JobIs DEF Files
  <2>3. AreFolders(T)
    BY <2>0, <2>2, FolderAssumption DEF Missing, Above, Over, AreFolders
  <2>4. /\ j \in JobOf(job[w].op, Doc) /\ j.step = "list" /\ j.child = c
        /\ Same(j, job[w], {"step", "child", "todo"})
    <3>1. Lister(job[w].op) /\ c \in Path \cup Folder
      BY <1>1, <2>2 DEF Lister
    <3>2. j \in JobOf(job[w].op, Doc)
      BY <2>2, <2>3, <3>1, PlanIs
    <3>3. Same(j, job[w], {"step", "child", "todo"})
      BY <2>2, <2>3, <3>1, PlanIs
    <3>4. j.step = "list" /\ j.child = c
      BY <2>2 DEF JobOf
    <3>. QED BY <3>2, <3>3, <3>4
  <2>. HIDE DEF j
  <2>5. /\ j.op = job[w].op /\ j.src = job[w].src /\ j.dst = job[w].dst
        /\ j.child \in Path \cup Folder
    BY <2>2, <2>4 DEF Same
  <2>6. /\ lock' \in [File \cup Folder -> Worker \cup {Free}] /\ kust' \in [Folder -> Resources]
        /\ \A p \in File : lock[p] \notin {Free, w} => lock'[p] = lock[p]
    BY <1>1, <2>1 DEF IInv, TypeOK
  <2>. QED BY <1>1, <2>1, <2>4, <2>5, <2>6, ListKeeps
<1>. QED BY <1>2, <1>3

\* A kustomization is made, if nobody else has.
LEMMA MakeListKeeps ==
  ASSUME IInv, NEW w \in Worker, MakeList(w)
  PROVE  IInv'
<1>. DEFINE f == In[job[w].child]
            j == [job[w] EXCEPT !.child = f, !.todo = @ \ {f}]
<1>1. /\ job[w].op = "new" /\ job[w].step = "list"
      /\ UNCHANGED <<doc, rules, kept, rev, shown, asks, trouble, scenario>>
  BY DEF MakeList, At, Quietly
<1>2. /\ job[w] \in JobOf(job[w].op, Doc) /\ job[w].src \in File
      /\ job[w].child \in Path \cup Folder
  BY <1>1, JobIs DEF Lawful, ListJob
<1>3. f \in Folder
  BY <1>2, FolderAssumption
<1>4. CASE kust[f] # NoList
  <2>1. Answers(w) /\ excused' = excused \cup {job[w].src} /\ kust' = kust
    BY <1>4 DEF MakeList
  <2>2. excused' \subseteq File \cup Folder /\ kust' \in [Folder -> Resources]
    BY <1>2, <2>1 DEF IInv, TypeOK
  <2>. QED BY <1>1, <2>1, <2>2, AnswerKeeps
<1>5. CASE kust[f] = NoList
  <2>1. /\ kust' = [kust EXCEPT ![f] = {job[w].child}] /\ job' = [job EXCEPT ![w] = j]
        /\ lock' = lock /\ excused' = excused
    BY <1>5 DEF MakeList, Lists, Becomes
  <2>2. kust' \in [Folder -> Resources]
    <3>1. {job[w].child} \in Resources
      BY <1>2 DEF Resources
    <3>. QED BY <2>1, <3>1 DEF IInv, TypeOK
  <2>. HIDE DEF f
  <2>3. j \in JobOf(job[w].op, Doc) /\ j.child = f /\ Same(j, job[w], {"child", "todo"})
    <3>1. Lister(job[w].op)
      BY <1>1 DEF Lister
    <3>. QED BY <1>2, <1>3, <3>1, MadeIs
  <2>. HIDE DEF j
  <2>4. /\ j.op = job[w].op /\ j.src = job[w].src /\ j.dst = job[w].dst /\ j.step = "list"
        /\ j.child \in Path \cup Folder
    BY <1>1, <1>3, <2>3 DEF Same
  <2>5. /\ lock' \in [File \cup Folder -> Worker \cup {Free}]
        /\ \A p \in File : lock[p] \notin {Free, w} => lock'[p] = lock[p]
    BY <2>1 DEF IInv, TypeOK
  <2>. QED BY <1>1, <2>1, <2>2, <2>3, <2>4, <2>5, ListKeeps
<1>. QED BY <1>4, <1>5

\* What follows an entry.
LEMMA AfterListKeeps ==
  ASSUME IInv, NEW w \in Worker, NEW changed, AfterList(w, changed),
         job[w].step \in {"unlist", "list"},
         UNCHANGED <<doc, rules, kept, rev, shown, excused, asks, trouble, scenario>>,
         kust' \in [Folder -> Resources]
  PROVE  IInv'
<1>. DEFINE o == job[w]
            next == IF o.op = "delete" /\ changed THEN [o EXCEPT !.step = "prune", !.read = NoList]
                    ELSE IF o.op = "move" /\ o.step = "unlist"
                    THEN [o EXCEPT !.step = "list", !.child = o.dst, !.read = NoList]
                    ELSE Idle
<1>1. /\ job' = [job EXCEPT ![w] = next]
      /\ lock' = [p \in DOMAIN lock |->
            IF lock[p] = w /\ (next = Idle \/ p = In[o.child]) THEN Free ELSE lock[p]]
  BY DEF AfterList, Becomes
<1>2. /\ lock' \in [File \cup Folder -> Worker \cup {Free}]
      /\ \A p \in File : lock[p] \notin {Free, w} => lock'[p] = lock[p]
  BY <1>1 DEF IInv, TypeOK
<1>3. /\ o \in JobOf(o.op, Doc) /\ o.op \in {"new", "delete", "move"}
      /\ o.child \in Path \cup Folder /\ o.dst \in Path
  BY JobIs DEF Lawful, ListJob, Files
<1>4. CASE o.op = "delete" /\ changed
  <2>. DEFINE j == [o EXCEPT !.step = "prune", !.read = NoList]
  <2>1. next = j
    BY <1>4
  <2>2. j \in JobOf(o.op, Doc) /\ j.step = "prune" /\ Same(j, o, {"step", "read"})
    BY <1>3, PruneIs
  <2>. HIDE DEF j, next
  <2>3. /\ j.op = job[w].op /\ j.src = job[w].src /\ j.dst = job[w].dst
        /\ j.child \in Path \cup Folder /\ job' = [job EXCEPT ![w] = j]
    BY <1>1, <1>3, <2>1, <2>2 DEF Same
  <2>. QED BY <1>2, <1>3, <2>2, <2>3, ListKeeps
<1>5. CASE ~(o.op = "delete" /\ changed) /\ o.op = "move" /\ o.step = "unlist"
  <2>. DEFINE j == [o EXCEPT !.step = "list", !.child = o.dst, !.read = NoList]
  <2>1. next = j
    BY <1>5
  <2>2. /\ j \in JobOf(o.op, Doc) /\ j.step = "list" /\ j.child = o.dst
        /\ Same(j, o, {"step", "child", "read"})
    <3>1. Lister(o.op) /\ o.dst \in Path \cup Folder
      BY <1>3 DEF Lister
    <3>. QED BY <1>3, <3>1, MovedIs
  <2>. HIDE DEF j, next
  <2>3. /\ j.op = job[w].op /\ j.src = job[w].src /\ j.dst = job[w].dst
        /\ j.child \in Path \cup Folder /\ job' = [job EXCEPT ![w] = j]
    BY <1>1, <1>3, <2>1, <2>2 DEF Same
  <2>. QED BY <1>2, <1>3, <2>2, <2>3, ListKeeps
<1>6. CASE ~(o.op = "delete" /\ changed) /\ ~(o.op = "move" /\ o.step = "unlist")
  <2>1. next = Idle
    BY <1>6
  <2>2. /\ Idle \in JobOf("none", Doc') /\ Idle.op = "none" /\ Lawful(Idle, rules', scenario.asks)
        /\ HeldJob(w, Idle, doc, lock')
    BY DocGrows, IdleIs DEF IInv, TypeOK
  <2>3. /\ rev' \in Nat /\ rev <= rev' /\ asks' \in 0..MaxAsks
        /\ excused' \subseteq File \cup Folder
    BY DEF IInv, TypeOK
  <2>4. rules' \in Seq(Rules) /\ RulesOk' /\ Fors(rules) \subseteq Fors(rules')
    BY SameRules
  <2>5. job' = [job EXCEPT ![w] = Idle]
    BY <1>1, <2>1
  <2>. HIDE DEF next
  <2>. QED BY <1>2, <2>2, <2>3, <2>4, <2>5, QuietKeeps
<1>. QED BY <1>4, <1>5, <1>6

\* Nothing to list in.
LEMMA SkipListKeeps ==
  ASSUME IInv, NEW w \in Worker, SkipList(w)
  PROVE  IInv'
<1>1. /\ AfterList(w, FALSE) /\ job[w].step \in {"unlist", "list"}
      /\ UNCHANGED <<doc, kust, rules, kept, rev, shown, excused, asks, trouble, scenario>>
  BY DEF SkipList, Listing, Quietly, NoWrite
<1>. QED BY <1>1, AfterListKeeps DEF IInv, TypeOK

\* The list that is lost answers with an error.
LEMMA LoseListKeeps ==
  ASSUME IInv, NEW w \in Worker, LoseList(w)
  PROVE  IInv'
<1>1. /\ Answers(w) /\ excused' = excused \cup Unfinished(w)
      /\ job[w].step \in {"unlist", "list"}
      /\ UNCHANGED <<doc, kust, rules, kept, rev, shown, asks, trouble, scenario>>
  BY DEF LoseList, Listing, Quietly
<1>2. /\ job[w].src \in Path /\ job[w].dst \in Path
  BY <1>1, JobIs DEF Lawful, ListJob, Files
<1>3. Unfinished(w) \subseteq File \cup Folder
  BY <1>2, FolderAssumption DEF Unfinished, File
<1>4. kust' \in [Folder -> Resources] /\ excused' \subseteq File \cup Folder
  BY <1>1, <1>3 DEF IInv, TypeOK
<1>. QED BY <1>1, <1>4, AnswerKeeps

\* The lock and the list.
LEMMA ReadListKeeps ==
  ASSUME IInv, NEW w \in Worker, ReadList(w)
  PROVE  IInv'
<1>. DEFINE f == In[job[w].child]
            j == [job[w] EXCEPT !.read = kust[f]]
<1>1. /\ job[w].step \in {"unlist", "list"} /\ lock[f] = Free
      /\ job' = [job EXCEPT ![w] = j] /\ lock' = [lock EXCEPT ![f] = w]
      /\ UNCHANGED <<doc, kust, rules, kept, rev, shown, excused, asks, trouble, scenario>>
  BY DEF ReadList, Listing, Becomes, Takes, Quietly, NoWrite
<1>2. /\ job[w] \in JobOf(job[w].op, Doc) /\ job[w].child \in Path \cup Folder
      /\ job[w].op \in {"new", "delete", "move"}
  BY <1>1, JobIs DEF Lawful, ListJob
<1>3. f \in Folder /\ kust[f] \in Resources
  BY <1>2, FolderAssumption DEF IInv, TypeOK
<1>4. j \in JobOf(job[w].op, Doc) /\ Same(j, job[w], {"read"})
  BY <1>2, <1>3, ReadIs
<1>5. /\ lock' \in [File \cup Folder -> Worker \cup {Free}] /\ kust' \in [Folder -> Resources]
      /\ \A p \in File : lock[p] \notin {Free, w} => lock'[p] = lock[p]
  BY <1>1, <1>3 DEF IInv, TypeOK
<1>. HIDE DEF j, f
<1>6. /\ j.op = job[w].op /\ j.src = job[w].src /\ j.dst = job[w].dst /\ j.step = job[w].step
      /\ j.child \in Path \cup Folder
  BY <1>2, <1>4 DEF Same
<1>. QED BY <1>1, <1>2, <1>4, <1>5, <1>6, ListKeeps

\* The list is written, with the entry or without it.
LEMMA WriteListKeeps ==
  ASSUME IInv, NEW w \in Worker, WriteList(w)
  PROVE  IInv'
<1>. DEFINE old == job[w].read
            child == job[w].child
            new == IF job[w].step = "list" THEN old \cup {child} ELSE old \ {child}
<1>1. /\ job[w].step \in {"unlist", "list"} /\ old # NoList
      /\ kust' = IF new = old THEN kust ELSE [kust EXCEPT ![In[child]] = new]
      /\ AfterList(w, new # old)
      /\ UNCHANGED <<doc, rules, kept, rev, shown, excused, asks, trouble, scenario>>
  BY DEF WriteList, Listing, Lists, Quietly
<1>2. child \in Path \cup Folder /\ old \in Resources
  BY <1>1, JobIs DEF Lawful, ListJob
<1>3. new \in Resources /\ In[child] \in Folder
  BY <1>1, <1>2, FolderAssumption DEF Resources
<1>4. kust' \in [Folder -> Resources]
  BY <1>1, <1>3 DEF IInv, TypeOK
<1>. HIDE DEF new, old
<1>. QED BY <1>1, <1>4, AfterListKeeps

\* A kustomization that lists nothing is looked at.
LEMMA PruneKeeps ==
  ASSUME IInv, NEW w \in Worker, Prune(w)
  PROVE  IInv'
<1>1. /\ job[w].op = "delete" /\ job[w].step = "prune"
      /\ UNCHANGED <<doc, kust, rules, kept, rev, shown, excused, asks, trouble, scenario>>
  BY DEF Prune, At, Quietly, NoWrite
<1>2. CASE Answers(w)
  BY <1>1, <1>2, AnswerKeeps DEF IInv, TypeOK
<1>3. CASE ~Answers(w)
  <2>. DEFINE j == [job[w] EXCEPT !.step = "remove"]
  <2>1. job' = [job EXCEPT ![w] = j] /\ lock' = lock
    BY <1>3 DEF Prune, Goes, Becomes
  <2>2. job[w] \in JobOf(job[w].op, Doc) /\ job[w].child \in Path \cup Folder
    BY <1>1, JobIs DEF Lawful, ListJob
  <2>3. j \in JobOf(job[w].op, Doc) /\ j.step = "remove" /\ Same(j, job[w], {"step"})
    BY <2>2, StepIs DEF Steps
  <2>4. /\ lock' \in [File \cup Folder -> Worker \cup {Free}] /\ kust' \in [Folder -> Resources]
        /\ \A p \in File : lock[p] \notin {Free, w} => lock'[p] = lock[p]
    BY <1>1, <2>1 DEF IInv, TypeOK
  <2>. HIDE DEF j
  <2>5. /\ j.op = job[w].op /\ j.src = job[w].src /\ j.dst = job[w].dst
        /\ j.child \in Path \cup Folder
    BY <2>2, <2>3 DEF Same
  <2>. QED BY <1>1, <2>1, <2>3, <2>4, <2>5, ListKeeps
<1>. QED BY <1>2, <1>3

\* ... and removed, and its folder leaves the list of the folder above.
LEMMA RemoveListKeeps ==
  ASSUME IInv, NEW w \in Worker, RemoveList(w)
  PROVE  IInv'
<1>. DEFINE f == In[job[w].child]
<1>1. /\ job[w].op = "delete" /\ job[w].step = "remove"
      /\ kust' = IF kust[f] = NoList THEN kust ELSE [kust EXCEPT ![f] = NoList]
      /\ UNCHANGED <<doc, rules, kept, rev, shown, excused, asks, trouble, scenario>>
  BY DEF RemoveList, At, Lists, Quietly
<1>2. job[w] \in JobOf(job[w].op, Doc) /\ job[w].child \in Path \cup Folder
  BY <1>1, JobIs DEF Lawful, ListJob
<1>3. f \in Folder /\ kust' \in [Folder -> Resources]
  BY <1>1, <1>2, FolderAssumption, NoListIs DEF IInv, TypeOK
<1>4. CASE Answers(w)
  BY <1>1, <1>3, <1>4, AnswerKeeps DEF IInv, TypeOK
<1>5. CASE ~Answers(w)
  <2>. DEFINE j == [job[w] EXCEPT !.step = "unlist", !.child = f]
  <2>1. job' = [job EXCEPT ![w] = j] /\ lock' = lock
    BY <1>5 DEF RemoveList, Becomes
  <2>. HIDE DEF f
  <2>2. j \in JobOf(job[w].op, Doc) /\ j.step = "unlist" /\ j.child = f
        /\ Same(j, job[w], {"step", "child"})
    <3>1. Lister(job[w].op) /\ f \in Path \cup Folder
      BY <1>1, <1>3 DEF Lister
    <3>. QED BY <1>2, <3>1, ChildIs
  <2>3. /\ lock' \in [File \cup Folder -> Worker \cup {Free}]
        /\ \A p \in File : lock[p] \notin {Free, w} => lock'[p] = lock[p]
    BY <2>1 DEF IInv, TypeOK
  <2>. HIDE DEF j
  <2>4. /\ j.op = job[w].op /\ j.src = job[w].src /\ j.dst = job[w].dst
        /\ j.child \in Path \cup Folder
    BY <1>3, <2>2 DEF Same
  <2>. QED BY <1>1, <1>3, <2>1, <2>2, <2>3, <2>4, ListKeeps
<1>. QED BY <1>4, <1>5

-----------------------------------------------------------------------------
(* The rules change. *)

\* A handler that connects, initialises or lets Flux decrypt goes on, and the
\* rules stay sound.
LEMMA RulesKeep ==
  ASSUME IInv, NEW w \in Worker, NEW s \in Steps, Goes(w, s),
         UNCHANGED <<doc, kept, rev, excused, lock, shown, asks, trouble, scenario>>,
         kust' \in [Folder -> Resources],
         job[w].op \in {"connect", "init", "flux"},
         s \notin {"unlist", "list", "prune", "remove"},
         rules' \in Seq(Rules), "all" \in Fors(rules'), Sound(rules', Inits(scenario.asks)),
         Fors(rules) \subseteq Fors(rules'),
         job[w].op = "connect" /\ s = "key" => job[w].who \in Fors(rules')
  PROVE  IInv'
<1>. DEFINE j == [job[w] EXCEPT !.step = s]
<1>1. job[w] \in JobOf(job[w].op, Doc) /\ Lawful(job[w], rules, scenario.asks)
  BY JobIs
<1>2. j \in JobOf(job[w].op, Doc) /\ j.step = s /\ Same(j, job[w], {"step"})
  BY <1>1, StepIs
<1>3. job' = [job EXCEPT ![w] = j]
  BY DEF Goes, Becomes
<1>. HIDE DEF j
<1>4. j.op = job[w].op /\ j.src = job[w].src /\ j.who = job[w].who /\ j.todo = job[w].todo
  BY <1>2 DEF Same
<1>5. Lawful(j, rules', scenario.asks)
  <2>1. RuledJob(j, rules')
    BY <1>1, <1>2, <1>4 DEF Lawful, RuledJob
  <2>2. ListJob(j) /\ CreateJob(j) /\ AskedJob(j, scenario.asks) /\ FluxJob(j)
    BY <1>1, <1>2, <1>4 DEF Lawful, ListJob, CreateJob, AskedJob, FluxJob
  <2>. QED BY <2>1, <2>2 DEF Lawful
<1>6. HeldJob(w, j, doc, lock') /\ ~(j.op = "move" /\ j.step = "created")
  BY <1>4 DEF HeldJob
<1>7. RulesOk'
  BY DEF RulesOk
<1>8. /\ rev' \in Nat /\ rev <= rev' /\ asks' \in 0..MaxAsks
      /\ excused' \subseteq File \cup Folder
      /\ lock' \in [File \cup Folder -> Worker \cup {Free}]
      /\ \A p \in File : lock[p] \notin {Free, w} => lock'[p] = lock[p]
  BY DEF IInv, TypeOK
<1>9. j \in JobOf(j.op, Doc')
  BY <1>2, <1>4, <1>8, DocGrows DEF IInv, TypeOK
<1>. QED BY <1>3, <1>5, <1>6, <1>7, <1>8, <1>9, QuietKeeps

\* The rules that kubit init writes are sound for its cluster.
LEMMA InitRulesSound ==
  ASSUME NEW others, NEW c \in Cluster, c \in others
  PROVE  LET rs == <<Rule("bundle", {"operator"}), Rule("all", {"operator", c})>>
         IN  rs \in Seq(Rules) /\ Sound(rs, others) /\ "all" \in Fors(rs)
<1>. DEFINE b == Rule("bundle", {"operator"})
            a == Rule("all", {"operator", c})
            rs == <<b, a>>
<1>1. /\ b \in Rules /\ b.for = "bundle" /\ b.keys = {"operator"}
      /\ a \in Rules /\ a.for = "all" /\ a.keys = {"operator", c}
  BY DEF Rule, Rules, Key
<1>. HIDE DEF a, b
<1>2. rs \in Seq(Rules) /\ Len(rs) = 2 /\ rs[1] = b /\ rs[2] = a
  BY <1>1
<1>. HIDE DEF rs
<1>3. "all" \in Fors(rs)
  BY <1>1, <1>2 DEF Fors
<1>4. \A i \in 1..Len(rs) : (i = 1 /\ rs[i] = b) \/ (i = 2 /\ rs[i] = a)
  <2>. TAKE i \in 1..Len(rs)
  <2>1. i = 1 \/ i = 2
    BY <1>2
  <2>. QED BY <1>2, <2>1
<1>5. OwnRulesOwnKeys(rs) /\ BundleRulesForTheOperator(rs) /\ SharedRulesFor(rs, others)
  BY <1>1, <1>4, ClusterAssumption
     DEF OwnRulesOwnKeys, BundleRulesForTheOperator, SharedRulesFor
<1>6. BundleFirst(rs)
  BY <1>1, <1>2, <1>4 DEF BundleFirst
<1>7. OwnFirst(rs)
  BY <1>1, <1>4, ClusterAssumption DEF OwnFirst
<1>8. rs \in Seq(Rules) /\ Sound(rs, others) /\ "all" \in Fors(rs)
  BY <1>2, <1>3, <1>5, <1>6, <1>7 DEF Sound
<1>. QED BY <1>8 DEF rs, a, b

\* Connect and init write the first rules.
LEMMA ConfigKeeps ==
  ASSUME IInv, NEW w \in Worker, Config(w)
  PROVE  IInv'
<1>1. /\ job[w].op \in {"connect", "init"} /\ job[w].step = "start"
      /\ UNCHANGED <<doc, kust, kept, rev, excused, shown, asks, trouble, scenario>>
  BY DEF Config, At, Quietly
<1>2. CASE Answers(w) /\ rules' = rules
  BY <1>1, <1>2, AnswerKeeps DEF IInv, TypeOK
<1>3. CASE ~(Answers(w) /\ rules' = rules)
  <2>. DEFINE c == job[w].who
              rs == IF rules # <<>> THEN rules ELSE
                    IF job[w].op = "connect" THEN AppsConfig
                    ELSE <<Rule("bundle", {"operator"}), Rule("all", {"operator", c})>>
              others == Inits(scenario.asks)
  <2>1. rules' = rs /\ Goes(w, "rule") /\ lock' = lock
    BY <1>3 DEF Config, NewRules
  <2>2. /\ c \in Cluster /\ (job[w].op = "init" => c \in others)
    BY <1>1, JobIs DEF Lawful, RuledJob, AskedJob
  <2>. HIDE DEF c, others
  <2>3. /\ rules \in Seq(Rules) /\ Sound(rules, others)
        /\ (Fors(rules) # {} => "all" \in Fors(rules))
    BY DEF IInv, TypeOK, RulesOk, others
  <2>4. /\ rs \in Seq(Rules) /\ Sound(rs, others) /\ "all" \in Fors(rs)
        /\ Fors(rules) \subseteq Fors(rs)
    <3>1. CASE rules # <<>>
      <4>1. Len(rules) \in Nat /\ Len(rules) # 0
        BY <2>3, <3>1
      <4>2. Fors(rules) # {}
        <5>1. 1 \in 1..Len(rules)
          BY <4>1
        <5>. QED BY <5>1 DEF Fors
      <4>. QED BY <2>3, <3>1, <4>2
    <3>2. CASE rules = <<>>
      <4>1. Fors(rules) = {}
        BY <3>2 DEF Fors
      <4>2. CASE job[w].op = "connect"
        <5>1. rs = StartRules("split") /\ rs = AppsConfig
          BY <3>2, <4>2 DEF StartRules
        <5>2. "all" \in Fors(AppsConfig)
          BY DEF AppsConfig, Fors, Rule
        <5>. HIDE DEF rs
        <5>. QED BY <4>1, <5>1, <5>2, StartRulesSound
      <4>3. CASE job[w].op # "connect"
        <5>1. rs = <<Rule("bundle", {"operator"}), Rule("all", {"operator", c})>>
          BY <3>2, <4>3
        <5>2. c \in others
          BY <1>1, <2>2, <4>3
        <5>. HIDE DEF rs
        <5>. QED BY <2>2, <4>1, <5>1, <5>2, InitRulesSound
      <4>. QED BY <4>2, <4>3
    <3>. QED BY <3>1, <3>2
  <2>5. kust' \in [Folder -> Resources] /\ "rule" \in Steps
    BY <1>1 DEF IInv, TypeOK, Steps
  <2>. HIDE DEF rs
  <2>. QED BY <1>1, <2>1, <2>4, <2>5, RulesKeep DEF others
<1>. QED BY <1>2, <1>3

\* Connect puts in the cluster's own rule.
LEMMA OwnRuleKeeps ==
  ASSUME IInv, NEW w \in Worker, OwnRule(w)
  PROVE  IInv'
<1>1. /\ job[w].op = "connect" /\ job[w].step = "rule" /\ Goes(w, "key")
      /\ rules' = AddClusterRule(rules, job[w].who)
      /\ UNCHANGED <<doc, kust, lock, kept, rev, excused, shown, asks, trouble, scenario>>
  BY DEF OwnRule, At, NewRules, Quietly
<1>2. job[w].who \in Cluster /\ Fors(rules) # {}
  BY <1>1, JobIs DEF Lawful, RuledJob
<1>3. rules \in Seq(Rules) /\ Sound(rules, Inits(scenario.asks)) /\ "all" \in Fors(rules)
  BY <1>2 DEF IInv, TypeOK, RulesOk
<1>4. /\ rules' \in Seq(Rules) /\ Fors(rules) \cup {job[w].who} \subseteq Fors(rules')
      /\ Sound(rules', Inits(scenario.asks))
  BY <1>1, <1>2, <1>3, AddClusterRuleIs
<1>5. kust' \in [Folder -> Resources] /\ "key" \in Steps
  BY <1>1 DEF IInv, TypeOK, Steps
<1>. QED BY <1>1, <1>3, <1>4, <1>5, RulesKeep

\* A cluster's key joins the rule of its own paths.
LEMMA AddKeyKeeps ==
  ASSUME IInv, NEW w \in Worker, AddKey(w)
  PROVE  IInv'
<1>. DEFINE s == IF job[w].op = "flux" THEN "scan" ELSE "files"
<1>1. /\ \/ job[w].op = "connect" /\ job[w].step = "key"
         \/ job[w].op = "flux" /\ job[w].step = "start"
         \/ job[w].op = "init" /\ job[w].step = "rule"
      /\ Goes(w, s) /\ rules' = AddRecipient(rules, job[w].who)
      /\ UNCHANGED <<doc, kust, lock, kept, rev, excused, shown, asks, trouble, scenario>>
  BY DEF AddKey, At, NewRules, Quietly
<1>2. /\ job[w].who \in Cluster /\ Fors(rules) # {}
      /\ job[w].who \in Fors(rules) \cup Inits(scenario.asks)
  BY <1>1, JobIs DEF Lawful, RuledJob, AskedJob
<1>3. rules \in Seq(Rules) /\ Sound(rules, Inits(scenario.asks)) /\ "all" \in Fors(rules)
  BY <1>2 DEF IInv, TypeOK, RulesOk
<1>4. /\ rules' \in Seq(Rules) /\ Fors(rules) \subseteq Fors(rules')
      /\ Sound(rules', Inits(scenario.asks))
  BY <1>1, <1>2, <1>3, AddRecipientIs
<1>5. kust' \in [Folder -> Resources] /\ s \in Steps /\ s \in {"scan", "files"}
  BY <1>1 DEF IInv, TypeOK, Steps
<1>6. job[w].op \in {"connect", "init", "flux"}
  BY <1>1
<1>7. Goes(w, s) /\ lock' = lock
  BY <1>1
<1>. HIDE DEF s
<1>. QED BY <1>1, <1>3, <1>4, <1>5, <1>6, <1>7, RulesKeep

\* The files that Flux cannot read yet.
LEMMA ScanKeeps ==
  ASSUME IInv, NEW w \in Worker, Scan(w)
  PROVE  IInv'
<1>0. PICK c, T : /\ c = job[w].who
                  /\ T = {<<p, doc[p]>> : p \in {q \in Path : /\ Owner[In[q]] = c
                                                              /\ doc[q] # NoFile
                                                              /\ c \notin doc[q].keys}}
  OBVIOUS
<1>. DEFINE j == [job[w] EXCEPT !.step = "rekey", !.todo = T]
<1>1. /\ job[w].op = "flux" /\ Becomes(w, j) /\ lock' = lock
      /\ UNCHANGED <<doc, kust, rules, kept, rev, excused, shown, asks, trouble, scenario>>
  BY <1>0 DEF Scan, At, Quietly, NoWrite
<1>2. T \in SUBSET (Path \X Doc) /\ \A t \in T : Owner[In[t[1]]] = c /\ t[2] # NoFile
  BY <1>0 DEF IInv, TypeOK, File
<1>3. job[w] \in JobOf("flux", Doc) /\ Lawful(job[w], rules, scenario.asks)
  BY <1>1, JobIs
<1>4. /\ j \in JobOf("flux", Doc) /\ j.step = "rekey" /\ j.todo = T
      /\ Same(j, job[w], {"step", "todo"})
  BY <1>2, <1>3, ScanIs
<1>. HIDE DEF j
<1>5. j.op = "flux" /\ j.who = c /\ j.who = job[w].who
  BY <1>0, <1>1, <1>4 DEF Same
<1>6. Lawful(j, rules, scenario.asks)
  <2>1. FluxJob(j)
    BY <1>2, <1>4, <1>5 DEF FluxJob
  <2>2. RuledJob(j, rules)
    BY <1>1, <1>3, <1>5 DEF Lawful, RuledJob
  <2>. QED BY <1>4, <1>5, <2>1, <2>2 DEF Lawful, ListJob, CreateJob, AskedJob
<1>7. /\ lock' \in [File \cup Folder -> Worker \cup {Free}]
      /\ \A q \in File : lock[q] \notin {Free, w} => lock'[q] = lock[q]
  BY <1>1 DEF IInv, TypeOK
<1>8. HeldJob(w, j, doc, lock') /\ j \in JobOf(j.op, Doc) /\ ~(j.op = "move" /\ j.step = "created")
  BY <1>4, <1>5 DEF HeldJob
<1>. QED BY <1>1, <1>6, <1>7, <1>8, GoesKeeps

\* The kustomization of the cluster's folder.
LEMMA MakeFolderKeeps ==
  ASSUME IInv, NEW w \in Worker, MakeFolder(w)
  PROVE  IInv'
<1>0. PICK f : f = CHOOSE g \in Folder : Owner[g] = job[w].who /\ In[g] = g
  OBVIOUS
<1>1. /\ job[w].op = "connect" /\ Goes(w, "addon") /\ lock' = lock
      /\ job[w].step = "files"
      /\ kust' = [kust EXCEPT ![f] = {}] \/ kust' = kust
      /\ UNCHANGED <<doc, rules, kept, rev, excused, shown, asks, trouble, scenario>>
  BY <1>0 DEF MakeFolder, At, Lists, Quietly
<1>2. kust' \in [Folder -> Resources] /\ "addon" \in Steps
  <2>1. {} \in Resources /\ kust \in [Folder -> Resources] /\ "addon" \in Steps
    BY DEF IInv, TypeOK, Resources, Steps
  <2>. QED BY <1>1, <2>1
<1>3. job[w] \in JobOf(job[w].op, Doc) /\ Lawful(job[w], rules, scenario.asks)
  BY JobIs
<1>. DEFINE j == [job[w] EXCEPT !.step = "addon"]
<1>4. j \in JobOf(job[w].op, Doc) /\ j.step = "addon" /\ Same(j, job[w], {"step"})
  BY <1>2, <1>3, StepIs
<1>5. job' = [job EXCEPT ![w] = j]
  BY <1>1 DEF Goes, Becomes
<1>. HIDE DEF j
<1>6. j.op = "connect" /\ j.who = job[w].who
  BY <1>1, <1>4 DEF Same
<1>7. rules' \in Seq(Rules) /\ RulesOk' /\ Fors(rules) \subseteq Fors(rules')
  BY <1>1, SameRules
<1>8. Lawful(j, rules', scenario.asks)
  <2>1. RuledJob(j, rules')
    BY <1>1, <1>3, <1>4, <1>6 DEF Lawful, RuledJob
  <2>. QED BY <1>4, <1>6, <2>1 DEF Lawful, ListJob, CreateJob, AskedJob, FluxJob
<1>9. /\ rev' \in Nat /\ rev <= rev' /\ asks' \in 0..MaxAsks
      /\ excused' \subseteq File \cup Folder
      /\ lock' \in [File \cup Folder -> Worker \cup {Free}]
      /\ \A p \in File : lock[p] \notin {Free, w} => lock'[p] = lock[p]
      /\ j \in JobOf(j.op, Doc')
  BY <1>1, <1>4, <1>6, DocGrows DEF IInv, TypeOK
<1>10. HeldJob(w, j, doc, lock') /\ ~(j.op = "move" /\ j.step = "created")
  BY <1>6 DEF HeldJob
<1>. QED BY <1>1, <1>2, <1>5, <1>7, <1>8, <1>9, <1>10, QuietKeeps

-----------------------------------------------------------------------------
(* The daemon, the watcher and the editors. *)

\* The daemon dies: no handler is left, and no lock.
LEMMA DiesKeeps ==
  ASSUME IInv, Dies
  PROVE  IInv'
<1>1. /\ trouble < MaxTrouble /\ trouble' = trouble + 1
      /\ excused' = excused \cup UNION {Unfinished(w) : w \in Worker}
      /\ job' = [w \in Worker |-> Idle] /\ lock' = [p \in DOMAIN lock |-> Free]
      /\ shown' = doc /\ UNCHANGED <<doc, kust, rules, kept, rev, asks, scenario>>
  BY DEF Dies, SecretIndex, data
<1>2. \A w \in Worker : Unfinished(w) \subseteq File \cup Folder
  <2>. TAKE w \in Worker
  <2>1. /\ job[w].src \in File /\ job[w].dst \in File /\ job[w].src \in Files(job[w].op)
        /\ job[w].child = "spec" \/ job[w].op \in {"new", "delete", "move"}
    BY JobIs
  <2>2. job[w].child \in Folder => In[job[w].src] \in Folder
    <3>. SUFFICES ASSUME job[w].child \in Folder PROVE job[w].src \in Path
      BY FolderAssumption
    <3>. QED BY <2>1, FolderAssumption DEF Files
  <2>. QED BY <2>1, <2>2 DEF Unfinished
<1>3. /\ excused' \subseteq File \cup Folder /\ trouble' \in 0..MaxTrouble
  <2>1. UNION {Unfinished(w) : w \in Worker} \subseteq File \cup Folder
    BY <1>2
  <2>2. trouble' \in 0..MaxTrouble
    BY <1>1, BoundAssumption DEF IInv, TypeOK
  <2>. QED BY <1>1, <2>1, <2>2 DEF IInv, TypeOK
<1>4. Doc' = Doc /\ NoFile \in Doc
  BY <1>1 DEF Doc, NoFile, IInv, TypeOK
<1>5. /\ job' = [w \in Worker |-> job'[w]]
      /\ \A w \in Worker : job'[w] = Idle /\ job'[w] \in JobOf(job'[w].op, Doc')
  BY <1>1, <1>4, IdleIs
<1>6. JobsOk'
  BY <1>4, <1>5, IdleIs DEF JobsOk
<1>7. TypeOK'
  <2>1. lock' \in [File \cup Folder -> Worker \cup {Free}]
    BY <1>1 DEF IInv, TypeOK
  <2>. QED BY <1>1, <1>3, <1>4, <1>5, <2>1 DEF IInv, TypeOK
<1>8. RulesOk' /\ DocsOk'
  BY <1>1 DEF IInv, RulesOk, DocsOk
<1>9. \A f : ~Dropped(f)'
  <2>1. Idle.op = "none"
    BY <1>4, IdleIs
  <2>. QED BY <1>5, <2>1 DEF Dropped
<1>10. NotLost'
  BY <1>1, <1>9 DEF IInv, NotLost
<1>. QED BY <1>6, <1>7, <1>8, <1>10 DEF IInv

\* The console reads what is there.
LEMMA SettlesKeeps ==
  ASSUME IInv, Settles
  PROVE  IInv'
<1>1. /\ shown' = doc
      /\ UNCHANGED <<doc, kust, rules, lock, job, kept, excused, rev, asks, trouble, scenario>>
  BY DEF Settles, SecretIndex, data
<1>2. TypeOK'
  BY <1>1 DEF IInv, TypeOK, Doc
<1>3. RulesOk' /\ JobsOk' /\ DocsOk' /\ NotLost'
  BY <1>1 DEF IInv, RulesOk, JobsOk, DocsOk, NotLost, Dropped
<1>. QED BY <1>2, <1>3 DEF IInv

\* An editor saves a file that no handler holds.
LEMMA EditorSavesKeeps ==
  ASSUME IInv, NEW f \in File, EditorSaves(f)
  PROVE  IInv'
<1>0. PICK d : d = Version(doc[f].name, rev + 1, doc[f].keys)
  OBVIOUS
<1>1. /\ trouble < MaxTrouble /\ trouble' = trouble + 1
      /\ doc[f] # NoFile /\ lock[f] = Free /\ doc' = [doc EXCEPT ![f] = d] /\ rev' = rev + 1
      /\ UNCHANGED <<kust, rules, lock, job, shown, kept, excused, asks, scenario>>
  BY <1>0 DEF EditorSaves, Writes
<1>2. /\ rev \in Nat /\ rev' \in Nat /\ rev <= rev' /\ doc \in [File -> Doc] /\ doc[f] \in Doc
  BY <1>1 DEF IInv, TypeOK
<1>3. d \in Doc' /\ d.name = doc[f].name /\ d.keys = doc[f].keys
  BY <1>0, <1>1, <1>2 DEF Version, Doc
<1>4. doc'[f] = d /\ \A g \in File \ {f} : doc'[g] = doc[g]
  BY <1>1, <1>2
<1>5. doc' \in [File -> Doc'] /\ shown' \in [File -> Doc'] /\ kept' \subseteq 1..rev'
  BY <1>1, <1>2, <1>3, DocGrows DEF IInv, TypeOK
<1>6. \A w \in Worker : job'[w] \in JobOf(job'[w].op, Doc')
  BY <1>1, <1>2, DocGrows DEF IInv, TypeOK
<1>7. trouble' \in 0..MaxTrouble
  BY <1>1, BoundAssumption DEF IInv, TypeOK
<1>8. TypeOK'
  BY <1>1, <1>2, <1>5, <1>6, <1>7 DEF IInv, TypeOK
<1>9. JobsOk'
  <2>. SUFFICES ASSUME NEW w \in Worker
                PROVE  Lawful(job[w], rules, scenario.asks) /\ HeldJob(w, job[w], doc', lock)
    BY <1>1 DEF JobsOk
  <2>1. /\ Lawful(job[w], rules, scenario.asks) /\ HeldJob(w, job[w], doc, lock)
        /\ job[w].src \in File /\ w # Free
    BY JobIs
  <2>2. HeldJob(w, job[w], doc', lock)
    BY <1>1, <1>4, <2>1 DEF HeldJob
  <2>. QED BY <2>1, <2>2
<1>10. RulesOk'
  BY <1>1 DEF IInv, RulesOk
<1>11. DocsOk'
  <2>1. \A g \in File : doc'[g] # NoFile => doc'[g].name # 0
    BY <1>1, <1>3, <1>4 DEF IInv, DocsOk
  <2>2. "bundle" \in File /\ Path \subseteq File
    BY DEF File
  <2>3. \A g \in File : doc'[g].keys = doc[g].keys
    BY <1>3, <1>4
  <2>. QED BY <2>1, <2>2, <2>3 DEF IInv, DocsOk
<1>12. NotLost'
  <2>1. \A g \in File : doc'[g].name = doc[g].name
    BY <1>3, <1>4
  <2>2. \A g : Dropped(g)' => Dropped(g)
    BY <1>1 DEF Dropped
  <2>. QED BY <1>1, <2>1, <2>2, NamesStay DEF IInv
<1>. QED BY <1>8, <1>9, <1>10, <1>11, <1>12 DEF IInv

-----------------------------------------------------------------------------
(* Every step. *)

\* The repository at first.
LEMMA InitIInv == Init => IInv
<1>. SUFFICES ASSUME Init PROVE IInv
  OBVIOUS
<1>. DEFINE files == scenario.files
            order == SetToSeq(files)
            At0(f) == CHOOSE i \in DOMAIN order : order[i] = f
            keys(f) == IF f = "spec" THEN {} ELSE {"operator"}
<1>1. /\ doc = [f \in File |-> IF f \in files THEN Version(At0(f), At0(f), keys(f)) ELSE NoFile]
      /\ rev = Len(order) /\ kept = DOMAIN order
      /\ rules = StartRules(scenario.rules)
      /\ lock = [p \in File \cup Folder |-> Free] /\ job = [w \in Worker |-> Idle]
      /\ shown = doc /\ excused = scenario.unlisted /\ asks = 0 /\ trouble = 0 /\ scenario \in Scenarios
  BY DEF Init
<1>2. /\ files \subseteq File /\ IsFiniteSet(files)
      /\ excused \subseteq File \cup Folder
      /\ scenario.rules \in {"none", "shared", "split", "connected"}
  BY <1>1, ScenarioAssumption DEF File
<1>. HIDE DEF files
<1>3. /\ Len(order) \in Nat /\ DOMAIN order = 1..Len(order)
      /\ \A i \in 1..Len(order) : order[i] \in files
      /\ \A x \in files : \E i \in 1..Len(order) : order[i] = x
      /\ \A i, k \in 1..Len(order) : order[i] = order[k] => i = k
  BY <1>2, SetToSeqIs
<1>. HIDE DEF order
<1>4. \A f \in files : At0(f) \in 1..Len(order) /\ order[At0(f)] = f
  BY <1>3
<1>. HIDE DEF At0
<1>5. \A i \in 1..Len(order) : At0(order[i]) = i
  BY <1>3, <1>4
<1>6. \A f : keys(f) \in SUBSET Key /\ keys(f) \subseteq {"operator"}
  BY DEF Key
<1>. HIDE DEF keys
<1>7. /\ \A f \in files : doc[f].name = At0(f) /\ doc[f].keys = keys(f) /\ doc[f] \in Doc
      /\ \A f \in File \ files : doc[f] = NoFile
      /\ NoFile \in Doc /\ NoFile.keys = {}
  BY <1>1, <1>2, <1>3, <1>4, <1>6 DEF Version, NoFile, Doc
<1>8. doc \in [File -> Doc] /\ shown \in [File -> Doc]
  BY <1>1, <1>7
<1>9. kust \in [Folder -> Resources]
  <2>. DEFINE here(f) == {p \in Path : p \in scenario.files \ scenario.unlisted /\ In[p] = f}
              below(f) == {g \in Folder \ {f} :
                              In[g] = f /\ (\/ g \in scenario.full
                                            \/ \E p \in Path : p \in scenario.files \ scenario.unlisted /\ In[p] = g)}
              other(f) == IF f \in scenario.full THEN {"other"} ELSE {}
  <2>1. kust = [f \in Folder |->
                  IF here(f) \cup below(f) = {} /\ f \notin scenario.full THEN NoList
                  ELSE here(f) \cup below(f) \cup other(f)]
    BY DEF Init
  <2>2. \A f : here(f) \subseteq Path /\ below(f) \subseteq Folder /\ other(f) \subseteq {"other"}
    OBVIOUS
  <2>. HIDE DEF here, below, other
  <2>3. \A f : here(f) \cup below(f) \cup other(f) \in Resources
    BY <2>2 DEF Resources
  <2>. QED BY <2>1, <2>3, NoListIs
<1>10. /\ rules \in Seq(Rules) /\ Sound(rules, Inits(scenario.asks))
       /\ (Fors(rules) # {} => "all" \in Fors(rules))
  BY <1>1, <1>2, StartRulesSound
<1>11. /\ job = [w \in Worker |-> job[w]]
       /\ \A w \in Worker : job[w] = Idle /\ job[w] \in JobOf(job[w].op, Doc)
  BY <1>1, <1>7, IdleIs
<1>12. TypeOK
  BY <1>1, <1>2, <1>3, <1>8, <1>9, <1>10, <1>11, BoundAssumption DEF TypeOK
<1>13. RulesOk
  BY <1>10 DEF RulesOk
<1>14. JobsOk
  BY <1>7, <1>11, IdleIs DEF JobsOk
<1>15. DocsOk
  <2>1. \A f \in File : doc[f].keys \subseteq {"operator"}
    BY <1>2, <1>6, <1>7
  <2>2. \A f \in File : doc[f] # NoFile => doc[f].name # 0
    BY <1>4, <1>7
  <2>3. "bundle" \in File /\ Path \subseteq File
    BY DEF File
  <2>. QED BY <2>1, <2>2, <2>3 DEF DocsOk, KeysOf
<1>16. NotLost
  <2>1. \A f : ~Dropped(f)
    <3>1. Idle.op = "none"
      BY <1>7, IdleIs
    <3>. QED BY <1>11, <3>1 DEF Dropped
  <2>. SUFFICES ASSUME NEW n \in kept PROVE \E f \in File : doc[f].name = n
    BY <2>1 DEF NotLost
  <2>2. n \in 1..Len(order) /\ order[n] \in files /\ At0(order[n]) = n
    BY <1>1, <1>3, <1>5
  <2>3. order[n] \in File /\ doc[order[n]].name = n
    BY <1>2, <1>7, <2>2
  <2>. QED BY <2>3
<1>. QED BY <1>12, <1>13, <1>14, <1>15, <1>16 DEF IInv

\* Every step keeps the invariant.
LEMMA IInvStep == IInv /\ [Next]_vars => IInv'
<1>. SUFFICES ASSUME IInv, [Next]_vars PROVE IInv'
  OBVIOUS
<1>1. CASE UNCHANGED vars
  <2>1. /\ UNCHANGED <<doc, kust, rules, lock, job, shown, kept, excused, rev, asks>>
        /\ UNCHANGED <<trouble, scenario>>
    BY <1>1 DEF vars
  <2>2. TypeOK'
    BY <2>1 DEF IInv, TypeOK, Doc
  <2>. QED BY <2>1, <2>2 DEF IInv, RulesOk, JobsOk, DocsOk, NotLost, Dropped
<1>2. ASSUME NEW w \in Worker, Handles(w) PROVE IInv'
  <2>1. CASE Read(w) \/ Stat(w) \/ Encrypt(w)
    BY <2>1, ReadKeeps, StatKeeps, EncryptKeeps
  <2>2. CASE SaveSpec(w) \/ SaveSecret(w)
    <3>1. job[w].op \in {"edit", "ip"} /\ job[w].step = "held" /\ Saves(w)
      BY <2>2 DEF SaveSpec, SaveSecret, At
    <3>. QED BY <3>1, SavesKeeps
  <2>3. CASE Delete(w) \/ Create(w) \/ Drop(w)
    BY <2>3, DeleteKeeps, CreateKeeps, DropKeeps
  <2>4. CASE Plan(w) \/ MakeList(w) \/ SkipList(w) \/ LoseList(w) \/ ReadList(w) \/ WriteList(w)
    BY <2>4, PlanKeeps, MakeListKeeps, SkipListKeeps, LoseListKeeps, ReadListKeeps, WriteListKeeps
  <2>5. CASE Prune(w) \/ RemoveList(w)
    BY <2>5, PruneKeeps, RemoveListKeeps
  <2>6. CASE Config(w) \/ OwnRule(w) \/ AddKey(w) \/ Scan(w) \/ Rekey(w)
    BY <2>6, ConfigKeeps, OwnRuleKeeps, AddKeyKeeps, ScanKeeps, RekeyKeeps
  <2>7. CASE MakeFolder(w) \/ SetAddon(w) \/ InitFile(w)
    BY <2>7, MakeFolderKeeps, SetAddonKeeps, InitFileKeeps
  <2>. QED BY <1>2, <2>1, <2>2, <2>3, <2>4, <2>5, <2>6, <2>7 DEF Handles
<1>3. ASSUME NEW w \in Worker, NEW r \in scenario.asks, Ask(w, r) PROVE IInv'
  BY <1>3, AskKeeps
<1>4. CASE Dies \/ Settles
  BY <1>4, DiesKeeps, SettlesKeeps
<1>5. ASSUME NEW r \in scenario.asks, EditorSaves(r.src) PROVE IInv'
  <2>1. r \in Requests /\ r.src \in File
    BY ScenarioAssumption DEF IInv, TypeOK, Requests
  <2>. QED BY <1>5, <2>1, EditorSavesKeeps
<1>. QED BY <1>1, <1>2, <1>3, <1>4, <1>5 DEF Next

\* The inductive invariant holds in every state of the repository: rules,
\* handlers and files fit together.
THEOREM Invariance == Spec => []IInv
  BY InitIInv, IInvStep, PTL DEF Spec

\* Every variable has its type, and a SOPS file is made, moved and deleted only
\* by the requests for it (repo/secrets.go).
THEOREM TypeCorrect == Spec => []TypeOK
<1>1. IInv => TypeOK
  BY DEF IInv
<1>. QED BY <1>1, Invariance, PTL

\* No secret that was written and that nobody deleted is lost, whoever moves,
\* creates or edits files at the same time and whenever the daemon dies
\* (repo/secrets.go MoveSecret creates the copy before it drops the file).
THEOREM NoneLost == Spec => []NothingLost
<1>1. IInv => NothingLost
  BY DEF IInv, NotLost, NothingLost
<1>. QED BY <1>1, Invariance, PTL

\* The bundle and a new bundle are encrypted to the operator alone, and a SOPS
\* file to the operator and the cluster of its folder (sops/recipients.go
\* AddRecipient, AddClusterRule).
THEOREM KeysKept == Spec => []KeysStayHome
<1>1. IInv => KeysStayHome
  <2>. SUFFICES ASSUME IInv PROVE KeysStayHome
    OBVIOUS
  <2>1. RuleFor("bundle") \subseteq {"operator"}
    BY RuleForIs DEF IInv, TypeOK, RulesOk
  <2>2. /\ doc["bundle"].keys \subseteq {"operator"}
        /\ \A p \in Path : doc[p].keys \subseteq {"operator", Owner[In[p]]}
    BY DEF IInv, DocsOk, KeysOf
  <2>. QED BY <2>1, <2>2 DEF KeysStayHome
<1>. QED BY <1>1, Invariance, PTL

-----------------------------------------------------------------------------
(* Nothing is written blindly. *)

\* What a handler has seen of a file that is there.
Saw(w, f) == doc[f] = job[w].seen \/ <<f, doc[f]>> \in job[w].todo \/ job[w].op = "connect"

\* A handler that answers is another.
LEMMA AnswerChanges ==
  ASSUME IInv, NEW w \in Worker, Answers(w), job[w].op # "none"
  PROVE  job'[w] # job[w]
<1>1. job'[w] = Idle
  BY AnswersIs DEF IInv, TypeOK
<1>. QED BY <1>1 DEF Idle

\* A write of a handler is of what it saw.
LEMMA HandlerSaw ==
  ASSUME IInv, NEW w \in Worker, Handles(w), NEW f \in File,
         doc[f] # NoFile, doc'[f] # doc[f]
  PROVE  job'[w] # job[w] /\ Saw(w, f)
<1>0. doc \in [File -> Doc] /\ job = [v \in Worker |-> job[v]]
  BY DEF IInv, TypeOK
<1>1. ASSUME NEW g, NEW d, doc' = [doc EXCEPT ![g] = d] PROVE f = g
  BY <1>0, <1>1
<1>2. CASE SaveSpec(w) \/ SaveSecret(w)
  <2>1. job[w].op \in {"edit", "ip"} /\ job[w].step = "held" /\ Saves(w)
    BY <1>2 DEF SaveSpec, SaveSecret, At
  <2>2. Answers(w) /\ f = job[w].src
    BY <1>1, <2>1 DEF Saves, Writes
  <2>3. doc[job[w].src] = job[w].seen
    BY <2>1, JobIs DEF HeldJob
  <2>. QED BY <2>1, <2>2, <2>3, AnswerChanges DEF Saw
<1>3. CASE Delete(w) \/ Drop(w)
  <2>1. /\ job[w].op \in {"delete", "move"} /\ job[w].step \in {"held", "created"}
        /\ f = job[w].src
        /\ job' = [job EXCEPT ![w] = [job[w] EXCEPT !.step = "unlist", !.child = job[w].src]]
    BY <1>1, <1>3 DEF Delete, Drop, At, Writes, Becomes
  <2>2. doc[job[w].src] = job[w].seen
    BY <2>1, JobIs DEF HeldJob
  <2>3. job'[w] = [job[w] EXCEPT !.step = "unlist", !.child = job[w].src]
    BY <1>0, <2>1
  <2>4. job'[w].step = "unlist"
    BY <2>3, JobIs DEF JobOf
  <2>. QED BY <2>1, <2>2, <2>4 DEF Saw
<1>4. CASE Create(w)
  <2>1. PICK g : g = Target(w)
    OBVIOUS
  <2>2. doc[g] = NoFile /\ doc' = [doc EXCEPT ![g] = job[w].got]
    BY <1>4, <2>1 DEF Create, Writes
  <2>. QED BY <1>1, <2>2
<1>5. CASE Rekey(w)
  <2>1. /\ job[w].op = "flux" /\ job[w].todo # {}
    BY <1>5 DEF Rekey, At
  <2>2. PICK t \in job[w].todo :
           /\ doc[t[1]] = t[2]
           /\ Writes(t[1], Version(t[2].name, rev + 1, RuleFor(Class(t[1]))))
           /\ Becomes(w, [job[w] EXCEPT !.todo = @ \ {t}])
    BY <1>5, <2>1 DEF Rekey
  <2>3. job[w] \in JobOf(job[w].op, Doc) /\ job[w].todo \in SUBSET (Path \X Doc)
    BY <2>1, JobIs DEF Todo
  <2>4. f = t[1] /\ <<f, doc[f]>> = t
    BY <1>1, <2>2, <2>3 DEF Writes
  <2>5. job'[w] = [job[w] EXCEPT !.todo = @ \ {t}]
    BY <1>0, <2>2 DEF Becomes
  <2>6. job'[w].todo = job[w].todo \ {t}
    BY <2>3, <2>5, RekeyIs
  <2>. QED BY <2>2, <2>4, <2>6 DEF Saw
<1>6. CASE SetAddon(w)
  <2>1. job[w].op = "connect" /\ Answers(w)
    BY <1>6 DEF SetAddon, At
  <2>. QED BY <2>1, AnswerChanges DEF Saw
<1>7. CASE InitFile(w)
  <2>1. PICK g : g = IF job[w].step = "files" THEN "bundle" ELSE "spec"
    OBVIOUS
  <2>2. doc[g] = NoFile /\ \E d : doc' = [doc EXCEPT ![g] = d]
    BY <1>7, <2>1 DEF InitFile, Writes
  <2>. QED BY <1>1, <2>2
<1>8. CASE \/ Read(w) \/ Stat(w) \/ Encrypt(w) \/ Plan(w) \/ MakeList(w) \/ SkipList(w)
           \/ LoseList(w) \/ ReadList(w) \/ WriteList(w) \/ Prune(w) \/ RemoveList(w)
           \/ Config(w) \/ OwnRule(w) \/ AddKey(w) \/ Scan(w) \/ MakeFolder(w)
  <2>1. doc' = doc
    BY <1>8 DEF Read, Stat, Encrypt, Plan, MakeList, SkipList, LoseList, ReadList, WriteList, Prune,
                RemoveList, Config, OwnRule, AddKey, Scan, MakeFolder, NoWrite
  <2>. QED BY <2>1
<1>. QED BY <1>2, <1>3, <1>4, <1>5, <1>6, <1>7, <1>8 DEF Handles

\* What a request overwrites or removes is the version its user saw, the one it
\* read under the lock, or the one it listed (repo/write.go replace, and
\* repo/flux.go, which compares hashes).
THEOREM NoneBlind == Spec => NoBlindWrite
<1>. DEFINE A == \A f \in File : doc[f] # NoFile /\ doc'[f] # doc[f] =>
                    \/ trouble' # trouble
                    \/ \E w \in Worker : job'[w] # job[w]
                          /\ (doc[f] = job[w].seen \/ <<f, doc[f]>> \in job[w].todo
                                 \/ job[w].op = "connect")
<1>1. IInv /\ [Next]_vars => [A]_vars
  <2>. SUFFICES ASSUME IInv, Next, NEW f \in File, doc[f] # NoFile, doc'[f] # doc[f],
                       trouble' = trouble
                PROVE  \E w \in Worker : job'[w] # job[w]
                          /\ (doc[f] = job[w].seen \/ <<f, doc[f]>> \in job[w].todo
                                 \/ job[w].op = "connect")
    OBVIOUS
  <2>1. trouble \in Nat
    BY BoundAssumption DEF IInv, TypeOK
  <2>2. PICK w \in Worker : Handles(w)
    <3>1. ~\E w \in Worker, r \in scenario.asks : Ask(w, r)
      BY DEF Ask, NoWrite
    <3>2. ~Settles
      BY DEF Settles, data
    <3>3. ~Dies /\ ~\E r \in scenario.asks : EditorSaves(r.src)
      BY <2>1 DEF Dies, EditorSaves
    <3>. QED BY <3>1, <3>2, <3>3 DEF Next
  <2>. QED BY <2>2, HandlerSaw DEF Saw
<1>2. Spec => [][A]_vars
  BY <1>1, Invariance, PTL DEF Spec
<1>. QED BY <1>2 DEF NoBlindWrite

-----------------------------------------------------------------------------
(* Listed: files and entries.  It holds of files whose folders list other  *)
(* files too, so that no kustomization on their way comes or goes, where   *)
(* no move begins at the end of another.                                   *)

Full == Folder \cap scenario.full
Steady(p) == Above(p) \subseteq scenario.full
Moved == {r \in scenario.asks : r.op = "move"}
MovesApart == \A r, q \in Moved : r.dst # q.src

\* A kustomization that lists other files stays, and so does its entry.
FullStay ==
    \A f \in Full :
        /\ "other" \in kust[f]
        /\ In[f] \in Full \ {f} => f \in kust[In[f]]

\* A handler keeps the lock of its file, and of the list that it read.
OwnLocks(w, j, locks, lists) ==
    /\ j.op \in {"delete", "move"} /\ j.step # "start" => locks[j.src] = w
    /\ j.read # NoList =>
          /\ j.step \in {"unlist", "list"} /\ j.todo = {}
          /\ In[j.child] \in Full => locks[In[j.child]] = w /\ j.read = lists[In[j.child]]

\* The entry that a handler takes away is that of its file, which is gone, or
\* that of a folder which it emptied.
Unlists(j, docs) ==
    /\ j.step = "unlist" /\ j.child \in Path =>
          j.child = j.src /\ docs[j.src] = NoFile
    /\ j.step = "unlist" => j.child \notin Full /\ j.op \in {"delete", "move"}
    /\ j.step = "remove" => In[j.child] \notin Full

\* The entry that it adds is that of its file.
OwnEntry(j) ==
    /\ j.op = "move" => j.todo = {} /\ j.step \notin {"prune", "remove"}
    /\ j.op = "move" /\ j.step = "unlist" => j.child = j.src
    /\ j.op = "move" /\ j.step = "list" => j.child = j.dst
    /\ j.op = "new" /\ j.step = "list" /\ Steady(j.src) => j.todo = {} /\ j.child = j.src
    /\ j.op = "new" /\ j.step = "list" /\ j.child \in Path => j.child = j.src
    /\ j.step = "list" => j.op # "delete"

EntryJob(w, j, docs, locks, lists) == OwnLocks(w, j, locks, lists) /\ Unlists(j, docs) /\ OwnEntry(j)
EntriesOk == \A w \in Worker : EntryJob(w, job[w], doc, lock, kust)

\* A handler that made p and is yet to list it, one that is yet to take away
\* the entry of p, and one that is to remove p.
Adding(j, p) ==
    j.op \in {"new", "move"} /\ NewFile(j) = p /\ j.step \in {"created", "unlist", "list"}
Unlisting(j, p) == j.step = "unlist" /\ j.child = p
Removing(j, p) == j.op \in {"delete", "move"} /\ j.src = p

FileIsListed ==
    \A p \in Path \ excused : Steady(p) /\ doc[p] # NoFile =>
        p \in kust[In[p]] \/ \E w \in Worker : Adding(job[w], p)
EntryIsThere ==
    \A p \in Path \ excused : Steady(p) /\ p \in kust[In[p]] =>
        doc[p] # NoFile \/ \E w \in Worker : Unlisting(job[w], p)

\* Nobody has seen a file that is not listed yet.
AddedIsNew ==
    \A w \in Worker : \A p \in Path \ excused : Adding(job[w], p) =>
        /\ doc[p] # NoFile /\ shown[p].rev # doc[p].rev
        /\ \A v \in Worker : Removing(job[v], p) =>
              job[v].step = "start" /\ job[v].seen.rev # doc[p].rev

-----------------------------------------------------------------------------
(* Listed: versions. *)

\* What a handler is about to create nobody has seen, unless it moves a file as it is.
Creating(j) == j.op \in {"new", "move"} /\ j.step = "create"
Unseen(w) ==
    /\ \A f \in File : doc[f].rev # job[w].got.rev /\ shown[f].rev # job[w].got.rev
    /\ \A v \in Worker : job[v].seen.rev # job[w].got.rev
    /\ \A v \in Worker \ {w} : Creating(job[v]) => job[v].got.rev # job[w].got.rev
NewVersions ==
    \A w \in Worker : Creating(job[w]) =>
        /\ job[w].got.rev # 0
        /\ Unseen(w) \/ (job[w].op = "move" /\ job[w].got = job[w].seen)

\* A version is in one file; in two, while it is moved.
DocRevs == \A f \in File : doc[f] # NoFile => doc[f].rev # 0
SourcesDiffer ==
    \A r, q \in Moved : doc[r.src].rev = doc[q.src].rev /\ doc[r.src].rev # 0 => r.src = q.src
Copying(j, r) == j.op = "move" /\ j.step = "created" /\ j.src = r.src /\ j.dst = r.dst
CopiesAreMoves ==
    \A r \in Moved : doc[r.dst].rev = doc[r.src].rev /\ doc[r.src].rev # 0 =>
        r.dst \in excused \/ \E w \in Worker : Copying(job[w], r)

\* Nobody has seen at its new place what is to be moved there.
CopiesUnseen ==
    \A r \in Moved : r.dst \notin excused /\ doc[r.src].rev # 0 =>
        /\ shown[r.dst].rev # doc[r.src].rev
        /\ \A v \in Worker : Removing(job[v], r.dst) => job[v].seen.rev # doc[r.src].rev

VersionsOk == NewVersions /\ DocRevs /\ SourcesDiffer /\ CopiesAreMoves /\ CopiesUnseen
ListsOk == FullStay /\ FileIsListed /\ EntryIsThere
LInv == EntriesOk /\ ListsOk /\ AddedIsNew /\ VersionsOk

-----------------------------------------------------------------------------
(* What a step has to keep to. *)

\* A step writes one file: it renews or removes it.
OneDoc(w, f, d) ==
    /\ doc' = [doc EXCEPT ![f] = d]
    /\ \/ d = doc[f]
       \/ d.rev = rev + 1 /\ d # NoFile /\ (f \in Path => doc[f] # NoFile)
       \/ d = NoFile /\ w \in Worker /\ Removing(job[w], f) /\ job[w].step # "start"

\* Only w goes on, to j.
OnlyOne(w, j) == \A v \in Worker : job'[v] = IF v = w THEN j ELSE job[v]

\* A handler creates the version that it encrypted or read, sees what is there,
\* removes what it saw, and leaves a move only when the old file is gone.
GoesOn(w, j) ==
    /\ Creating(j) =>
          \/ Creating(job[w]) /\ j.op = job[w].op /\ j.got = job[w].got /\ j.seen = job[w].seen
          \/ j.op = "move" /\ j.got = j.seen /\ j.got.rev # 0
          \/ j.got.rev = rev + 1 /\ UNCHANGED doc
    /\ j.seen \in {job[w].seen, NoFile} \/ \E g \in File : j.seen = doc[g]
    /\ \A p \in Path : Removing(j, p) =>
          /\ Removing(job[w], p) /\ j.seen = job[w].seen
          /\ j.step = "start" \/ job[w].step # "start" \/ job[w].seen.rev = doc[p].rev
    /\ \A p \in Path : Adding(j, p) => Adding(job[w], p)
    /\ job[w].op = "move" /\ job[w].step = "created" => doc'[job[w].src] = NoFile \/ j = job[w]

-----------------------------------------------------------------------------
(* Versions stay apart. *)

\* The numbers of versions.
LEMMA RevsIs ==
  ASSUME IInv
  PROVE  /\ rev \in Nat
         /\ \A f \in File : doc[f].rev \in 0..rev /\ shown[f].rev \in 0..rev
         /\ \A w \in Worker : job[w].seen.rev \in 0..rev /\ job[w].got.rev \in 0..rev
         /\ NoFile.rev = 0
<1>1. \A w \in Worker : job[w].seen \in Doc /\ job[w].got \in Doc
  BY JobIs
<1>. QED BY <1>1 DEF IInv, TypeOK, Doc, NoFile

\* The moves of a scenario are between files under Path.
LEMMA MovedAre ==
  ASSUME IInv
  PROVE  /\ Path \subseteq File
         /\ \A r \in Moved : r.src \in Path /\ r.dst \in Path
<1>1. scenario.asks \subseteq Requests
  BY ScenarioAssumption DEF IInv, TypeOK
<1>. QED BY <1>1 DEF Moved, Requests, Files, File

\* A step that creates no file keeps the versions apart.
LEMMA VersionsKeep ==
  ASSUME IInv, MovesApart, VersionsOk, NEW w, NEW j, OnlyOne(w, j),
         UNCHANGED <<shown, scenario>>, excused \subseteq excused',
         NEW f \in File, NEW d, OneDoc(w, f, d), w \in Worker \/ j = job[w], GoesOn(w, j)
  PROVE  VersionsOk'
<1>1. /\ rev \in Nat
      /\ \A g \in File : doc[g].rev \in 0..rev /\ shown[g].rev \in 0..rev
      /\ \A v \in Worker : job[v].seen.rev \in 0..rev /\ job[v].got.rev \in 0..rev
      /\ NoFile.rev = 0
  BY RevsIs
<1>2. /\ Moved' = Moved /\ Path \subseteq File
      /\ \A r \in Moved : r.src \in Path /\ r.dst \in Path /\ r.dst # r.src
  BY MovedAre DEF Moved, MovesApart
<1>3. /\ doc \in [File -> Doc] /\ doc' = [doc EXCEPT ![f] = d]
      /\ d = doc[f] \/ (d.rev = rev + 1 /\ d # NoFile) \/ d = NoFile
  BY DEF OneDoc, IInv, TypeOK
<1>4. \A g \in File : \/ doc'[g] = doc[g]
                      \/ g = f /\ doc'[g].rev = rev + 1
                      \/ doc'[g] = NoFile
  BY <1>3
<1>5. DocRevs'
  <2>. SUFFICES ASSUME NEW g \in File, doc'[g] # NoFile PROVE doc'[g].rev # 0
    BY DEF DocRevs
  <2>. QED BY <1>1, <1>4 DEF VersionsOk, DocRevs
<1>6. SourcesDiffer'
  <2>. SUFFICES ASSUME NEW r \in Moved, NEW q \in Moved, doc'[r.src].rev = doc'[q.src].rev,
                       doc'[r.src].rev # 0
                PROVE  r.src = q.src
    BY <1>2 DEF SourcesDiffer
  <2>1. r.src \in File /\ q.src \in File
    BY <1>2
  <2>2. CASE doc'[r.src] = doc[r.src] /\ doc'[q.src] = doc[q.src]
    BY <2>2 DEF VersionsOk, SourcesDiffer
  <2>3. CASE ~(doc'[r.src] = doc[r.src] /\ doc'[q.src] = doc[q.src])
    BY <1>1, <1>4, <2>1, <2>3
  <2>. QED BY <2>2, <2>3
<1>7. CopiesAreMoves'
  <2>. SUFFICES ASSUME NEW r \in Moved, doc'[r.dst].rev = doc'[r.src].rev, doc'[r.src].rev # 0
                PROVE  r.dst \in excused' \/ \E v \in Worker : Copying(job'[v], r)
    BY <1>2 DEF CopiesAreMoves
  <2>1. r.src \in File /\ r.dst \in File /\ r.dst # r.src
    BY <1>2
  <2>2. doc'[r.dst] = doc[r.dst] /\ doc'[r.src] = doc[r.src] /\ doc'[r.src] # NoFile
    BY <1>1, <1>4, <2>1
  <2>3. CASE r.dst \in excused
    BY <2>3
  <2>4. ASSUME NEW v \in Worker, Copying(job[v], r) PROVE Copying(job'[v], r)
    <3>1. CASE v # w
      BY <2>4, <3>1 DEF OnlyOne
    <3>2. CASE v = w
      <4>1. job[w].op = "move" /\ job[w].step = "created" /\ job[w].src = r.src
        BY <2>4, <3>2 DEF Copying
      <4>2. j = job[w]
        BY <2>2, <4>1 DEF GoesOn
      <4>. QED BY <2>4, <3>2, <4>2 DEF OnlyOne
    <3>. QED BY <3>1, <3>2
  <2>. QED BY <2>2, <2>3, <2>4 DEF VersionsOk, CopiesAreMoves
<1>8. CopiesUnseen'
  <2>. SUFFICES ASSUME NEW r \in Moved, r.dst \notin excused', doc'[r.src].rev # 0
                PROVE  /\ shown[r.dst].rev # doc'[r.src].rev
                       /\ \A v \in Worker : Removing(job'[v], r.dst) =>
                             job'[v].seen.rev # doc'[r.src].rev
    BY <1>2 DEF CopiesUnseen
  <2>1. r.src \in File /\ r.dst \in File /\ r.dst \in Path
    BY <1>2
  <2>2. \A v \in Worker : Removing(job'[v], r.dst) => Removing(job[v], r.dst) /\ job'[v].seen = job[v].seen
    BY <2>1 DEF OnlyOne, GoesOn
  <2>3. CASE doc'[r.src] = doc[r.src]
    BY <2>2, <2>3 DEF VersionsOk, CopiesUnseen
  <2>4. CASE doc'[r.src] # doc[r.src]
    BY <1>1, <1>4, <2>1, <2>2, <2>4
  <2>. QED BY <2>3, <2>4
<1>9. NewVersions'
  <2>. SUFFICES ASSUME NEW v \in Worker, Creating(job'[v])
                PROVE  /\ job'[v].got.rev # 0
                       /\ Unseen(v)' \/ (job'[v].op = "move" /\ job'[v].got = job'[v].seen)
    BY DEF NewVersions
  <2>1. \A u \in Worker : \/ job'[u].seen = job[u].seen
                          \/ job'[u].seen = NoFile
                          \/ \E g \in File : job'[u].seen = doc[g]
    BY DEF OnlyOne, GoesOn
  \* Those who are about to create keep their versions, but for w.
  <2>2. \A u \in Worker : Creating(job'[u]) =>
           \/ /\ Creating(job[u]) /\ job'[u].op = job[u].op
              /\ job'[u].got = job[u].got /\ job'[u].seen = job[u].seen
           \/ u = w /\ j.op = "move" /\ j.got = j.seen /\ j.got.rev # 0
           \/ u = w /\ j.got.rev = rev + 1 /\ UNCHANGED doc
    BY DEF OnlyOne, GoesOn
  <2>3. CASE v = w /\ job'[v].got.rev = rev + 1 /\ UNCHANGED doc
    <3>1. \A g \in File : doc'[g].rev # rev + 1 /\ shown'[g].rev # rev + 1
      BY <1>1, <2>3
    <3>2. \A u \in Worker : job'[u].seen.rev # rev + 1
      BY <1>1, <2>1
    <3>3. \A u \in Worker \ {v} : Creating(job'[u]) => job'[u].got.rev # rev + 1
      BY <1>1, <2>2, <2>3
    <3>. QED BY <1>1, <2>3, <3>1, <3>2, <3>3 DEF Unseen
  <2>4. CASE v = w /\ j.op = "move" /\ j.got = j.seen /\ j.got.rev # 0
    BY <2>4 DEF OnlyOne
  <2>5. CASE /\ Creating(job[v]) /\ job'[v].op = job[v].op
             /\ job'[v].got = job[v].got /\ job'[v].seen = job[v].seen
    <3>1. job[v].got.rev # 0
      BY <2>5 DEF VersionsOk, NewVersions
    <3>2. CASE job[v].op = "move" /\ job[v].got = job[v].seen
      BY <2>5, <3>1, <3>2
    <3>3. CASE Unseen(v)
      <4>. DEFINE n == job[v].got.rev
      <4>1. n \in 0..rev /\ n # 0
        BY <1>1, <3>1
      <4>. HIDE DEF n
      <4>2. /\ \A g \in File : doc[g].rev # n /\ shown[g].rev # n
            /\ \A u \in Worker : job[u].seen.rev # n
            /\ \A u \in Worker \ {v} : Creating(job[u]) => job[u].got.rev # n
        BY <3>3 DEF Unseen, n
      <4>3. \A g \in File : doc'[g].rev # n /\ shown'[g].rev # n
        BY <1>1, <1>4, <4>1, <4>2
      <4>4. \A u \in Worker : job'[u].seen.rev # n
        BY <1>1, <2>1, <4>1, <4>2
      <4>5. \A u \in Worker \ {v} : Creating(job'[u]) => job'[u].got.rev # n
        <5>. SUFFICES ASSUME NEW u \in Worker \ {v}, Creating(job'[u])
                      PROVE  job'[u].got.rev # n
          OBVIOUS
        <5>1. CASE job'[u].got.rev = rev + 1
          BY <1>1, <4>1, <5>1
        <5>2. CASE u = w /\ j.got = j.seen
          BY <4>4, <5>2 DEF OnlyOne
        <5>3. CASE Creating(job[u]) /\ job'[u].got = job[u].got
          BY <4>2, <5>3
        <5>. QED BY <2>2, <5>1, <5>2, <5>3 DEF OnlyOne
      <4>. QED BY <2>5, <3>1, <4>3, <4>4, <4>5 DEF Unseen, n
    <3>. QED BY <2>5, <3>1, <3>2, <3>3 DEF VersionsOk, NewVersions
  <2>. QED BY <2>2, <2>3, <2>4, <2>5 DEF OnlyOne
<1>. QED BY <1>5, <1>6, <1>7, <1>8, <1>9 DEF VersionsOk

\* What a handler is about to create can be there, and was not seen there.
LEMMA CreatedIsUnseen ==
  ASSUME IInv, MovesApart, EntriesOk, VersionsOk, NEW w \in Worker, Creating(job[w]),
         NEW p, p = NewFile(job[w]), p \notin excused, lock[p] = Free
  PROVE  /\ shown[p].rev # job[w].got.rev
         /\ \A v \in Worker : Removing(job[v], p) =>
               job[v].step = "start" /\ job[v].seen.rev # job[w].got.rev
<1>1. p \in File /\ (job[w].op = "move" => job[w].src \in Path /\ job[w].dst \in Path)
  BY JobIs DEF NewFile, Files
<1>2. \A v \in Worker : Removing(job[v], p) => job[v].step = "start"
  <2>1. \A v \in Worker : v # Free
    BY JobIs
  <2>. QED BY <2>1 DEF EntriesOk, EntryJob, OwnLocks, Removing
<1>3. CASE Unseen(w)
  BY <1>1, <1>2, <1>3 DEF Unseen
<1>4. CASE job[w].op = "move" /\ job[w].got = job[w].seen
  <2>1. PICK r \in Moved : r.src = job[w].src /\ r.dst = p
    BY <1>4, JobIs DEF Lawful, AskedJob, Moved, NewFile
  <2>2. doc[r.src] = job[w].got /\ job[w].got.rev # 0
    BY <1>4, <2>1, JobIs DEF HeldJob, Creating, VersionsOk, NewVersions
  <2>. QED BY <1>2, <2>1, <2>2 DEF VersionsOk, CopiesUnseen
<1>. QED BY <1>3, <1>4 DEF VersionsOk, NewVersions

\* A file that is created is a new version, or the copy of a move.
LEMMA CreateKeepsVersions ==
  ASSUME IInv, MovesApart, EntriesOk, VersionsOk, NEW w \in Worker, Creating(job[w]), NEW j,
         OnlyOne(w, j), UNCHANGED <<shown, scenario>>, excused \subseteq excused',
         NEW p, p = NewFile(job[w]), lock[p] = Free, doc' = [doc EXCEPT ![p] = job[w].got],
         j.op = job[w].op, j.src = job[w].src, j.dst = job[w].dst, j.seen = job[w].seen,
         j.step = "created"
  PROVE  VersionsOk'
<1>. DEFINE got == job[w].got
<1>1. /\ rev \in Nat
      /\ \A g \in File : doc[g].rev \in 0..rev /\ shown[g].rev \in 0..rev
      /\ \A v \in Worker : job[v].seen.rev \in 0..rev /\ job[v].got.rev \in 0..rev
      /\ NoFile.rev = 0
  BY RevsIs
<1>2. /\ Moved' = Moved /\ Path \subseteq File
      /\ \A r \in Moved : r.src \in Path /\ r.dst \in Path /\ r.dst # r.src
  BY MovedAre DEF Moved, MovesApart
<1>3. /\ p \in File
      /\ \A g \in File \ {p} : doc'[g] = doc[g]
      /\ doc'[p] = got
  BY JobIs DEF NewFile, IInv, TypeOK
<1>. HIDE DEF got
<1>4. got.rev # 0 /\ (Unseen(w) \/ (job[w].op = "move" /\ got = job[w].seen))
  BY DEF VersionsOk, NewVersions, got
<1>5. /\ \A v \in Worker : job'[v].op = job[v].op /\ job'[v].src = job[v].src
                           /\ job'[v].dst = job[v].dst /\ job'[v].seen = job[v].seen
      /\ \A v \in Worker \ {w} : job'[v] = job[v]
      /\ job'[w].step = "created"
  BY DEF OnlyOne
<1>6. job[w].op = "move" => \E r \in Moved : r.src = job[w].src /\ r.dst = p
  BY JobIs DEF Lawful, AskedJob, Moved, NewFile
\* Where a move begins only a new file is created.
<1>7. \A r \in Moved : r.src = p => Unseen(w)
  BY <1>4, <1>6 DEF MovesApart
<1>8. DocRevs'
  BY <1>3, <1>4 DEF DocRevs, VersionsOk
<1>9. SourcesDiffer'
  <2>. SUFFICES ASSUME NEW r \in Moved, NEW q \in Moved, doc'[r.src].rev = doc'[q.src].rev,
                       doc'[r.src].rev # 0, r.src # q.src
                PROVE  FALSE
    BY <1>2 DEF SourcesDiffer
  <2>1. r.src \in File /\ q.src \in File
    BY <1>2
  <2>2. CASE r.src # p /\ q.src # p
    BY <1>3, <2>1, <2>2 DEF VersionsOk, SourcesDiffer
  <2>3. CASE r.src = p \/ q.src = p
    <3>1. \A g \in File : doc[g].rev # got.rev
      BY <1>7, <2>3 DEF Unseen, got
    <3>. QED BY <1>3, <2>1, <2>3, <3>1
  <2>. QED BY <2>2, <2>3
<1>10. CopiesAreMoves'
  <2>. SUFFICES ASSUME NEW r \in Moved, doc'[r.dst].rev = doc'[r.src].rev, doc'[r.src].rev # 0
                PROVE  r.dst \in excused' \/ \E v \in Worker : Copying(job'[v], r)
    BY <1>2 DEF CopiesAreMoves
  <2>1. r.src \in File /\ r.dst \in File /\ r.dst # r.src
    BY <1>2
  <2>2. CASE r.src = p
    <3>1. doc[r.dst].rev # got.rev
      BY <1>7, <2>1, <2>2 DEF Unseen, got
    <3>. QED BY <1>3, <2>1, <2>2, <3>1
  <2>3. CASE r.dst = p
    <3>1. doc[r.src].rev = got.rev
      BY <1>3, <2>1, <2>3
    <3>2. job[w].op = "move" /\ got = job[w].seen
      BY <1>4, <2>1, <3>1 DEF Unseen, got
    <3>3. PICK q \in Moved : q.src = job[w].src /\ q.dst = p
      BY <1>6, <3>2
    <3>4. doc[q.src] = got
      BY <3>2, <3>3, JobIs DEF HeldJob, Creating
    <3>5. r.src = q.src
      BY <1>4, <3>1, <3>4 DEF VersionsOk, SourcesDiffer
    <3>. QED BY <1>5, <2>3, <3>2, <3>3, <3>5 DEF Copying, NewFile
  <2>4. CASE r.src # p /\ r.dst # p
    <3>1. r.dst \in excused \/ \E v \in Worker : Copying(job[v], r)
      BY <1>3, <2>1, <2>4 DEF VersionsOk, CopiesAreMoves
    <3>2. ~Copying(job[w], r)
      BY DEF Copying, Creating
    <3>. QED BY <1>5, <3>1, <3>2
  <2>. QED BY <2>2, <2>3, <2>4
<1>11. CopiesUnseen'
  <2>. SUFFICES ASSUME NEW r \in Moved, r.dst \notin excused', doc'[r.src].rev # 0
                PROVE  /\ shown[r.dst].rev # doc'[r.src].rev
                       /\ \A v \in Worker : Removing(job'[v], r.dst) =>
                             job'[v].seen.rev # doc'[r.src].rev
    BY <1>2 DEF CopiesUnseen
  <2>1. r.src \in File /\ r.dst \in File
    BY <1>2
  <2>2. \A v \in Worker : Removing(job'[v], r.dst) => Removing(job[v], r.dst) /\ job'[v].seen = job[v].seen
    BY <1>5 DEF Removing
  <2>3. CASE r.src = p
    <3>1. /\ shown[r.dst].rev # got.rev
          /\ \A v \in Worker : job[v].seen.rev # got.rev
      BY <1>7, <2>1, <2>3 DEF Unseen, got
    <3>. QED BY <1>3, <2>2, <2>3, <3>1
  <2>4. CASE r.src # p
    BY <1>3, <2>1, <2>2, <2>4 DEF VersionsOk, CopiesUnseen
  <2>. QED BY <2>3, <2>4
<1>12. NewVersions'
  <2>. SUFFICES ASSUME NEW v \in Worker, Creating(job'[v])
                PROVE  /\ job'[v].got.rev # 0
                       /\ Unseen(v)' \/ (job'[v].op = "move" /\ job'[v].got = job'[v].seen)
    BY DEF NewVersions
  <2>1. v # w /\ job'[v] = job[v]
    BY <1>5 DEF Creating
  <2>2. CASE Unseen(v)
    <3>. DEFINE n == job[v].got.rev
    <3>1. /\ \A g \in File : doc[g].rev # n /\ shown[g].rev # n
          /\ \A u \in Worker : job[u].seen.rev # n
          /\ \A u \in Worker \ {v} : Creating(job[u]) => job[u].got.rev # n
      BY <2>2 DEF Unseen
    <3>. HIDE DEF n
    <3>2. got.rev # n
      BY <2>1, <3>1 DEF got
    <3>3. \A g \in File : doc'[g].rev # n /\ shown'[g].rev # n
      BY <1>3, <3>1, <3>2
    <3>4. \A u \in Worker : job'[u].seen.rev # n
      BY <1>5, <3>1
    <3>5. \A u \in Worker \ {v} : Creating(job'[u]) => job'[u].got.rev # n
      BY <1>5, <3>1 DEF Creating
    <3>. QED BY <2>1, <3>3, <3>4, <3>5 DEF Unseen, n, VersionsOk, NewVersions
  <2>. QED BY <2>1, <2>2 DEF VersionsOk, NewVersions
<1>. QED BY <1>8, <1>9, <1>10, <1>11, <1>12 DEF VersionsOk

-----------------------------------------------------------------------------
(* Entries and files keep each other company. *)

\* What the locks keep the others from.
LEMMA EntriesKeep ==
  ASSUME IInv, EntriesOk, NEW w, NEW j, OnlyOne(w, j), UNCHANGED scenario,
         \A x \in File \cup Folder : lock[x] \notin {Free, w} => lock'[x] = lock[x],
         \A f \in Full : lock[f] \notin {Free, w} => kust'[f] = kust[f],
         \A p \in Path : doc[p] = NoFile /\ lock[p] \notin {Free, w} => doc'[p] = NoFile,
         w \in Worker => EntryJob(w, j, doc', lock', kust')
  PROVE  EntriesOk'
<1>. SUFFICES ASSUME NEW v \in Worker
              PROVE  EntryJob(v, job[v], doc, lock, kust)'
  BY DEF EntriesOk
<1>1. Full' = Full /\ \A p : Steady(p)' = Steady(p)
  BY DEF Full, Steady
<1>2. CASE v = w
  <2>1. job'[v] = j /\ EntryJob(w, j, doc', lock', kust')
    BY <1>2 DEF OnlyOne
  <2>. QED BY <1>1, <1>2, <2>1 DEF EntryJob, OwnLocks, Unlists, OwnEntry
<1>3. CASE v # w
  <2>. DEFINE k == job[v]
  <2>1. job'[v] = k
    BY <1>3 DEF OnlyOne
  <2>2. /\ v \notin {Free, w} /\ k.src \in File /\ k.child \in Path \cup Folder \cup {"spec"}
        /\ k.step \in {"unlist", "list", "prune", "remove"} => k.child \in Path \cup Folder
    BY <1>3, JobIs DEF Lawful, ListJob
  <2>3. EntryJob(v, k, doc, lock, kust)
    BY DEF EntriesOk
  <2>. HIDE DEF k
  <2>4. OwnLocks(v, k, lock', kust')
    <3>1. k.op \in {"delete", "move"} /\ k.step # "start" => lock'[k.src] = v
      BY <2>2, <2>3 DEF EntryJob, OwnLocks
    <3>2. k.read # NoList /\ In[k.child] \in Full =>
             lock'[In[k.child]] = v /\ k.read = kust'[In[k.child]]
      BY <2>2, <2>3 DEF EntryJob, OwnLocks, Full
    <3>. QED BY <2>3, <3>1, <3>2 DEF EntryJob, OwnLocks
  <2>5. Unlists(k, doc')
    <3>1. k.step = "unlist" /\ k.child \in Path => lock[k.src] = v /\ k.src \in Path
      BY <2>3 DEF EntryJob, OwnLocks, Unlists
    <3>. QED BY <2>2, <2>3, <3>1 DEF EntryJob, Unlists
  <2>. QED BY <1>1, <2>1, <2>3, <2>4, <2>5 DEF EntryJob, OwnLocks, Unlists, OwnEntry
<1>. QED BY <1>2, <1>3

\* Nobody removes a file that is not listed yet.
LEMMA AddedKeeps ==
  ASSUME IInv, AddedIsNew, NEW w, NEW j, OnlyOne(w, j),
         UNCHANGED <<shown, scenario>>, excused \subseteq excused',
         NEW f \in File, NEW d, OneDoc(w, f, d), w \in Worker \/ j = job[w], GoesOn(w, j)
  PROVE  AddedIsNew'
<1>. SUFFICES ASSUME NEW v \in Worker, NEW p \in Path \ excused', Adding(job'[v], p)
              PROVE  /\ doc'[p] # NoFile /\ shown[p].rev # doc'[p].rev
                     /\ \A u \in Worker : Removing(job'[u], p) =>
                           job'[u].step = "start" /\ job'[u].seen.rev # doc'[p].rev
  BY DEF AddedIsNew
<1>1. Adding(job[v], p) /\ p \in File
  BY DEF OnlyOne, GoesOn, File
<1>2. /\ doc[p] # NoFile /\ shown[p].rev # doc[p].rev
      /\ \A u \in Worker : Removing(job[u], p) => job[u].step = "start" /\ job[u].seen.rev # doc[p].rev
  BY <1>1 DEF AddedIsNew
<1>3. \A u \in Worker : Removing(job'[u], p) =>
         Removing(job[u], p) /\ job'[u].seen = job[u].seen /\ job'[u].step = "start"
  BY <1>2 DEF OnlyOne, GoesOn
<1>4. doc'[p] = doc[p] \/ (doc'[p].rev = rev + 1 /\ doc'[p] # NoFile)
  BY <1>1, <1>2 DEF OneDoc, IInv, TypeOK
<1>5. rev \in Nat /\ shown[p].rev \in 0..rev /\ \A u \in Worker : job[u].seen.rev \in 0..rev
  BY <1>1, RevsIs
<1>6. CASE doc'[p] = doc[p]
  BY <1>2, <1>3, <1>6
<1>7. CASE doc'[p].rev = rev + 1 /\ doc'[p] # NoFile
  <2>1. shown[p].rev # rev + 1 /\ \A u \in Worker : job[u].seen.rev # rev + 1
    BY <1>5
  <2>. QED BY <1>3, <1>7, <2>1
<1>. QED BY <1>4, <1>6, <1>7

\* What a step leaves of the entries: one goes with its file, one comes with it,
\* and a handler that is yet to write one stays until it has.
ListsGoOn(w, j) ==
    /\ \A p \in Path : doc'[p] # NoFile => doc[p] # NoFile \/ (w \in Worker /\ Adding(j, p))
    /\ \A p \in Path : doc[p] # NoFile /\ doc'[p] = NoFile => w \in Worker /\ Unlisting(j, p)
    /\ \A p \in Path \ excused' : Steady(p) =>
          /\ p \in kust[In[p]] => p \in kust'[In[p]] \/ doc'[p] = NoFile
          /\ p \in kust'[In[p]] => p \in kust[In[p]] \/ doc'[p] # NoFile
          /\ Adding(job[w], p) => Adding(j, p) \/ p \in kust'[In[p]]
          /\ Unlisting(job[w], p) => Unlisting(j, p) \/ p \notin kust'[In[p]]

\* Such a step keeps files and entries together.
LEMMA ListsKeep ==
  ASSUME FileIsListed, EntryIsThere, NEW w, NEW j, OnlyOne(w, j), UNCHANGED scenario,
         excused \subseteq excused', ListsGoOn(w, j)
  PROVE  FileIsListed' /\ EntryIsThere'
<1>1. \A p : Steady(p)' = Steady(p)
  BY DEF Steady
<1>2. FileIsListed'
  <2>. SUFFICES ASSUME NEW p \in Path \ excused', Steady(p), doc'[p] # NoFile, p \notin kust'[In[p]]
                PROVE  \E v \in Worker : Adding(job'[v], p)
    BY <1>1 DEF FileIsListed
  <2>1. CASE w \in Worker /\ Adding(j, p)
    BY <2>1 DEF OnlyOne
  <2>2. CASE doc[p] # NoFile
    <3>1. p \notin kust[In[p]]
      BY DEF ListsGoOn
    <3>2. PICK v \in Worker : Adding(job[v], p)
      BY <2>2, <3>1 DEF FileIsListed
    <3>. QED BY <3>2 DEF OnlyOne, ListsGoOn
  <2>. QED BY <2>1, <2>2 DEF ListsGoOn
<1>3. EntryIsThere'
  <2>. SUFFICES ASSUME NEW p \in Path \ excused', Steady(p), doc'[p] = NoFile, p \in kust'[In[p]]
                PROVE  \E v \in Worker : Unlisting(job'[v], p)
    BY <1>1 DEF EntryIsThere
  <2>1. CASE doc[p] # NoFile
    BY <2>1 DEF OnlyOne, ListsGoOn
  <2>2. CASE doc[p] = NoFile
    <3>1. p \in kust[In[p]]
      BY DEF ListsGoOn
    <3>2. PICK v \in Worker : Unlisting(job[v], p)
      BY <2>2, <3>1 DEF EntryIsThere
    <3>. QED BY <3>2 DEF OnlyOne, ListsGoOn
  <2>. QED BY <2>1, <2>2
<1>. QED BY <1>2, <1>3

-----------------------------------------------------------------------------
(* What one step owes to files and entries. *)

\* The whole of it.
LEMMA StepKeeps ==
  ASSUME IInv, MovesApart, LInv, NEW w, NEW j, OnlyOne(w, j), w \in Worker \/ j = job[w],
         UNCHANGED <<shown, scenario>>, excused \subseteq excused',
         NEW f \in File, NEW d, OneDoc(w, f, d), GoesOn(w, j), ListsGoOn(w, j), FullStay',
         \A x \in File \cup Folder : lock[x] \notin {Free, w} => lock'[x] = lock[x],
         \A g \in Full : lock[g] \notin {Free, w} => kust'[g] = kust[g],
         w \in Worker => EntryJob(w, j, doc', lock', kust')
  PROVE  LInv'
<1>1. \A p \in Path : doc[p] = NoFile /\ lock[p] \notin {Free, w} => doc'[p] = NoFile
  BY DEF OneDoc, IInv, TypeOK, File
<1>2. EntriesOk'
  BY <1>1, EntriesKeep DEF LInv
<1>3. AddedIsNew'
  BY AddedKeeps DEF LInv
<1>4. VersionsOk'
  BY VersionsKeep DEF LInv
<1>5. FileIsListed' /\ EntryIsThere'
  BY ListsKeep DEF LInv, ListsOk
<1>. QED BY <1>2, <1>3, <1>4, <1>5 DEF LInv, ListsOk

\* Kustomizations that list other files are as they were.
LEMMA FullStays ==
  ASSUME FullStay, UNCHANGED scenario, \A g \in Full : kust'[g] = kust[g]
  PROVE  /\ FullStay'
         /\ \A p \in Path : Steady(p) => kust'[In[p]] = kust[In[p]]
<1>1. Full' = Full
  BY DEF Full
<1>2. FullStay'
  BY <1>1 DEF FullStay
<1>3. \A p \in Path : Steady(p) => In[p] \in Full
  BY FolderAssumption DEF Steady, Above, Over, Full
<1>. QED BY <1>2, <1>3

\* A list that is not there lists no other files.
LEMMA NoListIsNotFull ==
  ASSUME FullStay, NEW f \in Folder, kust[f] = NoList \/ kust[f] = {}
  PROVE  f \notin Full
  BY DEF FullStay, NoList

\* An idle handler is about no file.
LEMMA IdleOwesNothing ==
  /\ \A w, docs, locks, lists : EntryJob(w, Idle, docs, locks, lists)
  /\ ~Creating(Idle) /\ \A p : ~Adding(Idle, p) /\ ~Unlisting(Idle, p) /\ ~Removing(Idle, p)
  /\ Idle.seen = NoFile /\ Idle.read = NoList /\ Idle.op = "none" /\ Idle.step = "idle"
<1>1. Idle.seen = NoFile /\ Idle.read = NoList /\ Idle.op = "none" /\ Idle.step = "idle"
  BY DEF Idle
<1>2. \A w, docs, locks, lists : EntryJob(w, Idle, docs, locks, lists)
  BY <1>1 DEF EntryJob, OwnLocks, Unlists, OwnEntry
<1>. QED BY <1>1, <1>2 DEF Creating, Adding, Unlisting, Removing

\* One handler goes on.
LEMMA OneGoesOn ==
  ASSUME IInv, NEW w \in Worker, NEW j, job' = [job EXCEPT ![w] = j]
  PROVE  OnlyOne(w, j)
<1>1. job = [v \in Worker |-> job[v]]
  BY DEF IInv, TypeOK
<1>. QED BY <1>1 DEF OnlyOne

\* A file under Path is a file.
LEMMA SpecIsFile == "spec" \in File /\ "bundle" \in File /\ Path \subseteq File /\ "spec" \notin Path /\ "bundle" \notin Path
  BY FolderAssumption DEF File

\* A step that writes no file, and no list that it shares.
LEMMA CalmKeeps ==
  ASSUME IInv, MovesApart, LInv, NEW w \in Worker, NEW j, job' = [job EXCEPT ![w] = j],
         UNCHANGED <<doc, shown, scenario>>, excused \subseteq excused',
         \A x \in File \cup Folder : lock[x] \notin {Free, w} => lock'[x] = lock[x],
         \A g \in Full : kust'[g] = kust[g],
         GoesOn(w, j), EntryJob(w, j, doc, lock', kust'),
         \A p \in Path \ excused' : Steady(p) =>
            /\ Adding(job[w], p) => Adding(j, p)
            /\ Unlisting(job[w], p) => Unlisting(j, p)
  PROVE  LInv'
<1>1. OnlyOne(w, j)
  BY OneGoesOn
<1>2. "spec" \in File /\ OneDoc(w, "spec", doc["spec"])
  BY SpecIsFile DEF OneDoc, IInv, TypeOK
<1>3. FullStay' /\ \A p \in Path : Steady(p) => kust'[In[p]] = kust[In[p]]
  BY FullStays DEF LInv, ListsOk
<1>4. ListsGoOn(w, j)
  BY <1>3 DEF ListsGoOn
<1>. QED BY <1>1, <1>2, <1>3, <1>4, StepKeeps

\* A handler that answers with nothing left to list.
LEMMA AnswerLists ==
  ASSUME IInv, MovesApart, LInv, NEW w \in Worker, Answers(w),
         UNCHANGED <<doc, shown, scenario>>, excused \subseteq excused',
         \A g \in Full : kust'[g] = kust[g],
         job[w].op = "move" => job[w].step # "created",
         \A p \in Path \ excused' : Steady(p) => ~Adding(job[w], p) /\ ~Unlisting(job[w], p)
  PROVE  LInv'
<1>1. /\ job' = [job EXCEPT ![w] = Idle]
      /\ \A x \in File \cup Folder : lock[x] \notin {Free, w} => lock'[x] = lock[x]
  BY AnswersIs DEF IInv
<1>2. GoesOn(w, Idle)
  BY IdleOwesNothing DEF GoesOn
<1>3. EntryJob(w, Idle, doc, lock', kust')
  BY IdleOwesNothing
<1>. QED BY <1>1, <1>2, <1>3, CalmKeeps

\* A handler that lists nothing: it edits cluster.yaml or a secret, or connects.
LEMMA ClerkKeeps ==
  ASSUME IInv, MovesApart, LInv, NEW w \in Worker, NEW j, job' = [job EXCEPT ![w] = j],
         UNCHANGED <<shown, scenario, excused>>,
         NEW f \in File, NEW d, doc' = [doc EXCEPT ![f] = d],
         d = doc[f] \/ (d.rev = rev + 1 /\ d # NoFile /\ (f \in Path => doc[f] # NoFile)),
         \A x \in File \cup Folder : lock[x] \notin {Free, w} => lock'[x] = lock[x],
         \A g \in Full : kust'[g] = kust[g],
         ~Lister(job[w].op), ~Lister(j.op), j.read = NoList,
         j.step \notin {"unlist", "list", "remove"},
         j.seen \in {job[w].seen, NoFile} \/ \E g \in File : j.seen = doc[g]
  PROVE  LInv'
<1>1. OnlyOne(w, j) /\ OneDoc(w, f, d)
  BY OneGoesOn DEF OneDoc
<1>2. GoesOn(w, j)
  BY DEF GoesOn, Creating, Removing, Adding, Lister
<1>3. EntryJob(w, j, doc', lock', kust')
  BY DEF EntryJob, OwnLocks, Unlists, OwnEntry, Lister
<1>4. FullStay' /\ \A p \in Path : Steady(p) => kust'[In[p]] = kust[In[p]]
  BY FullStays DEF LInv, ListsOk
<1>5. ListsGoOn(w, j)
  <2>1. \A p \in Path : doc'[p] # NoFile <=> doc[p] # NoFile
    BY SpecIsFile DEF IInv, TypeOK
  <2>2. job[w].step # "unlist"
    BY JobIs DEF Lawful, ListJob, Lister
  <2>3. \A p : ~Adding(job[w], p) /\ ~Unlisting(job[w], p)
    BY <2>2 DEF Adding, Unlisting, Lister
  <2>. QED BY <1>4, <2>1, <2>3 DEF ListsGoOn
<1>. QED BY <1>1, <1>2, <1>3, <1>4, <1>5, StepKeeps

\* ... and answers.
LEMMA ClerkAnswers ==
  ASSUME IInv, MovesApart, LInv, NEW w \in Worker, Answers(w),
         UNCHANGED <<shown, scenario, excused>>,
         NEW f \in File, NEW d, doc' = [doc EXCEPT ![f] = d],
         d = doc[f] \/ (d.rev = rev + 1 /\ d # NoFile /\ (f \in Path => doc[f] # NoFile)),
         \A g \in Full : kust'[g] = kust[g], ~Lister(job[w].op)
  PROVE  LInv'
<1>1. /\ job' = [job EXCEPT ![w] = Idle]
      /\ \A x \in File \cup Folder : lock[x] \notin {Free, w} => lock'[x] = lock[x]
  BY AnswersIs DEF IInv
<1>2. ~Lister(Idle.op)
  BY IdleOwesNothing DEF Lister
<1>. QED BY <1>1, <1>2, IdleOwesNothing, ClerkKeeps

-----------------------------------------------------------------------------
(* Handlers that list nothing. *)

\* Such a handler has read no list.
LEMMA ClerkIs ==
  ASSUME IInv, LInv, NEW w \in Worker, ~Lister(job[w].op)
  PROVE  job[w].read = NoList /\ job[w].step \notin {"unlist", "list", "remove"}
<1>1. EntryJob(w, job[w], doc, lock, kust) /\ job[w].step \notin {"unlist", "list", "prune", "remove"}
  BY JobIs DEF Lawful, ListJob, Lister, LInv, EntriesOk
<1>. QED BY <1>1 DEF EntryJob, OwnLocks

\* It goes to its next step.
LEMMA ClerkGoes ==
  ASSUME IInv, MovesApart, LInv, NEW w \in Worker, NEW s \in Steps, Goes(w, s),
         s \notin {"unlist", "list", "remove"}, ~Lister(job[w].op),
         UNCHANGED <<doc, shown, scenario, excused, lock>>,
         \A g \in Full : kust'[g] = kust[g]
  PROVE  LInv'
<1>. DEFINE j == [job[w] EXCEPT !.step = s]
<1>1. j.step = s /\ Same(j, job[w], {"step"})
  BY JobIs, StepIs
<1>2. job' = [job EXCEPT ![w] = j]
  BY DEF Goes, Becomes
<1>. HIDE DEF j
<1>3. j.op = job[w].op /\ j.read = NoList /\ j.seen = job[w].seen
  BY <1>1, ClerkIs DEF Same
<1>4. "spec" \in File /\ doc' = [doc EXCEPT !["spec"] = doc["spec"]]
  BY SpecIsFile DEF IInv, TypeOK
<1>. QED BY <1>1, <1>2, <1>3, <1>4, ClerkKeeps

\* The file that was read is written, or not, and the handler answers.
LEMMA SavesLists ==
  ASSUME IInv, MovesApart, LInv, NEW w \in Worker, SaveSpec(w) \/ SaveSecret(w)
  PROVE  LInv'
<1>1. job[w].op \in {"edit", "ip"} /\ job[w].step = "held" /\ Saves(w)
  BY DEF SaveSpec, SaveSecret, At
<1>2. Answers(w) /\ UNCHANGED <<kust, shown, scenario, excused>> /\ ~Lister(job[w].op)
  BY <1>1 DEF Saves, Quietly, Lister
<1>3. doc[job[w].src] # NoFile /\ job[w].src \in File
  BY <1>1, JobIs DEF HeldJob
<1>4. CASE doc' = doc
  <2>1. doc' = [doc EXCEPT ![job[w].src] = doc[job[w].src]]
    BY <1>4 DEF IInv, TypeOK
  <2>. QED BY <1>2, <1>3, <2>1, ClerkAnswers
<1>5. CASE doc' # doc
  <2>. DEFINE d == Version(job[w].got.name, rev + 1, job[w].got.keys)
  <2>1. doc' = [doc EXCEPT ![job[w].src] = d]
    BY <1>1, <1>5 DEF Saves, Writes
  <2>2. d.rev = rev + 1 /\ d # NoFile
    <3>1. rev \in Nat
      BY RevsIs
    <3>. QED BY <3>1 DEF Version, NoFile
  <2>. HIDE DEF d
  <2>. QED BY <1>2, <1>3, <2>1, <2>2, ClerkAnswers
<1>. QED BY <1>4, <1>5

\* The rules.
LEMMA RuleStepLists ==
  ASSUME IInv, MovesApart, LInv, NEW w \in Worker, Config(w) \/ OwnRule(w) \/ AddKey(w)
  PROVE  LInv'
<1>1. /\ job[w].op \in {"connect", "init", "flux"}
      /\ UNCHANGED <<doc, kust, shown, scenario, excused>>
  BY DEF Config, OwnRule, AddKey, At, Quietly
<1>2. ~Lister(job[w].op)
  BY <1>1 DEF Lister
<1>3. \/ Answers(w)
      \/ UNCHANGED lock /\ \E s \in {"rule", "key", "scan", "files"} : Goes(w, s)
  <2>1. CASE Config(w)
    BY <2>1 DEF Config
  <2>2. CASE OwnRule(w)
    BY <2>2 DEF OwnRule
  <2>3. CASE AddKey(w)
    BY <2>3 DEF AddKey
  <2>. QED BY <2>1, <2>2, <2>3
<1>4. CASE Answers(w)
  <2>1. "spec" \in File /\ doc' = [doc EXCEPT !["spec"] = doc["spec"]]
    BY <1>1, SpecIsFile DEF IInv, TypeOK
  <2>. QED BY <1>1, <1>2, <1>4, <2>1, ClerkAnswers
<1>5. ASSUME NEW s \in {"rule", "key", "scan", "files"}, Goes(w, s), UNCHANGED lock
      PROVE  LInv'
  <2>1. s \in Steps /\ s \notin {"unlist", "list", "remove"}
    BY DEF Steps
  <2>. QED BY <1>1, <1>2, <1>5, <2>1, ClerkGoes
<1>. QED BY <1>3, <1>4, <1>5

\* Files are listed for their new key.
LEMMA ScanLists ==
  ASSUME IInv, MovesApart, LInv, NEW w \in Worker, Scan(w)
  PROVE  LInv'
<1>1. PICK T : Becomes(w, [job[w] EXCEPT !.step = "rekey", !.todo = T])
  BY DEF Scan
<1>. DEFINE j == [job[w] EXCEPT !.step = "rekey", !.todo = T]
<1>2. /\ job[w].op = "flux" /\ UNCHANGED <<doc, kust, lock, shown, scenario, excused>>
  BY DEF Scan, At, Quietly, NoWrite
<1>3. ~Lister(job[w].op)
  BY <1>2 DEF Lister
<1>4. j.op = job[w].op /\ j.step = "rekey" /\ j.read = job[w].read /\ j.seen = job[w].seen
  BY <1>2, JobIs DEF JobOf
<1>5. job' = [job EXCEPT ![w] = j]
  BY <1>1 DEF Becomes
<1>. HIDE DEF j
<1>6. "spec" \in File /\ doc' = [doc EXCEPT !["spec"] = doc["spec"]]
  BY <1>2, SpecIsFile DEF IInv, TypeOK
<1>7. j.read = NoList /\ ~Lister(j.op) /\ j.step \notin {"unlist", "list", "remove"}
  BY <1>3, <1>4, ClerkIs
<1>8. \A x \in File \cup Folder : lock[x] \notin {Free, w} => lock'[x] = lock[x]
  BY <1>2
<1>. QED BY <1>2, <1>3, <1>4, <1>5, <1>6, <1>7, <1>8, ClerkKeeps

\* A file gets its new key, if it is as it was listed.
LEMMA RekeyLists ==
  ASSUME IInv, MovesApart, LInv, NEW w \in Worker, Rekey(w)
  PROVE  LInv'
<1>1. job[w].op = "flux" /\ UNCHANGED <<kust, shown, scenario, excused>>
  BY DEF Rekey, At, Quietly
<1>2. ~Lister(job[w].op)
  BY <1>1 DEF Lister
<1>3. CASE job[w].todo = {}
  <2>1. Answers(w) /\ UNCHANGED doc
    BY <1>3 DEF Rekey
  <2>2. "spec" \in File /\ doc' = [doc EXCEPT !["spec"] = doc["spec"]]
    BY <2>1, SpecIsFile DEF IInv, TypeOK
  <2>. QED BY <1>1, <1>2, <2>1, <2>2, ClerkAnswers
<1>4. CASE job[w].todo # {}
  <2>1. PICK t \in job[w].todo :
           /\ \/ doc[t[1]] = t[2] /\ Writes(t[1], Version(t[2].name, rev + 1, RuleFor(Class(t[1]))))
              \/ UNCHANGED doc
           /\ Becomes(w, [job[w] EXCEPT !.todo = @ \ {t}])
           /\ UNCHANGED lock
    BY <1>4 DEF Rekey
  <2>. DEFINE j == [job[w] EXCEPT !.todo = @ \ {t}]
              d == Version(t[2].name, rev + 1, RuleFor(Class(t[1])))
  <2>2. t \in Path \X Doc /\ t[2] # NoFile /\ t[1] \in File
    BY <1>1, JobIs, SpecIsFile DEF Todo, Lawful, FluxJob
  <2>3. Same(j, job[w], {"todo"})
    BY JobIs, RekeyIs
  <2>4. job' = [job EXCEPT ![w] = j]
    BY <2>1 DEF Becomes
  <2>. HIDE DEF j
  <2>5. /\ j.op = job[w].op /\ j.read = NoList /\ j.seen = job[w].seen
        /\ j.step \notin {"unlist", "list", "remove"}
    BY <1>2, <2>3, ClerkIs DEF Same
  <2>6. d.rev = rev + 1 /\ d # NoFile
    <3>1. rev \in Nat
      BY RevsIs
    <3>. QED BY <3>1 DEF Version, NoFile
  <2>7. CASE doc[t[1]] = t[2] /\ doc' = [doc EXCEPT ![t[1]] = d]
    <3>. HIDE DEF d
    <3>. QED BY <1>1, <1>2, <2>1, <2>2, <2>4, <2>5, <2>6, <2>7, ClerkKeeps
  <2>8. CASE UNCHANGED doc
    <3>1. doc' = [doc EXCEPT ![t[1]] = doc[t[1]]]
      BY <2>2, <2>8 DEF IInv, TypeOK
    <3>. QED BY <1>1, <1>2, <2>1, <2>2, <2>4, <2>5, <3>1, ClerkKeeps
  <2>. QED BY <2>1, <2>7, <2>8 DEF Writes
<1>. QED BY <1>3, <1>4

\* The kustomization of a cluster's folder is made where there is none.
LEMMA MakeFolderLists ==
  ASSUME IInv, MovesApart, LInv, NEW w \in Worker, MakeFolder(w)
  PROVE  LInv'
<1>1. PICK f : \/ kust[f] = NoList /\ Lists(f, {})
               \/ UNCHANGED kust
  BY DEF MakeFolder
<1>2. /\ job[w].op = "connect" /\ Goes(w, "addon")
      /\ UNCHANGED <<doc, lock, shown, scenario, excused>>
  BY DEF MakeFolder, At, Quietly
<1>3. ~Lister(job[w].op) /\ "addon" \in Steps
  BY <1>2 DEF Lister, Steps
<1>4. \A g \in Full : kust'[g] = kust[g]
  <2>1. \A g \in Full : g \in Folder /\ kust[g] # NoList
    BY NoListIsNotFull DEF Full, LInv, ListsOk
  <2>. QED BY <1>1, <2>1 DEF Lists, IInv, TypeOK
<1>. QED BY <1>2, <1>3, <1>4, ClerkGoes

\* cluster.yaml and the bundle.
LEMMA FileStepLists ==
  ASSUME IInv, MovesApart, LInv, NEW w \in Worker, SetAddon(w) \/ InitFile(w)
  PROVE  LInv'
<1>1. job[w].op \in {"connect", "init"} /\ UNCHANGED <<kust, shown, scenario, excused>>
  BY DEF SetAddon, InitFile, At, Quietly
<1>2. ~Lister(job[w].op)
  BY <1>1 DEF Lister
<1>3. PICK f \in {"bundle", "spec"} :
         /\ \/ UNCHANGED doc
            \/ \E n, keys : doc' = [doc EXCEPT ![f] = Version(n, rev + 1, keys)]
         /\ Answers(w) \/ (Goes(w, "spec") /\ UNCHANGED lock)
  <2>1. CASE SetAddon(w)
    BY <2>1 DEF SetAddon, Writes
  <2>2. CASE InitFile(w)
    <3>1. PICK f \in {"bundle", "spec"} : f = IF job[w].step = "files" THEN "bundle" ELSE "spec"
      OBVIOUS
    <3>. QED BY <2>2, <3>1 DEF InitFile, Writes
  <2>. QED BY <2>1, <2>2
<1>4. PICK d : /\ doc' = [doc EXCEPT ![f] = d]
               /\ d = doc[f] \/ (d.rev = rev + 1 /\ d # NoFile)
  <2>1. CASE UNCHANGED doc
    <3>1. doc' = [doc EXCEPT ![f] = doc[f]]
      BY <2>1 DEF IInv, TypeOK
    <3>. QED BY <3>1
  <2>2. ASSUME NEW n, NEW keys, doc' = [doc EXCEPT ![f] = Version(n, rev + 1, keys)]
        PROVE  \E d : /\ doc' = [doc EXCEPT ![f] = d]
                      /\ d = doc[f] \/ (d.rev = rev + 1 /\ d # NoFile)
    <3>1. Version(n, rev + 1, keys).rev = rev + 1 /\ Version(n, rev + 1, keys) # NoFile
      <4>1. rev \in Nat
        BY RevsIs
      <4>. QED BY <4>1 DEF Version, NoFile
    <3>. QED BY <2>2, <3>1
  <2>. QED BY <1>3, <2>1, <2>2
<1>5. f \in File /\ f \notin Path
  BY SpecIsFile
<1>6. CASE Answers(w)
  BY <1>1, <1>2, <1>4, <1>5, <1>6, ClerkAnswers
<1>7. CASE Goes(w, "spec") /\ UNCHANGED lock
  <2>. DEFINE j == [job[w] EXCEPT !.step = "spec"]
  <2>1. "spec" \in Steps
    BY DEF Steps
  <2>2. j.step = "spec" /\ Same(j, job[w], {"step"})
    BY <2>1, JobIs, StepIs
  <2>3. job' = [job EXCEPT ![w] = j]
    BY <1>7 DEF Goes, Becomes
  <2>. HIDE DEF j
  <2>4. j.op = job[w].op /\ j.read = NoList /\ j.seen = job[w].seen
    BY <1>2, <2>2, ClerkIs DEF Same
  <2>. QED BY <1>1, <1>2, <1>4, <1>5, <1>7, <2>2, <2>3, <2>4, ClerkKeeps
<1>. QED BY <1>3, <1>6, <1>7

-----------------------------------------------------------------------------
(* New files and moves, up to the entry. *)

\* What is known of a handler between its lists.
LEMMA EntryIs ==
  ASSUME IInv, LInv, NEW w \in Worker
  PROVE  /\ EntryJob(w, job[w], doc, lock, kust)
         /\ job[w].step \notin {"unlist", "list"} => job[w].read = NoList
         /\ job[w].step \in {"unlist", "list", "prune", "remove"} =>
               job[w].child \in Path \cup Folder /\ In[job[w].child] \in Folder
<1>1. EntryJob(w, job[w], doc, lock, kust)
  BY DEF LInv, EntriesOk
<1>2. job[w].step \in {"unlist", "list", "prune", "remove"} => job[w].child \in Path \cup Folder
  BY JobIs DEF Lawful, ListJob
<1>. QED BY <1>1, <1>2, FolderAssumption DEF EntryJob, OwnLocks

\* Every kustomization on the way of a steady file is there.
LEMMA SteadyHasLists ==
  ASSUME FullStay, NEW p \in Path, Steady(p)
  PROVE  /\ In[p] \in Full /\ In[In[p]] \in Full /\ Missing(p) = {}
         /\ \A f \in Full : kust[f] # NoList
<1>1. In[p] \in Full /\ In[In[p]] \in Full
  BY FolderAssumption DEF Steady, Above, Over, Full
<1>2. \A f \in Full : f \in Folder /\ kust[f] # NoList
  BY NoListIsNotFull DEF Full
<1>3. Missing(p) = {}
  <2>1. \A f \in Above(p) : f \in Full /\ f \in Over(f)
    BY <1>1 DEF Above, Over
  <2>. QED BY <1>2, <2>1 DEF Missing
<1>. QED BY <1>1, <1>2, <1>3

\* A request starts a handler.
LEMMA AskLists ==
  ASSUME IInv, MovesApart, LInv, NEW w \in Worker, NEW r \in scenario.asks, Ask(w, r)
  PROVE  LInv'
<1>. DEFINE j == [Idle EXCEPT !.op = r.op, !.src = r.src, !.dst = r.dst, !.who = r.who,
                              !.seen = shown[r.src], !.step = "start"]
<1>1. /\ job' = [job EXCEPT ![w] = j] /\ job[w] = Idle
      /\ UNCHANGED <<doc, kust, lock, shown, scenario, excused>>
  BY DEF Ask, Becomes, NoWrite
<1>2. /\ j.op = r.op /\ j.src = r.src /\ j.seen = shown[r.src] /\ j.step = "start" /\ j.read = NoList
      /\ j.todo = {}
  BY DEF Idle
<1>3. r.src \in File
  BY ScenarioAssumption DEF IInv, TypeOK, Requests
<1>. HIDE DEF j
<1>4. OnlyOne(w, j)
  BY <1>1, OneGoesOn
<1>5. Moved' = Moved /\ Full' = Full /\ \A p : Steady(p)' = Steady(p)
  BY <1>1 DEF Moved, Full, Steady
<1>6. EntryJob(w, j, doc', lock', kust')
  BY <1>2 DEF EntryJob, OwnLocks, Unlists, OwnEntry
<1>7. EntriesOk'
  BY <1>1, <1>4, <1>6, EntriesKeep DEF LInv
<1>8. \A v \in Worker : \/ job'[v] = job[v]
                        \/ /\ v = w /\ job'[v].step = "start" /\ job'[v].seen = shown[r.src]
                           /\ job'[v].src = r.src
  BY <1>2, <1>4 DEF OnlyOne
<1>9. \A v \in Worker, p \in Path : /\ Adding(job'[v], p) <=> Adding(job[v], p)
                                    /\ Unlisting(job'[v], p) <=> Unlisting(job[v], p)
  <2>1. \A p \in Path : ~Adding(job[w], p) /\ ~Unlisting(job[w], p) /\ ~Adding(job'[w], p) /\ ~Unlisting(job'[w], p)
    BY <1>1, <1>2, <1>4, IdleOwesNothing DEF OnlyOne, Adding, Unlisting
  <2>. QED BY <1>8, <2>1
<1>10. ListsOk'
  <2>1. FullStay'
    BY <1>1, <1>5 DEF LInv, ListsOk, FullStay
  <2>2. FileIsListed'
    BY <1>1, <1>5, <1>9 DEF LInv, ListsOk, FileIsListed
  <2>3. EntryIsThere'
    BY <1>1, <1>5, <1>9 DEF LInv, ListsOk, EntryIsThere
  <2>. QED BY <2>1, <2>2, <2>3 DEF ListsOk
<1>11. AddedIsNew'
  <2>. SUFFICES ASSUME NEW v \in Worker, NEW p \in Path \ excused, Adding(job[v], p)
                PROVE  /\ doc[p] # NoFile /\ shown[p].rev # doc[p].rev
                       /\ \A u \in Worker : Removing(job'[u], p) =>
                             job'[u].step = "start" /\ job'[u].seen.rev # doc[p].rev
    BY <1>1, <1>9 DEF AddedIsNew
  <2>1. /\ doc[p] # NoFile /\ shown[p].rev # doc[p].rev
        /\ \A u \in Worker : Removing(job[u], p) => job[u].step = "start" /\ job[u].seen.rev # doc[p].rev
    BY DEF LInv, AddedIsNew
  <2>. QED BY <1>8, <2>1 DEF Removing
<1>12. VersionsOk'
  <2>1. DocRevs' /\ SourcesDiffer'
    BY <1>1, <1>5 DEF LInv, VersionsOk, DocRevs, SourcesDiffer
  <2>2. CopiesAreMoves'
    <3>1. \A v \in Worker : \A q : Copying(job[v], q) => Copying(job'[v], q)
      <4>1. \A q : ~Copying(job[w], q)
        BY <1>1, IdleOwesNothing DEF Copying
      <4>. QED BY <1>8, <4>1
    <3>. QED BY <1>1, <1>5, <3>1 DEF LInv, VersionsOk, CopiesAreMoves
  <2>3. CopiesUnseen'
    <3>. SUFFICES ASSUME NEW q \in Moved, q.dst \notin excused, doc[q.src].rev # 0
                  PROVE  /\ shown[q.dst].rev # doc[q.src].rev
                         /\ \A v \in Worker : Removing(job'[v], q.dst) => job'[v].seen.rev # doc[q.src].rev
      BY <1>1, <1>5 DEF CopiesUnseen
    <3>1. /\ shown[q.dst].rev # doc[q.src].rev
          /\ \A v \in Worker : Removing(job[v], q.dst) => job[v].seen.rev # doc[q.src].rev
      BY DEF LInv, VersionsOk, CopiesUnseen
    <3>. QED BY <1>8, <3>1 DEF Removing
  <2>4. NewVersions'
    <3>. SUFFICES ASSUME NEW v \in Worker, Creating(job'[v])
                  PROVE  /\ job'[v].got.rev # 0
                         /\ Unseen(v)' \/ (job'[v].op = "move" /\ job'[v].got = job'[v].seen)
      BY DEF NewVersions
    <3>1. \A u \in Worker : Creating(job'[u]) => job'[u] = job[u]
      BY <1>8 DEF Creating
    <3>2. ASSUME Unseen(v) PROVE Unseen(v)'
      BY <1>1, <1>3, <1>8, <3>1, <3>2 DEF Unseen
    <3>. QED BY <3>1, <3>2 DEF LInv, VersionsOk, NewVersions
  <2>. QED BY <2>1, <2>2, <2>3, <2>4 DEF VersionsOk
<1>. QED BY <1>7, <1>10, <1>11, <1>12 DEF LInv

\* The file and its hash.
LEMMA ReadLists ==
  ASSUME IInv, MovesApart, LInv, NEW w \in Worker, Read(w)
  PROVE  LInv'
<1>. DEFINE p == job[w].src
            j == [job[w] EXCEPT !.step = "held", !.seen = doc[p], !.got = doc[p]]
<1>1. /\ job[w].op \in {"edit", "delete", "move", "ip"} /\ job[w].step = "start"
      /\ UNCHANGED <<doc, kust, shown, scenario, excused>>
  BY DEF Read, At, Quietly, NoWrite
<1>2. \A x : ~Adding(job[w], x) /\ ~Unlisting(job[w], x)
  BY <1>1 DEF Adding, Unlisting
<1>3. CASE Answers(w)
  BY <1>1, <1>2, <1>3, AnswerLists
<1>4. CASE /\ Takes(w, p) /\ job' = [job EXCEPT ![w] = j]
           /\ job[w].op # "ip" => job[w].seen = doc[p]
  <2>1. p \in File /\ doc[p] \in Doc
    BY JobIs DEF IInv, TypeOK
  <2>2. /\ j.step = "held" /\ j.seen = doc[p]
        /\ Same(j, job[w], {"step", "seen", "got"})
    BY JobIs DEF JobOf, Same
  <2>. HIDE DEF j
  <2>3. lock' = [lock EXCEPT ![p] = w] /\ lock \in [File \cup Folder -> Worker \cup {Free}] /\ lock[p] = Free
    BY <1>4 DEF Takes, Read, IInv, TypeOK
  <2>4. /\ \A x \in File \cup Folder : lock[x] \notin {Free, w} => lock'[x] = lock[x]
        /\ lock'[p] = w
    BY <2>1, <2>3
  <2>5. GoesOn(w, j)
    BY <1>1, <1>4, <2>1, <2>2 DEF GoesOn, Creating, Removing, Adding, Same
  <2>6. job[w].read = NoList /\ EntryJob(w, job[w], doc, lock, kust)
    BY <1>1, EntryIs
  <2>7. EntryJob(w, j, doc, lock', kust')
    BY <2>2, <2>4, <2>6 DEF EntryJob, OwnLocks, Unlists, OwnEntry, Same
  <2>. QED BY <1>1, <1>2, <1>4, <2>4, <2>5, <2>7, CalmKeeps
<1>. QED BY <1>3, <1>4 DEF Read, Becomes

\* A new file is not there yet.
LEMMA StatLists ==
  ASSUME IInv, MovesApart, LInv, NEW w \in Worker, Stat(w)
  PROVE  LInv'
<1>. DEFINE j == [job[w] EXCEPT !.step = "held"]
<1>1. /\ job[w].op = "new" /\ job[w].step = "start"
      /\ UNCHANGED <<doc, kust, shown, scenario, excused>>
  BY DEF Stat, At, Quietly, NoWrite
<1>2. \A x : ~Adding(job[w], x) /\ ~Unlisting(job[w], x)
  BY <1>1 DEF Adding, Unlisting
<1>3. CASE Answers(w)
  BY <1>1, <1>2, <1>3, AnswerLists
<1>4. CASE job' = [job EXCEPT ![w] = j] /\ UNCHANGED lock
  <2>1. "held" \in Steps
    BY DEF Steps
  <2>2. j.step = "held" /\ Same(j, job[w], {"step"})
    BY <2>1, JobIs, StepIs
  <2>. HIDE DEF j
  <2>3. GoesOn(w, j)
    BY <1>1, <2>2 DEF GoesOn, Creating, Removing, Adding, Same
  <2>4. job[w].read = NoList /\ EntryJob(w, job[w], doc, lock, kust)
    BY <1>1, EntryIs
  <2>5. EntryJob(w, j, doc, lock', kust')
    BY <1>1, <2>2, <2>4 DEF EntryJob, OwnLocks, Unlists, OwnEntry, Same
  <2>. QED BY <1>1, <1>2, <1>4, <2>3, <2>5, CalmKeeps
<1>. QED BY <1>3, <1>4 DEF Stat, Goes, Becomes

\* A new version, or that of a move as it is.
LEMMA EncryptLists ==
  ASSUME IInv, MovesApart, LInv, NEW w \in Worker, Encrypt(w)
  PROVE  LInv'
<1>1. /\ job[w].op \in {"new", "move"} /\ job[w].step = "held"
      /\ UNCHANGED <<doc, kust, shown, scenario, excused>>
  BY DEF Encrypt, At, Quietly
<1>2. \A x : ~Adding(job[w], x) /\ ~Unlisting(job[w], x)
  BY <1>1 DEF Adding, Unlisting
<1>3. CASE Answers(w)
  BY <1>1, <1>2, <1>3, AnswerLists
<1>4. CASE ~Answers(w)
  <2>1. PICK v : /\ Becomes(w, [job[w] EXCEPT !.step = "create", !.got = v])
                 /\ v.rev = rev + 1 \/ (job[w].op = "move" /\ v = job[w].got)
                 /\ UNCHANGED lock
    <3>. DEFINE keys == RuleFor(Class(Target(w)))
                v == IF job[w].op = "new" THEN Version(rev + 1, rev + 1, keys)
                     ELSE IF job[w].got.keys = keys THEN job[w].got
                     ELSE Version(job[w].got.name, rev + 1, keys)
    <3>1. Becomes(w, [job[w] EXCEPT !.step = "create", !.got = v]) /\ UNCHANGED lock
      BY <1>4 DEF Encrypt
    <3>2. v.rev = rev + 1 \/ (job[w].op = "move" /\ v = job[w].got)
      BY <1>1 DEF Version
    <3>. QED BY <3>1, <3>2
  <2>. DEFINE j == [job[w] EXCEPT !.step = "create", !.got = v]
  <2>2. /\ j.step = "create" /\ j.got = v /\ j.op = job[w].op /\ j.src = job[w].src
        /\ j.dst = job[w].dst /\ j.seen = job[w].seen /\ j.read = job[w].read
        /\ j.todo = job[w].todo
    BY JobIs DEF JobOf
  <2>3. job' = [job EXCEPT ![w] = j]
    BY <2>1 DEF Becomes
  <2>. HIDE DEF j
  <2>4. job[w].op = "move" => /\ job[w].got = job[w].seen /\ job[w].seen = doc[job[w].src]
                              /\ job[w].seen # NoFile /\ job[w].src \in File
    BY <1>1, JobIs DEF HeldJob
  <2>5. Creating(j) => \/ j.op = "move" /\ j.got = j.seen /\ j.got.rev # 0
                       \/ j.got.rev = rev + 1
    BY <2>1, <2>2, <2>4 DEF LInv, VersionsOk, DocRevs
  <2>6. GoesOn(w, j)
    BY <1>1, <2>2, <2>5 DEF GoesOn, Removing, Adding
  <2>7. job[w].read = NoList /\ EntryJob(w, job[w], doc, lock, kust)
    BY <1>1, EntryIs
  <2>8. EntryJob(w, j, doc, lock', kust')
    BY <1>1, <2>1, <2>2, <2>7 DEF EntryJob, OwnLocks, Unlists, OwnEntry
  <2>. QED BY <1>1, <1>2, <2>1, <2>3, <2>6, <2>8, CalmKeeps
<1>. QED BY <1>3, <1>4

\* A file is removed, and its entry is to follow.
LEMMA RemoveLists ==
  ASSUME IInv, MovesApart, LInv, NEW w \in Worker, Delete(w) \/ Drop(w)
  PROVE  LInv'
<1>. DEFINE p == job[w].src
            j == [job[w] EXCEPT !.step = "unlist", !.child = p]
<1>1. /\ (job[w].op = "delete" /\ job[w].step = "held") \/ (job[w].op = "move" /\ job[w].step = "created")
      /\ doc' = [doc EXCEPT ![p] = NoFile] /\ job' = [job EXCEPT ![w] = j]
      /\ UNCHANGED <<kust, lock, shown, scenario, excused>>
  BY DEF Delete, Drop, At, Writes, Becomes, Quietly
<1>2. /\ j.step = "unlist" /\ j.child = p
      /\ Same(j, job[w], {"step", "child"})
  BY <1>1, JobIs DEF JobOf, Same
<1>3. p \in Path /\ p \in File /\ p \notin Folder
  BY <1>1, JobIs, FolderAssumption DEF Files
<1>. HIDE DEF j
<1>4. OnlyOne(w, j)
  BY <1>1, OneGoesOn
<1>5. OneDoc(w, p, NoFile)
  BY <1>1 DEF OneDoc, Removing
<1>6. doc'[p] = NoFile /\ \A q \in Path : q # p => doc'[q] = doc[q]
  BY <1>1, <1>3, SpecIsFile DEF IInv, TypeOK
<1>7. GoesOn(w, j)
  BY <1>1, <1>2, <1>6 DEF GoesOn, Creating, Removing, Adding, Same, NewFile
<1>8. ListsGoOn(w, j)
  BY <1>1, <1>2, <1>6 DEF ListsGoOn, Adding, Unlisting, Same, NewFile
<1>9. job[w].read = NoList /\ EntryJob(w, job[w], doc, lock, kust)
  BY <1>1, EntryIs
<1>10. EntryJob(w, j, doc', lock', kust')
  BY <1>1, <1>2, <1>3, <1>6, <1>9 DEF EntryJob, OwnLocks, Unlists, OwnEntry, Same, Full
<1>11. FullStay'
  BY <1>1, FullStays DEF LInv, ListsOk
<1>. QED BY <1>1, <1>3, <1>4, <1>5, <1>7, <1>8, <1>10, <1>11, StepKeeps

\* A file is created, and its entry is to follow.
LEMMA CreateLists ==
  ASSUME IInv, MovesApart, LInv, NEW w \in Worker, Create(w)
  PROVE  LInv'
<1>. DEFINE j == [job[w] EXCEPT !.step = "created"]
            p == NewFile(job[w])
<1>1. /\ job[w].op \in {"new", "move"} /\ job[w].step = "create" /\ lock[p] = Free
      /\ UNCHANGED <<kust, shown, scenario, excused>>
  BY DEF Create, At, Quietly, Target, NewFile
<1>2. CASE doc[p] # NoFile
  <2>1. Answers(w) /\ UNCHANGED doc
    BY <1>2 DEF Create, Target, NewFile
  <2>2. \A x : ~Adding(job[w], x) /\ ~Unlisting(job[w], x)
    BY <1>1 DEF Adding, Unlisting
  <2>. QED BY <1>1, <2>1, <2>2, AnswerLists
<1>3. CASE doc[p] = NoFile
  <2>1. doc' = [doc EXCEPT ![p] = job[w].got] /\ job' = [job EXCEPT ![w] = j] /\ UNCHANGED lock
    BY <1>3 DEF Create, Target, NewFile, Writes, Goes, Becomes
  <2>2. "created" \in Steps
    BY DEF Steps
  <2>3. j.step = "created" /\ Same(j, job[w], {"step"})
    BY <2>2, JobIs, StepIs
  <2>4. p \in Path /\ p \in File /\ Creating(job[w])
    BY <1>1, JobIs DEF NewFile, Files, Creating
  <2>. HIDE DEF j
  <2>5. OnlyOne(w, j) /\ NewFile(j) = p
    BY <2>1, <2>3, OneGoesOn DEF Same, NewFile
  <2>. HIDE DEF p
  <2>6. job[w].got.rev # 0 /\ NoFile.rev = 0
    BY <2>4 DEF LInv, VersionsOk, NewVersions, NoFile
  <2>7. doc'[p] = job[w].got /\ doc'[p] # NoFile /\ \A q \in Path : q # p => doc'[q] = doc[q]
    BY <2>1, <2>4, <2>6, SpecIsFile DEF IInv, TypeOK
  <2>8. VersionsOk'
    BY <1>1, <2>1, <2>3, <2>4, <2>5, CreateKeepsVersions DEF LInv, Same, p
  <2>9. EntriesOk'
    <3>1. job[w].read = NoList /\ EntryJob(w, job[w], doc, lock, kust)
      BY <1>1, EntryIs
    <3>2. EntryJob(w, j, doc', lock', kust')
      BY <1>1, <2>1, <2>3, <3>1 DEF EntryJob, OwnLocks, Unlists, OwnEntry, Same
    <3>. QED BY <1>1, <2>1, <2>5, <2>7, <3>2, EntriesKeep DEF LInv
  <2>10. FullStay' /\ FileIsListed' /\ EntryIsThere'
    <3>1. FullStay'
      BY <1>1, FullStays DEF LInv, ListsOk
    <3>2. ListsGoOn(w, j)
      BY <1>1, <1>3, <2>3, <2>5, <2>7 DEF ListsGoOn, Adding, Unlisting, Same
    <3>. QED BY <1>1, <2>5, <3>1, <3>2, ListsKeep DEF LInv, ListsOk
  <2>11. AddedIsNew'
    <3>. SUFFICES ASSUME NEW v \in Worker, NEW q \in Path \ excused, Adding(job'[v], q)
                  PROVE  /\ doc'[q] # NoFile /\ shown[q].rev # doc'[q].rev
                         /\ \A u \in Worker : Removing(job'[u], q) =>
                               job'[u].step = "start" /\ job'[u].seen.rev # doc'[q].rev
      BY <1>1 DEF AddedIsNew
    <3>1. \A u \in Worker : Removing(job'[u], q) => /\ Removing(job[u], q) /\ job'[u].seen = job[u].seen
                                                    /\ u # w => job'[u] = job[u]
      BY <2>3, <2>5 DEF OnlyOne, Removing, Same
    <3>2. CASE q = p
      <4>1. /\ shown[p].rev # job[w].got.rev
            /\ \A u \in Worker : Removing(job[u], p) =>
                  job[u].step = "start" /\ job[u].seen.rev # job[w].got.rev
        BY <1>1, <2>4, <3>2, CreatedIsUnseen DEF LInv, p
      <4>2. ~Removing(job[w], p)
        BY <1>1, <4>1
      <4>. QED BY <2>7, <3>1, <3>2, <4>1, <4>2
    <3>3. CASE q # p
      <4>1. v # w /\ Adding(job[v], q)
        BY <2>5, <3>3 DEF OnlyOne, Adding
      <4>2. /\ doc[q] # NoFile /\ shown[q].rev # doc[q].rev
            /\ \A u \in Worker : Removing(job[u], q) => job[u].step = "start" /\ job[u].seen.rev # doc[q].rev
        BY <4>1 DEF LInv, AddedIsNew
      <4>3. ~Removing(job[w], q)
        BY <1>1, <4>2
      <4>. QED BY <2>7, <3>1, <3>3, <4>2, <4>3
    <3>. QED BY <3>2, <3>3
  <2>. QED BY <2>8, <2>9, <2>10, <2>11 DEF LInv, ListsOk
<1>. QED BY <1>2, <1>3

-----------------------------------------------------------------------------
(* The lists. *)

\* The folders that need a kustomization first.
LEMMA PlanLists ==
  ASSUME IInv, MovesApart, LInv, NEW w \in Worker, Plan(w)
  PROVE  LInv'
<1>. DEFINE T == Missing(job[w].src)
            j == [job[w] EXCEPT !.step = "list", !.child = job[w].src, !.todo = T]
<1>1. /\ job[w].op = "new" /\ job[w].step = "created"
      /\ UNCHANGED <<doc, kust, shown, scenario, excused>>
  BY DEF Plan, At, Quietly, NoWrite
<1>2. job[w].src \in Path /\ NewFile(job[w]) = job[w].src
  BY <1>1, JobIs DEF Files, NewFile
<1>3. Steady(job[w].src) => T = {}
  BY <1>2, SteadyHasLists DEF LInv, ListsOk
<1>4. \A x : ~Unlisting(job[w], x) /\ (Adding(job[w], x) <=> x = job[w].src)
  BY <1>1, <1>2 DEF Adding, Unlisting
<1>. HIDE DEF T
<1>5. CASE \E f \in T : In[f] = f
  <2>1. Answers(w)
    BY <1>5 DEF Plan, T
  <2>2. ~Steady(job[w].src)
    BY <1>3, <1>5
  <2>. QED BY <1>1, <1>4, <2>1, <2>2, AnswerLists
<1>6. CASE ~\E f \in T : In[f] = f
  <2>1. job' = [job EXCEPT ![w] = j] /\ UNCHANGED lock
    BY <1>6 DEF Plan, Becomes, T
  <2>2. j.step = "list" /\ j.child = job[w].src /\ j.todo = T /\ Same(j, job[w], {"step", "child", "todo"})
    BY <1>1, JobIs DEF JobOf, Same
  <2>. HIDE DEF j
  <2>3. GoesOn(w, j)
    BY <1>1, <2>2 DEF GoesOn, Creating, Removing, Adding, Same, NewFile
  <2>4. job[w].read = NoList /\ EntryJob(w, job[w], doc, lock, kust)
    BY <1>1, EntryIs
  <2>5. EntryJob(w, j, doc, lock', kust')
    BY <1>1, <1>3, <2>2, <2>4 DEF EntryJob, OwnLocks, Unlists, OwnEntry, Same
  <2>6. \A x : Adding(job[w], x) => Adding(j, x)
    BY <1>1, <2>2 DEF Adding, Same, NewFile
  <2>. QED BY <1>1, <1>4, <2>1, <2>3, <2>5, <2>6, CalmKeeps
<1>. QED BY <1>5, <1>6

\* A kustomization is made where there was none.
LEMMA MakeListLists ==
  ASSUME IInv, MovesApart, LInv, NEW w \in Worker, MakeList(w)
  PROVE  LInv'
<1>. DEFINE f == In[job[w].child]
            j == [job[w] EXCEPT !.child = f, !.todo = @ \ {f}]
<1>1. /\ job[w].op = "new" /\ job[w].step = "list" /\ job[w].todo # {}
      /\ UNCHANGED <<doc, shown, scenario>>
  BY DEF MakeList, At, Quietly
<1>2. EntryJob(w, job[w], doc, lock, kust) /\ f \in Folder /\ f \notin Path
  BY <1>1, EntryIs, FolderAssumption
<1>3. ~Steady(job[w].src) /\ job[w].read = NoList
  BY <1>1, <1>2 DEF EntryJob, OwnLocks, OwnEntry
<1>4. \A x : ~Unlisting(job[w], x) /\ (Adding(job[w], x) <=> x = job[w].src)
  BY <1>1 DEF Adding, Unlisting, NewFile
<1>5. CASE kust[f] # NoList
  <2>1. Answers(w) /\ excused \subseteq excused' /\ UNCHANGED kust
    BY <1>5 DEF MakeList
  <2>. QED BY <1>1, <1>3, <1>4, <2>1, AnswerLists
<1>6. CASE kust[f] = NoList
  <2>1. /\ job' = [job EXCEPT ![w] = j] /\ UNCHANGED <<lock, excused>>
        /\ kust' = [kust EXCEPT ![f] = {job[w].child}]
    BY <1>6 DEF MakeList, Becomes, Lists
  <2>2. j.child = f /\ Same(j, job[w], {"child", "todo"})
    BY <1>1, JobIs DEF JobOf, Same
  <2>. HIDE DEF j
  <2>3. f \notin Full
    BY <1>2, <1>6, NoListIsNotFull DEF LInv, ListsOk
  <2>4. \A g \in Full : kust'[g] = kust[g]
    BY <2>1, <2>3 DEF Full, IInv, TypeOK
  <2>5. GoesOn(w, j)
    BY <1>1, <2>2 DEF GoesOn, Creating, Removing, Adding, Same, NewFile
  <2>6. EntryJob(w, j, doc, lock', kust')
    BY <1>1, <1>2, <1>3, <2>2 DEF EntryJob, OwnLocks, Unlists, OwnEntry, Same
  <2>. QED BY <1>1, <1>3, <1>4, <2>1, <2>4, <2>5, <2>6, CalmKeeps
<1>. QED BY <1>5, <1>6

\* The files of a handler that lost its list are excused.
LEMMA LoseListLists ==
  ASSUME IInv, MovesApart, LInv, NEW w \in Worker, LoseList(w)
  PROVE  LInv'
<1>1. /\ Answers(w) /\ excused' = excused \cup Unfinished(w)
      /\ job[w].step \in {"unlist", "list"}
      /\ UNCHANGED <<doc, kust, shown, scenario>>
  BY DEF LoseList, Listing, Quietly
<1>2. EntryJob(w, job[w], doc, lock, kust)
  BY <1>1, EntryIs
<1>3. job[w].src \in excused' /\ job[w].dst \in excused'
  <2>1. job[w] # Idle
    BY <1>1, IdleOwesNothing
  <2>. QED BY <1>1, <2>1 DEF Unfinished
<1>4. \A p \in Path \ excused' : ~Adding(job[w], p) /\ ~Unlisting(job[w], p)
  BY <1>2, <1>3 DEF EntryJob, Unlists, Adding, Unlisting, NewFile
<1>. QED BY <1>1, <1>4, AnswerLists

\* The lock and the list.
LEMMA ReadListLists ==
  ASSUME IInv, MovesApart, LInv, NEW w \in Worker, ReadList(w)
  PROVE  LInv'
<1>. DEFINE f == In[job[w].child]
            j == [job[w] EXCEPT !.read = kust[f]]
<1>1. /\ job[w].step \in {"unlist", "list"} /\ job[w].todo = {}
      /\ job' = [job EXCEPT ![w] = j] /\ lock[f] = Free /\ lock' = [lock EXCEPT ![f] = w]
      /\ UNCHANGED <<doc, kust, shown, scenario, excused>>
  BY DEF ReadList, Listing, Becomes, Takes, Quietly, NoWrite
<1>2. j.read = kust[f] /\ Same(j, job[w], {"read"})
  BY JobIs DEF JobOf, Same
<1>3. EntryJob(w, job[w], doc, lock, kust) /\ f \in Folder
  BY <1>1, EntryIs
<1>. HIDE DEF j
<1>4. /\ \A x \in File \cup Folder : lock[x] # Free => lock'[x] = lock[x]
      /\ lock'[f] = w
  BY <1>1, <1>3 DEF IInv, TypeOK
<1>5. GoesOn(w, j)
  BY <1>1, <1>2 DEF GoesOn, Creating, Removing, Adding, Same, NewFile
<1>6. EntryJob(w, j, doc, lock', kust')
  <2>1. job[w].op \in {"delete", "move"} => lock'[job[w].src] = w
    BY <1>1, <1>3, <1>4, JobIs DEF EntryJob, OwnLocks
  <2>2. OwnLocks(w, j, lock', kust')
    BY <1>1, <1>2, <1>4, <2>1 DEF OwnLocks, Same
  <2>. QED BY <1>2, <1>3, <2>2 DEF EntryJob, Unlists, OwnEntry, Same
<1>7. \A x : /\ Adding(job[w], x) => Adding(j, x)
             /\ Unlisting(job[w], x) => Unlisting(j, x)
  BY <1>2 DEF Adding, Unlisting, Same, NewFile
<1>. QED BY <1>1, <1>4, <1>5, <1>6, <1>7, CalmKeeps

\* A handler is through with a list: it is written, if it needed writing.
LEMMA AfterListLists ==
  ASSUME IInv, MovesApart, LInv, NEW w \in Worker, NEW changed, AfterList(w, changed),
         job[w].step \in {"unlist", "list"}, job[w].todo = {},
         UNCHANGED <<doc, shown, scenario, excused>>, FullStay',
         \A g \in Full : lock[g] \notin {Free, w} => kust'[g] = kust[g],
         \A p \in Path \ excused : Steady(p) =>
            /\ p \in kust[In[p]] => p \in kust'[In[p]] \/ doc[p] = NoFile
            /\ p \in kust'[In[p]] => p \in kust[In[p]] \/ doc[p] # NoFile
            /\ p = job[w].child => (p \in kust'[In[p]] <=> job[w].step = "list")
  PROVE  LInv'
<1>. DEFINE o == job[w]
            next == IF o.op = "delete" /\ changed THEN [o EXCEPT !.step = "prune", !.read = NoList]
                    ELSE IF o.op = "move" /\ o.step = "unlist"
                    THEN [o EXCEPT !.step = "list", !.child = o.dst, !.read = NoList]
                    ELSE Idle
<1>1. /\ job' = [job EXCEPT ![w] = next]
      /\ lock' = [p \in DOMAIN lock |->
            IF lock[p] = w /\ (next = Idle \/ p = In[o.child]) THEN Free ELSE lock[p]]
  BY DEF AfterList, Becomes
<1>2. /\ EntryJob(w, o, doc, lock, kust) /\ In[o.child] \in Folder
      /\ o.op \in {"new", "delete", "move"} /\ o.src \in Path /\ o.src \notin Folder
      /\ o.src \in File
  BY EntryIs, JobIs, FolderAssumption DEF Lawful, ListJob, Files
<1>3. /\ \A x \in File \cup Folder : lock[x] \notin {Free, w} => lock'[x] = lock[x]
      /\ next # Idle /\ lock[o.src] = w => lock'[o.src] = w
  BY <1>1, <1>2 DEF IInv, TypeOK
<1>4. \A p \in Path : Steady(p) =>
         /\ Unlisting(o, p) => p = o.child /\ o.step = "unlist"
         /\ Adding(o, p) => \/ o.op = "move" /\ o.step = "unlist" /\ p = o.dst
                            \/ p = o.child /\ o.step = "list"
  BY <1>2 DEF Adding, Unlisting, EntryJob, Unlists, OwnEntry, NewFile
<1>5. "spec" \in File /\ OneDoc(w, "spec", doc["spec"])
  BY SpecIsFile DEF OneDoc, IInv, TypeOK
<1>6. OnlyOne(w, next)
  BY <1>1, OneGoesOn
\* Wherever it goes, its own entries are in order, and it makes no file.
<1>7. ASSUME NEW j, j = next, GoesOn(w, j), EntryJob(w, j, doc, lock', kust'),
             o.op = "move" /\ o.step = "unlist" => Adding(j, o.dst)
      PROVE  LInv'
  <2>1. ListsGoOn(w, j)
    BY <1>4, <1>7 DEF ListsGoOn
  <2>. QED BY <1>3, <1>5, <1>6, <1>7, <2>1, StepKeeps
<1>8. CASE o.op = "delete" /\ changed
  <2>. DEFINE j == [o EXCEPT !.step = "prune", !.read = NoList]
  <2>1. next = j /\ next # Idle
    <3>1. next = j
      BY <1>8
    <3>2. j.op = o.op
      BY JobIs DEF JobOf
    <3>. QED BY <1>8, <3>1, <3>2, IdleOwesNothing
  <2>2. j.step = "prune" /\ j.read = NoList /\ Same(j, o, {"step", "read"})
    BY JobIs DEF JobOf, Same
  <2>. HIDE DEF j, next
  <2>3. GoesOn(w, j)
    BY <1>8, <2>2 DEF GoesOn, Creating, Removing, Adding, Same
  <2>4. EntryJob(w, j, doc, lock', kust')
    BY <1>2, <1>3, <1>8, <2>1, <2>2 DEF EntryJob, OwnLocks, Unlists, OwnEntry, Same
  <2>. QED BY <1>7, <1>8, <2>1, <2>3, <2>4
<1>9. CASE ~(o.op = "delete" /\ changed) /\ o.op = "move" /\ o.step = "unlist"
  <2>. DEFINE j == [o EXCEPT !.step = "list", !.child = o.dst, !.read = NoList]
  <2>1. next = j /\ next # Idle
    <3>1. next = j
      BY <1>9
    <3>2. j.op = o.op
      BY JobIs DEF JobOf
    <3>. QED BY <1>9, <3>1, <3>2, IdleOwesNothing
  <2>2. j.step = "list" /\ j.read = NoList /\ j.child = o.dst /\ Same(j, o, {"step", "child", "read"})
    BY <1>9, JobIs DEF JobOf, Same
  <2>. HIDE DEF j, next
  <2>3. GoesOn(w, j)
    BY <1>9, <2>2 DEF GoesOn, Creating, Removing, Adding, Same, NewFile
  <2>4. EntryJob(w, j, doc, lock', kust')
    BY <1>2, <1>3, <1>9, <2>1, <2>2 DEF EntryJob, OwnLocks, Unlists, OwnEntry, Same
  <2>5. Adding(j, o.dst)
    BY <1>9, <2>2 DEF Adding, Same, NewFile
  <2>. QED BY <1>7, <2>1, <2>3, <2>4, <2>5
<1>10. CASE ~(o.op = "delete" /\ changed) /\ ~(o.op = "move" /\ o.step = "unlist")
  <2>1. next = Idle
    BY <1>10
  <2>. HIDE DEF next
  <2>2. GoesOn(w, Idle)
    BY IdleOwesNothing DEF GoesOn
  <2>3. EntryJob(w, Idle, doc, lock', kust')
    BY IdleOwesNothing
  <2>. QED BY <1>7, <1>10, <2>1, <2>2, <2>3
<1>. QED BY <1>8, <1>9, <1>10

\* Nothing to list in.
LEMMA SkipListLists ==
  ASSUME IInv, MovesApart, LInv, NEW w \in Worker, SkipList(w)
  PROVE  LInv'
<1>1. /\ AfterList(w, FALSE) /\ job[w].step \in {"unlist", "list"} /\ job[w].todo = {}
      /\ kust[In[job[w].child]] = NoList
      /\ UNCHANGED <<doc, kust, shown, scenario, excused>>
  BY DEF SkipList, Listing, Quietly, NoWrite
<1>2. FullStay'
  BY <1>1, FullStays DEF LInv, ListsOk
<1>3. \A p \in Path : Steady(p) => p # job[w].child
  BY <1>1, SteadyHasLists DEF LInv, ListsOk
<1>. QED BY <1>1, <1>2, <1>3, AfterListLists

\* The list that was read, with the entry or without it.
LEMMA WriteListLists ==
  ASSUME IInv, MovesApart, LInv, NEW w \in Worker, WriteList(w)
  PROVE  LInv'
<1>. DEFINE old == job[w].read
            child == job[w].child
            new == IF job[w].step = "list" THEN old \cup {child} ELSE old \ {child}
            f == In[child]
<1>1. /\ AfterList(w, new # old) /\ job[w].step \in {"unlist", "list"} /\ job[w].todo = {}
      /\ old # NoList
      /\ (new = old /\ UNCHANGED kust) \/ kust' = [kust EXCEPT ![f] = new]
      /\ UNCHANGED <<doc, shown, scenario, excused>>
  BY DEF WriteList, Listing, Quietly, Lists
<1>2. /\ EntryJob(w, job[w], doc, lock, kust) /\ f \in Folder /\ child \in Path \cup Folder
      /\ job[w].op \in {"new", "delete", "move"}
  BY <1>1, EntryIs, JobIs DEF Lawful, ListJob
<1>3. f \in Full => lock[f] = w /\ kust[f] = old
  BY <1>1, <1>2 DEF EntryJob, OwnLocks
<1>4. \A g \in Full : kust'[g] = IF g = f THEN new ELSE kust[g]
  BY <1>1, <1>2, <1>3 DEF Full, IInv, TypeOK
<1>5. child # "other" /\ (job[w].step = "unlist" => child \notin Full)
  BY <1>2, FolderAssumption DEF EntryJob, Unlists
<1>6. \A x : /\ x \in new => x \in old \/ (x = child /\ job[w].step = "list")
             /\ x \in old => x \in new \/ (x = child /\ job[w].step = "unlist")
             /\ x = child => (x \in new <=> job[w].step = "list")
  BY <1>1
<1>. HIDE DEF new, old, child, f
<1>7. FullStay'
  <2>1. Full' = Full /\ FullStay
    BY <1>1 DEF Full, LInv, ListsOk
  <2>. SUFFICES ASSUME NEW g \in Full
                PROVE  /\ "other" \in kust'[g]
                       /\ In[g] \in Full \ {g} => g \in kust'[In[g]]
    BY <2>1 DEF FullStay
  <2>2. "other" \in kust[g] /\ (In[g] \in Full \ {g} => g \in kust[In[g]])
    BY <2>1 DEF FullStay
  <2>3. "other" \in kust'[g]
    BY <1>3, <1>4, <1>5, <1>6, <2>2
  <2>4. In[g] \in Full \ {g} => g \in kust'[In[g]]
    BY <1>3, <1>4, <1>5, <1>6, <2>2
  <2>. QED BY <2>3, <2>4
<1>8. \A g \in Full : lock[g] \notin {Free, w} => kust'[g] = kust[g]
  BY <1>3, <1>4
<1>9. ASSUME NEW p \in Path \ excused, Steady(p)
      PROVE  /\ p \in kust[In[p]] => p \in kust'[In[p]] \/ doc[p] = NoFile
             /\ p \in kust'[In[p]] => p \in kust[In[p]] \/ doc[p] # NoFile
             /\ p = job[w].child => (p \in kust'[In[p]] <=> job[w].step = "list")
  <2>1. In[p] \in Full
    BY <1>9, SteadyHasLists DEF LInv, ListsOk
  <2>2. p = child => f = In[p]
    BY DEF f
  <2>3. p = child /\ job[w].step = "unlist" => doc[p] = NoFile
    BY <1>2 DEF EntryJob, Unlists, child
  <2>4. p = child /\ job[w].step = "list" => doc[p] # NoFile
    <3>. SUFFICES ASSUME p = child, job[w].step = "list" PROVE doc[p] # NoFile
      OBVIOUS
    <3>1. Adding(job[w], p)
      BY <1>2 DEF EntryJob, OwnEntry, Adding, NewFile, child
    <3>. QED BY <3>1 DEF LInv, AddedIsNew
  <2>5. CASE f = In[p]
    BY <1>3, <1>4, <1>6, <2>1, <2>3, <2>4, <2>5 DEF child
  <2>6. CASE f # In[p]
    BY <1>4, <2>1, <2>2, <2>6 DEF child
  <2>. QED BY <2>5, <2>6
<1>. QED BY <1>1, <1>7, <1>8, <1>9, AfterListLists

\* Only a kustomization that lists nothing is removed.
LEMMA PruneLists ==
  ASSUME IInv, MovesApart, LInv, NEW w \in Worker, Prune(w) \/ RemoveList(w)
  PROVE  LInv'
<1>. DEFINE f == In[job[w].child]
<1>1. /\ job[w].op = "delete" /\ job[w].step \in {"prune", "remove"}
      /\ UNCHANGED <<doc, shown, scenario, excused>>
  BY DEF Prune, RemoveList, At, Quietly, NoWrite
<1>2. /\ EntryJob(w, job[w], doc, lock, kust) /\ f \in Folder /\ f \notin Path
      /\ job[w].read = NoList
  BY <1>1, EntryIs, FolderAssumption
<1>3. \A x : ~Adding(job[w], x) /\ ~Unlisting(job[w], x)
  BY <1>1 DEF Adding, Unlisting
<1>4. \A g \in Full : kust'[g] = kust[g]
  <2>1. CASE Prune(w)
    BY <2>1 DEF Prune, NoWrite
  <2>2. CASE RemoveList(w)
    <3>1. f \notin Full
      BY <1>2, <2>2 DEF RemoveList, At, EntryJob, Unlists
    <3>2. UNCHANGED kust \/ kust' = [kust EXCEPT ![f] = NoList]
      BY <2>2 DEF RemoveList, Lists
    <3>. QED BY <3>1, <3>2 DEF IInv, TypeOK, Full
  <2>. QED BY <2>1, <2>2
<1>5. CASE Answers(w)
  BY <1>1, <1>3, <1>4, <1>5, AnswerLists
<1>6. CASE Prune(w) /\ ~Answers(w)
  <2>. DEFINE j == [job[w] EXCEPT !.step = "remove"]
  <2>1. kust[f] = {} /\ job' = [job EXCEPT ![w] = j] /\ UNCHANGED lock
    BY <1>6 DEF Prune, EmptyKustomization, Goes, Becomes
  <2>2. j.step = "remove" /\ Same(j, job[w], {"step"})
    BY JobIs DEF JobOf, Same
  <2>. HIDE DEF j
  <2>3. f \notin Full
    BY <1>2, <2>1, NoListIsNotFull DEF LInv, ListsOk
  <2>4. GoesOn(w, j)
    BY <1>1, <2>2 DEF GoesOn, Creating, Removing, Adding, Same
  <2>5. EntryJob(w, j, doc, lock', kust')
    BY <1>1, <1>2, <2>1, <2>2, <2>3 DEF EntryJob, OwnLocks, Unlists, OwnEntry, Same
  <2>. QED BY <1>1, <1>3, <1>4, <2>1, <2>4, <2>5, CalmKeeps
<1>7. CASE RemoveList(w) /\ ~Answers(w)
  <2>. DEFINE j == [job[w] EXCEPT !.step = "unlist", !.child = f]
  <2>1. job' = [job EXCEPT ![w] = j] /\ UNCHANGED lock
    BY <1>7 DEF RemoveList, Becomes
  <2>2. j.step = "unlist" /\ j.child = f /\ Same(j, job[w], {"step", "child"})
    BY <1>1, JobIs DEF JobOf, Same
  <2>. HIDE DEF j
  <2>3. f \notin Full
    BY <1>2, <1>7 DEF RemoveList, At, EntryJob, Unlists
  <2>4. GoesOn(w, j)
    BY <1>1, <2>2 DEF GoesOn, Creating, Removing, Adding, Same
  <2>5. EntryJob(w, j, doc, lock', kust')
    BY <1>1, <1>2, <2>1, <2>2, <2>3 DEF EntryJob, OwnLocks, Unlists, OwnEntry, Same
  <2>. QED BY <1>1, <1>3, <1>4, <2>1, <2>4, <2>5, CalmKeeps
<1>. QED BY <1>5, <1>6, <1>7

-----------------------------------------------------------------------------
(* The daemon, the watcher and the editors. *)

\* An editor's version is new, and takes no entry with it.
LEMMA EditorLists ==
  ASSUME IInv, MovesApart, LInv, NEW f \in File, EditorSaves(f)
  PROVE  LInv'
<1>. DEFINE d == Version(doc[f].name, rev + 1, doc[f].keys)
            j == job[Free]
<1>1. /\ doc[f] # NoFile /\ doc' = [doc EXCEPT ![f] = d]
      /\ UNCHANGED <<kust, lock, job, shown, excused, scenario>>
  BY DEF EditorSaves, Writes
<1>2. d.rev = rev + 1 /\ d # NoFile
  <2>1. rev \in Nat
    BY RevsIs
  <2>. QED BY <2>1 DEF Version, NoFile
<1>. HIDE DEF d, j
<1>3. Free \notin Worker
  BY BoundAssumption DEF Free
<1>4. OnlyOne(Free, j) /\ OneDoc(Free, f, d)
  BY <1>1, <1>2, <1>3 DEF OnlyOne, OneDoc
<1>5. GoesOn(Free, j)
  BY DEF GoesOn, j
<1>6. \A p \in Path : doc'[p] # NoFile <=> doc[p] # NoFile
  BY <1>1, <1>2, SpecIsFile DEF IInv, TypeOK
<1>7. ListsGoOn(Free, j)
  BY <1>1, <1>6 DEF ListsGoOn, j
<1>8. FullStay'
  BY <1>1, FullStays DEF LInv, ListsOk
<1>. QED BY <1>1, <1>3, <1>4, <1>5, <1>7, <1>8, StepKeeps DEF j

\* The daemon dies, and excuses what its handlers were about.
LEMMA DiesLists ==
  ASSUME IInv, MovesApart, LInv, Dies
  PROVE  LInv'
<1>1. /\ \A w \in Worker : job'[w] = Idle
      /\ shown' = doc /\ excused' = excused \cup UNION {Unfinished(w) : w \in Worker}
      /\ UNCHANGED <<doc, kust, scenario>>
  BY DEF Dies, data, SecretIndex
<1>2. Moved' = Moved /\ Full' = Full /\ \A p : Steady(p)' = Steady(p)
  BY <1>1 DEF Moved, Full, Steady
<1>3. \A w \in Worker : job[w] # Idle => job[w].src \in excused' /\ job[w].dst \in excused'
  BY <1>1 DEF Unfinished
<1>4. EntriesOk'
  BY <1>1, IdleOwesNothing DEF EntriesOk, EntryJob, OwnLocks, Unlists, OwnEntry
<1>5. \A w \in Worker, p \in Path : /\ Adding(job[w], p) => p \in excused'
                                    /\ Unlisting(job[w], p) => p \in excused'
  <2>. SUFFICES ASSUME NEW w \in Worker, NEW p \in Path, Adding(job[w], p) \/ Unlisting(job[w], p)
                PROVE  p \in excused'
    OBVIOUS
  <2>1. job[w] # Idle
    BY IdleOwesNothing
  <2>2. Unlisting(job[w], p) => p = job[w].src
    BY EntryIs DEF EntryJob, Unlists, Unlisting
  <2>. QED BY <1>3, <2>1, <2>2 DEF Adding, NewFile
<1>6. ListsOk'
  <2>1. FullStay'
    BY <1>1, FullStays DEF LInv, ListsOk
  <2>2. FileIsListed'
    BY <1>1, <1>2, <1>5 DEF LInv, ListsOk, FileIsListed
  <2>3. EntryIsThere'
    BY <1>1, <1>2, <1>5 DEF LInv, ListsOk, EntryIsThere
  <2>. QED BY <2>1, <2>2, <2>3 DEF ListsOk
<1>7. AddedIsNew'
  BY <1>1, IdleOwesNothing DEF AddedIsNew
<1>8. VersionsOk'
  <2>1. DocRevs' /\ SourcesDiffer'
    BY <1>1, <1>2 DEF LInv, VersionsOk, DocRevs, SourcesDiffer
  <2>2. \A r \in Moved : doc[r.dst].rev = doc[r.src].rev /\ doc[r.src].rev # 0 => r.dst \in excused'
    <3>1. \A w \in Worker, r \in Moved : Copying(job[w], r) => r.dst \in excused'
      BY <1>3, IdleOwesNothing DEF Copying
    <3>. QED BY <1>1, <3>1 DEF LInv, VersionsOk, CopiesAreMoves
  <2>3. CopiesAreMoves'
    BY <1>1, <1>2, <2>2 DEF CopiesAreMoves
  <2>4. CopiesUnseen'
    BY <1>1, <1>2, <2>2, IdleOwesNothing DEF CopiesUnseen
  <2>5. NewVersions'
    BY <1>1, IdleOwesNothing DEF NewVersions
  <2>. QED BY <2>1, <2>3, <2>4, <2>5 DEF VersionsOk
<1>. QED BY <1>4, <1>6, <1>7, <1>8 DEF LInv

\* The console reads what is there once no write is under way.
LEMMA SettlesLists ==
  ASSUME IInv, MovesApart, LInv, Settles
  PROVE  LInv'
<1>1. /\ \A w \in Worker : job[w].step \notin {"created", "unlist", "list"}
      /\ shown' = doc
      /\ UNCHANGED <<doc, kust, lock, job, excused, scenario>>
  BY DEF Settles, data, SecretIndex
<1>2. Moved' = Moved /\ Full' = Full /\ \A p : Steady(p)' = Steady(p)
  BY <1>1 DEF Moved, Full, Steady
<1>3. EntriesOk'
  BY <1>1, <1>2 DEF LInv, EntriesOk, EntryJob, OwnLocks, Unlists, OwnEntry
<1>4. ListsOk'
  BY <1>1, <1>2 DEF LInv, ListsOk, FullStay, FileIsListed, EntryIsThere
<1>5. AddedIsNew'
  BY <1>1 DEF AddedIsNew, Adding
<1>6. DocRevs' /\ SourcesDiffer' /\ CopiesAreMoves'
  BY <1>1, <1>2 DEF LInv, VersionsOk, DocRevs, SourcesDiffer, CopiesAreMoves
<1>7. CopiesUnseen'
  <2>1. \A r \in Moved : doc[r.dst].rev = doc[r.src].rev /\ doc[r.src].rev # 0 => r.dst \in excused
    BY <1>1 DEF LInv, VersionsOk, CopiesAreMoves, Copying
  <2>. QED BY <1>1, <1>2, <2>1 DEF LInv, VersionsOk, CopiesUnseen
<1>8. NewVersions'
  <2>1. \A w \in Worker : Unseen(w) => Unseen(w)'
    BY <1>1 DEF Unseen
  <2>. QED BY <1>1, <2>1 DEF LInv, VersionsOk, NewVersions
<1>. QED BY <1>3, <1>4, <1>5, <1>6, <1>7, <1>8 DEF LInv, VersionsOk

-----------------------------------------------------------------------------
(* The repository at first, every step, and the theorem. *)

\* At first every file has a version of its own and is listed, and nobody is at work.
LEMMA InitLInv == Init /\ IInv /\ MovesApart => LInv
<1>. SUFFICES ASSUME Init, IInv, MovesApart PROVE LInv
  OBVIOUS
<1>. DEFINE files == scenario.files
            order == SetToSeq(files)
            At0(f) == CHOOSE i \in DOMAIN order : order[i] = f
            keys(f) == IF f = "spec" THEN {} ELSE {"operator"}
<1>1. /\ doc = [f \in File |-> IF f \in files THEN Version(At0(f), At0(f), keys(f)) ELSE NoFile]
      /\ job = [w \in Worker |-> Idle] /\ shown = doc /\ excused = scenario.unlisted
      /\ scenario \in Scenarios
  BY DEF Init
<1>2. files \subseteq File /\ IsFiniteSet(files)
  BY <1>1, ScenarioAssumption
<1>k. /\ \A f \in Folder :
            /\ f \in scenario.full => "other" \in kust[f]
            /\ \A g \in Folder \ {f} : In[g] = f /\ g \in scenario.full /\ f \in scenario.full => g \in kust[f]
            /\ \A p \in Path : In[p] = f /\ f \in scenario.full =>
                  (p \in files \ scenario.unlisted <=> p \in kust[f])
  <2>. DEFINE here(f) == {p \in Path : p \in scenario.files \ scenario.unlisted /\ In[p] = f}
              below(f) == {g \in Folder \ {f} :
                              In[g] = f /\ (\/ g \in scenario.full
                                            \/ \E p \in Path : p \in scenario.files \ scenario.unlisted /\ In[p] = g)}
              other(f) == IF f \in scenario.full THEN {"other"} ELSE {}
  <2>1. kust = [f \in Folder |->
                  IF here(f) \cup below(f) = {} /\ f \notin scenario.full THEN NoList
                  ELSE here(f) \cup below(f) \cup other(f)]
    BY DEF Init
  <2>2. /\ \A f : below(f) \subseteq Folder
        /\ \A f : \A p \in Path : In[p] = f => (p \in here(f) <=> p \in files \ scenario.unlisted)
        /\ \A f \in Folder : \A g \in Folder \ {f} : In[g] = f /\ g \in scenario.full => g \in below(f)
        /\ \A f \in scenario.full : other(f) = {"other"}
        /\ Path \cap Folder = {} /\ "other" \notin Path
    BY FolderAssumption
  <2>. HIDE DEF here, below, other, files
  <2>3. \A f \in Folder : f \in scenario.full => kust[f] = here(f) \cup below(f) \cup other(f)
    BY <2>1
  <2>. QED BY <2>2, <2>3
<1>. HIDE DEF files
<1>3. /\ DOMAIN order = 1..Len(order)
      /\ \A x \in files : \E i \in 1..Len(order) : order[i] = x
  BY <1>2, SetToSeqIs
<1>. HIDE DEF order
<1>4. \A f \in files : At0(f) \in 1..Len(order) /\ order[At0(f)] = f
  BY <1>3
<1>. HIDE DEF At0
<1>5. /\ \A f \in files : doc[f].rev = At0(f) /\ doc[f] # NoFile
      /\ \A f \in File \ files : doc[f] = NoFile
      /\ NoFile.rev = 0
  <2>. HIDE DEF keys
  <2>1. \A f \in files : At0(f) # 0
    BY <1>3, <1>4, SetToSeqIs, <1>2
  <2>. QED BY <1>1, <1>2, <2>1 DEF Version, NoFile
<1>6. \A f \in files : doc[f].rev # 0
  BY <1>3, <1>4, <1>5
\* Two files of one version are one file.
<1>7. \A f, g \in File : doc[f].rev = doc[g].rev /\ doc[f].rev # 0 => f = g
  BY <1>4, <1>5
<1>8. \A w \in Worker : job[w] = Idle
  BY <1>1
<1>9. EntriesOk
  BY <1>8, IdleOwesNothing DEF EntriesOk
<1>10. FullStay
  BY <1>k, FolderAssumption DEF FullStay, Full
<1>11. \A p \in Path : Steady(p) => (p \in files \ excused <=> p \in kust[In[p]])
  <2>. SUFFICES ASSUME NEW p \in Path, Steady(p) PROVE p \in files \ excused <=> p \in kust[In[p]]
    OBVIOUS
  <2>1. In[p] \in Folder /\ In[p] \in scenario.full
    BY FolderAssumption DEF Steady, Above, Over
  <2>. QED BY <1>1, <1>k, <2>1
<1>12. FileIsListed /\ EntryIsThere
  <2>1. \A p \in Path : doc[p] # NoFile <=> p \in files
    BY <1>5, SpecIsFile
  <2>. QED BY <1>11, <2>1 DEF FileIsListed, EntryIsThere
<1>13. AddedIsNew
  BY <1>8, IdleOwesNothing DEF AddedIsNew
<1>14. NewVersions
  BY <1>8, IdleOwesNothing DEF NewVersions
<1>15. DocRevs
  BY <1>5, <1>6 DEF DocRevs
<1>16. /\ Path \subseteq File
       /\ \A r \in Moved : r.src \in Path /\ r.dst \in Path /\ r.dst # r.src
  BY MovedAre DEF MovesApart
<1>17. SourcesDiffer
  BY <1>7, <1>16 DEF SourcesDiffer
<1>18. CopiesAreMoves
  BY <1>7, <1>16 DEF CopiesAreMoves
<1>19. CopiesUnseen
  BY <1>1, <1>7, <1>8, <1>16, IdleOwesNothing DEF CopiesUnseen
<1>. QED BY <1>9, <1>10, <1>12, <1>13, <1>14, <1>15, <1>17, <1>18, <1>19
         DEF LInv, ListsOk, VersionsOk

\* The scenario stays, and so does what it asks for.
LEMMA ScenarioStays ==
  ASSUME [Next]_vars
  PROVE  scenario' = scenario
<1>1. ASSUME NEW w \in Worker, Handles(w) PROVE scenario' = scenario
  BY <1>1 DEF Handles, Read, SaveSpec, SaveSecret, Saves, Delete, Stat, Encrypt, Create, Drop, Plan,
              MakeList, SkipList, LoseList, ReadList, WriteList, Prune, RemoveList, Config, OwnRule, AddKey,
              Scan, Rekey, MakeFolder, SetAddon, InitFile, Quietly
<1>. QED BY <1>1 DEF Next, vars, Ask, Dies, Settles, EditorSaves

\* Every step keeps to it.
LEMMA LInvStep ==
  ASSUME IInv, MovesApart, LInv, [Next]_vars
  PROVE  LInv'
<1>1. CASE UNCHANGED vars
  <2>1. UNCHANGED <<doc, kust, lock, job, shown, excused, scenario>>
    BY <1>1 DEF vars
  <2>2. EntriesOk' /\ FullStay'
    BY <2>1 DEF LInv, ListsOk, EntriesOk, EntryJob, OwnLocks, Unlists, OwnEntry, FullStay, Full, Steady
  <2>3. FileIsListed' /\ EntryIsThere' /\ AddedIsNew'
    BY <2>1 DEF LInv, ListsOk, FileIsListed, EntryIsThere, AddedIsNew, Steady
  <2>4. VersionsOk'
    BY <2>1 DEF LInv, VersionsOk, NewVersions, Unseen, DocRevs, SourcesDiffer, CopiesAreMoves,
                CopiesUnseen, Moved
  <2>. QED BY <2>2, <2>3, <2>4 DEF LInv, ListsOk
<1>2. ASSUME NEW w \in Worker, Handles(w) PROVE LInv'
  <2>1. CASE Read(w) \/ Stat(w) \/ Encrypt(w)
    BY <2>1, ReadLists, StatLists, EncryptLists
  <2>2. CASE SaveSpec(w) \/ SaveSecret(w)
    BY <2>2, SavesLists
  <2>3. CASE Delete(w) \/ Create(w) \/ Drop(w)
    BY <2>3, RemoveLists, CreateLists
  <2>4. CASE Plan(w) \/ MakeList(w) \/ SkipList(w) \/ LoseList(w) \/ ReadList(w) \/ WriteList(w)
    BY <2>4, PlanLists, MakeListLists, SkipListLists, LoseListLists, ReadListLists, WriteListLists
  <2>5. CASE Prune(w) \/ RemoveList(w)
    BY <2>5, PruneLists
  <2>6. CASE Config(w) \/ OwnRule(w) \/ AddKey(w) \/ Scan(w) \/ Rekey(w)
    BY <2>6, RuleStepLists, ScanLists, RekeyLists
  <2>7. CASE MakeFolder(w) \/ SetAddon(w) \/ InitFile(w)
    BY <2>7, MakeFolderLists, FileStepLists
  <2>. QED BY <1>2, <2>1, <2>2, <2>3, <2>4, <2>5, <2>6, <2>7 DEF Handles
<1>3. ASSUME NEW w \in Worker, NEW r \in scenario.asks, Ask(w, r) PROVE LInv'
  BY <1>3, AskLists
<1>4. CASE Dies \/ Settles
  BY <1>4, DiesLists, SettlesLists
<1>5. ASSUME NEW r \in scenario.asks, EditorSaves(r.src) PROVE LInv'
  <2>1. r \in Requests /\ r.src \in File
    BY ScenarioAssumption DEF IInv, TypeOK, Requests
  <2>. QED BY <1>5, <2>1, EditorLists
<1>. QED BY <1>1, <1>2, <1>3, <1>4, <1>5 DEF Next

\* A file that nobody is at work on is listed all the way to the top, and an
\* entry that nobody is at work on is that of a file.
LEMMA LInvListed ==
  ASSUME IInv, LInv, NEW p \in Path, Steady(p)
  PROVE  ListedAt(p)
<1>. DEFINE a == In[p]
            b == In[a]
<1>1. /\ a \in Folder /\ b \in Folder /\ p \notin Folder /\ In[b] = b
      /\ a \in scenario.full /\ b \in scenario.full
  BY FolderAssumption DEF Steady, Above, Over
<1>2. Above(p) = {a, b}
  BY DEF Above, Over
<1>3. /\ \A f \in Full : "other" \in kust[f] /\ kust[f] # NoList
      /\ \A f \in Full : In[f] \in Full \ {f} => f \in kust[In[f]]
  BY SteadyHasLists DEF LInv, ListsOk, FullStay
<1>4. Towards(a, p) = p
  BY <1>1, <1>2 DEF Towards
<1>5. b # a => Towards(b, p) = a
  BY <1>1, <1>2 DEF Towards
<1>. SUFFICES ASSUME ({p} \cup Above(p)) \cap (Busy \cup excused) = {}
              PROVE  /\ doc[p] # NoFile => Applied(p)
                     /\ kust[a] # NoList /\ p \in kust[a] => doc[p] # NoFile
  BY DEF ListedAt
<1>6. p \notin excused /\ \A w \in Worker : p \notin Unfinished(w)
  BY DEF Busy
<1>7. \A w \in Worker : ~Adding(job[w], p)
  BY <1>6, IdleOwesNothing DEF Adding, NewFile, Unfinished
<1>8. \A w \in Worker : ~Unlisting(job[w], p)
  <2>. SUFFICES ASSUME NEW w \in Worker, Unlisting(job[w], p) PROVE FALSE
    OBVIOUS
  <2>1. job[w].src = p
    BY DEF LInv, EntriesOk, EntryJob, Unlists, Unlisting
  <2>. QED BY <1>6, <2>1, IdleOwesNothing DEF Unfinished
<1>9. ASSUME doc[p] # NoFile PROVE Applied(p)
  <2>1. p \in kust[a]
    BY <1>6, <1>7, <1>9 DEF LInv, ListsOk, FileIsListed
  <2>2. b # a => a \in kust[b]
    BY <1>1, <1>3 DEF Full
  <2>3. kust[a] # NoList /\ kust[b] # NoList
    BY <1>1, <1>3 DEF Full
  <2>. HIDE DEF a, b
  <2>. QED BY <1>2, <1>4, <1>5, <2>1, <2>2, <2>3 DEF Applied
<1>10. ASSUME p \in kust[a] PROVE doc[p] # NoFile
  BY <1>6, <1>8, <1>10 DEF LInv, ListsOk, EntryIsThere
<1>. QED BY <1>9, <1>10

\* The invariant holds in every state of a repository where no move begins at
\* the end of another.
THEOREM ListInvariance == Spec => [](MovesApart => LInv)
<1>1. Init => (MovesApart => LInv)
  BY InitIInv, InitLInv
<1>2. IInv /\ (MovesApart => LInv) /\ [Next]_vars => (MovesApart => LInv)'
  <2>. SUFFICES ASSUME IInv, MovesApart => LInv, [Next]_vars, MovesApart' PROVE LInv'
    OBVIOUS
  <2>1. MovesApart
    BY ScenarioStays DEF MovesApart, Moved
  <2>. QED BY <2>1, LInvStep
<1>. QED BY <1>1, <1>2, Invariance, PTL DEF Spec

\* Once the requests about a file have answered, Flux applies it and no entry is
\* left of a file that is gone (repo/kustomize.go ListPath, UnlistPath), for
\* every file whose folders list other files too, in every repository where no
\* move begins at the end of another.
THEOREM ListedWhereKept ==
  Spec => [](MovesApart => \A p \in Path : Steady(p) => ListedAt(p))
<1>1. IInv /\ (MovesApart => LInv) => (MovesApart => \A p \in Path : Steady(p) => ListedAt(p))
  BY LInvListed
<1>. QED BY <1>1, Invariance, ListInvariance, PTL

=============================================================================
