---------------------------- MODULE WatcherProofs ----------------------------
(***************************************************************************)
(* Proofs about the health watcher (module Watcher), for any set of nodes, *)
(* any kinds of fault followed and any confirmAfter and offlineAfter: what *)
(* opens an alert, which alerts the webhook gets, and that a confirmed     *)
(* fault has one.                                                          *)
(***************************************************************************)
EXTENDS Watcher, TLAPS

-----------------------------------------------------------------------------
(* The inductive invariant. *)

\* confirm.bad counts what it should: the judged ticks in a row.
BadIsHeld == bad = held

\* confirm.open and the alert store agree.
OpenHasAlert == \A k \in Key : k \in open <=> alert[k] # "closed"

\* A fault at its count is open.
CountedIsOpen == \A k \in Key : bad[k] >= confirmAfter => k \in open

\* Until the first judged tick nothing is known of any fault.
NothingJudged == ~started => quiet = {} /\ origin = Unseen

\* The quiet marks are on the faults that never went since the start, and on none
\* that came later.
QuietIsOfStart ==
    started => \A k \in Key :
        /\ origin[k] = "start" => k \in quiet
        /\ origin[k] = "new" => k \notin quiet

IInv ==
    /\ TypeOK /\ BadIsHeld /\ OpenHasAlert /\ CountedIsOpen
    /\ NothingJudged /\ QuietIsOfStart

-----------------------------------------------------------------------------
(* Operators. *)

\* A saturating count stays in its range, and a fault that is not seen has none.
LEMMA MoreInRange ==
    ASSUME NEW most \in Nat, NEW n \in 0..most
    PROVE  More(n, most) \in 0..most
  BY DEF More

\* The counts of a tick (confirm.go Apply).
LEMMA CountInRange ==
    ASSUME bad \in [Key -> 0..confirmAfter], NEW facts
    PROVE  /\ [k \in Key |-> Count(k, facts)] \in [Key -> 0..confirmAfter]
           /\ \A k \in Key : Count(k, facts) \in 0..confirmAfter /\ (k \notin facts => Count(k, facts) = 0)
  BY MoreInRange, CountAssumption DEF Count

\* No count has reached confirmAfter when a process starts or after a pause.
LEMMA ZeroInRange == Zero \in [Key -> 0..confirmAfter] /\ (\A k \in Key : ~(Zero[k] >= confirmAfter))
  BY CountAssumption DEF Zero

\* Before the first judged tick every fault may be one of the start.
LEMMA UnseenIsOrigin ==
    /\ Unseen \in [Key -> {"start", "back", "new"}]
    /\ \A k \in Key : Unseen[k] = "start"
  BY DEF Unseen

\* What Apply makes of one alert.
LEMMA AlertOfApply ==
    ASSUME TypeOK, NEW facts, NEW off, Apply(facts, off), NEW k \in Key
    PROVE  /\ Raises(k, facts) => alert'[k] = IF k \in Quieted(facts) THEN "silent" ELSE "loud"
           /\ Resolves(k, facts, off) => alert'[k] = "closed"
           /\ (~Raises(k, facts) /\ ~Resolves(k, facts, off)) => alert'[k] = alert[k]
           /\ ~(Raises(k, facts) /\ Resolves(k, facts, off))
           /\ alert'[k] \in {"closed", "silent", "loud"}
           /\ k \in open' <=> (Raises(k, facts) \/ (k \in open /\ ~Resolves(k, facts, off)))
           /\ bad'[k] = Count(k, facts)
  <1>1. ~(Raises(k, facts) /\ Resolves(k, facts, off))
        BY DEF Raises, Resolves
  <1>2. alert[k] \in {"closed", "silent", "loud"}
        BY DEF TypeOK
  <1>3. /\ alert'[k] = CASE Raises(k, facts) -> IF k \in Quieted(facts) THEN "silent" ELSE "loud"
                         [] Resolves(k, facts, off) -> "closed"
                         [] OTHER -> alert[k]
        /\ k \in open' <=> (Raises(k, facts) \/ (k \in open /\ ~Resolves(k, facts, off)))
        /\ bad'[k] = Count(k, facts)
        BY DEF Apply
  <1>. QED
        BY <1>1, <1>2, <1>3

-----------------------------------------------------------------------------
(* Initial states and steps. *)

\* The first state satisfies the invariant.
LEMMA InitIInv == Init => IInv
  <1> SUFFICES ASSUME Init PROVE IInv
      OBVIOUS
  <1>1. 0 \in 0..offlineAfter
        BY CountAssumption
  <1>2. TypeOK
        BY <1>1, ZeroInRange, UnseenIsOrigin DEF Init, TypeOK
  <1>. QED
        BY <1>2, ZeroInRange
        DEF Init, IInv, BadIsHeld, OpenHasAlert, CountedIsOpen, NothingJudged, QuietIsOfStart

\* What the observer becomes has its type.
LEMMA ObserverTypes ==
    ASSUME TypeOK, NEW s \in Status, NEW gap \in BOOLEAN, Observe(s, gap)
    PROVE  /\ online' \in BOOLEAN /\ offlineTicks' \in 0..offlineAfter
           /\ mode' \in {"bootstrapped", "ready"} /\ ticked' \in BOOLEAN /\ lastNet' \in BOOLEAN
  <1>1. More(offlineTicks, offlineAfter) \in 0..offlineAfter /\ 0 \in 0..offlineAfter
        BY MoreInRange, CountAssumption DEF TypeOK
  <1>. QED
        BY <1>1 DEF TypeOK, Observe, NoteObserver, Status

\* A tick that does not judge forgets the counts and keeps the alerts.
LEMMA UnjudgedStep ==
    ASSUME IInv, NEW s \in Status, NEW gap \in BOOLEAN, Unjudged(s, gap)
    PROVE  IInv'
  <1>1. bad' = Zero /\ held' = Zero /\ UNCHANGED <<started, open, quiet, alert, origin>>
        BY DEF Unjudged, Reset, Zero
  <1>2. TypeOK'
        BY <1>1, ObserverTypes, ZeroInRange DEF Unjudged, IInv, TypeOK
  <1>. QED
        BY <1>1, <1>2, ZeroInRange
        DEF IInv, BadIsHeld, OpenHasAlert, CountedIsOpen, NothingJudged, QuietIsOfStart

\* What a judged tick shows of where a fault comes from.
LEMMA OriginOfTick ==
    ASSUME IInv, NEW s \in Status, NEW gap \in BOOLEAN, TickJudged(s, gap), NEW k \in Key
    PROVE  /\ origin'[k] \in {"start", "back", "new"}
           /\ k \in BadFacts(s) => origin'[k] = origin[k]
           /\ origin'[k] = "start" => k \in BadFacts(s)
           /\ started /\ origin'[k] = "new" => origin[k] = "new"
           /\ ~started /\ origin'[k] = "new" => k \notin BadFacts(s)
           /\ origin'[k] = "start" => k \in Quieted(BadFacts(s))
           /\ origin'[k] = "new" => k \notin Quieted(BadFacts(s))
  <1>1. origin'[k] = IF k \in BadFacts(s) \/ origin[k] # "start" THEN origin[k]
                     ELSE IF started THEN "back" ELSE "new"
        BY DEF TickJudged
  <1>2. origin[k] \in {"start", "back", "new"} /\ (~started => origin[k] = "start")
        BY UnseenIsOrigin DEF IInv, TypeOK, NothingJudged
  <1>3. started => /\ origin[k] = "start" => k \in quiet
                   /\ origin[k] = "new" => k \notin quiet
        BY DEF IInv, QuietIsOfStart
  <1>4. CASE started
        BY <1>1, <1>2, <1>3, <1>4 DEF Quieted
  <1>5. CASE ~started
        BY <1>1, <1>2, <1>5 DEF Quieted
  <1>. QED
        BY <1>4, <1>5

\* A tick that judges.
LEMMA JudgedStep ==
    ASSUME IInv, NEW s \in Status, NEW gap \in BOOLEAN, TickJudged(s, gap)
    PROVE  IInv'
  <1> DEFINE facts == BadFacts(s)
  <1>1. Apply(facts, s.off) /\ Observe(s, gap)
        BY DEF TickJudged
  <1>2. bad' = [k \in Key |-> Count(k, facts)] /\ held' = [k \in Key |-> Count(k, facts)]
        BY <1>1 DEF TickJudged, Apply, Count, IInv, BadIsHeld
  <1>9. /\ origin' \in [Key -> {"start", "back", "new"}]
        /\ \A k \in Key :
               /\ origin'[k] = "start" => k \in facts /\ k \in Quieted(facts)
               /\ origin'[k] = "new" => k \notin Quieted(facts)
    <2>1. DOMAIN origin' = Key /\ origin' = [k \in Key |-> origin'[k]]
          BY DEF TickJudged
    <2>. QED
          BY <2>1, OriginOfTick
  <1> HIDE DEF facts
  <1>3. bad' \in [Key -> 0..confirmAfter] /\ held' = bad'
        BY <1>2, CountInRange DEF IInv, TypeOK
  <1>4. alert' \in [Key -> {"closed", "silent", "loud"}]
    <2>1. DOMAIN alert' = Key /\ alert' = [k \in Key |-> alert'[k]]
          BY <1>1 DEF Apply
    <2>. QED
          BY <1>1, <2>1, AlertOfApply DEF IInv
  <1>5. open' \subseteq Key /\ quiet' \subseteq Key /\ started' \in BOOLEAN
    <2>1. facts \subseteq Key
          BY DEF facts, BadFacts
    <2>. QED
          BY <1>1, <2>1 DEF Apply, Quieted, IInv, TypeOK
  <1>6. TypeOK'
        BY <1>1, <1>3, <1>4, <1>5, <1>9, ObserverTypes DEF IInv, TypeOK
  <1>7. OpenHasAlert'
        BY <1>1, AlertOfApply DEF IInv, OpenHasAlert, Raises
  <1>8. CountedIsOpen'
    <2> SUFFICES ASSUME NEW k \in Key, bad'[k] >= confirmAfter PROVE k \in open'
        BY DEF CountedIsOpen
    <2>1. bad'[k] = Count(k, facts)
          BY <1>2
    <2>2. k \in facts
          BY <2>1, CountInRange, CountAssumption DEF IInv, TypeOK
    <2>. QED
          BY <1>1, <2>1, <2>2, AlertOfApply DEF IInv, Raises, Resolves
  <1>10. started' /\ quiet' = {k \in Quieted(facts) : k \in facts \/ bad[k] = 0}
        BY <1>1 DEF Apply
  <1>11. NothingJudged' /\ QuietIsOfStart'
        BY <1>9, <1>10 DEF NothingJudged, QuietIsOfStart
  <1>. QED
        BY <1>3, <1>6, <1>7, <1>8, <1>11 DEF IInv, BadIsHeld

\* Every step keeps the invariant.
LEMMA IInvStep == IInv /\ [Next]_vars => IInv'
  <1> SUFFICES ASSUME IInv, [Next]_vars PROVE IInv'
      OBVIOUS
  <1>1. ASSUME NEW s \in Status, NEW gap \in BOOLEAN, TickSkipped(s, gap) PROVE IInv'
        BY <1>1, ObserverTypes
        DEF TickSkipped, confirm, history, IInv, TypeOK, BadIsHeld, OpenHasAlert, CountedIsOpen,
            NothingJudged, QuietIsOfStart
  <1>2. ASSUME NEW s \in Status, NEW gap \in BOOLEAN,
               \/ TickOffline(s, gap) \/ TickOff(s, gap) \/ TickGap(s, gap) \/ TickQuiet(s, gap)
        PROVE  IInv'
        BY <1>2, UnjudgedStep DEF TickOffline, TickOff, TickGap, TickQuiet
  <1>3. ASSUME NEW s \in Status, NEW gap \in BOOLEAN, TickJudged(s, gap) PROVE IInv'
        BY <1>3, JudgedStep
  <1>4. CASE Track
        BY <1>4 DEF Track, confirm, observer, history, IInv, TypeOK, BadIsHeld, OpenHasAlert,
            CountedIsOpen, NothingJudged, QuietIsOfStart
  <1>5. CASE Restart
    <2>1. 0 \in 0..offlineAfter
          BY CountAssumption
    <2>2. TypeOK'
          BY <1>5, <2>1, ZeroInRange, UnseenIsOrigin DEF Restart, TypeOK
    <2>3. /\ bad' = Zero /\ held' = Zero /\ open' = {} /\ alert' = [k \in Key |-> "closed"]
          /\ ~started' /\ quiet' = {} /\ origin' = Unseen
          BY <1>5 DEF Restart
    <2>. QED
          BY <2>2, <2>3, ZeroInRange
          DEF IInv, BadIsHeld, OpenHasAlert, CountedIsOpen, NothingJudged, QuietIsOfStart
  <1>6. CASE UNCHANGED vars
        BY <1>6 DEF vars, confirm, observer, history, IInv, TypeOK, BadIsHeld, OpenHasAlert,
            CountedIsOpen, NothingJudged, QuietIsOfStart
  <1>. QED
        BY <1>1, <1>2, <1>3, <1>4, <1>5, <1>6 DEF Next, Tick

-----------------------------------------------------------------------------

\* The invariant holds in every reachable state.
THEOREM Invariance == Spec => []IInv
  BY InitIInv, IInvStep, PTL DEF Spec

\* Types: what the watcher keeps for one cluster.
THEOREM TypeCorrect == Spec => []TypeOK
  <1>1. IInv => TypeOK
        BY DEF IInv
  <1>. QED
        BY <1>1, Invariance, PTL

\* A fault that confirmAfter judged ticks in a row saw has an open alert,
\* through any pauses and blind ticks (confirm.go, alerts.go).
THEOREM Alerted == Spec => []HeldFaultIsAlerted
  <1>1. IInv => HeldFaultIsAlerted
        BY DEF IInv, BadIsHeld, OpenHasAlert, CountedIsOpen, HeldFaultIsAlerted
  <1>. QED
        BY <1>1, Invariance, PTL

\* Steps that judge nothing open no alert, and only a restart closes one.
LEMMA OnlyJudging ==
    ASSUME IInv, [Next]_vars, NEW k \in Key, alert'[k] # alert[k]
    PROVE  \/ alert'[k] = "closed"
           \/ \E s \in Status, gap \in BOOLEAN : TickJudged(s, gap)
  <1>1. ASSUME NEW s \in Status, NEW gap \in BOOLEAN,
               \/ TickSkipped(s, gap) \/ TickOffline(s, gap) \/ TickOff(s, gap)
               \/ TickGap(s, gap) \/ TickQuiet(s, gap)
        PROVE  FALSE
        BY <1>1 DEF TickSkipped, TickOffline, TickOff, TickGap, TickQuiet, Unjudged, Reset
  <1>2. CASE Track
        BY <1>2 DEF Track
  <1>3. CASE Restart
        BY <1>3 DEF Restart
  <1>4. CASE UNCHANGED vars
        BY <1>4 DEF vars
  <1>. QED
        BY <1>1, <1>2, <1>3, <1>4 DEF Next, Tick

\* A flapping fault never opens an alert: opening takes confirmAfter judged
\* ticks in a row (confirm.go Apply), for any confirmAfter.
THEOREM Confirmed == Spec => RaisedOnlyConfirmed
  <1>1. ASSUME IInv, IInv', [Next]_vars, NEW k \in Key, alert[k] = "closed", alert'[k] # "closed"
        PROVE  held'[k] >= confirmAfter
    <2>1. PICK s \in Status, gap \in BOOLEAN : TickJudged(s, gap)
          BY <1>1, OnlyJudging
    <2>2. Raises(k, BadFacts(s)) /\ bad'[k] = Count(k, BadFacts(s))
          BY <1>1, <2>1, AlertOfApply DEF TickJudged, IInv
    <2>. QED
          BY <1>1, <2>2 DEF Raises, IInv, BadIsHeld
  <1>2. IInv /\ IInv' /\ [Next]_vars =>
            [\A k \in Key :
                (alert[k] = "closed" /\ alert'[k] # "closed") => held'[k] >= confirmAfter]_vars
        BY <1>1
  <1>. QED
        BY <1>2, Invariance, PTL DEF Spec, RaisedOnlyConfirmed

\* The webhook tells news: for any number of nodes, kinds and ticks, a fault that
\* every judged tick of the process saw opens without it, whatever pauses and
\* applies lie between, and one that the first judged tick did not see opens
\* with it (confirm.go Apply, quiet).
THEOREM News == Spec => WebhooksTellNews
  <1>1. ASSUME IInv, [Next]_vars, NEW k \in Key, alert[k] = "closed", alert'[k] # "closed"
        PROVE  /\ origin'[k] = "start" => alert'[k] = "silent"
               /\ origin'[k] = "new" => alert'[k] = "loud"
    <2>1. PICK s \in Status, gap \in BOOLEAN : TickJudged(s, gap)
          BY <1>1, OnlyJudging
    <2>2. alert'[k] = IF k \in Quieted(BadFacts(s)) THEN "silent" ELSE "loud"
          BY <1>1, <2>1, AlertOfApply DEF TickJudged, IInv
    <2>. QED
          BY <1>1, <2>1, <2>2, OriginOfTick
  <1>2. IInv /\ [Next]_vars =>
            [\A k \in Key : (alert[k] = "closed" /\ alert'[k] # "closed") =>
                /\ origin'[k] = "start" => alert'[k] = "silent"
                /\ origin'[k] = "new" => alert'[k] = "loud"]_vars
        BY <1>1
  <1>. QED
        BY <1>2, Invariance, PTL DEF Spec, WebhooksTellNews

=============================================================================
