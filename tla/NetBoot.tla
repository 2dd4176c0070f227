------------------------------ MODULE NetBoot -------------------------------
(***************************************************************************)
(* `kubit pxe` (pxe/dhcp.go, pxe/serve.go, pxe/status.go) and the daemon   *)
(* that follows it (api/pxe.go).  The server offers Talos to a machine     *)
(* that asks for a network boot, decides again when it asks for the boot   *)
(* script, and keeps a list of the boots it saw, by MAC and by address: of *)
(* an HTTP request it knows the address only.  The daemon follows the list *)
(* from the moment the server's run file appears until its stream ends.    *)
(*                                                                         *)
(* How machines boot is in Enrol, which composes this module with the      *)
(* table of machines and cluster.yaml.                                     *)
(***************************************************************************)
EXTENDS Integers, FiniteSets, SequencesExt

CONSTANTS
    Guest,     \* the machines, by MAC
    Lease,     \* the addresses DHCP gives, as numbers
    MaxBoots,  \* how many boots the server keeps (512)
    MaxTries   \* how often the daemon tries to connect (5)

NoLease == 0

ASSUME BootsAssumption == MaxBoots \in Nat \ {0} /\ MaxTries \in Nat \ {0} /\ NoLease \notin Lease

VARIABLES
    boots,   \* the list: by MAC, and by address ("unknown@") where no MAC is known
    byIP,    \* the machine an address is taken for
    recent,  \* the boots in the order they were last seen, the latest last
    serving, \* whether the server runs
    starts,  \* whether the run file was seen since the daemon last looked
    follow   \* what the daemon does and shows: [step, tries, shown]

tracker == <<boots, byIP, recent>>
feed == <<starts, follow>>
bootVars == <<tracker, serving, feed>>

-----------------------------------------------------------------------------
(* Whether a machine gets Talos. *)

\* Variant: with a cluster.yaml that cannot be read, nothing is declared.
DecideBlind(m, readable, declared, closed) ==
    IF (readable /\ m \in declared) \/ closed THEN "local" ELSE "talos"

Decide(m, readable, declared, closed) ==
    IF ~readable \/ m \in declared \/ closed THEN "local" ELSE "talos"

-----------------------------------------------------------------------------
(* The list of boots.  Age is 0, 1 after a minute and 2 after a day.       *)

Boot == Guest \cup Lease
Unseen == [ip |-> NoLease, stage |-> "none", age |-> 2]
Seen == {b \in Boot : boots[b] # Unseen}
Fresh(ip, stage) == [ip |-> ip, stage |-> stage, age |-> 0]
Minute == 1
Day == 2

Forget(list, b) == [x \in Boot |-> IF x \in b THEN Unseen ELSE list[x]]

\* Variant: the address of a boot that is dropped is kept.
UnindexNone(index, list, gone) == index

Unindex(index, list, gone) ==
    [a \in Lease |-> IF index[a] \in gone /\ list[index[a]].ip = a THEN NoLease ELSE index[a]]

\* With a full list the boots of yesterday go, then the oldest.
Dropped ==
    LET old == {b \in Seen : boots[b].age = Day}
        rest == SelectSeq(recent, LAMBDA b : b \notin old)
    IN  IF Cardinality(Seen) < MaxBoots THEN {}
        ELSE old \cup {rest[i] : i \in 1..(Len(rest) - (MaxBoots - 1))}

\* Boot b is seen, as entry; index is what is known of the addresses before.
Records(b, entry, index) ==
    LET gone == IF boots[b] = Unseen THEN Dropped ELSE {}
        held == Unindex(index, boots, gone)
    IN  /\ boots' = [Forget(boots, gone) EXCEPT ![b] = entry]
        /\ byIP' = IF entry.ip = NoLease THEN held ELSE [held EXCEPT ![entry.ip] = b]
        /\ recent' = Append(SelectSeq(recent, LAMBDA x : x \notin gone \cup {b}), b)

\* A machine that asks again after a minute starts over.
SeesDHCP(m) ==
    LET b == boots[m]
        again == b # Unseen /\ b.age >= Minute
        index == IF again /\ b.ip # NoLease THEN [byIP EXCEPT ![b.ip] = NoLease] ELSE byIP
    IN  IF b = Unseen \/ again THEN Records(m, Fresh(NoLease, "dhcp"), index)
        ELSE Records(m, [b EXCEPT !.age = 0, !.stage = IF @ = "nopxe" THEN "dhcp" ELSE @], index)

\* A machine that does not ask for a network boot is listed as such.
SeesPlain(m) ==
    LET b == boots[m]
    IN  IF b = Unseen THEN Records(m, Fresh(NoLease, "nopxe"), byIP)
        ELSE IF b.stage = "nopxe" THEN Records(m, [b EXCEPT !.age = 0], byIP)
        ELSE UNCHANGED tracker

\* A request from an address nobody is known at is taken for the latest boot
\* without one.
Attributed(a) ==
    LET without == SelectSeq(recent, LAMBDA b : boots[b].ip = NoLease)
    IN  IF byIP[a] # NoLease THEN byIP[a] ELSE IF without # <<>> THEN Last(without) ELSE a

SeesHTTP(a, stage) ==
    LET b == Attributed(a)
        kept == stage = "ipxe" /\ boots[b].stage = "kernel"
    IN  Records(b, Fresh(a, IF kept THEN "kernel" ELSE stage), byIP)

\* A minute, a day goes by.
Ages(d) ==
    /\ \E b \in Seen : boots[b].age < d
    /\ boots' = [b \in Boot |-> IF boots[b] = Unseen THEN Unseen ELSE [boots[b] EXCEPT !.age = IF @ < d THEN d ELSE @]]
    /\ UNCHANGED <<byIP, recent, serving, feed>>

-----------------------------------------------------------------------------
(* The server and the daemon. *)

Empty ==
    /\ boots' = [b \in Boot |-> Unseen]
    /\ byIP' = [a \in Lease |-> NoLease]
    /\ recent' = <<>>

\* Variant: a run file seen while the daemon still follows is not remembered.
NotesWhenIdle == starts' = (starts \/ follow.step = "wait")

Notes == starts' = TRUE

\* The server listens, then writes its run file.
ServerStarts ==
    /\ ~serving
    /\ serving' = TRUE
    /\ Empty
    /\ Notes
    /\ UNCHANGED follow

\* Its stream, if the daemon reads one, breaks with it.
ServerStops ==
    /\ serving
    /\ serving' = FALSE
    /\ follow' = IF follow.step = "stream" THEN [follow EXCEPT !.step = "broken"] ELSE follow
    /\ UNCHANGED <<tracker, starts>>

Follows ==
    /\ follow.step = "wait" /\ starts
    /\ starts' = FALSE
    /\ follow' = [follow EXCEPT !.step = "try", !.tries = 0]
    /\ UNCHANGED <<tracker, serving>>

Connects ==
    /\ follow.step = "try" /\ follow.tries < MaxTries
    /\ follow' = IF serving THEN [step |-> "stream", tries |-> 0, shown |-> TRUE]
                 ELSE [follow EXCEPT !.tries = @ + 1]
    /\ UNCHANGED <<tracker, serving, starts>>

StreamEnds ==
    /\ follow.step = "broken" \/ (follow.step = "try" /\ follow.tries = MaxTries)
    /\ follow' = [step |-> "wait", tries |-> 0, shown |-> FALSE]
    /\ UNCHANGED <<tracker, serving, starts>>

FollowNext == Follows \/ Connects \/ StreamEnds

\* The daemon looks once when it starts, server or not.
BootInit ==
    /\ boots = [b \in Boot |-> Unseen]
    /\ byIP = [a \in Lease |-> NoLease]
    /\ recent = <<>>
    /\ serving \in BOOLEAN /\ starts \in BOOLEAN
    /\ follow = [step |-> "wait", tries |-> 0, shown |-> FALSE]

-----------------------------------------------------------------------------
(* What is promised. *)

BootTypeOK ==
    /\ boots \in [Boot -> [ip : Lease \cup {NoLease}, stage : {"none", "nopxe", "dhcp", "ipxe", "kernel"}, age : 0..Day]]
    /\ byIP \in [Lease -> Boot \cup {NoLease}]
    /\ Range(recent) = Seen
    /\ follow \in [step : {"wait", "try", "stream", "broken"}, tries : 0..MaxTries, shown : BOOLEAN]

\* The two lists agree, whatever was dropped, aged or started over, and neither
\* outgrows its bound: an address is taken for a machine that is listed, at that
\* address, and a machine listed at an address is the one it is taken for.
BootsAreIndexed ==
    /\ \A a \in Lease : byIP[a] # NoLease => boots[byIP[a]].ip = a
    /\ \A b \in Seen : boots[b].ip # NoLease => byIP[boots[b].ip] = b
    /\ Cardinality(Seen) <= MaxBoots

\* The Discovery page shows the server as long as it runs: a server that starts
\* while the daemon still holds the stream of the one before is followed too
\* ("follows `status.json?watch` ... for as long as the PXE process lives",
\* docs/operations.md).
PxeIsFollowed == <>[]serving => <>[]follow.shown
=============================================================================
