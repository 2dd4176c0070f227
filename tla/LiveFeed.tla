------------------------------ MODULE LiveFeed ------------------------------
(***************************************************************************)
(* The console's live feed: the daemon's hub, which numbers messages and   *)
(* keeps the last of them in a ring (internal/api/live.go), and the        *)
(* browser's end of the WebSocket (web/src/live.ts), which reconnects with *)
(* ?since= and asks for everything again when the hub cannot replay.       *)
(*                                                                         *)
(* A message is its number: what it says does not matter here, only        *)
(* whether a browser misses it.                                            *)
(***************************************************************************)
EXTENDS Naturals, Sequences, SequencesExt, FiniteSets

CONSTANTS
    Browser,    \* open consoles
    RingSize,   \* frames the hub can replay
    Buffer,     \* subscriberBuffer: frames a subscriber may lag behind
    MaxSeq,     \* bound on the messages of one daemon
    MaxBoots,   \* bound on daemons that follow each other
    MaxLosses   \* bound on connections lost to the network

ASSUME SizeAssumption ==
    /\ RingSize \in Nat \ {0} /\ Buffer \in Nat \ {0}
    /\ MaxSeq \in Nat /\ MaxBoots \in Nat /\ MaxLosses \in Nat

VARIABLES
    boot,       \* the running daemon; its startedAt
    closed,     \* hub.closed
    seq,        \* hub.seq
    ring, head, n,  \* hub.ring, hub.head, hub.n
    subs,       \* hub.subs: browsers whose channel is registered
    chan,       \* chan[b]: frames queued for b's handler
    wire,       \* wire[b]: what the handler wrote and b has not read
    conn,       \* b's connection: "off", "open", or "ended" by the daemon
    last,       \* lastSeq of live.ts
    hello,      \* helloSeq
    started,    \* startedAt of the last hello
    greeted,    \* resyncedAtHello
    sure,       \* history: per browser, the daemon whose first `upto` frames
                \*   were all applied, or published before b asked for all data
    losses

hub == <<boot, closed, seq, ring, head, n>>
client == <<last, hello, started, greeted, sure>>
vars == <<hub, subs, chan, wire, conn, client, losses>>

Slots == 0..(RingSize - 1)
Frame(s) == [kind |-> "frame", seq |-> s, boot |-> boot]
Larger(a, b) == IF a > b THEN a ELSE b

-----------------------------------------------------------------------------
(* The hub. *)

\* publish: number the message, keep it, hand it to every subscriber that has
\* room; a subscriber without room loses its channel.
Publish ==
    /\ ~closed
    /\ seq < MaxSeq
    /\ seq' = seq + 1
    /\ ring' = [ring EXCEPT ![head] = seq + 1]
    /\ head' = (head + 1) % RingSize
    /\ n' = IF n < RingSize THEN n + 1 ELSE n
    /\ LET room == {b \in subs : Len(chan[b]) < Buffer}
       IN /\ chan' = [b \in Browser |-> IF b \in room THEN Append(chan[b], seq + 1) ELSE chan[b]]
          /\ subs' = room
    /\ UNCHANGED <<boot, closed, wire, conn, client, losses>>

\* shutdown closes every channel; the queued frames can still be read.  The
\* last of them, "stopped", is left out: live.ts shows it without counting it.
Shutdown ==
    /\ ~closed
    /\ closed' = TRUE
    /\ subs' = {}
    /\ UNCHANGED <<boot, seq, ring, head, n, chan, wire, conn, client, losses>>

\* The frames the hub would replay: the newest n of the ring after `since`.
Kept(since) ==
    SelectSeq([i \in 1..n |-> ring[(head + RingSize - n + i - 1) % RingSize]], LAMBDA s : s > since)

\* Variant: no resync when the ring does not reach back.
GreetingWithoutResync(since) ==
    LET told == <<[kind |-> "hello", seq |-> seq, boot |-> boot]>>
        behind == since # 0 /\ since < seq
    IN IF behind /\ since + n >= seq
       THEN told \o [i \in 1..Len(Kept(since)) |-> Frame(Kept(since)[i])]
       ELSE told

\* What handleLive writes first.
Greeting(since) ==
    LET told == <<[kind |-> "hello", seq |-> seq, boot |-> boot]>>
        behind == since # 0 /\ since < seq
    IN CASE behind /\ since + n < seq -> Append(told, [kind |-> "resync", seq |-> 0, boot |-> boot])
         [] behind /\ since + n >= seq ->
                told \o [i \in 1..Len(Kept(since)) |-> Frame(Kept(since)[i])]
         [] OTHER -> told

\* connectLive, subscribe and the first writes: their content is fixed under
\* the hub's mutex.
Connect(b) ==
    /\ conn[b] = "off"
    /\ ~closed
    /\ conn' = [conn EXCEPT ![b] = "open"]
    /\ subs' = subs \cup {b}
    /\ chan' = [chan EXCEPT ![b] = <<>>]
    /\ wire' = [wire EXCEPT ![b] = Greeting(last[b])]
    /\ UNCHANGED <<hub, client, losses>>

\* handleLive's loop writes the next queued frame.
Write(b) ==
    /\ conn[b] = "open"
    /\ wire[b] = <<>>
    /\ chan[b] # <<>>
    /\ wire' = [wire EXCEPT ![b] = <<Frame(Head(chan[b]))>>]
    /\ chan' = [chan EXCEPT ![b] = Tail(@)]
    /\ UNCHANGED <<hub, subs, conn, client, losses>>

\* A closed channel, once drained, ends the handler.
End(b) ==
    /\ conn[b] = "open"
    /\ b \notin subs
    /\ chan[b] = <<>>
    /\ conn' = [conn EXCEPT ![b] = "ended"]
    /\ UNCHANGED <<hub, subs, chan, wire, client, losses>>

-----------------------------------------------------------------------------
(* The browser. *)

Hangup(b) ==
    /\ conn' = [conn EXCEPT ![b] = "off"]
    /\ wire' = [wire EXCEPT ![b] = <<>>]
    /\ chan' = [chan EXCEPT ![b] = <<>>]
    /\ subs' = subs \ {b}

Read(b) ==
    /\ conn[b] # "off"
    /\ wire[b] # <<>>
    /\ wire' = [wire EXCEPT ![b] = Tail(@)]
    /\ UNCHANGED <<hub, subs, chan, conn, losses>>

\* resync asks the daemon that runs now for everything.
Resync(b, daemon) == sure' = [sure EXCEPT ![b] =
    IF daemon = boot THEN [boot |-> boot, upto |-> seq] ELSE [boot |-> daemon, upto |-> 0]]

\* Variant: another daemon is noticed by its numbers only.
RestartedBySeq(b, m) == m.seq < last[b]

\* hello: the first one, or another daemon, starts over with a resync.
Restarted(b, m) == m.seq < last[b] \/ (started[b] # 0 /\ m.boot # started[b])

ReadHello(b) ==
    /\ Read(b)
    /\ LET m == Head(wire[b])
           anew == started[b] = 0 \/ Restarted(b, m)
       IN /\ m.kind = "hello"
          /\ started' = [started EXCEPT ![b] = m.boot]
          /\ hello' = [hello EXCEPT ![b] = m.seq]
          /\ greeted' = [greeted EXCEPT ![b] = anew]
          /\ \/ /\ anew
                /\ last' = [last EXCEPT ![b] = m.seq]
                /\ Resync(b, m.boot)
             \/ /\ ~anew
                /\ UNCHANGED last
                /\ sure' = [sure EXCEPT ![b] =
                       IF @.boot = m.boot THEN @ ELSE [boot |-> m.boot, upto |-> 0]]

\* The hub cannot replay: ask for everything, unless the hello just did.
ReadResync(b) ==
    /\ Read(b)
    /\ Head(wire[b]).kind = "resync"
    /\ last' = [last EXCEPT ![b] = Larger(@, hello[b])]
    /\ IF greeted[b] THEN UNCHANGED sure ELSE Resync(b, Head(wire[b]).boot)
    /\ UNCHANGED <<hello, started, greeted>>

\* A frame already seen is ignored, the next one applied.
ReadFrame(b) ==
    /\ Read(b)
    /\ LET m == Head(wire[b])
       IN /\ m.kind = "frame"
          /\ m.seq <= last[b] + 1
          /\ last' = [last EXCEPT ![b] = Larger(@, m.seq)]
          /\ sure' = [sure EXCEPT ![b].upto = IF @ + 1 = m.seq THEN m.seq ELSE @]
    /\ UNCHANGED <<hello, started, greeted>>

\* A gap: resume() drops the socket and connects again.
ReadGap(b) ==
    /\ conn[b] # "off"
    /\ wire[b] # <<>>
    /\ Head(wire[b]).kind = "frame"
    /\ Head(wire[b]).seq > last[b] + 1
    /\ Hangup(b)
    /\ UNCHANGED <<hub, client, losses>>

\* The daemon ended the connection and everything it wrote is read.
Closed(b) ==
    /\ conn[b] = "ended"
    /\ wire[b] = <<>>
    /\ Hangup(b)
    /\ UNCHANGED <<hub, client, losses>>

-----------------------------------------------------------------------------
(* The network and the daemon's life. *)

\* Whatever is on its way is lost; a laptop that sleeps does this.
Lose(b) ==
    /\ conn[b] # "off"
    /\ losses < MaxLosses
    /\ losses' = losses + 1
    /\ Hangup(b)
    /\ UNCHANGED <<hub, client>>

\* Another daemon takes over, after a shutdown or a crash of this one.
Restart ==
    /\ boot < MaxBoots
    /\ boot' = boot + 1
    /\ closed' = FALSE
    /\ seq' = 0 /\ head' = 0 /\ n' = 0
    /\ ring' = [i \in Slots |-> 0]
    /\ subs' = {}
    /\ chan' = [b \in Browser |-> <<>>]
    /\ conn' = [b \in Browser |-> IF conn[b] = "open" THEN "ended" ELSE conn[b]]
    /\ UNCHANGED <<wire, client, losses>>

Receive(b) == ReadHello(b) \/ ReadResync(b) \/ ReadFrame(b) \/ ReadGap(b)

Next ==
    \/ Publish \/ Shutdown \/ Restart
    \/ \E b \in Browser :
           Connect(b) \/ Write(b) \/ End(b) \/ Receive(b) \/ Closed(b) \/ Lose(b)

Init ==
    /\ boot = 1 /\ closed = FALSE
    /\ seq = 0 /\ head = 0 /\ n = 0
    /\ ring = [i \in Slots |-> 0]
    /\ subs = {}
    /\ chan = [b \in Browser |-> <<>>]
    /\ wire = [b \in Browser |-> <<>>]
    /\ conn = [b \in Browser |-> "off"]
    /\ last = [b \in Browser |-> 0]
    /\ hello = [b \in Browser |-> 0]
    /\ started = [b \in Browser |-> 0]
    /\ greeted = [b \in Browser |-> FALSE]
    /\ sure = [b \in Browser |-> [boot |-> 0, upto |-> 0]]
    /\ losses = 0

\* A browser keeps connecting and reading, a handler keeps writing.
Fairness == \A b \in Browser :
    WF_vars(Connect(b)) /\ WF_vars(Write(b)) /\ WF_vars(End(b))
        /\ WF_vars(Receive(b)) /\ WF_vars(Closed(b))

Spec == Init /\ [][Next]_vars /\ Fairness

-----------------------------------------------------------------------------
(* Properties. *)

TypeOK ==
    /\ boot \in 1..MaxBoots /\ closed \in BOOLEAN
    /\ seq \in 0..MaxSeq /\ ring \in [Slots -> 0..MaxSeq] /\ head \in Slots /\ n \in 0..RingSize
    /\ subs \subseteq Browser
    /\ \A b \in Browser :
        /\ Len(chan[b]) <= Buffer
        /\ \A i \in DOMAIN wire[b] :
            wire[b][i] \in [kind : {"hello", "resync", "frame"}, seq : 0..MaxSeq, boot : 1..MaxBoots]
    /\ conn \in [Browser -> {"off", "open", "ended"}]
    /\ last \in [Browser -> 0..MaxSeq] /\ hello \in [Browser -> 0..MaxSeq]
    /\ started \in [Browser -> 0..MaxBoots] /\ greeted \in [Browser -> BOOLEAN]
    /\ losses \in 0..MaxLosses

\* A browser never counts a frame as seen that it neither applied nor covered
\* by a later request for everything, over drops of slow subscribers, replays
\* from the ring, lost connections and daemons that number from zero again.
NothingSkipped ==
    \A b \in Browser :
        started[b] = boot => (sure[b].boot = boot /\ last[b] <= sure[b].upto)

\* A browser catches up with a daemon that stays up and quiet.
CatchesUp ==
    \A b \in Browser : \A s \in 1..MaxSeq :
        (seq = s /\ last[b] > 0) ~> (seq # s \/ closed \/ last[b] = s \/ last[b] = 0)

=============================================================================
