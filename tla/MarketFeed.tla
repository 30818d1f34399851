----------------------------- MODULE MarketFeed ------------------------------
(***************************************************************************)
(* How a book reaches the screen: the gateway                              *)
(* (packages/server/src/gatewayServer.ts), which keeps the last snapshot   *)
(* of each symbol from the market topic or from Redis, and the hook of the *)
(* web client (packages/web/src/hooks/useTradingFeed.ts), which keeps one  *)
(* WebSocket to it open.                                                   *)
(*                                                                         *)
(* A snapshot is the number of its version, 0 for none. The matcher is     *)
(* reduced to what both see of it: it puts a version into Redis before it  *)
(* publishes it (MatcherWorker), and the topic is as Delivery promises:    *)
(* first deliveries in order, repeats later. That takes the snapshots of a *)
(* symbol to be committed to the outbox in the order of their versions and *)
(* at distinct milliseconds. The other events, the delays and the wording  *)
(* of errors are left out; onerror and onclose of a failed socket are      *)
(* fired by one task of the browser and are one step.                      *)
(***************************************************************************)
EXTENDS Naturals, SequencesExt

CONSTANTS
  SymbolOrder,   \* DEFAULT_SYMBOLS, the order in which Redis is read
  Hooks,         \* mounted uses of useTradingFeed
  MaxVersions,   \* bound on the snapshots of all symbols together
  MaxMounts,     \* bound on the times hooks are mounted
  MaxFaults      \* bound on broken sockets, failing reads, repeats and restarts

Symbols == Range(SymbolOrder)

ASSUME SymbolsAssumption == SymbolOrder \in Seq(Symbols) \ {<<>>}

ASSUME BoundsAssumption ==
  MaxVersions \in Nat /\ MaxMounts \in Nat /\ MaxFaults \in Nat

VARIABLES
  latest,        \* the newest version of each symbol
  topic,         \* the market topic's snapshots, published so far
  cached,        \* Redis: book:SYMBOL, or 0 once it has expired
  snapshots,     \* the gateway's map
  offset,        \* what the gateway has consumed of the topic
  sockets,       \* every WebSocket opened so far, both of its sides
  hooks,         \* each hook: mounted, its socket, whether its timer runs
  orderBooks,    \* the books each hook shows, which outlive its sockets
  raced,         \* history: what has happened out of order, see Races
  mounts, faults

matcher == <<latest, topic, cached>>
gateway == <<snapshots, offset>>
vars == <<matcher, gateway, sockets, hooks, orderBooks, raced, mounts, faults>>

\* An event arrived while a connection was reading its symbol, or was passed over
\* by a consumer that joined its group again before its first commit; a connection
\* that reads nothing was open while another put a first snapshot in the map.
Races == {"event", "connection"}

None == [s \in Symbols |-> 0]

Init ==
  /\ latest = None /\ topic = <<>> /\ cached = None
  /\ snapshots = None /\ offset = 0
  /\ sockets = <<>>
  /\ hooks = [h \in Hooks |-> [mounted |-> FALSE, socket |-> 0, timer |-> FALSE]]
  /\ orderBooks = [h \in Hooks |-> None]
  /\ raced = {} /\ mounts = 0 /\ faults = 0

(***************************************************************************)
(* The matcher, as seen from here.                                         *)
(***************************************************************************)
Versions(s) == {topic[i].version : i \in {j \in DOMAIN topic : topic[j].symbol = s}}

Processed == {u \in Symbols \X (1..MaxVersions) : u[2] <= latest[u[1]]}

Process(s) ==
  /\ Cardinality(Processed) < MaxVersions
  /\ latest' = [latest EXCEPT ![s] = @ + 1]
  /\ cached' = [cached EXCEPT ![s] = latest[s] + 1]
  /\ UNCHANGED <<topic, gateway, sockets, hooks, orderBooks, raced, mounts, faults>>

Publish(s) ==
  \E v \in 1..latest[s] :
    /\ v \notin Versions(s) /\ \A u \in 1..(v - 1) : u \in Versions(s)
    /\ topic' = Append(topic, [symbol |-> s, version |-> v])
    /\ UNCHANGED <<latest, cached, gateway, sockets, hooks, orderBooks, raced, mounts, faults>>

\* A batch that took the row before another marked it sends it again.
Republish(s) ==
  /\ faults < MaxFaults /\ faults' = faults + 1
  /\ \E v \in Versions(s) : topic' = Append(topic, [symbol |-> s, version |-> v])
  /\ UNCHANGED <<latest, cached, gateway, sockets, hooks, orderBooks, raced, mounts>>

\* BOOK_CACHE_TTL_SECONDS have passed.
ExpireCached(s) ==
  /\ cached[s] # 0
  /\ cached' = [cached EXCEPT ![s] = 0]
  /\ UNCHANGED <<latest, topic, gateway, sockets, hooks, orderBooks, raced, mounts, faults>>

(***************************************************************************)
(* The gateway. at is the symbol whose cached snapshot a connection is     *)
(* reading, 0 if it reads none; read is what Redis answered.               *)
(***************************************************************************)
Live(k) == k.state # "closed"

\* Sending to a socket that is not open has no effect.
Sent(k, messages) ==
  IF k.state = "open" THEN [k EXCEPT !.inbox = @ \o messages] ELSE k

\* The map's entries, one message each.
Held(map) ==
  LET present == SetToSeq({s \in Symbols : map[s] # 0})
  IN  [i \in DOMAIN present |-> [symbol |-> present[i], version |-> map[present[i]]]]

AcceptSilent(i) ==                              \* mutant: the map is only sent after seeding
  /\ sockets[i].state = "connecting"
  /\ sockets' = [sockets EXCEPT ![i].state = "open",
                              ![i].at = IF snapshots = None THEN 1 ELSE 0]
  /\ UNCHANGED <<matcher, gateway, hooks, orderBooks, raced, mounts, faults>>

\* The connection handler up to its first await; the hook's socket opens.
Accept(i) ==
  /\ sockets[i].state = "connecting"
  /\ LET open == [sockets[i] EXCEPT !.state = "open"] IN
     sockets' = [sockets EXCEPT ![i] =
       IF snapshots = None THEN [open EXCEPT !.at = 1] ELSE Sent(open, Held(snapshots))]
  /\ UNCHANGED <<matcher, gateway, hooks, orderBooks, raced, mounts, faults>>

\* Redis answers a get of seedSnapshotsFromRedis; one that fails is skipped.
Read(i) ==
  /\ sockets[i].at # 0 /\ sockets[i].read = {}
  /\ \/ /\ sockets' = [sockets EXCEPT ![i].read = {cached[SymbolOrder[sockets[i].at]]}]
        /\ UNCHANGED faults
     \/ /\ faults < MaxFaults /\ faults' = faults + 1
        /\ sockets' = [sockets EXCEPT ![i].read = {0}]
  /\ UNCHANGED <<matcher, gateway, hooks, orderBooks, raced, mounts>>

\* The gateway goes on with the answer; after the last symbol it sends the map.
Seed(i) ==
  \E v \in sockets[i].read :
    LET s == SymbolOrder[sockets[i].at]
        map == IF v = 0 THEN snapshots ELSE [snapshots EXCEPT ![s] = v]
        more == sockets[i].at < Len(SymbolOrder)
        next == [sockets[i] EXCEPT !.read = {}, !.at = IF more THEN @ + 1 ELSE 0]
    IN  /\ snapshots' = map
        /\ sockets' = [sockets EXCEPT ![i] = IF more THEN next ELSE Sent(next, Held(map))]
        /\ raced' = raced \cup {r \in {"connection"} : v # 0 /\ snapshots[s] = 0 /\
             \E j \in DOMAIN sockets : sockets[j].state = "open" /\ sockets[j].at = 0}
        /\ UNCHANGED <<matcher, offset, hooks, orderBooks, mounts, faults>>

\* Redis has answered a read of s that its connection has not used yet.
Awaited(s) ==
  \E i \in DOMAIN sockets : sockets[i].read # {} /\ SymbolOrder[sockets[i].at] = s

\* mutant: the event is forwarded and not kept
ConsumeForgets ==
  /\ offset < Len(topic)
  /\ sockets' = [i \in DOMAIN sockets |-> Sent(sockets[i], <<topic[offset + 1]>>)]
  /\ raced' = raced \cup {r \in {"event"} : Awaited(topic[offset + 1].symbol)}
  /\ offset' = offset + 1
  /\ UNCHANGED <<matcher, snapshots, hooks, orderBooks, mounts, faults>>

\* eachMessage: a snapshot is kept, and sent to every open socket.
Consume ==
  /\ offset < Len(topic)
  /\ LET event == topic[offset + 1] IN
     /\ snapshots' = [snapshots EXCEPT ![event.symbol] = event.version]
     /\ sockets' = [i \in DOMAIN sockets |-> Sent(sockets[i], <<event>>)]
     /\ raced' = raced \cup {r \in {"event"} : Awaited(event.symbol)}
  /\ offset' = offset + 1
  /\ UNCHANGED <<matcher, hooks, orderBooks, mounts, faults>>

(***************************************************************************)
(* The hook. got is what a socket has brought it.                          *)
(***************************************************************************)
\* connect: the timer is cleared and a socket takes the place of the last.
Connect(h) ==
  /\ sockets' = Append(sockets,
       [hook |-> h, state |-> "connecting", at |-> 0, read |-> {}, inbox |-> <<>>, got |-> None])
  /\ hooks' = [hooks EXCEPT ![h] =
       [mounted |-> TRUE, socket |-> Len(sockets) + 1, timer |-> FALSE]]

\* The effect runs: of a new component, or again of one whose URL has changed.
Mount(h) ==
  /\ ~hooks[h].mounted
  /\ mounts < MaxMounts /\ mounts' = mounts + 1
  /\ Connect(h)
  /\ \E books \in {None, orderBooks[h]} : orderBooks' = [orderBooks EXCEPT ![h] = books]
  /\ UNCHANGED <<matcher, gateway, raced, faults>>

Reconnect(h) ==
  /\ hooks[h].timer
  /\ Connect(h)
  /\ UNCHANGED <<matcher, gateway, orderBooks, raced, mounts, faults>>

\* A closed socket gets nothing more; the gateway's side goes on seeding.
Closed(k) == [k EXCEPT !.state = "closed", !.inbox = <<>>, !.got = None]

ScheduledNever(broken) == hooks                 \* mutant: nothing is scheduled

\* onerror and onclose: scheduleReconnect, unless the hook is unmounted.
Scheduled(broken) ==
  [h \in Hooks |->
     IF hooks[h].mounted /\ \E i \in broken : sockets[i].hook = h
     THEN [hooks[h] EXCEPT !.timer = TRUE] ELSE hooks[h]]

Break(i) ==
  /\ faults < MaxFaults /\ faults' = faults + 1
  /\ Live(sockets[i])
  /\ sockets' = [sockets EXCEPT ![i] = Closed(@)]
  /\ hooks' = Scheduled({i})
  /\ UNCHANGED <<matcher, gateway, orderBooks, raced, mounts>>

UnmountForgets(h) ==                            \* mutant: the timer still runs
  /\ hooks[h].mounted
  /\ hooks' = [hooks EXCEPT ![h].mounted = FALSE, ![h].socket = 0]
  /\ sockets' = [sockets EXCEPT ![hooks[h].socket] = Closed(@)]
  /\ UNCHANGED <<matcher, gateway, orderBooks, raced, mounts, faults>>

Unmount(h) ==
  /\ hooks[h].mounted
  /\ hooks' = [hooks EXCEPT ![h] = [mounted |-> FALSE, socket |-> 0, timer |-> FALSE]]
  /\ sockets' = [sockets EXCEPT ![hooks[h].socket] = Closed(@)]
  /\ UNCHANGED <<matcher, gateway, orderBooks, raced, mounts, faults>>

\* onmessage
Receive(i) ==
  /\ sockets[i].inbox # <<>>
  /\ LET event == Head(sockets[i].inbox) IN
     /\ sockets' = [sockets EXCEPT ![i].inbox = Tail(@), ![i].got[event.symbol] = event.version]
     /\ orderBooks' = [orderBooks EXCEPT ![sockets[i].hook][event.symbol] = event.version]
  /\ UNCHANGED <<matcher, gateway, hooks, raced, mounts, faults>>

RestartAhead ==                                 \* mutant: it skips an event
  /\ faults < MaxFaults /\ faults' = faults + 1
  /\ snapshots' = None
  /\ offset' = offset + 1
  /\ sockets' = [i \in DOMAIN sockets |-> [Closed(sockets[i]) EXCEPT !.at = 0, !.read = {}]]
  /\ hooks' = Scheduled({i \in DOMAIN sockets : Live(sockets[i])})
  /\ UNCHANGED <<matcher, orderBooks, raced, mounts>>

\* The gateway's process ends and comes up again, at an offset it committed, or
\* at the end of the topic if its group has committed none.
Restart ==
  /\ faults < MaxFaults /\ faults' = faults + 1
  /\ snapshots' = None
  /\ offset' \in (0..offset) \cup {Len(topic)}
  /\ sockets' = [i \in DOMAIN sockets |-> [Closed(sockets[i]) EXCEPT !.at = 0, !.read = {}]]
  /\ hooks' = Scheduled({i \in DOMAIN sockets : Live(sockets[i])})
  /\ UNCHANGED <<matcher, orderBooks, raced, mounts>>

\* The consumer leaves its group and joins it again, at such an offset too: what
\* the map and the sockets hold outlives it.
Rejoin ==
  /\ faults < MaxFaults /\ faults' = faults + 1
  /\ offset' \in (0..offset) \cup {Len(topic)}
  /\ raced' = raced \cup {r \in {"event"} : offset' > offset}
  /\ UNCHANGED <<matcher, snapshots, sockets, hooks, orderBooks, mounts>>

Progress ==
  \/ \E s \in Symbols : Publish(s)
  \/ Consume
  \/ \E i \in DOMAIN sockets : Accept(i) \/ Read(i) \/ Seed(i) \/ Receive(i)
  \/ \E h \in Hooks : Reconnect(h)

Next ==
  \/ Progress
  \/ \E s \in Symbols : Process(s) \/ Republish(s) \/ ExpireCached(s)
  \/ \E h \in Hooks : Mount(h) \/ Unmount(h)
  \/ \E i \in DOMAIN sockets : Break(i)
  \/ Restart \/ Rejoin

Spec == Init /\ [][Next]_vars

\* Timers fire, the gateway accepts, Redis answers, messages arrive.
FairSpec == Spec /\ WF_vars(Progress)

(***************************************************************************)
(* Properties.                                                             *)
(***************************************************************************)
\* Types: the matcher's side, the gateway's, the sockets and the hooks.
TypeOK ==
  /\ latest \in [Symbols -> 0..MaxVersions] /\ cached \in [Symbols -> 0..MaxVersions]
  /\ snapshots \in [Symbols -> 0..MaxVersions] /\ offset \in 0..Len(topic)
  /\ \A i \in DOMAIN topic :
       topic[i] \in [symbol : Symbols, version : 1..MaxVersions]
  /\ \A i \in DOMAIN sockets :
       /\ sockets[i].hook \in Hooks
       /\ sockets[i].state \in {"connecting", "open", "closed"}
       /\ sockets[i].at \in 0..Len(SymbolOrder)
       /\ sockets[i].read \subseteq 0..MaxVersions
       /\ sockets[i].got \in [Symbols -> 0..MaxVersions]
  /\ raced \subseteq Races
  /\ hooks \in [Hooks -> [mounted : BOOLEAN, socket : 0..Len(sockets), timer : BOOLEAN]]
  /\ orderBooks \in [Hooks -> [Symbols -> 0..MaxVersions]]

Settled ==
  /\ offset = Len(topic) /\ \A s \in Symbols : latest[s] = 0 \/ latest[s] \in Versions(s)
  /\ \A i \in DOMAIN sockets : sockets[i].at = 0 /\ sockets[i].inbox = <<>>

\* The snapshot of s that is last in the topic, 0 if there is none.
LastPublished(s) ==
  LET own == {i \in DOMAIN topic : topic[i].symbol = s}
  IN  IF own = {} THEN 0 ELSE topic[Max(own)].version

\* When everything published has arrived, a hook shows the newest book, or the
\* last one published, of every symbol that its open socket has brought one of:
\* of the snapshots from the map, from Redis, from the topic and from the hook's
\* earlier sockets, an outdated one is not the last it was given, as long as no
\* event overtook a read of Redis or was passed over. A book its open socket has
\* brought none of is as old as the socket that brought it.
NoStaleBook ==
  Settled /\ "event" \notin raced =>
    \A i \in DOMAIN sockets : sockets[i].state = "open" =>
      \A s \in Symbols : sockets[i].got[s] # 0 =>
        orderBooks[sockets[i].hook][s] \in {latest[s], LastPublished(s)}

\* Whatever the gateway keeps, every open socket has been brought a book of it,
\* however its connection overlapped events, restarts and other connections:
\* only one that found the map partly seeded may miss a symbol.
NoMissingBook ==
  Settled /\ "connection" \notin raced =>
    \A i \in DOMAIN sockets : sockets[i].state = "open" =>
      \A s \in Symbols : snapshots[s] # 0 => sockets[i].got[s] # 0

\* A mounted hook has one live socket or one running timer, an unmounted hook
\* neither.
OneConnection ==
  \A h \in Hooks :
    LET live == {i \in DOMAIN sockets : sockets[i].hook = h /\ Live(sockets[i])}
    IN  IF ~hooks[h].mounted THEN live = {} /\ ~hooks[h].timer
        ELSE IF hooks[h].timer THEN live = {}
        ELSE live = {hooks[h].socket}

\* Once sockets stop breaking, every mounted hook ends with an open socket.
ComesBack ==
  <>[](\A h \in Hooks : hooks[h].mounted => sockets[hooks[h].socket].state = "open")
=============================================================================
