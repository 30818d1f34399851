--------------------------- MODULE MarketFeedProofs ----------------------------
(***************************************************************************)
(* The invariants of MarketFeed, for any symbols, hooks, snapshots, mounts *)
(* and faults.                                                             *)
(*                                                                         *)
(* OneConnection is not inductive: closing hooks[h].socket closes the live *)
(* socket of h, and of no other hook, because the socket that a hook       *)
(* refers to is one of its own. Sound gives every field its type. Brought  *)
(* says of every moment what NoMissingBook says once all has arrived, and  *)
(* FreshInv and CacheFresh what NoStaleBook does; Screens ties what a hook *)
(* shows to what its socket has brought.                                   *)
(***************************************************************************)
EXTENDS MarketFeed, FiniteSetTheorems, SequenceTheorems, TLAPS

Shape ==
  /\ DOMAIN sockets = 1..Len(sockets) /\ Len(sockets) \in Nat
  /\ \A i \in DOMAIN sockets : {"hook", "state", "at", "read", "inbox", "got"} \subseteq DOMAIN sockets[i]
  /\ hooks \in [Hooks -> [mounted : BOOLEAN, socket : Nat, timer : BOOLEAN]]

OwnSocket ==
  \A h \in Hooks : hooks[h].mounted =>
    hooks[h].socket \in DOMAIN sockets /\ sockets[hooks[h].socket].hook = h

IInv == Shape /\ OwnSocket /\ OneConnection

LiveOf(h) == {i \in DOMAIN sockets : sockets[i].hook = h /\ Live(sockets[i])}

LEMMA InitIInv == ASSUME Init PROVE IInv
<1>1. Len(sockets) = 0 /\ DOMAIN sockets = {}
  BY DEF Init
<1>2. \A h \in Hooks : hooks[h] = [mounted |-> FALSE, socket |-> 0, timer |-> FALSE]
  BY DEF Init
<1>3. Shape
  BY <1>1 DEF Init, Shape
<1>4. OwnSocket /\ OneConnection
  BY <1>1, <1>2 DEF OwnSocket, OneConnection
<1> QED
  BY <1>3, <1>4 DEF IInv

(***************************************************************************)
(* Steps of the gateway and messages: no socket is opened or closed.       *)
(***************************************************************************)
Alike(k, m) ==
  DOMAIN m = DOMAIN k /\ m.hook = k.hook /\ (Live(m) <=> Live(k))

LEMMA NothingOpened ==
  ASSUME IInv, hooks' = hooks, DOMAIN sockets' = DOMAIN sockets, Len(sockets') = Len(sockets),
         \A i \in DOMAIN sockets : Alike(sockets[i], sockets'[i])
  PROVE  IInv'
<1>1. Shape'
  BY DEF IInv, Shape, Alike
<1>2. OwnSocket'
  BY DEF IInv, OwnSocket, Alike
<1>3. \A h \in Hooks : LiveOf(h)' = LiveOf(h)
  BY DEF LiveOf, Alike
<1>4. OneConnection'
  BY <1>3 DEF IInv, OneConnection, LiveOf
<1> QED
  BY <1>1, <1>2, <1>4 DEF IInv

LEMMA AlikeItself == ASSUME NEW k PROVE Alike(k, k)
BY DEF Alike

\* A record keeps its hook and whether it is live when other fields change.
LEMMA SentIsAlike ==
  ASSUME IInv, NEW i \in DOMAIN sockets, NEW messages
  PROVE  Alike(sockets[i], Sent(sockets[i], messages))
BY DEF IInv, Shape, Alike, Sent, Live

\* One socket is written.
LEMMA OneWritten ==
  ASSUME IInv, hooks' = hooks, NEW i \in DOMAIN sockets, NEW k, Alike(sockets[i], k),
         sockets' = [sockets EXCEPT ![i] = k]
  PROVE  IInv'
<1>1. DOMAIN sockets' = DOMAIN sockets
  OBVIOUS
<1>2. Len(sockets') = Len(sockets)
  BY <1>1 DEF IInv, Shape
<1>3. \A j \in DOMAIN sockets : Alike(sockets[j], sockets'[j])
  BY AlikeItself
<1> QED
  BY <1>1, <1>2, <1>3, NothingOpened

LEMMA AcceptStep ==
  ASSUME IInv, NEW i \in DOMAIN sockets, Accept(i)
  PROVE  IInv'
<1> DEFINE open == [sockets[i] EXCEPT !.state = "open"]
           k == IF snapshots = None THEN [open EXCEPT !.at = 1] ELSE Sent(open, Held(snapshots))
<1>1. {"hook", "state", "at", "inbox"} \subseteq DOMAIN sockets[i] /\ sockets[i].state = "connecting"
  BY DEF IInv, Shape, Accept
<1>2. DOMAIN open = DOMAIN sockets[i] /\ open.hook = sockets[i].hook /\ open.state = "open"
  BY <1>1
<1>3. Alike(sockets[i], k)
  <2>1. CASE snapshots = None
    BY <1>1, <1>2, <2>1 DEF Alike, Live
  <2>2. CASE snapshots # None
    BY <1>1, <1>2, <2>2 DEF Alike, Live, Sent
  <2> QED
    BY <2>1, <2>2
<1>4. sockets' = [sockets EXCEPT ![i] = k] /\ hooks' = hooks
  BY DEF Accept
<1> QED
  BY <1>3, <1>4, OneWritten

LEMMA ReadStep ==
  ASSUME IInv, NEW i \in DOMAIN sockets, Read(i)
  PROVE  IInv'
<1>1. PICK answer : sockets' = [sockets EXCEPT ![i].read = answer]
  BY DEF Read
<1>2. PICK k : k = [sockets[i] EXCEPT !.read = answer]
  OBVIOUS
<1>3. Alike(sockets[i], k)
  BY <1>2 DEF IInv, Shape, Alike, Live
<1>4. sockets' = [sockets EXCEPT ![i] = k] /\ hooks' = hooks
  BY <1>1, <1>2 DEF Read
<1> QED
  BY <1>3, <1>4, OneWritten

LEMMA SeedStep ==
  ASSUME IInv, NEW i \in DOMAIN sockets, Seed(i)
  PROVE  IInv'
<1>1. PICK v \in sockets[i].read :
        LET s == SymbolOrder[sockets[i].at]
            map == IF v = 0 THEN snapshots ELSE [snapshots EXCEPT ![s] = v]
            more == sockets[i].at < Len(SymbolOrder)
            next == [sockets[i] EXCEPT !.read = {}, !.at = IF more THEN @ + 1 ELSE 0]
        IN  sockets' = [sockets EXCEPT ![i] = IF more THEN next ELSE Sent(next, Held(map))]
  BY DEF Seed
<1> DEFINE s == SymbolOrder[sockets[i].at]
           map == IF v = 0 THEN snapshots ELSE [snapshots EXCEPT ![s] = v]
           more == sockets[i].at < Len(SymbolOrder)
           next == [sockets[i] EXCEPT !.read = {}, !.at = IF more THEN @ + 1 ELSE 0]
           k == IF more THEN next ELSE Sent(next, Held(map))
<1>2. {"hook", "state", "inbox"} \subseteq DOMAIN sockets[i]
  BY DEF IInv, Shape
<1>3. DOMAIN next = DOMAIN sockets[i] /\ next.hook = sockets[i].hook
      /\ next.state = sockets[i].state
  BY <1>2
<1>4. \A messages : DOMAIN Sent(next, messages) = DOMAIN next
         /\ Sent(next, messages).hook = next.hook /\ Sent(next, messages).state = next.state
  BY <1>2, <1>3 DEF Sent
<1>5. Alike(sockets[i], k)
  BY <1>3, <1>4 DEF Alike, Live
<1>6. sockets' = [sockets EXCEPT ![i] = k] /\ hooks' = hooks
  BY <1>1 DEF Seed
<1> QED
  BY <1>5, <1>6, OneWritten

LEMMA ReceiveStep ==
  ASSUME IInv, NEW i \in DOMAIN sockets, Receive(i)
  PROVE  IInv'
<1>1. PICK k : k = LET event == Head(sockets[i].inbox)
                   IN  [sockets[i] EXCEPT !.inbox = Tail(@), !.got[event.symbol] = event.version]
  OBVIOUS
<1>2. Alike(sockets[i], k)
  BY <1>1 DEF IInv, Shape, Alike, Live
<1>3. sockets' = [sockets EXCEPT ![i] = k] /\ hooks' = hooks
  BY <1>1 DEF Receive
<1> QED
  BY <1>2, <1>3, OneWritten

LEMMA ConsumeStep ==
  ASSUME IInv, Consume
  PROVE  IInv'
<1>1. /\ hooks' = hooks
      /\ sockets' = [i \in DOMAIN sockets |-> Sent(sockets[i], <<topic[offset + 1]>>)]
  BY DEF Consume
<1>2. DOMAIN sockets' = DOMAIN sockets
  BY <1>1
<1>3. Len(sockets') = Len(sockets)
  BY <1>2 DEF IInv, Shape
<1>4. \A i \in DOMAIN sockets : Alike(sockets[i], sockets'[i])
  BY <1>1, SentIsAlike
<1> QED
  BY <1>1, <1>2, <1>3, <1>4, NothingOpened

LEMMA NoSocketStep ==
  ASSUME IInv, hooks' = hooks, sockets' = sockets
  PROVE  IInv'
BY NothingOpened, AlikeItself

(***************************************************************************)
(* Sockets are opened and closed.                                          *)
(***************************************************************************)
\* The property in terms of LiveOf.
LEMMA Connections ==
  OneConnection <=>
    \A h \in Hooks :
      /\ ~hooks[h].mounted => LiveOf(h) = {} /\ ~hooks[h].timer
      /\ hooks[h].mounted /\ hooks[h].timer => LiveOf(h) = {}
      /\ hooks[h].mounted /\ ~hooks[h].timer => LiveOf(h) = {hooks[h].socket}
BY DEF OneConnection, LiveOf

LEMMA ConnectStep ==
  ASSUME IInv, NEW h \in Hooks, LiveOf(h) = {}, Connect(h)
  PROVE  IInv'
<1> DEFINE n == Len(sockets) + 1
<1>1. PICK k : /\ k = [hook |-> h, state |-> "connecting", at |-> 0, read |-> {},
                       inbox |-> <<>>, got |-> None]
               /\ sockets' = Append(sockets, k)
  BY DEF Connect
<1>2. k.hook = h /\ Live(k)
      /\ {"hook", "state", "at", "read", "inbox", "got"} \subseteq DOMAIN k
  BY <1>1 DEF Live
<1>3. /\ Len(sockets) \in Nat /\ DOMAIN sockets = 1..Len(sockets)
      /\ Len(sockets') = n /\ DOMAIN sockets' = 1..n /\ n \notin DOMAIN sockets
      /\ sockets'[n] = k /\ \A i \in DOMAIN sockets : sockets'[i] = sockets[i]
  BY <1>1 DEF IInv, Shape
<1>4. hooks' = [hooks EXCEPT ![h] = [mounted |-> TRUE, socket |-> n, timer |-> FALSE]]
  BY DEF Connect
<1>5. /\ hooks' \in [Hooks -> [mounted : BOOLEAN, socket : Nat, timer : BOOLEAN]]
      /\ hooks'[h] = [mounted |-> TRUE, socket |-> n, timer |-> FALSE]
      /\ \A g \in Hooks \ {h} : hooks'[g] = hooks[g]
  BY <1>3, <1>4 DEF IInv, Shape
<1>6. Shape'
  <2>1. ASSUME NEW i \in 1..n
        PROVE  {"hook", "state", "at", "read", "inbox", "got"} \subseteq DOMAIN sockets'[i]
    BY <1>2, <1>3 DEF IInv, Shape
  <2> QED
    BY <1>3, <1>5, <2>1 DEF Shape
<1>7. OwnSocket'
  BY <1>2, <1>3, <1>5 DEF IInv, OwnSocket
<1>8. LiveOf(h)' = {n} /\ \A g \in Hooks \ {h} : LiveOf(g)' = LiveOf(g)
  BY <1>2, <1>3 DEF LiveOf
<1>9. OneConnection'
  BY <1>5, <1>8, Connections DEF IInv, OneConnection, LiveOf
<1> QED
  BY <1>6, <1>7, <1>9 DEF IInv

LEMMA MountStep ==
  ASSUME IInv, NEW h \in Hooks, Mount(h) \/ Reconnect(h)
  PROVE  IInv'
<1>1. LiveOf(h) = {}
  BY Connections DEF IInv, Mount, Reconnect
<1> QED
  BY <1>1, ConnectStep DEF Mount, Reconnect

\* Closing the sockets C, with hooks as the callers leave them.
LEMMA Closing ==
  ASSUME IInv, NEW C \in SUBSET DOMAIN sockets,
         DOMAIN sockets' = DOMAIN sockets,
         \A i \in DOMAIN sockets \ C : Alike(sockets[i], sockets'[i]),
         \A i \in C : /\ DOMAIN sockets'[i] = DOMAIN sockets[i]
                      /\ sockets'[i].hook = sockets[i].hook /\ ~Live(sockets'[i])
  PROVE  /\ Len(sockets') = Len(sockets)
         /\ \A h \in Hooks : LiveOf(h)' = LiveOf(h) \ C
         /\ \A i \in DOMAIN sockets : sockets'[i].hook = sockets[i].hook
         /\ \A i \in DOMAIN sockets : DOMAIN sockets'[i] = DOMAIN sockets[i]
<1>1. Len(sockets') = Len(sockets)
  BY DEF IInv, Shape
<1>2. \A h \in Hooks : LiveOf(h)' = LiveOf(h) \ C
  BY DEF LiveOf, Alike
<1> QED
  BY <1>1, <1>2 DEF Alike

LEMMA ClosedIsNotLive ==
  ASSUME IInv, NEW i \in DOMAIN sockets
  PROVE  DOMAIN Closed(sockets[i]) = DOMAIN sockets[i]
         /\ Closed(sockets[i]).hook = sockets[i].hook /\ ~Live(Closed(sockets[i]))
BY DEF IInv, Shape, Closed, Live

\* Broken sockets, of one connection or of all: their mounted hooks' timers run.
LEMMA Breaking ==
  ASSUME IInv, NEW C \in SUBSET DOMAIN sockets,
         DOMAIN sockets' = DOMAIN sockets,
         \A i \in DOMAIN sockets \ C : Alike(sockets[i], sockets'[i]),
         \A i \in C : /\ DOMAIN sockets'[i] = DOMAIN sockets[i]
                      /\ sockets'[i].hook = sockets[i].hook /\ ~Live(sockets'[i]),
         hooks' = Scheduled({i \in C : Live(sockets[i])})
  PROVE  IInv'
<1> DEFINE broken == {i \in C : Live(sockets[i])}
<1>1. /\ Len(sockets') = Len(sockets)
      /\ \A h \in Hooks : LiveOf(h)' = LiveOf(h) \ C
      /\ \A i \in DOMAIN sockets : sockets'[i].hook = sockets[i].hook
      /\ \A i \in DOMAIN sockets : DOMAIN sockets'[i] = DOMAIN sockets[i]
  BY Closing
<1>2. ASSUME NEW h \in Hooks
      PROVE  /\ hooks'[h] \in [mounted : BOOLEAN, socket : Nat, timer : BOOLEAN]
             /\ hooks'[h].mounted = hooks[h].mounted /\ hooks'[h].socket = hooks[h].socket
             /\ hooks[h].mounted /\ (\E i \in broken : sockets[i].hook = h) => hooks'[h].timer = TRUE
             /\ ~(hooks[h].mounted /\ \E i \in broken : sockets[i].hook = h)
                  => hooks'[h].timer = hooks[h].timer
  <2>1. hooks[h] \in [mounted : BOOLEAN, socket : Nat, timer : BOOLEAN]
    BY DEF IInv, Shape
  <2>2. CASE hooks[h].mounted /\ \E i \in broken : sockets[i].hook = h
    <3>1. hooks'[h] = [hooks[h] EXCEPT !.timer = TRUE]
      BY <2>2 DEF Scheduled
    <3> QED
      BY <2>1, <2>2, <3>1
  <2>3. CASE ~(hooks[h].mounted /\ \E i \in broken : sockets[i].hook = h)
    <3>1. hooks'[h] = hooks[h]
      BY <2>3 DEF Scheduled
    <3> QED
      BY <2>1, <2>3, <3>1
  <2> QED
    BY <2>2, <2>3
<1>3. Shape'
  <2>1. hooks' \in [Hooks -> [mounted : BOOLEAN, socket : Nat, timer : BOOLEAN]]
    BY <1>2 DEF Scheduled
  <2> QED
    BY <1>1, <2>1 DEF IInv, Shape
<1>4. OwnSocket'
  <2> SUFFICES ASSUME NEW h \in Hooks, hooks'[h].mounted
               PROVE  hooks'[h].socket \in DOMAIN sockets'
                      /\ sockets'[hooks'[h].socket].hook = h
    BY DEF OwnSocket
  <2>1. hooks[h].mounted
    BY <1>2
  <2>2. hooks[h].socket \in DOMAIN sockets /\ sockets[hooks[h].socket].hook = h
    BY <2>1 DEF IInv, OwnSocket
  <2>3. hooks'[h].socket = hooks[h].socket
    BY <1>2
  <2> QED
    BY <1>1, <2>2, <2>3
<1>5. ASSUME NEW h \in Hooks
      PROVE  /\ ~hooks'[h].mounted => LiveOf(h)' = {} /\ ~hooks'[h].timer
             /\ hooks'[h].mounted /\ hooks'[h].timer => LiveOf(h)' = {}
             /\ hooks'[h].mounted /\ ~hooks'[h].timer => LiveOf(h)' = {hooks'[h].socket}
  <2>1. /\ ~hooks[h].mounted => LiveOf(h) = {} /\ ~hooks[h].timer
        /\ hooks[h].mounted /\ hooks[h].timer => LiveOf(h) = {}
        /\ hooks[h].mounted /\ ~hooks[h].timer => LiveOf(h) = {hooks[h].socket}
    BY Connections DEF IInv
  <2>2. LiveOf(h)' = LiveOf(h) \ C
    BY <1>1
  <2>3. (\E i \in broken : sockets[i].hook = h) <=> LiveOf(h) \cap C # {}
    BY DEF LiveOf
  <2>4. CASE ~hooks[h].mounted
    <3>1. LiveOf(h)' = {} /\ ~hooks'[h].timer /\ ~hooks'[h].mounted
      BY <1>2, <2>1, <2>2, <2>4
    <3> QED
      BY <3>1
  <2>5. CASE hooks[h].mounted /\ hooks[h].timer
    <3>1. LiveOf(h)' = {} /\ hooks'[h].timer /\ hooks'[h].mounted
      BY <1>2, <2>1, <2>2, <2>5
    <3> QED
      BY <3>1
  <2>6. CASE hooks[h].mounted /\ ~hooks[h].timer /\ hooks[h].socket \in C
    <3>1. LiveOf(h) = {hooks[h].socket}
      BY <2>1, <2>6
    <3>2. LiveOf(h)' = {}
      BY <2>2, <2>6, <3>1
    <3>3. \E i \in broken : sockets[i].hook = h
      BY <2>3, <2>6, <3>1
    <3>4. hooks'[h].timer /\ hooks'[h].mounted
      BY <1>2, <2>6, <3>3
    <3> QED
      BY <3>2, <3>4
  <2>7. CASE hooks[h].mounted /\ ~hooks[h].timer /\ hooks[h].socket \notin C
    <3>1. LiveOf(h) = {hooks[h].socket}
      BY <2>1, <2>7
    <3>2. LiveOf(h)' = {hooks[h].socket}
      BY <2>2, <2>7, <3>1
    <3>3. ~\E i \in broken : sockets[i].hook = h
      BY <2>3, <2>7, <3>1
    <3>4. /\ hooks'[h].timer = hooks[h].timer /\ hooks'[h].socket = hooks[h].socket
          /\ hooks'[h].mounted = hooks[h].mounted
      BY <1>2, <3>3
    <3>5. hooks'[h].mounted /\ ~hooks'[h].timer
      BY <2>7, <3>4, Zenon
    <3>6. LiveOf(h)' = {hooks'[h].socket}
      BY <3>2, <3>4, Zenon
    <3> QED
      BY <3>5, <3>6, Zenon
  <2> QED
    BY <2>4, <2>5, <2>6, <2>7
<1>6. OneConnection'
  BY <1>5 DEF OneConnection, LiveOf
<1> QED
  BY <1>3, <1>4, <1>6 DEF IInv

LEMMA BreakStep ==
  ASSUME IInv, NEW i \in DOMAIN sockets, Break(i)
  PROVE  IInv'
<1>1. /\ Live(sockets[i])
      /\ sockets' = [sockets EXCEPT ![i] = Closed(sockets[i])]
      /\ hooks' = Scheduled({i})
  BY DEF Break
<1>2. {j \in {i} : Live(sockets[j])} = {i}
  BY <1>1
<1>3. DOMAIN sockets' = DOMAIN sockets
  BY <1>1
<1>4. \A j \in DOMAIN sockets \ {i} : Alike(sockets[j], sockets'[j])
  BY <1>1, AlikeItself
<1>5. sockets'[i] = Closed(sockets[i])
  BY <1>1
<1>6. \A j \in {i} : /\ DOMAIN sockets'[j] = DOMAIN sockets[j]
                     /\ sockets'[j].hook = sockets[j].hook /\ ~Live(sockets'[j])
  BY <1>5, ClosedIsNotLive
<1>7. hooks' = Scheduled({j \in {i} : Live(sockets[j])})
  BY <1>1, <1>2, Zenon
<1>8. {i} \in SUBSET DOMAIN sockets
  OBVIOUS
<1> QED
  BY <1>3, <1>4, <1>6, <1>7, <1>8, Breaking, Zenon

LEMMA RestartStep ==
  ASSUME IInv, Restart
  PROVE  IInv'
<1>1. /\ sockets' = [i \in DOMAIN sockets |-> [Closed(sockets[i]) EXCEPT !.at = 0, !.read = {}]]
      /\ hooks' = Scheduled({i \in DOMAIN sockets : Live(sockets[i])})
  BY Zenon DEF Restart
<1>2. DOMAIN sockets' = DOMAIN sockets
  BY <1>1, Zenon
<1>3. ASSUME NEW i \in DOMAIN sockets
      PROVE  /\ DOMAIN sockets'[i] = DOMAIN sockets[i]
             /\ sockets'[i].hook = sockets[i].hook /\ ~Live(sockets'[i])
  <2>1. {"hook", "state"} \subseteq DOMAIN sockets[i]
    BY DEF IInv, Shape
  <2>2. PICK k : k = Closed(sockets[i])
    OBVIOUS
  <2>3. DOMAIN k = DOMAIN sockets[i] /\ k.hook = sockets[i].hook /\ k.state = "closed"
    BY <2>1, <2>2 DEF Closed
  <2>4. sockets'[i] = [k EXCEPT !.at = 0, !.read = {}]
    <3>1. sockets'[i] = [Closed(sockets[i]) EXCEPT !.at = 0, !.read = {}]
      BY <1>1, Zenon
    <3> QED
      BY <2>2, <3>1, Zenon
  <2> QED
    BY <2>1, <2>3, <2>4 DEF Live
<1> QED
  <2>1. hooks' = Scheduled({i \in DOMAIN sockets : Live(sockets[i])})
    BY <1>1, Zenon
  <2>2. DOMAIN sockets \in SUBSET DOMAIN sockets
        /\ \A i \in DOMAIN sockets \ DOMAIN sockets : Alike(sockets[i], sockets'[i])
    OBVIOUS
  <2>3. \A i \in DOMAIN sockets : /\ DOMAIN sockets'[i] = DOMAIN sockets[i]
                                  /\ sockets'[i].hook = sockets[i].hook /\ ~Live(sockets'[i])
    BY <1>3, Zenon
  <2> QED
    BY <1>2, <2>1, <2>2, <2>3, Breaking, Zenon

\* The socket that is closed is the hook's own, so no other hook loses one.
LEMMA UnmountStep ==
  ASSUME IInv, NEW h \in Hooks, Unmount(h)
  PROVE  IInv'
<1> DEFINE n == hooks[h].socket
<1>1. /\ hooks[h].mounted
      /\ hooks' = [hooks EXCEPT ![h] = [mounted |-> FALSE, socket |-> 0, timer |-> FALSE]]
      /\ sockets' = [sockets EXCEPT ![n] = Closed(sockets[n])]
  BY DEF Unmount
<1>2. n \in DOMAIN sockets /\ sockets[n].hook = h
  BY <1>1 DEF IInv, OwnSocket
<1>3. DOMAIN sockets' = DOMAIN sockets
  BY <1>1
<1>4. \A j \in DOMAIN sockets \ {n} : Alike(sockets[j], sockets'[j])
  BY <1>1, AlikeItself
<1>5. /\ DOMAIN sockets'[n] = DOMAIN sockets[n]
      /\ sockets'[n].hook = sockets[n].hook /\ ~Live(sockets'[n])
  BY <1>1, <1>2, ClosedIsNotLive
<1>6. /\ Len(sockets') = Len(sockets)
      /\ \A g \in Hooks : LiveOf(g)' = LiveOf(g) \ {n}
      /\ \A i \in DOMAIN sockets : sockets'[i].hook = sockets[i].hook
      /\ \A i \in DOMAIN sockets : DOMAIN sockets'[i] = DOMAIN sockets[i]
  <2>1. \A i \in {n} : /\ DOMAIN sockets'[i] = DOMAIN sockets[i]
                       /\ sockets'[i].hook = sockets[i].hook /\ ~Live(sockets'[i])
    BY <1>5
  <2>2. {n} \in SUBSET DOMAIN sockets
    BY <1>2
  <2> QED
    BY <1>3, <1>4, <2>1, <2>2, Closing
<1>7. /\ hooks' \in [Hooks -> [mounted : BOOLEAN, socket : Nat, timer : BOOLEAN]]
      /\ hooks'[h] = [mounted |-> FALSE, socket |-> 0, timer |-> FALSE]
      /\ \A g \in Hooks \ {h} : hooks'[g] = hooks[g]
  BY <1>1 DEF IInv, Shape
<1>8. Shape'
  BY <1>3, <1>6, <1>7 DEF IInv, Shape
<1>9. OwnSocket'
  BY <1>3, <1>6, <1>7 DEF IInv, OwnSocket
<1>10. LiveOf(h)' = {} /\ \A g \in Hooks \ {h} : LiveOf(g)' = LiveOf(g)
  <2>1. LiveOf(h) \subseteq {n}
    BY <1>1, Connections DEF IInv
  <2>2. \A g \in Hooks \ {h} : n \notin LiveOf(g)
    BY <1>2 DEF LiveOf
  <2>3. LiveOf(h)' = LiveOf(h) \ {n} /\ \A g \in Hooks \ {h} : LiveOf(g)' = LiveOf(g) \ {n}
    BY <1>6
  <2>4. LiveOf(h)' = {}
    BY <2>1, <2>3
  <2>5. ASSUME NEW g \in Hooks \ {h} PROVE LiveOf(g)' = LiveOf(g)
    BY <2>2, <2>3
  <2> QED
    BY <2>4, <2>5, Zenon
<1>11. OneConnection'
  BY <1>7, <1>10, Connections DEF IInv, OneConnection, LiveOf
<1> QED
  BY <1>8, <1>9, <1>11 DEF IInv

LEMMA NextIInv == ASSUME IInv, [Next]_vars PROVE IInv'
<1>1. ASSUME NEW i \in DOMAIN sockets, Accept(i) \/ Read(i) \/ Seed(i) \/ Receive(i) \/ Break(i)
      PROVE  IInv'
  BY <1>1, AcceptStep, ReadStep, SeedStep, ReceiveStep, BreakStep
<1>2. ASSUME NEW h \in Hooks, Mount(h) \/ Reconnect(h) \/ Unmount(h) PROVE IInv'
  BY <1>2, MountStep, UnmountStep
<1>3. ASSUME NEW s \in Symbols, Process(s) \/ Publish(s) \/ Republish(s) \/ ExpireCached(s)
      PROVE  IInv'
  <2>1. ASSUME Process(s) PROVE hooks' = hooks /\ sockets' = sockets
    BY <2>1, Zenon DEF Process
  <2>2. ASSUME Publish(s) PROVE hooks' = hooks /\ sockets' = sockets
    BY <2>2, Zenon DEF Publish
  <2>3. ASSUME Republish(s) \/ ExpireCached(s) PROVE hooks' = hooks /\ sockets' = sockets
    BY <2>3, Zenon DEF Republish, ExpireCached
  <2> QED
    BY <1>3, <2>1, <2>2, <2>3, NoSocketStep
<1>4. ASSUME UNCHANGED vars PROVE IInv'
  BY <1>4, NoSocketStep DEF vars
<1>5. ASSUME Rejoin PROVE IInv'
  BY <1>5, NoSocketStep DEF Rejoin
<1> QED
  BY <1>1, <1>2, <1>3, <1>4, <1>5, ConsumeStep, RestartStep DEF Next, Progress

\* A mounted hook of useTradingFeed has one live socket or one running timer,
\* and an unmounted one neither, whatever breaks, restarts, mounts and unmounts:
\* no socket is opened beside a live one and none outlives its hook.
THEOREM Connected == Spec => []OneConnection
<1>1. Init => IInv
  BY InitIInv
<1>2. IInv /\ [Next]_vars => IInv'
  BY NextIInv
<1>3. IInv => OneConnection
  BY DEF IInv
<1> QED
  BY <1>1, <1>2, <1>3, PTL DEF Spec

(***************************************************************************)
(* Types. A socket that is not open holds nothing, and a connection that   *)
(* has an answer of Redis is reading a symbol.                             *)
(***************************************************************************)
Events == [symbol : Symbols, version : 1..MaxVersions]

Books == [Symbols -> 0..MaxVersions]

SocketRecords ==
  [hook : Hooks, state : {"connecting", "open", "closed"}, at : 0..Len(SymbolOrder),
   read : SUBSET (0..MaxVersions), inbox : Seq(Events), got : Books]

SocketSound(k) ==
  /\ k \in SocketRecords
  /\ k.read # {} => k.at # 0
  /\ k.state # "open" => k.inbox = <<>> /\ k.got = None
  /\ k.state = "connecting" => k.at = 0

MatcherSound ==
  /\ latest \in Books /\ cached \in Books /\ topic \in Seq(Events)
  /\ snapshots \in Books /\ offset \in 0..Len(topic) /\ raced \subseteq Races

SocketsSound ==
  sockets \in Seq(SocketRecords) /\ \A i \in DOMAIN sockets : SocketSound(sockets[i])

HooksSound ==
  hooks \in [Hooks -> [mounted : BOOLEAN, socket : 0..Len(sockets), timer : BOOLEAN]]

Sound == MatcherSound /\ SocketsSound /\ HooksSound

LEMMA Order ==
  /\ Len(SymbolOrder) \in Nat \ {0} /\ DOMAIN SymbolOrder = 1..Len(SymbolOrder)
  /\ \A i \in 1..Len(SymbolOrder) : SymbolOrder[i] \in Symbols
  /\ IsFiniteSet(Symbols)
<1>1. /\ Len(SymbolOrder) \in Nat \ {0} /\ DOMAIN SymbolOrder = 1..Len(SymbolOrder)
      /\ \A i \in 1..Len(SymbolOrder) : SymbolOrder[i] \in Symbols
  BY SymbolsAssumption, EmptySeq, LenProperties, ElementOfSeq
<1>2. Symbols = {SymbolOrder[i] : i \in DOMAIN SymbolOrder}
  BY DEF Symbols, Range
<1>3. SymbolOrder \in Surjection(1..Len(SymbolOrder), Symbols)
  BY <1>1, <1>2, SymbolsAssumption DEF Surjection
<1>4. IsFiniteSet(1..Len(SymbolOrder))
  BY <1>1, FS_Interval
<1> QED
  BY <1>1, <1>3, <1>4, FS_Surjection

LEMMA NoneIsABook == None \in Books
BY BoundsAssumption DEF None, Books

\* The messages of a map: its entries, all of them and nothing else.
LEMMA HeldEntries ==
  ASSUME NEW map \in Books
  PROVE  /\ Held(map) \in Seq(Events)
         /\ \A m \in DOMAIN Held(map) : Held(map)[m].version = map[Held(map)[m].symbol]
         /\ \A s \in Symbols : map[s] # 0 => \E m \in DOMAIN Held(map) : Held(map)[m].symbol = s
<1> DEFINE P == {s \in Symbols : map[s] # 0}
           n == Cardinality(P)
<1>1. IsFiniteSet(P) /\ n \in Nat
  BY Order, FS_Subset, FS_CardinalityType
<1>2. PICK present : present = SetToSeq(P)
  OBVIOUS
<1>3. \E f \in [1..n -> P] : IsInjective(f)
  <2>1. ExistsBijection(1..n, P)
    BY <1>1, FS_CardinalityType
  <2>2. PICK f \in Bijection(1..n, P) : TRUE
    BY <2>1 DEF ExistsBijection
  <2>3. f \in [1..n -> P] /\ IsInjective(f)
    BY <2>2 DEF Bijection, Injection, IsInjective
  <2> QED
    BY <2>3
<1>4. present \in [1..n -> P] /\ IsInjective(present)
  BY <1>2, <1>3, Zenon DEF SetToSeq
<1>5. present \in Surjection(1..n, P)
  <2>1. IsFiniteSet(1..n) /\ Cardinality(1..n) = n
    BY <1>1, FS_Interval
  <2>2. present \in Injection(1..n, P)
    BY <1>4 DEF Injection
  <2> QED
    BY <1>1, <2>1, <2>2, FS_Injection
<1>6. PICK held : held = Held(map)
  OBVIOUS
<1>7. held = [i \in DOMAIN present |-> [symbol |-> present[i], version |-> map[present[i]]]]
  BY <1>2, <1>6 DEF Held
<1>8. DOMAIN held = 1..n /\ \A i \in 1..n : /\ present[i] \in P
                                            /\ held[i] = [symbol |-> present[i],
                                                          version |-> map[present[i]]]
  BY <1>4, <1>7
<1>9. \A i \in 1..n : held[i] \in Events
  BY <1>8, BoundsAssumption DEF Events, Books
<1>10. held \in Seq(Events)
  <2>1. held \in [1..n -> Events]
    BY <1>7, <1>8, <1>9
  <2> QED
    BY <1>1, <2>1, SeqDef
<1>11. \A s \in P : \E i \in 1..n : present[i] = s
  BY <1>5 DEF Surjection
<1> QED
  BY <1>6, <1>8, <1>10, <1>11

\* A step that writes one socket.
Writes(i, k) ==
  /\ DOMAIN sockets' = DOMAIN sockets /\ Len(sockets') = Len(sockets)
  /\ sockets'[i] = k
  /\ \A j \in DOMAIN sockets \ {i} : sockets'[j] = sockets[j]

LEMMA Shaped ==
  ASSUME SocketsSound
  PROVE  /\ Len(sockets) \in Nat /\ DOMAIN sockets = 1..Len(sockets)
         /\ \A i \in DOMAIN sockets : sockets[i] \in SocketRecords /\ SocketSound(sockets[i])
BY LenProperties, ElementOfSeq DEF SocketsSound

\* One socket is written, and soundly.
LEMMA OneSound ==
  ASSUME SocketsSound, NEW i \in DOMAIN sockets, NEW k, SocketSound(k),
         sockets' = [sockets EXCEPT ![i] = k]
  PROVE  SocketsSound' /\ Writes(i, k)
<1>1. Len(sockets) \in Nat /\ DOMAIN sockets = 1..Len(sockets)
  BY Shaped
<1>2. k \in SocketRecords
  BY DEF SocketSound
<1>3. sockets' \in Seq(SocketRecords)
  BY <1>1, <1>2, ExceptSeq DEF SocketsSound
<1>4. Writes(i, k)
  BY <1>1, <1>3 DEF Writes
<1>5. \A j \in DOMAIN sockets : SocketSound(sockets'[j])
  BY <1>4, Shaped DEF Writes
<1>6. \A j \in DOMAIN sockets' : SocketSound(sockets[j])'
  BY <1>4, <1>5 DEF Writes, SocketSound, SocketRecords, Events, Books, None
<1>7. (Seq(SocketRecords))' = Seq(SocketRecords)
  BY DEF SocketRecords, Events, Books
<1> QED
  BY <1>3, <1>4, <1>6, <1>7 DEF SocketsSound

\* What was sent is received in order after what was there.
LEMMA SentSound ==
  ASSUME NEW k, SocketSound(k), NEW messages \in Seq(Events)
  PROVE  SocketSound(Sent(k, messages))
<1>1. PICK m : m = Sent(k, messages)
  OBVIOUS
<1>2. CASE k.state = "open"
  <2>1. m = [k EXCEPT !.inbox = k.inbox \o messages] /\ k \in SocketRecords
    BY <1>1, <1>2 DEF Sent, SocketSound
  <2>2. k.inbox \o messages \in Seq(Events)
    BY <2>1, ConcatProperties DEF SocketRecords
  <2>3. m \in SocketRecords
    BY <2>1, <2>2 DEF SocketRecords
  <2>4. m.read = k.read /\ m.at = k.at /\ m.state = k.state
    BY <2>1 DEF SocketRecords
  <2> QED
    BY <1>1, <1>2, <2>3, <2>4 DEF SocketSound
<1>3. CASE k.state # "open"
  BY <1>3 DEF Sent
<1> QED
  BY <1>2, <1>3

LEMMA AcceptEffect ==
  ASSUME MatcherSound, SocketsSound, NEW i \in DOMAIN sockets, Accept(i)
  PROVE  \E k : /\ sockets' = [sockets EXCEPT ![i] = k] /\ SocketSound(k)
                /\ k.state = "open" /\ k.read = {} /\ k.got = None
                /\ \/ snapshots = None /\ k.at = 1 /\ k.inbox = <<>>
                   \/ snapshots # None /\ k.at = 0 /\ k.inbox = Held(snapshots)
<1>1. PICK old : old = sockets[i]
  OBVIOUS
<1>2. /\ SocketSound(old) /\ old \in SocketRecords /\ old.state = "connecting"
      /\ old.inbox = <<>> /\ old.got = None /\ old.at = 0 /\ old.read = {}
  BY <1>1, Shaped DEF Accept, SocketSound
<1>3. PICK open : open = [old EXCEPT !.state = "open"]
  OBVIOUS
<1>4. /\ open \in SocketRecords /\ open.state = "open" /\ open.at = 0 /\ open.read = {}
      /\ open.inbox = <<>> /\ open.got = None
  BY <1>2, <1>3 DEF SocketRecords
<1>5. CASE snapshots = None
  <2>1. PICK k : k = [open EXCEPT !.at = 1]
    OBVIOUS
  <2>2. k \in SocketRecords
    BY <1>4, <2>1, Order DEF SocketRecords
  <2>3. /\ k.state = "open" /\ k.at = 1 /\ k.read = {} /\ k.inbox = <<>> /\ k.got = None
    BY <1>4, <2>1 DEF SocketRecords
  <2>4. SocketSound(k)
    BY <2>2, <2>3 DEF SocketSound
  <2>5. sockets' = [sockets EXCEPT ![i] = k]
    BY <1>1, <1>3, <1>5, <2>1 DEF Accept
  <2> QED
    BY <1>5, <2>3, <2>4, <2>5
<1>6. CASE snapshots # None
  <2>1. PICK k : k = Sent(open, Held(snapshots))
    OBVIOUS
  <2>2. Held(snapshots) \in Seq(Events)
    BY HeldEntries DEF MatcherSound
  <2>3. SocketSound(open)
    BY <1>4 DEF SocketSound
  <2>4. SocketSound(k)
    BY <2>1, <2>2, <2>3, SentSound
  <2>5. k = [open EXCEPT !.inbox = open.inbox \o Held(snapshots)]
    BY <1>4, <2>1 DEF Sent
  <2>6. open.inbox \o Held(snapshots) = Held(snapshots)
    BY <1>4, <2>2, ConcatEmptySeq
  <2>7. k.state = "open" /\ k.at = 0 /\ k.read = {} /\ k.inbox = Held(snapshots) /\ k.got = None
    BY <1>4, <2>5, <2>6 DEF SocketRecords
  <2>8. sockets' = [sockets EXCEPT ![i] = k]
    BY <1>1, <1>3, <1>6, <2>1 DEF Accept
  <2> QED
    BY <1>6, <2>4, <2>7, <2>8
<1> QED
  BY <1>5, <1>6

LEMMA ReadEffect ==
  ASSUME MatcherSound, SocketsSound, NEW i \in DOMAIN sockets, Read(i)
  PROVE  \E k : /\ sockets' = [sockets EXCEPT ![i] = k] /\ SocketSound(k)
                /\ k.hook = sockets[i].hook
                /\ k.state = sockets[i].state /\ k.at = sockets[i].at
                /\ k.inbox = sockets[i].inbox /\ k.got = sockets[i].got
                /\ k.read \subseteq {0, cached[SymbolOrder[k.at]]}
<1>1. PICK old : old = sockets[i]
  OBVIOUS
<1>2. SocketSound(old) /\ old \in SocketRecords /\ old.at # 0
  BY <1>1, Shaped DEF Read, SocketSound
<1>3. PICK v \in {0, cached[SymbolOrder[old.at]]} : sockets' = [sockets EXCEPT ![i].read = {v}]
  BY <1>1 DEF Read
<1>4. PICK k : k = [old EXCEPT !.read = {v}]
  OBVIOUS
<1>5. old.at \in 1..Len(SymbolOrder)
  BY <1>2, Order DEF SocketRecords
<1>6. v \in 0..MaxVersions
  BY <1>3, <1>5, Order, BoundsAssumption DEF MatcherSound, Books
<1>7. k \in SocketRecords
  BY <1>2, <1>4, <1>6 DEF SocketRecords
<1>8. /\ k.state = old.state /\ k.at = old.at /\ k.inbox = old.inbox /\ k.got = old.got
      /\ k.read = {v} /\ k.hook = old.hook
  BY <1>2, <1>4 DEF SocketRecords
<1>9. SocketSound(k)
  BY <1>2, <1>7, <1>8 DEF SocketSound
<1>10. sockets' = [sockets EXCEPT ![i] = k]
  BY <1>1, <1>3, <1>4
<1> QED
  BY <1>1, <1>3, <1>8, <1>9, <1>10

LEMMA SeedEffect ==
  ASSUME MatcherSound, SocketsSound, NEW i \in DOMAIN sockets, Seed(i)
  PROVE  \E v \in sockets[i].read, s \in Symbols : \E k :
           /\ s = SymbolOrder[sockets[i].at] /\ v \in 0..MaxVersions
           /\ snapshots' = IF v = 0 THEN snapshots ELSE [snapshots EXCEPT ![s] = v]
           /\ snapshots' \in Books
           /\ raced' = raced \cup {r \in {"connection"} : v # 0 /\ snapshots[s] = 0 /\
                \E j \in DOMAIN sockets : sockets[j].state = "open" /\ sockets[j].at = 0}
           /\ sockets' = [sockets EXCEPT ![i] = k] /\ SocketSound(k)
           /\ k.state = sockets[i].state /\ k.got = sockets[i].got /\ k.read = {}
           /\ k.hook = sockets[i].hook
           /\ \/ k.at # 0 /\ k.inbox = sockets[i].inbox
              \/ /\ k.at = 0
                 /\ k.inbox = IF k.state = "open" THEN sockets[i].inbox \o Held(snapshots')
                              ELSE sockets[i].inbox
<1>1. PICK old : old = sockets[i]
  OBVIOUS
<1>2. PICK v \in sockets[i].read :
        LET s == SymbolOrder[sockets[i].at]
            map == IF v = 0 THEN snapshots ELSE [snapshots EXCEPT ![s] = v]
            more == sockets[i].at < Len(SymbolOrder)
            next == [sockets[i] EXCEPT !.read = {}, !.at = IF more THEN @ + 1 ELSE 0]
        IN  /\ snapshots' = map
            /\ sockets' = [sockets EXCEPT ![i] = IF more THEN next ELSE Sent(next, Held(map))]
            /\ raced' = raced \cup {r \in {"connection"} : v # 0 /\ snapshots[s] = 0 /\
                 \E j \in DOMAIN sockets : sockets[j].state = "open" /\ sockets[j].at = 0}
  BY DEF Seed
<1>3. PICK s : s = SymbolOrder[old.at]
  OBVIOUS
<1>4. PICK map : map = IF v = 0 THEN snapshots ELSE [snapshots EXCEPT ![s] = v]
  OBVIOUS
<1> DEFINE more == old.at < Len(SymbolOrder)
<1>5. PICK next : next = [old EXCEPT !.read = {}, !.at = IF more THEN @ + 1 ELSE 0]
  OBVIOUS
<1>6. PICK k : k = IF more THEN next ELSE Sent(next, Held(map))
  OBVIOUS
<1>7. /\ snapshots' = map /\ sockets' = [sockets EXCEPT ![i] = k]
      /\ raced' = raced \cup {r \in {"connection"} : v # 0 /\ snapshots[s] = 0 /\
           \E j \in DOMAIN sockets : sockets[j].state = "open" /\ sockets[j].at = 0}
  BY <1>1, <1>2, <1>3, <1>4, <1>5, <1>6
<1>8. SocketSound(old) /\ old \in SocketRecords /\ old.at # 0
  BY <1>1, <1>2, Shaped DEF SocketSound
<1>9. old.at \in 1..Len(SymbolOrder) /\ s \in Symbols
  BY <1>3, <1>8, Order DEF SocketRecords
<1>10. v \in 0..MaxVersions
  BY <1>1, <1>2, <1>8 DEF SocketRecords
<1>11. map \in Books
  BY <1>4, <1>9, <1>10 DEF MatcherSound, Books
<1>12. next \in SocketRecords
  <2>1. (IF more THEN old.at + 1 ELSE 0) \in 0..Len(SymbolOrder)
    BY <1>9, Order
  <2> HIDE DEF more
  <2> QED
    BY <1>5, <1>8, <2>1 DEF SocketRecords
<1>13. /\ next.state = old.state /\ next.got = old.got /\ next.read = {} /\ next.hook = old.hook
       /\ next.inbox = old.inbox /\ next.at = IF more THEN old.at + 1 ELSE 0
  BY <1>5, <1>8 DEF SocketRecords
<1>14. SocketSound(next)
  BY <1>8, <1>12, <1>13 DEF SocketSound
<1>15. Held(map) \in Seq(Events)
  BY <1>11, HeldEntries
<1>16. SocketSound(k)
  BY <1>6, <1>14, <1>15, SentSound
<1>17. /\ k.state = old.state /\ k.got = old.got /\ k.read = {} /\ k.at = next.at
       /\ k.hook = old.hook
       /\ k.inbox = IF ~more /\ old.state = "open" THEN old.inbox \o Held(map) ELSE old.inbox
  <2>1. CASE more
    BY <1>6, <1>13, <2>1
  <2>2. CASE ~more /\ old.state = "open"
    <3>1. k = [next EXCEPT !.inbox = next.inbox \o Held(map)]
      BY <1>6, <1>13, <2>2 DEF Sent
    <3> QED
      BY <1>12, <1>13, <2>2, <3>1 DEF SocketRecords
  <2>3. CASE ~more /\ old.state # "open"
    BY <1>6, <1>13, <2>3 DEF Sent
  <2> QED
    BY <2>1, <2>2, <2>3
<1>18. more <=> k.at # 0
  BY <1>9, <1>13, <1>17, Order
<1> HIDE DEF more
<1>19. \/ k.at # 0 /\ k.inbox = old.inbox
       \/ k.at = 0 /\ k.inbox = IF k.state = "open" THEN old.inbox \o Held(map) ELSE old.inbox
  BY <1>17, <1>18
<1> QED
  <2> HIDE DEF SocketSound
  <2>1. k.state = sockets[i].state /\ k.got = sockets[i].got /\ k.read = {}
        /\ k.hook = sockets[i].hook
    BY <1>1, <1>17
  <2>2. snapshots' = (IF v = 0 THEN snapshots ELSE [snapshots EXCEPT ![s] = v])
        /\ snapshots' \in Books
    BY <1>4, <1>7, <1>11
  <2>3. \/ k.at # 0 /\ k.inbox = sockets[i].inbox
        \/ /\ k.at = 0
           /\ k.inbox = IF k.state = "open" THEN sockets[i].inbox \o Held(snapshots')
                        ELSE sockets[i].inbox
    BY <1>1, <1>7, <1>19
  <2>4. s = SymbolOrder[sockets[i].at]
    BY <1>1, <1>3
  <2>5. /\ raced' = raced \cup {r \in {"connection"} : v # 0 /\ snapshots[s] = 0 /\
             \E j \in DOMAIN sockets : sockets[j].state = "open" /\ sockets[j].at = 0}
        /\ sockets' = [sockets EXCEPT ![i] = k]
    BY <1>7
  <2>6. v \in sockets[i].read
    BY <1>2
  <2> QED
    BY <1>9, <1>10, <1>16, <2>1, <2>2, <2>3, <2>4, <2>5, <2>6

LEMMA ReceiveEffect ==
  ASSUME SocketsSound, NEW i \in DOMAIN sockets, Receive(i)
  PROVE  \E e \in Events : \E k :
           /\ sockets[i].inbox \in Seq(Events) \ {<<>>} /\ e = Head(sockets[i].inbox)
           /\ sockets' = [sockets EXCEPT ![i] = k] /\ SocketSound(k)
           /\ k.state = sockets[i].state /\ k.at = sockets[i].at /\ k.read = sockets[i].read
           /\ k.inbox = Tail(sockets[i].inbox) /\ k.hook = sockets[i].hook
           /\ k.got = [sockets[i].got EXCEPT ![e.symbol] = e.version]
<1>1. PICK old : old = sockets[i]
  OBVIOUS
<1>2. SocketSound(old) /\ old \in SocketRecords /\ old.inbox # <<>>
  BY <1>1, Shaped DEF Receive, SocketSound
<1>3. old.inbox \in Seq(Events) /\ old.got \in Books
  BY <1>2 DEF SocketRecords
<1>4. PICK e : e = Head(old.inbox)
  OBVIOUS
<1>5. e \in Events /\ Tail(old.inbox) \in Seq(Events)
  BY <1>2, <1>3, <1>4, HeadTailProperties
<1>6. [old.got EXCEPT ![e.symbol] = e.version] \in Books
  <2>1. e.symbol \in Symbols /\ e.version \in 1..MaxVersions
    BY <1>5 DEF Events
  <2>2. e.version \in 0..MaxVersions
    BY <2>1, BoundsAssumption
  <2> QED
    BY <1>3, <2>1, <2>2 DEF Books
<1>7. PICK k : k = [old EXCEPT !.inbox = Tail(old.inbox), !.got = [old.got EXCEPT ![e.symbol] = e.version]]
  OBVIOUS
<1>8. k \in SocketRecords
  BY <1>2, <1>5, <1>6, <1>7 DEF SocketRecords
<1>9. /\ k.state = old.state /\ k.at = old.at /\ k.read = old.read /\ k.hook = old.hook
      /\ k.inbox = Tail(old.inbox) /\ k.got = [old.got EXCEPT ![e.symbol] = e.version]
  BY <1>2, <1>7 DEF SocketRecords
<1>10. SocketSound(k)
  BY <1>2, <1>8, <1>9 DEF SocketSound
<1>11. sockets' = [sockets EXCEPT ![i] = k]
  <2>1. sockets' = [sockets EXCEPT ![i] =
          [old EXCEPT !.inbox = Tail(@), !.got[e.symbol] = e.version]]
    BY <1>1, <1>4 DEF Receive
  <2> QED
    BY <1>2, <1>7, <2>1 DEF SocketRecords
<1> QED
  BY <1>1, <1>2, <1>3, <1>4, <1>5, <1>9, <1>10, <1>11

\* Every socket is written, and soundly.
LEMMA AllSound ==
  ASSUME SocketsSound, NEW new, new = sockets', DOMAIN new = DOMAIN sockets,
         new = [j \in DOMAIN new |-> new[j]],
         \A j \in DOMAIN sockets : SocketSound(new[j])
  PROVE  SocketsSound' /\ Len(sockets') = Len(sockets)
<1>1. Len(sockets) \in Nat /\ DOMAIN sockets = 1..Len(sockets)
  BY Shaped
<1>2. new \in [1..Len(sockets) -> SocketRecords]
  BY <1>1 DEF SocketSound
<1>3. new \in Seq(SocketRecords)
  BY <1>1, <1>2, SeqDef
<1>4. Len(new) = Len(sockets)
  BY <1>1, <1>3, LenProperties
<1>5. \A j \in DOMAIN sockets' : SocketSound(sockets[j])'
  BY DEF SocketSound, SocketRecords, Events, Books, None
<1>6. (Seq(SocketRecords))' = Seq(SocketRecords)
  BY DEF SocketRecords, Events, Books
<1> QED
  BY <1>3, <1>4, <1>5, <1>6 DEF SocketsSound

LEMMA ConsumeEffect ==
  ASSUME MatcherSound, SocketsSound, Consume
  PROVE  /\ SocketsSound' /\ Len(sockets') = Len(sockets) /\ DOMAIN sockets' = DOMAIN sockets
         /\ offset' = offset + 1 /\ offset' \in 1..Len(topic)
         /\ topic[offset'] \in Events
         /\ snapshots' = [snapshots EXCEPT ![topic[offset'].symbol] = topic[offset'].version]
         /\ snapshots' \in Books
         /\ raced' = raced \cup {r \in {"event"} : Awaited(topic[offset'].symbol)}
         /\ \A j \in DOMAIN sockets :
              /\ sockets'[j].state = sockets[j].state /\ sockets'[j].at = sockets[j].at
              /\ sockets'[j].read = sockets[j].read /\ sockets'[j].got = sockets[j].got
              /\ sockets'[j].hook = sockets[j].hook
              /\ sockets'[j].inbox = IF sockets[j].state = "open"
                                     THEN sockets[j].inbox \o <<topic[offset']>>
                                     ELSE sockets[j].inbox
<1>1. offset \in Nat /\ Len(topic) \in Nat /\ offset < Len(topic) /\ topic \in Seq(Events)
  BY LenProperties DEF MatcherSound, Consume
<1>2. offset' = offset + 1 /\ offset' \in 1..Len(topic)
  BY <1>1 DEF Consume
<1>3. PICK e : e = topic[offset']
  OBVIOUS
<1>4. e \in Events
  BY <1>1, <1>2, <1>3, ElementOfSeq
<1>5. e.symbol \in Symbols /\ e.version \in 1..MaxVersions
  BY <1>4 DEF Events
<1>6. /\ snapshots' = [snapshots EXCEPT ![e.symbol] = e.version]
      /\ sockets' = [j \in DOMAIN sockets |-> Sent(sockets[j], <<e>>)]
      /\ raced' = raced \cup {r \in {"event"} : Awaited(e.symbol)}
  BY <1>2, <1>3, Zenon DEF Consume
<1>7. snapshots' \in Books
  <2>1. e.version \in 0..MaxVersions
    BY <1>5, BoundsAssumption
  <2> QED
    BY <1>5, <1>6, <2>1 DEF MatcherSound, Books
<1>8. <<e>> \in Seq(Events)
  BY <1>4
<1>9. PICK new : new = sockets'
  OBVIOUS
<1>10. /\ DOMAIN new = DOMAIN sockets /\ new = [j \in DOMAIN new |-> new[j]]
       /\ \A j \in DOMAIN sockets : new[j] = Sent(sockets[j], <<e>>)
  BY <1>6, <1>9
<1>11. \A j \in DOMAIN sockets : SocketSound(new[j])
  <2>1. TAKE j \in DOMAIN sockets
  <2>2. SocketSound(sockets[j])
    BY Shaped
  <2> QED
    BY <1>8, <1>10, <2>2, SentSound
<1>12. SocketsSound' /\ Len(sockets') = Len(sockets)
  BY <1>9, <1>10, <1>11, AllSound
<1>13. ASSUME NEW j \in DOMAIN sockets
       PROVE  /\ new[j].state = sockets[j].state /\ new[j].at = sockets[j].at
              /\ new[j].read = sockets[j].read /\ new[j].got = sockets[j].got
              /\ new[j].hook = sockets[j].hook
              /\ new[j].inbox = IF sockets[j].state = "open" THEN sockets[j].inbox \o <<e>>
                                ELSE sockets[j].inbox
  <2>1. PICK k : k = sockets[j]
    OBVIOUS
  <2>2. k \in SocketRecords
    BY <2>1, Shaped
  <2>3. CASE k.state = "open"
    <3>1. Sent(k, <<e>>) = [k EXCEPT !.inbox = k.inbox \o <<e>>]
      BY <2>3 DEF Sent
    <3>2. new[j] = [k EXCEPT !.inbox = k.inbox \o <<e>>]
      BY <1>10, <2>1, <3>1
    <3> QED
      BY <2>1, <2>2, <2>3, <3>2 DEF SocketRecords
  <2>4. CASE k.state # "open"
    <3>1. new[j] = k
      BY <1>10, <2>1, <2>4 DEF Sent
    <3> QED
      BY <2>1, <2>4, <3>1
  <2> QED
    BY <2>3, <2>4
<1> QED
  BY <1>2, <1>3, <1>4, <1>6, <1>7, <1>9, <1>10, <1>12, <1>13

LEMMA ConnectEffect ==
  ASSUME SocketsSound, NEW h \in Hooks, Connect(h)
  PROVE  /\ SocketsSound' /\ Len(sockets') = Len(sockets) + 1
         /\ DOMAIN sockets' = 1..Len(sockets) + 1
         /\ \A j \in DOMAIN sockets : sockets'[j] = sockets[j]
         /\ sockets'[Len(sockets) + 1].state = "connecting"
         /\ SocketSound(sockets'[Len(sockets) + 1])
<1>1. Len(sockets) \in Nat /\ DOMAIN sockets = 1..Len(sockets) /\ sockets \in Seq(SocketRecords)
  BY Shaped DEF SocketsSound
<1>2. PICK k : k = [hook |-> h, state |-> "connecting", at |-> 0, read |-> {},
                    inbox |-> <<>>, got |-> None]
  OBVIOUS
<1>3. PICK new : new = sockets'
  OBVIOUS
<1>4. new = Append(sockets, k)
  BY <1>2, <1>3 DEF Connect
<1>5. k \in SocketRecords
  BY <1>2, Order, NoneIsABook, BoundsAssumption DEF SocketRecords
<1>6. SocketSound(k) /\ k.state = "connecting"
  BY <1>2, <1>5 DEF SocketSound
<1>7. /\ new \in Seq(SocketRecords) /\ Len(new) = Len(sockets) + 1
      /\ \A j \in 1..Len(sockets) : new[j] = sockets[j]
      /\ new[Len(sockets) + 1] = k
  BY <1>1, <1>4, <1>5, AppendProperties
<1>8. DOMAIN new = 1..Len(sockets) + 1
  BY <1>1, <1>7, LenProperties
<1>9. \A j \in DOMAIN new : SocketSound(new[j])
  <2>1. TAKE j \in DOMAIN new
  <2>2. CASE j \in 1..Len(sockets)
    BY <1>1, <1>7, <2>2, Shaped
  <2>3. CASE j = Len(sockets) + 1
    BY <1>6, <1>7, <2>3
  <2> QED
    BY <1>1, <1>8, <2>2, <2>3
<1>10. \A j \in DOMAIN sockets' : SocketSound(sockets[j])'
  BY <1>3, <1>9 DEF SocketSound, SocketRecords, Events, Books, None
<1>11. (Seq(SocketRecords))' = Seq(SocketRecords)
  BY DEF SocketRecords, Events, Books
<1>12. SocketsSound'
  BY <1>3, <1>7, <1>10, <1>11 DEF SocketsSound
<1> QED
  BY <1>1, <1>3, <1>6, <1>7, <1>8, <1>12

LEMMA ClosedSound ==
  ASSUME NEW k, SocketSound(k)
  PROVE  /\ SocketSound(Closed(k)) /\ Closed(k).state = "closed" /\ Closed(k).at = k.at
         /\ Closed(k).read = k.read /\ Closed(k).inbox = <<>> /\ Closed(k).got = None
<1>1. PICK m : m = Closed(k)
  OBVIOUS
<1>2. k \in SocketRecords
  BY DEF SocketSound
<1>3. <<>> \in Seq(Events)
  OBVIOUS
<1>4. m \in SocketRecords
  BY <1>1, <1>2, <1>3, NoneIsABook DEF Closed, SocketRecords
<1>5. /\ m.state = "closed" /\ m.at = k.at /\ m.read = k.read
      /\ m.inbox = <<>> /\ m.got = None
  BY <1>1, <1>2 DEF Closed, SocketRecords
<1>6. SocketSound(m)
  BY <1>4, <1>5 DEF SocketSound
<1> QED
  BY <1>1, <1>5, <1>6

\* What breaking, unmounting and restarting make of a socket k.
Kept(k, m) ==
  \/ m = k
  \/ m.state = "closed" /\ m.read = {}
  \/ m.state = "closed" /\ m.read = k.read /\ m.at = k.at

LEMMA OneClosed ==
  ASSUME SocketsSound, NEW i, sockets' = [sockets EXCEPT ![i] = Closed(@)]
  PROVE  /\ SocketsSound' /\ Len(sockets') = Len(sockets) /\ DOMAIN sockets' = DOMAIN sockets
         /\ \A j \in DOMAIN sockets : Kept(sockets[j], sockets'[j])
<1>1. PICK new : new = sockets'
  OBVIOUS
<1>2. DOMAIN new = DOMAIN sockets /\ new = [j \in DOMAIN new |-> new[j]]
  BY <1>1
<1>3. \A j \in DOMAIN sockets : new[j] = sockets[j] \/ new[j] = Closed(sockets[j])
  BY <1>1
<1>4. \A j \in DOMAIN sockets : SocketSound(new[j]) /\ Kept(sockets[j], new[j])
  BY <1>3, Shaped, ClosedSound DEF Kept
<1> QED
  BY <1>1, <1>2, <1>4, AllSound

LEMMA RestartEffect ==
  ASSUME SocketsSound, Restart
  PROVE  /\ SocketsSound' /\ Len(sockets') = Len(sockets) /\ DOMAIN sockets' = DOMAIN sockets
         /\ \A j \in DOMAIN sockets : Kept(sockets[j], sockets'[j])
         /\ \A j \in DOMAIN sockets : sockets'[j].read = {} /\ sockets'[j].state = "closed"
<1>1. PICK new : new = sockets'
  OBVIOUS
<1> DEFINE F(k) == [Closed(k) EXCEPT !.at = 0, !.read = {}]
<1>2. new = [i \in DOMAIN sockets |-> F(sockets[i])]
  BY <1>1, Zenon DEF Restart
<1> HIDE DEF F
<1>3. /\ DOMAIN new = DOMAIN sockets /\ new = [j \in DOMAIN new |-> new[j]]
      /\ \A j \in DOMAIN sockets : new[j] = F(sockets[j])
  BY <1>2
<1>4. ASSUME NEW j \in DOMAIN sockets
      PROVE  SocketSound(new[j]) /\ new[j].read = {} /\ new[j].state = "closed"
  <2>1. PICK k : k = Closed(sockets[j])
    OBVIOUS
  <2>2. /\ SocketSound(k) /\ k \in SocketRecords /\ k.state = "closed"
        /\ k.inbox = <<>> /\ k.got = None
    BY <2>1, Shaped, ClosedSound DEF SocketSound
  <2>3. PICK m : m = [k EXCEPT !.at = 0, !.read = {}]
    OBVIOUS
  <2>4. m \in SocketRecords
    <3>1. 0 \in 0..Len(SymbolOrder)
      BY Order
    <3> QED
      BY <2>2, <2>3, <3>1 DEF SocketRecords
  <2>5. /\ m.state = "closed" /\ m.at = 0 /\ m.read = {} /\ m.inbox = <<>> /\ m.got = None
    BY <2>2, <2>3 DEF SocketRecords
  <2>6. new[j] = m
    BY <1>3, <2>1, <2>3, Zenon DEF F
  <2> QED
    BY <2>4, <2>5, <2>6 DEF SocketSound
<1> QED
  BY <1>1, <1>3, <1>4, AllSound DEF Kept

LEMMA ScheduledSound ==
  ASSUME HooksSound, NEW broken, hooks' = Scheduled(broken), Len(sockets') = Len(sockets)
  PROVE  HooksSound'
<1>1. PICK H : H = [mounted : BOOLEAN, socket : 0..Len(sockets), timer : BOOLEAN]
  OBVIOUS
<1>2. hooks \in [Hooks -> H]
  BY <1>1 DEF HooksSound
<1>3. \A h \in Hooks : [hooks[h] EXCEPT !.timer = TRUE] \in H
  BY <1>1, <1>2
<1>4. hooks' \in [Hooks -> H]
  BY <1>2, <1>3 DEF Scheduled
<1> QED
  BY <1>1, <1>4 DEF HooksSound

\* The bound on all versions bounds those of each symbol.
LEMMA ProcessBound ==
  ASSUME MatcherSound, NEW s \in Symbols, Process(s)
  PROVE  latest[s] < MaxVersions
<1> SUFFICES ASSUME latest[s] >= MaxVersions PROVE FALSE
  BY BoundsAssumption DEF MatcherSound, Books
<1>1. IsFiniteSet(1..MaxVersions) /\ Cardinality(1..MaxVersions) = MaxVersions
  BY BoundsAssumption, FS_Interval
<1>2. IsFiniteSet(Symbols \X (1..MaxVersions))
  BY <1>1, Order, FS_Product
<1>3. PICK P : P = Processed
  OBVIOUS
<1>4. Processed \in SUBSET (Symbols \X (1..MaxVersions))
  BY DEF Processed
<1>5. IsFiniteSet(P) /\ Cardinality(P) \in Nat
  BY <1>2, <1>3, <1>4, FS_Subset, FS_CardinalityType
<1>6. PICK f : f = [v \in 1..MaxVersions |-> <<s, v>>]
  OBVIOUS
<1>7. \A v \in 1..MaxVersions : <<s, v>> \in P
  BY <1>3, BoundsAssumption DEF Processed, MatcherSound, Books
<1>8. f \in Injection(1..MaxVersions, P)
  BY <1>6, <1>7 DEF Injection, IsInjective
<1>9. MaxVersions <= Cardinality(P)
  BY <1>1, <1>5, <1>8, FS_Injection
<1>10. Cardinality(P) < MaxVersions
  BY <1>3 DEF Process
<1> QED
  BY <1>5, <1>9, <1>10, BoundsAssumption

LEMMA MatcherSteps ==
  ASSUME MatcherSound, NEW s \in Symbols,
         Process(s) \/ Publish(s) \/ Republish(s) \/ ExpireCached(s)
  PROVE  /\ MatcherSound'
         /\ UNCHANGED <<snapshots, offset, sockets, hooks, raced>>
<1>1. CASE Process(s)
  <2>1. latest[s] < MaxVersions /\ latest[s] \in Nat
    BY <1>1, ProcessBound DEF MatcherSound, Books
  <2>2. latest[s] + 1 \in 0..MaxVersions
    BY <2>1, BoundsAssumption
  <2>3. /\ latest' = [latest EXCEPT ![s] = latest[s] + 1]
        /\ cached' = [cached EXCEPT ![s] = latest[s] + 1]
    BY <1>1 DEF Process
  <2>4. latest' \in Books /\ cached' \in Books
    BY <2>2, <2>3 DEF MatcherSound, Books
  <2>5. UNCHANGED <<topic, snapshots, offset, sockets, hooks, raced>>
    BY <1>1, Zenon DEF Process, gateway
  <2> QED
    BY <2>4, <2>5 DEF MatcherSound, Books, Events
<1>2. CASE Publish(s) \/ Republish(s)
  <2>1. PICK v \in 1..MaxVersions : topic' = Append(topic, [symbol |-> s, version |-> v])
    <3>1. CASE Publish(s)
      <4>1. PICK v \in 1..latest[s] : topic' = Append(topic, [symbol |-> s, version |-> v])
        BY <3>1 DEF Publish
      <4>2. v \in 1..MaxVersions
        BY <4>1, BoundsAssumption DEF MatcherSound, Books
      <4> QED
        BY <4>1, <4>2
    <3>2. CASE Republish(s)
      <4>1. PICK v \in Versions(s) : topic' = Append(topic, [symbol |-> s, version |-> v])
        BY <3>2 DEF Republish
      <4>2. PICK j \in DOMAIN topic : v = topic[j].version
        BY <4>1 DEF Versions
      <4>3. topic[j] \in Events
        BY <4>2, ElementOfSeq, LenProperties DEF MatcherSound
      <4>4. v \in 1..MaxVersions
        BY <4>2, <4>3 DEF Events
      <4> QED
        BY <4>1, <4>4
    <3> QED
      BY <1>2, <3>1, <3>2
  <2>2. [symbol |-> s, version |-> v] \in Events
    BY <2>1 DEF Events
  <2>3. topic' \in Seq(Events) /\ Len(topic') = Len(topic) + 1
    BY <2>1, <2>2, AppendProperties DEF MatcherSound
  <2>4. UNCHANGED <<latest, cached, snapshots, offset, sockets, hooks, raced>>
    BY <1>2, Zenon DEF Publish, Republish, gateway
  <2>5. offset \in 0..Len(topic')
    BY <2>3, LenProperties DEF MatcherSound
  <2> QED
    BY <2>3, <2>4, <2>5 DEF MatcherSound, Books, Events
<1>3. CASE ExpireCached(s)
  <2>1. cached' = [cached EXCEPT ![s] = 0]
    BY <1>3 DEF ExpireCached
  <2>2. cached' \in Books
    BY <2>1, BoundsAssumption DEF MatcherSound, Books
  <2>3. UNCHANGED <<latest, topic, snapshots, offset, sockets, hooks, raced>>
    BY <1>3, Zenon DEF ExpireCached, gateway
  <2> QED
    BY <2>2, <2>3 DEF MatcherSound, Books, Events
<1> QED
  BY <1>1, <1>2, <1>3

LEMMA InitSound == ASSUME Init PROVE Sound
<1>1. MatcherSound
  <2>1. Len(topic) = 0 /\ topic \in Seq(Events)
    BY DEF Init
  <2> QED
    BY <2>1, NoneIsABook DEF Init, MatcherSound
<1>2. SocketsSound
  BY DEF Init, SocketsSound
<1>3. HooksSound
  <2>1. Len(sockets) = 0
    BY DEF Init
  <2> QED
    BY <2>1 DEF Init, HooksSound
<1> QED
  BY <1>1, <1>2, <1>3 DEF Sound

\* What a step keeps of the matcher's side and the hooks when it writes sockets.
LEMMA MatcherSoundNext ==
  ASSUME MatcherSound, UNCHANGED matcher, snapshots' \in Books,
         offset' \in 0..Len(topic), raced' \subseteq Races
  PROVE  MatcherSound'
BY DEF MatcherSound, matcher, Books, Events, Races

LEMMA HooksSoundNext ==
  ASSUME HooksSound, UNCHANGED hooks, Len(sockets') = Len(sockets)
  PROVE  HooksSound'
BY DEF HooksSound

LEMMA NextSound == ASSUME Sound, [Next]_vars PROVE Sound'
<1> USE DEF Sound
<1>1. ASSUME NEW i \in DOMAIN sockets, Accept(i) \/ Read(i) \/ Receive(i)
      PROVE  Sound'
  <2>1. PICK k : sockets' = [sockets EXCEPT ![i] = k] /\ SocketSound(k)
    BY <1>1, AcceptEffect, ReadEffect, ReceiveEffect
  <2>2. SocketsSound' /\ Len(sockets') = Len(sockets)
    BY <2>1, OneSound DEF Writes
  <2>3. UNCHANGED <<matcher, snapshots, offset, hooks, raced>>
    BY <1>1, Zenon DEF Accept, Read, Receive, gateway
  <2> QED
    BY <2>2, <2>3, MatcherSoundNext, HooksSoundNext DEF MatcherSound
<1>2. ASSUME NEW i \in DOMAIN sockets, Seed(i)
      PROVE  Sound'
  <2>1. PICK k : sockets' = [sockets EXCEPT ![i] = k] /\ SocketSound(k) /\ snapshots' \in Books
    BY <1>2, SeedEffect
  <2>2. SocketsSound' /\ Len(sockets') = Len(sockets)
    BY <2>1, OneSound DEF Writes
  <2>3. UNCHANGED <<matcher, offset, hooks>>
    BY <1>2 DEF Seed
  <2>4. raced' \subseteq Races
    BY <1>2, SeedEffect DEF MatcherSound, Races
  <2> QED
    BY <2>1, <2>2, <2>3, <2>4, MatcherSoundNext, HooksSoundNext DEF MatcherSound
<1>3. ASSUME Consume
      PROVE  Sound'
  <2>1. SocketsSound' /\ Len(sockets') = Len(sockets) /\ snapshots' \in Books
        /\ offset' \in 1..Len(topic)
    BY <1>3, ConsumeEffect
  <2>2. UNCHANGED <<matcher, hooks>>
    BY <1>3, Zenon DEF Consume
  <2>3. raced' \subseteq Races
    BY <1>3, ConsumeEffect DEF MatcherSound, Races
  <2>4. offset' \in 0..Len(topic)
    BY <2>1
  <2> QED
    BY <2>1, <2>2, <2>3, <2>4, MatcherSoundNext, HooksSoundNext
<1>4. ASSUME NEW h \in Hooks, Mount(h) \/ Reconnect(h)
      PROVE  Sound'
  <2>1. Connect(h) /\ UNCHANGED <<matcher, snapshots, offset, raced>>
    BY <1>4, Zenon DEF Mount, Reconnect, gateway
  <2>2. SocketsSound' /\ Len(sockets') = Len(sockets) + 1 /\ Len(sockets) \in Nat
    BY <2>1, ConnectEffect, Shaped
  <2>3. HooksSound'
    <3>1. hooks' = [hooks EXCEPT ![h] =
             [mounted |-> TRUE, socket |-> Len(sockets) + 1, timer |-> FALSE]]
      BY <2>1 DEF Connect
    <3>2. Len(sockets) + 1 \in 0..Len(sockets') /\ 0..Len(sockets) \subseteq 0..Len(sockets')
      BY <2>2
    <3> QED
      BY <3>1, <3>2 DEF HooksSound
  <2> QED
    BY <2>1, <2>2, <2>3, MatcherSoundNext DEF MatcherSound
<1>5. ASSUME NEW h \in Hooks, Unmount(h)
      PROVE  Sound'
  <2>1. /\ UNCHANGED <<matcher, snapshots, offset, raced>>
        /\ hooks' = [hooks EXCEPT ![h] = [mounted |-> FALSE, socket |-> 0, timer |-> FALSE]]
        /\ sockets' = [sockets EXCEPT ![hooks[h].socket] = Closed(@)]
    BY <1>5, Zenon DEF Unmount, gateway
  <2>2. SocketsSound' /\ Len(sockets') = Len(sockets) /\ Len(sockets) \in Nat
    BY <2>1, OneClosed, Shaped
  <2>3. HooksSound'
    BY <2>1, <2>2 DEF HooksSound
  <2> QED
    BY <2>1, <2>2, <2>3, MatcherSoundNext DEF MatcherSound
<1>6. ASSUME NEW i \in DOMAIN sockets, Break(i)
      PROVE  Sound'
  <2>1. /\ UNCHANGED <<matcher, snapshots, offset, raced>> /\ hooks' = Scheduled({i})
        /\ sockets' = [sockets EXCEPT ![i] = Closed(@)]
    BY <1>6, Zenon DEF Break, gateway
  <2>2. SocketsSound' /\ Len(sockets') = Len(sockets)
    BY <2>1, OneClosed
  <2> QED
    BY <2>1, <2>2, ScheduledSound, MatcherSoundNext DEF MatcherSound
<1>7. ASSUME Restart
      PROVE  Sound'
  <2>1. /\ UNCHANGED <<matcher, raced>> /\ snapshots' = None
        /\ offset' \in (0..offset) \cup {Len(topic)}
        /\ hooks' = Scheduled({i \in DOMAIN sockets : Live(sockets[i])})
    BY <1>7, Zenon DEF Restart
  <2>2. SocketsSound' /\ Len(sockets') = Len(sockets)
    BY <1>7, RestartEffect
  <2>3. snapshots' \in Books /\ offset' \in 0..Len(topic) /\ raced' \subseteq Races
    BY <2>1, NoneIsABook, LenProperties DEF MatcherSound
  <2> QED
    BY <2>1, <2>2, <2>3, ScheduledSound, MatcherSoundNext
<1>8. ASSUME NEW s \in Symbols, Process(s) \/ Publish(s) \/ Republish(s) \/ ExpireCached(s)
      PROVE  Sound'
  <2>1. MatcherSound' /\ UNCHANGED <<sockets, hooks>>
    BY <1>8, MatcherSteps
  <2> QED
    BY <2>1, HooksSoundNext DEF SocketsSound, SocketSound, SocketRecords, Events, Books, None
<1>9. ASSUME UNCHANGED vars
      PROVE  Sound'
  <2>1. UNCHANGED <<matcher, snapshots, offset, sockets, hooks, raced>>
    BY <1>9 DEF vars, gateway
  <2>2. MatcherSound'
    BY <2>1, MatcherSoundNext DEF MatcherSound
  <2> QED
    BY <2>1, <2>2, HooksSoundNext DEF SocketsSound, SocketSound, SocketRecords, Events, Books, None
<1>10. ASSUME Rejoin
       PROVE  Sound'
  <2>1. /\ UNCHANGED <<matcher, snapshots, sockets, hooks>>
        /\ offset' \in (0..offset) \cup {Len(topic)}
        /\ raced' = raced \cup {r \in {"event"} : offset' > offset}
    BY <1>10, Zenon DEF Rejoin
  <2>2. offset' \in 0..Len(topic)
    <3>1. offset \in 0..Len(topic) /\ Len(topic) \in Nat
      BY LenProperties DEF MatcherSound
    <3> QED
      BY <2>1, <3>1
  <2>4. raced' \subseteq Races
    BY <2>1 DEF MatcherSound, Races
  <2>3. MatcherSound'
    BY <2>1, <2>2, <2>4, MatcherSoundNext DEF MatcherSound
  <2> QED
    BY <2>1, <2>3, HooksSoundNext DEF SocketsSound, SocketSound, SocketRecords, Events, Books, None
<1> QED
  BY <1>1, <1>2, <1>3, <1>4, <1>5, <1>6, <1>7, <1>8, <1>9, <1>10 DEF Next, Progress

(***************************************************************************)
(* What a hook shows of a symbol is what its live socket has brought, if   *)
(* that has brought anything: a hook has one live socket.                  *)
(***************************************************************************)
Screens ==
  /\ orderBooks \in [Hooks -> Books]
  /\ \A i \in DOMAIN sockets, s \in Symbols :
       sockets[i].got[s] # 0 => orderBooks[sockets[i].hook][s] = sockets[i].got[s]

LEMMA InitScreens == ASSUME Init PROVE Screens
<1>1. DOMAIN sockets = {}
  BY DEF Init
<1>2. orderBooks \in [Hooks -> Books]
  BY NoneIsABook DEF Init
<1> QED
  BY <1>1, <1>2 DEF Screens

\* A socket that has brought something is the live one of its hook.
LEMMA BringerIsLive ==
  ASSUME Sound, NEW i \in DOMAIN sockets, NEW s \in Symbols, sockets[i].got[s] # 0
  PROVE  /\ sockets[i].hook \in Hooks /\ sockets[i].state = "open"
         /\ i \in LiveOf(sockets[i].hook)
<1>1. PICK k : k = sockets[i]
  OBVIOUS
<1>2. k \in SocketRecords /\ SocketSound(k)
  BY <1>1, Shaped DEF Sound
<1>3. k.hook \in Hooks
  BY <1>2 DEF SocketRecords
<1>4. k.state = "open"
  BY <1>1, <1>2 DEF SocketSound, None
<1> QED
  BY <1>1, <1>3, <1>4 DEF LiveOf, Live

\* What a socket has brought is kept, or forgotten with the socket.
BroughtKept(k, m) == m.got = None \/ (m.hook = k.hook /\ m.got = k.got)

LEMMA ScreensKept ==
  ASSUME Screens, orderBooks' = orderBooks, DOMAIN sockets' = DOMAIN sockets,
         \A j \in DOMAIN sockets : BroughtKept(sockets[j], sockets'[j])
  PROVE  Screens'
<1>1. (orderBooks \in [Hooks -> Books])'
  BY DEF Screens, Books
<1>2. ASSUME NEW i \in DOMAIN sockets, NEW s \in Symbols, sockets'[i].got[s] # 0
      PROVE  orderBooks'[sockets'[i].hook][s] = sockets'[i].got[s]
  BY <1>2 DEF Screens, BroughtKept, None
<1> QED
  BY <1>1, <1>2 DEF Screens

LEMMA KeptIsBrought ==
  ASSUME NEW k, NEW m, Kept(k, m), SocketSound(m) PROVE BroughtKept(k, m)
BY DEF Kept, BroughtKept, SocketSound

LEMMA ScreensReceive ==
  ASSUME IInv, Sound, Screens, NEW i \in DOMAIN sockets, Receive(i)
  PROVE  Screens'
<1> USE DEF Sound
<1> DEFINE Effect(e, k) ==
      /\ e = Head(sockets[i].inbox) /\ sockets[i].inbox # <<>>
      /\ sockets' = [sockets EXCEPT ![i] = k] /\ SocketSound(k) /\ k.hook = sockets[i].hook
      /\ k.state = sockets[i].state /\ k.got = [sockets[i].got EXCEPT ![e.symbol] = e.version]
<1>a. PICK e \in Events : \E k : Effect(e, k)
  BY ReceiveEffect, SMTT(20)
<1>b. PICK k : Effect(e, k)
  BY <1>a
<1>1. Effect(e, k)
  BY <1>b
<1>2. PICK old : old = sockets[i]
  OBVIOUS
<1>3. SocketSound(old) /\ old \in SocketRecords
  BY <1>2, Shaped
<1>4. PICK h : h = old.hook
  OBVIOUS
<1>5. h \in Hooks /\ old.got \in Books
  BY <1>3, <1>4 DEF SocketRecords
<1>6. e.symbol \in Symbols /\ e.version \in 0..MaxVersions
  BY BoundsAssumption DEF Events
<1>7. old.state = "open"
  BY <1>1, <1>2, <1>3 DEF SocketSound
<1>8. PICK book : book = [orderBooks[h] EXCEPT ![e.symbol] = e.version]
  OBVIOUS
<1>9. orderBooks' = [orderBooks EXCEPT ![h] = book]
  BY <1>1, <1>2, <1>4, <1>8 DEF Receive
<1>10. book \in Books /\ \A s \in Symbols : book[s] = IF s = e.symbol THEN e.version
                                                      ELSE orderBooks[h][s]
  BY <1>5, <1>6, <1>8 DEF Screens, Books
<1>11. /\ orderBooks' \in [Hooks -> Books] /\ orderBooks'[h] = book
       /\ \A g \in Hooks \ {h} : orderBooks'[g] = orderBooks[g]
  BY <1>5, <1>9, <1>10 DEF Screens
<1>12. \A s \in Symbols : k.got[s] = IF s = e.symbol THEN e.version ELSE old.got[s]
  BY <1>1, <1>2, <1>5, <1>6 DEF Books
<1>13. DOMAIN sockets' = DOMAIN sockets /\ sockets'[i] = k
       /\ \A j \in DOMAIN sockets \ {i} : sockets'[j] = sockets[j]
  BY <1>1
<1>14. i \in LiveOf(h)
  BY <1>2, <1>4, <1>7 DEF LiveOf, Live
<1>15. ASSUME NEW j \in DOMAIN sockets, NEW s \in Symbols, sockets'[j].got[s] # 0
       PROVE  orderBooks'[sockets'[j].hook][s] = sockets'[j].got[s]
  <2>1. CASE j = i
    <3>1. sockets'[j].hook = h /\ sockets'[j].got[s] = k.got[s] /\ k.got[s] # 0
      BY <1>1, <1>2, <1>4, <1>13, <1>15, <2>1
    <3>2. book[s] = k.got[s]
      <4>1. CASE s = e.symbol
        BY <1>10, <1>12, <4>1
      <4>2. CASE s # e.symbol
        <5>1. old.got[s] # 0 /\ k.got[s] = old.got[s] /\ book[s] = orderBooks[h][s]
          BY <1>10, <1>12, <3>1, <4>2
        <5>2. orderBooks[h][s] = old.got[s]
          BY <1>2, <1>4, <5>1 DEF Screens
        <5> QED
          BY <5>1, <5>2
      <4> QED
        BY <4>1, <4>2
    <3> QED
      BY <1>11, <3>1, <3>2
  <2>2. CASE j # i
    <3>1. sockets'[j] = sockets[j]
      BY <1>13, <2>2
    <3>2. PICK g : g = sockets[j].hook
      OBVIOUS
    <3>3. g \in Hooks /\ j \in LiveOf(g)
      BY <1>15, <3>1, <3>2, BringerIsLive
    <3>4. g # h
      BY <1>5, <1>14, <2>2, <3>3, Connections DEF IInv
    <3>5. orderBooks[g][s] = sockets[j].got[s]
      BY <1>15, <3>1, <3>2 DEF Screens
    <3> QED
      BY <1>11, <3>1, <3>2, <3>3, <3>4, <3>5
  <2> QED
    BY <2>1, <2>2
<1>16. (orderBooks \in [Hooks -> Books])'
  BY <1>11 DEF Books
<1> QED
  BY <1>13, <1>15, <1>16 DEF Screens

\* A new socket has brought nothing, and the hook had no live one.
LEMMA ScreensConnect ==
  ASSUME IInv, Sound, Screens, NEW h \in Hooks, Mount(h) \/ Reconnect(h)
  PROVE  Screens'
<1> USE DEF Sound
<1>1. /\ DOMAIN sockets = 1..Len(sockets) /\ Len(sockets) \in Nat
      /\ DOMAIN sockets' = 1..Len(sockets) + 1
      /\ \A j \in DOMAIN sockets : sockets'[j] = sockets[j]
  BY ConnectEffect, Shaped DEF Mount, Reconnect
<1>2. sockets'[Len(sockets) + 1].got = None
  BY ConnectEffect DEF Mount, Reconnect, SocketSound
<1>3. \E book \in {None, orderBooks[h]} : orderBooks' = [orderBooks EXCEPT ![h] = book]
  <2>1. ASSUME Reconnect(h) PROVE orderBooks' = [orderBooks EXCEPT ![h] = orderBooks[h]]
    BY <2>1 DEF Reconnect, Screens
  <2>2. ASSUME Mount(h)
        PROVE  \E book \in {None, orderBooks[h]} : orderBooks' = [orderBooks EXCEPT ![h] = book]
    BY <2>2 DEF Mount
  <2> QED
    BY <2>1, <2>2
<1>4. /\ orderBooks' \in [Hooks -> Books]
      /\ \A g \in Hooks \ {h} : orderBooks'[g] = orderBooks[g]
  BY <1>3, NoneIsABook DEF Screens
<1>5. LiveOf(h) = {}
  BY Connections DEF IInv, Mount, Reconnect
<1>6. ASSUME NEW j \in DOMAIN sockets', NEW s \in Symbols, sockets'[j].got[s] # 0
      PROVE  orderBooks'[sockets'[j].hook][s] = sockets'[j].got[s]
  <2>1. j \in DOMAIN sockets /\ sockets'[j] = sockets[j]
    BY <1>1, <1>2, <1>6 DEF None
  <2>2. PICK g : g = sockets[j].hook
    OBVIOUS
  <2>3. g \in Hooks /\ j \in LiveOf(g)
    BY <1>6, <2>1, <2>2, BringerIsLive
  <2>4. orderBooks[g][s] = sockets[j].got[s]
    BY <1>6, <2>1, <2>2 DEF Screens
  <2> QED
    BY <1>4, <1>5, <2>1, <2>2, <2>3, <2>4
<1>7. (orderBooks \in [Hooks -> Books])'
  BY <1>4 DEF Books
<1> QED
  BY <1>6, <1>7 DEF Screens

LEMMA NextScreens == ASSUME IInv, Sound, Screens, [Next]_vars PROVE Screens'
<1> USE DEF Sound
<1>1. ASSUME NEW i \in DOMAIN sockets, Accept(i) \/ Read(i) \/ Seed(i)
      PROVE  Screens'
  <2>1. PICK k : sockets' = [sockets EXCEPT ![i] = k] /\ BroughtKept(sockets[i], k)
    BY <1>1, AcceptEffect, ReadEffect, SeedEffect DEF BroughtKept
  <2>2. DOMAIN sockets' = DOMAIN sockets
        /\ \A j \in DOMAIN sockets : BroughtKept(sockets[j], sockets'[j])
    BY <2>1 DEF BroughtKept
  <2>3. orderBooks' = orderBooks
    BY <1>1, Zenon DEF Accept, Read, Seed
  <2> QED
    BY <2>2, <2>3, ScreensKept
<1>2. ASSUME Consume PROVE Screens'
  <2>1. DOMAIN sockets' = DOMAIN sockets
        /\ \A j \in DOMAIN sockets : BroughtKept(sockets[j], sockets'[j])
    BY <1>2, ConsumeEffect DEF BroughtKept
  <2>2. orderBooks' = orderBooks
    BY <1>2, Zenon DEF Consume
  <2> QED
    BY <2>1, <2>2, ScreensKept
<1>3. ASSUME SocketsSound', DOMAIN sockets' = DOMAIN sockets, orderBooks' = orderBooks,
             \A j \in DOMAIN sockets : Kept(sockets[j], sockets'[j])
      PROVE  Screens'
  <2>1. ASSUME NEW j \in DOMAIN sockets PROVE BroughtKept(sockets[j], sockets'[j])
    <3>1. SocketSound(sockets[j])'
      BY <1>3 DEF SocketsSound
    <3>2. SocketSound(sockets'[j])
      BY <3>1 DEF SocketSound, SocketRecords, Events, Books, None
    <3> QED
      BY <1>3, <3>2, KeptIsBrought
  <2> QED
    BY <1>3, <2>1, ScreensKept
<1>4. ASSUME NEW h \in Hooks, Unmount(h) PROVE Screens'
  <2>1. sockets' = [sockets EXCEPT ![hooks[h].socket] = Closed(@)] /\ orderBooks' = orderBooks
    BY <1>4, Zenon DEF Unmount
  <2> QED
    BY <1>3, <2>1, OneClosed
<1>5. ASSUME NEW i \in DOMAIN sockets, Break(i) PROVE Screens'
  <2>1. sockets' = [sockets EXCEPT ![i] = Closed(@)] /\ orderBooks' = orderBooks
    BY <1>5, Zenon DEF Break
  <2> QED
    BY <1>3, <2>1, OneClosed
<1>6. ASSUME Restart PROVE Screens'
  <2>1. orderBooks' = orderBooks
    BY <1>6, Zenon DEF Restart
  <2> QED
    BY <1>3, <1>6, <2>1, RestartEffect
<1>7. ASSUME UNCHANGED <<sockets, orderBooks>> PROVE Screens'
  BY <1>7, ScreensKept DEF BroughtKept
<1>8. ASSUME NEW s \in Symbols, Process(s) \/ Publish(s) \/ Republish(s) \/ ExpireCached(s)
      PROVE  UNCHANGED <<sockets, orderBooks>>
  <2>1. Process(s) => UNCHANGED <<sockets, orderBooks>>
    BY Zenon DEF Process
  <2>2. Publish(s) => UNCHANGED <<sockets, orderBooks>>
    BY Zenon DEF Publish
  <2>3. Republish(s) \/ ExpireCached(s) => UNCHANGED <<sockets, orderBooks>>
    BY Zenon DEF Republish, ExpireCached
  <2> QED
    BY <1>8, <2>1, <2>2, <2>3
<1>9. ASSUME UNCHANGED vars \/ Rejoin PROVE UNCHANGED <<sockets, orderBooks>>
  BY <1>9, Zenon DEF vars, Rejoin
<1> QED
  BY <1>1, <1>2, <1>4, <1>5, <1>6, <1>7, <1>8, <1>9, ScreensReceive, ScreensConnect
     DEF Next, Progress

\* Every field keeps its type: an offset stays within the topic, a read of Redis
\* within the symbols, versions within what the matcher has processed.
THEOREM Types == Spec => []TypeOK
<1>1. Init => IInv /\ Sound /\ Screens
  BY InitIInv, InitSound, InitScreens
<1>2. IInv /\ Sound /\ Screens /\ [Next]_vars => IInv' /\ Sound' /\ Screens'
  BY NextIInv, NextSound, NextScreens
<1>3. Sound /\ Screens => TypeOK
  <2> SUFFICES ASSUME Sound, Screens PROVE TypeOK
    OBVIOUS
  <2>1. \A i \in DOMAIN topic : topic[i] \in Events
    BY LenProperties, ElementOfSeq DEF Sound, MatcherSound
  <2>2. \A i \in DOMAIN sockets : sockets[i] \in SocketRecords
    BY Shaped DEF Sound
  <2>3. \A i \in DOMAIN sockets :
          /\ sockets[i].hook \in Hooks
          /\ sockets[i].state \in {"connecting", "open", "closed"}
          /\ sockets[i].at \in 0..Len(SymbolOrder)
          /\ sockets[i].read \subseteq 0..MaxVersions
          /\ sockets[i].got \in [Symbols -> 0..MaxVersions]
    BY <2>2 DEF SocketRecords, Books
  <2> QED
    BY <2>1, <2>3 DEF Sound, MatcherSound, HooksSound, Screens, TypeOK, Events, Books
<1> QED
  BY <1>1, <1>2, <1>3, PTL DEF Spec

(***************************************************************************)
(* NoMissingBook. What a socket has been told, or will be when its inbox   *)
(* has been read, covers what the gateway keeps, from the moment its       *)
(* connection reads nothing more.                                          *)
(***************************************************************************)
Told(k, s) == k.got[s] # 0 \/ \E m \in DOMAIN k.inbox : k.inbox[m].symbol = s

Brought ==
  "connection" \notin raced =>
    \A i \in DOMAIN sockets : sockets[i].state = "open" /\ sockets[i].at = 0 =>
      \A s \in Symbols : snapshots[s] # 0 => Told(sockets[i], s)

LEMMA ToldMore ==
  ASSUME NEW inbox \in Seq(Events), NEW messages \in Seq(Events), NEW k, NEW s,
         k.inbox = inbox \o messages
  PROVE  /\ (\E m \in DOMAIN messages : messages[m].symbol = s) => Told(k, s)
         /\ (\E m \in DOMAIN inbox : inbox[m].symbol = s) => Told(k, s)
<1>1. /\ Len(inbox) \in Nat /\ DOMAIN inbox = 1..Len(inbox)
      /\ Len(messages) \in Nat /\ DOMAIN messages = 1..Len(messages)
  BY LenProperties
<1>2. /\ k.inbox \in Seq(Events) /\ Len(k.inbox) = Len(inbox) + Len(messages)
      /\ \A i \in 1..Len(inbox) + Len(messages) :
           k.inbox[i] = IF i <= Len(inbox) THEN inbox[i] ELSE messages[i - Len(inbox)]
  BY ConcatProperties
<1>3. DOMAIN k.inbox = 1..Len(inbox) + Len(messages)
  BY <1>2, LenProperties
<1>4. ASSUME NEW m \in DOMAIN messages, messages[m].symbol = s
      PROVE  Told(k, s)
  <2>1. PICK n : n = Len(inbox) + m
    OBVIOUS
  <2>2. n \in DOMAIN k.inbox /\ k.inbox[n] = messages[m]
    BY <1>1, <1>2, <1>3, <2>1
  <2> QED
    BY <1>4, <2>2 DEF Told
<1>5. ASSUME NEW m \in DOMAIN inbox, inbox[m].symbol = s
      PROVE  Told(k, s)
  <2>1. m \in DOMAIN k.inbox /\ k.inbox[m] = inbox[m]
    BY <1>1, <1>2, <1>3
  <2> QED
    BY <1>5, <2>1 DEF Told
<1> QED
  BY <1>4, <1>5

LEMMA ToldReceived ==
  ASSUME NEW old, NEW k, NEW s \in Symbols, old.inbox \in Seq(Events) \ {<<>>},
         old.got \in Books, NEW e \in Events, e = Head(old.inbox), k.inbox = Tail(old.inbox),
         k.got = [old.got EXCEPT ![e.symbol] = e.version], Told(old, s)
  PROVE  Told(k, s)
<1>1. e.symbol \in Symbols /\ e.version # 0
  BY BoundsAssumption DEF Events
<1>2. k.got[s] = IF s = e.symbol THEN e.version ELSE old.got[s]
  BY <1>1 DEF Books
<1>3. CASE s = e.symbol \/ old.got[s] # 0
  BY <1>1, <1>2, <1>3 DEF Told
<1>4. CASE s # e.symbol /\ old.got[s] = 0
  <2>1. PICK inbox \in Seq(Events) : inbox = old.inbox /\ inbox # <<>>
    OBVIOUS
  <2>2. /\ Len(inbox) \in Nat /\ DOMAIN inbox = 1..Len(inbox)
        /\ Tail(inbox) \in Seq(Events) /\ Len(Tail(inbox)) = Len(inbox) - 1
        /\ \A i \in 1..Len(Tail(inbox)) : Tail(inbox)[i] = inbox[i + 1]
    BY <2>1, HeadTailProperties, LenProperties
  <2>3. DOMAIN Tail(inbox) = 1..Len(inbox) - 1
    BY <2>2, LenProperties
  <2>4. PICK m \in DOMAIN inbox : inbox[m].symbol = s
    BY <1>4, <2>1 DEF Told
  <2>5. e = inbox[1]
    BY <2>1
  <2>6. m - 1 \in DOMAIN Tail(inbox) /\ Tail(inbox)[m - 1] = inbox[m]
    BY <1>4, <2>2, <2>3, <2>4, <2>5, SMTT(20)
  <2> QED
    BY <2>1, <2>4, <2>6 DEF Told
<1> QED
  BY <1>3, <1>4

\* The map and the other sockets are left alone: only the socket written counts.
LEMMA BroughtOne ==
  ASSUME Brought, NEW i \in DOMAIN sockets, NEW k, Writes(i, k), raced \subseteq raced',
         "connection" \notin raced' =>
           \A j \in DOMAIN sockets \ {i}, s \in Symbols :
             sockets[j].state = "open" /\ sockets[j].at = 0 =>
               (snapshots'[s] # 0 => snapshots[s] # 0),
         k.state = "open" /\ k.at = 0 /\ "connection" \notin raced' =>
           \A s \in Symbols : snapshots'[s] # 0 => Told(k, s)
  PROVE  Brought'
<1> SUFFICES ASSUME "connection" \notin raced', NEW j \in DOMAIN sockets',
                    sockets'[j].state = "open", sockets'[j].at = 0,
                    NEW s \in Symbols, snapshots'[s] # 0
             PROVE  Told(sockets'[j], s)
  BY DEF Brought, Told
<1>1. CASE j = i
  BY <1>1 DEF Writes
<1>2. CASE j # i
  <2>1. sockets'[j] = sockets[j] /\ j \in DOMAIN sockets \ {i}
    BY <1>2 DEF Writes
  <2>2. snapshots[s] # 0 /\ "connection" \notin raced
    BY <2>1
  <2> QED
    BY <2>1, <2>2 DEF Brought
<1> QED
  BY <1>1, <1>2

LEMMA NextBrought == ASSUME Sound, Brought, [Next]_vars PROVE Brought'
<1> USE DEF Sound
<1>1. ASSUME NEW i \in DOMAIN sockets, Accept(i)
      PROVE  Brought'
  <2>1. PICK k : /\ sockets' = [sockets EXCEPT ![i] = k] /\ SocketSound(k) /\ k.state = "open"
                 /\ \/ snapshots = None /\ k.at = 1 /\ k.inbox = <<>>
                    \/ snapshots # None /\ k.at = 0 /\ k.inbox = Held(snapshots)
    BY <1>1, AcceptEffect
  <2>2. Writes(i, k) /\ raced' = raced /\ snapshots' = snapshots
    BY <1>1, <2>1, OneSound, Zenon DEF Accept, gateway
  <2>3. k.at = 0 => \A s \in Symbols : snapshots[s] # 0 => Told(k, s)
    BY <2>1, HeldEntries DEF Told, MatcherSound
  <2> QED
    BY <2>2, <2>3, BroughtOne
<1>2. ASSUME NEW i \in DOMAIN sockets, Read(i)
      PROVE  Brought'
  <2>1. PICK k : /\ sockets' = [sockets EXCEPT ![i] = k] /\ SocketSound(k)
                 /\ k.at = sockets[i].at
    BY <1>2, ReadEffect
  <2>2. Writes(i, k) /\ raced' = raced /\ snapshots' = snapshots
    BY <1>2, <2>1, OneSound, Zenon DEF Read, gateway
  <2>3. k.at # 0
    BY <1>2, <2>1 DEF Read
  <2> QED
    BY <2>2, <2>3, BroughtOne
<1>3. ASSUME NEW i \in DOMAIN sockets, Receive(i)
      PROVE  Brought'
  <2> DEFINE Effect(e, k) ==
           /\ sockets[i].inbox \in Seq(Events) \ {<<>>} /\ e = Head(sockets[i].inbox)
           /\ sockets' = [sockets EXCEPT ![i] = k] /\ SocketSound(k)
           /\ k.state = sockets[i].state /\ k.at = sockets[i].at
           /\ k.inbox = Tail(sockets[i].inbox)
           /\ k.got = [sockets[i].got EXCEPT ![e.symbol] = e.version]
  <2>0. PICK e \in Events : \E k : Effect(e, k)
    BY <1>3, ReceiveEffect, ZenonT(40)
  <2>1. PICK k : Effect(e, k)
    BY <2>0
  <2>2. Writes(i, k) /\ raced' = raced /\ snapshots' = snapshots
    BY <1>3, <2>1, OneSound, Zenon DEF Receive, gateway
  <2>3. sockets[i].got \in Books
    BY Shaped DEF SocketRecords
  <2>4. \A s \in Symbols : Told(sockets[i], s) => Told(k, s)
    BY <2>1, <2>3, ToldReceived
  <2>5. k.state = "open" /\ k.at = 0 /\ "connection" \notin raced' =>
          \A s \in Symbols : snapshots'[s] # 0 => Told(k, s)
    BY <2>1, <2>2, <2>4 DEF Brought
  <2> QED
    BY <2>2, <2>5, BroughtOne
<1>4. ASSUME NEW i \in DOMAIN sockets, Seed(i)
      PROVE  Brought'
  <2>1. PICK v \in sockets[i].read, s \in Symbols : \E k :
           /\ snapshots' = IF v = 0 THEN snapshots ELSE [snapshots EXCEPT ![s] = v]
           /\ snapshots' \in Books
           /\ raced' = raced \cup {r \in {"connection"} : v # 0 /\ snapshots[s] = 0 /\
                \E j \in DOMAIN sockets : sockets[j].state = "open" /\ sockets[j].at = 0}
           /\ sockets' = [sockets EXCEPT ![i] = k] /\ SocketSound(k)
           /\ \/ k.at # 0 /\ k.inbox = sockets[i].inbox
              \/ /\ k.at = 0
                 /\ k.inbox = IF k.state = "open" THEN sockets[i].inbox \o Held(snapshots')
                              ELSE sockets[i].inbox
    BY <1>4, SeedEffect
  <2>2. PICK k :
           /\ sockets' = [sockets EXCEPT ![i] = k] /\ SocketSound(k)
           /\ k.at = 0 /\ k.state = "open" => k.inbox = sockets[i].inbox \o Held(snapshots')
    BY <2>1
  <2>3. Writes(i, k)
    BY <2>2, OneSound
  <2>4. PICK map \in Books : map = snapshots'
    BY <2>1
  <2>5. sockets[i].inbox \in Seq(Events)
    BY Shaped DEF SocketRecords
  <2>6. k.state = "open" /\ k.at = 0 => \A u \in Symbols : snapshots'[u] # 0 => Told(k, u)
    <3> SUFFICES ASSUME k.state = "open", k.at = 0, NEW u \in Symbols, map[u] # 0
                 PROVE  Told(k, u)
      BY <2>4
    <3>1. k.inbox = sockets[i].inbox \o Held(map)
      BY <2>2, <2>4
    <3>2. Held(map) \in Seq(Events) /\ \E m \in DOMAIN Held(map) : Held(map)[m].symbol = u
      BY HeldEntries
    <3> QED
      BY <2>5, <3>1, <3>2, ToldMore
  <2>7. ASSUME "connection" \notin raced',
               NEW j \in DOMAIN sockets, sockets[j].state = "open", sockets[j].at = 0,
               NEW u \in Symbols, snapshots'[u] # 0
        PROVE  snapshots[u] # 0
    <3>1. v = 0 \/ snapshots[s] # 0
      BY <2>1, <2>7
    <3>2. snapshots'[u] = IF v # 0 /\ u = s THEN v ELSE snapshots[u]
      BY <2>1 DEF MatcherSound, Books
    <3> QED
      BY <2>7, <3>1, <3>2
  <2>8. raced \subseteq raced'
    BY <2>1
  <2> QED
    BY <2>3, <2>6, <2>7, <2>8, BroughtOne
<1>5. ASSUME Consume
      PROVE  Brought'
  <2>1. PICK e \in Events : e = topic[offset']
    BY <1>5, ConsumeEffect
  <2>2. raced \subseteq raced' /\ DOMAIN sockets' = DOMAIN sockets
    BY <1>5, ConsumeEffect
  <2>3. snapshots' = [snapshots EXCEPT ![e.symbol] = e.version]
    BY <1>5, <2>1, ConsumeEffect
  <2>4. ASSUME NEW j \in DOMAIN sockets
        PROVE  /\ sockets'[j].state = sockets[j].state /\ sockets'[j].at = sockets[j].at
               /\ sockets'[j].got = sockets[j].got
               /\ sockets[j].state = "open" => sockets'[j].inbox = sockets[j].inbox \o <<e>>
    BY <1>5, <2>1, ConsumeEffect
  <2> SUFFICES ASSUME "connection" \notin raced', NEW j \in DOMAIN sockets,
                      sockets'[j].state = "open", sockets'[j].at = 0,
                      NEW s \in Symbols, snapshots'[s] # 0
               PROVE  Told(sockets'[j], s)
    BY <2>2 DEF Brought, Told
  <2>5. PICK k : k = sockets'[j] /\ k.inbox = sockets[j].inbox \o <<e>> /\ k.got = sockets[j].got
    BY <2>4
  <2>6. sockets[j].inbox \in Seq(Events) /\ <<e>> \in Seq(Events)
    BY Shaped DEF SocketRecords
  <2>7. CASE s = e.symbol
    <3>1. 1 \in DOMAIN <<e>> /\ <<e>>[1].symbol = s
      BY <2>7
    <3> QED
      BY <2>5, <2>6, <3>1, ToldMore
  <2>8. CASE s # e.symbol
    <3>1. snapshots[s] # 0
      BY <2>3, <2>8 DEF MatcherSound, Books
    <3>2. Told(sockets[j], s)
      BY <2>2, <2>4, <3>1 DEF Brought
    <3>3. CASE sockets[j].got[s] # 0
      BY <2>5, <3>3 DEF Told
    <3>4. CASE sockets[j].got[s] = 0
      <4>1. \E m \in DOMAIN sockets[j].inbox : sockets[j].inbox[m].symbol = s
        BY <3>2, <3>4 DEF Told
      <4> QED
        BY <2>5, <2>6, <4>1, ToldMore
    <3> QED
      BY <3>3, <3>4
  <2> QED
    BY <2>7, <2>8
<1>6. ASSUME NEW h \in Hooks, Mount(h) \/ Reconnect(h)
      PROVE  Brought'
  <2>1. Connect(h) /\ UNCHANGED <<snapshots, raced>>
    BY <1>6, Zenon DEF Mount, Reconnect, gateway
  <2>2. /\ DOMAIN sockets' = 1..Len(sockets) + 1 /\ DOMAIN sockets = 1..Len(sockets)
        /\ Len(sockets) \in Nat
        /\ \A j \in DOMAIN sockets : sockets'[j] = sockets[j]
        /\ sockets'[Len(sockets) + 1].state = "connecting"
    BY <2>1, ConnectEffect, Shaped
  <2>3. \A j \in DOMAIN sockets' : sockets'[j].state = "open" =>
          j \in DOMAIN sockets /\ sockets'[j] = sockets[j]
    BY <2>2
  <2> QED
    BY <2>1, <2>3 DEF Brought, Told
<1>7. ASSUME DOMAIN sockets' = DOMAIN sockets, raced' = raced,
             \A j \in DOMAIN sockets : Kept(sockets[j], sockets'[j]),
             \/ snapshots' = snapshots
             \/ \A j \in DOMAIN sockets : sockets'[j].state # "open"
      PROVE  Brought'
  BY <1>7 DEF Brought, Told, Kept
<1>8. ASSUME NEW h \in Hooks, Unmount(h)
      PROVE  Brought'
  <2>1. /\ UNCHANGED <<snapshots, raced>>
        /\ sockets' = [sockets EXCEPT ![hooks[h].socket] = Closed(@)]
    BY <1>8, Zenon DEF Unmount, gateway
  <2> QED
    BY <1>7, <2>1, OneClosed
<1>9. ASSUME NEW i \in DOMAIN sockets, Break(i)
      PROVE  Brought'
  <2>1. /\ UNCHANGED <<snapshots, raced>>
        /\ sockets' = [sockets EXCEPT ![i] = Closed(@)]
    BY <1>9, Zenon DEF Break, gateway
  <2> QED
    BY <1>7, <2>1, OneClosed
<1>10. ASSUME Restart
       PROVE  Brought'
  <2>1. \A j \in DOMAIN sockets : Kept(sockets[j], sockets'[j]) /\ sockets'[j].state # "open"
    BY <1>10, RestartEffect
  <2>2. DOMAIN sockets' = DOMAIN sockets
    BY <1>10, RestartEffect
  <2>3. raced' = raced
    BY <1>10, Zenon DEF Restart
  <2> QED
    BY <1>7, <2>1, <2>2, <2>3
<1>11. ASSUME UNCHANGED <<snapshots, sockets, raced>>
       PROVE  Brought'
  BY <1>11 DEF Brought, Told
<1>12. ASSUME NEW s \in Symbols, Process(s) \/ Publish(s) \/ Republish(s) \/ ExpireCached(s)
       PROVE  Brought'
  BY <1>11, <1>12, MatcherSteps
<1>13. ASSUME UNCHANGED vars
       PROVE  Brought'
  BY <1>11, <1>13 DEF vars, gateway
<1>14. ASSUME Rejoin
       PROVE  Brought'
  <2>1. /\ UNCHANGED <<snapshots, sockets>>
        /\ raced' = raced \cup {r \in {"event"} : offset' > offset}
    BY <1>14, Zenon DEF Rejoin
  <2> QED
    BY <2>1 DEF Brought, Told
<1> QED
  BY <1>1, <1>2, <1>3, <1>4, <1>5, <1>6, <1>8, <1>9, <1>10, <1>12, <1>13, <1>14
     DEF Next, Progress

\* Whatever the gateway keeps, every open socket has been brought a book of it
\* once everything has arrived, however its connection overlapped events,
\* restarts and other connections, unless it found the map partly seeded.
THEOREM NothingMissed == Spec => []NoMissingBook
<1>1. Init => Sound /\ Brought
  BY InitSound DEF Init, Brought
<1>2. Sound /\ Brought /\ [Next]_vars => Sound' /\ Brought'
  BY NextSound, NextBrought
<1>3. Sound /\ Brought => NoMissingBook
  BY DEF Brought, Told, NoMissingBook, Settled
<1> QED
  BY <1>1, <1>2, <1>3, PTL DEF Spec

(***************************************************************************)
(* NoStaleBook. A version of s is fresh after the first n events of the    *)
(* topic t if it is that of the last one of s, or if it is no older than   *)
(* any of them (Redis is ahead of the topic), or if it will be so after    *)
(* events that were consumed before the consumer went back to n; and no    *)
(* book is fresh too. What the gateway keeps, what Redis has answered and  *)
(* the last word that each socket has on each symbol are fresh. An event   *)
(* makes fresh versions of its symbol stale, and overwrites each of them   *)
(* but the answers, which is the race that the property excludes.          *)
(***************************************************************************)
FreshAt(t, n, top, s, v) ==
  \/ \E k \in 1..n : /\ t[k].symbol = s /\ t[k].version = v
                     /\ \A l \in 1..n : l > k => t[l].symbol # s
  \/ v <= top /\ \A k \in 1..n : t[k].symbol = s => t[k].version <= v

Fresh(t, n, top, s, v) == v = 0 \/ \E m \in n..Len(t) : FreshAt(t, m, top, s, v)

\* v is the last thing on s in a sequence of messages.
LastIn(inbox, s, v) ==
  \E m \in DOMAIN inbox : /\ inbox[m].symbol = s /\ inbox[m].version = v
                         /\ \A l \in DOMAIN inbox : l > m => inbox[l].symbol # s

NoneIn(inbox, s) == \A m \in DOMAIN inbox : inbox[m].symbol # s

\* v is what k shows of s, or will show when it has read its inbox.
LastWord(k, s, v) == LastIn(k.inbox, s, v) \/ (NoneIn(k.inbox, s) /\ v = k.got[s])

SocketFresh(t, n, top, k) ==
  /\ \A v \in k.read : Fresh(t, n, top[SymbolOrder[k.at]], SymbolOrder[k.at], v)
  /\ \A s \in Symbols, v \in 0..MaxVersions : LastWord(k, s, v) => Fresh(t, n, top[s], s, v)

MapFresh(t, n, top, map) == \A s \in Symbols : Fresh(t, n, top[s], s, map[s])

AllFresh(t, n, top, map, socks) ==
  MapFresh(t, n, top, map) /\ \A i \in DOMAIN socks : SocketFresh(t, n, top, socks[i])

FreshInv == "event" \notin raced => AllFresh(topic, offset, latest, snapshots, sockets)

\* Redis holds the newest version or none, and nothing newer is published.
CacheFresh ==
  \A s \in Symbols :
    /\ cached[s] \in {0, latest[s]}
    /\ \A k \in DOMAIN topic : topic[k].symbol = s => topic[k].version <= latest[s]

LEMMA FreshInvNext ==
  ASSUME "event" \notin raced' => AllFresh(topic', offset', latest', snapshots', sockets')
  PROVE  FreshInv'
BY DEF FreshInv, AllFresh, MapFresh, SocketFresh, LastWord, LastIn, NoneIn, Fresh, FreshAt

LEMMA FreshNone ==
  ASSUME NEW t, NEW n, NEW top PROVE MapFresh(t, n, top, None)
BY DEF MapFresh, None, Fresh

\* Publishing and processing leave fresh versions fresh.
LEMMA FreshGrows ==
  ASSUME NEW t \in Seq(Events), NEW u, NEW n \in 0..Len(t),
         \A k \in 1..Len(t) : u[k] = t[k], Len(u) \in Nat, Len(t) <= Len(u),
         NEW a \in Nat, NEW b \in Nat, a <= b, NEW s, NEW v \in Nat, Fresh(t, n, a, s, v)
  PROVE  Fresh(u, n, b, s, v)
<1> SUFFICES ASSUME v # 0 PROVE \E m \in n..Len(u) : FreshAt(u, m, b, s, v)
  BY DEF Fresh
<1>1. PICK m \in n..Len(t) : FreshAt(t, m, a, s, v)
  BY DEF Fresh
<1>2. Len(t) \in Nat
  BY LenProperties
<1>3. m \in n..Len(u) /\ m \in 0..Len(t)
  BY <1>2
<1>4. \A k \in 1..m : u[k] = t[k]
  BY <1>2, <1>3
<1>5. CASE \E k \in 1..m : /\ t[k].symbol = s /\ t[k].version = v
                           /\ \A l \in 1..m : l > k => t[l].symbol # s
  <2>1. FreshAt(u, m, b, s, v)
    BY <1>4, <1>5, Zenon DEF FreshAt
  <2> QED
    BY <1>3, <2>1
<1>6. CASE v <= a /\ \A k \in 1..m : t[k].symbol = s => t[k].version <= v
  <2>1. v <= b
    BY <1>6
  <2>2. FreshAt(u, m, b, s, v)
    BY <1>4, <1>6, <2>1, Zenon DEF FreshAt
  <2> QED
    BY <1>3, <2>2
<1> QED
  BY <1>1, <1>5, <1>6 DEF FreshAt

\* So does an event of another symbol; the version of an event is fresh.
LEMMA FreshPassed ==
  ASSUME NEW t, Len(t) \in Nat, NEW n \in Nat, n < Len(t), NEW a, NEW s, NEW v,
         Fresh(t, n, a, s, v), t[n + 1].symbol # s
  PROVE  Fresh(t, n + 1, a, s, v)
<1> SUFFICES ASSUME v # 0 PROVE \E m \in n + 1..Len(t) : FreshAt(t, m, a, s, v)
  BY DEF Fresh
<1>1. PICK m \in n..Len(t) : FreshAt(t, m, a, s, v)
  BY DEF Fresh
<1>2. CASE m # n
  <2>1. m \in n + 1..Len(t)
    BY <1>2
  <2> QED
    BY <1>1, <2>1
<1>3. CASE m = n
  <2>1. n + 1 \in n + 1..Len(t)
    OBVIOUS
  <2>2. \A k \in 1..n + 1 : k \in 1..n \/ k = n + 1
    OBVIOUS
  <2>3. 1..n \subseteq 1..n + 1
    OBVIOUS
  <2>4. CASE \E k \in 1..n : /\ t[k].symbol = s /\ t[k].version = v
                             /\ \A l \in 1..n : l > k => t[l].symbol # s
    <3>1. FreshAt(t, n + 1, a, s, v)
      BY <2>2, <2>3, <2>4, Zenon DEF FreshAt
    <3> QED
      BY <2>1, <3>1
  <2>5. CASE v <= a /\ \A k \in 1..n : t[k].symbol = s => t[k].version <= v
    <3>1. FreshAt(t, n + 1, a, s, v)
      BY <2>2, <2>5, Zenon DEF FreshAt
    <3> QED
      BY <2>1, <3>1
  <2> QED
    BY <1>1, <1>3, <2>4, <2>5 DEF FreshAt
<1> QED
  BY <1>2, <1>3

LEMMA FreshConsumed ==
  ASSUME NEW t, Len(t) \in Nat, NEW n \in Nat, n < Len(t), NEW a, NEW s, NEW v,
         t[n + 1].symbol = s, t[n + 1].version = v
  PROVE  Fresh(t, n + 1, a, s, v)
<1>1. FreshAt(t, n + 1, a, s, v)
  BY DEF FreshAt
<1>2. n + 1 \in n + 1..Len(t)
  OBVIOUS
<1> QED
  BY <1>1, <1>2 DEF Fresh

\* What was fresh stays so when the consumer goes back.
LEMMA FreshAgain ==
  ASSUME NEW t, Len(t) \in Nat, NEW n \in Nat, NEW m \in 0..n, NEW a, NEW s, NEW v,
         Fresh(t, n, a, s, v)
  PROVE  Fresh(t, m, a, s, v)
<1>1. n..Len(t) \subseteq m..Len(t)
  OBVIOUS
<1> QED
  BY <1>1 DEF Fresh

(***************************************************************************)
(* The last word of a socket.                                              *)
(***************************************************************************)
LEMMA WordSent ==
  ASSUME NEW inbox \in Seq(Events), NEW messages \in Seq(Events), NEW old, NEW k, NEW s, NEW v,
         old.inbox = inbox, k.inbox = inbox \o messages, k.got = old.got, LastWord(k, s, v)
  PROVE  LastIn(messages, s, v) \/ (NoneIn(messages, s) /\ LastWord(old, s, v))
<1>1. /\ Len(inbox) \in Nat /\ DOMAIN inbox = 1..Len(inbox)
      /\ Len(messages) \in Nat /\ DOMAIN messages = 1..Len(messages)
  BY LenProperties
<1>2. PICK all : all = k.inbox
  OBVIOUS
<1>3. /\ all \in Seq(Events) /\ Len(all) = Len(inbox) + Len(messages)
      /\ \A i \in 1..Len(inbox) + Len(messages) :
           all[i] = IF i <= Len(inbox) THEN inbox[i] ELSE messages[i - Len(inbox)]
  BY <1>2, ConcatProperties
<1>4. DOMAIN all = 1..Len(inbox) + Len(messages)
  BY <1>3, LenProperties
<1>5. \A i \in DOMAIN inbox : i \in DOMAIN all /\ all[i] = inbox[i]
  BY <1>1, <1>3, <1>4
<1>6. \A i \in DOMAIN messages : Len(inbox) + i \in DOMAIN all /\ all[Len(inbox) + i] = messages[i]
  BY <1>1, <1>3, <1>4
<1>7. ASSUME NoneIn(all, s)
      PROVE  NoneIn(messages, s) /\ NoneIn(inbox, s)
  BY <1>5, <1>6, <1>7 DEF NoneIn
<1>8. CASE NoneIn(all, s) /\ v = k.got[s]
  BY <1>7, <1>8 DEF LastWord
<1>9. CASE LastIn(all, s, v)
  <2>1. PICK m \in DOMAIN all : /\ all[m].symbol = s /\ all[m].version = v
                                /\ \A l \in DOMAIN all : l > m => all[l].symbol # s
    BY <1>9 DEF LastIn
  <2>2. CASE m <= Len(inbox)
    <3>1. m \in DOMAIN inbox /\ inbox[m] = all[m]
      BY <1>1, <1>4, <1>5, <2>2
    <3>2. \A l \in DOMAIN inbox : l > m => inbox[l].symbol # s
      BY <1>5, <2>1
    <3>3. NoneIn(messages, s)
      <4> SUFFICES ASSUME NEW l \in DOMAIN messages PROVE messages[l].symbol # s
        BY DEF NoneIn
      <4>1. Len(inbox) + l > m
        BY <1>1, <1>4, <2>2
      <4> QED
        BY <1>6, <2>1, <4>1
    <3> QED
      BY <2>1, <3>1, <3>2, <3>3 DEF LastWord, LastIn
  <2>3. CASE ~(m <= Len(inbox))
    <3>1. PICK n : n = m - Len(inbox)
      OBVIOUS
    <3>2. n \in DOMAIN messages /\ messages[n] = all[m] /\ m = Len(inbox) + n
      BY <1>1, <1>3, <1>4, <2>3, <3>1
    <3>3. \A l \in DOMAIN messages : l > n => messages[l].symbol # s
      <4> SUFFICES ASSUME NEW l \in DOMAIN messages, l > n PROVE messages[l].symbol # s
        OBVIOUS
      <4>1. Len(inbox) + l > m
        BY <1>1, <3>2
      <4> QED
        BY <1>6, <2>1, <4>1
    <3> QED
      BY <2>1, <3>2, <3>3 DEF LastIn
  <2> QED
    BY <2>2, <2>3
<1> QED
  BY <1>2, <1>8, <1>9 DEF LastWord

LEMMA WordReceived ==
  ASSUME NEW old, NEW k, NEW s \in Symbols, NEW v, old.inbox \in Seq(Events) \ {<<>>},
         old.got \in Books, NEW e \in Events, e = Head(old.inbox), k.inbox = Tail(old.inbox),
         k.got = [old.got EXCEPT ![e.symbol] = e.version], LastWord(k, s, v)
  PROVE  LastWord(old, s, v)
<1>1. PICK inbox \in Seq(Events) : inbox = old.inbox /\ inbox # <<>>
  OBVIOUS
<1>2. PICK tail : tail = Tail(inbox)
  OBVIOUS
<1>3. /\ Len(inbox) \in Nat \ {0} /\ DOMAIN inbox = 1..Len(inbox)
      /\ tail \in Seq(Events) /\ Len(tail) = Len(inbox) - 1
      /\ \A i \in 1..Len(tail) : tail[i] = inbox[i + 1]
  BY <1>1, <1>2, HeadTailProperties, LenProperties, EmptySeq
<1>4. DOMAIN tail = 1..Len(inbox) - 1
  BY <1>3, LenProperties
<1>5. e = inbox[1] /\ e.symbol \in Symbols
  BY <1>1 DEF Events
<1>6. \A l \in DOMAIN inbox : l # 1 => l - 1 \in DOMAIN tail /\ tail[l - 1] = inbox[l]
  BY <1>3, <1>4
<1>7. CASE LastIn(tail, s, v)
  <2>1. PICK m \in DOMAIN tail : /\ tail[m].symbol = s /\ tail[m].version = v
                                 /\ \A l \in DOMAIN tail : l > m => tail[l].symbol # s
    BY <1>7 DEF LastIn
  <2>2. m + 1 \in DOMAIN inbox /\ inbox[m + 1] = tail[m]
    BY <1>3, <1>4
  <2>3. ASSUME NEW l \in DOMAIN inbox, l > m + 1
        PROVE  inbox[l].symbol # s
    <3>1. l # 1 /\ l - 1 > m
      BY <1>3, <1>4, <2>3
    <3> QED
      BY <1>6, <2>1, <3>1
  <2>4. LastIn(inbox, s, v)
    BY <2>1, <2>2, <2>3 DEF LastIn
  <2> QED
    BY <1>1, <2>4 DEF LastWord
<1>8. CASE NoneIn(tail, s) /\ v = k.got[s]
  <2>1. k.got[s] = IF s = e.symbol THEN e.version ELSE old.got[s]
    BY <1>5 DEF Books
  <2>2. \A l \in DOMAIN inbox : l # 1 => inbox[l].symbol # s
    BY <1>6, <1>8 DEF NoneIn
  <2>3. CASE s = e.symbol
    <3>1. 1 \in DOMAIN inbox /\ inbox[1].symbol = s /\ inbox[1].version = v
      BY <1>3, <1>5, <1>8, <2>1, <2>3
    <3>2. \A l \in DOMAIN inbox : l > 1 => inbox[l].symbol # s
      BY <1>3, <2>2
    <3> QED
      BY <1>1, <3>1, <3>2 DEF LastWord, LastIn
  <2>4. CASE s # e.symbol
    BY <1>1, <1>5, <1>8, <2>1, <2>2, <2>4 DEF LastWord, NoneIn
  <2> QED
    BY <2>3, <2>4
<1> QED
  BY <1>1, <1>2, <1>7, <1>8 DEF LastWord

\* A socket that is not open has nothing.
LEMMA WordOfNone ==
  ASSUME NEW k, k.inbox = <<>>, k.got = None, NEW s \in Symbols, NEW v, LastWord(k, s, v)
  PROVE  v = 0
BY DEF LastWord, LastIn, None

(***************************************************************************)
(* The steps.                                                              *)
(***************************************************************************)
\* One socket is written, the map perhaps.
LEMMA FreshOne ==
  ASSUME FreshInv, NEW i \in DOMAIN sockets, NEW k, Writes(i, k), raced \subseteq raced',
         UNCHANGED <<topic, offset, latest>>,
         "event" \notin raced => MapFresh(topic, offset, latest, snapshots'),
         "event" \notin raced => SocketFresh(topic, offset, latest, k)
  PROVE  FreshInv'
<1> SUFFICES ASSUME "event" \notin raced'
             PROVE  AllFresh(topic', offset', latest', snapshots', sockets')
  BY FreshInvNext
<1>1. \A j \in DOMAIN sockets' : SocketFresh(topic, offset, latest, sockets'[j])
  BY DEF Writes, FreshInv, AllFresh
<1> QED
  BY <1>1 DEF AllFresh

\* Sockets are left alone or closed, and the map with them if it is emptied.
LEMMA FreshKept ==
  ASSUME FreshInv, SocketsSound', DOMAIN sockets' = DOMAIN sockets, raced' = raced,
         \A j \in DOMAIN sockets : Kept(sockets[j], sockets'[j]),
         UNCHANGED <<topic, latest>>,
         \/ UNCHANGED <<offset, snapshots>>
         \/ /\ snapshots' = None
            /\ \A j \in DOMAIN sockets : sockets'[j].read = {} /\ sockets'[j].state = "closed"
  PROVE  FreshInv'
<1> SUFFICES ASSUME "event" \notin raced'
             PROVE  AllFresh(topic', offset', latest', snapshots', sockets')
  BY FreshInvNext
<1>1. AllFresh(topic, offset, latest, snapshots, sockets)
  BY DEF FreshInv
<1>2. MapFresh(topic', offset', latest', snapshots')
  BY <1>1, FreshNone DEF AllFresh
<1>3. ASSUME NEW j \in DOMAIN sockets
      PROVE  SocketFresh(topic', offset', latest', sockets'[j])
  <2>1. PICK old, k : old = sockets[j] /\ k = sockets'[j]
    OBVIOUS
  <2>2. SocketFresh(topic, offset, latest, old)
    BY <1>1, <2>1 DEF AllFresh
  <2>3. CASE k = old /\ UNCHANGED <<offset, snapshots>>
    BY <2>1, <2>2, <2>3
  <2>4. CASE k.state = "closed"
    <3>1. k.inbox = <<>> /\ k.got = None
      BY <2>1, <2>4 DEF SocketsSound, SocketSound
    <3>2. \A s \in Symbols : \A v : LastWord(k, s, v) => v = 0
      BY <3>1, WordOfNone
    <3>3. \A s \in Symbols, v \in 0..MaxVersions :
            LastWord(k, s, v) => Fresh(topic', offset', latest'[s], s, v)
      BY <3>2 DEF Fresh
    <3>4. \A v \in k.read : Fresh(topic', offset', latest'[SymbolOrder[k.at]], SymbolOrder[k.at], v)
      <4>1. CASE k.read = {}
        BY <4>1
      <4>2. CASE k.read # {}
        <5>1. UNCHANGED <<offset, topic, latest>> /\ k.read = old.read
          BY <2>1, <4>2 DEF Kept
        <5>2. k = old \/ k.at = old.at
          BY <2>1, <4>2 DEF Kept
        <5> QED
          BY <2>2, <5>1, <5>2 DEF SocketFresh
      <4> QED
        BY <4>1, <4>2
    <3> QED
      BY <2>1, <3>3, <3>4 DEF SocketFresh
  <2> QED
    BY <2>1, <2>3, <2>4 DEF Kept
<1> QED
  BY <1>2, <1>3 DEF AllFresh

LEMMA FreshAccept ==
  ASSUME Sound, FreshInv, NEW i \in DOMAIN sockets, Accept(i)
  PROVE  FreshInv'
<1> USE DEF Sound
<1>1. PICK k : /\ sockets' = [sockets EXCEPT ![i] = k] /\ SocketSound(k)
               /\ k.read = {} /\ k.got = None
               /\ k.inbox = <<>> \/ k.inbox = Held(snapshots)
  BY AcceptEffect
<1>2. Writes(i, k)
  BY <1>1, OneSound
<1>3. UNCHANGED <<topic, offset, latest, snapshots, raced>>
  BY Zenon DEF Accept, matcher, gateway
<1>4. ASSUME "event" \notin raced, NEW s \in Symbols, NEW v \in 0..MaxVersions, LastWord(k, s, v)
      PROVE  v = 0 \/ v = snapshots[s]
  <2>1. CASE k.inbox = <<>>
    BY <1>1, <1>4, <2>1, WordOfNone
  <2>2. CASE k.inbox = Held(snapshots)
    <3>1. \A m \in DOMAIN k.inbox : k.inbox[m].version = snapshots[k.inbox[m].symbol]
      BY <2>2, HeldEntries DEF MatcherSound
    <3> QED
      BY <1>1, <1>4, <3>1 DEF LastWord, LastIn, None
  <2> QED
    BY <1>1, <2>1, <2>2
<1>5. "event" \notin raced => MapFresh(topic, offset, latest, snapshots)
  BY DEF FreshInv, AllFresh
<1>6. ASSUME "event" \notin raced
      PROVE  SocketFresh(topic, offset, latest, k)
  <2>1. \A s \in Symbols, v \in 0..MaxVersions :
          LastWord(k, s, v) => Fresh(topic, offset, latest[s], s, v)
    <3> SUFFICES ASSUME NEW s \in Symbols, NEW v \in 0..MaxVersions, LastWord(k, s, v)
                 PROVE  Fresh(topic, offset, latest[s], s, v)
      OBVIOUS
    <3>1. CASE v = 0
      BY <3>1 DEF Fresh
    <3>2. CASE v = snapshots[s]
      BY <1>5, <1>6, <3>2 DEF MapFresh
    <3> QED
      BY <1>4, <1>6, <3>1, <3>2
  <2> QED
    BY <1>1, <2>1 DEF SocketFresh
<1> QED
  BY <1>2, <1>3, <1>5, <1>6, FreshOne

LEMMA FreshRead ==
  ASSUME Sound, CacheFresh, FreshInv, NEW i \in DOMAIN sockets, Read(i)
  PROVE  FreshInv'
<1> USE DEF Sound
<1>1. PICK k : /\ sockets' = [sockets EXCEPT ![i] = k] /\ SocketSound(k)
               /\ k.at = sockets[i].at /\ k.inbox = sockets[i].inbox /\ k.got = sockets[i].got
               /\ k.read \subseteq {0, cached[SymbolOrder[k.at]]}
  BY ReadEffect
<1>2. Writes(i, k)
  BY <1>1, OneSound
<1>3. UNCHANGED <<topic, offset, latest, snapshots, raced>>
  BY Zenon DEF Read, matcher, gateway
<1>4. k.at \in 1..Len(SymbolOrder)
  BY <1>1, Order DEF Read, SocketSound, SocketRecords
<1>5. PICK s \in Symbols : s = SymbolOrder[k.at]
  BY <1>4, Order
<1>6. ASSUME NEW v \in k.read
      PROVE  Fresh(topic, offset, latest[s], s, v)
  <2>1. CASE v = 0
    BY <2>1 DEF Fresh
  <2>2. CASE v # 0
    <3>1. v = latest[s]
      BY <1>1, <1>5, <1>6, <2>2 DEF CacheFresh
    <3>2. latest[s] \in Nat
      BY BoundsAssumption DEF MatcherSound, Books
    <3>3. 1..offset \subseteq DOMAIN topic
      BY LenProperties DEF MatcherSound
    <3>4. \A m \in 1..offset : topic[m].symbol = s => topic[m].version <= v
      BY <3>1, <3>3 DEF CacheFresh
    <3>5. FreshAt(topic, offset, latest[s], s, v)
      BY <3>1, <3>2, <3>4 DEF FreshAt
    <3>6. offset \in offset..Len(topic)
      BY LenProperties DEF MatcherSound
    <3> QED
      BY <3>5, <3>6 DEF Fresh
  <2> QED
    BY <2>1, <2>2
<1>7. ASSUME "event" \notin raced
      PROVE  SocketFresh(topic, offset, latest, k)
  <2>1. SocketFresh(topic, offset, latest, sockets[i])
    BY <1>7 DEF FreshInv, AllFresh
  <2>2. \A u \in Symbols, v \in 0..MaxVersions : LastWord(k, u, v) => LastWord(sockets[i], u, v)
    BY <1>1 DEF LastWord
  <2> QED
    BY <1>5, <1>6, <2>1, <2>2 DEF SocketFresh
<1>8. "event" \notin raced => MapFresh(topic, offset, latest, snapshots)
  BY DEF FreshInv, AllFresh
<1> QED
  BY <1>2, <1>3, <1>7, <1>8, FreshOne

LEMMA FreshReceive ==
  ASSUME Sound, FreshInv, NEW i \in DOMAIN sockets, Receive(i)
  PROVE  FreshInv'
<1> USE DEF Sound
<1> DEFINE Effect(e, k) ==
         /\ sockets[i].inbox \in Seq(Events) \ {<<>>} /\ e = Head(sockets[i].inbox)
         /\ sockets' = [sockets EXCEPT ![i] = k] /\ SocketSound(k)
         /\ k.at = sockets[i].at /\ k.read = sockets[i].read
         /\ k.inbox = Tail(sockets[i].inbox)
         /\ k.got = [sockets[i].got EXCEPT ![e.symbol] = e.version]
<1>1. PICK e \in Events : \E k : Effect(e, k)
  BY ReceiveEffect, ZenonT(40)
<1>2. PICK k : Effect(e, k)
  BY <1>1
<1>3. Writes(i, k)
  BY <1>2, OneSound
<1>4. UNCHANGED <<topic, offset, latest, snapshots, raced>>
  BY Zenon DEF Receive, matcher, gateway
<1>5. PICK old : old = sockets[i]
  OBVIOUS
<1>6. old.got \in Books
  BY <1>5, Shaped DEF SocketRecords
<1>7. \A s \in Symbols : \A v : LastWord(k, s, v) => LastWord(old, s, v)
  BY <1>2, <1>5, <1>6, WordReceived
<1>8. ASSUME "event" \notin raced
      PROVE  SocketFresh(topic, offset, latest, k)
  <2>1. SocketFresh(topic, offset, latest, old)
    BY <1>5, <1>8 DEF FreshInv, AllFresh
  <2> QED
    BY <1>2, <1>5, <1>7, <2>1 DEF SocketFresh
<1>9. "event" \notin raced => MapFresh(topic, offset, latest, snapshots)
  BY DEF FreshInv, AllFresh
<1> QED
  BY <1>3, <1>4, <1>8, <1>9, FreshOne

LEMMA FreshSeed ==
  ASSUME Sound, FreshInv, NEW i \in DOMAIN sockets, Seed(i)
  PROVE  FreshInv'
<1> USE DEF Sound
<1> DEFINE Effect(s, v, k) ==
         /\ s = SymbolOrder[sockets[i].at] /\ v \in 0..MaxVersions
         /\ snapshots' = IF v = 0 THEN snapshots ELSE [snapshots EXCEPT ![s] = v]
         /\ snapshots' \in Books
         /\ raced' = raced \cup {r \in {"connection"} : v # 0 /\ snapshots[s] = 0 /\
              \E j \in DOMAIN sockets : sockets[j].state = "open" /\ sockets[j].at = 0}
         /\ sockets' = [sockets EXCEPT ![i] = k] /\ SocketSound(k)
         /\ k.state = sockets[i].state /\ k.got = sockets[i].got /\ k.read = {}
         /\ \/ k.at # 0 /\ k.inbox = sockets[i].inbox
            \/ /\ k.at = 0
               /\ k.inbox = IF k.state = "open" THEN sockets[i].inbox \o Held(snapshots')
                            ELSE sockets[i].inbox
<1>0. PICK v \in sockets[i].read, s \in Symbols : \E k : Effect(s, v, k)
  BY SeedEffect
<1>1. PICK k : Effect(s, v, k)
  BY <1>0
<1>2. /\ s = SymbolOrder[sockets[i].at] /\ v \in 0..MaxVersions
      /\ snapshots' = IF v = 0 THEN snapshots ELSE [snapshots EXCEPT ![s] = v]
      /\ snapshots' \in Books /\ raced \subseteq raced'
      /\ sockets' = [sockets EXCEPT ![i] = k] /\ SocketSound(k)
      /\ k.got = sockets[i].got /\ k.read = {}
      /\ \/ k.inbox = sockets[i].inbox
         \/ k.inbox = sockets[i].inbox \o Held(snapshots')
  BY <1>1
<1> HIDE DEF Effect
<1>3. Writes(i, k)
  BY <1>2, OneSound
<1>4. UNCHANGED <<topic, offset, latest>>
  BY Zenon DEF Seed, matcher
<1>5. PICK old : old = sockets[i]
  OBVIOUS
<1>6. PICK map \in Books : map = snapshots'
  BY <1>2
<1>7. ASSUME "event" \notin raced
      PROVE  MapFresh(topic, offset, latest, map) /\ SocketFresh(topic, offset, latest, k)
  <2>1. MapFresh(topic, offset, latest, snapshots) /\ SocketFresh(topic, offset, latest, old)
    BY <1>5, <1>7 DEF FreshInv, AllFresh
  <2>2. Fresh(topic, offset, latest[s], s, v)
    BY <1>2, <1>5, <2>1 DEF SocketFresh
  <2>3. \A u \in Symbols : map[u] = snapshots[u] \/ (u = s /\ map[u] = v)
    BY <1>2, <1>6 DEF MatcherSound, Books
  <2>4. MapFresh(topic, offset, latest, map)
    BY <2>1, <2>2, <2>3 DEF MapFresh
  <2>5. ASSUME NEW u \in Symbols, NEW w \in 0..MaxVersions, LastWord(k, u, w)
        PROVE  w = map[u] \/ LastWord(old, u, w)
    <3>1. CASE k.inbox = old.inbox
      BY <1>2, <1>5, <2>5, <3>1 DEF LastWord
    <3>2. CASE k.inbox = old.inbox \o Held(map)
      <4>1. old.inbox \in Seq(Events) /\ Held(map) \in Seq(Events)
        BY <1>5, Shaped, HeldEntries DEF SocketRecords
      <4>2. LastIn(Held(map), u, w) \/ LastWord(old, u, w)
        BY <1>2, <1>5, <2>5, <3>2, <4>1, WordSent
      <4>3. LastIn(Held(map), u, w) => w = map[u]
        BY HeldEntries DEF LastIn
      <4> QED
        BY <4>2, <4>3
    <3> QED
      BY <1>2, <1>5, <1>6, <3>1, <3>2
  <2>6. \A u \in Symbols, w \in 0..MaxVersions :
          LastWord(k, u, w) => Fresh(topic, offset, latest[u], u, w)
    BY <2>1, <2>4, <2>5 DEF SocketFresh, MapFresh
  <2> QED
    BY <1>2, <2>4, <2>6 DEF SocketFresh
<1> QED
  BY <1>2, <1>3, <1>4, <1>6, <1>7, FreshOne

\* An event overwrites every stale version of its symbol but those that Redis
\* has answered, and these are the race.
LEMMA FreshConsume ==
  ASSUME Sound, FreshInv, Consume
  PROVE  FreshInv'
<1> USE DEF Sound
<1> SUFFICES ASSUME "event" \notin raced'
             PROVE  AllFresh(topic', offset', latest', snapshots', sockets')
  BY FreshInvNext
<1>1. PICK n \in Nat, e \in Events : /\ n = offset /\ offset' = n + 1 /\ e = topic[n + 1]
                                    /\ Len(topic) \in Nat /\ n < Len(topic)
  <2>1. /\ offset \in Nat /\ offset' = offset + 1 /\ topic[offset'] \in Events
        /\ Len(topic) \in Nat /\ offset < Len(topic)
    BY ConsumeEffect, LenProperties DEF MatcherSound, Consume
  <2> QED
    BY <2>1
<1>2. e.symbol \in Symbols /\ e.version \in 1..MaxVersions
  BY DEF Events
<1>3. /\ snapshots' = [snapshots EXCEPT ![e.symbol] = e.version]
      /\ raced' = raced \cup {r \in {"event"} : Awaited(e.symbol)}
      /\ DOMAIN sockets' = DOMAIN sockets
  BY <1>1, ConsumeEffect
<1>4. UNCHANGED <<topic, latest>>
  BY Zenon DEF Consume, matcher
<1>5. AllFresh(topic, n, latest, snapshots, sockets) /\ ~Awaited(e.symbol)
  BY <1>1, <1>3 DEF FreshInv
<1>6. \A s \in Symbols \ {e.symbol} : \A v :
        Fresh(topic, n, latest[s], s, v) => Fresh(topic, n + 1, latest[s], s, v)
  BY <1>1, FreshPassed
<1>7. Fresh(topic, n + 1, latest[e.symbol], e.symbol, e.version)
  BY <1>1, FreshConsumed
<1>8. MapFresh(topic, n + 1, latest, snapshots')
  <2>1. \A s \in Symbols : snapshots'[s] = IF s = e.symbol THEN e.version ELSE snapshots[s]
    BY <1>3 DEF MatcherSound, Books
  <2> QED
    BY <1>5, <1>6, <1>7, <2>1 DEF AllFresh, MapFresh
<1>9. ASSUME NEW j \in DOMAIN sockets
      PROVE  SocketFresh(topic, n + 1, latest, sockets'[j])
  <2>1. PICK old, k : old = sockets[j] /\ k = sockets'[j]
    OBVIOUS
  <2>2. SocketFresh(topic, n, latest, old) /\ SocketSound(old) /\ old \in SocketRecords
    BY <1>5, <2>1, Shaped DEF AllFresh
  <2>3. /\ k.state = old.state /\ k.at = old.at /\ k.read = old.read /\ k.got = old.got
        /\ k.inbox = IF old.state = "open" THEN old.inbox \o <<e>> ELSE old.inbox
    BY <1>1, <2>1, ConsumeEffect
  <2>4. \A v \in k.read : Fresh(topic, n + 1, latest[SymbolOrder[k.at]], SymbolOrder[k.at], v)
    <3> SUFFICES ASSUME NEW v \in k.read
                 PROVE  Fresh(topic, n + 1, latest[SymbolOrder[k.at]], SymbolOrder[k.at], v)
      OBVIOUS
    <3>1. k.at \in 1..Len(SymbolOrder)
      BY <2>2, <2>3, Order DEF SocketSound, SocketRecords
    <3>2. PICK s \in Symbols : s = SymbolOrder[k.at]
      BY <3>1, Order
    <3>3. s # e.symbol
      BY <1>5, <2>1, <2>3, <3>2 DEF Awaited
    <3>4. Fresh(topic, n, latest[s], s, v)
      BY <2>2, <2>3, <3>2 DEF SocketFresh
    <3> QED
      BY <1>6, <3>2, <3>3, <3>4
  <2>5. ASSUME NEW s \in Symbols, NEW v \in 0..MaxVersions, LastWord(k, s, v)
        PROVE  Fresh(topic, n + 1, latest[s], s, v)
    <3>1. CASE old.state # "open"
      <4>1. k.inbox = <<>> /\ k.got = None
        BY <2>2, <2>3, <3>1 DEF SocketSound
      <4>2. v = 0
        BY <2>5, <4>1, WordOfNone
      <4> QED
        BY <4>2 DEF Fresh
    <3>2. CASE old.state = "open"
      <4>1. old.inbox \in Seq(Events) /\ <<e>> \in Seq(Events)
        BY <2>2 DEF SocketRecords
      <4>2. LastIn(<<e>>, s, v) \/ (NoneIn(<<e>>, s) /\ LastWord(old, s, v))
        BY <2>3, <2>5, <3>2, <4>1, WordSent
      <4>3. DOMAIN <<e>> = {1} /\ <<e>>[1] = e
        OBVIOUS
      <4>4. CASE LastIn(<<e>>, s, v)
        <5>1. s = e.symbol /\ v = e.version
          BY <4>3, <4>4 DEF LastIn
        <5> QED
          BY <1>7, <5>1
      <4>5. CASE NoneIn(<<e>>, s) /\ LastWord(old, s, v)
        <5>1. s # e.symbol
          BY <4>3, <4>5 DEF NoneIn
        <5>2. Fresh(topic, n, latest[s], s, v)
          BY <2>2, <4>5 DEF SocketFresh
        <5> QED
          BY <1>6, <5>1, <5>2
      <4> QED
        BY <4>2, <4>4, <4>5
    <3> QED
      BY <3>1, <3>2
  <2> QED
    BY <2>1, <2>4, <2>5 DEF SocketFresh
<1> QED
  BY <1>1, <1>3, <1>4, <1>8, <1>9 DEF AllFresh

LEMMA FreshConnect ==
  ASSUME Sound, FreshInv, NEW h \in Hooks, Mount(h) \/ Reconnect(h)
  PROVE  FreshInv'
<1> USE DEF Sound
<1> SUFFICES ASSUME "event" \notin raced'
             PROVE  AllFresh(topic', offset', latest', snapshots', sockets')
  BY FreshInvNext
<1>1. Connect(h) /\ UNCHANGED <<topic, latest, offset, snapshots, raced>>
  BY Zenon DEF Mount, Reconnect, matcher, gateway
<1>2. PICK n : n = Len(sockets) + 1
  OBVIOUS
<1>3. /\ DOMAIN sockets' = 1..n /\ DOMAIN sockets = 1..(n - 1) /\ n \in Nat
      /\ \A j \in DOMAIN sockets : sockets'[j] = sockets[j]
      /\ sockets'[n].state = "connecting" /\ SocketSound(sockets'[n])
  BY <1>1, <1>2, ConnectEffect, Shaped
<1>4. AllFresh(topic, offset, latest, snapshots, sockets)
  BY <1>1 DEF FreshInv
<1>5. SocketFresh(topic, offset, latest, sockets'[n])
  <2>1. PICK k : k = sockets'[n]
    OBVIOUS
  <2>2. k.inbox = <<>> /\ k.got = None /\ k.read = {}
    BY <1>3, <2>1 DEF SocketSound
  <2>3. \A s \in Symbols : \A v : LastWord(k, s, v) => v = 0
    BY <2>2, WordOfNone
  <2> QED
    BY <2>1, <2>2, <2>3 DEF SocketFresh, Fresh
<1>6. \A j \in DOMAIN sockets' : SocketFresh(topic, offset, latest, sockets'[j])
  <2> TAKE j \in DOMAIN sockets'
  <2>1. j \in DOMAIN sockets \/ j = n
    BY <1>3
  <2> QED
    BY <1>3, <1>4, <1>5, <2>1 DEF AllFresh
<1> QED
  BY <1>1, <1>4, <1>6 DEF AllFresh

\* What a step of the matcher does to the topic and to the newest versions.
LEMMA MatcherGrows ==
  ASSUME MatcherSound, CacheFresh, NEW s \in Symbols,
         Process(s) \/ Publish(s) \/ Republish(s) \/ ExpireCached(s)
  PROVE  /\ \A k \in 1..Len(topic) : topic'[k] = topic[k]
         /\ Len(topic') \in Nat /\ Len(topic) <= Len(topic')
         /\ \A u \in Symbols : latest[u] \in Nat /\ latest'[u] \in Nat /\ latest[u] <= latest'[u]
         /\ CacheFresh'
<1>1. \A u \in Symbols : latest[u] \in Nat /\ cached[u] \in Nat
  BY BoundsAssumption DEF MatcherSound, Books
<1>2. \A k \in DOMAIN topic : topic[k] \in Events /\ topic[k].version \in Nat
  <2>1. \A k \in DOMAIN topic : topic[k] \in Events
    BY LenProperties, ElementOfSeq DEF MatcherSound
  <2> QED
    BY <2>1, BoundsAssumption DEF Events
<1>3. Len(topic) \in Nat /\ DOMAIN topic = 1..Len(topic)
  BY LenProperties DEF MatcherSound
<1>4. CASE Process(s)
  <2>1. topic' = topic
    BY <1>4 DEF Process
  <2>2. /\ latest' = [latest EXCEPT ![s] = latest[s] + 1]
        /\ cached' = [cached EXCEPT ![s] = latest[s] + 1]
    BY <1>4 DEF Process
  <2>3. \A u \in Symbols : /\ latest'[u] = IF u = s THEN latest[s] + 1 ELSE latest[u]
                           /\ cached'[u] = IF u = s THEN latest[s] + 1 ELSE cached[u]
    BY <2>2 DEF MatcherSound, Books
  <2>4. \A u \in Symbols : latest'[u] \in Nat /\ latest[u] <= latest'[u]
    BY <1>1, <2>3
  <2>5. ASSUME NEW u \in Symbols
        PROVE  /\ cached'[u] \in {0, latest'[u]}
               /\ \A k \in DOMAIN topic : topic[k].symbol = u => topic[k].version <= latest'[u]
    <3>1. cached[u] \in {0, latest[u]}
      BY DEF CacheFresh
    <3>2. cached'[u] \in {0, latest'[u]}
      BY <2>3, <3>1
    <3>3. \A k \in DOMAIN topic : topic[k].symbol = u => topic[k].version <= latest[u]
      BY DEF CacheFresh
    <3>4. \A k \in DOMAIN topic : topic[k].symbol = u => topic[k].version <= latest'[u]
      BY <1>1, <1>2, <2>4, <3>3
    <3> QED
      BY <3>2, <3>4
  <2>6. CacheFresh'
    BY <2>1, <2>5 DEF CacheFresh
  <2> QED
    BY <1>1, <1>3, <2>1, <2>4, <2>6
<1>5. CASE Publish(s) \/ Republish(s)
  <2>1. PICK v : /\ topic' = Append(topic, [symbol |-> s, version |-> v])
                 /\ v \in 1..latest[s] \/ v \in Versions(s)
    BY <1>5 DEF Publish, Republish
  <2>2. v \in 1..MaxVersions /\ v <= latest[s]
    <3>1. CASE v \in 1..latest[s]
      BY <3>1, BoundsAssumption DEF MatcherSound, Books
    <3>2. CASE v \in Versions(s)
      <4>1. PICK j \in DOMAIN topic : topic[j].symbol = s /\ v = topic[j].version
        BY <3>2 DEF Versions
      <4>2. v \in 1..MaxVersions
        BY <1>2, <4>1 DEF Events
      <4> QED
        BY <4>1, <4>2 DEF CacheFresh
    <3> QED
      BY <2>1, <3>1, <3>2
  <2>3. PICK e : e = [symbol |-> s, version |-> v]
    OBVIOUS
  <2>4. e \in Events /\ e.symbol = s /\ e.version = v
    BY <2>2, <2>3 DEF Events
  <2>5. PICK new : new = topic'
    OBVIOUS
  <2>6. /\ Len(new) = Len(topic) + 1 /\ new \in Seq(Events)
        /\ \A k \in 1..Len(topic) : new[k] = topic[k]
        /\ new[Len(topic) + 1] = e
    BY <2>1, <2>3, <2>4, <2>5, AppendProperties DEF MatcherSound
  <2>7. DOMAIN new = 1..Len(topic) + 1
    BY <2>6, LenProperties
  <2>8. latest' = latest /\ cached' = cached
    BY <1>5, Zenon DEF Publish, Republish
  <2>9. ASSUME NEW u \in Symbols, NEW k \in DOMAIN new, new[k].symbol = u
        PROVE  new[k].version <= latest[u]
    <3>1. CASE k \in DOMAIN topic
      BY <1>3, <2>6, <2>9, <3>1 DEF CacheFresh
    <3>2. CASE k = Len(topic) + 1
      BY <2>2, <2>4, <2>6, <2>9, <3>2
    <3> QED
      BY <1>3, <2>7, <3>1, <3>2
  <2>10. CacheFresh'
    BY <2>5, <2>8, <2>9 DEF CacheFresh
  <2> QED
    BY <1>1, <1>3, <2>5, <2>6, <2>8, <2>10
<1>6. CASE ExpireCached(s)
  <2>1. topic' = topic /\ latest' = latest /\ cached' = [cached EXCEPT ![s] = 0]
    BY <1>6 DEF ExpireCached
  <2>2. \A u \in Symbols : cached'[u] = IF u = s THEN 0 ELSE cached[u]
    BY <2>1 DEF MatcherSound, Books
  <2>3. CacheFresh'
    BY <2>1, <2>2 DEF CacheFresh
  <2> QED
    BY <1>1, <1>3, <2>1, <2>3
<1> QED
  BY <1>4, <1>5, <1>6

LEMMA FreshMatcher ==
  ASSUME Sound, CacheFresh, FreshInv, NEW s \in Symbols,
         Process(s) \/ Publish(s) \/ Republish(s) \/ ExpireCached(s)
  PROVE  FreshInv'
<1> USE DEF Sound
<1> SUFFICES ASSUME "event" \notin raced'
             PROVE  AllFresh(topic', offset', latest', snapshots', sockets')
  BY FreshInvNext
<1>1. UNCHANGED <<snapshots, offset, sockets, raced>>
  BY MatcherSteps
<1>2. AllFresh(topic, offset, latest, snapshots, sockets)
  BY <1>1 DEF FreshInv
<1>3. ASSUME NEW u \in Symbols, NEW v \in Nat, Fresh(topic, offset, latest[u], u, v)
      PROVE  Fresh(topic', offset, latest'[u], u, v)
  <2>1. /\ \A k \in 1..Len(topic) : topic'[k] = topic[k]
        /\ Len(topic') \in Nat /\ Len(topic) <= Len(topic')
        /\ latest[u] \in Nat /\ latest'[u] \in Nat /\ latest[u] <= latest'[u]
    BY MatcherGrows
  <2>2. topic \in Seq(Events) /\ offset \in 0..Len(topic)
    BY DEF MatcherSound
  <2> QED
    BY <1>3, <2>1, <2>2, FreshGrows
<1>4. 0..MaxVersions \subseteq Nat
  BY BoundsAssumption
<1>5. MapFresh(topic', offset, latest', snapshots)
  <2>1. \A u \in Symbols : snapshots[u] \in Nat
    BY <1>4 DEF MatcherSound, Books
  <2> QED
    BY <1>2, <1>3, <2>1 DEF AllFresh, MapFresh
<1>6. ASSUME NEW j \in DOMAIN sockets
      PROVE  SocketFresh(topic', offset, latest', sockets[j])
  <2>1. PICK k : k = sockets[j]
    OBVIOUS
  <2>2. SocketFresh(topic, offset, latest, k) /\ SocketSound(k) /\ k \in SocketRecords
    BY <1>2, <2>1, Shaped DEF AllFresh
  <2>3. ASSUME NEW v \in k.read
        PROVE  Fresh(topic', offset, latest'[SymbolOrder[k.at]], SymbolOrder[k.at], v)
    <3>1. v \in Nat /\ k.at \in 1..Len(SymbolOrder)
      BY <1>4, <2>2, Order DEF SocketSound, SocketRecords
    <3>2. PICK u \in Symbols : u = SymbolOrder[k.at]
      BY <3>1, Order
    <3>3. Fresh(topic, offset, latest[u], u, v)
      BY <2>2, <3>2 DEF SocketFresh
    <3> QED
      BY <1>3, <3>1, <3>2, <3>3
  <2>4. \A u \in Symbols, v \in 0..MaxVersions :
          LastWord(k, u, v) => Fresh(topic', offset, latest'[u], u, v)
    BY <1>3, <1>4, <2>2 DEF SocketFresh
  <2> QED
    BY <2>1, <2>3, <2>4 DEF SocketFresh
<1> QED
  BY <1>1, <1>5, <1>6 DEF AllFresh

LEMMA FreshRejoin == ASSUME Sound, FreshInv, Rejoin PROVE FreshInv'
<1> USE DEF Sound
<1> SUFFICES ASSUME "event" \notin raced'
             PROVE  AllFresh(topic', offset', latest', snapshots', sockets')
  BY FreshInvNext
<1>1. UNCHANGED <<topic, latest, snapshots, sockets>>
  BY Zenon DEF Rejoin, matcher
<1>2. PICK n : n = offset'
  OBVIOUS
<1>3. /\ Len(topic) \in Nat /\ offset \in Nat /\ n \in 0..offset
      /\ AllFresh(topic, offset, latest, snapshots, sockets)
  <2>1. offset \in Nat /\ Len(topic) \in Nat
    BY LenProperties DEF MatcherSound
  <2>2. raced' = raced \cup {r \in {"event"} : n > offset} /\ n \in (0..offset) \cup {Len(topic)}
    BY <1>2, Zenon DEF Rejoin
  <2>3. ~(n > offset) /\ "event" \notin raced
    BY <2>2
  <2>4. n \in 0..offset
    BY <2>1, <2>2, <2>3
  <2> QED
    BY <2>1, <2>3, <2>4 DEF FreshInv
<1>4. \A v : \A u \in Symbols : Fresh(topic, offset, latest[u], u, v)
                            => Fresh(topic, n, latest[u], u, v)
  BY <1>3, FreshAgain
<1>5. MapFresh(topic, n, latest, snapshots)
  BY <1>3, <1>4 DEF AllFresh, MapFresh
<1>6. ASSUME NEW j \in DOMAIN sockets
      PROVE  SocketFresh(topic, n, latest, sockets[j])
  <2>1. PICK k : k = sockets[j]
    OBVIOUS
  <2>2. SocketFresh(topic, offset, latest, k) /\ SocketSound(k) /\ k \in SocketRecords
    BY <1>3, <2>1, Shaped DEF AllFresh
  <2>3. ASSUME NEW v \in k.read
        PROVE  Fresh(topic, n, latest[SymbolOrder[k.at]], SymbolOrder[k.at], v)
    <3>1. k.at \in 1..Len(SymbolOrder)
      BY <2>2, Order DEF SocketSound, SocketRecords
    <3>2. PICK u \in Symbols : u = SymbolOrder[k.at]
      BY <3>1, Order
    <3> QED
      BY <1>4, <2>2, <3>2 DEF SocketFresh
  <2>4. \A u \in Symbols, v \in 0..MaxVersions :
          LastWord(k, u, v) => Fresh(topic, n, latest[u], u, v)
    BY <1>4, <2>2 DEF SocketFresh
  <2> QED
    BY <2>1, <2>3, <2>4 DEF SocketFresh
<1> QED
  BY <1>1, <1>2, <1>5, <1>6 DEF AllFresh

LEMMA NextCacheFresh ==
  ASSUME Sound, CacheFresh, [Next]_vars PROVE CacheFresh'
<1>1. ASSUME NEW s \in Symbols, Process(s) \/ Publish(s) \/ Republish(s) \/ ExpireCached(s)
      PROVE  CacheFresh'
  BY <1>1, MatcherGrows DEF Sound
<1>2. ASSUME UNCHANGED matcher
      PROVE  CacheFresh'
  BY <1>2 DEF matcher, CacheFresh
<1>3. ASSUME NEW i \in DOMAIN sockets, Accept(i) \/ Read(i) \/ Seed(i) \/ Receive(i) \/ Break(i)
      PROVE  UNCHANGED matcher
  <2>1. Accept(i) \/ Read(i) => UNCHANGED matcher
    BY Zenon DEF Accept, Read
  <2>2. Seed(i) => UNCHANGED matcher
    BY Zenon DEF Seed
  <2>3. Receive(i) \/ Break(i) => UNCHANGED matcher
    BY Zenon DEF Receive, Break
  <2> QED
    BY <1>3, <2>1, <2>2, <2>3
<1>4. ASSUME NEW h \in Hooks, Mount(h) \/ Reconnect(h) \/ Unmount(h)
      PROVE  UNCHANGED matcher
  BY <1>4, Zenon DEF Mount, Reconnect, Unmount
<1>5. ASSUME Consume \/ Restart \/ Rejoin PROVE UNCHANGED matcher
  BY <1>5, Zenon DEF Consume, Restart, Rejoin
<1>6. ASSUME UNCHANGED vars PROVE UNCHANGED matcher
  BY <1>6 DEF vars
<1> QED
  BY <1>1, <1>2, <1>3, <1>4, <1>5, <1>6 DEF Next, Progress

LEMMA NextFresh ==
  ASSUME Sound, CacheFresh, FreshInv, [Next]_vars PROVE FreshInv'
<1>1. ASSUME NEW i \in DOMAIN sockets, Accept(i) \/ Read(i) \/ Seed(i) \/ Receive(i)
      PROVE  FreshInv'
  BY <1>1, FreshAccept, FreshRead, FreshSeed, FreshReceive
<1>2. ASSUME NEW s \in Symbols, Process(s) \/ Publish(s) \/ Republish(s) \/ ExpireCached(s)
      PROVE  FreshInv'
  BY <1>2, FreshMatcher
<1>3. ASSUME NEW i, sockets' = [sockets EXCEPT ![i] = Closed(@)],
             UNCHANGED <<topic, latest, offset, snapshots, raced>>
      PROVE  FreshInv'
  BY <1>3, OneClosed, FreshKept DEF Sound
<1>4. ASSUME NEW i \in DOMAIN sockets, Break(i)
      PROVE  FreshInv'
  <2>1. /\ sockets' = [sockets EXCEPT ![i] = Closed(@)]
        /\ UNCHANGED <<topic, latest, offset, snapshots, raced>>
    BY <1>4, Zenon DEF Break, matcher, gateway
  <2> QED
    BY <1>3, <2>1
<1>5. ASSUME NEW h \in Hooks, Unmount(h)
      PROVE  FreshInv'
  <2>1. /\ sockets' = [sockets EXCEPT ![hooks[h].socket] = Closed(@)]
        /\ UNCHANGED <<topic, latest, offset, snapshots, raced>>
    BY <1>5, Zenon DEF Unmount, matcher, gateway
  <2> QED
    BY <1>3, <2>1
<1>6. ASSUME Restart
      PROVE  FreshInv'
  <2>1. UNCHANGED <<topic, latest, raced>> /\ snapshots' = None
    BY <1>6, Zenon DEF Restart, matcher
  <2>2. /\ SocketsSound' /\ DOMAIN sockets' = DOMAIN sockets
        /\ \A j \in DOMAIN sockets : Kept(sockets[j], sockets'[j])
        /\ \A j \in DOMAIN sockets : sockets'[j].read = {} /\ sockets'[j].state = "closed"
    BY <1>6, RestartEffect DEF Sound
  <2> QED
    BY <2>1, <2>2, FreshKept
<1>7. ASSUME UNCHANGED vars PROVE FreshInv'
  <2>1. UNCHANGED <<topic, latest, offset, snapshots, sockets, raced>>
    BY <1>7, Zenon DEF vars, matcher, gateway
  <2> QED
    BY <2>1, FreshInvNext DEF FreshInv
<1>8. ASSUME NEW h \in Hooks, Mount(h) \/ Reconnect(h)
      PROVE  FreshInv'
  BY <1>8, FreshConnect
<1> QED
  BY <1>1, <1>2, <1>4, <1>5, <1>6, <1>7, <1>8, FreshConsume, FreshRejoin DEF Next, Progress

\* When everything published has arrived, a hook shows the newest book, or the
\* last one published, of every symbol that its open socket has brought a book
\* of, as long as no event overtook a read of Redis or was passed over: of the
\* snapshots that the map, Redis, the topic and earlier sockets bring in any
\* order, across reconnections and restarts, an outdated one is never the last.
THEOREM NothingStale == Spec => []NoStaleBook
<1> DEFINE Inv == IInv /\ Sound /\ Screens /\ CacheFresh /\ FreshInv
<1>1. Init => Inv
  <2> SUFFICES ASSUME Init PROVE Inv
    OBVIOUS
  <2>1. CacheFresh
    BY DEF Init, CacheFresh, None
  <2>2. AllFresh(topic, offset, latest, snapshots, sockets)
    BY FreshNone DEF Init, AllFresh
  <2> QED
    BY <2>1, <2>2, InitIInv, InitSound, InitScreens DEF FreshInv
<1>2. Inv /\ [Next]_vars => Inv'
  BY NextIInv, NextSound, NextScreens, NextCacheFresh, NextFresh
<1>3. Inv => NoStaleBook
  <2> SUFFICES ASSUME Inv, Settled, "event" \notin raced, NEW i \in DOMAIN sockets,
                      NEW s \in Symbols, sockets[i].got[s] # 0
               PROVE  orderBooks[sockets[i].hook][s] \in {latest[s], LastPublished(s)}
    BY DEF NoStaleBook
  <2>1. PICK k : k = sockets[i]
    OBVIOUS
  <2>2. PICK v : v = k.got[s]
    OBVIOUS
  <2>3. k \in SocketRecords /\ k.inbox = <<>> /\ v \in 0..MaxVersions
    BY <2>1, <2>2, Shaped DEF Sound, Settled, SocketRecords, Books
  <2>4. LastWord(k, s, v)
    BY <2>2, <2>3 DEF LastWord, NoneIn
  <2>5. Fresh(topic, offset, latest[s], s, v)
    BY <2>1, <2>3, <2>4 DEF FreshInv, AllFresh, SocketFresh
  <2>6. DOMAIN topic = 1..offset /\ offset \in Nat
    BY LenProperties DEF Settled, Sound, MatcherSound
  <2>7. v # 0 /\ orderBooks[sockets[i].hook][s] = v
    BY <2>1, <2>2 DEF Screens
  <2>8. ASSUME NEW m \in 1..offset, topic[m].symbol = s, topic[m].version = v,
               \A l \in 1..offset : l > m => topic[l].symbol # s
        PROVE  v = LastPublished(s)
    <3>1. PICK own : own = {j \in DOMAIN topic : topic[j].symbol = s}
      OBVIOUS
    <3>2. m \in own /\ own \subseteq 1..offset /\ \A l \in own : m >= l
      BY <2>6, <2>8, <3>1
    <3>3. Max(own) = m
      <4>1. \E x \in own : \A y \in own : x >= y
        BY <3>2
      <4>2. Max(own) \in own /\ \A y \in own : Max(own) >= y
        BY <4>1, Zenon DEF Max
      <4>3. Max(own) \in 1..offset /\ m \in 1..offset /\ Max(own) >= m /\ m >= Max(own)
        BY <3>2, <4>2
      <4> QED
        BY <2>6, <4>3
    <3> QED
      BY <2>8, <3>1, <3>2, <3>3 DEF LastPublished
  <2>9. ASSUME v <= latest[s], \A m \in 1..offset : topic[m].symbol = s => topic[m].version <= v
        PROVE  v = latest[s]
    <3>1. latest[s] \in Nat /\ v \in Nat
      BY <2>3, BoundsAssumption DEF Sound, MatcherSound, Books
    <3>2. CASE latest[s] = 0
      BY <2>9, <3>1, <3>2
    <3>3. CASE latest[s] \in Versions(s)
      BY <2>6, <2>9, <3>1, <3>3 DEF Versions
    <3> QED
      BY <3>2, <3>3 DEF Settled
  <2>10. v \in {latest[s], LastPublished(s)}
    <3>1. Len(topic) = offset
      BY DEF Settled
    <3>2. PICK m \in offset..Len(topic) : FreshAt(topic, m, latest[s], s, v)
      BY <2>5, <2>7 DEF Fresh
    <3>3. FreshAt(topic, offset, latest[s], s, v)
      BY <2>6, <3>1, <3>2
    <3> QED
      BY <2>8, <2>9, <3>3 DEF FreshAt
  <2> QED
    BY <2>7, <2>10
<1> QED
  BY <1>1, <1>2, <1>3, PTL DEF Spec

=============================================================================
