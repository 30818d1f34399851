-------------------------- MODULE OrderIntakeProofs ---------------------------
(***************************************************************************)
(* For any number of requests, keys, failing calls and crashes: types, a   *)
(* commandId that is named is in the topic, a duplicate has an original,   *)
(* requests of a key that do not overlap enqueue one command, and a 503    *)
(* has a cause.                                                            *)
(***************************************************************************)
EXTENDS OrderIntake, TLAPS

(***************************************************************************)
(* The inductive invariant. NamedIsEnqueued is not inductive: the update   *)
(* of a key names the command of its request, which is in the topic        *)
(* because the request is past its send. A refusal by a producer that is   *)
(* connecting has a cause because somebody awaits the connect.             *)
(***************************************************************************)
UpdatesAreSent == \A r \in Requests : request[r].pc = "update" => Enqueued(r)

ConnectIsAwaited ==
  producer = "connecting" => probing \/ \E q \in Requests : request[q].pc = "connect"

\* Only requests with a key look one up or create one.
KeyIsPresent ==
  \A r \in Requests : request[r].pc \in {"lookup", "create"} => request[r].key \in Keys

IInv ==
  TypeOK /\ NamedIsEnqueued /\ UpdatesAreSent /\ KeyIsPresent /\ ConnectIsAwaited

RequestsType == request \in [Requests -> RequestRecords]

BoundsType ==
  overlapped \subseteq Keys
  /\ faults \in 0..MaxFaults /\ cleanups \in 0..MaxCleanups /\ crashes \in 0..MaxCrashes

KeysType == DOMAIN keys \subseteq Keys /\ \A k \in DOMAIN keys : keys[k] \in KeyRecords

TopicType == topic \in Seq([id : Requests, origin : Origins])

KafkaType == producer \in Kafka!States /\ probing \in BOOLEAN

LEMMA TypeParts ==
  /\ TypeOK <=> RequestsType /\ KeysType /\ TopicType /\ KafkaType /\ BoundsType
  /\ TypeOK' <=> RequestsType' /\ KeysType' /\ TopicType' /\ KafkaType' /\ BoundsType'
BY DEF TypeOK, RequestsType, KeysType, TopicType, KafkaType, BoundsType

\* What GoTo and Answer leave in a request.
LEMMA Moved ==
  ASSUME RequestsType, NEW r \in Requests, NEW pc \in Locations, GoTo(r, pc)
  PROVE  /\ RequestsType'
         /\ request'[r].pc = pc /\ request'[r].answer = request[r].answer
         /\ request'[r].key = request[r].key
         /\ \A q \in Requests \ {r} : request'[q] = request[q]
BY DEF RequestsType, RequestRecords, GoTo

LEMMA Answered ==
  ASSUME RequestsType, NEW r \in Requests, NEW pc \in Locations,
         NEW status \in {"queued", "duplicate", "conflict", "unavailable"},
         NEW command \in Requests \cup {NoRequest}, Answer(r, pc, status, command)
  PROVE  /\ RequestsType'
         /\ request'[r].pc = pc
         /\ request'[r].answer = [status |-> status, command |-> command]
         /\ \A q \in Requests \ {r} : request'[q] = request[q]
<1>1. [status |-> status, command |-> command] \in Answers
  BY DEF Answers
<1> QED
  BY <1>1 DEF RequestsType, RequestRecords, Answer

\* The topic only grows.
LEMMA Appended ==
  ASSUME TopicType, NEW r \in Requests, request[r].origin \in Origins,
         topic' = Append(topic, Command(r))
  PROVE  /\ TopicType'
         /\ Enqueued(r)'
         /\ \A x : Enqueued(x) => Enqueued(x)'
<1>1. Command(r) \in [id : Requests, origin : Origins] /\ Command(r).id = r
  BY DEF Command
<1>2. TopicType'
  BY <1>1 DEF TopicType
<1>3. /\ Len(topic') = Len(topic) + 1 /\ Len(topic) \in Nat
      /\ topic'[Len(topic) + 1] = Command(r)
      /\ \A i \in 1..Len(topic) : topic'[i] = topic[i]
      /\ DOMAIN topic = 1..Len(topic) /\ DOMAIN topic' = 1..(Len(topic) + 1)
  BY <1>1 DEF TopicType
<1> QED
  BY <1>1, <1>2, <1>3 DEF Enqueued

LEMMA OriginIsTyped == ASSUME RequestsType, NEW r \in Requests PROVE request[r].origin \in Origins
BY DEF RequestsType, RequestRecords

LEMMA InitIInv == ASSUME Init PROVE IInv
<1>1. RequestsType
  BY DEF Init, RequestsType, RequestRecords, Locations, Answers, NoAnswer
<1>2. \A r \in Requests : request[r].pc = "new" /\ request[r].answer.command = NoRequest
  BY DEF Init, NoAnswer
<1>3. KeysType /\ DOMAIN keys = {}
  BY DEF Init, KeysType
<1>4. TopicType
  BY DEF Init, TopicType
<1>5. KafkaType /\ ConnectIsAwaited
  BY DEF Init, KafkaType, Kafka!States, ConnectIsAwaited
<1>6. BoundsType
  BY BoundsAssumption DEF Init, BoundsType
<1>7. NamedIsEnqueued
  BY <1>2, <1>3 DEF NamedIsEnqueued
<1>8. UpdatesAreSent
  BY <1>2 DEF UpdatesAreSent
<1>9. KeyIsPresent
  BY <1>2 DEF KeyIsPresent
<1> QED
  BY <1>1, <1>3, <1>4, <1>5, <1>6, <1>7, <1>8, <1>9, TypeParts DEF IInv

(***************************************************************************)
(* Steps of one request.                                                   *)
(***************************************************************************)
Others(r) == \A q \in Requests \ {r} : request'[q] = request[q]

KeysNamed == \A k \in DOMAIN keys : keys[k].command # NoRequest => Enqueued(keys[k].command)

LEMMA OneRequest ==
  ASSUME IInv, NEW r \in Requests, Others(r),
         RequestsType', KeysType', TopicType', KafkaType', BoundsType',
         \A x : Enqueued(x) => Enqueued(x)',
         request'[r].answer.command # NoRequest => Enqueued(request[r].answer.command)',
         request'[r].pc = "update" => Enqueued(r)',
         request'[r].pc \in {"lookup", "create"} => request'[r].key \in Keys,
         KeysNamed', ConnectIsAwaited'
  PROVE  IInv'
<1>1. TypeOK'
  BY TypeParts
<1>2. NamedIsEnqueued'
  <2>1. ASSUME NEW q \in Requests, request'[q].answer.command # NoRequest
        PROVE  Enqueued(request[q].answer.command)'
    <3>1. CASE q = r
      BY <2>1, <3>1
    <3>2. CASE q # r
      <4>1. request'[q] = request[q]
        BY <3>2 DEF Others
      <4>2. Enqueued(request[q].answer.command)
        BY <2>1, <4>1 DEF IInv, NamedIsEnqueued
      <4> QED
        BY <4>1, <4>2 DEF Enqueued
    <3> QED
      BY <3>1, <3>2
  <2> QED
    BY <2>1 DEF NamedIsEnqueued, KeysNamed
<1>3. UpdatesAreSent'
  BY DEF IInv, UpdatesAreSent, Others
<1>4. KeyIsPresent'
  BY DEF IInv, KeyIsPresent, Others
<1> QED
  BY <1>1, <1>2, <1>3, <1>4 DEF IInv

\* A step that leaves the topic, the keys' rows and the producer alone, and is
\* not that of the request that connects the producer.
LEMMA SameTopic ==
  ASSUME topic' = topic
  PROVE  (\A x : Enqueued(x) => Enqueued(x)') /\ (TopicType => TopicType')
BY DEF Enqueued, TopicType

LEMMA SameKeys ==
  ASSUME IInv, keys' = keys, \A x : Enqueued(x) => Enqueued(x)'
  PROVE  KeysType' /\ KeysNamed'
<1>1. KeysType'
  BY TypeParts DEF IInv, KeysType
<1>2. ASSUME NEW k \in DOMAIN keys, keys[k].command # NoRequest
      PROVE  Enqueued(keys[k].command)'
  <2>1. Enqueued(keys[k].command)
    BY <1>2 DEF IInv, NamedIsEnqueued
  <2> QED
    BY <2>1 DEF Enqueued
<1> QED
  BY <1>1, <1>2 DEF KeysNamed

LEMMA SameProducer ==
  ASSUME IInv, NEW r \in Requests, Others(r), UNCHANGED kafka, request[r].pc # "connect"
  PROVE  KafkaType' /\ ConnectIsAwaited'
<1>1. KafkaType'
  BY TypeParts DEF IInv, KafkaType, kafka
<1>2. ConnectIsAwaited'
  BY DEF IInv, ConnectIsAwaited, kafka, Others
<1> QED
  BY <1>1, <1>2

LEMMA SameBounds ==
  ASSUME IInv, UNCHANGED bounds \/ Fault
  PROVE  BoundsType'
<1>1. BoundsType
  BY TypeParts DEF IInv
<1>2. CASE UNCHANGED bounds
  BY <1>1, <1>2 DEF BoundsType, bounds
<1>3. CASE Fault
  BY <1>1, <1>3, BoundsAssumption DEF BoundsType, Fault
<1> QED
  BY <1>2, <1>3

LEMMA Parts ==
  ASSUME IInv
  PROVE  /\ RequestsType /\ KeysType /\ TopicType /\ KafkaType /\ BoundsType
         /\ \A r \in Requests : request[r].answer.command # NoRequest
                                => Enqueued(request[r].answer.command)
         /\ \A k \in DOMAIN keys : keys[k] \in KeyRecords
         /\ KeysNamed
BY TypeParts DEF IInv, KeysType, NamedIsEnqueued, KeysNamed

\* A request goes on, or is answered, by what reads the keys and writes nothing.
LEMMA GoingOn ==
  ASSUME IInv, NEW r \in Requests, NEW pc \in Locations \ {"update"}, GoTo(r, pc),
         pc \in {"lookup", "create"} => request[r].key \in Keys,
         topic' = topic, KeysType', KeysNamed', KafkaType', ConnectIsAwaited', BoundsType'
  PROVE  IInv'
<1>1. RequestsType' /\ Others(r) /\ request'[r].pc = pc
      /\ request'[r].answer = request[r].answer /\ request'[r].key = request[r].key
  BY Moved, Parts DEF Others
<1>2. (\A x : Enqueued(x) => Enqueued(x)') /\ TopicType'
  BY SameTopic, Parts
<1>3. request'[r].answer.command # NoRequest => Enqueued(request[r].answer.command)'
  <2>1. request[r].answer.command # NoRequest => Enqueued(request[r].answer.command)
    BY Parts
  <2> QED
    BY <1>1, <2>1 DEF Enqueued
<1>4. /\ request'[r].pc # "update"
      /\ request'[r].pc \in {"lookup", "create"} => request'[r].key \in Keys
  BY <1>1
<1> QED
  BY <1>1, <1>2, <1>3, <1>4, OneRequest

LEMMA Refusing ==
  ASSUME IInv, NEW r \in Requests,
         NEW status \in {"duplicate", "conflict", "unavailable"},
         NEW command \in Requests \cup {NoRequest},
         command # NoRequest => Enqueued(command)',
         Answer(r, "done", status, command),
         \A x : Enqueued(x) => Enqueued(x)',
         TopicType', keys' = keys, KafkaType', ConnectIsAwaited', BoundsType'
  PROVE  IInv'
<1>1. "done" \in Locations
  BY DEF Locations
<1>2. RequestsType' /\ Others(r) /\ request'[r].pc = "done"
      /\ request'[r].answer = [status |-> status, command |-> command]
  BY <1>1, Answered, Parts DEF Others
<1>3. KeysType' /\ KeysNamed'
  BY SameKeys
<1>4. request'[r].answer.command = command
  BY <1>2
<1>5. request'[r].answer.command # NoRequest => Enqueued(request[r].answer.command)'
  BY <1>4 DEF Enqueued
<1>6. request'[r].pc # "update" /\ request'[r].pc \notin {"lookup", "create"}
  BY <1>2
<1> QED
  BY <1>2, <1>3, <1>5, <1>6, OneRequest

LEMMA ArriveStep ==
  ASSUME IInv, NEW r \in Requests, NEW key \in Keys \cup {NoKey}, Arrive(r, key)
  PROVE  IInv'
<1>1. /\ RequestsType' /\ Others(r) /\ request'[r].pc \in {"get", "lookup"}
      /\ request'[r].answer = request[r].answer
      /\ request'[r].pc = "lookup" => request'[r].key \in Keys
  BY Parts DEF Arrive, RequestsType, RequestRecords, Locations, Others
<1>2. topic' = topic /\ keys' = keys /\ UNCHANGED kafka /\ request[r].pc # "connect"
  BY DEF Arrive
<1>3. (\A x : Enqueued(x) => Enqueued(x)') /\ TopicType'
  BY <1>2, SameTopic, Parts
<1>4. KeysType' /\ KeysNamed'
  BY <1>2, <1>3, SameKeys
<1>5. KafkaType' /\ ConnectIsAwaited'
  BY <1>1, <1>2, SameProducer
<1>6. BoundsType'
  BY Parts DEF Arrive, BoundsType
<1>7. request'[r].answer.command # NoRequest => Enqueued(request[r].answer.command)'
  <2>1. request[r].answer.command # NoRequest => Enqueued(request[r].answer.command)
    BY Parts
  <2> QED
    BY <1>1, <1>3, <2>1 DEF Enqueued
<1>8. /\ request'[r].pc # "update"
      /\ request'[r].pc \in {"lookup", "create"} => request'[r].key \in Keys
  BY <1>1
<1> QED
  BY <1>1, <1>3, <1>4, <1>5, <1>6, <1>7, <1>8, OneRequest

LEMMA LookupStep ==
  ASSUME IInv, NEW r \in Requests, Lookup(r)
  PROVE  IInv'
<1>1. topic' = topic /\ keys' = keys /\ UNCHANGED kafka /\ UNCHANGED bounds
      /\ request[r].pc # "connect"
  BY DEF Lookup
<1>2. request[r].key \in Keys
  BY DEF Lookup, IInv, KeyIsPresent
<1>3. (\A x : Enqueued(x) => Enqueued(x)') /\ TopicType'
  BY <1>1, SameTopic, Parts
<1>4. KeysType' /\ KeysNamed'
  BY <1>1, <1>3, SameKeys
<1>5. BoundsType'
  BY <1>1, SameBounds
<1>6. ASSUME Others(r) PROVE KafkaType' /\ ConnectIsAwaited'
  BY <1>1, <1>6, SameProducer
<1>7. CASE GoTo(r, "create")
  <2>1. "create" \in Locations \ {"update"}
    BY DEF Locations
  <2>2. Others(r)
    BY <1>7, <2>1, Moved, Parts DEF Others
  <2> QED
    BY <1>1, <1>4, <1>5, <1>6, <1>7, <1>2, <2>1, <2>2, GoingOn
<1>8. ASSUME NEW status \in {"duplicate", "conflict"}, NEW command \in Requests \cup {NoRequest},
             Answer(r, "done", status, command),
             command # NoRequest => Enqueued(command)
      PROVE  IInv'
  <2>1. "done" \in Locations
    BY DEF Locations
  <2>2. Others(r)
    BY <1>8, Parts DEF Answer, RequestsType, Others
  <2>3. command # NoRequest => Enqueued(command)'
    BY <1>3, <1>8
  <2> QED
    BY <1>1, <1>3, <1>5, <1>6, <1>8, <2>2, <2>3, Refusing
<1>9. ASSUME request[r].key \in DOMAIN keys
      PROVE  /\ keys[request[r].key].command \in Requests \cup {NoRequest}
             /\ keys[request[r].key].command # NoRequest
                  => Enqueued(keys[request[r].key].command)
  BY <1>9, Parts DEF KeysNamed, KeyRecords
<1> QED
  BY <1>7, <1>8, <1>9 DEF Lookup

LEMMA CreateKeyStep ==
  ASSUME IInv, NEW r \in Requests, CreateKey(r)
  PROVE  IInv'
<1>1. topic' = topic /\ UNCHANGED kafka /\ UNCHANGED bounds
      /\ request[r].pc = "create" /\ GoTo(r, "get")
  BY DEF CreateKey
<1>2. \A x : Enqueued(x) => Enqueued(x)'
  BY <1>1, SameTopic
<1>3. "get" \in Locations \ {"update"}
  BY DEF Locations
<1>4. Others(r)
  BY <1>1, <1>3, Moved, Parts DEF Others
<1>5. KeysType' /\ KeysNamed'
  <2>1. CASE keys' = keys
    BY <1>2, <2>1, SameKeys
  <2>2. CASE /\ request[r].key \notin DOMAIN keys
             /\ keys' = [k \in DOMAIN keys \cup {request[r].key} |->
                           IF k \in DOMAIN keys THEN keys[k]
                           ELSE [origin |-> request[r].origin, command |-> NoRequest]]
    <3>1. [origin |-> request[r].origin, command |-> NoRequest] \in KeyRecords
      BY OriginIsTyped, Parts DEF KeyRecords
    <3>2. request[r].key \in Keys
      BY <1>1 DEF IInv, KeyIsPresent
    <3> QED
      BY <1>2, <2>2, <3>1, <3>2, Parts DEF KeysType, KeysNamed
  <2> QED
    BY <2>1, <2>2 DEF CreateKey
<1> QED
  BY <1>1, <1>3, <1>4, <1>5, GoingOn, SameProducer, SameBounds

LEMMA GetStep ==
  ASSUME IInv, NEW r \in Requests, Get(r)
  PROVE  IInv'
<1>1. topic' = topic /\ keys' = keys /\ probing' = probing /\ UNCHANGED bounds
      /\ request[r].pc = "get"
  BY DEF Get
<1>2. (\A x : Enqueued(x) => Enqueued(x)') /\ TopicType'
  BY <1>1, SameTopic, Parts
<1>3. KeysType' /\ KeysNamed' /\ BoundsType'
  BY <1>1, <1>2, SameKeys, SameBounds
<1>4. {"connect", "send", "done"} \subseteq Locations \ {"update"}
  BY DEF Locations
<1>5. CASE Kafka!Opened /\ GoTo(r, "connect")
  <2>1. request'[r].pc = "connect"
    BY <1>4, <1>5, Moved, Parts
  <2>2. KafkaType' /\ ConnectIsAwaited'
    BY <1>1, <1>5, <2>1, Parts DEF Kafka!Opened, KafkaType, Kafka!States, ConnectIsAwaited
  <2> QED
    BY <1>1, <1>3, <1>4, <1>5, <2>2, GoingOn
<1>6. CASE GoTo(r, "send") /\ UNCHANGED producer
  <2>1. Others(r)
    BY <1>4, <1>6, Moved, Parts DEF Others
  <2>2. KafkaType' /\ ConnectIsAwaited'
    BY <1>1, <1>6, <2>1, SameProducer DEF kafka
  <2> QED
    BY <1>1, <1>3, <1>4, <1>6, <2>2, GoingOn
<1>7. CASE Answer(r, "done", "unavailable", NoRequest) /\ UNCHANGED producer
  <2>1. Others(r)
    BY <1>4, <1>7, Answered, Parts DEF Others
  <2>2. KafkaType' /\ ConnectIsAwaited'
    BY <1>1, <1>7, <2>1, SameProducer DEF kafka
  <2> QED
    BY <1>1, <1>2, <1>3, <1>7, <2>2, Refusing
<1> QED
  BY <1>5, <1>6, <1>7 DEF Get

LEMMA ConnectStep ==
  ASSUME IInv, NEW r \in Requests, Connect(r)
  PROVE  IInv'
<1>1. topic' = topic /\ keys' = keys /\ probing' = probing /\ UNCHANGED bounds
      /\ GoTo(r, "send") /\ producer' = "connected"
  BY DEF Connect, Kafka!Connected
<1>2. KeysType' /\ KeysNamed' /\ BoundsType'
  BY <1>1, SameTopic, SameKeys, SameBounds
<1>3. KafkaType' /\ ConnectIsAwaited'
  BY <1>1, Parts DEF KafkaType, Kafka!States, ConnectIsAwaited
<1>4. "send" \in Locations \ {"update", "lookup", "create"}
  BY DEF Locations
<1> QED
  BY <1>1, <1>2, <1>3, <1>4, GoingOn

LEMMA SendStep ==
  ASSUME IInv, NEW r \in Requests, Send(r)
  PROVE  IInv'
<1>1. /\ topic' = Append(topic, Command(r)) /\ keys' = keys
      /\ UNCHANGED kafka /\ UNCHANGED bounds /\ request[r].pc # "connect"
  BY DEF Send
<1>2. PICK pc \in {"done", "update"} : Answer(r, pc, "queued", r)
  BY DEF Send
<1>3. pc \in Locations
  BY DEF Locations
<1>4. RequestsType' /\ Others(r) /\ request'[r].pc = pc
      /\ request'[r].answer = [status |-> "queued", command |-> r]
  BY <1>2, <1>3, Answered, Parts DEF Others
<1>5. TopicType' /\ Enqueued(r)' /\ \A x : Enqueued(x) => Enqueued(x)'
  BY <1>1, Appended, OriginIsTyped, Parts
<1>6. KeysType' /\ KeysNamed' /\ BoundsType' /\ KafkaType' /\ ConnectIsAwaited'
  BY <1>1, <1>4, <1>5, SameKeys, SameBounds, SameProducer
<1>7. Enqueued(request[r].answer.command)'
  BY <1>4, <1>5 DEF Enqueued
<1>8. request'[r].pc \notin {"lookup", "create"}
  BY <1>4
<1> QED
  BY <1>4, <1>5, <1>6, <1>7, <1>8, OneRequest

LEMMA UpdateKeyStep ==
  ASSUME IInv, NEW r \in Requests, UpdateKey(r)
  PROVE  IInv'
<1>1. topic' = topic /\ UNCHANGED kafka /\ UNCHANGED bounds
      /\ request[r].pc = "update" /\ GoTo(r, "done")
  BY DEF UpdateKey
<1>2. (\A x : Enqueued(x) => Enqueued(x)') /\ Enqueued(r)
  BY <1>1, SameTopic DEF IInv, UpdatesAreSent
<1>3. "done" \in Locations \ {"update", "lookup", "create"}
  BY DEF Locations
<1>4. Others(r)
  BY <1>1, <1>3, Moved, Parts DEF Others
<1>5. DOMAIN keys' = DOMAIN keys
  BY DEF UpdateKey
<1>6. ASSUME NEW k \in DOMAIN keys
      PROVE  keys'[k] \in KeyRecords /\
             (keys'[k].command # NoRequest => Enqueued(keys[k].command)')
  <2>1. keys[k] \in KeyRecords
    BY Parts
  <2>2. CASE k = request[r].key
    <3>1. keys'[k] = [keys[k] EXCEPT !.command = r]
      BY <2>2 DEF UpdateKey
    <3>2. keys'[k] \in KeyRecords /\ keys'[k].command = r
      BY <2>1, <3>1 DEF KeyRecords
    <3> QED
      BY <1>2, <3>2 DEF Enqueued
  <2>3. CASE k # request[r].key
    <3>1. keys'[k] = keys[k]
      BY <2>3 DEF UpdateKey
    <3>2. keys[k].command # NoRequest => Enqueued(keys[k].command)
      BY Parts DEF KeysNamed
    <3> QED
      BY <1>2, <2>1, <3>1, <3>2 DEF Enqueued
  <2> QED
    BY <2>2, <2>3
<1>7. KeysType'
  BY <1>5, <1>6, Parts DEF KeysType, KeyRecords
<1>8. KeysNamed'
  BY <1>5, <1>6 DEF KeysNamed
<1> QED
  BY <1>1, <1>3, <1>4, <1>7, <1>8, GoingOn, SameProducer, SameBounds

LEMMA KeyCallFailsStep ==
  ASSUME IInv, NEW r \in Requests, KeyCallFails(r)
  PROVE  IInv'
<1>1. topic' = topic /\ keys' = keys /\ UNCHANGED kafka /\ Fault /\ request[r].pc # "connect"
  BY DEF KeyCallFails
<1>2. PICK pc \in {"get", "done"} : GoTo(r, pc)
  BY DEF KeyCallFails
<1>3. pc \in Locations \ {"update"} /\ pc \notin {"lookup", "create"}
  BY DEF Locations
<1>4. Others(r)
  BY <1>2, <1>3, Moved, Parts DEF Others
<1>5. KeysType' /\ KeysNamed' /\ BoundsType' /\ KafkaType' /\ ConnectIsAwaited'
  BY <1>1, <1>4, SameTopic, SameKeys, SameBounds, SameProducer
<1> QED
  BY <1>1, <1>2, <1>3, <1>5, GoingOn

LEMMA ConnectFailsStep ==
  ASSUME IInv, NEW r \in Requests, ConnectFails(r)
  PROVE  IInv'
<1>1. topic' = topic /\ keys' = keys /\ probing' = probing /\ Fault
      /\ Answer(r, "done", "unavailable", NoRequest) /\ producer' = "unusable"
  BY DEF ConnectFails, Kafka!ConnectFailed
<1>2. (\A x : Enqueued(x) => Enqueued(x)') /\ TopicType' /\ BoundsType'
  BY <1>1, SameTopic, SameBounds, Parts
<1>3. KafkaType' /\ ConnectIsAwaited'
  BY <1>1, Parts DEF KafkaType, Kafka!States, ConnectIsAwaited
<1> QED
  BY <1>1, <1>2, <1>3, Refusing

LEMMA SendFailsStep ==
  ASSUME IInv, NEW r \in Requests, SendFails(r)
  PROVE  IInv'
<1>1. keys' = keys /\ UNCHANGED kafka /\ Fault /\ request[r].pc # "connect"
      /\ Answer(r, "done", "unavailable", NoRequest)
  BY DEF SendFails
<1>2. Others(r)
  BY <1>1, Parts DEF Answer, RequestsType, Others
<1>3. TopicType' /\ \A x : Enqueued(x) => Enqueued(x)'
  BY SameTopic, Appended, OriginIsTyped, Parts DEF SendFails
<1>4. BoundsType' /\ KafkaType' /\ ConnectIsAwaited'
  BY <1>1, <1>2, SameBounds, SameProducer
<1> QED
  BY <1>1, <1>3, <1>4, Refusing

(***************************************************************************)
(* Steps of all requests or of none.                                       *)
(***************************************************************************)
\* What was answered stays, the topic stays, and the keys lose rows at most.
LEMMA NoAnswers ==
  ASSUME IInv, topic' = topic, RequestsType',
         \A r \in Requests :
           /\ request'[r].answer = request[r].answer
           /\ request'[r].pc = "done" \/ request'[r] = request[r],
         DOMAIN keys' \subseteq DOMAIN keys, \A k \in DOMAIN keys' : keys'[k] = keys[k],
         KafkaType', BoundsType', ConnectIsAwaited'
  PROVE  IInv'
<1>1. (\A x : Enqueued(x) => Enqueued(x)') /\ TopicType'
  BY SameTopic, Parts
<1>2. KeysType'
  BY Parts DEF KeysType
<1>3. TypeOK'
  BY <1>1, <1>2, TypeParts
<1>4. NamedIsEnqueued'
  <2>1. ASSUME NEW r \in Requests, request'[r].answer.command # NoRequest
        PROVE  Enqueued(request[r].answer.command)'
    <3>1. Enqueued(request[r].answer.command)
      BY <2>1, Parts
    <3> QED
      BY <1>1, <3>1 DEF Enqueued
  <2>2. ASSUME NEW k \in DOMAIN keys', keys'[k].command # NoRequest
        PROVE  Enqueued(keys[k].command)'
    <3>1. Enqueued(keys[k].command)
      BY <2>2, Parts DEF KeysNamed
    <3> QED
      BY <1>1, <3>1 DEF Enqueued
  <2> QED
    BY <2>1, <2>2 DEF NamedIsEnqueued
<1>5. UpdatesAreSent'
  BY <1>1 DEF IInv, UpdatesAreSent
<1>6. KeyIsPresent'
  BY DEF IInv, KeyIsPresent
<1> QED
  BY <1>3, <1>4, <1>5, <1>6 DEF IInv

LEMMA ProbeStep ==
  ASSUME IInv, Probe \/ ProbeFails
  PROVE  IInv'
<1>1. request' = request /\ keys' = keys /\ topic' = topic /\ (UNCHANGED bounds \/ Fault)
  BY DEF Probe, ProbeFails
<1>2. RequestsType' /\ BoundsType'
  BY <1>1, SameBounds, Parts DEF RequestsType
<1>3. KafkaType' /\ ConnectIsAwaited'
  BY DEF Probe, ProbeFails, Kafka!Opened, Kafka!Connected, Kafka!ConnectFailed,
         KafkaType, Kafka!States, ConnectIsAwaited
<1> QED
  BY <1>1, <1>2, <1>3, NoAnswers

LEMMA CleanupStep ==
  ASSUME IInv, Cleanup
  PROVE  IInv'
<1>1. request' = request /\ topic' = topic /\ UNCHANGED kafka
  BY DEF Cleanup
<1>2. DOMAIN keys' \subseteq DOMAIN keys /\ \A k \in DOMAIN keys' : keys'[k] = keys[k]
  BY DEF Cleanup
<1>3. BoundsType'
  BY BoundsAssumption, Parts DEF Cleanup, BoundsType
<1>4. RequestsType' /\ KafkaType' /\ ConnectIsAwaited'
  BY <1>1, Parts DEF RequestsType, KafkaType, IInv, ConnectIsAwaited, kafka
<1> QED
  BY <1>1, <1>2, <1>3, <1>4, NoAnswers

LEMMA CrashStep ==
  ASSUME IInv, Crash
  PROVE  IInv'
<1>1. topic' = topic /\ keys' = keys /\ producer' = "none" /\ probing' = FALSE
  BY DEF Crash, Kafka!Gone
<1>2. BoundsType'
  BY BoundsAssumption, Parts DEF Crash, BoundsType
<1>3. KafkaType' /\ ConnectIsAwaited'
  BY <1>1 DEF KafkaType, Kafka!States, ConnectIsAwaited
<1>4. /\ RequestsType'
      /\ \A r \in Requests : /\ request'[r].answer = request[r].answer
                             /\ request'[r].pc = "done" \/ request'[r] = request[r]
  BY Parts DEF Crash, RequestsType, RequestRecords, Locations
<1> QED
  BY <1>1, <1>2, <1>3, <1>4, NoAnswers

LEMMA NextIInv ==
  ASSUME IInv, [Next]_vars
  PROVE  IInv'
<1>1. ASSUME NEW r \in Requests, NEW key \in Keys \cup {NoKey}, Arrive(r, key)
      PROVE  IInv'
  BY <1>1, ArriveStep
<1>2. ASSUME NEW r \in Requests, Handle(r)
      PROVE  IInv'
  BY <1>2, LookupStep, CreateKeyStep, GetStep, ConnectStep, SendStep, UpdateKeyStep
     DEF Handle
<1>3. ASSUME NEW r \in Requests, KeyCallFails(r) \/ ConnectFails(r) \/ SendFails(r)
      PROVE  IInv'
  BY <1>3, KeyCallFailsStep, ConnectFailsStep, SendFailsStep
<1>4. CASE Probe \/ ProbeFails
  BY <1>4, ProbeStep
<1>5. CASE Cleanup
  BY <1>5, CleanupStep
<1>6. CASE Crash
  BY <1>6, CrashStep
<1>7. CASE UNCHANGED vars
  <2>1. request' = request /\ keys' = keys /\ topic' = topic /\ UNCHANGED kafka
        /\ UNCHANGED bounds
    BY <1>7 DEF vars
  <2>2. RequestsType' /\ KafkaType' /\ ConnectIsAwaited' /\ BoundsType'
    BY <2>1, SameBounds, Parts
       DEF RequestsType, KafkaType, IInv, ConnectIsAwaited, kafka
  <2> QED
    BY <2>1, <2>2, NoAnswers
<1> QED
  BY <1>1, <1>2, <1>3, <1>4, <1>5, <1>6, <1>7 DEF Next

(***************************************************************************)
(* The theorems.                                                           *)
(***************************************************************************)
LEMMA Invariance == Spec => []IInv
<1>1. Init => IInv
  BY InitIInv
<1>2. IInv /\ [Next]_vars => IInv'
  BY NextIInv
<1> QED
  BY <1>1, <1>2, PTL DEF Spec

\* The requests, keys, topic and producer keep their types, for any number of
\* requests, keys, failing calls, cleanups and crashes (routes/orders.ts).
THEOREM Types == Spec => []TypeOK
<1>1. IInv => TypeOK
  BY DEF IInv
<1> QED
  BY <1>1, Invariance, PTL

\* No answer and no key's row names a command that is not in the order topic.
THEOREM Named == Spec => []NamedIsEnqueued
<1>1. IInv => NamedIsEnqueued
  BY DEF IInv
<1> QED
  BY <1>1, Invariance, PTL

(***************************************************************************)
(* Duplicates. A row outlives its answer, so the request that created it   *)
(* must still be there, past the lookup, with the row's key and origin.    *)
(***************************************************************************)
Past(r) == request[r].pc \notin {"new", "lookup"}

RowsHaveOrigin ==
  \A k \in DOMAIN keys : \E q \in Requests :
    Past(q) /\ request[q].key = k /\ request[q].origin = keys[k].origin

AnsweredIsOld ==
  \A r \in Requests : request[r].answer.status = "duplicate" => request[r].pc # "new"

OriginInv == RowsHaveOrigin /\ AnsweredIsOld /\ DuplicateHasOrigin

\* What a step may do to a request.
Steady(r) ==
  /\ request[r].pc # "new" =>
       /\ request'[r].pc # "new"
       /\ request'[r].key = request[r].key /\ request'[r].origin = request[r].origin
  /\ Past(r) => Past(r)'
  /\ request'[r].answer.status = "duplicate" =>
       request[r].answer.status = "duplicate" \/ Lookup(r)

LEMMA GoToIsSteady ==
  ASSUME RequestsType, NEW r \in Requests, NEW q \in Requests,
         NEW pc \in Locations \ {"new", "lookup"}, GoTo(q, pc)
  PROVE  Steady(r)
BY DEF RequestsType, RequestRecords, GoTo, Steady, Past

LEMMA AnswerIsSteady ==
  ASSUME RequestsType, NEW r \in Requests, NEW q \in Requests,
         NEW pc \in Locations \ {"new", "lookup"}, NEW status, NEW command,
         Answer(q, pc, status, command), status # "duplicate" \/ Lookup(q)
  PROVE  Steady(r)
BY DEF RequestsType, RequestRecords, Answer, Steady, Past

LEMMA StepIsSteady ==
  ASSUME IInv, [Next]_vars, NEW r \in Requests
  PROVE  Steady(r)
<1>1. RequestsType
  BY Parts
<1>2. Locations \ {"new", "lookup"} = {"create", "get", "connect", "send", "update", "done"}
  BY DEF Locations
<1>3. ASSUME NEW q \in Requests, NEW key \in Keys \cup {NoKey}, Arrive(q, key)
      PROVE  Steady(r)
  BY <1>1, <1>3 DEF Arrive, RequestsType, RequestRecords, Steady, Past
<1>4. ASSUME NEW q \in Requests, Handle(q)
      PROVE  Steady(r)
  <2>1. CASE Lookup(q)
    BY <1>1, <1>2, <2>1, GoToIsSteady, AnswerIsSteady DEF Lookup
  <2>2. CASE CreateKey(q) \/ Connect(q) \/ UpdateKey(q)
    BY <1>1, <1>2, <2>2, GoToIsSteady DEF CreateKey, Connect, UpdateKey
  <2>3. CASE Get(q)
    BY <1>1, <1>2, <2>3, GoToIsSteady, AnswerIsSteady DEF Get
  <2>4. CASE Send(q)
    BY <1>1, <1>2, <2>4, AnswerIsSteady DEF Send
  <2> QED
    BY <1>4, <2>1, <2>2, <2>3, <2>4 DEF Handle
<1>5. ASSUME NEW q \in Requests, KeyCallFails(q) \/ ConnectFails(q) \/ SendFails(q)
      PROVE  Steady(r)
  BY <1>1, <1>2, <1>5, GoToIsSteady, AnswerIsSteady DEF KeyCallFails, ConnectFails, SendFails
<1>6. CASE Crash
  BY <1>1, <1>6 DEF Crash, RequestsType, RequestRecords, Steady, Past
<1>7. CASE Probe \/ ProbeFails \/ Cleanup \/ UNCHANGED vars
  <2>1. request' = request
    BY <1>7 DEF Probe, ProbeFails, Cleanup, vars
  <2> QED
    BY <2>1 DEF Steady, Past
<1> QED
  BY <1>3, <1>4, <1>5, <1>6, <1>7 DEF Next

\* A row was there, with this origin, or a request has just created it.
LEMMA RowsComeFrom ==
  ASSUME IInv, [Next]_vars, NEW k \in DOMAIN keys'
  PROVE  \/ k \in DOMAIN keys /\ keys'[k].origin = keys[k].origin
         \/ \E q \in Requests : /\ request[q].pc = "create" /\ request[q].key = k
                                /\ request'[q].pc = "get"
                                /\ keys'[k].origin = request[q].origin
<1>1. ASSUME NEW q \in Requests, UpdateKey(q)
      PROVE  k \in DOMAIN keys /\ keys'[k].origin = keys[k].origin
  BY <1>1, Parts DEF UpdateKey, KeyRecords
<1>2. ASSUME NEW q \in Requests, CreateKey(q), k \notin DOMAIN keys \/ keys'[k] # keys[k]
      PROVE  /\ request[q].pc = "create" /\ request[q].key = k
             /\ request'[q].pc = "get" /\ keys'[k].origin = request[q].origin
  BY <1>2, Parts DEF CreateKey, GoTo, RequestsType, RequestRecords
<1>3. CASE Cleanup
  BY <1>3 DEF Cleanup
<1>4. CASE keys' = keys
  BY <1>4
<1>5. CASE Next
  <2>1. ASSUME NEW q \in Requests, NEW key \in Keys \cup {NoKey}, Arrive(q, key)
        PROVE  keys' = keys
    BY <2>1 DEF Arrive
  <2>2. ASSUME NEW q \in Requests, Lookup(q) \/ Get(q) \/ Connect(q) \/ Send(q)
        PROVE  keys' = keys
    BY <2>2 DEF Lookup, Get, Connect, Send
  <2>3. ASSUME NEW q \in Requests, KeyCallFails(q) \/ ConnectFails(q) \/ SendFails(q)
        PROVE  keys' = keys
    BY <2>3 DEF KeyCallFails, ConnectFails, SendFails
  <2>4. Probe \/ ProbeFails \/ Crash => keys' = keys
    BY DEF Probe, ProbeFails, Crash
  <2> QED
    BY <1>1, <1>2, <1>3, <1>4, <1>5, <2>1, <2>2, <2>3, <2>4 DEF Next, Handle
<1> QED
  BY <1>4, <1>5 DEF vars

LEMMA NextOrigins ==
  ASSUME IInv, OriginInv, [Next]_vars
  PROVE  OriginInv'
<1>1. \A r \in Requests : Steady(r)
  BY StepIsSteady
<1>2. ASSUME NEW k \in DOMAIN keys'
      PROVE  \E q \in Requests :
               Past(q)' /\ request'[q].key = k /\ request'[q].origin = keys'[k].origin
  <2>1. CASE k \in DOMAIN keys /\ keys'[k].origin = keys[k].origin
    <3>1. PICK q \in Requests :
            Past(q) /\ request[q].key = k /\ request[q].origin = keys[k].origin
      BY <2>1 DEF OriginInv, RowsHaveOrigin
    <3> QED
      BY <1>1, <2>1, <3>1 DEF Steady, Past
  <2>2. ASSUME NEW q \in Requests, request[q].pc = "create", request[q].key = k,
               request'[q].pc = "get", keys'[k].origin = request[q].origin
        PROVE  Past(q)' /\ request'[q].key = k /\ request'[q].origin = keys'[k].origin
    BY <1>1, <2>2 DEF Steady, Past
  <2> QED
    BY <2>1, <2>2, RowsComeFrom
<1>3. ASSUME NEW r \in Requests, request'[r].answer.status = "duplicate"
      PROVE  \E q \in Requests \ {r} :
               /\ request'[q].pc # "new" /\ request'[q].key = request'[r].key
               /\ request'[q].origin = request'[r].origin
  <2>1. CASE request[r].answer.status = "duplicate"
    <3>1. PICK q \in Requests \ {r} :
            /\ request[q].pc # "new" /\ request[q].key = request[r].key
            /\ request[q].origin = request[r].origin
      BY <2>1 DEF OriginInv, DuplicateHasOrigin
    <3>2. request[r].pc # "new"
      BY <2>1 DEF OriginInv, AnsweredIsOld
    <3> QED
      BY <1>1, <3>1, <3>2 DEF Steady
  <2>2. CASE Lookup(r) /\ request[r].answer.status # "duplicate"
    <3>1. request[r].pc = "lookup"
      BY <2>2 DEF Lookup
    <3>2. request[r].key \in DOMAIN keys /\ request[r].origin = keys[request[r].key].origin
      BY <1>3, <2>2, Parts
         DEF Lookup, GoTo, Answer, SameOrigin, RequestsType, RequestRecords
    <3>3. PICK q \in Requests :
            Past(q) /\ request[q].key = request[r].key /\ request[q].origin = request[r].origin
      BY <3>2 DEF OriginInv, RowsHaveOrigin
    <3>4. q # r /\ request[q].pc # "new"
      BY <3>1, <3>3 DEF Past
    <3> QED
      BY <1>1, <3>1, <3>3, <3>4 DEF Steady
  <2> QED
    BY <1>1, <1>3, <2>1, <2>2 DEF Steady
<1>4. ASSUME NEW r \in Requests, request'[r].answer.status = "duplicate"
      PROVE  request'[r].pc # "new"
  BY <1>1, <1>4 DEF Steady, Lookup, OriginInv, AnsweredIsOld
<1> QED
  BY <1>2, <1>3, <1>4 DEF OriginInv, RowsHaveOrigin, AnsweredIsOld, DuplicateHasOrigin, Past

\* A duplicate answer has an original of the same key, user and body.
THEOREM Original == Spec => []DuplicateHasOrigin
<1>1. Init => OriginInv
  BY DEF Init, NoAnswer, OriginInv, RowsHaveOrigin, AnsweredIsOld, DuplicateHasOrigin
<1>2. IInv /\ OriginInv /\ [Next]_vars => OriginInv'
  BY NextOrigins
<1>3. OriginInv => DuplicateHasOrigin
  BY DEF OriginInv
<1> QED
  BY <1>1, <1>2, <1>3, Invariance, PTL DEF Spec

(***************************************************************************)
(* One command per key. The command is sent once because the row that the  *)
(* request creates is there before its send and stays, so a request that   *)
(* comes after the answer finds it, and one that came before the answer    *)
(* puts the key into overlapped: a request that is about to send is the    *)
(* first of its key.                                                       *)
(***************************************************************************)
Calm == cleanups = 0 /\ faults = 0

Sharing(q, r) ==
  request[q].key = request[r].key /\ request[q].key \notin overlapped \cup {NoKey}

EnqueuedIsAnswered ==
  \A r \in Requests : Enqueued(r) => request[r].pc \in {"update", "done"}

OneAtATime ==
  \A q, r \in Requests : Unanswered(q) /\ Unanswered(r) /\ Sharing(q, r) => q = r

RowBeforeCommand ==
  Calm => \A r \in Requests :
    /\ request[r].key # NoKey
    /\ Enqueued(r) \/ request[r].pc \in {"get", "connect", "send"}
    => request[r].key \in DOMAIN keys

FirstOfKey ==
  Calm => \A q, r \in Requests :
    request[r].pc \in {"create", "get", "connect", "send"} /\ Sharing(q, r) => ~Enqueued(q)

OnceInv ==
  EnqueuedIsAnswered /\ OneAtATime /\ RowBeforeCommand /\ FirstOfKey /\ OneCommandPerKey

Acts(r) ==
  \/ \E key \in Keys \cup {NoKey} : Arrive(r, key)
  \/ Handle(r) \/ KeyCallFails(r) \/ ConnectFails(r) \/ SendFails(r)

\* A step is that of one request, the end of all of them, or of none.
LEMMA WhoMoves ==
  ASSUME RequestsType, [Next]_vars, NEW r \in Requests
  PROVE  \/ request'[r] = request[r]
         \/ Acts(r) /\ Others(r)
         \/ InProgress(r) /\ request'[r].pc = "done"
<1>1. ASSUME NEW q \in Requests, Acts(q)
      PROVE  Others(q)
  BY <1>1 DEF Acts, Arrive, Handle, Lookup, CreateKey, Get, Connect, Send, UpdateKey,
              KeyCallFails, ConnectFails, SendFails, GoTo, Answer, RequestsType, Others
<1>2. CASE Crash
  BY <1>2 DEF Crash, RequestsType, RequestRecords
<1>3. CASE Probe \/ ProbeFails \/ Cleanup \/ UNCHANGED vars
  BY <1>3 DEF Probe, ProbeFails, Cleanup, vars
<1>4. CASE \E q \in Requests : Acts(q)
  BY <1>1, <1>4 DEF Others
<1> QED
  BY <1>2, <1>3, <1>4, Zenon DEF Next, Acts

\* How a request comes to where it is.
LEMMA Advance ==
  ASSUME RequestsType, [Next]_vars, NEW r \in Requests
  PROVE  /\ Unanswered(r)' =>
              \/ Unanswered(r)
              \/ Others(r) /\ \E key \in Keys \cup {NoKey} : Arrive(r, key)
         /\ request[r].pc \in {"update", "done"} => request'[r].pc \in {"update", "done"}
         /\ request'[r].pc \in {"get", "connect", "send"} =>
              \/ request[r].pc \in {"get", "connect", "send"}
              \/ CreateKey(r) \/ Fault \/ Arrive(r, NoKey)
         /\ request'[r].pc = "create" =>
              \/ request[r].pc = "create"
              \/ Lookup(r) /\ request[r].key \notin DOMAIN keys
<1>1. CASE request'[r] = request[r]
  BY <1>1 DEF Unanswered, InProgress
<1>2. CASE InProgress(r) /\ request'[r].pc = "done"
  BY <1>2 DEF Unanswered, InProgress
<1>3. ASSUME NEW key \in Keys \cup {NoKey}, Arrive(r, key), Others(r)
      PROVE  /\ request[r].pc = "new"
             /\ request'[r].pc = IF key = NoKey THEN "get" ELSE "lookup"
  BY <1>3 DEF Arrive, RequestsType, RequestRecords
<1>4. CASE Lookup(r)
  BY <1>4 DEF Lookup, GoTo, Answer, RequestsType, RequestRecords, Unanswered, InProgress, Locations
<1>5. CASE CreateKey(r)
  BY <1>5 DEF CreateKey, GoTo, RequestsType, RequestRecords, Unanswered, InProgress, Locations
<1>6. CASE Get(r) \/ Connect(r)
  BY <1>6 DEF Get, Connect, GoTo, Answer, RequestsType, RequestRecords, Unanswered, InProgress,
              Locations
<1>7. CASE Send(r) \/ SendFails(r) \/ ConnectFails(r)
  BY <1>7 DEF Send, SendFails, ConnectFails, Answer, RequestsType, RequestRecords, Unanswered,
              InProgress, Locations
<1>8. CASE UpdateKey(r)
  BY <1>8 DEF UpdateKey, GoTo, RequestsType, RequestRecords, Unanswered, InProgress, Locations
<1>9. CASE KeyCallFails(r)
  BY <1>9 DEF KeyCallFails, GoTo, RequestsType, RequestRecords, Unanswered, InProgress, Locations
<1>10. CASE Others(r) /\ \E key \in Keys \cup {NoKey} : Arrive(r, key)
  BY <1>3, <1>10
<1> QED
  BY <1>1, <1>2, <1>4, <1>5, <1>6, <1>7, <1>8, <1>9, <1>10, WhoMoves DEF Acts, Handle

Sends(r) ==
  /\ request[r].pc = "send" /\ request'[r].pc \in {"update", "done"}
  /\ Others(r)

\* A command that was not there is that of the request that sends.
LEMMA WhoIsEnqueued ==
  ASSUME IInv, [Next]_vars, NEW r \in Requests, Enqueued(r)'
  PROVE  Enqueued(r) \/ Sends(r)
<1>1. RequestsType /\ TopicType
  BY Parts
<1>2. CASE topic' = topic
  BY <1>2 DEF Enqueued
<1>3. ASSUME NEW q \in Requests, topic' = Append(topic, Command(q))
      PROVE  Enqueued(r) \/ q = r
  <2>1. PICK n \in Nat : n = Len(topic)
    BY <1>1 DEF TopicType
  <2>2. /\ DOMAIN topic' = 1..(n + 1) /\ DOMAIN topic = 1..n
        /\ topic'[n + 1] = Command(q) /\ \A i \in 1..n : topic'[i] = topic[i]
    BY <1>1, <1>3, <2>1 DEF TopicType
  <2>3. PICK i \in DOMAIN topic' : topic'[i].id = r
    BY DEF Enqueued
  <2>4. i \in DOMAIN topic \/ i = n + 1
    BY <2>1, <2>2, <2>3
  <2> QED
    BY <2>2, <2>3, <2>4 DEF Enqueued, Command
<1>4. ASSUME NEW q \in Requests, Send(q) \/ SendFails(q)
      PROVE  Sends(q) /\ topic' \in {topic, Append(topic, Command(q))}
  BY <1>1, <1>4 DEF Send, SendFails, Answer, RequestsType, RequestRecords, Sends, Others
<1>5. ASSUME NEW q \in Requests, Acts(q), ~(Send(q) \/ SendFails(q))
      PROVE  topic' = topic
  BY <1>5 DEF Acts, Arrive, Handle, Lookup, CreateKey, Get, Connect, UpdateKey,
              KeyCallFails, ConnectFails
<1>6. CASE Probe \/ ProbeFails \/ Cleanup \/ Crash \/ UNCHANGED vars
  BY <1>2, <1>6 DEF Probe, ProbeFails, Cleanup, Crash, vars
<1>7. CASE \E q \in Requests : Acts(q)
  BY <1>2, <1>3, <1>4, <1>5, <1>7
<1> QED
  BY <1>6, <1>7, Zenon DEF Next, Acts

\* Without faults and cleanups, rows stay.
LEMMA CalmStep ==
  ASSUME IInv, [Next]_vars, Calm'
  PROVE  Calm /\ ~Fault /\ DOMAIN keys \subseteq DOMAIN keys'
<1>1. /\ faults \in Nat /\ cleanups \in Nat /\ faults' = 0 /\ cleanups' = 0
  BY Parts, BoundsAssumption DEF BoundsType, Calm
<1>2. ~Fault /\ ~Cleanup
  BY <1>1 DEF Fault, Cleanup
<1>3. UNCHANGED <<faults, cleanups>>
  BY <1>2 DEF Next, Handle, Arrive, Lookup, CreateKey, Get, Connect, Send, UpdateKey,
              KeyCallFails, ConnectFails, SendFails, Probe, ProbeFails, Crash, vars, bounds
<1>4. DOMAIN keys \subseteq DOMAIN keys'
  <2>1. ASSUME NEW r \in Requests, Handle(r)
        PROVE  DOMAIN keys \subseteq DOMAIN keys'
    BY <2>1 DEF Handle, Lookup, CreateKey, Get, Connect, Send, UpdateKey
  <2>2. ASSUME NEW r \in Requests, NEW key \in Keys \cup {NoKey}, Arrive(r, key)
        PROVE  DOMAIN keys \subseteq DOMAIN keys'
    BY <2>2 DEF Arrive
  <2> QED
    BY <1>2, <2>1, <2>2 DEF Next, KeyCallFails, ConnectFails, SendFails, Probe, ProbeFails,
                            Crash, vars
<1> QED
  BY <1>1, <1>2, <1>3, <1>4 DEF Calm

LEMMA OverlappedGrows ==
  ASSUME [Next]_vars
  PROVE  overlapped \subseteq overlapped'
<1>1. ASSUME NEW r \in Requests, NEW key \in Keys \cup {NoKey}, Arrive(r, key)
      PROVE  overlapped \subseteq overlapped'
  BY <1>1 DEF Arrive
<1>2. Fault => overlapped' = overlapped
  BY DEF Fault
<1> QED
  BY <1>1, <1>2 DEF Next, Handle, Lookup, CreateKey, Get, Connect, Send, UpdateKey,
     KeyCallFails, ConnectFails, SendFails, Probe, ProbeFails, Cleanup, Crash, vars, bounds

LEMMA NextOnce ==
  ASSUME IInv, OnceInv, [Next]_vars
  PROVE  OnceInv'
<1>1. RequestsType
  BY Parts
<1>2. ASSUME NEW r \in Requests
      PROVE  request[r].pc # "new" => request'[r].pc # "new" /\ request'[r].key = request[r].key
  BY StepIsSteady DEF Steady
<1>3. ASSUME NEW r \in Requests, Enqueued(r) \/ Sends(r)
      PROVE  /\ request[r].pc # "new" /\ request'[r].key = request[r].key
             /\ request'[r].pc \in {"update", "done"}
  BY <1>1, <1>2, <1>3, Advance DEF OnceInv, EnqueuedIsAnswered, Sends
<1>4. ASSUME NEW q \in Requests, NEW r \in Requests, Sharing(q, r)',
             request'[q].key = request[q].key, request'[r].key = request[r].key
      PROVE  Sharing(q, r)
  BY <1>4, OverlappedGrows DEF Sharing
<1>5. EnqueuedIsAnswered'
  BY <1>3, WhoIsEnqueued DEF EnqueuedIsAnswered
<1>6. OneAtATime'
  <2>1. ASSUME NEW q \in Requests, NEW r \in Requests, NEW key \in Keys \cup {NoKey},
               Arrive(q, key), Others(q), q # r, Unanswered(r)', Sharing(q, r)'
        PROVE  FALSE
    <3>1. Unanswered(r) /\ request'[r].key = request[r].key /\ request'[q].key = key
      BY <1>1, <2>1 DEF Arrive, Others, Unanswered, InProgress, RequestsType, RequestRecords
    <3>2. request[r].key = key /\ key # NoKey
      BY <2>1, <3>1 DEF Sharing
    <3>3. key \in overlapped'
      BY <2>1, <3>1, <3>2 DEF Arrive
    <3> QED
      BY <2>1, <3>1, <3>3 DEF Sharing
  <2>2. ASSUME NEW q \in Requests, NEW r \in Requests,
               Unanswered(q), Unanswered(r), Sharing(q, r)'
        PROVE  q = r
    <3>1. request[q].pc # "new" /\ request[r].pc # "new"
      BY <2>2 DEF Unanswered, InProgress
    <3>2. Sharing(q, r)
      BY <1>2, <1>4, <2>2, <3>1
    <3> QED
      BY <2>2, <3>2 DEF OnceInv, OneAtATime
  <2>3. ASSUME NEW q \in Requests, NEW r \in Requests,
               Unanswered(q)', Unanswered(r)', Sharing(q, r)'
        PROVE  q = r
    <3>1. Sharing(r, q)'
      BY <2>3 DEF Sharing
    <3>2. \/ Unanswered(q)
          \/ Others(q) /\ \E key \in Keys \cup {NoKey} : Arrive(q, key)
      BY <1>1, <2>3, Advance
    <3>3. \/ Unanswered(r)
          \/ Others(r) /\ \E key \in Keys \cup {NoKey} : Arrive(r, key)
      BY <1>1, <2>3, Advance
    <3> QED
      BY <2>1, <2>2, <2>3, <3>1, <3>2, <3>3
  <2> QED
    BY <2>3 DEF OneAtATime
<1>7. RowBeforeCommand'
  <2> SUFFICES ASSUME Calm', NEW r \in Requests, request'[r].key # NoKey,
                      Enqueued(r)' \/ request'[r].pc \in {"get", "connect", "send"}
               PROVE  request'[r].key \in DOMAIN keys'
    BY DEF RowBeforeCommand
  <2>1. Calm /\ ~Fault /\ DOMAIN keys \subseteq DOMAIN keys'
    BY CalmStep
  <2>2. CASE Enqueued(r) \/ request[r].pc \in {"get", "connect", "send"}
    <3>1. request'[r].key = request[r].key
      BY <1>2, <1>3, <2>2
    <3> QED
      BY <2>1, <2>2, <3>1 DEF OnceInv, RowBeforeCommand
  <2>3. CASE CreateKey(r)
    BY <1>1, <2>3 DEF CreateKey, GoTo, RequestsType, RequestRecords
  <2>4. ~Arrive(r, NoKey)
    BY <1>1 DEF Arrive, RequestsType, RequestRecords
  <2>5. Enqueued(r)' => Enqueued(r) \/ request[r].pc = "send"
    BY WhoIsEnqueued DEF Sends
  <2> QED
    BY <1>1, <2>1, <2>2, <2>3, <2>4, <2>5, Advance
<1>8. FirstOfKey'
  <2> SUFFICES ASSUME Calm', NEW q \in Requests, NEW r \in Requests,
                      request'[r].pc \in {"create", "get", "connect", "send"},
                      Sharing(q, r)', Enqueued(q)'
               PROVE  FALSE
    BY DEF FirstOfKey
  <2>1. Calm /\ ~Fault
    BY CalmStep
  <2>2. ~Arrive(r, NoKey)
    BY <1>1 DEF Arrive, RequestsType, RequestRecords, Sharing
  <2>3. \/ request[r].pc \in {"create", "get", "connect", "send"}
        \/ request[r].pc = "lookup" /\ request[r].key \notin DOMAIN keys
    BY <1>1, <2>1, <2>2, Advance DEF CreateKey, Lookup
  <2>4. /\ Enqueued(q) \/ Sends(q)
        /\ request'[q].key = request[q].key /\ request'[r].key = request[r].key
    BY <1>2, <1>3, <2>3, WhoIsEnqueued
  <2>5. Sharing(q, r)
    BY <1>4, <2>4
  <2>6. CASE Enqueued(q)
    <3>1. request[q].key \in DOMAIN keys
      BY <2>1, <2>5, <2>6 DEF OnceInv, RowBeforeCommand, Sharing
    <3> QED
      BY <2>1, <2>3, <2>5, <2>6, <3>1 DEF OnceInv, FirstOfKey, Sharing
  <2>7. CASE Sends(q)
    <3>1. q # r
      BY <2>7 DEF Sends
    <3>2. Unanswered(q) /\ Unanswered(r)
      BY <2>3, <2>7 DEF Unanswered, InProgress, Sends, Locations
    <3> QED
      BY <2>5, <3>1, <3>2 DEF OnceInv, OneAtATime
  <2> QED
    BY <2>4, <2>6, <2>7
<1>9. OneCommandPerKey'
  <2> SUFFICES ASSUME Calm', NEW q \in Requests, NEW r \in Requests,
                      Enqueued(q)', Enqueued(r)', Sharing(q, r)'
               PROVE  q = r
    BY DEF OneCommandPerKey, Calm, Sharing
  <2>1. /\ Enqueued(q) \/ Sends(q)
        /\ Enqueued(r) \/ Sends(r)
    BY WhoIsEnqueued
  <2>2. Sharing(q, r) /\ Sharing(r, q) /\ Calm
    BY <1>3, <1>4, <2>1, CalmStep DEF Sharing
  <2>3. CASE Enqueued(q) /\ Enqueued(r)
    BY <2>2, <2>3 DEF OnceInv, OneCommandPerKey, Calm, Sharing
  <2>4. CASE Enqueued(q) /\ Sends(r)
    BY <2>2, <2>4 DEF OnceInv, FirstOfKey, Sends
  <2>5. CASE Sends(q) /\ Enqueued(r)
    BY <2>2, <2>5 DEF OnceInv, FirstOfKey, Sends
  <2>6. CASE Sends(q) /\ Sends(r)
    BY <2>6 DEF Sends, Others
  <2> QED
    BY <2>1, <2>3, <2>4, <2>5, <2>6
<1> QED
  BY <1>5, <1>6, <1>7, <1>8, <1>9 DEF OnceInv

\* A key whose requests wait for each other's answer enqueues one command as
\* long as no call fails and no row is cleaned up, also when the process
\* crashes between the send and the update of the key (routes/orders.ts).
THEOREM Once == Spec => []OneCommandPerKey
<1>1. Init => OnceInv
  BY DEF Init, OnceInv, EnqueuedIsAnswered, OneAtATime, RowBeforeCommand, FirstOfKey,
         OneCommandPerKey, Enqueued, Unanswered, InProgress
<1>2. IInv /\ OnceInv /\ [Next]_vars => OnceInv'
  BY NextOnce
<1>3. OnceInv => OneCommandPerKey
  BY DEF OnceInv
<1> QED
  BY <1>1, <1>2, <1>3, Invariance, PTL DEF Spec

\* Only a failing call and a request's own getProducer refuse it.
LEMMA GoToRefusesNobody ==
  ASSUME RequestsType, NEW r \in Requests, NEW q \in Requests, NEW pc, GoTo(q, pc)
  PROVE  Refused(r)' => Refused(r)
BY DEF RequestsType, RequestRecords, GoTo, Refused

LEMMA AnswerRefusesNobody ==
  ASSUME RequestsType, NEW r \in Requests, NEW q \in Requests, NEW pc, NEW status, NEW command,
         Answer(q, pc, status, command), q # r \/ status # "unavailable"
  PROVE  Refused(r)' => Refused(r)
BY DEF RequestsType, RequestRecords, Answer, Refused

LEMMA WhoRefuses ==
  ASSUME IInv, [Next]_vars, NEW r \in Requests, ~Refused(r), Refused(r)'
  PROVE  Fault \/ Get(r)
<1>1. RequestsType
  BY Parts
<1>2. ASSUME NEW q \in Requests, NEW key \in Keys \cup {NoKey}, Arrive(q, key)
      PROVE  FALSE
  BY <1>1, <1>2 DEF Arrive, RequestsType, RequestRecords, Refused
<1>3. ASSUME NEW q \in Requests, Lookup(q)
      PROVE  FALSE
  BY <1>1, <1>3, GoToRefusesNobody, AnswerRefusesNobody DEF Lookup
<1>4. ASSUME NEW q \in Requests, CreateKey(q) \/ Connect(q) \/ UpdateKey(q)
      PROVE  FALSE
  BY <1>1, <1>4, GoToRefusesNobody DEF CreateKey, Connect, UpdateKey
<1>5. ASSUME NEW q \in Requests, Send(q)
      PROVE  FALSE
  BY <1>1, <1>5, AnswerRefusesNobody DEF Send
<1>6. ASSUME NEW q \in Requests, Get(q)
      PROVE  q = r
  BY <1>1, <1>6, GoToRefusesNobody, AnswerRefusesNobody DEF Get
<1>7. ASSUME Crash
      PROVE  FALSE
  BY <1>1, <1>7 DEF Crash, RequestsType, RequestRecords, Refused
<1>8. ASSUME request' = request
      PROVE  FALSE
  BY <1>8 DEF Refused
<1>9. CASE Next
  <2>1. ASSUME NEW q \in Requests, Handle(q)
        PROVE  Get(r)
    BY <1>3, <1>4, <1>5, <1>6, <2>1 DEF Handle
  <2>2. ASSUME NEW q \in Requests, KeyCallFails(q) \/ ConnectFails(q) \/ SendFails(q)
        PROVE  Fault
    BY <2>2 DEF KeyCallFails, ConnectFails, SendFails
  <2>3. ProbeFails => Fault
    BY DEF ProbeFails
  <2>4. Probe \/ Cleanup => request' = request
    BY DEF Probe, Cleanup
  <2> QED
    BY <1>2, <1>7, <1>8, <1>9, <2>1, <2>2, <2>3, <2>4 DEF Next
<1> QED
  BY <1>8, <1>9 DEF vars

\* A request is answered 503 because a call failed, because a connect failed
\* before, or because somebody else is still connecting the producer.
THEOREM Cause == Spec => RefusedForACause
<1>1. ASSUME IInv, [Next]_vars PROVE [RefusalHasCause]_vars
  <2> SUFFICES ASSUME NEW r \in Requests, ~Refused(r), Refused(r)'
               PROVE  \/ faults' > faults
                      \/ producer = "unusable"
                      \/ probing \/ \E q \in Requests \ {r} : request[q].pc = "connect"
    BY DEF RefusalHasCause
  <2>1. CASE Fault
    BY <1>1, <2>1, BoundsAssumption, Parts DEF BoundsType, Fault
  <2>2. CASE Get(r)
    <3>1. request[r].pc = "get"
      BY <2>2 DEF Get
    <3>2. producer \notin {"none", "connected"}
      BY <1>1, <2>2, GoToRefusesNobody, Parts DEF Get, Kafka!Unopened, Kafka!CanSend
    <3>3. producer \in {"connecting", "unusable"}
      BY <1>1, <3>2, Parts DEF KafkaType, Kafka!States
    <3> QED
      BY <1>1, <3>1, <3>3 DEF IInv, ConnectIsAwaited
  <2> QED
    BY <1>1, <2>1, <2>2, WhoRefuses
<1> QED
  BY <1>1, Invariance, PTL DEF Spec, RefusedForACause

=============================================================================
