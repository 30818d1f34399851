----------------------------- MODULE OrderIntake -----------------------------
(***************************************************************************)
(* POST /api/orders (packages/server/src/routes/orders.ts): requests       *)
(* handled concurrently by the API process, the IdempotencyKey table they  *)
(* share, the order topic they send to, and the retention of the keys      *)
(* (maintenance/cleanup.ts).                                               *)
(*                                                                         *)
(* A request is identified with the commandId drawn for it. A body stands  *)
(* for the hash of the validated payload; requests that fail validation or *)
(* authentication touch nothing and are left out. The requests share the   *)
(* process's Kafka producer (KafkaProducer), which the first one connects. *)
(***************************************************************************)
EXTENDS Naturals, Sequences, FiniteSets

CONSTANTS
  Requests,      \* the requests, each also its own commandId
  Keys,          \* values of the X-Idempotency-Key header
  Origins,       \* who may send what: records of a user and a body
  NoKey,         \* the header is absent
  NoRequest,     \* in place of a commandId: "pending", or nothing
  MaxFaults,     \* bound on database calls and sends that fail
  MaxCleanups,   \* bound on the cleanups that delete a key
  MaxCrashes     \* bound on the crashes of the API process

ASSUME NamesAssumption == NoKey \notin Keys /\ NoRequest \notin Requests
ASSUME BoundsAssumption ==
  MaxFaults \in Nat /\ MaxCleanups \in Nat /\ MaxCrashes \in Nat

VARIABLES
  request,     \* each request: where it is, what it carries, how it was answered
  keys,        \* the IdempotencyKey rows, by key
  topic,       \* the commands sent to the order topic
  producer,    \* the Kafka producer of the API process
  probing,     \* a GET /readyz awaits the producer's connect
  overlapped,  \* history: the keys that were sent again before they were answered
  faults, cleanups, crashes

bounds == <<overlapped, faults, cleanups, crashes>>
kafka == <<producer, probing>>
vars == <<request, keys, topic, kafka, bounds>>

Kafka == INSTANCE KafkaProducer

Locations == {"new", "lookup", "create", "get", "connect", "send", "update", "done"}

Answers == [status : {"none", "queued", "duplicate", "conflict", "unavailable"},
            command : Requests \cup {NoRequest}]

NoAnswer == [status |-> "none", command |-> NoRequest]

Init ==
  /\ request \in [Requests -> [pc : {"new"}, key : {NoKey}, origin : Origins,
                               answer : {NoAnswer}]]
  /\ keys = [k \in {} |-> NoRequest]
  /\ topic = <<>>
  /\ producer = "none" /\ probing = FALSE
  /\ overlapped = {}
  /\ faults = 0 /\ cleanups = 0 /\ crashes = 0

InProgress(r) == request[r].pc \in Locations \ {"new", "done"}
Unanswered(r) == InProgress(r) /\ request[r].pc # "update"

GoTo(r, pc) == request' = [request EXCEPT ![r].pc = pc]

Answer(r, pc, status, command) ==
  request' = [request EXCEPT ![r].pc = pc,
                             ![r].answer = [status |-> status, command |-> command]]

ArriveWithoutKey(r, key) ==                     \* mutant: an absent header is a key too
  /\ request[r].pc = "new"
  /\ request' = [request EXCEPT ![r].key = key, ![r].pc = "lookup"]
  /\ UNCHANGED <<keys, topic, kafka, bounds>>

Arrive(r, key) ==
  /\ request[r].pc = "new"
  /\ request' = [request EXCEPT ![r].key = key,
                                ![r].pc = IF key = NoKey THEN "get" ELSE "lookup"]
  /\ overlapped' = IF \E q \in Requests : Unanswered(q) /\ request[q].key = key
                   THEN overlapped \cup ({key} \ {NoKey}) ELSE overlapped
  /\ UNCHANGED <<keys, topic, kafka, faults, cleanups, crashes>>

(***************************************************************************)
(* idempotencyKey.findUnique: the answer of an earlier request of the same *)
(* user and body, a conflict with any other, or a key not seen before.     *)
(***************************************************************************)
SameOriginAnyUser(r, row) == row.origin.body = request[r].origin.body  \* mutant: the user is not compared

SameOrigin(r, row) == row.origin = request[r].origin

LookupRetriesPending(r) ==                      \* mutant: a pending row counts as none
  /\ request[r].pc = "lookup"
  /\ IF \/ request[r].key \notin DOMAIN keys
        \/ keys[request[r].key].command = NoRequest
     THEN GoTo(r, "create")
     ELSE LET row == keys[request[r].key]
          IN  IF SameOrigin(r, row)
              THEN Answer(r, "done", "duplicate", row.command)
              ELSE Answer(r, "done", "conflict", NoRequest)
  /\ UNCHANGED <<keys, topic, kafka, bounds>>

Lookup(r) ==
  /\ request[r].pc = "lookup"
  /\ IF request[r].key \notin DOMAIN keys THEN GoTo(r, "create")
     ELSE LET row == keys[request[r].key]
          IN  IF SameOrigin(r, row)
              THEN Answer(r, "done", "duplicate", row.command)
              ELSE Answer(r, "done", "conflict", NoRequest)
  /\ UNCHANGED <<keys, topic, kafka, bounds>>

\* idempotencyKey.create: a key that was created since the lookup is an error,
\* and the handler goes on after any error.
CreateKeyWithCommand(r) ==                      \* mutant: stores the commandId before the send
  /\ request[r].pc = "create"
  /\ keys' = IF request[r].key \in DOMAIN keys THEN keys
             ELSE [k \in DOMAIN keys \cup {request[r].key} |->
                     IF k \in DOMAIN keys THEN keys[k]
                     ELSE [origin |-> request[r].origin, command |-> r]]
  /\ GoTo(r, "get")
  /\ UNCHANGED <<topic, kafka, bounds>>

CreateKey(r) ==
  /\ request[r].pc = "create"
  /\ keys' = IF request[r].key \in DOMAIN keys THEN keys
             ELSE [k \in DOMAIN keys \cup {request[r].key} |->
                     IF k \in DOMAIN keys THEN keys[k]
                     ELSE [origin |-> request[r].origin, command |-> NoRequest]]
  /\ GoTo(r, "get")
  /\ UNCHANGED <<topic, kafka, bounds>>

(***************************************************************************)
(* getProducer: the first request connects it; one that is given it before *)
(* that is done, or after it has failed, is answered 503.                  *)
(***************************************************************************)
GetUnawaited(r) ==                              \* mutant: connect is not awaited
  /\ request[r].pc = "get"
  /\ IF Kafka!CanSend THEN GoTo(r, "send") /\ UNCHANGED producer
     ELSE /\ Answer(r, "done", "unavailable", NoRequest)
          /\ IF Kafka!Unopened THEN Kafka!Connected ELSE UNCHANGED producer
  /\ UNCHANGED <<keys, topic, probing, bounds>>

Get(r) ==
  /\ request[r].pc = "get"
  /\ \/ Kafka!Unopened /\ Kafka!Opened /\ GoTo(r, "connect")
     \/ Kafka!CanSend /\ GoTo(r, "send") /\ UNCHANGED producer
     \/ /\ ~Kafka!Unopened /\ ~Kafka!CanSend
        /\ Answer(r, "done", "unavailable", NoRequest)
        /\ UNCHANGED producer
  /\ UNCHANGED <<keys, topic, probing, bounds>>

Connect(r) ==
  /\ request[r].pc = "connect"
  /\ Kafka!Connected
  /\ GoTo(r, "send")
  /\ UNCHANGED <<keys, topic, probing, bounds>>

\* GET /readyz calls getProducer as well, and only connects it.
Probe ==
  /\ \/ Kafka!Unopened /\ Kafka!Opened /\ probing' = TRUE
     \/ probing /\ Kafka!Connected /\ probing' = FALSE
  /\ UNCHANGED <<request, keys, topic, bounds>>

(***************************************************************************)
(* producer.send, the 202 answer, and the update of the key that nothing   *)
(* waits for: it sets the commandId of whatever row has the key by then.   *)
(***************************************************************************)
Command(r) == [id |-> r, origin |-> request[r].origin]

Send(r) ==
  /\ request[r].pc = "send"
  /\ topic' = Append(topic, Command(r))
  /\ Answer(r, IF request[r].key = NoKey THEN "done" ELSE "update", "queued", r)
  /\ UNCHANGED <<keys, kafka, bounds>>

UpdateKey(r) ==
  /\ request[r].pc = "update"
  /\ keys' = [k \in DOMAIN keys |->
                IF k = request[r].key THEN [keys[k] EXCEPT !.command = r] ELSE keys[k]]
  /\ GoTo(r, "done")
  /\ UNCHANGED <<topic, kafka, bounds>>

(***************************************************************************)
(* Faults: a failed key lookup, create or update is only logged; a failed  *)
(* connect or send is a 503, whether or not the broker wrote the command.  *)
(***************************************************************************)
Fault ==
  /\ faults < MaxFaults
  /\ faults' = faults + 1
  /\ UNCHANGED <<overlapped, cleanups, crashes>>

KeyCallFails(r) ==
  /\ Fault
  /\ \/ request[r].pc \in {"lookup", "create"} /\ GoTo(r, "get")
     \/ request[r].pc = "update" /\ GoTo(r, "done")
  /\ UNCHANGED <<keys, topic, kafka>>

ConnectFails(r) ==
  /\ Fault
  /\ request[r].pc = "connect"
  /\ Kafka!ConnectFailed
  /\ Answer(r, "done", "unavailable", NoRequest)
  /\ UNCHANGED <<keys, topic, probing>>

ProbeFails ==
  /\ Fault
  /\ probing /\ probing' = FALSE
  /\ Kafka!ConnectFailed
  /\ UNCHANGED <<request, keys, topic>>

SendFails(r) ==
  /\ Fault
  /\ request[r].pc = "send"
  /\ topic' \in {topic, Append(topic, Command(r))}
  /\ Answer(r, "done", "unavailable", NoRequest)
  /\ UNCHANGED <<keys, kafka>>

\* Keys outlive the requests that use them: the retention is in hours.
Cleanup ==
  /\ cleanups < MaxCleanups
  /\ cleanups' = cleanups + 1
  /\ \E k \in DOMAIN keys :
       /\ ~\E r \in Requests : InProgress(r) /\ request[r].key = k
       /\ keys' = [j \in DOMAIN keys \ {k} |-> keys[j]]
  /\ UNCHANGED <<request, topic, kafka, overlapped, faults, crashes>>

Crash ==
  /\ crashes < MaxCrashes
  /\ crashes' = crashes + 1
  /\ request' = [r \in Requests |->
       IF InProgress(r) THEN [request[r] EXCEPT !.pc = "done"] ELSE request[r]]
  /\ Kafka!Gone /\ probing' = FALSE
  /\ UNCHANGED <<keys, topic, overlapped, faults, cleanups>>

Handle(r) ==
  Lookup(r) \/ CreateKey(r) \/ Get(r) \/ Connect(r) \/ Send(r) \/ UpdateKey(r)

Next ==
  \/ \E r \in Requests :
       \/ \E key \in Keys \cup {NoKey} : Arrive(r, key)
       \/ Handle(r) \/ KeyCallFails(r) \/ ConnectFails(r) \/ SendFails(r)
  \/ Probe \/ ProbeFails \/ Cleanup \/ Crash

Spec == Init /\ [][Next]_vars

(***************************************************************************)
(* Types                                                                   *)
(***************************************************************************)
RequestRecords == [pc : Locations, key : Keys \cup {NoKey}, origin : Origins,
                   answer : Answers]

KeyRecords == [origin : Origins, command : Requests \cup {NoRequest}]

TypeOK ==
  /\ request \in [Requests -> RequestRecords]
  /\ DOMAIN keys \subseteq Keys /\ \A k \in DOMAIN keys : keys[k] \in KeyRecords
  /\ topic \in Seq([id : Requests, origin : Origins])
  /\ producer \in Kafka!States /\ probing \in BOOLEAN
  /\ overlapped \subseteq Keys
  /\ faults \in 0..MaxFaults /\ cleanups \in 0..MaxCleanups /\ crashes \in 0..MaxCrashes

(***************************************************************************)
(* Safety                                                                  *)
(***************************************************************************)
Enqueued(r) == \E i \in DOMAIN topic : topic[i].id = r

\* A commandId that an answer or a key's row names is that of a command in
\* the order topic: whatever fails, it is stored only after the send.
NamedIsEnqueued ==
  /\ \A r \in Requests :
       request[r].answer.command # NoRequest => Enqueued(request[r].answer.command)
  /\ \A k \in DOMAIN keys :
       keys[k].command # NoRequest => Enqueued(keys[k].command)

\* A duplicate answer has an original: another request of the same key, user
\* and body came before, also after cleanups, crashes and failed lookups.
DuplicateHasOrigin ==
  \A r \in Requests : request[r].answer.status = "duplicate" =>
    \E q \in Requests \ {r} :
      /\ request[q].pc # "new" /\ request[q].key = request[r].key
      /\ request[q].origin = request[r].origin

\* A key whose requests wait for each other's answer, and that is not cleaned
\* up, enqueues one command, also when the process crashes between the send
\* and the update of the key.
OneCommandPerKey ==
  cleanups = 0 /\ faults = 0 =>
    \A q, r \in Requests :
      /\ Enqueued(q) /\ Enqueued(r) /\ request[q].key = request[r].key
      /\ request[q].key \notin overlapped \cup {NoKey}
      => q = r

\* A 503 has a cause: the connect or the send of the request failed, the
\* producer's connect failed before, or another request or a probe was still
\* connecting it. The request that connects it is not refused because of that.
Refused(r) == request[r].answer.status = "unavailable"

RefusalHasCause ==
  \A r \in Requests : ~Refused(r) /\ Refused(r)' =>
    \/ faults' > faults
    \/ producer = "unusable"
    \/ probing \/ \E q \in Requests \ {r} : request[q].pc = "connect"

RefusedForACause == [][RefusalHasCause]_vars

\* A duplicate's 202 "queued" is backed by a command of that key in the topic
\* (README.md:155: the original response it repeats was a 202), once no request
\* of the key is in progress: an attempt that was refused leaves no key behind.
DuplicateIsEnqueued ==
  \A r \in Requests :
    /\ request[r].answer.status = "duplicate"
    /\ ~\E q \in Requests : InProgress(q) /\ request[q].key = request[r].key
    => \E q \in Requests : request[q].key = request[r].key /\ Enqueued(q)
=============================================================================
