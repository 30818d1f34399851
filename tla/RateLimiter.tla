----------------------------- MODULE RateLimiter -----------------------------
(***************************************************************************)
(* The rate limiter of the API (packages/server/src/middleware/            *)
(* rateLimiter.ts): the requests of one IP and their token bucket, which   *)
(* is a hash in Redis that a script updates, or an object in memory when   *)
(* Redis is not configured.                                                *)
(*                                                                         *)
(* The bucket of a user is left out: the middleware runs before            *)
(* authenticate (app.ts), so req.user is never set and only the IP counts. *)
(* Tokens are counted in parts, Minute to a token, so that a second        *)
(* refills Capacity parts: exact, where the code's are floats. Clocks are  *)
(* read in whole seconds.                                                  *)
(***************************************************************************)
EXTENDS Naturals, Sequences

CONSTANTS
  Requests,    \* the requests that are limited
  Capacity,    \* RATE_LIMIT_IP_PER_MIN: the bucket's size, and its refill in a minute
  Minute,      \* seconds in a minute, which is also what EXPIRE sets (60 in the code)
  MaxDelay,    \* bound on the seconds between reading the clock and the script
  MaxTime,     \* bound on the clock
  MaxFaults    \* bound on failing Redis calls and restarts

ASSUME LimitAssumption == Capacity \in Nat \ {0} /\ Minute \in Nat \ {0}
ASSUME BoundsAssumption == MaxDelay \in Nat /\ MaxTime \in Nat /\ MaxFaults \in Nat

VARIABLES
  redis,       \* whether Redis is configured
  clock,       \* seconds
  bucket,      \* the bucket of the IP
  sha,         \* scriptSha is set
  loaded,      \* Redis has the script
  request,     \* each request: where it is, the clock it read
  granted,     \* history: when the bucket gave a token, since it was last lost
  faults

vars == <<redis, clock, bucket, sha, loaded, request, granted, faults>>

Token == Minute
Full == Capacity * Minute

NoBucket == [present |-> FALSE, tokens |-> Full, at |-> 0, used |-> 0]

InRedis == {"load", "evalsha", "eval"}
Answers == {"allowed", "refused", "degraded", "lost"}

Init ==
  /\ redis \in BOOLEAN
  /\ clock = 0
  /\ bucket = NoBucket
  /\ sha = FALSE /\ loaded = FALSE
  /\ request = [r \in Requests |-> [pc |-> "new", now |-> 0]]
  /\ granted = <<>>
  /\ faults = 0

GoTo(r, pc) == request' = [request EXCEPT ![r] = [pc |-> pc, now |-> clock]]

(***************************************************************************)
(* The bucket: the Lua script, and localConsume.                           *)
(***************************************************************************)
RefilledUncapped(now) ==                        \* mutant: math.min left out
  IF ~bucket.present THEN [tokens |-> Full, at |-> now]
  ELSE IF now > bucket.at
  THEN [tokens |-> bucket.tokens + (now - bucket.at) * Capacity, at |-> now]
  ELSE [tokens |-> bucket.tokens, at |-> bucket.at]

RefilledWhole(now) ==                           \* mutant: only whole tokens are refilled
  IF ~bucket.present THEN [tokens |-> Full, at |-> now]
  ELSE LET refill == (((now - bucket.at) * Capacity) \div Token) * Token
           sum == bucket.tokens + refill
       IN  IF now > bucket.at
           THEN [tokens |-> IF sum < Full THEN sum ELSE Full, at |-> now]
           ELSE [tokens |-> bucket.tokens, at |-> bucket.at]

Refilled(now) ==
  IF ~bucket.present THEN [tokens |-> Full, at |-> now]
  ELSE LET sum == bucket.tokens + (now - bucket.at) * Capacity
       IN  IF now > bucket.at
           THEN [tokens |-> IF sum < Full THEN sum ELSE Full, at |-> now]
           ELSE [tokens |-> bucket.tokens, at |-> bucket.at]

HasToken(now) == Refilled(now).tokens >= Token

Consume(now) ==
  /\ bucket' = [present |-> TRUE, at |-> Refilled(now).at, used |-> clock,
                tokens |-> Refilled(now).tokens - (IF HasToken(now) THEN Token ELSE 0)]
  /\ granted' = IF HasToken(now) THEN Append(granted, clock) ELSE granted

Answered(r, now) ==
  /\ Consume(now)
  /\ GoTo(r, IF HasToken(now) THEN "allowed" ELSE "refused")

(***************************************************************************)
(* consume: ensureScript, EVALSHA, and EVAL after any error of EVALSHA.    *)
(***************************************************************************)
Arrive(r) ==
  /\ request[r].pc = "new"
  /\ \/ ~redis /\ Answered(r, clock)
     \/ redis /\ GoTo(r, IF sha THEN "evalsha" ELSE "load") /\ UNCHANGED <<bucket, granted>>
  /\ UNCHANGED <<redis, clock, sha, loaded, faults>>

Load(r) ==
  /\ request[r].pc = "load"
  /\ sha' = TRUE /\ loaded' = TRUE
  /\ GoTo(r, "evalsha")
  /\ UNCHANGED <<redis, clock, bucket, granted, faults>>

Evalsha(r) ==
  /\ request[r].pc = "evalsha"
  /\ \/ loaded /\ Answered(r, request[r].now)
     \/ ~loaded /\ GoTo(r, "eval") /\ UNCHANGED <<bucket, granted>>
  /\ UNCHANGED <<redis, clock, sha, loaded, faults>>

Eval(r) ==
  /\ request[r].pc = "eval"
  /\ Answered(r, request[r].now)
  /\ loaded' = TRUE
  /\ UNCHANGED <<redis, clock, sha, faults>>

\* A call to Redis fails, before the script or after it. An error of SCRIPT
\* LOAD or EVAL lets the request through.
CallFails(r) ==
  /\ faults < MaxFaults /\ faults' = faults + 1
  /\ request[r].pc \in InRedis
  /\ GoTo(r, IF request[r].pc = "evalsha" THEN "eval" ELSE "degraded")
  /\ \/ request[r].pc # "load" /\ Consume(request[r].now)
     \/ UNCHANGED <<bucket, granted>>
  /\ UNCHANGED <<redis, clock, sha, loaded>>

(***************************************************************************)
(* Time, restarts. Redis forgets its scripts with or without the bucket;   *)
(* the API forgets scriptSha and what is in memory.                        *)
(***************************************************************************)
Tick ==
  /\ clock < MaxTime
  /\ \A r \in Requests : request[r].pc \in InRedis => clock - request[r].now < MaxDelay
  /\ clock' = clock + 1
  /\ UNCHANGED <<redis, bucket, sha, loaded, request, granted, faults>>

ExpireEarly ==                                  \* mutant: half a minute
  /\ redis /\ bucket.present /\ clock >= bucket.used + Minute \div 2
  /\ bucket' = NoBucket
  /\ UNCHANGED <<redis, clock, sha, loaded, request, granted, faults>>

Expire ==
  /\ redis /\ bucket.present /\ clock >= bucket.used + Minute
  /\ bucket' = NoBucket
  /\ UNCHANGED <<redis, clock, sha, loaded, request, granted, faults>>

Forget == bucket' = NoBucket /\ granted' = <<>>

RestartRedis ==
  /\ redis /\ faults < MaxFaults /\ faults' = faults + 1
  /\ loaded' = FALSE
  /\ Forget \/ UNCHANGED <<bucket, granted>>
  /\ UNCHANGED <<redis, clock, sha, request>>

RestartApi ==
  /\ faults < MaxFaults /\ faults' = faults + 1
  /\ sha' = FALSE
  /\ request' = [r \in Requests |->
       IF request[r].pc \in InRedis THEN [request[r] EXCEPT !.pc = "lost"] ELSE request[r]]
  /\ IF redis THEN UNCHANGED <<bucket, granted>> ELSE Forget
  /\ UNCHANGED <<redis, clock, loaded>>

Next ==
  \/ \E r \in Requests : Arrive(r) \/ Load(r) \/ Evalsha(r) \/ Eval(r) \/ CallFails(r)
  \/ Tick \/ Expire \/ RestartRedis \/ RestartApi

Spec == Init /\ [][Next]_vars

(***************************************************************************)
(* Properties                                                              *)
(***************************************************************************)
\* Types; a bucket is never fuller than its capacity.
TypeOK ==
  /\ redis \in BOOLEAN /\ sha \in BOOLEAN /\ loaded \in BOOLEAN
  /\ clock \in 0..MaxTime /\ faults \in 0..MaxFaults
  /\ bucket \in [present : BOOLEAN, tokens : 0..Full, at : 0..MaxTime, used : 0..MaxTime]
  /\ request \in [Requests -> [pc : {"new"} \cup InRedis \cup Answers, now : 0..MaxTime]]
  /\ granted \in Seq(0..MaxTime)

\* In no span of up to a minute since a restart last lost it does the bucket give
\* more tokens than a full one and the refill of the span; not when the key
\* expires within it, nor when scripts run later than, or in another order than,
\* their requests read the clock, but for the refill of that delay. Requests let
\* through without a token, on an error of SCRIPT LOAD or EVAL, are not counted:
\* the code does not limit them.
WithinLimit ==
  \A j \in DOMAIN granted : \A i \in 1..j :
    LET span == granted[j] - granted[i] IN
    span <= Minute =>
      (j - i + 1) * Token <= Full + (span + 2 * MaxDelay) * Capacity

\* A request is refused only when, since some token was given, a full bucket
\* and the refill since then have been used up: no part of the refill is
\* floored away, or lost to refused requests or to late scripts.
Refused(r) == request[r].pc = "refused"

RefusedOverLimit ==
  [][\A r \in Requests : ~Refused(r) /\ Refused(r)' =>
       \E i \in DOMAIN granted :
         Full + (clock - granted[i]) * Capacity
           < (Len(granted) - i + 2) * Token + MaxDelay * Capacity]_vars
=============================================================================
