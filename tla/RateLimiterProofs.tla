-------------------------- MODULE RateLimiterProofs ----------------------------
(***************************************************************************)
(* The limit both ways, for any capacity, length of a minute, delays,      *)
(* requests and faults, and for what a bucket gives until a restart loses  *)
(* it. Every token given is charged to the bucket: from any grant on, what *)
(* was given and what is left never exceed a full bucket and what has been *)
(* refilled. A bucket that has expired starts again, at least a minute     *)
(* after everything that was given before. And a bucket that is not full   *)
(* lost nothing but the tokens it gave (Drawn), so a refusal has grants    *)
(* that pay for it.                                                        *)
(***************************************************************************)
EXTENDS RateLimiter, Integers, SequenceTheorems, TLAPS

Count == Len(granted)

\* A request's clock is at most MaxDelay old when its script runs.
Prompt ==
  \A r \in Requests : request[r].pc \in InRedis =>
    request[r].now <= clock /\ clock <= request[r].now + MaxDelay

Past ==
  /\ bucket.present => bucket.at <= clock /\ \A i \in 1..Count : granted[i] <= bucket.used
  /\ \A i \in 1..Count : granted[i] <= clock
  /\ \A j \in 1..Count : \A i \in 1..j : granted[i] <= granted[j]

\* Between i and j a minute has passed without a grant.
Pause(i, j) == \E k \in i..(j - 1) : granted[k] + Minute <= granted[k + 1]

\* From the grant of i to that of j the bucket gave what it may.
Charged(i, j) ==
  (j - i + 1) * Token <= Full + ((granted[j] - granted[i]) + MaxDelay) * Capacity

\* Since the grant of i, what was given and what is left is what it may be.
Balanced(i) ==
  /\ bucket.present
  /\ (Count - i + 1) * Token + bucket.tokens
       <= Full + ((bucket.at - granted[i]) + MaxDelay) * Capacity

Accounts ==
  /\ \A j \in 1..Count : \A i \in 1..j : Charged(i, j) \/ Pause(i, j)
  /\ \A i \in 1..Count : Balanced(i) \/ Pause(i, Count) \/ granted[Count] + Minute <= clock

IInv == TypeOK /\ Prompt /\ Past /\ Accounts

(***************************************************************************)
(* Arithmetic.                                                             *)
(***************************************************************************)
LEMMA Product ==
  ASSUME NEW a \in Int, NEW b \in Int, NEW c \in Nat
  PROVE  a * c \in Int /\ (a + b) * c = a * c + b * c /\ (a <= b => a * c <= b * c)
<1>1. a * c \in Int /\ (a + b) * c = a * c + b * c
  OBVIOUS
<1>2. ASSUME a <= b PROVE a * c <= b * c
  <2>1. (b - a) * c = b * c - a * c
    OBVIOUS
  <2>2. b - a \in Nat
    BY <1>2
  <2>3. \A d \in Nat : d * c >= 0
    OBVIOUS
  <2>4. (b - a) * c >= 0
    BY <2>2, <2>3
  <2> QED
    BY <2>1, <2>4, <1>1
<1> QED
  BY <1>1, <1>2

LEMMA Quantities ==
  Token \in Nat \ {0} /\ Full \in Nat /\ Full = Minute * Capacity
  /\ Capacity \in Nat \ {0} /\ Minute \in Nat \ {0} /\ MaxDelay \in Nat /\ MaxTime \in Nat
BY LimitAssumption, BoundsAssumption DEF Token, Full

(***************************************************************************)
(* The property follows.                                                   *)
(***************************************************************************)
LEMMA GrantedShape ==
  ASSUME TypeOK
  PROVE  Count \in Nat /\ DOMAIN granted = 1..Count /\ \A i \in 1..Count : granted[i] \in 0..MaxTime
BY LenProperties, ElementOfSeq DEF TypeOK, Count

\* Within grants of one instant there is no pause.
LEMMA AtOnce ==
  ASSUME IInv, NEW j \in 1..Count, NEW i \in 1..j, granted[i] = granted[j]
  PROVE  (j - i + 1) * Token <= Full + MaxDelay * Capacity
<1>1. \A k \in 1..Count : granted[k] \in Nat
  BY GrantedShape DEF IInv
<1>2. ASSUME NEW k \in i..(j - 1) PROVE ~(granted[k] + Minute <= granted[k + 1])
  <2>1. i <= k /\ k + 1 <= j /\ k \in 1..Count /\ k + 1 \in 1..Count /\ i \in 1..k /\ k + 1 \in 1..j
    BY GrantedShape DEF IInv
  <2>2. granted[i] <= granted[k] /\ granted[k + 1] <= granted[j]
    BY <2>1 DEF IInv, Past
  <2> QED
    BY <1>1, <2>1, <2>2, Quantities
<1>3. ~Pause(i, j)
  BY <1>2 DEF Pause
<1>4. Charged(i, j)
  BY <1>3 DEF IInv, Accounts
<1>5. (granted[j] - granted[i]) + MaxDelay = MaxDelay
  BY <1>1, Quantities
<1> QED
  BY <1>4, <1>5 DEF Charged

LEMMA LimitKept ==
  ASSUME IInv PROVE WithinLimit
<1> SUFFICES ASSUME NEW j \in 1..Count, NEW i \in 1..j, granted[j] - granted[i] <= Minute
             PROVE  (j - i + 1) * Token
                      <= Full + ((granted[j] - granted[i]) + 2 * MaxDelay) * Capacity
  BY GrantedShape DEF IInv, WithinLimit
<1> DEFINE span == granted[j] - granted[i]
<1>1. Count \in Nat /\ \A k \in 1..Count : granted[k] \in Nat
  BY GrantedShape DEF IInv
<1>2. i \in 1..Count /\ granted[i] <= granted[j] /\ span \in Nat
  <2>1. i \in 1..Count
    BY <1>1
  <2>2. granted[i] <= granted[j]
    BY DEF IInv, Past
  <2> QED
    BY <1>1, <2>1, <2>2
<1>3. CASE Charged(i, j)
  <2>1. (span + MaxDelay) * Capacity <= (span + 2 * MaxDelay) * Capacity
    <3>1. span + MaxDelay \in Int /\ span + 2 * MaxDelay \in Int /\ Capacity \in Nat
          /\ span + MaxDelay <= span + 2 * MaxDelay
      BY <1>2, Quantities
    <3> QED
      BY <3>1, Product
  <2>2. /\ (j - i + 1) * Token \in Int /\ (span + MaxDelay) * Capacity \in Int
        /\ (span + 2 * MaxDelay) * Capacity \in Int
    <3>1. j - i + 1 \in Int /\ Token \in Nat /\ span + MaxDelay \in Int
          /\ span + 2 * MaxDelay \in Int /\ Capacity \in Nat
      BY <1>1, <1>2, Quantities
    <3> QED
      BY <3>1, Product
  <2>3. (j - i + 1) * Token <= Full + (span + MaxDelay) * Capacity
    BY <1>3 DEF Charged
  <2> QED
    BY <2>1, <2>2, <2>3, Quantities
<1>4. CASE Pause(i, j)
  <2>1. PICK k \in i..(j - 1) : granted[k] + Minute <= granted[k + 1]
    BY <1>4 DEF Pause
  <2>2. k \in 1..Count /\ k + 1 \in 1..Count /\ i \in 1..k /\ k + 1 \in 1..j /\ k \in Nat
    BY <1>1
  <2>3. granted[i] <= granted[k] /\ granted[k + 1] <= granted[j]
    BY <2>2 DEF IInv, Past
  <2>4. granted[k] = granted[i] /\ granted[k + 1] = granted[j] /\ span = Minute
    BY <1>1, <1>2, <2>1, <2>2, <2>3, Quantities
  <2>5. /\ (k - i + 1) * Token <= Full + MaxDelay * Capacity
        /\ (j - (k + 1) + 1) * Token <= Full + MaxDelay * Capacity
    BY <2>2, <2>4, AtOnce
  <2>6. (j - i + 1) * Token = (k - i + 1) * Token + (j - (k + 1) + 1) * Token
    <3>1. /\ k - i + 1 \in Int /\ j - (k + 1) + 1 \in Int /\ Token \in Nat
          /\ (k - i + 1) + (j - (k + 1) + 1) = j - i + 1
      BY <1>1, <1>2, <2>2, Quantities
    <3> QED
      BY <3>1, Product
  <2>7. (span + 2 * MaxDelay) * Capacity = Full + (MaxDelay * Capacity + MaxDelay * Capacity)
    BY <2>4, Quantities
  <2>8. /\ (k - i + 1) * Token \in Int /\ (j - (k + 1) + 1) * Token \in Int
        /\ MaxDelay * Capacity \in Int
    BY <1>1, <1>2, <2>2, Quantities
  <2> QED
    BY <2>5, <2>6, <2>7, <2>8, Quantities
<1> QED
  BY <1>3, <1>4 DEF IInv, Accounts

(***************************************************************************)
(* A script: the bucket is refilled, and gives a token or does not.        *)
(***************************************************************************)
LEMMA RefilledSound ==
  ASSUME TypeOK, NEW now \in 0..MaxTime
  PROVE  /\ Refilled(now).tokens \in 0..Full /\ Refilled(now).at \in 0..MaxTime
         /\ now <= Refilled(now).at
         /\ Refilled(now).at = now \/ (bucket.present /\ Refilled(now).at = bucket.at)
         /\ bucket.present =>
              /\ bucket.at <= Refilled(now).at
              /\ Refilled(now).tokens
                   <= bucket.tokens + (Refilled(now).at - bucket.at) * Capacity
<1>1. bucket.tokens \in 0..Full /\ bucket.at \in 0..MaxTime /\ bucket.present \in BOOLEAN
  BY DEF TypeOK
<1>2. CASE ~bucket.present
  <2>1. Refilled(now) = [tokens |-> Full, at |-> now]
    BY <1>2, Zenon DEF Refilled
  <2>2. /\ Refilled(now).tokens \in 0..Full /\ Refilled(now).at = now
        /\ Refilled(now).at \in 0..MaxTime /\ now <= Refilled(now).at
    BY <2>1, Quantities
  <2> QED
    BY <1>2, <2>2, Zenon
<1>3. CASE bucket.present /\ now > bucket.at
  <2>1. PICK sum : sum = bucket.tokens + (now - bucket.at) * Capacity
    OBVIOUS
  <2>2. Refilled(now) = [tokens |-> IF sum < Full THEN sum ELSE Full, at |-> now]
    BY <1>3, <2>1, Zenon DEF Refilled
  <2>3. sum \in Nat
    <3>1. now - bucket.at \in Nat /\ Capacity \in Nat
      BY <1>1, <1>3, Quantities
    <3>2. \A d \in Nat : d * Capacity \in Nat
      BY Quantities
    <3>3. PICK d \in Nat : d = (now - bucket.at) * Capacity
      BY <3>1, <3>2
    <3> QED
      BY <1>1, <2>1, <3>3, Quantities
  <2>4. /\ Refilled(now).tokens \in 0..Full /\ Refilled(now).tokens <= sum
        /\ Refilled(now).at = now
    BY <2>2, <2>3, Quantities
  <2>5. Refilled(now).tokens <= bucket.tokens + (Refilled(now).at - bucket.at) * Capacity
    BY <2>1, <2>4, Zenon
  <2>6. /\ Refilled(now).at \in 0..MaxTime /\ now <= Refilled(now).at
        /\ bucket.at <= Refilled(now).at
    BY <1>1, <1>3, <2>4
  <2> QED
    BY <2>4, <2>5, <2>6, Zenon
<1>4. CASE bucket.present /\ ~(now > bucket.at)
  <2>1. Refilled(now) = [tokens |-> bucket.tokens, at |-> bucket.at]
    BY <1>4, Zenon DEF Refilled
  <2>2. (bucket.at - bucket.at) * Capacity = 0
    BY <1>1, Quantities
  <2> QED
    BY <1>1, <1>4, <2>1, <2>2
<1> QED
  BY <1>1, <1>2, <1>3, <1>4

\* What the bucket may have given by `until' is also what it may have given
\* by a later time, and a refill of the time between is within it.
LEMMA Later ==
  ASSUME NEW from \in Int, NEW until \in Int, NEW later \in Int, until <= later
  PROVE  /\ ((later - from) + MaxDelay) * Capacity
              = ((until - from) + MaxDelay) * Capacity + (later - until) * Capacity
         /\ ((until - from) + MaxDelay) * Capacity <= ((later - from) + MaxDelay) * Capacity
         /\ ((until - from) + MaxDelay) * Capacity \in Int
         /\ ((later - from) + MaxDelay) * Capacity \in Int
         /\ (later - until) * Capacity \in Int
<1>1. /\ (until - from) + MaxDelay \in Int /\ later - until \in Int /\ Capacity \in Nat
      /\ (later - from) + MaxDelay = ((until - from) + MaxDelay) + (later - until)
      /\ (until - from) + MaxDelay <= (later - from) + MaxDelay
      /\ (later - from) + MaxDelay \in Int
  BY Quantities
<1> QED
  BY <1>1, Product

\* Whatever was in balance still is when the bucket has been refilled.
LEMMA StillBalanced ==
  ASSUME IInv, NEW i \in 1..Count, Balanced(i), NEW at \in Int, NEW tok \in Int,
         bucket.at <= at, tok <= bucket.tokens + (at - bucket.at) * Capacity
  PROVE  (Count - i + 1) * Token + tok <= Full + ((at - granted[i]) + MaxDelay) * Capacity
<1>1. /\ bucket.at \in Int /\ bucket.tokens \in Int /\ granted[i] \in Int /\ Count \in Nat
      /\ Full \in Int
  BY GrantedShape, Quantities, SMTT(20) DEF IInv, TypeOK
<1>2. /\ ((at - granted[i]) + MaxDelay) * Capacity
           = ((bucket.at - granted[i]) + MaxDelay) * Capacity + (at - bucket.at) * Capacity
      /\ ((bucket.at - granted[i]) + MaxDelay) * Capacity \in Int
      /\ (at - bucket.at) * Capacity \in Int
  <2>1. PICK from \in Int, until \in Int : from = granted[i] /\ until = bucket.at
    BY <1>1
  <2>2. until <= at
    BY <2>1
  <2> QED
    BY <2>1, <2>2, Later, ZenonT(40)
<1>3. (Count - i + 1) * Token \in Int
  BY <1>1, Quantities, Product
<1>4. (Count - i + 1) * Token + bucket.tokens
        <= Full + ((bucket.at - granted[i]) + MaxDelay) * Capacity
  BY DEF Balanced
<1> QED
  BY <1>1, <1>2, <1>3, <1>4

LEMMA Refusal ==
  ASSUME IInv, NEW now \in 0..MaxTime, now <= clock, clock <= now + MaxDelay,
         Consume(now), ~HasToken(now), clock' = clock
  PROVE  /\ bucket' \in [present : BOOLEAN, tokens : 0..Full, at : 0..MaxTime, used : 0..MaxTime]
         /\ granted' \in Seq(0..MaxTime)
         /\ Past' /\ Accounts'
<1>1. TypeOK /\ Past /\ Accounts
  BY DEF IInv
<1>2. PICK at \in 0..MaxTime : at = Refilled(now).at
  BY <1>1, RefilledSound
<1>3. PICK tok \in 0..Full : tok = Refilled(now).tokens
  BY <1>1, RefilledSound
<1>4. bucket' = [present |-> TRUE, at |-> at, used |-> clock, tokens |-> tok - 0]
  BY <1>2, <1>3, Zenon DEF Consume
<1>5. granted' = granted
  BY Zenon DEF Consume
<1>6. /\ Count \in Nat /\ \A k \in 1..Count : granted[k] \in 0..MaxTime
      /\ clock \in 0..MaxTime /\ bucket.at \in 0..MaxTime
  BY <1>1, GrantedShape DEF TypeOK
<1>7. /\ bucket'.present /\ bucket'.at = at /\ bucket'.used = clock /\ bucket'.tokens = tok
  BY <1>3, <1>4, Quantities
<1>8. at <= clock
  <2>1. at = now \/ (bucket.present /\ at = bucket.at)
    BY <1>1, <1>2, RefilledSound, Zenon
  <2>2. bucket.present => bucket.at <= clock
    BY <1>1, Zenon DEF Past
  <2> QED
    BY <2>1, <2>2
<1>9. Count' = Count
  BY <1>5 DEF Count
<1>10. Past'
  <2>1. \A i \in 1..Count : granted[i] <= clock
    BY <1>1 DEF Past
  <2>2. \A j \in 1..Count : \A i \in 1..j : granted[i] <= granted[j]
    BY <1>1 DEF Past
  <2>3. bucket'.at <= clock' /\ \A i \in 1..Count : granted[i] <= bucket'.used
    BY <2>1, <1>7, <1>8
  <2> QED
    BY <1>5, <1>9, <2>1, <2>2, <2>3, Zenon DEF Past
<1>11. \A i, j : (Charged(i, j) <=> Charged(i, j)') /\ (Pause(i, j) <=> Pause(i, j)')
  BY <1>5, Zenon DEF Charged, Pause
<1>12. ASSUME NEW i \in 1..Count, Balanced(i) PROVE Balanced(i)'
  <2>1. bucket.present
    BY <1>12 DEF Balanced
  <2>2. bucket.at <= at /\ tok <= bucket.tokens + (at - bucket.at) * Capacity
    BY <1>1, <1>2, <1>3, <2>1, RefilledSound, Zenon
  <2>3. at \in Int /\ tok \in Int
    BY Quantities
  <2>4. (Count - i + 1) * Token + tok <= Full + ((at - granted[i]) + MaxDelay) * Capacity
    BY <1>12, <2>2, <2>3, StillBalanced
  <2> QED
    BY <1>5, <1>7, <1>9, <2>4, Zenon DEF Balanced
<1>13. Accounts'
  BY <1>1, <1>5, <1>9, <1>11, <1>12, Zenon DEF Accounts
<1>14. bucket' \in [present : BOOLEAN, tokens : 0..Full, at : 0..MaxTime, used : 0..MaxTime]
  <2>1. tok - 0 \in 0..Full
    BY Quantities
  <2> QED
    BY <1>4, <1>6, <2>1
<1>15. granted' \in Seq(0..MaxTime)
  BY <1>1, <1>5 DEF TypeOK
<1> QED
  BY <1>10, <1>13, <1>14, <1>15

\* What a token given now, at a time the bucket has been refilled to, leaves
\* of the balance that was there.
LEMMA Spent ==
  ASSUME NEW n \in Int, NEW i \in Int, NEW tok \in Int, NEW most \in Int,
         (n - i + 1) * Token + tok <= most
  PROVE  ((n + 1) - i + 1) * Token + (tok - Token) <= most
<1>1. /\ n - i + 1 \in Int /\ 1 \in Int /\ Token \in Nat
      /\ (n + 1) - i + 1 = (n - i + 1) + 1
  BY Quantities
<1>2. ((n - i + 1) + 1) * Token = (n - i + 1) * Token + 1 * Token /\ (n - i + 1) * Token \in Int
  BY <1>1, Product
<1> QED
  BY <1>1, <1>2

LEMMA Grant ==
  ASSUME IInv, NEW now \in 0..MaxTime, now <= clock, clock <= now + MaxDelay,
         Consume(now), HasToken(now), clock' = clock
  PROVE  /\ bucket' \in [present : BOOLEAN, tokens : 0..Full, at : 0..MaxTime, used : 0..MaxTime]
         /\ granted' \in Seq(0..MaxTime)
         /\ Past' /\ Accounts'
<1>1. TypeOK /\ Past /\ Accounts
  BY DEF IInv
<1>2. PICK at \in 0..MaxTime : at = Refilled(now).at
  BY <1>1, RefilledSound
<1>3. PICK tok \in 0..Full : tok = Refilled(now).tokens
  BY <1>1, RefilledSound
<1>4. bucket' = [present |-> TRUE, at |-> at, used |-> clock, tokens |-> tok - Token]
  BY <1>2, <1>3, Zenon DEF Consume
<1>5. granted' = Append(granted, clock)
  BY Zenon DEF Consume
<1>6. /\ Count \in Nat /\ \A k \in 1..Count : granted[k] \in 0..MaxTime
      /\ clock \in 0..MaxTime /\ bucket.at \in 0..MaxTime
  BY <1>1, GrantedShape DEF TypeOK
<1>7. tok >= Token /\ tok - Token \in 0..Full
  BY <1>3, Quantities DEF HasToken
<1>8. /\ bucket'.present /\ bucket'.at = at /\ bucket'.used = clock
      /\ bucket'.tokens = tok - Token
  BY <1>4
<1>9. at <= clock /\ clock <= at + MaxDelay
  <2>1. at = now \/ (bucket.present /\ at = bucket.at)
    BY <1>1, <1>2, RefilledSound, Zenon
  <2>2. bucket.present => bucket.at <= clock
    BY <1>1, Zenon DEF Past
  <2>3. now <= at
    BY <1>1, <1>2, RefilledSound, Zenon
  <2> QED
    BY <1>6, <2>1, <2>2, <2>3, Quantities
<1>10. PICK n \in Nat : n = Count
  BY <1>6
<1>11. /\ granted' \in Seq(0..MaxTime) /\ Len(granted') = n + 1
       /\ \A k \in 1..n : granted'[k] = granted[k]
       /\ granted'[n + 1] = clock
  <2>1. granted \in Seq(0..MaxTime) /\ n = Len(granted)
    BY <1>1, <1>10 DEF TypeOK, Count
  <2> QED
    BY <1>5, <1>6, <2>1, AppendProperties
<1>12. Count' = n + 1
  BY <1>11 DEF Count
<1>13. Past'
  <2>1. \A i \in 1..n : granted[i] <= clock
    BY <1>1, <1>10 DEF Past
  <2>2. \A j \in 1..n : \A i \in 1..j : granted[i] <= granted[j]
    BY <1>1, <1>10 DEF Past
  <2>3. \A i \in 1..(n + 1) : granted'[i] <= clock
    BY <1>6, <1>10, <1>11, <2>1
  <2>4. ASSUME NEW j \in 1..(n + 1), NEW i \in 1..j PROVE granted'[i] <= granted'[j]
    <3>1. CASE j = n + 1
      BY <1>11, <2>3, <3>1
    <3>2. CASE j \in 1..n
      BY <1>11, <2>2, <3>2
    <3> QED
      BY <3>1, <3>2
  <2> QED
    BY <1>8, <1>9, <1>12, <2>3, <2>4, Zenon DEF Past
\* The earlier grants.
<1>14. \A j \in 1..n : \A i \in 1..j :
         (Charged(i, j) => Charged(i, j)') /\ (Pause(i, j) => Pause(i, j)')
  <2>1. SUFFICES ASSUME NEW j \in 1..n, NEW i \in 1..j
                 PROVE  (Charged(i, j) => Charged(i, j)') /\ (Pause(i, j) => Pause(i, j)')
    OBVIOUS
  <2>2. granted'[i] = granted[i] /\ granted'[j] = granted[j]
    BY <1>11
  <2>3. \A k \in i..(j - 1) : granted'[k] = granted[k] /\ granted'[k + 1] = granted[k + 1]
    BY <1>11
  <2> QED
    BY <2>2, <2>3, Zenon DEF Charged, Pause
<1>15. ASSUME NEW i \in 1..n, Balanced(i) PROVE Balanced(i)'
  <2>1. bucket.present
    BY <1>15 DEF Balanced
  <2>2. bucket.at <= at /\ tok <= bucket.tokens + (at - bucket.at) * Capacity
    BY <1>1, <1>2, <1>3, <2>1, RefilledSound, Zenon
  <2>3. at \in Int /\ tok \in Int /\ i \in Int /\ granted[i] \in Int /\ i \in 1..Count
    BY <1>6, <1>10, Quantities
  <2>4. (n - i + 1) * Token + tok <= Full + ((at - granted[i]) + MaxDelay) * Capacity
    BY <1>10, <1>15, <2>2, <2>3, StillBalanced
  <2>5. Full + ((at - granted[i]) + MaxDelay) * Capacity \in Int
    <3>1. ((at - granted[i]) + MaxDelay) * Capacity \in Int
      BY <2>3, Later
    <3> QED
      BY <3>1, Quantities
  <2>6. ((n + 1) - i + 1) * Token + (tok - Token)
          <= Full + ((at - granted[i]) + MaxDelay) * Capacity
    BY <2>3, <2>4, <2>5, Spent
  <2>7. granted'[i] = granted[i]
    BY <1>11
  <2> QED
    BY <1>8, <1>12, <2>6, <2>7, Zenon DEF Balanced
\* The grant itself, on a bucket that is no fuller than full.
<1>16. Balanced(n + 1)'
  <2>1. ((at - clock) + MaxDelay) * Capacity >= 0
    <3>1. (at - clock) + MaxDelay \in Nat
      BY <1>6, <1>9, Quantities
    <3>2. \A d \in Nat : d * Capacity >= 0
      BY Quantities
    <3> QED
      BY <3>1, <3>2
  <2>2. ((n + 1) - (n + 1) + 1) * Token = Token
    BY Quantities
  <2>3. ((at - clock) + MaxDelay) * Capacity \in Int
    <3>1. clock \in Int /\ at \in Int /\ at <= at
      BY <1>6, Quantities
    <3> QED
      BY <3>1, Later
  <2>4. ((n + 1) - (n + 1) + 1) * Token + (tok - Token)
          <= Full + ((at - clock) + MaxDelay) * Capacity
    BY <2>1, <2>2, <2>3, Quantities
  <2> QED
    BY <1>8, <1>11, <1>12, <2>4, Zenon DEF Balanced
\* What is in balance has been charged: the bucket holds no less than nothing.
<1>17. ASSUME NEW i \in 1..(n + 1), Balanced(i)' PROVE Charged(i, n + 1)'
  <2>1. PICK g \in Int : g = granted'[i]
    BY <1>6, <1>10, <1>11
  <2>2. ((n + 1) - i + 1) * Token + (tok - Token) <= Full + ((at - g) + MaxDelay) * Capacity
    BY <1>8, <1>12, <1>17, <2>1, Zenon DEF Balanced
  <2>3. /\ ((at - g) + MaxDelay) * Capacity <= ((clock - g) + MaxDelay) * Capacity
        /\ ((at - g) + MaxDelay) * Capacity \in Int /\ ((clock - g) + MaxDelay) * Capacity \in Int
    <3>1. clock \in Int /\ at \in Int /\ at <= clock
      BY <1>6, <1>9, Quantities
    <3> QED
      BY <3>1, Later
  <2>4. ((n + 1) - i + 1) * Token \in Int
    <3>1. (n + 1) - i + 1 \in Int /\ Token \in Nat
      BY Quantities
    <3> QED
      BY <3>1, Product
  <2>5. ((n + 1) - i + 1) * Token <= Full + ((clock - g) + MaxDelay) * Capacity
    BY <1>7, <2>2, <2>3, <2>4, Quantities
  <2> QED
    BY <1>11, <2>1, <2>5, Zenon DEF Charged
<1>18. ASSUME NEW i \in 1..n, Pause(i, n) \/ granted[n] + Minute <= clock
       PROVE  Pause(i, n + 1)'
  <2>1. CASE Pause(i, n)
    <3>1. PICK k \in i..(n - 1) : granted[k] + Minute <= granted[k + 1]
      BY <2>1 DEF Pause
    <3>2. granted'[k] = granted[k] /\ granted'[k + 1] = granted[k + 1] /\ k \in i..((n + 1) - 1)
      BY <1>11, <3>1
    <3> QED
      BY <3>1, <3>2, Zenon DEF Pause
  <2>2. CASE granted[n] + Minute <= clock
    <3>1. granted'[n] = granted[n] /\ n \in i..((n + 1) - 1)
      BY <1>11
    <3> QED
      BY <1>11, <2>2, <3>1, Zenon DEF Pause
  <2> QED
    BY <1>18, <2>1, <2>2
<1>19. \A i \in 1..(n + 1) : Balanced(i)' \/ Pause(i, n + 1)'
  <2>1. SUFFICES ASSUME NEW i \in 1..n PROVE Balanced(i)' \/ Pause(i, n + 1)'
    <3>1. \A i \in 1..(n + 1) : i = n + 1 \/ i \in 1..n
      OBVIOUS
    <3> QED
      BY <1>16, <3>1, <2>1
  <2>2. Balanced(i) \/ Pause(i, n) \/ granted[n] + Minute <= clock
    BY <1>1, <1>10, Zenon DEF Accounts
  <2> QED
    BY <1>15, <1>18, <2>2, Zenon
<1>20. Accounts'
  <2>1. ASSUME NEW j \in 1..(n + 1), NEW i \in 1..j PROVE Charged(i, j)' \/ Pause(i, j)'
    <3>1. CASE j = n + 1
      BY <1>17, <1>19, <3>1
    <3>2. CASE j \in 1..n
      BY <1>1, <1>10, <1>14, <3>2, Zenon DEF Accounts
    <3> QED
      BY <3>1, <3>2
  <2> QED
    BY <1>12, <1>19, <2>1, Zenon DEF Accounts
<1>21. bucket' \in [present : BOOLEAN, tokens : 0..Full, at : 0..MaxTime, used : 0..MaxTime]
  BY <1>4, <1>6, <1>7
<1> QED
  BY <1>11, <1>13, <1>20, <1>21

(***************************************************************************)
(* The invariant is inductive.                                             *)
(***************************************************************************)
LEMMA InitIInv == Init => IInv
<1> SUFFICES ASSUME Init PROVE IInv
  OBVIOUS
<1>1. granted = <<>> /\ Count = 0 /\ granted \in Seq(0..MaxTime)
  BY EmptySeq DEF Init, Count
<1>2. \A i \in 1..Count : FALSE
  BY <1>1
<1>3. NoBucket \in [present : BOOLEAN, tokens : 0..Full, at : 0..MaxTime, used : 0..MaxTime]
  BY Quantities DEF NoBucket
<1>4. 0 \in 0..MaxTime /\ 0 \in 0..MaxFaults
  BY BoundsAssumption
<1>5. TypeOK
  BY <1>1, <1>3, <1>4, Zenon DEF Init, TypeOK
<1>6. Prompt
  BY DEF Init, Prompt, InRedis
<1>7. Past /\ Accounts
  BY <1>2, Zenon DEF Init, Past, Accounts, NoBucket
<1> QED
  BY <1>5, <1>6, <1>7 DEF IInv

\* The middle of a step that runs the script, whatever the request does next.
LEMMA ConsumeStep ==
  ASSUME IInv, NEW now \in 0..MaxTime, now <= clock, clock <= now + MaxDelay,
         Consume(now), clock' = clock
  PROVE  /\ bucket' \in [present : BOOLEAN, tokens : 0..Full, at : 0..MaxTime, used : 0..MaxTime]
         /\ granted' \in Seq(0..MaxTime)
         /\ Past' /\ Accounts'
BY Grant, Refusal

\* A step in which time stands still and the bucket is left alone.
LEMMA BucketUnchanged ==
  ASSUME IInv, UNCHANGED <<bucket, granted, clock>>
  PROVE  /\ bucket' \in [present : BOOLEAN, tokens : 0..Full, at : 0..MaxTime, used : 0..MaxTime]
         /\ granted' \in Seq(0..MaxTime)
         /\ Past' /\ Accounts'
<1>1. bucket' = bucket /\ granted' = granted /\ clock' = clock
  BY Zenon
<1>2. TypeOK /\ Past /\ Accounts
  BY DEF IInv
<1>3. Past' /\ Accounts'
  BY <1>1, <1>2, Zenon DEF Past, Accounts, Charged, Pause, Balanced, Count
<1> QED
  BY <1>1, <1>2, <1>3, Zenon DEF TypeOK

\* The bucket is lost, and the history of what it gave begins again.
LEMMA Forgotten ==
  ASSUME Forget
  PROVE  /\ bucket' \in [present : BOOLEAN, tokens : 0..Full, at : 0..MaxTime, used : 0..MaxTime]
         /\ granted' \in Seq(0..MaxTime)
         /\ Past' /\ Accounts'
<1>1. granted' = <<>> /\ Len(granted') = 0 /\ granted' \in Seq(0..MaxTime)
  BY EmptySeq DEF Forget
<1>2. bucket' = NoBucket /\ NoBucket.present = FALSE
  BY DEF Forget, NoBucket
<1>3. \A i \in 1..Len(granted') : FALSE
  BY <1>1
<1>4. NoBucket \in [present : BOOLEAN, tokens : 0..Full, at : 0..MaxTime, used : 0..MaxTime]
  <2>1. 0 \in 0..MaxTime /\ Full \in 0..Full
    BY Quantities
  <2> QED
    BY <2>1 DEF NoBucket
<1>5. Past' /\ Accounts'
  BY <1>2, <1>3, Zenon DEF Past, Accounts, Count
<1> QED
  BY <1>1, <1>2, <1>4, <1>5

\* A request that moves on at this time has read this clock.
LEMMA Moved ==
  ASSUME IInv, NEW r \in Requests, NEW pc \in {"new"} \cup InRedis \cup Answers,
         GoTo(r, pc), clock' = clock
  PROVE  /\ request' \in [Requests -> [pc : {"new"} \cup InRedis \cup Answers, now : 0..MaxTime]]
         /\ Prompt'
<1>1. TypeOK /\ Prompt
  BY DEF IInv
<1>2. PICK entry : entry = [pc |-> pc, now |-> clock]
  OBVIOUS
<1>3. request' = [request EXCEPT ![r] = entry]
  BY <1>2, Zenon DEF GoTo
<1>4. entry \in [pc : {"new"} \cup InRedis \cup Answers, now : 0..MaxTime] /\ entry.now = clock
  BY <1>1, <1>2 DEF TypeOK
<1>5. request \in [Requests -> [pc : {"new"} \cup InRedis \cup Answers, now : 0..MaxTime]]
  BY <1>1 DEF TypeOK
<1>6. request' \in [Requests -> [pc : {"new"} \cup InRedis \cup Answers, now : 0..MaxTime]]
  BY <1>3, <1>4, <1>5, Zenon
<1>7. \A s \in Requests : request'[s] = IF s = r THEN entry ELSE request[s]
  BY <1>3, <1>5, Zenon
<1>8. clock <= clock /\ clock <= clock + MaxDelay
  BY <1>1, Quantities DEF TypeOK
<1>9. ASSUME NEW s \in Requests, request'[s].pc \in InRedis
      PROVE  request'[s].now <= clock /\ clock <= request'[s].now + MaxDelay
  <2>1. CASE s = r
    BY <1>4, <1>7, <1>8, <2>1, Zenon
  <2>2. CASE s # r
    BY <1>1, <1>7, <1>9, <2>2, Zenon DEF Prompt
  <2> QED
    BY <2>1, <2>2
<1>10. Prompt'
  BY <1>9, Zenon DEF Prompt
<1> QED
  BY <1>6, <1>10

LEMMA NextIInv == IInv /\ [Next]_vars => IInv'
<1> SUFFICES ASSUME IInv, [Next]_vars PROVE IInv'
  OBVIOUS
<1> DEFINE
  BucketType == bucket \in [present : BOOLEAN, tokens : 0..Full, at : 0..MaxTime, used : 0..MaxTime]
  RequestType == request \in [Requests -> [pc : {"new"} \cup InRedis \cup Answers, now : 0..MaxTime]]
  Rest == /\ redis \in BOOLEAN /\ sha \in BOOLEAN /\ loaded \in BOOLEAN
          /\ clock \in 0..MaxTime /\ faults \in 0..MaxFaults
  BucketPart == BucketType /\ granted \in Seq(0..MaxTime) /\ Past /\ Accounts
<1>1. TypeOK /\ Prompt /\ Past /\ Accounts /\ BucketPart /\ RequestType /\ Rest
  BY Zenon DEF IInv, TypeOK
<1>2. RequestType' /\ Prompt' /\ Rest' /\ BucketPart' => IInv'
  BY Zenon DEF IInv, TypeOK
<1>3. UNCHANGED <<bucket, granted, clock>> => BucketPart'
  BY BucketUnchanged, Zenon
\* A script at the clock that its request has read.
<1>4. ASSUME NEW r \in Requests, request[r].pc \in InRedis, Consume(request[r].now), clock' = clock
      PROVE  BucketPart'
  <2>1. PICK now \in 0..MaxTime : now = request[r].now
    BY <1>1
  <2>2. now <= clock /\ clock <= now + MaxDelay
    BY <1>1, <1>4, <2>1, Zenon DEF Prompt
  <2> QED
    BY <1>4, <2>1, <2>2, ConsumeStep, Zenon
<1>5. ASSUME NEW r \in Requests, Arrive(r) PROVE IInv'
  <2>1. PICK now \in 0..MaxTime : now = clock
    BY <1>1
  <2>2. now <= clock /\ clock <= now + MaxDelay
    BY <2>1, Quantities
  <2>3. clock' = clock /\ Rest'
    BY <1>1, <1>5, Zenon DEF Arrive
  <2>4. CASE Answered(r, clock)
    <3>1. BucketPart'
      BY <2>1, <2>2, <2>3, <2>4, ConsumeStep, Zenon DEF Answered
    <3>2. PICK pc \in Answers : GoTo(r, pc)
      BY <2>4, Zenon DEF Answered, Answers
    <3> QED
      BY <1>2, <2>3, <3>1, <3>2, Moved, Zenon
  <2>5. CASE GoTo(r, IF sha THEN "evalsha" ELSE "load") /\ UNCHANGED <<bucket, granted>>
    <3>1. PICK pc \in InRedis : GoTo(r, pc)
      BY <2>5, Zenon DEF InRedis
    <3> QED
      BY <1>2, <1>3, <2>3, <2>5, <3>1, Moved, Zenon
  <2> QED
    BY <1>5, <2>4, <2>5, Zenon DEF Arrive
<1>6. ASSUME NEW r \in Requests, Load(r) PROVE IInv'
  <2>1. clock' = clock /\ Rest' /\ UNCHANGED <<bucket, granted, clock>>
    BY <1>1, <1>6, Zenon DEF Load
  <2>2. GoTo(r, "evalsha") /\ "evalsha" \in InRedis
    BY <1>6, Zenon DEF Load, InRedis
  <2> QED
    BY <1>2, <1>3, <2>1, <2>2, Moved, Zenon
<1>7. ASSUME NEW r \in Requests, Evalsha(r) PROVE IInv'
  <2>1. clock' = clock /\ Rest' /\ request[r].pc \in InRedis
    BY <1>1, <1>7, Zenon DEF Evalsha, InRedis
  <2>2. CASE Answered(r, request[r].now)
    <3>1. BucketPart'
      BY <1>4, <2>1, <2>2, Zenon DEF Answered
    <3>2. PICK pc \in Answers : GoTo(r, pc)
      BY <2>2, Zenon DEF Answered, Answers
    <3> QED
      BY <1>2, <2>1, <3>1, <3>2, Moved, Zenon
  <2>3. CASE GoTo(r, "eval") /\ UNCHANGED <<bucket, granted>>
    <3>1. "eval" \in InRedis
      BY Zenon DEF InRedis
    <3> QED
      BY <1>2, <1>3, <2>1, <2>3, <3>1, Moved, Zenon
  <2> QED
    BY <1>7, <2>2, <2>3, Zenon DEF Evalsha
<1>8. ASSUME NEW r \in Requests, Eval(r) PROVE IInv'
  <2>1. clock' = clock /\ Rest' /\ request[r].pc \in InRedis
    BY <1>1, <1>8, Zenon DEF Eval, InRedis
  <2>2. BucketPart'
    BY <1>4, <1>8, <2>1, Zenon DEF Eval, Answered
  <2>3. PICK pc \in Answers : GoTo(r, pc)
    BY <1>8, Zenon DEF Eval, Answered, Answers
  <2> QED
    BY <1>2, <2>1, <2>2, <2>3, Moved, Zenon
<1>9. ASSUME NEW r \in Requests, CallFails(r) PROVE IInv'
  <2>1. clock' = clock /\ redis' = redis /\ sha' = sha /\ loaded' = loaded
        /\ request[r].pc \in InRedis
    BY <1>9, Zenon DEF CallFails
  <2>2. faults' \in 0..MaxFaults
    BY <1>1, <1>9, BoundsAssumption DEF CallFails
  <2>3. Rest'
    BY <1>1, <2>1, <2>2, Zenon
  <2>4. BucketPart'
    BY <1>3, <1>4, <1>9, <2>1, Zenon DEF CallFails
  <2>5. PICK pc \in InRedis \cup Answers : GoTo(r, pc)
    BY <1>9, Zenon DEF CallFails, InRedis, Answers
  <2> QED
    BY <1>2, <2>1, <2>3, <2>4, <2>5, Moved, Zenon
<1>10. ASSUME Tick PROVE IInv'
  <2>1. /\ clock' = clock + 1 /\ clock' \in 0..MaxTime /\ clock \in Nat
        /\ \A r \in Requests : request[r].pc \in InRedis => clock - request[r].now < MaxDelay
    BY <1>1, <1>10, Quantities DEF Tick
  <2>2. UNCHANGED <<redis, bucket, sha, loaded, request, granted, faults>>
    BY <1>10 DEF Tick
  <2>3. Rest' /\ RequestType' /\ BucketType' /\ (granted \in Seq(0..MaxTime))'
    BY <1>1, <2>1, <2>2, Zenon
  <2>4. Prompt'
    <3>1. SUFFICES ASSUME NEW r \in Requests, request[r].pc \in InRedis
                   PROVE  request[r].now <= clock' /\ clock' <= request[r].now + MaxDelay
      BY <2>2, Zenon DEF Prompt
    <3>2. request[r].now \in Nat /\ request[r].now <= clock
      BY <1>1, <3>1 DEF Prompt
    <3>3. clock - request[r].now < MaxDelay
      BY <2>1, <3>1
    <3> QED
      BY <2>1, <3>2, <3>3, Quantities
  <2>5. Past'
    <3>1. Count \in Nat /\ bucket.at \in Nat /\ \A i \in 1..Count : granted[i] \in Nat
      BY <1>1, GrantedShape DEF TypeOK
    <3>2. Count' = Count
      BY <2>2 DEF Count
    <3>3. \A i \in 1..Count : granted[i] <= clock'
      BY <1>1, <2>1, <3>1 DEF Past
    <3>4. bucket.at <= clock => bucket.at <= clock'
      BY <2>1, <3>1
    <3> QED
      BY <1>1, <2>2, <3>2, <3>3, <3>4, Zenon DEF Past
  <2>6. Accounts'
    <3>1. Count' = Count
      BY <2>2 DEF Count
    <3>2. \A i, j : (Charged(i, j) <=> Charged(i, j)') /\ (Pause(i, j) <=> Pause(i, j)')
      BY <2>2, Zenon DEF Charged, Pause
    <3>3. \A i : Balanced(i) <=> Balanced(i)'
      BY <2>2, <3>1, Zenon DEF Balanced
    <3>4. ASSUME NEW i \in 1..Count, granted[Count] + Minute <= clock
          PROVE  granted'[Count] + Minute <= clock'
      <4>1. granted[Count] \in Nat
        BY <1>1, GrantedShape
      <4> QED
        BY <2>1, <2>2, <3>4, <4>1, Quantities
    <3> QED
      BY <1>1, <3>1, <3>2, <3>3, <3>4, Zenon DEF Accounts
  <2> QED
    BY <1>2, <2>3, <2>4, <2>5, <2>6, Zenon
<1>11. ASSUME Expire PROVE IInv'
  <2>1. bucket' = NoBucket /\ bucket.present /\ clock >= bucket.used + Minute
    BY <1>11 DEF Expire
  <2>2. UNCHANGED <<redis, clock, sha, loaded, request, granted, faults>>
    BY <1>11 DEF Expire
  <2>3. Rest' /\ RequestType' /\ Prompt' /\ (granted \in Seq(0..MaxTime))'
    BY <1>1, <2>2, Zenon DEF Prompt
  <2>4. BucketType' /\ ~bucket'.present
    <3>1. 0 \in 0..MaxTime /\ Full \in 0..Full
      BY Quantities
    <3> QED
      BY <2>1, <3>1 DEF NoBucket
  <2>5. Past'
    BY <1>1, <2>2, <2>4, Zenon DEF Past, Count
  <2>6. Accounts'
    <3>1. Count' = Count
      BY <2>2 DEF Count
    <3>2. \A i, j : (Charged(i, j) <=> Charged(i, j)') /\ (Pause(i, j) <=> Pause(i, j)')
      BY <2>2, Zenon DEF Charged, Pause
    <3>3. ASSUME NEW i \in 1..Count PROVE granted'[Count] + Minute <= clock'
      <4>1. Count \in 1..Count /\ granted[Count] \in Nat /\ bucket.used \in Nat /\ clock \in Nat
        BY <1>1, GrantedShape DEF TypeOK
      <4>2. granted[Count] <= bucket.used
        BY <1>1, <2>1, <4>1, Zenon DEF Past
      <4> QED
        BY <2>1, <2>2, <4>1, <4>2, Quantities
    <3> QED
      BY <1>1, <3>1, <3>2, <3>3, Zenon DEF Accounts
  <2> QED
    BY <1>2, <2>3, <2>4, <2>5, <2>6, Zenon
<1>12. ASSUME RestartRedis PROVE IInv'
  <2>1. UNCHANGED <<redis, clock, sha, request>> /\ loaded' = FALSE
    BY <1>12 DEF RestartRedis
  <2>2. faults' \in 0..MaxFaults
    BY <1>1, <1>12, BoundsAssumption DEF RestartRedis
  <2>3. Rest' /\ RequestType' /\ Prompt'
    BY <1>1, <2>1, <2>2, Zenon DEF Prompt
  <2>4. BucketPart'
    BY <1>3, <1>12, <2>1, Forgotten, Zenon DEF RestartRedis
  <2> QED
    BY <1>2, <2>3, <2>4, Zenon
<1>13. ASSUME RestartApi PROVE IInv'
  <2>1. /\ UNCHANGED <<redis, clock, loaded>> /\ sha' = FALSE
        /\ request' = [r \in Requests |->
             IF request[r].pc \in InRedis THEN [request[r] EXCEPT !.pc = "lost"] ELSE request[r]]
    BY <1>13 DEF RestartApi
  <2>2. faults' \in 0..MaxFaults
    BY <1>1, <1>13, BoundsAssumption DEF RestartApi
  <2>3. Rest'
    BY <1>1, <2>1, <2>2, Zenon
  <2>4. BucketPart'
    BY <1>3, <1>13, <2>1, Forgotten, Zenon DEF RestartApi
  <2>5. ASSUME NEW r \in Requests
        PROVE  /\ request'[r] \in [pc : {"new"} \cup InRedis \cup Answers, now : 0..MaxTime]
               /\ request'[r].pc \in InRedis => request'[r] = request[r]
    <3>1. request[r] \in [pc : {"new"} \cup InRedis \cup Answers, now : 0..MaxTime]
      BY <1>1
    <3>2. CASE request[r].pc \in InRedis
      <4>1. request'[r] = [request[r] EXCEPT !.pc = "lost"]
        BY <2>1, <3>2, Zenon
      <4>2. request'[r] = [pc |-> "lost", now |-> request[r].now]
        BY <3>1, <4>1
      <4> QED
        BY <3>1, <4>2 DEF InRedis, Answers
    <3>3. CASE request[r].pc \notin InRedis
      <4>1. request'[r] = request[r]
        BY <2>1, <3>3, Zenon
      <4> QED
        BY <3>1, <4>1
    <3> QED
      BY <3>2, <3>3
  <2>6. RequestType'
    BY <2>1, <2>5, Zenon
  <2>7. Prompt'
    BY <1>1, <2>1, <2>5, Zenon DEF Prompt
  <2> QED
    BY <1>2, <2>3, <2>4, <2>6, <2>7, Zenon
<1>14. ASSUME UNCHANGED vars PROVE IInv'
  <2>1. UNCHANGED <<redis, sha, loaded, clock, faults, request>> /\ UNCHANGED <<bucket, granted, clock>>
    BY <1>14, Zenon DEF vars
  <2>2. Rest' /\ RequestType' /\ Prompt'
    BY <1>1, <2>1, Zenon DEF Prompt
  <2> QED
    BY <1>2, <1>3, <2>1, <2>2, Zenon
<1> QED
  BY <1>5, <1>6, <1>7, <1>8, <1>9, <1>10, <1>11, <1>12, <1>13, <1>14, Zenon DEF Next

LEMMA Invariance == Spec => []IInv
BY InitIInv, NextIInv, PTL DEF Spec

(***************************************************************************)
(* The theorems.                                                           *)
(***************************************************************************)
\* The limiter keeps the types of its state, and a bucket is never fuller than
\* its capacity nor emptier than nothing: what the script and localConsume of
\* rateLimiter.ts write back is a level of the bucket, whatever the order in
\* which requests reach it.
THEOREM Types == Spec => []TypeOK
<1>1. IInv => TypeOK
  BY DEF IInv
<1> QED
  BY <1>1, Invariance, PTL

\* In every span of up to a minute since a restart last lost it, the bucket of
\* rateLimiter.ts gives no more tokens than a full one and the refill of the
\* span, though clocks are read before a call that may take MaxDelay, scripts run
\* in any order, calls fail after Redis has run them, and the bucket's key
\* expires. It says nothing of the requests that an error lets through without a
\* token, which the code does not limit, nor of a span across such a restart.
THEOREM Limit == Spec => []WithinLimit
<1>1. IInv => WithinLimit
  BY LimitKept
<1> QED
  BY <1>1, Invariance, PTL

(***************************************************************************)
(* Refusals. Since the last time the bucket was full, it has lost nothing  *)
(* but the tokens it gave: only the cap of a refill takes parts away, and  *)
(* a full bucket gives a token at once, which is the grant to count from.  *)
(***************************************************************************)
UsedUp(i) ==
  Full + (bucket.at - granted[i]) * Capacity <= (Count - i + 1) * Token + bucket.tokens

Drawn == bucket.present => \E i \in 1..Count : UsedUp(i)

\* A refill fills the bucket, or loses nothing of what the time has brought.
LEMMA RefilledExactly ==
  ASSUME TypeOK, NEW now \in 0..MaxTime
  PROVE  \/ Refilled(now).tokens = Full /\ Refilled(now).at = now
         \/ /\ bucket.present
            /\ Refilled(now).tokens = bucket.tokens + (Refilled(now).at - bucket.at) * Capacity
<1>1. bucket.tokens \in 0..Full /\ bucket.at \in 0..MaxTime /\ bucket.present \in BOOLEAN
  BY DEF TypeOK
<1>2. CASE ~bucket.present
  <2>1. Refilled(now) = [tokens |-> Full, at |-> now]
    BY <1>2, Zenon DEF Refilled
  <2> QED
    BY <2>1
<1>3. CASE bucket.present /\ now > bucket.at
  <2>1. PICK sum : sum = bucket.tokens + (now - bucket.at) * Capacity
    OBVIOUS
  <2>2. Refilled(now) = [tokens |-> IF sum < Full THEN sum ELSE Full, at |-> now]
    BY <1>3, <2>1, Zenon DEF Refilled
  <2>3. Refilled(now).at = now /\ Refilled(now).tokens \in {sum, Full}
    BY <2>2
  <2> QED
    BY <1>3, <2>1, <2>3, Zenon
<1>4. CASE bucket.present /\ ~(now > bucket.at)
  <2>1. Refilled(now) = [tokens |-> bucket.tokens, at |-> bucket.at]
    BY <1>4, Zenon DEF Refilled
  <2>2. (bucket.at - bucket.at) * Capacity = 0
    BY <1>1, Quantities
  <2> QED
    BY <1>1, <1>4, <2>1, <2>2
<1> QED
  BY <1>1, <1>2, <1>3, <1>4

\* What was used up still is after such a refill.
LEMMA StillUsedUp ==
  ASSUME IInv, NEW i \in 1..Count, UsedUp(i), NEW at \in Int, NEW tok \in Int,
         tok = bucket.tokens + (at - bucket.at) * Capacity
  PROVE  Full + (at - granted[i]) * Capacity <= (Count - i + 1) * Token + tok
<1>1. /\ bucket.at \in Int /\ bucket.tokens \in Int /\ granted[i] \in Int /\ Count \in Nat
      /\ Full \in Int
  BY GrantedShape, Quantities, SMTT(20) DEF IInv, TypeOK
<1>2. /\ (at - granted[i]) * Capacity
           = (bucket.at - granted[i]) * Capacity + (at - bucket.at) * Capacity
      /\ (bucket.at - granted[i]) * Capacity \in Int
      /\ (at - bucket.at) * Capacity \in Int
  <2>1. /\ bucket.at - granted[i] \in Int /\ at - bucket.at \in Int /\ Capacity \in Nat
        /\ (bucket.at - granted[i]) + (at - bucket.at) = at - granted[i]
    BY <1>1, Quantities
  <2> QED
    BY <2>1, Product
<1>3. (Count - i + 1) * Token \in Int
  BY <1>1, Quantities, Product
<1>4. Full + (bucket.at - granted[i]) * Capacity <= (Count - i + 1) * Token + bucket.tokens
  BY DEF UsedUp
<1> QED
  BY <1>1, <1>2, <1>3, <1>4

\* Whatever a script does, it leaves a bucket that has been drawn from.
LEMMA DrawnByScript ==
  ASSUME IInv, Drawn, NEW now \in 0..MaxTime, now <= clock, Consume(now)
  PROVE  Drawn'
<1>1. TypeOK
  BY DEF IInv
<1>2. PICK at \in 0..MaxTime : at = Refilled(now).at
  BY <1>1, RefilledSound
<1>3. PICK tok \in 0..Full : tok = Refilled(now).tokens
  BY <1>1, RefilledSound
<1>4. PICK given : given = IF HasToken(now) THEN Token ELSE 0
  OBVIOUS
<1>5. bucket' = [present |-> TRUE, at |-> at, used |-> clock, tokens |-> tok - given]
  BY <1>2, <1>3, <1>4, Zenon DEF Consume
<1>6. bucket'.at = at /\ bucket'.tokens = tok - given
  BY <1>5
<1>7. PICK n \in Nat : n = Count
  BY <1>1, GrantedShape
<1>8. \A k \in 1..n : granted[k] \in Int
  BY <1>1, <1>7, GrantedShape
<1>9. CASE HasToken(now)
  <2>1. granted' = Append(granted, clock)
    BY <1>9, Zenon DEF Consume
  <2>2. /\ Len(granted') = n + 1 /\ granted'[n + 1] = clock
        /\ \A k \in 1..n : granted'[k] = granted[k]
    <3>1. granted \in Seq(0..MaxTime) /\ n = Len(granted) /\ clock \in 0..MaxTime
      BY <1>1, <1>7 DEF TypeOK, Count
    <3> QED
      BY <2>1, <3>1, AppendProperties
  <2>3. Count' = n + 1 /\ given = Token
    BY <1>4, <1>9, <2>2 DEF Count
  <2>4. CASE tok = Full /\ at = now
    <3>1. (at - clock) * Capacity <= 0 /\ (at - clock) * Capacity \in Int
      <4>1. at - clock \in Int /\ at - clock <= 0 /\ 0 \in Int /\ 0 * Capacity = 0 /\ Capacity \in Nat
        BY <1>1, <2>4, Quantities DEF TypeOK
      <4> QED
        BY <4>1, Product
    <3>2. ((n + 1) - (n + 1) + 1) * Token = Token
      BY Quantities
    <3>3. Full + (at - clock) * Capacity <= ((n + 1) - (n + 1) + 1) * Token + (tok - Token)
      BY <2>4, <3>1, <3>2, Quantities
    <3>4. UsedUp(n + 1)'
      BY <1>6, <2>2, <2>3, <3>3, Zenon DEF UsedUp
    <3>5. n + 1 \in 1..(n + 1)
      BY <1>7
    <3> QED
      BY <2>3, <3>4, <3>5, Zenon DEF Drawn
  <2>5. CASE bucket.present /\ tok = bucket.tokens + (at - bucket.at) * Capacity
    <3>1. PICK i \in 1..n : UsedUp(i)
      BY <1>7, <2>5, Zenon DEF Drawn
    <3>2. Full + (at - granted[i]) * Capacity <= (n - i + 1) * Token + tok
      <4>1. at \in Int /\ tok \in Int
        BY Quantities
      <4> QED
        BY <1>7, <2>5, <3>1, <4>1, StillUsedUp
    <3>3. ((n + 1) - i + 1) * Token = (n - i + 1) * Token + Token /\ (n - i + 1) * Token \in Int
      <4>1. /\ n - i + 1 \in Int /\ 1 \in Int /\ Token \in Nat
            /\ (n + 1) - i + 1 = (n - i + 1) + 1 /\ 1 * Token = Token
        BY <1>7, Quantities
      <4> QED
        BY <4>1, Product
    <3>4. (at - granted[i]) * Capacity \in Int
      <4>1. at - granted[i] \in Int /\ Capacity \in Nat
        BY <1>8, Quantities
      <4> QED
        BY <4>1, Product
    <3>5. Full + (at - granted[i]) * Capacity <= ((n + 1) - i + 1) * Token + (tok - Token)
      BY <3>2, <3>3, <3>4, Quantities
    <3>6. UsedUp(i)' /\ i \in 1..(n + 1)
      <4>1. UsedUp(i)'
        BY <1>6, <2>2, <2>3, <3>5, Zenon DEF UsedUp
      <4> QED
        BY <1>7, <4>1
    <3> QED
      BY <2>3, <3>6, Zenon DEF Drawn
  <2> QED
    BY <1>1, <1>2, <1>3, <2>4, <2>5, RefilledExactly
<1>10. CASE ~HasToken(now)
  <2>1. granted' = granted /\ given = 0
    BY <1>4, <1>10, Zenon DEF Consume
  <2>2. bucket.present /\ tok = bucket.tokens + (at - bucket.at) * Capacity
    <3>1. tok # Full
      <4>1. ~(tok >= Token) /\ Full >= Token
        <5>1. \A c, m \in Nat \ {0} : c * m >= m
          OBVIOUS
        <5> QED
          BY <1>3, <1>10, <5>1, Quantities DEF HasToken, Full, Token
      <4> QED
        BY <4>1, Quantities
    <3> QED
      BY <1>1, <1>2, <1>3, <3>1, RefilledExactly
  <2>3. PICK i \in 1..n : UsedUp(i)
    BY <1>7, <2>2, Zenon DEF Drawn
  <2>4. Full + (at - granted[i]) * Capacity <= (n - i + 1) * Token + tok
    <3>1. at \in Int /\ tok \in Int
      BY Quantities
    <3> QED
      BY <1>7, <2>2, <2>3, <3>1, StillUsedUp
  <2>5. bucket'.tokens = tok /\ Count' = n
    BY <1>6, <1>7, <2>1, Quantities DEF Count
  <2>6. UsedUp(i)'
    BY <1>6, <2>1, <2>4, <2>5, Zenon DEF UsedUp
  <2> QED
    BY <2>3, <2>5, <2>6, Zenon DEF Drawn
<1> QED
  BY <1>9, <1>10

\* A script that finds no token finds what was full used up.
LEMMA NoTokenLeft ==
  ASSUME IInv, Drawn, NEW now \in 0..MaxTime, clock <= now + MaxDelay, ~HasToken(now)
  PROVE  \E i \in DOMAIN granted :
           Full + (clock - granted[i]) * Capacity
             < (Len(granted) - i + 2) * Token + MaxDelay * Capacity
<1>1. TypeOK
  BY DEF IInv
<1>2. PICK at \in 0..MaxTime : at = Refilled(now).at
  BY <1>1, RefilledSound
<1>3. PICK tok \in 0..Full : tok = Refilled(now).tokens
  BY <1>1, RefilledSound
<1>4. tok < Token /\ tok # Full
  <2>1. Full >= Token
    <3>1. \A c, m \in Nat \ {0} : c * m >= m
      OBVIOUS
    <3> QED
      BY <3>1, Quantities DEF Full, Token
  <2> QED
    BY <1>3, <2>1, Quantities DEF HasToken
<1>5. bucket.present /\ tok = bucket.tokens + (at - bucket.at) * Capacity
  BY <1>1, <1>2, <1>3, <1>4, RefilledExactly
<1>6. PICK i \in 1..Count : UsedUp(i)
  BY <1>5, Zenon DEF Drawn
<1>7. /\ Count \in Nat /\ DOMAIN granted = 1..Count /\ granted[i] \in Int /\ clock \in Int
      /\ at \in Int /\ tok \in Int
  BY <1>1, GrantedShape, Quantities DEF TypeOK
<1>8. Full + (at - granted[i]) * Capacity <= (Count - i + 1) * Token + tok
  BY <1>5, <1>6, <1>7, StillUsedUp
<1>9. /\ (clock - granted[i]) * Capacity <= (at - granted[i]) * Capacity + MaxDelay * Capacity
      /\ (clock - granted[i]) * Capacity \in Int /\ (at - granted[i]) * Capacity \in Int
      /\ MaxDelay * Capacity \in Int
  <2>1. now <= at
    BY <1>1, <1>2, RefilledSound, Zenon
  <2>2. clock <= at + MaxDelay
    BY <1>7, <2>1, Quantities
  <2>3. \A c, a, g, d \in Int : c <= a + d => c - g <= (a - g) + d
    OBVIOUS
  <2>4. /\ clock - granted[i] \in Int /\ at - granted[i] \in Int /\ MaxDelay \in Int
        /\ (at - granted[i]) + MaxDelay \in Int /\ Capacity \in Nat
        /\ clock - granted[i] <= (at - granted[i]) + MaxDelay
    BY <1>7, <2>2, <2>3, Quantities
  <2> QED
    BY <2>4, Product
<1>10. (Count - i + 2) * Token = (Count - i + 1) * Token + Token /\ (Count - i + 1) * Token \in Int
  <2>1. /\ Count - i + 1 \in Int /\ 1 \in Int /\ Token \in Nat
        /\ Count - i + 2 = (Count - i + 1) + 1 /\ 1 * Token = Token
    BY <1>7, Quantities
  <2> QED
    BY <2>1, Product
<1>11. Full + (clock - granted[i]) * Capacity < (Count - i + 2) * Token + MaxDelay * Capacity
  <2>1. \A full, c, a, d, k, t, u \in Int :
          full + a <= k + t /\ c <= a + d /\ t < u => full + c < (k + u) + d
    OBVIOUS
  <2>2. Full \in Int /\ Token \in Int
    BY Quantities
  <2> QED
    BY <1>4, <1>7, <1>8, <1>9, <1>10, <2>1, <2>2, Zenon
<1> QED
  BY <1>7, <1>11, Zenon DEF Count

\* A step in which nobody's bucket is touched, or it is lost.
LEMMA DrawnQuiet ==
  ASSUME Drawn, UNCHANGED <<bucket, granted>> \/ bucket' = NoBucket
  PROVE  Drawn'
<1>1. CASE UNCHANGED <<bucket, granted>>
  BY <1>1, Zenon DEF Drawn, UsedUp, Count
<1>2. CASE bucket' = NoBucket
  <2>1. ~bucket'.present
    BY <1>2 DEF NoBucket
  <2> QED
    BY <2>1, Zenon DEF Drawn
<1> QED
  BY <1>1, <1>2

\* The clocks with which a step may run the script.
LEMMA Clocks ==
  ASSUME IInv, NEW r \in Requests
  PROVE  /\ clock \in 0..MaxTime /\ clock <= clock /\ clock <= clock + MaxDelay
         /\ request[r].pc \in InRedis =>
              /\ request[r].now \in 0..MaxTime
              /\ request[r].now <= clock /\ clock <= request[r].now + MaxDelay
<1>1. TypeOK /\ Prompt
  BY DEF IInv
<1>2. clock \in 0..MaxTime /\ request[r].now \in 0..MaxTime
  BY <1>1 DEF TypeOK
<1> QED
  BY <1>1, <1>2, Quantities DEF Prompt

LEMMA NextDrawn == IInv /\ Drawn /\ [Next]_vars => Drawn'
<1> SUFFICES ASSUME IInv, Drawn, [Next]_vars PROVE Drawn'
  OBVIOUS
<1>1. ASSUME NEW r \in Requests,
             \/ Answered(r, clock)
             \/ request[r].pc \in InRedis /\ Consume(request[r].now)
      PROVE  Drawn'
  BY <1>1, Clocks, DrawnByScript, Zenon DEF Answered
<1>2. ASSUME NEW r \in Requests, Arrive(r) \/ Load(r) \/ Evalsha(r) \/ Eval(r) \/ CallFails(r)
      PROVE  Drawn'
  <2>1. CASE Arrive(r)
    BY <1>1, <2>1, DrawnQuiet, Zenon DEF Arrive
  <2>2. CASE Load(r)
    BY <2>2, DrawnQuiet, Zenon DEF Load
  <2>3. CASE Evalsha(r)
    BY <1>1, <2>3, DrawnQuiet, Zenon DEF Evalsha, Answered, InRedis
  <2>4. CASE Eval(r)
    BY <1>1, <2>4, Zenon DEF Eval, Answered, InRedis
  <2>5. CASE CallFails(r)
    BY <1>1, <2>5, DrawnQuiet, Zenon DEF CallFails
  <2> QED
    BY <1>2, <2>1, <2>2, <2>3, <2>4, <2>5
<1>3. CASE Tick \/ Expire \/ RestartRedis \/ RestartApi \/ UNCHANGED vars
  BY <1>3, DrawnQuiet, Zenon DEF Tick, Expire, RestartRedis, RestartApi, Forget, vars
<1> QED
  BY <1>2, <1>3, Zenon DEF Next

LEMMA InitDrawn == Init => Drawn
BY DEF Init, Drawn, NoBucket

\* Only a script that finds no token refuses a request.
LEMMA RefusedByScript ==
  ASSUME IInv, [Next]_vars, NEW r \in Requests, ~Refused(r), Refused(r)'
  PROVE  \E now \in 0..MaxTime : clock <= now + MaxDelay /\ ~HasToken(now)
<1>1. request \in [Requests -> [pc : {"new"} \cup InRedis \cup Answers, now : 0..MaxTime]]
  BY DEF IInv, TypeOK
<1>2. ASSUME NEW q \in Requests, NEW pc, GoTo(q, pc) PROVE q = r /\ pc = "refused"
  BY <1>1, <1>2 DEF GoTo, Refused
<1>3. ASSUME NEW q \in Requests, NEW now, Answered(q, now) PROVE q = r /\ ~HasToken(now)
  <2>1. PICK pc : pc = IF HasToken(now) THEN "allowed" ELSE "refused"
    OBVIOUS
  <2>2. GoTo(q, pc)
    BY <1>3, <2>1, Zenon DEF Answered
  <2>3. q = r /\ pc = "refused"
    BY <1>2, <2>2
  <2> QED
    BY <2>1, <2>3
<1>4. ASSUME NEW q \in Requests, Arrive(q) PROVE ~HasToken(clock)
  <2>1. \A pc \in {"evalsha", "load"} : ~GoTo(q, pc)
    BY <1>2
  <2> QED
    BY <1>3, <1>4, <2>1, Zenon DEF Arrive
<1>5. ASSUME NEW q \in Requests, Evalsha(q) \/ Eval(q)
      PROVE  request[q].pc \in InRedis /\ ~HasToken(request[q].now)
  <2>1. ~GoTo(q, "eval")
    BY <1>2
  <2> QED
    BY <1>3, <1>5, <2>1, Zenon DEF Evalsha, Eval, InRedis
<1>6. ASSUME NEW q \in Requests, Load(q) \/ CallFails(q) PROVE FALSE
  <2>1. \A pc \in {"evalsha", "eval", "degraded"} : ~GoTo(q, pc)
    BY <1>2
  <2> QED
    BY <1>6, <2>1, Zenon DEF Load, CallFails
<1>7. ASSUME RestartApi PROVE FALSE
  <2>1. request'[r] = IF request[r].pc \in InRedis THEN [request[r] EXCEPT !.pc = "lost"] ELSE request[r]
    BY <1>7, Zenon DEF RestartApi
  <2>2. [request[r] EXCEPT !.pc = "lost"].pc = "lost"
    BY <1>1
  <2> QED
    BY <2>1, <2>2 DEF Refused
<1>8. ASSUME request' = request PROVE FALSE
  BY <1>8 DEF Refused
<1>9. Tick \/ Expire \/ RestartRedis \/ UNCHANGED vars => request' = request
  BY Zenon DEF Tick, Expire, RestartRedis, vars
<1>10. PICK q \in Requests : Arrive(q) \/ Evalsha(q) \/ Eval(q)
  BY <1>6, <1>7, <1>8, <1>9, Zenon DEF Next
<1>11. CASE Arrive(q)
  BY <1>4, <1>11, Clocks, Zenon
<1>12. CASE Evalsha(q) \/ Eval(q)
  BY <1>5, <1>12, Clocks, Zenon
<1> QED
  BY <1>10, <1>11, <1>12

\* A request that consume of rateLimiter.ts refuses comes after a full bucket
\* and the refill since then, for any capacity, delays, failing calls, expiries
\* and restarts: neither a refused request nor a script that runs late, twice or
\* out of order takes anything from the refill.
THEOREM Refusals == Spec => RefusedOverLimit
<1> DEFINE Earned ==
      \A r \in Requests : ~Refused(r) /\ Refused(r)' =>
        \E i \in DOMAIN granted :
          Full + (clock - granted[i]) * Capacity
            < (Len(granted) - i + 2) * Token + MaxDelay * Capacity
<1>1. IInv /\ Drawn /\ [Next]_vars => Earned
  BY RefusedByScript, NoTokenLeft, Zenon
<1>2. Init => IInv /\ Drawn
  BY InitIInv, InitDrawn
<1>3. IInv /\ Drawn /\ [Next]_vars => (IInv /\ Drawn)'
  BY NextIInv, NextDrawn
<1>4. IInv /\ Drawn /\ [Next]_vars => [Earned]_vars
  BY <1>1
<1> HIDE DEF Earned
<1>5. Spec => [][Earned]_vars
  BY <1>2, <1>3, <1>4, PTL DEF Spec
<1> QED
  BY <1>5, Zenon DEF RefusedOverLimit, Earned

=============================================================================
