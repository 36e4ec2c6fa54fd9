------------------------------ MODULE McpProofs ------------------------------
(***************************************************************************)
(* The MCP server: the limiter's lazy refill is exact, a call leaves no    *)
(* key or button pressed unless its release got lost, and a read of the    *)
(* clipboard returns what came while it waited, for every value of the     *)
(* constants.                                                              *)
(***************************************************************************)
EXTENDS McpServer, TLAPS

-----------------------------------------------------------------------------
(* The limiter *)

\* Division with remainder, as far as the limiter needs it.
LEMMA DivMod ==
  ASSUME NEW r \in Nat, r > 0, NEW a \in Nat
  PROVE  a \div r \in Nat /\ a % r \in Nat /\ a % r < r /\ a = r * (a \div r) + (a % r)
<1>1. a \div r \in Nat
  OBVIOUS
<1>2. a % r \in 0..(r - 1)
  OBVIOUS
<1>3. a % r = a - r * (a \div r)
  OBVIOUS
<1>4. r * (a \div r) \in Nat
  BY <1>1
<1> QED
  BY <1>1, <1>2, <1>3, <1>4

\* A number written as a multiple of r and a rest below r has that quotient and that rest.
LEMMA DivModOf ==
  ASSUME NEW r \in Nat, r > 0, NEW q \in Nat, NEW p \in Nat, p < r
  PROVE  (r * q + p) \div r = q /\ (r * q + p) % r = p
<1>1. (r * q + p) \div r = q
  OBVIOUS
<1>2. (r * q + p) % r = p
  OBVIOUS
<1> QED
  BY <1>1, <1>2

\* The same for a number below r, and for r itself.
LEMMA SmallMod ==
  ASSUME NEW r \in Nat, r > 0, NEW p \in Nat, p < r
  PROVE  p \div r = 0 /\ p % r = p /\ r % r = 0
<1>1. r * 0 + p = p /\ r * 1 + 0 = r
  OBVIOUS
<1>2. (r * 0 + p) \div r = 0 /\ (r * 0 + p) % r = p /\ (r * 1 + 0) % r = 0
  BY DivModOf
<1> QED
  BY <1>1, <1>2

\* A multiple of r is written in one way only.
LEMMA DivUnique ==
  ASSUME NEW r \in Nat, r > 0, NEW q \in Nat, NEW s \in Nat, NEW p \in Nat, p < r, r * q + p = r * s
  PROVE  q = s /\ p = 0
<1>1. (r * q + p) \div r = q /\ (r * q + p) % r = p
  BY DivModOf
<1>2. (r * s + 0) \div r = s /\ (r * s + 0) % r = 0
  BY DivModOf
<1>3. r * s + 0 = r * q + p
  OBVIOUS
<1> QED
  BY <1>1, <1>2, <1>3

\* The bucket that is refilled at every tick is where the lazy one would be if it were asked now.
LimiterInv ==
  /\ LimiterTypeOK
  /\ \A c \in Caps : phase[c] = refill_age[c] % refill_every
  /\ LazyRefillIsExact

\* One tick of one bucket: a is the age, t the tokens and x what the other bucket holds.
LEMMA OneTick ==
  ASSUME NEW a \in Nat, a < refill_every * (burst + 1), NEW t \in 0..burst
  PROVE  LET n == Fold(a + 1)
             p == a % refill_every
             x == AtMost(t + (a \div refill_every), burst)
             y == IF p + 1 = refill_every THEN AtMost(x + 1, burst) ELSE x
         IN  /\ n \in 0..(refill_every * (burst + 1) - 1)
             /\ (p + 1) % refill_every = n % refill_every /\ (p + 1) % refill_every \in 0..(refill_every - 1)
             /\ y \in 0..burst /\ y = AtMost(t + (n \div refill_every), burst)
<1> DEFINE r == refill_every
           b == burst
           n == Fold(a + 1)
           p == a % r
           x == AtMost(t + (a \div r), b)
           y == IF p + 1 = r THEN AtMost(x + 1, b) ELSE x
<1> SUFFICES /\ n \in 0..(r * (b + 1) - 1) /\ (p + 1) % r = n % r /\ (p + 1) % r \in 0..(r - 1)
             /\ y \in 0..b /\ y = AtMost(t + (n \div r), b)
  OBVIOUS
<1>a. r \in Nat /\ r > 0 /\ b \in Nat /\ b > 0 /\ a < r * (b + 1) /\ t \in 0..b
  BY LimiterAssumption
<1>b. /\ p = a % r /\ x = AtMost(t + (a \div r), b)
      /\ y = IF p + 1 = r THEN AtMost(x + 1, b) ELSE x
  OBVIOUS
<1>c. \A m : Fold(m) = IF m < r * (b + 1) THEN m ELSE m - r
  BY Zenon DEF Fold
<1> HIDE DEF r, b, n, p, x, y
<1>d. n = IF a + 1 < r * (b + 1) THEN a + 1 ELSE (a + 1) - r
  <2>1. n = Fold(a + 1)
    BY DEF n
  <2> DEFINE m == a + 1
             e == IF m < r * (b + 1) THEN m ELSE m - r
  <2>2. Fold(m) = e
    BY <1>c
  <2>3. n = e
    BY <2>1, <2>2
  <2> QED
    BY <2>3
<1> USE <1>a, <1>b, <1>d
<1> DEFINE q == a \div r
<1>1. q \in Nat /\ p \in Nat /\ p < r /\ a = r * q + p
  BY DivMod
<1>2. r * q \in Nat /\ r * (b + 1) \in Nat /\ r * (b + 1) = r * b + r /\ r * b \in Nat /\ r * (q + 1) = r * q + r
  BY <1>1
<1>3. x = AtMost(t + q, b) /\ x \in 0..b
  BY <1>1 DEF AtMost
<1> HIDE DEF q
<1>4. CASE p + 1 < r
  <2>1. a + 1 = r * q + (p + 1)
    BY <1>1, <1>2
  <2>2. (a + 1) \div r = q /\ (a + 1) % r = p + 1
    BY <1>1, <1>4, <2>1, DivModOf
  <2>3. a + 1 # r * (b + 1)
    BY <1>1, <1>4, <2>1, DivUnique
  <2>4. a + 1 < r * (b + 1)
    BY <1>1, <1>2, <2>3
  <2>5. n = a + 1
    BY <2>4
  <2>6. (p + 1) % r = p + 1
    BY <1>1, <1>4, SmallMod
  <2>7. y = x
    BY <1>1, <1>4
  <2>8. n \in 0..(r * (b + 1) - 1)
    BY <1>2, <2>4, <2>5
  <2>9. /\ (p + 1) % r = n % r /\ (p + 1) % r \in 0..(r - 1)
        /\ y \in 0..b /\ y = AtMost(t + (n \div r), b)
    BY <1>1, <1>3, <1>4, <2>2, <2>5, <2>6, <2>7
  <2> QED
    BY <2>8, <2>9
<1>5. CASE p + 1 = r
  <2>1. a + 1 = r * (q + 1)
    BY <1>1, <1>2, <1>5
  <2>2. (r * (q + 1) + 0) \div r = q + 1 /\ (r * (q + 1) + 0) % r = 0
    BY <1>1, DivModOf
  <2>3. (a + 1) \div r = q + 1 /\ (a + 1) % r = 0
    BY <1>1, <1>2, <2>1, <2>2
  <2>4. (p + 1) % r = 0
    BY <1>1, <1>5, SmallMod
  <2>5. y = AtMost(x + 1, b)
    BY <1>5
  <2>6. CASE a + 1 < r * (b + 1)
    <3>1. n = a + 1 /\ n \in 0..(r * (b + 1) - 1)
      BY <1>2, <2>6
    <3>2. y \in 0..b /\ y = AtMost(t + (q + 1), b)
      BY <1>1, <1>3, <2>5 DEF AtMost
    <3> QED
      BY <2>3, <2>4, <3>1, <3>2
  <2>7. CASE ~(a + 1 < r * (b + 1))
    <3>1. a + 1 = r * (b + 1)
      BY <1>1, <1>2, <2>7
    <3>2. r * (q + 1) + 0 = r * (b + 1)
      BY <1>1, <1>2, <2>1, <3>1
    <3>3. q + 1 = b + 1
      <4>1. q + 1 \in Nat /\ b + 1 \in Nat /\ 0 \in Nat /\ 0 < r
        BY <1>1
      <4> QED
        BY <3>2, <4>1, DivUnique
    <3>4. q = b
      BY <1>1, <3>3
    <3>5. n = r * b + 0
      BY <1>2, <2>7, <3>1
    <3>6. n \div r = b /\ n % r = 0
      <4>1. (r * b + 0) \div r = b /\ (r * b + 0) % r = 0
        BY DivModOf
      <4> QED
        BY <3>5, <4>1
    <3>7. n \in 0..(r * (b + 1) - 1)
      BY <1>2, <3>5
    <3>8. y \in 0..b /\ y = AtMost(t + b, b)
      BY <1>3, <2>5, <3>4 DEF AtMost
    <3> QED
      BY <2>4, <3>6, <3>7, <3>8
  <2> QED
    BY <2>6, <2>7
<1> QED
  BY <1>1, <1>4, <1>5

\* What a step may do to the limiter.
LimiterNext ==
  \/ Tick
  \/ \E c \in Caps : DailyCapReached(c) \/ BucketEmpty(c) \/ Consumed(c)

\* Time passes, and both buckets stay in step.
LEMMA LimiterTicks == LimiterInv /\ Tick => LimiterInv'
<1> SUFFICES ASSUME LimiterInv, Tick
             PROVE  LimiterInv'
  OBVIOUS
<1> DEFINE r == refill_every
           b == burst
           size == refill_every * (burst + 1)
<1>1. r \in Nat /\ r > 0 /\ b \in Nat /\ b > 0 /\ size \in Nat /\ Day \in Nat
  BY LimiterAssumption
<1>2. /\ tokens \in [Caps -> 0..b] /\ day_age \in [Caps -> 0..Day] /\ used_today \in [Caps -> 0..daily_max]
      /\ refill_age \in [Caps -> 0..(size - 1)]
      /\ \A c \in Caps : phase[c] = refill_age[c] % r /\ accrued[c] = AtMost(tokens[c] + (refill_age[c] \div r), b)
  BY DEF LimiterInv, LimiterTypeOK, LazyRefillIsExact, Available, Refilled
<1>3. UNCHANGED <<tokens, used_today>>
  BY DEF Tick
<1>4. /\ refill_age' = [c \in Caps |-> Fold(refill_age[c] + 1)]
      /\ phase' = [c \in Caps |-> (phase[c] + 1) % r]
      /\ accrued' = [c \in Caps |-> IF phase[c] + 1 = r THEN AtMost(accrued[c] + 1, b) ELSE accrued[c]]
  BY DEF Tick
<1>5. day_age' \in [Caps -> 0..Day]
  BY <1>1, <1>2 DEF Tick, AtMost
<1>6. ASSUME NEW c \in Caps
      PROVE  /\ refill_age'[c] \in 0..(size - 1) /\ phase'[c] = refill_age'[c] % r /\ phase'[c] \in 0..(r - 1)
             /\ accrued'[c] \in 0..b /\ accrued'[c] = AtMost(tokens[c] + (refill_age'[c] \div r), b)
  <2>1. refill_age[c] \in Nat /\ refill_age[c] < refill_every * (burst + 1) /\ tokens[c] \in 0..burst
    BY <1>1, <1>2
  <2>2. /\ phase[c] = refill_age[c] % refill_every
        /\ accrued[c] = AtMost(tokens[c] + (refill_age[c] \div refill_every), burst)
    BY <1>2
  <2>3. /\ refill_age'[c] = Fold(refill_age[c] + 1)
        /\ phase'[c] = (phase[c] + 1) % refill_every
        /\ accrued'[c] = IF phase[c] + 1 = refill_every THEN AtMost(accrued[c] + 1, burst) ELSE accrued[c]
    BY <1>4, Zenon
  <2> QED
    BY <2>1, <2>2, <2>3, OneTick, Zenon
<1>7. /\ refill_age' \in [Caps -> 0..(size - 1)] /\ phase' \in [Caps -> 0..(r - 1)] /\ accrued' \in [Caps -> 0..b]
  <2>1. refill_age' = [c \in Caps |-> refill_age'[c]]
    BY <1>4, Zenon
  <2>2. phase' = [c \in Caps |-> phase'[c]]
    BY <1>4, Zenon
  <2>3. accrued' = [c \in Caps |-> accrued'[c]]
    BY <1>4, Zenon
  <2> HIDE DEF size, r, b
  <2> QED
    BY <1>6, <2>1, <2>2, <2>3
<1>8. LimiterTypeOK'
  BY <1>2, <1>3, <1>5, <1>7 DEF LimiterTypeOK
<1>9. LazyRefillIsExact'
  BY <1>3, <1>6 DEF LazyRefillIsExact, Available, Refilled
<1> QED
  BY <1>6, <1>8, <1>9 DEF LimiterInv

\* A call that finds the cap of the day or the bucket, and one that takes a token.
LEMMA LimiterAsked ==
  ASSUME LimiterInv, NEW c \in Caps, DailyCapReached(c) \/ BucketEmpty(c) \/ Consumed(c)
  PROVE  LimiterInv'
<1> DEFINE r == refill_every
           b == burst
           size == refill_every * (burst + 1)
<1>1. r \in Nat /\ r > 0 /\ b \in Nat /\ b > 0 /\ size \in Nat /\ Day \in Nat /\ daily_max \in Nat /\ daily_max > 0
  BY LimiterAssumption
<1>a. size = r * b + r /\ r * b \in Nat
  BY <1>1
<1>2. /\ tokens \in [Caps -> 0..b] /\ day_age \in [Caps -> 0..Day] /\ used_today \in [Caps -> 0..daily_max]
      /\ refill_age \in [Caps -> 0..(size - 1)] /\ phase \in [Caps -> 0..(r - 1)] /\ accrued \in [Caps -> 0..b]
      /\ \A d \in Caps : phase[d] = refill_age[d] % r /\ accrued[d] = AtMost(tokens[d] + (refill_age[d] \div r), b)
  BY DEF LimiterInv, LimiterTypeOK, LazyRefillIsExact, Available, Refilled
<1>3. day_age' \in [Caps -> 0..Day] /\ used_today' \in [Caps -> 0..daily_max]
  <2>1. RolledAge(c) \in 0..Day /\ RolledUse(c) \in 0..daily_max
    BY <1>1, <1>2 DEF RolledAge, RolledUse
  <2>2. ~CapReached(c) => RolledUse(c) + 1 \in 0..daily_max
    BY <1>1, <2>1 DEF CapReached
  <2>3. day_age' = [day_age EXCEPT ![c] = RolledAge(c)]
    BY DEF DailyCapReached, BucketEmpty, Consumed
  <2>4. \/ used_today' = [used_today EXCEPT ![c] = RolledUse(c)]
        \/ ~CapReached(c) /\ used_today' = [used_today EXCEPT ![c] = RolledUse(c) + 1]
    BY DEF DailyCapReached, BucketEmpty, Consumed
  <2> QED
    BY <1>2, <2>1, <2>2, <2>3, <2>4
<1>4. CASE DailyCapReached(c)
  <2>1. UNCHANGED <<tokens, refill_age, accrued, phase>>
    BY <1>4 DEF DailyCapReached
  <2>2. LimiterTypeOK'
    BY <1>2, <1>3, <2>1 DEF LimiterTypeOK
  <2>3. LazyRefillIsExact'
    BY <2>1 DEF LimiterInv, LazyRefillIsExact, Available, Refilled
  <2> QED
    BY <1>2, <2>1, <2>2, <2>3 DEF LimiterInv
<1>5. ASSUME refill_age' = [refill_age EXCEPT ![c] = Remainder(c)], phase' = phase,
             tokens' \in [Caps -> 0..b], accrued' \in [Caps -> 0..b],
             \A d \in Caps \ {c} : tokens'[d] = tokens[d] /\ accrued'[d] = accrued[d],
             tokens'[c] = accrued'[c]
      PROVE  LimiterInv'
  <2>1. refill_age[c] \in Nat
    BY <1>1, <1>2
  <2>2. Remainder(c) \in Nat /\ Remainder(c) < r
    BY <1>1, <2>1, DivMod DEF Remainder
  <2>3. Remainder(c) \in 0..(size - 1)
    BY <1>1, <1>a, <2>2
  <2>4. refill_age' \in [Caps -> 0..(size - 1)]
    BY <1>2, <1>5, <2>3
  <2>5. LimiterTypeOK'
    BY <1>2, <1>3, <1>5, <2>4 DEF LimiterTypeOK
  <2>6. refill_age'[c] % r = Remainder(c) /\ refill_age'[c] \div r = 0 /\ refill_age'[c] = Remainder(c)
    BY <1>1, <1>2, <1>5, <2>2, SmallMod
  <2>7. \A d \in Caps \ {c} : refill_age'[d] = refill_age[d]
    BY <1>2, <1>5
  <2>8. phase'[c] = refill_age'[c] % r
    BY <1>2, <1>5, <2>6 DEF Remainder
  <2>9. accrued'[c] = AtMost(tokens'[c] + (refill_age'[c] \div r), b)
    <3>1. tokens'[c] \in 0..b
      BY <1>5
    <3> QED
      BY <1>1, <1>5, <2>6, <3>1 DEF AtMost
  <2>10. \A d \in Caps \ {c} : /\ phase'[d] = refill_age'[d] % r
                               /\ accrued'[d] = AtMost(tokens'[d] + (refill_age'[d] \div r), b)
    BY <1>2, <1>5, <2>7
  <2>11. LazyRefillIsExact'
    BY <2>9, <2>10 DEF LazyRefillIsExact, Available, Refilled
  <2> QED
    BY <2>5, <2>8, <2>10, <2>11 DEF LimiterInv
<1>6. accrued[c] = Available(c) /\ tokens[c] \in 0..b /\ refill_age[c] \div r \in Nat
  <2>1. refill_age[c] \in Nat
    BY <1>1, <1>2
  <2> QED
    BY <1>1, <1>2, <2>1, DivMod DEF Available, Refilled
<1>7. CASE BucketEmpty(c)
  <2>1. /\ refill_age' = [refill_age EXCEPT ![c] = Remainder(c)] /\ Available(c) = 0
        /\ UNCHANGED <<tokens, accrued, phase>>
    BY <1>7 DEF BucketEmpty
  <2>2. tokens[c] = accrued[c]
    BY <1>1, <1>6, <2>1 DEF Available, Refilled, AtMost
  <2> QED
    BY <1>2, <1>5, <2>1, <2>2
<1>8. CASE Consumed(c)
  <2>1. /\ refill_age' = [refill_age EXCEPT ![c] = Remainder(c)] /\ phase' = phase /\ Available(c) > 0
        /\ tokens' = [tokens EXCEPT ![c] = Available(c) - 1]
        /\ accrued' = [accrued EXCEPT ![c] = IF accrued[c] = 0 THEN 0 ELSE accrued[c] - 1]
    BY <1>8 DEF Consumed
  <2>2. accrued[c] \in 0..b /\ accrued[c] > 0
    BY <1>2, <1>6, <2>1
  <2>3. Available(c) - 1 \in 0..b /\ (IF accrued[c] = 0 THEN 0 ELSE accrued[c] - 1) = Available(c) - 1
    BY <1>1, <1>6, <2>2
  <2>4. tokens' \in [Caps -> 0..b] /\ accrued' \in [Caps -> 0..b]
    BY <1>2, <2>1, <2>3
  <2>5. tokens'[c] = Available(c) - 1 /\ accrued'[c] = Available(c) - 1
    BY <1>2, <2>1, <2>3
  <2>6. \A d \in Caps \ {c} : tokens'[d] = tokens[d] /\ accrued'[d] = accrued[d]
    BY <1>2, <2>1
  <2> QED
    BY <1>5, <2>1, <2>4, <2>5, <2>6
<1> QED
  BY <1>4, <1>7, <1>8

\* Most steps leave the limiter alone.
LEMMA LimiterKept == LimiterInv /\ UNCHANGED limiterVars => LimiterInv'
<1> SUFFICES ASSUME LimiterInv, UNCHANGED limiterVars
             PROVE  LimiterInv'
  OBVIOUS
<1>1. UNCHANGED <<tokens, refill_age, used_today, day_age, accrued, phase>>
  BY DEF limiterVars
<1>2. LimiterTypeOK' /\ LazyRefillIsExact'
  BY <1>1 DEF LimiterInv, LimiterTypeOK, LazyRefillIsExact, Available, Refilled
<1> QED
  BY <1>1, <1>2 DEF LimiterInv

\* Every step of the server is one of the limiter or leaves it alone.
LEMMA LimiterSteps == [McpNext]_vars => LimiterNext \/ UNCHANGED limiterVars
BY DEF McpNext, Refuse, ParentRefused, Registered, Offered, Established, ConnectFails, Choose, ReadOther, ReadToolCall, Take,
       StdinClosed, WriteFails, SendLost, Serve, Answer, BadArguments, Limited, Denied, BadChord, Admitted, LimiterRefuses, LimiterGrants,
       SendRemote, SendFails, SendLocal, SendStub, InjectFails, PictureTaken, PictureGrabbed, TextTaken, TimedOut, Received,
       Skipped, HostTakes, HostRefuses,
       HostCopies, LinkLost, HostPushes, Passes, LimiterNext, vars

\* Both buckets start full.
LEMMA LimiterInitially == LimiterInit => LimiterInv
<1> SUFFICES ASSUME LimiterInit
             PROVE  LimiterInv
  OBVIOUS
<1>1. /\ burst \in Nat /\ refill_every \in Nat /\ refill_every > 0 /\ daily_max \in Nat /\ Day \in Nat
      /\ refill_every * (burst + 1) \in Nat
  BY LimiterAssumption
<1>2. refill_every * (burst + 1) = refill_every * burst + refill_every /\ refill_every * burst \in Nat
  BY <1>1
<1>3. 0 \in 0..(refill_every * (burst + 1) - 1) /\ 0 \in 0..(refill_every - 1) /\ burst \in 0..burst
  BY <1>1, <1>2
<1>4. LimiterTypeOK
  BY <1>1, <1>3 DEF LimiterInit, LimiterTypeOK
<1>5. 0 % refill_every = 0 /\ 0 \div refill_every = 0
  BY <1>1, SmallMod
<1>6. LazyRefillIsExact
  <2> SUFFICES ASSUME NEW c \in Caps
               PROVE  AtMost(tokens[c] + (refill_age[c] \div refill_every), burst) = accrued[c]
    BY DEF LazyRefillIsExact, Available, Refilled
  <2>1. tokens[c] = burst /\ refill_age[c] = 0 /\ accrued[c] = burst
    BY DEF LimiterInit
  <2>2. refill_age[c] \div refill_every = 0
    BY <1>5, <2>1
  <2> QED
    BY <1>1, <2>1, <2>2 DEF AtMost
<1>7. \A c \in Caps : phase[c] = 0 /\ refill_age[c] = 0
  BY DEF LimiterInit
<1>8. \A c \in Caps : phase[c] = refill_age[c] % refill_every
  BY <1>5, <1>7, Zenon
<1> QED
  BY <1>4, <1>6, <1>8 DEF LimiterInv

\* The two buckets are always in step.
LEMMA LimiterInvariant == Spec => []LimiterInv
<1>1. LimiterInv /\ [McpNext]_vars => LimiterInv'
  BY LimiterTicks, LimiterAsked, LimiterKept, LimiterSteps DEF LimiterNext
<1>2. Init => LimiterInv
  BY LimiterInitially DEF Init
<1> QED
  BY <1>1, <1>2, PTL DEF Spec

\* The bucket that is refilled only when a call comes grants exactly what one refilled at every tick
\* would, for any burst, rate and pattern of calls (RateLimiter::try_consume).
THEOREM LazyRefillExact == Spec => []LazyRefillIsExact
<1>1. LimiterInv => LazyRefillIsExact
  BY DEF LimiterInv
<1> QED
  BY LimiterInvariant, <1>1, PTL

\* Tokens, ages and the calls of the day stay within their bounds.
THEOREM LimiterTypeCorrect == Spec => []LimiterTypeOK
<1>1. LimiterInv => LimiterTypeOK
  BY DEF LimiterInv
<1> QED
  BY LimiterInvariant, <1>1, PTL

-----------------------------------------------------------------------------
(* What a call sends *)

Pressable == {"Mod", "Key", "Button"}
Plain == {"input", "clipboard", "open_url", "request_clipboard"}
HostEvents == {Down(k) : k \in Pressable} \union {Up(k) : k \in Pressable} \union {Message(m) : m \in Plain}

\* Whatever goes down in s comes up again in s.
Lifted(s) ==
  \A k \in Pressable : \A i \in DOMAIN s : s[i] = Down(k) => \E j \in DOMAIN s : j > i /\ s[j] = Up(k)

\* s lifts everything in h.
Lifts(s, h) == \A k \in h : \E j \in DOMAIN s : s[j] = Up(k)

\* A press, a release and a plain message are never the same event.
LEMMA EventFacts ==
  /\ \A k \in Pressable : Down(k) \in HostEvents /\ Up(k) \in HostEvents
  /\ \A m \in Plain : Message(m) \in HostEvents
  /\ \A k, l \in Pressable : Down(k) # Up(l) /\ (Down(k) = Down(l) => k = l) /\ (Up(k) = Up(l) => k = l)
  /\ \A k \in Pressable, m \in Plain : Down(k) # Message(m) /\ Up(k) # Message(m)
<1>1. \A m \in Plain : m # "down" /\ m # "up"
  BY DEF Plain
<1> QED
  BY <1>1 DEF HostEvents, Down, Up, Message

\* What is left of such a sequence is one again.
LEMMA TailLifted ==
  ASSUME NEW s \in Seq(HostEvents), s # << >>, Lifted(s)
  PROVE  Tail(s) \in Seq(HostEvents) /\ Lifted(Tail(s))
<1>1. /\ Tail(s) \in Seq(HostEvents) /\ Len(s) \in Nat /\ Len(s) > 0 /\ Len(Tail(s)) = Len(s) - 1
      /\ DOMAIN s = 1..Len(s) /\ DOMAIN Tail(s) = 1..Len(Tail(s))
      /\ \A i \in 1..Len(Tail(s)) : Tail(s)[i] = s[i + 1]
  OBVIOUS
<1>2. ASSUME NEW k \in Pressable, NEW i \in DOMAIN Tail(s), Tail(s)[i] = Down(k)
      PROVE  \E j \in DOMAIN Tail(s) : j > i /\ Tail(s)[j] = Up(k)
  <2>1. i + 1 \in DOMAIN s /\ s[i + 1] = Down(k)
    BY <1>1, <1>2
  <2>2. PICK j \in DOMAIN s : j > i + 1 /\ s[j] = Up(k)
    BY <2>1 DEF Lifted
  <2>3. j - 1 \in DOMAIN Tail(s) /\ j - 1 > i /\ (j - 1) + 1 = j
    BY <1>1, <2>2
  <2> QED
    BY <1>1, <2>2, <2>3
<1> QED
  BY <1>1, <1>2 DEF Lifted

\* Where the elements of two joined sequences are.
LEMMA Joined ==
  ASSUME NEW s \in Seq(HostEvents), NEW u \in Seq(HostEvents)
  PROVE  /\ s \o u \in Seq(HostEvents) /\ DOMAIN (s \o u) = 1..(Len(s) + Len(u))
         /\ \A i \in 1..Len(s) : (s \o u)[i] = s[i]
         /\ \A i \in 1..Len(u) : (s \o u)[Len(s) + i] = u[i]
         /\ Len(s) \in Nat /\ Len(u) \in Nat /\ DOMAIN s = 1..Len(s) /\ DOMAIN u = 1..Len(u)
OBVIOUS

\* Two such sequences joined are one, and so is the second part of one.
LEMMA JoinLifted ==
  ASSUME NEW s \in Seq(HostEvents), NEW u \in Seq(HostEvents)
  PROVE  /\ Lifted(s) /\ Lifted(u) => Lifted(s \o u)
         /\ Lifted(s \o u) => Lifted(u)
         /\ \A h : Lifts(s, h) => Lifts(s \o u, h)
<1> DEFINE w == s \o u
<1>1. /\ DOMAIN w = 1..(Len(s) + Len(u))
      /\ \A i \in 1..Len(s) : w[i] = s[i]
      /\ \A i \in 1..Len(u) : w[Len(s) + i] = u[i]
      /\ Len(s) \in Nat /\ Len(u) \in Nat /\ DOMAIN s = 1..Len(s) /\ DOMAIN u = 1..Len(u)
  BY Joined
<1> HIDE DEF w
<1>2. ASSUME Lifted(s), Lifted(u), NEW k \in Pressable, NEW i \in DOMAIN w, w[i] = Down(k)
      PROVE  \E j \in DOMAIN w : j > i /\ w[j] = Up(k)
  <2>1. CASE i \in 1..Len(s)
    <3>1. PICK j \in DOMAIN s : j > i /\ s[j] = Up(k)
      BY <1>1, <1>2, <2>1 DEF Lifted
    <3>2. j \in DOMAIN w /\ w[j] = Up(k)
      BY <1>1, <3>1
    <3> QED
      BY <3>1, <3>2
  <2>2. CASE i \notin 1..Len(s)
    <3>1. i - Len(s) \in 1..Len(u) /\ Len(s) + (i - Len(s)) = i
      BY <1>1, <2>2
    <3>2. u[i - Len(s)] = Down(k)
      BY <1>1, <1>2, <3>1
    <3>3. PICK j \in DOMAIN u : j > i - Len(s) /\ u[j] = Up(k)
      BY <1>1, <1>2, <3>1, <3>2 DEF Lifted
    <3>4. Len(s) + j \in DOMAIN w /\ Len(s) + j > i /\ w[Len(s) + j] = Up(k)
      BY <1>1, <3>1, <3>3
    <3> QED
      BY <3>4
  <2> QED
    BY <2>1, <2>2
<1>3. ASSUME Lifted(w), NEW k \in Pressable, NEW i \in DOMAIN u, u[i] = Down(k)
      PROVE  \E j \in DOMAIN u : j > i /\ u[j] = Up(k)
  <2>1. Len(s) + i \in DOMAIN w /\ w[Len(s) + i] = Down(k)
    BY <1>1, <1>3
  <2>2. PICK j \in DOMAIN w : j > Len(s) + i /\ w[j] = Up(k)
    BY <1>3, <2>1 DEF Lifted
  <2>3. j - Len(s) \in 1..Len(u) /\ j - Len(s) > i /\ Len(s) + (j - Len(s)) = j
    BY <1>1, <2>2
  <2>4. u[j - Len(s)] = Up(k)
    BY <1>1, <2>2, <2>3
  <2> QED
    BY <1>1, <2>3, <2>4
<1>4. ASSUME NEW h, Lifts(s, h), NEW k \in h
      PROVE  \E j \in DOMAIN w : w[j] = Up(k)
  <2>1. PICK j \in DOMAIN s : s[j] = Up(k)
    BY <1>4 DEF Lifts
  <2>2. j \in DOMAIN w /\ w[j] = Up(k)
    BY <1>1, <2>1
  <2> QED
    BY <2>2
<1>5. /\ Lifted(s) /\ Lifted(u) => Lifted(w)
      /\ Lifted(w) => Lifted(u)
      /\ \A h : Lifts(s, h) => Lifts(w, h)
  BY <1>2, <1>3, <1>4 DEF Lifted, Lifts
<1> QED
  BY <1>5 DEF w

\* Handing over the next event does not change what is sent.
LEMMA HandOver ==
  ASSUME NEW s \in Seq(HostEvents), NEW u \in Seq(HostEvents), u # << >>
  PROVE  Append(s, Head(u)) \o Tail(u) = s \o u /\ Append(s, Head(u)) \in Seq(HostEvents)
OBVIOUS

\* Taking the first event under way takes the first of all that is to come.
LEMMA TakeFirst ==
  ASSUME NEW s \in Seq(HostEvents), NEW u \in Seq(HostEvents), s # << >>
  PROVE  /\ Tail(s \o u) = Tail(s) \o u /\ s \o u # << >> /\ Head(s \o u) = Head(s)
         /\ Tail(s) \in Seq(HostEvents) /\ Head(s) \in HostEvents
OBVIOUS

\* The host, or this machine, does the first event.
LEMMA AppliedLifts ==
  ASSUME NEW s \in Seq(HostEvents), s # << >>, Lifted(s), held \subseteq Pressable, Lifts(s, held \ missed)
  PROVE  Lifts(Tail(s), Applied(Head(s)) \ (missed \ {Head(s).key}))
<1> DEFINE e == Head(s)
<1>1. /\ Len(s) \in Nat /\ Len(s) > 0 /\ Len(Tail(s)) = Len(s) - 1 /\ e = s[1] /\ e \in HostEvents
      /\ DOMAIN s = 1..Len(s) /\ DOMAIN Tail(s) = 1..Len(Tail(s))
      /\ \A i \in 1..Len(Tail(s)) : Tail(s)[i] = s[i + 1]
  OBVIOUS
<1> HIDE DEF e
<1>2. ASSUME NEW j \in DOMAIN s, j > 1
      PROVE  \E m \in DOMAIN Tail(s) : Tail(s)[m] = s[j]
  <2>1. j - 1 \in 1..Len(Tail(s)) /\ (j - 1) + 1 = j
    BY <1>1, <1>2
  <2> QED
    BY <1>1, <2>1
<1>3. ASSUME NEW k \in Applied(e) \ (missed \ {e.key})
      PROVE  \E m \in DOMAIN Tail(s) : Tail(s)[m] = Up(k)
  <2>1. CASE k \in held \ missed /\ e # Up(k)
    <3>1. PICK j \in DOMAIN s : s[j] = Up(k)
      BY <2>1 DEF Lifts
    <3>2. j > 1
      BY <1>1, <2>1, <3>1
    <3> QED
      BY <1>2, <3>1, <3>2
  <2>2. CASE k \in Pressable /\ e = Down(k)
    <3>1. 1 \in DOMAIN s /\ s[1] = Down(k)
      BY <1>1, <2>2
    <3>2. PICK j \in DOMAIN s : j > 1 /\ s[j] = Up(k)
      BY <2>2, <3>1 DEF Lifted
    <3> QED
      BY <1>2, <3>2
  <2>3. (k \in held \ missed /\ e # Up(k)) \/ (k \in Pressable /\ e = Down(k))
    <3>1. CASE \E l \in Pressable : e = Down(l)
      <4>1. PICK l \in Pressable : e = Down(l)
        BY <3>1
      <4>2. Applied(e) = held \union {l} /\ e.key = l
        BY <4>1 DEF Applied, Down
      <4> QED
        BY <1>3, <4>1, <4>2, EventFacts
    <3>2. CASE \E l \in Pressable : e = Up(l)
      <4>1. PICK l \in Pressable : e = Up(l)
        BY <3>2
      <4>2. Applied(e) = held \ {l} /\ e.key = l
        BY <4>1 DEF Applied, Up
      <4> QED
        BY <1>3, <4>1, <4>2, EventFacts
    <3>3. CASE \E m \in Plain : e = Message(m)
      <4>1. PICK m \in Plain : e = Message(m)
        BY <3>3
      <4>2. Applied(e) = held /\ e.key = "-"
        BY <4>1 DEF Applied, Message, Plain
      <4>3. k # "-"
        BY <1>3, <4>2 DEF Pressable
      <4> QED
        BY <1>3, <4>1, <4>2, <4>3, EventFacts
    <3> QED
      BY <1>1, <3>1, <3>2, <3>3 DEF HostEvents
  <2> QED
    BY <2>1, <2>2, <2>3
<1>4. Lifts(Tail(s), Applied(e) \ (missed \ {e.key}))
  BY <1>3 DEF Lifts
<1> QED
  BY <1>4 DEF e

\* The host refuses the first event.
LEMMA RefusedLifts ==
  ASSUME NEW s \in Seq(HostEvents), s # << >>, Lifts(s, held \ missed)
  PROVE  Lifts(Tail(s), held \ (missed \union NotLifted(<<Head(s)>>)))
<1> DEFINE e == Head(s)
<1>1. /\ Len(s) \in Nat /\ Len(Tail(s)) = Len(s) - 1 /\ e = s[1]
      /\ DOMAIN s = 1..Len(s) /\ DOMAIN Tail(s) = 1..Len(Tail(s))
      /\ \A i \in 1..Len(Tail(s)) : Tail(s)[i] = s[i + 1]
  OBVIOUS
<1>2. <<e>>[1] = e /\ 1 \in DOMAIN <<e>>
  OBVIOUS
<1> HIDE DEF e
<1>3. ASSUME NEW k \in held \ (missed \union NotLifted(<<e>>))
      PROVE  \E m \in DOMAIN Tail(s) : Tail(s)[m] = Up(k)
  <2>1. PICK j \in DOMAIN s : s[j] = Up(k)
    BY <1>3 DEF Lifts
  <2>2. e # Up(k)
    BY <1>2, <1>3 DEF NotLifted
  <2>3. j - 1 \in 1..Len(Tail(s)) /\ (j - 1) + 1 = j
    BY <1>1, <2>1, <2>2
  <2> QED
    BY <1>1, <2>1, <2>3
<1>4. Lifts(Tail(s), held \ (missed \union NotLifted(<<e>>)))
  BY <1>3 DEF Lifts
<1> QED
  BY <1>4 DEF e

\* Only keys and buttons are held, and only what is held was not lifted.
LEMMA AppliedType ==
  ASSUME NEW e \in HostEvents, held \subseteq Pressable, missed \subseteq held
  PROVE  Applied(e) \subseteq Pressable /\ missed \ {e.key} \subseteq Applied(e)
<1>1. CASE \E l \in Pressable : e = Down(l)
  BY <1>1 DEF Applied, Down
<1>2. CASE \E l \in Pressable : e = Up(l)
  BY <1>2 DEF Applied, Up
<1>3. CASE \E m \in Plain : e = Message(m)
  BY <1>3 DEF Applied, Message, Plain
<1> QED
  BY <1>1, <1>2, <1>3 DEF HostEvents

\* Every tool lifts what it presses.
LEMMA ToolLifts ==
  ASSUME NEW tool, NEW s \in EventsOf(tool)
  PROVE  /\ s \in Seq(HostEvents) /\ Lifted(s)
         /\ tool \in Gated \ {"miru_screen_capture"} => s # << >>
<1> USE EventFacts
<1>1. "Mod" \in Pressable /\ "Key" \in Pressable /\ "Button" \in Pressable
  BY DEF Pressable
<1>2. /\ "input" \in Plain /\ "clipboard" \in Plain /\ "open_url" \in Plain /\ "request_clipboard" \in Plain
  BY DEF Plain
<1>3. ASSUME NEW a \in Pressable, s = <<Down(a), Up(a)>>
      PROVE  s \in Seq(HostEvents) /\ Lifted(s) /\ s # << >>
  <2>1. /\ s \in Seq(HostEvents) /\ s # << >>
        /\ DOMAIN s = 1..2 /\ s[1] = Down(a) /\ s[2] = Up(a)
    BY <1>3
  <2>2. ASSUME NEW k \in Pressable, NEW i \in DOMAIN s, s[i] = Down(k)
        PROVE  2 \in DOMAIN s /\ 2 > i /\ s[2] = Up(k)
    BY <2>1, <2>2
  <2> QED
    BY <2>1, <2>2 DEF Lifted
<1>4. ASSUME NEW a \in Pressable, NEW b \in Pressable, s = <<Down(a), Down(b), Up(b), Up(a)>>
      PROVE  s \in Seq(HostEvents) /\ Lifted(s) /\ s # << >>
  <2>1. /\ s \in Seq(HostEvents) /\ s # << >>
        /\ DOMAIN s = 1..4 /\ s[1] = Down(a) /\ s[2] = Down(b) /\ s[3] = Up(b) /\ s[4] = Up(a)
    BY <1>4
  <2>2. ASSUME NEW k \in Pressable, NEW i \in DOMAIN s, s[i] = Down(k)
        PROVE  \E j \in DOMAIN s : j > i /\ s[j] = Up(k)
    <3>1. CASE i = 1
      BY <2>1, <2>2, <3>1
    <3>2. CASE i = 2
      BY <2>1, <2>2, <3>2
    <3>3. i # 3 /\ i # 4
      BY <2>1, <2>2
    <3> QED
      BY <2>1, <3>1, <3>2, <3>3
  <2> QED
    BY <2>1, <2>2 DEF Lifted
<1>5. ASSUME NEW a \in Pressable, s = <<Down(a), Up(a), Down(a), Up(a)>>
      PROVE  s \in Seq(HostEvents) /\ Lifted(s) /\ s # << >>
  <2>1. /\ s \in Seq(HostEvents) /\ s # << >>
        /\ DOMAIN s = 1..4 /\ s[1] = Down(a) /\ s[2] = Up(a) /\ s[3] = Down(a) /\ s[4] = Up(a)
    BY <1>5
  <2>2. ASSUME NEW k \in Pressable, NEW i \in DOMAIN s, s[i] = Down(k)
        PROVE  4 \in DOMAIN s /\ 4 > i /\ s[4] = Up(k)
    BY <2>1, <2>2
  <2> QED
    BY <2>1, <2>2 DEF Lifted
<1>6. ASSUME NEW m \in Plain, s = <<Message(m)>>
      PROVE  s \in Seq(HostEvents) /\ Lifted(s) /\ s # << >>
  <2>1. s \in Seq(HostEvents) /\ s # << >> /\ DOMAIN s = {1} /\ s[1] = Message(m)
    BY <1>6
  <2>2. \A k \in Pressable, i \in DOMAIN s : s[i] # Down(k)
    BY <2>1
  <2> QED
    BY <2>1, <2>2 DEF Lifted
<1>7. ASSUME s = << >>
      PROVE  s \in Seq(HostEvents) /\ Lifted(s)
  BY <1>7 DEF Lifted
<1>8. \/ s = <<Down("Button"), Up("Button")>>
      \/ s = <<Down("Button"), Up("Button"), Down("Button"), Up("Button")>>
      \/ s = <<Down("Key"), Up("Key")>>
      \/ s = <<Down("Mod"), Down("Key"), Up("Key"), Up("Mod")>>
      \/ s = <<Message("input")>> \/ s = <<Message("clipboard")>>
      \/ s = <<Message("open_url")>> \/ s = <<Message("request_clipboard")>>
      \/ s = << >> /\ tool \notin Gated \ {"miru_screen_capture"}
  BY DEF EventsOf, Chord, Gated, CapOf
<1> QED
  BY <1>1, <1>2, <1>3, <1>4, <1>5, <1>6, <1>7, <1>8

-----------------------------------------------------------------------------
(* The server *)

Pcs == {"-", "gate", "send", "picture", "text", "answer"}
Calls == [n : 0..MaxLines, tool : Tools \union {"-"}, owed : BOOLEAN, pc : Pcs, todo : Seq(HostEvents \union Nat)]

\* A call has events only while it sends them, and a text only when it was read.
CallOK(c) ==
  /\ c \in Calls
  /\ c.pc = "gate" => c.tool \in Gated
  /\ c.pc \in {"-", "gate", "picture", "text"} => c.todo = << >>
  /\ c.pc = "send" => c.todo \in Seq(HostEvents) /\ c.todo # << >>

\* What the call has still to send, behind what is under way.
Stream(s, c) == s \o Unsent(c)

\* A bridge over a session exists from the moment main chose it; without the session nothing is
\* under way and nothing is held but a button whose release got lost, except on this very machine.
WhereInv ==
  /\ stage = "start" => bridge = "none"
  /\ stage \in {"register", "offer", "handshake"} => bridge = "remote"
  /\ stage \in {"start", "register", "offer", "handshake"} => call.pc = "-"
  /\ link \in {"up", "down"}
  /\ link = "up" => bridge = "remote"
  /\ link = "down" => to_host = << >> /\ (bridge = "local" \/ (held \subseteq missed /\ held \subseteq {"Button"}))

\* Everything that went down, at the host, under way or still to be sent, is followed by its release,
\* except what is down because its release got lost.
PressInv ==
  /\ to_host \in Seq(HostEvents) /\ held \subseteq Pressable /\ missed \subseteq held
  /\ Lifted(Stream(to_host, call))
  /\ Lifts(Stream(to_host, call), held \ missed)

\* A text in the cache of a read that waits came after the read had begun.
Reading == call.pc \in {"send", "text"} /\ call.tool = "miru_clipboard_read" /\ bridge = "remote"
NewsInv ==
  /\ call.pc = "text" => Reading
  /\ Reading /\ latest_clipboard # 0 => news
  /\ ReadIsNews

\* The numbers.
CountInv ==
  /\ lines \in 0..MaxLines /\ answered \subseteq 1..lines /\ call.n \in 0..lines /\ (call.pc # "-" => call.n > 0)
  /\ from_host \in Seq(0..MaxClip) /\ Len(from_host) <= Cap128 /\ Len(to_host) <= Cap128
  /\ latest_clipboard \in 0..MaxClip /\ host_clip \in 1..MaxClip
  /\ stage \in {"start", "register", "offer", "handshake", "serving", "exited"}
  /\ bridge \in {"none", "remote", "local", "stub"}

McpInv == CallOK(call) /\ WhereInv /\ PressInv /\ NewsInv /\ CountInv

\* The calls a step may leave behind.
LEMMA CallChanged ==
  ASSUME CallOK(call), NEW p \in Pcs, NEW s \in Seq(HostEvents \union Nat)
  PROVE  LET c == [call EXCEPT !.pc = p, !.todo = s]
             d == [call EXCEPT !.pc = p]
         IN  /\ c \in Calls /\ c.pc = p /\ c.todo = s /\ c.tool = call.tool /\ c.n = call.n
             /\ d \in Calls /\ d.pc = p /\ d.todo = call.todo /\ d.tool = call.tool /\ d.n = call.n
<1>1. call \in Calls
  BY DEF CallOK
<1> QED
  BY <1>1 DEF Calls

\* Between two calls there is nothing to send.
LEMMA NoCallFacts == CallOK(NoCall) /\ NoCall.pc = "-" /\ NoCall.todo = << >> /\ NoCall.tool = "-" /\ NoCall.n = 0
<1>1. << >> \in Seq(HostEvents \union Nat) /\ 0 \in 0..MaxLines
  BY McpAssumption
<1>2. NoCall \in Calls
  BY <1>1 DEF NoCall, Calls, Pcs
<1> QED
  BY <1>2 DEF NoCall, CallOK

\* The call that a line begins.
LEMMA TakenFacts ==
  ASSUME NEW tool \in Tools \union {"-"}, NEW owed \in BOOLEAN, NEW pc \in {"gate", "answer"}, Take(tool, owed, pc),
         pc = "gate" => tool \in Gated, lines \in 0..MaxLines, lines < MaxLines
  PROVE  CallOK(call') /\ call'.pc = pc /\ call'.todo = << >> /\ call'.n = lines + 1 /\ call'.tool = tool
<1>1. call' = [n |-> lines + 1, tool |-> tool, owed |-> owed, pc |-> pc, todo |-> << >>]
  BY DEF Take
<1>2. << >> \in Seq(HostEvents \union Nat) /\ lines + 1 \in 0..MaxLines /\ pc \in Pcs
  BY McpAssumption DEF Pcs
<1>3. call' \in Calls
  BY <1>1, <1>2 DEF Calls
<1>4. call'.pc = pc /\ call'.todo = << >> /\ call'.n = lines + 1 /\ call'.tool = tool
  BY <1>1
<1> QED
  BY <1>3, <1>4 DEF CallOK

\* The events of a call, one after the other.
LEMMA SentFacts ==
  ASSUME CallOK(call), call.pc = "send", Sent
  PROVE  /\ CallOK(call') /\ call'.tool = call.tool /\ call'.n = call.n
         /\ call'.todo = Tail(call.todo) /\ Unsent(call') = Tail(call.todo) /\ Unsent(call) = call.todo
         /\ call'.pc \in {"send", "text", "answer"}
         /\ call'.pc = "text" => call.tool = "miru_clipboard_read" /\ bridge = "remote"
         /\ call'.pc = "answer" => call'.todo = << >>
<1>1. call.todo \in Seq(HostEvents) /\ call.todo # << >> /\ call \in Calls
  BY DEF CallOK
<1>2. Tail(call.todo) \in Seq(HostEvents) /\ Len(call.todo) \in Nat /\ Len(call.todo) > 0
  BY <1>1
<1>a. Tail(call.todo) \in Seq(HostEvents \union Nat)
  BY <1>2
<1> DEFINE p == IF Len(call.todo) > 1 THEN "send"
                  ELSE IF call.tool = "miru_clipboard_read" /\ bridge = "remote" THEN "text" ELSE "answer"
<1>3. call' = [call EXCEPT !.pc = p, !.todo = Tail(call.todo)]
  <2>1. call' = [call EXCEPT !.todo = Tail(call.todo), !.pc = p]
    BY DEF Sent
  <2>2. [call EXCEPT !.todo = Tail(call.todo), !.pc = p] = [call EXCEPT !.pc = p, !.todo = Tail(call.todo)]
    BY <1>1 DEF Calls
  <2> QED
    BY <2>1, <2>2
<1>4. /\ p \in {"send", "text", "answer"} /\ p \in Pcs
      /\ p = "text" => call.tool = "miru_clipboard_read" /\ bridge = "remote"
      /\ p = "send" => Len(call.todo) > 1
      /\ p # "send" => ~(Len(call.todo) > 1)
  BY DEF Pcs
<1> HIDE DEF p
<1>5. call' \in Calls /\ call'.pc = p /\ call'.todo = Tail(call.todo) /\ call'.tool = call.tool /\ call'.n = call.n
  BY <1>a, <1>3, <1>4, CallChanged
<1>6. Len(call.todo) > 1 => Tail(call.todo) # << >>
  BY <1>1, <1>2
<1>7. ~(Len(call.todo) > 1) => Tail(call.todo) = << >>
  BY <1>1, <1>2
<1>8. CallOK(call')
  BY <1>2, <1>4, <1>5, <1>6, <1>7 DEF CallOK
<1>9. Unsent(call') = Tail(call.todo) /\ Unsent(call) = call.todo
  BY <1>4, <1>5, <1>7 DEF Unsent
<1> QED
  BY <1>4, <1>5, <1>7, <1>8, <1>9

\* Steps that leave the host alone and the call with as much to send as before.
LEMMA PressKept ==
  ASSUME PressInv, to_host' = to_host, held' = held, missed' = missed, Unsent(call') = Unsent(call)
  PROVE  PressInv'
<1>1. Stream(to_host', call') = Stream(to_host, call)
  BY DEF Stream
<1> QED
  BY <1>1 DEF PressInv

\* Starting and stopping.
LEMMA BootStep ==
  ASSUME McpInv, \/ Refuse \/ ParentRefused \/ Registered \/ Offered \/ Established \/ ConnectFails
                 \/ \E b \in {"remote", "local", "stub"} : Choose(b)
                 \/ StdinClosed
  PROVE  McpInv'
<1>1. /\ UNCHANGED <<lines, call, answered, to_host, from_host, held, host_clip, latest_png, latest_clipboard, news, missed>>
  BY DEF Refuse, ParentRefused, Registered, Offered, Established, ConnectFails, Choose, StdinClosed, idleVars, hostVars, cacheVars
<1>2. /\ stage' \in {"start", "register", "offer", "handshake", "serving", "exited"}
      /\ bridge' \in {"none", "remote", "local", "stub"} /\ stage' # "start"
      /\ stage' \in {"register", "offer", "handshake"} => bridge' = "remote" /\ stage \in {"start", "register", "offer"}
      /\ bridge' = bridge \/ stage = "start"
      /\ link' = link \/ (stage = "handshake" /\ link' = "up" /\ bridge' = bridge)
  BY DEF McpInv, WhereInv, CountInv, Refuse, ParentRefused, Registered, Offered, Established, ConnectFails, Choose, StdinClosed, hostVars
<1>3. CallOK(call')
  BY <1>1 DEF McpInv
<1>4. WhereInv'
  BY <1>1, <1>2 DEF McpInv, WhereInv
<1>5. PressInv'
  BY <1>1, PressKept DEF McpInv
<1>6. NewsInv'
  <2>1. CASE bridge' = bridge
    BY <1>1, <2>1 DEF McpInv, NewsInv, Reading, ReadIsNews
  <2>2. CASE stage = "start"
    BY <1>1, <2>2 DEF McpInv, WhereInv, NewsInv, Reading, ReadIsNews
  <2> QED
    BY <1>2, <2>1, <2>2
<1>7. CountInv'
  BY <1>1, <1>2 DEF McpInv, CountInv
<1> QED
  BY <1>3, <1>4, <1>5, <1>6, <1>7 DEF McpInv

\* A line is read.
LEMMA ReadStep ==
  ASSUME McpInv, NEW tool \in Tools \union {"-"}, NEW owed \in BOOLEAN, NEW pc \in {"gate", "answer"},
         pc = "gate" => tool \in Gated, Ready, Take(tool, owed, pc)
  PROVE  McpInv'
<1>1. /\ UNCHANGED <<stage, bridge, answered, to_host, from_host, held, host_clip, link, latest_png, latest_clipboard, news, missed>>
      /\ lines' = lines + 1 /\ stage = "serving" /\ call = NoCall /\ lines < MaxLines
  BY DEF Take, Ready, hostVars, cacheVars
<1>2. lines \in 0..MaxLines
  BY DEF McpInv, CountInv
<1>3. CallOK(call') /\ call'.pc = pc /\ call'.todo = << >> /\ call'.n = lines + 1
  BY <1>1, <1>2, TakenFacts
<1>4. WhereInv'
  BY <1>1 DEF McpInv, WhereInv
<1>5. Unsent(call') = Unsent(call)
  BY <1>1, <1>3, NoCallFacts DEF Unsent
<1>6. PressInv'
  BY <1>1, <1>5, PressKept DEF McpInv
<1>7. NewsInv'
  BY <1>1, <1>3 DEF NewsInv, Reading, ReadIsNews
<1>8. lines' \in 0..MaxLines /\ answered' \subseteq 1..lines' /\ call'.n \in 0..lines' /\ call'.n > 0
  BY <1>1, <1>2, <1>3, McpAssumption DEF McpInv, CountInv
<1>9. CountInv'
  BY <1>1, <1>8 DEF McpInv, CountInv
<1> QED
  BY <1>3, <1>4, <1>6, <1>7, <1>9 DEF McpInv

\* A call is over.
LEMMA OverStep ==
  ASSUME McpInv, Answer \/ WriteFails
  PROVE  McpInv'
<1>1. /\ UNCHANGED <<bridge, lines, to_host, from_host, held, host_clip, link, latest_png, latest_clipboard, news, missed>>
      /\ call' = NoCall /\ call.pc = "answer" /\ (stage' = stage \/ stage' = "exited")
      /\ answered' \subseteq answered \union {call.n}
  BY DEF Answer, WriteFails, hostVars, cacheVars
<1>2. CallOK(call') /\ call'.pc = "-" /\ call'.todo = << >> /\ call'.n = 0
  BY <1>1, NoCallFacts
<1>3. WhereInv'
  BY <1>1, <1>2 DEF McpInv, WhereInv
<1>4. Unsent(call') = Unsent(call)
  BY <1>1, <1>2 DEF Unsent
<1>5. PressInv'
  BY <1>1, <1>4, PressKept DEF McpInv
<1>6. NewsInv'
  BY <1>1, <1>2 DEF NewsInv, Reading, ReadIsNews
<1>7. lines \in 0..MaxLines /\ answered \subseteq 1..lines /\ call.n \in 0..lines /\ call.n > 0
  BY <1>1 DEF McpInv, CountInv
<1>8. call.n \in 1..lines /\ 0 \in 0..lines
  BY <1>7, McpAssumption
<1>9. answered' \subseteq 1..lines' /\ call'.n \in 0..lines'
  BY <1>1, <1>2, <1>7, <1>8
<1>10. CountInv'
  BY <1>1, <1>2, <1>9 DEF McpInv, CountInv
<1> QED
  BY <1>2, <1>3, <1>5, <1>6, <1>10 DEF McpInv

\* A call that is refused, or that has what it waited for, or gives up, is only left to be answered.
LEMMA SettleStep ==
  ASSUME McpInv, \/ BadArguments \/ Limited \/ Denied \/ BadChord \/ PictureTaken \/ PictureGrabbed \/ TimedOut \/ TextTaken
  PROVE  McpInv'
<1>1. /\ UNCHANGED <<stage, bridge, lines, answered, to_host, from_host, held, host_clip, link, latest_png, latest_clipboard,
                     news, missed>>
      /\ call.pc \in {"gate", "picture", "text"}
  BY DEF BadArguments, Limited, Denied, BadChord, PictureTaken, PictureGrabbed, TimedOut, TextTaken, hostVars, cacheVars
<1>2. CallOK(call) /\ call.todo = << >> /\ "answer" \in Pcs /\ << >> \in Seq(HostEvents \union Nat)
  BY <1>1 DEF McpInv, CallOK, Pcs
<1>3. latest_clipboard \in Nat
  BY McpAssumption DEF McpInv, CountInv
<1>4. <<latest_clipboard>> \in Seq(HostEvents \union Nat)
  BY <1>3
<1>5. \/ call' = [call EXCEPT !.pc = "answer"]
      \/ /\ call.pc = "text" /\ latest_clipboard # 0
         /\ call' = [call EXCEPT !.pc = "answer", !.todo = <<latest_clipboard>>]
  BY DEF BadArguments, Limited, Denied, BadChord, PictureTaken, PictureGrabbed, TimedOut, TextTaken
<1>6. /\ call' \in Calls /\ call'.pc = "answer" /\ call'.tool = call.tool /\ call'.n = call.n
      /\ call'.todo = << >> \/ (call.pc = "text" /\ latest_clipboard # 0)
  <2>1. CASE call' = [call EXCEPT !.pc = "answer"]
    BY <1>2, <2>1, CallChanged
  <2>2. CASE /\ call.pc = "text" /\ latest_clipboard # 0
             /\ call' = [call EXCEPT !.pc = "answer", !.todo = <<latest_clipboard>>]
    BY <1>2, <1>4, <2>2, CallChanged
  <2> QED
    BY <1>5, <2>1, <2>2
<1>7. CallOK(call')
  BY <1>6 DEF CallOK
<1>8. WhereInv'
  BY <1>1 DEF McpInv, WhereInv
<1>9. Unsent(call') = Unsent(call)
  BY <1>1, <1>6 DEF Unsent
<1>10. PressInv'
  BY <1>1, <1>9, PressKept DEF McpInv
<1>11. call'.todo # << >> => news
  BY <1>6 DEF McpInv, NewsInv
<1>12. NewsInv'
  BY <1>1, <1>6, <1>11 DEF NewsInv, Reading, ReadIsNews
<1>13. CountInv'
  BY <1>1, <1>6 DEF McpInv, CountInv
<1> QED
  BY <1>7, <1>8, <1>10, <1>12, <1>13 DEF McpInv

\* A tool is admitted: what it will send is lifted by itself, and a read of the clipboard forgets
\* what was there.
LEMMA AdmitStep ==
  ASSUME McpInv, Admitted
  PROVE  McpInv'
<1>1. /\ UNCHANGED <<stage, bridge, lines, answered, to_host, from_host, held, host_clip, link, latest_png, missed>>
      /\ call.pc = "gate" /\ news' = FALSE
  BY DEF Admitted, hostVars
<1>2. CallOK(call) /\ call.tool \in Gated /\ call.todo = << >>
  BY <1>1 DEF McpInv, CallOK
<1>3. PICK todo \in EventsOf(call.tool) : Begin(call.tool, todo)
  BY DEF Admitted
<1>4. /\ todo \in Seq(HostEvents) /\ Lifted(todo)
      /\ call.tool # "miru_screen_capture" => todo # << >>
  BY <1>2, <1>3, ToolLifts
<1>5. call.tool = "miru_screen_capture" => todo = << >>
  BY <1>3 DEF EventsOf
<1> DEFINE p == IF call.tool = "miru_screen_capture" THEN "picture" ELSE "send"
<1>6. call' = [call EXCEPT !.pc = p, !.todo = todo]
  BY <1>3 DEF Begin
<1>7. /\ p \in Pcs /\ p \in {"picture", "send"} /\ todo \in Seq(HostEvents \union Nat)
      /\ p = "send" <=> call.tool # "miru_screen_capture"
  BY <1>4 DEF Pcs
<1> HIDE DEF p
<1>8. call' \in Calls /\ call'.pc = p /\ call'.todo = todo /\ call'.tool = call.tool /\ call'.n = call.n
  BY <1>2, <1>6, <1>7, CallChanged
<1>9. CallOK(call')
  BY <1>4, <1>5, <1>7, <1>8 DEF CallOK
<1>10. WhereInv'
  BY <1>1 DEF McpInv, WhereInv
<1>11. Unsent(call) = << >> /\ Unsent(call') = todo
  BY <1>1, <1>5, <1>7, <1>8 DEF Unsent
<1>12. PressInv'
  <2>1. /\ to_host \in Seq(HostEvents) /\ held \subseteq Pressable /\ missed \subseteq held
        /\ Lifted(to_host \o << >>) /\ Lifts(to_host \o << >>, held \ missed)
    BY <1>11 DEF McpInv, PressInv, Stream
  <2>2. to_host \o << >> = to_host
    BY <2>1
  <2>3. Lifted(to_host) /\ Lifts(to_host, held \ missed)
    BY <2>1, <2>2
  <2>4. Lifted(to_host \o todo) /\ Lifts(to_host \o todo, held \ missed)
    BY <1>4, <2>1, <2>3, JoinLifted
  <2> QED
    BY <1>1, <1>11, <2>1, <2>4 DEF PressInv, Stream
<1>13. latest_clipboard' = IF call.tool = "miru_clipboard_read" /\ bridge = "remote" THEN 0 ELSE latest_clipboard
  BY DEF Admitted, CacheCleared
<1>14. NewsInv'
  BY <1>1, <1>7, <1>8, <1>13 DEF NewsInv, Reading, ReadIsNews
<1>15. latest_clipboard' \in 0..MaxClip
  BY <1>13, McpAssumption DEF McpInv, CountInv
<1>16. CountInv'
  BY <1>1, <1>8, <1>15 DEF McpInv, CountInv
<1> QED
  BY <1>9, <1>10, <1>12, <1>14, <1>16 DEF McpInv

\* What the sending steps have in common: the cache, the lines and the host's clipboard stay.
LEMMA SendCommon ==
  ASSUME McpInv, \/ SendRemote \/ SendLost \/ SendFails \/ SendLocal \/ SendStub \/ InjectFails
  PROVE  /\ UNCHANGED <<stage, bridge, lines, answered, from_host, host_clip, link, latest_png, latest_clipboard, news>>
         /\ call.pc = "send" /\ CallOK(call) /\ call.todo \in Seq(HostEvents) /\ call.todo # << >> /\ Unsent(call) = call.todo
         /\ stage \notin {"start", "register", "offer", "handshake"}
         /\ CallOK(call') /\ call'.pc \in {"send", "text", "answer"} /\ call'.n = call.n
         /\ to_host' \in Seq(HostEvents) /\ Len(to_host') <= Cap128
         /\ NewsInv' /\ CountInv'
<1>1. /\ UNCHANGED <<stage, bridge, lines, answered, from_host, host_clip, link, latest_png, latest_clipboard, news>>
      /\ call.pc = "send"
  BY DEF SendRemote, SendLost, SendFails, SendLocal, SendStub, InjectFails, hostVars, cacheVars
<1>2. CallOK(call) /\ call.todo \in Seq(HostEvents) /\ call.todo # << >> /\ Unsent(call) = call.todo
  BY <1>1 DEF McpInv, CallOK, Unsent
<1>3. stage \notin {"start", "register", "offer", "handshake"}
  BY <1>1 DEF McpInv, WhereInv
<1>4. Sent \/ call' = [call EXCEPT !.pc = "answer", !.todo = << >>]
  BY DEF SendRemote, SendLost, SendFails, SendLocal, SendStub, InjectFails
<1>5. /\ CallOK(call') /\ call'.pc \in {"send", "text", "answer"} /\ call'.n = call.n /\ call'.tool = call.tool
      /\ call'.pc = "text" => call.tool = "miru_clipboard_read" /\ bridge = "remote"
      /\ call'.pc = "answer" => call'.todo = << >>
  <2>1. CASE Sent
    BY <1>1, <1>2, <2>1, SentFacts
  <2>2. CASE call' = [call EXCEPT !.pc = "answer", !.todo = << >>]
    <3>1. "answer" \in Pcs /\ << >> \in Seq(HostEvents \union Nat)
      BY DEF Pcs
    <3>2. call' \in Calls /\ call'.pc = "answer" /\ call'.todo = << >> /\ call'.n = call.n /\ call'.tool = call.tool
      BY <1>2, <2>2, <3>1, CallChanged
    <3> QED
      BY <3>2 DEF CallOK
  <2> QED
    BY <1>4, <2>1, <2>2
<1>6. to_host' \in Seq(HostEvents) /\ Len(to_host') <= Cap128
  <2>1. to_host \in Seq(HostEvents) /\ Len(to_host) <= Cap128
    BY DEF McpInv, PressInv, CountInv
  <2>2. CASE to_host' = to_host
    BY <2>1, <2>2
  <2>3. CASE SendRemote
    <3>1. Len(to_host) < Cap128 /\ to_host' = Append(to_host, Head(call.todo))
      BY <2>3 DEF SendRemote
    <3>2. Head(call.todo) \in HostEvents
      BY <1>2
    <3> QED
      BY <2>1, <3>1, <3>2, McpAssumption
  <2>4. SendRemote \/ to_host' = to_host
    BY DEF SendLost, SendFails, SendLocal, SendStub, InjectFails, hostVars
  <2> QED
    BY <2>2, <2>3, <2>4
<1>7. NewsInv'
  <2>1. Reading' => Reading
    BY <1>1, <1>5 DEF Reading
  <2>2. (Reading' /\ latest_clipboard' # 0 => news')
    BY <1>1, <2>1 DEF McpInv, NewsInv
  <2>3. (call.pc = "text" => Reading)' /\ ReadIsNews'
    BY <1>1, <1>5 DEF Reading, ReadIsNews
  <2> QED
    BY <2>2, <2>3 DEF NewsInv
<1>8. CountInv'
  BY <1>1, <1>5, <1>6 DEF McpInv, CountInv
<1> QED
  BY <1>1, <1>2, <1>3, <1>5, <1>6, <1>7, <1>8

\* A call sends its next event or gives up.
LEMMA SendStep ==
  ASSUME McpInv, \/ SendRemote \/ SendLost \/ SendFails \/ SendLocal \/ SendStub \/ InjectFails
  PROVE  McpInv'
<1>0. /\ UNCHANGED <<stage, bridge, link>>
      /\ call.pc = "send" /\ CallOK(call) /\ call.todo \in Seq(HostEvents) /\ call.todo # << >> /\ Unsent(call) = call.todo
      /\ stage \notin {"start", "register", "offer", "handshake"}
      /\ CallOK(call') /\ to_host' \in Seq(HostEvents) /\ NewsInv' /\ CountInv'
  BY SendCommon
<1> SUFFICES WhereInv' /\ PressInv'
  BY <1>0 DEF McpInv
<1>1. /\ to_host \in Seq(HostEvents) /\ held \subseteq Pressable /\ missed \subseteq held
      /\ Lifted(to_host \o call.todo) /\ Lifts(to_host \o call.todo, held \ missed)
  BY <1>0 DEF McpInv, PressInv, Stream
<1>2. WhereInv
  BY DEF McpInv
<1>3. Lifted(call.todo)
  BY <1>0, <1>1, JoinLifted
<1>4. Tail(call.todo) \in Seq(HostEvents) /\ Lifted(Tail(call.todo))
  BY <1>0, <1>3, TailLifted
<1>5. ASSUME NEW s \in Seq(HostEvents)
      PROVE  << >> \o s = s
  OBVIOUS
<1>6. CASE SendRemote
  <2>1. Sent /\ link = "up" /\ to_host' = Append(to_host, Head(call.todo)) /\ held' = held /\ missed' = missed
    BY <1>6 DEF SendRemote
  <2>2. Unsent(call') = Tail(call.todo)
    BY <1>0, <2>1, SentFacts
  <2>3. to_host' \o Tail(call.todo) = to_host \o call.todo
    BY <1>0, <1>1, <2>1, HandOver
  <2>4. Stream(to_host', call') = to_host \o call.todo
    BY <2>2, <2>3 DEF Stream
  <2>6. PressInv'
    BY <1>0, <1>1, <2>1, <2>4 DEF PressInv
  <2>7. WhereInv'
    BY <1>0, <1>2, <2>1 DEF WhereInv
  <2> QED
    BY <2>6, <2>7
<1>7. CASE SendLost \/ SendFails \/ SendStub
  <2>1. /\ bridge \in {"remote", "stub"} /\ (bridge = "remote" => link = "down")
        /\ to_host' = to_host /\ held' = held /\ missed' = missed
    BY <1>7 DEF SendLost, SendFails, SendStub, hostVars
  <2>2. to_host = << >> /\ held \subseteq missed
    BY <1>2, <2>1 DEF WhereInv
  <2>3. Unsent(call') \in {Tail(call.todo), << >>}
    <3>1. CASE Sent
      BY <1>0, <3>1, SentFacts
    <3>2. CASE call' = [call EXCEPT !.pc = "answer", !.todo = << >>]
      <4>1. "answer" \in Pcs /\ << >> \in Seq(HostEvents \union Nat)
        BY DEF Pcs
      <4>2. call'.pc = "answer"
        BY <1>0, <3>2, <4>1, CallChanged
      <4> QED
        BY <4>2 DEF Unsent
    <3> QED
      BY <1>7, <3>1, <3>2 DEF SendLost, SendFails, SendStub
  <2>4. Lifted(<< >>) /\ << >> \in Seq(HostEvents)
    BY DEF Lifted
  <2>5. Unsent(call') \in Seq(HostEvents) /\ Lifted(Unsent(call'))
    BY <1>4, <2>3, <2>4
  <2>6. Stream(to_host', call') = Unsent(call')
    BY <1>5, <2>1, <2>2, <2>5 DEF Stream
  <2>7. Lifts(Stream(to_host', call'), held' \ missed')
    BY <2>1, <2>2 DEF Lifts
  <2>8. PressInv'
    BY <1>0, <1>1, <2>1, <2>5, <2>6, <2>7 DEF PressInv
  <2>9. WhereInv'
    BY <1>0, <1>2, <2>1 DEF WhereInv
  <2> QED
    BY <2>8, <2>9
<1>8. CASE SendLocal
  <2>1. /\ bridge = "local" /\ Sent /\ to_host' = to_host
        /\ held' = Applied(Head(call.todo)) /\ missed' = missed \ {Head(call.todo).key}
    BY <1>8 DEF SendLocal
  <2>2. link = "down" /\ to_host = << >>
    BY <1>2, <2>1 DEF WhereInv
  <2>3. Unsent(call') = Tail(call.todo)
    BY <1>0, <2>1, SentFacts
  <2>4. Stream(to_host', call') = Tail(call.todo) /\ to_host \o call.todo = call.todo
    BY <1>0, <1>4, <1>5, <2>1, <2>2, <2>3 DEF Stream
  <2>5. Head(call.todo) \in HostEvents
    BY <1>0
  <2>6. held' \subseteq Pressable /\ missed' \subseteq held'
    BY <1>1, <2>1, <2>5, AppliedType
  <2>7. Lifts(Tail(call.todo), held' \ missed')
    <3>1. Lifts(call.todo, held \ missed)
      BY <1>1, <2>4
    <3> QED
      BY <1>0, <1>1, <1>3, <2>1, <3>1, AppliedLifts
  <2>8. PressInv'
    BY <1>0, <1>4, <2>4, <2>6, <2>7 DEF PressInv
  <2>9. WhereInv'
    BY <1>0, <1>2, <2>1, <2>2 DEF WhereInv
  <2> QED
    BY <2>8, <2>9
<1>9. CASE InjectFails
  <2>1. /\ bridge = "local" /\ missed' = missed \union NotLifted(call.todo) /\ to_host' = to_host /\ held' = held
        /\ call' = [call EXCEPT !.pc = "answer", !.todo = << >>]
    BY <1>9 DEF InjectFails, hostVars
  <2>2. to_host = << >>
    BY <1>2, <2>1 DEF WhereInv
  <2>3. "answer" \in Pcs /\ << >> \in Seq(HostEvents \union Nat)
    BY DEF Pcs
  <2>4. call'.pc = "answer"
    BY <1>0, <2>1, <2>3, CallChanged
  <2>5. Stream(to_host', call') = << >>
    BY <2>1, <2>2, <2>4 DEF Stream, Unsent
  <2>6. Lifted(<< >>) /\ Lifts(<< >>, held' \ missed') /\ missed' \subseteq held'
    <3>1. Lifts(call.todo, held \ missed)
      BY <1>0, <1>1, <1>5, <2>2
    <3>2. held' \subseteq missed'
      BY <2>1, <3>1 DEF Lifts, NotLifted
    <3> QED
      BY <1>1, <2>1, <3>2 DEF Lifted, Lifts, NotLifted
  <2>7. PressInv'
    BY <1>0, <1>1, <2>1, <2>5, <2>6 DEF PressInv
  <2>8. WhereInv'
    BY <1>0, <1>2, <2>1 DEF WhereInv
  <2> QED
    BY <2>7, <2>8
<1> QED
  BY <1>6, <1>7, <1>8, <1>9

\* The session's other end, and its end.
LEMMA HostStep ==
  ASSUME McpInv, \/ Received \/ Skipped \/ HostTakes \/ HostRefuses \/ HostCopies \/ LinkLost
                 \/ HostPushes(Picture) \/ HostPushes(host_clip)
  PROVE  McpInv'
<1>0. /\ UNCHANGED <<stage, bridge, lines, call, answered>> /\ link = "up"
  BY DEF Received, Skipped, HostTakes, HostRefuses, HostCopies, LinkLost, HostPushes, idleVars
<1>1. CallOK(call') /\ CallOK(call)
  BY <1>0 DEF McpInv
<1>2. /\ from_host \in Seq(0..MaxClip) /\ Len(from_host) <= Cap128 /\ latest_clipboard \in 0..MaxClip
      /\ host_clip \in 1..MaxClip /\ Len(to_host) <= Cap128
  BY DEF McpInv, CountInv
<1>3. MaxClip \in Nat /\ Cap128 \in Nat
  BY McpAssumption
<1>4. Unsent(call') = Unsent(call)
  BY <1>0
<1>5. ASSUME from_host' \in Seq(0..MaxClip), Len(from_host') <= Cap128, Len(to_host') <= Cap128,
             latest_clipboard' \in 0..MaxClip, host_clip' \in 1..MaxClip
      PROVE  CountInv'
  BY <1>0, <1>5 DEF McpInv, CountInv
<1>6. ASSUME link' = link, to_host' = to_host, held' = held, missed' = missed
      PROVE  WhereInv' /\ PressInv'
  <2>1. WhereInv'
    BY <1>0, <1>6 DEF McpInv, WhereInv
  <2>2. PressInv'
    BY <1>0, <1>4, <1>6, PressKept DEF McpInv
  <2> QED
    BY <2>1, <2>2
<1>7. ASSUME latest_clipboard' = latest_clipboard, news' = news
      PROVE  NewsInv'
  BY <1>0, <1>7 DEF McpInv, NewsInv, Reading, ReadIsNews
<1>8. CASE Received
  <2>1. /\ from_host # << >> /\ from_host' = Tail(from_host)
        /\ UNCHANGED <<to_host, held, missed, host_clip, link>>
        /\ \/ latest_clipboard' = latest_clipboard /\ news' = news
           \/ latest_clipboard' = Head(from_host) /\ news' = TRUE
    BY <1>8 DEF Received
  <2>2. Head(from_host) \in 0..MaxClip /\ from_host' \in Seq(0..MaxClip) /\ Len(from_host') <= Cap128
    BY <1>2, <1>3, <2>1
  <2>3. CountInv'
    BY <1>2, <1>5, <2>1, <2>2
  <2>4. NewsInv'
    <3>1. CASE news' = TRUE
      BY <1>0, <3>1 DEF McpInv, NewsInv, Reading, ReadIsNews
    <3> QED
      BY <1>7, <2>1, <3>1
  <2> QED
    BY <1>1, <1>6, <2>1, <2>3, <2>4 DEF McpInv
<1>9. CASE Skipped
  <2>1. /\ from_host # << >> /\ from_host' = Tail(from_host)
        /\ UNCHANGED <<to_host, held, missed, host_clip, link, latest_clipboard, news>>
    BY <1>9 DEF Skipped, cacheVars
  <2>2. from_host' \in Seq(0..MaxClip) /\ Len(from_host') <= Cap128
    BY <1>2, <1>3, <2>1
  <2>3. CountInv'
    BY <1>2, <1>5, <2>1, <2>2
  <2> QED
    BY <1>1, <1>6, <1>7, <2>1, <2>3 DEF McpInv
<1>10. ASSUME NEW m \in 0..MaxClip, HostPushes(m)
       PROVE  McpInv'
  <2>1. /\ Len(from_host) < Cap128 /\ from_host' = Append(from_host, m)
        /\ UNCHANGED <<to_host, held, missed, host_clip, link, latest_clipboard, news>>
    BY <1>10 DEF HostPushes, cacheVars
  <2>2. from_host' \in Seq(0..MaxClip) /\ Len(from_host') <= Cap128
    BY <1>2, <1>3, <2>1
  <2>3. CountInv'
    BY <1>2, <1>5, <2>1, <2>2
  <2> QED
    BY <1>1, <1>6, <1>7, <2>1, <2>3 DEF McpInv
<1>11. CASE HostCopies
  <2>1. /\ host_clip < MaxClip /\ host_clip' = host_clip + 1
        /\ UNCHANGED <<to_host, from_host, held, missed, link, latest_clipboard, news>>
    BY <1>11 DEF HostCopies, cacheVars
  <2>2. host_clip' \in 1..MaxClip
    BY <1>2, <1>3, <2>1
  <2>3. CountInv'
    BY <1>2, <1>5, <2>1, <2>2
  <2> QED
    BY <1>1, <1>6, <1>7, <2>1, <2>3 DEF McpInv
<1>12. CASE LinkLost
  <2>1. /\ link' = "down" /\ to_host' = << >> /\ from_host' = << >>
        /\ held' = held \intersect {"Button"}
        /\ missed' = (missed \union NotLifted(to_host \o Unsent(call))) \intersect {"Button"}
        /\ UNCHANGED <<host_clip, latest_clipboard, news>>
    BY <1>12 DEF LinkLost, cacheVars
  <2>2. << >> \in Seq(0..MaxClip) /\ << >> \in Seq(HostEvents) /\ Len(<< >>) <= Cap128
    BY <1>3
  <2>3. CountInv'
    BY <1>2, <1>5, <2>1, <2>2
  <2>a. held' \subseteq missed' /\ missed' \subseteq held' /\ held' \subseteq Pressable
    <3>1. Lifts(to_host \o Unsent(call), held \ missed) /\ missed \subseteq held /\ held \subseteq Pressable
      BY DEF McpInv, PressInv, Stream
    <3> QED
      BY <2>1, <3>1 DEF Lifts, NotLifted
  <2>4. WhereInv'
    <3>1. held' \subseteq {"Button"}
      BY <2>1
    <3> QED
      BY <1>0, <2>1, <2>a, <3>1 DEF McpInv, WhereInv
  <2>5. Unsent(call) \in Seq(HostEvents)
    BY <1>1, <2>2 DEF Unsent, CallOK
  <2>6. Lifted(Unsent(call))
    BY <2>5, JoinLifted DEF McpInv, PressInv, Stream
  <2>7. Stream(to_host', call') = Unsent(call)
    <3>1. << >> \o Unsent(call) = Unsent(call)
      BY <2>5
    <3> QED
      BY <1>4, <2>1, <3>1 DEF Stream
  <2>8. PressInv'
    <3>1. Lifts(Stream(to_host', call'), held' \ missed')
      BY <2>a DEF Lifts
    <3> QED
      BY <2>1, <2>2, <2>6, <2>7, <2>a, <3>1 DEF PressInv
  <2> QED
    BY <1>1, <1>7, <2>1, <2>3, <2>4, <2>8 DEF McpInv
<1>13. CASE HostTakes \/ HostRefuses
  <2>1. /\ to_host # << >> /\ to_host' = Tail(to_host)
        /\ \/ held' = Applied(Head(to_host)) /\ missed' = missed \ {Head(to_host).key}
           \/ held' = held /\ missed' = missed \union NotLifted(<<Head(to_host)>>)
        /\ UNCHANGED <<link, latest_clipboard, news>>
        /\ from_host' = from_host \/ (Len(from_host) < Cap128 /\ from_host' = Append(from_host, host_clip))
        /\ host_clip' = host_clip \/ (host_clip < MaxClip /\ host_clip' = host_clip + 1)
    BY <1>13 DEF HostTakes, HostRefuses, cacheVars
  <2>2. to_host \in Seq(HostEvents) /\ held \subseteq Pressable /\ missed \subseteq held /\ Lifted(Stream(to_host, call))
    BY DEF McpInv, PressInv
  <2>3. Unsent(call) \in Seq(HostEvents)
    <3>1. << >> \in Seq(HostEvents)
      OBVIOUS
    <3> QED
      BY <1>1, <3>1 DEF Unsent, CallOK
  <2> DEFINE s == to_host \o Unsent(call)
  <2>4. /\ s \in Seq(HostEvents) /\ s # << >> /\ Head(s) = Head(to_host) /\ Tail(s) = to_host' \o Unsent(call)
        /\ to_host' \in Seq(HostEvents) /\ Head(to_host) \in HostEvents /\ Lifted(s)
    BY <2>1, <2>2, <2>3, TakeFirst, Joined DEF Stream
  <2>5. Stream(to_host', call') = Tail(s) /\ Stream(to_host, call) = s
    BY <1>4, <2>4 DEF Stream
  <2> HIDE DEF s
  <2>6. Lifted(Tail(s))
    BY <2>4, TailLifted
  <2>7. held' \subseteq Pressable /\ missed' \subseteq held'
    <3>1. CASE held' = held
      BY <2>1, <2>2, <2>4, <3>1, AppliedType DEF NotLifted
    <3>2. CASE held' = Applied(Head(to_host)) /\ missed' = missed \ {Head(to_host).key}
      BY <2>2, <2>4, <3>2, AppliedType
    <3> QED
      BY <2>1, <3>1, <3>2
  <2>8. Lifts(Tail(s), held' \ missed')
    <3>1. Lifts(s, held \ missed)
      BY <2>5 DEF McpInv, PressInv
    <3>2. CASE held' = Applied(Head(to_host)) /\ missed' = missed \ {Head(to_host).key}
      BY <2>2, <2>4, <3>1, <3>2, AppliedLifts
    <3>3. CASE held' = held /\ missed' = missed \union NotLifted(<<Head(to_host)>>)
      BY <2>2, <2>4, <3>1, <3>3, RefusedLifts
    <3> QED
      BY <2>1, <3>2, <3>3
  <2>9. PressInv'
    BY <2>4, <2>5, <2>6, <2>7, <2>8 DEF PressInv
  <2>10. WhereInv'
    BY <1>0, <2>1 DEF McpInv, WhereInv
  <2>11. host_clip \in 0..MaxClip
    BY <1>2, <1>3
  <2>12. from_host' \in Seq(0..MaxClip) /\ Len(from_host') <= Cap128
    <3>1. CASE from_host' = from_host
      BY <1>2, <3>1
    <3>2. CASE Len(from_host) < Cap128 /\ from_host' = Append(from_host, host_clip)
      BY <1>2, <1>3, <2>11, <3>2
    <3> QED
      BY <2>1, <3>1, <3>2
  <2>13. host_clip' \in 1..MaxClip
    BY <1>2, <1>3, <2>1
  <2>14. Len(to_host') <= Cap128
    BY <1>2, <1>3, <2>1, <2>2
  <2>15. CountInv'
    BY <1>2, <1>5, <2>1, <2>12, <2>13, <2>14
  <2> QED
    BY <1>1, <1>7, <2>1, <2>9, <2>10, <2>15 DEF McpInv
<1>14. Picture \in 0..MaxClip /\ host_clip \in 0..MaxClip
  BY <1>2, <1>3 DEF Picture
<1> QED
  BY <1>8, <1>9, <1>10, <1>11, <1>12, <1>13, <1>14

\* Every step keeps the invariant.
LEMMA McpStep == McpInv /\ [McpNext]_vars => McpInv'
<1> SUFFICES ASSUME McpInv, [McpNext]_vars
             PROVE  McpInv'
  OBVIOUS
<1>1. CASE UNCHANGED mcpVars
  <2>1. UNCHANGED <<stage, bridge, lines, call, answered, link, to_host, from_host, latest_png, latest_clipboard, news, held,
                    host_clip, missed>>
    BY <1>1 DEF mcpVars
  <2>2. PressInv'
    BY <2>1, PressKept DEF McpInv
  <2>3. CallOK(call') /\ WhereInv'
    BY <2>1 DEF McpInv, WhereInv
  <2>4. NewsInv'
    BY <2>1 DEF McpInv, NewsInv, Reading, ReadIsNews
  <2>5. CountInv'
    BY <2>1 DEF McpInv, CountInv
  <2> QED
    BY <2>2, <2>3, <2>4, <2>5 DEF McpInv
<1>2. ASSUME NEW owed \in BOOLEAN, ReadOther(owed)
      PROVE  McpInv'
  <2>1. Ready /\ Take("-", owed, "answer")
    BY <1>2 DEF ReadOther
  <2> QED
    BY <2>1, ReadStep
<1>3. ASSUME NEW owed \in BOOLEAN, NEW tool \in Tools, ReadToolCall(tool, owed)
      PROVE  McpInv'
  <2> DEFINE p == IF tool \in Gated THEN "gate" ELSE "answer"
  <2>1. Ready /\ Take(tool, owed, p)
    BY <1>3 DEF ReadToolCall
  <2>2. p \in {"gate", "answer"} /\ (p = "gate" => tool \in Gated)
    OBVIOUS
  <2> HIDE DEF p
  <2> QED
    BY <2>1, <2>2, ReadStep
<1>4. CASE Passes
  BY <1>1, <1>4 DEF Passes
<1> QED
  BY <1>1, <1>2, <1>3, <1>4, BootStep, OverStep, SettleStep, AdmitStep, SendStep, HostStep DEF McpNext, Serve, vars

\* The invariant holds throughout.
LEMMA McpInvariant == Spec => []McpInv
<1>1. Init => McpInv
  <2> SUFFICES ASSUME McpInit
               PROVE  McpInv
    BY DEF Init
  <2>1. /\ stage = "start" /\ bridge = "none" /\ lines = 0 /\ call = NoCall /\ answered = {}
        /\ link = "down" /\ to_host = << >> /\ from_host = << >> /\ latest_clipboard = 0
        /\ held = {} /\ missed = {} /\ host_clip = 1
    BY DEF McpInit
  <2>2. CallOK(call) /\ call.pc = "-" /\ call.n = 0
    BY <2>1, NoCallFacts
  <2>3. WhereInv
    BY <2>1, <2>2 DEF WhereInv
  <2>4. Stream(to_host, call) = << >>
    BY <2>1, <2>2 DEF Stream, Unsent
  <2>5. PressInv
    <3>1. to_host \in Seq(HostEvents) /\ held \subseteq Pressable /\ missed \subseteq held
      BY <2>1
    <3>2. Lifted(<< >>) /\ Lifts(<< >>, held \ missed)
      BY <2>1 DEF Lifted, Lifts
    <3> QED
      BY <2>4, <3>1, <3>2 DEF PressInv
  <2>6. NewsInv
    BY <2>2 DEF NewsInv, Reading, ReadIsNews
  <2>7. CountInv
    <3>1. << >> \in Seq(0..MaxClip) /\ Len(<< >>) <= Cap128
      BY McpAssumption
    <3>2. 0 \in 0..MaxLines /\ 0 \in 0..MaxClip /\ 1 \in 1..MaxClip /\ 0 \in 0..0
      BY McpAssumption
    <3> QED
      BY <2>1, <2>2, <3>1, <3>2 DEF CountInv
  <2> QED
    BY <2>2, <2>3, <2>5, <2>6, <2>7 DEF McpInv
<1> QED
  BY <1>1, McpStep, PTL DEF Spec

\* Each variable of the server has its type.
THEOREM McpTypeCorrect == Spec => []McpTypeOK
<1>1. McpInv => McpTypeOK
  <2> SUFFICES ASSUME McpInv
               PROVE  McpTypeOK
    OBVIOUS
  <2>1. call.pc \in {"-", "gate", "send", "picture", "text", "answer"}
    BY DEF McpInv, CallOK, Calls, Pcs
  <2> QED
    BY <2>1 DEF McpInv, WhereInv, PressInv, CountInv, McpTypeOK, Pressable
<1> QED
  BY McpInvariant, <1>1, PTL

\* Once a call is over and the host has taken what was sent, only what lost its release is still
\* down: refused by the host, failed on this machine or, for a mouse button only, cut off with the
\* session; for any number of calls and any capacity of the channel (dispatch, key_combo, mouse_click).
THEOREM CallsLeaveNothingPressed == Spec => []NothingLeftPressed
<1>1. McpInv => NothingLeftPressed
  <2> SUFFICES ASSUME McpInv
               PROVE  NothingLeftPressed
    OBVIOUS
  <2>1. ASSUME call = NoCall, to_host = << >>
        PROVE  held \subseteq missed
    <3>1. Stream(to_host, call) = << >>
      BY <2>1, NoCallFacts DEF Stream, Unsent
    <3>2. Lifts(<< >>, held \ missed)
      BY <3>1 DEF McpInv, PressInv
    <3> QED
      BY <3>2 DEF Lifts
  <2>2. bridge = "remote" /\ link = "down" => held \subseteq {"Button"}
    BY DEF McpInv, WhereInv
  <2> QED
    BY <2>1, <2>2 DEF NothingLeftPressed
<1> QED
  BY McpInvariant, <1>1, PTL

\* A read of the clipboard over a session returns a text that came while it waited, for any number
\* of reads, pushes and changes (RemoteBridge::read_clipboard).
THEOREM ReadsAreNews == Spec => []ReadIsNews
<1>1. McpInv => ReadIsNews
  BY DEF McpInv, NewsInv
<1> QED
  BY McpInvariant, <1>1, PTL

=============================================================================
