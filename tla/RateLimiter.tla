----------------------------- MODULE RateLimiter -----------------------------
(***************************************************************************)
(* The per-capability limiter of the MCP server                            *)
(* (crates/miru-mcp/src/rate_limit.rs): a token bucket that is refilled    *)
(* only when it is asked, and a cap per day.                               *)
(*                                                                         *)
(* Time passes in ticks.  What the code keeps as instants is kept here as  *)
(* ages, which are folded so that only finitely many are told apart.       *)
(***************************************************************************)
EXTENDS Naturals

CONSTANTS
  Caps,           \* capabilities whose bucket is followed
  burst,          \* tokens a full bucket holds
  refill_every,   \* ticks after which one token accrues
  daily_max,      \* calls per window
  Day             \* ticks of a window, 24 h in the code

ASSUME LimiterAssumption ==
  /\ burst \in Nat \ {0} /\ refill_every \in Nat \ {0}
  /\ daily_max \in Nat \ {0} /\ Day \in Nat \ {0}

VARIABLES
  tokens,       \* tokens[c]: as of last_refill
  refill_age,   \* refill_age[c]: ticks since last_refill
  used_today,   \* used_today[c]: calls since day_start
  day_age,      \* day_age[c]: ticks since day_start
  accrued,      \* accrued[c]: tokens of a bucket that is refilled at every tick
  phase         \* phase[c]: ticks since that bucket got its last token

limiterVars == <<tokens, refill_age, used_today, day_age, accrued, phase>>

AtMost(n, m) == IF n > m THEN m ELSE n

LimiterTypeOK ==
  /\ tokens \in [Caps -> 0..burst] /\ accrued \in [Caps -> 0..burst]
  /\ used_today \in [Caps -> 0..daily_max]
  /\ day_age \in [Caps -> 0..Day]
  /\ phase \in [Caps -> 0..(refill_every - 1)]
  /\ refill_age \in [Caps -> 0..(refill_every * (burst + 1) - 1)]

\* A bucket starts full (Bucket::new).
LimiterInit ==
  /\ tokens = [c \in Caps |-> burst]
  /\ refill_age = [c \in Caps |-> 0]
  /\ used_today = [c \in Caps |-> 0]
  /\ day_age = [c \in Caps |-> 0]
  /\ accrued = [c \in Caps |-> burst]
  /\ phase = [c \in Caps |-> 0]

\* An age that fills the bucket anyway is folded by whole refills.
Fold(a) == IF a < refill_every * (burst + 1) THEN a ELSE a - refill_every

Tick ==
  /\ refill_age' = [c \in Caps |-> Fold(refill_age[c] + 1)]
  /\ day_age' = [c \in Caps |-> AtMost(day_age[c] + 1, Day)]
  /\ phase' = [c \in Caps |-> (phase[c] + 1) % refill_every]
  /\ accrued' = [c \in Caps |->
       IF phase[c] + 1 = refill_every THEN AtMost(accrued[c] + 1, burst) ELSE accrued[c]]
  /\ UNCHANGED <<tokens, used_today>>

\* try_consume, first: the window starts over when it is asked after its end.
RolledUse(c) == IF day_age[c] >= Day THEN 0 ELSE used_today[c]
RolledAge(c) == IF day_age[c] >= Day THEN 0 ELSE day_age[c]

Refilled(c) == refill_age[c] \div refill_every

\* Mutant: the time that has not yet earned a token is thrown away.
RemainderLost(c) == 0

\* last_refill advances by whole tokens only.
Remainder(c) == refill_age[c] % refill_every

Available(c) == AtMost(tokens[c] + Refilled(c), burst)

CapReached(c) == RolledUse(c) >= daily_max

\* The cap of the day refuses before the bucket is looked at.
DailyCapReached(c) ==
  /\ CapReached(c)
  /\ used_today' = [used_today EXCEPT ![c] = RolledUse(c)]
  /\ day_age' = [day_age EXCEPT ![c] = RolledAge(c)]
  /\ UNCHANGED <<tokens, refill_age, accrued, phase>>

BucketEmpty(c) ==
  /\ ~CapReached(c) /\ Available(c) = 0
  /\ used_today' = [used_today EXCEPT ![c] = RolledUse(c)]
  /\ day_age' = [day_age EXCEPT ![c] = RolledAge(c)]
  /\ refill_age' = [refill_age EXCEPT ![c] = Remainder(c)]
  /\ UNCHANGED <<tokens, accrued, phase>>

Consumed(c) ==
  /\ ~CapReached(c) /\ Available(c) > 0
  /\ used_today' = [used_today EXCEPT ![c] = RolledUse(c) + 1]
  /\ day_age' = [day_age EXCEPT ![c] = RolledAge(c)]
  /\ refill_age' = [refill_age EXCEPT ![c] = Remainder(c)]
  /\ tokens' = [tokens EXCEPT ![c] = Available(c) - 1]
  /\ accrued' = [accrued EXCEPT ![c] = IF @ = 0 THEN 0 ELSE @ - 1]
  /\ UNCHANGED phase

\* The bucket that is refilled only when a call comes grants exactly the calls
\* that one refilled at every tick would grant: no time is lost and none is
\* counted twice, whenever the calls come (try_consume carries the remainder).
LazyRefillIsExact == \A c \in Caps : Available(c) = accrued[c]
=============================================================================
