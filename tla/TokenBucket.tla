---------------------------- MODULE TokenBucket -----------------------------
(***************************************************************************)
(* DefaultRateLimiter on RedisTokenBucketAlgorithm: one bucket of a tenant *)
(* in Redis, refilled when it is read, written by optimistic transactions  *)
(* of requests whose processes' clocks may differ.                         *)
(***************************************************************************)
EXTENDS Integers, FiniteSets

CONSTANTS
  Requests,        \* requests of the tenant
  Capacity, RefillTokens, RefillInterval,   \* the rate-limit.policy value
  Cost,            \* tokens a request costs
  MaxBucketTries,  \* MAX_OPTIMISTIC_RETRIES
  MaxSkew          \* how far the clock of a process may be ahead

ASSUME BucketBounds ==
  /\ Capacity \in Nat \ {0} /\ RefillTokens \in Nat /\ RefillInterval \in Nat \ {0}
  /\ Cost \in Nat \ {0} /\ MaxBucketTries \in Nat \ {0} /\ MaxSkew \in Nat

VARIABLES
  clock,           \* time
  bucket,          \* rl:{key}: tokens, lastRefillAt, and when the key expires
  tx,              \* the transaction of each request
  granted          \* tokens given out so far

bucketVars == <<clock, bucket, tx, granted>>

IdleTx == [pc |-> "idle", tries |-> 0, tokens |-> 0, last |-> 0, moved |-> FALSE]

BucketInit ==
  /\ clock = 0
  /\ bucket = [tokens |-> 0, last |-> 0, dies |-> 0]
  /\ tx = [r \in Requests |-> IdleTx]
  /\ granted = 0

LargerOf(a, b) == IF a > b THEN a ELSE b
SmallerOf(a, b) == IF a < b THEN a ELSE b
CeilDiv(a, b) == (a + b - 1) \div b

FullRefill == CeilDiv(Capacity, RefillTokens) * RefillInterval
IdleTtl ==
  IF RefillTokens = 0 THEN RefillInterval * 2 ELSE LargerOf(RefillInterval * 2, FullRefill * 2)

(* Clocks differ by less than what the TTL exceeds a full refill by. *)
ASSUME SkewAssumption == RefillTokens > 0 => MaxSkew + FullRefill <= IdleTtl

(* What a reader at time now makes of the hash; an expired key is absent. *)
Stored(now) ==
  IF clock < bucket.dies THEN [tokens |-> bucket.tokens, last |-> bucket.last]
                         ELSE [tokens |-> Capacity, last |-> now]

(* Mutant: lastRefillAt is left where it was. *)
RefilledTwice(b, now) ==
  LET intervals == LargerOf(0, now - b.last) \div RefillInterval
  IN [b EXCEPT !.tokens = SmallerOf(Capacity, @ + intervals * RefillTokens)]

(* Whole intervals are credited and lastRefillAt moves by just as many. *)
Refilled(b, now) ==
  LET intervals == LargerOf(0, now - b.last) \div RefillInterval
  IN [tokens |-> IF intervals = 0 THEN b.tokens
                 ELSE SmallerOf(Capacity, b.tokens + intervals * RefillTokens),
      last   |-> b.last + intervals * RefillInterval]

(* WATCH and HMGET. *)
ReadBucket(r, skew) ==
  /\ tx[r].pc = "idle"
  /\ LET b == Refilled(Stored(clock + skew), clock + skew)
     IN tx' = [tx EXCEPT ![r] = [pc |-> "read", tries |-> @.tries + 1, tokens |-> b.tokens,
                                 last |-> b.last, moved |-> FALSE]]
  /\ UNCHANGED <<clock, bucket, granted>>

Allowed(r) == tx[r].tokens >= Cost

(* MULTI/EXEC: a bucket written since WATCH aborts, and the last abort of    *)
(* all refuses.  Otherwise the tokens are written and the call is decided.   *)
Aborts(r) ==
  /\ tx[r].pc = "read" /\ tx[r].moved
  /\ tx' = [tx EXCEPT ![r] = IF @.tries < MaxBucketTries THEN [@ EXCEPT !.pc = "idle"]
                                                         ELSE [IdleTx EXCEPT !.pc = "refused"]]
  /\ UNCHANGED <<clock, bucket, granted>>

Moved(r) ==
  [s \in Requests \ {r} |-> IF tx[s].pc = "read" THEN [tx[s] EXCEPT !.moved = TRUE] ELSE tx[s]]

Commits(r) ==
  /\ tx[r].pc = "read" /\ ~tx[r].moved
  /\ bucket' = [tokens |-> tx[r].tokens - (IF Allowed(r) THEN Cost ELSE 0), last |-> tx[r].last,
                dies |-> clock + IdleTtl]
  /\ tx' = [s \in Requests |->
              IF s # r THEN Moved(r)[s]
              ELSE [IdleTx EXCEPT !.pc = IF Allowed(r) THEN "allowed" ELSE "refused"]]
  /\ granted' = granted + (IF Allowed(r) THEN Cost ELSE 0)
  /\ UNCHANGED clock

(* Redis is down: the limiter refuses. *)
BucketFails(r) ==
  /\ tx[r].pc \in {"idle", "read"}
  /\ tx' = [tx EXCEPT ![r] = [IdleTx EXCEPT !.pc = "refused"]]
  /\ UNCHANGED <<clock, bucket, granted>>

(* A clock ahead of the others never makes the bucket credit an interval     *)
(* twice: what was given out is covered by the capacity and the whole        *)
(* intervals that passed, whatever the readers interleave, abort or expire.  *)
(* A bucket that refills nothing is full again when its key expired, so      *)
(* once per TTL at most.                                                     *)
(* (redis-token-bucket-algorithm.ts, checkAndConsume and idleTtlMs)          *)
GrantsCovered ==
  granted <= Capacity + IF RefillTokens = 0 THEN Capacity * (clock \div IdleTtl)
                        ELSE RefillTokens * ((clock + MaxSkew) \div RefillInterval)
=============================================================================
