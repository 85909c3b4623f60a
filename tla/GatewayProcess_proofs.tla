----------------------- MODULE GatewayProcess_proofs -----------------------
(***************************************************************************)
(* Theorems about the API process: its type invariant, the tokens a bucket *)
(* gives out, the connections under a request, and what is forwarded.      *)
(***************************************************************************)
EXTENDS GatewayProcess, TLAPS

----------------------------------------------------------------------------
(* Whole intervals.  Cover(last, at) bounds what a bucket that was credited *)
(* up to last, and was full at time at if it can only be full again by its  *)
(* expiry, may have given out and still hold.                              *)

Earned(last, at) ==
  IF RefillTokens = 0 THEN Capacity * (at \div IdleTtl) ELSE RefillTokens * (last \div RefillInterval)
Cover(last, at) == Capacity + Earned(last, at)

(* What a quotient is, by its bounds. *)
LEMMA QuotientBounds ==
  ASSUME NEW a \in Int, NEW n \in Nat \ {0}
  PROVE  a \div n \in Int /\ n * (a \div n) <= a /\ a < n * (a \div n) + n
OBVIOUS

(* A number within the bounds is the quotient. *)
LEMMA QuotientIs ==
  ASSUME NEW a \in Int, NEW n \in Nat \ {0}, NEW q \in Int, n * q <= a, a < n * q + n
  PROVE  a \div n = q
BY QuotientBounds

(* Multiples that are less than one step apart are ordered. *)
LEMMA Cancel ==
  ASSUME NEW a \in Int, NEW b \in Int, NEW n \in Nat \ {0}, n * a < n * b + n
  PROVE  a <= b
OBVIOUS

(* Multiples keep the order. *)
LEMMA Scale ==
  ASSUME NEW a \in Int, NEW b \in Int, NEW n \in Nat \ {0}, a <= b
  PROVE  n * a <= n * b
OBVIOUS

(* Quotients keep the order. *)
LEMMA QuotientMonotone ==
  ASSUME NEW a \in Int, NEW b \in Int, NEW n \in Nat \ {0}, a <= b
  PROVE  a \div n <= b \div n
<1>1. n * (a \div n) < n * (b \div n) + n BY QuotientBounds
<1> QED BY <1>1, QuotientBounds, Cancel

(* The quotient of naturals is one. *)
LEMMA QuotientNatural == ASSUME NEW a \in Nat, NEW n \in Nat \ {0} PROVE a \div n \in Nat
OBVIOUS

(* Whole multiples leave a quotient whole. *)
LEMMA QuotientShift ==
  ASSUME NEW a \in Int, NEW k \in Int, NEW n \in Nat \ {0}
  PROVE  (a + k * n) \div n = (a \div n) + k
<1> DEFINE q == a \div n
<1>1. q \in Int /\ n * q <= a /\ a < n * q + n BY QuotientBounds
<1> HIDE DEF q
<1>2. k * n \in Int /\ n * k = k * n /\ n * (q + k) = n * q + n * k BY <1>1
<1>3. n * (q + k) <= a + k * n /\ a + k * n < n * (q + k) + n BY <1>1, <1>2
<1>4. (a + k * n) \div n = q + k BY <1>1, <1>2, <1>3, QuotientIs
<1> QED BY <1>4 DEF q

Refills == CeilDiv(Capacity, RefillTokens)

(* So many refills fill an empty bucket. *)
LEMMA RefillsFill ==
  ASSUME RefillTokens # 0
  PROVE  Refills \in Nat \ {0} /\ Capacity <= Refills * RefillTokens
<1> DEFINE top == Capacity + RefillTokens - 1
<1>1. top \in Nat /\ Refills = top \div RefillTokens /\ RefillTokens \in Nat \ {0}
  BY BucketBounds DEF Refills, CeilDiv
<1>2. top < RefillTokens * Refills + RefillTokens /\ Refills \in Nat
  BY <1>1, BucketBounds, QuotientBounds, QuotientNatural
<1>3. RefillTokens * Refills = Refills * RefillTokens /\ Refills * RefillTokens \in Nat BY <1>2, BucketBounds
<1>4. Capacity <= Refills * RefillTokens BY <1>2, <1>3, BucketBounds DEF top
<1>5. Refills # 0 BY <1>3, <1>4, BucketBounds
<1> QED BY <1>2, <1>4, <1>5

(* A key lives for a while. *)
LEMMA TtlType == IdleTtl \in Nat \ {0}
<1>1. RefillInterval * 2 \in Nat \ {0} BY BucketBounds
<1>2. CASE RefillTokens = 0 BY <1>1, <1>2 DEF IdleTtl
<1>3. CASE RefillTokens # 0
  <2>1. Refills * RefillInterval * 2 \in Nat BY <1>3, RefillsFill, BucketBounds
  <2> QED BY <1>1, <1>3, <2>1 DEF IdleTtl, FullRefill, LargerOf, Refills
<1> QED BY <1>2, <1>3

(* It outlives a full refill, by the skew of the clocks. *)
LEMMA TtlOutlives ==
  ASSUME RefillTokens # 0
  PROVE  Refills * RefillInterval \in Nat /\ MaxSkew + Refills * RefillInterval <= IdleTtl
<1>1. Refills * RefillInterval \in Nat BY RefillsFill, BucketBounds
<1> QED BY <1>1, SkewAssumption, BucketBounds DEF Refills, FullRefill

(* The tokens a time covers are a number. *)
LEMMA CoverNatural == ASSUME NEW a \in Nat, NEW w \in Nat PROVE Cover(a, w) \in Nat
<1>1. a \div RefillInterval \in Nat /\ w \div IdleTtl \in Nat BY BucketBounds, TtlType, QuotientNatural
<1>2. Earned(a, w) \in Nat BY <1>1, BucketBounds DEF Earned
<1> QED BY <1>2, BucketBounds DEF Cover

(* A later time covers no fewer tokens. *)
LEMMA CoverMonotone ==
  ASSUME NEW a \in Nat, NEW b \in Nat, a <= b, NEW w \in Nat, NEW v \in Nat, w <= v
  PROVE  Cover(a, w) <= Cover(b, v)
<1> DEFINE p == a \div RefillInterval
           q == b \div RefillInterval
           m == w \div IdleTtl
           n == v \div IdleTtl
<1>1. p \in Int /\ q \in Int /\ p <= q BY BucketBounds, QuotientMonotone, QuotientBounds
<1>2. m \in Int /\ n \in Int /\ m <= n BY TtlType, QuotientMonotone, QuotientBounds
<1> HIDE DEF p, q, m, n
<1>3. RefillTokens # 0 => RefillTokens * p <= RefillTokens * q BY <1>1, BucketBounds, Scale
<1>4. Capacity * m <= Capacity * n BY <1>2, BucketBounds, Scale
<1>5. /\ RefillTokens * p \in Int /\ RefillTokens * q \in Int
      /\ Capacity * m \in Int /\ Capacity * n \in Int
  BY <1>1, <1>2, BucketBounds
<1>6. /\ Earned(a, w) = IF RefillTokens = 0 THEN Capacity * m ELSE RefillTokens * p
      /\ Earned(b, v) = IF RefillTokens = 0 THEN Capacity * n ELSE RefillTokens * q
  BY DEF Earned, p, q, m, n
<1>7. Earned(a, w) \in Int /\ Earned(b, v) \in Int /\ Earned(a, w) <= Earned(b, v)
  BY <1>3, <1>4, <1>5, <1>6
<1> QED BY <1>7, BucketBounds DEF Cover

(* Every whole interval covers its tokens. *)
LEMMA CoverShift ==
  ASSUME NEW a \in Nat, NEW k \in Nat, NEW w \in Nat
  PROVE  Cover(a + k * RefillInterval, w) = Cover(a, w) + k * RefillTokens
<1> DEFINE q == a \div RefillInterval
<1>1. (a + k * RefillInterval) \div RefillInterval = q + k
  <2>1. a \in Int /\ k \in Int /\ RefillInterval \in Nat \ {0} BY BucketBounds
  <2>2. \A x, y \in Int, n \in Nat \ {0} : (x + y * n) \div n = (x \div n) + y BY QuotientShift
  <2> HIDE DEF q
  <2>3. (a + k * RefillInterval) \div RefillInterval = (a \div RefillInterval) + k BY <2>1, <2>2, Zenon
  <2> QED BY <2>3 DEF q
<1>2. q \in Int BY BucketBounds, QuotientBounds
<1>3. CASE RefillTokens = 0
  <2>1. Earned(a + k * RefillInterval, w) = Earned(a, w) /\ k * RefillTokens = 0 BY <1>3 DEF Earned
  <2> QED BY <2>1, CoverNatural DEF Cover
<1>4. CASE RefillTokens # 0
  <2> HIDE DEF q
  <2>1. RefillTokens * (q + k) = RefillTokens * q + k * RefillTokens BY <1>2, BucketBounds
  <2>2. RefillTokens * q \in Int /\ k * RefillTokens \in Int BY <1>2, BucketBounds
  <2>3. Cover(a + k * RefillInterval, w) = Capacity + (RefillTokens * q + k * RefillTokens)
    BY <1>1, <1>4, <2>1 DEF Cover, Earned
  <2>4. Cover(a, w) = Capacity + RefillTokens * q BY <1>4 DEF Cover, Earned, q
  <2> QED BY <2>2, <2>3, <2>4, BucketBounds
<1> QED BY <1>3, <1>4

----------------------------------------------------------------------------
(* The bucket.  What was given out and what is left are covered by the      *)
(* credited time, in the bucket and in every transaction that may commit;   *)
(* and the key outlives its last use by a full refill at least.             *)

Credited == [tokens : 0..Capacity, last : Nat]
Tx == [pc : {"idle", "read", "refused", "allowed"}, tries : 0..MaxBucketTries,
       tokens : 0..Capacity, last : Nat, moved : BOOLEAN]

BucketTypes ==
  /\ clock \in Nat /\ granted \in Nat
  /\ bucket \in [tokens : 0..Capacity, last : Nat, dies : Nat]
  /\ tx \in [Requests -> Tx]
  /\ \A r \in Requests : tx[r].pc = "idle" => tx[r].tries < MaxBucketTries

LifeInv ==
  /\ bucket.dies = 0 => granted = 0
  /\ bucket.dies # 0 => /\ IdleTtl <= bucket.dies
                        /\ granted + bucket.tokens <= Cover(bucket.last, bucket.dies - IdleTtl)
                        /\ bucket.last + IdleTtl <= bucket.dies + MaxSkew
                        /\ bucket.dies <= clock + IdleTtl

Covered(t) ==
  t.pc = "read" => /\ t.last <= clock + MaxSkew
                   /\ ~t.moved => granted + t.tokens <= Cover(t.last, clock)

BucketInv == BucketTypes /\ LifeInv /\ \A r \in Requests : Covered(tx[r])

(* A request at rest has no transaction. *)
LEMMA IdleType == IdleTx \in Tx /\ IdleTx.pc = "idle" /\ IdleTx.tries < MaxBucketTries
BY BucketBounds DEF IdleTx, Tx

(* A bucket that is read anew is covered, because its key lived on long     *)
(* enough.                                                                  *)
LEMMA StoredCovered ==
  ASSUME BucketInv, NEW skew \in 0..MaxSkew
  PROVE  LET b == Stored(clock + skew)
         IN  b \in Credited /\ b.last <= clock + MaxSkew /\ granted + b.tokens <= Cover(b.last, clock)
<1> DEFINE now == clock + skew
<1>0. /\ clock \in Nat /\ granted \in Nat /\ skew \in Nat /\ skew <= MaxSkew /\ MaxSkew \in Nat
      /\ bucket.tokens \in 0..Capacity /\ bucket.last \in Nat /\ bucket.dies \in Nat
      /\ Capacity \in Nat \ {0} /\ IdleTtl \in Nat \ {0}
  BY BucketBounds, TtlType DEF BucketInv, BucketTypes
<1>1. now \in Nat /\ now <= clock + MaxSkew BY <1>0
<1>2. CASE clock < bucket.dies
  <2>1. Stored(now) = [tokens |-> bucket.tokens, last |-> bucket.last] BY <1>2 DEF Stored
  <2>2. /\ bucket.last <= clock + MaxSkew /\ bucket.dies - IdleTtl \in Nat /\ bucket.dies - IdleTtl <= clock
        /\ granted + bucket.tokens <= Cover(bucket.last, bucket.dies - IdleTtl)
    BY <1>0, <1>2 DEF BucketInv, LifeInv
  <2>3. Cover(bucket.last, bucket.dies - IdleTtl) <= Cover(bucket.last, clock) BY <1>0, <2>2, CoverMonotone
  <2>4. Cover(bucket.last, bucket.dies - IdleTtl) \in Nat /\ Cover(bucket.last, clock) \in Nat
    BY <1>0, <2>2, CoverNatural
  <2>5. granted + bucket.tokens <= Cover(bucket.last, clock) BY <1>0, <2>2, <2>3, <2>4
  <2> QED BY <1>0, <2>1, <2>2, <2>5 DEF Credited
<1>3. CASE ~(clock < bucket.dies)
  <2>1. Stored(now) = [tokens |-> Capacity, last |-> now] BY <1>3 DEF Stored
  <2>2. granted + Capacity <= Cover(now, clock)
    <3>1. CASE bucket.dies = 0
      <4>1. granted = 0 BY <3>1 DEF BucketInv, LifeInv
      <4>2. now \div RefillInterval \in Nat /\ clock \div IdleTtl \in Nat
        BY <1>0, <1>1, BucketBounds, QuotientNatural
      <4>3. Earned(now, clock) \in Nat BY <4>2, BucketBounds DEF Earned
      <4> QED BY <1>0, <4>1, <4>3 DEF Cover
    <3>2. CASE bucket.dies # 0
      <4> DEFINE write == bucket.dies - IdleTtl
      <4>1. /\ granted + bucket.tokens <= Cover(bucket.last, write)
            /\ bucket.last + IdleTtl <= bucket.dies + MaxSkew /\ write \in Nat /\ write + IdleTtl <= clock
        BY <1>0, <1>3, <3>2 DEF BucketInv, LifeInv
      <4> HIDE DEF write
      <4>2. CASE RefillTokens # 0
        <5>1. bucket.last + Refills * RefillInterval <= now
          BY <1>0, <1>3, <3>2, <4>2, TtlOutlives DEF BucketInv, LifeInv
        <5>2. bucket.last + Refills * RefillInterval \in Nat BY <1>0, <4>2, TtlOutlives
        <5>3. write <= clock BY <1>0, <4>1
        <5>4. Cover(bucket.last + Refills * RefillInterval, write) <= Cover(now, clock)
          BY <1>0, <1>1, <4>1, <5>1, <5>2, <5>3, CoverMonotone
        <5>5. Cover(bucket.last + Refills * RefillInterval, write)
                = Cover(bucket.last, write) + Refills * RefillTokens
          BY <1>0, <4>1, <4>2, RefillsFill, CoverShift
        <5>6. Cover(bucket.last, write) \in Nat /\ Cover(now, clock) \in Nat BY <1>0, <1>1, <4>1, CoverNatural
        <5>7. Refills * RefillTokens \in Nat BY <4>2, RefillsFill, BucketBounds
        <5> HIDE DEF now
        <5> QED BY <1>0, <4>1, <4>2, <5>4, <5>5, <5>6, <5>7, RefillsFill
      <4>3. CASE RefillTokens = 0
        <5> DEFINE m == write \div IdleTtl
                   n == clock \div IdleTtl
        <5>1. m \in Int /\ n \in Int BY <1>0, <4>1, QuotientBounds
        <5>2. m + 1 <= n
          <6>1. write \in Int /\ clock \in Int /\ write + IdleTtl \in Int /\ 1 \in Int BY <1>0, <4>1
          <6>2. write + 1 * IdleTtl = write + IdleTtl BY <1>0, <4>1
          <6>3. \A x, y \in Int, k \in Nat \ {0} : (x + y * k) \div k = (x \div k) + y BY QuotientShift
          <6>4. (write + 1 * IdleTtl) \div IdleTtl = (write \div IdleTtl) + 1 BY <1>0, <6>1, <6>3, Zenon
          <6>5. \A x, y \in Int, k \in Nat \ {0} : x <= y => x \div k <= y \div k BY QuotientMonotone
          <6>6. (write + IdleTtl) \div IdleTtl <= clock \div IdleTtl BY <1>0, <4>1, <6>1, <6>5, Zenon
          <6>7. (write \div IdleTtl) + 1 <= clock \div IdleTtl BY <6>2, <6>4, <6>6, Zenon
          <6> QED BY <6>7 DEF m, n
        <5>3. Cover(bucket.last, write) = Capacity + Capacity * m /\ Cover(now, clock) = Capacity + Capacity * n
          BY <4>3 DEF Cover, Earned
        <5> HIDE DEF m, n, now
        <5>4. Capacity * (m + 1) <= Capacity * n BY <1>0, <5>1, <5>2, Scale
        <5>5. Capacity * (m + 1) = Capacity * m + Capacity BY <1>0, <5>1
        <5>6. Capacity * m \in Int /\ Capacity * n \in Int BY <1>0, <5>1
        <5> QED BY <1>0, <4>1, <5>3, <5>4, <5>5, <5>6
      <4> QED BY <4>2, <4>3
    <3> QED BY <3>1, <3>2
  <2> QED BY <1>0, <1>1, <2>1, <2>2 DEF Credited
<1> QED BY <1>2, <1>3

(* A refill credits what it moves lastRefillAt by. *)
LEMMA RefilledCovered ==
  ASSUME NEW b \in Credited, NEW now \in Nat, NEW g \in Nat, NEW w \in Nat, g + b.tokens <= Cover(b.last, w)
  PROVE  LET c == Refilled(b, now)
         IN  c \in Credited /\ g + c.tokens <= Cover(c.last, w) /\ (c.last <= b.last \/ c.last <= now)
<1> DEFINE elapsed == LargerOf(0, now - b.last)
           intervals == elapsed \div RefillInterval
<1>1. b.tokens \in 0..Capacity /\ b.last \in Nat BY DEF Credited
<1>2. elapsed \in Nat /\ (elapsed = 0 \/ elapsed = now - b.last) BY <1>1 DEF LargerOf
<1>3. intervals \in Nat /\ RefillInterval * intervals <= elapsed
  BY <1>2, BucketBounds, QuotientNatural, QuotientBounds
<1>4. Refilled(b, now) = [tokens |-> IF intervals = 0 THEN b.tokens
                                     ELSE SmallerOf(Capacity, b.tokens + intervals * RefillTokens),
                          last |-> b.last + intervals * RefillInterval]
  BY DEF Refilled
<1> HIDE DEF intervals, elapsed
<1>5. /\ intervals * RefillInterval = RefillInterval * intervals
      /\ intervals * RefillInterval \in Nat /\ intervals * RefillTokens \in Nat
  BY <1>3, BucketBounds
<1>6. Cover(b.last + intervals * RefillInterval, w) = Cover(b.last, w) + intervals * RefillTokens
  BY <1>1, <1>3, CoverShift
<1>7. Cover(b.last, w) \in Nat BY <1>1, CoverNatural
<1>8. b.last + intervals * RefillInterval <= b.last \/ b.last + intervals * RefillInterval <= now
  BY <1>1, <1>2, <1>3, <1>5
<1>9. CASE intervals = 0
  <2>1. Refilled(b, now) = [tokens |-> b.tokens, last |-> b.last + intervals * RefillInterval] BY <1>4, <1>9
  <2> QED BY <1>1, <1>5, <1>6, <1>7, <1>8, <2>1 DEF Credited
<1>10. CASE intervals # 0
  <2> DEFINE tokens == SmallerOf(Capacity, b.tokens + intervals * RefillTokens)
  <2>1. Refilled(b, now) = [tokens |-> tokens, last |-> b.last + intervals * RefillInterval] BY <1>4, <1>10
  <2>2. tokens \in 0..Capacity /\ tokens <= b.tokens + intervals * RefillTokens
    BY <1>1, <1>5, BucketBounds DEF SmallerOf
  <2> HIDE DEF tokens
  <2> QED BY <1>1, <1>5, <1>6, <1>7, <1>8, <2>1, <2>2 DEF Credited
<1> QED BY <1>9, <1>10

(* A step that leaves the bucket alone and gives some transactions new      *)
(* values keeps the invariant if the new values are covered.                *)
LEMMA TxStep ==
  ASSUME BucketInv, UNCHANGED <<clock, bucket, granted>>, tx' \in [Requests -> Tx],
         \A r \in Requests : tx'[r] = tx[r] \/ (Covered(tx'[r]) /\ (tx'[r].pc = "idle" => tx'[r].tries < MaxBucketTries))
  PROVE  BucketInv'
<1>1. BucketTypes' BY DEF BucketInv, BucketTypes
<1>2. LifeInv' BY DEF BucketInv, LifeInv
<1>3. ASSUME NEW r \in Requests PROVE Covered(tx[r])'
  <2>1. Covered(tx'[r]) BY DEF BucketInv
  <2> QED BY <2>1 DEF Covered
<1> QED BY <1>1, <1>2, <1>3 DEF BucketInv

(* What a transaction reads is covered, whatever its clock says. *)
LEMMA ReadBucketStep ==
  ASSUME BucketInv, NEW r \in Requests, NEW skew \in 0..MaxSkew, ReadBucket(r, skew)
  PROVE  BucketInv'
<1> DEFINE now == clock + skew
           b == Stored(now)
           c == Refilled(b, now)
           t == [pc |-> "read", tries |-> tx[r].tries + 1, tokens |-> c.tokens, last |-> c.last, moved |-> FALSE]
<1>1. tx' = [tx EXCEPT ![r] = t] /\ tx[r].pc = "idle" /\ UNCHANGED <<clock, bucket, granted>>
  BY DEF ReadBucket
<1>2. b \in Credited /\ b.last <= clock + MaxSkew /\ granted + b.tokens <= Cover(b.last, clock) BY StoredCovered
<1>3. /\ clock \in Nat /\ granted \in Nat /\ skew \in Nat /\ MaxSkew \in Nat /\ skew <= MaxSkew
      /\ tx \in [Requests -> Tx] /\ tx[r].tries < MaxBucketTries /\ MaxBucketTries \in Nat
      /\ tx[r].tries \in 0..MaxBucketTries
  BY <1>1, BucketBounds DEF BucketInv, BucketTypes, Tx
<1>4. now \in Nat /\ now <= clock + MaxSkew BY <1>3
<1> HIDE DEF b, now
<1>5. c \in Credited /\ granted + c.tokens <= Cover(c.last, clock) /\ (c.last <= b.last \/ c.last <= now)
  BY <1>2, <1>3, <1>4, RefilledCovered
<1>6. c.tokens \in 0..Capacity /\ c.last \in Nat /\ b.last \in Nat BY <1>2, <1>5 DEF Credited
<1> HIDE DEF c
<1>7. c.last <= clock + MaxSkew BY <1>2, <1>3, <1>4, <1>5, <1>6
<1>8. t \in Tx BY <1>3, <1>6 DEF Tx
<1>9. Covered(t) BY <1>5, <1>7 DEF Covered
<1>10. t.pc # "idle" OBVIOUS
<1> HIDE DEF t
<1> QED BY <1>1, <1>3, <1>8, <1>9, <1>10, TxStep

(* An aborted transaction grants nothing. *)
LEMMA AbortsStep == ASSUME BucketInv, NEW r \in Requests, Aborts(r) PROVE BucketInv'
<1> DEFINE t == IF tx[r].tries < MaxBucketTries THEN [tx[r] EXCEPT !.pc = "idle"] ELSE [IdleTx EXCEPT !.pc = "refused"]
<1>1. tx' = [tx EXCEPT ![r] = t] /\ UNCHANGED <<clock, bucket, granted>> BY DEF Aborts
<1>2. tx \in [Requests -> Tx] BY DEF BucketInv, BucketTypes
<1>3. t \in Tx /\ t.pc # "read" /\ (t.pc = "idle" => t.tries < MaxBucketTries) BY <1>2, IdleType DEF Tx
<1> HIDE DEF t
<1>4. Covered(t) BY <1>3 DEF Covered
<1> QED BY <1>1, <1>2, <1>3, <1>4, TxStep

(* A failing Redis grants nothing. *)
LEMMA BucketFailsStep == ASSUME BucketInv, NEW r \in Requests, BucketFails(r) PROVE BucketInv'
<1> DEFINE t == [IdleTx EXCEPT !.pc = "refused"]
<1>1. tx' = [tx EXCEPT ![r] = t] /\ UNCHANGED <<clock, bucket, granted>> BY DEF BucketFails
<1>2. tx \in [Requests -> Tx] BY DEF BucketInv, BucketTypes
<1>3. t \in Tx /\ t.pc = "refused" BY IdleType DEF Tx
<1> HIDE DEF t
<1>4. Covered(t) BY <1>3 DEF Covered
<1> QED BY <1>1, <1>2, <1>3, <1>4, TxStep

(* A transaction that is dropped grants nothing. *)
LEMMA ClearStep ==
  ASSUME BucketInv, UNCHANGED <<clock, bucket, granted>>,
         \/ tx' = [r \in Requests |-> IdleTx]
         \/ \E r \in Requests : tx' = [tx EXCEPT ![r] = IdleTx]
  PROVE  BucketInv'
<1>1. Covered(IdleTx) BY IdleType DEF Covered
<1>2. tx \in [Requests -> Tx] BY DEF BucketInv, BucketTypes
<1> QED BY <1>1, <1>2, IdleType, TxStep

(* What is given out is taken from the tokens; whoever read before has to   *)
(* read again.                                                              *)
LEMMA CommitsStep == ASSUME BucketInv, NEW r \in Requests, Commits(r) PROVE BucketInv'
<1> DEFINE taken == IF Allowed(r) THEN Cost ELSE 0
           t == [IdleTx EXCEPT !.pc = IF Allowed(r) THEN "allowed" ELSE "refused"]
<1>1. /\ tx[r].pc = "read" /\ ~tx[r].moved
      /\ bucket' = [tokens |-> tx[r].tokens - taken, last |-> tx[r].last, dies |-> clock + IdleTtl]
      /\ tx' = [s \in Requests |-> IF s # r THEN Moved(r)[s] ELSE t]
      /\ granted' = granted + taken /\ clock' = clock
  BY DEF Commits
<1>2. /\ clock \in Nat /\ granted \in Nat /\ tx \in [Requests -> Tx] /\ Cost \in Nat /\ MaxSkew \in Nat
      /\ tx[r].tokens \in 0..Capacity /\ tx[r].last \in Nat /\ Capacity \in Nat /\ IdleTtl \in Nat \ {0}
  BY BucketBounds, TtlType DEF BucketInv, BucketTypes, Tx
<1>3. tx[r].last <= clock + MaxSkew /\ granted + tx[r].tokens <= Cover(tx[r].last, clock)
  BY <1>1 DEF BucketInv, Covered
<1>4. taken \in Nat /\ tx[r].tokens - taken \in 0..Capacity BY <1>2 DEF Allowed
<1>5. t \in Tx /\ t.pc \notin {"read", "idle"} BY IdleType DEF Tx
<1> HIDE DEF taken, t
<1>6. ASSUME NEW s \in Requests, s # r
      PROVE  /\ tx'[s] \in Tx /\ (tx'[s].pc = "idle" => tx'[s].tries < MaxBucketTries)
             /\ tx'[s].pc = "read" => tx'[s].moved /\ tx'[s].last = tx[s].last /\ tx[s].pc = "read"
  <2>1. tx'[s] = IF tx[s].pc = "read" THEN [tx[s] EXCEPT !.moved = TRUE] ELSE tx[s] BY <1>1, <1>6 DEF Moved
  <2>2. tx[s] \in Tx /\ (tx[s].pc = "idle" => tx[s].tries < MaxBucketTries) BY DEF BucketInv, BucketTypes
  <2> QED BY <2>1, <2>2 DEF Tx
<1>7. tx'[r] = t BY <1>1
<1>8. BucketTypes'
  <2>1. \A s \in Requests : tx'[s] \in Tx /\ (tx'[s].pc = "idle" => tx'[s].tries < MaxBucketTries)
    BY <1>5, <1>6, <1>7
  <2>2. tx' \in [Requests -> Tx] BY <1>1, <2>1
  <2>3. granted' \in Nat /\ clock' \in Nat BY <1>1, <1>2, <1>4
  <2>4. bucket' \in [tokens : 0..Capacity, last : Nat, dies : Nat] BY <1>1, <1>2, <1>4
  <2> QED BY <2>1, <2>2, <2>3, <2>4 DEF BucketTypes
<1>9. LifeInv'
  <2>1. /\ bucket'.tokens = tx[r].tokens - taken /\ bucket'.last = tx[r].last /\ bucket'.dies = clock + IdleTtl
    BY <1>1
  <2>2. Cover(tx[r].last, clock) \in Nat BY <1>2, CoverNatural
  <2>3. bucket'.dies # 0 /\ IdleTtl <= bucket'.dies /\ bucket'.dies - IdleTtl = clock BY <1>2, <2>1
  <2>4. granted' + bucket'.tokens <= Cover(bucket'.last, bucket'.dies - IdleTtl)
    BY <1>1, <1>2, <1>3, <1>4, <2>1, <2>2, <2>3
  <2>5. bucket'.last + IdleTtl <= bucket'.dies + MaxSkew /\ bucket'.dies <= clock' + IdleTtl
    BY <1>1, <1>2, <1>3, <2>1
  <2>6. Cover(bucket'.last, bucket'.dies - IdleTtl) = Cover(bucket.last, bucket.dies - IdleTtl)'
    BY DEF Cover, Earned
  <2> QED BY <2>3, <2>4, <2>5, <2>6 DEF LifeInv
<1>10. ASSUME NEW s \in Requests PROVE Covered(tx[s])'
  <2>1. CASE s = r BY <1>5, <1>7, <2>1 DEF Covered
  <2>2. CASE s # r
    <3>1. tx[s].pc = "read" => tx[s].last <= clock + MaxSkew BY DEF BucketInv, Covered
    <3> QED BY <1>1, <1>6, <2>2, <3>1 DEF Covered
  <2> QED BY <2>1, <2>2
<1> QED BY <1>8, <1>9, <1>10 DEF BucketInv

(* Time covers more, never less. *)
LEMMA TickStep == ASSUME BucketInv, Tick PROVE BucketInv'
<1>1. clock' = clock + 1 /\ UNCHANGED <<bucket, tx, granted>> BY DEF Tick
<1>2. clock \in Nat /\ IdleTtl \in Nat /\ MaxSkew \in Nat /\ bucket.dies \in Nat /\ bucket.last \in Nat
  BY TtlType, BucketBounds DEF BucketInv, BucketTypes
<1>3. BucketTypes' BY <1>1, <1>2 DEF BucketInv, BucketTypes
<1>4. LifeInv' BY <1>1, <1>2 DEF BucketInv, LifeInv
<1>5. ASSUME NEW r \in Requests PROVE Covered(tx[r])'
  <2>1. Covered(tx[r]) /\ tx[r].last \in Nat /\ tx[r].tokens \in Nat /\ granted \in Nat
    BY BucketBounds DEF BucketInv, BucketTypes, Tx
  <2> DEFINE last == tx[r].last
  <2>a. last \in Nat /\ last <= last /\ clock + 1 \in Nat /\ clock <= clock + 1 BY <1>2, <2>1
  <2> HIDE DEF last
  <2>b. Cover(last, clock) <= Cover(last, clock + 1) BY <1>2, <2>a, CoverMonotone
  <2>c. Cover(last, clock) \in Nat /\ Cover(last, clock + 1) \in Nat BY <1>2, <2>a, CoverNatural
  <2>2. Cover(tx[r].last, clock) <= Cover(tx[r].last, clock + 1) BY <2>b DEF last
  <2>3. Cover(tx[r].last, clock) \in Nat /\ Cover(tx[r].last, clock + 1) \in Nat BY <2>c DEF last
  <2>4. tx[r].pc = "read" /\ ~tx[r].moved => granted + tx[r].tokens <= Cover(tx[r].last, clock + 1)
    BY <2>1, <2>2, <2>3 DEF Covered
  <2> QED BY <1>1, <1>2, <2>1, <2>4 DEF Covered
<1> QED BY <1>3, <1>4, <1>5 DEF BucketInv

(* A full bucket is covered by its capacity. *)
LEMMA InitBucket == Init => BucketInv
<1> SUFFICES ASSUME Init PROVE BucketInv OBVIOUS
<1>1. BucketTypes BY IdleType, BucketBounds DEF Init, BucketInit, BucketTypes
<1>2. LifeInv BY DEF Init, BucketInit, LifeInv
<1>3. \A r \in Requests : Covered(tx[r]) BY IdleType DEF Init, BucketInit, Covered
<1> QED BY <1>1, <1>2, <1>3 DEF BucketInv

----------------------------------------------------------------------------
(* Stages of the enrichment. *)

Body == [prompted : BOOLEAN, checked : BOOLEAN, redacted : BOOLEAN, filtered : BOOLEAN]
CompliedWith(body) == body.checked /\ (tenant.settings.pii = "on" => body.redacted)

(* A stage that continues hands its request on. *)
LEMMA ContinueFields == ASSUME NEW m PROVE Continue(m).action = "continue" /\ Continue(m).request = m
BY DEF Continue

(* A stage that rejects says so. *)
LEMMA RejectedAction == Rejected.action = "reject"
BY DEF Rejected

(* No stage undoes what compliance did, and compliance does it or rejects. *)
LEMMA StageKeeps ==
  ASSUME NEW m \in Body, NEW name, NEW result \in StageResults(name, m, tenant.settings),
         result.action # "reject"
  PROVE  /\ result.request \in Body
         /\ CompliedWith(m) \/ name = "compliance_policy" => CompliedWith(result.request)
         /\ name # "compliance_policies"
<1>1. CASE name = "system_prompt_injection"
  <2>1. result \in SystemPromptInjection(m) BY <1>1 DEF StageResults
  <2>2. PICK n \in {m, [m EXCEPT !.prompted = TRUE]} : result = Continue(n) BY <2>1 DEF SystemPromptInjection
  <2>3. n \in Body BY <2>2 DEF Body
  <2>4. n.checked = m.checked /\ n.redacted = m.redacted BY <2>2 DEF Body
  <2>5. result.request = n BY <2>2, ContinueFields
  <2>6. CompliedWith(m) => CompliedWith(n) BY <2>4, Zenon DEF CompliedWith
  <2> QED BY <1>1, <2>3, <2>5, <2>6, Zenon
<1>2. CASE name = "compliance_policy"
  <2>1. PICK pii \in Readings(tenant.settings.pii) : result \in CompliancePolicy(m, pii)
    BY <1>2 DEF StageResults
  <2>2. pii # "down" /\ result = Continue(Complied(m, pii)) BY <2>1, RejectedAction DEF CompliancePolicy
  <2>3. pii = tenant.settings.pii BY <2>1, <2>2 DEF Readings
  <2>4. result.request = Complied(m, pii) BY <2>2, ContinueFields
  <2>5. Complied(m, pii) \in Body BY DEF Complied, Body
  <2>6. CompliedWith(Complied(m, pii)) BY <2>3 DEF Complied, CompliedWith
  <2> QED BY <1>2, <2>4, <2>5, <2>6
<1>3. CASE name = "content_filter"
  <2>1. PICK mode \in Readings(tenant.settings.mode) : result \in ContentFilter(m, mode)
    BY <1>3 DEF StageResults
  <2>2. PICK n \in {m, [m EXCEPT !.filtered = TRUE]} : result = Continue(n)
    BY <2>1, RejectedAction DEF ContentFilter
  <2>3. n \in Body BY <2>2 DEF Body
  <2>4. n.checked = m.checked /\ n.redacted = m.redacted BY <2>2 DEF Body
  <2>5. result.request = n BY <2>2, ContinueFields
  <2>6. CompliedWith(m) => CompliedWith(n) BY <2>4, Zenon DEF CompliedWith
  <2> QED BY <1>3, <2>3, <2>5, <2>6, Zenon
<1>4. CASE name \notin {"system_prompt_injection", "compliance_policy", "content_filter"}
  <2>1. StageResults(name, m, tenant.settings) = {Rejected} BY <1>4 DEF StageResults
  <2> QED BY <2>1, RejectedAction
<1> QED BY <1>1, <1>2, <1>3, <1>4

(* The stage lists, by how the setting reads. *)
LEMMA StageLists ==
  /\ StageNames("absent") = <<>> /\ Len(StageNames("absent")) = 0
  /\ StageNames("typo") = <<"compliance_policies">> /\ Len(StageNames("typo")) = 1
  /\ StageNames("compliance") = <<"compliance_policy">> /\ Len(StageNames("compliance")) = 1
  /\ Len(StageNames("all")) = 3 /\ StageNames("all")[2] = "compliance_policy"
BY DEF StageNames

----------------------------------------------------------------------------
(* Requests.  What a request has behind it, given its transaction.          *)

RequestStates == {"idle", "auth", "signing", "limit", "bucket", "budget", "route", "enriching", "routing"}
Limiting == {"bucket", "budget", "route", "enriching", "routing"}
Admitted == {"budget", "route", "enriching", "routing"}
Request == [pc : RequestStates, body : Body, stage : 1..4]

LimitInv(q, t) ==
  /\ t.pc # "idle" \/ t.tries > 0 => q.pc \in Limiting
  /\ q.pc = "bucket" => tenant.limits = "value"
  /\ q.pc \in Admitted => /\ tenant.limits # "malformed"
                          /\ tenant.limits = "value" => t.pc = "allowed"

StageInv(q) ==
  /\ q.pc = "enriching" =>
       LET stages == tenant.settings.stages
       IN  /\ stages \in {"absent", "typo", "compliance", "all"}
           /\ q.stage <= Len(StageNames(stages)) + 1
           /\ stages = "typo" => q.stage = 1
           /\ stages = "compliance" /\ q.stage > 1 => CompliedWith(q.body)
           /\ stages = "all" /\ q.stage > 2 => CompliedWith(q.body)
  /\ q.pc = "routing" =>
       /\ tenant.settings.stages \in {"absent", "compliance", "all"}
       /\ tenant.settings.stages # "absent" => CompliedWith(q.body)

RequestInv ==
  /\ tenant \in Tenants
  /\ request \in [Requests -> Request]
  /\ \A r \in Requests : LimitInv(request[r], tx[r]) /\ StageInv(request[r])

(* A request that arrives is unchecked and at rest. *)
LEMMA FreshType == Fresh \in Body /\ IdleRequest \in Request /\ IdleRequest.pc = "idle"
BY DEF Fresh, Body, IdleRequest, Request, RequestStates

(* A request moves on, with the same transaction or none. *)
LEMMA RequestStep ==
  ASSUME RequestInv, NEW r \in Requests, NEW q \in Request, NEW t, UNCHANGED tenant,
         request' = [request EXCEPT ![r] = q], tx' = [tx EXCEPT ![r] = t] \/ (tx' = tx /\ t = tx[r]),
         BucketTypes, LimitInv(q, t), StageInv(q)
  PROVE  RequestInv'
<1>1. request' \in [Requests -> Request] BY DEF RequestInv
<1>2. ASSUME NEW s \in Requests PROVE LimitInv(request'[s], tx'[s]) /\ StageInv(request'[s])
  <2>1. CASE s = r
    <3>1. request'[s] = q /\ tx'[s] = t BY <2>1 DEF RequestInv, BucketTypes
    <3> QED BY <3>1
  <2>2. CASE s # r
    <3>1. request'[s] = request[s] /\ tx'[s] = tx[s] BY <2>2 DEF RequestInv, BucketTypes
    <3> QED BY <3>1 DEF RequestInv
  <2> QED BY <2>1, <2>2
<1>3. ASSUME NEW s \in Requests PROVE LimitInv(request[s], tx[s])' /\ StageInv(request[s])'
  BY <1>2 DEF LimitInv, StageInv, CompliedWith
<1> QED BY <1>1, <1>3 DEF RequestInv

(* A step on the bucket by a request that is being limited. *)
LEMMA ConsumeRequests == ASSUME RequestInv, BucketTypes, NEW r \in Requests, Consume(r) PROVE RequestInv'
<1>1. request[r].pc = "bucket" /\ UNCHANGED <<request, tenant>> BY DEF Consume, In, Same
<1>2. ASSUME NEW s \in Requests, s # r PROVE tx'[s].pc = tx[s].pc /\ tx'[s].tries = tx[s].tries
  <2>1. CASE Commits(r)
    <3>1. tx'[s] = IF tx[s].pc = "read" THEN [tx[s] EXCEPT !.moved = TRUE] ELSE tx[s]
      BY <1>2, <2>1 DEF Commits, Moved
    <3>2. tx[s] \in Tx BY DEF BucketTypes
    <3> QED BY <3>1, <3>2 DEF Tx
  <2>2. CASE Aborts(r) \/ BucketFails(r) \/ \E skew \in 0..MaxSkew : ReadBucket(r, skew)
    <3>1. tx'[s] = tx[s] BY <1>2, <2>2 DEF Aborts, BucketFails, ReadBucket, BucketTypes
    <3> QED BY <3>1
  <2> QED BY <2>1, <2>2 DEF Consume
<1>3. ASSUME NEW s \in Requests PROVE LimitInv(request[s], tx[s])' /\ StageInv(request[s])'
  <2>1. LimitInv(request[s], tx[s]) /\ StageInv(request[s]) BY DEF RequestInv
  <2>2. StageInv(request[s])' BY <1>1, <2>1 DEF StageInv, CompliedWith
  <2>3. CASE s = r BY <1>1, <2>1, <2>2, <2>3 DEF LimitInv, Limiting, Admitted
  <2>4. CASE s # r BY <1>1, <1>2, <2>1, <2>2, <2>4 DEF LimitInv
  <2> QED BY <2>3, <2>4
<1> QED BY <1>1, <1>3 DEF RequestInv

(* A request that goes on with what its stage has behind it keeps the account. *)
LEMMA GoesOnStep ==
  ASSUME RequestInv, BucketTypes, NEW r \in Requests, NEW pc \in RequestStates, NEW body \in Body,
         NEW stage \in 1..4, GoesOn(r, pc, body, stage),
         LimitInv([pc |-> pc, body |-> body, stage |-> stage], tx[r]),
         StageInv([pc |-> pc, body |-> body, stage |-> stage])
  PROVE  RequestInv'
<1> DEFINE q == [pc |-> pc, body |-> body, stage |-> stage]
<1>1. q \in Request BY DEF Request
<1>2. request' = [request EXCEPT ![r] = q] /\ UNCHANGED <<tenant, tx>> BY DEF GoesOn, Same, bucketVars
<1>3. LimitInv(q, tx[r]) /\ StageInv(q) OBVIOUS
<1> HIDE DEF q
<1> QED BY <1>1, <1>2, <1>3, RequestStep

(* A request that passes one of the first checks keeps the account. *)
LEMMA PassesStep ==
  ASSUME RequestInv, BucketTypes, NEW r \in Requests, NEW pc \in RequestStates \ {"enriching", "routing"},
         Passes(r, pc), LimitInv([pc |-> pc, body |-> Fresh, stage |-> 1], tx[r])
  PROVE  RequestInv'
<1>1. GoesOn(r, pc, Fresh, 1) BY DEF Passes
<1>2. StageInv([pc |-> pc, body |-> Fresh, stage |-> 1]) BY DEF StageInv
<1>3. 1 \in 1..4 OBVIOUS
<1> QED BY <1>1, <1>2, <1>3, FreshType, GoesOnStep

(* An answered request leaves nothing behind. *)
LEMMA AnswerStep == ASSUME RequestInv, BucketTypes, NEW r \in Requests, Answer(r) PROVE RequestInv'
<1>1. LimitInv(IdleRequest, IdleTx) BY DEF LimitInv, IdleRequest, IdleTx, Limiting, Admitted
<1>2. StageInv(IdleRequest) BY DEF StageInv, IdleRequest
<1> QED BY <1>1, <1>2, FreshType, RequestStep DEF Answer

(* A request that arrives has nothing behind it. *)
LEMMA ArriveStep == ASSUME RequestInv, BucketTypes, NEW r \in Requests, Arrive(r) PROVE RequestInv'
<1> DEFINE q == [IdleRequest EXCEPT !.pc = "auth"]
<1>1. q \in Request /\ q.pc = "auth" BY FreshType DEF IdleRequest, Request, RequestStates
<1> HIDE DEF q
<1>2. LimitInv(q, IdleTx) BY <1>1 DEF LimitInv, IdleTx, Limiting, Admitted
<1>3. StageInv(q) BY <1>1 DEF StageInv
<1>4. request' = [request EXCEPT ![r] = q] /\ tx' = [tx EXCEPT ![r] = IdleTx] /\ UNCHANGED tenant
  BY DEF Arrive, q, Same
<1> QED BY <1>1, <1>2, <1>3, <1>4, RequestStep

(* A client that leaves takes nothing from its request. *)
LEMMA LeaveStep ==
  ASSUME RequestInv, UNCHANGED <<request, tenant, tx>>
  PROVE  RequestInv'
BY DEF RequestInv, LimitInv, StageInv, CompliedWith

(* The middleware, in order. *)
LEMMA MiddlewareStep ==
  ASSUME RequestInv, BucketTypes, NEW r \in Requests,
         Authenticate(r) \/ CheckSignature(r) \/ ResolveLimit(r) \/ Limited(r) \/ ReserveBudget(r)
  PROVE  RequestInv'
<1> DEFINE moved(pc) == [pc |-> pc, body |-> Fresh, stage |-> 1]
<1>1. LimitInv(request[r], tx[r]) /\ tenant \in Tenants /\ tx[r] \in Tx BY DEF RequestInv, BucketTypes
<1>2. CASE Answer(r) BY <1>2, AnswerStep
<1>3. CASE Authenticate(r) /\ ~Answer(r)
  <2>1. Passes(r, "signing") /\ request[r].pc = "auth" BY <1>3 DEF Authenticate, In
  <2>2. LimitInv(moved("signing"), tx[r]) BY <1>1, <2>1 DEF LimitInv, Limiting, Admitted
  <2> QED BY <2>1, <2>2, PassesStep DEF RequestStates
<1>4. CASE CheckSignature(r) /\ ~Answer(r)
  <2>1. Passes(r, "limit") /\ request[r].pc = "signing" BY <1>4 DEF CheckSignature, In
  <2>2. LimitInv(moved("limit"), tx[r]) BY <1>1, <2>1 DEF LimitInv, Limiting, Admitted
  <2> QED BY <2>1, <2>2, PassesStep DEF RequestStates
<1>5. CASE ResolveLimit(r) /\ ~Answer(r)
  <2>1. /\ request[r].pc = "limit"
        /\ \/ tenant.limits = "absent" /\ Passes(r, "budget")
           \/ tenant.limits = "value" /\ Passes(r, "bucket")
    BY <1>5 DEF ResolveLimit, In
  <2>2. LimitInv(moved("budget"), tx[r]) \/ tenant.limits # "absent"
    BY <1>1, <2>1 DEF LimitInv, Limiting, Admitted
  <2>3. LimitInv(moved("bucket"), tx[r]) \/ tenant.limits # "value"
    BY <1>1, <2>1 DEF LimitInv, Limiting, Admitted
  <2> QED BY <2>1, <2>2, <2>3, PassesStep DEF RequestStates
<1>6. CASE Limited(r) /\ ~Answer(r)
  <2>1. Passes(r, "budget") /\ request[r].pc = "bucket" /\ tx[r].pc = "allowed" BY <1>6 DEF Limited, In
  <2>2. LimitInv(moved("budget"), tx[r]) BY <1>1, <2>1 DEF LimitInv, Limiting, Admitted
  <2> QED BY <2>1, <2>2, PassesStep DEF RequestStates
<1>7. CASE ReserveBudget(r) /\ ~Answer(r)
  <2>1. Passes(r, "route") /\ request[r].pc = "budget" BY <1>7 DEF ReserveBudget, In
  <2>2. LimitInv(moved("route"), tx[r]) BY <1>1, <2>1 DEF LimitInv, Limiting, Admitted
  <2> QED BY <2>1, <2>2, PassesStep DEF RequestStates
<1> QED BY <1>2, <1>3, <1>4, <1>5, <1>6, <1>7

(* The forms a stage list may have. *)
LEMMA SettingsOf ==
  ASSUME tenant \in Tenants
  PROVE  tenant.settings.stages \in {"absent", "malformed", "typo", "compliance", "all"}
BY TenantAssumption DEF Settings

(* The chat route: the stage list, its stages, and on to the engine. *)
LEMMA ChatStep ==
  ASSUME RequestInv, BucketTypes, NEW r \in Requests,
         StartEnrichment(r) \/ RunStage(r) \/ Forward(r) \/ EngineAnswers(r)
  PROVE  RequestInv'
<1> DEFINE stages == tenant.settings.stages
           q == request[r]
<1>1. /\ LimitInv(q, tx[r]) /\ StageInv(q) /\ q \in Request
      /\ stages \in {"absent", "malformed", "typo", "compliance", "all"}
  BY SettingsOf DEF RequestInv
<1>2. q.body \in Body /\ q.stage \in 1..4 BY <1>1 DEF Request
<1>3. CASE Answer(r) BY <1>3, AnswerStep
<1>4. CASE StartEnrichment(r) /\ ~Answer(r)
  <2>1. PICK reading \in Readings(stages) : Resolvable(reading) /\ Passes(r, "enriching") /\ q.pc = "route"
    BY <1>4 DEF StartEnrichment, In
  <2>2. stages \in {"absent", "typo", "compliance", "all"}
    BY <1>1, <2>1 DEF Readings, Resolvable
  <2>3. 1 <= Len(StageNames(stages)) + 1 BY <2>2, StageLists
  <2>4. StageInv([pc |-> "enriching", body |-> Fresh, stage |-> 1]) BY <2>2, <2>3 DEF StageInv
  <2>5. LimitInv([pc |-> "enriching", body |-> Fresh, stage |-> 1], tx[r])
    BY <1>1, <2>1 DEF LimitInv, Limiting, Admitted
  <2>6. GoesOn(r, "enriching", Fresh, 1) BY <2>1 DEF Passes
  <2>7. 1 \in 1..4 /\ "enriching" \in RequestStates BY DEF RequestStates
  <2> QED BY <2>4, <2>5, <2>6, <2>7, FreshType, GoesOnStep
<1>5. CASE RunStage(r) /\ ~Answer(r)
  <2>1. q.pc = "enriching" /\ q.stage <= Len(StageNames(stages)) BY <1>5 DEF RunStage, In
  <2>2. PICK result \in StageResults(StageNames(stages)[q.stage], q.body, tenant.settings) :
          result.action # "reject" /\ GoesOn(r, "enriching", result.request, q.stage + 1)
    BY <1>5 DEF RunStage
  <2>3. /\ result.request \in Body
        /\ CompliedWith(q.body) \/ StageNames(stages)[q.stage] = "compliance_policy" => CompliedWith(result.request)
        /\ StageNames(stages)[q.stage] # "compliance_policies"
    BY <1>2, <2>2, StageKeeps
  <2> DEFINE n == [pc |-> "enriching", body |-> result.request, stage |-> q.stage + 1]
  <2>4. stages \in {"absent", "typo", "compliance", "all"} BY <1>1, <2>1 DEF StageInv
  <2>5. stages # "typo" /\ stages # "absent" BY <1>1, <1>2, <2>1, <2>3, StageLists DEF StageInv
  <2>6. q.stage <= 3 /\ q.stage + 1 \in 1..4 BY <1>2, <2>1, <2>4, <2>5, StageLists
  <2>7. stages = "compliance" => CompliedWith(result.request)
    <3>1. stages = "compliance" => q.stage = 1 BY <1>2, <2>1, StageLists
    <3> QED BY <2>3, <3>1, StageLists
  <2>8. stages = "all" /\ q.stage + 1 > 2 => CompliedWith(result.request)
    <3>1. CASE q.stage = 2 BY <2>3, <3>1, StageLists
    <3>2. CASE q.stage > 2 BY <1>1, <2>1, <2>3, <3>2 DEF StageInv
    <3> QED BY <1>2, <3>1, <3>2
  <2>9. n.pc = "enriching" /\ n.body = result.request /\ n.stage = q.stage + 1 OBVIOUS
  <2>10. Len(StageNames(stages)) \in Nat BY <2>4, StageLists
  <2>11. StageInv(n) BY <1>2, <2>1, <2>4, <2>5, <2>7, <2>8, <2>9, <2>10 DEF StageInv
  <2>12. LimitInv(n, tx[r]) BY <1>1, <2>1, <2>9 DEF LimitInv, Limiting, Admitted
  <2> QED BY <2>2, <2>3, <2>6, <2>11, <2>12, GoesOnStep DEF RequestStates
<1>6. CASE Forward(r)
  <2>1. q.pc = "enriching" /\ q.stage > Len(StageNames(stages)) /\ GoesOn(r, "routing", q.body, 1)
    BY <1>6 DEF Forward, In
  <2> DEFINE n == [pc |-> "routing", body |-> q.body, stage |-> 1]
  <2>2. n.pc = "routing" /\ n.body = q.body OBVIOUS
  <2>3. stages \in {"absent", "compliance", "all"} BY <1>1, <1>2, <2>1, StageLists DEF StageInv
  <2>4. stages # "absent" => CompliedWith(q.body) BY <1>1, <1>2, <2>1, <2>3, StageLists DEF StageInv
  <2>5. StageInv(n) BY <2>2, <2>3, <2>4 DEF StageInv
  <2>6. LimitInv(n, tx[r]) BY <1>1, <2>1, <2>2 DEF LimitInv, Limiting, Admitted
  <2>7. 1 \in 1..4 /\ "routing" \in RequestStates BY DEF RequestStates
  <2>8. GoesOn(r, "routing", q.body, 1) BY <2>1
  <2> QED BY <1>2, <2>5, <2>6, <2>7, <2>8, GoesOnStep
<1> QED BY <1>3, <1>4, <1>5, <1>6 DEF EngineAnswers

----------------------------------------------------------------------------
(* The process.  What is open follows from how far it came; requests exist  *)
(* only where it listens, and past that those alone whose client left,      *)
(* unless its timer fired.                                                  *)

OpenAt == <<{}, {"prisma", "redis", "publisher"}, {"prisma", "redis", "publisher", "config"},
            {"prisma", "redis", "publisher", "config", "registry"}, Resources>>

ProcTypes ==
  proc \in [pc : {"exited", "starting", "teardown", "listening", "draining", "closing", "flushing"},
            stage : 1..7, open : SUBSET Resources, timedOut : BOOLEAN, scraped : BOOLEAN]

Nobody == \A r \in Requests : request[r].pc = "idle"
Unattended == \A r \in Requests : request[r].pc # "idle" => r \in left
LeftAreActive == \A r \in left : r \in Requests /\ request[r].pc # "idle"

ProcInv ==
  /\ LeftAreActive
  /\ proc.pc \in {"exited", "starting", "teardown"} => Nobody
  /\ proc.pc = "exited" => proc.open = {}
  /\ proc.pc = "starting" => proc.stage \in 1..5 /\ proc.open = OpenAt[proc.stage]
  /\ proc.pc \in {"listening", "draining"} => proc.open = Resources /\ proc.stage = 1
  /\ proc.pc \in {"closing", "flushing"} => Unattended \/ proc.timedOut

(* Each stage of a start-up opens what the next one has open. *)
LEMMA OpenAtNext ==
  \A stage \in 1..5 :
    /\ OpenAt[stage] \cup StageOpens[Stages[stage]] = IF stage = 5 THEN Resources ELSE OpenAt[stage + 1]
    /\ OpenAt[stage] \cup StageOpens[Stages[stage]] \subseteq Resources
<1> SUFFICES ASSUME NEW stage \in 1..5
             PROVE  /\ OpenAt[stage] \cup StageOpens[Stages[stage]] = IF stage = 5 THEN Resources ELSE OpenAt[stage + 1]
                    /\ OpenAt[stage] \cup StageOpens[Stages[stage]] \subseteq Resources
  OBVIOUS
<1>1. CASE stage = 1 BY <1>1 DEF OpenAt, StageOpens, Stages, Resources
<1>2. CASE stage = 2 BY <1>2 DEF OpenAt, StageOpens, Stages, Resources
<1>3. CASE stage = 3 BY <1>3 DEF OpenAt, StageOpens, Stages, Resources
<1>4. CASE stage = 4 BY <1>4 DEF OpenAt, StageOpens, Stages, Resources
<1>5. CASE stage = 5 BY <1>5 DEF OpenAt, StageOpens, Stages, Resources
<1> QED BY <1>1, <1>2, <1>3, <1>4, <1>5

(* The process' record, with a new phase, stage and set of open resources. *)
LEMMA EditedType ==
  ASSUME ProcTypes, NEW pc \in {"starting", "listening"}, NEW stage \in 1..7, NEW open \in SUBSET Resources,
         proc' = [proc EXCEPT !.pc = pc, !.stage = stage, !.open = open]
  PROVE  ProcTypes'
<1>1. proc' = [pc |-> pc, stage |-> stage, open |-> open, timedOut |-> proc.timedOut, scraped |-> proc.scraped]
  BY DEF ProcTypes
<1>2. proc.timedOut \in BOOLEAN /\ proc.scraped \in BOOLEAN BY DEF ProcTypes
<1> QED BY <1>1, <1>2 DEF ProcTypes

(* Every step of the process keeps the account of what is open. *)
LEMMA ProcessStep ==
  ASSUME ProcTypes, ProcInv, RequestInv, BucketInv, Process
  PROVE  ProcTypes' /\ ProcInv' /\ RequestInv' /\ BucketInv'
<1> USE DEF ProcTypes
<1>1. NoProcess.pc = "exited" /\ NoProcess.open = {} BY DEF NoProcess
<1>2. ASSUME proc' = NoProcess, CutOff, AbandonTx, UNCHANGED <<clock, bucket, granted, tenant>>
      PROVE  ProcTypes' /\ ProcInv' /\ RequestInv' /\ BucketInv'
  <2>1. (\A r \in Requests : request'[r] = IdleRequest /\ tx'[r] = IdleTx) /\ left' = {}
    BY <1>2 DEF CutOff, AbandonTx
  <2>2. Nobody' BY <2>1, FreshType DEF Nobody
  <2>3. LimitInv(IdleRequest, IdleTx) /\ StageInv(IdleRequest)
    BY DEF LimitInv, StageInv, IdleRequest, IdleTx, Limiting, Admitted
  <2>4. \A r \in Requests : LimitInv(request[r], tx[r])' /\ StageInv(request[r])'
    BY <1>2, <2>1, <2>3 DEF LimitInv, StageInv, CompliedWith
  <2>5. RequestInv' BY <1>2, <2>4, FreshType DEF RequestInv, CutOff
  <2>6. BucketInv' BY <1>2, ClearStep DEF AbandonTx
  <2>7. ProcTypes' BY <1>2 DEF NoProcess
  <2>8. ProcInv' BY <1>1, <1>2, <2>1, <2>2 DEF ProcInv, LeftAreActive
  <2> QED BY <2>5, <2>6, <2>7, <2>8
<1>3. CASE UNCHANGED <<bucketVars, request, left, tenant>> /\ ~(proc' = NoProcess /\ CutOff /\ AbandonTx)
  <2>1. RequestInv' BY <1>3, LeaveStep DEF bucketVars
  <2>2. BucketInv'
    <3>1. UNCHANGED <<clock, bucket, granted>> /\ tx' = tx BY <1>3 DEF bucketVars
    <3>2. tx' \in [Requests -> Tx] BY <3>1 DEF BucketInv, BucketTypes
    <3> QED BY <3>1, <3>2, TxStep
  <2>3. /\ (Nobody' <=> Nobody) /\ (Unattended' <=> Unattended)
        /\ LeftAreActive'
    BY <1>3 DEF Nobody, Unattended, LeftAreActive, ProcInv
  <2>4. ProcTypes' /\ ProcInv'
    <3>1. CASE Begin
      <4>1. proc' = [NoProcess EXCEPT !.pc = "starting"] /\ Nobody BY <3>1 DEF Begin, ProcInv
      <4>2. proc' = [pc |-> "starting", stage |-> 1, open |-> {}, timedOut |-> FALSE, scraped |-> FALSE]
        BY <4>1 DEF NoProcess
      <4>3. OpenAt[1] = {} BY DEF OpenAt
      <4>4. ProcTypes' BY <4>2
      <4>5. ProcInv' BY <2>3, <4>1, <4>2, <4>3 DEF ProcInv
      <4> QED BY <4>4, <4>5
    <3>2. CASE StageDone
      <4>1. Nobody /\ proc.stage \in 1..5 /\ Opened = OpenAt[proc.stage] \cup StageOpens[Stages[proc.stage]]
        BY <3>2 DEF StageDone, ProcInv, Opened
      <4>2. LastStage <=> proc.stage = 5 BY DEF LastStage, Stages
      <4>3. CASE proc.stage = 5
        <5>1. proc' = [proc EXCEPT !.pc = "listening", !.stage = 1, !.open = Resources]
          BY <3>2, <4>1, <4>2, <4>3, OpenAtNext DEF StageDone
        <5>2. proc'.pc = "listening" /\ proc'.stage = 1 /\ proc'.open = Resources BY <5>1
        <5>3. ProcTypes'
          <6> HIDE DEF ProcTypes
          <6>1. 1 \in 1..7 /\ Resources \in SUBSET Resources OBVIOUS
          <6> QED BY <5>1, <6>1, EditedType
        <5>4. ProcInv' BY <2>3, <5>2 DEF ProcInv
        <5> QED BY <5>3, <5>4
      <4>4. CASE proc.stage # 5
        <5>1. proc' = [proc EXCEPT !.pc = "starting", !.stage = proc.stage + 1, !.open = OpenAt[proc.stage + 1]]
          BY <3>2, <4>1, <4>2, <4>4, OpenAtNext DEF StageDone
        <5>2. OpenAt[proc.stage + 1] \subseteq Resources BY <4>1, <4>4, OpenAtNext
        <5>3. /\ proc'.pc = "starting" /\ proc'.stage = proc.stage + 1
              /\ proc'.open = OpenAt[proc.stage + 1] /\ proc.stage + 1 \in 1..5
          BY <4>1, <4>4, <5>1
        <5>4. ProcTypes'
          <6> DEFINE stage == proc.stage + 1
                     open == OpenAt[proc.stage + 1]
          <6>1. stage \in 1..7 /\ open \in SUBSET Resources BY <4>1, <4>4, <5>2
          <6>2. proc' = [proc EXCEPT !.pc = "starting", !.stage = stage, !.open = open] BY <5>1
          <6> HIDE DEF ProcTypes, stage, open
          <6> QED BY <6>1, <6>2, EditedType
        <5>5. ProcInv' BY <2>3, <4>1, <5>3 DEF ProcInv
        <5> QED BY <5>4, <5>5
      <4> QED BY <4>3, <4>4
    <3>3. CASE StageFails
      <4>1. Nobody /\ proc.stage \in 1..5 /\ Opened = OpenAt[proc.stage] \cup StageOpens[Stages[proc.stage]]
        BY <3>3 DEF StageFails, ProcInv, Opened
      <4>2. Opened \subseteq Resources BY <4>1, OpenAtNext
      <4>3. proc' = [proc EXCEPT !.pc = "teardown", !.open = Opened] BY <3>3 DEF StageFails
      <4> QED BY <2>3, <4>1, <4>2, <4>3 DEF ProcInv
    <3>4. CASE Teardown
      <4>1. Nobody /\ proc' = NoProcess BY <3>4 DEF Teardown, ProcInv
      <4>2. ProcTypes' BY <4>1 DEF NoProcess
      <4>3. ProcInv' BY <1>1, <2>3, <4>1 DEF ProcInv
      <4> QED BY <4>2, <4>3
    <3>5. CASE Signal BY <2>3, <3>5 DEF Signal, ProcInv
    <3>6. CASE Drained
      <4>1. Unattended BY <3>6 DEF Drained, Active, Unattended
      <4> QED BY <2>3, <3>6, <4>1 DEF Drained, ProcInv
    <3>7. CASE DrainTimeout BY <2>3, <3>7 DEF DrainTimeout, ProcInv
    <3>8. CASE CloseNext
      <4>1. proc.stage <= 6 BY <3>8 DEF CloseNext, AllClosed, CloseOrder
      <4>2. PICK scraped \in BOOLEAN :
              proc' = [proc EXCEPT !.stage = @ + 1, !.open = @ \ {CloseOrder[proc.stage]}, !.scraped = scraped]
        BY <3>8 DEF CloseNext
      <4>3. proc.pc = "closing" BY <3>8 DEF CloseNext
      <4>4. proc'.pc = "closing" /\ proc'.timedOut = proc.timedOut BY <4>2, <4>3
      <4>5. proc' = [pc |-> "closing", stage |-> proc.stage + 1, open |-> proc.open \ {CloseOrder[proc.stage]},
                     timedOut |-> proc.timedOut, scraped |-> scraped]
        BY <4>2, <4>3
      <4>6. ProcTypes' BY <4>1, <4>5
      <4>7. ProcInv' BY <2>3, <4>3, <4>4 DEF ProcInv
      <4> QED BY <4>6, <4>7
    <3>9. CASE ScrapeEnds BY <2>3, <3>9 DEF ScrapeEnds, ProcInv
    <3>10. CASE MetricsClosed BY <2>3, <3>10 DEF MetricsClosed, AllClosed, ProcInv
    <3>11. CASE Kill \/ CloseFails \/ Flush BY <1>3, <3>11 DEF Kill, CloseFails, Flush, Exit
    <3> QED BY <3>1, <3>2, <3>3, <3>4, <3>5, <3>6, <3>7, <3>8, <3>9, <3>10, <3>11 DEF Process
  <2> QED BY <2>1, <2>2, <2>4
<1>4. CASE proc' = NoProcess /\ CutOff /\ AbandonTx /\ UNCHANGED <<clock, bucket, granted, tenant>>
  BY <1>2, <1>4
<1>5. \/ UNCHANGED <<bucketVars, request, left, tenant>>
      \/ proc' = NoProcess /\ CutOff /\ AbandonTx /\ UNCHANGED <<clock, bucket, granted, tenant>>
  BY DEF Process, Begin, StageDone, StageFails, Teardown, Signal, Kill, Drained, DrainTimeout, CloseNext,
         CloseFails, ScrapeEnds, MetricsClosed, Flush, Exit, Same
<1>6. UNCHANGED bucketVars => UNCHANGED <<clock, bucket, granted>> BY DEF bucketVars
<1> QED BY <1>2, <1>3, <1>4, <1>5, <1>6

----------------------------------------------------------------------------
(* The steps of requests, and the theorems. *)

IInv == BucketInv /\ RequestInv /\ ProcTypes /\ ProcInv

(* A step without the bucket keeps its tokens covered. *)
LEMMA UntouchedStep == ASSUME BucketInv, UNCHANGED bucketVars PROVE BucketInv'
<1>1. UNCHANGED <<clock, bucket, granted>> /\ tx' = tx BY DEF bucketVars
<1>2. tx' \in [Requests -> Tx] BY <1>1 DEF BucketInv, BucketTypes
<1> QED BY <1>1, <1>2, TxStep

(* Every step of a request keeps the tokens covered. *)
LEMMA HandleBucket == ASSUME BucketInv, NEW r \in Requests, Handle(r) PROVE BucketInv'
<1>1. CASE Answer(r) BY <1>1, ClearStep DEF Answer
<1>2. CASE Arrive(r) BY <1>2, ClearStep DEF Arrive
<1>3. CASE Consume(r) BY <1>3, AbortsStep, CommitsStep, BucketFailsStep, ReadBucketStep DEF Consume
<1>4. CASE UNCHANGED bucketVars BY <1>4, UntouchedStep
<1>5. Answer(r) \/ Arrive(r) \/ Consume(r) \/ UNCHANGED bucketVars
  BY DEF Handle, ClientLeaves, Authenticate, CheckSignature, ResolveLimit, Limited, ReserveBudget, StartEnrichment,
         RunStage, Forward, EngineAnswers, Passes, GoesOn
<1> QED BY <1>1, <1>2, <1>3, <1>4, <1>5

(* Every step of a request keeps what it has behind it. *)
LEMMA HandleRequests == ASSUME RequestInv, BucketInv, NEW r \in Requests, Handle(r) PROVE RequestInv'
<1>1. BucketTypes BY DEF BucketInv
<1>2. CASE ClientLeaves(r) BY <1>2, LeaveStep DEF ClientLeaves, bucketVars
<1> QED BY <1>1, <1>2, ArriveStep, MiddlewareStep, ConsumeRequests, ChatStep DEF Handle

(* No step of a request opens or closes anything, and whoever is new has a  *)
(* client.                                                                  *)
LEMMA HandleProcess ==
  ASSUME ProcTypes, ProcInv, RequestInv, NEW r \in Requests, Handle(r)
  PROVE  ProcTypes' /\ ProcInv'
<1> USE DEF ProcTypes
<1>1. proc' = proc
  BY DEF Handle, Arrive, ClientLeaves, Authenticate, CheckSignature, ResolveLimit, Consume, Limited, ReserveBudget,
         StartEnrichment, RunStage, Forward, EngineAnswers, Passes, GoesOn, Answer
<1>2. Serving
  BY DEF Handle, Arrive, ClientLeaves, Authenticate, CheckSignature, ResolveLimit, Consume, Limited, ReserveBudget,
         StartEnrichment, RunStage, Forward, EngineAnswers, In, Serving
<1>3. /\ LeftAreActive'
      /\ proc.pc \in {"closing", "flushing"} => Unattended' \/ proc.timedOut
  <2>0. request \in [Requests -> Request] BY DEF RequestInv
  <2>1. CASE Arrive(r)
    <3>1. left' = left /\ request'[r].pc = "auth" /\ \A s \in Requests : s # r => request'[s] = request[s]
      BY <2>0, <2>1, FreshType DEF Arrive, Same, Request
    <3>2. proc.pc \in {"closing", "flushing"} => proc.timedOut BY <2>1 DEF Arrive
    <3>3. LeftAreActive' BY <3>1 DEF ProcInv, LeftAreActive
    <3> QED BY <3>2, <3>3
  <2>2. CASE ClientLeaves(r)
    <3>1. left' = left \cup {r} /\ request' = request /\ request[r].pc # "idle"
      BY <2>2 DEF ClientLeaves, Active
    <3> QED BY <3>1 DEF ProcInv, Unattended, LeftAreActive
  <2>3. CASE Answer(r)
    <3>1. /\ left' = left \ {r} /\ request'[r].pc = "idle"
          /\ \A s \in Requests : s # r => request'[s] = request[s]
      BY <2>0, <2>3, FreshType DEF Answer
    <3> QED BY <3>1 DEF ProcInv, Unattended, LeftAreActive
  <2>4. CASE left' = left /\ request[r].pc # "idle" /\ request'[r].pc # "idle"
             /\ \A s \in Requests : s # r => request'[s] = request[s]
    BY <2>4 DEF ProcInv, Unattended, LeftAreActive
  <2>5. CASE Consume(r) /\ ~Answer(r)
    <3>1. left' = left /\ request' = request /\ request[r].pc # "idle" BY <2>5 DEF Consume, In, Same
    <3> QED BY <2>4, <3>1
  <2>6. CASE Handle(r) /\ ~Arrive(r) /\ ~ClientLeaves(r) /\ ~Answer(r) /\ ~Consume(r)
    <3>1. PICK pc \in {"signing", "limit", "budget", "bucket", "route", "enriching", "routing"} :
            \E body, stage : GoesOn(r, pc, body, stage)
      BY <2>6 DEF Handle, Authenticate, CheckSignature, ResolveLimit, Limited, ReserveBudget,
         StartEnrichment, RunStage, Forward, EngineAnswers, Passes
    <3>2. request[r].pc # "idle"
      BY <2>6 DEF Handle, Authenticate, CheckSignature, ResolveLimit, Limited, ReserveBudget,
         StartEnrichment, RunStage, Forward, EngineAnswers, In
    <3>3. left' = left /\ request'[r].pc = pc /\ \A s \in Requests : s # r => request'[s] = request[s]
      BY <2>0, <3>1 DEF GoesOn, Same
    <3> QED BY <2>4, <3>1, <3>2, <3>3
  <2> QED BY <2>1, <2>2, <2>3, <2>5, <2>6
<1>4. proc.pc \notin {"exited", "starting", "teardown"} BY <1>2 DEF Serving
<1> QED BY <1>1, <1>3, <1>4 DEF ProcInv

(* The inductive invariant: covered tokens, what a request has behind it,   *)
(* and what is open at each point of the life of a process.                 *)
THEOREM Invariance == Spec => []IInv
<1>1. Init => IInv
  <2> SUFFICES ASSUME Init PROVE IInv OBVIOUS
  <2>1. BucketInv BY InitBucket
  <2>2. RequestInv
    <3>1. LimitInv(IdleRequest, IdleTx) /\ StageInv(IdleRequest)
      BY DEF LimitInv, StageInv, IdleRequest, IdleTx, Limiting, Admitted
    <3>2. \A r \in Requests : request[r] = IdleRequest /\ tx[r] = IdleTx BY DEF Init, BucketInit
    <3>3. request \in [Requests -> Request] /\ tenant \in Tenants BY FreshType DEF Init
    <3> QED BY <3>1, <3>2, <3>3 DEF RequestInv
  <2>3. ProcTypes BY DEF Init, ProcTypes, NoProcess
  <2>4. ProcInv BY FreshType DEF Init, ProcInv, NoProcess, Nobody, Unattended, LeftAreActive
  <2> QED BY <2>1, <2>2, <2>3, <2>4 DEF IInv
<1>2. IInv /\ [Next]_vars => IInv'
  <2> SUFFICES ASSUME IInv, [Next]_vars PROVE IInv' OBVIOUS
  <2>1. CASE Process BY <2>1, ProcessStep DEF IInv
  <2>2. CASE Tick
    <3>1. BucketInv' BY <2>2, TickStep DEF IInv
    <3>2. UNCHANGED <<proc, request, left, tenant, tx>> BY <2>2 DEF Tick, Same
    <3>3. RequestInv' BY <3>2 DEF IInv, RequestInv, LimitInv, StageInv, CompliedWith
    <3>4. ProcTypes' /\ ProcInv' BY <3>2 DEF IInv, ProcTypes, ProcInv, Nobody, Unattended, LeftAreActive
    <3> QED BY <3>1, <3>3, <3>4 DEF IInv
  <2>3. ASSUME NEW r \in Requests, Handle(r) PROVE IInv'
    BY <2>3, HandleBucket, HandleRequests, HandleProcess DEF IInv
  <2>4. CASE UNCHANGED vars
    <3>1. BucketInv' BY <2>4, UntouchedStep DEF IInv, vars
    <3>2. UNCHANGED <<proc, request, left, tenant, tx>> BY <2>4 DEF vars, bucketVars
    <3>3. RequestInv' BY <3>2 DEF IInv, RequestInv, LimitInv, StageInv, CompliedWith
    <3>4. ProcTypes' /\ ProcInv' BY <3>2 DEF IInv, ProcTypes, ProcInv, Nobody, Unattended, LeftAreActive
    <3> QED BY <3>1, <3>3, <3>4 DEF IInv
  <2> QED BY <2>1, <2>2, <2>3, <2>4 DEF Next
<1> QED BY <1>1, <1>2, PTL DEF Spec

(* Processes, requests and transactions are in states the code can be in. *)
THEOREM TypeCorrect == Spec => []TypeOK
<1>1. IInv => TypeOK
  <2> SUFFICES ASSUME IInv PROVE TypeOK OBVIOUS
  <2>1. /\ proc.pc \in {"exited", "starting", "teardown", "listening", "draining", "closing", "flushing"}
        /\ proc.open \subseteq Resources /\ left \subseteq {r \in Requests : Active(r)}
    BY DEF IInv, ProcTypes, ProcInv, LeftAreActive, Active
  <2>2. proc.pc = "exited" => proc.open = {} /\ \A r \in Requests : ~Active(r)
    BY DEF IInv, ProcInv, Nobody, Active
  <2>3. ASSUME NEW r \in Requests
        PROVE  /\ request[r].pc \in RequestStates
               /\ tx[r].pc # "idle" \/ tx[r].tries > 0 => request[r].pc \in Limiting
               /\ tx[r].tries <= MaxBucketTries
    BY BucketBounds DEF IInv, RequestInv, Request, LimitInv, BucketInv, BucketTypes, Tx
  <2>4. bucket.tokens \in 0..Capacity BY DEF IInv, BucketInv, BucketTypes
  <2> QED BY <2>1, <2>2, <2>3, <2>4 DEF TypeOK, RequestStates, Limiting
<1> QED BY <1>1, Invariance, PTL

(* Tokens come only from the capacity and from intervals that passed. *)
THEOREM TokensAreCovered == Spec => []GrantsCovered
<1>1. IInv => GrantsCovered
  <2> SUFFICES ASSUME IInv PROVE GrantsCovered OBVIOUS
  <2>1. /\ clock \in Nat /\ granted \in Nat /\ MaxSkew \in Nat /\ Capacity \in Nat /\ 0 <= MaxSkew
        /\ bucket.tokens \in 0..Capacity
    BY BucketBounds DEF IInv, BucketInv, BucketTypes
  <2>2. /\ Stored(clock + 0) \in Credited /\ Stored(clock + 0).last <= clock + MaxSkew
        /\ granted + Stored(clock + 0).tokens <= Cover(Stored(clock + 0).last, clock)
    BY <2>1, StoredCovered DEF IInv
  <2> DEFINE b == Stored(clock + 0)
  <2>3. b.tokens \in Nat /\ b.last \in Nat BY <2>1, <2>2 DEF Credited
  <2>a. clock + MaxSkew \in Nat /\ b.last <= clock + MaxSkew /\ clock <= clock BY <2>1, <2>2
  <2> HIDE DEF b
  <2>4. Cover(b.last, clock) <= Cover(clock + MaxSkew, clock) BY <2>1, <2>3, <2>a, CoverMonotone
  <2>5. Cover(b.last, clock) \in Nat /\ Cover(clock + MaxSkew, clock) \in Nat BY <2>1, <2>3, <2>a, CoverNatural
  <2> HIDE DEF b
  <2>6. granted + b.tokens <= Cover(b.last, clock) BY <2>2 DEF b
  <2>7. granted <= Cover(clock + MaxSkew, clock) BY <2>1, <2>3, <2>4, <2>5, <2>6
  <2> QED BY <2>7 DEF GrantsCovered, Cover, Earned
<1> QED BY <1>1, Invariance, PTL

(* No client that waits is served by half a process. *)
THEOREM ServedWhole == Spec => []ServedByWholeProcess
<1>1. IInv => ServedByWholeProcess
  <2> SUFFICES ASSUME IInv, NEW r \in Requests, Active(r), r \notin left PROVE proc.open = Resources \/ proc.timedOut
    BY DEF ServedByWholeProcess
  <2>1. ~Nobody /\ ~Unattended BY DEF Nobody, Unattended, Active
  <2> QED BY <2>1 DEF IInv, ProcTypes, ProcInv
<1> QED BY <1>1, Invariance, PTL

(* Nothing reaches the engine but as the tenant's settings ask for. *)
THEOREM ForwardedRight == Spec => []ForwardedAsConfigured
<1>1. IInv => ForwardedAsConfigured
  <2> SUFFICES ASSUME IInv, NEW r \in Requests, request[r].pc = "routing"
               PROVE  /\ tenant.settings.stages \in {"absent", "compliance", "all"}
                      /\ tenant.settings.stages # "absent" => CompliedWith(request[r].body)
                      /\ tenant.limits # "malformed"
                      /\ tenant.limits = "value" => tx[r].pc = "allowed"
    BY DEF ForwardedAsConfigured, CompliedWith
  <2> QED BY DEF IInv, RequestInv, StageInv, LimitInv, Admitted
<1> QED BY <1>1, Invariance, PTL
=============================================================================
