--------------------------- MODULE RateLimiterProofs ---------------------------
(***************************************************************************)
(* Proofs about RateLimiter, for every set of clients, rate and burst.     *)
(*                                                                         *)
(* RateBounded is not inductive: it does not say what a bucket may still   *)
(* give away.  Charged does, for every period up to now; Awaited says the  *)
(* same from the side of a client that waits.                              *)
(***************************************************************************)
EXTENDS RateLimiter, TLAPS

\* Nothing was admitted in the future.
Future == \A c \in Client, s \in 0..MaxTime : s > time => since[c][s] = 0

\* What a client was admitted since s and what its bucket holds now are
\* together at most the burst and what the period refilled.
Charged ==
    \A c \in Client, s \in 0..MaxTime :
        s <= time => One * since[c][s] + Level(c) <= Full + RatePerMinute * (time - s)

\* The bucket of a client that waits will hold a request at the time promised.
Awaited ==
    \A c \in Client :
        promise[c] # 0 =>
            /\ c \in DOMAIN buckets
            /\ buckets[c].updatedAt <= Now
            /\ Level(c) >= One \/ Level(c) + RatePerMinute * (promise[c] - time) >= One

Inv == TypeOK /\ Future /\ Charged /\ Awaited

--------------------------------------------------------------------------------
(* Arithmetic.                                                               *)

LEMMA OneMore ==
    ASSUME NEW r \in Nat, NEW x \in Int
    PROVE  r * (x + 1) = r * x + r
BY SMT

LEMMA Growing ==
    ASSUME NEW r \in Nat, NEW x \in Int, NEW y \in Int, x <= y
    PROVE  r * x <= r * y
BY SMT

LEMMA RoundedUp ==
    ASSUME NEW r \in Nat \ {0}, NEW a \in Nat
    PROVE  /\ a \div r \in Nat
           /\ r * ((a \div r) + 1) >= a
<1>1. a \div r \in Nat /\ a = r * (a \div r) + (a % r) /\ a % r \in 0..(r - 1)
  BY SMT
<1>2. r * ((a \div r) + 1) = r * (a \div r) + r
  BY <1>1, OneMore
<1> QED
  BY <1>1, <1>2

--------------------------------------------------------------------------------
(* The level of a bucket.                                                    *)

LEMMA LevelType ==
    ASSUME TypeOK, NEW c \in Client
    PROVE  Level(c) \in 0..Full
<1>1. CASE c \notin DOMAIN buckets
  BY <1>1, ConfigAssumption DEF Level, Full, One
<1>2. CASE c \in DOMAIN buckets
  <2>1. buckets[c].tokens \in 0..Full /\ buckets[c].updatedAt \in Int /\ Now \in Int
    BY <1>2, BoundAssumption DEF TypeOK, Now
  <2>2. Greatest(0, Now - buckets[c].updatedAt) \in Nat
    BY <2>1 DEF Greatest
  <2>3. Greatest(0, Now - buckets[c].updatedAt) * RatePerMinute \in Nat
    BY <2>2, ConfigAssumption
  <2> QED
    BY <1>2, <2>1, <2>3, ConfigAssumption DEF Level, Least, Full, One
<1> QED
  BY <1>1, <1>2

\* Setting a bucket at the present time sets its level, and no other.
LEMMA SetLevel ==
    ASSUME TypeOK, NEW c \in Client, NEW n \in 0..Full, SetBucket(c, n), UNCHANGED <<time, back>>
    PROVE  /\ Level(c)' = n
           /\ \A d \in Client \ {c} : Level(d)' = Level(d)
           /\ DOMAIN buckets' = DOMAIN buckets \cup {c}
           /\ buckets'[c] = [tokens |-> n, updatedAt |-> Now]
           /\ \A d \in DOMAIN buckets \ {c} : buckets'[d] = buckets[d]
           /\ Now' = Now /\ Now \in Int
<1>1. Now' = Now /\ Now \in Int
  BY BoundAssumption DEF Now, TypeOK
<1>2. /\ DOMAIN buckets' = DOMAIN buckets \cup {c}
      /\ buckets'[c] = [tokens |-> n, updatedAt |-> Now]
      /\ \A d \in DOMAIN buckets \ {c} : buckets'[d] = buckets[d]
  BY DEF SetBucket
<1>3. Level(c)' = n
  <2>1. Level(c)' = Least(Full, n + Greatest(0, Now - Now) * RatePerMinute)
    BY <1>1, <1>2 DEF Level
  <2>2. Greatest(0, Now - Now) * RatePerMinute = 0
    BY <1>1, ConfigAssumption DEF Greatest
  <2> QED
    BY <2>1, <2>2, ConfigAssumption DEF Least, Full, One
<1>4. ASSUME NEW d \in Client \ {c} PROVE Level(d)' = Level(d)
  BY <1>1, <1>2 DEF Level
<1> QED
  BY <1>1, <1>2, <1>3, <1>4

LEMMA SetType ==
    ASSUME TypeOK, NEW c \in Client, NEW n \in 0..Full, SetBucket(c, n), UNCHANGED <<time, back>>
    PROVE  /\ DOMAIN buckets' \subseteq Client
           /\ buckets' \in [DOMAIN buckets' -> [tokens : 0..Full, updatedAt : Int]]
<1>1. /\ DOMAIN buckets' = DOMAIN buckets \cup {c}
      /\ buckets'[c] = [tokens |-> n, updatedAt |-> Now]
      /\ \A d \in DOMAIN buckets \ {c} : buckets'[d] = buckets[d]
      /\ Now \in Int
  BY SetLevel
<1>2. \A d \in DOMAIN buckets' : buckets'[d] \in [tokens : 0..Full, updatedAt : Int]
  BY <1>1 DEF TypeOK
<1>3. buckets' = [d \in DOMAIN buckets' |-> buckets'[d]]
  BY DEF SetBucket
<1> QED
  BY <1>1, <1>2, <1>3 DEF TypeOK

--------------------------------------------------------------------------------
(* The steps.                                                                *)

LEMMA InitLemma == Init => Inv
<1> SUFFICES ASSUME Init PROVE Inv
  OBVIOUS
<1>1. TypeOK
  BY BoundAssumption DEF Init, TypeOK
<1>2. Future
  BY DEF Init, Future
<1>3. Charged
  <2> SUFFICES ASSUME NEW c \in Client, NEW s \in 0..MaxTime, s <= time
               PROVE  One * since[c][s] + Level(c) <= Full + RatePerMinute * (time - s)
    BY DEF Charged
  <2>1. s = 0 /\ time = 0 /\ since[c][s] = 0 /\ Level(c) = Full
    BY BoundAssumption DEF Init, Level
  <2> QED
    BY <2>1, ConfigAssumption DEF Full, One
<1>4. Awaited
  BY DEF Init, Awaited
<1> QED
  BY <1>1, <1>2, <1>3, <1>4 DEF Inv

LEMMA AdmitLemma ==
    ASSUME Inv, NEW c \in Client, Admit(c)
    PROVE  Inv'
<1>t. TypeOK /\ Future /\ Charged /\ Awaited
  BY DEF Inv
<1>l. Level(c) \in 0..Full /\ Level(c) >= One
  BY <1>t, LevelType DEF Admit
<1> DEFINE n == Level(c) - One
<1>n. n \in 0..Full
  BY <1>l, ConfigAssumption DEF Full, One
<1>s. SetBucket(c, n) /\ time' = time /\ back' = back
  BY DEF Admit
<1> HIDE DEF n
<1>1. /\ Level(c)' = n
      /\ \A d \in Client \ {c} : Level(d)' = Level(d)
      /\ DOMAIN buckets' = DOMAIN buckets \cup {c}
      /\ buckets'[c] = [tokens |-> n, updatedAt |-> Now]
      /\ \A d \in DOMAIN buckets \ {c} : buckets'[d] = buckets[d]
      /\ Now' = Now /\ Now \in Int
  BY <1>t, <1>n, <1>s, SetLevel
<1>2. /\ since' \in [Client -> [0..MaxTime -> Nat]]
      /\ \A s \in 0..MaxTime : since'[c][s] = IF s <= time THEN since[c][s] + 1 ELSE since[c][s]
      /\ \A d \in Client \ {c} : since'[d] = since[d]
  <2> DEFINE f == [s \in 0..MaxTime |-> IF s <= time THEN since[c][s] + 1 ELSE since[c][s]]
  <2>1. since' = [since EXCEPT ![c] = f]
    BY DEF Admit
  <2>2. since \in [Client -> [0..MaxTime -> Nat]] /\ since[c] \in [0..MaxTime -> Nat]
    BY <1>t DEF TypeOK
  <2>3. f \in [0..MaxTime -> Nat]
    BY <2>2
  <2> HIDE DEF f
  <2>4. since' \in [Client -> [0..MaxTime -> Nat]] /\ since'[c] = f
    BY <2>1, <2>2, <2>3
  <2>5. \A d \in Client \ {c} : since'[d] = since[d]
    BY <2>1, <2>2
  <2> QED
    BY <2>4, <2>5 DEF f
<1>3. /\ promise' \in [Client -> Nat]
      /\ promise'[c] = 0
      /\ \A d \in Client \ {c} : promise'[d] = promise[d]
  BY <1>t DEF TypeOK, Admit
<1>4. TypeOK'
  <2>1. /\ DOMAIN buckets' \subseteq Client
        /\ buckets' \in [DOMAIN buckets' -> [tokens : 0..Full, updatedAt : Int]]
    BY <1>t, <1>n, <1>s, SetType
  <2> QED
    BY <1>t, <1>s, <1>2, <1>3, <2>1 DEF TypeOK
<1>5. Future'
  <2> SUFFICES ASSUME NEW d \in Client, NEW s \in 0..MaxTime, s > time
               PROVE  since'[d][s] = 0
    BY <1>s DEF Future
  <2>1. since[d][s] = 0 /\ ~(s <= time)
    BY <1>t, BoundAssumption DEF Future, TypeOK
  <2> QED
    BY <1>2, <2>1
<1>6. Charged'
  <2> SUFFICES ASSUME NEW d \in Client, NEW s \in 0..MaxTime, s <= time
               PROVE  One * since'[d][s] + Level(d)' <= Full + RatePerMinute * (time - s)
    BY <1>s DEF Charged
  <2>1. One * since[d][s] + Level(d) <= Full + RatePerMinute * (time - s)
    BY <1>t DEF Charged
  <2>2. CASE d # c
    BY <1>1, <1>2, <2>1, <2>2
  <2>3. CASE d = c
    <3>1. since'[c][s] = since[c][s] + 1 /\ since[c][s] \in Nat
      BY <1>t, <1>2 DEF TypeOK
    <3>2. Level(c)' = Level(c) - One
      BY <1>1 DEF n
    <3>3. One * since'[c][s] + Level(c)' = One * since[c][s] + Level(c)
      BY <1>l, <3>1, <3>2, ConfigAssumption DEF One, Full
    <3> QED
      BY <2>1, <2>3, <3>3
  <2> QED
    BY <2>2, <2>3
<1>7. Awaited'
  BY <1>t, <1>s, <1>1, <1>3 DEF Awaited
<1> QED
  BY <1>4, <1>5, <1>6, <1>7 DEF Inv

LEMMA RefuseLemma ==
    ASSUME Inv, NEW c \in Client, Refuse(c)
    PROVE  Inv'
<1>t. TypeOK /\ Future /\ Charged /\ Awaited
  BY DEF Inv
<1> DEFINE n == Level(c)
<1>n. n \in 0..Full /\ n < One
  BY <1>t, LevelType DEF Refuse
<1>s. SetBucket(c, n) /\ time' = time /\ back' = back /\ since' = since
  BY DEF Refuse
<1>r. /\ RetryAfter(n) \in Nat \ {0}
      /\ n + RatePerMinute * RetryAfter(n) >= One
  <2>1. One - n \in Nat
    BY <1>n, ConfigAssumption DEF One, Full
  <2>2. /\ (One - n) \div RatePerMinute \in Nat
        /\ RatePerMinute * (((One - n) \div RatePerMinute) + 1) >= One - n
    BY <2>1, RoundedUp, ConfigAssumption
  <2>3. RetryAfter(n) = ((One - n) \div RatePerMinute) + 1
    BY <2>2 DEF RetryAfter, Greatest
  <2> QED
    BY <1>n, <2>1, <2>2, <2>3, ConfigAssumption DEF One, Full
<1>p. promise' = [promise EXCEPT ![c] = IF @ = 0 THEN time + RetryAfter(n) ELSE @]
  BY DEF Refuse
<1> HIDE DEF n
<1>1. /\ Level(c)' = n
      /\ \A d \in Client \ {c} : Level(d)' = Level(d)
      /\ DOMAIN buckets' = DOMAIN buckets \cup {c}
      /\ buckets'[c] = [tokens |-> n, updatedAt |-> Now]
      /\ \A d \in DOMAIN buckets \ {c} : buckets'[d] = buckets[d]
      /\ Now' = Now /\ Now \in Int
  BY <1>t, <1>n, <1>s, SetLevel
<1>2. \A d \in Client : Level(d)' = Level(d)
  BY <1>1 DEF n
<1>3. /\ promise' \in [Client -> Nat]
      /\ promise'[c] = IF promise[c] = 0 THEN time + RetryAfter(n) ELSE promise[c]
      /\ \A d \in Client \ {c} : promise'[d] = promise[d]
  BY <1>t, <1>r, <1>p DEF TypeOK
<1>4. TypeOK'
  <2>1. /\ DOMAIN buckets' \subseteq Client
        /\ buckets' \in [DOMAIN buckets' -> [tokens : 0..Full, updatedAt : Int]]
    BY <1>t, <1>n, <1>s, SetType
  <2> QED
    BY <1>t, <1>s, <1>3, <2>1 DEF TypeOK
<1>5. Future'
  BY <1>t, <1>s DEF Future
<1>6. Charged'
  BY <1>t, <1>s, <1>2 DEF Charged
<1>7. Awaited'
  <2> SUFFICES ASSUME NEW d \in Client, promise'[d] # 0
               PROVE  /\ d \in DOMAIN buckets'
                      /\ buckets'[d].updatedAt <= Now
                      /\ Level(d)' >= One \/ Level(d)' + RatePerMinute * (promise'[d] - time) >= One
    BY <1>s, <1>1 DEF Awaited
  <2>1. CASE d # c
    BY <1>t, <1>1, <1>3, <2>1 DEF Awaited
  <2>2. CASE d = c /\ promise[c] # 0
    BY <1>t, <1>1, <1>2, <1>3, <2>2 DEF Awaited
  <2>3. CASE d = c /\ promise[c] = 0
    <3>1. promise'[c] - time = RetryAfter(n)
      BY <1>t, <1>3, <1>r, <2>3 DEF TypeOK
    <3> QED
      BY <1>1, <1>r, <2>3, <3>1
  <2> QED
    BY <2>1, <2>2, <2>3
<1> QED
  BY <1>4, <1>5, <1>6, <1>7 DEF Inv

\* In a second a bucket gains what a second refills, unless the burst cuts it
\* off or the wall clock still has to catch up.
LEMMA TickLevel ==
    ASSUME TypeOK, NEW c \in Client, Tick
    PROVE  /\ Level(c)' <= Level(c) + RatePerMinute
           /\ c \in DOMAIN buckets /\ buckets[c].updatedAt <= Now =>
                 Level(c)' = Least(Full, Level(c) + RatePerMinute)
<1>1. CASE c \notin DOMAIN buckets
  BY <1>1, ConfigAssumption DEF Tick, Level, Full, One
<1>2. CASE c \in DOMAIN buckets
  <2> DEFINE k == buckets[c].tokens
             u == buckets[c].updatedAt
             e == Greatest(0, Now - u)
             f == Greatest(0, Now + 1 - u)
  <2>1. k \in 0..Full /\ u \in Int /\ Now \in Int /\ Now' = Now + 1 /\ buckets' = buckets
    BY <1>2, BoundAssumption DEF TypeOK, Now, Tick
  <2>2. Level(c) = Least(Full, k + e * RatePerMinute)
    BY <1>2 DEF Level
  <2>3. Level(c)' = Least(Full, k + f * RatePerMinute)
    BY <1>2, <2>1 DEF Level
  <2>4. e \in Nat /\ f \in {e, e + 1} /\ (u <= Now => f = e + 1)
    BY <2>1 DEF Greatest
  <2> HIDE DEF k, u, e, f
  <2>5. (e + 1) * RatePerMinute = e * RatePerMinute + RatePerMinute
    BY <2>4, ConfigAssumption, OneMore
  <2>6. e * RatePerMinute \in Nat /\ RatePerMinute \in Nat /\ Full \in Nat
    BY <2>4, ConfigAssumption DEF Full, One
  <2>7. Level(c)' <= Level(c) + RatePerMinute
    BY <2>1, <2>2, <2>3, <2>4, <2>5, <2>6 DEF Least
  <2>8. u <= Now => Level(c)' = Least(Full, Level(c) + RatePerMinute)
    BY <2>1, <2>2, <2>3, <2>4, <2>5, <2>6 DEF Least
  <2> QED
    BY <2>7, <2>8 DEF u
<1> QED
  BY <1>1, <1>2

LEMMA TickLemma ==
    ASSUME Inv, Tick
    PROVE  Inv'
<1>t. TypeOK /\ Future /\ Charged /\ Awaited
  BY DEF Inv
<1>s. time' = time + 1 /\ back' = back /\ buckets' = buckets /\ since' = since /\ promise' = promise
  BY DEF Tick
<1>1. TypeOK'
  BY <1>t, <1>s, BoundAssumption DEF TypeOK, Tick
<1>2. Future'
  BY <1>t, <1>s DEF Future, TypeOK
<1>l. \A c \in Client : Level(c) \in 0..Full /\ Level(c)' \in 0..Full
  <2>1. \A c \in Client : Level(c) \in 0..Full
    BY <1>t, LevelType
  <2> SUFFICES ASSUME NEW c \in Client PROVE Level(c)' \in 0..Full
    BY <2>1
  <2>2. CASE c \notin DOMAIN buckets
    BY <1>s, <2>2, ConfigAssumption DEF Level, Full, One
  <2>3. CASE c \in DOMAIN buckets
    <3>1. /\ buckets[c].tokens \in 0..Full /\ buckets[c].updatedAt \in Int
          /\ Now' \in Int
      BY <1>t, <1>1, <2>3, BoundAssumption DEF TypeOK, Now
    <3> DEFINE f == Greatest(0, Now' - buckets[c].updatedAt)
    <3>2. f \in Nat
      BY <3>1 DEF Greatest
    <3>3. Level(c)' = Least(Full, buckets[c].tokens + f * RatePerMinute)
      BY <1>s, <2>3 DEF Level
    <3>4. f * RatePerMinute \in Nat
      BY <3>2, ConfigAssumption
    <3> HIDE DEF f
    <3> QED
      BY <3>1, <3>3, <3>4, ConfigAssumption DEF Least, Full, One
  <2> QED
    BY <2>2, <2>3
<1>3. Charged'
  <2> SUFFICES ASSUME NEW c \in Client, NEW s \in 0..MaxTime, s <= time'
               PROVE  One * since'[c][s] + Level(c)' <= Full + RatePerMinute * (time' - s)
    BY DEF Charged
  <2>0. time' = time + 1 /\ since' = since /\ s <= time + 1
    BY <1>s
  <2>1. time \in Nat /\ s \in Nat /\ since[c][s] \in Nat
    BY <1>t, BoundAssumption DEF TypeOK
  <2>2. ASSUME s = time + 1
        PROVE  One * since[c][s] + Level(c)' <= Full + RatePerMinute * (time + 1 - s)
    <3>1. since[c][s] = 0
      BY <1>t, <2>1, <2>2 DEF Future
    <3>2. RatePerMinute * (time + 1 - s) = 0
      BY <2>1, <2>2, ConfigAssumption
    <3> QED
      BY <1>l, <3>1, <3>2, ConfigAssumption DEF Full, One
  <2>3. ASSUME s <= time
        PROVE  One * since[c][s] + Level(c)' <= Full + RatePerMinute * (time + 1 - s)
    <3>1. One * since[c][s] + Level(c) <= Full + RatePerMinute * (time - s)
      BY <1>t, <2>3 DEF Charged
    <3>2. Level(c)' <= Level(c) + RatePerMinute
      BY <1>t, TickLevel
    <3>3. RatePerMinute * (time + 1 - s) = RatePerMinute * (time - s) + RatePerMinute
      <4>1. time + 1 - s = (time - s) + 1 /\ time - s \in Int
        BY <2>1
      <4> QED
        BY <4>1, OneMore, ConfigAssumption
    <3>4. RatePerMinute * (time - s) \in Int /\ RatePerMinute \in Nat
      BY <2>1, ConfigAssumption
    <3> HIDE DEF Level
    <3> QED
      BY <1>l, <2>1, <3>1, <3>2, <3>3, <3>4, ConfigAssumption DEF Full, One
  <2>4. One * since[c][s] + Level(c)' <= Full + RatePerMinute * (time + 1 - s)
    BY <2>0, <2>1, <2>2, <2>3
  <2>5. One * since'[c][s] = One * since[c][s]
    BY <2>0
  <2>6. RatePerMinute * (time' - s) = RatePerMinute * (time + 1 - s)
    <3>1. time' - s = time + 1 - s
      BY <2>0, <2>1
    <3> QED
      BY <3>1
  <2> QED
    BY <2>4, <2>5, <2>6
<1>4. Awaited'
  <2> SUFFICES ASSUME NEW c \in Client, promise[c] # 0
               PROVE  /\ c \in DOMAIN buckets
                      /\ buckets[c].updatedAt <= Now'
                      /\ \/ Level(c)' >= One
                         \/ Level(c)' + RatePerMinute * (promise[c] - (time + 1)) >= One
    BY <1>s DEF Awaited
  <2>1. /\ c \in DOMAIN buckets
        /\ buckets[c].updatedAt <= Now
        /\ Level(c) >= One \/ Level(c) + RatePerMinute * (promise[c] - time) >= One
    BY <1>t DEF Awaited
  <2>2. Now' = Now + 1 /\ Now \in Int /\ buckets[c].updatedAt \in Int
    BY <1>t, <1>s, <2>1, BoundAssumption DEF TypeOK, Now
  <2>3. Level(c)' = Least(Full, Level(c) + RatePerMinute)
    BY <1>t, <2>1, TickLevel
  <2>4. One <= Full
    BY ConfigAssumption DEF One, Full
  <2>5. CASE Level(c) >= One
    BY <1>l, <2>1, <2>2, <2>3, <2>4, <2>5, ConfigAssumption DEF Least, One, Full
  <2>6. CASE Level(c) + RatePerMinute * (promise[c] - time) >= One
    <3>1. promise[c] \in Nat /\ time \in Nat
      BY <1>t, BoundAssumption DEF TypeOK
    <3> DEFINE w == promise[c] - (time + 1)
    <3>2. w \in Int /\ promise[c] - time = w + 1
      BY <3>1
    <3>3. RatePerMinute * (promise[c] - time) = RatePerMinute * w + RatePerMinute
      BY <3>2, OneMore, ConfigAssumption
    <3>4. RatePerMinute * w \in Int /\ RatePerMinute \in Nat
      BY <3>2, ConfigAssumption
    <3> HIDE DEF w
    <3>5. Level(c)' >= One \/ Level(c)' + RatePerMinute * w >= One
      BY <1>l, <2>3, <2>4, <2>6, <3>3, <3>4, ConfigAssumption DEF Least, One, Full
    <3> QED
      BY <2>1, <2>2, <3>5 DEF w
  <2> QED
    BY <2>1, <2>5, <2>6
<1> QED
  BY <1>1, <1>2, <1>3, <1>4 DEF Inv

\* Setting the wall clock back refills no bucket.
LEMMA SetBackLemma ==
    ASSUME Inv, SetBack
    PROVE  Inv'
<1>t. TypeOK /\ Future /\ Charged /\ Awaited
  BY DEF Inv
<1>s. /\ time' = time /\ back' = back + 1 /\ buckets' = buckets /\ since' = since
      /\ promise' = [c \in Client |-> 0]
  BY DEF SetBack
<1>1. TypeOK'
  BY <1>t, <1>s DEF TypeOK
<1>2. Future'
  BY <1>t, <1>s DEF Future
<1>l. ASSUME NEW c \in Client
      PROVE  Level(c)' \in Int /\ Level(c) \in Int /\ Level(c)' <= Level(c)
  <2>1. CASE c \notin DOMAIN buckets
    BY <1>s, <2>1, ConfigAssumption DEF Level, Full, One
  <2>2. CASE c \in DOMAIN buckets
    <3> DEFINE k == buckets[c].tokens
               u == buckets[c].updatedAt
               e == Greatest(0, Now - u)
               f == Greatest(0, Now - 1 - u)
    <3>1. k \in 0..Full /\ u \in Int /\ Now \in Int /\ Now' = Now - 1
      BY <1>t, <1>s, <2>2, BoundAssumption DEF TypeOK, Now
    <3>2. Level(c) = Least(Full, k + e * RatePerMinute)
      BY <2>2 DEF Level
    <3>3. Level(c)' = Least(Full, k + f * RatePerMinute)
      BY <1>s, <2>2, <3>1 DEF Level
    <3>4. e \in Nat /\ f \in Nat /\ f <= e
      BY <3>1 DEF Greatest
    <3> HIDE DEF k, u, e, f
    <3>5. /\ e * RatePerMinute \in Nat /\ f * RatePerMinute \in Nat
          /\ f * RatePerMinute <= e * RatePerMinute
      BY <3>4, Growing, ConfigAssumption
    <3> QED
      BY <3>1, <3>2, <3>3, <3>5, ConfigAssumption DEF Least, Full, One
  <2> QED
    BY <2>1, <2>2
<1>3. Charged'
  <2> SUFFICES ASSUME NEW c \in Client, NEW s \in 0..MaxTime, s <= time
               PROVE  One * since[c][s] + Level(c)' <= Full + RatePerMinute * (time - s)
    BY <1>s DEF Charged
  <2>1. One * since[c][s] + Level(c) <= Full + RatePerMinute * (time - s)
    BY <1>t DEF Charged
  <2>2. since[c][s] \in Nat /\ RatePerMinute * (time - s) \in Int
    BY <1>t, BoundAssumption, ConfigAssumption DEF TypeOK
  <2> HIDE DEF Level
  <2> QED
    BY <1>l, <2>1, <2>2, ConfigAssumption DEF Full, One
<1>4. Awaited'
  BY <1>s DEF Awaited
<1> QED
  BY <1>1, <1>2, <1>3, <1>4 DEF Inv

LEMMA StutterLemma ==
    ASSUME Inv, UNCHANGED vars
    PROVE  Inv'
<1> USE DEF vars
<1>1. TypeOK' /\ Future'
  BY DEF Inv, TypeOK, Future
<1>2. Charged' /\ Awaited'
  BY DEF Inv, Charged, Awaited, Level, Now
<1> QED
  BY <1>1, <1>2 DEF Inv

LEMMA Invariance == Spec => []Inv
<1>1. Inv /\ [Next]_vars => Inv'
  <2> SUFFICES ASSUME Inv, [Next]_vars PROVE Inv'
    OBVIOUS
  <2>1. ASSUME NEW c \in Client, Admit(c) PROVE Inv'
    BY <2>1, AdmitLemma
  <2>2. ASSUME NEW c \in Client, Refuse(c) PROVE Inv'
    BY <2>2, RefuseLemma
  <2>3. CASE Tick
    BY <2>3, TickLemma
  <2>4. CASE SetBack
    BY <2>4, SetBackLemma
  <2>5. CASE UNCHANGED vars
    BY <2>5, StutterLemma
  <2> QED
    BY <2>1, <2>2, <2>3, <2>4, <2>5 DEF Next
<1> QED
  BY <1>1, InitLemma, PTL DEF Spec

--------------------------------------------------------------------------------
(* The theorems.                                                             *)

\* No bucket of enforce_rate_limit ever holds less than nothing or more than
\* the burst, wherever the wall clock goes.
THEOREM TypeCorrect == Spec => []TypeOK
<1>1. Inv => TypeOK
  BY DEF Inv
<1> QED
  BY <1>1, Invariance, PTL

\* For every rate and burst, and for periods of every length: what a client is
\* admitted within a period is bounded by the burst and the length.
THEOREM RateIsBounded == Spec => []RateBounded
<1>1. Inv => RateBounded
  <2> SUFFICES ASSUME Inv, NEW c \in Client, NEW s \in 0..MaxTime, s <= time
               PROVE  One * since[c][s] <= Full + RatePerMinute * (time - s)
    BY DEF RateBounded
  <2>1. TypeOK /\ One * since[c][s] + Level(c) <= Full + RatePerMinute * (time - s)
    BY DEF Inv, Charged
  <2>2. Level(c) \in Nat
    BY <2>1, LevelType, ConfigAssumption DEF Full, One
  <2>3. since[c][s] \in Nat /\ RatePerMinute * (time - s) \in Int
    BY <2>1, BoundAssumption, ConfigAssumption DEF TypeOK
  <2> HIDE DEF Level
  <2> QED
    BY <2>1, <2>2, <2>3, ConfigAssumption DEF Full, One
<1> QED
  BY <1>1, Invariance, PTL

\* For every rate and burst, Retry-After is rounded up far enough.
THEOREM RetryIsHonoured == Spec => []RetryHonoured
<1>1. Inv => RetryHonoured
  <2> SUFFICES ASSUME Inv, NEW c \in Client, promise[c] # 0, time >= promise[c]
               PROVE  Level(c) >= One
    BY DEF RetryHonoured
  <2>1. TypeOK /\ (Level(c) >= One \/ Level(c) + RatePerMinute * (promise[c] - time) >= One)
    BY DEF Inv, Awaited
  <2>2. promise[c] - time \in Int /\ promise[c] - time <= 0
    BY <2>1, BoundAssumption DEF TypeOK
  <2>3. RatePerMinute * (promise[c] - time) \in Int /\ RatePerMinute * (promise[c] - time) <= 0
    <3>1. RatePerMinute * (promise[c] - time) <= RatePerMinute * 0
      BY <2>2, Growing, ConfigAssumption
    <3> QED
      BY <2>2, <3>1, ConfigAssumption
  <2>4. Level(c) \in Nat
    BY <2>1, LevelType, ConfigAssumption DEF Full, One
  <2> HIDE DEF Level
  <2> QED
    BY <2>1, <2>3, <2>4 DEF One
<1> QED
  BY <1>1, Invariance, PTL
================================================================================
