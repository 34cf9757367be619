------------------------------ MODULE RateLimiter ------------------------------
(***************************************************************************)
(* The per-client token bucket in front of the shielded relayer            *)
(* (enforce_rate_limit in scripts/shielded_relayer_service.py).  A bucket  *)
(* is only refilled when its client asks: the level is then computed from  *)
(* the time since the last request, on a wall clock that may be set back.  *)
(* One request is 60 units of a bucket, so that a second refills           *)
(* RatePerMinute of them.                                                  *)
(***************************************************************************)
EXTENDS Integers

CONSTANTS
    Client,         \* values of request_client_id
    RatePerMinute,  \* config.rate_limit_requests_per_minute, 0 switches it off
    Burst,          \* max(config.rate_limit_burst, 1)
    MaxTime,        \* bound on the time
    MaxBack         \* bound on the seconds the wall clock is set back

ASSUME ConfigAssumption == RatePerMinute \in Nat \ {0} /\ Burst \in Nat \ {0}
ASSUME BoundAssumption == MaxTime \in Nat /\ MaxBack \in Nat

VARIABLES
    time,     \* seconds that have really passed
    back,     \* seconds the wall clock has been set back in all
    buckets,  \* _rate_limit_buckets
    since,    \* history: requests of a client admitted at a time or later
    promise   \* history: when a refused client may expect to be admitted, or 0

vars == <<time, back, buckets, since, promise>>

One == 60
Full == One * Burst

\* self._now()
Now == time - back

Init ==
    /\ time = 0
    /\ back = 0
    /\ buckets = [c \in {} |-> 0]
    /\ since = [c \in Client |-> [s \in 0..MaxTime |-> 0]]
    /\ promise = [c \in Client |-> 0]

Least(x, y) == IF x <= y THEN x ELSE y
Greatest(x, y) == IF x >= y THEN x ELSE y

\* Operators named ...Faulty are the operator they precede with one plausible
\* mistake; no specification uses them.  They show that a property notices it.

\* a clock that was set back is not noticed
LevelFaulty(c) ==
    IF c \in DOMAIN buckets
    THEN Least(Full, buckets[c].tokens + (Now - buckets[c].updatedAt) * RatePerMinute)
    ELSE Full

\* the level of the client's bucket, refilled until now; a new client's is full
Level(c) ==
    IF c \in DOMAIN buckets
    THEN Least(Full, buckets[c].tokens + Greatest(0, Now - buckets[c].updatedAt) * RatePerMinute)
    ELSE Full

\* the time of the refill is not moved on
SetBucketFaulty(c, tokens) ==
    buckets' = [d \in DOMAIN buckets \cup {c} |->
                   IF d # c THEN buckets[d]
                   ELSE [tokens |-> tokens,
                         updatedAt |-> IF c \in DOMAIN buckets THEN buckets[c].updatedAt ELSE Now]]

SetBucket(c, tokens) ==
    buckets' = [d \in DOMAIN buckets \cup {c} |->
                   IF d = c THEN [tokens |-> tokens, updatedAt |-> Now] ELSE buckets[d]]

\* the seconds are rounded down
RetryAfterFaulty(level) == Greatest(1, (One - level) \div RatePerMinute)

\* the header Retry-After of a refusal
RetryAfter(level) == Greatest(1, (One - level) \div RatePerMinute + 1)

Admit(c) ==
    /\ Level(c) >= One
    /\ SetBucket(c, Level(c) - One)
    /\ since' = [since EXCEPT ![c] = [s \in 0..MaxTime |-> IF s <= time THEN @[s] + 1 ELSE @[s]]]
    /\ promise' = [promise EXCEPT ![c] = 0]
    /\ UNCHANGED <<time, back>>

Refuse(c) ==
    /\ Level(c) < One
    /\ SetBucket(c, Level(c))
    /\ promise' = [promise EXCEPT ![c] = IF @ = 0 THEN time + RetryAfter(Level(c)) ELSE @]
    /\ UNCHANGED <<time, back, since>>

Tick ==
    /\ time < MaxTime
    /\ time' = time + 1
    /\ UNCHANGED <<back, buckets, since, promise>>

\* the wall clock is set back by a second: the times promised are no longer right
SetBack ==
    /\ back < MaxBack
    /\ back' = back + 1
    /\ promise' = [c \in Client |-> 0]
    /\ UNCHANGED <<time, buckets, since>>

Next ==
    \/ \E c \in Client : Admit(c) \/ Refuse(c)
    \/ Tick
    \/ SetBack

Spec == Init /\ [][Next]_vars

--------------------------------------------------------------------------------
(* Properties.                                                               *)

\* Types: a bucket holds between nothing and the burst.
TypeOK ==
    /\ time \in 0..MaxTime
    /\ back \in Nat
    /\ DOMAIN buckets \subseteq Client
    /\ buckets \in [DOMAIN buckets -> [tokens : 0..Full, updatedAt : Int]]
    /\ since \in [Client -> [0..MaxTime -> Nat]]
    /\ promise \in [Client -> Nat]

\* Over every period, whenever it starts, a client is admitted at most the burst
\* plus what its length refills, even if the wall clock is set back meanwhile.
RateBounded ==
    \A c \in Client, s \in 0..MaxTime :
        s <= time => One * since[c][s] <= Full + RatePerMinute * (time - s)

\* A client that waits as long as Retry-After told it is admitted, however often
\* it asks before: refusals cost nothing and lose no fraction of the refill.
RetryHonoured ==
    \A c \in Client : promise[c] # 0 /\ time >= promise[c] => Level(c) >= One
================================================================================
