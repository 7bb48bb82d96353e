----------------------------- MODULE RateLimiter -----------------------------
(***************************************************************************)
(* The token buckets of internal/ratelimit, one per address or account, as  *)
(* cmd/server/main.go sets them up.  Allow and sweep run under the mutex of *)
(* the limiter, each is one step.  Tokens are counted in fractions: a       *)
(* request costs Cost of them and a second brings PerMinute, so that a rate *)
(* per minute and a clock in seconds stay whole numbers (Cost is 60 in the  *)
(* code; a small instance takes a smaller one).                             *)
(***************************************************************************)
EXTENDS Integers

CONSTANTS
    Addresses,     \* what KeyFunc makes of requests
    PerMinute, Burst,
    Cost,          \* fractions of a token that make one
    Ttl,           \* a bucket not used for longer is swept
    MaxSecond      \* bound: the last second of a behaviour

\* New clamps rate and burst to at least 1.  A bucket is full again by the
\* time it is swept: 900 s at 20, 300, 60 and 120 a minute make 300, 4500, 900
\* and 1800 tokens, against bursts of 10, 100, 60 and 60.
ASSUME LimiterAssumption ==
    /\ PerMinute \in Nat \ {0} /\ Burst \in Nat \ {0}
    /\ Cost \in Nat \ {0} /\ Ttl \in Nat /\ MaxSecond \in Nat
    /\ Burst * Cost <= PerMinute * Ttl

VARIABLES
    second,        \* the limiter's clock
    bucket,        \* buckets: [Addresses -> [has, tokens, lastSeen]]
    since,         \* history: since[a][s], requests of a admitted in second s or later
    told           \* history: when a refused address was told to return, or -1

limiterVars == <<second, bucket, since, told>>

NoBucket == [has |-> FALSE, tokens |-> 0, lastSeen |-> 0]

RateInit ==
    /\ second = 0
    /\ bucket = [a \in Addresses |-> NoBucket]
    /\ since = [a \in Addresses |-> [s \in 0..MaxSecond |-> 0]]
    /\ told = [a \in Addresses |-> -1]

-----------------------------------------------------------------------------

\* What the bucket holds at this moment; a new one is full.
Filled(b) ==
    IF b.has /\ b.tokens + PerMinute * (second - b.lastSeen) < Burst * Cost
    THEN b.tokens + PerMinute * (second - b.lastSeen)
    ELSE Burst * Cost

\* Retry-After: the deficit over the rate, in whole seconds, at least one.
Wait(tokens) ==
    IF (Cost - tokens) \div PerMinute < 1 THEN 1 ELSE (Cost - tokens) \div PerMinute

\* Middleware: the request goes on, or is answered with 429.
Admit(a) ==
    /\ Filled(bucket[a]) >= Cost
    /\ bucket' = [bucket EXCEPT ![a] =
            [has |-> TRUE, tokens |-> Filled(bucket[a]) - Cost, lastSeen |-> second]]
    /\ since' = [since EXCEPT ![a] =
            [s \in 0..MaxSecond |-> IF s <= second THEN since[a][s] + 1 ELSE since[a][s]]]
    /\ told' = [told EXCEPT ![a] = -1]
    /\ UNCHANGED second

Refuse(a) ==
    /\ Filled(bucket[a]) < Cost
    /\ bucket' = [bucket EXCEPT ![a] =
            [has |-> TRUE, tokens |-> Filled(bucket[a]), lastSeen |-> second]]
    /\ told' = [told EXCEPT ![a] = second + Wait(Filled(bucket[a]))]
    /\ UNCHANGED <<second, since>>

Allow(a) == Admit(a) \/ Refuse(a)

\* Mutant: the cutoff is ahead of the clock, now.Add(ttl).
LongIdle_Ahead(b) == b.has /\ b.lastSeen < second + Ttl

\* lastSeen is before the cutoff.
LongIdle(b) == b.has /\ b.lastSeen < second - Ttl

\* StartSweeper calls it every five minutes, or later.
sweep ==
    /\ \E a \in Addresses : LongIdle(bucket[a])
    /\ bucket' = [a \in Addresses |-> IF LongIdle(bucket[a]) THEN NoBucket ELSE bucket[a]]
    /\ UNCHANGED <<second, since, told>>

Second ==
    /\ second < MaxSecond
    /\ second' = second + 1
    /\ UNCHANGED <<bucket, since, told>>

RateNext ==
    \/ \E a \in Addresses : Allow(a)
    \/ sweep
    \/ Second

RateSpec == RateInit /\ [][RateNext]_limiterVars

-----------------------------------------------------------------------------
(* Properties. *)

\* Every variable has its type; a bucket holds no more than the burst.
RateTypeOK ==
    /\ second \in 0..MaxSecond
    /\ bucket \in [Addresses -> [has : BOOLEAN, tokens : Int, lastSeen : Int]]
    /\ \A a \in Addresses :
        bucket[a].tokens \in 0..(Burst * Cost) /\ bucket[a].lastSeen \in 0..second
    /\ since \in [Addresses -> [0..MaxSecond -> Nat]]
    /\ told \in [Addresses -> Int]

\* In every window that ends now, however it is chosen and whatever the
\* sweeper forgot in it, an address got no more than its burst and what the
\* rate brings in that time.
WindowBound ==
    \A a \in Addresses : \A s \in 0..second :
        since[a][s] * Cost <= Burst * Cost + PerMinute * (second - s)

\* A refused client that comes back one second after the moment it was told,
\* nobody else having used its bucket, is let in: rounding the wait down to
\* whole seconds costs it at most that second.
RetryGetsIn ==
    \A a \in Addresses : told[a] >= 0 /\ second > told[a] => Filled(bucket[a]) >= Cost

\* The limiter (ratelimit.go) lets no window exceed burst and rate, whatever the sweep forgets, and
\* lets in who waits as told and a second more.
LimiterSafe == RateTypeOK /\ WindowBound /\ RetryGetsIn

=============================================================================
