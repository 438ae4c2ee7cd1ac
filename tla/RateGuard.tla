----------------------------- MODULE RateGuard -----------------------------
(***************************************************************************)
(* The per-account token bucket of the gateway's rate and access guard     *)
(* (spec 4.4).  The guard is not in this repository: it is modelled from   *)
(* the spec.  Capacity and refill are both rate_limit_rps; the bucket is   *)
(* refilled lazily on each check from the time elapsed since its last      *)
(* refill, with no background timer, and acquire() fails at once with      *)
(* RateLimited when no token is left.  Time is counted in whole seconds,   *)
(* so a refill adds rate_limit_rps tokens per elapsed second.              *)
(***************************************************************************)
EXTENDS Naturals

CONSTANT RateLimitRps   \* the account's rate_limit_rps

Bucket == [tokens : 0..RateLimitRps, last : Nat]

\* A bucket as created for the account: full.
FullBucket(now) == [tokens |-> RateLimitRps, last |-> now]

\* The lazy refill on each check: tokens for the elapsed time, capped at
\* the capacity.
Refilled(b, now) ==
    LET t == b.tokens + (now - b.last) * RateLimitRps
    IN  [tokens |-> IF t > RateLimitRps THEN RateLimitRps ELSE t, last |-> now]

\* acquire() succeeds: a token is left after the refill.
TokenAvailable(b, now) == Refilled(b, now).tokens > 0

\* The bucket after a successful acquire().
Acquired(b, now) == [Refilled(b, now) EXCEPT !.tokens = @ - 1]
====
