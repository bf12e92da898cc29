---------------------------- MODULE RateLimiter ----------------------------
(***************************************************************************)
(* The token buckets in front of the API and of the public proxy: one per  *)
(* subject, made on its first request, refilled when the next one comes,   *)
(* and forgotten by a sweep that every SweepEvery-th hit makes over the    *)
(* buckets nobody has used for StaleAge.  The mutex makes allow() one      *)
(* step; the clock moves between steps.                                    *)
(*                                                                         *)
(* Tokens are counted in units: a request costs Cost of them and a tick of *)
(* the clock brings Rate, so that limits below one request per tick are    *)
(* whole numbers too.                                                      *)
(***************************************************************************)
EXTENDS Integers

CONSTANTS
    Subjects,       \* tokens and addresses that make requests
    Cost,           \* units a request costs
    Rate,           \* units a tick brings
    Burst,          \* units a bucket holds
    StaleAge,       \* staleRateLimitBucketAge, in ticks
    SweepEvery,     \* 128 in the code
    MaxTime         \* bound: the clock

(* The last conjunct is not enforced: both limits come from the            *)
(* environment.  The defaults satisfy it by far.                           *)
ASSUME RateAssumption ==
    /\ Cost \in Nat \ {0} /\ Rate \in Nat \ {0} /\ Burst \in Nat
    /\ StaleAge \in Nat /\ SweepEvery \in Nat \ {0} /\ MaxTime \in Nat
    /\ Burst >= Cost
    /\ StaleAge * Rate >= Burst

VARIABLES
    now,            \* the clock
    entries,        \* [subject -> its bucket, if it has one]
    hits,           \* hits since the last sweep
    granted,        \* the last answer of allow()
    ideal           \* history: the buckets, had none been forgotten

rateVars == <<now, entries, hits, granted, ideal>>

NoBucket == [there |-> FALSE, tokens |-> 0, lastSeen |-> 0]
Bucket(t, n) == [there |-> TRUE, tokens |-> t, lastSeen |-> n]

Answers == {"none", "allowed", "limited"}

RateTypeOK ==
    /\ now \in 0..MaxTime
    /\ entries \in [Subjects -> [there : BOOLEAN, tokens : 0..Burst,
                                 lastSeen : 0..MaxTime]]
    /\ hits \in 0..(SweepEvery - 1)
    /\ granted \in Answers
    /\ ideal \in [Subjects -> [tokens : 0..Burst, lastSeen : 0..MaxTime]]

RateInit ==
    /\ now = 0
    /\ entries = [s \in Subjects |-> NoBucket]
    /\ hits = 0
    /\ granted = "none"
    /\ ideal = [s \in Subjects |-> [tokens |-> Burst, lastSeen |-> 0]]

Tick ==
    /\ now < MaxTime
    /\ now' = now + 1
    /\ UNCHANGED <<entries, hits, granted, ideal>>

AtMost(a, b) == IF a <= b THEN a ELSE b

(* A plausible slip: the bucket is refilled beyond what it holds.          *)
RefilledUncapped(b) == b.tokens + (now - b.lastSeen) * Rate

(* math.Min(burst, tokens + elapsed*tokensPerS)                            *)
Refilled(b) == AtMost(Burst, b.tokens + (now - b.lastSeen) * Rate)

(* A plausible slip: the age is compared the wrong way round.              *)
StaleTooSoon(b) == now - b.lastSeen < StaleAge

Stale(b) == now - b.lastSeen > StaleAge

(* cleanup: every SweepEvery-th hit, over all the buckets.                 *)
cleanup(es) ==
    /\ hits' = (hits + 1) % SweepEvery
    /\ entries' = IF hits' = 0
                  THEN [s \in Subjects |->
                          IF es[s].there /\ Stale(es[s])
                          THEN NoBucket ELSE es[s]]
                  ELSE es

(* The reference: a bucket that starts full and is never forgotten.        *)
idealAllow(s) ==
    LET t == Refilled(ideal[s]) IN
    ideal' = [ideal EXCEPT ![s] =
                 [tokens |-> IF t >= Cost THEN t - Cost ELSE t,
                  lastSeen |-> now]]

allowFirst(s) ==
    /\ ~entries[s].there
    /\ granted' = "allowed"
    /\ cleanup([entries EXCEPT ![s] = Bucket(Burst - Cost, now)])
    /\ idealAllow(s)
    /\ UNCHANGED now

allowAgain(s) ==
    LET t == Refilled(entries[s]) IN
    /\ entries[s].there /\ t >= Cost
    /\ granted' = "allowed"
    /\ cleanup([entries EXCEPT ![s] = Bucket(t - Cost, now)])
    /\ idealAllow(s)
    /\ UNCHANGED now

refuse(s) ==
    LET t == Refilled(entries[s]) IN
    /\ entries[s].there /\ t < Cost
    /\ granted' = "limited"
    /\ cleanup([entries EXCEPT ![s] = Bucket(t, now)])
    /\ idealAllow(s)
    /\ UNCHANGED now

RateNext ==
    \/ Tick
    \/ \E s \in Subjects : allowFirst(s) \/ allowAgain(s) \/ refuse(s)

RateSpec == RateInit /\ [][RateNext]_rateVars

---------------------------------------------------------------------------
(* Forgetting a bucket is never to anyone's advantage or harm: a bucket    *)
(* that exists is what it would be had none been forgotten, and one that   *)
(* does not would be full (cleanup, and the full bucket allow() makes for  *)
(* a subject it does not know).                                            *)
SweepIsInvisible ==
    \A s \in Subjects :
        IF entries[s].there
        THEN /\ entries[s].tokens = ideal[s].tokens
             /\ entries[s].lastSeen = ideal[s].lastSeen
        ELSE Refilled(ideal[s]) = Burst

=============================================================================
