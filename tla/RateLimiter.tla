----------------------------- MODULE RateLimiter -----------------------------
(***************************************************************************)
(* The limiter of how often a user may send: a map from users to the time  *)
(* of their last send, cleaned when it has grown by more than a step.      *)
(***************************************************************************)
EXTENDS Integers, FiniteSets

CONSTANTS
    Users,
    Interval,    \* least distance of two sends of a user; 0 without a limit
    CleanStep,   \* 1000 in the code
    MaxTime      \* bound: time that passes

ASSUME LimiterAssumption ==
    /\ Interval \in Nat /\ CleanStep \in Nat /\ MaxTime \in Nat

VARIABLES
    now,
    lastTime,        \* time of the last send, for the users in the map
    lastCleanCount   \* size of the map after the last cleaning

limiterVars == <<now, lastTime, lastCleanCount>>

LimiterInit ==
    /\ now = 0
    /\ lastTime = [u \in {} |-> 0]
    /\ lastCleanCount = 0

Tick ==
    /\ now < MaxTime
    /\ now' = now + 1
    /\ UNCHANGED <<lastTime, lastCleanCount>>

\* Mutant: every entry but those of this moment is dropped.
StaleAll(times) == {u \in DOMAIN times : times[u] < now}

\* The entries the cleaning drops.
Stale(times) == {u \in DOMAIN times : times[u] < now - 2 * Interval}

TooFast(user) ==
    /\ Interval > 0
    /\ user \in DOMAIN lastTime
    /\ now - lastTime[user] < Interval

\* A send that is let through is recorded, then the map is cleaned if it has
\* grown enough.
Allow(user) ==
    LET times == [u \in DOMAIN lastTime \cup {user} |-> IF u = user THEN now ELSE lastTime[u]]
        size  == Cardinality(DOMAIN times)
        clean == size > CleanStep /\ size - lastCleanCount > CleanStep
        kept  == DOMAIN times \ (IF clean THEN Stale(times) ELSE {})
    IN
    /\ ~TooFast(user)
    /\ now' = now
    /\ IF Interval = 0 THEN UNCHANGED <<lastTime, lastCleanCount>>
       ELSE /\ lastTime' = [u \in kept |-> times[u]]
            /\ lastCleanCount' = IF clean THEN Cardinality(kept) ELSE lastCleanCount

=============================================================================
