---------------------------- MODULE RateLimiter -----------------------------
(***************************************************************************)
(* One bucket of the rate limits of api/limiter.py and api/admin/routes.py *)
(* shared by several replicas: INCR of a Redis counter, EXPIRE by whoever  *)
(* created it, and a sliding window of the process when Redis fails.  The  *)
(* three limiters differ in key, limit and window only.  Time is a clock   *)
(* of Window ticks per window.                                             *)
(***************************************************************************)
EXTENDS Integers, Sequences

CONSTANTS
    Replica,  \* processes, each handling one limited request at a time
    Limit,    \* requests that the limit allows in a window
    Window    \* window_s, in ticks

ASSUME LimiterAssumption ==
    /\ Limit \in Nat \ {0}
    /\ Window \in Nat \ {0}

VARIABLES
    hits,      \* the counter in Redis, 0 without the key; it stops at Limit + 1
    ttl,       \* ticks the key has left, 0 when it has no expiry
    creator,   \* replicas between an INCR that returned 1 and its EXPIRE
    bucket,    \* bucket[r]: ages of the admissions r decided by itself
    admitted   \* history: admitted[i], the age of the i-th last admission that
               \* the counter decided, Window if it is that long ago or never was

limiterVars == <<hits, ttl, creator, bucket, admitted>>

LimiterInit ==
    /\ hits = 0
    /\ ttl = 0
    /\ creator = {}
    /\ bucket = [r \in Replica |-> <<>>]
    /\ admitted = [i \in 1..(2 * Limit + 1) |-> Window]

\* INCR; beyond the limit the count makes no difference.
Counted == IF hits <= Limit THEN hits + 1 ELSE hits

Grant == admitted' = [i \in DOMAIN admitted |->
                         IF i = 1 THEN 0 ELSE admitted[i - 1]]

\* The in-process deque: what is older than the window is dropped first.
SlidingWindow(r) ==
    LET recent == SelectSeq(bucket[r], LAMBDA age : age <= Window)
    IN  bucket' = [bucket EXCEPT ![r] =
                      IF Len(recent) >= Limit THEN recent ELSE Append(recent, 0)]

\* INCR returns 1: the replica has yet to give the key its expiry.
CreateCounter(r) ==
    /\ r \notin creator
    /\ hits = 0
    /\ hits' = Counted
    /\ creator' = creator \cup {r}
    /\ UNCHANGED <<ttl, bucket, admitted>>

\* Mutant: one request more than the limit.
AllowsOneMore == Counted <= Limit + 1
\* Not `cnt > count`.
Allows == Counted <= Limit

\* Mutant: every request renews the expiry.
CountHitRenews(r) ==
    /\ r \notin creator
    /\ hits > 0
    /\ hits' = Counted
    /\ IF Allows THEN Grant ELSE UNCHANGED admitted
    /\ ttl' = Window
    /\ UNCHANGED <<creator, bucket>>

\* INCR returns more than 1: the request is admitted, or turned away with 429.
CountHit(r) ==
    /\ r \notin creator
    /\ hits > 0
    /\ hits' = Counted
    /\ IF Allows THEN Grant ELSE UNCHANGED admitted
    /\ UNCHANGED <<ttl, creator, bucket>>

\* EXPIRE; the first request of a window is admitted.
SetExpiry(r) ==
    /\ r \in creator
    /\ creator' = creator \ {r}
    /\ ttl' = Window
    /\ Grant
    /\ UNCHANGED <<hits, bucket>>

\* EXPIRE raises: the process decides by itself and the counter stays.
ExpiryFails(r) ==
    /\ r \in creator
    /\ creator' = creator \ {r}
    /\ SlidingWindow(r)
    /\ UNCHANGED <<hits, ttl, admitted>>

\* The process dies between the two commands, with its bucket.
LimiterDies(r) ==
    /\ r \in creator
    /\ creator' = creator \ {r}
    /\ bucket' = [bucket EXCEPT ![r] = <<>>]
    /\ UNCHANGED <<hits, ttl, admitted>>

\* INCR raises: Redis is down, or has counted but answers after socket_timeout.
CounterFails(r) ==
    /\ r \notin creator
    /\ hits' \in {hits, Counted}
    /\ SlidingWindow(r)
    /\ UNCHANGED <<ttl, creator, admitted>>

\* A tick of the clock: Redis drops a key whose time is over.
Pass ==
    /\ ttl' = IF ttl > 0 THEN ttl - 1 ELSE 0
    /\ hits' = IF ttl = 1 THEN 0 ELSE hits
    /\ bucket' = [r \in Replica |->
                     [i \in DOMAIN bucket[r] |->
                         IF bucket[r][i] <= Window THEN bucket[r][i] + 1
                                                   ELSE bucket[r][i]]]
    /\ admitted' = [i \in DOMAIN admitted |->
                       IF admitted[i] < Window THEN admitted[i] + 1 ELSE Window]
    /\ UNCHANGED creator

LimiterFinish(r) == SetExpiry(r) \/ ExpiryFails(r) \/ LimiterDies(r)

LimiterNext ==
    \/ \E r \in Replica : \/ CreateCounter(r)
                          \/ CountHit(r)
                          \/ LimiterFinish(r)
                          \/ CounterFails(r)
    \/ Pass

LimiterSpec == LimiterInit /\ [][LimiterNext]_limiterVars
-----------------------------------------------------------------------------
LimiterTypeOK ==
    /\ hits \in 0..(Limit + 1)
    /\ ttl \in 0..Window
    /\ creator \subseteq Replica
    /\ \A r \in Replica : bucket[r] \in Seq(0..(Window + 1))
    /\ admitted \in [1..(2 * Limit + 1) -> 0..Window]

\* A counter that nobody is going to give an expiry.
Orphan == hits > 0 /\ ttl = 0 /\ creator = {}

\* "Cluster-wide enforcement" (limiter.py:6-7): the shared counter admits no
\* more than twice the limit in any window's time, as two fixed windows meet
\* in one sliding window, whichever replicas die, time out or answer late.
SharedLimitHolds == admitted[2 * Limit + 1] = Window

\* Nobody is turned away for good: a counter ends, unless it was left without
\* an expiry when its creator failed between INCR and EXPIRE.
CounterEnds == hits > 0 ~> hits = 0 \/ Orphan
=============================================================================
