-------------------------- MODULE RequestPipeline ---------------------------
(***************************************************************************)
(* A state-changing request on its way through the middleware stack of     *)
(* api/main.py.  Starlette runs the middleware added last first, so        *)
(* the order is IdempotencyMiddleware, AdaptiveThrottleMiddleware,         *)
(* BackpressureMiddleware, handler.  Every stage awaits the next one:      *)
(* between the lookup and the store of one request, others run.            *)
(* Requests carry an Idempotency-Key; the hash of method, path and body is *)
(* an abstract intent.                                                     *)
(***************************************************************************)
EXTENDS Integers, FiniteSets

CONSTANTS
    Request,      \* requests, a retry being a request of its own
    Key,          \* Idempotency-Key values
    Intent,       \* values of _hash_request()
    keyOf,        \* [Request -> Key]
    intentOf,     \* [Request -> Intent]
    MaxInflight,  \* backpressure.max_inflight
    UsesRedis     \* [runtime].redis_url is set

ASSUME PipelineAssumption ==
    /\ IsFiniteSet(Request)
    /\ keyOf \in [Request -> Key]
    /\ intentOf \in [Request -> Intent]
    /\ MaxInflight \in Nat \ {0}
    /\ UsesRedis \in BOOLEAN

VARIABLES
    at,        \* at[r]: where r is, see Stage
    reply,     \* reply[r]: the response on its way back, or sent
    inflight,  \* BackpressureMiddleware._inflight
    executed,  \* history: requests whose handler ran to a response
    redis,     \* redis[k]: envelope stored in Redis under k
    local,     \* local[k]: envelope stored in the process under k
    redisUp,   \* Redis answers within its timeout
    disturbed  \* history: an entry expired, or Redis came or went

pipelineVars ==
    <<at, reply, inflight, executed, redis, local, redisUp, disturbed>>
environment == <<redisUp, disturbed>>

Stage ==
    {"new",       \* not yet received
     "missed",    \* past the idempotency lookup, at the throttles
     "handling",  \* in the handler, holding an inflight slot
     "returning", \* the response is on its way to the idempotency store
     "replied"}   \* the client has its response

\* What a reply says.  "busy" is the 503 of either throttle; "fault" the 500
\* of a handler that raised.
Status == {"ok", "busy", "conflict", "fault"}

\* An envelope holds the response of the request it was made for.
Envelope == [intent : Intent, status : Status, by : Request]
NoEnvelope == {}  \* no envelope; a stored one is a singleton set

NoReply == {}

PipelineInit ==
    /\ at = [r \in Request |-> "new"]
    /\ reply = [r \in Request |-> NoReply]
    /\ inflight = 0
    /\ executed = {}
    /\ redis = [k \in Key |-> NoEnvelope]
    /\ local = [k \in Key |-> NoEnvelope]
    /\ redisUp = UsesRedis
    /\ disturbed = FALSE

\* _lookup(): what the store answers for a key, local when Redis does not.
Lookup(k) == IF redisUp THEN redis[k] ELSE local[k]

Made(r, status) ==
    {[intent |-> intentOf[r], status |-> status, by |-> r]}

\* Nothing is stored under the key: the request goes on to the throttles.
Miss(r) ==
    /\ at[r] = "new"
    /\ Lookup(keyOf[r]) = NoEnvelope
    /\ at' = [at EXCEPT ![r] = "missed"]
    /\ UNCHANGED <<reply, inflight, executed, redis, local, environment>>

\* Mutant: the stored hash is not compared.
ReplayAnyIntent(r) ==
    /\ at[r] = "new"
    /\ Lookup(keyOf[r]) # NoEnvelope
    /\ reply' = [reply EXCEPT ![r] = Lookup(keyOf[r])]
    /\ at' = [at EXCEPT ![r] = "replied"]
    /\ UNCHANGED <<inflight, executed, redis, local, environment>>

\* Same key, same hash: the stored response is sent again.
Replay(r) ==
    /\ at[r] = "new"
    /\ \E env \in Lookup(keyOf[r]) : env.intent = intentOf[r]
    /\ reply' = [reply EXCEPT ![r] = Lookup(keyOf[r])]
    /\ at' = [at EXCEPT ![r] = "replied"]
    /\ UNCHANGED <<inflight, executed, redis, local, environment>>

\* Same key, another hash: 409.
Conflict(r) ==
    /\ at[r] = "new"
    /\ \E env \in Lookup(keyOf[r]) : env.intent # intentOf[r]
    /\ reply' = [reply EXCEPT ![r] = Made(r, "conflict")]
    /\ at' = [at EXCEPT ![r] = "replied"]
    /\ UNCHANGED <<inflight, executed, redis, local, environment>>

\* The adaptive throttle may shed any request while p95 breaches the SLO.
Shed(r) ==
    /\ at[r] = "missed"
    /\ reply' = [reply EXCEPT ![r] = Made(r, "busy")]
    /\ at' = [at EXCEPT ![r] = "returning"]
    /\ UNCHANGED <<inflight, executed, redis, local, environment>>

\* Over the inflight cap: 503.
TooBusy(r) ==
    /\ at[r] = "missed"
    /\ inflight >= MaxInflight
    /\ reply' = [reply EXCEPT ![r] = Made(r, "busy")]
    /\ at' = [at EXCEPT ![r] = "returning"]
    /\ UNCHANGED <<inflight, executed, redis, local, environment>>

\* The cap is tested and the slot taken under _inflight_lock.
Enter(r) ==
    /\ at[r] = "missed"
    /\ inflight < MaxInflight
    /\ inflight' = inflight + 1
    /\ at' = [at EXCEPT ![r] = "handling"]
    /\ UNCHANGED <<reply, executed, redis, local, environment>>

HandlerResponds(r) ==
    /\ at[r] = "handling"
    /\ executed' = executed \cup {r}
    /\ inflight' = inflight - 1
    /\ reply' = [reply EXCEPT ![r] = Made(r, "ok")]
    /\ at' = [at EXCEPT ![r] = "returning"]
    /\ UNCHANGED <<redis, local, environment>>

\* Mutant: the slot is given back after call_next() and not in a finally.
HandlerRaisesKeepsSlot(r) ==
    /\ at[r] = "handling"
    /\ reply' = [reply EXCEPT ![r] = Made(r, "fault")]
    /\ at' = [at EXCEPT ![r] = "replied"]
    /\ UNCHANGED <<inflight, executed, redis, local, environment>>

\* An exception passes every middleware: the slot is freed in the finally,
\* nothing is stored, the client gets a 500.
HandlerRaises(r) ==
    /\ at[r] = "handling"
    /\ inflight' = inflight - 1
    /\ reply' = [reply EXCEPT ![r] = Made(r, "fault")]
    /\ at' = [at EXCEPT ![r] = "replied"]
    /\ UNCHANGED <<executed, redis, local, environment>>

\* Mutant: the response goes out and is not stored.
SendUnstored(r) ==
    /\ at[r] = "returning"
    /\ at' = [at EXCEPT ![r] = "replied"]
    /\ UNCHANGED <<reply, inflight, executed, redis, local, environment>>

\* _store(), whatever the status and whoever stored under the key meanwhile,
\* and the response goes out.
StoreAndSend(r) ==
    /\ at[r] = "returning"
    /\ IF redisUp
       THEN redis' = [redis EXCEPT ![keyOf[r]] = reply[r]] /\ UNCHANGED local
       ELSE local' = [local EXCEPT ![keyOf[r]] = reply[r]] /\ UNCHANGED redis
    /\ at' = [at EXCEPT ![r] = "replied"]
    /\ UNCHANGED <<reply, inflight, executed, environment>>

\* ttl_hours later.
Expire(k) ==
    /\ \/ redis[k] # NoEnvelope /\ redis' = [redis EXCEPT ![k] = NoEnvelope] /\ UNCHANGED local
       \/ local[k] # NoEnvelope /\ local' = [local EXCEPT ![k] = NoEnvelope] /\ UNCHANGED redis
    /\ disturbed' = TRUE
    /\ UNCHANGED <<at, reply, inflight, executed, redisUp>>

RedisFlaps ==
    /\ UsesRedis
    /\ redisUp' = ~redisUp
    /\ disturbed' = TRUE
    /\ UNCHANGED <<at, reply, inflight, executed, redis, local>>

PipelineNext ==
    \/ \E r \in Request : \/ Miss(r) \/ Replay(r) \/ Conflict(r)
                          \/ Shed(r) \/ TooBusy(r) \/ Enter(r)
                          \/ HandlerResponds(r) \/ HandlerRaises(r)
                          \/ StoreAndSend(r)
    \/ \E k \in Key : Expire(k)
    \/ RedisFlaps

PipelineSpec == PipelineInit /\ [][PipelineNext]_pipelineVars
-----------------------------------------------------------------------------
PipelineTypeOK ==
    /\ at \in [Request -> Stage]
    /\ reply \in [Request -> SUBSET Envelope]
    /\ inflight \in 0..MaxInflight
    /\ executed \subseteq Request
    /\ redis \in [Key -> SUBSET Envelope]
    /\ local \in [Key -> SUBSET Envelope]
    /\ redisUp \in BOOLEAN
    /\ disturbed \in BOOLEAN

\* "So the count is exact" (backpressure.py:34): a slot per request in the
\* handler, released however the handler ends, and never more than the cap.
InflightExact ==
    /\ inflight = Cardinality({r \in Request : at[r] = "handling"})
    /\ inflight <= MaxInflight

\* A reply is that of a request with the same key and the same intent, though
\* entries are overwritten by concurrent requests and split over two stores,
\* and a success that a client is told about was executed by that request.
RepliesAreReal ==
    \A r \in Request : \A env \in reply[r] :
        /\ keyOf[env.by] = keyOf[r]
        /\ intentOf[env.by] = intentOf[r]
        /\ env.status = "ok" => env.by \in executed

\* As long as no entry has expired and Redis has neither come nor gone, a key
\* that was answered by the stages behind the store is never a miss again.
AnsweredIsRemembered ==
    [][\A r, q \in Request :
          /\ ~disturbed
          /\ at[q] = "replied"
          /\ \A env \in reply[q] : env.status # "fault"
          /\ keyOf[q] = keyOf[r]
          => ~ (at[r] = "new" /\ at'[r] = "missed")]_pipelineVars

\* "The handler is not re-executed" (idempotency.py:11) for a request and its
\* retry, i.e. with the same key and the same intent, while nothing expires and
\* Redis stays as it is.
HandlerRunsOnce ==
    ~disturbed =>
        \A r, q \in executed :
            keyOf[r] = keyOf[q] /\ intentOf[r] = intentOf[q] => r = q
=============================================================================
