--------------------------- MODULE RequestProofs ----------------------------
(***************************************************************************)
(* What a request may count on, proved for every number of requests, keys, *)
(* tenants, threads and clients: its slot and its reply in the middleware  *)
(* stack, and its tenant and address in the thread that runs its handler.  *)
(***************************************************************************)
EXTENDS RequestPipeline, RequestContext, FiniteSetTheorems, TLAPS

-----------------------------------------------------------------------------
(* The middleware stack.                                                   *)

Handling == {r \in Request : at[r] = "handling"}

\* What is stored under k, or sent in reply to a request with k, is nothing or
\* one envelope, made by a request with that key for its own intent, and only
\* after the handler if it says that the handler succeeded.
Genuine(k, envelopes) ==
    /\ \A env, other \in envelopes : env = other
    /\ \A env \in envelopes :
          /\ keyOf[env.by] = k
          /\ env.intent = intentOf[env.by]
          /\ env.status = "ok" => env.by \in executed

StoresInv == \A k \in Key : Genuine(k, redis[k]) /\ Genuine(k, local[k])

\* A request has a reply as soon as it is past the handler, and the reply is
\* for its intent.
RepliesInv ==
    \A r \in Request :
        /\ Genuine(keyOf[r], reply[r])
        /\ \A env \in reply[r] : env.intent = intentOf[r]
        /\ at[r] = "returning" => reply[r] # NoReply

\* The store knows every key that the stages behind it have answered.
RememberedInv ==
    ~ disturbed =>
        \A q \in Request :
            at[q] = "replied" /\ (\A env \in reply[q] : env.status # "fault")
            => Lookup(keyOf[q]) # NoEnvelope

PipelineInv ==
    PipelineTypeOK /\ InflightExact /\ StoresInv /\ RepliesInv /\ RememberedInv

-----------------------------------------------------------------------------
\* An envelope made for r is of the right type and says what it is about.
LEMMA MadeIsTyped ==
    ASSUME NEW r \in Request, NEW status \in Status
    PROVE  /\ Made(r, status) \in SUBSET Envelope
           /\ Made(r, status) # NoReply
           /\ \A env \in Made(r, status) :
                 env.by = r /\ env.intent = intentOf[r] /\ env.status = status
           /\ \A env, other \in Made(r, status) : env = other
BY PipelineAssumption DEF Made, Envelope, NoReply

\* The slots taken are the requests in the handler, after every step of r.
LEMMA SlotsFollow ==
    ASSUME PipelineTypeOK, InflightExact, NEW r \in Request,
           \/ Miss(r) \/ Replay(r) \/ Conflict(r) \/ Shed(r) \/ TooBusy(r)
           \/ Enter(r) \/ HandlerResponds(r) \/ HandlerRaises(r) \/ StoreAndSend(r)
    PROVE  inflight' \in 0..MaxInflight /\ InflightExact'
<1> USE PipelineAssumption
<1>1. /\ IsFiniteSet(Handling)
      /\ inflight = Cardinality(Handling) /\ inflight <= MaxInflight
  BY FS_Subset DEF Handling, InflightExact
<1>2. InflightExact' <=> inflight' = Cardinality(Handling') /\ inflight' <= MaxInflight
  BY DEF InflightExact, Handling
<1>3. CASE Miss(r) \/ Replay(r) \/ Conflict(r) \/ Shed(r) \/ TooBusy(r) \/ StoreAndSend(r)
  <2>1. inflight' = inflight
    BY <1>3 DEF Miss, Replay, Conflict, Shed, TooBusy, StoreAndSend
  <2>2. Handling' = Handling
    BY <1>3 DEF Miss, Replay, Conflict, Shed, TooBusy, StoreAndSend, Handling,
                PipelineTypeOK
  <2> QED BY <1>1, <1>2, <2>1, <2>2 DEF PipelineTypeOK
<1>4. CASE Enter(r)
  <2>1. Handling' = Handling \cup {r} /\ r \notin Handling
    BY <1>4 DEF Enter, Handling, PipelineTypeOK
  <2>2. Cardinality(Handling') = Cardinality(Handling) + 1
    BY <1>1, <2>1, FS_AddElement
  <2>3. inflight' = inflight + 1 /\ inflight < MaxInflight
    BY <1>4 DEF Enter
  <2> QED BY <1>1, <1>2, <2>2, <2>3 DEF PipelineTypeOK
<1>5. CASE HandlerResponds(r) \/ HandlerRaises(r)
  <2>1. Handling' = Handling \ {r} /\ r \in Handling
    BY <1>5 DEF HandlerResponds, HandlerRaises, Handling, PipelineTypeOK
  <2>2. /\ Cardinality(Handling') = Cardinality(Handling) - 1
        /\ Cardinality(Handling') \in Nat
    BY <1>1, <2>1, FS_RemoveElement, FS_CardinalityType
  <2>3. inflight' = inflight - 1
    BY <1>5 DEF HandlerResponds, HandlerRaises
  <2> QED BY <1>1, <1>2, <2>2, <2>3 DEF PipelineTypeOK
<1> QED BY <1>3, <1>4, <1>5

\* A step of r up to its reply leaves the stores alone and replies to r only,
\* with an envelope made for r or with the one that is stored.
LEMMA StepsReplyGenuinely ==
    ASSUME PipelineInv, NEW r \in Request,
           \/ Miss(r) \/ Replay(r) \/ Conflict(r) \/ Shed(r) \/ TooBusy(r)
           \/ Enter(r) \/ HandlerResponds(r) \/ HandlerRaises(r)
    PROVE  PipelineInv'
<1> USE PipelineAssumption
<1>1. inflight' \in 0..MaxInflight /\ InflightExact'
  BY SlotsFollow DEF PipelineInv
<1>2. /\ UNCHANGED <<redis, local, redisUp, disturbed>>
      /\ executed \subseteq executed' /\ executed' \subseteq Request
      /\ \E stage \in Stage : at' = [at EXCEPT ![r] = stage]
      /\ \A q \in Request : q # r => at'[q] = at[q] /\ reply'[q] = reply[q]
  BY DEF PipelineInv, PipelineTypeOK, environment, Stage, Miss, Replay, Conflict, Shed,
         TooBusy, Enter, HandlerResponds, HandlerRaises
<1>3. /\ reply' \in [Request -> SUBSET Envelope]
      /\ Genuine(keyOf[r], reply[r])'
      /\ \A env \in reply'[r] : env.intent = intentOf[r]
      /\ at'[r] = "returning" => reply'[r] # NoReply
      /\ at'[r] = "replied" =>
            \/ \E env \in reply'[r] : env.status = "fault"
            \/ Lookup(keyOf[r]) # NoEnvelope
  <2>1. CASE Miss(r) \/ Enter(r)
    BY <2>1 DEF Miss, Enter, PipelineInv, PipelineTypeOK, RepliesInv, Genuine
  <2>2. CASE Replay(r)
    <3>1. /\ Lookup(keyOf[r]) \in SUBSET Envelope
          /\ Genuine(keyOf[r], Lookup(keyOf[r]))
      BY DEF PipelineInv, PipelineTypeOK, StoresInv, Lookup
    <3>2. reply' = [reply EXCEPT ![r] = Lookup(keyOf[r])] /\ at'[r] = "replied"
      BY <2>2 DEF Replay, PipelineInv, PipelineTypeOK
    <3>3. PICK env \in Lookup(keyOf[r]) : env.intent = intentOf[r]
      BY <2>2 DEF Replay
    <3>4. \A other \in Lookup(keyOf[r]) : other.intent = intentOf[r]
      BY <3>1, <3>3 DEF Genuine
    <3> QED BY <3>1, <3>2, <3>3, <3>4, <1>2
            DEF PipelineInv, PipelineTypeOK, Genuine, NoEnvelope
  <2>3. ASSUME NEW status \in Status, reply' = [reply EXCEPT ![r] = Made(r, status)],
               status = "ok" => r \in executed',
               at'[r] = "replied" => status = "fault" \/ Lookup(keyOf[r]) # NoEnvelope
        PROVE  /\ reply' \in [Request -> SUBSET Envelope]
               /\ Genuine(keyOf[r], reply[r])'
               /\ \A env \in reply'[r] : env.intent = intentOf[r]
               /\ reply'[r] # NoReply
               /\ at'[r] = "replied" =>
                     \/ \E env \in reply'[r] : env.status = "fault"
                     \/ Lookup(keyOf[r]) # NoEnvelope
    <3>1. reply'[r] = Made(r, status)
      BY <2>3 DEF PipelineInv, PipelineTypeOK
    <3>2. reply' \in [Request -> SUBSET Envelope]
      BY <2>3, MadeIsTyped DEF PipelineInv, PipelineTypeOK
    <3> QED BY <2>3, <3>1, <3>2, MadeIsTyped DEF Genuine, NoReply
  <2>4. CASE Conflict(r)
    <3>1. reply' = [reply EXCEPT ![r] = Made(r, "conflict")]
      BY <2>4 DEF Conflict
    <3>2. Lookup(keyOf[r]) # NoEnvelope
      BY <2>4 DEF Conflict, NoEnvelope
    <3> QED BY <2>3, <3>1, <3>2 DEF Status
  <2>5. CASE Shed(r) \/ TooBusy(r)
    <3>1. reply' = [reply EXCEPT ![r] = Made(r, "busy")] /\ at'[r] = "returning"
      BY <2>5 DEF Shed, TooBusy, PipelineInv, PipelineTypeOK
    <3> QED BY <2>3, <3>1 DEF Status
  <2>6. CASE HandlerResponds(r)
    <3>1. /\ reply' = [reply EXCEPT ![r] = Made(r, "ok")]
          /\ r \in executed' /\ at'[r] = "returning"
      BY <2>6 DEF HandlerResponds, PipelineInv, PipelineTypeOK
    <3> QED BY <2>3, <3>1 DEF Status
  <2>7. CASE HandlerRaises(r)
    <3>1. reply' = [reply EXCEPT ![r] = Made(r, "fault")]
      BY <2>7 DEF HandlerRaises
    <3> QED BY <2>3, <3>1 DEF Status
  <2> QED BY <2>1, <2>2, <2>4, <2>5, <2>6, <2>7
<1>4. PipelineTypeOK'
  BY <1>1, <1>2, <1>3 DEF PipelineInv, PipelineTypeOK
<1>5. StoresInv'
  BY <1>2 DEF PipelineInv, StoresInv, Genuine
<1>6. RepliesInv'
  BY <1>2, <1>3 DEF PipelineInv, RepliesInv, Genuine
<1>7. RememberedInv'
  BY <1>2, <1>3 DEF PipelineInv, RememberedInv, Lookup
<1> QED BY <1>1, <1>4, <1>5, <1>6, <1>7 DEF PipelineInv

\* What r stores under its key is the reply that was made for r.
LEMMA StoreKeepsInv ==
    ASSUME PipelineInv, NEW r \in Request, StoreAndSend(r)
    PROVE  PipelineInv'
<1> USE PipelineAssumption
<1>1. inflight' \in 0..MaxInflight /\ InflightExact'
  BY SlotsFollow DEF PipelineInv
<1>2. /\ UNCHANGED <<reply, executed, redisUp, disturbed>>
      /\ at' = [at EXCEPT ![r] = "replied"] /\ at[r] = "returning"
  BY DEF StoreAndSend, environment
<1>3. /\ reply[r] \in SUBSET Envelope /\ reply[r] # {}
      /\ Genuine(keyOf[r], reply[r])
  BY <1>2 DEF PipelineInv, PipelineTypeOK, RepliesInv, NoReply
<1>4. PipelineTypeOK'
  BY <1>1, <1>2, <1>3 DEF StoreAndSend, PipelineInv, PipelineTypeOK, Stage
<1>5. StoresInv'
  BY <1>2, <1>3 DEF StoreAndSend, PipelineInv, PipelineTypeOK, StoresInv, Genuine
<1>6. RepliesInv'
  BY <1>2 DEF PipelineInv, PipelineTypeOK, RepliesInv, Genuine
<1>7. \A q \in Request :
          /\ keyOf[q] = keyOf[r] => Lookup(keyOf[q])' # {}
          /\ keyOf[q] # keyOf[r] => Lookup(keyOf[q])' = Lookup(keyOf[q])
  <2> SUFFICES ASSUME NEW q \in Request
               PROVE  /\ keyOf[q] = keyOf[r] => Lookup(keyOf[q])' # {}
                      /\ keyOf[q] # keyOf[r] => Lookup(keyOf[q])' = Lookup(keyOf[q])
    OBVIOUS
  <2>1. CASE redisUp
    <3>1. redis'[keyOf[q]] = IF keyOf[q] = keyOf[r] THEN reply[r] ELSE redis[keyOf[q]]
      BY <2>1 DEF StoreAndSend, PipelineInv, PipelineTypeOK
    <3> QED BY <1>2, <1>3, <2>1, <3>1 DEF Lookup
  <2>2. CASE ~ redisUp
    <3>1. local'[keyOf[q]] = IF keyOf[q] = keyOf[r] THEN reply[r] ELSE local[keyOf[q]]
      BY <2>2 DEF StoreAndSend, PipelineInv, PipelineTypeOK
    <3> QED BY <1>2, <1>3, <2>2, <3>1 DEF Lookup
  <2> QED BY <2>1, <2>2
<1>8. \A q \in Request : q # r => at'[q] = at[q]
  BY <1>2 DEF PipelineInv, PipelineTypeOK
<1>9. RememberedInv'
  BY <1>2, <1>7, <1>8 DEF PipelineInv, RememberedInv, NoEnvelope
<1> QED BY <1>1, <1>4, <1>5, <1>6, <1>9 DEF PipelineInv

\* An expiry, or Redis that comes or goes, keeps the invariant.
LEMMA DisturbanceKeepsInv ==
    ASSUME PipelineInv, (\E k \in Key : Expire(k)) \/ RedisFlaps
    PROVE  PipelineInv'
<1> USE PipelineAssumption
<1>1. UNCHANGED <<at, reply, inflight, executed>> /\ disturbed'
  BY DEF Expire, RedisFlaps
<1>2. PipelineTypeOK' /\ StoresInv'
  <2>1. ASSUME NEW k \in Key, Expire(k) PROVE PipelineTypeOK' /\ StoresInv'
    BY <2>1 DEF Expire, PipelineInv, PipelineTypeOK, StoresInv, Genuine, NoEnvelope
  <2>2. CASE RedisFlaps
    BY <2>2 DEF RedisFlaps, PipelineInv, PipelineTypeOK, StoresInv, Genuine
  <2> QED BY <2>1, <2>2
<1>3. InflightExact' /\ RepliesInv' /\ RememberedInv'
  BY <1>1 DEF PipelineInv, InflightExact, RepliesInv, RememberedInv, Genuine
<1> QED BY <1>2, <1>3 DEF PipelineInv

\* For any number of requests, keys, intents and slots, with or without Redis.
THEOREM PipelineInvariant == PipelineSpec => []PipelineInv
<1> USE PipelineAssumption
<1>1. PipelineInit => PipelineInv
  <2> SUFFICES ASSUME PipelineInit PROVE PipelineInv
    OBVIOUS
  <2>1. PipelineTypeOK
    <3>1. inflight \in 0..MaxInflight
      BY DEF PipelineInit
    <3>2. redisUp \in BOOLEAN /\ disturbed \in BOOLEAN
      BY Zenon DEF PipelineInit, PipelineAssumption
    <3>3. /\ at \in [Request -> Stage]
          /\ reply \in [Request -> SUBSET Envelope]
          /\ executed \subseteq Request
          /\ redis \in [Key -> SUBSET Envelope] /\ local \in [Key -> SUBSET Envelope]
      BY DEF PipelineInit, Stage, NoReply, NoEnvelope
    <3> QED BY <3>1, <3>2, <3>3 DEF PipelineTypeOK
  <2>2. InflightExact
    <3>1. {r \in Request : at[r] = "handling"} = {}
      BY DEF PipelineInit
    <3> QED BY <3>1, FS_EmptySet DEF PipelineInit, InflightExact
  <2>3. StoresInv /\ RepliesInv /\ RememberedInv
    BY DEF PipelineInit, StoresInv, RepliesInv, RememberedInv, Genuine, NoReply, NoEnvelope
  <2> QED BY <2>1, <2>2, <2>3 DEF PipelineInv
<1>2. PipelineInv /\ [PipelineNext]_pipelineVars => PipelineInv'
  <2> SUFFICES ASSUME PipelineInv, [PipelineNext]_pipelineVars PROVE PipelineInv'
    OBVIOUS
  <2>1. CASE UNCHANGED pipelineVars
    BY <2>1 DEF pipelineVars, PipelineInv, PipelineTypeOK, InflightExact, StoresInv,
                RepliesInv, RememberedInv, Genuine, Lookup
  <2> QED BY <2>1, StepsReplyGenuinely, StoreKeepsInv, DisturbanceKeepsInv
             DEF PipelineNext
<1> QED BY <1>1, <1>2, PTL DEF PipelineSpec

\* However handlers end, the slots taken are the requests in the handler, and
\* never more than the cap.
THEOREM SlotsAreExact == PipelineSpec => []InflightExact
<1>1. PipelineInv => InflightExact
  BY DEF PipelineInv
<1> QED BY <1>1, PipelineInvariant, PTL

\* Every reply is that of a request with the same key and intent, and says
\* "ok" only if that request was executed.
THEOREM RepliesAreGenuine == PipelineSpec => []RepliesAreReal
<1>1. PipelineInv => RepliesAreReal
  BY DEF PipelineInv, RepliesInv, Genuine, RepliesAreReal
<1> QED BY <1>1, PipelineInvariant, PTL

\* While nothing expires and Redis stays as it is, a key that was answered
\* behind the store is never a miss again.
THEOREM AnswersAreRemembered == PipelineSpec => AnsweredIsRemembered
<1>1. PipelineInv /\ [PipelineNext]_pipelineVars
         => [\A r, q \in Request :
               /\ ~disturbed
               /\ at[q] = "replied"
               /\ \A env \in reply[q] : env.status # "fault"
               /\ keyOf[q] = keyOf[r]
               => ~ (at[r] = "new" /\ at'[r] = "missed")]_pipelineVars
  <2> SUFFICES ASSUME PipelineInv, PipelineNext, NEW r \in Request, NEW q \in Request,
                      ~ disturbed, at[q] = "replied",
                      \A env \in reply[q] : env.status # "fault", keyOf[q] = keyOf[r],
                      at[r] = "new", at'[r] = "missed"
               PROVE  FALSE
    OBVIOUS
  <2>1. Lookup(keyOf[r]) # NoEnvelope
    BY DEF PipelineInv, RememberedInv
  <2>2. Miss(r)
    <3>1. ASSUME NEW p \in Request, p # r,
                 \/ Miss(p) \/ Replay(p) \/ Conflict(p) \/ Shed(p) \/ TooBusy(p)
                 \/ Enter(p) \/ HandlerResponds(p) \/ HandlerRaises(p)
                 \/ StoreAndSend(p)
          PROVE  at'[r] = at[r]
      BY <3>1 DEF PipelineInv, PipelineTypeOK, Miss, Replay, Conflict, Shed, TooBusy,
                  Enter, HandlerResponds, HandlerRaises, StoreAndSend
    <3>2. \/ Miss(r) \/ Replay(r) \/ Conflict(r) \/ Shed(r) \/ TooBusy(r)
          \/ Enter(r) \/ HandlerResponds(r) \/ HandlerRaises(r) \/ StoreAndSend(r)
      BY <3>1 DEF PipelineNext, Expire, RedisFlaps
    <3> QED BY <3>2 DEF PipelineInv, PipelineTypeOK, Replay, Conflict, Shed, TooBusy,
                        Enter, HandlerResponds, HandlerRaises, StoreAndSend
  <2> QED BY <2>1, <2>2 DEF Miss
<1> QED BY <1>1, PipelineInvariant, PTL DEF PipelineSpec, AnsweredIsRemembered

-----------------------------------------------------------------------------
(* The context variables.                                                  *)

\* A tenant's entry holds its own row or the absence of one.
EntriesInv ==
    /\ entries \in [Anyone -> SUBSET (Anyone \cup {Absent})]
    /\ \A t \in Tenant : entries[t] \subseteq {t, Absent}

\* The context of a task is that of the request in it.
TaskInv ==
    \A q \in Task :
        /\ incoming[q].stage \in {"scoped", "captured"} =>
              context[q].tenant = incoming[q].tenant
        /\ incoming[q].stage = "scoped" => context[q].address = Unset
        /\ incoming[q].stage = "captured" =>
              context[q].address = incoming[q].address

\* The thread w runs the handler of a request that no other thread runs, in a
\* copy of the context that the request's task had.
Serves(w) ==
    LET mine == incoming[thread[w].of] IN
    /\ mine.stage = "handled"
    /\ thread[w].context.tenant = mine.tenant
    /\ thread[w].context.address \in {Unset, mine.address}
    /\ thread[w].at = "audited" => IsAdmin(w)
    /\ thread[w].at \in {"read", "answered"} =>
          /\ thread[w].found \in Anyone \cup {Absent}
          /\ mine.tenant # NoTenant => thread[w].found \in {mine.tenant, Absent}

ThreadInv ==
    /\ \A w \in Thread : thread[w].at # "idle" => Serves(w)
    /\ \A w, v \in Thread :
          thread[w].at # "idle" /\ thread[v].at # "idle" /\ thread[w].of = thread[v].of
          => w = v

TasksTypeOK ==
    /\ row \in Anyone \cup {Absent}
    /\ incoming \in [Task -> Exchange]
    /\ context \in [Task -> Context]
    /\ thread \in [Thread -> Handler]

ContextInv == TasksTypeOK /\ EntriesInv /\ TaskInv /\ ThreadInv
-----------------------------------------------------------------------------
\* No thread runs the handler of a request that is not yet handled.
LEMMA FreshRequestHasNoThread ==
    ASSUME ThreadInv, NEW q \in Task, incoming[q].stage # "handled",
           NEW w \in Thread, thread[w].at # "idle"
    PROVE  thread[w].of # q
BY DEF ThreadInv, Serves

\* What happens to a task before its handler runs keeps the invariant.
LEMMA TaskStepKeepsInv ==
    ASSUME ContextInv, NEW q \in Task, SetTenant(q) \/ CaptureAudit(q)
    PROVE  ContextInv'
<1> USE DEF ContextInv
<1>1. /\ incoming[q] \in Exchange /\ context[q] \in Context
      /\ incoming[q].stage # "handled" /\ UNCHANGED <<row, entries, thread>>
  BY DEF SetTenant, CaptureAudit, TasksTypeOK
<1>2. /\ incoming' \in [Task -> Exchange] /\ context' \in [Task -> Context]
      /\ \A p \in Task : p # q => incoming'[p] = incoming[p] /\ context'[p] = context[p]
      /\ context'[q].tenant = incoming'[q].tenant
      /\ \/ incoming'[q].stage = "scoped" /\ context'[q].address = Unset
         \/ incoming'[q].stage = "captured" /\ context'[q].address = incoming'[q].address
  <2>1. CASE SetTenant(q)
    <3>1. PICK t \in Anyone :
              /\ context' = [context EXCEPT ![q] = [Fresh EXCEPT !.tenant = t]]
              /\ incoming' = [incoming EXCEPT ![q].stage = "scoped", ![q].tenant = t]
      BY <2>1 DEF SetTenant
    <3>2. /\ incoming' \in [Task -> Exchange]
          /\ \A p \in Task : p # q => incoming'[p] = incoming[p]
          /\ incoming'[q].stage = "scoped" /\ incoming'[q].tenant = t
      BY <1>1, <3>1 DEF TasksTypeOK, Exchange
    <3>3. /\ context' \in [Task -> Context]
          /\ \A p \in Task : p # q => context'[p] = context[p]
          /\ context'[q].tenant = t /\ context'[q].address = Unset
      BY <3>1 DEF TasksTypeOK, Context, Fresh
    <3> QED BY <3>2, <3>3
  <2>2. CASE CaptureAudit(q)
    <3>1. PICK a \in Address :
              /\ context' = [context EXCEPT ![q].address = a]
              /\ incoming' = [incoming EXCEPT ![q].stage = "captured", ![q].address = a]
      BY <2>2 DEF CaptureAudit
    <3>2. /\ incoming' \in [Task -> Exchange]
          /\ \A p \in Task : p # q => incoming'[p] = incoming[p]
          /\ incoming'[q].stage = "captured" /\ incoming'[q].tenant = incoming[q].tenant
          /\ incoming'[q].address = a
      BY <1>1, <3>1 DEF TasksTypeOK, Exchange
    <3>3. /\ context' \in [Task -> Context]
          /\ \A p \in Task : p # q => context'[p] = context[p]
          /\ context'[q].tenant = context[q].tenant /\ context'[q].address = a
      BY <1>1, <3>1 DEF TasksTypeOK, Context
    <3>4. context[q].tenant = incoming[q].tenant
      BY <2>2 DEF CaptureAudit, TaskInv
    <3> QED BY <3>2, <3>3, <3>4
  <2> QED BY <2>1, <2>2
<1>3. TasksTypeOK' /\ EntriesInv'
  BY <1>1, <1>2 DEF TasksTypeOK, EntriesInv
<1>4. TaskInv'
  BY <1>2 DEF TaskInv
<1>5. ThreadInv'
  <2>1. ASSUME NEW w \in Thread, thread[w].at # "idle"
        PROVE  incoming'[thread[w].of] = incoming[thread[w].of]
    BY <1>1, <1>2, <2>1, FreshRequestHasNoThread DEF TasksTypeOK, Handler
  <2> QED BY <1>1, <2>1 DEF ThreadInv, Serves, IsAdmin
<1> QED BY <1>3, <1>4, <1>5

\* A thread that takes up a handler gets the context of that request.
LEMMA DispatchKeepsInv ==
    ASSUME ContextInv, NEW q \in Task, NEW w \in Thread, Dispatch(q, w)
    PROVE  ContextInv'
<1> USE DEF ContextInv
<1>1. /\ incoming[q] \in Exchange /\ context[q] \in Context
      /\ incoming[q].stage \in {"scoped", "captured"}
      /\ UNCHANGED <<row, entries, context>>
  BY DEF Dispatch, TasksTypeOK
<1>2. /\ incoming' \in [Task -> Exchange]
      /\ incoming'[q].stage = "handled"
      /\ incoming'[q].tenant = incoming[q].tenant
      /\ incoming'[q].address = incoming[q].address
      /\ \A p \in Task : p # q => incoming'[p] = incoming[p]
  BY <1>1 DEF Dispatch, TasksTypeOK, Exchange
<1>3. /\ thread' \in [Thread -> Handler]
      /\ thread'[w] = [at |-> "running", of |-> q, context |-> context[q], found |-> Unset]
      /\ \A v \in Thread : v # w => thread'[v] = thread[v]
  BY <1>1 DEF Dispatch, TasksTypeOK, Handler
<1>4. TasksTypeOK' /\ EntriesInv'
  BY <1>1, <1>2, <1>3 DEF TasksTypeOK, EntriesInv
<1>5. TaskInv'
  BY <1>1, <1>2 DEF TaskInv
<1>6. ASSUME NEW v \in Thread, v # w, thread[v].at # "idle"
      PROVE  /\ thread[v].of # q
             /\ incoming'[thread[v].of] = incoming[thread[v].of]
  BY <1>1, <1>2, <1>6, FreshRequestHasNoThread DEF TasksTypeOK, Handler
<1>7. Serves(w)'
  <2>1. context[q].tenant = incoming[q].tenant
    BY <1>1 DEF TaskInv
  <2>2. context[q].address \in {Unset, incoming[q].address}
    BY <1>1 DEF TaskInv
  <2> QED BY <1>2, <1>3, <2>1, <2>2 DEF Serves
<1>8. \A v \in Thread : v # w /\ thread'[v].at # "idle" => Serves(v)'
  BY <1>1, <1>3, <1>6 DEF ThreadInv, Serves, IsAdmin
<1>9. ThreadInv'
  BY <1>3, <1>6, <1>7, <1>8 DEF ThreadInv
<1> QED BY <1>4, <1>5, <1>9

\* A step of the handler in w keeps the invariant, if what it finds is the
\* row of its own tenant or none.
LEMMA HandlerStepKeepsInv ==
    ASSUME ContextInv, NEW w \in Thread, thread[w].at # "idle",
           NEW stage \in {"missed", "read", "answered", "audited"},
           NEW value \in Anyone \cup {Absent, Unset}, Goes(w, stage, value),
           UNCHANGED <<row, incoming, context>>, EntriesInv',
           stage = "audited" => IsAdmin(w),
           stage \in {"read", "answered"} =>
              /\ value \in Anyone \cup {Absent}
              /\ thread[w].context.tenant # NoTenant =>
                    value \in {thread[w].context.tenant, Absent}
    PROVE  ContextInv'
<1> USE DEF ContextInv
<1>1. thread[w] \in Handler
  BY DEF TasksTypeOK
<1>2. /\ thread' \in [Thread -> Handler]
      /\ thread'[w].at = stage /\ thread'[w].found = value
      /\ thread'[w].of = thread[w].of /\ thread'[w].context = thread[w].context
      /\ \A v \in Thread : v # w => thread'[v] = thread[v]
  BY <1>1 DEF Goes, Handler, TasksTypeOK
<1>3. TasksTypeOK' /\ TaskInv'
  BY <1>2 DEF TasksTypeOK, TaskInv
<1>4. Serves(w)'
  BY <1>1, <1>2 DEF ThreadInv, Serves, IsAdmin
<1>5. \A v \in Thread : v # w /\ thread'[v].at # "idle" => Serves(v)'
  BY <1>2 DEF ThreadInv, Serves, IsAdmin
<1>6. ThreadInv'
  BY <1>2, <1>4, <1>5 DEF ThreadInv
<1> QED BY <1>3, <1>6

\* The handlers' steps are such steps, whatever entry they find and whoever
\* owns the row by then.
LEMMA HandlersKeepInv ==
    ASSUME ContextInv, NEW w \in Thread,
           LookupEntry(w) \/ ReadRow(w) \/ Fill(w) \/ WriteAudit(w)
    PROVE  ContextInv'
<1> DEFINE tenant == thread[w].context.tenant
<1> USE DEF ContextInv
<1>1. thread[w] \in Handler /\ tenant \in Anyone
  BY DEF TasksTypeOK, Handler, Context
<1>2. tenant # NoTenant => tenant \in Tenant
  BY <1>1 DEF Anyone
<1>3. UNCHANGED entries => EntriesInv'
  BY DEF EntriesInv
<1>4. CASE LookupEntry(w)
  <2>1. /\ thread[w].at # "idle" /\ EntriesInv'
        /\ UNCHANGED <<row, incoming, context>>
    BY <1>3, <1>4 DEF LookupEntry
  <2>2. ASSUME NEW value \in entries[tenant], Goes(w, "answered", value)
        PROVE  ContextInv'
    <3>1. value \in Anyone \cup {Absent}
      BY <1>1, <2>2 DEF EntriesInv
    <3>2. tenant # NoTenant => value \in {tenant, Absent}
      BY <1>2, <2>2 DEF EntriesInv
    <3> QED BY <2>1, <2>2, <3>1, <3>2, HandlerStepKeepsInv
  <2>3. ASSUME Goes(w, "missed", Unset) PROVE ContextInv'
    BY <2>1, <2>3, HandlerStepKeepsInv
  <2> QED BY <1>4, <2>2, <2>3 DEF LookupEntry, CacheKey
<1>5. CASE ReadRow(w)
  <2>1. /\ thread[w].at # "idle" /\ EntriesInv' /\ Goes(w, "read", Found(w))
        /\ UNCHANGED <<row, incoming, context>>
    BY <1>3, <1>5 DEF ReadRow
  <2>2. Found(w) \in Anyone \cup {Absent}
    BY DEF Found, TasksTypeOK
  <2>3. tenant # NoTenant => Found(w) \in {tenant, Absent}
    BY DEF Found
  <2> QED BY <2>1, <2>2, <2>3, HandlerStepKeepsInv
<1>6. CASE Fill(w)
  <2>1. /\ thread[w].at = "read" /\ Goes(w, "answered", thread[w].found)
        /\ entries' = [entries EXCEPT ![tenant] = {thread[w].found}]
        /\ UNCHANGED <<row, incoming, context>>
    BY <1>6 DEF Fill, CacheKey
  <2>2. tenant # NoTenant => thread[w].found \in {tenant, Absent}
    BY <2>1 DEF ThreadInv, Serves
  <2>3. thread[w].found \in Anyone \cup {Absent}
    BY <2>1 DEF ThreadInv, Serves
  <2>4. EntriesInv'
    <3>1. \A t \in Anyone :
              entries'[t] = IF t = tenant THEN {thread[w].found} ELSE entries[t]
      BY <1>1, <2>1 DEF EntriesInv
    <3>2. entries' \in [Anyone -> SUBSET (Anyone \cup {Absent})]
      BY <1>1, <2>1, <2>3 DEF EntriesInv
    <3>3. ASSUME NEW t \in Tenant PROVE entries'[t] \subseteq {t, Absent}
      <4>1. t \in Anyone /\ t # NoTenant
        BY ContextAssumption DEF Anyone
      <4> QED BY <2>2, <3>1, <4>1 DEF EntriesInv
    <3> QED BY <3>2, <3>3 DEF EntriesInv
  <2> QED BY <2>1, <2>2, <2>3, <2>4, HandlerStepKeepsInv
<1>7. CASE WriteAudit(w)
  <2>1. /\ thread[w].at # "idle" /\ EntriesInv' /\ Goes(w, "audited", Unset)
        /\ IsAdmin(w) /\ UNCHANGED <<row, incoming, context>>
    BY <1>3, <1>7 DEF WriteAudit
  <2> QED BY <2>1, HandlerStepKeepsInv
<1> QED BY <1>4, <1>5, <1>6, <1>7

\* The end of a request frees its thread and its task, and no other.
LEMMA LeaveKeepsInv ==
    ASSUME ContextInv, NEW w \in Thread, Leave(w)
    PROVE  ContextInv'
<1> USE DEF ContextInv
<1> DEFINE q == thread[w].of
<1>1. q \in Task /\ thread[w].at # "idle"
  BY DEF Leave, TasksTypeOK, Handler
<1>2. /\ NoRequest \in Exchange /\ NoRequest.stage = "none"
      /\ NoHandler \in Handler /\ NoHandler.at = "idle" /\ Fresh \in Context
  BY ContextAssumption DEF NoRequest, NoHandler, Fresh, Exchange, Handler, Context, Anyone
<1>3. /\ incoming' = [incoming EXCEPT ![q] = NoRequest]
      /\ context' = [context EXCEPT ![q] = Fresh]
      /\ thread' = [thread EXCEPT ![w] = NoHandler]
      /\ UNCHANGED <<row, entries>>
  BY DEF Leave
<1>4. TasksTypeOK' /\ EntriesInv'
  BY <1>1, <1>2, <1>3 DEF TasksTypeOK, EntriesInv
<1>5. TaskInv'
  BY <1>1, <1>2, <1>3 DEF TasksTypeOK, TaskInv
<1>6. ASSUME NEW v \in Thread, thread'[v].at # "idle"
      PROVE  /\ v # w /\ thread'[v] = thread[v]
             /\ incoming'[thread[v].of] = incoming[thread[v].of]
  BY <1>1, <1>2, <1>3, <1>6 DEF TasksTypeOK, Handler, ThreadInv
<1>7. ThreadInv'
  BY <1>6 DEF ThreadInv, Serves, IsAdmin
<1> QED BY <1>4, <1>5, <1>7

\* The row and its entries change: a tenant's entry only ever goes.
LEMMA RowKeepsInv ==
    ASSUME ContextInv,
           PutRow \/ DeleteRowOf \/ DropEntry \/ \E t \in Anyone : EntryExpires(t)
    PROVE  ContextInv'
<1> USE DEF ContextInv
<1>1. UNCHANGED <<incoming, context, thread>> /\ row' \in Anyone \cup {Absent}
  BY DEF PutRow, DeleteRowOf, DropEntry, EntryExpires, taskVars, TasksTypeOK
<1>2. EntriesInv'
  <2>1. UNCHANGED entries \/ \E t \in Anyone : entries' = [entries EXCEPT ![t] = {}]
    BY DEF PutRow, DeleteRowOf, DropEntry, EntryExpires, Anyone
  <2>2. CASE UNCHANGED entries
    BY <2>2 DEF EntriesInv
  <2>3. ASSUME NEW t \in Anyone, entries' = [entries EXCEPT ![t] = {}]
        PROVE  EntriesInv'
    <3>1. \A u \in Anyone : entries'[u] \subseteq entries[u]
      BY <2>3 DEF EntriesInv
    <3> QED BY <2>3, <3>1 DEF EntriesInv, Anyone
  <2> QED BY <2>1, <2>2, <2>3
<1> QED BY <1>1, <1>2 DEF TasksTypeOK, TaskInv, ThreadInv, Serves, IsAdmin

\* For any number of requests, threads, tenants and clients, what is answered
\* to a tenant is its own, and an audit row names the client of its request.
THEOREM ContextStaysOwn == ContextSpec => []ContextIsOwn
<1>1. ContextInit => ContextInv
  <2> SUFFICES ASSUME ContextInit PROVE ContextInv
    OBVIOUS
  <2>1. /\ NoRequest \in Exchange /\ NoRequest.stage = "none"
        /\ NoHandler \in Handler /\ NoHandler.at = "idle" /\ Fresh \in Context
    BY ContextAssumption
       DEF NoRequest, NoHandler, Fresh, Exchange, Handler, Context, Anyone
  <2>2. TasksTypeOK /\ EntriesInv
    BY <2>1 DEF ContextInit, TasksTypeOK, EntriesInv, Anyone
  <2>3. TaskInv /\ ThreadInv
    BY <2>1 DEF ContextInit, TaskInv, ThreadInv
  <2> QED BY <2>2, <2>3 DEF ContextInv
<1>2. ContextInv /\ [ContextNext]_contextVars => ContextInv'
  <2> SUFFICES ASSUME ContextInv, [ContextNext]_contextVars PROVE ContextInv'
    OBVIOUS
  <2>1. CASE UNCHANGED contextVars
    BY <2>1 DEF contextVars, ContextInv, TasksTypeOK, EntriesInv, TaskInv, ThreadInv,
                Serves, IsAdmin
  <2> QED BY <2>1, TaskStepKeepsInv, DispatchKeepsInv, HandlersKeepInv, LeaveKeepsInv,
             RowKeepsInv DEF ContextNext
<1>3. ContextInv => ContextIsOwn
  BY DEF ContextInv, ThreadInv, Serves, IsAdmin, ContextIsOwn
<1> QED BY <1>1, <1>2, <1>3, PTL DEF ContextSpec
=============================================================================
