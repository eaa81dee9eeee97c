---------------------------- MODULE GuardProofs -----------------------------
(***************************************************************************)
(* Proofs about the parts that guard a resource: the circuit breaker, the  *)
(* budget of the LLM gateway and the rate limiter, for any number of       *)
(* callers, threads and replicas and any threshold, cap, limit and window. *)
(***************************************************************************)
EXTENDS CircuitBreaker, LLMGateway, RateLimiter, FiniteSetTheorems, TLAPS

\* The count and the state agree for any number of callers and any threshold.
THEOREM CountAlwaysMatchesState == Spec => [](TypeOK /\ CountMatchesState)
<1> USE BreakerAssumption
<1>1. Init => TypeOK /\ CountMatchesState
  BY DEF Init, TypeOK, CountMatchesState
<1>2. TypeOK /\ CountMatchesState /\ [Next]_breakerVars
         => (TypeOK /\ CountMatchesState)'
  <2> SUFFICES ASSUME TypeOK, CountMatchesState, [Next]_breakerVars
               PROVE  (TypeOK /\ CountMatchesState)'
    OBVIOUS
  <2> USE DEF TypeOK, CountMatchesState
  <2>1. CASE Tick
    BY <2>1 DEF Tick
  <2>2. ASSUME NEW c \in Caller, Admit(c) \/ Probe(c)
        PROVE  (TypeOK /\ CountMatchesState)'
    BY <2>2 DEF Admit, Probe
  <2>3. ASSUME NEW c \in Caller, Finish(c)
        PROVE  (TypeOK /\ CountMatchesState)'
    BY <2>3 DEF Finish, Succeed, Fail, Cancel, Trips
  <2>4. CASE UNCHANGED breakerVars
    BY <2>4 DEF breakerVars
  <2> QED BY <2>1, <2>2, <2>3, <2>4 DEF Next
<1> QED BY <1>1, <1>2, PTL DEF Spec
-----------------------------------------------------------------------------
(* The gateway's daily budget.                                             *)

\* The calls that passed the check and may still be charged.
Cleared == {w \in Worker : gate[w] \in {"lookup", "provider", "charge"}}

\* The calls whose answer is not charged yet.
Unbilled == {w \in Worker : gate[w] = "charge"}

\* However the calls in progress end, the counter stays within the bound.
SpentInv == spent + Cardinality(Cleared) < DailyCap + Cardinality(Worker) + blind

\* The counter lags behind the provider by the answers not charged.
PaidInv == paid <= spent + lost + Cardinality(Unbilled)

GatewayInv == GatewayTypeOK /\ SpentInv /\ PaidInv
\* Sets of threads have a size, and the calls not charged yet are cleared.
LEMMA ThreadsAreFinite ==
    /\ IsFiniteSet(Cleared) /\ IsFiniteSet(Unbilled)
    /\ Cardinality(Worker) \in Nat
    /\ Cardinality(Cleared) \in Nat /\ Cardinality(Unbilled) \in Nat
    /\ Cardinality(Cleared) <= Cardinality(Worker)
    /\ Cardinality(Unbilled) <= Cardinality(Cleared)
<1>1. Cleared \subseteq Worker /\ Unbilled \subseteq Cleared
  BY DEF Cleared, Unbilled
<1>2. IsFiniteSet(Worker)
  BY GatewayAssumption
<1>3. IsFiniteSet(Cleared) /\ Cardinality(Cleared) <= Cardinality(Worker)
  BY <1>1, <1>2, FS_Subset
<1>4. IsFiniteSet(Unbilled) /\ Cardinality(Unbilled) <= Cardinality(Cleared)
  BY <1>1, <1>3, FS_Subset
<1> QED BY <1>2, <1>3, <1>4, FS_CardinalityType

\* The size of a set of threads after one thread entered, left or stayed.
LEMMA OneMember ==
    ASSUME NEW S, IsFiniteSet(S), NEW w, NEW T,
           T \in {S \ {w}, S \cup {w}}
    PROVE  Cardinality(T) = Cardinality(S) - (IF w \in S THEN 1 ELSE 0)
                                           + (IF w \in T THEN 1 ELSE 0)
<1>1. Cardinality(S \ {w}) = Cardinality(S) - (IF w \in S THEN 1 ELSE 0)
  BY FS_RemoveElement, FS_CardinalityType
<1>2. Cardinality(S \cup {w}) = Cardinality(S) + (IF w \in S THEN 0 ELSE 1)
  BY FS_AddElement, FS_CardinalityType
<1>3. Cardinality(S) \in Nat
  BY FS_CardinalityType
<1>4. CASE T = S \ {w}
  BY <1>1, <1>3, <1>4
<1>5. CASE T = S \cup {w}
  BY <1>2, <1>3, <1>5
<1> QED BY <1>4, <1>5

\* A call that moves changes the two sets by at most itself.
LEMMA OneThreadMoves ==
    ASSUME GatewayTypeOK, NEW w \in Worker, NEW to, Move(w, to)
    PROVE  /\ Cardinality(Cleared') =
                Cardinality(Cleared)
                  - (IF gate[w] \in {"lookup", "provider", "charge"} THEN 1 ELSE 0)
                  + (IF to \in {"lookup", "provider", "charge"} THEN 1 ELSE 0)
           /\ Cardinality(Unbilled') =
                Cardinality(Unbilled)
                  - (IF gate[w] = "charge" THEN 1 ELSE 0)
                  + (IF to = "charge" THEN 1 ELSE 0)
<1>1. gate' = [gate EXCEPT ![w] = to] /\ gate \in [Worker -> GateState]
  BY DEF Move, GatewayTypeOK
<1>2. /\ Cleared' \in {Cleared \ {w}, Cleared \cup {w}}
      /\ w \in Cleared <=> gate[w] \in {"lookup", "provider", "charge"}
      /\ w \in Cleared' <=> to \in {"lookup", "provider", "charge"}
  BY <1>1 DEF Cleared
<1>3. /\ Unbilled' \in {Unbilled \ {w}, Unbilled \cup {w}}
      /\ w \in Unbilled <=> gate[w] = "charge"
      /\ w \in Unbilled' <=> to = "charge"
  BY <1>1 DEF Unbilled
<1>4. Cardinality(Cleared') = Cardinality(Cleared)
            - (IF w \in Cleared THEN 1 ELSE 0)
            + (IF w \in Cleared' THEN 1 ELSE 0)
  BY <1>2, ThreadsAreFinite, OneMember
<1>5. Cardinality(Unbilled') = Cardinality(Unbilled)
            - (IF w \in Unbilled THEN 1 ELSE 0)
            + (IF w \in Unbilled' THEN 1 ELSE 0)
  BY <1>3, ThreadsAreFinite, OneMember
<1> QED BY <1>2, <1>3, <1>4, <1>5

\* Each step of a call keeps the invariant.
LEMMA CallKeepsInv ==
    ASSUME GatewayInv, NEW w \in Worker, GatewayCall(w)
    PROVE  GatewayInv'
<1> USE GatewayAssumption
<1> USE DEF GatewayInv, GatewayTypeOK, GateState, SpentInv, PaidInv, faults
<1>1. /\ Cardinality(Worker) \in Nat
      /\ Cardinality(Cleared) \in Nat /\ Cardinality(Unbilled) \in Nat
  BY ThreadsAreFinite
<1>2. ASSUME NEW p \in Prompt, BeginCall(w, p) PROVE GatewayInv'
  <2>1. GatewayTypeOK'
    BY <1>2 DEF BeginCall, Move
  <2> QED BY <1>1, <1>2, <2>1, OneThreadMoves DEF BeginCall
<1>3. CASE EnforceBudget(w)
  <2>1. GatewayTypeOK'
    BY <1>3 DEF EnforceBudget, Move
  <2>2. PaidInv'
    BY <1>1, <1>3, OneThreadMoves DEF EnforceBudget
  <2>3. CASE WithinBudget
    <3>1. /\ Cardinality(Cleared') \in Nat
          /\ Cardinality(Cleared') <= Cardinality(Worker)
      <4>1. Cleared' \subseteq Worker
        BY DEF Cleared
      <4> QED BY <4>1, FS_Subset, FS_CardinalityType
    <3> QED
      BY <1>1, <1>3, <2>1, <2>2, <2>3, <3>1 DEF EnforceBudget, WithinBudget
  <2>4. CASE ~WithinBudget
    BY <1>1, <1>3, <2>1, <2>2, <2>4, OneThreadMoves DEF EnforceBudget
  <2> QED BY <2>3, <2>4
<1>4. CASE BudgetUnread(w)
  <2>1. GatewayTypeOK'
    BY <1>4 DEF BudgetUnread, Move
  <2> QED BY <1>1, <1>4, <2>1, OneThreadMoves DEF BudgetUnread
<1>5. CASE LookUpReply(w)
  <2>1. GatewayTypeOK'
    BY <1>5 DEF LookUpReply, Move
  <2> QED BY <1>1, <1>5, <2>1, OneThreadMoves DEF LookUpReply
<1>6. CASE ProviderRaises(w)
  <2>1. GatewayTypeOK'
    BY <1>6 DEF ProviderRaises, Move
  <2> QED BY <1>1, <1>6, <2>1, OneThreadMoves DEF ProviderRaises
<1>7. CASE ProviderAnswers(w)
  <2>1. GatewayTypeOK'
    BY <1>7 DEF ProviderAnswers, Move
  <2> QED BY <1>1, <1>7, <2>1, OneThreadMoves DEF ProviderAnswers
<1>8. CASE ChargeBudget(w)
  <2>1. GatewayTypeOK'
    BY <1>8 DEF ChargeBudget, Move
  <2> QED BY <1>1, <1>8, <2>1, OneThreadMoves DEF ChargeBudget
<1>9. CASE ChargeFails(w)
  <2>1. GatewayTypeOK'
    BY <1>9 DEF ChargeFails, Move
  <2> QED BY <1>1, <1>9, <2>1, OneThreadMoves DEF ChargeFails
<1> QED
  BY <1>2, <1>3, <1>4, <1>5, <1>6, <1>7, <1>8, <1>9 DEF GatewayCall

\* For any number of threads and any cap, what is spent beyond the cap is
\* accounted for by the calls in progress and by what Redis failed to record.
THEOREM OverspendIsBounded ==
    GatewaySpec => [](GatewayTypeOK /\ OverspendIsAccountedFor)
<1> USE GatewayAssumption
<1>1. GatewayInit => GatewayInv
  <2> SUFFICES ASSUME GatewayInit PROVE GatewayInv
    OBVIOUS
  <2>1. asked \in [Worker -> Prompt]
    <3>1. (CHOOSE p \in Prompt : TRUE) \in Prompt
      OBVIOUS
    <3> QED BY <3>1 DEF GatewayInit
  <2>2. GatewayTypeOK
    BY <2>1 DEF GatewayInit, GatewayTypeOK, GateState
  <2>3. Cleared = {} /\ Unbilled = {}
    BY DEF GatewayInit, Cleared, Unbilled
  <2> QED
    BY <2>2, <2>3, FS_EmptySet, ThreadsAreFinite
    DEF GatewayInit, GatewayInv, SpentInv, PaidInv
<1>2. GatewayInv /\ [GatewayNext]_gatewayVars => GatewayInv'
  <2> SUFFICES ASSUME GatewayInv, [GatewayNext]_gatewayVars
               PROVE  GatewayInv'
    OBVIOUS
  <2> USE DEF GatewayInv, GatewayTypeOK, SpentInv, PaidInv, Cleared, Unbilled
  <2>1. ASSUME NEW w \in Worker, GatewayCall(w) PROVE GatewayInv'
    BY <2>1, CallKeepsInv
  <2>2. ASSUME NEW p \in Prompt, ReplyExpires(p) PROVE GatewayInv'
    BY <2>2 DEF ReplyExpires, faults
  <2>3. CASE SwitchTier2
    BY <2>3 DEF SwitchTier2, faults
  <2>4. CASE Midnight
    <3>1. Cleared' = Cleared /\ Unbilled' = Unbilled
      BY <2>4 DEF Midnight
    <3> HIDE DEF Cleared, Unbilled
    <3> QED BY <2>4, <3>1, ThreadsAreFinite DEF Midnight
  <2>5. CASE UNCHANGED gatewayVars
    BY <2>5 DEF gatewayVars
  <2> QED BY <2>1, <2>2, <2>3, <2>4, <2>5 DEF GatewayNext
<1>3. GatewayInv => GatewayTypeOK /\ OverspendIsAccountedFor
  BY ThreadsAreFinite
  DEF GatewayInv, GatewayTypeOK, SpentInv, PaidInv, OverspendIsAccountedFor
<1> QED BY <1>1, <1>2, <1>3, PTL DEF GatewaySpec
-----------------------------------------------------------------------------
(* The rate limiter's shared counter.                                      *)

\* One process at most has yet to give the counter its expiry, and then the
\* counter has none.
ExpiryInv ==
    /\ \A r, s \in creator : r = s
    /\ creator # {} => hits > 0 /\ ttl = 0
    /\ hits = 0 => ttl = 0

\* The n admissions of the counter that is running, and the at most Limit of
\* the one before it, are all that a window can hold: those before the
\* running counter got its expiry are at least as old as that.
Holds(n) ==
    /\ creator = {} => n <= hits
    /\ creator # {} => n < hits /\ n < Limit
    /\ admitted[n + Limit + 1] = Window
    /\ ttl > 0 => admitted[n + 1] + ttl >= Window

AdmittedInOrder ==
    \A i, j \in 1..(2 * Limit + 1) : i <= j => admitted[i] <= admitted[j]

AdmittedInv == AdmittedInOrder /\ \E n \in 0..Limit : Holds(n)

\* What of LimiterTypeOK the argument needs; the deques are left out.
CounterTypeOK ==
    /\ hits \in 0..(Limit + 1)
    /\ ttl \in 0..Window
    /\ creator \subseteq Replica
    /\ admitted \in [1..(2 * Limit + 1) -> 0..Window]

LimiterInv == CounterTypeOK /\ ExpiryInv /\ AdmittedInv

\* An admission makes every earlier one an admission earlier.
LEMMA GrantShifts ==
    ASSUME CounterTypeOK, Grant
    PROVE  /\ admitted' \in [1..(2 * Limit + 1) -> 0..Window]
           /\ AdmittedInOrder => AdmittedInOrder'
           /\ \A n \in 0..(Limit - 1) :
                 /\ admitted'[(n + 1) + Limit + 1] = admitted[n + Limit + 1]
                 /\ admitted'[(n + 1) + 1] = admitted[n + 1]
<1> USE LimiterAssumption DEF CounterTypeOK
<1>1. admitted' = [i \in 1..(2 * Limit + 1) |->
                      IF i = 1 THEN 0 ELSE admitted[i - 1]]
  BY DEF Grant
<1>2. admitted' \in [1..(2 * Limit + 1) -> 0..Window]
  BY <1>1
<1>3. AdmittedInOrder => AdmittedInOrder'
  BY <1>1, <1>2 DEF AdmittedInOrder
<1>4. ASSUME NEW n \in 0..(Limit - 1)
      PROVE  /\ admitted'[(n + 1) + Limit + 1] = admitted[n + Limit + 1]
             /\ admitted'[(n + 1) + 1] = admitted[n + 1]
  BY <1>1
<1> QED BY <1>2, <1>3, <1>4

\* A request that changes the counter, and is admitted only if it counts
\* within the limit.
LEMMA RequestKeepsInv ==
    ASSUME LimiterInv, NEW r \in Replica,
           \/ CreateCounter(r)
           \/ CountHit(r)
           \/ CounterFails(r)
    PROVE  LimiterInv'
<1> USE LimiterAssumption DEF LimiterInv, CounterTypeOK
<1>1. PICK n \in 0..Limit : Holds(n)
  BY DEF AdmittedInv
<1>2. AdmittedInOrder
  BY DEF AdmittedInv
<1>3. CASE CreateCounter(r)
  <2>1. /\ hits = 0 /\ hits' = 1
        /\ creator = {} /\ creator' = {r}
        /\ ttl = 0 /\ UNCHANGED <<ttl, admitted>>
    BY <1>3 DEF CreateCounter, Counted, ExpiryInv
  <2>2. Holds(n)' /\ AdmittedInOrder'
    BY <1>1, <1>2, <2>1 DEF Holds, AdmittedInOrder
  <2> QED BY <2>1, <2>2 DEF ExpiryInv, AdmittedInv
<1>4. CASE CounterFails(r)
  <2>1. /\ hits' \in {hits, hits + 1} /\ hits' \in 0..(Limit + 1)
        /\ UNCHANGED <<ttl, creator, admitted>>
    BY <1>4 DEF CounterFails, Counted
  <2>2. Holds(n)' /\ AdmittedInOrder'
    BY <1>1, <1>2, <2>1 DEF Holds, AdmittedInOrder
  <2>3. ExpiryInv'
    BY <2>1 DEF ExpiryInv
  <2> QED BY <2>1, <2>2, <2>3 DEF AdmittedInv
<1>5. CASE CountHit(r)
  <2>1. /\ hits' \in {hits, hits + 1} /\ hits' \in 0..(Limit + 1) /\ hits > 0
        /\ UNCHANGED <<ttl, creator>>
        /\ UNCHANGED admitted \/ (hits' = hits + 1 /\ hits' <= Limit /\ Grant)
    BY <1>5 DEF CountHit, Counted, Allows
  <2>2. ExpiryInv'
    BY <2>1 DEF ExpiryInv
  <2>3. CASE UNCHANGED admitted
    <3>1. Holds(n)' /\ AdmittedInOrder'
      BY <1>1, <1>2, <2>1, <2>3 DEF Holds, AdmittedInOrder
    <3> QED BY <2>1, <2>2, <2>3, <3>1 DEF AdmittedInv
  <2>4. CASE hits' = hits + 1 /\ hits' <= Limit /\ Grant
    <3>1. n + 1 \in 0..Limit /\ n \in 0..(Limit - 1)
      BY <1>1, <2>4 DEF Holds
    <3>2. /\ admitted'[(n + 1) + Limit + 1] = Window
          /\ admitted'[(n + 1) + 1] = admitted[n + 1]
      BY <1>1, <2>4, <3>1, GrantShifts DEF Holds
    <3>3. Holds(n + 1)'
      BY <1>1, <2>1, <2>4, <3>2 DEF Holds
    <3> QED BY <1>2, <2>1, <2>2, <2>4, <3>1, <3>3, GrantShifts DEF AdmittedInv
  <2> QED BY <2>1, <2>3, <2>4
<1> QED BY <1>3, <1>4, <1>5

\* The process that created the counter gives it its expiry, or fails to.
LEMMA CreatorKeepsInv ==
    ASSUME LimiterInv, NEW r \in Replica, LimiterFinish(r)
    PROVE  LimiterInv'
<1> USE LimiterAssumption DEF LimiterInv, CounterTypeOK
<1>1. PICK n \in 0..Limit : Holds(n)
  BY DEF AdmittedInv
<1>2. AdmittedInOrder
  BY DEF AdmittedInv
<1>3. /\ creator # {} /\ creator' = {} /\ ttl = 0
      /\ hits > 0 /\ UNCHANGED hits
  BY DEF ExpiryInv, LimiterFinish, SetExpiry, ExpiryFails, LimiterDies
<1>4. CASE SetExpiry(r)
  <2>1. Grant /\ ttl' = Window
    BY <1>4 DEF SetExpiry
  <2>2. n + 1 \in 0..Limit
    BY <1>1, <1>3 DEF Holds
  <2>3. admitted'[(n + 1) + 1] \in 0..Window
    BY <2>1, <2>2, GrantShifts
  <2>4. admitted'[(n + 1) + Limit + 1] = Window
    BY <1>1, <2>1, <2>2, GrantShifts, SMTT(20) DEF Holds
  <2>5. Holds(n + 1)'
    BY <1>1, <1>3, <2>1, <2>3, <2>4 DEF Holds
  <2> QED BY <1>2, <1>3, <2>1, <2>2, <2>5, GrantShifts DEF ExpiryInv, AdmittedInv
<1>5. CASE ExpiryFails(r) \/ LimiterDies(r)
  <2>1. UNCHANGED <<ttl, admitted>>
    BY <1>5 DEF ExpiryFails, LimiterDies
  <2>2. Holds(n)' /\ AdmittedInOrder'
    BY <1>1, <1>2, <1>3, <2>1 DEF Holds, AdmittedInOrder
  <2> QED BY <1>3, <2>1, <2>2 DEF ExpiryInv, AdmittedInv
<1> QED BY <1>4, <1>5 DEF LimiterFinish

\* When the counter's time is over, all that was admitted before it ran is a
\* window's time ago.
LEMMA PassKeepsInv ==
    ASSUME LimiterInv, Pass
    PROVE  LimiterInv'
<1> USE LimiterAssumption DEF LimiterInv, CounterTypeOK
<1>1. PICK n \in 0..Limit : Holds(n)
  BY DEF AdmittedInv
<1>2. /\ ttl' = IF ttl > 0 THEN ttl - 1 ELSE 0
      /\ hits' = IF ttl = 1 THEN 0 ELSE hits
      /\ UNCHANGED creator
      /\ admitted' = [i \in 1..(2 * Limit + 1) |->
                         IF admitted[i] < Window THEN admitted[i] + 1 ELSE Window]
  BY DEF Pass
<1>3. CounterTypeOK'
  BY <1>2
<1>4. ExpiryInv'
  BY <1>2 DEF ExpiryInv
<1>5. AdmittedInOrder'
  BY <1>2 DEF AdmittedInv, AdmittedInOrder
<1>6. n + 1 \in 1..(2 * Limit + 1) /\ n + Limit + 1 \in 1..(2 * Limit + 1)
  OBVIOUS
<1>7. CASE ttl = 1
  <2>1. admitted'[n + 1] = Window /\ ttl' = 0 /\ hits' = 0 /\ creator' = {}
    BY <1>1, <1>2, <1>6, <1>7 DEF Holds, ExpiryInv
  <2>2. Limit + 1 \in 1..(2 * Limit + 1) /\ n + 1 <= Limit + 1
    OBVIOUS
  <2>3. admitted'[n + 1] <= admitted'[Limit + 1] /\ admitted'[Limit + 1] \in 0..Window
    BY <1>3, <1>5, <1>6, <2>2 DEF AdmittedInOrder
  <2>4. Holds(0)'
    BY <2>1, <2>3 DEF Holds
  <2> QED BY <1>3, <1>4, <1>5, <2>4 DEF AdmittedInv
<1>8. CASE ttl # 1
  <2>1. admitted'[n + Limit + 1] = Window
    BY <1>1, <1>2, <1>6 DEF Holds
  <2>2. ttl' > 0 => admitted'[n + 1] + ttl' >= Window
    BY <1>1, <1>2, <1>6, <1>8 DEF Holds
  <2>3. Holds(n)'
    BY <1>1, <1>2, <1>8, <2>1, <2>2 DEF Holds
  <2> QED BY <1>3, <1>4, <1>5, <2>3 DEF AdmittedInv
<1> QED BY <1>7, <1>8

\* For any number of replicas, any limit and any window: no window's time
\* holds more than twice the limit of what the shared counter admits.
THEOREM LimitIsShared == LimiterSpec => []SharedLimitHolds
<1> USE LimiterAssumption
<1>1. LimiterInit => LimiterInv
  <2> SUFFICES ASSUME LimiterInit PROVE LimiterInv
    OBVIOUS
  <2>1. CounterTypeOK /\ ExpiryInv
    BY DEF LimiterInit, CounterTypeOK, ExpiryInv
  <2>2. \A i \in 1..(2 * Limit + 1) : admitted[i] = Window
    BY DEF LimiterInit
  <2>3. AdmittedInv
    <3>1. Limit + 1 \in 1..(2 * Limit + 1) /\ AdmittedInOrder
      BY <2>2 DEF AdmittedInOrder
    <3>2. Holds(0)
      BY <2>2, <3>1 DEF LimiterInit, Holds
    <3> QED BY <3>1, <3>2 DEF AdmittedInv
  <2> QED BY <2>1, <2>3 DEF LimiterInv
<1>2. LimiterInv /\ [LimiterNext]_limiterVars => LimiterInv'
  <2>1. LimiterInv /\ UNCHANGED limiterVars => LimiterInv'
    BY DEF limiterVars, LimiterInv, CounterTypeOK, ExpiryInv, AdmittedInv,
           AdmittedInOrder, Holds
  <2> QED BY <2>1, RequestKeepsInv, CreatorKeepsInv, PassKeepsInv DEF LimiterNext
<1>3. LimiterInv => SharedLimitHolds
  <2> SUFFICES ASSUME LimiterInv PROVE SharedLimitHolds
    OBVIOUS
  <2>1. PICK n \in 0..Limit : Holds(n)
    BY DEF LimiterInv, AdmittedInv
  <2>2. /\ n + Limit + 1 \in 1..(2 * Limit + 1)
        /\ 2 * Limit + 1 \in 1..(2 * Limit + 1)
        /\ n + Limit + 1 <= 2 * Limit + 1
    OBVIOUS
  <2>3. Window <= admitted[2 * Limit + 1] /\ admitted[2 * Limit + 1] \in 0..Window
    BY <2>1, <2>2
       DEF Holds, LimiterInv, CounterTypeOK, AdmittedInv, AdmittedInOrder
  <2> QED BY <2>3 DEF SharedLimitHolds
<1> QED BY <1>1, <1>2, <1>3, PTL DEF LimiterSpec
=============================================================================
