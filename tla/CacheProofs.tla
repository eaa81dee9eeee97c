---------------------------- MODULE CacheProofs -----------------------------
(***************************************************************************)
(* Proofs about SingleFlight and ReadThrough for any set of callers and    *)
(* processes and any cancellations.                                        *)
(***************************************************************************)
EXTENDS ReadThrough, TLAPS

\* At most one load runs at a time, for any set of callers and cancellations.
THEOREM OneLoadAtATime == Spec => [](TypeOK /\ OneLoader)
<1>1. Init => TypeOK /\ OneLoader
  BY DEF Init, TypeOK, OneLoader, FutureState, CallState
<1>2. TypeOK /\ OneLoader /\ [Next]_flightVars => (TypeOK /\ OneLoader)'
  <2> SUFFICES ASSUME TypeOK, OneLoader, [Next]_flightVars
               PROVE  (TypeOK /\ OneLoader)'
    OBVIOUS
  <2> USE DEF TypeOK, OneLoader, FutureState, CallState
  <2>1. ASSUME NEW c \in Caller, Lead(c) PROVE (TypeOK /\ OneLoader)'
    BY <2>1 DEF Lead
  <2>2. ASSUME NEW c \in Caller, Join(c) PROVE (TypeOK /\ OneLoader)'
    BY <2>2 DEF Join
  <2>3. ASSUME NEW c \in Caller,
               LoaderReturns(c) \/ LoaderRaises(c) \/ CancelLeader(c)
        PROVE  (TypeOK /\ OneLoader)'
    BY <2>3 DEF LoaderReturns, LoaderRaises, CancelLeader, Land
  <2>4. ASSUME NEW c \in Caller, CancelWaiter(c)
        PROVE  (TypeOK /\ OneLoader)'
    BY <2>4 DEF CancelWaiter
  <2>5. ASSUME NEW c \in Caller, Resume(c) PROVE (TypeOK /\ OneLoader)'
    BY <2>5 DEF Resume, Outcome
  <2>6. CASE UNCHANGED flightVars
    BY <2>6 DEF flightVars
  <2> QED BY <2>1, <2>2, <2>3, <2>4, <2>5, <2>6 DEF Next
<1> QED BY <1>1, <1>2, PTL DEF Spec
-----------------------------------------------------------------------------
(* Outcomes.  A future that is settled stays as it is, and is told apart    *)
(* from one that was cancelled by who was cancelled.                        *)

Fresh ==
    \A c \in Caller :
        /\ call[c] = "idle" => future[c] = "none" /\ joined[c] = {}
        /\ joined[c] # {} => future[c] = "none"
        /\ \A l \in joined[c] : future[l] # "none"
        /\ call[c] = "loading" => future[c] \in {"pending", "cancelled"}

CancelledBySomeone ==
    \A l \in Caller :
        /\ future[l] = "cancel_error" => call[l] = "cancelled" /\ l \in Cancellable
        /\ future[l] = "cancelled" =>
              \E d \in Cancellable : call[d] = "cancelled" /\ l \in joined[d]

FlightInv ==
    TypeOK /\ OneLoader /\ Fresh /\ CancelledBySomeone /\ OutcomesAreReal

\* What a caller ends with is real, for any set of callers and cancellations.
THEOREM OutcomesAlwaysReal == Spec => []OutcomesAreReal
<1>1. Init => FlightInv
  BY DEF Init, FlightInv, TypeOK, OneLoader, Fresh, CancelledBySomeone,
         OutcomesAreReal, FutureState, CallState
<1>2. FlightInv /\ TypeOK' /\ OneLoader' /\ [Next]_flightVars => FlightInv'
  <2> SUFFICES ASSUME FlightInv, TypeOK', OneLoader', [Next]_flightVars
               PROVE  Fresh' /\ CancelledBySomeone' /\ OutcomesAreReal'
    BY DEF FlightInv
  <2> USE FlightAssumption DEF FlightInv, TypeOK
  <2>1. ASSUME NEW c \in Caller, Lead(c)
        PROVE  Fresh' /\ CancelledBySomeone' /\ OutcomesAreReal'
    <3> USE <2>1 DEF Lead, Fresh
    <3>1. Fresh' OBVIOUS
    <3>2. CancelledBySomeone' BY DEF CancelledBySomeone
    <3>3. OutcomesAreReal' BY DEF OutcomesAreReal
    <3> QED BY <3>1, <3>2, <3>3
  <2>2. ASSUME NEW c \in Caller, Join(c)
        PROVE  Fresh' /\ CancelledBySomeone' /\ OutcomesAreReal'
    <3> USE <2>2 DEF Join, Fresh
    <3>1. Fresh' BY DEF OneLoader
    <3>2. CancelledBySomeone' BY DEF CancelledBySomeone
    <3>3. OutcomesAreReal' BY DEF OutcomesAreReal
    <3> QED BY <3>1, <3>2, <3>3
  <2>3. ASSUME NEW c \in Caller,
               LoaderReturns(c) \/ LoaderRaises(c) \/ CancelLeader(c)
        PROVE  Fresh' /\ CancelledBySomeone' /\ OutcomesAreReal'
    <3> USE <2>3 DEF LoaderReturns, LoaderRaises, CancelLeader, Land, Fresh
    <3>1. Fresh' OBVIOUS
    <3>2. CancelledBySomeone' BY DEF CancelledBySomeone
    <3>3. OutcomesAreReal' BY DEF OutcomesAreReal, CancelledBySomeone
    <3> QED BY <3>1, <3>2, <3>3
  <2>4. ASSUME NEW c \in Caller, CancelWaiter(c)
        PROVE  Fresh' /\ CancelledBySomeone' /\ OutcomesAreReal'
    <3> USE <2>4 DEF CancelWaiter, Fresh
    <3>1. Fresh' OBVIOUS
    <3>2. CancelledBySomeone' BY DEF CancelledBySomeone
    <3>3. OutcomesAreReal' BY DEF OutcomesAreReal
    <3> QED BY <3>1, <3>2, <3>3
  <2>5. ASSUME NEW c \in Caller, Resume(c)
        PROVE  Fresh' /\ CancelledBySomeone' /\ OutcomesAreReal'
    <3> USE <2>5 DEF Resume, Outcome, Fresh
    <3>1. Fresh' OBVIOUS
    <3>2. CancelledBySomeone' BY DEF CancelledBySomeone
    <3>3. OutcomesAreReal' BY DEF OutcomesAreReal, CancelledBySomeone, FutureState
    <3> QED BY <3>1, <3>2, <3>3
  <2>6. CASE UNCHANGED flightVars
    BY <2>6 DEF flightVars, Fresh, CancelledBySomeone, OutcomesAreReal
  <2> QED BY <2>1, <2>2, <2>3, <2>4, <2>5, <2>6 DEF Next
<1>3. FlightInv => OutcomesAreReal
  BY DEF FlightInv
<1> QED BY OneLoadAtATime, <1>1, <1>2, <1>3, PTL DEF Spec
-----------------------------------------------------------------------------
\* get_or_load() uses a flight as SingleFlight allows: each of its steps is one
\* of SingleFlight or leaves the flight alone, whatever Redis, other processes
\* and the deletion do meanwhile.
THEOREM FlightsBehindTheCache == ReadThroughSpec => Spec
<1>1. ReadThroughInit => Init
  BY DEF ReadThroughInit
<1>2. [ReadThroughNext]_rtVars => [Next]_flightVars
  <2> SUFFICES ASSUME [ReadThroughNext]_rtVars PROVE [Next]_flightVars
    OBVIOUS
  <2> USE DEF flightVars
  <2>1. ASSUME NEW c \in Caller, GetOrLoad(c) PROVE [Next]_flightVars
    BY <2>1 DEF GetOrLoad, MissAndLead, MissAndJoin, LoaderReads, FillAndLand,
                LoadFails, WaiterCancelled, WaiterResumes, Next
  <2>2. ASSUME NEW r \in Reader, Get(r) PROVE [Next]_flightVars
    BY <2>2 DEF Get, ReaderMisses, ReaderReads, ReaderFills
  <2>3. CASE CreateRow \/ DeleteRow \/ DeleteReturns \/ DeleterDies
    BY <2>3 DEF CreateRow, DeleteRow, DeleteReturns, DeleterDies
  <2>4. CASE ExpireRedis \/ \E p \in Process : ExpireLocal(p)
    BY <2>4 DEF ExpireRedis, ExpireLocal
  <2>5. CASE UNCHANGED rtVars
    BY <2>5 DEF rtVars
  <2> QED BY <2>1, <2>2, <2>3, <2>4, <2>5 DEF ReadThroughNext
<1> QED BY <1>1, <1>2, PTL DEF ReadThroughSpec, Spec

\* Hence misses of the cache never run two loaders at a time in a process.
THEOREM OneLoadBehindTheCache == ReadThroughSpec => []OneLoader
BY FlightsBehindTheCache, OneLoadAtATime, PTL

\* And whoever calls get_or_load() gets what some loader returned or raised.
THEOREM OutcomesBehindTheCache == ReadThroughSpec => []OutcomesAreReal
BY FlightsBehindTheCache, OutcomesAlwaysReal, PTL

\* The local caches are used only when Redis fails.
TombstoneInv ==
    /\ fellBack \in BOOLEAN
    /\ ~fellBack => \A p \in Process : local[p] = Empty
    /\ deletion \in {"deleting", "returned"} => row = "deleted"
    /\ ~fellBack /\ deletion = "returned" => \A e \in redis : ~e.early

\* For any processes and callers: while Redis answers, delete() leaves nothing
\* in a cache that was stored before the deletion.
THEOREM NoTombstoneFromBefore == ReadThroughSpec => []NoEarlyTombstone
<1> USE ReadThroughAssumption
<1>1. ReadThroughInit => TombstoneInv
  BY DEF ReadThroughInit, TombstoneInv
<1>2. TombstoneInv /\ [ReadThroughNext]_rtVars => TombstoneInv'
  <2> SUFFICES ASSUME TombstoneInv, [ReadThroughNext]_rtVars PROVE TombstoneInv'
    OBVIOUS
  <2> USE DEF TombstoneInv, stores, loads
  <2>1. ASSUME NEW p \in Process, NEW value, CacheSet(p, value),
               UNCHANGED <<row, deletion>>
        PROVE  TombstoneInv'
    <3> DEFINE entry == [value |-> value, early |-> value = "meeting" /\ row # "deleted"]
    <3>1. PICK ok \in Answered :
             /\ ok => redis' = {entry} /\ UNCHANGED local
             /\ Note(ok)
      BY <2>1 DEF CacheSet
    <3>2. CASE ok = TRUE
      <4>1. row = "deleted" => ~entry.early
        OBVIOUS
      <4>2. redis' = {entry} /\ local' = local /\ fellBack' = fellBack
        BY <3>1, <3>2 DEF Note
      <4> HIDE DEF entry
      <4> QED BY <2>1, <4>1, <4>2
    <3>3. CASE ok = FALSE
      BY <2>1, <3>1, <3>3 DEF Note
    <3> QED BY <3>2, <3>3 DEF Answered
  <2>2. ASSUME NEW p \in Process, CacheGetMisses(p), UNCHANGED <<row, stores, deletion>>
        PROVE  TombstoneInv'
    BY <2>2 DEF CacheGetMisses, Note, Answered
  <2>3. ASSUME NEW c \in Caller, GetOrLoad(c) PROVE TombstoneInv'
    BY <2>3, <2>1, <2>2
    DEF GetOrLoad, MissAndLead, MissAndJoin, LoaderReads, FillAndLand, LoadFails,
        WaiterCancelled, WaiterResumes, Process
  <2>4. ASSUME NEW r \in Reader, Get(r) PROVE TombstoneInv'
    BY <2>4, <2>1, <2>2 DEF Get, ReaderMisses, ReaderReads, ReaderFills, Process
  <2>5. CASE CreateRow \/ DeleteRow \/ DeleterDies
    BY <2>5 DEF CreateRow, DeleteRow, DeleterDies
  <2>6. CASE DeleteReturns
    <3>1. PICK p \in Process, ok \in Answered :
             /\ ok => redis' = Empty /\ UNCHANGED local
             /\ Note(ok)
      BY <2>6 DEF DeleteReturns, CacheInvalidate
    <3>2. CASE ok = TRUE
      BY <2>6, <3>1, <3>2 DEF DeleteReturns, Note, Empty
    <3>3. CASE ok = FALSE
      BY <2>6, <3>1, <3>3 DEF DeleteReturns, Note
    <3> QED BY <3>2, <3>3 DEF Answered
  <2>7. CASE ExpireRedis \/ \E p \in Process : ExpireLocal(p)
    BY <2>7 DEF ExpireRedis, ExpireLocal, Empty
  <2>8. CASE UNCHANGED rtVars
    BY <2>8 DEF rtVars
  <2> QED BY <2>3, <2>4, <2>5, <2>6, <2>7, <2>8 DEF ReadThroughNext
<1>3. TombstoneInv => NoEarlyTombstone
  BY DEF TombstoneInv, NoEarlyTombstone, Entries, Empty
<1> QED BY <1>1, <1>2, <1>3, PTL DEF ReadThroughSpec
=============================================================================
