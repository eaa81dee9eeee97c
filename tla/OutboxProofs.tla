---------------------------- MODULE OutboxProofs ----------------------------
(***************************************************************************)
(* Proofs about Outbox and OutboxKafka for any finite set of events, any   *)
(* set of relayers and any batch size, attempt cap and replay limit.       *)
(***************************************************************************)
EXTENDS OutboxKafka, FiniteSetTheorems, TLAPS

(* The invariant, in two parts.  The first, TableInv, does not depend on   *)
(* what publish() promises; the second does.                               *)

\* What a session holds is in the table; it holds nothing between batches.
SessionInv ==
    \A r \in Relayer :
        /\ \A e \in InSession(r) : row[e] \in {"unprocessed", "processed"}
        /\ ~busy[r] => InSession(r) = {}

\* Every count of attempts, committed or still in a session, is a lower
\* bound of the publishes that really failed.
CountInv ==
    /\ \A e \in Event : attempts[e] <= failures[e]
    /\ \A r \in Relayer, e \in Event : read[r][e] <= failures[e]
    /\ \A r \in Relayer : \A e \in bumped[r] : read[r][e] + 1 <= failures[e]

TableInv ==
    /\ TypeOK
    /\ SessionInv
    /\ CountInv
    /\ NoPhantomEvent
    /\ PoisonReallyFailed

\* What a session marked was handed over, and so was what is settled.
HandedInv ==
    /\ \A r \in Relayer : marked[r] \subseteq delivered \cup dlq
    /\ NoLostEvent

OutboxInv == TableInv /\ HandedInv

\* What one iteration of the batch loop does, whoever the publisher is.
RowHandled(r, e) ==
    /\ AtRow(r, e)
    /\ Advance(r, e)
    /\ marked' \in {marked, [marked EXCEPT ![r] = @ \cup {e}]}
    /\ delivered' \in {delivered, delivered \cup {e}}
    /\ \/ UNCHANGED <<bumped, failures>>
       \/ /\ Publishable(r, e)
          /\ bumped' = [bumped EXCEPT ![r] = @ \cup {e}]
          /\ failures' = [failures EXCEPT
                             ![e] = IF @ < MaxAttempts THEN @ + 1 ELSE @]
    /\ \/ UNCHANGED dlq
       \/ Poison(r, e) /\ dlq' = dlq \cup {e}
-----------------------------------------------------------------------------
\* created_at values are numbers: only finitely many events are emitted.
LEMMA EmitOrderIsNat ==
    1 + Cardinality({f \in Event : row[f] # "none"}) \in Nat
<1>1. IsFiniteSet({f \in Event : row[f] # "none"})
  BY OutboxAssumption, FS_Subset
<1>2. Cardinality({f \in Event : row[f] # "none"}) \in Nat
  BY <1>1, FS_CardinalityType
<1> QED BY <1>2

\* The initial state satisfies the inductive invariant.
LEMMA InitInv == Init => OutboxInv
BY OutboxAssumption
   DEF Init, OutboxInv, TableInv, HandedInv, TypeOK, RowState, Unread,
       SessionInv, InSession, CountInv, NoLostEvent, NoPhantomEvent,
       PoisonReallyFailed, Settled, Committed

\* The application's steps touch only rows that no session holds.
LEMMA ApplicationKeepsInv ==
    ASSUME TableInv, NEW e \in Event,
           Emit(e) \/ CommitTransaction(e) \/ AbortTransaction(e)
    PROVE  TableInv' /\ (HandedInv => HandedInv')
<1> USE OutboxAssumption
<1>1. TypeOK'
  <2>1. CASE Emit(e)
    BY EmitOrderIsNat, <2>1 DEF TableInv, TypeOK, RowState, Emit, session, broker
  <2>2. CASE CommitTransaction(e)
    BY <2>2 DEF TableInv, TypeOK, RowState, CommitTransaction, session, broker
  <2>3. CASE AbortTransaction(e)
    BY <2>3 DEF TableInv, TypeOK, RowState, AbortTransaction, session, broker
  <2> QED BY <2>1, <2>2, <2>3
<1>2. SessionInv'
  BY DEF TableInv, TypeOK, SessionInv, InSession, Emit, CommitTransaction,
         AbortTransaction, session, broker
<1>3. CountInv'
  BY DEF TableInv, CountInv, Emit, CommitTransaction, AbortTransaction,
         session, broker
<1>4. NoPhantomEvent' /\ PoisonReallyFailed'
  BY DEF TableInv, TypeOK, NoPhantomEvent, PoisonReallyFailed, Committed,
         Emit, CommitTransaction, AbortTransaction, session, broker
<1>5. HandedInv => HandedInv'
  BY DEF TableInv, TypeOK, HandedInv, NoLostEvent, Settled, Emit,
         CommitTransaction, AbortTransaction, session, broker
<1> QED BY <1>1, <1>2, <1>3, <1>4, <1>5 DEF TableInv

\* SELECT: a batch is made of unprocessed rows, read as they are committed.
LEMMA SelectKeepsInv ==
    ASSUME TableInv, NEW r \in Relayer, SelectBatch(r)
    PROVE  TableInv' /\ (HandedInv => HandedInv')
<1> USE OutboxAssumption
<1>1. PICK B \in SUBSET Unprocessed : todo' = [todo EXCEPT ![r] = B]
  BY DEF SelectBatch, EarliestOf
<1>2. read' = [read EXCEPT ![r] = [e \in Event |->
                    IF e \in todo'[r] THEN attempts[e] ELSE 0]]
  BY DEF SelectBatch
<1>3. UNCHANGED <<row, createdAt, attempts, marked, bumped, delivered, dlq,
                  failures>>
  BY DEF SelectBatch, broker
<1>4. bumped[r] \subseteq Event /\ B \subseteq Event
  BY DEF TableInv, TypeOK, Unprocessed
<1>5. TypeOK'
  BY <1>1, <1>2, <1>3, <1>4 DEF TableInv, TypeOK, SelectBatch
<1>6. SessionInv'
  BY <1>1, <1>3
     DEF TableInv, TypeOK, SessionInv, InSession, Unprocessed, SelectBatch
<1>7. bumped[r] = {}
  BY DEF TableInv, SessionInv, InSession, SelectBatch
<1>8. CountInv'
  BY <1>1, <1>2, <1>3, <1>7 DEF TableInv, TypeOK, CountInv
<1>9. NoPhantomEvent' /\ PoisonReallyFailed' /\ (HandedInv => HandedInv')
  BY <1>3 DEF TableInv, HandedInv, NoLostEvent, NoPhantomEvent,
              PoisonReallyFailed, Settled, Committed
<1> QED BY <1>5, <1>6, <1>8, <1>9 DEF TableInv

\* One iteration of the batch loop: what is bumped failed once more, and only
\* a row read as poison goes to the DLQ.
LEMMA RowHandledKeepsTable ==
    ASSUME TableInv, NEW r \in Relayer, NEW e \in Event, RowHandled(r, e)
    PROVE  TableInv'
<1> USE OutboxAssumption DEF Advance
<1>1. /\ busy[r]
      /\ e \in todo[r]
      /\ todo' = [todo EXCEPT ![r] = @ \ {e}]
      /\ UNCHANGED <<row, createdAt, attempts, busy, read>>
  BY DEF RowHandled, AtRow
<1>2. row[e] \in {"unprocessed", "processed"}
  BY <1>1 DEF TableInv, SessionInv, InSession
<1> DEFINE Failed == /\ Publishable(r, e)
                     /\ bumped' = [bumped EXCEPT ![r] = @ \cup {e}]
                     /\ failures' = [failures EXCEPT
                           ![e] = IF @ < MaxAttempts THEN @ + 1 ELSE @]
<1>3. Failed \/ UNCHANGED <<bumped, failures>>
  BY DEF RowHandled
<1>4. \/ marked' = marked
      \/ marked' = [marked EXCEPT ![r] = @ \cup {e}]
  BY DEF RowHandled
<1>5. /\ delivered' \subseteq delivered \cup {e}
      /\ dlq' \subseteq dlq \cup {e}
  BY DEF RowHandled
<1>6. bumped' \in [Relayer -> SUBSET Event] /\ failures' \in [Event -> 0..MaxAttempts]
  <2>1. CASE Failed
    <3>1. bumped' \in [Relayer -> SUBSET Event]
      BY <2>1 DEF TableInv, TypeOK
    <3>2. failures' \in [Event -> 0..MaxAttempts]
      BY <2>1 DEF TableInv, TypeOK
    <3> QED BY <3>1, <3>2
  <2>2. CASE UNCHANGED <<bumped, failures>>
    BY <2>2 DEF TableInv, TypeOK
  <2> QED BY <1>3, <2>1, <2>2
<1>7. TypeOK'
  <2>1. delivered' \in SUBSET Event /\ dlq' \in SUBSET Event
    BY <1>5 DEF TableInv, TypeOK
  <2>2. marked' \in [Relayer -> SUBSET Event]
    BY <1>4 DEF TableInv, TypeOK
  <2> QED BY <1>1, <1>6, <2>1, <2>2 DEF TableInv, TypeOK
<1>8. SessionInv'
  BY <1>1, <1>2, <1>3, <1>4 DEF TableInv, TypeOK, SessionInv, InSession
<1>9. CountInv'
  <2>1. CASE Failed
    <3>1. read[r][e] < MaxAttempts /\ read[r][e] \in Nat
      BY <2>1 DEF TableInv, TypeOK, Publishable
    <3>2. failures[e] \in 0..MaxAttempts /\ read[r][e] <= failures[e]
      BY DEF TableInv, TypeOK, CountInv
    <3>3. failures' = [failures EXCEPT
                          ![e] = IF failures[e] < MaxAttempts
                                 THEN failures[e] + 1 ELSE failures[e]]
      BY <2>1
    <3>4. read[r][e] + 1 <= failures'[e]
      BY <3>1, <3>2, <3>3 DEF TableInv, TypeOK
    <3>5. \A f \in Event : failures[f] <= failures'[f]
      BY <3>3 DEF TableInv, TypeOK
    <3>6. \A f \in Event : failures[f] \in Int /\ failures'[f] \in Int
      BY <1>7 DEF TableInv, TypeOK
    <3>7. \A f \in Event : attempts'[f] <= failures'[f]
      BY <1>1, <3>5, <3>6 DEF TableInv, TypeOK, CountInv
    <3>8. \A q \in Relayer, f \in Event : read'[q][f] <= failures'[f]
      BY <1>1, <3>5, <3>6 DEF TableInv, TypeOK, CountInv
    <3>9. \A q \in Relayer : \A f \in bumped'[q] :
             read'[q][f] + 1 <= failures'[f]
      <4> TAKE q \in Relayer
      <4> TAKE f \in bumped'[q]
      <4>1. bumped' = [bumped EXCEPT ![r] = @ \cup {e}] /\ f \in Event
        BY <1>7, <2>1 DEF TypeOK
      <4>2. CASE q = r /\ f = e
        BY <1>1, <3>4, <4>2
      <4>3. CASE ~ (q = r /\ f = e)
        <5>1. f \in bumped[q]
          BY <4>1, <4>3 DEF TableInv, TypeOK
        <5>2. read[q][f] + 1 <= failures[f] /\ read[q][f] \in Nat
          BY <4>1, <5>1 DEF TableInv, TypeOK, CountInv
        <5> QED BY <1>1, <3>5, <3>6, <4>1, <5>2
      <4> QED BY <4>2, <4>3
    <3> QED BY <3>7, <3>8, <3>9 DEF CountInv
  <2>2. CASE UNCHANGED <<bumped, failures>>
    BY <1>1, <2>2 DEF TableInv, CountInv
  <2> QED BY <1>3, <2>1, <2>2
<1>10. NoPhantomEvent'
  BY <1>1, <1>2, <1>5 DEF TableInv, NoPhantomEvent, Committed
<1>11. PoisonReallyFailed'
  <2>1. \A f \in Event : failures[f] >= MaxAttempts => failures'[f] >= MaxAttempts
    BY <1>3, SMTT(20) DEF TableInv, TypeOK
  <2>2. \A f \in dlq : f \in Event /\ failures'[f] >= MaxAttempts
    BY <2>1 DEF TableInv, TypeOK, PoisonReallyFailed
  <2>3. CASE Poison(r, e)
    <3>1. failures[e] >= MaxAttempts
      BY <2>3 DEF TableInv, TypeOK, CountInv, Poison
    <3> QED BY <1>5, <2>1, <2>2, <3>1 DEF PoisonReallyFailed
  <2>4. CASE UNCHANGED dlq
    BY <2>2, <2>4 DEF PoisonReallyFailed
  <2> QED BY <2>3, <2>4 DEF RowHandled
<1> QED BY <1>7, <1>8, <1>9, <1>10, <1>11 DEF TableInv

\* The loop marks a row only when publish() or publish_dlq() handed it over.
LEMMA RowHandledKeepsHanded ==
    ASSUME TableInv, HandedInv, NEW r \in Relayer, NEW e \in Event,
           RowHandled(r, e),
           marked' = marked \/ e \in delivered' \cup dlq'
    PROVE  HandedInv'
<1>1. delivered \cup dlq \subseteq delivered' \cup dlq' /\ row' = row
  BY DEF RowHandled, Advance
<1>2. \A q \in Relayer : marked'[q] \subseteq delivered' \cup dlq'
  BY <1>1, SMTT(20) DEF RowHandled, HandedInv, TableInv, TypeOK
<1> QED BY <1>1, <1>2 DEF HandedInv, NoLostEvent, Settled

\* The four outcomes of a row in Outbox are iterations of that kind.
LEMMA HandleRowKeepsInv ==
    ASSUME TableInv, NEW r \in Relayer, NEW e \in Event,
           \/ PublishOk(r, e)
           \/ PublishFails(r, e)
           \/ PoisonToDLQ(r, e)
           \/ PoisonLeft(r, e)
    PROVE  TableInv' /\ (HandedInv => HandedInv')
<1>1. RowHandled(r, e)
  <2>1. CASE PublishOk(r, e)
    BY <2>1 DEF PublishOk, RowHandled, Publishable
  <2>2. CASE PublishFails(r, e)
    BY <2>2 DEF PublishFails, RowHandled, Publishable
  <2>3. CASE PoisonToDLQ(r, e)
    BY <2>3 DEF PoisonToDLQ, RowHandled, Poison
  <2>4. CASE PoisonLeft(r, e)
    BY <2>4 DEF PoisonLeft, RowHandled, Poison
  <2> QED BY <2>1, <2>2, <2>3, <2>4
<1>2. marked' = marked \/ e \in delivered' \cup dlq'
  BY DEF PublishOk, PublishFails, PoisonToDLQ, PoisonLeft
<1> QED BY <1>1, <1>2, RowHandledKeepsTable, RowHandledKeepsHanded

\* The end of a batch, by commit or by rollback: the other sessions, which
\* hold stale copies of the same rows, keep their invariant.
LEMMA EndOfBatchKeepsInv ==
    ASSUME TableInv, NEW r \in Relayer, CommitBatch(r) \/ Crash(r)
    PROVE  TableInv' /\ (HandedInv => HandedInv')
<1> USE OutboxAssumption DEF CloseSession
<1>1. /\ busy' = [busy EXCEPT ![r] = FALSE]
      /\ todo' = [todo EXCEPT ![r] = {}]
      /\ read' = [read EXCEPT ![r] = Unread]
      /\ marked' = [marked EXCEPT ![r] = {}]
      /\ bumped' = [bumped EXCEPT ![r] = {}]
      /\ UNCHANGED <<createdAt, delivered, dlq, failures>>
  BY DEF CommitBatch, Crash, broker
<1>2. \A e \in marked[r] : /\ row[e] \in {"unprocessed", "processed"}
                           /\ e \in Event
  BY DEF TableInv, TypeOK, SessionInv, InSession
<1>3. \A e \in Event : row'[e] = row[e] \/ (e \in marked[r] /\ row'[e] = "processed")
  BY DEF CommitBatch, Crash
<1>4. \A e \in bumped[r] : /\ read[r][e] + 1 <= failures[e]
                           /\ read[r][e] \in Nat
                           /\ failures[e] \in 0..MaxAttempts
  BY DEF TableInv, TypeOK, CountInv
<1>5. \A e \in Event : \/ attempts'[e] = attempts[e]
                       \/ e \in bumped[r] /\ attempts'[e] = read[r][e] + 1
  BY DEF CommitBatch, Crash
<1>6. TypeOK'
  <2>1. row' \in [Event -> RowState]
    BY DEF TableInv, TypeOK, RowState, CommitBatch, Crash
  <2>2. \A e \in Event : attempts'[e] \in 0..MaxAttempts
    BY <1>4, <1>5 DEF TableInv, TypeOK
  <2>3. attempts' \in [Event -> 0..MaxAttempts]
    BY <2>2 DEF TableInv, TypeOK, CommitBatch, Crash
  <2>4. Unread \in [Event -> 0..MaxAttempts]
    BY DEF Unread
  <2> QED BY <1>1, <2>1, <2>3, <2>4 DEF TableInv, TypeOK
<1>7. SessionInv'
  BY <1>1, <1>3 DEF TableInv, TypeOK, SessionInv, InSession
<1>8. CountInv'
  <2>1. \A e \in Event : attempts'[e] <= failures'[e]
    BY <1>1, <1>4, <1>5 DEF TableInv, CountInv
  <2>2. \A q \in Relayer, e \in Event : read'[q][e] <= failures'[e]
    BY <1>1 DEF TableInv, TypeOK, CountInv, Unread
  <2>3. \A q \in Relayer : \A e \in bumped'[q] : read'[q][e] + 1 <= failures'[e]
    BY <1>1 DEF TableInv, TypeOK, CountInv
  <2> QED BY <2>1, <2>2, <2>3 DEF CountInv
<1>9. NoPhantomEvent' /\ PoisonReallyFailed'
  BY <1>1, <1>3
     DEF TableInv, NoPhantomEvent, PoisonReallyFailed, Committed
<1>10. HandedInv => HandedInv'
  BY <1>1, <1>3 DEF TableInv, TypeOK, HandedInv, NoLostEvent, Settled
<1> QED BY <1>6, <1>7, <1>8, <1>9, <1>10 DEF TableInv

\* A replay only lowers committed counts; pruning spares the sessions' rows.
LEMMA MaintenanceKeepsInv ==
    ASSUME TableInv, ReplayStuckRows \/ PruneProcessed
    PROVE  TableInv' /\ (HandedInv => HandedInv')
<1> USE OutboxAssumption DEF session, broker
<1>1. CASE ReplayStuckRows
  <2>1. PICK S : attempts' = [e \in Event |-> IF e \in S THEN 0 ELSE attempts[e]]
    BY <1>1 DEF ReplayStuckRows
  <2>2. UNCHANGED <<row, createdAt, busy, todo, read, marked, bumped,
                    delivered, dlq, failures>>
    BY <1>1 DEF ReplayStuckRows
  <2>3. TypeOK' /\ CountInv'
    BY <2>1, <2>2 DEF TableInv, TypeOK, CountInv
  <2> QED BY <2>2, <2>3
             DEF TableInv, HandedInv, SessionInv, InSession, NoLostEvent,
                 NoPhantomEvent, PoisonReallyFailed, Settled, Committed
<1>2. CASE PruneProcessed
  <2>1. PICK S : /\ \A e \in S : /\ row[e] = "processed"
                                  /\ \A r \in Relayer : e \notin InSession(r)
                 /\ row' = [e \in Event |->
                               IF e \in S THEN "pruned" ELSE row[e]]
    BY <1>2 DEF PruneProcessed
  <2>2. UNCHANGED <<createdAt, attempts, busy, todo, read, marked, bumped,
                    delivered, dlq, failures>>
    BY <1>2 DEF PruneProcessed
  <2>3. TypeOK'
    BY <2>1, <2>2 DEF TableInv, TypeOK, RowState
  <2>4. SessionInv'
    BY <2>1, <2>2 DEF TableInv, TypeOK, SessionInv, InSession
  <2>5. NoPhantomEvent'
    BY <2>1, <2>2 DEF TableInv, TypeOK, NoPhantomEvent, Committed
  <2>6. HandedInv => HandedInv'
    BY <2>1, <2>2 DEF TableInv, TypeOK, HandedInv, NoLostEvent, Settled
  <2> QED BY <2>2, <2>3, <2>4, <2>5, <2>6
             DEF TableInv, CountInv, PoisonReallyFailed
<1> QED BY <1>1, <1>2

\* A step that leaves the outbox's variables alone keeps all of it.
LEMMA StutterKeepsInv ==
    ASSUME TableInv, UNCHANGED outboxVars
    PROVE  TableInv' /\ (HandedInv => HandedInv')
BY DEF outboxVars, TableInv, HandedInv, TypeOK, SessionInv, InSession,
       CountInv, NoLostEvent, NoPhantomEvent, PoisonReallyFailed, Settled,
       Committed

\* The conjunction is inductive: every action keeps all of it.
LEMMA NextKeepsInv == OutboxInv /\ [Next]_outboxVars => OutboxInv'
<1> SUFFICES ASSUME OutboxInv, [Next]_outboxVars PROVE OutboxInv'
  OBVIOUS
<1> USE DEF OutboxInv
<1>1. CASE Application
  BY <1>1, ApplicationKeepsInv DEF Application
<1>2. ASSUME NEW r \in Relayer, Drain(r) \/ Crash(r) PROVE OutboxInv'
  BY <1>2, SelectKeepsInv, HandleRowKeepsInv, EndOfBatchKeepsInv
     DEF Drain, HandleRow
<1>3. CASE ReplayStuckRows \/ PruneProcessed
  BY <1>3, MaintenanceKeepsInv
<1>4. CASE UNCHANGED outboxVars
  BY <1>4, StutterKeepsInv
<1> QED BY <1>1, <1>2, <1>3, <1>4 DEF Next
-----------------------------------------------------------------------------
\* The inductive invariant holds in every reachable state.
THEOREM OutboxInvariant == Spec => []OutboxInv
BY InitInv, NextKeepsInv, PTL DEF Spec

\* Every variable of the relayer and its table keeps its type, the attempt
\* counters at most MaxAttempts whatever commits and replays interleave.
THEOREM TypeCorrect == Spec => []TypeOK
<1>1. OutboxInv => TypeOK
  BY DEF OutboxInv, TableInv, HandedInv
<1> QED BY <1>1, OutboxInvariant, PTL

\* "Losing a row is not allowed" (outbox.py:25), for any number of relayers.
THEOREM NothingIsLost == Spec => []NoLostEvent
<1>1. OutboxInv => NoLostEvent
  BY DEF OutboxInv, TableInv, HandedInv
<1> QED BY <1>1, OutboxInvariant, PTL

\* An event of a transaction that did not commit never reaches a consumer.
THEOREM NothingIsInvented == Spec => []NoPhantomEvent
<1>1. OutboxInv => NoPhantomEvent
  BY DEF OutboxInv, TableInv, HandedInv
<1> QED BY <1>1, OutboxInvariant, PTL

\* The dead-letter topic gets only events that failed max_attempts times.
THEOREM PoisonIsEarned == Spec => []PoisonReallyFailed
<1>1. OutboxInv => PoisonReallyFailed
  BY DEF OutboxInv, TableInv, HandedInv
<1> QED BY <1>1, OutboxInvariant, PTL

\* No commit, crash, replay or pruning returns a settled row to the relayers.
LEMMA SettledStays ==
    ASSUME TableInv, [Next]_outboxVars, NEW e \in Settled
    PROVE  e \in Settled'
<1>1. CASE Application
  BY <1>1 DEF Application, Emit, CommitTransaction, AbortTransaction,
              Settled, TableInv, TypeOK
<1>2. ASSUME NEW r \in Relayer, Drain(r) \/ Crash(r) PROVE e \in Settled'
  BY <1>2 DEF Drain, SelectBatch, HandleRow, PublishOk, PublishFails,
              PoisonToDLQ, PoisonLeft, Advance, CommitBatch, Crash, Settled
<1>3. CASE ReplayStuckRows \/ PruneProcessed
  BY <1>3 DEF ReplayStuckRows, PruneProcessed, Settled
<1>4. CASE UNCHANGED outboxVars
  BY <1>4 DEF outboxVars, Settled
<1> QED BY <1>1, <1>2, <1>3, <1>4 DEF Next

\* A settled row stays settled.
THEOREM MarksAreFinal == Spec => MarkIsFinal
<1>1. OutboxInv /\ [Next]_outboxVars => [\A e \in Settled : e \in Settled']_outboxVars
  BY SettledStays DEF OutboxInv
<1> QED BY <1>1, OutboxInvariant, PTL DEF Spec, MarkIsFinal

\* Nothing is accepted, handed over or settled initially.
LEMMA InitKeepsPromise == Init => Promise!SpecInit
BY DEF Init, Promise!SpecInit, Committed, Settled

\* Every step accepts, hands over or settles, or does nothing of the kind.
LEMMA StepKeepsPromise ==
    ASSUME OutboxInv, [Next]_outboxVars
    PROVE  [Promise!SpecNext]_Promise!specVars
<1> USE DEF Promise!Accept, Promise!Hand, Promise!Settle, Promise!specVars
<1>1. ASSUME NEW e \in Event, Emit(e) \/ AbortTransaction(e)
      PROVE  UNCHANGED <<Committed, delivered \cup dlq, Settled>>
  BY <1>1 DEF Emit, AbortTransaction, Committed, Settled, broker, OutboxInv,
              TableInv, TypeOK
<1>2. ASSUME NEW e \in Event, CommitTransaction(e) PROVE Promise!Accept(e)
  BY <1>2 DEF CommitTransaction, Committed, Settled, broker, OutboxInv, TableInv, TypeOK
<1>3. ASSUME NEW r \in Relayer, NEW e \in Event,
             \/ PublishOk(r, e)
             \/ PublishFails(r, e)
             \/ PoisonToDLQ(r, e)
             \/ PoisonLeft(r, e)
      PROVE  Promise!Hand(e) \/ UNCHANGED Promise!specVars
  <2>1. e \in Committed
    BY <1>3 DEF PublishOk, PublishFails, PoisonToDLQ, PoisonLeft,
                Publishable, Poison, AtRow, OutboxInv, TableInv, SessionInv, InSession,
                Committed
  <2>2. UNCHANGED <<Committed, Settled>>
    BY <1>3 DEF PublishOk, PublishFails, PoisonToDLQ, PoisonLeft, Advance,
                Committed, Settled
  <2>3. \/ delivered' \cup dlq' = delivered \cup dlq
        \/ delivered' \cup dlq' = (delivered \cup dlq) \cup {e}
    BY <1>3 DEF PublishOk, PublishFails, PoisonToDLQ, PoisonLeft
  <2> QED BY <2>1, <2>2, <2>3
<1>4. ASSUME NEW r \in Relayer, CommitBatch(r)
      PROVE  Promise!Settle(marked[r])
  <2>1. /\ marked[r] \subseteq delivered \cup dlq
        /\ marked[r] \subseteq Committed
        /\ marked[r] \subseteq Event
    BY DEF OutboxInv, TableInv, HandedInv, TypeOK, SessionInv, InSession,
           Committed
  <2>2. Committed' = Committed /\ Settled' = Settled \cup marked[r]
    BY <1>4, <2>1 DEF CommitBatch, Committed, Settled
  <2> QED BY <1>4, <2>1, <2>2 DEF CommitBatch, broker
<1>5. ASSUME NEW r \in Relayer, SelectBatch(r) \/ Crash(r)
      PROVE  UNCHANGED Promise!specVars
  BY <1>5 DEF SelectBatch, Crash, broker, Committed, Settled
<1>6. CASE ReplayStuckRows \/ PruneProcessed
  <2>1. UNCHANGED <<Committed, Settled, delivered, dlq>>
    BY <1>6 DEF ReplayStuckRows, PruneProcessed, broker, Committed, Settled
  <2> QED BY <2>1
<1>7. CASE UNCHANGED outboxVars
  BY <1>7 DEF outboxVars, Committed, Settled
<1>8. \A r \in Relayer : marked[r] \in SUBSET Event
  BY DEF OutboxInv, TableInv, TypeOK
<1> QED BY <1>1, <1>2, <1>3, <1>4, <1>5, <1>6, <1>7, <1>8
           DEF Next, Application, Drain, HandleRow, Promise!SpecNext

\* The relayer implements the at-least-once promise of OutboxSpec.
THEOREM OutboxKeepsPromise == Spec => ImplementsPromise
<1>1. OutboxInv /\ [Next]_outboxVars => [Promise!SpecNext]_Promise!specVars
  BY StepKeepsPromise
<1> QED BY <1>1, InitKeepsPromise, OutboxInvariant, PTL
           DEF Spec, ImplementsPromise, Promise!AtLeastOnce
-----------------------------------------------------------------------------
(* The relayer with the publisher of outbox_kafka.py.                      *)

\* publish() waits for the row the loop is at, and a producer queues only
\* messages of committed rows.  This part holds even if flush() times out.
WaitInv ==
    /\ KafkaTypeOK
    /\ \A r \in Relayer : queue[r] \subseteq Committed
    /\ \A r \in Relayer : \A e \in flushing[r] :
          flushing[r] = {e} /\ Publishable(r, e)

\* The message publish() waits for is in the queue, or has been stored, or
\* has been reported as failed.  This part needs flush() to wait.
AckInv ==
    /\ ReportsAreOwn
    /\ \A r \in Relayer : \A e \in flushing[r] :
          e \in queue[r] \/ e \in delivered \/ failure[r]

\* Initially every producer is idle.
LEMMA KafkaInitInv == KafkaInit => TableInv /\ HandedInv /\ WaitInv /\ AckInv
<1> SUFFICES ASSUME KafkaInit PROVE TableInv /\ HandedInv /\ WaitInv /\ AckInv
  OBVIOUS
<1>1. TableInv /\ HandedInv
  BY InitInv DEF KafkaInit, OutboxInv
<1>2. WaitInv /\ AckInv
  BY <1>1 DEF KafkaInit, TableInv, WaitInv, AckInv, KafkaTypeOK, ReportsAreOwn
<1> QED BY <1>1, <1>2

\* A row once committed stays committed, whatever the outbox does.
LEMMA CommittedGrows ==
    ASSUME TableInv, RestOfOutbox \/ \E r \in Relayer : Crash(r)
    PROVE  Committed \subseteq Committed'
<1>1. CASE Application
  BY <1>1 DEF Application, Emit, CommitTransaction, AbortTransaction,
              Committed, TableInv, TypeOK
<1>2. ASSUME NEW r \in Relayer, SelectBatch(r) \/ CommitBatch(r) \/ Crash(r)
      PROVE  Committed \subseteq Committed'
  BY <1>2 DEF SelectBatch, CommitBatch, Crash, Committed
<1>3. ASSUME NEW r \in Relayer, NEW e \in Event,
             PoisonToDLQ(r, e) \/ PoisonLeft(r, e)
      PROVE  Committed \subseteq Committed'
  BY <1>3 DEF PoisonToDLQ, PoisonLeft, Advance, Committed
<1>4. CASE ReplayStuckRows \/ PruneProcessed
  BY <1>4 DEF ReplayStuckRows, PruneProcessed, Committed
<1> QED BY <1>1, <1>2, <1>3, <1>4 DEF RestOfOutbox

\* While publish() waits, no step of another process moves the loop off its
\* row, and no step of its own process does anything but wait or die.
LEMMA RestKeepsPlace ==
    ASSUME TableInv, WaitInv, RestOfOutbox,
           NEW q \in Relayer, NEW e \in flushing[q]
    PROVE  Publishable(q, e)'
<1>1. /\ e \in Event
      /\ e \in todo[q]
      /\ busy[q]
      /\ read[q][e] < MaxAttempts
      /\ \A f \in todo[q] : createdAt[e] <= createdAt[f]
  BY DEF WaitInv, KafkaTypeOK, Publishable, AtRow
<1>2. \A f \in todo[q] : f \in Event /\ row[f] \in {"unprocessed", "processed"}
  BY DEF TableInv, TypeOK, SessionInv, InSession
<1>3. CASE Application
  <2>1. PICK f \in Event : Emit(f) \/ CommitTransaction(f) \/ AbortTransaction(f)
    BY <1>3 DEF Application
  <2>2. \A g \in todo[q] : createdAt'[g] = createdAt[g]
    BY <1>2, <2>1
       DEF Emit, CommitTransaction, AbortTransaction, TableInv, TypeOK
  <2> QED BY <1>1, <2>1, <2>2
             DEF Emit, CommitTransaction, AbortTransaction, session,
                 Publishable, AtRow
<1>4. ASSUME NEW r \in Relayer, SelectBatch(r) \/ CommitBatch(r)
      PROVE  Publishable(q, e)'
  <2>1. r # q
    BY <1>1, <1>4 DEF SelectBatch, CommitBatch
  <2> QED BY <1>1, <1>4, <2>1
             DEF SelectBatch, CommitBatch, CloseSession, TableInv, TypeOK,
                 Publishable, AtRow
<1>5. ASSUME NEW r \in Relayer, NEW f \in Event,
             PoisonToDLQ(r, f) \/ PoisonLeft(r, f)
      PROVE  Publishable(q, e)'
  <2>1. /\ todo' = [todo EXCEPT ![r] = @ \ {f}]
        /\ UNCHANGED <<createdAt, busy, read>>
        /\ read[r][f] >= MaxAttempts
    BY <1>5 DEF PoisonToDLQ, PoisonLeft, Advance, Poison
  <2>2. ~ (q = r /\ e = f)
    BY <1>1, <2>1, OutboxAssumption DEF TableInv, TypeOK
  <2>3. todo'[q] \subseteq todo[q] /\ e \in todo'[q]
    BY <1>1, <2>1, <2>2 DEF TableInv, TypeOK
  <2> QED BY <1>1, <2>1, <2>3 DEF Publishable, AtRow
<1>6. CASE ReplayStuckRows \/ PruneProcessed
  BY <1>1, <1>6 DEF ReplayStuckRows, PruneProcessed, session, Publishable, AtRow
<1> QED BY <1>3, <1>4, <1>5, <1>6 DEF RestOfOutbox

\* The steps that do not call the primary publisher.
LEMMA RestKeepsKafka ==
    ASSUME TableInv, WaitInv, RestOfOutbox
    PROVE  /\ TableInv' /\ WaitInv'
           /\ HandedInv => HandedInv'
           /\ AckInv => AckInv'
<1>1. TableInv' /\ (HandedInv => HandedInv')
  BY ApplicationKeepsInv, SelectKeepsInv, EndOfBatchKeepsInv,
     HandleRowKeepsInv, MaintenanceKeepsInv
     DEF RestOfOutbox, Application
<1>2. UNCHANGED producer
  BY DEF RestOfOutbox
<1>3. WaitInv'
  <2>1. KafkaTypeOK'
    BY <1>1, <1>2 DEF WaitInv, KafkaTypeOK, TableInv, producer
  <2>2. \A r \in Relayer : queue'[r] \subseteq Committed'
    BY <1>2, CommittedGrows DEF WaitInv, producer
  <2>3. \A r \in Relayer : \A e \in flushing'[r] :
           flushing'[r] = {e} /\ Publishable(r, e)'
    BY <1>2, RestKeepsPlace DEF WaitInv, producer
  <2> QED BY <2>1, <2>2, <2>3 DEF WaitInv
<1>4. delivered \subseteq delivered'
  BY DEF RestOfOutbox, Application, Emit, CommitTransaction, AbortTransaction,
         SelectBatch, CommitBatch, PoisonToDLQ, PoisonLeft, ReplayStuckRows,
         PruneProcessed, broker
<1>5. AckInv => AckInv'
  BY <1>2, <1>4 DEF AckInv, ReportsAreOwn, producer
<1> QED BY <1>1, <1>3, <1>5

\* publish() up to flush(), and the library's part while it waits.
LEMMA WaitingKeepsKafka ==
    ASSUME TableInv, WaitInv, NEW r \in Relayer, NEW e \in Event,
           \/ Produce(r, e)
           \/ BrokerStores(r, e)
           \/ AckReport(r, e)
           \/ FailReport(r, e)
    PROVE  /\ TableInv' /\ WaitInv'
           /\ HandedInv => HandedInv'
           /\ AckInv => AckInv'
<1>1. CASE BrokerStores(r, e)
  <2>1. /\ delivered' = delivered \cup {e}
        /\ UNCHANGED <<row, createdAt, attempts, busy, todo, read, marked,
                       bumped, dlq, failures, queue, flushing, failure>>
        /\ e \in Committed
    BY <1>1 DEF BrokerStores, session, producer, WaitInv
  <2>2. TableInv'
    BY <2>1 DEF TableInv, TypeOK, SessionInv, InSession, CountInv,
                NoPhantomEvent, PoisonReallyFailed, Committed
  <2>3. WaitInv'
    BY <2>1, <2>2 DEF WaitInv, KafkaTypeOK, TableInv, Committed, Publishable, AtRow
  <2>4. /\ HandedInv => HandedInv'
        /\ AckInv => AckInv'
    BY <2>1 DEF HandedInv, NoLostEvent, Settled, AckInv, ReportsAreOwn
  <2> QED BY <2>2, <2>3, <2>4
<1>2. CASE Produce(r, e) \/ AckReport(r, e) \/ FailReport(r, e)
  <2>1. UNCHANGED outboxVars
    BY <1>2 DEF Produce, AckReport, FailReport
  <2>2. TableInv' /\ (HandedInv => HandedInv')
    BY <2>1, StutterKeepsInv
  <2>3. UNCHANGED Committed /\ \A q \in Relayer, f \in Event :
                                  Publishable(q, f) => Publishable(q, f)'
    BY <2>1 DEF outboxVars, Committed, Publishable, AtRow
  <2>4. CASE Produce(r, e)
    <3>1. /\ queue' = [queue EXCEPT ![r] = @ \cup {e}]
          /\ flushing' = [flushing EXCEPT ![r] = {e}]
          /\ failure' = [failure EXCEPT ![r] = FALSE]
          /\ Publishable(r, e)
      BY <2>4 DEF Produce
    <3>2. flushing[r] = {}
      BY <2>4 DEF Produce
    <3>3. e \in Committed
      BY <3>1 DEF Publishable, AtRow, TableInv, SessionInv, InSession, Committed
    <3>4. KafkaTypeOK'
      BY <2>2, <3>1 DEF WaitInv, KafkaTypeOK, TableInv
    <3>5. WaitInv'
      BY <2>3, <3>1, <3>3, <3>4 DEF WaitInv, KafkaTypeOK
    <3>6. AckInv => AckInv'
      BY <2>1, <3>1, <3>2
         DEF AckInv, ReportsAreOwn, WaitInv, KafkaTypeOK, outboxVars
    <3> QED BY <2>2, <3>5, <3>6
  <2>5. CASE AckReport(r, e) \/ FailReport(r, e)
    <3>1. /\ queue' = [queue EXCEPT ![r] = @ \ {e}]
          /\ failure' \in {failure, [failure EXCEPT ![r] = TRUE]}
          /\ UNCHANGED flushing
          /\ e \in delivered \/ failure' = [failure EXCEPT ![r] = TRUE]
      BY <2>5 DEF AckReport, FailReport
    <3>2. KafkaTypeOK'
      BY <2>2, <3>1 DEF WaitInv, KafkaTypeOK, TableInv
    <3>3. WaitInv'
      BY <2>3, <3>1, <3>2 DEF WaitInv, KafkaTypeOK
    <3>4. AckInv => AckInv'
      BY <2>1, <3>1 DEF AckInv, ReportsAreOwn, WaitInv, KafkaTypeOK, outboxVars
    <3> QED BY <2>2, <3>3, <3>4
  <2> QED BY <1>2, <2>4, <2>5
<1> QED BY <1>1, <1>2

\* The end of publish().  A row is marked only if flush() waited until the
\* queue was empty and no report was a failure: then the brokers have it.
LEMMA PublishEndKeepsKafka ==
    ASSUME TableInv, WaitInv, NEW r \in Relayer, NEW e \in Event,
           \/ ProduceRaises(r, e)
           \/ PublishRaises(r, e)
           \/ PublishReturns(r, e)
    PROVE  /\ TableInv' /\ WaitInv'
           /\ ~FlushMayTimeOut /\ AckInv => AckInv'
           /\ ~FlushMayTimeOut /\ AckInv /\ HandedInv => HandedInv'
<1> USE DEF Advance
<1>1. Publishable(r, e) /\ flushing[r] \subseteq {e}
  BY DEF ProduceRaises, PublishRaises, PublishReturns, WaitInv
<1>2. RowHandled(r, e)
  <2>1. CASE ProduceRaises(r, e) \/ PublishRaises(r, e)
    BY <1>1, <2>1 DEF ProduceRaises, PublishRaises, RowHandled, Publishable
  <2>2. CASE PublishReturns(r, e)
    BY <1>1, <2>2 DEF PublishReturns, RowHandled, Publishable, broker
  <2> QED BY <2>1, <2>2
<1>3. TableInv'
  BY <1>2, RowHandledKeepsTable
<1>4. /\ UNCHANGED <<row, createdAt, busy, read, delivered, dlq, queue>>
      /\ todo' = [todo EXCEPT ![r] = @ \ {e}]
      /\ flushing' = [flushing EXCEPT ![r] = {}]
      /\ failure' \in {failure, [failure EXCEPT ![r] = FALSE]}
  <2>1. CASE ProduceRaises(r, e)
    <3>1. flushing = [flushing EXCEPT ![r] = {}]
      BY <2>1 DEF ProduceRaises, WaitInv, KafkaTypeOK
    <3> QED BY <2>1, <3>1 DEF ProduceRaises
  <2>2. CASE PublishRaises(r, e)
    BY <2>2 DEF PublishRaises
  <2>3. CASE PublishReturns(r, e)
    BY <2>3 DEF PublishReturns, broker
  <2> QED BY <2>1, <2>2, <2>3
<1>5. WaitInv'
  <2>1. KafkaTypeOK'
    BY <1>3, <1>4 DEF WaitInv, KafkaTypeOK, TableInv
  <2>2. UNCHANGED Committed
    BY <1>4 DEF Committed
  <2>3. \A q \in Relayer : \A f \in flushing'[q] :
           flushing'[q] = {f} /\ Publishable(q, f)'
    <3> SUFFICES ASSUME NEW q \in Relayer, NEW f \in flushing'[q]
                 PROVE  flushing'[q] = {f} /\ Publishable(q, f)'
      OBVIOUS
    <3>1. q # r /\ f \in flushing[q]
      BY <1>4 DEF WaitInv, KafkaTypeOK
    <3>2. todo'[q] = todo[q] /\ flushing'[q] = flushing[q]
      BY <1>4, <3>1 DEF TableInv, TypeOK, WaitInv, KafkaTypeOK
    <3> QED BY <1>4, <3>1, <3>2 DEF WaitInv, Publishable, AtRow
  <2> QED BY <1>4, <2>1, <2>2, <2>3 DEF WaitInv
<1>6. AckInv /\ ~FlushMayTimeOut => AckInv'
  <2> SUFFICES ASSUME AckInv, ~FlushMayTimeOut PROVE AckInv'
    OBVIOUS
  <2>1. queue[r] = {}
    BY DEF ProduceRaises, PublishRaises, PublishReturns, FlushDone, AckInv,
           ReportsAreOwn
  <2> QED BY <1>4, <2>1 DEF AckInv, ReportsAreOwn, WaitInv, KafkaTypeOK
<1>7. ~FlushMayTimeOut /\ AckInv /\ HandedInv => HandedInv'
  <2> SUFFICES ASSUME ~FlushMayTimeOut, AckInv, HandedInv PROVE HandedInv'
    OBVIOUS
  <2>1. marked' = marked \/ e \in delivered
    BY DEF ProduceRaises, PublishRaises, PublishReturns, FlushDone, AckInv
  <2> QED BY <1>2, <1>4, <2>1, RowHandledKeepsHanded
<1> QED BY <1>3, <1>5, <1>6, <1>7

\* A process that dies takes its producer's queue along; a commit that raises
\* leaves an idle producer as it is.
LEMMA DeathKeepsKafka ==
    ASSUME TableInv, WaitInv, NEW r \in Relayer,
           ProcessDies(r) \/ CommitFails(r)
    PROVE  /\ TableInv' /\ WaitInv'
           /\ HandedInv => HandedInv'
           /\ AckInv => AckInv'
<1>1. TableInv' /\ (HandedInv => HandedInv')
  BY EndOfBatchKeepsInv, StutterKeepsInv DEF ProcessDies, CommitFails
<1>2. /\ \/ UNCHANGED producer /\ todo[r] = {}
         \/ /\ queue' = [queue EXCEPT ![r] = {}]
            /\ flushing' = [flushing EXCEPT ![r] = {}]
            /\ failure' = [failure EXCEPT ![r] = FALSE]
      /\ Crash(r) \/ UNCHANGED outboxVars
  BY DEF ProcessDies, CommitFails
<1>3. UNCHANGED <<row, createdAt, delivered>>
  BY <1>2 DEF Crash, outboxVars, broker
<1>4. KafkaTypeOK'
  BY <1>1, <1>2 DEF WaitInv, KafkaTypeOK, TableInv, producer
<1>5. \A q \in Relayer : q # r =>
         /\ UNCHANGED <<busy[q], todo[q], read[q]>>
         /\ UNCHANGED <<queue[q], flushing[q], failure[q]>>
  BY <1>2 DEF Crash, CloseSession, outboxVars, producer, WaitInv, KafkaTypeOK,
              TableInv, TypeOK
<1>6. flushing'[r] = {}
  BY <1>2 DEF WaitInv, KafkaTypeOK, Publishable, AtRow, producer
<1>7. queue'[r] \subseteq queue[r]
  BY <1>2 DEF WaitInv, KafkaTypeOK, producer
<1>8. WaitInv'
  <2>1. \A q \in Relayer : queue'[q] \subseteq Committed'
    BY <1>3, <1>5, <1>7 DEF WaitInv, Committed
  <2>2. \A q \in Relayer : \A e \in flushing'[q] :
           flushing'[q] = {e} /\ Publishable(q, e)'
    BY <1>3, <1>5, <1>6 DEF WaitInv, Publishable, AtRow
  <2> QED BY <1>4, <2>1, <2>2 DEF WaitInv
<1>9. AckInv => AckInv'
  <2>1. AckInv => queue'[r] = {}
    BY <1>2, <1>7
       DEF AckInv, ReportsAreOwn, WaitInv, KafkaTypeOK, Publishable, AtRow
  <2> QED BY <1>3, <1>5, <1>6, <2>1 DEF AckInv, ReportsAreOwn
<1> QED BY <1>1, <1>8, <1>9

\* A step that changes nothing.
LEMMA KafkaStutter ==
    ASSUME TableInv, WaitInv, UNCHANGED kafkaVars
    PROVE  /\ TableInv' /\ WaitInv'
           /\ HandedInv => HandedInv'
           /\ AckInv => AckInv'
<1>1. UNCHANGED outboxVars /\ UNCHANGED producer
  BY DEF kafkaVars
<1>2. TableInv' /\ (HandedInv => HandedInv')
  BY <1>1, StutterKeepsInv
<1>3. UNCHANGED <<Committed, delivered>> /\ \A q \in Relayer, f \in Event :
                                 Publishable(q, f) => Publishable(q, f)'
  BY <1>1 DEF outboxVars, Committed, Publishable, AtRow
<1> QED BY <1>1, <1>2, <1>3
           DEF WaitInv, AckInv, KafkaTypeOK, ReportsAreOwn, TableInv, producer

\* Both parts are inductive, the second while flush() waits long enough.
LEMMA KafkaNextKeepsInv ==
    ASSUME TableInv, WaitInv, [KafkaNext]_kafkaVars
    PROVE  /\ TableInv' /\ WaitInv'
           /\ ~FlushMayTimeOut /\ HandedInv /\ AckInv => HandedInv' /\ AckInv'
<1>1. ASSUME NEW r \in Relayer, NEW e \in Event,
             \/ Produce(r, e)
             \/ BrokerStores(r, e)
             \/ AckReport(r, e)
             \/ FailReport(r, e)
      PROVE  /\ TableInv' /\ WaitInv'
             /\ HandedInv /\ AckInv => HandedInv' /\ AckInv'
  BY <1>1, WaitingKeepsKafka
<1>2. ASSUME NEW r \in Relayer, NEW e \in Event,
             \/ ProduceRaises(r, e)
             \/ PublishRaises(r, e)
             \/ PublishReturns(r, e)
      PROVE  /\ TableInv' /\ WaitInv'
             /\ ~FlushMayTimeOut /\ HandedInv /\ AckInv => HandedInv' /\ AckInv'
  BY <1>2, PublishEndKeepsKafka
<1>3. ASSUME NEW r \in Relayer, ProcessDies(r) \/ CommitFails(r)
      PROVE  /\ TableInv' /\ WaitInv'
             /\ HandedInv /\ AckInv => HandedInv' /\ AckInv'
  BY <1>3, DeathKeepsKafka
<1> QED BY <1>1, <1>2, <1>3, RestKeepsKafka, KafkaStutter
           DEF KafkaNext, Delivery

\* What the Kafka publisher adds to a step is a step of Outbox or nothing,
\* except that the brokers store a message before its report arrives.
LEMMA KafkaStepsAreOutboxSteps ==
    ASSUME TableInv, WaitInv, [KafkaNext]_kafkaVars
    PROVE  \/ [Next]_outboxVars
           \/ \E r \in Relayer, e \in Event : BrokerStores(r, e)
           \/ \E r \in Relayer, e \in Event : PublishReturns(r, e)
<1>1. RestOfOutbox => Next
  BY DEF RestOfOutbox, Next, Drain, HandleRow
<1>2. ASSUME NEW r \in Relayer, NEW e \in Event,
             ProduceRaises(r, e) \/ PublishRaises(r, e)
      PROVE  Next
  <2>1. Publishable(r, e)
    BY <1>2 DEF ProduceRaises, PublishRaises, WaitInv
  <2>2. PublishFails(r, e)
    BY <1>2, <2>1 DEF ProduceRaises, PublishRaises, PublishFails
  <2> QED BY <2>2 DEF Next, Drain, HandleRow
<1>3. ASSUME NEW r \in Relayer, ProcessDies(r) \/ CommitFails(r)
      PROVE  [Next]_outboxVars
  BY <1>3 DEF ProcessDies, CommitFails, Next
<1>4. ASSUME NEW r \in Relayer, NEW e \in Event,
             Produce(r, e) \/ AckReport(r, e) \/ FailReport(r, e)
      PROVE  UNCHANGED outboxVars
  BY <1>4 DEF Produce, AckReport, FailReport
<1>5. UNCHANGED kafkaVars => UNCHANGED outboxVars
  BY DEF kafkaVars
<1> QED BY <1>1, <1>2, <1>3, <1>4, <1>5 DEF KafkaNext, Delivery

\* With the reports its own, publish() returns only for a stored event.
LEMMA PublishReturnsIsOk ==
    ASSUME TableInv, WaitInv, AckInv, ~FlushMayTimeOut,
           NEW r \in Relayer, NEW e \in Event, PublishReturns(r, e)
    PROVE  PublishOk(r, e)
<1>1. Publishable(r, e) /\ e \in delivered
  BY DEF PublishReturns, FlushDone, WaitInv, AckInv
<1> QED BY <1>1 DEF PublishReturns, PublishOk, broker
-----------------------------------------------------------------------------
\* The two parts together, as the invariant of KafkaSpec.
KafkaInv == TableInv /\ WaitInv
KafkaOwnInv == KafkaInv /\ HandedInv /\ AckInv

\* Whatever flush() does, a relayer waits for the row it is at, and what its
\* producer holds is committed.
THEOREM KafkaInvariant == KafkaSpec => []KafkaInv
<1>1. KafkaInit => KafkaInv
  BY KafkaInitInv DEF KafkaInv
<1>2. KafkaInv /\ [KafkaNext]_kafkaVars => KafkaInv'
  BY KafkaNextKeepsInv DEF KafkaInv
<1> QED BY <1>1, <1>2, PTL DEF KafkaSpec

\* When flush() outlasts the delivery timeout, the whole of it is inductive.
THEOREM KafkaOwnInvariant ==
    ASSUME ~FlushMayTimeOut
    PROVE  KafkaSpec => []KafkaOwnInv
<1>1. KafkaInit => KafkaOwnInv
  BY KafkaInitInv DEF KafkaOwnInv, KafkaInv
<1>2. KafkaOwnInv /\ [KafkaNext]_kafkaVars => KafkaOwnInv'
  BY KafkaNextKeepsInv DEF KafkaOwnInv, KafkaInv
<1> QED BY <1>1, <1>2, PTL DEF KafkaSpec

\* A failure that publish() raises is that of its own event (outbox_kafka.py,
\* lines 86-116), for any number of relayers sharing the rows.
THEOREM FailuresAreOwn ==
    ASSUME ~FlushMayTimeOut
    PROVE  KafkaSpec => []ReportsAreOwn
<1>1. KafkaOwnInv => ReportsAreOwn
  BY DEF KafkaOwnInv, AckInv
<1> QED BY <1>1, KafkaOwnInvariant, PTL

\* "Losing a row is not allowed" (outbox.py:25) with the Kafka publisher: a
\* settled event is in a topic if flush() outlasts the delivery timeout.
THEOREM KafkaLosesNothing ==
    ASSUME ~FlushMayTimeOut
    PROVE  KafkaSpec => []NoLostEvent
<1>1. KafkaOwnInv => NoLostEvent
  BY DEF KafkaOwnInv, HandedInv
<1> QED BY <1>1, KafkaOwnInvariant, PTL

\* Even if flush() times out, no event of a transaction that did not commit
\* reaches a topic, though messages outlive their batches in the producer.
THEOREM KafkaInventsNothing == KafkaSpec => []NoPhantomEvent
<1>1. KafkaInv => NoPhantomEvent
  BY DEF KafkaInv, TableInv
<1> QED BY <1>1, KafkaInvariant, PTL

\* Even if flush() times out, the dead-letter topic gets only events whose
\* publish() raised max_attempts times.
THEOREM KafkaPoisonIsEarned == KafkaSpec => []PoisonReallyFailed
<1>1. KafkaInv => PoisonReallyFailed
  BY DEF KafkaInv, TableInv
<1> QED BY <1>1, KafkaInvariant, PTL

\* Even if flush() times out, a settled row never returns to the relayers.
THEOREM KafkaMarksAreFinal == KafkaSpec => MarkIsFinal
<1>1. KafkaInv /\ [KafkaNext]_kafkaVars
         => [\A e \in Settled : e \in Settled']_outboxVars
  <2> SUFFICES ASSUME KafkaInv, [KafkaNext]_kafkaVars, NEW e \in Settled
               PROVE  e \in Settled' \/ UNCHANGED outboxVars
    BY DEF outboxVars
  <2>1. ASSUME NEW r \in Relayer, NEW f \in Event,
               BrokerStores(r, f) \/ PublishReturns(r, f)
        PROVE  e \in Settled'
    BY <2>1 DEF BrokerStores, PublishReturns, Advance, Settled
  <2> QED BY <2>1, KafkaStepsAreOutboxSteps, SettledStays DEF KafkaInv
<1> QED BY <1>1, KafkaInvariant, PTL DEF KafkaSpec, MarkIsFinal

\* The relayer with the Kafka publisher still implements the at-least-once
\* promise of OutboxSpec, if flush() outlasts the delivery timeout.
THEOREM KafkaKeepsPromise ==
    ASSUME ~FlushMayTimeOut
    PROVE  KafkaSpec => ImplementsPromise
<1>1. KafkaInit => Promise!SpecInit
  BY InitKeepsPromise DEF KafkaInit
<1>2. KafkaOwnInv /\ [KafkaNext]_kafkaVars => [Promise!SpecNext]_Promise!specVars
  <2> SUFFICES ASSUME KafkaOwnInv, [KafkaNext]_kafkaVars
               PROVE  [Promise!SpecNext]_Promise!specVars
    OBVIOUS
  <2> USE DEF KafkaOwnInv, KafkaInv
  <2>1. CASE [Next]_outboxVars
    BY <2>1, StepKeepsPromise DEF OutboxInv
  <2>2. ASSUME NEW r \in Relayer, NEW e \in Event, BrokerStores(r, e)
        PROVE  Promise!Hand(e)
    BY <2>2 DEF BrokerStores, WaitInv, Promise!Hand, Committed, Settled
  <2>3. ASSUME NEW r \in Relayer, NEW e \in Event, PublishReturns(r, e)
        PROVE  Next
    BY <2>3, PublishReturnsIsOk DEF Next, Drain, HandleRow
  <2> QED BY <2>1, <2>2, <2>3, StepKeepsPromise, KafkaStepsAreOutboxSteps
             DEF OutboxInv, Promise!SpecNext
<1> QED BY <1>1, <1>2, KafkaOwnInvariant, PTL
           DEF KafkaSpec, ImplementsPromise, Promise!AtLeastOnce
=============================================================================
