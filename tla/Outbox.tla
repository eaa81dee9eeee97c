------------------------------- MODULE Outbox -------------------------------
(***************************************************************************)
(* The transactional outbox and its relayers: api/outbox.py, table         *)
(* outbox_events of src/models_db.py, and the emitting transaction of      *)
(* api/admin/gdpr.py.                                                      *)
(*                                                                         *)
(* A transaction inserts an event row; a relayer's drain_once() reads a    *)
(* batch of unprocessed rows into its ORM session, publishes them one by   *)
(* one, and commits the marks and the attempt counters of the whole batch  *)
(* at its end.  Nothing locks the rows: other relayers, an operator's      *)
(* replay and the reaper run between any two steps of a batch.             *)
(***************************************************************************)
EXTENDS Integers, FiniteSets

CONSTANTS
    Event,        \* the events that may be emitted
    Relayer,      \* relayer processes, each running run_forever()
    BatchSize,    \* Relayer.batch_size
    MaxAttempts,  \* Relayer.max_attempts
    StuckCap,     \* max_attempts of count_stuck_rows() and replay_stuck_rows()
    ReplayLimit,  \* limit of replay_stuck_rows()
    HasDLQ        \* whether the publisher has publish_dlq()

ASSUME OutboxAssumption ==
    /\ IsFiniteSet(Event)
    /\ BatchSize \in Nat \ {0}
    /\ MaxAttempts \in Nat \ {0}
    /\ StuckCap \in Nat \ {0}
    /\ ReplayLimit \in Nat \ {0}
    /\ HasDLQ \in BOOLEAN

VARIABLES
    row,        \* row[e]: where e stands in the table, see RowState
    createdAt,  \* created_at of e's row, as the order of the emits
    attempts,   \* delivery_attempts of e's row, as committed
    busy,       \* busy[r]: r is inside drain_once(), its session open
    todo,       \* todo[r]: rows of the batch r has still to look at
    read,       \* read[r][e]: delivery_attempts as r's session read it
    marked,     \* marked[r]: rows whose processed_at r set in its session
    bumped,     \* bumped[r]: rows whose delivery_attempts r incremented
    delivered,  \* events the backbone has received
    dlq,        \* events the dead-letter topic has received
    failures    \* history: publish() calls that raised, up to MaxAttempts

outboxVars ==
    <<row, createdAt, attempts, busy, todo, read, marked, bumped,
      delivered, dlq, failures>>

session == <<busy, todo, read, marked, bumped>>
broker == <<delivered, dlq, failures>>

RowState ==
    {"none",         \* not emitted
     "open",         \* inserted by a transaction that has not committed
     "aborted",      \* rolled back with its transaction
     "unprocessed",  \* committed, processed_at IS NULL
     "processed",    \* committed, processed_at set
     "pruned"}       \* deleted by prune_processed()

\* Mutant: the SELECT also sees rows of transactions that have not committed.
UnprocessedDirtyRead == {e \in Event : row[e] \in {"open", "unprocessed"}}
Unprocessed == {e \in Event : row[e] = "unprocessed"}
Stuck == {e \in Unprocessed : attempts[e] >= StuckCap}
InSession(r) == todo[r] \cup marked[r] \cup bumped[r]

\* ORDER BY created_at LIMIT n over the rows of S.
EarliestOf(S, n) ==
    {B \in SUBSET S :
        /\ \A e \in B, f \in S \ B : createdAt[e] <= createdAt[f]
        /\ Cardinality(B) <= n
        /\ B # S => Cardinality(B) = n}

\* The row a relayer's loop is at.
AtRow(r, e) ==
    /\ busy[r]
    /\ e \in todo[r]
    /\ \A f \in todo[r] : createdAt[e] <= createdAt[f]

Unread == [e \in Event |-> 0]

Init ==
    /\ row = [e \in Event |-> "none"]
    /\ createdAt = [e \in Event |-> 0]
    /\ attempts = [e \in Event |-> 0]
    /\ busy = [r \in Relayer |-> FALSE]
    /\ todo = [r \in Relayer |-> {}]
    /\ read = [r \in Relayer |-> Unread]
    /\ marked = [r \in Relayer |-> {}]
    /\ bumped = [r \in Relayer |-> {}]
    /\ delivered = {}
    /\ dlq = {}
    /\ failures = [e \in Event |-> 0]
-----------------------------------------------------------------------------
(* The application side.                                                   *)

\* emit() and the INSERT of the row when the caller's session is flushed.
\* created_at is taken then, so rows are ordered by insertion, not by commit.
Emit(e) ==
    /\ row[e] = "none"
    /\ row' = [row EXCEPT ![e] = "open"]
    /\ createdAt' = [createdAt EXCEPT
                        ![e] = 1 + Cardinality({f \in Event : row[f] # "none"})]
    /\ UNCHANGED <<attempts, session, broker>>

CommitTransaction(e) ==
    /\ row[e] = "open"
    /\ row' = [row EXCEPT ![e] = "unprocessed"]
    /\ UNCHANGED <<createdAt, attempts, session, broker>>

\* The caller's transaction fails: the event goes with the state change.
AbortTransaction(e) ==
    /\ row[e] = "open"
    /\ row' = [row EXCEPT ![e] = "aborted"]
    /\ UNCHANGED <<createdAt, attempts, session, broker>>
-----------------------------------------------------------------------------
(* Relayer.drain_once(), one action per SELECT, loop iteration and commit. *)

\* With no unprocessed row drain_once() returns 0 and changes nothing.
SelectBatch(r) ==
    /\ ~busy[r]
    /\ Unprocessed # {}
    /\ \E B \in EarliestOf(Unprocessed, BatchSize) :
          todo' = [todo EXCEPT ![r] = B]
    /\ busy' = [busy EXCEPT ![r] = TRUE]
    /\ read' = [read EXCEPT ![r] = [e \in Event |->
                    IF e \in todo'[r] THEN attempts[e] ELSE 0]]
    /\ UNCHANGED <<row, createdAt, attempts, marked, bumped, broker>>

Publishable(r, e) == AtRow(r, e) /\ read[r][e] < MaxAttempts
\* Mutant: off by one, a row is poison before its last attempt.
PoisonTooEarly(r, e) == AtRow(r, e) /\ read[r][e] >= MaxAttempts - 1
Poison(r, e) == AtRow(r, e) /\ read[r][e] >= MaxAttempts

\* The loop goes on to the next row.
Advance(r, e) ==
    /\ todo' = [todo EXCEPT ![r] = @ \ {e}]
    /\ UNCHANGED <<row, createdAt, attempts, busy, read>>

\* publisher.publish() returned: processed_at is set in the session.
PublishOk(r, e) ==
    /\ Publishable(r, e)
    /\ delivered' = delivered \cup {e}
    /\ marked' = [marked EXCEPT ![r] = @ \cup {e}]
    /\ Advance(r, e)
    /\ UNCHANGED <<bumped, dlq, failures>>

\* Mutant: a failed publish is logged and not counted.
PublishFailsUncounted(r, e) ==
    /\ Publishable(r, e)
    /\ Advance(r, e)
    /\ UNCHANGED <<marked, bumped, broker>>

\* publisher.publish() raised: delivery_attempts += 1 in the session.  The
\* broker may have stored the event all the same (an ack that was lost).
PublishFails(r, e) ==
    /\ Publishable(r, e)
    /\ delivered' \in {delivered, delivered \cup {e}}
    /\ failures' = [failures EXCEPT
                       ![e] = IF @ < MaxAttempts THEN @ + 1 ELSE @]
    /\ bumped' = [bumped EXCEPT ![r] = @ \cup {e}]
    /\ Advance(r, e)
    /\ UNCHANGED <<marked, dlq>>

\* Mutant: processed_at is not set after publish_dlq().
PoisonToDLQUnmarked(r, e) ==
    /\ HasDLQ
    /\ Poison(r, e)
    /\ dlq' = dlq \cup {e}
    /\ Advance(r, e)
    /\ UNCHANGED <<marked, bumped, delivered, failures>>

PoisonToDLQ(r, e) ==
    /\ HasDLQ
    /\ Poison(r, e)
    /\ dlq' = dlq \cup {e}
    /\ marked' = [marked EXCEPT ![r] = @ \cup {e}]
    /\ Advance(r, e)
    /\ UNCHANGED <<bumped, delivered, failures>>

\* Mutant: the mark is set outside the try, whether publish_dlq() raised or not.
PoisonLeftMarks(r, e) ==
    /\ Poison(r, e)
    /\ marked' = [marked EXCEPT ![r] = @ \cup {e}]
    /\ Advance(r, e)
    /\ UNCHANGED <<bumped, broker>>

\* No publish_dlq(), or it raised (perhaps after the topic took the event):
\* the row is left as it is.
PoisonLeft(r, e) ==
    /\ Poison(r, e)
    /\ dlq' \in IF HasDLQ THEN {dlq, dlq \cup {e}} ELSE {dlq}
    /\ Advance(r, e)
    /\ UNCHANGED <<marked, bumped, delivered, failures>>

CloseSession(r) ==
    /\ busy' = [busy EXCEPT ![r] = FALSE]
    /\ todo' = [todo EXCEPT ![r] = {}]
    /\ read' = [read EXCEPT ![r] = Unread]
    /\ marked' = [marked EXCEPT ![r] = {}]
    /\ bumped' = [bumped EXCEPT ![r] = {}]

\* Mutant: the commit writes whole rows, not only the columns it changed.
CommitBatchWholeRows(r) ==
    /\ busy[r]
    /\ todo[r] = {}
    /\ row' = [e \in Event |-> IF e \in marked[r] THEN "processed"
                              ELSE IF e \in bumped[r] THEN "unprocessed"
                              ELSE row[e]]
    /\ attempts' = [e \in Event |->
                       IF e \in bumped[r] THEN read[r][e] + 1 ELSE attempts[e]]
    /\ CloseSession(r)
    /\ UNCHANGED <<createdAt, broker>>

\* s.commit(): the session writes the columns it changed, with the values it
\* computed from what it read, over whatever the rows hold by now.
CommitBatch(r) ==
    /\ busy[r]
    /\ todo[r] = {}
    /\ row' = [e \in Event |-> IF e \in marked[r] THEN "processed" ELSE row[e]]
    /\ attempts' = [e \in Event |->
                       IF e \in bumped[r] THEN read[r][e] + 1 ELSE attempts[e]]
    /\ CloseSession(r)
    /\ UNCHANGED <<createdAt, broker>>

\* The process dies or the commit raises: the session's marks and increments
\* are rolled back, what was published stays published.
Crash(r) ==
    /\ busy[r]
    /\ CloseSession(r)
    /\ UNCHANGED <<row, createdAt, attempts, broker>>
-----------------------------------------------------------------------------
(* The operator's and the reaper's statements, one transaction each.       *)

ReplayStuckRows ==
    /\ Stuck # {}
    /\ \E S \in EarliestOf(Stuck, ReplayLimit) :
          attempts' = [e \in Event |-> IF e \in S THEN 0 ELSE attempts[e]]
    /\ UNCHANGED <<row, createdAt, session, broker>>

\* The cutoff is at least one day: a row a session still holds is younger.
PruneProcessed ==
    /\ \E S \in SUBSET {e \in Event : /\ row[e] = "processed"
                                      /\ \A r \in Relayer : e \notin InSession(r)} :
          /\ S # {}
          /\ row' = [e \in Event |-> IF e \in S THEN "pruned" ELSE row[e]]
    /\ UNCHANGED <<createdAt, attempts, session, broker>>
-----------------------------------------------------------------------------
Application ==
    \E e \in Event : Emit(e) \/ CommitTransaction(e) \/ AbortTransaction(e)

\* One iteration of the batch loop.
HandleRow(r) ==
    \E e \in Event : \/ PublishOk(r, e)
                     \/ PublishFails(r, e)
                     \/ PoisonToDLQ(r, e)
                     \/ PoisonLeft(r, e)

Drain(r) == SelectBatch(r) \/ HandleRow(r) \/ CommitBatch(r)

Next ==
    \/ Application
    \/ \E r \in Relayer : Drain(r) \/ Crash(r)
    \/ ReplayStuckRows
    \/ PruneProcessed

Spec == Init /\ [][Next]_outboxVars

\* run_forever() never stops (lines 233-242), so a relayer that can go on
\* does.
Fairness == \A r \in Relayer : WF_outboxVars(Drain(r))

LiveSpec == Spec /\ Fairness

\* The dead-letter topic exists and is not down for every attempt.
DLQAnswers ==
    \A r \in Relayer, e \in Event : SF_outboxVars(PoisonToDLQ(r, e))

\* Processes eventually stop crashing and operators replaying.  (A crash that
\* has nothing to roll back is the same step as a commit.)
Calm ==
    <>[][~ (\/ ReplayStuckRows
            \/ \E r \in Relayer : Crash(r) /\ ~CommitBatch(r))]_outboxVars
-----------------------------------------------------------------------------
(* Properties.                                                             *)

TypeOK ==
    /\ row \in [Event -> RowState]
    /\ createdAt \in [Event -> Nat]
    /\ attempts \in [Event -> 0..MaxAttempts]
    /\ busy \in [Relayer -> BOOLEAN]
    /\ todo \in [Relayer -> SUBSET Event]
    /\ read \in [Relayer -> [Event -> 0..MaxAttempts]]
    /\ marked \in [Relayer -> SUBSET Event]
    /\ bumped \in [Relayer -> SUBSET Event]
    /\ delivered \in SUBSET Event
    /\ dlq \in SUBSET Event
    /\ failures \in [Event -> 0..MaxAttempts]

Committed == {e \in Event : row[e] \in {"unprocessed", "processed", "pruned"}}
Settled == {e \in Event : row[e] \in {"processed", "pruned"}}

\* "Losing a row is not allowed" (outbox.py:25): whatever the interleaving
\* of relayers, crashes, replays and pruning, a row is marked processed, and
\* later deleted, only if the backbone or the dead-letter topic has the event.
NoLostEvent == Settled \subseteq delivered \cup dlq

\* "Either both land or neither does" (outbox.py:8): nothing leaves the
\* system for a transaction that is still open or was rolled back.
NoPhantomEvent == delivered \cup dlq \subseteq Committed

\* The DLQ receives poison only (outbox.py:169-173): max_attempts publishes
\* of the event really failed, though increments are lost in crashes,
\* overwritten by other relayers' commits and zeroed by replays.
PoisonReallyFailed ==
    \A e \in dlq : failures[e] >= MaxAttempts

\* A commit never takes back another session's mark, although it writes
\* columns of rows it read before that mark: only dirty columns are written.
MarkIsFinal ==
    [][\A e \in Settled : e \in Settled']_outboxVars

\* Every committed row leaves the table's unprocessed part, by delivery or by
\* the DLQ, even if every publish to the main topic fails, once crashes and
\* replays stop and the DLQ answers now and then.
EveryRowSettles ==
    Calm /\ DLQAnswers =>
        \A e \in Event : row[e] = "unprocessed" ~> row[e] # "unprocessed"

\* If the DLQ never answers, or there is none, a row is either settled or
\* becomes visible as stuck, unless stuck rows fill a whole batch and starve
\* the rows behind them.
SettledOrVisiblyStuck ==
    Calm => \A e \in Event :
        row[e] = "unprocessed" ~> \/ row[e] # "unprocessed"
                                  \/ e \in Stuck
                                  \/ Cardinality(Stuck) >= BatchSize

Promise == INSTANCE OutboxSpec WITH
    accepted <- Committed,
    handed <- delivered \cup dlq,
    settled <- Settled

\* The outbox keeps the promise of OutboxSpec: whatever crashes, overwrites
\* and replays do, every step is one the promise allows.
ImplementsPromise == Promise!AtLeastOnce
=============================================================================
