--------------------------- MODULE MeetingStream ----------------------------
(***************************************************************************)
(* The meetings table of src/repository.py under the bulk readers of       *)
(* DatabaseRepository.stream(): a page per transaction, found by OFFSET,   *)
(* while rows are deleted one by one and imported batch by batch.  Readers *)
(* are the NDJSON exports of api/admin/routes.py, which a daily quota      *)
(* admits, and the streaming analysis.  Meeting ids are numbers in the     *)
(* order of ORDER BY meeting_id.                                           *)
(***************************************************************************)
EXTENDS Integers, FiniteSets

CONSTANTS
    Exporter,     \* threads that serve an export
    Analyst,      \* processes that run the streaming analysis
    MaxMeeting,   \* ids are 1..MaxMeeting
    Directory,    \* ids found by import_from_local(), which starts without them
    BatchSizes,   \* batch_size of a stream, after the clamp to 1..10000
    ExportCap,    \* export.max_per_day
    MaxWrites     \* bound on the deletions and imported batches

ASSUME StreamAssumption ==
    /\ MaxMeeting \in Nat /\ Directory \subseteq 1..MaxMeeting
    /\ Exporter \cap Analyst = {}
    /\ BatchSizes \subseteq Nat \ {0}
    /\ ExportCap \in Nat \ {0}

Meeting == 1..MaxMeeting
Reader == Exporter \cup Analyst

VARIABLES
    table,      \* ids of the rows of meetings
    imported,   \* ids of the directory import_from_local() has committed
    changes,    \* deletions and imported batches so far
    exports,    \* _export_quota of the actor, today
    phase,      \* phase[r]: where reader r is, see ReaderPhase
    size,       \* size[r]: its batch_size
    offset,     \* offset[r]: `offset` of its stream()
    delivered,  \* delivered[r][m]: times m has been handed to r
    steady,     \* history: rows there as long as r's stream was open
    shifts      \* history: rows deleted and inserted in that time

streamVars == <<table, imported, changes, exports, phase, size, offset,
                delivered, steady, shifts>>
tableVars == <<table, imported, changes>>

ReaderPhase ==
    {"idle",
     "quota",     \* an export past the check of the quota
     "reading",   \* between two pages
     "done",      \* stream() is exhausted
     "failed"}    \* the consumer raised, or the client went away

Nothing == [m \in Meeting |-> 0]

StreamInit ==
    /\ table = Meeting \ Directory
    /\ imported = {}
    /\ changes = 0
    /\ exports = 0
    /\ phase = [r \in Reader |-> "idle"]
    /\ size = [r \in Reader |-> 1]
    /\ offset = [r \in Reader |-> 0]
    /\ delivered = [r \in Reader |-> Nothing]
    /\ steady = [r \in Reader |-> {}]
    /\ shifts = [r \in Reader |-> [deleted |-> 0, inserted |-> 0]]
-----------------------------------------------------------------------------
(* The writers.                                                            *)

Shift(gone, new) ==
    /\ steady' = [r \in Reader |->
          IF phase[r] # "reading" THEN steady[r] ELSE steady[r] \ gone]
    /\ shifts' = [r \in Reader |->
          IF phase[r] # "reading" THEN shifts[r]
          ELSE [deleted  |-> shifts[r].deleted + Cardinality(gone),
                inserted |-> shifts[r].inserted + Cardinality(new \ table)]]

\* DatabaseRepository.delete(), of a row that is there.
DeleteRow(m) ==
    /\ changes < MaxWrites
    /\ m \in table
    /\ table' = table \ {m}
    /\ changes' = changes + 1
    /\ Shift({m}, {})
    /\ UNCHANGED <<imported, exports, phase, size, offset, delivered>>

\* The next n entries of the sorted directory, or what is left of it.
NextBatch(n) ==
    LET left == Directory \ imported
    IN  {m \in left : Cardinality({k \in left : k < m}) < n}

\* A batch of upserts and its commit.  Rows deleted meanwhile come back.
ImportBatch(n) ==
    /\ changes < MaxWrites
    /\ NextBatch(n) # {}
    /\ table' = table \cup NextBatch(n)
    /\ imported' = imported \cup NextBatch(n)
    /\ changes' = changes + 1
    /\ Shift({}, NextBatch(n))
    /\ UNCHANGED <<exports, phase, size, offset, delivered>>

\* The import dies, before or after its last commit, and is run again.
ImportAgain ==
    /\ imported # {}
    /\ imported' = {}
    /\ UNCHANGED <<table, changes, exports, phase, size, offset, delivered,
                   steady, shifts>>
-----------------------------------------------------------------------------
(* The readers.                                                            *)

\* _enforce_export_quota() compares, then counts: two steps of a thread.
CheckQuota(r) ==
    /\ phase[r] = "idle"
    /\ exports < ExportCap
    /\ phase' = [phase EXCEPT ![r] = "quota"]
    /\ UNCHANGED <<tableVars, exports, size, offset, delivered, steady, shifts>>

Open(r, n) ==
    /\ phase' = [phase EXCEPT ![r] = "reading"]
    /\ size' = [size EXCEPT ![r] = n]
    /\ offset' = [offset EXCEPT ![r] = 0]
    /\ delivered' = [delivered EXCEPT ![r] = Nothing]
    /\ steady' = [steady EXCEPT ![r] = table]
    /\ shifts' = [shifts EXCEPT ![r] = [deleted |-> 0, inserted |-> 0]]

OpenExport(r, n) ==
    /\ phase[r] = "quota"
    /\ exports' = exports + 1
    /\ Open(r, n)
    /\ UNCHANGED tableVars

OpenAnalysis(r, n) ==
    /\ phase[r] = "idle"
    /\ Open(r, n)
    /\ UNCHANGED <<tableVars, exports>>

Rank(m) == Cardinality({k \in table : k < m})

\* Mutant: the page starts one row late.
PageOneLate(r) ==
    {m \in table : Rank(m) > offset[r] /\ Rank(m) <= offset[r] + size[r]}
\* LIMIT size OFFSET offset, of the table as it is now.
Page(r) ==
    {m \in table : Rank(m) >= offset[r] /\ Rank(m) < offset[r] + size[r]}

\* One turn of the loop of stream(); a page that is not full is the last.
ReadPage(r) ==
    /\ phase[r] = "reading"
    /\ offset' = [offset EXCEPT ![r] = @ + Cardinality(Page(r))]
    /\ delivered' = [delivered EXCEPT ![r] =
          [m \in Meeting |-> IF m \in Page(r) THEN @[m] + 1 ELSE @[m]]]
    /\ phase' = [phase EXCEPT ![r] =
          IF Cardinality(Page(r)) < size[r] THEN "done" ELSE @]
    /\ UNCHANGED <<tableVars, exports, size, steady, shifts>>

\* The generator is dropped: the client of an export has gone away, or the
\* analysis raised.
Abandon(r) ==
    /\ phase[r] = "reading"
    /\ phase' = [phase EXCEPT ![r] = "failed"]
    /\ UNCHANGED <<tableVars, exports, size, offset, delivered, steady, shifts>>

Finished(r) ==
    /\ phase[r] \in {"done", "failed"}
    /\ phase' = [phase EXCEPT ![r] = "idle"]
    /\ UNCHANGED <<tableVars, exports, size, offset, delivered, steady, shifts>>

TableNext ==
    \/ \E m \in Meeting : DeleteRow(m)
    \/ \E n \in BatchSizes : ImportBatch(n)
    \/ ImportAgain

ExportNext ==
    \E r \in Exporter :
        \/ CheckQuota(r)
        \/ \E n \in BatchSizes : OpenExport(r, n)
        \/ ReadPage(r)
        \/ Abandon(r)
        \/ Finished(r)
-----------------------------------------------------------------------------
StreamTypeOK ==
    /\ table \subseteq Meeting
    /\ imported \subseteq Directory
    /\ changes \in 0..MaxWrites
    /\ exports \in Nat
    /\ phase \in [Reader -> ReaderPhase]
    /\ size \in [Reader -> BatchSizes \cup {1}]
    /\ offset \in [Reader -> Nat]
    /\ delivered \in [Reader -> [Meeting -> Nat]]
    /\ steady \in [Reader -> SUBSET Meeting]
    /\ shifts \in [Reader -> [deleted : Nat, inserted : Nat]]

Missed(r) == {m \in steady[r] : delivered[r][m] = 0}
\* The deliveries of a row to r after the first.
Repeated(r) == UNION {{m} \X (2..delivered[r][m]) : m \in Meeting}

\* "Stream every meeting" (routes.py:605): a finished stream has missed at most
\* one row that was there all the time for each row deleted under it, and has
\* repeated at most one for each row inserted, wherever the pages began.
DriftIsBounded ==
    \A r \in Reader :
        phase[r] = "done" => /\ Cardinality(Missed(r)) <= shifts[r].deleted
                             /\ Cardinality(Repeated(r)) <= shifts[r].inserted
=============================================================================
