----------------------------- MODULE Bootstrap ------------------------------
(***************************************************************************)
(* The start of the API and admin processes (Dockerfile, api/main.py,      *)
(* api/admin_app.py and what they call in src/db.py,                       *)
(* src/runtime_settings.py and api/admin/auth.py) on one PostgreSQL        *)
(* database that may be empty: the entrypoint of some migrates it with     *)
(* alembic, then each process creates the tables that are missing, seeds   *)
(* the settings and the admin password, once when the module is imported   *)
(* and once more in the lifespan, while other processes do the same or     *)
(* already serve an operator.                                              *)
(***************************************************************************)
EXTENDS Integers, TLAPS

CONSTANTS
    Proc,         \* processes; a supervisor starts those that are down
    Default,      \* keys of DEFAULTS
    Password,     \* the key of the admin's password hash
    MaxStops,     \* bound on kills and shutdowns
    MaxDowngrades \* bound on `alembic downgrade -1`

ASSUME BootAssumption ==
    /\ Password \notin Default
    /\ MaxStops \in Nat /\ MaxDowngrades \in Nat

VARIABLES
    migrating, \* processes that start with RUN_MIGRATIONS=auto
    schema,    \* tables and later columns that exist
    ledger,    \* the revision in alembic_version, 0 without one
    rows,      \* rows[k]: who wrote the row of k last, "nobody" without a row
    boot,      \* boot[p]: where process p is, see BootStage
    lap,       \* lap[p]: 1 during the import, 2 in the lifespan
    seen,      \* seen[p]: what p's last look at the database told it
    stops,     \* kills and shutdowns so far
    downgrades \* downgrades so far

bootVars == <<migrating, schema, ledger, rows, boot, lap, seen, stops,
              downgrades>>
databaseVars == <<schema, ledger, rows>>

BootStage ==
    {"down",
     "migrate",   \* at the start of `alembic upgrade head`
     "upgrade",   \* the revision is read
     "tables",    \* at create_all()
     "ddl",       \* tables seen missing
     "keys",      \* at the SELECT of bulk_seed()
     "seed",      \* at its INSERTs
     "password",  \* at ensure_admin_password_seeded()
     "hash",      \* no password row seen
     "warm",      \* seeded twice, at the rest of the lifespan
     "serving", "draining"}

BootInit ==
    /\ migrating \in SUBSET Proc
    /\ schema = {} /\ ledger = 0
    /\ rows = [k \in Default \cup {Password} |-> "nobody"]
    /\ boot = [p \in Proc |-> "down"]
    /\ lap = [p \in Proc |-> 1]
    /\ seen = [p \in Proc |-> {}]
    /\ stops = 0 /\ downgrades = 0

GoTo(p, where) == boot' = [boot EXCEPT ![p] = where]
Find(p, what) == seen' = [seen EXCEPT ![p] = what]
Stored(k) == rows[k] # "nobody"

Start(p) ==
    /\ boot[p] = "down"
    /\ GoTo(p, IF p \in migrating THEN "migrate" ELSE "tables")
    /\ lap' = [lap EXCEPT ![p] = 1]
    /\ Find(p, {})
    /\ UNCHANGED <<databaseVars, stops, downgrades>>
-----------------------------------------------------------------------------
(* alembic/versions.  Columns that came with a table are not told apart    *)
(* from it; those that came later are.                                     *)

InitialSchema == {"settings", "audit_log"}
OutboxEvents == {"outbox_events"}
OutboxTraceId == {"outbox_events.trace_id"}
MeetingsTable == {"meetings"}
AuditForensics == {"audit_log.ip_address"}

Creates ==
    <<InitialSchema, OutboxEvents, OutboxTraceId, MeetingsTable, AuditForensics>>
LastRevision == 5
Applied(n) == UNION {Creates[r] : r \in 1..n}
Pending(n) == UNION {Creates[r] : r \in (n + 1)..LastRevision}

\* alembic has no lock of its own: the revision is read, and what is missing
\* is run, in one transaction of READ COMMITTED.
ReadLedger(p) ==
    /\ boot[p] = "migrate"
    /\ Find(p, Pending(ledger))
    /\ GoTo(p, IF ledger = LastRevision THEN "tables" ELSE "upgrade")
    /\ UNCHANGED <<databaseVars, lap, stops, downgrades>>

\* Creating what exists by now, or moving a revision another migration has
\* moved, raises: everything is rolled back and the container exits.
Upgrade(p) ==
    /\ boot[p] = "upgrade"
    /\ \/ /\ seen[p] = Pending(ledger) /\ seen[p] \cap schema = {}
          /\ schema' = schema \cup seen[p]
          /\ ledger' = LastRevision
          /\ GoTo(p, "tables")
       \/ /\ seen[p] # Pending(ledger) \/ seen[p] \cap schema # {}
          /\ GoTo(p, "down")
          /\ UNCHANGED <<schema, ledger>>
    /\ UNCHANGED <<rows, lap, seen, stops, downgrades>>

\* Mutant: the revision stays.
DowngradeUnrecorded(gone) == schema' = schema \ gone /\ UNCHANGED ledger
\* What the last revision created is dropped.
Downgraded(gone) == schema' = schema \ gone /\ ledger' = ledger - 1

\* An operator runs `alembic downgrade -1`.
Downgrade ==
    /\ downgrades < MaxDowngrades
    /\ ledger > 0
    /\ Downgraded(Creates[ledger])
    /\ downgrades' = downgrades + 1
    /\ UNCHANGED <<rows, boot, lap, seen, stops>>
-----------------------------------------------------------------------------
(* src/db.py and src/models_db.py: init_db().                              *)

\* The tables of the models, each with the columns it gets.
ModelTables == {"settings", "audit_log", "outbox_events"}
WithColumns(tables) ==
    tables \cup (IF "audit_log" \in tables THEN {"audit_log.ip_address"} ELSE {})
           \cup (IF "outbox_events" \in tables THEN {"outbox_events.trace_id"} ELSE {})

\* create_all() looks for tables, never for columns, and creates those that
\* are missing in a second step.
CheckTables(p) ==
    /\ boot[p] = "tables"
    /\ Find(p, ModelTables \ schema)
    /\ GoTo(p, IF ModelTables \subseteq schema THEN "keys" ELSE "ddl")
    /\ UNCHANGED <<databaseVars, lap, stops, downgrades>>

\* CREATE TABLE of a table that exists by now raises: the process exits.
CreateTables(p) ==
    /\ boot[p] = "ddl"
    /\ IF seen[p] \cap schema = {}
       THEN schema' = schema \cup WithColumns(seen[p]) /\ GoTo(p, "keys")
       ELSE GoTo(p, "down") /\ UNCHANGED schema
    /\ UNCHANGED <<ledger, rows, lap, seen, stops, downgrades>>
-----------------------------------------------------------------------------
(* Seeding.                                                                *)

\* Mutant: what is there already is not left out.
FindsNothing == {}
\* bulk_seed(): the keys that have a row.
ExistingKeys == {k \in Default : Stored(k)}

ReadKeys(p) ==
    /\ boot[p] = "keys"
    /\ Find(p, ExistingKeys)
    /\ GoTo(p, IF Default \subseteq ExistingKeys THEN "password" ELSE "seed")
    /\ UNCHANGED <<databaseVars, lap, stops, downgrades>>

Seeded(new) == [k \in DOMAIN rows |-> IF k \in new THEN "seed" ELSE rows[k]]

\* Mutant: merge() in place of add().
MergeAll(p, new, done) ==
    /\ rows' = Seeded(new)
    /\ GoTo(p, done)
\* The INSERTs of one transaction: a key that has a row by now is an
\* IntegrityError, the transaction is rolled back and the process exits.
InsertAll(p, new, done) ==
    \/ /\ \A k \in new : ~Stored(k)
       /\ rows' = Seeded(new)
       /\ GoTo(p, done)
    \/ /\ \E k \in new : Stored(k)
       /\ GoTo(p, "down")
       /\ UNCHANGED rows

\* The models write every column: without it no row of audit_log is stored.
AuditWorks == "audit_log.ip_address" \in schema

\* The audit row about the seeding goes with the rows.
SeedDefaults(p) ==
    /\ boot[p] = "seed"
    /\ IF AuditWorks THEN InsertAll(p, Default \ seen[p], "password")
       ELSE GoTo(p, "down") /\ UNCHANGED rows
    /\ UNCHANGED <<schema, ledger, lap, seen, stops, downgrades>>

\* After the import comes the lifespan, which starts over.
AfterSeeding(p) ==
    /\ GoTo(p, IF lap[p] = 1 THEN "tables" ELSE "warm")
    /\ lap' = [lap EXCEPT ![p] = 2]

FindPassword(p) ==
    /\ boot[p] = "password"
    /\ \/ Stored(Password) /\ AfterSeeding(p)
       \/ ~Stored(Password) /\ GoTo(p, "hash") /\ UNCHANGED lap
    /\ UNCHANGED <<databaseVars, seen, stops, downgrades>>

\* The step after the INSERT of the hash.
SeedPassword(p) ==
    /\ boot[p] = "hash"
    /\ InsertAll(p, {Password}, IF lap[p] = 1 THEN "tables" ELSE "warm")
    /\ lap' = [lap EXCEPT ![p] = 2]
    /\ UNCHANGED <<schema, ledger, seen, stops, downgrades>>

\* The listener and the first pipeline state, taken to succeed; the process
\* serves.
WarmUp(p) ==
    /\ boot[p] = "warm"
    /\ GoTo(p, "serving")
    /\ UNCHANGED <<databaseVars, lap, seen, stops, downgrades>>

\* RuntimeSettings.set() or update_admin_password() in a serving process, with
\* its audit row: the row is updated, or inserted if there is none.
OperatorWrites(p, k) ==
    /\ boot[p] \in {"serving", "draining"}
    /\ AuditWorks
    /\ rows' = [rows EXCEPT ![k] = "operator"]
    /\ UNCHANGED <<schema, ledger, boot, lap, seen, stops, downgrades>>

\* SIGTERM: readiness is taken back, and after two seconds the process ends.
Drain(p) ==
    /\ boot[p] = "serving"
    /\ stops < MaxStops
    /\ stops' = stops + 1
    /\ GoTo(p, "draining")
    /\ UNCHANGED <<databaseVars, lap, seen, downgrades>>

Stop(p) ==
    /\ boot[p] = "draining"
    /\ GoTo(p, "down")
    /\ UNCHANGED <<databaseVars, lap, seen, stops, downgrades>>

\* GET /api/ready of the admin application answers 200.
Ready(p) == boot[p] = "serving" /\ "settings" \in schema

\* The process is killed between two transactions.
Kill(p) ==
    /\ boot[p] # "down"
    /\ stops < MaxStops
    /\ stops' = stops + 1
    /\ GoTo(p, "down")
    /\ UNCHANGED <<databaseVars, lap, seen, downgrades>>

BootStep(p) ==
    \/ Start(p)
    \/ ReadLedger(p) \/ Upgrade(p)
    \/ CheckTables(p) \/ CreateTables(p)
    \/ ReadKeys(p) \/ SeedDefaults(p)
    \/ FindPassword(p) \/ SeedPassword(p)
    \/ WarmUp(p)
    \/ Stop(p)

BootNext ==
    /\ \/ \E p \in Proc : \/ BootStep(p)
                          \/ \E k \in DOMAIN rows : OperatorWrites(p, k)
                          \/ Drain(p)
                          \/ Kill(p)
       \/ Downgrade
    /\ UNCHANGED migrating

BootFairness == \A p \in Proc : WF_bootVars(BootStep(p) /\ UNCHANGED migrating)

BootSpec == BootInit /\ [][BootNext]_bootVars

LiveBootSpec == BootSpec /\ BootFairness
-----------------------------------------------------------------------------
BootTypeOK ==
    /\ migrating \subseteq Proc
    /\ schema \subseteq Applied(LastRevision)
    /\ ledger \in 0..LastRevision
    /\ rows \in [Default \cup {Password} -> {"nobody", "seed", "operator"}]
    /\ boot \in [Proc -> BootStage]
    /\ lap \in [Proc -> {1, 2}]
    /\ seen \in [Proc -> SUBSET (Applied(LastRevision) \cup Default)]
    /\ stops \in 0..MaxStops /\ downgrades \in 0..MaxDowngrades

\* "Idempotent - existing rows untouched" (runtime_settings.py:327): what an
\* operator wrote is never seeded over, though a process may have looked for
\* rows before the operator's process had any.
SeedsNeverOverwrite ==
    [][\A k \in DOMAIN rows : rows[k] = "operator" => rows'[k] = "operator"]_bootVars

\* "...rather than create_all()" (alembic/README.md:3-4), next to create_all():
\* however containers that migrate race each other, processes that create
\* tables and an operator who downgrades, the revision on record never claims
\* what the database does not have.
LedgerHolds == Applied(ledger) \subseteq schema

\* The tables of the models were there before the first migration, which will
\* fail from now on: its container restarts for ever.
Adopted == ledger = 0 /\ "settings" \in schema

RolledBack == ledger \in 1..(LastRevision - 1)

\* "Safe on every start" (main.py:71-72): processes that race to migrate and
\* seed an empty database crash at most for a while.  Each one that starts ends
\* up ready, unless it migrates a database whose tables create_all() made, or
\* seeds one that an operator left rolled back, or an operator took its tables
\* away when every process had started.
EveryProcessServes ==
    \A p \in Proc :
        <>(boot[p] # "down") => \/ <>[]Ready(p)
                               \/ <>[](IF p \in migrating THEN Adopted ELSE RolledBack)
                               \/ <>[]("settings" \notin schema)

\* "Migrations are idempotent; Alembic's lock makes it safe under multi-replica
\* boots" (README.md:155): a container that migrates ends up serving.
MigratedBootsServe ==
    \A p \in Proc :
        (p \in migrating /\ <>(boot[p] # "down")) => <>[](boot[p] = "serving")
=============================================================================
