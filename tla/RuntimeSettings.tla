-------------------------- MODULE RuntimeSettings ---------------------------
(***************************************************************************)
(* The settings cache of src/runtime_settings.py in several processes      *)
(* over one settings table: threads in get(), an operator's set(), and the *)
(* LISTEN/NOTIFY thread.  The whole table is read at once, so its contents *)
(* are abstracted to the number of set() that have committed, 0 being the  *)
(* table as bulk_seed() left it.                                           *)
(***************************************************************************)
EXTENDS Integers

CONSTANTS
    Process,    \* API and admin processes, each with one RuntimeSettings
    Reader,     \* threads that call get()
    home,       \* [Reader -> Process]
    MaxVersion  \* bound on the number of set()

ASSUME SettingsAssumption ==
    /\ home \in [Reader -> Process]
    /\ MaxVersion \in Nat
    /\ Reader \cap Process = {}

VARIABLES
    version,    \* set() transactions committed
    cache,      \* cache[p]: the version in p's _cache, NoRows for {}
    fresh,      \* fresh[p]: _cache_loaded_at is less than the TTL ago
    lock,       \* lock[p]: {r} when reader r of p is in `with self._lock`
    reader,     \* reader[r]: where r's get() is, see ReaderState
    selected,   \* selected[r]: the version r's SELECT saw, else NoRows
    admin,      \* admin[p]: where the set() that runs in p is
    mail,       \* mail[p]: a notification waits for p's listener
    listening,  \* listening[p]: p's listener thread runs
    floor       \* history: the version committed at p's last _invalidate()

settingsVars ==
    <<version, cache, fresh, lock, reader, selected, admin, mail, listening, floor>>
reads == <<lock, reader, selected>>
push == <<mail, listening>>

NoRows == -1
Version == 0..MaxVersion

ReaderState ==
    {"out",      \* not in get()
     "wait",     \* past the first check of the TTL, at the lock
     "select",   \* in the lock, past the second check
     "install",  \* in the lock, the rows read
     "get"}      \* past _ensure_fresh(), at self._cache.get()

SettingsInit ==
    /\ version = 0
    /\ cache = [p \in Process |-> NoRows]
    /\ fresh = [p \in Process |-> FALSE]
    /\ lock = [p \in Process |-> {}]
    /\ reader = [r \in Reader |-> "out"]
    /\ selected = [r \in Reader |-> NoRows]
    /\ admin = [p \in Process |-> "idle"]
    /\ mail = [p \in Process |-> FALSE]
    /\ listening \in [Process -> BOOLEAN]
    /\ floor = [p \in Process |-> 0]

Goto(r, state) == reader' = [reader EXCEPT ![r] = state]
-----------------------------------------------------------------------------
(* get(): _ensure_fresh(), then a look at _cache without the lock.         *)

\* Mutant: a cache that holds something is taken for fresh.
UsableHowever(p) == cache[p] # NoRows
\* The condition under which _ensure_fresh() returns.
Usable(p) == fresh[p] /\ cache[p] # NoRows

FirstCheck(r) ==
    /\ reader[r] = "out"
    /\ Goto(r, IF Usable(home[r]) THEN "get" ELSE "wait")
    /\ UNCHANGED <<version, cache, fresh, lock, selected, admin, push, floor>>

\* The lock is taken and the check repeated; a second reader that waited for
\* the first one's SELECT leaves at once.
SecondCheck(r) ==
    /\ reader[r] = "wait"
    /\ lock[home[r]] = {}
    /\ IF Usable(home[r])
       THEN Goto(r, "get") /\ UNCHANGED lock
       ELSE Goto(r, "select") /\ lock' = [lock EXCEPT ![home[r]] = {r}]
    /\ UNCHANGED <<version, cache, fresh, selected, admin, push, floor>>

Select(r) ==
    /\ reader[r] = "select"
    /\ selected' = [selected EXCEPT ![r] = version]
    /\ Goto(r, "install")
    /\ UNCHANGED <<version, cache, fresh, lock, admin, push, floor>>

\* The database does not answer: get() returns the default of the code.
SelectFails(r) ==
    /\ reader[r] = "select"
    /\ lock' = [lock EXCEPT ![home[r]] = {}]
    /\ Goto(r, "out")
    /\ UNCHANGED <<version, cache, fresh, selected, admin, push, floor>>

\* _cache = rows; _cache_loaded_at = now; the lock is released.
Install(r) ==
    /\ reader[r] = "install"
    /\ cache' = [cache EXCEPT ![home[r]] = selected[r]]
    /\ fresh' = [fresh EXCEPT ![home[r]] = TRUE]
    /\ lock' = [lock EXCEPT ![home[r]] = {}]
    /\ selected' = [selected EXCEPT ![r] = NoRows]
    /\ Goto(r, "get")
    /\ UNCHANGED <<version, admin, push, floor>>

\* get() returns what _cache holds by now; the default of the code if that is
\* nothing.
Return(r) ==
    /\ reader[r] = "get"
    /\ Goto(r, "out")
    /\ UNCHANGED <<version, cache, fresh, lock, selected, admin, push, floor>>

\* _TTL_SECONDS after the last install.
Age(p) ==
    /\ fresh[p]
    /\ fresh' = [fresh EXCEPT ![p] = FALSE]
    /\ UNCHANGED <<version, cache, reads, admin, push, floor>>
-----------------------------------------------------------------------------
(* set(), and the listener.                                                *)

\* Mutant: _invalidate() does not take the lock.
InvalidateUnlocked(p) ==
    /\ cache' = [cache EXCEPT ![p] = NoRows]
    /\ fresh' = [fresh EXCEPT ![p] = FALSE]
    /\ floor' = [floor EXCEPT ![p] = version]
\* _invalidate(), with the lock.
Invalidate(p) ==
    /\ lock[p] = {}
    /\ cache' = [cache EXCEPT ![p] = NoRows]
    /\ fresh' = [fresh EXCEPT ![p] = FALSE]
    /\ floor' = [floor EXCEPT ![p] = version]

\* The row and its audit row are committed in one transaction.
CommitSetting(p) ==
    /\ admin[p] = "idle"
    /\ version < MaxVersion
    /\ version' = version + 1
    /\ admin' = [admin EXCEPT ![p] = "committed"]
    /\ UNCHANGED <<cache, fresh, reads, push, floor>>

\* s.refresh() raises after the commit: set() neither drops the cache nor
\* notifies anybody.
RefreshFails(p) ==
    /\ admin[p] = "committed"
    /\ admin' = [admin EXCEPT ![p] = "idle"]
    /\ UNCHANGED <<version, cache, fresh, reads, push, floor>>

DropOwnCache(p) ==
    /\ admin[p] = "committed"
    /\ Invalidate(p)
    /\ admin' = [admin EXCEPT ![p] = "invalidated"]
    /\ UNCHANGED <<version, reads, push>>

\* _publish_change(): NOTIFY reaches the listeners that run, or fails for all.
Publish(p) ==
    /\ admin[p] = "invalidated"
    /\ mail' \in {mail, [q \in Process |-> mail[q] \/ listening[q]]}
    /\ admin' = [admin EXCEPT ![p] = "idle"]
    /\ UNCHANGED <<version, cache, fresh, reads, listening, floor>>

\* bulk_seed() of a seeded table inserts nothing and drops the cache.
Reseed(p) ==
    /\ Invalidate(p)
    /\ UNCHANGED <<version, reads, admin, push>>

\* The listener calls _invalidate(), once for however many notifications.
Notified(p) ==
    /\ mail[p]
    /\ Invalidate(p)
    /\ mail' = [mail EXCEPT ![p] = FALSE]
    /\ UNCHANGED <<version, reads, admin, listening>>

\* "settings listener crashed; falling back to TTL-only"
ListenerDies(p) ==
    /\ listening[p]
    /\ listening' = [listening EXCEPT ![p] = FALSE]
    /\ mail' = [mail EXCEPT ![p] = FALSE]
    /\ UNCHANGED <<version, cache, fresh, reads, admin, floor>>
-----------------------------------------------------------------------------
Refresh(r) ==
    SecondCheck(r) \/ Select(r) \/ SelectFails(r) \/ Install(r)

SetStep(p) ==
    CommitSetting(p) \/ RefreshFails(p) \/ DropOwnCache(p) \/ Publish(p)

SettingsNext ==
    \/ \E r \in Reader : FirstCheck(r) \/ Refresh(r) \/ Return(r)
    \/ \E p \in Process : \/ Age(p)
                          \/ SetStep(p)
                          \/ Reseed(p)
                          \/ Notified(p)
                          \/ ListenerDies(p)

SettingsSpec == SettingsInit /\ [][SettingsNext]_settingsVars

\* Time passes and a thread that got into get() goes on.
SettingsFairness ==
    /\ \A p \in Process : WF_settingsVars(Age(p))
    /\ \A r \in Reader : /\ WF_settingsVars(Refresh(r))
                         /\ WF_settingsVars(Return(r))

LiveSettingsSpec == SettingsSpec /\ SettingsFairness
-----------------------------------------------------------------------------
SettingsTypeOK ==
    /\ version \in Version
    /\ cache \in [Process -> Version \cup {NoRows}]
    /\ fresh \in [Process -> BOOLEAN]
    /\ lock \in [Process -> SUBSET Reader]
    /\ reader \in [Reader -> ReaderState]
    /\ selected \in [Reader -> Version \cup {NoRows}]
    /\ admin \in [Process -> {"idle", "committed", "invalidated"}]
    /\ mail \in [Process -> BOOLEAN]
    /\ listening \in [Process -> BOOLEAN]
    /\ floor \in [Process -> Version]

\* "Drop the cache so the next read reloads from DB" (runtime_settings.py:355):
\* after an _invalidate(), by a set() or by the listener, the process never
\* caches, hence never returns, anything older than what was committed then,
\* though a SELECT may have been under way.
NothingOlderThanInvalidate ==
    \A p \in Process : cache[p] # NoRows => cache[p] >= floor[p]

\* "The next request reads the new value (within _TTL_SECONDS)"
\* (runtime_settings.py:5-6): once operators are done, every process stops
\* returning older values, without help from the listener, and even when a
\* set() failed half-way or no notification arrived.
StaleReadsEnd ==
    <>[][\A r \in Reader :
            Return(r) => cache[home[r]] \in {NoRows, version}]_settingsVars

\* get() falls back to the code's default when there is "no DB yet"
\* (runtime_settings.py:260) and returns what the table holds otherwise: the
\* read after an _invalidate() "reloads from DB" (line 355).
GetReturnsStored ==
    [][\A r \in Reader : Return(r) => cache[home[r]] # NoRows]_settingsVars
=============================================================================
