---------------------------- MODULE StateProofs -----------------------------
(***************************************************************************)
(* What each process caches of shared state, proved for every number of    *)
(* processes, threads, clients and changes: the settings cache behind its  *)
(* invalidations, and the pipeline state behind its rebuilds; and what the *)
(* processes that start do to the database, for any number of them, of     *)
(* defaults, crashes and downgrades.                                       *)
(***************************************************************************)
EXTENDS RuntimeSettings, StateServing, Bootstrap, TLAPS

-----------------------------------------------------------------------------
(* The settings cache.                                                     *)
(* The strengthening of NothingOlderThanInvalidate that is inductive.      *)

\* A reader is in the lock exactly while it is between check and install.
LockInv ==
    \A r \in Reader :
        reader[r] \in {"select", "install"} <=> lock[home[r]] = {r}

\* What a reader is about to install was selected after the last invalidation.
SelectedInv ==
    \A r \in Reader :
        reader[r] = "install" => /\ selected[r] \in Version
                             /\ selected[r] >= floor[home[r]]

FloorInv == \A p \in Process : floor[p] <= version

SettingsInv ==
    /\ SettingsTypeOK
    /\ LockInv
    /\ SelectedInv
    /\ FloorInv
    /\ NothingOlderThanInvalidate
-----------------------------------------------------------------------------
\* An invalidation keeps the invariant: no reader is between its SELECT and
\* its install then, as both are in the lock.
LEMMA InvalidateKeepsInv ==
    ASSUME SettingsInv, NEW p \in Process, Invalidate(p),
           UNCHANGED <<version, reads>>,
           admin' \in [Process -> {"idle", "committed", "invalidated"}],
           mail' \in [Process -> BOOLEAN],
           listening' \in [Process -> BOOLEAN]
    PROVE  SettingsInv'
<1> USE SettingsAssumption
<1>1. SettingsTypeOK'
  BY DEF SettingsInv, SettingsTypeOK, Invalidate, reads, Version, NoRows
<1>2. LockInv'
  BY DEF SettingsInv, LockInv, reads
<1>3. SelectedInv'
  <2> SUFFICES ASSUME NEW r \in Reader, reader[r] = "install"
               PROVE  selected[r] \in Version /\ selected[r] >= floor'[home[r]]
    BY DEF SelectedInv, reads
  <2>1. lock[home[r]] = {r}
    BY DEF SettingsInv, LockInv
  <2>2. home[r] # p
    BY <2>1 DEF Invalidate
  <2> QED
    BY <2>2 DEF SettingsInv, SettingsTypeOK, SelectedInv, Invalidate
<1>4. FloorInv'
  BY DEF SettingsInv, SettingsTypeOK, FloorInv, Invalidate, Version
<1>5. NothingOlderThanInvalidate'
  BY DEF SettingsInv, SettingsTypeOK, NothingOlderThanInvalidate, Invalidate, NoRows
<1> QED BY <1>1, <1>2, <1>3, <1>4, <1>5 DEF SettingsInv

\* A reader that takes the free lock, or releases it, keeps the others' state
\* and the lock in step.
LEMMA LockFollowsReader ==
    ASSUME SettingsTypeOK, LockInv, NEW r \in Reader, NEW state, NEW holder,
           lock[home[r]] \in {{}, {r}},
           holder = IF state \in {"select", "install"} THEN {r} ELSE {},
           Goto(r, state),
           lock' = [lock EXCEPT ![home[r]] = holder]
    PROVE  LockInv'
<1> USE SettingsAssumption
<1> SUFFICES ASSUME NEW s \in Reader
             PROVE  reader'[s] \in {"select", "install"} <=> lock'[home[s]] = {s}
  BY DEF LockInv
<1>1. /\ reader'[s] = IF s = r THEN state ELSE reader[s]
      /\ lock'[home[s]] = IF home[s] = home[r] THEN holder ELSE lock[home[s]]
  BY DEF SettingsTypeOK, Goto
<1>2. reader[s] \in {"select", "install"} <=> lock[home[s]] = {s}
  BY DEF LockInv
<1>3. CASE s = r
  BY <1>1, <1>3
<1>4. CASE s # r
  BY <1>1, <1>2, <1>4
<1> QED BY <1>3, <1>4

\* A step of get() keeps the invariant.
LEMMA ReadKeepsInv ==
    ASSUME SettingsInv, NEW r \in Reader,
           FirstCheck(r) \/ Refresh(r) \/ Return(r)
    PROVE  SettingsInv'
<1> USE SettingsAssumption
<1> USE DEF SettingsInv, SettingsTypeOK, LockInv, SelectedInv, FloorInv,
            NothingOlderThanInvalidate, ReaderState, Version, NoRows, Goto
<1>1. CASE FirstCheck(r)
  BY <1>1 DEF FirstCheck, push
<1>2. CASE SecondCheck(r)
  <2>1. CASE Usable(home[r])
    BY <1>2, <2>1 DEF SecondCheck, push
  <2>2. CASE ~Usable(home[r])
    <3>1. LockInv'
      BY <1>2, <2>2, LockFollowsReader DEF SecondCheck
    <3>2. SettingsTypeOK'
      BY <1>2, <2>2, SMTT(20) DEF SecondCheck, push
    <3>3. SelectedInv' /\ FloorInv'
      BY <1>2, <2>2 DEF SecondCheck, push
    <3>4. NothingOlderThanInvalidate'
      BY <1>2, <2>2 DEF SecondCheck, push
    <3> QED BY <3>1, <3>2, <3>3, <3>4
  <2> QED BY <2>1, <2>2
<1>3. CASE Select(r)
  BY <1>3 DEF Select, push
<1>4. CASE SelectFails(r)
  <2>1. LockInv'
    BY <1>4, LockFollowsReader DEF SelectFails
  <2>2. SettingsTypeOK'
    BY <1>4 DEF SelectFails, push
  <2>3. SelectedInv' /\ FloorInv' /\ NothingOlderThanInvalidate'
    BY <1>4 DEF SelectFails, push
  <2> QED BY <2>1, <2>2, <2>3
<1>5. CASE Install(r)
  <2>1. lock[home[r]] = {r} /\ selected[r] \in Version
    BY <1>5 DEF Install
  <2>2. SettingsTypeOK'
    BY <1>5, <2>1 DEF Install, push
  <2>3. LockInv'
    BY <1>5, <2>1, LockFollowsReader DEF Install
  <2>4. SelectedInv' /\ FloorInv'
    BY <1>5 DEF Install, push
  <2>5. NothingOlderThanInvalidate'
    BY <1>5 DEF Install
  <2> QED BY <2>2, <2>3, <2>4, <2>5
<1>6. CASE Return(r)
  BY <1>6 DEF Return, push
<1> QED BY <1>1, <1>2, <1>3, <1>4, <1>5, <1>6 DEF Refresh

\* For any number of processes, threads and changes of settings, no process
\* caches anything older than its last invalidation.
THEOREM NeverOlderThanInvalidate ==
    SettingsSpec => [](SettingsTypeOK /\ NothingOlderThanInvalidate)
<1> USE SettingsAssumption
<1>1. SettingsInit => SettingsInv
  BY DEF SettingsInit, SettingsInv, SettingsTypeOK, LockInv, SelectedInv, FloorInv,
         NothingOlderThanInvalidate, ReaderState, Version, NoRows
<1>2. SettingsInv /\ [SettingsNext]_settingsVars => SettingsInv'
  <2> SUFFICES ASSUME SettingsInv, [SettingsNext]_settingsVars PROVE SettingsInv'
    OBVIOUS
  <2> USE DEF SettingsInv, SettingsTypeOK, LockInv, SelectedInv, FloorInv,
              NothingOlderThanInvalidate, Version, NoRows
  <2>1. ASSUME NEW r \in Reader, FirstCheck(r) \/ Refresh(r) \/ Return(r)
        PROVE  SettingsInv'
    BY <2>1, ReadKeepsInv
  <2>2. ASSUME NEW p \in Process, Age(p) PROVE SettingsInv'
    BY <2>2 DEF Age, reads, push
  <2>3. ASSUME NEW p \in Process, CommitSetting(p) PROVE SettingsInv'
    BY <2>3 DEF CommitSetting, reads, push
  <2>4. ASSUME NEW p \in Process, RefreshFails(p) PROVE SettingsInv'
    BY <2>4 DEF RefreshFails, reads, push
  <2>5. ASSUME NEW p \in Process, Publish(p) PROVE SettingsInv'
    BY <2>5 DEF Publish, reads
  <2>6. ASSUME NEW p \in Process, DropOwnCache(p) \/ Reseed(p) \/ Notified(p)
        PROVE  SettingsInv'
    <3>1. /\ Invalidate(p)
          /\ UNCHANGED <<version, reads>>
          /\ admin' \in [Process -> {"idle", "committed", "invalidated"}]
          /\ mail' \in [Process -> BOOLEAN]
          /\ listening' \in [Process -> BOOLEAN]
      BY <2>6 DEF DropOwnCache, Reseed, Notified, push
    <3> QED BY <3>1, InvalidateKeepsInv
  <2>7. ASSUME NEW p \in Process, ListenerDies(p) PROVE SettingsInv'
    BY <2>7 DEF ListenerDies, reads
  <2>8. CASE UNCHANGED settingsVars
    BY <2>8 DEF settingsVars
  <2> QED
    BY <2>1, <2>2, <2>3, <2>4, <2>5, <2>6, <2>7, <2>8 DEF SettingsNext, SetStep
<1> QED BY <1>1, <1>2, PTL DEF SettingsSpec, SettingsInv
-----------------------------------------------------------------------------
(* The pipeline state.                                                     *)

\* Builds exclude each other, and only a build with its data holds a version;
\* that data is no older than the last deletion that ended, nor than the one
\* that this very build is for.
BuildsInv ==
    /\ \A b \in Builder, o \in Builder :
          /\ building[b] \in {"build", "install"}
          /\ building[o] \in {"build", "install"}
          => b = o
    /\ \A b \in Builder :
          building[b] = "install" => input[b] \in DataVersion /\ input[b] >= erased
    /\ building["erasure"] = "install" => input["erasure"] >= erasing
    /\ building["erasure"] \in {"idle", "waiting", "build", "install"}
    /\ erased <= source /\ erasing <= source

\* While the refresh loop sleeps after a success, the state is younger than the
\* part of the interval that is over.
ClockInv ==
    /\ building["refresh"] = "built" => age = 0
    /\ building["refresh"] = "idle" /\ ~ failing => age + nap <= Interval

\* A body that no build overtook is that of the state served, and a copy that
\* was not torn carries the tag of its body.
ClientInv ==
    \A c \in Client :
        /\ request[c] # Nothing /\ ~ overtaken[c] => request[c] = served
        /\ ~ copy[c].torn => copy[c].body = copy[c].tagged

ServingInv ==
    ServingTypeOK /\ BuildsInv /\ ErasedStaysGone /\ ClockInv /\ ClientInv
-----------------------------------------------------------------------------
\* A stutter keeps the invariant.
LEMMA ServingStutters ==
    ASSUME ServingInv, UNCHANGED servingVars
    PROVE  ServingInv'
BY DEF ServingInv, ServingTypeOK, BuildsInv, ErasedStaysGone, ClockInv, ClientInv,
       IsStale, servingVars, buildVars, clockVars, clientVars

\* A change of the source, or the start of a build, keeps the invariant.
LEMMA StartKeepsInv ==
    ASSUME ServingInv,
           \/ Ingest \/ WakeUp \/ Erase
           \/ \E b \in Builder : TakesLock(b) \/ ReadSource(b)
    PROVE  ServingInv'
<1> USE ServingAssumption
<1> USE DEF ServingInv, ServingTypeOK, BuildsInv, ErasedStaysGone, ClockInv,
            Builder, BuildStage, DataVersion, Nothing
<1>1. ClientInv'
  BY DEF ClientInv, Ingest, WakeUp, Erase, TakesLock, ReadSource, clientVars
<1>2. CASE Ingest
  BY <1>1, <1>2 DEF Ingest, buildVars, clockVars, clientVars
<1>3. CASE WakeUp
  BY <1>1, <1>3 DEF WakeUp, Reach, clockVars, clientVars
<1>4. CASE Erase
  BY <1>1, <1>4 DEF Erase, Reach, clockVars, clientVars
<1>5. ASSUME NEW b \in Builder, TakesLock(b) PROVE ServingInv'
  BY <1>1, <1>5 DEF TakesLock, Reach, clockVars, clientVars
<1>6. ASSUME NEW b \in Builder, ReadSource(b) PROVE ServingInv'
  BY <1>1, <1>6 DEF ReadSource, Reach, clockVars, clientVars
<1> QED BY <1>2, <1>3, <1>4, <1>5, <1>6

\* The end of a build keeps the invariant: what a refresh installs was read
\* after the last deletion, as the deletion's own build waited for it.
LEMMA EndKeepsInv ==
    ASSUME ServingInv, NEW b \in Builder, InstallState(b) \/ BuildRaises(b)
    PROVE  ServingInv'
<1> USE ServingAssumption
<1>1. CASE InstallState(b)
  <2>1. input[b] \in DataVersion /\ input[b] >= erased
    BY <1>1 DEF InstallState, ServingInv, BuildsInv
  <2>2. ServingTypeOK'
    BY <1>1, <2>1 DEF InstallState, ServingInv, ServingTypeOK, Reach, Builder,
                      BuildStage, DataVersion, OldAge
  <2>3. BuildsInv' /\ ErasedStaysGone'
    BY <1>1, <2>1 DEF InstallState, ServingInv, ServingTypeOK, BuildsInv,
                      ErasedStaysGone, Reach, Builder, BuildStage, DataVersion
  <2>4. ClockInv'
    BY <1>1 DEF InstallState, ServingInv, ServingTypeOK, ClockInv, Reach, Builder
  <2>5. ClientInv'
    BY <1>1 DEF InstallState, ServingInv, ClientInv
  <2> QED BY <2>2, <2>3, <2>4, <2>5 DEF ServingInv
<1>2. CASE BuildRaises(b)
  <2>1. ServingTypeOK'
    BY <1>2 DEF BuildRaises, ServingInv, ServingTypeOK, Reach, Builder,
                BuildStage, DataVersion, clockVars, clientVars
  <2>2. BuildsInv' /\ ErasedStaysGone'
    BY <1>2 DEF BuildRaises, ServingInv, ServingTypeOK, BuildsInv,
                ErasedStaysGone, Reach, Builder, BuildStage, DataVersion
  <2>3. ClockInv' /\ ClientInv'
    BY <1>2 DEF BuildRaises, ServingInv, ServingTypeOK, ClockInv, ClientInv, Reach,
                Builder, clockVars, clientVars
  <2> QED BY <2>1, <2>2, <2>3 DEF ServingInv
<1> QED BY <1>1, <1>2

\* The loop's bookkeeping and the clock keep the invariant: an interval that
\* begins after a success begins with a new state.
LEMMA ClockKeepsInv ==
    ASSUME ServingInv, RefreshEnds \/ Elapse
    PROVE  ServingInv'
<1> USE ServingAssumption
<1> USE DEF ServingInv, ServingTypeOK, Builder
<1>1. ClientInv'
  BY DEF ClientInv, RefreshEnds, Elapse, clientVars
<1>2. CASE RefreshEnds
  <2>1. ServingTypeOK'
    BY <1>2 DEF RefreshEnds, Reach, BuildStage, clientVars
  <2>2. BuildsInv' /\ ErasedStaysGone'
    BY <1>2 DEF RefreshEnds, Reach, BuildsInv, ErasedStaysGone, BuildStage
  <2>3. ClockInv'
    <3>1. /\ building'["refresh"] = "idle"
          /\ nap' = Interval /\ age' = age
      BY <1>2 DEF RefreshEnds, Reach
    <3>2. ~ failing' => building["refresh"] = "built"
      BY <1>2 DEF RefreshEnds
    <3> QED BY <3>1, <3>2 DEF ClockInv
  <2> QED BY <1>1, <2>1, <2>2, <2>3
<1>3. CASE Elapse
  <2>1. ServingTypeOK'
    BY <1>3 DEF Elapse, OldAge, buildVars, clientVars
  <2>2. BuildsInv' /\ ErasedStaysGone'
    BY <1>3 DEF Elapse, BuildsInv, ErasedStaysGone, buildVars
  <2>3. ClockInv'
    BY <1>3 DEF Elapse, ClockInv, OldAge, buildVars
  <2> QED BY <1>1, <2>1, <2>2, <2>3
<1> QED BY <1>2, <1>3

\* What a client sends and holds keeps the invariant: a response carries the
\* tag of its own body unless a build ended in between.
LEMMA ClientKeepsInv ==
    ASSUME ServingInv, NEW c \in Client, MakeBody(c) \/ Respond(c)
    PROVE  ServingInv'
<1> USE ServingAssumption
<1> USE DEF ServingInv
<1>1. BuildsInv' /\ ErasedStaysGone' /\ ClockInv'
  BY DEF BuildsInv, ErasedStaysGone, ClockInv, MakeBody, Respond, buildVars, clockVars
<1>2. CASE MakeBody(c)
  <2>1. ServingTypeOK'
    BY <1>2 DEF MakeBody, ServingTypeOK, buildVars, clockVars
  <2>2. ClientInv'
    BY <1>2 DEF MakeBody, ServingTypeOK, ClientInv
  <2> QED BY <1>1, <2>1, <2>2
<1>3. CASE Respond(c)
  <2> DEFINE response == [body |-> request[c], tagged |-> served, torn |-> overtaken[c]]
  <2>1. response \in Response
    BY <1>3 DEF Respond, ServingTypeOK, Response
  <2>2. ServingTypeOK'
    BY <1>3, <2>1 DEF Respond, ServingTypeOK, buildVars, clockVars
  <2>3. ~ overtaken[c] => request[c] = served
    BY <1>3 DEF Respond, ClientInv
  <2>4. ClientInv'
    BY <1>3, <2>3 DEF Respond, ServingTypeOK, ClientInv
  <2> QED BY <1>1, <2>2, <2>4
<1> QED BY <1>2, <1>3

\* For any number of clients, changes and deletions, and any interval.
THEOREM ServingInvariant == ServingSpec => []ServingInv
<1>1. ServingInit => ServingInv
  <2> SUFFICES ASSUME ServingInit PROVE ServingInv
    OBVIOUS
  <2> USE ServingAssumption DEF ServingInit
  <2>1. ServingTypeOK
    <3>1. age \in 0..OldAge /\ nap \in 0..Interval
      BY DEF OldAge
    <3>2. 0 \in DataVersion
      BY DEF DataVersion
    <3> QED BY <3>1, <3>2 DEF ServingTypeOK, BuildStage
  <2>2. BuildsInv /\ ErasedStaysGone /\ ClockInv
    BY DEF BuildsInv, ErasedStaysGone, ClockInv, Builder
  <2>3. ClientInv
    BY DEF ClientInv, NoCopy
  <2> QED BY <2>1, <2>2, <2>3 DEF ServingInv
<1>2. ServingInv /\ [ServingNext]_servingVars => ServingInv'
  BY ServingStutters, StartKeepsInv, EndKeepsInv, ClockKeepsInv, ClientKeepsInv
     DEF ServingNext
<1> QED BY <1>1, <1>2, PTL DEF ServingSpec

\* Once the reload() of a deletion has returned without an error, no state from
\* before the deletion is served, whatever refresh was under way.
THEOREM DeletedDataIsNotServed == ServingSpec => []ErasedStaysGone
<1>1. ServingInv => ErasedStaysGone
  BY DEF ServingInv
<1> QED BY <1>1, ServingInvariant, PTL

\* Data older than two intervals is flagged as stale unless a refresh is
\* running, for any interval.
THEOREM StalenessIsReported == ServingSpec => []OldDataIsFlagged
<1>1. ServingInv => OldDataIsFlagged
  BY ServingAssumption
     DEF ServingInv, ServingTypeOK, ClockInv, OldDataIsFlagged, IsStale
<1> QED BY <1>1, ServingInvariant, PTL

\* A response that no build overtook leaves its client with the data of the
\* state that is served, as far as the metadata can tell states apart.
THEOREM RevalidationIsSound == ServingSpec => RevalidationIsHonest
<1>1. ServingInv /\ [ServingNext]_servingVars
         => [\A c \in Client :
               request[c] # Nothing /\ request'[c] = Nothing /\ ~ overtaken[c]
               => \/ copy'[c].body = served
                  \/ copy'[c].torn
                  \/ Metadata[copy'[c].body] = Metadata[served]]_servingVars
  <2> SUFFICES ASSUME ServingInv, ServingNext, NEW c \in Client,
                      request[c] # Nothing, request'[c] = Nothing, ~ overtaken[c]
               PROVE  \/ copy'[c].body = served
                      \/ copy'[c].torn
                      \/ Metadata[copy'[c].body] = Metadata[served]
    OBVIOUS
  <2>1. PICK d \in Client : Respond(d)
    <3>1. ASSUME NEW d \in Client, MakeBody(d) PROVE FALSE
      BY <3>1, ServingAssumption
         DEF ServingInv, ServingTypeOK, MakeBody, DataVersion, Nothing
    <3> QED
      BY <3>1 DEF ServingNext, Ingest, WakeUp, Erase, RefreshEnds, Elapse, TakesLock,
                  ReadSource, InstallState, BuildRaises, clientVars
  <2>2. c = d
    BY <2>1 DEF Respond, ServingInv, ServingTypeOK
  <2>3. request[c] = served /\ (~ copy[c].torn => copy[c].body = copy[c].tagged)
    BY DEF ServingInv, ClientInv
  <2>4. CASE HoldsCurrent(c)
    BY <2>1, <2>2, <2>3, <2>4 DEF Respond, HoldsCurrent
  <2>5. CASE ~ HoldsCurrent(c)
    BY <2>1, <2>2, <2>3, <2>5 DEF Respond, ServingInv, ServingTypeOK
  <2> QED BY <2>4, <2>5
<1> QED BY <1>1, ServingInvariant, PTL DEF ServingSpec, RevalidationIsHonest

-----------------------------------------------------------------------------
(* The migrations and the seeding of the settings.                         *)

(***************************************************************************)
(* No two migrations create the same thing, so downgrading one takes       *)
(* nothing away from those before it (alembic/versions).                   *)
(***************************************************************************)
LEMMA CreatesDisjoint ==
    \A i, j \in 1..LastRevision : i # j => Creates[i] \cap Creates[j] = {}
<1>1. /\ Creates[1] = {"settings", "audit_log"}
      /\ Creates[2] = {"outbox_events"}
      /\ Creates[3] = {"outbox_events.trace_id"}
      /\ Creates[4] = {"meetings"}
      /\ Creates[5] = {"audit_log.ip_address"}
  BY DEF Creates, InitialSchema, OutboxEvents, OutboxTraceId, MeetingsTable,
         AuditForensics
<1>2. \A i \in 1..LastRevision : i = 1 \/ i = 2 \/ i = 3 \/ i = 4 \/ i = 5
  BY DEF LastRevision
<1> QED BY <1>1, <1>2

(***************************************************************************)
(* What a full upgrade from a revision leaves is all that there is, and    *)
(* what one downgrade leaves is the revision before (alembic/versions).    *)
(***************************************************************************)
LEMMA AppliedSteps ==
    ASSUME NEW n \in 0..LastRevision
    PROVE  /\ Applied(LastRevision) = Applied(n) \cup Pending(n)
           /\ n > 0 => Applied(n - 1) \cap Creates[n] = {}
           /\ n > 0 => Applied(n - 1) \subseteq Applied(n)
<1>1. 1..LastRevision = (1..n) \cup ((n + 1)..LastRevision)
  BY DEF LastRevision
<1>2. Applied(LastRevision) = Applied(n) \cup Pending(n)
  BY <1>1 DEF Applied, Pending
<1>3. ASSUME n > 0
      PROVE  Applied(n - 1) \cap Creates[n] = {}
  <2>1. n \in 1..LastRevision /\ \A r \in 1..(n - 1) : r \in 1..LastRevision /\ r # n
    BY <1>3 DEF LastRevision
  <2>2. \A r \in 1..(n - 1) : Creates[r] \cap Creates[n] = {}
    BY <2>1, CreatesDisjoint
  <2> QED BY <2>2 DEF Applied
<1>4. ASSUME n > 0
      PROVE  Applied(n - 1) \subseteq Applied(n)
  <2>1. 1..(n - 1) \subseteq 1..n
    BY <1>4 DEF LastRevision
  <2> QED BY <2>1 DEF Applied
<1> QED BY <1>2, <1>3, <1>4

(***************************************************************************)
(* The inductive invariant: the revision is one of those there are, and    *)
(* what it stands for is there.                                            *)
(***************************************************************************)
LedgerInv == ledger \in 0..LastRevision /\ LedgerHolds

LEMMA LedgerStart == BootInit => LedgerInv
<1> SUFFICES ASSUME BootInit PROVE LedgerInv
  OBVIOUS
<1>1. ledger = 0 /\ 1..0 = {}
  BY DEF BootInit
<1>2. Applied(ledger) = {}
  BY <1>1 DEF Applied
<1> QED BY <1>1, <1>2 DEF LedgerInv, LedgerHolds, LastRevision

(***************************************************************************)
(* An upgrade that commits, from whatever it read, keeps the invariant.    *)
(***************************************************************************)
LEMMA UpgradeKeeps ==
    ASSUME LedgerInv, NEW p \in Proc, Upgrade(p)
    PROVE  LedgerInv'
<1>1. CASE UNCHANGED <<schema, ledger>>
  BY <1>1 DEF LedgerInv, LedgerHolds, Applied
<1>2. CASE seen[p] = Pending(ledger) /\ schema' = schema \cup seen[p]
           /\ ledger' = LastRevision
  <2>1. Applied(LastRevision) = Applied(ledger) \cup Pending(ledger)
    BY AppliedSteps DEF LedgerInv
  <2>2. Applied(ledger') \subseteq schema'
    BY <1>2, <2>1 DEF LedgerInv, LedgerHolds
  <2>3. LedgerHolds'
    BY <2>2 DEF LedgerHolds, Applied, Creates
  <2> QED BY <1>2, <2>3 DEF LedgerInv, LastRevision
<1> QED BY <1>1, <1>2 DEF Upgrade

LEMMA DowngradeKeeps ==
    ASSUME LedgerInv, Downgrade
    PROVE  LedgerInv'
<1>1. /\ ledger \in 0..LastRevision /\ ledger > 0
      /\ schema' = schema \ Creates[ledger] /\ ledger' = ledger - 1
  BY DEF LedgerInv, Downgrade, Downgraded
<1>2. /\ Applied(ledger - 1) \cap Creates[ledger] = {}
      /\ Applied(ledger - 1) \subseteq Applied(ledger)
  BY <1>1, AppliedSteps
<1>3. Applied(ledger') \subseteq schema'
  BY <1>1, <1>2 DEF LedgerInv, LedgerHolds
<1>4. LedgerHolds'
  BY <1>3 DEF LedgerHolds, Applied, Creates
<1> QED BY <1>1, <1>4 DEF LedgerInv, LastRevision

LEMMA LedgerKept == LedgerInv /\ [BootNext]_bootVars => LedgerInv'
<1> SUFFICES ASSUME LedgerInv, [BootNext]_bootVars PROVE LedgerInv'
  OBVIOUS
<1>1. ASSUME UNCHANGED <<schema, ledger>> PROVE LedgerInv'
  BY <1>1 DEF LedgerInv, LedgerHolds, Applied
<1>2. ASSUME NEW p \in Proc, CreateTables(p) PROVE LedgerInv'
  <2>1. ledger' = ledger /\ schema \subseteq schema'
    BY <1>2 DEF CreateTables
  <2> QED BY <2>1 DEF LedgerInv, LedgerHolds, Applied
<1>3. ASSUME NEW p \in Proc, BootStep(p) PROVE LedgerInv'
  BY <1>1, <1>2, <1>3, UpgradeKeeps
     DEF BootStep, Start, ReadLedger, CheckTables, ReadKeys, SeedDefaults,
         FindPassword, SeedPassword, WarmUp, Stop, databaseVars
<1>4. ASSUME NEW p \in Proc, \/ \E k \in DOMAIN rows : OperatorWrites(p, k)
                             \/ Drain(p) \/ Kill(p)
      PROVE  LedgerInv'
  BY <1>1, <1>4 DEF OperatorWrites, Drain, Kill, databaseVars
<1>5. CASE UNCHANGED bootVars
  BY <1>1, <1>5 DEF bootVars
<1> QED BY <1>3, <1>4, <1>5, DowngradeKeeps DEF BootNext

(***************************************************************************)
(* However many containers migrate at once, are killed, or find tables of  *)
(* create_all(), and whatever is downgraded, the revision in               *)
(* alembic_version never claims what the database does not have.           *)
(***************************************************************************)
THEOREM LedgerAlwaysHolds == BootSpec => []LedgerHolds
<1>1. LedgerInv => LedgerHolds
  BY DEF LedgerInv
<1> QED BY LedgerStart, LedgerKept, <1>1, PTL DEF BootSpec

(***************************************************************************)
(* Rows that are inserted where none was leave what an operator wrote.     *)
(***************************************************************************)
LEMMA InsertKeepsOperator ==
    ASSUME NEW p, NEW new, NEW done, InsertAll(p, new, done)
    PROVE  \A k \in DOMAIN rows : rows[k] = "operator" => rows'[k] = "operator"
<1>1. CASE UNCHANGED rows
  BY <1>1
<1>2. CASE (\A k \in new : ~Stored(k)) /\ rows' = Seeded(new)
  <2>1. \A k \in DOMAIN rows : rows[k] = "operator" => k \notin new
    BY <1>2 DEF Stored
  <2> QED BY <1>2, <2>1 DEF Seeded
<1> QED BY <1>1, <1>2 DEF InsertAll

(***************************************************************************)
(* Whatever a process found before an operator's write to another one, its *)
(* seeding leaves the written row alone, by the primary key.               *)
(***************************************************************************)
THEOREM SeedingNeverOverwrites == BootSpec => SeedsNeverOverwrite
<1> DEFINE Kept ==
        \A k \in DOMAIN rows : rows[k] = "operator" => rows'[k] = "operator"
<1>1. ASSUME [BootNext]_bootVars PROVE [Kept]_bootVars
  <2>1. ASSUME UNCHANGED rows PROVE Kept
    BY <2>1
  <2>2. ASSUME NEW p \in Proc, SeedDefaults(p) PROVE Kept
    BY <2>1, <2>2, InsertKeepsOperator DEF SeedDefaults
  <2>3. ASSUME NEW p \in Proc, SeedPassword(p) PROVE Kept
    BY <2>3, InsertKeepsOperator DEF SeedPassword
  <2>4. ASSUME NEW p \in Proc, NEW k \in DOMAIN rows, OperatorWrites(p, k)
        PROVE  Kept
    BY <2>4 DEF OperatorWrites
  <2>5. ASSUME NEW p \in Proc, BootStep(p) PROVE Kept
    BY <2>1, <2>2, <2>3, <2>5
       DEF BootStep, Start, ReadLedger, Upgrade, CheckTables, CreateTables,
           ReadKeys, FindPassword, WarmUp, Stop, databaseVars
  <2>6. ASSUME NEW p \in Proc, Drain(p) \/ Kill(p) PROVE Kept
    BY <2>1, <2>6 DEF Drain, Kill, databaseVars
  <2>7. ASSUME Downgrade PROVE Kept
    BY <2>1, <2>7 DEF Downgrade
  <2> QED BY <1>1, <2>4, <2>5, <2>6, <2>7 DEF BootNext
<1> QED BY <1>1, PTL DEF BootSpec, SeedsNeverOverwrite
=============================================================================
