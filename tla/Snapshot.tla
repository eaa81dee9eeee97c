------------------------------ MODULE Snapshot ------------------------------
(***************************************************************************)
(* The shared PipelineState snapshot: api/snapshot.py (storage),           *)
(* api/state.py (replicas) and the writers of                              *)
(* api/snapshot_writer.py and api/jobs.py, with snapshot.url set.          *)
(*                                                                         *)
(* Storage holds two files, replaced one after the other.  A replica has   *)
(* two threads: one that runs reload() under the state lock, started by    *)
(* the first get_state(), the refresh loop or a GDPR deletion, and the     *)
(* manifest poll.  A writer runs the same reload() and writes its result.  *)
(* Processes may hold different signing keys, or none; they run one        *)
(* release, with one snapshot format.                                      *)
(* Data is abstracted to the version of the source it was built from, a    *)
(* checksum to the number of the write that made the file.                 *)
(***************************************************************************)
EXTENDS Integers, Sequences

CONSTANTS
    Replica,     \* API replicas
    Writer,      \* snapshot jobs that may run at the same time
    WriterDies,  \* writers may be killed
    Key,         \* [Process -> keys]: its signing secret, NoKey without one
    NoKey,
    MaxVersion,  \* bound on the versions of the source data
    MaxWrites    \* bound on the payloads written

Nobody == "nobody"

ASSUME SnapshotAssumption ==
    /\ Replica \cap Writer = {} /\ Nobody \notin Writer
    /\ DOMAIN Key = Replica \cup Writer
    /\ MaxVersion \in Nat
    /\ MaxWrites \in Nat

Process == Replica \cup Writer
Thread == (Process \X {"reload"}) \cup (Replica \X {"poll"})

VARIABLES
    source,    \* version of the meetings in the repository
    manifest,  \* checksum in manifest.json, 0 when there is none
    maker,     \* the writer of manifest.json; Nobody when there is none
    payload,   \* snapshot.pkl.gz: its checksum and its data
    written,   \* history: data of every payload written, by checksum
    mem,       \* mem[p]: data of p's _state, Cold when _state is None
    loaded,    \* loaded[p]: _loaded_snapshot_checksum, 0 for None
    pc,        \* pc[t]: where thread t is
    first,     \* first[t]: checksum of the manifest t's caller read
    second,    \* second[t]: checksum of the manifest read_snapshot() read
    got,       \* got[r]: data the poll of r read and has not installed
    since,     \* since[p]: history, the source when p's reload() began
    mine       \* mine[w]: checksum of the payload w wrote
               \* (registers of a thread that is done are set back)

vars == <<source, manifest, maker, payload, written, mem, loaded, pc, first,
          second, got, since, mine>>

storage == <<source, manifest, maker, payload, written>>

Cold == -1

Init ==
    /\ source = 0
    /\ manifest = 0 /\ maker = Nobody
    /\ payload = [checksum |-> 0, data |-> Cold]
    /\ written = <<>>
    /\ mem = [p \in Process |-> Cold]
    /\ loaded = [p \in Process |-> 0]
    /\ pc = [t \in Thread |-> "idle"]
    /\ first = [t \in Thread |-> 0]
    /\ second = [t \in Thread |-> 0]
    /\ got = [r \in Replica |-> Cold]
    /\ since = [p \in Process |-> 0]
    /\ mine = [w \in Writer |-> 0]

\* Meetings are ingested, or a customer is deleted.
SourceChanges ==
    /\ source < MaxVersion
    /\ source' = source + 1
    /\ UNCHANGED <<manifest, maker, payload, written, mem, loaded, pc, first,
                   second, got, since, mine>>
-----------------------------------------------------------------------------
(* reload(): with _lock: _state = _build().                                *)

Reloader(p) == <<p, "reload">>
Poller(r) == <<r, "poll">>
LockFree(p) == pc[Reloader(p)] \in {"idle", "built", "half"}

\* _build() tries the snapshot first: read_manifest() in _try_load_snapshot().
StartReload(p) ==
    /\ pc[Reloader(p)] = "idle"
    /\ first' = [first EXCEPT ![Reloader(p)] = manifest]
    /\ since' = [since EXCEPT ![p] = source]
    /\ pc' = [pc EXCEPT ![Reloader(p)] =
                 IF manifest = 0 THEN "build" ELSE "verify"]
    /\ UNCHANGED <<storage, mem, loaded, second, got, mine>>

\* A process that has a key takes what was signed with that key; one without
\* takes signed and unsigned snapshots.
Trusts(p, w) == Key[p] \in {NoKey, Key[w]}

\* read_snapshot() reads the manifest once more.
ReadAgain(t) ==
    /\ pc[t] = "verify"
    /\ Trusts(t[1], maker)
    /\ second' = [second EXCEPT ![t] = manifest]
    /\ pc' = [pc EXCEPT ![t] = "payload"]
    /\ UNCHANGED <<storage, mem, loaded, first, got, since, mine>>

\* It refuses the snapshot: a reload() builds, the poll goes on with its next
\* turn.
Refuse(t) ==
    /\ pc[t] = "verify"
    /\ ~ Trusts(t[1], maker)
    /\ first' = [first EXCEPT ![t] = 0]
    /\ pc' = [pc EXCEPT ![t] = IF t[2] = "poll" THEN "idle" ELSE "build"]
    /\ UNCHANGED <<storage, mem, loaded, second, got, since, mine>>

\* What a reload() leads to: a writer goes on to write the result.
Done(p) == IF p \in Writer THEN "built" ELSE "idle"

\* The registers of a reload() that loaded the snapshot.
Forget(t) ==
    /\ first' = [first EXCEPT ![t] = 0]
    /\ second' = [second EXCEPT ![t] = 0]
    /\ since' = IF t[1] \in Writer THEN since ELSE [since EXCEPT ![t[1]] = 0]

\* The payload matches: _state is the snapshot, under the first checksum.
LoadSnapshot(p) ==
    LET t == Reloader(p) IN
    /\ pc[t] = "payload"
    /\ payload.checksum = second[t]
    /\ mem' = [mem EXCEPT ![p] = payload.data]
    /\ loaded' = [loaded EXCEPT ![p] = first[t]]
    /\ pc' = [pc EXCEPT ![t] = Done(p)]
    /\ Forget(t)
    /\ UNCHANGED <<storage, got, mine>>

\* The payload does not match, or one of the reads failed.
Unreadable(p) ==
    LET t == Reloader(p) IN
    /\ pc[t] = "payload"
    /\ pc' = [pc EXCEPT ![t] = "build"]
    /\ first' = [first EXCEPT ![t] = 0]
    /\ second' = [second EXCEPT ![t] = 0]
    /\ UNCHANGED <<storage, mem, loaded, got, since, mine>>

\* No usable snapshot: build from the repository.
Build(p) ==
    LET t == Reloader(p) IN
    /\ pc[t] = "build"
    /\ mem' = [mem EXCEPT ![p] = source]
    /\ pc' = [pc EXCEPT ![t] = Done(p)]
    /\ since' = IF p \in Writer THEN since ELSE [since EXCEPT ![p] = 0]
    /\ UNCHANGED <<storage, loaded, first, second, got, mine>>
-----------------------------------------------------------------------------
(* The manifest poll of a replica, every 30 seconds.                       *)

StartPoll(r) ==
    /\ pc[Poller(r)] = "idle"
    /\ mem[r] # Cold
    /\ manifest \notin {0, loaded[r]}
    /\ first' = [first EXCEPT ![Poller(r)] = manifest]
    /\ pc' = [pc EXCEPT ![Poller(r)] = "verify"]
    /\ UNCHANGED <<storage, mem, loaded, second, got, since, mine>>

PollReads(r) ==
    LET t == Poller(r) IN
    /\ pc[t] = "payload"
    /\ payload.checksum = second[t]
    /\ got' = [got EXCEPT ![r] = payload.data]
    /\ pc' = [pc EXCEPT ![t] = "install"]
    /\ second' = [second EXCEPT ![t] = 0]
    /\ UNCHANGED <<storage, mem, loaded, first, since, mine>>

\* Mutant: the poll loop ends at the first payload it cannot read.
PollGivesUpForGood(r) ==
    LET t == Poller(r) IN
    /\ pc[t] = "payload"
    /\ pc' = [pc EXCEPT ![t] = "ended"]
    /\ UNCHANGED <<storage, mem, loaded, first, second, got, since, mine>>

\* The payload does not match, or one of the reads failed: the loop goes on
\* with its next turn.
PollGivesUp(r) ==
    LET t == Poller(r) IN
    /\ pc[t] = "payload"
    /\ pc' = [pc EXCEPT ![t] = "idle"]
    /\ first' = [first EXCEPT ![t] = 0]
    /\ second' = [second EXCEPT ![t] = 0]
    /\ UNCHANGED <<storage, mem, loaded, got, since, mine>>

\* with _lock: _state = payload
Install(r) ==
    /\ pc[Poller(r)] = "install"
    /\ LockFree(r)
    /\ mem' = [mem EXCEPT ![r] = got[r]]
    /\ pc' = [pc EXCEPT ![Poller(r)] = "stamp"]
    /\ UNCHANGED <<storage, loaded, first, second, got, since, mine>>

\* Mutant: the checksum is read from the manifest again.
StampLatest(r) ==
    /\ pc[Poller(r)] = "stamp"
    /\ loaded' = [loaded EXCEPT ![r] = manifest]
    /\ got' = [got EXCEPT ![r] = Cold]
    /\ first' = [first EXCEPT ![Poller(r)] = 0]
    /\ pc' = [pc EXCEPT ![Poller(r)] = "idle"]
    /\ UNCHANGED <<storage, mem, second, since, mine>>

\* _loaded_snapshot_checksum = ..., after the lock is released.
Stamp(r) ==
    /\ pc[Poller(r)] = "stamp"
    /\ loaded' = [loaded EXCEPT ![r] = first[Poller(r)]]
    /\ got' = [got EXCEPT ![r] = Cold]
    /\ first' = [first EXCEPT ![Poller(r)] = 0]
    /\ pc' = [pc EXCEPT ![Poller(r)] = "idle"]
    /\ UNCHANGED <<storage, mem, second, since, mine>>
-----------------------------------------------------------------------------
(* write_snapshot(): payload, then manifest, each an atomic rename.        *)

\* Every write has a checksum of its own: the gzip header holds the time.
WritePayload(w) ==
    /\ pc[Reloader(w)] = "built"
    /\ Len(written) < MaxWrites
    /\ written' = Append(written, mem[w])
    /\ payload' = [checksum |-> Len(written'), data |-> mem[w]]
    /\ mine' = [mine EXCEPT ![w] = Len(written')]
    /\ pc' = [pc EXCEPT ![Reloader(w)] = "half"]
    /\ UNCHANGED <<source, manifest, maker, mem, loaded, first, second, got, since>>

\* The writer's process ends: a job or the end of main().
Exit(w) ==
    /\ mine' = [mine EXCEPT ![w] = 0]
    /\ mem' = [mem EXCEPT ![w] = Cold]
    /\ loaded' = [loaded EXCEPT ![w] = 0]
    /\ since' = [since EXCEPT ![w] = 0]
    /\ first' = [first EXCEPT ![Reloader(w)] = 0]
    /\ second' = [second EXCEPT ![Reloader(w)] = 0]
    /\ pc' = [pc EXCEPT ![Reloader(w)] = "idle"]

WriteManifest(w) ==
    /\ pc[Reloader(w)] = "half"
    /\ manifest' = mine[w]
    /\ maker' = w
    /\ Exit(w)
    /\ UNCHANGED <<source, payload, written, got>>

Kill(w) ==
    /\ WriterDies
    /\ pc[Reloader(w)] # "idle"
    /\ Exit(w)
    /\ UNCHANGED <<storage, got>>
-----------------------------------------------------------------------------
ReloadStep(p) ==
    \/ ReadAgain(Reloader(p)) \/ Refuse(Reloader(p))
    \/ LoadSnapshot(p) \/ Unreadable(p) \/ Build(p)

PollStep(r) ==
    \/ StartPoll(r) \/ ReadAgain(Poller(r)) \/ Refuse(Poller(r))
    \/ PollReads(r) \/ PollGivesUp(r) \/ Install(r) \/ Stamp(r)

WriteStep(w) == WritePayload(w) \/ WriteManifest(w) \/ Kill(w)

Next ==
    \/ SourceChanges
    \/ \E p \in Process : StartReload(p) \/ ReloadStep(p)
    \/ \E r \in Replica : PollStep(r)
    \/ \E w \in Writer : WriteStep(w)

Spec == Init /\ [][Next]_vars

\* Threads go on; the poll wakes every 30 seconds; a replica is warmed up; and
\* a payload that matches its manifest is not unreadable for ever.
Fairness ==
    /\ \A p \in Process : WF_vars(ReloadStep(p))
    /\ \A r \in Replica : /\ WF_vars(PollStep(r))
                          /\ SF_vars(PollReads(r))
                          /\ WF_vars(mem[r] = Cold /\ StartReload(r))
    /\ \A w \in Writer : WF_vars(WriteManifest(w))

LiveSpec == Spec /\ Fairness
-----------------------------------------------------------------------------
Version == 0..MaxVersion
Checksum == 0..MaxWrites

TypeOK ==
    /\ source \in Version
    /\ manifest \in Checksum
    /\ maker \in Writer \cup {Nobody} /\ (maker = Nobody <=> manifest = 0)
    /\ payload \in [checksum : Checksum, data : Version \cup {Cold}]
    /\ written \in Seq(Version)
    /\ mem \in [Process -> Version \cup {Cold}]
    /\ loaded \in [Process -> Checksum]
    /\ pc \in [Thread -> {"idle", "verify", "payload", "build", "install",
                          "stamp", "built", "half"}]
    /\ first \in [Thread -> Checksum]
    /\ second \in [Thread -> Checksum]
    /\ got \in [Replica -> Version \cup {Cold}]
    /\ since \in [Process -> Version]
    /\ mine \in [Writer -> Checksum]

\* A replica whose poll has nothing to do, because the manifest shows the
\* checksum it loaded, serves data at least as new as that snapshot's, however
\* its reloads, its poll and the writers interleaved.
NotStuckStale ==
    \A r \in Replica :
        /\ pc[Poller(r)] = "idle"
        /\ pc[Reloader(r)] = "idle"
        /\ manifest # 0
        /\ loaded[r] = manifest
        => mem[r] >= written[manifest]

\* "Replicas detect a fresh snapshot via the manifest's checksum and reload
\* without restarting" (snapshot_writer.py:6-7): once no job runs any more, and
\* unless it left a payload that its manifest does not name, every replica that
\* trusts the last writer serves the published data or newer.
ReplicasCatchUp ==
    <>[](payload.checksum = manifest)
        => <>[](\A r \in Replica : manifest # 0 /\ Trusts(r, maker)
                                    => mem[r] >= written[manifest])

\* "So the dashboard never serves stale data after deletion" (gdpr.py:148-150):
\* a reload() that begins after a change of the source shows it.
ReloadShowsDeletion ==
    [][\A r \in Replica :
          pc[Reloader(r)] # "idle" /\ pc'[Reloader(r)] = "idle"
             => mem'[r] >= since[r]]_vars
=============================================================================
