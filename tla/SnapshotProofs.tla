--------------------------- MODULE SnapshotProofs ---------------------------
(***************************************************************************)
(* The proof that a replica never takes older data for the published       *)
(* snapshot (NotStuckStale).  The checksum of the manifest is read three   *)
(* times on the way to a loaded snapshot: by the caller, by read_snapshot() *)
(* and by the next turn of the poll.  That the first and the last agree    *)
(* says something of the second because a manifest that was replaced never *)
(* comes back: each write has a checksum of its own, and writes its        *)
(* manifest once.                                                          *)
(***************************************************************************)
EXTENDS Snapshot, TLAPS

\* Data come from the source, and the payload is one that was written.
FromSource ==
    /\ \A c \in DOMAIN written : written[c] \in 0..source
    /\ \A p \in Process : mem[p] <= source
    /\ \A r \in Replica : got[r] <= source
    /\ payload.checksum \in 0..Len(written)
    /\ payload.checksum # 0 => payload.data = written[payload.checksum]

\* Checksums are those of payloads that were written.
Written ==
    /\ manifest \in 0..Len(written)
    /\ \A p \in Process : loaded[p] \in 0..Len(written)
    /\ \A t \in Thread : first[t] \in 0..Len(written)

\* A snapshot is read when there is one; who writes has something to write.
InOrder ==
    /\ \A t \in Thread : pc[t] \in {"verify", "payload", "install", "stamp"} => manifest # 0
    /\ \A t \in Thread : pc[t] = "payload" => second[t] # 0
    /\ \A w \in Writer : pc[Reloader(w)] \in {"built", "half"} => mem[w] # Cold

\* What a writer is about to publish has never been published.
Unpublished ==
    \A w \in Writer : pc[Reloader(w)] = "half" =>
        /\ mine[w] \in 1..Len(written)
        /\ mine[w] # manifest
        /\ \A p \in Process : loaded[p] # mine[w]
        /\ \A t \in Thread : first[t] # mine[w]
        /\ \A v \in Writer : pc[Reloader(v)] = "half" /\ mine[v] = mine[w] => v = w

\* A manifest that is still there was there all the time.
ReadsAgree ==
    /\ \A t \in Thread : pc[t] = "payload" /\ first[t] = manifest => second[t] = manifest
    /\ \A r \in Replica :
          pc[Poller(r)] \in {"install", "stamp"} /\ first[Poller(r)] = manifest
             => got[r] = written[manifest]

\* Between Install() and Stamp() a reload() may run, which can only have read
\* the manifest that the poll has read, if that one is still there.
Stamping ==
    \A r \in Replica : pc[Poller(r)] = "stamp" /\ first[Poller(r)] = manifest =>
        /\ mem[r] >= written[manifest]
        /\ pc[Reloader(r)] = "payload" => second[Reloader(r)] = manifest

Loaded ==
    \A r \in Replica : pc[Poller(r)] # "stamp" /\ manifest # 0 /\ loaded[r] = manifest
        => mem[r] >= written[manifest]

SnapshotInv ==
    /\ TypeOK /\ FromSource /\ Written /\ InOrder
    /\ Unpublished /\ ReadsAgree /\ Stamping /\ Loaded
-----------------------------------------------------------------------------
(* Threads.                                                                *)

LEMMA Threads ==
    /\ \A p \in Process : Reloader(p) \in Thread
    /\ \A r \in Replica : Poller(r) \in Thread
    /\ \A p, q \in Process : Reloader(p) = Reloader(q) => p = q
    /\ \A r, q \in Replica : Poller(r) = Poller(q) => r = q
    /\ \A p \in Process, r \in Replica : Reloader(p) # Poller(r)
    /\ \A t \in Thread : \/ \E p \in Process : t = Reloader(p)
                         \/ \E r \in Replica : t = Poller(r)
    /\ Replica \subseteq Process /\ Writer \subseteq Process
  BY DEF Reloader, Poller, Thread, Process

\* The initial state satisfies the invariant.
LEMMA InvInit == Init => SnapshotInv
  BY SnapshotAssumption, Threads
  DEF Init, SnapshotInv, TypeOK, FromSource, Written, InOrder, Unpublished,
      ReadsAgree, Stamping, Loaded, Version, Checksum, Cold, Nobody

LEMMA TypeStep == SnapshotInv /\ [Next]_vars => TypeOK'
  <1> SUFFICES ASSUME SnapshotInv, [Next]_vars PROVE TypeOK'
    OBVIOUS
  <1> USE SnapshotAssumption DEF SnapshotInv, TypeOK, Version, Checksum, storage
  <1>1. CASE SourceChanges
    BY <1>1 DEF SourceChanges
  <1>2. ASSUME NEW p \in Process, StartReload(p) PROVE TypeOK'
    BY <1>2, Threads DEF StartReload
  <1>3. ASSUME NEW t \in Thread, ReadAgain(t) PROVE TypeOK'
    BY <1>3 DEF ReadAgain
  <1>4. ASSUME NEW t \in Thread, Refuse(t) PROVE TypeOK'
    BY <1>4 DEF Refuse
  <1>5. ASSUME NEW p \in Process, LoadSnapshot(p) PROVE TypeOK'
    <2> Reloader(p) \in Thread /\ Reloader(p)[1] = p
      BY Threads DEF Reloader
    <2> QED BY <1>5 DEF LoadSnapshot, Forget, Done
  <1>6. ASSUME NEW p \in Process, Unreadable(p) PROVE TypeOK'
    <2> Reloader(p) \in Thread
      BY Threads
    <2> QED BY <1>6 DEF Unreadable
  <1>7. ASSUME NEW p \in Process, Build(p) PROVE TypeOK'
    <2> Reloader(p) \in Thread
      BY Threads
    <2>1. Done(p) \in {"built", "idle"}
      BY DEF Done
    <2> QED BY <1>7, <2>1, SMTT(20) DEF Build
  <1>8. ASSUME NEW r \in Replica,
               StartPoll(r) \/ PollReads(r) \/ PollGivesUp(r) \/ Install(r) \/ Stamp(r)
        PROVE  TypeOK'
    <2> Poller(r) \in Thread /\ r \in Process
      BY Threads
    <2>1. CASE StartPoll(r)
      BY <2>1 DEF StartPoll
    <2>2. CASE PollReads(r)
      BY <2>2 DEF PollReads
    <2>3. CASE PollGivesUp(r)
      BY <2>3 DEF PollGivesUp
    <2>4. CASE Install(r)
      BY <2>4 DEF Install
    <2>5. CASE Stamp(r)
      BY <2>5 DEF Stamp
    <2> QED BY <1>8, <2>1, <2>2, <2>3, <2>4, <2>5
  <1>9. ASSUME NEW w \in Writer, WritePayload(w) PROVE TypeOK'
    <2> w \in Process /\ Reloader(w) \in Thread
      BY Threads
    <2>1. mem[w] \in Version
      BY <1>9 DEF WritePayload, InOrder
    <2>2. Len(written') = Len(written) + 1 /\ written' \in Seq(Version)
      BY <1>9, <2>1 DEF WritePayload
    <2>3. Len(written') \in Checksum
      BY <1>9, <2>2 DEF WritePayload
    <2> QED BY <1>9, <2>1, <2>2, <2>3 DEF WritePayload
  <1>10. ASSUME NEW w \in Writer, WriteManifest(w) \/ Kill(w) PROVE TypeOK'
    <2> w \in Process /\ Reloader(w) \in Thread
      BY Threads
    <2>1. /\ mem' \in [Process -> Version \cup {Cold}]
          /\ loaded' \in [Process -> Checksum]
          /\ pc' \in [Thread -> {"idle", "verify", "payload", "build", "install",
                                 "stamp", "built", "half"}]
          /\ first' \in [Thread -> Checksum]
          /\ second' \in [Thread -> Checksum]
          /\ since' \in [Process -> Version]
          /\ mine' \in [Writer -> Checksum]
      <3>1. Exit(w)
        BY <1>10 DEF WriteManifest, Kill
      <3> QED BY <3>1 DEF Exit
    <2>2. CASE WriteManifest(w)
      <3>1. manifest' = mine[w] /\ mine[w] \in Checksum /\ mine[w] # 0
        BY <2>2 DEF WriteManifest, Unpublished
      <3> QED BY <2>1, <2>2, <3>1 DEF WriteManifest
    <2>3. CASE Kill(w)
      BY <2>1, <2>3 DEF Kill
    <2> QED BY <1>10, <2>2, <2>3
  <1>11. CASE UNCHANGED vars
    BY <1>11 DEF vars
  <1> QED BY <1>1, <1>2, <1>3, <1>4, <1>5, <1>6, <1>7, <1>8, <1>9, <1>10, <1>11, Threads
          DEF Next, ReloadStep, PollStep, WriteStep
-----------------------------------------------------------------------------
(* One lemma per step that changes what the rest of SnapshotInv is about.  *)

LEMMA ReloadSteps ==
    ASSUME SnapshotInv, TypeOK', NEW p \in Process,
           \/ StartReload(p) \/ LoadSnapshot(p) \/ Unreadable(p) \/ Build(p)
           \/ ReadAgain(Reloader(p)) \/ Refuse(Reloader(p))
    PROVE  SnapshotInv'
  <1> DEFINE t == Reloader(p)
  <1> USE DEF SnapshotInv, storage
  <1> t \in Thread /\ t[1] = p /\ t[2] = "reload"
    BY Threads DEF Reloader
  <1>1. CASE StartReload(p)
    <2> USE <1>1 DEF StartReload
    <2>1. FromSource'
      BY DEF FromSource
    <2>2. Written' /\ InOrder'
      BY Threads DEF Written, InOrder, TypeOK
    <2>3. Unpublished'
      BY Threads DEF Unpublished, TypeOK
    <2>4. ReadsAgree' /\ Stamping' /\ Loaded'
      BY Threads DEF ReadsAgree, Stamping, Loaded, TypeOK
    <2> QED BY <2>1, <2>2, <2>3, <2>4
  <1>2. CASE LoadSnapshot(p)
    <2> USE <1>2 DEF LoadSnapshot
    <2>1. /\ second[t] \in DOMAIN written
          /\ payload.data = written[second[t]]
          /\ payload.data \in 0..source
      BY DEF InOrder, FromSource, TypeOK
    <2>2. /\ first' = [first EXCEPT ![t] = 0]
          /\ second' = [second EXCEPT ![t] = 0]
          /\ pc'[t] \in {"built", "idle"}
          /\ pc' = [pc EXCEPT ![t] = pc'[t]]
      BY DEF Forget, Done, TypeOK
    <2>3. FromSource'
      BY <2>1 DEF FromSource, TypeOK
    <2>4. Written'
      BY <2>2 DEF Written, TypeOK
    <2>5. InOrder'
      BY <2>1, <2>2, Threads DEF InOrder, FromSource, TypeOK, Cold
    <2>6. Unpublished'
      BY <2>2, Threads DEF Unpublished, TypeOK
    <2>7. ReadsAgree'
      BY <2>2, Threads DEF ReadsAgree, TypeOK, InOrder
    <2>8. Stamping'
      BY <2>1, <2>2, Threads DEF Stamping, TypeOK, InOrder
    <2>9. Loaded'
      BY <2>1, <2>2, Threads DEF ReadsAgree, Loaded, TypeOK
    <2> QED BY <2>3, <2>4, <2>5, <2>6, <2>7, <2>8, <2>9
  <1>3. CASE Unreadable(p)
    <2> USE <1>3 DEF Unreadable
    <2>1. FromSource'
      BY DEF FromSource, TypeOK
    <2>2. Written' /\ InOrder'
      BY Threads DEF Written, InOrder, TypeOK
    <2>3. Unpublished'
      BY Threads DEF Unpublished, TypeOK
    <2>4. ReadsAgree'
      BY Threads DEF ReadsAgree, TypeOK, FromSource, InOrder
    <2>5. Stamping' /\ Loaded'
      BY Threads DEF ReadsAgree, Stamping, Loaded, FromSource, TypeOK
    <2> QED BY <2>1, <2>2, <2>3, <2>4, <2>5
  <1>4. CASE Build(p)
    <2> USE <1>4 DEF Build
    <2>1. source \in Nat /\ (manifest # 0 => written[manifest] \in 0..source)
      BY SnapshotAssumption DEF FromSource, Written, TypeOK, Version
    <2>2. /\ pc'[t] \in {"built", "idle"}
          /\ pc' = [pc EXCEPT ![t] = pc'[t]]
      BY DEF Done, TypeOK
    <2>3. FromSource'
      BY <2>1 DEF FromSource, TypeOK
    <2>4. Written'
      BY DEF Written
    <2>5. InOrder'
      BY <2>1, <2>2, Threads DEF InOrder, TypeOK, Cold
    <2>6. Unpublished'
      BY <2>2, Threads DEF Unpublished, TypeOK
    <2>7. ReadsAgree'
      BY <2>2, Threads DEF ReadsAgree, TypeOK
    <2>8. Stamping'
      BY <2>1, <2>2, Threads DEF Stamping, TypeOK, InOrder
    <2>9. Loaded'
      BY <2>1, <2>2, Threads DEF Loaded, TypeOK
    <2> QED BY <2>3, <2>4, <2>5, <2>6, <2>7, <2>8, <2>9
  <1>5. CASE ReadAgain(Reloader(p))
    <2> USE <1>5 DEF ReadAgain
    <2>1. FromSource'
      BY DEF FromSource, TypeOK
    <2>2. Written' /\ InOrder'
      BY Threads DEF Written, InOrder, TypeOK
    <2>3. Unpublished'
      BY Threads DEF Unpublished, TypeOK
    <2>4. ReadsAgree'
      BY Threads DEF ReadsAgree, TypeOK, FromSource, InOrder
    <2>5. Stamping' /\ Loaded'
      BY Threads DEF ReadsAgree, Stamping, Loaded, FromSource, TypeOK
    <2> QED BY <2>1, <2>2, <2>3, <2>4, <2>5
  <1>6. CASE Refuse(Reloader(p))
    <2> USE <1>6 DEF Refuse
    <2>1. FromSource'
      BY DEF FromSource, TypeOK
    <2>2. Written' /\ InOrder'
      BY Threads DEF Written, InOrder, TypeOK
    <2>3. Unpublished'
      BY Threads DEF Unpublished, TypeOK
    <2>4. ReadsAgree'
      BY Threads DEF ReadsAgree, TypeOK, FromSource, InOrder
    <2>5. Stamping' /\ Loaded'
      BY Threads DEF ReadsAgree, Stamping, Loaded, FromSource, TypeOK
    <2> QED BY <2>1, <2>2, <2>3, <2>4, <2>5
  <1> QED BY <1>1, <1>2, <1>3, <1>4, <1>5, <1>6

LEMMA PollSteps ==
    ASSUME SnapshotInv, TypeOK', NEW r \in Replica,
           \/ StartPoll(r) \/ PollReads(r) \/ PollGivesUp(r) \/ Install(r) \/ Stamp(r)
           \/ ReadAgain(Poller(r)) \/ Refuse(Poller(r))
    PROVE  SnapshotInv'
  <1> DEFINE t == Poller(r)
  <1> USE DEF SnapshotInv, storage
  <1> t \in Thread /\ r \in Process /\ t[2] = "poll"
    BY Threads DEF Poller
  <1>1. CASE StartPoll(r)
    <2> USE <1>1 DEF StartPoll
    <2>1. FromSource'
      BY SnapshotAssumption DEF FromSource, TypeOK, Version, Cold, InOrder
    <2>2. Written' /\ InOrder'
      BY Threads DEF Written, InOrder, TypeOK
    <2>3. Unpublished'
      BY Threads DEF Unpublished, TypeOK
    <2>4. ReadsAgree'
      BY Threads DEF ReadsAgree, TypeOK, FromSource, InOrder
    <2>5. Stamping'
      BY Threads DEF ReadsAgree, Stamping, FromSource, TypeOK, InOrder, LockFree
    <2>6. Loaded'
      BY Threads DEF Loaded, Stamping, TypeOK
    <2> QED BY <2>1, <2>2, <2>3, <2>4, <2>5, <2>6
  <1>2. CASE PollReads(r)
    <2> USE <1>2 DEF PollReads
    <2>1. FromSource'
      BY SnapshotAssumption DEF FromSource, TypeOK, Version, Cold, InOrder
    <2>2. Written' /\ InOrder'
      BY Threads DEF Written, InOrder, TypeOK
    <2>3. Unpublished'
      BY Threads DEF Unpublished, TypeOK
    <2>4. ReadsAgree'
      BY Threads DEF ReadsAgree, TypeOK, FromSource, InOrder
    <2>5. Stamping'
      BY Threads DEF ReadsAgree, Stamping, FromSource, TypeOK, InOrder, LockFree
    <2>6. Loaded'
      BY Threads DEF Loaded, Stamping, TypeOK
    <2> QED BY <2>1, <2>2, <2>3, <2>4, <2>5, <2>6
  <1>3. CASE PollGivesUp(r)
    <2> USE <1>3 DEF PollGivesUp
    <2>1. FromSource'
      BY SnapshotAssumption DEF FromSource, TypeOK, Version, Cold, InOrder
    <2>2. Written' /\ InOrder'
      BY Threads DEF Written, InOrder, TypeOK
    <2>3. Unpublished'
      BY Threads DEF Unpublished, TypeOK
    <2>4. ReadsAgree'
      BY Threads DEF ReadsAgree, TypeOK, FromSource, InOrder
    <2>5. Stamping'
      BY Threads DEF ReadsAgree, Stamping, FromSource, TypeOK, InOrder, LockFree
    <2>6. Loaded'
      BY Threads DEF Loaded, Stamping, TypeOK
    <2> QED BY <2>1, <2>2, <2>3, <2>4, <2>5, <2>6
  <1>4. CASE Install(r)
    <2> USE <1>4 DEF Install
    <2>1. FromSource'
      BY SnapshotAssumption DEF FromSource, TypeOK, Version, Cold, InOrder
    <2>2. Written' /\ InOrder'
      BY SnapshotAssumption, Threads DEF Written, InOrder, TypeOK
    <2>3. Unpublished'
      BY Threads DEF Unpublished, TypeOK
    <2>4. ReadsAgree'
      BY Threads DEF ReadsAgree, TypeOK, FromSource, InOrder
    <2>5. Stamping'
      BY Threads DEF ReadsAgree, Stamping, Written, FromSource, TypeOK, InOrder, LockFree
    <2>6. Loaded'
      BY Threads DEF Loaded, Stamping, TypeOK
    <2> QED BY <2>1, <2>2, <2>3, <2>4, <2>5, <2>6
  <1>5. CASE Stamp(r)
    <2> USE <1>5 DEF Stamp
    <2>1. FromSource'
      BY SnapshotAssumption DEF FromSource, TypeOK, Version, Cold, InOrder
    <2>2. Written' /\ InOrder'
      BY Threads DEF Written, InOrder, TypeOK
    <2>3. Unpublished'
      BY Threads DEF Unpublished, TypeOK
    <2>4. ReadsAgree'
      BY Threads DEF ReadsAgree, TypeOK, FromSource, InOrder
    <2>5. Stamping'
      BY Threads DEF ReadsAgree, Stamping, FromSource, TypeOK, InOrder, LockFree
    <2>6. Loaded'
      BY Threads DEF Loaded, Stamping, TypeOK
    <2> QED BY <2>1, <2>2, <2>3, <2>4, <2>5, <2>6
  <1>6. CASE ReadAgain(Poller(r))
    <2> USE <1>6 DEF ReadAgain
    <2>1. FromSource'
      BY SnapshotAssumption DEF FromSource, TypeOK, Version, Cold, InOrder
    <2>2. Written' /\ InOrder'
      BY Threads DEF Written, InOrder, TypeOK
    <2>3. Unpublished'
      BY Threads DEF Unpublished, TypeOK
    <2>4. ReadsAgree'
      BY Threads DEF ReadsAgree, TypeOK, FromSource, InOrder
    <2>5. Stamping'
      BY Threads DEF ReadsAgree, Stamping, FromSource, TypeOK, InOrder, LockFree
    <2>6. Loaded'
      BY Threads DEF Loaded, Stamping, TypeOK
    <2> QED BY <2>1, <2>2, <2>3, <2>4, <2>5, <2>6
  <1>7. CASE Refuse(Poller(r))
    <2> USE <1>7 DEF Refuse
    <2>1. FromSource'
      BY SnapshotAssumption DEF FromSource, TypeOK, Version, Cold, InOrder
    <2>2. Written' /\ InOrder'
      BY Threads DEF Written, InOrder, TypeOK
    <2>3. Unpublished'
      BY Threads DEF Unpublished, TypeOK
    <2>4. ReadsAgree'
      BY Threads DEF ReadsAgree, TypeOK, FromSource, InOrder
    <2>5. Stamping'
      BY Threads DEF ReadsAgree, Stamping, FromSource, TypeOK, InOrder, LockFree
    <2>6. Loaded'
      BY Threads DEF Loaded, Stamping, TypeOK
    <2> QED BY <2>1, <2>2, <2>3, <2>4, <2>5, <2>6
  <1> QED BY <1>1, <1>2, <1>3, <1>4, <1>5, <1>6, <1>7

LEMMA WriteSteps ==
    ASSUME SnapshotInv, TypeOK', NEW w \in Writer,
           WritePayload(w) \/ WriteManifest(w) \/ Kill(w)
    PROVE  SnapshotInv'
  <1> DEFINE t == Reloader(w)
  <1> USE DEF SnapshotInv, storage
  <1> t \in Thread /\ w \in Process /\ w \notin Replica
    BY Threads, SnapshotAssumption
  <1>1. CASE WritePayload(w)
    <2> USE <1>1 DEF WritePayload
    <2>1. /\ Len(written') = Len(written) + 1
          /\ DOMAIN written' = 1..Len(written')
          /\ \A c \in DOMAIN written : written'[c] = written[c]
          /\ written'[Len(written')] = mem[w]
          /\ Len(written) \in Nat /\ DOMAIN written = 1..Len(written)
      BY DEF TypeOK
    <2>2. mem[w] \in 0..source
      BY SnapshotAssumption DEF InOrder, FromSource, TypeOK, Version
    <2>3. manifest # 0 => manifest \in DOMAIN written
      BY <2>1 DEF Written
    <2>4. FromSource'
      BY <2>1, <2>2 DEF FromSource, TypeOK
    <2>5. Written'
      BY <2>1 DEF Written
    <2>6. InOrder'
      BY Threads DEF InOrder, TypeOK
    <2>7. Unpublished'
      BY <2>1, Threads DEF Unpublished, Written, TypeOK
    <2>8. ReadsAgree'
      BY <2>1, <2>3, Threads DEF ReadsAgree, InOrder, TypeOK
    <2>9. Stamping'
      BY <2>1, <2>3, Threads DEF Stamping, InOrder, TypeOK
    <2>10. Loaded'
      BY <2>1, <2>3, Threads DEF Loaded, TypeOK
    <2> QED BY <2>4, <2>5, <2>6, <2>7, <2>8, <2>9, <2>10
  <1>2. CASE WriteManifest(w)
    <2> USE <1>2 DEF WriteManifest, Exit
    <2>1. /\ manifest' \in 1..Len(written)
          /\ \A p \in Process : loaded[p] # manifest'
          /\ \A u \in Thread : first[u] # manifest'
      BY DEF Unpublished
    <2>2. FromSource'
      BY SnapshotAssumption DEF FromSource, TypeOK, Version, Cold
    <2>3. Written'
      BY <2>1 DEF Written, TypeOK
    <2>4. InOrder'
      BY <2>1, Threads DEF InOrder, TypeOK
    <2>5. Unpublished'
      BY <2>1, Threads DEF Unpublished, TypeOK
    <2>6. ReadsAgree'
      BY <2>1, Threads DEF ReadsAgree, TypeOK
    <2>7. Stamping' /\ Loaded'
      BY <2>1, Threads DEF Stamping, Loaded, TypeOK
    <2> QED BY <2>2, <2>3, <2>4, <2>5, <2>6, <2>7
  <1>3. CASE Kill(w)
    <2> USE <1>3 DEF Kill, Exit
    <2>1. FromSource'
      BY SnapshotAssumption DEF FromSource, TypeOK, Version, Cold
    <2>2. Written'
      BY DEF Written, TypeOK
    <2>3. InOrder'
      BY Threads DEF InOrder, TypeOK
    <2>4. Unpublished'
      BY Threads DEF Unpublished, TypeOK
    <2>5. ReadsAgree'
      BY Threads DEF ReadsAgree, TypeOK, InOrder
    <2>6. Stamping' /\ Loaded'
      BY Threads DEF Stamping, Loaded, TypeOK
    <2> QED BY <2>1, <2>2, <2>3, <2>4, <2>5, <2>6
  <1> QED BY <1>1, <1>2, <1>3

LEMMA OtherSteps ==
    ASSUME SnapshotInv, TypeOK', SourceChanges \/ UNCHANGED vars
    PROVE  SnapshotInv'
  <1> USE DEF SnapshotInv
  <1>1. CASE SourceChanges
    <2> USE <1>1 DEF SourceChanges
    <2>1. FromSource'
      <3>1. source \in Nat /\ 0..source \subseteq 0..source'
        BY SnapshotAssumption DEF TypeOK, Version
      <3>2. /\ \A p \in Process : mem[p] \in Int
            /\ \A r \in Replica : got[r] \in Int
        BY SnapshotAssumption DEF TypeOK, Version, Cold
      <3> QED BY <3>1, <3>2 DEF FromSource
    <2>2. Written' /\ InOrder' /\ Unpublished'
      BY DEF Written, InOrder, Unpublished
    <2>3. ReadsAgree' /\ Stamping' /\ Loaded'
      BY DEF ReadsAgree, Stamping, Loaded
    <2> QED BY <2>1, <2>2, <2>3
  <1>2. CASE UNCHANGED vars
    BY <1>2
    DEF vars, FromSource, Written, InOrder, Unpublished, ReadsAgree, Stamping, Loaded
  <1> QED BY <1>1, <1>2

LEMMA InvInductive == SnapshotInv /\ [Next]_vars => SnapshotInv'
  BY TypeStep, ReloadSteps, PollSteps, WriteSteps, OtherSteps, Threads
  DEF Next, ReloadStep, PollStep, WriteStep
-----------------------------------------------------------------------------
\* For any replicas, any writers that die at any point, any keys and versions:
\* the types hold, and a replica whose poll has nothing to do serves data at
\* least as new as the published snapshot.
THEOREM NeverStuckStale == Spec => [](TypeOK /\ NotStuckStale)
  <1>1. SnapshotInv => TypeOK /\ NotStuckStale
    BY DEF SnapshotInv, Loaded, NotStuckStale
  <1> QED BY InvInit, InvInductive, <1>1, PTL DEF Spec
=============================================================================
