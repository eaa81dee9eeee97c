---------------------------- MODULE ReadThrough -----------------------------
(***************************************************************************)
(* The read-through caches of api/cache.py in front of one row: the        *)
(* callers of get_or_load(), whose misses SingleFlight collapses, and the  *)
(* threads of other processes in CachedTranscriptRepository.get() of       *)
(* src/repository.py, which read and fill the same Redis key.  The row is  *)
(* created once and deleted once, by CachedTranscriptRepository.delete().  *)
(*                                                                         *)
(* Any call of Redis may fail; the caller then uses the LRU of its own     *)
(* process.  A hit changes nothing, so what a store holds is what hits     *)
(* return, and a caller that hits stays "idle".  On the event loop a       *)
(* lookup and the do() after it are one step, and so are the fill and the  *)
(* landing of the flight.                                                  *)
(***************************************************************************)
EXTENDS SingleFlight

CONSTANTS
    Reader,     \* processes with a thread in CachedTranscriptRepository.get()
    Api,        \* the process of the callers and of the deletion
    RedisFails  \* whether calls of Redis may fail

ASSUME ReadThroughAssumption == Api \notin Reader /\ RedisFails \in BOOLEAN

Process == Reader \cup {Api}

VARIABLES
    row,       \* the row in the backing store
    redis,     \* the entry under the key in Redis, see Entry
    local,     \* local[p]: the entry under the key in p's _LocalLRU
    seen,      \* seen[c]: what the loader of c has read, else Unread
    reading,   \* reading[r]: where r's get() is
    got,       \* got[r]: what r's get() has read, else Unread
    deletion,  \* where delete() is
    fellBack   \* history: some call of Redis failed

stores == <<redis, local>>
loads == <<seen, reading, got>>
rtVars == <<flightVars, row, stores, loads, deletion, fellBack>>

Row == {"new", "present", "deleted"}
Unread == "unread"

\* A stored value, "" (here "none") for a row that is not there.  `early`:
\* it is the meeting, stored before the row was deleted.
Entry == [value : {"meeting", "none"}, early : BOOLEAN]
Empty == {}  \* no entry; a stored one is a singleton set

Value(r) == IF r = "present" THEN "meeting" ELSE "none"

ReadThroughInit ==
    /\ Init
    /\ row = "new"
    /\ redis = Empty
    /\ local = [p \in Process |-> Empty]
    /\ seen = [c \in Caller |-> Unread]
    /\ reading = [r \in Reader |-> "idle"]
    /\ got = [r \in Reader |-> Unread]
    /\ deletion = "none"
    /\ fellBack = FALSE

\* Whether a call of Redis is answered.
Answered == IF RedisFails THEN BOOLEAN ELSE {TRUE}
Note(ok) == fellBack' = (fellBack \/ ~ok)

\* cache_get() finds nothing for p.
CacheGetMisses(p) ==
    \E ok \in Answered :
        /\ IF ok THEN redis = Empty ELSE local[p] = Empty
        /\ Note(ok)

\* cache_set() by p.  A setex that fails may have reached Redis all the same.
CacheSet(p, value) ==
    LET entry == {[value |-> value, early |-> value = "meeting" /\ row # "deleted"]}
    IN  \E ok \in Answered :
           /\ IF ok THEN redis' = entry /\ UNCHANGED local
                    ELSE /\ redis' \in {redis, entry}
                         /\ local' = [local EXCEPT ![p] = entry]
           /\ Note(ok)

\* Mutant: the entry is dropped from the process, never from Redis.
CacheInvalidateLocal(p) ==
    /\ local' = [local EXCEPT ![p] = Empty]
    /\ UNCHANGED <<redis, fellBack>>

\* cache_invalidate(namespace, key) by p: the LRU of p is looked at only when
\* Redis fails, that of another process never.
CacheInvalidate(p) ==
    \E ok \in Answered :
        /\ IF ok THEN redis' = Empty /\ UNCHANGED local
                 ELSE /\ redis' \in {redis, Empty}
                      /\ local' = [local EXCEPT ![p] = Empty]
        /\ Note(ok)
-----------------------------------------------------------------------------
(* get_or_load() in the process Api.                                       *)

MissAndLead(c) ==
    /\ CacheGetMisses(Api)
    /\ Lead(c)
    /\ UNCHANGED <<row, stores, loads, deletion>>

MissAndJoin(c) ==
    /\ CacheGetMisses(Api)
    /\ Join(c)
    /\ UNCHANGED <<row, stores, loads, deletion>>

\* `await loader()`: the row is read, the loader has not returned yet.
LoaderReads(c) ==
    /\ call[c] = "loading"
    /\ seen[c] = Unread
    /\ seen' = [seen EXCEPT ![c] = Value(row)]
    /\ UNCHANGED <<flightVars, row, stores, reading, got, deletion, fellBack>>

\* _do_load() stores what the loader returned, "" for None, and returns it.
FillAndLand(c) ==
    /\ seen[c] # Unread
    /\ LoaderReturns(c)
    /\ CacheSet(Api, seen[c])
    /\ seen' = [seen EXCEPT ![c] = Unread]
    /\ UNCHANGED <<row, reading, got, deletion>>

\* The loader raises, or the leader is cancelled in it: nothing is stored.
LoadFails(c) ==
    /\ LoaderRaises(c) \/ CancelLeader(c)
    /\ seen' = [seen EXCEPT ![c] = Unread]
    /\ UNCHANGED <<row, stores, reading, got, deletion, fellBack>>

WaiterCancelled(c) ==
    /\ CancelWaiter(c)
    /\ UNCHANGED <<row, stores, loads, deletion, fellBack>>

WaiterResumes(c) ==
    /\ Resume(c)
    /\ UNCHANGED <<row, stores, loads, deletion, fellBack>>
-----------------------------------------------------------------------------
(* CachedTranscriptRepository.get() in another process.                    *)

ReaderMisses(r) ==
    /\ reading[r] = "idle"
    /\ CacheGetMisses(r)
    /\ reading' = [reading EXCEPT ![r] = "missed"]
    /\ UNCHANGED <<flightVars, row, stores, seen, got, deletion>>

\* backing.get()
ReaderReads(r) ==
    /\ reading[r] = "missed"
    /\ got' = [got EXCEPT ![r] = Value(row)]
    /\ reading' = [reading EXCEPT ![r] = "read"]
    /\ UNCHANGED <<flightVars, row, stores, seen, deletion, fellBack>>

ReaderFills(r) ==
    /\ reading[r] = "read"
    /\ CacheSet(r, got[r])
    /\ got' = [got EXCEPT ![r] = Unread]
    /\ reading' = [reading EXCEPT ![r] = "idle"]
    /\ UNCHANGED <<flightVars, row, seen, deletion>>
-----------------------------------------------------------------------------
(* The row, and CachedTranscriptRepository.delete().                       *)

\* The data platform inserts the row; no cache is told.
CreateRow ==
    /\ row = "new"
    /\ row' = "present"
    /\ UNCHANGED <<flightVars, stores, loads, deletion, fellBack>>

\* backing.delete() commits.
DeleteRow ==
    /\ row = "present"
    /\ row' = "deleted"
    /\ deletion' = "deleting"
    /\ UNCHANGED <<flightVars, stores, loads, fellBack>>

\* The finally, in whatever process runs delete(): the cache entry is dropped.
DeleteReturns ==
    /\ deletion = "deleting"
    /\ \E p \in Process : CacheInvalidate(p)
    /\ deletion' = "returned"
    /\ UNCHANGED <<flightVars, row, loads>>

\* The process dies between the commit and the invalidation.  Its own reads
\* are kept: the death of a read that may fill later could only help.
DeleterDies ==
    /\ deletion = "deleting"
    /\ deletion' = "died"
    /\ UNCHANGED <<flightVars, row, stores, loads, fellBack>>

\* The time to live of an entry ends, in Redis ...
ExpireRedis ==
    /\ redis # Empty
    /\ redis' = Empty
    /\ UNCHANGED <<flightVars, row, local, loads, deletion, fellBack>>

\* Mutant: get() of the LRU does not look at expires_at.
ExpireLocalNever(p) == local[p] # Empty /\ UNCHANGED rtVars
\* ... or in an LRU, where the next get() drops it.
ExpireLocal(p) ==
    /\ local[p] # Empty
    /\ local' = [local EXCEPT ![p] = Empty]
    /\ UNCHANGED <<flightVars, row, redis, loads, deletion, fellBack>>
-----------------------------------------------------------------------------
GetOrLoad(c) ==
    \/ MissAndLead(c) \/ MissAndJoin(c)
    \/ LoaderReads(c) \/ FillAndLand(c) \/ LoadFails(c)
    \/ WaiterCancelled(c) \/ WaiterResumes(c)

Get(r) == ReaderMisses(r) \/ ReaderReads(r) \/ ReaderFills(r)

ReadThroughNext ==
    \/ \E c \in Caller : GetOrLoad(c)
    \/ \E r \in Reader : Get(r)
    \/ CreateRow \/ DeleteRow \/ DeleteReturns \/ DeleterDies
    \/ ExpireRedis \/ \E p \in Process : ExpireLocal(p)

ReadThroughSpec == ReadThroughInit /\ [][ReadThroughNext]_rtVars

\* The loader reads and ends, the event loop resumes whoever can go on, and
\* every entry has a time to live.  Threads of readers may stop anywhere.
ReadThroughFairness ==
    /\ \A c \in Caller :
          /\ WF_rtVars(LoaderReads(c))
          /\ WF_rtVars(FillAndLand(c) \/ LoadFails(c))
          /\ WF_rtVars(WaiterResumes(c))
    /\ WF_rtVars(ExpireRedis)
    /\ \A p \in Process : WF_rtVars(ExpireLocal(p))

LiveReadThroughSpec == ReadThroughSpec /\ ReadThroughFairness
-----------------------------------------------------------------------------
(* Properties; those of SingleFlight hold here too.                        *)

Entries == redis \cup UNION {local[p] : p \in Process}

\* delete() drops the entry "so we never serve a tombstoned row from cache"
\* (repository.py:385-387).  While Redis answers, what was cached before the
\* deletion is gone when delete() returns: a tombstone still cached was put
\* there afterwards, by a read that raced the deletion.
NoEarlyTombstone ==
    deletion = "returned" /\ ~fellBack =>
        \A e \in Entries : ~e.early

\* However Redis fails and reads race, stale entries, negative ones included,
\* end with their time to live: once the row stays as it is, every entry
\* agrees with it for good.
CacheConverges ==
    \A r \in Row :
        <>[](row = r) => <>[](\A e \in Entries : e.value = Value(r))
=============================================================================
