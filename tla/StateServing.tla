---------------------------- MODULE StateServing ----------------------------
(***************************************************************************)
(* The pipeline state that one API process builds and serves without a     *)
(* shared snapshot: the refresh loop and the reload() of a GDPR deletion   *)
(* in api/state.py, the age and staleness that api/middleware.py reports,  *)
(* and the revalidated responses of api/caching.py.  Builds run in threads *)
(* and so do the handlers.  The data source is the number of changes that  *)
(* were committed to it; a state is the number its build read.             *)
(***************************************************************************)
EXTENDS Integers

CONSTANTS
    Client,      \* clients that revalidate what they hold
    MaxChanges,  \* bound on the changes of the source
    Interval,    \* _refresh_interval_minutes, in ticks
    Metadata     \* [0..MaxChanges -> values]: what an ETag is a hash of

ASSUME ServingAssumption ==
    /\ MaxChanges \in Nat
    /\ Interval \in Nat \ {0}
    /\ DOMAIN Metadata = 0..MaxChanges

DataVersion == 0..MaxChanges
Builder == {"refresh", "erasure"}
Nothing == -1

VARIABLES
    source,    \* changes committed to the data source
    served,    \* _state: the version it was built from
    building,  \* building[b]: where b's reload() is, see BuildStage
    input,     \* input[b]: the version that b's build has read
    age,       \* ticks since built_at_monotonic; it stops at OldAge
    nap,       \* ticks before the refresh loop wakes up
    failing,   \* _consecutive_refresh_failures > 0
    erased,    \* history: the last deletion whose reload() has returned
    erasing,   \* the deletion whose reload() is under way
    request,   \* request[c]: the body made for c's request, else Nothing
    overtaken, \* history: overtaken[c]: a build ended after c's body was made
    copy       \* copy[c]: the response c holds, see Response

buildVars == <<building, input, erased, erasing>>
clockVars == <<age, nap, failing>>
clientVars == <<request, overtaken, copy>>
servingVars == <<source, served, buildVars, clockVars, clientVars>>

BuildStage ==
    {"idle",     \* not in reload(); the refresh loop sleeps
     "waiting",  \* at the lock
     "build",    \* in _build(), before repo.all() returns
     "install",  \* in _build(), with the data
     "built",    \* reload() has returned to the refresh loop
     "failed"}   \* reload() has raised there

OldAge == 2 * Interval + 1

\* A body, the state its tag was computed from, and whether a build ended in
\* between; a client without one holds nothing.
Response == [body : DataVersion, tagged : DataVersion, torn : BOOLEAN]
NoCopy == [body |-> Nothing, tagged |-> Nothing, torn |-> FALSE]

\* After get_state() in the lifespan.
ServingInit ==
    /\ source = 0 /\ served = 0
    /\ building = [b \in Builder |-> "idle"]
    /\ input = [b \in Builder |-> Nothing]
    /\ age = 0 /\ nap = Interval /\ failing = FALSE
    /\ erased = 0 /\ erasing = 0
    /\ request = [c \in Client |-> Nothing]
    /\ overtaken = [c \in Client |-> FALSE]
    /\ copy = [c \in Client |-> NoCopy]

Reach(b, stage) == building' = [building EXCEPT ![b] = stage]

\* A meeting is ingested.
Ingest ==
    /\ source < MaxChanges
    /\ source' = source + 1
    /\ UNCHANGED <<served, buildVars, clockVars, clientVars>>
-----------------------------------------------------------------------------
(* The two callers of reload().                                            *)

WakeUp ==
    /\ building["refresh"] = "idle"
    /\ nap = 0
    /\ Reach("refresh", "waiting")
    /\ UNCHANGED <<source, served, input, erased, erasing, clockVars, clientVars>>

\* hard_delete_customer() has committed, and calls reload().
Erase ==
    /\ building["erasure"] = "idle"
    /\ source < MaxChanges
    /\ source' = source + 1
    /\ erasing' = source + 1
    /\ Reach("erasure", "waiting")
    /\ UNCHANGED <<served, input, erased, clockVars, clientVars>>

\* Mutant: builds run outside of the lock, which guards the assignment only.
TakesLockLate(b) ==
    /\ building[b] = "waiting"
    /\ Reach(b, "build")
    /\ UNCHANGED <<source, served, input, erased, erasing, clockVars, clientVars>>
\* `with _lock` around the whole build.
TakesLock(b) ==
    /\ building[b] = "waiting"
    /\ \A o \in Builder : building[o] \notin {"build", "install"}
    /\ Reach(b, "build")
    /\ UNCHANGED <<source, served, input, erased, erasing, clockVars, clientVars>>

ReadSource(b) ==
    /\ building[b] = "build"
    /\ input' = [input EXCEPT ![b] = source]
    /\ Reach(b, "install")
    /\ UNCHANGED <<source, served, erased, erasing, clockVars, clientVars>>

\* The state is assigned; built_at_monotonic is the end of the build.
InstallState(b) ==
    /\ building[b] = "install"
    /\ served' = input[b]
    /\ age' = 0
    /\ input' = [input EXCEPT ![b] = Nothing]
    /\ overtaken' = [c \in Client |-> request[c] # Nothing]
    /\ IF b = "refresh"
       THEN Reach(b, "built") /\ UNCHANGED <<erased, erasing>>
       ELSE Reach(b, "idle") /\ erased' = erasing /\ erasing' = 0
    /\ UNCHANGED <<source, nap, failing, request, copy>>

\* The source does not answer, or a stage raises; the deletion logs it.
BuildRaises(b) ==
    /\ building[b] \in {"build", "install"}
    /\ input' = [input EXCEPT ![b] = Nothing]
    /\ Reach(b, IF b = "refresh" THEN "failed" ELSE "idle")
    /\ erasing' = IF b = "erasure" THEN 0 ELSE erasing
    /\ UNCHANGED <<source, served, erased, clockVars, clientVars>>

\* Mutant: the failure is logged and not counted.
RefreshUncounted ==
    /\ building["refresh"] \in {"built", "failed"}
    /\ failing' = (failing /\ building["refresh"] = "failed")
    /\ nap' = Interval
    /\ Reach("refresh", "idle")
    /\ UNCHANGED <<source, served, input, erased, erasing, age, clientVars>>
\* Back in the event loop: the failures are counted or forgotten, and the loop
\* sleeps again.
RefreshEnds ==
    /\ building["refresh"] \in {"built", "failed"}
    /\ failing' = (building["refresh"] = "failed")
    /\ nap' = Interval
    /\ Reach("refresh", "idle")
    /\ UNCHANGED <<source, served, input, erased, erasing, age, clientVars>>

\* The event loop resumes what is due before the clock advances by a tick.
Elapse ==
    /\ building["refresh"] = "idle" => nap > 0
    /\ building["refresh"] \notin {"built", "failed"}
    /\ age' = IF age < OldAge THEN age + 1 ELSE age
    /\ nap' = IF nap > 0 THEN nap - 1 ELSE 0
    /\ UNCHANGED <<source, served, buildVars, failing, clientVars>>
\* is_stale(), as the X-Stale-Response header tells it.
IsStale == age > 2 * Interval /\ failing
-----------------------------------------------------------------------------
(* GET /summary and GET /clusters.                                         *)

\* The route reads the state and makes the body.
MakeBody(c) ==
    /\ request[c] = Nothing
    /\ request' = [request EXCEPT ![c] = served]
    /\ overtaken' = [overtaken EXCEPT ![c] = FALSE]
    /\ UNCHANGED <<source, served, buildVars, clockVars, copy>>

\* Mutant: any If-None-Match is answered with 304.
HoldsAnything(c) == copy[c] # NoCopy
\* If-None-Match carries the ETag of the state, which is read once more.
HoldsCurrent(c) ==
    copy[c] # NoCopy /\ Metadata[copy[c].tagged] = Metadata[served]

\* cached(): 304 and the client keeps its copy, or 200 with a tag.
Respond(c) ==
    /\ request[c] # Nothing
    /\ request' = [request EXCEPT ![c] = Nothing]
    /\ overtaken' = [overtaken EXCEPT ![c] = FALSE]
    /\ copy' = IF HoldsCurrent(c) THEN copy
               ELSE [copy EXCEPT ![c] = [body |-> request[c], tagged |-> served,
                                         torn |-> overtaken[c]]]
    /\ UNCHANGED <<source, served, buildVars, clockVars>>

ServingNext ==
    \/ Ingest \/ WakeUp \/ Erase \/ RefreshEnds \/ Elapse
    \/ \E b \in Builder : \/ TakesLock(b) \/ ReadSource(b)
                          \/ InstallState(b) \/ BuildRaises(b)
    \/ \E c \in Client : MakeBody(c) \/ Respond(c)

ServingSpec == ServingInit /\ [][ServingNext]_servingVars
-----------------------------------------------------------------------------
ServingTypeOK ==
    /\ source \in DataVersion /\ served \in DataVersion
    /\ building \in [Builder -> BuildStage]
    /\ input \in [Builder -> DataVersion \cup {Nothing}]
    /\ age \in 0..OldAge /\ nap \in 0..Interval /\ failing \in BOOLEAN
    /\ erased \in DataVersion /\ erasing \in DataVersion
    /\ request \in [Client -> DataVersion \cup {Nothing}]
    /\ overtaken \in [Client -> BOOLEAN]
    /\ copy \in [Client -> Response \cup {NoCopy}]

\* "A deleted customer should disappear from PipelineState" (gdpr.py:147-149):
\* once the reload() of a deletion has returned without an error, no state
\* from before the deletion is served, whatever refresh was under way.
ErasedStaysGone == served >= erased

\* "X-Stale-Response: true iff pipeline refresh has been failing long enough
\* that the data is older than 2x the configured refresh interval"
\* (middleware.py:198-199): data as old as that is flagged, unless an attempt
\* to refresh it is still running.
OldDataIsFlagged ==
    age > 2 * Interval => IsStale \/ building["refresh"] # "idle"

\* A response that starts and ends within one state leaves the client with the
\* data of that state, unless the copy it revalidated was torn by a build or
\* the metadata cannot tell the two states apart (caching.py:32-33).
RevalidationIsHonest ==
    [][\A c \in Client :
          request[c] # Nothing /\ request'[c] = Nothing /\ ~ overtaken[c]
          => \/ copy'[c].body = served
             \/ copy'[c].torn
             \/ Metadata[copy'[c].body] = Metadata[served]]_servingVars
=============================================================================
