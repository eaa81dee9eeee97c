---------------------------- MODULE SingleFlight ----------------------------
(***************************************************************************)
(* SingleFlight.do() of api/caching.py for one key: the first caller       *)
(* creates a future and runs the loader, callers that come while it runs   *)
(* await the same future, unshielded.  The asyncio lock is never held      *)
(* across another await, so entering, and completing with the pop of the   *)
(* key, are one step each.  A future is named after the caller that made   *)
(* it; each caller makes one call.                                         *)
(***************************************************************************)
CONSTANTS
    Caller,       \* tasks that call do() with this key
    Cancellable   \* the callers whose task may be cancelled

ASSUME FlightAssumption == Cancellable \subseteq Caller

VARIABLES
    inflight,  \* _inflight[key]: {c} with the future's maker, or {}
    future,    \* future[c]: state of the future c made
    call,      \* call[c]: where c's call is, see CallState
    joined     \* joined[c]: {l} when c awaits the future of l, else {}

flightVars == <<inflight, future, call, joined>>

FutureState ==
    {"none", "pending", "result", "exception",
     "cancel_error",  \* set_exception(CancelledError) by a cancelled leader
     "cancelled"}     \* cancelled through a waiter's task

CallState ==
    {"idle", "loading", "waiting",
     "value",          \* returned the loader's value
     "error",          \* raised the loader's exception
     "cancelled",      \* its own task was cancelled
     "collateral",     \* CancelledError, though its task was not cancelled
     "invalid_state"}  \* InvalidStateError from future.set_...()

Init ==
    /\ inflight = {}
    /\ future = [c \in Caller |-> "none"]
    /\ call = [c \in Caller |-> "idle"]
    /\ joined = [c \in Caller |-> {}]

\* Mutant: the key is not looked up under the lock.
LeadUnchecked(c) ==
    /\ call[c] = "idle"
    /\ inflight' = {c}
    /\ future' = [future EXCEPT ![c] = "pending"]
    /\ call' = [call EXCEPT ![c] = "loading"]
    /\ UNCHANGED joined

\* do() on a key that nobody loads.
Lead(c) ==
    /\ call[c] = "idle"
    /\ inflight = {}
    /\ inflight' = {c}
    /\ future' = [future EXCEPT ![c] = "pending"]
    /\ call' = [call EXCEPT ![c] = "loading"]
    /\ UNCHANGED joined

\* do() on a key in flight; the future may already be cancelled.
Join(c) ==
    /\ call[c] = "idle"
    /\ inflight # {}
    /\ joined' = [joined EXCEPT ![c] = inflight]
    /\ call' = [call EXCEPT ![c] = "waiting"]
    /\ UNCHANGED <<inflight, future>>

\* Mutant: the loader's failure leaves the key in flight and the future
\* pending.
LandOnSuccessOnly(c, futureState, outcome) ==
    /\ call[c] = "loading"
    /\ IF outcome = "value"
       THEN /\ future' = [future EXCEPT ![c] = futureState]
            /\ inflight' = {}
       ELSE UNCHANGED <<future, inflight>>
    /\ call' = [call EXCEPT ![c] = outcome]
    /\ UNCHANGED joined

\* The leader settles its future and pops the key, in the finally.  Settling a
\* future that a waiter's cancellation has cancelled raises InvalidStateError.
Land(c, futureState, outcome) ==
    /\ call[c] = "loading"
    /\ inflight' = {}
    /\ IF future[c] = "pending"
       THEN /\ future' = [future EXCEPT ![c] = futureState]
            /\ call' = [call EXCEPT ![c] = outcome]
       ELSE /\ call' = [call EXCEPT ![c] = "invalid_state"]
            /\ UNCHANGED future
    /\ UNCHANGED joined

LoaderReturns(c) == Land(c, "result", "value")
LoaderRaises(c) == Land(c, "exception", "error")
CancelLeader(c) == c \in Cancellable /\ Land(c, "cancel_error", "cancelled")

\* Task.cancel() on a waiter cancels the future it awaits, if still pending.
CancelWaiter(c) ==
    /\ c \in Cancellable
    /\ call[c] = "waiting"
    /\ future' = [l \in Caller |->
                     IF l \in joined[c] /\ future[l] = "pending"
                     THEN "cancelled" ELSE future[l]]
    /\ call' = [call EXCEPT ![c] = "cancelled"]
    /\ UNCHANGED <<inflight, joined>>

\* Mutant: only an exception the loader raised is passed on.
OutcomeUncancelled(futureState) ==
    IF futureState = "exception" THEN "error" ELSE "value"

\* `return await future` resumes with what the future holds.
Outcome(futureState) ==
    CASE futureState = "result" -> "value"
      [] futureState = "exception" -> "error"
      [] OTHER -> "collateral"

Resume(c) ==
    /\ call[c] = "waiting"
    /\ \E l \in joined[c] :
          /\ future[l] # "pending"
          /\ call' = [call EXCEPT ![c] = Outcome(future[l])]
    /\ UNCHANGED <<inflight, future, joined>>

Next ==
    \E c \in Caller : \/ Lead(c) \/ Join(c)
                      \/ LoaderReturns(c) \/ LoaderRaises(c)
                      \/ CancelLeader(c) \/ CancelWaiter(c)
                      \/ Resume(c)

Spec == Init /\ [][Next]_flightVars
-----------------------------------------------------------------------------
TypeOK ==
    /\ inflight \subseteq Caller
    /\ future \in [Caller -> FutureState]
    /\ call \in [Caller -> CallState]
    /\ joined \in [Caller -> SUBSET Caller]

\* "Only the first one runs the loader" (caching.py:114-115): one load at a
\* time per key, by the caller the key is registered for, through every
\* cancellation and failure.
OneLoader ==
    /\ {c \in Caller : call[c] = "loading"} = inflight
    /\ \A c, d \in inflight : c = d

\* "The rest await its result" (caching.py:115), and a result is nobody's
\* invention: a caller that returns a value, or raises the loader's error, does
\* so because some loader really ended that way.  One exception: a caller that
\* is not cancelled itself may end otherwise than the loader, but only if
\* another caller of the same flight was cancelled.
OutcomesAreReal ==
    /\ \A c \in Caller : call[c] = "value" =>
          \E l \in joined[c] \cup {c} : future[l] = "result"
    /\ \A c \in Caller : call[c] = "error" =>
          \E l \in joined[c] \cup {c} : future[l] = "exception"
    /\ \A c \in Caller : call[c] \in {"collateral", "invalid_state"} =>
          \E d \in Cancellable \ {c} :
              /\ call[d] = "cancelled"
              /\ (joined[c] \cup {c}) \cap (joined[d] \cup {d}) # {}

\* No caller waits for ever on a future that nobody will settle.
EveryWaiterResumes ==
    \A c \in Caller : call[c] = "waiting" ~> call[c] # "waiting"
=============================================================================
