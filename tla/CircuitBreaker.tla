--------------------------- MODULE CircuitBreaker ---------------------------
(***************************************************************************)
(* The asyncio circuit breaker of api/circuit_breaker.py, shared by        *)
(* concurrent callers such as the readiness probe of api/routes.py.        *)
(* The breaker's lock is never held across an await, so each critical      *)
(* section is one step; the wrapped call runs between two of them, while   *)
(* other callers move the breaker.  Time is abstracted to whether          *)
(* recovery_timeout_s has elapsed since _opened_at.                        *)
(***************************************************************************)
EXTENDS Integers

CONSTANTS
    Caller,           \* concurrent tasks that use the breaker
    Threshold,        \* failure_threshold
    DeadlineCancels   \* callers wrap call() in asyncio.wait_for()

ASSUME BreakerAssumption ==
    /\ Threshold \in Nat \ {0}
    /\ DeadlineCancels \in BOOLEAN

VARIABLES
    state,     \* _state
    failures,  \* _failures; it is only compared with Threshold, and stops there
    timer,     \* "up" once recovery_timeout_s have passed since _opened_at
    running    \* callers inside `await fn(...)`

breakerVars == <<state, failures, timer, running>>

Init ==
    /\ state = "closed"
    /\ failures = 0
    /\ timer = "set"
    /\ running = {}

Tick ==
    /\ state = "open"
    /\ timer = "set"
    /\ timer' = "up"
    /\ UNCHANGED <<state, failures, running>>

\* call() when the breaker is not open: nothing limits how many callers of a
\* half-open breaker go through.  When it is open and the timeout has not
\* elapsed, call() raises CircuitOpenError and nothing changes.
Admit(c) ==
    /\ c \notin running
    /\ state # "open"
    /\ running' = running \cup {c}
    /\ UNCHANGED <<state, failures, timer>>

\* call() on an open breaker after the timeout: it becomes half-open.
Probe(c) ==
    /\ c \notin running
    /\ state = "open"
    /\ timer = "up"
    /\ state' = "half_open"
    /\ running' = running \cup {c}
    /\ UNCHANGED <<failures, timer>>

\* Mutant: the count is cleared, the state of a half-open breaker is kept.
SucceedStaysHalfOpen(c) ==
    /\ c \in running
    /\ running' = running \ {c}
    /\ failures' = 0
    /\ UNCHANGED <<state, timer>>

\* _on_success(), whatever the state is by the time fn returns.
Succeed(c) ==
    /\ c \in running
    /\ running' = running \ {c}
    /\ state' = "closed"
    /\ failures' = 0
    /\ UNCHANGED timer

\* Mutant: off by one.
TripsOneLate == failures >= Threshold \/ state = "half_open"
\* Mutant: only the failure that reaches the threshold opens the breaker.
TripsOnce == failures + 1 = Threshold
\* Whether this failure opens the breaker.
Trips == failures + 1 >= Threshold \/ state = "half_open"

\* _on_failure(), for any Exception that fn raises; a failure that arrives
\* while the breaker is open restarts the recovery timeout.
Fail(c) ==
    /\ c \in running
    /\ running' = running \ {c}
    /\ failures' = IF failures < Threshold THEN failures + 1 ELSE failures
    /\ state' = IF Trips THEN "open" ELSE state
    /\ timer' = IF Trips THEN "set" ELSE timer

\* The caller's deadline cancels the task: CancelledError is not an Exception,
\* so neither _on_failure() nor _on_success() runs.
Cancel(c) ==
    /\ DeadlineCancels
    /\ c \in running
    /\ running' = running \ {c}
    /\ UNCHANGED <<state, failures, timer>>

Finish(c) == Succeed(c) \/ Fail(c) \/ Cancel(c)

Next ==
    \/ Tick
    \/ \E c \in Caller : Admit(c) \/ Probe(c) \/ Finish(c)

Spec == Init /\ [][Next]_breakerVars

\* Time passes, calls end (by an outcome or a deadline), and a caller that is
\* turned away comes back: the kubelet polls the readiness endpoint.
Fairness ==
    /\ WF_breakerVars(Tick)
    /\ \A c \in Caller : /\ WF_breakerVars(Admit(c) \/ Probe(c))
                         /\ WF_breakerVars(Finish(c))

LiveSpec == Spec /\ Fairness
-----------------------------------------------------------------------------
TypeOK ==
    /\ state \in {"closed", "open", "half_open"}
    /\ failures \in 0..Threshold
    /\ timer \in {"set", "up"}
    /\ running \subseteq Caller

\* A closed breaker has let fewer than `Threshold` failures through since the
\* last success, however many calls were in flight when it closed; and only a
\* breaker that still counts a failure is open or probing.
CountMatchesState ==
    /\ state = "closed" => failures < Threshold
    /\ state # "closed" => failures > 0

\* A success of a closed breaker without failures, and a failure of an open
\* one, may change just what a cancelled call changes: such a step is either.
NoSuccess == <>[][\A c \in Caller : Succeed(c) => Cancel(c)]_breakerVars
NoCancel == <>[][\A c \in Caller : Cancel(c) => Fail(c)]_breakerVars
NoFailure ==
    <>[][\A c \in Caller : ~Fail(c) /\ (Cancel(c) => Succeed(c))]_breakerVars

\* A downstream that is called again and again, and all of whose calls end in
\* an exception, is found out: the breaker opens, again and again.
TripsWhenFailing ==
    []<>(running # {}) /\ NoSuccess /\ NoCancel => []<>(state = "open")

\* A downstream that recovers is found out by probing: the breaker closes and
\* stays closed.
ClosesWhenHealthy == NoFailure => <>[](state = "closed")

\* "If Postgres is sick we stop hammering it" (routes.py:132-133; also
\* circuit_breaker.py:3-6), a slow Postgres included: the breaker opens once no
\* call succeeds any more.
TripsWhenSick == NoSuccess => []<>(state = "open")
=============================================================================
