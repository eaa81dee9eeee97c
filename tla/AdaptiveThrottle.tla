-------------------------- MODULE AdaptiveThrottle ---------------------------
(***************************************************************************)
(* The adaptive throttle of api/adaptive_throttle.py: a window of the last *)
(* latencies, of which all that matters is which are over the SLO, and     *)
(* requests that are shed or let through by it and recorded when they end. *)
(* A request is decided on the latencies of those that ended before it.    *)
(***************************************************************************)
EXTENDS Integers, Sequences, SequencesExt

CONSTANTS
    Visitor,     \* requests under way at a time
    WindowSize   \* window_size

ASSUME ThrottleAssumption == WindowSize \in Nat \ {0}

VARIABLES
    samples,  \* _window: for each latency, whether it is over the SLO
    visit,    \* visit[v]: where v's request is, see Visit
    degraded, \* what the handlers call is slow
    turned    \* the last request was shed

throttleVars == <<samples, visit, degraded, turned>>

Visit ==
    {"away",     \* not under way, or shed
     "within",   \* in call_next()
     "delayed"}  \* in call_next(), and slowed down on its way

ThrottleInit ==
    /\ samples = <<>>
    /\ visit = [v \in Visitor |-> "away"]
    /\ degraded = FALSE
    /\ turned = FALSE

\* record(): a deque with maxlen.
Record(slow) ==
    samples' = IF Len(samples) < WindowSize THEN Append(samples, slow)
               ELSE Append(Tail(samples), slow)

\* current_p95() takes the latency at max(0, int(n * 0.95) - 1), from 0, of
\* the sorted window.
Rank(n) == IF (95 * n) \div 100 < 1 THEN 1 ELSE (95 * n) \div 100

Fast == Len(SelectSeq(samples, LAMBDA slow : ~slow))

\* shed_probability() > 0: p95 is over the SLO.
Breached == samples # <<>> /\ Fast < Rank(Len(samples))

\* 503 with probability shed_probability().
TurnAway(v) ==
    /\ visit[v] = "away"
    /\ Breached
    /\ turned' = TRUE
    /\ UNCHANGED <<samples, visit, degraded>>

\* Mutant: no request is let through while p95 is over the SLO.
LetThroughWhenHealthy(v) ==
    /\ visit[v] = "away"
    /\ ~Breached
    /\ visit' = [visit EXCEPT ![v] = IF degraded THEN "delayed" ELSE "within"]
    /\ turned' = FALSE
    /\ UNCHANGED <<samples, degraded>>
\* The probability is at most max_shed < 1.
LetThrough(v) ==
    /\ visit[v] = "away"
    /\ visit' = [visit EXCEPT ![v] = IF degraded THEN "delayed" ELSE "within"]
    /\ turned' = FALSE
    /\ UNCHANGED <<samples, degraded>>

\* In a finally; a request that was not slowed down is within the SLO, and so
\* is one that the backpressure behind the throttle rejects.
VisitEnds(v) ==
    /\ visit[v] # "away"
    /\ visit' = [visit EXCEPT ![v] = "away"]
    /\ \/ Record(FALSE)
       \/ visit[v] = "delayed" /\ Record(TRUE)
    /\ UNCHANGED <<degraded, turned>>

Degrade ==
    /\ ~degraded
    /\ degraded' = TRUE
    /\ visit' = [v \in Visitor |-> IF visit[v] = "within" THEN "delayed"
                                                          ELSE visit[v]]
    /\ UNCHANGED <<samples, turned>>

Recover ==
    /\ degraded
    /\ degraded' = FALSE
    /\ UNCHANGED <<samples, visit, turned>>

ThrottleNext ==
    \/ \E v \in Visitor : TurnAway(v) \/ LetThrough(v) \/ VisitEnds(v)
    \/ Degrade \/ Recover

\* Requests keep coming, not every one of them is shed, and handlers end.
ThrottleFairness ==
    \A v \in Visitor : WF_throttleVars(LetThrough(v)) /\ WF_throttleVars(VisitEnds(v))

ThrottleSpec == ThrottleInit /\ [][ThrottleNext]_throttleVars
-----------------------------------------------------------------------------
ThrottleTypeOK ==
    /\ samples \in BoundedSeq(BOOLEAN, WindowSize)
    /\ visit \in [Visitor -> Visit]
    /\ degraded \in BOOLEAN /\ turned \in BOOLEAN

\* "Some traffic must reach origin so we can detect recovery"
\* (adaptive_throttle.py:28-29): once what the handlers call is healthy and
\* stays so, the throttle ends up shedding nothing.
SheddingEnds == <>[]~degraded => <>[]~Breached
=============================================================================
