----------------------------- MODULE LLMGateway -----------------------------
(***************************************************************************)
(* FrontierGateway.call() of api/llm_gateway.py in concurrent threads of   *)
(* one tenant: the daily budget is read before the provider is called and  *)
(* charged after it answered.  The counter is a Redis key per day; reading *)
(* it fails open and charging it is best effort.  Money is counted in      *)
(* answers, as if each cost the same.  The circuit breaker is registered   *)
(* by call(), never consulted, and has no part here.                       *)
(***************************************************************************)
EXTENDS Integers, FiniteSets

CONSTANTS
    Worker,      \* threads that use the gateway
    Prompt,      \* prompts, after redaction
    Dense,       \* prompts more than half of which was personal data
    DailyCap,    \* llm.tier2_daily_budget_usd, in answers
    MaxLapses    \* bound on the checks and charges that fail in a day

ASSUME GatewayAssumption ==
    /\ IsFiniteSet(Worker)
    /\ Prompt # {} /\ Dense \subseteq Prompt
    /\ DailyCap \in Nat \ {0}
    /\ MaxLapses \in Nat

VARIABLES
    tier2,    \* llm.tier2_enabled is on and an API key is set
    gate,     \* gate[w]: where w's call() is, see GateState
    asked,    \* asked[w]: the prompt of w's last call
    replies,  \* prompts whose answer is in the response cache
    spent,    \* the counter llm_budget:{tenant}:{today}
    paid,     \* history: the answers the provider gave today
    blind,    \* history: checks of today that found no counter to read
    lost      \* history: answers not charged today, see ChargeFails

gatewayVars == <<tier2, gate, asked, replies, spent, paid, blind, lost>>
faults == <<blind, lost>>

GateState ==
    {"idle",
     "budget",    \* past the configuration and the redaction
     "lookup",    \* past _enforce_budget()
     "provider",  \* past the response cache, in _call_provider()
     "charge"}    \* the provider has answered

GatewayInit ==
    /\ tier2 = TRUE
    /\ gate = [w \in Worker |-> "idle"]
    /\ asked \in [Worker -> {CHOOSE p \in Prompt : TRUE}]
    /\ replies = {}
    /\ spent = 0 /\ paid = 0 /\ blind = 0 /\ lost = 0

Move(w, state) == gate' = [gate EXCEPT ![w] = state]

\* An operator switches the gateway on or off.
SwitchTier2 ==
    /\ tier2' = ~tier2
    /\ UNCHANGED <<gate, asked, replies, spent, paid, faults>>

\* The settings are read once; a disabled gateway, a missing key and a prompt
\* that is mostly personal data raise before anything is counted.
BeginCall(w, p) ==
    /\ gate[w] = "idle"
    /\ tier2
    /\ p \notin Dense
    /\ asked' = [asked EXCEPT ![w] = p]
    /\ Move(w, "budget")
    /\ UNCHANGED <<tier2, replies, spent, paid, faults>>

\* Mutant: the day's last unit may be overrun by a call of its own.
WithinBudgetOffByOne == spent <= DailyCap
\* The comparison of _enforce_budget().
WithinBudget == spent < DailyCap

\* BudgetExceeded ends the call.
EnforceBudget(w) ==
    /\ gate[w] = "budget"
    /\ Move(w, IF WithinBudget THEN "lookup" ELSE "idle")
    /\ UNCHANGED <<tier2, asked, replies, spent, paid, faults>>

\* _budget_spent() returns 0.0 when Redis does not answer.
BudgetUnread(w) ==
    /\ gate[w] = "budget"
    /\ blind + lost < MaxLapses
    /\ blind' = blind + 1
    /\ Move(w, "lookup")
    /\ UNCHANGED <<tier2, asked, replies, spent, paid, lost>>

\* A cached answer ends the call free of charge; a failing cache is a miss.
LookUpReply(w) ==
    /\ gate[w] = "lookup"
    /\ \/ asked[w] \in replies /\ Move(w, "idle")
       \/ Move(w, "provider")
    /\ UNCHANGED <<tier2, asked, replies, spent, paid, faults>>

\* An SDK that is missing, an unknown provider or a provider's error.
ProviderRaises(w) ==
    /\ gate[w] = "provider"
    /\ Move(w, "idle")
    /\ UNCHANGED <<tier2, asked, replies, spent, paid, faults>>

\* The answer is cached when the cache takes it; it costs one unit.
ProviderAnswers(w) ==
    /\ gate[w] = "provider"
    /\ paid' = paid + 1
    /\ replies' \in {replies, replies \cup {asked[w]}}
    /\ Move(w, "charge")
    /\ UNCHANGED <<tier2, asked, spent, faults>>

\* _charge_budget(): INCRBYFLOAT of the key of the day it runs on.  The audit
\* row that follows decides nothing.
ChargeBudget(w) ==
    /\ gate[w] = "charge"
    /\ spent' = spent + 1
    /\ Move(w, "idle")
    /\ UNCHANGED <<tier2, asked, replies, paid, faults>>

\* Redis does not take the charge, or the process dies before it is made.
ChargeFails(w) ==
    /\ gate[w] = "charge"
    /\ blind + lost < MaxLapses
    /\ lost' = lost + 1
    /\ Move(w, "idle")
    /\ UNCHANGED <<tier2, asked, replies, spent, paid, blind>>

\* The day's key changes, under the calls that are on their way.
Midnight ==
    /\ spent' = 0 /\ paid' = 0 /\ blind' = 0 /\ lost' = 0
    /\ UNCHANGED <<tier2, gate, asked, replies>>

\* The TTL of a cached answer.
ReplyExpires(p) ==
    /\ p \in replies
    /\ replies' = replies \ {p}
    /\ UNCHANGED <<tier2, gate, asked, spent, paid, faults>>

GatewayCall(w) ==
    \/ \E p \in Prompt : BeginCall(w, p)
    \/ EnforceBudget(w)
    \/ BudgetUnread(w)
    \/ LookUpReply(w)
    \/ ProviderRaises(w)
    \/ ProviderAnswers(w)
    \/ ChargeBudget(w)
    \/ ChargeFails(w)

GatewayNext ==
    \/ \E w \in Worker : GatewayCall(w)
    \/ \E p \in Prompt : ReplyExpires(p)
    \/ SwitchTier2
    \/ Midnight

GatewaySpec == GatewayInit /\ [][GatewayNext]_gatewayVars
-----------------------------------------------------------------------------
GatewayTypeOK ==
    /\ tier2 \in BOOLEAN
    /\ gate \in [Worker -> GateState]
    /\ asked \in [Worker -> Prompt]
    /\ replies \subseteq Prompt
    /\ spent \in Nat /\ paid \in Nat /\ blind \in Nat /\ lost \in Nat

\* "Per-tenant daily $ budget" (llm_gateway.py:14-16): what the provider is
\* paid in a day passes the cap by less than one answer for each thread that
\* may be past the check, and one for each check or charge that failed.
OverspendIsAccountedFor ==
    paid < DailyCap + Cardinality(Worker) + blind + lost
=============================================================================
