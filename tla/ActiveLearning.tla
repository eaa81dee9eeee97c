--------------------------- MODULE ActiveLearning ---------------------------
(***************************************************************************)
(* The active-learning loop of gemma-finetune/scaling/active_learning.py:  *)
(* a worker takes the records of the inference topic in order, has those   *)
(* the model was unsure of judged within its budget, and appends an        *)
(* example to the training table.  A worker that dies loses its processed  *)
(* set and its account, and the next one reads from another offset.        *)
(* Money is counted in verdicts.                                           *)
(***************************************************************************)
EXTENDS Integers, Sequences, FiniteSets

CONSTANTS
    Labeler,      \* workers
    Topic,        \* the records of the topic, in order; some come twice
    Confident,    \* records at or above confidence_threshold
    Budget,       \* daily_budget_usd, in verdicts
    MaxFaults     \* bound on the workers that die and the appends that fail

Record == {Topic[i] : i \in DOMAIN Topic}

ASSUME LearningAssumption ==
    IsFiniteSet(Labeler) /\ Topic \in Seq(Record) /\ Budget \in Nat \ {0}

VARIABLES
    next,        \* next[w]: offset of the record w is at
    stage,       \* stage[w]: "take", "judge" or "write", see Handle
    processed,   \* processed[w]: _processed
    account,     \* account[w]: _spent_today_usd, which nothing resets
    examples,    \* rows of the training table, of each record
    verdicts,    \* history: verdicts the judge's provider was paid for
    unbooked,    \* history: those that raised before they were accounted for
    deaths,      \* workers that died
    unsure       \* appends that raised, stored or not

learningVars ==
    <<next, stage, processed, account, examples, verdicts, unbooked, deaths, unsure>>

LearningInit ==
    /\ next = [w \in Labeler |-> 1]
    /\ stage = [w \in Labeler |-> "take"]
    /\ processed = [w \in Labeler |-> {}]
    /\ account = [w \in Labeler |-> 0]
    /\ examples = [r \in Record |-> 0]
    /\ verdicts = 0 /\ unbooked = 0 /\ deaths = 0 /\ unsure = 0

At(w) == Topic[next[w]]

\* consume_forever() goes on to the next record, after an exception too.
GoOn(w) ==
    /\ next' = [next EXCEPT ![w] = @ + 1]
    /\ stage' = [stage EXCEPT ![w] = "take"]

\* Mutant: the budget is all that is looked at.
PassedOverBudget(w) == account[w] >= Budget
\* The early returns of _handle().  A record over budget is "deferred" by
\* forgetting it.
PassedOver(w) ==
    \/ At(w) \in Confident
    \/ At(w) \in processed[w]
    \/ account[w] >= Budget

Take(w) ==
    /\ stage[w] = "take"
    /\ next[w] <= Len(Topic)
    /\ IF PassedOver(w) THEN GoOn(w)
       ELSE stage' = [stage EXCEPT ![w] = "judge"] /\ UNCHANGED next
    /\ UNCHANGED <<processed, account, examples, verdicts, unbooked, deaths, unsure>>

\* The verdict, accepted or not, and its cost.
Judge(w) ==
    /\ stage[w] = "judge"
    /\ stage' = [stage EXCEPT ![w] = "write"]
    /\ account' = [account EXCEPT ![w] = @ + 1]
    /\ verdicts' = verdicts + 1
    /\ UNCHANGED <<next, processed, examples, unbooked, deaths, unsure>>

\* The provider fails, or its answer is JSON without an overall score: that one
\* is paid for and raises before _spent_today_usd is touched.
JudgeRaises(w) ==
    /\ stage[w] = "judge"
    /\ GoOn(w)
    /\ \/ UNCHANGED <<verdicts, unbooked>>
       \/ verdicts' = verdicts + 1 /\ unbooked' = unbooked + 1
    /\ UNCHANGED <<processed, account, examples, deaths, unsure>>

Appended(w) == [examples EXCEPT ![At(w)] = @ + 1]

\* _write_example(), then _processed.add().
WriteExample(w) ==
    /\ stage[w] = "write"
    /\ examples' = Appended(w)
    /\ processed' = [processed EXCEPT ![w] = @ \cup {At(w)}]
    /\ GoOn(w)
    /\ UNCHANGED <<account, verdicts, unbooked, deaths, unsure>>

\* The append raises, having stored the row or not.
WriteRaises(w) ==
    /\ stage[w] = "write"
    /\ deaths + unsure < MaxFaults
    /\ examples' \in {examples, Appended(w)}
    /\ unsure' = unsure + 1
    /\ GoOn(w)
    /\ UNCHANGED <<processed, account, verdicts, unbooked, deaths>>

\* A consumer without a group starts at the end of the topic, wherever that is
\* by then; the log file of development is read from its beginning.
Dies(w) ==
    /\ deaths + unsure < MaxFaults
    /\ deaths' = deaths + 1
    /\ processed' = [processed EXCEPT ![w] = {}]
    /\ account' = [account EXCEPT ![w] = 0]
    /\ stage' = [stage EXCEPT ![w] = "take"]
    /\ \E o \in {1} \cup (next[w]..(Len(Topic) + 1)) :
          next' = [next EXCEPT ![w] = o]
    /\ verdicts' \in IF stage[w] = "judge" THEN {verdicts, verdicts + 1} ELSE {verdicts}
    /\ UNCHANGED <<examples, unbooked, unsure>>

Handle(w) ==
    Take(w) \/ Judge(w) \/ JudgeRaises(w) \/ WriteExample(w) \/ WriteRaises(w)

LearningNext == \E w \in Labeler : Handle(w) \/ Dies(w)

LearningSpec == LearningInit /\ [][LearningNext]_learningVars
-----------------------------------------------------------------------------
LearningTypeOK ==
    /\ next \in [Labeler -> 1..(Len(Topic) + 1)]
    /\ stage \in [Labeler -> {"take", "judge", "write"}]
    /\ processed \in [Labeler -> SUBSET Record]
    /\ account \in [Labeler -> 0..Budget]
    /\ examples \in [Record -> Nat]
    /\ verdicts \in Nat /\ unbooked \in Nat /\ deaths \in Nat /\ unsure \in Nat

\* Workers that have lived.
Lives == Cardinality(Labeler) + deaths

\* "Reprocessing the same record is a no-op" (active_learning.py:21) and the
\* budget bind a worker for its life, and nothing across lives: a record has
\* one example for each worker that has lived and each append that raised, and
\* what was paid is one budget for each life, and the verdicts that raised.
EachLifeIsAccountedFor ==
    /\ \A r \in Record : examples[r] <= Lives + unsure
    /\ verdicts <= Budget * Lives + unbooked
=============================================================================
