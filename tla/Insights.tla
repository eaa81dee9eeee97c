------------------------------ MODULE Insights ------------------------------
(***************************************************************************)
(* The in-memory pipeline of src/ over the set S of all meetings:          *)
(* categorizer.py, sentiment.py, insights.py, and the views of them in     *)
(* run_analysis.py and api/routes.py.  Texts are the set of rules and      *)
(* keywords they match; an average is <<sum, count>>, not rounded; the     *)
(* cluster of a meeting is given.  Sorting, and head(n) of a sorted view,  *)
(* are left out.                                                           *)
(***************************************************************************)
EXTENDS Integers, Sequences, SequencesExt, FiniteSetsExt

CONSTANTS
    Customer,     \* names that extract_customer() finds; "" can be one
    Owner,        \* what stands before ":" in an action item, or Unassigned
    Product,      \* keys of PRODUCT_KEYWORDS
    PurposeRules, \* labels of PURPOSE_RULES, in order
    Content,      \* the meetings: [1..n -> Kind], see Kind
    Tuned         \* what operators set of RiskDefaults: [some keys -> values]

CallTypeRules == <<"support", "external">>
CallTypes == {"support", "external", "internal"}
Purposes == ToSet(PurposeRules) \cup {"Account Management"}

\* A meeting as load_meeting() makes it.
Kind ==
    [matches   : SUBSET (CallTypes \cup Purposes), \* rules its title matches
     names     : Seq({<<>>} \cup {<<c>> : c \in Customer}), \* by CUSTOMER_REGEXES
     products  : SUBSET Product,            \* keywords of title and summary
     topics    : SUBSET Product,            \* keywords of validate.py in its topics
     sentiment : {<<>>} \cup {<<n>> : n \in 0..5}, \* sentimentScore, if not null
     signals   : Nat,                       \* churn signals among the key moments
     items     : Seq(Owner),                \* action items
     labels    : Seq({-1, 0, 1}),           \* sentences, by their sentiment
     talk      : Seq(Nat \X (Nat \ {0})),    \* segments: a speaker, a duration
     words     : SUBSET {"outage", "rival"}, \* keywords in the transcript
     week      : Nat, cluster : Nat]

ASSUME RulesAssumption == PurposeRules \in Seq(STRING)
ASSUME ContentAssumption == Content \in Seq(Kind)

Total(f(_), S) == MapThenSumSet(f, S)
-----------------------------------------------------------------------------
(* src/categorizer.py                                                      *)

FirstMatch(rules, matches, default) ==
    LET hits == {i \in DOMAIN rules : rules[i] \in matches}
    IN  IF hits = {} THEN default ELSE rules[Min(hits)]

CallType(m) == FirstMatch(CallTypeRules, Content[m].matches, "internal")
Purpose(m) == FirstMatch(PurposeRules, Content[m].matches, "Account Management")
ProductAreas(m) ==
    IF Content[m].products = {} THEN {"General"} ELSE Content[m].products

\* The customers of m: one, or none.
CustomerOf(m) ==
    LET hits == {i \in DOMAIN Content[m].names : Content[m].names[i] # <<>>}
    IN  IF hits = {} THEN {} ELSE ToSet(Content[m].names[Min(hits)])

Of(c, S) == {m \in S : c \in CustomerOf(m)}
OfType(ct, S) == {m \in S : CallType(m) = ct}
-----------------------------------------------------------------------------
(* src/sentiment.py                                                        *)

\* mean() of the scores that are not null.
Scored(S) == {m \in S : Content[m].sentiment # <<>>}
Average(S) ==
    <<Total(LAMBDA m : Head(Content[m].sentiment), Scored(S)), Cardinality(Scored(S))>>

NBuckets == 5

\* <<sum, count>> of the labels that fall in bucket b; an empty bucket is 0.
Bucket(labels, b) ==
    LET inside == {i \in DOMAIN labels : (NBuckets * (i - 1)) \div Len(labels) = b}
    IN  IF inside = {} THEN <<0, 1>>
        ELSE <<Total(LAMBDA i : labels[i], inside), Cardinality(inside)>>

Spoken(S) == {m \in S : Content[m].labels # <<>>}

\* Fractions with a positive denominator.
AtMost(p, q) == p[1] * q[2] <= q[1] * p[2]
FractionSum(p, q) == <<p[1] * q[2] + q[1] * p[2], p[2] * q[2]>>

\* From each bucket to the next.
Deltas(m) ==
    {LET before == Bucket(Content[m].labels, b - 1)
         after  == Bucket(Content[m].labels, b)
     IN  FractionSum(after, <<-before[1], before[2]>>) : b \in 1..(NBuckets - 1)}

\* A meeting without sentences has no max_drop.
MaxDrop(m) == CHOOSE d \in Deltas(m) : \A e \in Deltas(m) : AtMost(d, e)

WeeklyTrend(S) ==
    {<<w, ct, Average({m \in OfType(ct, S) : Content[m].week = w})>> :
        w \in {Content[m].week : m \in S}, ct \in {CallType(m) : m \in S}}
-----------------------------------------------------------------------------
(* src/insights.py                                                         *)

ByCallType(S) == [ct \in {CallType(m) : m \in S} |-> Cardinality(OfType(ct, S))]

CustomerHealth(S) ==
    {[customer |-> c,
      average  |-> Average(Of(c, S)),
      meetings |-> Cardinality(Of(c, S)),
      churn    |-> Total(LAMBDA m : Content[m].signals, Of(c, S))] :
        c \in UNION {CustomerOf(m) : m \in S}}

\* Of config.py: the weights in tenths, the thresholds in thousandths.
RiskDefaults ==
    [sentiment |-> 5, signals |-> 3, pivots |-> 2, high |-> 400, medium |-> 250]

\* Each one is a setting.
RiskParams ==
    [k \in DOMAIN RiskDefaults |-> IF k \in DOMAIN Tuned THEN Tuned[k] ELSE RiskDefaults[k]]

\* The parts of the risk of customer c, from 0 to 1 if no score is below 1.
SentimentGap(row) ==
    <<Max({0, 3 * row.average[2] - row.average[1]}), 2 * row.average[2]>>
ChurnNorm(row, S) == <<row.churn, Max({1} \cup {r.churn : r \in CustomerHealth(S)})>>
PivotNorm(row, S) ==
    LET spoken == Spoken(Of(row.customer, S))
        drop   == FoldSet(LAMBDA m, sum : FractionSum(MaxDrop(m), sum), <<0, 1>>, spoken)
    IN  IF spoken = {} THEN <<0, 1>>
        ELSE <<Max({0, -drop[1]}), 2 * drop[2] * Cardinality(spoken)>>

\* risk_score in thousandths, rounded.
RiskScore(row, S) ==
    LET Weighted(w, p) == <<w * p[1], p[2]>>
        risk == FractionSum(FractionSum(
                    Weighted(RiskParams.sentiment, SentimentGap(row)),
                    Weighted(RiskParams.signals, ChurnNorm(row, S))),
                    Weighted(RiskParams.pivots, PivotNorm(row, S)))
    IN  (200 * risk[1] + risk[2]) \div (2 * risk[2])

\* Without any score the risk is not a number, and the tier low.
RiskTier(row, S) ==
    IF row.average[2] = 0 THEN "low"
    ELSE IF RiskScore(row, S) >= RiskParams.high THEN "high"
    ELSE IF RiskScore(row, S) >= RiskParams.medium THEN "medium"
    ELSE "low"

Mentions(word, S) == {m \in S : word \in Content[m].words}

IncidentImpact(S) ==
    [total      |-> Cardinality(S),
     direct     |-> {m \in S : Purpose(m) = "Incident Response"},
     affected   |-> Cardinality(Mentions("outage", S)),
     hit        |-> Average(Mentions("outage", S)),
     unhit      |-> Average(S \ Mentions("outage", S)),
     byCallType |-> ByCallType(Mentions("outage", S))]

Tasks(o, m) == Cardinality({i \in DOMAIN Content[m].items : Content[m].items[i] = o})
Load(o, S) == Total(LAMBDA m : Tasks(o, m), S)

\* The breakdown has a column for each of three call types.
ActionItemLoad(S) ==
    {[owner |-> o, total |-> Load(o, S),
      external |-> Load(o, OfType("external", S)),
      internal |-> Load(o, OfType("internal", S)),
      support  |-> Load(o, OfType("support", S))] :
        o \in {p \in Owner : Load(p, S) > 0}}

CompetitiveSignals(S) ==
    [flagged    |-> Mentions("rival", S),
     hit        |-> Average(Mentions("rival", S)),
     other      |-> Average(S \ Mentions("rival", S)),
     byCallType |-> ByCallType(Mentions("rival", S))]

\* The rows of sentences_dataframe().
Sentences(S) == Total(LAMBDA m : Len(Content[m].labels), S)

\* speakers_dataframe(), by speaker.
Speakers(m) == {Content[m].talk[i][1] : i \in DOMAIN Content[m].talk}
TalkTime(m, who) ==
    Total(LAMBDA i : Content[m].talk[i][2],
          {i \in DOMAIN Content[m].talk : Content[m].talk[i][1] = who})

\* max_speaker_share of the meetings that have segments.
SpeakerDominance(S) ==
    [m \in {n \in S : Speakers(n) # {}} |->
        <<Max({TalkTime(m, who) : who \in Speakers(m)}),
          Total(LAMBDA who : TalkTime(m, who), Speakers(m))>>]

\* max_drop <= -0.5.
NegativePivots(S) == {m \in Spoken(S) : AtMost(MaxDrop(m), <<-1, 2>>)}

\* The in-memory mode of run_analysis.py: its summary and its exports.
RunAnalysis(S) ==
    [meetings    |-> Cardinality(S),
     callTypes   |-> ByCallType(S),
     sentiment   |-> [ct \in {CallType(m) : m \in S} |-> Average(OfType(ct, S))],
     weekly      |-> WeeklyTrend(S),
     incident    |-> IncidentImpact(S),
     competitive |-> CompetitiveSignals(S),
     health      |-> CustomerHealth(S),
     pivots      |-> NegativePivots(S),
     owners      |-> ActionItemLoad(S)]
-----------------------------------------------------------------------------
(* The views of routes.py; those of one insight are that insight.          *)

\* Mutant: all products of the meeting have to be asked for.
FilterAllProducts(S, types, products) ==
    {m \in S : /\ types # {} => CallType(m) \in types
               /\ products # {} => ProductAreas(m) \subseteq products}
\* An empty list of types or products does not filter.
Filter(S, types, products) ==
    {m \in S : /\ types # {} => CallType(m) \in types
               /\ products # {} => ProductAreas(m) \cap products # {}}

\* GET /summary.
Summary(S) ==
    [meetings  |-> Cardinality(S),
     callTypes |-> ByCallType(S),
     purposes  |-> [p \in {Purpose(m) : m \in S} |->
                       Cardinality({m \in S : Purpose(m) = p})],
     products  |-> [p \in UNION {ProductAreas(m) : m \in S} |->
                       Cardinality({m \in S : p \in ProductAreas(m)})],
     overall   |-> Average(S),
     sentiment |-> [ct \in {CallType(m) : m \in S} |-> Average(OfType(ct, S))]]

SentimentByCallType(S) ==
    {[group |-> ct, mean |-> Average(OfType(ct, S)), count |-> Cardinality(OfType(ct, S))] :
        ct \in {CallType(m) : m \in S}}

SentimentByPurpose(S) ==
    {[group |-> p, mean |-> Average({m \in S : Purpose(m) = p}),
      count |-> Cardinality({m \in Scored(S) : Purpose(m) = p})] :
        p \in {Purpose(m) : m \in S}}

SentimentScores(S) ==
    [ct \in {CallType(m) : m \in S} |->
        [m \in OfType(ct, S) |-> Content[m].sentiment]]

Clusters(S) ==
    {[cluster |-> k, size |-> Cardinality({m \in S : Content[m].cluster = k}),
      average |-> Average({m \in S : Content[m].cluster = k})] :
        k \in {Content[m].cluster : m \in S}}

\* GET /insights/speaker-dominance.
DominanceView(S) ==
    LET d == SpeakerDominance(S)
    IN  [byCallType |-> {CallType(m) : m \in DOMAIN d},
         dominated  |-> {m \in DOMAIN d : ~ AtMost(d[m], <<6, 10>>)},
         points     |-> d]

\* What every list of meetings says of one: those without sentences have no
\* drop, those without a customer none.
MeetingRow(m) ==
    [meeting |-> m, callType |-> CallType(m), purpose |-> Purpose(m),
     customer |-> CustomerOf(m), score |-> Content[m].sentiment,
     items |-> Len(Content[m].items), drop |-> {MaxDrop(n) : n \in Spoken({m})}]

\* GET /meetings.
MeetingList(S, types, products) == {MeetingRow(m) : m \in Filter(S, types, products)}

\* GET /meetings/{meeting_id}; 404 for what is not in S.
MeetingDetail(id, S) ==
    {[row |-> MeetingRow(m), sentences |-> Content[m].labels,
      speakers |-> Content[m].talk, products |-> ProductAreas(m)] : m \in S \cap {id}}

\* GET /insights/incident-impact.
IncidentView(S) ==
    LET incident == IncidentImpact(S)
    IN  [total      |-> incident.total,
         affected   |-> incident.affected,
         direct     |-> {MeetingRow(m) : m \in incident.direct},
         hit        |-> incident.hit,
         unhit      |-> incident.unhit,
         byCallType |-> incident.byCallType]

\* GET /insights/customer-health.
HealthView(S) ==
    {[customer |-> row.customer, tier |-> RiskTier(row, S), average |-> row.average,
      meetings |-> row.meetings, churn |-> row.churn] : row \in CustomerHealth(S)}

\* GET /insights/customer/{customer}; 404 without a row of customer_health().
CustomerDetail(c, S) ==
    {[tier |-> row.tier, rows |-> {MeetingRow(m) : m \in Of(c, S)}] :
        row \in {r \in HealthView(S) : r.customer = c}}
=============================================================================
