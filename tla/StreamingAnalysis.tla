------------------------- MODULE StreamingAnalysis --------------------------
(***************************************************************************)
(* The streaming analysis of src/streaming.py over the pages of            *)
(* MeetingStream, against the in-memory pipeline of Insights over the      *)
(* table at once, and against the audits of Validation.                    *)
(***************************************************************************)
EXTENDS MeetingStream, Validation

ASSUME ContentOfMeetings == Len(Content) = MaxMeeting

VARIABLE agg    \* agg[r]: the Aggregate of the streaming run of r

analysisVars == <<streamVars, agg>>
-----------------------------------------------------------------------------
(* The fold of a page into the running totals.                             *)

Zero == [meetings |-> 0, sentences |-> 0,
         callTypes |-> [ct \in CallTypes |-> 0],
         purposes  |-> [p \in Purposes |-> 0],
         products  |-> [p \in Product \cup {"General"} |-> 0],
         total     |-> <<0, 0>>,
         byType    |-> [ct \in CallTypes |-> <<>>],
         scores    |-> [c \in Customer \ {""} |-> <<>>],
         churn     |-> [c \in Customer \ {""} |-> 0],
         pivots    |-> <<>>,
         owners    |-> [o \in Owner |-> 0]]

\* The ids of S in their order.
Sorted(S) ==
    [i \in 1..Cardinality(S) |-> CHOOSE m \in S : Cardinality({k \in S : k < m}) = i - 1]
Sentiments(S) == [i \in 1..Cardinality(S) |-> Content[Sorted(S)[i]].sentiment]
Pair(p, q) == <<p[1] + q[1], p[2] + q[2]>>

\* churn_signal moments of the meetings of S.
Signals(S) == Total(LAMBDA m : Content[m].signals, S)

\* Mutant: the list of a customer is replaced by that of the page.
ScoresForgotten(a, c, page) == Sentiments(Of(c, page))
\* customer_meetings[c] after the page: scores that are null as well.
Scores(a, c, page) == a.scores[c] \o Sentiments(Of(c, page))

\* A customer that is the empty string is none.
FoldBatch(a, page) ==
    [meetings  |-> a.meetings + Cardinality(page),
     sentences |-> a.sentences + Sentences(page),
     callTypes |-> [ct \in CallTypes |->
                       a.callTypes[ct] + Cardinality(OfType(ct, page))],
     purposes  |-> [p \in Purposes |->
                       a.purposes[p] + Cardinality({m \in page : Purpose(m) = p})],
     products  |-> [p \in DOMAIN a.products |->
                       a.products[p] + Cardinality({m \in page : p \in ProductAreas(m)})],
     total     |-> Pair(a.total, Average(page)),
     byType    |-> [ct \in CallTypes |->
                       a.byType[ct] \o Sentiments(Scored(OfType(ct, page)))],
     scores    |-> [c \in DOMAIN a.scores |-> Scores(a, c, page)],
     churn     |-> [c \in DOMAIN a.churn |->
                       a.churn[c] + Signals(Of(c, page))],
     pivots    |-> a.pivots \o Sorted(NegativePivots(page)),
     owners    |-> [o \in Owner |-> a.owners[o] + Load(o, page)]]

Added(f, g) == [x \in DOMAIN f |-> f[x] + g[x]]
Extended(f, g) == [x \in DOMAIN f |-> f[x] \o g[x]]

\* Aggregate.merge().
Merge(a, b) ==
    [meetings |-> a.meetings + b.meetings, sentences |-> a.sentences + b.sentences,
     callTypes |-> Added(a.callTypes, b.callTypes),
     purposes |-> Added(a.purposes, b.purposes),
     products |-> Added(a.products, b.products),
     total |-> Pair(a.total, b.total),
     byType |-> Extended(a.byType, b.byType),
     scores |-> Extended(a.scores, b.scores),
     churn |-> Added(a.churn, b.churn),
     pivots |-> a.pivots \o b.pivots,
     owners |-> Added(a.owners, b.owners)]

\* add_trajectories() raises KeyError on a page without a sentence: the frame
\* of no sentences has no column meeting_id to group by.
Foldable(page) == Spoken(page) # {}

AnalysisInit == StreamInit /\ agg = [r \in Analyst |-> Zero]

StartAnalysis(r) ==
    /\ \E n \in BatchSizes : OpenAnalysis(r, n)
    /\ agg' = [agg EXCEPT ![r] = Zero]

\* A page that is not empty is yielded and folded; see Foldable.
FoldPage(r) ==
    /\ Page(r) = {} \/ Foldable(Page(r))
    /\ ReadPage(r)
    /\ agg' = [agg EXCEPT ![r] = FoldBatch(@, Page(r))]

FoldRaises(r) ==
    /\ Page(r) # {} /\ ~Foldable(Page(r))
    /\ Abandon(r)
    /\ UNCHANGED agg

\* The outputs are written.
WriteResults(r) ==
    /\ Finished(r)
    /\ UNCHANGED agg

AnalysisNext ==
    \/ (TableNext \/ ExportNext) /\ UNCHANGED agg
    \/ \E r \in Analyst : \/ StartAnalysis(r)
                          \/ FoldPage(r)
                          \/ FoldRaises(r)
                          \/ WriteResults(r)

AnalysisSpec == AnalysisInit /\ [][AnalysisNext]_analysisVars
-----------------------------------------------------------------------------
(* What write_csv() and the summary make of the aggregate.                 *)

ListAverage(list) ==
    <<FoldSeq(LAMBDA s, n : Head(s) + n, 0, list), Len(list)>>

Positive(f) == [x \in {y \in DOMAIN f : f[y] > 0} |-> f[x]]

\* The customers of the rollup; an average with a null in it is none.
StreamedHealth(a) ==
    {[customer |-> c,
      average  |-> ListAverage(a.scores[c]),
      meetings |-> Len(a.scores[c]),
      churn    |-> a.churn[c]] :
        c \in {d \in DOMAIN a.scores : a.scores[d] # <<>> /\ <<>> \notin ToSet(a.scores[d])}}

StreamedSummary(a) ==
    [meetings  |-> a.meetings,
     callTypes |-> Positive(a.callTypes),
     purposes  |-> Positive(a.purposes),
     products  |-> Positive(a.products),
     overall   |-> a.total,
     sentiment |-> [ct \in DOMAIN Positive(a.callTypes) |-> ListAverage(a.byType[ct])]]

Streamed(a) ==
    [summary |-> StreamedSummary(a),
     health  |-> StreamedHealth(a),
     pivots  |-> ToSet(a.pivots),
     owners  |-> Positive(a.owners)]

\* What it is compared with: all but customers without a name or with a meeting
\* whose score is null.
InMemory(S) ==
    LET run == RunAnalysis(S)
    IN  [summary |-> Summary(S),
         health  |-> {row \in run.health :
                         row.customer # "" /\ Of(row.customer, S) \subseteq Scored(S)},
         pivots  |-> run.pivots,
         owners  |-> [o \in {row.owner : row \in run.owners} |-> Load(o, S)]]

\* What is to be known of each table, as relations, which TLC evaluates once.
Reports == {<<S, InMemory(S)>> : S \in SUBSET Meeting}
Mergeable ==
    {<<S, \A part \in SUBSET S :
              LET merged == Merge(FoldBatch(Zero, S \ part), FoldBatch(Zero, part))
              IN  Streamed(merged) = InMemory(S) /\ IsInjective(merged.pivots)>> :
        S \in SUBSET Meeting}
Audited == {<<S, S # {} /\ Foldable(S) /\ Fails(S) = 0>> : S \in SUBSET Meeting}

\* A table that validate.py has nothing against is streamed to its end, and
\* the rollup loses no customer that has a name.
AuditHolds(r, S) ==
    <<S, TRUE>> \in Audited
    => /\ phase[r] # "failed"
       /\ phase[r] = "done" =>
             StreamedHealth(agg[r]) = {row \in CustomerHealth(S) : row.customer # ""}

\* "Same insights" (streaming.py:7-9), and "mergeable" (lines 45-51): over a
\* table that nobody changes meanwhile, a streaming run that ends reports what
\* the in-memory pipeline reports of the table, whatever the batch size and
\* wherever its pages began; so do two runs over its parts, merged.  On data
\* that pass the audits it ends, and leaves no customer out.
StreamingMatchesInMemory ==
    \A r \in Analyst : shifts[r] = [deleted |-> 0, inserted |-> 0] =>
        /\ AuditHolds(r, steady[r])
        /\ phase[r] = "done" =>
              /\ <<steady[r], Streamed(agg[r])>> \in Reports
              /\ IsInjective(agg[r].pivots)
              /\ <<steady[r], TRUE>> \in Mergeable

Counted(f) == Total(LAMBDA x : f[x], DOMAIN f)

\* No breakdown leaves a meeting out, or a score.
BreakdownsAddUp(S) ==
    LET incident == IncidentView(S)
        rivals   == CompetitiveSignals(S)
    IN  /\ Counted(Summary(S).callTypes) = Cardinality(S)
        /\ Counted([row \in SentimentByPurpose(S) |-> row.count]) = Average(S)[2]
        /\ Counted([point \in RunAnalysis(S).weekly |-> point[3][2]]) = Average(S)[2]
        /\ Counted([row \in Clusters(S) |-> row.size]) = Cardinality(S)
        /\ \A row \in ActionItemLoad(S) :
              row.total = row.external + row.internal + row.support
        /\ Counted(incident.byCallType) = incident.affected
        /\ Pair(incident.hit, incident.unhit) = Average(S)
        /\ Counted(rivals.byCallType) = Cardinality(rivals.flagged)
        /\ Pair(rivals.hit, rivals.other) = Average(S)

\* A figure that two endpoints report is the same in both.
FiguresAgree(S) ==
    LET summary == Summary(S)
        run     == RunAnalysis(S)
        scores  == SentimentScores(S)
    IN  /\ run.sentiment = summary.sentiment
        /\ run.callTypes = summary.callTypes
        /\ \A row \in SentimentByCallType(S) :
              /\ row.mean = summary.sentiment[row.group]
              /\ row.count = Cardinality(DOMAIN scores[row.group])
              /\ row.count = Cardinality(Filter(S, {row.group}, {}))
        /\ "Account Management" \in DOMAIN summary.purposes =>
              summary.purposes["Account Management"] = Cardinality(CatchAll(S))
        /\ "Incident Response" \in DOMAIN summary.purposes =>
              summary.purposes["Incident Response"] = Cardinality(IncidentView(S).direct)
        /\ \A p \in DOMAIN summary.products :
              summary.products[p] = Cardinality(Filter(S, {}, {p}))

\* So are the meetings of a customer, and whose they are.
CustomersAgree(S) ==
    LET health == HealthView(S)
    IN  /\ \A row \in health : \A detail \in CustomerDetail(row.customer, S) :
              Cardinality(detail.rows) = row.meetings /\ detail.tier = row.tier
        /\ Counted([row \in health |-> row.meetings])
             = Cardinality({row \in MeetingList(S, {}, {}) : row.customer # {}})
        /\ \A c \in {row.customer : row \in health}, m \in S :
              (\E detail \in CustomerDetail(c, S) : MeetingRow(m) \in detail.rows) <=>
              (\E detail \in MeetingDetail(m, S) : c \in detail.row.customer)

\* The weights are shares of one, as those of config.RISK_WEIGHTS are.
WeightsAreShares ==
    /\ {RiskParams.sentiment, RiskParams.signals, RiskParams.pivots} \subseteq Nat
    /\ RiskParams.sentiment + RiskParams.signals + RiskParams.pivots <= 10

\* Scores and shares are "in [0, 1]" (insights.py:50).
SharesAreBounded(S) ==
    LET speakers == DominanceView(S)
    IN  /\ WeightsAreShares => \A row \in CustomerHealth(S) :
              row.average[2] > 0 /\ AtMost(<<1, 1>>, row.average)
              => RiskScore(row, S) \in 0..1000
        /\ \A m \in DOMAIN speakers.points :
              /\ AtMost(speakers.points[m], <<1, 1>>)
              /\ CallType(m) \in speakers.byCallType

ViewsOf(S) ==
    BreakdownsAddUp(S) /\ FiguresAgree(S) /\ CustomersAgree(S) /\ SharesAreBounded(S)

AddsUp == {<<S, ViewsOf(S)>> : S \in SUBSET Meeting}

\* The views of one state of the dashboard add up, whatever rules the titles
\* match: no breakdown leaves a meeting out, and a figure that two endpoints
\* report is the same in both.  The states are those a reader has seen.
ViewsAddUp ==
    \A r \in Reader : phase[r] = "done" => <<steady[r], TRUE>> \in AddsUp
=============================================================================
