---------------------------- MODULE MCDataPlane -----------------------------
(***************************************************************************)
(* Small instances, for TLC, of the components around the data of the      *)
(* meetings.  They share no state: a behaviour belongs to one of them, its *)
(* focus, and leaves the variables of the others at their initial values.  *)
(***************************************************************************)
EXTENDS SearchIndex, StreamingAnalysis, ActiveLearning, Bootstrap, TLC

VARIABLE focus

dataVars == <<searchVars, analysisVars, learningVars, bootVars, focus>>

DataInit ==
    /\ SearchInit /\ AnalysisInit /\ LearningInit
    /\ \/ focus \in {"search", "analysis", "learning"} /\ migrating = {}
       \/ focus = "boot" /\ migrating \in SUBSET Proc
    /\ BootInit

Only(p) ==
    /\ focus = p /\ focus' = p
    /\ p # "search" => UNCHANGED searchVars
    /\ p # "analysis" => UNCHANGED analysisVars
    /\ p # "learning" => UNCHANGED learningVars
    /\ p # "boot" => UNCHANGED bootVars

DataNext ==
    \/ Only("search") /\ SearchNext
    \/ Only("analysis") /\ AnalysisNext
    \/ Only("learning") /\ LearningNext
    \/ Only("boot") /\ BootNext

\* The refresh of OpenSearch, the expiry, the indexer and the queries under way
\* go on, and so do the processes that boot, each in its own part.
DataFairness ==
    /\ WF_searchVars(focus = "search" /\ RemoteRefresh)
    /\ WF_searchVars(focus = "search" /\ DropHits)
    /\ \A t \in Token : WF_searchVars(focus = "search" /\ HitsExpire(t))
    /\ \A s \in Searcher : WF_searchVars(focus = "search" /\ Query(s))
    /\ \A p \in Proc :
          WF_bootVars(focus = "boot" /\ BootStep(p) /\ UNCHANGED migrating)

DataSpec == DataInit /\ [][DataNext]_dataVars /\ DataFairness

DataTypeOK ==
    SearchTypeOK /\ StreamTypeOK /\ LearningTypeOK /\ BootTypeOK

\* A support case about a renewal that mentions an outage; an internal meeting
\* with a customer, without sentences and score; a call with a customer that is
\* the empty string.  The first and the last pass the audits, together as well.
MCContent ==
    <<[matches |-> {"support", "external", "Renewal"},
       names |-> <<<<>>, <<"acme">>>>, products |-> {"Detect", "Comply"},
       topics |-> {"Comply"}, sentiment |-> <<4>>, signals |-> 1,
       items |-> <<"ann", "ann">>, labels |-> <<1, -1, 0, 1, 1, 1>>,
       talk |-> <<<<1, 4>>, <<2, 3>>, <<1, 2>>>>, words |-> {"outage"}, week |-> 1, cluster |-> 0],
      [matches |-> {}, names |-> <<<<"acme">>>>, products |-> {}, topics |-> {},
       sentiment |-> <<>>, signals |-> 1, items |-> <<"Unassigned", "ann">>,
       labels |-> <<>>, talk |-> <<>>, words |-> {}, week |-> 2, cluster |-> 1],
      [matches |-> {"external", "Renewal", "Review"},
       names |-> <<<<"">>, <<"acme">>>>, products |-> {"Comply"},
       topics |-> {"Detect"}, sentiment |-> <<2>>, signals |-> 2, items |-> <<>>,
       labels |-> <<0, 0, -1, -1, -1>>, talk |-> <<<<1, 2>>, <<2, 2>>>>,
       words |-> {"outage", "rival"}, week |-> 2, cluster |-> 1]>>

MCPurposeRules == <<"Incident Response", "Renewal", "Review">>

\* A lower threshold; the weights still add up to one.
MCTuned == "medium" :> 100

MCTopic == <<"i1", "i2", "i1", "i3">>
=============================================================================
