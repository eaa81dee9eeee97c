----------------------------- MODULE DataProofs -----------------------------
(***************************************************************************)
(* Proofs about what reads and indexes the meetings, for every number of   *)
(* meetings, readers, workers and writes: the postings of the search       *)
(* index, the accounts of the active-learning loop, the drift of a paged   *)
(* stream, what the streaming analysis has counted and reports at its end, *)
(* and the views of the meetings that a reader has seen.                   *)
(***************************************************************************)
EXTENDS SearchIndex, ActiveLearning, InsightProofs

-----------------------------------------------------------------------------
(* The search index.                                                       *)

\* The in-memory index has no refresh to wait for.
IndexInv ==
    /\ docs \in [MeetingId -> SUBSET Token]
    /\ postings \in [Token -> SUBSET MeetingId]
    /\ backend = "local" => pending = FALSE
    /\ PostingsHaveDocuments

\* With one indexer, whatever is indexed again, deleted and queried, no id in
\* the postings outlives its document.
THEOREM PostingsStayBacked == SearchSpec => []PostingsHaveDocuments
<1>1. SearchInit => IndexInv
  BY DEF SearchInit, IndexInv, PostingsHaveDocuments, None
<1>2. IndexInv /\ [SearchNext]_searchVars => IndexInv'
  <2> SUFFICES ASSUME IndexInv, [SearchNext]_searchVars PROVE IndexInv'
    OBVIOUS
  <2> USE DEF IndexInv, PostingsHaveDocuments
  <2>1. CASE UNCHANGED <<backend, docs, postings, pending>>
    BY <2>1
  <2>2. CASE ChooseOpenSearch
    BY <2>2 DEF ChooseOpenSearch
  <2>3. ASSUME NEW m \in MeetingId, NEW text \in Text, LocalIndex(m, text)
        PROVE  IndexInv'
    <3>1. text # None /\ text \in SUBSET Token
      BY DEF Text, None
    <3>2. /\ docs' = [docs EXCEPT ![m] = text]
          /\ postings' = [t \in Token |->
                             IF t \in text THEN postings[t] \cup {m} ELSE postings[t]]
          /\ backend = "local" /\ UNCHANGED <<backend, pending>>
      BY <2>3 DEF LocalIndex, Posted
    <3>3. /\ docs' \in [MeetingId -> SUBSET Token]
          /\ postings' \in [Token -> SUBSET MeetingId]
      BY <3>1, <3>2
    <3>4. \A k \in MeetingId : docs'[k] = IF k = m THEN text ELSE docs[k]
      BY <3>2
    <3>5. \A t \in Token : postings'[t] \subseteq postings[t] \cup {m}
      BY <3>2
    <3> QED BY <3>1, <3>2, <3>3, <3>4, <3>5
  <2>4. ASSUME NEW m \in MeetingId, LocalDelete(m) PROVE IndexInv'
    BY <2>4 DEF LocalDelete, Cleaned, None
  <2>5. ASSUME NEW m \in MeetingId, NEW text \in Text \cup {None}, RemoteWrite(m, text)
        PROVE  IndexInv'
    BY <2>5 DEF RemoteWrite, Text, None
  <2>6. CASE RemoteRefresh
    BY <2>6 DEF RemoteRefresh
  <2> QED
    BY <2>1, <2>2, <2>3, <2>4, <2>5, <2>6
       DEF SearchNext, Write, DropHits, Query, LookUp, Render, SearchRemote, FillHits,
           BeginQuery, HitsExpire, indexVars, searchVars
<1>3. IndexInv => PostingsHaveDocuments
  BY DEF IndexInv
<1> QED BY <1>1, <1>2, <1>3, PTL DEF SearchSpec

-----------------------------------------------------------------------------
(* The active-learning loop.                                               *)

\* The workers that remember record r.
Remember(r) == {w \in Labeler : r \in processed[w]}

\* The verdicts in the accounts of the workers, one by one.
Booked == {p \in Labeler \X (1..Budget) : p[2] <= account[p[1]]}

\* A worker writes an example only of what it does not remember, and asks for
\* a verdict only within its budget.
WorkInv ==
    \A w \in Labeler :
        /\ stage[w] # "take" => next[w] <= Len(Topic) /\ At(w) \notin processed[w]
        /\ stage[w] = "judge" => account[w] < Budget

\* Every example is remembered by a worker, or by none because one died or an
\* append raised; every verdict is in an account, or was in that of one that
\* died.
AccountInv ==
    /\ \A r \in Record : examples[r] <= Cardinality(Remember(r)) + deaths + unsure
    /\ verdicts <= Cardinality(Booked) + Budget * deaths + unbooked

LearningInv == LearningTypeOK /\ WorkInv /\ AccountInv

\* What is booked is finite, and within one budget for each worker.
LEMMA BookedIsBounded ==
    /\ IsFiniteSet(Booked) /\ Cardinality(Booked) \in Nat
    /\ Cardinality(Booked) <= Budget * Cardinality(Labeler)
<1> USE LearningAssumption
<1>1. IsFiniteSet(1..Budget) /\ Cardinality(1..Budget) = Budget
  BY FS_Interval
<1>2. /\ IsFiniteSet(Labeler \X (1..Budget))
      /\ Cardinality(Labeler \X (1..Budget)) = Cardinality(Labeler) * Budget
  BY <1>1, FS_Product
<1>3. Booked \subseteq Labeler \X (1..Budget)
  BY DEF Booked
<1>4. Cardinality(Labeler) \in Nat
  BY FS_CardinalityType
<1> QED BY <1>2, <1>3, <1>4, FS_Subset, FS_CardinalityType

\* The workers that remember a record are finitely many.
LEMMA RememberIsFinite ==
    ASSUME NEW r
    PROVE  /\ IsFiniteSet(Remember(r)) /\ Cardinality(Remember(r)) \in Nat
           /\ Cardinality(Remember(r)) <= Cardinality(Labeler)
<1>1. Remember(r) \subseteq Labeler
  BY DEF Remember
<1> QED BY <1>1, LearningAssumption, FS_Subset, FS_CardinalityType

\* The types, and the guards, of each step.
LEMMA WorkStepKeepsTypes ==
    ASSUME LearningTypeOK, WorkInv, NEW w \in Labeler, Handle(w) \/ Dies(w)
    PROVE  LearningTypeOK' /\ WorkInv'
<1> USE LearningAssumption
<1>1. Len(Topic) \in Nat /\ DOMAIN Topic = 1..Len(Topic)
  BY DEF Record
<1>2. next[w] \in 1..(Len(Topic) + 1) /\ account[w] \in 0..Budget
  BY DEF LearningTypeOK
<1>3. stage[w] # "take" => next[w] \in 1..Len(Topic) /\ At(w) \in Record
  BY <1>1, <1>2 DEF WorkInv, At, Record
<1>4. \A v \in Labeler : v # w =>
          /\ next'[v] = next[v] /\ stage'[v] = stage[v]
          /\ processed'[v] = processed[v] /\ account'[v] = account[v]
  BY DEF LearningTypeOK, Handle, Take, Judge, JudgeRaises, WriteExample, WriteRaises,
         Dies, GoOn
<1>5. \A v \in Labeler : v # w => At(v)' = At(v)
  BY <1>4 DEF At
<1>6. CASE Take(w)
  <2>1. next[w] <= Len(Topic) /\ next[w] + 1 \in 1..(Len(Topic) + 1)
    BY <1>1, <1>2, <1>6 DEF Take
  <2>2. /\ next' \in [Labeler -> 1..(Len(Topic) + 1)]
        /\ stage' \in [Labeler -> {"take", "judge", "write"}]
        /\ \/ stage'[w] = "take"
           \/ stage'[w] = "judge" /\ next'[w] = next[w] /\ ~ PassedOver(w)
    <3>1. CASE PassedOver(w)
      BY <1>6, <2>1, <3>1 DEF Take, GoOn, LearningTypeOK
    <3>2. CASE ~ PassedOver(w)
      BY <1>6, <3>2 DEF Take, LearningTypeOK
    <3> QED BY <3>1, <3>2
  <2>3. processed' = processed /\ account' = account
    BY <1>6 DEF Take
  <2>4. WorkInv'
    BY <1>2, <1>4, <1>5, <2>1, <2>2, <2>3 DEF WorkInv, PassedOver, At
  <2>5. LearningTypeOK'
    BY <1>6, <2>2 DEF Take, LearningTypeOK
  <2> QED BY <2>4, <2>5
<1>7. CASE Judge(w)
  <2>1. account[w] + 1 \in 0..Budget
    BY <1>2, <1>7 DEF Judge, WorkInv
  <2>2. LearningTypeOK'
    BY <1>7, <2>1 DEF Judge, LearningTypeOK
  <2>3. stage'[w] = "write" /\ next' = next /\ processed' = processed
    BY <1>7 DEF Judge, LearningTypeOK
  <2>4. WorkInv'
    BY <1>4, <1>5, <1>7, <2>3 DEF Judge, WorkInv, At
  <2> QED BY <2>2, <2>4
<1>8. CASE JudgeRaises(w) \/ WriteExample(w) \/ WriteRaises(w)
  <2>1. stage[w] # "take" /\ stage'[w] = "take"
    BY <1>8 DEF JudgeRaises, WriteExample, WriteRaises, GoOn, LearningTypeOK
  <2>2. At(w) \in Record /\ next[w] + 1 \in 1..(Len(Topic) + 1)
    BY <1>1, <1>3, <2>1
  <2>3. /\ Appended(w) \in [Record -> Nat] /\ examples \in [Record -> Nat]
        /\ processed[w] \cup {At(w)} \in SUBSET Record
    BY <2>2 DEF Appended, LearningTypeOK
  <2>4. /\ examples' \in [Record -> Nat]
        /\ processed' \in [Labeler -> SUBSET Record]
        /\ verdicts' \in Nat /\ unbooked' \in Nat /\ unsure' \in Nat
        /\ UNCHANGED <<account, deaths>> /\ GoOn(w)
    <3>1. CASE JudgeRaises(w)
      <4>1. /\ GoOn(w) /\ UNCHANGED <<processed, account, examples, deaths, unsure>>
            /\ verdicts' = verdicts \/ verdicts' = verdicts + 1
            /\ unbooked' = unbooked \/ unbooked' = unbooked + 1
        BY <3>1 DEF JudgeRaises
      <4> QED BY <4>1 DEF LearningTypeOK
    <3>2. CASE WriteExample(w)
      BY <2>3, <3>2 DEF WriteExample, LearningTypeOK
    <3>3. CASE WriteRaises(w)
      BY <2>3, <3>3 DEF WriteRaises, LearningTypeOK
    <3> QED BY <1>8, <3>1, <3>2, <3>3
  <2>6. LearningTypeOK'
    BY <2>2, <2>4 DEF GoOn, LearningTypeOK
  <2>5. WorkInv'
    BY <1>4, <1>5, <2>1 DEF WorkInv
  <2> QED BY <2>5, <2>6
<1>9. CASE Dies(w)
  <2>1. stage'[w] = "take"
    BY <1>9 DEF Dies, LearningTypeOK
  <2>2. PICK o \in {1} \cup (next[w]..(Len(Topic) + 1)) : next' = [next EXCEPT ![w] = o]
    BY <1>9 DEF Dies
  <2>3. o \in 1..(Len(Topic) + 1)
    BY <1>1, <1>2
  <2>4. LearningTypeOK'
    BY <1>9, <2>2, <2>3 DEF Dies, LearningTypeOK
  <2>5. WorkInv'
    BY <1>4, <1>5, <2>1 DEF WorkInv
  <2> QED BY <2>4, <2>5
<1> QED BY <1>6, <1>7, <1>8, <1>9 DEF Handle

\* An example is added only together with a worker that remembers it, or with
\* an append that raised; a worker forgets only when it dies.
LEMMA ExamplesAreAccountedFor ==
    ASSUME LearningInv, NEW w \in Labeler, Handle(w) \/ Dies(w), NEW r \in Record
    PROVE  examples'[r] <= Cardinality(Remember(r)') + deaths' + unsure'
<1> USE DEF LearningInv, LearningTypeOK
<1>1. /\ IsFiniteSet(Remember(r)) /\ Cardinality(Remember(r)) \in Nat
      /\ examples[r] <= Cardinality(Remember(r)) + deaths + unsure
  BY RememberIsFinite DEF AccountInv
<1>2. CASE Take(w) \/ Judge(w) \/ JudgeRaises(w)
  <2>1. UNCHANGED <<processed, examples, deaths, unsure>>
    BY <1>2 DEF Take, Judge, JudgeRaises
  <2> QED BY <1>1, <2>1 DEF Remember
<1>3. CASE WriteExample(w)
  <2>1. /\ processed' = [processed EXCEPT ![w] = processed[w] \cup {At(w)}]
        /\ examples' = [examples EXCEPT ![At(w)] = examples[At(w)] + 1]
        /\ UNCHANGED <<deaths, unsure>> /\ At(w) \notin processed[w]
    BY <1>3 DEF WriteExample, Appended, WorkInv
  <2>2. CASE r = At(w)
    <3>1. Remember(r)' = Remember(r) \cup {w} /\ w \notin Remember(r)
      BY <2>1, <2>2 DEF Remember
    <3>2. Cardinality(Remember(r)') = Cardinality(Remember(r)) + 1
      BY <1>1, <3>1, FS_AddElement
    <3>3. examples'[r] = examples[r] + 1
      BY <2>1, <2>2
    <3> QED BY <1>1, <2>1, <3>2, <3>3
  <2>3. CASE r # At(w)
    <3>1. Remember(r)' = Remember(r) /\ examples'[r] = examples[r]
      BY <2>1, <2>3 DEF Remember
    <3> QED BY <1>1, <2>1, <3>1
  <2> QED BY <2>2, <2>3
<1>4. CASE WriteRaises(w)
  <2>1. /\ UNCHANGED <<processed, deaths>> /\ unsure' = unsure + 1
        /\ examples'[r] <= examples[r] + 1 /\ examples'[r] \in Nat
    BY <1>4 DEF WriteRaises, Appended
  <2>2. Remember(r)' = Remember(r)
    BY <2>1 DEF Remember
  <2> QED BY <1>1, <2>1, <2>2
<1>5. CASE Dies(w)
  <2>1. /\ processed' = [processed EXCEPT ![w] = {}]
        /\ UNCHANGED <<examples, unsure>> /\ deaths' = deaths + 1
    BY <1>5 DEF Dies
  <2>2. Remember(r)' = Remember(r) \ {w}
    BY <2>1 DEF Remember
  <2>3. Cardinality(Remember(r)') >= Cardinality(Remember(r)) - 1
    <3>1. Cardinality(Remember(r) \ {w}) =
             IF w \in Remember(r) THEN Cardinality(Remember(r)) - 1
             ELSE Cardinality(Remember(r))
      BY <1>1, FS_RemoveElement
    <3> QED BY <1>1, <2>2, <3>1
  <2>4. Cardinality(Remember(r)') \in Nat
    BY <1>1, <2>2, FS_RemoveElement, FS_CardinalityType
  <2> QED BY <1>1, <2>1, <2>3, <2>4
<1> QED BY <1>2, <1>3, <1>4, <1>5 DEF Handle

\* A verdict is booked, or raised, or was that of a worker that died within
\* its budget.
LEMMA VerdictsAreAccountedFor ==
    ASSUME LearningInv, NEW w \in Labeler, Handle(w) \/ Dies(w)
    PROVE  verdicts' <= Cardinality(Booked') + Budget * deaths' + unbooked'
<1>1. /\ IsFiniteSet(Booked) /\ Cardinality(Booked) \in Nat
      /\ verdicts <= Cardinality(Booked) + Budget * deaths + unbooked
      /\ Budget * deaths \in Nat /\ Budget \in Nat /\ deaths \in Nat
      /\ verdicts \in Nat /\ unbooked \in Nat /\ account \in [Labeler -> 0..Budget]
  BY LearningAssumption, BookedIsBounded DEF LearningInv, LearningTypeOK, AccountInv
<1>2. CASE Take(w) \/ JudgeRaises(w) \/ WriteExample(w) \/ WriteRaises(w)
  <2>1. /\ UNCHANGED <<account, deaths>>
        /\ \/ UNCHANGED <<verdicts, unbooked>>
           \/ verdicts' = verdicts + 1 /\ unbooked' = unbooked + 1
    BY <1>2 DEF Take, JudgeRaises, WriteExample, WriteRaises
  <2>2. Booked' = Booked
    BY <2>1 DEF Booked
  <2> QED BY <1>1, <2>1, <2>2
<1>3. CASE Judge(w)
  <2>1. /\ account' = [account EXCEPT ![w] = account[w] + 1]
        /\ verdicts' = verdicts + 1 /\ UNCHANGED <<deaths, unbooked>>
        /\ account[w] \in 0..Budget /\ account[w] < Budget
    BY <1>1, <1>3 DEF Judge, LearningInv, WorkInv
  <2>2. \A v \in Labeler : account'[v] = IF v = w THEN account[w] + 1 ELSE account[v]
    BY <1>1, <2>1
  <2>3. <<w, account[w] + 1>> \notin Booked
    BY <2>1 DEF Booked
  <2>4. Booked' = Booked \cup {<<w, account[w] + 1>>}
    <3>1. <<w, account[w] + 1>> \in Booked'
      <4>1. account[w] + 1 \in 1..Budget /\ account'[w] = account[w] + 1
        BY <1>1, <2>1, <2>2
      <4> QED BY <4>1 DEF Booked
    <3>2. ASSUME NEW v \in Labeler, NEW i \in 1..Budget, <<v, i>> # <<w, account[w] + 1>>
          PROVE  <<v, i>> \in Booked' <=> <<v, i>> \in Booked
      <4>1. /\ <<v, i>> \in Booked' <=> i <= account'[v]
            /\ <<v, i>> \in Booked <=> i <= account[v]
        BY DEF Booked
      <4>2. account[v] \in 0..Budget
        BY <1>1
      <4> QED BY <2>1, <2>2, <3>2, <4>1, <4>2
    <3>3. \A p \in Labeler \X (1..Budget) :
             p \in Booked' <=> p \in Booked \/ p = <<w, account[w] + 1>>
      BY <3>1, <3>2
    <3>4. Booked \subseteq Labeler \X (1..Budget) /\ Booked' \subseteq Labeler \X (1..Budget)
      BY DEF Booked
    <3> QED BY <3>1, <3>3, <3>4
  <2>5. Cardinality(Booked') = Cardinality(Booked) + 1
    BY <1>1, <2>3, <2>4, FS_AddElement
  <2> QED BY <1>1, <2>1, <2>5
<1>4. CASE Dies(w)
  <2> DEFINE Mine == {w} \X (1..account[w])
  <2>1. /\ account' = [account EXCEPT ![w] = 0] /\ deaths' = deaths + 1
        /\ UNCHANGED unbooked /\ account[w] \in 0..Budget
    BY <1>1, <1>4 DEF Dies
  <2>2. verdicts' \in Nat /\ verdicts' <= verdicts + Budget - account[w]
    <3>1. stage[w] = "judge" => account[w] + 1 <= Budget
      BY <1>1, <2>1 DEF LearningInv, WorkInv
    <3>2. verdicts' = verdicts \/ (stage[w] = "judge" /\ verdicts' = verdicts + 1)
      <4>1. CASE stage[w] = "judge"
        BY <1>4, <4>1 DEF Dies
      <4>2. CASE stage[w] # "judge"
        BY <1>4, <4>2 DEF Dies
      <4> QED BY <4>1, <4>2
    <3> QED BY <1>1, <2>1, <3>1, <3>2
  <2>3. IsFiniteSet(Mine) /\ Cardinality(Mine) = account[w]
    <3>1. IsFiniteSet(1..account[w]) /\ Cardinality(1..account[w]) = account[w]
      <4>1. account[w] \in Nat
        BY <1>1, <2>1
      <4> QED BY <4>1, CountingSize
    <3>2. IsFiniteSet({w}) /\ Cardinality({w}) = 1
      BY FS_Singleton
    <3>3. /\ Cardinality(Mine) = Cardinality({w}) * Cardinality(1..account[w])
          /\ IsFiniteSet(Mine)
      BY <3>1, <3>2, FS_Product
    <3> QED BY <2>1, <3>1, <3>2, <3>3
  <2>4. Booked' = Booked \ Mine
    <3>1. \A v \in Labeler : account'[v] = IF v = w THEN 0 ELSE account[v]
      BY <1>1, <2>1
    <3>2. ASSUME NEW v \in Labeler, NEW i \in 1..Budget
          PROVE  <<v, i>> \in Booked' <=> <<v, i>> \in Booked /\ <<v, i>> \notin Mine
      <4>1. /\ <<v, i>> \in Booked' <=> i <= account'[v]
            /\ <<v, i>> \in Booked <=> i <= account[v]
            /\ <<v, i>> \in Mine <=> v = w /\ i <= account[w]
        BY <2>1 DEF Booked
      <4> QED BY <2>1, <3>1, <4>1
    <3>3. \A p \in Labeler \X (1..Budget) : p \in Booked' <=> p \in Booked /\ p \notin Mine
      BY <3>2
    <3>4. Booked \subseteq Labeler \X (1..Budget) /\ Booked' \subseteq Labeler \X (1..Budget)
      BY DEF Booked
    <3> QED BY <3>3, <3>4
  <2>5. /\ Cardinality(Booked') = Cardinality(Booked) - Cardinality(Booked \cap Mine)
        /\ Cardinality(Booked \cap Mine) <= account[w]
        /\ Cardinality(Booked \cap Mine) \in Nat
    BY <1>1, <2>3, <2>4, FS_Difference, FS_Intersection, FS_CardinalityType
  <2>6. Budget * deaths' = Budget * deaths + Budget
    BY <1>1, <2>1
  <2> QED BY <1>1, <2>1, <2>2, <2>5, <2>6
<1> QED BY <1>2, <1>3, <1>4 DEF Handle

\* For any topic, any number of workers and any budget: a record has at most
\* one example for each worker that has lived and each append that raised, and
\* the verdicts paid are at most one budget for each life and those that raised.
THEOREM LivesAreAccountedFor == LearningSpec => []EachLifeIsAccountedFor
<1> USE LearningAssumption
<1>1. LearningInit => LearningInv
  <2> SUFFICES ASSUME LearningInit PROVE LearningInv
    OBVIOUS
  <2>1. Len(Topic) \in Nat
    OBVIOUS
  <2>2. LearningTypeOK /\ WorkInv
    BY <2>1 DEF LearningInit, LearningTypeOK, WorkInv
  <2>3. AccountInv
    BY BookedIsBounded, RememberIsFinite DEF LearningInit, AccountInv
  <2> QED BY <2>2, <2>3 DEF LearningInv
<1>2. LearningInv /\ [LearningNext]_learningVars => LearningInv'
  <2> SUFFICES ASSUME LearningInv, [LearningNext]_learningVars PROVE LearningInv'
    OBVIOUS
  <2>1. CASE UNCHANGED learningVars
    BY <2>1 DEF learningVars, LearningInv, LearningTypeOK, WorkInv, AccountInv, At,
                Remember, Booked
  <2>2. ASSUME NEW w \in Labeler, Handle(w) \/ Dies(w) PROVE LearningInv'
    BY <2>2, WorkStepKeepsTypes, ExamplesAreAccountedFor, VerdictsAreAccountedFor
       DEF LearningInv, AccountInv
  <2> QED BY <2>1, <2>2 DEF LearningNext
<1>3. LearningInv => EachLifeIsAccountedFor
  <2> SUFFICES ASSUME LearningInv PROVE EachLifeIsAccountedFor
    OBVIOUS
  <2>1. Cardinality(Labeler) \in Nat /\ deaths \in Nat
    BY FS_CardinalityType DEF LearningInv, LearningTypeOK
  <2>2. ASSUME NEW r \in Record PROVE examples[r] <= Lives + unsure
    BY <2>1, RememberIsFinite DEF LearningInv, LearningTypeOK, AccountInv, Lives
  <2>3. Budget * Lives = Budget * Cardinality(Labeler) + Budget * deaths
    BY <2>1 DEF Lives
  <2>4. verdicts <= Budget * Lives + unbooked
    BY <2>1, <2>3, BookedIsBounded DEF LearningInv, LearningTypeOK, AccountInv
  <2> QED BY <2>2, <2>4 DEF EachLifeIsAccountedFor
<1> QED BY <1>1, <1>2, <1>3, PTL DEF LearningSpec

-----------------------------------------------------------------------------
(* The paged stream.                                                       *)

\* The rows in front of r's offset that were there all the time and that r was
\* not handed.
Skipped(r) == {m \in steady[r] : delivered[r][m] = 0 /\ Rank(m) < offset[r]}

\* The rows behind r's offset that it was handed already.
Due(r) == {m \in table : delivered[r][m] > 0 /\ Rank(m) >= offset[r]}

\* The deliveries X has in store for r, and those r repeats if it gets there.
Deliveries(r, X) == {<<m, delivered[r][m] + 1>> : m \in X}
Surplus(r) == Repeated(r) \cup Deliveries(r, Due(r))

DriftTypeOK ==
    /\ table \subseteq Meeting
    /\ size \in [Reader -> Nat \ {0}]
    /\ offset \in [Reader -> Nat]
    /\ phase \in [Reader -> ReaderPhase]
    /\ delivered \in [Reader -> [Meeting -> Nat]]
    /\ steady \in [Reader -> SUBSET Meeting]
    /\ shifts \in [Reader -> [deleted : Nat, inserted : Nat]]

\* An open stream has skipped no more rows than were deleted under it, and has
\* no more repetitions in store than rows were inserted.
OpenInv(r) ==
    phase[r] = "reading" =>
        /\ steady[r] \subseteq table
        /\ Cardinality(Skipped(r)) <= shifts[r].deleted
        /\ IsFiniteSet(Surplus(r))
        /\ Cardinality(Surplus(r)) <= shifts[r].inserted

DoneInv(r) ==
    phase[r] = "done" => /\ Cardinality(Missed(r)) <= shifts[r].deleted
                         /\ IsFiniteSet(Repeated(r))
                         /\ Cardinality(Repeated(r)) <= shifts[r].inserted

DriftInv == DriftTypeOK /\ \A r \in Reader : OpenInv(r) /\ DoneInv(r)

\* More rows, higher ranks: and a row that goes lowers a rank by one at most.
LEMMA RanksFollowRows ==
    ASSUME NEW T, T \subseteq Int, IsFiniteSet(T), NEW m \in Int
    PROVE  /\ \A U \in SUBSET T : RankIn(U, m) <= RankIn(T, m)
           /\ \A x \in T : RankIn(T \ {x}, m) >= RankIn(T, m) - 1
<1> DEFINE M == {k \in T : k < m}
<1>1. M \subseteq T /\ IsFiniteSet(M)
  BY FS_Subset
<1>2. ASSUME NEW U \in SUBSET T PROVE RankIn(U, m) <= RankIn(T, m)
  <2>1. {k \in U : k < m} \subseteq M
    OBVIOUS
  <2> QED BY <1>1, <2>1, FS_Subset DEF RankIn
<1>3. ASSUME NEW x \in T PROVE RankIn(T \ {x}, m) >= RankIn(T, m) - 1
  <2>1. {k \in T \ {x} : k < m} = M \ {x}
    OBVIOUS
  <2>2. Cardinality(M \ {x}) = IF x \in M THEN Cardinality(M) - 1 ELSE Cardinality(M)
    BY <1>1, FS_RemoveElement
  <2>3. Cardinality(M) \in Nat
    BY <1>1, FS_CardinalityType
  <2> QED BY <2>1, <2>2, <2>3 DEF RankIn
<1> QED BY <1>2, <1>3

\* In a larger table no fewer rows come before an offset.
LEMMA MoreRowsBeforeOffset ==
    ASSUME NEW U, U \subseteq Int, IsFiniteSet(U), NEW T \in SUBSET U, NEW n \in Nat
    PROVE  Cardinality({m \in T : RankIn(T, m) < n})
             <= Cardinality({m \in U : RankIn(U, m) < n})
<1> DEFINE Ranks(V) == {j \in 0..(Cardinality(V) - 1) : j < n}
<1>1. /\ IsFiniteSet(T) /\ Cardinality(T) <= Cardinality(U)
      /\ Cardinality(T) \in Nat /\ Cardinality(U) \in Nat
  BY FS_Subset, FS_CardinalityType
<1>2. ASSUME NEW V, V \subseteq Int, IsFiniteSet(V)
      PROVE  Cardinality({m \in V : RankIn(V, m) < n}) = Cardinality(Ranks(V))
  <2>1. Cardinality(V) \in Nat
    BY <1>2, FS_CardinalityType
  <2>2. \A m \in V : RankIn(V, m) \in Nat /\ RankIn(V, m) < Cardinality(V)
    BY <1>2, RanksAreOrdered
  <2>3. {m \in V : RankIn(V, m) < n} = {m \in V : RankIn(V, m) \in Ranks(V)}
    BY <2>1, <2>2
  <2>4. Ranks(V) \subseteq 0..(Cardinality(V) - 1)
    OBVIOUS
  <2> HIDE DEF Ranks
  <2> QED BY <1>2, <2>3, <2>4, RanksAreFilled
<1>3. Ranks(T) \subseteq Ranks(U) /\ Ranks(U) \subseteq 0..(Cardinality(U) - 1)
  BY <1>1
<1>4. IsFiniteSet(Ranks(U))
  <2>1. 0 \in Int /\ Cardinality(U) - 1 \in Int
    BY <1>1
  <2>2. IsFiniteSet(0..(Cardinality(U) - 1))
    BY <2>1, FS_Interval
  <2> HIDE DEF Ranks
  <2> QED BY <1>3, <2>2, FS_Subset
<1>5. Cardinality(Ranks(T)) <= Cardinality(Ranks(U))
  <2> HIDE DEF Ranks
  <2> QED BY <1>3, <1>4, FS_Subset
<1>6. T \subseteq Int
  OBVIOUS
<1>7. /\ Cardinality({m \in T : RankIn(T, m) < n}) = Cardinality(Ranks(T))
      /\ Cardinality({m \in U : RankIn(U, m) < n}) = Cardinality(Ranks(U))
  BY <1>1, <1>2, <1>6
<1> QED BY <1>5, <1>7

-----------------------------------------------------------------------------
LEMMA TableIsFinite ==
    ASSUME DriftTypeOK
    PROVE  /\ Meeting \subseteq Int /\ IsFiniteSet(Meeting)
           /\ table \subseteq Int /\ IsFiniteSet(table)
           /\ \A m \in Int : Rank(m) = RankIn(table, m) /\ Rank(m) \in Nat
<1>1. Meeting \subseteq Int /\ IsFiniteSet(Meeting)
  BY StreamAssumption, FS_Interval DEF Meeting
<1>2. table \subseteq Int /\ IsFiniteSet(table)
  BY <1>1, FS_Subset DEF DriftTypeOK
<1>3. \A m \in Int : Rank(m) = RankIn(table, m)
  BY DEF Rank, RankIn
<1> QED BY <1>1, <1>2, <1>3, RanksAreOrdered

\* A repetition is a delivery of a row after its first.
LEMMA RepetitionsAreDeliveries ==
    ASSUME NEW r \in Reader, NEW p
    PROVE  p \in Repeated(r) <=>
             \E m \in Meeting : \E i \in 2..delivered[r][m] : p = <<m, i>>
BY DEF Repeated

\* A delivery for each row.
LEMMA DeliveriesAreAsMany ==
    ASSUME NEW r \in Reader, NEW X, IsFiniteSet(X)
    PROVE  /\ IsFiniteSet(Deliveries(r, X))
           /\ Cardinality(Deliveries(r, X)) = Cardinality(X)
<1> DEFINE f == [m \in X |-> <<m, delivered[r][m] + 1>>]
<1>1. f \in Surjection(X, Deliveries(r, X))
  BY DEF Surjection, Deliveries
<1>2. f \in Injection(X, Deliveries(r, X))
  BY DEF Injection, IsInjective, Deliveries
<1> QED BY <1>1, <1>2, FS_Surjection

\* A page has at most as many rows as asked for, and is the last if it has less.
LEMMA ShortPageIsLast ==
    ASSUME DriftTypeOK, NEW r \in Reader
    PROVE  /\ Cardinality(Page(r)) \in Nat /\ Cardinality(Page(r)) <= size[r]
           /\ Cardinality(Page(r)) < size[r]
              => \A m \in table : Rank(m) < offset[r] + size[r]
<1> DEFINE c == Cardinality(table)
           o == offset[r]
           n == size[r]
           J == {j \in 0..(c - 1) : j >= o /\ j < o + n}
<1>1. /\ c \in Nat /\ o \in Nat /\ n \in Nat \ {0}
      /\ table \subseteq Int /\ IsFiniteSet(table)
  BY TableIsFinite, FS_CardinalityType DEF DriftTypeOK
<1>2. \A m \in table :
          Rank(m) = RankIn(table, m) /\ Rank(m) \in Nat /\ Rank(m) < c
  <2> SUFFICES ASSUME NEW m \in table
               PROVE  Rank(m) = RankIn(table, m) /\ Rank(m) \in Nat /\ Rank(m) < c
    OBVIOUS
  <2>1. m \in Int
    BY <1>1
  <2> QED BY <1>1, <2>1, TableIsFinite, RanksAreOrdered
<1>3. Page(r) = {m \in table : RankIn(table, m) \in J}
  <2>1. ASSUME NEW m \in table
        PROVE  Rank(m) >= o /\ Rank(m) < o + n <=> RankIn(table, m) \in J
    <3>1. Rank(m) \in 0..(c - 1)
      BY <1>1, <1>2
    <3> QED BY <1>2, <3>1
  <2> QED BY <2>1 DEF Page
<1>4. Cardinality(Page(r)) = Cardinality(J)
  <2>1. J \subseteq 0..(Cardinality(table) - 1)
    OBVIOUS
  <2> HIDE DEF J
  <2> QED BY <1>1, <1>3, <2>1, RanksAreFilled
<1>5. IsFiniteSet(o..(o + n - 1)) /\ Cardinality(o..(o + n - 1)) = n
  BY <1>1, IntervalSize
<1>6. J \subseteq o..(o + n - 1)
  BY <1>1
<1>7. IsFiniteSet(J) /\ Cardinality(J) <= n /\ Cardinality(J) \in Nat
  <2> HIDE DEF J
  <2> QED BY <1>5, <1>6, FS_Subset, FS_CardinalityType
<1>8. ASSUME NEW m \in table, Rank(m) >= o + n PROVE Cardinality(J) = n
  <2>1. o..(o + n - 1) \subseteq J
    BY <1>1, <1>2, <1>8
  <2>2. J = o..(o + n - 1)
    BY <1>6, <2>1
  <2> QED BY <1>5, <2>2
<1>9. \A m \in table : Rank(m) < o + n \/ Rank(m) >= o + n
  BY <1>1, <1>2
<1> QED BY <1>1, <1>4, <1>7, <1>8, <1>9

\* A reader is not disturbed by what others do to themselves.
LEMMA OthersAreLeftAlone ==
    ASSUME DriftInv, NEW r \in Reader, table' = table,
           phase'[r] = phase[r], offset'[r] = offset[r],
           delivered'[r] = delivered[r], steady'[r] = steady[r], shifts'[r] = shifts[r]
    PROVE  OpenInv(r)' /\ DoneInv(r)'
BY DEF DriftInv, OpenInv, DoneInv, Skipped, Surplus, Due, Deliveries, Missed, Repeated, Rank

\* What a deletion changes for the readers.
LEMMA WhatDeletionShifts ==
    ASSUME DriftTypeOK, NEW x \in Meeting, DeleteRow(x)
    PROVE  /\ table' = table \ {x} /\ x \in table
           /\ steady' = [r \in Reader |->
                 IF phase[r] # "reading" THEN steady[r] ELSE steady[r] \ {x}]
           /\ shifts' = [r \in Reader |->
                 IF phase[r] # "reading" THEN shifts[r]
                 ELSE [deleted  |-> shifts[r].deleted + 1,
                       inserted |-> shifts[r].inserted]]
           /\ UNCHANGED <<phase, size, offset, delivered>>
<1>1. Cardinality({x}) = 1 /\ Cardinality({} \ table) = 0
  BY FS_Singleton, FS_EmptySet
<1>2. \A r \in Reader : shifts[r].inserted + 0 = shifts[r].inserted
  BY DEF DriftTypeOK
<1> QED BY <1>1, <1>2 DEF DeleteRow, Shift

\* What an import changes for the readers.
LEMMA WhatInsertionShifts ==
    ASSUME DriftTypeOK, NEW n \in BatchSizes, ImportBatch(n)
    PROVE  LET New == NextBatch(n) \ table
           IN  /\ table' = table \cup New /\ New \subseteq Meeting /\ New \cap table = {}
               /\ IsFiniteSet(New) /\ Cardinality(New) \in Nat
               /\ steady' = steady
               /\ shifts' = [r \in Reader |->
                     IF phase[r] # "reading" THEN shifts[r]
                     ELSE [deleted  |-> shifts[r].deleted,
                           inserted |-> shifts[r].inserted + Cardinality(New)]]
               /\ UNCHANGED <<phase, size, offset, delivered>>
<1> DEFINE New == NextBatch(n) \ table
<1>1. /\ table' = table \cup New /\ New \subseteq Meeting /\ New \cap table = {}
      /\ UNCHANGED <<phase, size, offset, delivered>>
  BY StreamAssumption DEF ImportBatch, NextBatch, Meeting
<1>2. IsFiniteSet(New) /\ Cardinality(New) \in Nat
  BY <1>1, TableIsFinite, FS_Subset, FS_CardinalityType
<1>3. /\ steady' = steady
      /\ shifts' = [r \in Reader |->
            IF phase[r] # "reading" THEN shifts[r]
            ELSE [deleted |-> shifts[r].deleted,
                  inserted |-> shifts[r].inserted + Cardinality(New)]]
  <2>1. Cardinality({}) = 0
    BY FS_EmptySet
  <2>2. \A r \in Reader : shifts[r].deleted + 0 = shifts[r].deleted
    BY DEF DriftTypeOK
  <2>3. \A r \in Reader : steady[r] \ {} = steady[r]
    OBVIOUS
  <2> QED BY <2>1, <2>2, <2>3 DEF ImportBatch, Shift, DriftTypeOK
<1> QED BY <1>1, <1>2, <1>3

\* A row that is deleted brings one row at most in front of an offset, unread.
LEMMA DeletionSkipsOne ==
    ASSUME DriftInv, NEW x \in Meeting, DeleteRow(x)
    PROVE  DriftInv'
<1> USE DEF DriftInv
<1>1. /\ table' = table \ {x} /\ x \in table
      /\ steady' = [r \in Reader |->
            IF phase[r] # "reading" THEN steady[r] ELSE steady[r] \ {x}]
      /\ shifts' = [r \in Reader |->
            IF phase[r] # "reading" THEN shifts[r]
            ELSE [deleted |-> shifts[r].deleted + 1, inserted |-> shifts[r].inserted]]
      /\ UNCHANGED <<phase, size, offset, delivered>>
  BY WhatDeletionShifts
<1>2. DriftTypeOK'
  BY <1>1 DEF DriftTypeOK
<1>3. ASSUME NEW r \in Reader, phase[r] # "reading" PROVE OpenInv(r)' /\ DoneInv(r)'
  <2>1. steady'[r] = steady[r] /\ shifts'[r] = shifts[r]
    BY <1>1, <1>3
  <2> QED BY <1>1, <1>3, <2>1 DEF OpenInv, DoneInv, Missed, Repeated
<1>4. ASSUME NEW r \in Reader, phase[r] = "reading" PROVE OpenInv(r)' /\ DoneInv(r)'
  <2>1. /\ steady'[r] = steady[r] \ {x} /\ steady[r] \subseteq table
        /\ shifts'[r].deleted = shifts[r].deleted + 1
        /\ shifts'[r].inserted = shifts[r].inserted
        /\ steady[r] \subseteq Meeting /\ offset[r] \in Nat
        /\ shifts[r].deleted \in Nat
    BY <1>1, <1>4 DEF OpenInv, DriftTypeOK
  <2>2. ASSUME NEW m \in Int
        PROVE  /\ Rank(m) \in Nat /\ Rank(m)' \in Nat
               /\ Rank(m)' <= Rank(m) /\ Rank(m)' >= Rank(m) - 1
    <3>1. /\ table \subseteq Int /\ IsFiniteSet(table)
          /\ Rank(m) = RankIn(table, m) /\ Rank(m) \in Nat
      BY TableIsFinite
    <3>2. table \ {x} \subseteq Int /\ IsFiniteSet(table \ {x})
      BY <3>1, FS_Subset
    <3>3. Rank(m)' = RankIn(table \ {x}, m)
      BY <1>1 DEF Rank, RankIn
    <3>4. RankIn(table \ {x}, m) \in Nat
      BY <3>2, RanksAreOrdered
    <3>5. /\ RankIn(table \ {x}, m) <= RankIn(table, m)
          /\ RankIn(table \ {x}, m) >= RankIn(table, m) - 1
      <4>1. table \ {x} \in SUBSET table /\ x \in table
        BY <1>1
      <4> QED BY <3>1, <4>1, RanksFollowRows
    <3> QED BY <3>1, <3>3, <3>4, <3>5
  <2>3. PICK y : \A m \in table : Rank(m) = offset[r] => m = y
    <3>1. \A k, m \in table : k < m => Rank(k) # Rank(m)
      BY TableIsFinite, RanksAreOrdered
    <3>2. \A k, m \in table : k # m => k < m \/ m < k
      BY TableIsFinite
    <3>3. \A k, m \in table : Rank(k) = offset[r] /\ Rank(m) = offset[r] => k = m
      BY <3>1, <3>2
    <3> QED BY <3>3
  <2>4. Skipped(r)' \subseteq Skipped(r) \cup {y}
    <3> SUFFICES ASSUME NEW m \in Skipped(r)', m \notin Skipped(r)
                 PROVE  m = y
      OBVIOUS
    <3>1. /\ m \in steady[r] /\ m \in table /\ m \in Int
          /\ delivered[r][m] = 0 /\ Rank(m)' < offset[r]
      BY <1>1, <2>1, TableIsFinite DEF Skipped
    <3>2. ~ (Rank(m) < offset[r])
      BY <3>1 DEF Skipped
    <3>3. Rank(m) = offset[r]
      <4>1. /\ Rank(m) \in Nat /\ Rank(m)' \in Nat /\ Rank(m)' >= Rank(m) - 1
        BY <2>2, <3>1
      <4> QED BY <2>1, <3>1, <3>2, <4>1
    <3> QED BY <2>3, <3>1, <3>3
  <2>5. IsFiniteSet(Skipped(r)) /\ Cardinality(Skipped(r)) \in Nat
    <3>1. Skipped(r) \subseteq table
      BY <2>1 DEF Skipped
    <3> QED BY <3>1, TableIsFinite, FS_Subset, FS_CardinalityType
  <2>6. /\ IsFiniteSet(Skipped(r) \cup {y})
        /\ Cardinality(Skipped(r) \cup {y}) <= Cardinality(Skipped(r)) + 1
    <3>1. /\ IsFiniteSet(Skipped(r) \cup {y})
          /\ Cardinality(Skipped(r) \cup {y})
               = IF y \in Skipped(r) THEN Cardinality(Skipped(r))
                                     ELSE Cardinality(Skipped(r)) + 1
      BY <2>5, FS_AddElement
    <3> QED BY <2>5, <3>1
  <2>7. Cardinality(Skipped(r)') <= Cardinality(Skipped(r)) + 1
    <3>1. /\ Cardinality(Skipped(r)') <= Cardinality(Skipped(r) \cup {y})
          /\ Cardinality(Skipped(r)') \in Nat /\ Cardinality(Skipped(r) \cup {y}) \in Nat
      BY <2>4, <2>6, FS_Subset, FS_CardinalityType
    <3> QED BY <2>5, <2>6, <3>1
  <2>8. Surplus(r)' \subseteq Surplus(r)
    <3>1. Due(r)' \subseteq Due(r)
      BY <1>1, <2>1, <2>2, TableIsFinite DEF Due
    <3>2. Repeated(r)' = Repeated(r) /\ Deliveries(r, Due(r))' = Deliveries(r, Due(r)')
      BY <1>1 DEF Repeated, Deliveries
    <3> QED BY <3>1, <3>2 DEF Surplus, Deliveries
  <2>9. /\ IsFiniteSet(Surplus(r)')
        /\ Cardinality(Surplus(r)') <= Cardinality(Surplus(r))
        /\ Cardinality(Surplus(r)') \in Nat /\ Cardinality(Surplus(r)) \in Nat
    BY <1>4, <2>8, FS_Subset, FS_CardinalityType DEF OpenInv
  <2>10. shifts[r].inserted \in Nat /\ Cardinality(Skipped(r)') \in Nat
    <3>1. Skipped(r)' \subseteq Skipped(r) \cup {y}
      BY <2>4
    <3> QED BY <2>6, <3>1, FS_Subset, FS_CardinalityType DEF DriftTypeOK
  <2>11. OpenInv(r)'
    <3>1. (steady[r] \subseteq table)'
      BY <1>1, <2>1
    <3> QED BY <1>4, <2>1, <2>5, <2>7, <2>9, <2>10, <3>1 DEF OpenInv
  <2> QED BY <1>1, <1>4, <2>11 DEF DoneInv
<1> QED BY <1>2, <1>3, <1>4

\* Rows that are inserted push no more rows, read already, behind an offset
\* than there are of them.
LEMMA InsertionRepeatsFew ==
    ASSUME DriftInv, NEW n \in BatchSizes, ImportBatch(n)
    PROVE  DriftInv'
<1> USE DEF DriftInv
<1> DEFINE New == NextBatch(n) \ table
<1>1. /\ table' = table \cup New /\ New \subseteq Meeting /\ New \cap table = {}
      /\ UNCHANGED <<phase, size, offset, delivered>>
  BY WhatInsertionShifts
<1>2. IsFiniteSet(New) /\ Cardinality(New) \in Nat
  BY WhatInsertionShifts
<1>3. /\ steady' = steady
      /\ shifts' = [r \in Reader |->
            IF phase[r] # "reading" THEN shifts[r]
            ELSE [deleted |-> shifts[r].deleted,
                  inserted |-> shifts[r].inserted + Cardinality(New)]]
  BY WhatInsertionShifts
<1>4. DriftTypeOK'
  BY <1>1, <1>2, <1>3 DEF DriftTypeOK
<1>5. ASSUME NEW r \in Reader, phase[r] # "reading" PROVE OpenInv(r)' /\ DoneInv(r)'
  <2>1. shifts'[r] = shifts[r]
    BY <1>3, <1>5
  <2> QED BY <1>1, <1>3, <1>5, <2>1 DEF OpenInv, DoneInv, Missed, Repeated
<1>6. ASSUME NEW r \in Reader, phase[r] = "reading" PROVE OpenInv(r)' /\ DoneInv(r)'
  <2> DEFINE Before == {m \in table : RankIn(table, m) < offset[r]}
             After  == {m \in table' : RankIn(table', m) < offset[r]}
             Pushed == (New \cup Before) \ After
  <2>1. /\ steady[r] \subseteq table
        /\ shifts'[r].deleted = shifts[r].deleted
        /\ shifts'[r].inserted = shifts[r].inserted + Cardinality(New)
        /\ offset[r] \in Nat /\ shifts[r].deleted \in Nat /\ shifts[r].inserted \in Nat
    BY <1>3, <1>6 DEF OpenInv, DriftTypeOK
  <2>2. /\ table' \subseteq Int /\ IsFiniteSet(table') /\ table \in SUBSET table'
        /\ table \subseteq Int /\ IsFiniteSet(table)
    BY <1>1, <1>4, TableIsFinite, FS_Union, <1>2
  <2>3. ASSUME NEW m \in Int
        PROVE  /\ Rank(m) = RankIn(table, m) /\ Rank(m)' = RankIn(table', m)
               /\ Rank(m) \in Nat /\ Rank(m)' \in Nat /\ Rank(m) <= Rank(m)'
    <3>1. Rank(m) = RankIn(table, m) /\ Rank(m)' = RankIn(table', m)
      BY DEF Rank, RankIn
    <3>2. RankIn(table, m) <= RankIn(table', m)
      BY <2>2, RanksFollowRows
    <3> QED BY <2>2, <3>1, <3>2, RanksAreOrdered
  <2>4. Skipped(r)' \subseteq Skipped(r) /\ Skipped(r) \subseteq table
    <3>1. ASSUME NEW m \in Skipped(r)' PROVE m \in Skipped(r)
      <4>1. /\ m \in steady[r] /\ m \in Int
            /\ delivered[r][m] = 0 /\ Rank(m)' < offset[r]
        BY <1>1, <1>3, <2>1, <2>2 DEF Skipped
      <4> QED BY <2>1, <2>3, <4>1 DEF Skipped
    <3> QED BY <2>1, <3>1 DEF Skipped
  <2>5. /\ Cardinality(Skipped(r)') <= Cardinality(Skipped(r))
        /\ Cardinality(Skipped(r)') \in Nat /\ Cardinality(Skipped(r)) \in Nat
    BY <2>2, <2>4, FS_Subset, FS_CardinalityType
  <2>6. After \subseteq New \cup Before
    <3> SUFFICES ASSUME NEW m \in After, m \in table PROVE m \in Before
      BY <1>1
    <3>1. m \in Int /\ RankIn(table', m) < offset[r]
      BY <2>2
    <3>2. /\ RankIn(table, m) \in Nat /\ RankIn(table', m) \in Nat
          /\ RankIn(table, m) <= RankIn(table', m)
      BY <2>3, <3>1
    <3> QED BY <2>1, <3>1, <3>2
  <2>7. /\ IsFiniteSet(Before) /\ IsFiniteSet(New \cup Before)
        /\ Cardinality(New \cup Before) = Cardinality(New) + Cardinality(Before)
    <3>1. Before \subseteq table /\ New \cap Before = {}
      OBVIOUS
    <3>2. IsFiniteSet(Before) /\ Cardinality(Before) \in Nat
      BY <2>2, <3>1, FS_Subset, FS_CardinalityType
    <3> HIDE DEF Before, New
    <3> QED BY <1>2, <3>1, <3>2, FS_Union, FS_EmptySet
  <2>8. Cardinality(Before) <= Cardinality(After)
    BY <2>1, <2>2, MoreRowsBeforeOffset
  <2>9. IsFiniteSet(Pushed) /\ Cardinality(Pushed) <= Cardinality(New)
    <3>1. (New \cup Before) \cap After = After
      BY <2>6
    <3>2. /\ IsFiniteSet(Pushed)
          /\ Cardinality(Pushed) = Cardinality(New \cup Before) - Cardinality(After)
      <4>1. /\ IsFiniteSet((New \cup Before) \ After)
            /\ Cardinality((New \cup Before) \ After)
                 = Cardinality(New \cup Before) - Cardinality((New \cup Before) \cap After)
        <5> HIDE DEF Before, After, New
        <5> QED BY <2>7, FS_Difference
      <4> HIDE DEF Before, After, New
      <4> QED BY <3>1, <4>1
    <3>3. Cardinality(Before) \in Nat /\ Cardinality(After) \in Nat
      <4>1. IsFiniteSet(After)
        <5> HIDE DEF Before, After, New
        <5> QED BY <2>6, <2>7, FS_Subset
      <4> QED BY <2>7, <4>1, FS_CardinalityType
    <3> QED BY <1>2, <2>7, <2>8, <3>2, <3>3
  <2>10. Due(r)' \subseteq Due(r) \cup Pushed
    <3> SUFFICES ASSUME NEW m \in Due(r)', m \notin Due(r) PROVE m \in Pushed
      OBVIOUS
    <3>1. /\ m \in table' /\ m \in Int /\ delivered[r][m] > 0
          /\ Rank(m)' >= offset[r]
      BY <1>1, <2>2 DEF Due
    <3>2. m \notin After
      BY <2>1, <2>3, <3>1
    <3>3. m \in New \cup Before
      <4>1. CASE m \in table
        <5>1. ~ (Rank(m) >= offset[r])
          BY <3>1, <4>1 DEF Due
        <5>2. Rank(m) < offset[r]
          BY <2>1, <2>3, <3>1, <5>1
        <5> QED BY <2>3, <3>1, <4>1, <5>2
      <4>2. CASE m \notin table
        BY <1>1, <3>1, <4>2
      <4> QED BY <4>1, <4>2
    <3> QED BY <3>2, <3>3
  <2>11. Surplus(r)' \subseteq Surplus(r) \cup Deliveries(r, Pushed)
    <3>1. Repeated(r)' = Repeated(r) /\ Deliveries(r, Due(r))' = Deliveries(r, Due(r)')
      BY <1>1 DEF Repeated, Deliveries
    <3> HIDE DEF Pushed
    <3>2. Deliveries(r, Due(r)') \subseteq Deliveries(r, Due(r)) \cup Deliveries(r, Pushed)
      BY <2>10 DEF Deliveries
    <3> QED BY <3>1, <3>2 DEF Surplus
  <2>12. /\ IsFiniteSet(Surplus(r)')
         /\ Cardinality(Surplus(r)') <= Cardinality(Surplus(r)) + Cardinality(New)
         /\ Cardinality(Surplus(r)') \in Nat /\ Cardinality(Surplus(r)) \in Nat
    <3> HIDE DEF Pushed, New
    <3>1. /\ IsFiniteSet(Deliveries(r, Pushed))
          /\ Cardinality(Deliveries(r, Pushed)) <= Cardinality(Pushed)
          /\ Cardinality(Deliveries(r, Pushed)) \in Nat /\ Cardinality(Pushed) \in Nat
      BY <2>9, DeliveriesAreAsMany, FS_CardinalityType
    <3>2. IsFiniteSet(Surplus(r)) /\ Cardinality(Surplus(r)) \in Nat
      BY <1>6, FS_CardinalityType DEF OpenInv
    <3> DEFINE Both == Surplus(r) \cup Deliveries(r, Pushed)
    <3>3. /\ IsFiniteSet(Both) /\ Cardinality(Both) \in Nat
          /\ Cardinality(Both) = Cardinality(Surplus(r)) + Cardinality(Deliveries(r, Pushed))
                 - Cardinality(Surplus(r) \cap Deliveries(r, Pushed))
          /\ Cardinality(Surplus(r) \cap Deliveries(r, Pushed)) \in Nat
      BY <3>1, <3>2, FS_Union, FS_Intersection, FS_CardinalityType
    <3>4. /\ IsFiniteSet(Surplus(r)') /\ Cardinality(Surplus(r)') \in Nat
          /\ Cardinality(Surplus(r)') <= Cardinality(Both)
      <4> HIDE DEF Both
      <4>1. Surplus(r)' \subseteq Both
        BY <2>11 DEF Both
      <4> QED BY <3>3, <4>1, FS_Subset, FS_CardinalityType
    <3> HIDE DEF Both
    <3> QED BY <1>2, <2>9, <3>1, <3>2, <3>3, <3>4
  <2>13. OpenInv(r)'
    <3>1. steady'[r] \subseteq table'
      BY <1>1, <1>3, <2>1
    <3>2. /\ Cardinality(Skipped(r)) <= shifts[r].deleted
          /\ Cardinality(Surplus(r)) <= shifts[r].inserted
      BY <1>6 DEF OpenInv
    <3>3. /\ Cardinality(Skipped(r)') <= shifts'[r].deleted
          /\ Cardinality(Surplus(r)') <= shifts'[r].inserted
      <4> HIDE DEF New
      <4> QED BY <1>2, <2>1, <2>5, <2>12, <3>2
    <3> QED BY <2>12, <3>1, <3>3 DEF OpenInv
  <2> QED BY <1>1, <1>6, <2>13 DEF DoneInv
<1> QED BY <1>4, <1>5, <1>6

\* A stream that opens has everything ahead of it.
LEMMA OpenedStreamHasSkippedNothing ==
    ASSUME DriftInv, NEW r \in Reader, NEW n \in BatchSizes, Open(r, n), table' = table
    PROVE  DriftInv'
<1> USE DEF DriftInv
<1>1. /\ n \in Nat \ {0} /\ Nothing \in [Meeting -> Nat]
      /\ \A m \in Meeting : Nothing[m] = 0
  BY StreamAssumption DEF Nothing
<1>2. DriftTypeOK'
  BY <1>1 DEF DriftTypeOK, Open, ReaderPhase
<1>3. ASSUME NEW q \in Reader, q # r PROVE OpenInv(q)' /\ DoneInv(q)'
  <2>1. /\ phase'[q] = phase[q] /\ offset'[q] = offset[q]
        /\ delivered'[q] = delivered[q] /\ steady'[q] = steady[q]
        /\ shifts'[q] = shifts[q]
    BY <1>3 DEF Open, DriftTypeOK
  <2> QED BY <2>1, OthersAreLeftAlone
<1>4. /\ phase'[r] = "reading" /\ offset'[r] = 0 /\ delivered'[r] = Nothing
      /\ steady'[r] = table /\ shifts'[r] = [deleted |-> 0, inserted |-> 0]
  BY DEF Open, DriftTypeOK
<1>5. table \subseteq Meeting /\ \A m \in table : Rank(m)' = Rank(m) /\ Rank(m) \in Nat
  <2>1. \A m \in table : m \in Int /\ Rank(m) \in Nat
    BY TableIsFinite
  <2> QED BY <2>1 DEF Rank, DriftTypeOK
<1>6. Skipped(r)' = {}
  BY <1>4, <1>5 DEF Skipped
<1>7. Surplus(r)' = {}
  <2>1. Due(r)' = {}
    BY <1>1, <1>4, <1>5 DEF Due
  <2>2. Repeated(r)' = {}
    BY <1>1, <1>4 DEF Repeated
  <2> QED BY <2>1, <2>2 DEF Surplus, Deliveries
<1>8. OpenInv(r)' /\ DoneInv(r)'
  BY <1>4, <1>6, <1>7, FS_EmptySet DEF OpenInv, DoneInv
<1> QED BY <1>2, <1>3, <1>8

\* A page that is full leaves no new row behind it unread, and repeats what was
\* in store already; after one that is not, nothing is left ahead.
LEMMA PageIsHandedOver ==
    ASSUME DriftInv, NEW r \in Reader, ReadPage(r)
    PROVE  DriftInv'
<1> USE DEF DriftInv
<1> DEFINE full == ~ (Cardinality(Page(r)) < size[r])
<1>1. /\ Cardinality(Page(r)) \in Nat /\ Cardinality(Page(r)) <= size[r]
      /\ size[r] \in Nat \ {0} /\ offset[r] \in Nat
      /\ ~full => \A m \in table : Rank(m) < offset[r] + size[r]
  BY ShortPageIsLast DEF DriftTypeOK
<1>2. /\ phase[r] = "reading" /\ table' = table
      /\ offset'[r] = offset[r] + Cardinality(Page(r))
      /\ phase'[r] = IF full THEN "reading" ELSE "done"
      /\ steady' = steady /\ shifts' = shifts /\ size' = size
  BY DEF ReadPage, DriftTypeOK, tableVars
<1>3. /\ \A m \in Page(r) : delivered'[r][m] = delivered[r][m] + 1
      /\ \A m \in Meeting \ Page(r) : delivered'[r][m] = delivered[r][m]
      /\ Page(r) \subseteq Meeting
  BY DEF ReadPage, DriftTypeOK, Page
<1>4. DriftTypeOK'
  <2>1. offset' \in [Reader -> Nat]
    BY <1>1 DEF ReadPage, DriftTypeOK
  <2>2. phase' \in [Reader -> ReaderPhase]
    BY DEF ReadPage, DriftTypeOK, ReaderPhase
  <2>3. delivered' \in [Reader -> [Meeting -> Nat]]
    <3>1. [m \in Meeting |-> IF m \in Page(r) THEN delivered[r][m] + 1
                             ELSE delivered[r][m]] \in [Meeting -> Nat]
      BY DEF DriftTypeOK
    <3> QED BY <3>1 DEF ReadPage, DriftTypeOK
  <2> QED BY <1>2, <2>1, <2>2, <2>3 DEF DriftTypeOK
<1>5. ASSUME NEW q \in Reader, q # r PROVE OpenInv(q)' /\ DoneInv(q)'
  <2>1. /\ phase'[q] = phase[q] /\ offset'[q] = offset[q]
        /\ delivered'[q] = delivered[q] /\ steady'[q] = steady[q]
        /\ shifts'[q] = shifts[q]
    BY <1>2, <1>5 DEF ReadPage, DriftTypeOK
  <2> QED BY <1>2, <2>1, OthersAreLeftAlone
<1>6. /\ steady[r] \subseteq table /\ table \subseteq Meeting
      /\ Cardinality(Skipped(r)) <= shifts[r].deleted
      /\ IsFiniteSet(Surplus(r)) /\ Cardinality(Surplus(r)) <= shifts[r].inserted
      /\ shifts[r].deleted \in Nat /\ shifts[r].inserted \in Nat
      /\ \A m \in Meeting : delivered[r][m] \in Nat
  BY <1>2 DEF OpenInv, DriftTypeOK
<1>7. \A m \in table : Rank(m)' = Rank(m) /\ Rank(m) \in Nat
  <2>1. \A m \in table : m \in Int /\ Rank(m) \in Nat
    BY TableIsFinite
  <2> QED BY <1>2, <2>1 DEF Rank
<1>8. ASSUME NEW m \in steady[r], delivered'[r][m] = 0,
             Rank(m) < offset[r] + size[r]
      PROVE  m \in Skipped(r)
  <2>1. m \in Meeting /\ m \in table /\ Rank(m) \in Nat
    BY <1>6, <1>7
  <2>2. m \notin Page(r) /\ delivered[r][m] = 0
    BY <1>3, <1>6, <1>8, <2>1
  <2>3. Rank(m) < offset[r]
    BY <1>1, <1>8, <2>1, <2>2 DEF Page
  <2> QED BY <2>2, <2>3 DEF Skipped
<1>9. Repeated(r)' \subseteq Surplus(r)
  <2> SUFFICES ASSUME NEW m \in Meeting, NEW i \in 2..delivered'[r][m],
                      <<m, i>> \notin Repeated(r)
               PROVE  <<m, i>> \in Deliveries(r, Due(r))
    BY DEF Repeated, Surplus
  <2>1. delivered[r][m] \in Nat /\ i \notin 2..delivered[r][m]
    BY <1>6 DEF Repeated
  <2>2. /\ m \in Page(r) /\ delivered'[r][m] = delivered[r][m] + 1
    BY <1>3, <2>1
  <2>3. i = delivered[r][m] + 1 /\ delivered[r][m] > 0
    BY <2>1, <2>2
  <2>4. m \in Due(r)
    BY <2>2, <2>3 DEF Due, Page
  <2> QED BY <2>3, <2>4 DEF Deliveries
<1>10. CASE full
  <2>1. offset'[r] = offset[r] + size[r] /\ phase'[r] = "reading"
    BY <1>1, <1>2, <1>10
  <2>2. Skipped(r)' \subseteq Skipped(r)
    BY <1>2, <1>6, <1>7, <1>8, <2>1 DEF Skipped
  <2>3. Deliveries(r, Due(r))' \subseteq Deliveries(r, Due(r))
    <3> SUFFICES ASSUME NEW m \in Due(r)'
                 PROVE  m \in Due(r) /\ delivered'[r][m] = delivered[r][m]
      BY DEF Deliveries
    <3>1. /\ m \in table /\ m \in Meeting /\ delivered'[r][m] > 0
          /\ Rank(m) >= offset[r] + size[r]
      BY <1>2, <1>6, <1>7, <2>1 DEF Due
    <3>2. m \notin Page(r) /\ delivered'[r][m] = delivered[r][m] /\ Rank(m) >= offset[r]
      BY <1>1, <1>3, <1>7, <3>1 DEF Page
    <3> QED BY <3>1, <3>2 DEF Due
  <2>4. Surplus(r)' \subseteq Surplus(r)
    BY <1>9, <2>3 DEF Surplus
  <2>5. /\ Cardinality(Skipped(r)') <= Cardinality(Skipped(r))
        /\ Cardinality(Skipped(r)') \in Nat /\ Cardinality(Skipped(r)) \in Nat
    <3>1. Skipped(r) \subseteq table
      BY <1>6 DEF Skipped
    <3> QED BY <2>2, <3>1, TableIsFinite, FS_Subset, FS_CardinalityType
  <2>6. /\ IsFiniteSet(Surplus(r)')
        /\ Cardinality(Surplus(r)') <= Cardinality(Surplus(r))
        /\ Cardinality(Surplus(r)') \in Nat /\ Cardinality(Surplus(r)) \in Nat
    BY <1>6, <2>4, FS_Subset, FS_CardinalityType
  <2>7. OpenInv(r)'
    BY <1>2, <1>6, <2>5, <2>6 DEF OpenInv
  <2> QED BY <1>4, <1>5, <2>1, <2>7 DEF DoneInv
<1>11. CASE ~full
  <2>1. phase'[r] = "done"
    BY <1>2, <1>11
  <2>2. Missed(r)' \subseteq Skipped(r)
    BY <1>1, <1>2, <1>6, <1>8, <1>11 DEF Missed
  <2>3. /\ Cardinality(Missed(r)') <= Cardinality(Skipped(r))
        /\ Cardinality(Missed(r)') \in Nat /\ Cardinality(Skipped(r)) \in Nat
    <3>1. Skipped(r) \subseteq table
      BY <1>6 DEF Skipped
    <3> QED BY <2>2, <3>1, TableIsFinite, FS_Subset, FS_CardinalityType
  <2>4. /\ IsFiniteSet(Repeated(r)')
        /\ Cardinality(Repeated(r)') <= Cardinality(Surplus(r))
        /\ Cardinality(Repeated(r)') \in Nat /\ Cardinality(Surplus(r)) \in Nat
    BY <1>6, <1>9, FS_Subset, FS_CardinalityType
  <2>5. DoneInv(r)'
    BY <1>2, <1>6, <2>3, <2>4 DEF DoneInv
  <2> QED BY <1>4, <1>5, <2>1, <2>5 DEF OpenInv
<1> QED BY <1>10, <1>11

\* The other steps of a reader leave what it was handed as it is.
LEMMA PhaseMovesOn ==
    ASSUME DriftInv, NEW r \in Reader, CheckQuota(r) \/ Abandon(r) \/ Finished(r)
    PROVE  DriftInv'
<1> USE DEF DriftInv
<1>1. /\ phase' \in [Reader -> ReaderPhase]
      /\ phase'[r] \notin {"reading", "done"}
      /\ \A q \in Reader : q # r => phase'[q] = phase[q]
      /\ UNCHANGED <<table, size, offset, delivered, steady, shifts>>
  BY DEF CheckQuota, Abandon, Finished, DriftTypeOK, ReaderPhase, tableVars
<1>2. DriftTypeOK'
  BY <1>1 DEF DriftTypeOK
<1>3. ASSUME NEW q \in Reader, q # r PROVE OpenInv(q)' /\ DoneInv(q)'
  BY <1>1, <1>3, OthersAreLeftAlone
<1>4. OpenInv(r)' /\ DoneInv(r)'
  BY <1>1 DEF OpenInv, DoneInv
<1> QED BY <1>2, <1>3, <1>4

\* Whatever is deleted and imported under the exports and the analyses.
THEOREM DriftInvariant == AnalysisSpec => []DriftInv
<1>1. AnalysisInit => DriftInv
  <2> SUFFICES ASSUME StreamInit PROVE DriftInv
    BY DEF AnalysisInit
  <2>1. DriftTypeOK
    BY DEF StreamInit, DriftTypeOK, ReaderPhase, Nothing
  <2>2. \A r \in Reader : OpenInv(r) /\ DoneInv(r)
    BY DEF StreamInit, OpenInv, DoneInv
  <2> QED BY <2>1, <2>2 DEF DriftInv
<1>2. DriftInv /\ [AnalysisNext]_analysisVars => DriftInv'
  <2> SUFFICES ASSUME DriftInv, [AnalysisNext]_analysisVars PROVE DriftInv'
    OBVIOUS
  <2>2. \A r \in Exporter \cup Analyst : r \in Reader
    BY DEF Reader
  <2>3. ASSUME NEW m \in Meeting, DeleteRow(m) PROVE DriftInv'
    BY <2>3, DeletionSkipsOne
  <2>4. ASSUME NEW n \in BatchSizes, ImportBatch(n) PROVE DriftInv'
    BY <2>4, InsertionRepeatsFew
  <2>5. ASSUME UNCHANGED <<table, phase, size, offset, delivered, steady, shifts>>
        PROVE  DriftInv'
    <3>1. DriftTypeOK'
      BY <2>5 DEF DriftInv, DriftTypeOK
    <3>2. \A r \in Reader : OpenInv(r)' /\ DoneInv(r)'
      BY <2>5, OthersAreLeftAlone
    <3> QED BY <3>1, <3>2 DEF DriftInv
  <2>6. ASSUME NEW r \in Reader, CheckQuota(r) \/ Abandon(r) \/ Finished(r)
        PROVE  DriftInv'
    BY <2>6, PhaseMovesOn
  <2>7. ASSUME NEW r \in Reader, NEW n \in BatchSizes,
               OpenExport(r, n) \/ OpenAnalysis(r, n)
        PROVE  DriftInv'
    <3>1. Open(r, n) /\ table' = table
      BY <2>7 DEF OpenExport, OpenAnalysis, tableVars
    <3> QED BY <3>1, OpenedStreamHasSkippedNothing
  <2>8. ASSUME NEW r \in Reader, ReadPage(r) PROVE DriftInv'
    BY <2>8, PageIsHandedOver
  <2>9. CASE TableNext
    <3>1. ImportAgain => DriftInv'
      BY <2>5 DEF ImportAgain
    <3> QED BY <2>3, <2>4, <2>9, <3>1 DEF TableNext
  <2>10. CASE ExportNext
    BY <2>2, <2>6, <2>7, <2>8, <2>10 DEF ExportNext
  <2>11. ASSUME NEW r \in Analyst,
                StartAnalysis(r) \/ FoldPage(r) \/ FoldRaises(r) \/ WriteResults(r)
         PROVE  DriftInv'
    BY <2>2, <2>6, <2>7, <2>8, <2>11
       DEF StartAnalysis, FoldPage, FoldRaises, WriteResults
  <2>12. CASE UNCHANGED analysisVars
    BY <2>5, <2>12 DEF analysisVars, streamVars
  <2> QED BY <2>9, <2>10, <2>11, <2>12 DEF AnalysisNext
<1> QED BY <1>1, <1>2, PTL DEF AnalysisSpec

\* "Stream every meeting" (routes.py:605): whatever the sizes of the batches and
\* of the table, a finished stream has missed no more of the rows that were there
\* all the time than rows were deleted under it, and repeated no more than were
\* inserted.
THEOREM DriftStaysBounded == AnalysisSpec => []DriftIsBounded
<1>1. DriftInv => DriftIsBounded
  BY DEF DriftInv, DoneInv, DriftIsBounded
<1> QED BY <1>1, DriftInvariant, PTL


\* Nobody has deleted or inserted a row under the stream of r.
Calm(r) == shifts[r] = [deleted |-> 0, inserted |-> 0]

CalmInv(r) ==
    phase[r] \in {"reading", "done"} /\ Calm(r) =>
        /\ phase[r] = "reading" => steady[r] = table
        /\ \A m \in Meeting : delivered[r][m] > 0 => m \in steady[r]

\* An undisturbed stream hands over each row of the table once, and no other.
EachRowOnce ==
    \A r \in Reader :
        phase[r] = "done" /\ Calm(r) =>
            \A m \in Meeting : delivered[r][m] = IF m \in steady[r] THEN 1 ELSE 0

LEMMA CalmIsKept ==
    ASSUME DriftInv, \A r \in Reader : CalmInv(r), [AnalysisNext]_analysisVars
    PROVE  \A r \in Reader : CalmInv(r)'
<1> USE DEF DriftInv
<1>1. ASSUME NEW r \in Reader, phase'[r] = phase[r] \/ phase'[r] \notin {"reading", "done"},
             table' = table, delivered'[r] = delivered[r], steady'[r] = steady[r],
             shifts'[r] = shifts[r]
      PROVE  CalmInv(r)'
  BY <1>1 DEF CalmInv, Calm
<1>2. ASSUME NEW x \in Meeting, DeleteRow(x), NEW r \in Reader PROVE CalmInv(r)'
  <2>1. CASE phase[r] = "reading"
    <3>1. shifts'[r].deleted = shifts[r].deleted + 1 /\ shifts[r].deleted \in Nat
      BY <1>2, <2>1, WhatDeletionShifts DEF DriftTypeOK
    <3> QED BY <3>1 DEF CalmInv, Calm
  <2>2. CASE phase[r] # "reading"
    <3>1. /\ phase'[r] = phase[r] /\ delivered'[r] = delivered[r]
          /\ steady'[r] = steady[r] /\ shifts'[r] = shifts[r]
      BY <1>2, <2>2, WhatDeletionShifts
    <3> QED BY <2>2, <3>1 DEF CalmInv, Calm
  <2> QED BY <2>1, <2>2
<1>3. ASSUME NEW n \in BatchSizes, ImportBatch(n), NEW r \in Reader PROVE CalmInv(r)'
  <2> DEFINE New == NextBatch(n) \ table
  <2>1. /\ table' = table \cup New /\ IsFiniteSet(New) /\ Cardinality(New) \in Nat
        /\ phase'[r] = phase[r] /\ delivered'[r] = delivered[r] /\ steady'[r] = steady[r]
    BY <1>3, WhatInsertionShifts
  <2>2. /\ phase[r] # "reading" => shifts'[r] = shifts[r]
        /\ phase[r] = "reading" =>
              shifts'[r] = [deleted  |-> shifts[r].deleted,
                            inserted |-> shifts[r].inserted + Cardinality(New)]
    BY <1>3, WhatInsertionShifts
  <2>3. shifts[r] \in [deleted : Nat, inserted : Nat]
    BY DEF DriftTypeOK
  <2> HIDE DEF New
  <2>4. CASE phase[r] = "reading" /\ Calm(r)'
    <3>1. Calm(r) /\ Cardinality(New) = 0
      BY <2>1, <2>2, <2>3, <2>4 DEF Calm
    <3>2. table' = table
      BY <2>1, <3>1, FS_EmptySet
    <3> QED BY <2>1, <2>4, <3>1, <3>2 DEF CalmInv
  <2>5. CASE phase[r] # "reading"
    BY <2>1, <2>2, <2>5 DEF CalmInv, Calm
  <2> QED BY <2>4, <2>5, <2>1 DEF CalmInv
<1>4. ASSUME NEW q \in Reader, CheckQuota(q) \/ Abandon(q) \/ Finished(q), NEW r \in Reader
      PROVE  CalmInv(r)'
  <2>1. /\ phase'[r] = phase[r] \/ phase'[r] \notin {"reading", "done"}
        /\ UNCHANGED <<table, delivered, steady, shifts>>
    BY <1>4 DEF CheckQuota, Abandon, Finished, DriftTypeOK, tableVars
  <2> QED BY <1>1, <2>1
<1>5. ASSUME NEW q \in Reader, NEW n \in BatchSizes, Open(q, n), table' = table,
             NEW r \in Reader
      PROVE  CalmInv(r)'
  <2>1. CASE r = q
    <3>1. steady'[r] = table /\ \A m \in Meeting : delivered'[r][m] = 0
      BY <1>5, <2>1 DEF Open, DriftTypeOK, Nothing
    <3> QED BY <1>5, <3>1 DEF CalmInv
  <2>2. CASE r # q
    <3>1. /\ phase'[r] = phase[r] /\ delivered'[r] = delivered[r]
          /\ steady'[r] = steady[r] /\ shifts'[r] = shifts[r]
      BY <1>5, <2>2 DEF Open, DriftTypeOK
    <3> QED BY <1>1, <1>5, <3>1
  <2> QED BY <2>1, <2>2
<1>6. ASSUME NEW q \in Reader, ReadPage(q), NEW r \in Reader PROVE CalmInv(r)'
  <2>1. UNCHANGED <<table, steady, shifts>>
    BY <1>6 DEF ReadPage, tableVars
  <2>2. CASE r = q
    <3>1. /\ phase[r] = "reading" /\ Page(r) \subseteq table
          /\ \A m \in Meeting \ Page(r) : delivered'[r][m] = delivered[r][m]
      BY <1>6, <2>2 DEF ReadPage, DriftTypeOK, Page
    <3> QED BY <2>1, <3>1 DEF CalmInv, Calm
  <2>3. CASE r # q
    <3>1. phase'[r] = phase[r] /\ delivered'[r] = delivered[r]
      BY <1>6, <2>3 DEF ReadPage, DriftTypeOK
    <3> QED BY <1>1, <2>1, <3>1
  <2> QED BY <2>2, <2>3
<1>7. \A r \in Exporter \cup Analyst : r \in Reader
  BY DEF Reader
<1>8. ASSUME NEW q \in Reader, NEW n \in BatchSizes, OpenExport(q, n) \/ OpenAnalysis(q, n)
      PROVE  \A r \in Reader : CalmInv(r)'
  <2>1. Open(q, n) /\ table' = table
    BY <1>8 DEF OpenExport, OpenAnalysis, tableVars
  <2> QED BY <1>5, <2>1
<1>9. CASE TableNext
  <2>1. CASE ImportAgain
    BY <1>1, <2>1 DEF ImportAgain
  <2> QED BY <1>2, <1>3, <1>9, <2>1 DEF TableNext
<1>10. CASE ExportNext
  BY <1>4, <1>6, <1>7, <1>8, <1>10 DEF ExportNext
<1>11. ASSUME NEW q \in Analyst,
              StartAnalysis(q) \/ FoldPage(q) \/ FoldRaises(q) \/ WriteResults(q)
       PROVE  \A r \in Reader : CalmInv(r)'
  BY <1>4, <1>6, <1>7, <1>8, <1>11 DEF StartAnalysis, FoldPage, FoldRaises, WriteResults
<1>12. CASE UNCHANGED analysisVars
  BY <1>1, <1>12 DEF analysisVars, streamVars
<1> QED BY <1>9, <1>10, <1>11, <1>12 DEF AnalysisNext

\* A stream that ended and that no writer disturbed has handed over each row of
\* the table exactly once, and nothing else, for every table and batch size.
THEOREM CalmStreamsAreExact == AnalysisSpec => []EachRowOnce
<1>1. AnalysisInit => \A r \in Reader : CalmInv(r)
  BY DEF AnalysisInit, StreamInit, CalmInv
<1>2. /\ DriftInv /\ (\A r \in Reader : CalmInv(r)) /\ [AnalysisNext]_analysisVars
      => (\A r \in Reader : CalmInv(r))'
  BY CalmIsKept
<1>3. DriftInv /\ (\A r \in Reader : CalmInv(r)) => EachRowOnce
  <2> SUFFICES ASSUME DriftInv, NEW r \in Reader, CalmInv(r), phase[r] = "done", Calm(r),
                      NEW m \in Meeting
               PROVE  delivered[r][m] = IF m \in steady[r] THEN 1 ELSE 0
    BY DEF EachRowOnce
  <2>1. /\ IsFiniteSet(Repeated(r)) /\ Cardinality(Repeated(r)) <= 0
        /\ Cardinality(Missed(r)) <= 0
    BY DEF DriftInv, DoneInv, Calm
  <2>2. IsFiniteSet(Missed(r))
    <3>1. Missed(r) \subseteq Meeting
      BY DEF Missed, DriftInv, DriftTypeOK
    <3> QED BY <3>1, TableIsFinite, FS_Subset DEF DriftInv
  <2>3. Missed(r) = {} /\ Repeated(r) = {}
    BY <2>1, <2>2, FS_EmptySet, FS_CardinalityType
  <2>4. delivered[r][m] \in Nat
    BY DEF DriftInv, DriftTypeOK
  <2>5. delivered[r][m] <= 1
    <3>1. <<m, delivered[r][m]>> \notin Repeated(r)
      BY <2>3
    <3> QED BY <2>4, <3>1 DEF Repeated
  <2>6. delivered[r][m] = 0 => m \notin steady[r]
    BY <2>3 DEF Missed
  <2> QED BY <2>4, <2>5, <2>6 DEF CalmInv
<1> QED BY <1>1, <1>2, <1>3, DriftInvariant, PTL DEF AnalysisSpec

-----------------------------------------------------------------------------
(* What the streaming analysis has counted.                                *)

\* The deliveries of rows of X that d counts.
Handed(d, X) == UNION {{m} \X (1..d[m]) : m \in X}

\* The counters of a are the deliveries d, by group.
CountsDeliveries(a, d) ==
    /\ a.meetings = Cardinality(Handed(d, Meeting))
    /\ \A ct \in CallTypes : a.callTypes[ct] = Cardinality(Handed(d, OfType(ct, Meeting)))
    /\ \A p \in Purposes :
          a.purposes[p] = Cardinality(Handed(d, {m \in Meeting : Purpose(m) = p}))
    /\ \A p \in Product \cup {"General"} :
          a.products[p] = Cardinality(Handed(d, {m \in Meeting : p \in ProductAreas(m)}))

AggTypeOK(a) ==
    /\ DOMAIN a.callTypes = CallTypes
    /\ DOMAIN a.purposes = Purposes
    /\ DOMAIN a.products = Product \cup {"General"}

CountInv(r) ==
    phase[r] \in {"reading", "done"} =>
        /\ IsFiniteSet(Handed(delivered[r], Meeting))
        /\ AggTypeOK(agg[r])
        /\ CountsDeliveries(agg[r], delivered[r])

FoldInv ==
    /\ agg = [r \in Analyst |-> agg[r]]
    /\ \A r \in Analyst : CountInv(r)

\* A page adds a delivery for each of its rows.
LEMMA PageAddsDeliveries ==
    ASSUME DriftTypeOK, NEW r \in Reader, ReadPage(r), NEW X \in SUBSET Meeting,
           IsFiniteSet(Handed(delivered[r], X))
    PROVE  /\ IsFiniteSet(Handed(delivered'[r], X))
           /\ Cardinality(Handed(delivered'[r], X))
                = Cardinality(Handed(delivered[r], X)) + Cardinality(Page(r) \cap X)
<1> DEFINE Old == Handed(delivered[r], X)
           New == Deliveries(r, Page(r) \cap X)
<1>1. /\ \A m \in Page(r) : delivered'[r][m] = delivered[r][m] + 1
      /\ \A m \in Meeting \ Page(r) : delivered'[r][m] = delivered[r][m]
      /\ \A m \in Meeting : delivered[r][m] \in Nat
      /\ Page(r) \subseteq Meeting
  BY DEF ReadPage, DriftTypeOK, Page
<1>2. Handed(delivered'[r], X) = Old \cup New
  <2>1. ASSUME NEW m \in X, NEW i \in 1..delivered'[r][m], <<m, i>> \notin Old
        PROVE  <<m, i>> \in New
    <3>1. m \in Meeting /\ i \notin 1..delivered[r][m]
      BY <2>1 DEF Handed
    <3>2. m \in Page(r) /\ i = delivered[r][m] + 1
      BY <1>1, <3>1
    <3> QED BY <3>2 DEF Deliveries
  <2>2. ASSUME NEW p \in Handed(delivered'[r], X), p \notin Old PROVE p \in New
    <3>1. PICK m \in X : p \in {m} \X (1..delivered'[r][m])
      BY DEF Handed
    <3>2. PICK i \in 1..delivered'[r][m] : p = <<m, i>>
      BY <3>1
    <3> QED BY <2>1, <2>2, <3>2
  <2>3. ASSUME NEW m \in X, NEW i \in 1..delivered[r][m]
        PROVE  i \in 1..delivered'[r][m]
    BY <1>1
  <2>4. Old \subseteq Handed(delivered'[r], X)
    BY <2>3 DEF Handed
  <2>5. ASSUME NEW m \in Page(r) \cap X
        PROVE  delivered[r][m] + 1 \in 1..delivered'[r][m]
    BY <1>1
  <2>6. New \subseteq Handed(delivered'[r], X)
    BY <2>5 DEF Handed, Deliveries
  <2> QED BY <2>2, <2>4, <2>6
<1>3. Old \cap New = {}
  <2> SUFFICES ASSUME NEW m \in X, NEW i \in 1..delivered[r][m],
                      NEW k \in Page(r) \cap X, <<m, i>> = <<k, delivered[r][k] + 1>>
               PROVE  FALSE
    BY DEF Handed, Deliveries
  <2>1. m \in Meeting /\ delivered[r][m] \in Nat /\ i = delivered[r][m] + 1
    BY <1>1
  <2> QED BY <2>1
<1>4. IsFiniteSet(New) /\ Cardinality(New) = Cardinality(Page(r) \cap X)
  <2>1. Page(r) \cap X \subseteq table
    BY DEF Page
  <2>2. IsFiniteSet(Page(r) \cap X)
    BY <2>1, TableIsFinite, FS_Subset
  <2> QED BY <2>2, DeliveriesAreAsMany
<1>5. Cardinality(Old) \in Nat /\ Cardinality(New) \in Nat
  BY <1>4, FS_CardinalityType
<1>6. /\ IsFiniteSet(Old \cup New)
      /\ Cardinality(Old \cup New) = Cardinality(Old) + Cardinality(New) - Cardinality(Old \cap New)
  <2> HIDE DEF Old, New
  <2> QED BY <1>4, FS_Union DEF Old
<1>7. Cardinality(Old \cap New) = 0
  BY <1>3, FS_EmptySet
<1>8. Cardinality(Old \cup New) = Cardinality(Old) + Cardinality(Page(r) \cap X)
  <2> HIDE DEF Old, New
  <2> QED BY <1>4, <1>5, <1>6, <1>7
<1> QED BY <1>2, <1>6, <1>8

\* Fewer rows, fewer deliveries.
LEMMA HandedIsMonotone ==
    ASSUME NEW d, NEW X \in SUBSET Meeting, IsFiniteSet(Handed(d, Meeting))
    PROVE  IsFiniteSet(Handed(d, X))
<1>1. Handed(d, X) \subseteq Handed(d, Meeting)
  BY DEF Handed
<1> QED BY <1>1, FS_Subset

\* Each counter of the fold goes up by the rows of the page in its group.
LEMMA FoldAddsPage ==
    ASSUME DriftTypeOK, NEW r \in Reader, ReadPage(r), NEW a,
           AggTypeOK(a), CountsDeliveries(a, delivered[r]),
           IsFiniteSet(Handed(delivered[r], Meeting))
    PROVE  /\ AggTypeOK(FoldBatch(a, Page(r)))
           /\ CountsDeliveries(FoldBatch(a, Page(r)), delivered'[r])
<1> DEFINE b == FoldBatch(a, Page(r))
<1>1. /\ b.meetings = a.meetings + Cardinality(Page(r))
      /\ b.callTypes = [ct \in CallTypes |->
             a.callTypes[ct] + Cardinality(OfType(ct, Page(r)))]
      /\ b.purposes = [p \in Purposes |->
             a.purposes[p] + Cardinality({m \in Page(r) : Purpose(m) = p})]
      /\ b.products = [p \in DOMAIN a.products |->
             a.products[p] + Cardinality({m \in Page(r) : p \in ProductAreas(m)})]
  BY DEF FoldBatch
<1> HIDE DEF b
<1>2. AggTypeOK(b)
  BY <1>1 DEF AggTypeOK
<1>3. ASSUME NEW X \in SUBSET Meeting
      PROVE  Cardinality(Handed(delivered'[r], X))
                = Cardinality(Handed(delivered[r], X)) + Cardinality(Page(r) \cap X)
  BY HandedIsMonotone, PageAddsDeliveries
<1>4. Page(r) \subseteq Meeting
  BY DEF Page, DriftTypeOK
<1>5. b.meetings = Cardinality(Handed(delivered'[r], Meeting))
  <2>1. Page(r) \cap Meeting = Page(r)
    BY <1>4
  <2> QED BY <1>1, <1>3, <2>1 DEF CountsDeliveries
<1>6. ASSUME NEW ct \in CallTypes
      PROVE  b.callTypes[ct] = Cardinality(Handed(delivered'[r], OfType(ct, Meeting)))
  <2>1. /\ OfType(ct, Meeting) \in SUBSET Meeting
        /\ Page(r) \cap OfType(ct, Meeting) = OfType(ct, Page(r))
    BY <1>4 DEF OfType
  <2> QED BY <1>1, <1>3, <2>1 DEF CountsDeliveries
<1>7. ASSUME NEW p \in Purposes
      PROVE  b.purposes[p]
               = Cardinality(Handed(delivered'[r], {m \in Meeting : Purpose(m) = p}))
  <2> DEFINE X == {m \in Meeting : Purpose(m) = p}
  <2>1. X \in SUBSET Meeting /\ Page(r) \cap X = {m \in Page(r) : Purpose(m) = p}
    BY <1>4
  <2>2. b.purposes[p] = a.purposes[p] + Cardinality(Page(r) \cap X)
    BY <1>1, <2>1
  <2>3. a.purposes[p] = Cardinality(Handed(delivered[r], X))
    BY DEF CountsDeliveries
  <2> HIDE DEF X
  <2>4. b.purposes[p] = Cardinality(Handed(delivered'[r], X))
    BY <1>3, <2>1, <2>2, <2>3
  <2> QED BY <2>4 DEF X
<1>8. ASSUME NEW p \in Product \cup {"General"}
      PROVE  b.products[p]
               = Cardinality(Handed(delivered'[r], {m \in Meeting : p \in ProductAreas(m)}))
  <2> DEFINE X == {m \in Meeting : p \in ProductAreas(m)}
  <2>1. X \in SUBSET Meeting /\ Page(r) \cap X = {m \in Page(r) : p \in ProductAreas(m)}
    BY <1>4
  <2>2. b.products[p] = a.products[p] + Cardinality(Page(r) \cap X)
    BY <1>1, <2>1 DEF AggTypeOK
  <2>3. a.products[p] = Cardinality(Handed(delivered[r], X))
    BY DEF CountsDeliveries
  <2> HIDE DEF X
  <2>4. b.products[p] = Cardinality(Handed(delivered'[r], X))
    BY <1>3, <2>1, <2>2, <2>3
  <2> QED BY <2>4 DEF X
<1> QED BY <1>2, <1>5, <1>6, <1>7, <1>8 DEF CountsDeliveries, b

LEMMA CountsAreKept ==
    ASSUME DriftInv, DriftInv', FoldInv, [AnalysisNext]_analysisVars
    PROVE  FoldInv'
<1> USE DEF FoldInv
<1>1. ASSUME NEW r \in Analyst, phase'[r] = phase[r] \/ phase'[r] \notin {"reading", "done"},
             delivered'[r] = delivered[r], agg'[r] = agg[r]
      PROVE  CountInv(r)'
  BY <1>1 DEF CountInv, CountsDeliveries, AggTypeOK
<1>2. ASSUME UNCHANGED <<phase, delivered, agg>> PROVE FoldInv'
  BY <1>1, <1>2
<1>3. /\ \A r \in Exporter \cup Analyst : r \in Reader
      /\ \A r \in Exporter : r \notin Analyst
  BY StreamAssumption DEF Reader
<1>4. ASSUME NEW q \in Reader, CheckQuota(q) \/ Abandon(q) \/ Finished(q), UNCHANGED agg
      PROVE  FoldInv'
  <2>1. /\ \A r \in Reader : phase'[r] = phase[r] \/ phase'[r] \notin {"reading", "done"}
        /\ UNCHANGED delivered
    BY <1>4 DEF CheckQuota, Abandon, Finished, DriftInv, DriftTypeOK
  <2> QED BY <1>1, <1>3, <1>4, <2>1
<1>5. CASE TableNext /\ UNCHANGED agg
  BY <1>2, <1>5 DEF TableNext, DeleteRow, ImportBatch, ImportAgain
<1>6. CASE ExportNext /\ UNCHANGED agg
  <2>1. ASSUME NEW q \in Exporter, (\E n \in BatchSizes : OpenExport(q, n)) \/ ReadPage(q)
        PROVE  FoldInv'
    <3>1. ASSUME NEW r \in Analyst
          PROVE  phase'[r] = phase[r] /\ delivered'[r] = delivered[r]
      BY <1>3, <2>1 DEF OpenExport, Open, ReadPage, DriftInv, DriftTypeOK
    <3> QED BY <1>1, <1>6, <3>1
  <2> QED BY <1>3, <1>4, <1>6, <2>1 DEF ExportNext
<1>7. ASSUME NEW q \in Analyst, StartAnalysis(q) PROVE FoldInv'
  <2>1. agg' = [agg EXCEPT ![q] = Zero] /\ \E n \in BatchSizes : Open(q, n)
    BY <1>7 DEF StartAnalysis, OpenAnalysis
  <2>2. agg' = [r \in Analyst |-> IF r = q THEN Zero ELSE agg[r]]
    BY <2>1
  <2>3. ASSUME NEW r \in Analyst, r # q PROVE CountInv(r)'
    <3>1. phase'[r] = phase[r] /\ delivered'[r] = delivered[r] /\ agg'[r] = agg[r]
      BY <1>3, <2>1, <2>2, <2>3 DEF Open, DriftInv, DriftTypeOK
    <3> QED BY <1>1, <3>1
  <2>4. agg'[q] = Zero /\ delivered'[q] = Nothing
    BY <1>3, <2>1, <2>2 DEF Open, DriftInv, DriftTypeOK
  <2>5. \A X \in SUBSET Meeting : Handed(Nothing, X) = {}
    BY DEF Handed, Nothing
  <2>6. IsFiniteSet({}) /\ Cardinality({}) = 0
    BY FS_EmptySet
  <2>7. /\ Zero.meetings = 0 /\ Zero.callTypes = [ct \in CallTypes |-> 0]
        /\ Zero.purposes = [p \in Purposes |-> 0]
        /\ Zero.products = [p \in Product \cup {"General"} |-> 0]
    BY DEF Zero
  <2>8. AggTypeOK(Zero)
    BY <2>7 DEF AggTypeOK
  <2>9. CountsDeliveries(Zero, Nothing)
    <3>1. \A ct \in CallTypes : OfType(ct, Meeting) \in SUBSET Meeting
      BY DEF OfType
    <3> QED BY <2>5, <2>6, <2>7, <3>1 DEF CountsDeliveries
  <2>10. IsFiniteSet(Handed(Nothing, Meeting))
    BY <2>5, <2>6
  <2>11. CountInv(q)'
    BY <2>4, <2>8, <2>9, <2>10 DEF CountInv
  <2> QED BY <2>2, <2>3, <2>11
<1>8. ASSUME NEW q \in Analyst, FoldPage(q) PROVE FoldInv'
  <2>1. /\ ReadPage(q) /\ phase[q] = "reading"
        /\ agg' = [r \in Analyst |-> IF r = q THEN FoldBatch(agg[q], Page(q)) ELSE agg[r]]
    BY <1>8 DEF FoldPage, ReadPage
  <2>2. ASSUME NEW r \in Analyst, r # q PROVE CountInv(r)'
    <3>1. phase'[r] = phase[r] /\ delivered'[r] = delivered[r] /\ agg'[r] = agg[r]
      BY <1>3, <2>1, <2>2 DEF ReadPage, DriftInv, DriftTypeOK
    <3> QED BY <1>1, <3>1
  <2>3. /\ q \in Reader /\ DriftTypeOK /\ IsFiniteSet(Handed(delivered[q], Meeting))
        /\ AggTypeOK(agg[q]) /\ CountsDeliveries(agg[q], delivered[q])
    BY <1>3, <2>1 DEF CountInv, DriftInv
  <2>4. agg'[q] = FoldBatch(agg[q], Page(q))
    BY <2>1
  <2>5. AggTypeOK(agg'[q]) /\ CountsDeliveries(agg'[q], delivered'[q])
    BY <2>1, <2>3, <2>4, FoldAddsPage
  <2>6. IsFiniteSet(Handed(delivered'[q], Meeting))
    BY <2>1, <2>3, PageAddsDeliveries
  <2>7. CountInv(q)'
    BY <2>5, <2>6 DEF CountInv
  <2> QED BY <2>1, <2>2, <2>7
<1>9. ASSUME NEW q \in Analyst, FoldRaises(q) \/ WriteResults(q) PROVE FoldInv'
  BY <1>3, <1>4, <1>9 DEF FoldRaises, WriteResults
<1>10. CASE UNCHANGED analysisVars
  BY <1>2, <1>10 DEF analysisVars, streamVars
<1> QED BY <1>5, <1>6, <1>7, <1>8, <1>9, <1>10 DEF AnalysisNext

\* Every counter of a streaming run counts the rows it was handed, each time it
\* was handed one, whatever was deleted and imported under it.
CountersCountDeliveries ==
    \A r \in Analyst : phase[r] = "done" => CountsDeliveries(agg[r], delivered[r])

\* The fold forgets no page, and counts none twice: in a run that was disturbed
\* the totals are those of what the stream handed over, repetitions included.
THEOREM EachDeliveryIsCounted == AnalysisSpec => []CountersCountDeliveries
<1>1. AnalysisInit => FoldInv
  BY DEF AnalysisInit, StreamInit, FoldInv, CountInv, Reader
<1>2. DriftInv /\ DriftInv' /\ FoldInv /\ [AnalysisNext]_analysisVars => FoldInv'
  BY CountsAreKept
<1>3. FoldInv => CountersCountDeliveries
  BY DEF FoldInv, CountInv, CountersCountDeliveries
<1> QED BY <1>1, <1>2, <1>3, DriftInvariant, PTL DEF AnalysisSpec

\* What two finite sets cover has no more elements than both.
LEMMA SizeOfParts ==
    ASSUME NEW S, NEW A, NEW B, IsFiniteSet(A), IsFiniteSet(B), S \subseteq A \cup B
    PROVE  Cardinality(S) <= Cardinality(A) + Cardinality(B)
<1>1. /\ IsFiniteSet(A \cup B)
      /\ Cardinality(A \cup B) = Cardinality(A) + Cardinality(B) - Cardinality(A \cap B)
  BY FS_Union
<1>2. IsFiniteSet(A \cap B) /\ IsFiniteSet(S) /\ Cardinality(S) <= Cardinality(A \cup B)
  BY <1>1, FS_Subset
<1>3. /\ Cardinality(A) \in Nat /\ Cardinality(B) \in Nat /\ Cardinality(A \cap B) \in Nat
      /\ Cardinality(S) \in Nat
  BY <1>2, FS_CardinalityType
<1> QED BY ONLY <1>1, <1>2, <1>3

\* The meetings that r was handed.
Fed(r) == {m \in Meeting : delivered[r][m] > 0}

\* The count n of the rows of X is off by one at most for each row deleted or
\* inserted meanwhile: no more is missing of what was there all the time, and no
\* more is counted beyond the rows that came.
OffByWrites(r, n, X) ==
    /\ Cardinality(steady[r] \cap X) <= n + shifts[r].deleted
    /\ n <= Cardinality(Fed(r) \cap X) + shifts[r].inserted

TotalsAreOffByWrites ==
    \A r \in Analyst : phase[r] = "done" =>
        /\ OffByWrites(r, agg[r].meetings, Meeting)
        /\ \A ct \in CallTypes : OffByWrites(r, agg[r].callTypes[ct], OfType(ct, Meeting))
        /\ \A p \in Purposes :
              OffByWrites(r, agg[r].purposes[p], {m \in Meeting : Purpose(m) = p})
        /\ \A p \in Product \cup {"General"} :
              OffByWrites(r, agg[r].products[p], {m \in Meeting : p \in ProductAreas(m)})

\* The deliveries of rows of X are the first ones, and repetitions.
LEMMA HandedIsOffByWrites ==
    ASSUME DriftInv, NEW r \in Reader, phase[r] = "done",
           IsFiniteSet(Handed(delivered[r], Meeting)), NEW X \in SUBSET Meeting
    PROVE  OffByWrites(r, Cardinality(Handed(delivered[r], X)), X)
<1> DEFINE H == Handed(delivered[r], X)
           F == Fed(r) \cap X
           First == {<<m, 1>> : m \in F}
           Later == Repeated(r)
           K == steady[r] \cap X
           M == Missed(r)
           Kept == K \cap F
           d == shifts[r].deleted
           i == shifts[r].inserted
<1>1. /\ IsFiniteSet(Later) /\ Cardinality(Later) <= i /\ Cardinality(M) <= d
      /\ i \in Nat /\ d \in Nat
  BY DEF DriftInv, DriftTypeOK, DoneInv
<1>2. /\ F \in SUBSET Meeting /\ K \in SUBSET Meeting /\ M \in SUBSET Meeting
      /\ Kept \subseteq F /\ \A m \in Meeting : delivered[r][m] \in Nat
  BY DEF Fed, Missed, DriftInv, DriftTypeOK
<1>3. IsFiniteSet(H)
  BY HandedIsMonotone, FS_Subset
<1>4. H \subseteq First \cup Later
  <2> SUFFICES ASSUME NEW m \in X, NEW k \in 1..delivered[r][m], k # 1
               PROVE  <<m, k>> \in Later
    <3>1. ASSUME NEW m \in X, NEW k \in 1..delivered[r][m], k = 1
          PROVE  <<m, k>> \in First
      BY <3>1, <1>2 DEF Fed
    <3> QED BY <3>1 DEF Handed
  <2>1. m \in Meeting /\ delivered[r][m] \in Nat
    BY <1>2
  <2>2. k \in 2..delivered[r][m]
    BY <2>1
  <2> QED BY <2>1, <2>2, RepetitionsAreDeliveries
<1>5. First \subseteq H
  <2>1. \A m \in F : m \in X /\ 1 \in 1..delivered[r][m]
    BY <1>2 DEF Fed
  <2> QED BY <2>1 DEF Handed
<1>6. K \subseteq M \cup Kept
  <2> SUFFICES ASSUME NEW m \in K, m \notin M PROVE m \in F
    OBVIOUS
  <2>1. m \in steady[r] /\ m \in X /\ m \in Meeting
    BY <1>2
  <2>2. delivered[r][m] # 0 /\ delivered[r][m] \in Nat
    BY <1>2, <2>1 DEF Missed
  <2> QED BY <2>1, <2>2 DEF Fed
<1>7. IsFiniteSet(F) /\ IsFiniteSet(K) /\ IsFiniteSet(M) /\ IsFiniteSet(Kept)
  BY <1>2, MeetingsAreFinite, FS_Subset
<1>8. IsFiniteSet(First) /\ Cardinality(First) = Cardinality(F)
  <2> DEFINE f == [m \in F |-> <<m, 1>>]
  <2>1. f \in Surjection(F, First) /\ f \in Injection(F, First)
    BY DEF Surjection, Injection, IsInjective
  <2> HIDE DEF f, F, First
  <2> QED BY <1>7, <2>1, FS_Surjection
<1> HIDE DEF H, F, First, Later, K, M, Kept
<1>9. Cardinality(H) <= Cardinality(First) + Cardinality(Later)
  BY <1>1, <1>4, <1>8, SizeOfParts
<1>10. Cardinality(K) <= Cardinality(M) + Cardinality(Kept)
  BY <1>6, <1>7, SizeOfParts
<1>11. Cardinality(Kept) <= Cardinality(F) /\ Cardinality(First) <= Cardinality(H)
  BY <1>2, <1>3, <1>5, <1>7, FS_Subset
<1>12. /\ Cardinality(H) \in Nat /\ Cardinality(F) \in Nat /\ Cardinality(Later) \in Nat
       /\ Cardinality(K) \in Nat /\ Cardinality(M) \in Nat /\ Cardinality(Kept) \in Nat
  BY <1>1, <1>3, <1>7, FS_CardinalityType
<1> HIDE DEF d, i
<1>13. Cardinality(K) <= Cardinality(H) + d
  BY ONLY <1>1, <1>8, <1>10, <1>11, <1>12
<1>14. Cardinality(H) <= Cardinality(F) + i
  BY ONLY <1>1, <1>8, <1>9, <1>12
<1> QED BY <1>13, <1>14 DEF OffByWrites, H, F, K, d, i

\* So the totals of a run under writes are those of the table, but for one for
\* each row that was deleted or inserted under it, in all and in each group.
THEOREM TotalsStayClose == AnalysisSpec => []TotalsAreOffByWrites
<1>1. AnalysisInit => FoldInv
  BY DEF AnalysisInit, StreamInit, FoldInv, CountInv, Reader
<1>2. DriftInv /\ DriftInv' /\ FoldInv /\ [AnalysisNext]_analysisVars => FoldInv'
  BY CountsAreKept
<1>3. DriftInv /\ FoldInv => TotalsAreOffByWrites
  <2> SUFFICES ASSUME DriftInv, FoldInv, NEW r \in Analyst, phase[r] = "done"
               PROVE  /\ OffByWrites(r, agg[r].meetings, Meeting)
                      /\ \A ct \in CallTypes :
                            OffByWrites(r, agg[r].callTypes[ct], OfType(ct, Meeting))
                      /\ \A p \in Purposes :
                            OffByWrites(r, agg[r].purposes[p], {m \in Meeting : Purpose(m) = p})
                      /\ \A p \in Product \cup {"General"} :
                            OffByWrites(r, agg[r].products[p],
                                        {m \in Meeting : p \in ProductAreas(m)})
    BY DEF TotalsAreOffByWrites
  <2>1. r \in Reader /\ IsFiniteSet(Handed(delivered[r], Meeting))
        /\ CountsDeliveries(agg[r], delivered[r])
    BY DEF Reader, FoldInv, CountInv
  <2>2. \A X \in SUBSET Meeting : OffByWrites(r, Cardinality(Handed(delivered[r], X)), X)
    BY <2>1, HandedIsOffByWrites
  <2>3. \A ct : OfType(ct, Meeting) \in SUBSET Meeting
    BY DEF OfType
  <2> HIDE DEF DriftInv
  <2> QED BY <2>1, <2>2, <2>3 DEF CountsDeliveries
<1> QED BY <1>1, <1>2, <1>3, DriftInvariant, PTL DEF AnalysisSpec

-----------------------------------------------------------------------------
(* What the streaming analysis reports of a table that nobody changes.     *)

\* While it is not disturbed, the aggregate is one of what it was handed; and a
\* run that raises has met a table that the audits fail.
ReportInv(r) ==
    Calm(r) => /\ phase[r] \in {"reading", "done"} => Represents(agg[r], Fed(r))
               /\ phase[r] = "failed" => <<steady[r], TRUE>> \notin Audited

AnalystInv ==
    /\ agg = [r \in Analyst |-> agg[r]]
    /\ \A r \in Analyst : ReportInv(r)

\* On a table that passes the audits every meeting has sentences and a score.
LEMMA AuditsFindNothing ==
    ASSUME NEW S, <<S, TRUE>> \in Audited
    PROVE  Spoken(S) = S /\ Scored(S) = S
<1> DEFINE passes(T) == T # {} /\ Foldable(T) /\ Fails(T) = 0
           bad == {i \in DOMAIN Checks(S) : Checks(S)[i] = "FAIL"}
           q == CheckDataQuality(S)
<1>1. PICK T \in SUBSET Meeting : <<S, TRUE>> = <<T, passes(T)>>
  BY DEF Audited
<1>2. Fails(S) = 0
  <2>1. S = T /\ passes(T) = TRUE
    BY <1>1
  <2> QED BY <2>1
<1>3. Cardinality(bad) = 0
  BY <1>2 DEF Fails
<1>4. DOMAIN Checks(S) = 1..9 /\ Checks(S)[4] = q[1] /\ Checks(S)[6] = q[3]
  BY DEF Checks, CheckDataQuality
<1>5. q[1] = (IF Spoken(S) = S THEN "PASS" ELSE "FAIL")
      /\ q[3] = (IF Scored(S) = S THEN "PASS" ELSE "FAIL")
  BY DEF CheckDataQuality
<1>6. bad = {}
  <2>1. bad \subseteq 1..9
    BY <1>4
  <2>2. IsFiniteSet(1..9)
    <3> DEFINE n == 9
    <3>1. 1 \in Int /\ n \in Int
      OBVIOUS
    <3> HIDE DEF n
    <3>2. IsFiniteSet(1..n)
      BY ONLY <3>1, FS_Interval
    <3> QED BY <3>2 DEF n
  <2> HIDE DEF bad
  <2> QED BY <1>3, <2>1, <2>2, FS_Subset, FS_EmptySet
<1>7. 4 \in 1..9 /\ 6 \in 1..9
  OBVIOUS
<1>8. Checks(S)[4] # "FAIL" /\ Checks(S)[6] # "FAIL"
  BY <1>4, <1>6, <1>7
<1> HIDE DEF q
<1> QED BY <1>4, <1>5, <1>8

\* The page of an undisturbed stream has no row that was there before.
LEMMA CalmPageIsNew ==
    ASSUME DriftInv, NEW r \in Reader, Calm(r), ReadPage(r)
    PROVE  Apart(Fed(r), Page(r)) /\ Fed(r)' = Fed(r) \cup Page(r)
<1> USE DEF DriftInv
<1>1. phase[r] = "reading"
  BY DEF ReadPage
<1>2. IsFiniteSet(Surplus(r)) /\ Cardinality(Surplus(r)) <= 0
  BY <1>1 DEF OpenInv, Calm
<1>3. Surplus(r) = {}
  BY <1>2, FS_CardinalityType, FS_EmptySet
<1>4. Due(r) = {}
  BY <1>3 DEF Surplus, Deliveries
<1>5. Page(r) \cap Fed(r) = {}
  BY <1>4 DEF Page, Due, Fed
<1>6. Page(r) \subseteq Meeting
  BY DEF Page, DriftTypeOK
<1>7. /\ \A m \in Page(r) : delivered'[r][m] = delivered[r][m] + 1
      /\ \A m \in Meeting \ Page(r) : delivered'[r][m] = delivered[r][m]
      /\ \A m \in Meeting : delivered[r][m] \in Nat
  BY DEF ReadPage, DriftTypeOK, Page
<1>8. Fed(r)' = Fed(r) \cup Page(r)
  BY <1>6, <1>7 DEF Fed
<1> QED BY <1>5, <1>6, <1>8 DEF Apart, Fed

LEMMA ReportsAreKept ==
    ASSUME DriftInv, \A r \in Reader : CalmInv(r), AnalystInv, [AnalysisNext]_analysisVars
    PROVE  AnalystInv'
<1> USE DEF DriftInv, AnalystInv
<1>1. ASSUME NEW r \in Analyst, phase'[r] = phase[r] \/ phase'[r] = "idle",
             delivered'[r] = delivered[r], agg'[r] = agg[r],
             Calm(r)' => Calm(r), phase[r] = "failed" => steady'[r] = steady[r]
      PROVE  ReportInv(r)'
  <2>1. Fed(r)' = Fed(r)
    BY <1>1 DEF Fed
  <2> QED BY <1>1, <2>1 DEF ReportInv
<1>2. /\ \A r \in Exporter \cup Analyst : r \in Reader
      /\ \A r \in Exporter : r \notin Analyst
  BY StreamAssumption DEF Reader
<1>3. ASSUME UNCHANGED <<phase, delivered, shifts, steady, agg>> PROVE AnalystInv'
  BY <1>1, <1>3 DEF Calm
<1>4. ASSUME NEW x \in Meeting, DeleteRow(x), UNCHANGED agg PROVE AnalystInv'
  <2> SUFFICES ASSUME NEW r \in Analyst PROVE ReportInv(r)'
    BY <1>4
  <2>1. /\ phase'[r] = phase[r] /\ delivered'[r] = delivered[r] /\ agg'[r] = agg[r]
        /\ phase[r] # "reading" => steady'[r] = steady[r] /\ shifts'[r] = shifts[r]
        /\ phase[r] = "reading" => shifts'[r].deleted = shifts[r].deleted + 1
        /\ shifts[r].deleted \in Nat
    BY <1>2, <1>4, WhatDeletionShifts DEF DriftTypeOK
  <2>2. Calm(r)' => Calm(r)
    BY <2>1 DEF Calm
  <2> QED BY <1>1, <2>1, <2>2
<1>5. ASSUME NEW n \in BatchSizes, ImportBatch(n), UNCHANGED agg PROVE AnalystInv'
  <2> SUFFICES ASSUME NEW r \in Analyst PROVE ReportInv(r)'
    BY <1>5
  <2> DEFINE New == NextBatch(n) \ table
  <2>1. /\ Cardinality(New) \in Nat
        /\ phase'[r] = phase[r] /\ delivered'[r] = delivered[r] /\ steady'[r] = steady[r]
        /\ phase[r] # "reading" => shifts'[r] = shifts[r]
        /\ phase[r] = "reading" =>
              shifts'[r] = [deleted  |-> shifts[r].deleted,
                            inserted |-> shifts[r].inserted + Cardinality(New)]
    BY <1>2, <1>5, WhatInsertionShifts
  <2>2. shifts[r] \in [deleted : Nat, inserted : Nat] /\ agg'[r] = agg[r]
    BY <1>2, <1>5 DEF DriftTypeOK
  <2> HIDE DEF New
  <2>3. Calm(r)' => Calm(r)
    BY <2>1, <2>2 DEF Calm
  <2> QED BY <1>1, <2>1, <2>2, <2>3
<1>6. CASE TableNext /\ UNCHANGED agg
  <2>1. CASE ImportAgain
    BY <1>3, <1>6, <2>1 DEF ImportAgain
  <2> QED BY <1>4, <1>5, <1>6, <2>1 DEF TableNext
<1>7. CASE ExportNext /\ UNCHANGED agg
  <2> SUFFICES ASSUME NEW r \in Analyst PROVE ReportInv(r)'
    BY <1>7
  <2>1. PICK q \in Exporter : \/ CheckQuota(q)
                              \/ \E n \in BatchSizes : OpenExport(q, n)
                              \/ ReadPage(q)
                              \/ Abandon(q)
                              \/ Finished(q)
    BY <1>7 DEF ExportNext
  <2>2. q \in Reader /\ r \in Reader /\ r # q
    BY <1>2
  <2>3. /\ phase'[r] = phase[r] /\ delivered'[r] = delivered[r]
        /\ steady'[r] = steady[r] /\ shifts'[r] = shifts[r]
    <3>1. CASE CheckQuota(q) \/ Abandon(q) \/ Finished(q)
      BY <2>2, <3>1 DEF CheckQuota, Abandon, Finished, DriftTypeOK
    <3>2. CASE \E n \in BatchSizes : OpenExport(q, n)
      BY <2>2, <3>2 DEF OpenExport, Open, DriftTypeOK
    <3>3. CASE ReadPage(q)
      BY <2>2, <3>3 DEF ReadPage, DriftTypeOK
    <3> QED BY <2>1, <3>1, <3>2, <3>3
  <2> QED BY <1>1, <1>7, <2>3 DEF Calm
<1>8. ASSUME NEW q \in Analyst, StartAnalysis(q) PROVE AnalystInv'
  <2>1. agg' = [agg EXCEPT ![q] = Zero] /\ \E n \in BatchSizes : Open(q, n)
    BY <1>8 DEF StartAnalysis, OpenAnalysis
  <2>2. agg' = [r \in Analyst |-> IF r = q THEN Zero ELSE agg[r]]
    BY <2>1
  <2>3. ASSUME NEW r \in Analyst, r # q PROVE ReportInv(r)'
    <3>1. /\ phase'[r] = phase[r] /\ delivered'[r] = delivered[r] /\ agg'[r] = agg[r]
          /\ steady'[r] = steady[r] /\ shifts'[r] = shifts[r]
      BY <1>2, <2>1, <2>2, <2>3 DEF Open, DriftTypeOK
    <3> QED BY <1>1, <3>1 DEF Calm
  <2>4. agg'[q] = Zero /\ delivered'[q] = Nothing /\ phase'[q] = "reading"
    BY <1>2, <2>1, <2>2 DEF Open, DriftTypeOK
  <2>5. Fed(q)' = {}
    BY <2>4 DEF Fed, Nothing
  <2>6. ReportInv(q)'
    BY <2>4, <2>5, ZeroRepresents DEF ReportInv
  <2> QED BY <2>2, <2>3, <2>6
<1>9. ASSUME NEW q \in Analyst, FoldPage(q) PROVE AnalystInv'
  <2>1. /\ ReadPage(q) /\ phase[q] = "reading" /\ q \in Reader
        /\ agg' = [r \in Analyst |-> IF r = q THEN FoldBatch(agg[q], Page(q)) ELSE agg[r]]
    BY <1>2, <1>9 DEF FoldPage, ReadPage
  <2>2. UNCHANGED <<steady, shifts>>
    BY <2>1 DEF ReadPage
  <2>3. ASSUME NEW r \in Analyst, r # q PROVE ReportInv(r)'
    <3>1. phase'[r] = phase[r] /\ delivered'[r] = delivered[r] /\ agg'[r] = agg[r]
      BY <1>2, <2>1, <2>3 DEF ReadPage, DriftTypeOK
    <3> QED BY <1>1, <2>2, <3>1 DEF Calm
  <2>4. ReportInv(q)'
    <3> SUFFICES ASSUME Calm(q)
                 PROVE  Represents(agg'[q], Fed(q)') /\ phase'[q] # "failed"
      BY <2>2 DEF ReportInv, Calm
    <3>1. Represents(agg[q], Fed(q))
      BY <2>1 DEF ReportInv
    <3>2. Apart(Fed(q), Page(q)) /\ Fed(q)' = Fed(q) \cup Page(q)
      BY <2>1, CalmPageIsNew
    <3>3. agg'[q] = FoldBatch(agg[q], Page(q))
      BY <2>1
    <3>4. phase'[q] # "failed"
      BY <2>1 DEF ReadPage, DriftTypeOK
    <3>5. Represents(FoldBatch(agg[q], Page(q)), Fed(q) \cup Page(q))
      BY <3>1, <3>2, FoldRepresents
    <3> QED BY <3>2, <3>3, <3>4, <3>5
  <2> QED BY <2>1, <2>3, <2>4
<1>10. ASSUME NEW q \in Analyst, FoldRaises(q) PROVE AnalystInv'
  <2>1. /\ Page(q) # {} /\ Spoken(Page(q)) = {} /\ phase[q] = "reading" /\ q \in Reader
        /\ UNCHANGED <<table, delivered, steady, shifts, agg>>
    BY <1>2, <1>10 DEF FoldRaises, Foldable, Abandon, tableVars
  <2>2. phase' = [phase EXCEPT ![q] = "failed"]
    BY <1>10 DEF FoldRaises, Abandon
  <2>3. ASSUME NEW r \in Analyst, r # q PROVE ReportInv(r)'
    <3>1. phase'[r] = phase[r]
      BY <1>2, <2>2, <2>3 DEF DriftTypeOK
    <3> QED BY <1>1, <2>1, <3>1 DEF Calm
  <2>4. ReportInv(q)'
    <3> SUFFICES ASSUME Calm(q), <<steady[q], TRUE>> \in Audited PROVE FALSE
      <4>1. phase'[q] = "failed"
        BY <2>1, <2>2 DEF DriftTypeOK
      <4> QED BY <2>1, <4>1 DEF ReportInv, Calm
    <3>1. steady[q] = table
      BY <2>1 DEF CalmInv
    <3>2. Spoken(steady[q]) = steady[q]
      BY AuditsFindNothing
    <3>3. Page(q) \subseteq table
      BY DEF Page
    <3> QED BY <2>1, <3>1, <3>2, <3>3 DEF Spoken
  <2> QED BY <2>1, <2>3, <2>4
<1>11. ASSUME NEW q \in Analyst, WriteResults(q) PROVE AnalystInv'
  <2>1. /\ phase' = [phase EXCEPT ![q] = "idle"] /\ q \in Reader
        /\ UNCHANGED <<delivered, steady, shifts, agg>>
    BY <1>2, <1>11 DEF WriteResults, Finished
  <2>2. \A r \in Analyst : phase'[r] = phase[r] \/ phase'[r] = "idle"
    BY <1>2, <2>1 DEF DriftTypeOK
  <2> QED BY <1>1, <2>1, <2>2 DEF Calm
<1>12. CASE UNCHANGED analysisVars
  BY <1>3, <1>12 DEF analysisVars, streamVars
<1> QED BY <1>6, <1>7, <1>8, <1>9, <1>10, <1>11, <1>12 DEF AnalysisNext

\* What AnalystInv says of a run that has ended.
LEMMA ReportsAreRight ==
    ASSUME DriftInv, EachRowOnce, AnalystInv
    PROVE  StreamingMatchesInMemory
<1> SUFFICES ASSUME NEW r \in Analyst, shifts[r] = [deleted |-> 0, inserted |-> 0]
             PROVE  /\ AuditHolds(r, steady[r])
                    /\ phase[r] = "done" =>
                          /\ <<steady[r], Streamed(agg[r])>> \in Reports
                          /\ IsInjective(agg[r].pivots)
                          /\ <<steady[r], TRUE>> \in Mergeable
  BY DEF StreamingMatchesInMemory
<1> DEFINE S == steady[r]
           a == agg[r]
<1>1. Calm(r) /\ r \in Reader /\ S \in SUBSET Meeting
  BY DEF Calm, Reader, DriftInv, DriftTypeOK
<1>2. ASSUME phase[r] = "done" PROVE Represents(a, S)
  <2>1. \A m \in Meeting : delivered[r][m] = IF m \in S THEN 1 ELSE 0
    BY <1>1, <1>2 DEF EachRowOnce
  <2>2. Fed(r) = S
    BY <1>1, <2>1 DEF Fed
  <2>3. Represents(a, Fed(r))
    BY <1>1, <1>2 DEF AnalystInv, ReportInv
  <2> QED BY <2>2, <2>3
<1>3. ASSUME phase[r] = "done"
      PROVE  <<S, Streamed(a)>> \in Reports /\ IsInjective(a.pivots) /\ <<S, TRUE>> \in Mergeable
  <2>1. Represents(a, S)
    BY <1>2, <1>3
  <2> HIDE DEF S, a
  <2>2. Streamed(a) = InMemory(S) /\ IsInjective(a.pivots)
    BY <1>1, <2>1, ReportIsInMemory
  <2>3. <<S, TRUE>> \in Mergeable
    BY <1>1, PartsAreMergeable
  <2> QED BY <1>1, <2>2, <2>3 DEF Reports
<1>4. AuditHolds(r, S)
  <2> SUFFICES ASSUME <<S, TRUE>> \in Audited
               PROVE  /\ phase[r] # "failed"
                      /\ phase[r] = "done" =>
                            StreamedHealth(a) = {row \in CustomerHealth(S) : row.customer # ""}
    BY DEF AuditHolds
  <2>1. phase[r] # "failed"
    BY <1>1 DEF AnalystInv, ReportInv
  <2>2. Scored(S) = S
    BY AuditsFindNothing
  <2>3. ASSUME phase[r] = "done"
        PROVE  StreamedHealth(a) = {row \in CustomerHealth(S) : row.customer # ""}
    <3>1. Represents(a, S)
      BY <1>2, <2>3
    <3>2. \A c : Of(c, S) \subseteq Scored(S)
      BY <2>2 DEF Of
    <3> HIDE DEF S, a
    <3>3. StreamedHealth(a)
            = {row \in CustomerHealth(S) :
                  row.customer # "" /\ Of(row.customer, S) \subseteq Scored(S)}
      BY <1>1, <3>1, StreamedHealthIsRated, RatedRows
    <3> QED BY <3>2, <3>3
  <2> QED BY <2>1, <2>3
<1> QED BY <1>3, <1>4

\* "Same insights" (streaming.py:7-9) and "mergeable" (lines 45-51): whatever the
\* meetings, the size of the batches and where the pages end, a streaming run that
\* nobody disturbs reports the summary, the health of the customers, the pivots and
\* the loads that the in-memory pipeline reports of the same table; the
\* aggregates of any two parts, merged, do as well; and on a table that passes
\* the audits it never raises, and leaves no customer that has a name out.
THEOREM StreamingIsInMemory == AnalysisSpec => []StreamingMatchesInMemory
<1>1. AnalysisInit => /\ \A r \in Reader : CalmInv(r)
                      /\ AnalystInv
  BY DEF AnalysisInit, StreamInit, CalmInv, AnalystInv, ReportInv, Reader
<1>2. DriftInv /\ (\A r \in Reader : CalmInv(r)) /\ [AnalysisNext]_analysisVars
      => (\A r \in Reader : CalmInv(r))'
  BY CalmIsKept
<1>3. /\ DriftInv /\ (\A r \in Reader : CalmInv(r)) /\ AnalystInv
      /\ [AnalysisNext]_analysisVars
      => AnalystInv'
  BY ReportsAreKept
<1>4. DriftInv /\ EachRowOnce /\ AnalystInv => StreamingMatchesInMemory
  BY ReportsAreRight
<1> QED BY <1>1, <1>2, <1>3, <1>4, DriftInvariant, CalmStreamsAreExact, PTL DEF AnalysisSpec

\* The views of the dashboard add up whatever the meetings, the rules their
\* titles match and the settings are: no breakdown of routes.py and insights.py
\* leaves a meeting or a score out, a figure that two endpoints report is the
\* same in both, a customer's page lists the meetings of its row, and a risk
\* and a share of talk are in [0, 1], for weights that are shares of one.
THEOREM ViewsAlwaysAddUp == AnalysisSpec => []ViewsAddUp
<1>1. DriftInv => ViewsAddUp
  <2> SUFFICES ASSUME DriftInv, NEW r \in Reader PROVE <<steady[r], TRUE>> \in AddsUp
    BY DEF ViewsAddUp
  <2>1. steady[r] \in SUBSET Meeting
    BY DEF DriftInv, DriftTypeOK
  <2>2. ViewsOf(steady[r]) = TRUE
    <3>1. ViewsOf(steady[r])
      BY <2>1, ViewsHold
    <3>2. ViewsOf(steady[r]) \in BOOLEAN
      BY DEF ViewsOf
    <3> QED BY <3>1, <3>2
  <2> QED BY <2>1, <2>2 DEF AddsUp
<1> QED BY <1>1, DriftInvariant, PTL
=============================================================================
