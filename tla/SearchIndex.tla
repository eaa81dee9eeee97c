---------------------------- MODULE SearchIndex -----------------------------
(***************************************************************************)
(* Full-text search of api/search.py: CachedSearchIndex in front of the    *)
(* in-memory LocalSearchIndex or of OpenSearch, one indexer that writes    *)
(* (the relayer of api/outbox.py is meant to) and concurrent queries of    *)
(* one token each.  A document is the set of tokens of its text; scores,   *)
(* filters and highlights are left out.                                    *)
(***************************************************************************)
EXTENDS Integers

CONSTANTS
    MeetingId,  \* meeting ids
    Token,      \* words, each of them a query too
    Searcher,   \* threads that query
    MaxIndexings  \* bound on index() and delete()

Text == (SUBSET Token) \ {{}}
None == {}      \* no document: a document has at least one token

VARIABLES
    backend,   \* search.backend: "local" or "opensearch"
    docs,      \* docs[m]: the text of m's document, None without one
    postings,  \* postings[t]: _index[t], or what a search of OpenSearch finds
    pending,   \* OpenSearch: writes not visible to searches yet
    writing,   \* where the indexer is: "idle" or "invalidate"
    writes,    \* index() and delete() so far
    hitCache,  \* hitCache[t]: <<hits>> cached for the query t, else <<>>
    search,    \* search[s]: where s's query is
    sought,    \* sought[s]: its token
    found      \* found[s]: the meetings its index lookup returned

searchVars == <<backend, docs, postings, pending, writing, writes,
                hitCache, search, sought, found>>
indexVars == <<backend, docs, postings, pending, writing, writes>>
queryVars == <<search, sought, found>>

SearchInit ==
    /\ backend = "local"
    /\ docs = [m \in MeetingId |-> None]
    /\ postings = [t \in Token |-> {}]
    /\ pending = FALSE
    /\ writing = "idle"
    /\ writes = 0
    /\ hitCache = [t \in Token |-> <<>>]
    /\ search = [s \in Searcher |-> "idle"]
    /\ sought = [s \in Searcher |-> CHOOSE t \in Token : TRUE]
    /\ found = [s \in Searcher |-> {}]

\* default_search_index(), at start.
ChooseOpenSearch ==
    /\ writes = 0
    /\ \A s \in Searcher : search[s] = "idle"
    /\ hitCache = [t \in Token |-> <<>>]
    /\ backend' = "opensearch"
    /\ UNCHANGED <<docs, postings, pending, writing, writes, hitCache, queryVars>>
-----------------------------------------------------------------------------
(* The indexer.                                                            *)

BeginWrite ==
    /\ writing = "idle"
    /\ writes < MaxIndexings
    /\ writes' = writes + 1
    /\ writing' = "invalidate"

\* The tokens of a document that is indexed again stay in the postings.
Posted(m, text) ==
    [t \in Token |-> IF t \in text THEN postings[t] \cup {m} ELSE postings[t]]

\* LocalSearchIndex.index(): no query can tell the document from its tokens.
LocalIndex(m, text) ==
    /\ backend = "local"
    /\ BeginWrite
    /\ docs' = [docs EXCEPT ![m] = text]
    /\ postings' = Posted(m, text)
    /\ UNCHANGED <<backend, pending, hitCache, queryVars>>

\* Mutant: only the tokens of the document that is dropped are visited.
CleanedByDocument(m) ==
    [t \in Token |-> IF t \in docs[m] THEN postings[t] \ {m} ELSE postings[t]]
\* LocalSearchIndex.delete() visits every token.
Cleaned(m) == [t \in Token |-> postings[t] \ {m}]

LocalDelete(m) ==
    /\ backend = "local"
    /\ BeginWrite
    /\ docs' = [docs EXCEPT ![m] = None]
    /\ postings' = Cleaned(m)
    /\ UNCHANGED <<backend, pending, hitCache, queryVars>>

\* OpenSearchIndex.index() and delete(): acknowledged before it is visible.
\* A failing index() raises; a failing delete() is logged, and the cache
\* dropped as if it had been done.
RemoteWrite(m, text) ==
    /\ backend = "opensearch"
    /\ BeginWrite
    /\ \/ docs' = [docs EXCEPT ![m] = text] /\ pending' = TRUE
       \/ text = None /\ UNCHANGED <<docs, pending>>
    /\ UNCHANGED <<backend, postings, hitCache, queryVars>>

\* The refresh of the OpenSearch index.
RemoteRefresh ==
    /\ pending
    /\ pending' = FALSE
    /\ postings' = [t \in Token |-> {m \in MeetingId : t \in docs[m]}]
    /\ UNCHANGED <<backend, docs, writing, writes, hitCache, queryVars>>

\* cache_invalidate() of the whole namespace: key after key, until Redis fails.
DropHits ==
    /\ writing = "invalidate"
    /\ writing' = "idle"
    /\ \E dropped \in SUBSET Token :
          hitCache' = [t \in Token |->
                          IF t \in dropped THEN <<>> ELSE hitCache[t]]
    /\ UNCHANGED <<backend, docs, postings, pending, writes, queryVars>>
-----------------------------------------------------------------------------
(* CachedSearchIndex.query().                                              *)

\* A miss of the cache, or a failing one; a hit ends the query.
BeginQuery(s, t) ==
    /\ search[s] = "idle"
    /\ search' = [search EXCEPT ![s] = "lookup"]
    /\ sought' = [sought EXCEPT ![s] = t]
    /\ UNCHANGED <<indexVars, hitCache, found>>

\* LocalSearchIndex.query(): the candidates, from the postings.
LookUp(s) ==
    /\ backend = "local"
    /\ search[s] = "lookup"
    /\ found' = [found EXCEPT ![s] = postings[sought[s]]]
    /\ search' = [search EXCEPT ![s] = "render"]
    /\ UNCHANGED <<indexVars, hitCache, sought>>

\* The hits are built from _docs; a meeting deleted since the lookup is a
\* KeyError there.
Render(s) ==
    /\ search[s] = "render"
    /\ search' = [search EXCEPT ![s] =
          IF \E m \in found[s] : docs[m] = None THEN "idle" ELSE "fill"]
    /\ UNCHANGED <<indexVars, hitCache, sought, found>>

\* OpenSearchIndex.query() is answered with the documents, or raises.
SearchRemote(s) ==
    /\ backend = "opensearch"
    /\ search[s] = "lookup"
    /\ \/ /\ found' = [found EXCEPT ![s] = postings[sought[s]]]
          /\ search' = [search EXCEPT ![s] = "fill"]
       \/ /\ search' = [search EXCEPT ![s] = "idle"]
          /\ UNCHANGED found
    /\ UNCHANGED <<indexVars, hitCache, sought>>

\* cache_set() with the TTL, unless it fails.
FillHits(s) ==
    /\ search[s] = "fill"
    /\ hitCache' \in {hitCache, [hitCache EXCEPT ![sought[s]] = <<found[s]>>]}
    /\ search' = [search EXCEPT ![s] = "idle"]
    /\ found' = [found EXCEPT ![s] = {}]
    /\ UNCHANGED <<indexVars, sought>>

\* Mutant: the entry is written without a TTL.
HitsNeverExpire(t) ==
    /\ hitCache[t] = <<>>
    /\ UNCHANGED searchVars
\* DEFAULT_TTL_SECONDS after the fill.
HitsExpire(t) ==
    /\ hitCache[t] # <<>>
    /\ hitCache' = [hitCache EXCEPT ![t] = <<>>]
    /\ UNCHANGED <<indexVars, queryVars>>
-----------------------------------------------------------------------------
Query(s) == LookUp(s) \/ Render(s) \/ SearchRemote(s) \/ FillHits(s)

Write ==
    \/ \E m \in MeetingId, text \in Text : LocalIndex(m, text)
    \/ \E m \in MeetingId : LocalDelete(m)
    \/ \E m \in MeetingId, text \in Text \cup {None} : RemoteWrite(m, text)
    \/ DropHits

SearchNext ==
    \/ ChooseOpenSearch
    \/ Write
    \/ RemoteRefresh
    \/ \E s \in Searcher : Query(s) \/ \E t \in Token : BeginQuery(s, t)
    \/ \E t \in Token : HitsExpire(t)

SearchSpec == SearchInit /\ [][SearchNext]_searchVars
-----------------------------------------------------------------------------
SearchTypeOK ==
    /\ backend \in {"local", "opensearch"}
    /\ docs \in [MeetingId -> SUBSET Token]
    /\ postings \in [Token -> SUBSET MeetingId]
    /\ pending \in BOOLEAN
    /\ writing \in {"idle", "invalidate"}
    /\ writes \in 0..MaxIndexings
    /\ hitCache \in [Token -> {<<>>} \cup {<<hits>> : hits \in SUBSET MeetingId}]
    /\ search \in [Searcher -> {"idle", "lookup", "render", "fill"}]
    /\ sought \in [Searcher -> Token]
    /\ found \in [Searcher -> SUBSET MeetingId]

\* LocalSearchIndex.query() takes `self._docs[mid]` for granted of every id in
\* _index (search.py:129-131): with one indexer, no id outlives its document,
\* though tokens outlive the text they came from.
PostingsHaveDocuments ==
    backend = "local" =>
        \A t \in Token : \A m \in postings[t] : docs[m] # None

\* "Repeated queries don't re-hit the index" for at most the TTL
\* (search.py:16-18, 230-234): after the last write, queries end up answering
\* what the index finds, whichever fill raced an invalidation.
SearchConverges ==
    \A t \in Token : <>[](hitCache[t] \in {<<>>, <<postings[t]>>})
=============================================================================
