----------------------------- MODULE WebResearch -----------------------------
(***************************************************************************)
(* Web queries on one engine: WebResearchEngine of                         *)
(* SourceCode/shared_tools/web_research.py with the query cache of         *)
(* SourceCode/shared_tools/web_cache.py.                                   *)
(*                                                                         *)
(* The persona crawls of a foraging run are threads that share one engine: *)
(* its source log and its tables.  A query may have been approved by the   *)
(* user for a pending web request, whose row is looked at before the query *)
(* runs and again after it.                                                *)
(***************************************************************************)
EXTENDS Integers, FiniteSets

CONSTANTS
  Query,      \* queries, each run once
  Key,        \* cache keys
  WebRequest, \* pending web requests
  NoRequest,
  MaxRaise    \* bound: exceptions

NoQuery == "none"

ASSUME WebAssumption ==
  Key # {} /\ NoQuery \notin Query /\ NoRequest \notin WebRequest /\ MaxRaise \in Nat

VARIABLES
  query,     \* what each query is doing, what it has got, its key, request, result and log snapshot
  log,       \* sources.jsonl: the queries that have a line
  stored,    \* web_cache_chunks: the queries whose sources are stored
  cached,    \* web_query_cache: the query whose answer each key has
  request,   \* status of the requests in pending_requests.json
  raised     \* number of exceptions

webVars == <<query, log, stored, cached, request, raised>>

WebStatus == {"new", "open", "resolved", "ignored", "routed_external"}
WebStage == {"idle", "cache", "expand", "search", "widen", "select", "crawl", "wiki",
             "score", "follow", "refine", "refined", "judge", "weigh", "write", "log",
             "stored", "purge", "rewrite", "put", "leave", "resolve", "done"}
WebResult == {"none", "ok", "unstored", "failed", "hit"}

WebInit ==
  /\ query = [q \in Query |-> [at |-> "idle", key |-> CHOOSE k \in Key : TRUE,
                              for |-> NoRequest, result |-> "none",
                              got |-> "none", lines |-> {}]]
  /\ log = {}
  /\ stored = {}
  /\ cached = [k \in Key |-> NoQuery]
  /\ request = [r \in WebRequest |-> "new"]
  /\ raised = 0

-----------------------------------------------------------------------------

At(q, l) == query[q].at = l
To(q, l) == query' = [query EXCEPT ![q].at = l]
Gets(q, l, things) ==
  \E g \in things : query' = [query EXCEPT ![q].at = l, ![q].got = g]
Fail(q) == query' = [query EXCEPT ![q].at = "leave", ![q].result = "failed"]

\* run_query and run_quick_query: the topic is resolved.  approve_and_run runs the
\* query of an open request.
StartQuery(q, r) ==
  /\ At(q, "idle")
  /\ r # NoRequest => request[r] = "open"
  /\ \E k \in Key :
       query' = [query EXCEPT ![q].at = "cache", ![q].for = r, ![q].key = k]
  /\ UNCHANGED <<log, stored, cached, request, raised>>

\* _run_query_with_cache: expired answers are purged, the key is looked up unless
\* the query bypasses the cache.
LookUp(q) ==
  LET k == query[q].key
  IN /\ At(q, "cache")
     /\ \E kept \in SUBSET {c \in Key : cached[c] # NoQuery} :
          /\ cached' = [c \in Key |-> IF c \in kept THEN cached[c] ELSE NoQuery]
          /\ \/ k \in kept /\ query' = [query EXCEPT ![q].at = "leave", ![q].result = "hit"]
             \/ To(q, "expand")
     /\ UNCHANGED <<log, stored, request, raised>>

\* A compound query is decomposed, and its parts are expanded into variants.
ExpandQuery(q) ==
  /\ At(q, "expand")
  /\ To(q, "search")
  /\ UNCHANGED <<log, stored, cached, request, raised>>

\* Nothing is left of the query after normalization.
NoVariants(q) ==
  /\ At(q, "expand")
  /\ Fail(q)
  /\ UNCHANGED <<log, stored, cached, request, raised>>

\* Each variant is searched, and the threads of a forum for a product.
SearchSeeds(q) ==
  /\ At(q, "search")
  /\ Gets(q, "widen", {"none", "seeds"})
  /\ UNCHANGED <<log, stored, cached, request, raised>>

\* While seeds of good domains are scarce, the variants are searched wider.
WidenSearch(q) ==
  /\ At(q, "widen")
  /\ Gets(q, "select", {query[q].got, "seeds"})
  /\ UNCHANGED <<log, stored, cached, request, raised>>

\* The seeds are ordered by freshness, and each variant has its quota of them.
SelectSeeds(q) ==
  /\ At(q, "select") /\ query[q].got = "seeds"
  /\ To(q, "crawl")
  /\ UNCHANGED <<log, stored, cached, request, raised>>

\* No seed, or the selection has left none.
NoSeeds(q) ==
  /\ At(q, "select")
  /\ Fail(q)
  /\ UNCHANGED <<log, stored, cached, request, raised>>

\* _crawl_sources over the selected seeds, if crawling is enabled.
Crawl(q) ==
  /\ At(q, "crawl")
  /\ To(q, "wiki")
  /\ UNCHANGED <<log, stored, cached, request, raised>>

\* The article of an encyclopedia is added, except for a topic of the proxy.
FetchArticle(q) ==
  /\ At(q, "wiki")
  /\ To(q, "score")
  /\ UNCHANGED <<log, stored, cached, request, raised>>

\* Every page, or without pages every seed, is scored; the good ones are sources.
ScoreSources(q) ==
  /\ At(q, "score")
  /\ Gets(q, "follow", {"none", "sources"})
  /\ UNCHANGED <<log, stored, cached, request, raised>>

\* If there are sources, the model names gaps, which are searched and crawled, and
\* everything is scored again; a fault ends the pass.
FollowUpPass(q) ==
  /\ At(q, "follow")
  /\ \/ query[q].got = "sources" /\ Gets(q, "judge", {"none", "sources"})
     \/ To(q, "refine")
  /\ UNCHANGED <<log, stored, cached, request, raised>>

\* Without such a pass, poor sources ask for refined queries.
RefineQueries(q) ==
  /\ At(q, "refine")
  /\ To(q, "refined") \/ To(q, "judge")
  /\ UNCHANGED <<log, stored, cached, request, raised>>

\* The refined queries are searched, and the new seeds crawled and scored.
RefinedPass(q) ==
  /\ At(q, "refined")
  /\ Gets(q, "judge", {query[q].got, "none", "sources"})
  /\ UNCHANGED <<log, stored, cached, request, raised>>

\* Claims of the sources that disagree are noted.
DetectConflicts(q) ==
  /\ At(q, "judge") /\ query[q].got = "sources"
  /\ To(q, "weigh")
  /\ UNCHANGED <<log, stored, cached, request, raised>>

NoSources(q) ==
  /\ At(q, "judge") /\ query[q].got = "none"
  /\ Fail(q)
  /\ UNCHANGED <<log, stored, cached, request, raised>>

\* So are sources that copy each other, agree too well or contradict each other.
WeighSources(q) ==
  /\ At(q, "weigh")
  /\ To(q, "write")
  /\ UNCHANGED <<log, stored, cached, request, raised>>

\* The source file is written, under a name of the second.
WriteSources(q) ==
  /\ At(q, "write")
  /\ To(q, "log")
  /\ UNCHANGED <<log, stored, cached, request, raised>>

\* A line with the sources is appended to the log.
AppendLog(q) ==
  /\ At(q, "log")
  /\ log' = log \cup {q}
  /\ query' = [query EXCEPT ![q].at = "stored", ![q].result = "ok"]
  /\ UNCHANGED <<stored, cached, request, raised>>

\* Mutant: sources that the log has are not stored again.
StoreUnlogged(q) ==
  /\ At(q, "stored")
  /\ stored' = IF q \in log THEN stored ELSE stored \cup {q}
  /\ To(q, "purge")
  /\ UNCHANGED <<log, cached, request, raised>>

\* _store_web_chunks stores the sources that have a snippet; its fault is ignored.
StoreChunks(q) ==
  /\ At(q, "stored")
  /\ \/ stored' = stored \cup {q} /\ To(q, "purge") /\ UNCHANGED raised
     \/ /\ raised < MaxRaise /\ raised' = raised + 1
        /\ query' = [query EXCEPT ![q].at = "purge", ![q].result = "unstored"]
        /\ UNCHANGED stored
  /\ UNCHANGED <<log, cached, request>>

\* _purge_old_source_log reads the log ...
ReadLog(q) ==
  /\ At(q, "purge")
  /\ query' = [query EXCEPT ![q].at = "rewrite", ![q].lines = log]
  /\ UNCHANGED <<log, stored, cached, request, raised>>

\* ... and writes the lines it has read, none of which is old.
RewriteLog(q) ==
  /\ At(q, "rewrite")
  /\ log' = query[q].lines
  /\ query' = [query EXCEPT ![q].at = "put", ![q].lines = {}]
  /\ UNCHANGED <<stored, cached, request, raised>>

\* A successful answer is cached, also by a query that bypassed the cache.
PutAnswer(q) ==
  /\ At(q, "put")
  /\ cached' = [cached EXCEPT ![query[q].key] = q]
  /\ To(q, "leave")
  /\ UNCHANGED <<log, stored, request, raised>>

\* Searching, crawling or writing raises.
WebRaise(q) ==
  /\ query[q].at \in {"search", "crawl", "refined", "write"}
  /\ raised < MaxRaise
  /\ raised' = raised + 1
  /\ query' = [query EXCEPT ![q].at = "leave", ![q].for = NoRequest,
                                 ![q].result = "failed"]
  /\ UNCHANGED <<log, stored, cached, request>>

\* The finally clause, for a normal end and for an exception.
LeaveQuery(q) ==
  /\ At(q, "leave")
  /\ To(q, IF query[q].for = NoRequest THEN "done" ELSE "resolve")
  /\ UNCHANGED <<log, stored, cached, request, raised>>

\* approve_and_run resolves the request, if it is still open after the run.
Resolve(q) ==
  LET r == query[q].for
  IN /\ At(q, "resolve")
     /\ request' = IF request[r] = "open" THEN [request EXCEPT ![r] = "resolved"] ELSE request
     /\ To(q, "done")
     /\ UNCHANGED <<log, stored, cached, raised>>

-----------------------------------------------------------------------------

\* create_pending.
CreatePending(r) ==
  /\ request[r] = "new"
  /\ request' = [request EXCEPT ![r] = "open"]
  /\ UNCHANGED <<query, log, stored, cached, raised>>

\* ignore and mark_routed, of an open request only.
DecidePending(r, status) ==
  /\ request[r] = "open"
  /\ status \in {"ignored", "routed_external"}
  /\ request' = [request EXCEPT ![r] = status]
  /\ UNCHANGED <<query, log, stored, cached, raised>>

WebStep(q) ==
  \/ LookUp(q) \/ ExpandQuery(q) \/ NoVariants(q) \/ SearchSeeds(q) \/ WidenSearch(q)
  \/ SelectSeeds(q) \/ NoSeeds(q) \/ Crawl(q) \/ FetchArticle(q) \/ ScoreSources(q)
  \/ FollowUpPass(q) \/ RefineQueries(q) \/ RefinedPass(q) \/ DetectConflicts(q)
  \/ NoSources(q) \/ WeighSources(q) \/ WriteSources(q) \/ AppendLog(q) \/ StoreChunks(q)
  \/ ReadLog(q) \/ RewriteLog(q) \/ PutAnswer(q) \/ LeaveQuery(q) \/ Resolve(q)

WebNext ==
  \/ \E q \in Query :
       \/ \E r \in WebRequest \cup {NoRequest} : StartQuery(q, r)
       \/ WebStep(q) \/ WebRaise(q)
  \/ \E r \in WebRequest :
       CreatePending(r) \/ \E status \in WebStatus : DecidePending(r, status)

WebSpec == WebInit /\ [][WebNext]_webVars

-----------------------------------------------------------------------------

WebTypeOK ==
  /\ query \in [Query -> [at : WebStage, key : Key, for : WebRequest \cup {NoRequest},
                          result : WebResult, got : {"none", "seeds", "sources"},
                          lines : SUBSET Query]]
  /\ log \subseteq Query /\ stored \subseteq Query
  /\ cached \in [Key -> Query \cup {NoQuery}]
  /\ request \in [WebRequest -> WebStatus]
  /\ raised \in 0 .. MaxRaise

\* The sources of an answer stay readable: whatever the purges of other queries
\* do to the log meanwhile, web_context_for_project finds the sources of every
\* answer that was given or cached, those with a snippet, in the log or among the
\* stored chunks, unless storing them failed.
AnswerStaysReadable ==
  \A q \in Query :
    query[q].result = "ok" /\ (At(q, "done") \/ \E k \in Key : cached[k] = q)
      => q \in log \cup stored
=============================================================================
