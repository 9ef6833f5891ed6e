------------------------------ MODULE WebFetch ------------------------------
(***************************************************************************)
(* How one engine searches and fetches: search, _reddit_search and         *)
(* _fetch_page of SourceCode/shared_tools/web_research.py.                 *)
(*                                                                         *)
(* The searches and crawls of WebResearch are made of these calls.  Three  *)
(* services are left alone for a while after a failure; the times until    *)
(* which they are left alone belong to the engine, so the calls of all     *)
(* threads share them.  Whether a service answers an attempt is left open. *)
(***************************************************************************)
EXTENDS Integers, FiniteSets

CONSTANTS
  Call,    \* threads, each of which makes one call after another
  Retry    \* search_retry_attempts, crawl_retry_attempts, crawl4ai_retry_attempts

ASSUME FetchAssumption == Retry \in Nat \ {0}

VARIABLES
  backoff,  \* services left alone: _searxng_, _crawl4ai_, _reddit_backoff_until
  fetching, \* the calls
  silent,   \* history: services that gave the call nothing
  spared    \* history: services that the call left alone

fetchVars == <<backoff, fetching, silent, spared>>

Backed == {"searxng", "crawler", "reddit"}
WebService == Backed \cup {"html", "api", "site"}
SearchProvider == {"auto", "searxng", "html", "api"}

\* What a call asks for; the services it may have recourse to, in their order.
Asked == SearchProvider \cup {"threads", "thread", "page"}
Recourse(what) ==
  CASE what = "auto" -> {"searxng", "html", "api"}
    [] what \in SearchProvider \ {"auto"} -> {what}
    [] what = "threads" -> {"reddit"}
    [] what = "thread" -> {"reddit", "crawler", "site"}
    [] what = "page" -> {"crawler", "site"}

Pages == {"thread", "page"}

NoCall == [at |-> "idle", asks |-> "auto", left |-> 0, found |-> {}]

FetchInit ==
  /\ backoff = {}
  /\ fetching = [c \in Call |-> NoCall]
  /\ silent = [c \in Call |-> {}]
  /\ spared = [c \in Call |-> {}]

-----------------------------------------------------------------------------

\* The attempts at a service; reddit is asked once.
Attempts(s) == IF s = "reddit" THEN 1 ELSE Retry

\* The call turns to a service, or ends.
TurnTo(c, s, found) ==
  fetching' = [fetching EXCEPT ![c].at = s, ![c].left = Attempts(s), ![c].found = found]
EndCall(c, found) ==
  fetching' = [fetching EXCEPT ![c].at = "ended", ![c].left = 0, ![c].found = found]

\* A service that failed is left alone, if it is one of the three.
Spare(s) == backoff' = backoff \cup ({s} \cap Backed)

Trying(c, s) == fetching[c].at = s
Skips(c, s) == s \in backoff /\ spared' = [spared EXCEPT ![c] = @ \cup {s}]

\* search, a search for threads, or _fetch_page.  crawl4ai_enabled may be off.
BeginCall(c, what, first) ==
  /\ fetching[c].at = "idle"
  /\ first \in Recourse(what)
  /\ \/ what = "auto" /\ first = "searxng"
     \/ what = "thread" /\ first = "reddit"
     \/ what = "page" /\ first \in {"crawler", "site"}
     \/ Cardinality(Recourse(what)) = 1
  /\ fetching' = [fetching EXCEPT ![c] = [at |-> first, asks |-> what, left |-> Attempts(first),
                                  found |-> {}]]
  /\ UNCHANGED <<backoff, silent, spared>>

\* After the first engine: the next one for "auto", the result for any other.
NextEngine(c, s, found) ==
  IF fetching[c].asks # "auto" \/ s = "api" THEN EndCall(c, found)
  ELSE TurnTo(c, IF s = "searxng" THEN "html" ELSE "api", found)

\* An attempt at service s that fails, when another one is left, or was the last.
Silent(c, s) == silent' = [silent EXCEPT ![c] = @ \cup {s}]
FailsOnce(c, s) ==
  /\ fetching[c].left > 1 /\ fetching' = [fetching EXCEPT ![c].left = @ - 1]
  /\ Silent(c, s) /\ UNCHANGED <<backoff, spared>>
GivesUp(c, s) == fetching[c].left = 1 /\ Silent(c, s) /\ Spare(s) /\ UNCHANGED spared

\* A service is left alone, as it is when the call turns to it.
LeavesAlone(c, s) == Skips(c, s) /\ fetching[c].left = Attempts(s) /\ UNCHANGED <<backoff, silent>>
Tries(c, s) == s \notin backoff \/ fetching[c].left < Attempts(s)

Quiet == UNCHANGED <<backoff, silent, spared>>

\* _search_searxng, unless it is left alone.
TrySearxng(c) ==
  /\ Trying(c, "searxng")
  /\ \/ LeavesAlone(c, "searxng") /\ NextEngine(c, "searxng", {})
     \/ /\ Tries(c, "searxng")
        /\ \/ NextEngine(c, "searxng", {"searxng"}) /\ Quiet
           \/ FailsOnce(c, "searxng")
           \/ GivesUp(c, "searxng") /\ NextEngine(c, "searxng", {})

\* _search_duckduckgo_html; the rows are merged with what was found before.
TryHtml(c) ==
  /\ Trying(c, "html")
  /\ \/ NextEngine(c, "html", fetching[c].found \cup {"html"}) /\ Quiet
     \/ FailsOnce(c, "html")
     \/ GivesUp(c, "html") /\ NextEngine(c, "html", fetching[c].found)

\* _search_duckduckgo_api.
TryApi(c) ==
  /\ Trying(c, "api")
  /\ \/ NextEngine(c, "api", fetching[c].found \cup {"api"}) /\ Quiet
     \/ FailsOnce(c, "api")
     \/ GivesUp(c, "api") /\ NextEngine(c, "api", fetching[c].found)

\* _reddit_search: rows, or none while it is left alone, when it fails, or when it
\* answers without a thread, which is no failure.
SearchThreads(c) ==
  /\ Trying(c, "reddit") /\ fetching[c].asks = "threads"
  /\ \/ LeavesAlone(c, "reddit") /\ EndCall(c, {})
     \/ /\ Tries(c, "reddit")
        /\ \/ EndCall(c, {"reddit"}) /\ Quiet
           \/ GivesUp(c, "reddit") /\ EndCall(c, {})
           \/ Silent(c, "reddit") /\ UNCHANGED <<backoff, spared>> /\ EndCall(c, {})

\* _fetch_reddit_json of a page that is a thread.  When it fails, or answers without a
\* text, which is no failure, the page is fetched as any other, by the crawler if it is
\* enabled.
FetchThread(c) ==
  /\ Trying(c, "reddit") /\ fetching[c].asks = "thread"
  /\ \/ "reddit" \notin backoff /\ EndCall(c, {"reddit"}) /\ Quiet
     \/ /\ \/ LeavesAlone(c, "reddit")
           \/ "reddit" \notin backoff /\ GivesUp(c, "reddit")
           \/ "reddit" \notin backoff /\ Silent(c, "reddit") /\ UNCHANGED <<backoff, spared>>
        /\ \E s \in {"crawler", "site"} : TurnTo(c, s, {})

\* Mutant: the exception of the crawler is not caught.
CrawlerRaises(c) ==
  /\ Trying(c, "crawler")
  /\ \/ LeavesAlone(c, "crawler") /\ TurnTo(c, "site", {})
     \/ /\ Tries(c, "crawler")
        /\ \/ EndCall(c, {"crawler"}) /\ Quiet
           \/ FailsOnce(c, "crawler")
           \/ /\ Silent(c, "crawler") /\ Spare("crawler") /\ UNCHANGED spared
              /\ EndCall(c, {})

\* _fetch_page_crawl4ai, unless it is left alone; an answer without rows is not asked
\* for again, and the call falls back to the site.
FetchByCrawler(c) ==
  /\ Trying(c, "crawler")
  /\ \/ LeavesAlone(c, "crawler") /\ TurnTo(c, "site", {})
     \/ /\ Tries(c, "crawler")
        /\ \/ EndCall(c, {"crawler"}) /\ Quiet
           \/ FailsOnce(c, "crawler")
           \/ /\ Silent(c, "crawler") /\ Spare("crawler") /\ UNCHANGED spared
              /\ TurnTo(c, "site", {})

\* _fetch_page_basic; when every attempt fails, the page has failed.
FetchSite(c) ==
  /\ Trying(c, "site")
  /\ \/ EndCall(c, {"site"}) /\ Quiet
     \/ FailsOnce(c, "site")
     \/ GivesUp(c, "site") /\ EndCall(c, {})

\* The rows are cut to the limit, or the page gets the text that newspaper extracts.
ReturnCall(c) ==
  /\ fetching[c].at = "ended"
  /\ fetching' = [fetching EXCEPT ![c] = NoCall]
  /\ silent' = [silent EXCEPT ![c] = {}] /\ spared' = [spared EXCEPT ![c] = {}]
  /\ UNCHANGED backoff

\* The time until which a service is left alone has passed.
BackoffEnds(s) ==
  /\ s \in backoff
  /\ backoff' = backoff \ {s}
  /\ UNCHANGED <<fetching, silent, spared>>

FetchNext ==
  \/ \E c \in Call :
       \/ \E what \in Asked, first \in WebService : BeginCall(c, what, first)
       \/ TrySearxng(c) \/ TryHtml(c) \/ TryApi(c) \/ SearchThreads(c) \/ FetchThread(c)
       \/ FetchByCrawler(c) \/ FetchSite(c) \/ ReturnCall(c)
  \/ \E s \in Backed : BackoffEnds(s)

FetchSpec == FetchInit /\ [][FetchNext]_fetchVars

-----------------------------------------------------------------------------

FetchTypeOK ==
  /\ backoff \subseteq Backed
  /\ fetching \in [Call -> [at : WebService \cup {"idle", "ended"}, asks : Asked,
                        left : 0 .. Retry, found : SUBSET WebService]]
  /\ silent \in [Call -> SUBSET WebService] /\ spared \in [Call -> SUBSET Backed]

\* A call comes back with nothing only when nobody had anything: each engine of its
\* provider, or way to fetch its page, gave it nothing or was left alone, for a failure that
\* another thread may have met.  A page is never lost to the crawler: its site failed.
FindsWhatAnswers ==
  \A c \in Call :
    fetching[c].at = "ended" /\ fetching[c].found = {} =>
      /\ Recourse(fetching[c].asks) \ {"crawler"} \subseteq silent[c] \cup spared[c]
      /\ fetching[c].asks \in Pages => "site" \in silent[c]
=============================================================================
