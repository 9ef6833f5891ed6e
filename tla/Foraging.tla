------------------------------ MODULE Foraging ------------------------------
(***************************************************************************)
(* The research lanes of the orchestrator: ResearchService of              *)
(* SourceCode/orchestrator/services/research_service.py.                   *)
(*                                                                         *)
(* The turns of one process run in threads of their own, each with its own *)
(* orchestrator; they share the set _active_foraging of projects that have *)
(* a heavy run.  The pool's result comes as ResearchPool describes it.     *)
(***************************************************************************)
EXTENDS Integers, FiniteSets

CONSTANTS
  Turn,     \* turns that ask for research
  Slug,     \* projects
  NoSlug    \* a host without a project

ASSUME ForagingAssumption == NoSlug \notin Slug

VARIABLES
  slugOf,    \* the project of each turn
  turn,      \* how far each turn is
  pool,      \* the result of its pool
  summary,   \* the summary its result names
  active,    \* _active_foraging
  stop,      \* what the turn's cancel_checker answers
  proposals  \* turns that have queued action proposals

foragingVars == <<slugOf, turn, pool, summary, active, stop, proposals>>

ForagingStage == {"idle", "enter", "light", "lookup", "crawl", "single", "pool", "post",
                  "gap", "fill", "reply", "finalize", "leave", "ended"}
PoolResult == {"none", "completed", "cancelled", "unavailable"}

ForagingInit ==
  /\ slugOf = [t \in Turn |-> NoSlug]
  /\ turn = [t \in Turn |-> "idle"]
  /\ pool = [t \in Turn |-> "none"]
  /\ summary = [t \in Turn |-> "none"]
  /\ active = {}
  /\ stop = [t \in Turn |-> FALSE]
  /\ proposals = {}

-----------------------------------------------------------------------------

ForagingTo(t, from, to) == turn[t] = from /\ turn' = [turn EXCEPT ![t] = to]

\* execute_research_lane and execute_project_lane: a cancelled request and a
\* question of the stack are answered at once; a research turn that forces no
\* foraging takes the light flow.
EnterLane(t) ==
  /\ \E g \in Slug \cup {NoSlug} : slugOf' = [slugOf EXCEPT ![t] = g]
  /\ \/ ForagingTo(t, "idle", "ended")
     \/ ~stop[t] /\ (ForagingTo(t, "idle", "enter") \/ ForagingTo(t, "idle", "light"))
  /\ UNCHANGED <<pool, summary, active, stop, proposals>>

\* _light_research_flow: one query, one call of the model or a list of the sources,
\* and a summary of its own.
LightSummary(t) == summary' = [summary EXCEPT ![t] = "light"]

\* _execute_light_research runs no pool, and no other run keeps it out.
LightResearch(t) ==
  /\ ForagingTo(t, "light", "ended")
  /\ LightSummary(t)
  /\ UNCHANGED <<slugOf, pool, active, stop, proposals>>

\* Mutant: the test and the insertion are not one critical section, as another
\* turn's insertion is not seen.
TakeUnseen(t) ==
  /\ ForagingTo(t, "enter", "lookup")
  /\ active' = active \cup ({slugOf[t]} \ {NoSlug})
  /\ UNCHANGED <<slugOf, pool, summary, stop, proposals>>

\* Mutant: a turn without a project takes the empty one.
TakeEmpty(t) ==
  /\ IF slugOf[t] \in active
     THEN ForagingTo(t, "enter", "ended") /\ UNCHANGED active
     ELSE ForagingTo(t, "enter", "lookup") /\ active' = active \cup {slugOf[t]}
  /\ UNCHANGED <<slugOf, pool, summary, stop, proposals>>

\* The project is taken, or somebody has it.
TakeProject(t) ==
  /\ IF slugOf[t] \in active
     THEN ForagingTo(t, "enter", "ended") /\ UNCHANGED active
     ELSE /\ ForagingTo(t, "enter", "lookup")
          /\ active' = active \cup ({slugOf[t]} \ {NoSlug})
  /\ UNCHANGED <<slugOf, pool, summary, stop, proposals>>

\* The persona queries are planned; with none the legacy query is used.
PlanQueries(t) ==
  /\ ForagingTo(t, "lookup", "crawl") \/ ForagingTo(t, "lookup", "single")
  /\ UNCHANGED <<slugOf, pool, summary, active, stop, proposals>>

\* The crawls of the personas have all ended, failed or not; without a source
\* the legacy query is used.
CollectCrawls(t) ==
  /\ ForagingTo(t, "crawl", "pool") \/ ForagingTo(t, "crawl", "single")
  /\ UNCHANGED <<slugOf, pool, summary, active, stop, proposals>>

LegacyQuery(t) ==
  /\ ForagingTo(t, "single", "pool")
  /\ UNCHANGED <<slugOf, pool, summary, active, stop, proposals>>

\* run_research_pool returns; it notices a cancellation or misses it.
PoolReturns(t, result) ==
  /\ result = "cancelled" => stop[t]
  /\ ForagingTo(t, "pool", "post")
  /\ pool' = [pool EXCEPT ![t] = result]
  /\ summary' = [summary EXCEPT ![t] = IF result = "unavailable" THEN "none" ELSE "written"]
  /\ UNCHANGED <<slugOf, active, stop, proposals>>

\* _postprocess_research_summary, and the gap pass unless the result is cancelled.
Postprocess(t) ==
  /\ IF pool[t] = "cancelled" THEN ForagingTo(t, "post", "reply") ELSE ForagingTo(t, "post", "gap")
  /\ UNCHANGED <<slugOf, pool, summary, active, stop, proposals>>

\* _gap_fill_pass does nothing for a cancelled request or without a summary, and
\* when it is disabled, not needed, or finds no gap.
AssessGaps(t) ==
  /\ \/ ForagingTo(t, "gap", "reply")
     \/ ~stop[t] /\ summary[t] # "none" /\ ForagingTo(t, "gap", "fill")
  /\ UNCHANGED <<slugOf, pool, summary, active, stop, proposals>>

\* _run_fill_agents: two agents at once, who fail, or whose findings are kept.
FillAgents == {"nothing", "findings"}

\* The fill agents find nothing or there is no model to synthesize, and the old
\* result stands; or the filled summary replaces it.
FillGaps(t) ==
  /\ ForagingTo(t, "fill", "reply")
  /\ \E found \in FillAgents :
       \/ UNCHANGED summary
       \/ found = "findings" /\ summary' = [summary EXCEPT ![t] = "filled"]
  /\ UNCHANGED <<slugOf, pool, active, stop, proposals>>

\* An unavailable or cancelled result is told; any other is finalized.
Reply(t) ==
  /\ IF pool[t] = "completed" THEN ForagingTo(t, "reply", "finalize") ELSE ForagingTo(t, "reply", "leave")
  /\ UNCHANGED <<slugOf, pool, summary, active, stop, proposals>>

\* _finalize_research_reply: the reply is composed, the proposals are queued, and
\* the turn is completed.
Finalize(t) ==
  /\ ForagingTo(t, "finalize", "leave")
  /\ proposals' = proposals \cup {t}
  /\ UNCHANGED <<slugOf, pool, summary, active, stop>>

\* Any of these calls may raise.
Raise(t) ==
  /\ turn[t] \in {"lookup", "crawl", "single", "pool", "post", "gap", "fill", "finalize"}
  /\ turn' = [turn EXCEPT ![t] = "leave"]
  /\ UNCHANGED <<slugOf, pool, summary, active, stop, proposals>>

\* The finally clause.
LeaveProject(t) ==
  /\ ForagingTo(t, "leave", "ended")
  /\ active' = active \ {slugOf[t]}
  /\ UNCHANGED <<slugOf, pool, summary, stop, proposals>>

CancelTurn(t) ==
  /\ ~stop[t]
  /\ stop' = [stop EXCEPT ![t] = TRUE]
  /\ UNCHANGED <<slugOf, turn, pool, summary, active, proposals>>

TurnStep(t) ==
  \/ EnterLane(t) \/ LightResearch(t) \/ TakeProject(t) \/ PlanQueries(t)
  \/ CollectCrawls(t) \/ LegacyQuery(t)
  \/ \E result \in PoolResult \ {"none"} : PoolReturns(t, result)
  \/ Postprocess(t) \/ AssessGaps(t) \/ FillGaps(t) \/ Reply(t) \/ Finalize(t)
  \/ LeaveProject(t)

ForagingNext == \E t \in Turn : TurnStep(t) \/ Raise(t) \/ CancelTurn(t)

ForagingSpec == ForagingInit /\ [][ForagingNext]_foragingVars

-----------------------------------------------------------------------------

ForagingTypeOK ==
  /\ slugOf \in [Turn -> Slug \cup {NoSlug}]
  /\ turn \in [Turn -> ForagingStage]
  /\ pool \in [Turn -> PoolResult]
  /\ summary \in [Turn -> {"none", "light", "written", "filled"}]
  /\ active \subseteq Slug
  /\ stop \in [Turn -> BOOLEAN]
  /\ proposals \subseteq Turn

Forages(t) == turn[t] \in {"lookup", "crawl", "single", "pool", "post", "gap", "fill",
                            "reply", "finalize", "leave"}

\* One heavy run for a project: of the turns that forage for the same project at
\* most one is inside, and the set of active projects names just those.
OneForagingPerProject ==
  /\ \A s, t \in Turn : Forages(s) /\ Forages(t) /\ slugOf[s] = slugOf[t]
                          /\ slugOf[s] # NoSlug => s = t
  /\ active = {slugOf[t] : t \in {u \in Turn : Forages(u)}} \ {NoSlug}
=============================================================================
