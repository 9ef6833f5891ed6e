----------------------------- MODULE WorkProofs -----------------------------
(***************************************************************************)
(* What holds of any number of foraging turns and projects, of models and  *)
(* servers, of web queries and fetches, and of reports; and, with the      *)
(* turns, of the six components that MC_Work runs together.                *)
(*                                                                         *)
(* One heavy run for a project is inductive once it is said of the set and *)
(* of the turns together.  That a call raises only after everybody refused *)
(* is not: a candidate that was left behind must have been refused when    *)
(* the call went on to the next one (TriedInVain), and only a call that    *)
(* does not wait comes to ask a backend (WaitsApart).  An answer is in the *)
(* cache only past the write of its chunks (StoredInTime).  A fetch that   *)
(* has gone past a service without a result was refused by it or left it   *)
(* alone (CallFits); a report has at each stage what the stages before it  *)
(* gave its text (TextFits).                                               *)
(***************************************************************************)
EXTENDS MC_Work, TurnPipelineProofs, FiniteSetTheorems, TLAPS

ForagingInv == ForagingTypeOK /\ OneForagingPerProject

LEMMA ForagingInitInv == ForagingInit => ForagingInv
  BY DEF ForagingInit, ForagingInv, ForagingTypeOK, OneForagingPerProject, Forages,
         ForagingStage, PoolResult

\* A turn that stays inside, or outside, of its run.
LEMMA TurnMoves ==
  ASSUME ForagingInv, NEW t \in Turn, NEW from, NEW to \in ForagingStage,
         ForagingTo(t, from, to),
         slugOf' = slugOf, active' = active,
         Forages(t)' <=> Forages(t)
  PROVE  turn' \in [Turn -> ForagingStage] /\ OneForagingPerProject'
<1>1. /\ turn' \in [Turn -> ForagingStage]
      /\ turn'[t] = to /\ \A s \in Turn \ {t} : turn'[s] = turn[s]
  BY DEF ForagingTo, ForagingInv, ForagingTypeOK
<1>2. \A s \in Turn : Forages(s)' <=> Forages(s)
  BY <1>1 DEF Forages
<1>3. OneForagingPerProject'
  BY <1>2 DEF OneForagingPerProject, ForagingInv
<1>4. QED
  BY <1>1, <1>3

LEMMA ForagingNextInv == ForagingInv /\ [ForagingNext]_foragingVars => ForagingInv'
<1> SUFFICES ASSUME ForagingInv, [ForagingNext]_foragingVars PROVE ForagingInv'
  OBVIOUS
<1>1. ASSUME NEW t \in Turn, EnterLane(t) PROVE ForagingInv'
  <2>1. PICK to \in {"ended", "enter", "light"} : ForagingTo(t, "idle", to)
    BY <1>1 DEF EnterLane
  <2>2. /\ turn[t] = "idle" /\ turn'[t] = to
        /\ turn' \in [Turn -> ForagingStage]
        /\ \A s \in Turn \ {t} : turn'[s] = turn[s]
    BY <2>1 DEF ForagingTo, ForagingInv, ForagingTypeOK, ForagingStage
  <2>3. /\ slugOf' \in [Turn -> Slug \cup {NoSlug}]
        /\ \A s \in Turn \ {t} : slugOf'[s] = slugOf[s]
        /\ active' = active
    BY <1>1 DEF EnterLane, ForagingInv, ForagingTypeOK
  <2>4. \A s \in Turn : (Forages(s)' <=> Forages(s)) /\ (Forages(s) => slugOf'[s] = slugOf[s])
    BY <2>2, <2>3 DEF Forages
  <2>5. OneForagingPerProject'
    BY <2>3, <2>4 DEF OneForagingPerProject, ForagingInv
  <2>6. QED
    BY <1>1, <2>2, <2>3, <2>5 DEF EnterLane, ForagingInv, ForagingTypeOK
<1>2. ASSUME NEW t \in Turn, LightResearch(t) PROVE ForagingInv'
  <2>1. ForagingTo(t, "light", "ended") /\ slugOf' = slugOf /\ active' = active
    BY <1>2 DEF LightResearch
  <2>2. Forages(t)' <=> Forages(t)
    BY <2>1 DEF ForagingTo, Forages, ForagingInv, ForagingTypeOK
  <2>3. turn' \in [Turn -> ForagingStage] /\ OneForagingPerProject'
    BY <2>1, <2>2, TurnMoves DEF ForagingStage
  <2>4. QED
    BY <1>2, <2>3 DEF LightResearch, LightSummary, ForagingInv, ForagingTypeOK
<1>3. ASSUME NEW t \in Turn, TakeProject(t) PROVE ForagingInv'
  <2>1. CASE slugOf[t] \in active
    <3>1. ForagingTo(t, "enter", "ended") /\ slugOf' = slugOf /\ active' = active
      BY <1>3, <2>1 DEF TakeProject
    <3>2. Forages(t)' <=> Forages(t)
      BY <3>1 DEF ForagingTo, Forages, ForagingInv, ForagingTypeOK
    <3>3. turn' \in [Turn -> ForagingStage] /\ OneForagingPerProject'
      BY <3>1, <3>2, TurnMoves DEF ForagingStage
    <3>4. QED
      BY <1>3, <3>1, <3>3 DEF TakeProject, ForagingInv, ForagingTypeOK
  <2>2. CASE slugOf[t] \notin active
    <3>1. /\ ForagingTo(t, "enter", "lookup") /\ slugOf' = slugOf
          /\ active' = active \cup ({slugOf[t]} \ {NoSlug})
      BY <1>3, <2>2 DEF TakeProject
    <3>2. /\ turn' \in [Turn -> ForagingStage]
          /\ Forages(t)' /\ ~Forages(t)
          /\ \A s \in Turn \ {t} : Forages(s)' <=> Forages(s)
      BY <3>1 DEF ForagingTo, Forages, ForagingInv, ForagingTypeOK, ForagingStage
    <3>3. \A s \in Turn : Forages(s) /\ slugOf[s] # NoSlug => slugOf[s] # slugOf[t]
      BY <2>2 DEF OneForagingPerProject, ForagingInv
    <3>4. \A r, s \in Turn : Forages(r)' /\ Forages(s)' /\ slugOf'[r] = slugOf'[s]
                               /\ slugOf'[r] # NoSlug => r = s
      BY <3>1, <3>2, <3>3 DEF OneForagingPerProject, ForagingInv
    <3>5. active' = {slugOf'[s] : s \in {u \in Turn : Forages(u)'}} \ {NoSlug}
      BY <3>1, <3>2 DEF OneForagingPerProject, ForagingInv
    <3>6. slugOf[t] \in Slug \cup {NoSlug}
      BY DEF ForagingInv, ForagingTypeOK
    <3>7. QED
      BY <1>3, <3>1, <3>2, <3>4, <3>5, <3>6
         DEF TakeProject, ForagingInv, ForagingTypeOK, OneForagingPerProject
  <2>3. QED
    BY <2>1, <2>2
<1>4. ASSUME NEW t \in Turn,
             \/ PlanQueries(t) \/ CollectCrawls(t) \/ LegacyQuery(t) \/ Postprocess(t)
             \/ AssessGaps(t) \/ FillGaps(t) \/ Reply(t) \/ Finalize(t)
             \/ \E result \in PoolResult \ {"none"} : PoolReturns(t, result)
      PROVE  ForagingInv'
  <2>1. PICK from \in {"lookup", "crawl", "single", "pool", "post", "gap", "fill", "reply", "finalize"},
             to \in {"crawl", "single", "pool", "post", "gap", "fill", "reply", "finalize", "leave"} :
          ForagingTo(t, from, to)
    BY <1>4 DEF PlanQueries, CollectCrawls, LegacyQuery, Postprocess, AssessGaps, FillGaps,
                Reply, Finalize, PoolReturns
  <2>2. slugOf' = slugOf /\ active' = active /\ stop' = stop
    BY <1>4 DEF PlanQueries, CollectCrawls, LegacyQuery, Postprocess, AssessGaps, FillGaps,
                Reply, Finalize, PoolReturns
  <2>3. Forages(t)' <=> Forages(t)
    BY <2>1 DEF ForagingTo, Forages, ForagingInv, ForagingTypeOK
  <2>4. turn' \in [Turn -> ForagingStage] /\ OneForagingPerProject'
    BY <2>1, <2>2, <2>3, TurnMoves DEF ForagingStage
  <2>5. /\ pool' \in [Turn -> PoolResult]
        /\ summary' \in [Turn -> {"none", "light", "written", "filled"}]
        /\ proposals' \subseteq Turn
    BY <1>4 DEF PlanQueries, CollectCrawls, LegacyQuery, Postprocess, AssessGaps, FillGaps,
                Reply, Finalize, PoolReturns, FillAgents, ForagingInv, ForagingTypeOK
  <2>6. QED
    BY <2>2, <2>4, <2>5 DEF ForagingInv, ForagingTypeOK
<1>5. ASSUME NEW t \in Turn, Raise(t) PROVE ForagingInv'
  <2>1. ForagingTo(t, turn[t], "leave") /\ slugOf' = slugOf /\ active' = active
    BY <1>5 DEF Raise, ForagingTo
  <2>2. Forages(t)' <=> Forages(t)
    BY <1>5 DEF Raise, Forages, ForagingInv, ForagingTypeOK
  <2>3. turn' \in [Turn -> ForagingStage] /\ OneForagingPerProject'
    BY <2>1, <2>2, TurnMoves DEF ForagingStage
  <2>4. QED
    BY <1>5, <2>3 DEF Raise, ForagingInv, ForagingTypeOK
<1>6. ASSUME NEW t \in Turn, LeaveProject(t) PROVE ForagingInv'
  <2>1. /\ ForagingTo(t, "leave", "ended") /\ slugOf' = slugOf
        /\ active' = active \ {slugOf[t]}
    BY <1>6 DEF LeaveProject
  <2>2. /\ turn' \in [Turn -> ForagingStage]
        /\ ~Forages(t)' /\ Forages(t)
        /\ \A s \in Turn \ {t} : Forages(s)' <=> Forages(s)
    BY <2>1 DEF ForagingTo, Forages, ForagingInv, ForagingTypeOK, ForagingStage
  <2>3. \A s \in Turn \ {t} : Forages(s) /\ slugOf[s] # NoSlug => slugOf[s] # slugOf[t]
    BY <2>2 DEF OneForagingPerProject, ForagingInv
  <2>4. \A r, s \in Turn : Forages(r)' /\ Forages(s)' /\ slugOf'[r] = slugOf'[s]
                             /\ slugOf'[r] # NoSlug => r = s
    BY <2>1, <2>2 DEF OneForagingPerProject, ForagingInv
  <2>5. active' = {slugOf'[s] : s \in {u \in Turn : Forages(u)'}} \ {NoSlug}
    BY <2>1, <2>2, <2>3 DEF OneForagingPerProject, ForagingInv
  <2>6. QED
    BY <1>6, <2>1, <2>2, <2>4, <2>5
       DEF LeaveProject, ForagingInv, ForagingTypeOK, OneForagingPerProject
<1>7. ASSUME NEW t \in Turn, CancelTurn(t) PROVE ForagingInv'
  BY <1>7 DEF CancelTurn, ForagingInv, ForagingTypeOK, OneForagingPerProject, Forages
<1>8. CASE UNCHANGED foragingVars
  BY <1>8 DEF foragingVars, ForagingInv, ForagingTypeOK, OneForagingPerProject, Forages
<1>9. QED
  BY <1>1, <1>2, <1>3, <1>4, <1>5, <1>6, <1>7, <1>8 DEF ForagingNext, TurnStep

\* Of the turns that forage for one project at most one is inside, and the set of
\* active projects names just those, for any turns and projects, cancellations and
\* exceptions (_active_foraging).
THEOREM OneRunAtATime == ForagingSpec => []OneForagingPerProject
<1>1. ForagingInv => OneForagingPerProject
  BY DEF ForagingInv
<1>2. QED
  BY <1>1, ForagingInitInv, ForagingNextInv, PTL DEF ForagingSpec

-----------------------------------------------------------------------------

\* A candidate that nobody answers for, as far as the call has asked.
InVain(row, m) ==
  \/ <<m, "ollama">> \in row.refused
  \/ <<m, "llama">> \in row.refused /\ home[m] \notin rescue

\* The candidates that a chat has left behind were asked in vain.
TriedInVain ==
  \A a \in Asker :
    /\ asker[a].at \in {"route", "discover", "chat"} /\ ~asker[a].waits =>
         \A m \in asker[a].wants \ (asker[a].left \cup {asker[a].model}) : InVain(asker[a], m)
    /\ asker[a].at = "raised" => \A m \in asker[a].wants : InVain(asker[a], m)

\* Only a wait looks for the models of Ollama, only a chat asks a backend.
WaitsApart ==
  \A a \in Asker : /\ asker[a].at = "tags" => asker[a].waits
                   /\ asker[a].at = "chat" => ~asker[a].waits

\* A call that is at a server has one.
AtItsServer ==
  \A a \in Asker :
    asker[a].at = "discover" \/ (asker[a].at = "chat" /\ asker[a].via = "llama") =>
      home[asker[a].model] \in Server

InferenceInv == InferenceTypeOK /\ TriedInVain /\ WaitsApart /\ AtItsServer

AskRow == [at : AskStage, waits : BOOLEAN, wants : SUBSET Model, left : SUBSET Model,
           model : Model, via : Backend, refused : SUBSET (Model \X Backend)]

\* What is asked of one row of a call.
RowFits(row) ==
  /\ row \in AskRow
  /\ row.at \in {"route", "discover", "chat"} /\ ~row.waits =>
       \A m \in row.wants \ (row.left \cup {row.model}) : InVain(row, m)
  /\ row.at = "raised" => \A m \in row.wants : InVain(row, m)
  /\ row.at = "tags" => row.waits
  /\ row.at = "chat" => ~row.waits
  /\ row.at = "discover" \/ (row.at = "chat" /\ row.via = "llama") =>
       home[row.model] \in Server

LEMMA Fits == InferenceInv => \A a \in Asker : RowFits(asker[a])
  BY DEF InferenceInv, InferenceTypeOK, TriedInVain, WaitsApart, AtItsServer, RowFits, AskRow

\* A call that changes to a row that fits.
LEMMA AskMoves ==
  ASSUME InferenceInv, NEW a \in Asker, NEW row, RowFits(row),
         asker' = [asker EXCEPT ![a] = row],
         home' = home, rescue' = rescue,
         shunned' \subseteq Server, known' \subseteq Server,
         declared' \in [Server -> SUBSET Model]
  PROVE  InferenceInv'
<1>1. /\ asker' \in [Asker -> AskRow] /\ asker'[a] = row
      /\ \A b \in Asker \ {a} : asker'[b] = asker[b]
  BY DEF InferenceInv, InferenceTypeOK, RowFits, AskRow
<1>2. \A r, m : InVain(r, m)' <=> InVain(r, m)
  BY DEF InVain
<1>3. \A b \in Asker : RowFits(asker'[b])
  BY <1>1, Fits
<1>4. InferenceTypeOK'
  BY <1>1 DEF InferenceInv, InferenceTypeOK, AskRow
<1>5. \A b \in Asker :
        /\ asker'[b].at \in {"route", "discover", "chat"} /\ ~asker'[b].waits =>
             \A m \in asker'[b].wants \ (asker'[b].left \cup {asker'[b].model}) :
               \/ <<m, "ollama">> \in asker'[b].refused
               \/ <<m, "llama">> \in asker'[b].refused /\ home'[m] \notin rescue'
        /\ asker'[b].at = "raised" => \A m \in asker'[b].wants :
               \/ <<m, "ollama">> \in asker'[b].refused
               \/ <<m, "llama">> \in asker'[b].refused /\ home'[m] \notin rescue'
  BY <1>3 DEF RowFits, InVain
<1>6. TriedInVain'
  BY <1>5 DEF TriedInVain, InVain
<1>7. WaitsApart'
  BY <1>3 DEF WaitsApart, RowFits
<1>8. AtItsServer'
  BY <1>3 DEF AtItsServer, RowFits
<1>9. QED
  BY <1>4, <1>6, <1>7, <1>8 DEF InferenceInv

LEMMA InferenceInitInv == InferenceInit => InferenceInv
<1> SUFFICES ASSUME InferenceInit PROVE InferenceInv
  OBVIOUS
<1>1. (CHOOSE m \in Model : TRUE) \in Model
  BY InferenceAssumption
<1>2. NoAsk \in AskRow /\ NoAsk.at = "idle"
  BY <1>1 DEF NoAsk, AskRow, AskStage, Backend
<1>3. \A a \in Asker : asker[a] = NoAsk
  BY DEF InferenceInit
<1>4. InferenceTypeOK
  BY <1>2 DEF InferenceInit, InferenceTypeOK, AskRow
<1>5. QED
  BY <1>2, <1>3, <1>4 DEF InferenceInv, TriedInVain, WaitsApart, AtItsServer

\* The call goes on to its next candidate, or ends, once all that it leaves behind
\* were asked in vain.
LEMMA NextMoves ==
  ASSUME InferenceInv, NEW a \in Asker, NEW row \in AskRow, NextCandidate(a, row),
         ~row.waits => \A m \in row.wants \ row.left : InVain(row, m),
         home' = home, rescue' = rescue,
         shunned' \subseteq Server, known' \subseteq Server,
         declared' \in [Server -> SUBSET Model]
  PROVE  InferenceInv'
<1>1. ASSUME NEW next, next = [row EXCEPT !.at = IF row.waits THEN "tags" ELSE "raised"],
             row.left = {}, asker' = [asker EXCEPT ![a] = next]
      PROVE  InferenceInv'
  <2>1. /\ next \in AskRow /\ next.wants = row.wants /\ next.refused = row.refused
        /\ next.waits = row.waits
        /\ next.at = IF row.waits THEN "tags" ELSE "raised"
    BY <1>1 DEF AskRow, AskStage
  <2>2. \A m : InVain(next, m) <=> InVain(row, m)
    BY <2>1 DEF InVain
  <2>3. RowFits(next)
    BY <1>1, <2>1, <2>2 DEF RowFits
  <2>4. QED
    BY <1>1, <2>3, AskMoves
<1>2. ASSUME NEW m \in row.left, NEW next,
             next = [row EXCEPT !.at = "route", !.model = m, !.left = @ \ {m}],
             asker' = [asker EXCEPT ![a] = next]
      PROVE  InferenceInv'
  <2>1. /\ next \in AskRow /\ next.wants = row.wants /\ next.refused = row.refused
        /\ next.waits = row.waits /\ next.at = "route"
        /\ next.left = row.left \ {m} /\ next.model = m
    BY <1>2 DEF AskRow, AskStage
  <2>2. \A n : InVain(next, n) <=> InVain(row, n)
    BY <2>1 DEF InVain
  <2>3. RowFits(next)
    BY <2>1, <2>2 DEF RowFits
  <2>4. QED
    BY <1>2, <2>3, AskMoves
<1>3. QED
  BY <1>1, <1>2 DEF NextCandidate

\* A call whose model no server declares.
LEMMA NotDeclaredMoves ==
  ASSUME InferenceInv, NEW a \in Asker, asker[a].at \in {"route", "discover"}, NotDeclared(a),
         home' = home, rescue' = rescue,
         shunned' \subseteq Server, known' \subseteq Server,
         declared' \in [Server -> SUBSET Model]
  PROVE  InferenceInv'
<1>1. RowFits(asker[a]) /\ asker[a] \in AskRow
  BY Fits DEF RowFits
<1>2. CASE asker[a].waits
  BY <1>1, <1>2, NextMoves DEF NotDeclared
<1>3. CASE ~asker[a].waits
  <2>1. PICK next : /\ next = [asker[a] EXCEPT !.at = "chat", !.via = "ollama"]
                    /\ asker' = [asker EXCEPT ![a] = next]
    BY <1>3 DEF NotDeclared
  <2>2. /\ next \in AskRow /\ next.wants = asker[a].wants /\ next.refused = asker[a].refused
        /\ next.waits = asker[a].waits /\ next.at = "chat" /\ next.via = "ollama"
        /\ next.left = asker[a].left /\ next.model = asker[a].model
    BY <1>1, <2>1 DEF AskRow, AskStage, Backend
  <2>3. RowFits(next)
    BY <1>1, <1>3, <2>2 DEF RowFits, InVain
  <2>4. QED
    BY <2>1, <2>3, AskMoves
<1>4. QED
  BY <1>2, <1>3

\* A call that turns to its server.
LEMMA LlamaMoves ==
  ASSUME InferenceInv, NEW a \in Asker, asker[a].at \in {"route", "discover"}, TurnToLlama(a),
         HomeOf(a) \in Server,
         home' = home, rescue' = rescue,
         shunned' \subseteq Server, known' \subseteq Server,
         declared' \in [Server -> SUBSET Model]
  PROVE  InferenceInv'
<1>1. RowFits(asker[a])
  BY Fits
<1>2. PICK next : /\ next = [asker[a] EXCEPT
                               !.at = IF asker[a].waits THEN "available" ELSE "chat",
                               !.via = "llama"]
                  /\ asker' = [asker EXCEPT ![a] = next]
  BY DEF TurnToLlama
<1>3. /\ next \in AskRow /\ next.wants = asker[a].wants /\ next.refused = asker[a].refused
      /\ next.waits = asker[a].waits
      /\ next.at = IF asker[a].waits THEN "available" ELSE "chat"
      /\ next.left = asker[a].left /\ next.model = asker[a].model
  BY <1>1, <1>2 DEF AskRow, AskStage, Backend, RowFits
<1>4. RowFits(next)
  BY <1>1, <1>3 DEF RowFits, InVain, HomeOf
<1>5. QED
  BY <1>2, <1>4, AskMoves

\* What a call knows once the backend it has turned to has failed.
LEMMA RefusedFits ==
  ASSUME InferenceInv, NEW a \in Asker, asker[a].at = "chat"
  PROVE  /\ Refused(a) \in AskRow /\ ~Refused(a).waits /\ Refused(a).at = "chat"
         /\ \A m \in asker[a].wants \ (asker[a].left \cup {asker[a].model}) :
              InVain(Refused(a), m)
         /\ Refused(a).wants = asker[a].wants /\ Refused(a).left = asker[a].left
         /\ Refused(a).model = asker[a].model
         /\ <<asker[a].model, asker[a].via>> \in Refused(a).refused
<1>1. RowFits(asker[a]) /\ asker[a] \in AskRow /\ ~asker[a].waits
  BY Fits DEF RowFits
<1>2. <<asker[a].model, asker[a].via>> \in Model \X Backend
  BY <1>1 DEF AskRow
<1>3. /\ Refused(a) = [asker[a] EXCEPT
                         !.refused = asker[a].refused \cup {<<asker[a].model, asker[a].via>>}]
  BY DEF Refused
<1>4. /\ Refused(a).refused = asker[a].refused \cup {<<asker[a].model, asker[a].via>>}
      /\ Refused(a).wants = asker[a].wants /\ Refused(a).left = asker[a].left
      /\ Refused(a).model = asker[a].model /\ Refused(a).waits = asker[a].waits
      /\ Refused(a).at = asker[a].at /\ Refused(a) \in AskRow
  BY <1>1, <1>2, <1>3 DEF AskRow
<1>5. \A m : InVain(asker[a], m) => InVain(Refused(a), m)
  BY <1>4 DEF InVain
<1>6. QED
  BY <1>1, <1>4, <1>5 DEF RowFits

LEMMA InferenceNextInv == InferenceInv /\ [InferenceNext]_inferenceVars => InferenceInv'
<1> SUFFICES ASSUME InferenceInv, [InferenceNext]_inferenceVars PROVE InferenceInv'
  OBVIOUS
<1>0. /\ shunned \subseteq Server /\ known \subseteq Server
      /\ declared \in [Server -> SUBSET Model] /\ home \in [Model -> Server \cup {NoServer}]
      /\ \A a \in Asker : asker[a] \in AskRow /\ RowFits(asker[a])
  BY Fits DEF InferenceInv, InferenceTypeOK, RowFits
<1>1. ASSUME NEW a \in Asker, NEW m \in Model, NEW others \in SUBSET Model,
             NEW waits \in BOOLEAN, BeginAsk(a, m, others, waits)
      PROVE  InferenceInv'
  <2>1. PICK next : /\ next = [NoAsk EXCEPT !.at = "route", !.waits = waits,
                                 !.wants = {m} \cup others, !.left = others, !.model = m]
                    /\ asker' = [asker EXCEPT ![a] = next]
    BY <1>1 DEF BeginAsk
  <2>2. next = [at |-> "route", waits |-> waits, wants |-> {m} \cup others, left |-> others,
                model |-> m, via |-> "ollama", refused |-> {}]
    BY <2>1 DEF NoAsk
  <2>3. RowFits(next)
    BY <2>2 DEF RowFits, AskRow, AskStage, Backend
  <2>4. QED
    BY <1>0, <1>1, <2>1, <2>3, AskMoves DEF BeginAsk
<1>2. ASSUME NEW a \in Asker, Route(a) PROVE InferenceInv'
  <2>1. /\ asker[a].at = "route" /\ home' = home /\ rescue' = rescue
        /\ shunned' = shunned /\ known' = known /\ declared' = declared
    BY <1>2 DEF Route, Asks
  <2>2. CASE NotDeclared(a)
    BY <1>0, <2>1, <2>2, NotDeclaredMoves
  <2>3. ASSUME TurnToLlama(a), HomeOf(a) \in Server PROVE InferenceInv'
    BY <1>0, <2>1, <2>3, LlamaMoves
  <2>4. ASSUME asker' = [asker EXCEPT ![a].at = "discover"], HomeOf(a) \in Server
        PROVE  InferenceInv'
    <3>1. PICK next : /\ next = [asker[a] EXCEPT !.at = "discover"]
                      /\ asker' = [asker EXCEPT ![a] = next]
      BY <2>4
    <3>2. /\ next \in AskRow /\ next.wants = asker[a].wants
          /\ next.refused = asker[a].refused /\ next.waits = asker[a].waits
          /\ next.at = "discover" /\ next.left = asker[a].left
          /\ next.model = asker[a].model
      BY <1>0, <3>1 DEF AskRow, AskStage
    <3>3. RowFits(next)
      BY <1>0, <2>1, <2>4, <3>2 DEF RowFits, InVain, HomeOf
    <3>4. QED
      BY <1>0, <2>1, <3>1, <3>3, AskMoves
  <2>5. HomeOf(a) \in Server \cup {NoServer}
    BY <1>0 DEF HomeOf, AskRow
  <2>6. QED
    BY <1>2, <2>2, <2>3, <2>4, <2>5 DEF Route
<1>3. ASSUME NEW a \in Asker, Discover(a) PROVE InferenceInv'
  <2>1. asker[a].at = "discover" /\ home' = home /\ rescue' = rescue
    BY <1>3 DEF Discover, Asks
  <2>2. HomeOf(a) \in Server /\ shunned' \subseteq Server /\ known' \subseteq Server
    <3>1. HomeOf(a) \in Server
      BY <1>0, <2>1 DEF HomeOf, RowFits
    <3>2. QED
      BY <1>0, <1>3, <3>1 DEF Discover
  <2>3. declared' \in [Server -> SUBSET Model]
    BY <1>0, <1>3 DEF Discover
  <2>4. TurnToLlama(a) \/ NotDeclared(a)
    BY <1>3 DEF Discover
  <2>5. QED
    BY <2>1, <2>2, <2>3, <2>4, NotDeclaredMoves, LlamaMoves
<1>4. ASSUME NEW a \in Asker, NEW at \in {"answered", "available", "unavailable"},
             asker' = [asker EXCEPT ![a].at = at],
             UNCHANGED <<home, rescue, shunned, declared, known>>
      PROVE  InferenceInv'
  <2>1. PICK next : next = [asker[a] EXCEPT !.at = at] /\ asker' = [asker EXCEPT ![a] = next]
    BY <1>4
  <2>2. next \in AskRow /\ next.at = at
    BY <1>0, <2>1 DEF AskRow, AskStage
  <2>3. RowFits(next)
    BY <2>2 DEF RowFits
  <2>4. QED
    BY <1>0, <1>4, <2>1, <2>3, AskMoves
<1>5. ASSUME NEW a \in Asker, LlamaFails(a) PROVE InferenceInv'
  <2>1. /\ asker[a].at = "chat" /\ asker[a].via = "llama"
        /\ home' = home /\ rescue' = rescue /\ known' = known /\ declared' = declared
        /\ shunned' = shunned \cup {home[asker[a].model]}
    BY <1>5 DEF LlamaFails, Asks, HomeOf
  <2>2. shunned' \subseteq Server
    BY <1>0, <2>1 DEF RowFits
  <2>3. CASE home[asker[a].model] \in rescue
    <3>1. PICK next : /\ next = [Refused(a) EXCEPT !.via = "ollama"]
                      /\ asker' = [asker EXCEPT ![a] = next]
      BY <1>5, <2>3 DEF LlamaFails, HomeOf
    <3>2. /\ next \in AskRow /\ next.at = "chat" /\ ~next.waits /\ next.via = "ollama"
          /\ next.wants = asker[a].wants /\ next.left = asker[a].left
          /\ next.model = asker[a].model /\ next.refused = Refused(a).refused
      BY <2>1, <3>1, RefusedFits DEF AskRow, Backend
    <3>3. RowFits(next)
      BY <2>1, <3>2, RefusedFits DEF RowFits, InVain
    <3>4. QED
      BY <1>0, <2>1, <2>2, <3>1, <3>3, AskMoves
  <2>4. CASE home[asker[a].model] \notin rescue
    <3>1. NextCandidate(a, Refused(a))
      BY <1>5, <2>4 DEF LlamaFails, HomeOf
    <3>2. \A m \in Refused(a).wants \ Refused(a).left : InVain(Refused(a), m)
      BY <2>1, <2>4, RefusedFits DEF InVain
    <3>3. QED
      BY <1>0, <2>1, <2>2, <3>1, <3>2, RefusedFits, NextMoves
  <2>5. QED
    BY <2>3, <2>4
<1>6. ASSUME NEW a \in Asker, OllamaFails(a) PROVE InferenceInv'
  <2>1. /\ asker[a].at = "chat" /\ asker[a].via = "ollama"
        /\ home' = home /\ rescue' = rescue /\ known' = known /\ declared' = declared
        /\ shunned' = shunned /\ NextCandidate(a, Refused(a))
    BY <1>6 DEF OllamaFails, Asks
  <2>2. \A m \in Refused(a).wants \ Refused(a).left : InVain(Refused(a), m)
    BY <2>1, RefusedFits DEF InVain
  <2>3. QED
    BY <1>0, <2>1, <2>2, RefusedFits, NextMoves
<1>7. ASSUME NEW a \in Asker, ProbeOllama(a) PROVE InferenceInv'
  <2>1. /\ asker[a].at = "tags" /\ asker[a].waits
        /\ UNCHANGED <<home, rescue, shunned, declared, known>>
    BY <1>0, <1>7 DEF ProbeOllama, Asks, RowFits
  <2>2. ASSUME NEW m \in asker[a].wants,
               asker' = [asker EXCEPT ![a].at = "route", ![a].model = m,
                                      ![a].left = asker[a].wants \ {m}]
        PROVE  InferenceInv'
    <3>1. PICK next : /\ next = [asker[a] EXCEPT !.at = "route", !.model = m,
                                   !.left = asker[a].wants \ {m}]
                      /\ asker' = [asker EXCEPT ![a] = next]
      BY <2>2
    <3>2. next \in AskRow /\ next.at = "route" /\ next.waits
      BY <1>0, <2>1, <3>1 DEF AskRow, AskStage
    <3>3. RowFits(next)
      BY <3>2 DEF RowFits
    <3>4. QED
      BY <1>0, <2>1, <3>1, <3>3, AskMoves
  <2>3. QED
    BY <1>4, <1>7, <2>1, <2>2 DEF ProbeOllama
<1>8. ASSUME NEW a \in Asker, ReturnAsk(a) PROVE InferenceInv'
  <2>1. (CHOOSE m \in Model : TRUE) \in Model
    BY InferenceAssumption
  <2>2. RowFits(NoAsk)
    BY <2>1 DEF RowFits, NoAsk, AskRow, AskStage, Backend
  <2>3. QED
    BY <1>0, <1>8, <2>2, AskMoves DEF ReturnAsk
<1>9. ASSUME UNCHANGED <<home, rescue, asker>>,
             shunned' \subseteq Server, known' \subseteq Server,
             declared' \in [Server -> SUBSET Model]
      PROVE  InferenceInv'
  BY <1>9 DEF InferenceInv, InferenceTypeOK, TriedInVain, WaitsApart, AtItsServer, InVain
<1>10. ASSUME NEW s \in Server, ShunEnds(s) \/ Forget(s) PROVE InferenceInv'
  BY <1>0, <1>9, <1>10 DEF ShunEnds, Forget
<1>11. CASE UNCHANGED inferenceVars
  BY <1>0, <1>9, <1>11 DEF inferenceVars
<1>12. ASSUME NEW a \in Asker, Answers(a) PROVE InferenceInv'
  BY <1>4, <1>12 DEF Answers
<1>13. QED
  BY <1>1, <1>2, <1>3, <1>5, <1>6, <1>7, <1>8, <1>10, <1>11, <1>12 DEF InferenceNext

\* A chat raises only when every candidate was refused, by Ollama or by a server of its
\* own that is not to be replaced, for any callers, models and servers (call_model with
\* fallbacks, backoff and discovery shared by all threads).
THEOREM NobodyAnswers == InferenceSpec => []RaisesUnanswered
<1>1. InferenceInv => RaisesUnanswered
  BY DEF InferenceInv, TriedInVain, InVain, RaisesUnanswered, Asks
<1>2. QED
  BY <1>1, InferenceInitInv, InferenceNextInv, PTL DEF InferenceSpec

-----------------------------------------------------------------------------

\* An answer that succeeded has stored its chunks, but for the moment between its line
\* in the log and the chunks; an answer that is cached is past that.
StoredInTime ==
  \A q \in Query :
    /\ query[q].result = "ok" => query[q].at = "stored" \/ q \in stored
    /\ (\E k \in Key : cached[k] = q) => query[q].at \in {"leave", "resolve", "done"}
    /\ query[q].at \in {"idle", "cache", "expand", "search", "widen", "select", "crawl", "wiki",
                        "score", "follow", "refine", "refined", "judge", "weigh", "write",
                        "log"} => query[q].result = "none"

WebInv == WebTypeOK /\ StoredInTime

QueryRow == [at : WebStage, key : Key, for : WebRequest \cup {NoRequest}, result : WebResult,
             got : {"none", "seeds", "sources"}, lines : SUBSET Query]

LEMMA WebInitInv == WebInit => WebInv
<1> SUFFICES ASSUME WebInit PROVE WebInv
  OBVIOUS
<1>1. (CHOOSE k \in Key : TRUE) \in Key
  BY WebAssumption
<1>2. WebTypeOK
  BY <1>1, WebAssumption DEF WebInit, WebTypeOK, WebStage, WebResult, WebStatus
<1>3. StoredInTime
  BY WebAssumption DEF WebInit, StoredInTime, NoQuery
<1>4. QED
  BY <1>2, <1>3 DEF WebInv

\* The places before a result is known.
Searching == {"cache", "expand", "search", "widen", "select", "crawl", "wiki", "score",
              "follow", "refine", "refined", "judge", "weigh", "write", "log"}

\* A query that moves, while nothing but the requests changes.
LEMMA QueryMoves ==
  ASSUME WebInv, NEW q \in Query, NEW row \in QueryRow,
         query' = [query EXCEPT ![q] = row],
         log' \subseteq Query, stored' \subseteq Query, stored \subseteq stored',
         raised' \in 0 .. MaxRaise, request' \in [WebRequest -> WebStatus],
         cached' \in [Key -> Query \cup {NoQuery}],
         \A k \in Key : cached'[k] \in {cached[k], NoQuery, q},
         row.result = "ok" => row.at = "stored" \/ q \in stored',
         (\E k \in Key : cached'[k] = q) => row.at \in {"leave", "resolve", "done"},
         row.at \in Searching \cup {"idle"} => row.result = "none"
  PROVE  WebInv'
<1>1. /\ query' \in [Query -> QueryRow]
      /\ query'[q] = row /\ \A p \in Query \ {q} : query'[p] = query[p]
  BY DEF WebInv, WebTypeOK, QueryRow
<1>2. WebTypeOK'
  BY <1>1 DEF WebTypeOK, QueryRow
<1>3. \A p \in Query \ {q}, k \in Key : cached'[k] = p => cached[k] = p
  BY WebAssumption
<1>4. StoredInTime'
  BY <1>1, <1>3 DEF WebInv, StoredInTime, Searching
<1>5. QED
  BY <1>2, <1>4 DEF WebInv

LEMMA WebNextInv == WebInv /\ [WebNext]_webVars => WebInv'
<1> SUFFICES ASSUME WebInv, [WebNext]_webVars PROVE WebInv'
  OBVIOUS
<1>0. /\ query \in [Query -> QueryRow] /\ log \subseteq Query /\ stored \subseteq Query
      /\ cached \in [Key -> Query \cup {NoQuery}] /\ request \in [WebRequest -> WebStatus]
      /\ raised \in 0 .. MaxRaise /\ MaxRaise \in Nat
  BY WebAssumption DEF WebInv, WebTypeOK, QueryRow
<1>b. \A q \in Query : query[q] \in QueryRow
  BY <1>0
<1>v. /\ "cache" \in WebStage /\ "stored" \in WebStage /\ "purge" \in WebStage
      /\ "rewrite" \in WebStage /\ "put" \in WebStage /\ "leave" \in WebStage
      /\ "resolve" \in WebStage /\ "done" \in WebStage
      /\ "ok" \in WebResult /\ "unstored" \in WebResult /\ "failed" \in WebResult
      /\ "hit" \in WebResult
  BY DEF WebStage, WebResult
<1>w. Searching \subseteq WebStage
  BY DEF Searching, WebStage
<1>a. \A q \in Query :
        /\ query[q].result = "ok" => query[q].at = "stored" \/ q \in stored
        /\ (\E k \in Key : cached[k] = q) => query[q].at \in {"leave", "resolve", "done"}
        /\ query[q].at \in Searching \cup {"idle"} => query[q].result = "none"
  BY DEF WebInv, StoredInTime, Searching
<1>1. ASSUME NEW q \in Query, NEW r \in WebRequest \cup {NoRequest}, StartQuery(q, r)
      PROVE  WebInv'
  <2>0. query[q] \in QueryRow
    BY <1>b
  <2>1. PICK k \in Key : query' = [query EXCEPT ![q].at = "cache", ![q].for = r, ![q].key = k]
    BY <1>1 DEF StartQuery
  <2>2. PICK row : /\ row = [query[q] EXCEPT !.at = "cache", !.for = r, !.key = k]
                   /\ query' = [query EXCEPT ![q] = row]
    BY <2>1
  <2>3. row \in QueryRow /\ row.at = "cache" /\ row.result = query[q].result
    BY <2>0, <2>2, <1>v DEF QueryRow
  <2>4. query[q].at = "idle"
    BY <1>1 DEF StartQuery, At
  <2>5. UNCHANGED <<log, stored, cached, request, raised>>
    BY <1>1 DEF StartQuery
  <2>6. QED
    BY <1>0, <1>a, <2>2, <2>3, <2>4, <2>5, QueryMoves DEF Searching
\* A step of the search: the result is not known yet, or it has failed.
<1>2. ASSUME NEW q \in Query, NEW row \in QueryRow, query[q].at \in Searching,
             query' = [query EXCEPT ![q] = row],
             UNCHANGED <<log, stored, request>>, raised' \in 0 .. MaxRaise,
             cached' \in [Key -> Query \cup {NoQuery}],
             \A k \in Key : cached'[k] \in {cached[k], NoQuery},
             \/ row.at \in Searching /\ row.result = query[q].result
             \/ row.at = "leave" /\ row.result \in {"failed", "hit"}
      PROVE  WebInv'
  <2>1. \A k \in Key : cached'[k] # q
    BY <1>2, <1>a, WebAssumption DEF Searching
  <2>2. QED
    BY <1>0, <1>a, <1>2, <2>1, QueryMoves DEF Searching
<1>3. ASSUME NEW q \in Query, NEW l \in Searching, query[q].at \in Searching, To(q, l),
             UNCHANGED <<log, stored, request, raised>>,
             cached' \in [Key -> Query \cup {NoQuery}],
             \A k \in Key : cached'[k] \in {cached[k], NoQuery}
      PROVE  WebInv'
  <2>0. query[q] \in QueryRow /\ l \in WebStage
    BY <1>b, <1>w
  <2>1. PICK row : row = [query[q] EXCEPT !.at = l] /\ query' = [query EXCEPT ![q] = row]
    BY <1>3 DEF To
  <2>2. row \in QueryRow /\ row.at = l /\ row.result = query[q].result
    BY <2>0, <2>1, <1>v DEF QueryRow
  <2>3. QED
    BY <1>0, <1>2, <1>3, <2>1, <2>2
<1>4. ASSUME NEW q \in Query, NEW l \in Searching, NEW things, query[q].at \in Searching,
             things \subseteq {"none", "seeds", "sources"}, Gets(q, l, things),
             UNCHANGED <<log, stored, cached, request, raised>>
      PROVE  WebInv'
  <2>0. query[q] \in QueryRow /\ l \in WebStage
    BY <1>b, <1>w
  <2>1. PICK g \in things : query' = [query EXCEPT ![q].at = l, ![q].got = g]
    BY <1>4 DEF Gets
  <2>2. PICK row : row = [query[q] EXCEPT !.at = l, !.got = g] /\ query' = [query EXCEPT ![q] = row]
    BY <2>1
  <2>3. row \in QueryRow /\ row.at = l /\ row.result = query[q].result
    <3>1. g \in {"none", "seeds", "sources"}
      BY <1>4
    <3>2. QED
      BY <2>0, <2>2, <3>1 DEF QueryRow
  <2>4. QED
    BY <1>0, <1>2, <1>4, <2>2, <2>3
<1>5. ASSUME NEW q \in Query, query[q].at \in Searching, Fail(q),
             UNCHANGED <<log, stored, cached, request, raised>>
      PROVE  WebInv'
  <2>0. query[q] \in QueryRow
    BY <1>b
  <2>1. PICK row : /\ row = [query[q] EXCEPT !.at = "leave", !.result = "failed"]
                   /\ query' = [query EXCEPT ![q] = row]
    BY <1>5 DEF Fail
  <2>2. row \in QueryRow /\ row.at = "leave" /\ row.result = "failed"
    BY <2>0, <2>1, <1>v DEF QueryRow
  <2>3. QED
    BY <1>0, <1>2, <1>5, <2>1, <2>2
<1>6. ASSUME NEW q \in Query, LookUp(q) PROVE WebInv'
  <2>0. query[q] \in QueryRow
    BY <1>b
  <2>1. /\ query[q].at = "cache" /\ UNCHANGED <<log, stored, request, raised>>
        /\ cached' \in [Key -> Query \cup {NoQuery}]
        /\ \A k \in Key : cached'[k] \in {cached[k], NoQuery}
    BY <1>0, <1>6 DEF LookUp, At
  <2>2. ASSUME query' = [query EXCEPT ![q].at = "leave", ![q].result = "hit"] PROVE WebInv'
    <3>1. PICK row : /\ row = [query[q] EXCEPT !.at = "leave", !.result = "hit"]
                     /\ query' = [query EXCEPT ![q] = row]
      BY <2>2
    <3>2. row \in QueryRow /\ row.at = "leave" /\ row.result = "hit"
      BY <2>0, <3>1, <1>v DEF QueryRow
    <3>3. QED
      BY <1>0, <1>2, <2>1, <3>1, <3>2 DEF Searching
  <2>3. ASSUME To(q, "expand") PROVE WebInv'
    BY <1>3, <2>1, <2>3 DEF Searching
  <2>4. QED
    BY <1>6, <2>2, <2>3 DEF LookUp
<1>7. ASSUME NEW q \in Query,
             \/ ExpandQuery(q) \/ NoVariants(q) \/ SelectSeeds(q) \/ NoSeeds(q)
             \/ Crawl(q) \/ FetchArticle(q) \/ RefineQueries(q) \/ DetectConflicts(q)
             \/ NoSources(q) \/ WeighSources(q) \/ WriteSources(q)
      PROVE  WebInv'
  <2>1. query[q].at \in Searching /\ UNCHANGED <<log, stored, cached, request, raised>>
    BY <1>7 DEF ExpandQuery, NoVariants, SelectSeeds, NoSeeds, Crawl, FetchArticle, RefineQueries,
       DetectConflicts, NoSources, WeighSources, WriteSources, At, Searching
  <2>2. Fail(q) \/ \E l \in Searching : To(q, l)
    BY <1>7 DEF ExpandQuery, NoVariants, SelectSeeds, NoSeeds, Crawl, FetchArticle, RefineQueries,
       DetectConflicts, NoSources, WeighSources, WriteSources, Searching
  <2>3. QED
    BY <1>0, <1>3, <1>5, <2>1, <2>2
<1>8. ASSUME NEW q \in Query,
             \/ SearchSeeds(q) \/ WidenSearch(q) \/ ScoreSources(q) \/ FollowUpPass(q)
             \/ RefinedPass(q)
      PROVE  WebInv'
  <2>0. query[q] \in QueryRow
    BY <1>b
  <2>1. query[q].at \in Searching /\ UNCHANGED <<log, stored, cached, request, raised>>
    BY <1>8 DEF SearchSeeds, WidenSearch, ScoreSources, FollowUpPass, RefinedPass, At, Searching
  <2>2. query[q].got \in {"none", "seeds", "sources"}
    BY <2>0 DEF QueryRow
  <2>3. \/ \E l \in Searching : To(q, l)
        \/ \E l \in Searching, things \in SUBSET {"none", "seeds", "sources"} : Gets(q, l, things)
    BY <1>8, <2>2 DEF SearchSeeds, WidenSearch, ScoreSources, FollowUpPass, RefinedPass, Searching
  <2>4. QED
    BY <1>0, <1>3, <1>4, <2>1, <2>3
<1>9. ASSUME NEW q \in Query, AppendLog(q) PROVE WebInv'
  <2>0. query[q] \in QueryRow
    BY <1>b
  <2>1. PICK row : /\ row = [query[q] EXCEPT !.at = "stored", !.result = "ok"]
                   /\ query' = [query EXCEPT ![q] = row]
    BY <1>9 DEF AppendLog
  <2>2. row \in QueryRow /\ row.at = "stored"
    BY <2>0, <2>1, <1>v DEF QueryRow
  <2>3. query[q].at = "log" /\ log' = log \cup {q} /\ UNCHANGED <<stored, cached, request, raised>>
    BY <1>9 DEF AppendLog, At
  <2>4. QED
    BY <1>0, <1>a, <2>1, <2>2, <2>3, QueryMoves DEF Searching
<1>10. ASSUME NEW q \in Query, StoreChunks(q) PROVE WebInv'
  <2>0. query[q] \in QueryRow
    BY <1>b
  <2>1. query[q].at = "stored" /\ UNCHANGED <<log, cached, request>>
    BY <1>10 DEF StoreChunks, At
  <2>2. \A k \in Key : cached[k] # q
    BY <1>a, <2>1
  <2>3. ASSUME stored' = stored \cup {q}, To(q, "purge"), raised' = raised PROVE WebInv'
    <3>1. PICK row : row = [query[q] EXCEPT !.at = "purge"] /\ query' = [query EXCEPT ![q] = row]
      BY <2>3 DEF To
    <3>2. row \in QueryRow /\ row.at = "purge"
      BY <2>0, <3>1, <1>v DEF QueryRow
    <3>3. QED
      BY <1>0, <2>1, <2>2, <2>3, <3>1, <3>2, QueryMoves DEF Searching
  <2>4. ASSUME query' = [query EXCEPT ![q].at = "purge", ![q].result = "unstored"],
               raised < MaxRaise, raised' = raised + 1, stored' = stored
        PROVE  WebInv'
    <3>1. PICK row : /\ row = [query[q] EXCEPT !.at = "purge", !.result = "unstored"]
                     /\ query' = [query EXCEPT ![q] = row]
      BY <2>4
    <3>2. row \in QueryRow /\ row.at = "purge" /\ row.result = "unstored"
      BY <2>0, <3>1, <1>v DEF QueryRow
    <3>3. raised' \in 0 .. MaxRaise
      BY <1>0, <2>4
    <3>4. QED
      <4>1. log' \subseteq Query /\ stored' \subseteq Query /\ stored \subseteq stored'
        BY <1>0, <2>1, <2>4
      <4>2. /\ request' \in [WebRequest -> WebStatus]
            /\ cached' \in [Key -> Query \cup {NoQuery}]
            /\ \A k \in Key : cached'[k] = cached[k] /\ cached'[k] # q
        BY <1>0, <2>1, <2>2
      <4>3. QED
        BY <3>1, <3>2, <3>3, <4>1, <4>2, QueryMoves DEF Searching
  <2>5. QED
    BY <1>10, <2>3, <2>4 DEF StoreChunks
\* A step after the chunks: the result stands, and so do the chunks.
<1>11. ASSUME NEW q \in Query, NEW row \in QueryRow,
              query[q].at \in {"purge", "rewrite", "put", "leave", "resolve"},
              row.at \in {"rewrite", "put", "leave", "resolve", "done"},
              row.result = query[q].result, query' = [query EXCEPT ![q] = row],
              log' \subseteq Query, stored' = stored, raised' = raised,
              request' \in [WebRequest -> WebStatus], cached' \in [Key -> Query \cup {NoQuery}],
              \A k \in Key : cached'[k] \in {cached[k], q},
              (\E k \in Key : cached'[k] = q) => row.at \in {"leave", "resolve", "done"}
       PROVE  WebInv'
  BY <1>0, <1>a, <1>11, QueryMoves DEF Searching
<1>12. ASSUME NEW q \in Query, ReadLog(q) \/ RewriteLog(q) PROVE WebInv'
  <2>0. query[q] \in QueryRow
    BY <1>b
  <2>1. PICK row : /\ \/ row = [query[q] EXCEPT !.at = "rewrite", !.lines = log]
                      \/ row = [query[q] EXCEPT !.at = "put", !.lines = {}]
                   /\ query' = [query EXCEPT ![q] = row]
    BY <1>12 DEF ReadLog, RewriteLog
  <2>2. row \in QueryRow /\ row.at \in {"rewrite", "put"} /\ row.result = query[q].result
    <3>1. log \in SUBSET Query /\ {} \in SUBSET Query
      BY <1>0
    <3>2. CASE row = [query[q] EXCEPT !.at = "rewrite", !.lines = log]
      BY <2>0, <1>v, <3>1, <3>2 DEF QueryRow
    <3>3. CASE row = [query[q] EXCEPT !.at = "put", !.lines = {}]
      BY <2>0, <1>v, <3>1, <3>3 DEF QueryRow
    <3>4. QED
      BY <2>1, <3>2, <3>3
  <2>3. /\ query[q].at \in {"purge", "rewrite"} /\ log' \subseteq Query
        /\ UNCHANGED <<stored, cached, request, raised>>
    <3>1. query[q].lines \subseteq Query
      BY <2>0 DEF QueryRow
    <3>2. QED
      BY <1>0, <1>12, <3>1 DEF ReadLog, RewriteLog, At
  <2>4. \A k \in Key : cached[k] # q
    BY <1>a, <2>3
  <2>5. QED
    BY <1>0, <1>11, <2>1, <2>2, <2>3, <2>4
<1>13. ASSUME NEW q \in Query, PutAnswer(q) \/ LeaveQuery(q) \/ Resolve(q) PROVE WebInv'
  <2>0. query[q] \in QueryRow
    BY <1>b
  <2>1. PICK l \in {"leave", "resolve", "done"} : To(q, l)
    BY <1>13 DEF PutAnswer, LeaveQuery, Resolve
  <2>2. PICK row : row = [query[q] EXCEPT !.at = l] /\ query' = [query EXCEPT ![q] = row]
    BY <2>1 DEF To
  <2>3. row \in QueryRow /\ row.at = l /\ row.result = query[q].result
    BY <2>0, <2>1, <2>2, <1>v DEF QueryRow
  <2>4. /\ query[q].at \in {"put", "leave", "resolve"} /\ log' = log /\ stored' = stored
        /\ raised' = raised
    BY <1>13 DEF PutAnswer, LeaveQuery, Resolve, At
  <2>5. /\ cached' \in [Key -> Query \cup {NoQuery}]
        /\ \A k \in Key : cached'[k] \in {cached[k], q}
    BY <1>0, <1>13 DEF PutAnswer, LeaveQuery, Resolve
  <2>6. request' \in [WebRequest -> WebStatus]
    BY <1>0, <1>13 DEF PutAnswer, LeaveQuery, Resolve, WebStatus
  <2>7. QED
    BY <1>0, <1>11, <2>1, <2>2, <2>3, <2>4, <2>5, <2>6
<1>14. ASSUME NEW q \in Query, WebRaise(q) PROVE WebInv'
  <2>0. query[q] \in QueryRow
    BY <1>b
  <2>1. PICK row : /\ row = [query[q] EXCEPT !.at = "leave", !.for = NoRequest,
                               !.result = "failed"]
                   /\ query' = [query EXCEPT ![q] = row]
    BY <1>14 DEF WebRaise
  <2>2. row \in QueryRow /\ row.at = "leave" /\ row.result = "failed"
    BY <2>0, <2>1, <1>v DEF QueryRow
  <2>3. /\ query[q].at \in Searching /\ UNCHANGED <<log, stored, cached, request>>
        /\ raised' \in 0 .. MaxRaise
    BY <1>0, <1>14 DEF WebRaise, Searching
  <2>4. QED
    BY <1>0, <1>2, <2>1, <2>2, <2>3
<1>15. ASSUME UNCHANGED <<query, log, stored, cached, raised>>,
              request' \in [WebRequest -> WebStatus]
       PROVE  WebInv'
  BY <1>15 DEF WebInv, WebTypeOK, StoredInTime
<1>16. ASSUME NEW r \in WebRequest, CreatePending(r) \/ \E status \in WebStatus : DecidePending(r, status)
       PROVE  WebInv'
  BY <1>0, <1>15, <1>16 DEF CreatePending, DecidePending, WebStatus
<1>17. CASE UNCHANGED webVars
  BY <1>0, <1>15, <1>17 DEF webVars
<1>18. QED
  BY <1>1, <1>6, <1>7, <1>8, <1>9, <1>10, <1>12, <1>13, <1>14, <1>16, <1>17
     DEF WebNext, WebStep

\* The sources of each answer stay readable, for any queries, keys and purges
\* (_append_source_log, _store_web_chunks, _purge_old_source_log).
THEOREM SourcesStay == WebSpec => []AnswerStaysReadable
<1>1. WebInv => AnswerStaysReadable
  BY DEF WebInv, StoredInTime, AnswerStaysReadable, At
<1>2. QED
  BY <1>1, WebInitInv, WebNextInv, PTL DEF WebSpec

-----------------------------------------------------------------------------

\* A call with a service and the services before it in its order.
Before(what, s) ==
  CASE s = "ended" -> Recourse(what)
    [] s = "html" /\ what = "auto" -> {"searxng"}
    [] s = "api" /\ what = "auto" -> {"searxng", "html"}
    [] s \in {"crawler", "site"} /\ what = "thread" -> {"reddit"}
    [] OTHER -> {}

\* A call that has gone past a service without finding anything was not answered there,
\* but for the crawler, which the call may leave out.
CallFits(c) ==
  LET f == fetching[c]
  IN  /\ f.at \in Recourse(f.asks) \cup {"ended"}
      /\ f.at \in Backed \cup {"site"} => f.found = {}
      /\ f.found = {} => Before(f.asks, f.at) \ {"crawler"} \subseteq silent[c] \cup spared[c]
      /\ f.at = "ended" /\ f.found = {} /\ f.asks \in Pages => "site" \in silent[c]

FetchInv ==
  /\ fetching \in [Call -> [at : WebService \cup {"idle", "ended"}, asks : Asked,
                        left : Int, found : SUBSET WebService]]
  /\ silent \in [Call -> SUBSET WebService] /\ spared \in [Call -> SUBSET WebService]
  /\ \A c \in Call : fetching[c].at # "idle" => CallFits(c)

LEMMA FetchInitInv == FetchInit => FetchInv
<1> SUFFICES ASSUME FetchInit PROVE FetchInv
  OBVIOUS
<1>1. NoCall \in [at : WebService \cup {"idle", "ended"}, asks : Asked, left : Int,
                  found : SUBSET WebService] /\ NoCall.at = "idle"
  BY DEF NoCall, Asked, SearchProvider, WebService, Backed
<1>2. QED
  BY <1>1 DEF FetchInit, FetchInv

\* A step of call c: what it has asked in vain or left alone is its own.
OwnStep(c) ==
  /\ silent' \in [Call -> SUBSET WebService] /\ spared' \in [Call -> SUBSET WebService]
  /\ \A b \in Call \ {c} : silent'[b] = silent[b] /\ spared'[b] = spared[b]

LEMMA OneCall ==
  ASSUME FetchInv, NEW c \in Call, NEW f,
         f \in [at : WebService \cup {"idle", "ended"}, asks : Asked, left : Int,
                found : SUBSET WebService],
         fetching' = [fetching EXCEPT ![c] = f], OwnStep(c),
         f.at # "idle" =>
           /\ f.at \in Recourse(f.asks) \cup {"ended"}
           /\ f.at \in Backed \cup {"site"} => f.found = {}
           /\ f.found = {} =>
                Before(f.asks, f.at) \ {"crawler"} \subseteq silent'[c] \cup spared'[c]
           /\ f.at = "ended" /\ f.found = {} /\ f.asks \in Pages => "site" \in silent'[c]
  PROVE  FetchInv'
<1>1. /\ fetching' \in [Call -> [at : WebService \cup {"idle", "ended"}, asks : Asked,
                                 left : Int, found : SUBSET WebService]]
      /\ fetching'[c] = f /\ \A b \in Call \ {c} : fetching'[b] = fetching[b]
  BY DEF FetchInv
<1>2. ASSUME NEW b \in Call, fetching'[b].at # "idle" PROVE CallFits(b)'
  <2>1. CASE b = c
    BY <1>1, <1>2, <2>1 DEF CallFits
  <2>2. CASE b # c
    BY <1>1, <1>2, <2>2 DEF FetchInv, CallFits, OwnStep
  <2>3. QED
    BY <2>1, <2>2
<1>3. QED
  BY <1>1, <1>2 DEF FetchInv, OwnStep

\* The order of the services.
LEMMA Orders ==
  /\ Recourse("auto") = {"searxng", "html", "api"}
  /\ \A w \in {"searxng", "html", "api"} : Recourse(w) = {w}
  /\ Recourse("threads") = {"reddit"}
  /\ Recourse("thread") = {"reddit", "crawler", "site"}
  /\ Recourse("page") = {"crawler", "site"}
  /\ \A w \in Asked : "crawler" \in Recourse(w) => w \in Pages
  /\ \A w \in Asked : "site" \in Recourse(w) => w \in Pages
  /\ \A w \in Asked, s \in {"searxng", "html", "api"} : s \in Recourse(w) => w = "auto" \/ w = s
  /\ \A w \in Asked : "reddit" \in Recourse(w) => w \in {"threads", "thread"}
  BY DEF Recourse, Asked, SearchProvider, Pages

\* A call that is at a service.
LEMMA AtService ==
  ASSUME FetchInv, NEW c \in Call, NEW s \in WebService, fetching[c].at = s
  PROVE  /\ fetching[c].asks \in Asked /\ s \in Recourse(fetching[c].asks)
         /\ fetching[c].found \in SUBSET WebService /\ fetching[c].left \in Int
         /\ silent[c] \in SUBSET WebService /\ spared[c] \in SUBSET WebService
         /\ s \in Backed \cup {"site"} => fetching[c].found = {}
         /\ fetching[c].found = {} =>
              Before(fetching[c].asks, s) \ {"crawler"} \subseteq silent[c] \cup spared[c]
  BY DEF FetchInv, CallFits, WebService, Backed

\* The call goes on to a service, or to its end.
Moves(c, to, found) ==
  \E n \in Int : fetching' = [fetching EXCEPT ![c].at = to, ![c].left = n, ![c].found = found]

LEMMA EndsOrTurns ==
  ASSUME NEW c \in Call, NEW found
  PROVE  /\ EndCall(c, found) => Moves(c, "ended", found)
         /\ \A s \in WebService : TurnTo(c, s, found) => Moves(c, s, found)
<1>1. ASSUME EndCall(c, found) PROVE Moves(c, "ended", found)
  <2>1. fetching' = [fetching EXCEPT ![c].at = "ended", ![c].left = 0, ![c].found = found]
    BY <1>1 DEF EndCall
  <2> SUFFICES \E n \in Int :
        fetching' = [fetching EXCEPT ![c].at = "ended", ![c].left = n, ![c].found = found]
    BY DEF Moves
  <2> WITNESS 0 \in Int
  <2>2. QED
    BY <2>1
<1>2. ASSUME NEW s \in WebService, TurnTo(c, s, found) PROVE Moves(c, s, found)
  <2>1. Attempts(s) \in Int
    BY FetchAssumption DEF FetchAssumption, Attempts
  <2>2. QED
    BY <1>2, <2>1 DEF TurnTo, Moves
<1>3. QED
  BY <1>1, <1>2

\* It does so with s among those that did not answer, or with something found.
LEMMA MovesOn ==
  ASSUME FetchInv, NEW c \in Call, NEW s \in WebService, fetching[c].at = s,
         NEW to, to = "ended" \/ to \in Recourse(fetching[c].asks),
         NEW found \in SUBSET WebService, to \in Backed \cup {"site"} => found = {},
         Moves(c, to, found), OwnStep(c),
         silent[c] \subseteq silent'[c], spared[c] \subseteq spared'[c],
         found = {} => /\ fetching[c].found = {}
                       /\ s \in silent'[c] \cup spared'[c]
                       /\ Before(fetching[c].asks, to) \ {"crawler"}
                            \subseteq Before(fetching[c].asks, s) \cup {s}
                       /\ to = "ended" /\ fetching[c].asks \in Pages => "site" \in silent'[c]
  PROVE  FetchInv'
<1>1. PICK n \in Int :
        fetching' = [fetching EXCEPT ![c].at = to, ![c].left = n, ![c].found = found]
  BY DEF Moves
<1> DEFINE f == [fetching[c] EXCEPT !.at = to, !.left = n, !.found = found]
<1>2. fetching[c] \in [at : WebService \cup {"idle", "ended"}, asks : Asked, left : Int,
                       found : SUBSET WebService]
  BY DEF FetchInv
<1>3. to \in WebService \cup {"idle", "ended"} /\ to # "idle"
  BY AtService, Orders DEF WebService, Backed, Asked, SearchProvider
<1>4. /\ f \in [at : WebService \cup {"idle", "ended"}, asks : Asked, left : Int,
                found : SUBSET WebService]
      /\ f.at = to /\ f.asks = fetching[c].asks /\ f.found = found
  BY <1>2, <1>3
<1>5. fetching' = [fetching EXCEPT ![c] = f]
  BY <1>1, <1>2 DEF FetchInv
<1> HIDE DEF f
<1>6. f.found = {} => Before(f.asks, f.at) \ {"crawler"} \subseteq silent'[c] \cup spared'[c]
  BY <1>4, AtService
<1>7. QED
  BY <1>4, <1>5, <1>6, OneCall

\* Another attempt at the same service.
LEMMA TriesAgain ==
  ASSUME FetchInv, NEW c \in Call, NEW s \in WebService, fetching[c].at = s, FailsOnce(c, s)
  PROVE  FetchInv'
<1> DEFINE f == [fetching[c] EXCEPT !.left = fetching[c].left - 1]
<1>1. /\ fetching[c] \in [at : WebService \cup {"idle", "ended"}, asks : Asked, left : Int,
                          found : SUBSET WebService]
      /\ fetching' = [fetching EXCEPT ![c] = f]
      /\ OwnStep(c) /\ silent[c] \subseteq silent'[c] /\ spared'[c] = spared[c]
  BY DEF FetchInv, FailsOnce, Silent, OwnStep
<1>2. /\ f \in [at : WebService \cup {"idle", "ended"}, asks : Asked, left : Int,
                found : SUBSET WebService]
      /\ f.at = s /\ f.asks = fetching[c].asks /\ f.found = fetching[c].found
  BY <1>1
<1>3. s # "ended" /\ s # "idle"
  BY DEF WebService, Backed
<1> HIDE DEF f
<1>4. QED
  BY <1>1, <1>2, <1>3, AtService, OneCall

\* A service gave nothing: it was left alone or it failed.
Passes(c, s) ==
  \/ Skips(c, s) /\ UNCHANGED silent
  \/ Silent(c, s) /\ UNCHANGED spared

LEMMA Missed ==
  ASSUME FetchInv, NEW c \in Call, NEW s \in WebService, fetching[c].at = s, Passes(c, s),
         NEW to, to = "ended" \/ to \in Recourse(fetching[c].asks),
         NEW found \in SUBSET WebService, to \in Backed \cup {"site"} => found = {},
         Moves(c, to, found), fetching[c].found \subseteq found,
         Before(fetching[c].asks, to) \ {"crawler"} \subseteq Before(fetching[c].asks, s) \cup {s},
         to = "ended" /\ fetching[c].asks \in Pages => s = "site" /\ Silent(c, s)
  PROVE  FetchInv'
<1>1. /\ OwnStep(c) /\ silent[c] \subseteq silent'[c] /\ spared[c] \subseteq spared'[c]
      /\ s \in silent'[c] \cup spared'[c] /\ (Silent(c, s) => s \in silent'[c])
  BY DEF FetchInv, Passes, Skips, Silent, OwnStep
<1>2. found = {} => /\ fetching[c].found = {}
                    /\ s \in silent'[c] \cup spared'[c]
                    /\ Before(fetching[c].asks, to) \ {"crawler"}
                         \subseteq Before(fetching[c].asks, s) \cup {s}
                    /\ to = "ended" /\ fetching[c].asks \in Pages => "site" \in silent'[c]
  BY <1>1
<1>3. QED
  BY <1>1, <1>2, MovesOn

\* A service answered.
LEMMA RowsReturned ==
  ASSUME FetchInv, NEW c \in Call, NEW s \in WebService, fetching[c].at = s, Quiet,
         NEW to, to = "ended" \/ to \in Recourse(fetching[c].asks),
         NEW found \in SUBSET WebService, to \notin Backed \cup {"site"}, found # {},
         Moves(c, to, found)
  PROVE  FetchInv'
<1>1. OwnStep(c) /\ silent'[c] = silent[c] /\ spared'[c] = spared[c]
  BY DEF FetchInv, Quiet, OwnStep
<1>2. QED
  BY <1>1, MovesOn

\* The three engines: one that ends the call or turns to the next engine.
LEMMA EngineMoves ==
  ASSUME FetchInv, NEW c \in Call, NEW s \in {"searxng", "html", "api"},
         fetching[c].at = s, NEW found \in SUBSET WebService, NextEngine(c, s, found),
         \/ Quiet /\ found # {}
         \/ Passes(c, s) /\ fetching[c].found \subseteq found
  PROVE  FetchInv'
<1>1. s \in WebService
  BY DEF WebService, Backed
<1>2. /\ fetching[c].asks \in Asked /\ s \in Recourse(fetching[c].asks)
      /\ fetching[c].asks = "auto" \/ fetching[c].asks = s
  BY <1>1, AtService, Orders
<1>3. fetching[c].asks \notin Pages
  BY <1>2 DEF Pages
<1>4. \E to \in {"ended", "html", "api"} :
        /\ to = "ended" \/ to \in Recourse(fetching[c].asks)
        /\ Moves(c, to, found)
        /\ Before(fetching[c].asks, to) \subseteq Before(fetching[c].asks, s) \cup {s}
  <2>1. CASE fetching[c].asks # "auto"
    <3>1. Moves(c, "ended", found) /\ fetching[c].asks = s
      BY <1>2, <2>1, EndsOrTurns DEF NextEngine
    <3>2. Before(fetching[c].asks, "ended") \subseteq {s}
      BY <3>1, Orders DEF Before
    <3>3. QED
      BY <3>1, <3>2
  <2>2. CASE fetching[c].asks = "auto" /\ s = "api"
    <3>1. Moves(c, "ended", found)
      BY <2>2, EndsOrTurns DEF NextEngine
    <3>2. Before("auto", "ended") \subseteq Before("auto", "api") \cup {"api"}
      BY Orders DEF Before
    <3>3. QED
      BY <2>2, <3>1, <3>2
  <2>3. CASE fetching[c].asks = "auto" /\ s # "api"
    <3> DEFINE to == IF s = "searxng" THEN "html" ELSE "api"
    <3>1. Moves(c, to, found)
      BY <2>3, EndsOrTurns DEF NextEngine, WebService
    <3>2. Before("auto", to) \subseteq Before("auto", s) \cup {s} /\ to \in Recourse("auto")
      BY <2>3, Orders DEF Before
    <3>3. to \in {"html", "api"}
      OBVIOUS
    <3> HIDE DEF to
    <3>4. QED
      BY <2>3, <3>1, <3>2, <3>3
  <2>4. QED
    BY <2>1, <2>2, <2>3
<1>5. PICK to \in {"ended", "html", "api"} :
        /\ to = "ended" \/ to \in Recourse(fetching[c].asks)
        /\ Moves(c, to, found)
        /\ Before(fetching[c].asks, to) \subseteq Before(fetching[c].asks, s) \cup {s}
  BY <1>4
<1>6. to \notin Backed \cup {"site"}
  BY DEF Backed
<1>7. CASE Quiet /\ found # {}
  BY <1>1, <1>5, <1>6, <1>7, RowsReturned
<1>8. CASE Passes(c, s) /\ fetching[c].found \subseteq found
  BY <1>1, <1>3, <1>5, <1>6, <1>8, Missed
<1>9. QED
  BY <1>7, <1>8

LEMMA ThreeNotOne ==
  ASSUME NEW x, NEW y, NEW z, x # y
  PROVE  Cardinality({x, y, z}) # 1
<1>1. IsFiniteSet({x})
  BY FS_Singleton
<1>2. IsFiniteSet({x} \cup {y})
  BY <1>1, FS_AddElement
<1>3. IsFiniteSet(({x} \cup {y}) \cup {z})
  BY <1>2, FS_AddElement
<1>4. ({x} \cup {y}) \cup {z} = {x, y, z}
  OBVIOUS
<1>5. QED
  BY <1>3, <1>4, FS_Singleton

LEMMA FetchNextInv == FetchInv /\ [FetchNext]_fetchVars => FetchInv'
<1> SUFFICES ASSUME FetchInv, [FetchNext]_fetchVars PROVE FetchInv'
  OBVIOUS
<1>1. ASSUME NEW c \in Call, NEW what \in Asked, NEW first \in WebService,
             BeginCall(c, what, first)
      PROVE  FetchInv'
  <2> DEFINE f == [at |-> first, asks |-> what, left |-> Attempts(first), found |-> {}]
  <2>1. /\ fetching' = [fetching EXCEPT ![c] = f] /\ first \in Recourse(what)
        /\ OwnStep(c)
    BY <1>1 DEF BeginCall, FetchInv, OwnStep
  <2>2. Before(what, first) \ {"crawler"} = {}
    <3>1. Cardinality(Recourse("auto")) # 1 /\ Cardinality(Recourse("thread")) # 1
      <4>1. Cardinality({"searxng", "html", "api"}) # 1
        BY ThreeNotOne, "searxng" # "html"
      <4>2. Cardinality({"reddit", "crawler", "site"}) # 1
        BY ThreeNotOne, "reddit" # "crawler"
      <4>3. QED
        BY <4>1, <4>2, Orders
    <3>2. what = "auto" => first = "searxng"
      BY <1>1, <3>1 DEF BeginCall
    <3>3. what = "thread" => first = "reddit"
      BY <1>1, <3>1 DEF BeginCall
    <3>4. QED
      BY <3>2, <3>3 DEF Before, WebService, Backed
  <2>3. /\ f \in [at : WebService \cup {"idle", "ended"}, asks : Asked, left : Int,
                  found : SUBSET WebService]
        /\ f.at = first /\ f.asks = what /\ f.found = {} /\ first # "ended"
    BY FetchAssumption DEF FetchAssumption, Attempts, WebService, Backed
  <2> HIDE DEF f
  <2>4. QED
    BY <2>1, <2>2, <2>3, OneCall
<1>2. ASSUME NEW c \in Call, NEW s \in WebService, fetching[c].at = s, LeavesAlone(c, s)
      PROVE  Passes(c, s)
  BY <1>2 DEF LeavesAlone, Passes
<1>3. ASSUME NEW c \in Call, NEW s \in WebService, GivesUp(c, s)
      PROVE  Passes(c, s)
  BY <1>3 DEF GivesUp, Passes
<1>4. ASSUME NEW c \in Call, TrySearxng(c) PROVE FetchInv'
  <2>1. /\ fetching[c].at = "searxng" /\ "searxng" \in WebService
        /\ fetching[c].found = {} /\ {"searxng"} \in SUBSET WebService
    BY <1>4, AtService DEF TrySearxng, Trying, WebService, Backed
  <2>2. CASE LeavesAlone(c, "searxng") /\ NextEngine(c, "searxng", {})
    BY <1>2, <2>1, <2>2, EngineMoves
  <2>3. CASE NextEngine(c, "searxng", {"searxng"}) /\ Quiet
    BY <2>1, <2>3, EngineMoves
  <2>4. CASE GivesUp(c, "searxng") /\ NextEngine(c, "searxng", {})
    BY <1>3, <2>1, <2>4, EngineMoves
  <2>5. QED
    BY <1>4, <2>1, <2>2, <2>3, <2>4, TriesAgain DEF TrySearxng
<1>5. ASSUME NEW c \in Call, TryHtml(c) PROVE FetchInv'
  <2>1. /\ fetching[c].at = "html" /\ "html" \in WebService
        /\ fetching[c].found \in SUBSET WebService
        /\ fetching[c].found \cup {"html"} \in SUBSET WebService
    BY <1>5, AtService DEF TryHtml, Trying, WebService, Backed
  <2>2. CASE NextEngine(c, "html", fetching[c].found \cup {"html"}) /\ Quiet
    BY <2>1, <2>2, EngineMoves
  <2>3. CASE GivesUp(c, "html") /\ NextEngine(c, "html", fetching[c].found)
    BY <1>3, <2>1, <2>3, EngineMoves
  <2>4. QED
    BY <1>5, <2>1, <2>2, <2>3, TriesAgain DEF TryHtml
<1>6. ASSUME NEW c \in Call, TryApi(c) PROVE FetchInv'
  <2>1. /\ fetching[c].at = "api" /\ "api" \in WebService
        /\ fetching[c].found \in SUBSET WebService
        /\ fetching[c].found \cup {"api"} \in SUBSET WebService
    BY <1>6, AtService DEF TryApi, Trying, WebService, Backed
  <2>2. CASE NextEngine(c, "api", fetching[c].found \cup {"api"}) /\ Quiet
    BY <2>1, <2>2, EngineMoves
  <2>3. CASE GivesUp(c, "api") /\ NextEngine(c, "api", fetching[c].found)
    BY <1>3, <2>1, <2>3, EngineMoves
  <2>4. QED
    BY <1>6, <2>1, <2>2, <2>3, TriesAgain DEF TryApi
<1>7. ASSUME NEW c \in Call, SearchThreads(c) PROVE FetchInv'
  <2>1. /\ fetching[c].at = "reddit" /\ "reddit" \in WebService /\ fetching[c].found = {}
        /\ fetching[c].asks = "threads" /\ fetching[c].asks \notin Pages
    BY <1>7, AtService DEF SearchThreads, Trying, WebService, Backed, Pages
  <2>2. Before("threads", "ended") \subseteq {"reddit"} /\ "ended" \notin Backed \cup {"site"}
    BY Orders DEF Before, Backed
  <2>3. ASSUME EndCall(c, {}), Passes(c, "reddit") PROVE FetchInv'
    <3>1. Moves(c, "ended", {})
      BY <2>3, EndsOrTurns
    <3>2. QED
      BY <2>1, <2>2, <2>3, <3>1, Missed
  <2>4. ASSUME EndCall(c, {"reddit"}), Quiet PROVE FetchInv'
    <3>1. Moves(c, "ended", {"reddit"})
          /\ {"reddit"} \in SUBSET WebService
      BY <2>1, <2>4, EndsOrTurns
    <3>2. QED
      BY <2>1, <2>2, <2>4, <3>1, RowsReturned
  <2>5. Silent(c, "reddit") /\ UNCHANGED spared => Passes(c, "reddit")
    BY DEF Passes
  <2>6. QED
    BY <1>2, <1>3, <1>7, <2>1, <2>3, <2>4, <2>5 DEF SearchThreads
<1>8. ASSUME NEW c \in Call, FetchThread(c) PROVE FetchInv'
  <2>1. /\ fetching[c].at = "reddit" /\ "reddit" \in WebService /\ fetching[c].found = {}
        /\ fetching[c].asks = "thread"
    BY <1>8, AtService DEF FetchThread, Trying, WebService, Backed
  <2>2. ASSUME EndCall(c, {"reddit"}), Quiet PROVE FetchInv'
    <3>1. Moves(c, "ended", {"reddit"})
          /\ {"reddit"} \in SUBSET WebService /\ "ended" \notin Backed \cup {"site"}
      BY <2>1, <2>2, EndsOrTurns DEF Backed
    <3>2. QED
      BY <2>1, <2>2, <3>1, RowsReturned
  <2>3. ASSUME NEW s \in {"crawler", "site"}, TurnTo(c, s, {}), Passes(c, "reddit")
        PROVE  FetchInv'
    <3>1. Moves(c, s, {})
      BY <2>3, EndsOrTurns DEF WebService, Backed
    <3>2. /\ s \in Recourse(fetching[c].asks) /\ s # "ended"
          /\ Before(fetching[c].asks, s) \subseteq {"reddit"}
      BY <2>1, Orders DEF Before
    <3>3. QED
      BY <2>1, <2>3, <3>1, <3>2, Missed
  <2>4. CASE "reddit" \notin backoff /\ EndCall(c, {"reddit"}) /\ Quiet
    BY <2>2, <2>4
  <2>5. CASE /\ \/ LeavesAlone(c, "reddit")
                \/ "reddit" \notin backoff /\ GivesUp(c, "reddit")
                \/ "reddit" \notin backoff /\ Silent(c, "reddit") /\ UNCHANGED <<backoff, spared>>
             /\ \E s \in {"crawler", "site"} : TurnTo(c, s, {})
    <3>1. Passes(c, "reddit")
      BY <1>2, <1>3, <2>1, <2>5 DEF Passes
    <3>2. QED
      BY <2>3, <2>5, <3>1
  <2>6. QED
    BY <1>8, <2>4, <2>5 DEF FetchThread
<1>9. ASSUME NEW c \in Call, FetchByCrawler(c) PROVE FetchInv'
  <2>1. /\ fetching[c].at = "crawler" /\ "crawler" \in WebService /\ fetching[c].found = {}
        /\ fetching[c].asks \in {"thread", "page"}
    BY <1>9, AtService, Orders DEF FetchByCrawler, Trying, WebService, Backed, Pages
  <2>2. ASSUME EndCall(c, {"crawler"}), Quiet PROVE FetchInv'
    <3>1. Moves(c, "ended", {"crawler"})
          /\ {"crawler"} \in SUBSET WebService /\ "ended" \notin Backed \cup {"site"}
      BY <2>1, <2>2, EndsOrTurns DEF Backed
    <3>2. QED
      BY <2>1, <2>2, <3>1, RowsReturned
  <2>3. ASSUME TurnTo(c, "site", {}), Passes(c, "crawler") PROVE FetchInv'
    <3>1. Moves(c, "site", {})
      BY <2>3, EndsOrTurns DEF WebService, Backed
    <3>2. /\ "site" \in Recourse(fetching[c].asks)
          /\ Before(fetching[c].asks, "site") \subseteq Before(fetching[c].asks, "crawler")
      BY <2>1, Orders DEF Before
    <3>3. QED
      BY <2>1, <2>3, <3>1, <3>2, Missed
  <2>4. LeavesAlone(c, "crawler") => Passes(c, "crawler")
    BY <1>2, <2>1
  <2>5. Silent(c, "crawler") /\ UNCHANGED spared => Passes(c, "crawler")
    BY DEF Passes
  <2>6. QED
    BY <1>9, <2>1, <2>2, <2>3, <2>4, <2>5, TriesAgain DEF FetchByCrawler
<1>10. ASSUME NEW c \in Call, FetchSite(c) PROVE FetchInv'
  <2>1. /\ fetching[c].at = "site" /\ "site" \in WebService /\ fetching[c].found = {}
        /\ fetching[c].asks \in {"thread", "page"} /\ "ended" \notin Backed \cup {"site"}
    BY <1>10, AtService, Orders DEF FetchSite, Trying, WebService, Backed, Pages
  <2>2. ASSUME EndCall(c, {"site"}), Quiet PROVE FetchInv'
    <3>1. Moves(c, "ended", {"site"})
          /\ {"site"} \in SUBSET WebService
      BY <2>1, <2>2, EndsOrTurns
    <3>2. QED
      BY <2>1, <2>2, <3>1, RowsReturned
  <2>3. ASSUME EndCall(c, {}), GivesUp(c, "site") PROVE FetchInv'
    <3>1. Moves(c, "ended", {})
      BY <2>3, EndsOrTurns
    <3>2. Before(fetching[c].asks, "ended") \ {"crawler"}
            \subseteq Before(fetching[c].asks, "site") \cup {"site"}
      BY <2>1, Orders DEF Before
    <3>3. Passes(c, "site") /\ Silent(c, "site")
      BY <2>3, <2>1, <1>3 DEF GivesUp
    <3>4. QED
      BY <2>1, <3>1, <3>2, <3>3, Missed
  <2>4. QED
    BY <1>10, <2>1, <2>2, <2>3, TriesAgain DEF FetchSite
<1>11. ASSUME NEW c \in Call, ReturnCall(c) PROVE FetchInv'
  <2>1. /\ NoCall \in [at : WebService \cup {"idle", "ended"}, asks : Asked, left : Int,
                       found : SUBSET WebService] /\ NoCall.at = "idle"
    BY DEF NoCall, Asked, SearchProvider
  <2>2. fetching' = [fetching EXCEPT ![c] = NoCall] /\ OwnStep(c)
    BY <1>11 DEF ReturnCall, FetchInv, OwnStep
  <2>3. QED
    BY <2>1, <2>2, OneCall
<1>12. ASSUME NEW s \in Backed, BackoffEnds(s) PROVE FetchInv'
  BY <1>12 DEF BackoffEnds, FetchInv, CallFits
<1>13. CASE UNCHANGED fetchVars
  BY <1>13 DEF fetchVars, FetchInv, CallFits
<1>14. QED
  BY <1>1, <1>4, <1>5, <1>6, <1>7, <1>8, <1>9, <1>10, <1>11, <1>12, <1>13 DEF FetchNext

\* A call comes back with nothing only when nobody answered, for any number of threads
\* that share the times at which services are left alone.
THEOREM NothingUnlessNobody == FetchSpec => []FindsWhatAnswers
<1>1. FetchInv => FindsWhatAnswers
  BY DEF FetchInv, CallFits, FindsWhatAnswers, Before
<1>2. QED
  BY <1>1, FetchInitInv, FetchNextInv, PTL DEF FetchSpec

\* The attempts that are left and the services left alone are within their bounds.
FetchBounds ==
  /\ backoff \subseteq Backed
  /\ \A c \in Call : fetching[c].left \in 0 .. Retry /\ spared[c] \subseteq Backed

\* A call that turns to a service, ends or tries again has attempts within the bound.
LEMMA AttemptsLeft ==
  ASSUME FetchInv, \A c \in Call : fetching[c].left \in 0 .. Retry,
         NEW c \in Call, NEW s \in WebService,
         \/ \E found \in SUBSET WebService, next \in WebService : TurnTo(c, next, found)
         \/ \E found \in SUBSET WebService : EndCall(c, found) \/ NextEngine(c, s, found)
         \/ FailsOnce(c, s)
  PROVE  \A d \in Call : fetching'[d].left \in 0 .. Retry
<1> DEFINE Q == \A d \in Call : fetching'[d].left \in 0 .. Retry
<1>0. Retry \in Nat \ {0} /\ fetching[c].left \in 0 .. Retry
  BY FetchAssumption DEF FetchAssumption
<1>1. ASSUME NEW row, row.left \in 0 .. Retry, fetching' = [fetching EXCEPT ![c] = row] PROVE Q
  BY <1>1 DEF FetchInv
<1>2. ASSUME NEW at, NEW found, NEW n \in 0 .. Retry,
             fetching' = [fetching EXCEPT ![c].at = at, ![c].left = n, ![c].found = found]
      PROVE  Q
  <2> DEFINE row == [fetching[c] EXCEPT !.at = at, !.left = n, !.found = found]
  <2>1. row.left = n /\ fetching' = [fetching EXCEPT ![c] = row]
    BY <1>2 DEF FetchInv
  <2> HIDE DEF row
  <2>2. QED
    BY <1>1, <2>1
<1>3. ASSUME NEW found, NEW next, TurnTo(c, next, found) PROVE Q
  <2>1. Attempts(next) \in 0 .. Retry
    BY <1>0 DEF Attempts
  <2>2. QED
    BY <1>2, <1>3, <2>1 DEF TurnTo
<1>4. ASSUME NEW found, EndCall(c, found) PROVE Q
  <2>1. 0 \in 0 .. Retry
    BY <1>0
  <2>2. QED
    BY <1>2, <1>4, <2>1 DEF EndCall
<1>5. ASSUME NEW found, NextEngine(c, s, found) PROVE Q
  BY <1>3, <1>4, <1>5 DEF NextEngine
<1>6. ASSUME FailsOnce(c, s) PROVE Q
  <2> DEFINE n == fetching[c].left - 1
             row == [fetching[c] EXCEPT !.left = n]
  <2>1. n \in 0 .. Retry
    BY <1>0, <1>6 DEF FailsOnce
  <2>2. fetching' = [fetching EXCEPT ![c] = row]
    BY <1>6 DEF FailsOnce, FetchInv
  <2> HIDE DEF n
  <2>3. row.left = n
    BY DEF FetchInv
  <2> HIDE DEF row
  <2>4. QED
    BY <1>1, <2>1, <2>2, <2>3
<1>7. QED
  BY <1>3, <1>4, <1>5, <1>6

LEMMA FetchBoundsInit == FetchInit => FetchBounds
  BY FetchAssumption DEF FetchInit, FetchBounds, NoCall, FetchAssumption

LEMMA FetchBoundsNext == FetchInv /\ FetchBounds /\ [FetchNext]_fetchVars => FetchBounds'
<1> SUFFICES ASSUME FetchInv, FetchBounds, [FetchNext]_fetchVars PROVE FetchBounds'
  OBVIOUS
<1> DEFINE Lefts == \A d \in Call : fetching'[d].left \in 0 .. Retry
           Spares == backoff' \subseteq Backed /\ \A d \in Call : spared'[d] \subseteq Backed
<1>0. /\ \A c \in Call : fetching[c].left \in 0 .. Retry /\ fetching[c].found \in SUBSET WebService
      /\ Retry \in Nat \ {0} /\ backoff \subseteq Backed
      /\ {"searxng", "html", "api", "reddit", "crawler", "site"} = WebService
  BY FetchAssumption DEF FetchInv, FetchBounds, FetchAssumption, WebService, Backed
<1>1. ASSUME NEW c \in Call, NEW s \in WebService,
             Quiet \/ FailsOnce(c, s) \/ GivesUp(c, s) \/ LeavesAlone(c, s)
               \/ (Spare(s) /\ UNCHANGED spared) \/ UNCHANGED <<backoff, spared>>
      PROVE  Spares
  BY <1>0, <1>1 DEF Quiet, FailsOnce, GivesUp, LeavesAlone, Skips, Spare, FetchBounds, FetchInv
<1>2. ASSUME NEW c \in Call, NEW s \in WebService,
             \/ \E found \in SUBSET WebService, next \in WebService : TurnTo(c, next, found)
             \/ \E found \in SUBSET WebService : EndCall(c, found) \/ NextEngine(c, s, found)
             \/ FailsOnce(c, s)
      PROVE  Lefts
  BY <1>0, <1>2, AttemptsLeft
<1>3. ASSUME NEW c \in Call, TrySearxng(c) PROVE Lefts /\ Spares
  <2>1. {} \in SUBSET WebService /\ {"searxng"} \in SUBSET WebService /\ "searxng" \in WebService
    BY <1>0
  <2>2. \/ FailsOnce(c, "searxng") \/ \E found \in SUBSET WebService : NextEngine(c, "searxng", found)
    BY <1>3, <2>1 DEF TrySearxng
  <2>3. Lefts
    BY <1>2, <2>1, <2>2
  <2>4. Spares
    BY <1>1, <1>3, <2>1 DEF TrySearxng
  <2>5. QED
    BY <2>3, <2>4
<1>4. ASSUME NEW c \in Call, TryHtml(c) PROVE Lefts /\ Spares
  <2>1. /\ "html" \in WebService /\ fetching[c].found \in SUBSET WebService
        /\ fetching[c].found \cup {"html"} \in SUBSET WebService
    BY <1>0
  <2>2. \/ FailsOnce(c, "html") \/ \E found \in SUBSET WebService : NextEngine(c, "html", found)
    BY <1>4, <2>1 DEF TryHtml
  <2>3. Lefts
    BY <1>2, <2>1, <2>2
  <2>4. Spares
    BY <1>1, <1>4, <2>1 DEF TryHtml
  <2>5. QED
    BY <2>3, <2>4
<1>5. ASSUME NEW c \in Call, TryApi(c) PROVE Lefts /\ Spares
  <2>1. /\ "api" \in WebService /\ fetching[c].found \in SUBSET WebService
        /\ fetching[c].found \cup {"api"} \in SUBSET WebService
    BY <1>0
  <2>2. \/ FailsOnce(c, "api") \/ \E found \in SUBSET WebService : NextEngine(c, "api", found)
    BY <1>5, <2>1 DEF TryApi
  <2>3. Lefts
    BY <1>2, <2>1, <2>2
  <2>4. Spares
    BY <1>1, <1>5, <2>1 DEF TryApi
  <2>5. QED
    BY <2>3, <2>4
<1>6. ASSUME NEW c \in Call, SearchThreads(c) \/ FetchThread(c) PROVE Lefts /\ Spares
  <2>1. /\ {} \in SUBSET WebService /\ {"reddit"} \in SUBSET WebService
        /\ {"reddit", "crawler", "site"} \subseteq WebService
    BY <1>0
  <2>2. \/ \E found \in SUBSET WebService : EndCall(c, found)
        \/ \E found \in SUBSET WebService, next \in WebService : TurnTo(c, next, found)
    BY <1>6, <2>1 DEF SearchThreads, FetchThread
  <2>3. Lefts
    BY <1>2, <2>1, <2>2
  <2>4. \/ Quiet \/ GivesUp(c, "reddit") \/ LeavesAlone(c, "reddit")
        \/ UNCHANGED <<backoff, spared>>
    BY <1>6 DEF SearchThreads, FetchThread
  <2>5. Spares
    BY <1>1, <2>1, <2>4
  <2>6. QED
    BY <2>3, <2>5
<1>7. ASSUME NEW c \in Call, FetchByCrawler(c) PROVE Lefts /\ Spares
  <2>1. /\ {} \in SUBSET WebService /\ {"crawler"} \in SUBSET WebService
        /\ "crawler" \in WebService /\ "site" \in WebService
    BY <1>0
  <2>2. \/ FailsOnce(c, "crawler") \/ \E found \in SUBSET WebService : EndCall(c, found)
        \/ \E found \in SUBSET WebService, next \in WebService : TurnTo(c, next, found)
    BY <1>7, <2>1 DEF FetchByCrawler
  <2>3. Lefts
    BY <1>2, <2>1, <2>2
  <2>4. \/ Quiet \/ FailsOnce(c, "crawler") \/ LeavesAlone(c, "crawler")
        \/ (Spare("crawler") /\ UNCHANGED spared)
    BY <1>7 DEF FetchByCrawler
  <2>5. Spares
    BY <1>1, <2>1, <2>4
  <2>6. QED
    BY <2>3, <2>5
<1>8. ASSUME NEW c \in Call, FetchSite(c) PROVE Lefts /\ Spares
  <2>1. {} \in SUBSET WebService /\ {"site"} \in SUBSET WebService /\ "site" \in WebService
    BY <1>0
  <2>2. FailsOnce(c, "site") \/ \E found \in SUBSET WebService : EndCall(c, found)
    BY <1>8, <2>1 DEF FetchSite
  <2>3. Lefts
    BY <1>2, <2>1, <2>2
  <2>4. Spares
    BY <1>1, <1>8, <2>1 DEF FetchSite
  <2>5. QED
    BY <2>3, <2>4
<1>9. ASSUME NEW c \in Call, NEW what \in Asked, NEW first \in WebService, BeginCall(c, what, first)
      PROVE  Lefts /\ Spares
  <2> DEFINE row == [at |-> first, asks |-> what, left |-> Attempts(first), found |-> {}]
  <2>1. row.left \in 0 .. Retry
    BY <1>0 DEF Attempts
  <2>2. fetching' = [fetching EXCEPT ![c] = row] /\ UNCHANGED <<backoff, silent, spared>>
    BY <1>9 DEF BeginCall
  <2> HIDE DEF row
  <2>3. QED
    BY <1>0, <2>1, <2>2 DEF FetchInv, FetchBounds
<1>10. ASSUME NEW c \in Call, ReturnCall(c) PROVE Lefts /\ Spares
  <2>1. NoCall.left \in 0 .. Retry
    BY <1>0 DEF NoCall
  <2>2. QED
    BY <1>0, <1>10, <2>1 DEF ReturnCall, FetchInv, FetchBounds
<1>11. ASSUME NEW s \in Backed, BackoffEnds(s) PROVE Lefts /\ Spares
  BY <1>0, <1>11 DEF BackoffEnds, FetchBounds
<1>12. CASE UNCHANGED fetchVars
  BY <1>12 DEF fetchVars, FetchBounds
<1>13. Lefts /\ Spares => FetchBounds'
  BY DEF FetchBounds
<1>14. QED
  BY <1>3, <1>4, <1>5, <1>6, <1>7, <1>8, <1>9, <1>10, <1>11, <1>12, <1>13 DEF FetchNext

\* The calls, what they found and the services left alone have their types.
THEOREM FetchTypes == FetchSpec => []FetchTypeOK
<1>1. FetchInv /\ FetchBounds => FetchTypeOK
  <2> SUFFICES ASSUME FetchInv, FetchBounds PROVE FetchTypeOK
    OBVIOUS
  <2>1. fetching \in [Call -> [at : WebService \cup {"idle", "ended"}, asks : Asked,
                               left : 0 .. Retry, found : SUBSET WebService]]
    BY DEF FetchInv, FetchBounds
  <2>2. spared \in [Call -> SUBSET Backed]
    BY DEF FetchInv, FetchBounds
  <2>3. QED
    BY <2>1, <2>2 DEF FetchInv, FetchBounds, FetchTypeOK
<1>2. QED
  BY <1>1, FetchInitInv, FetchNextInv, FetchBoundsInit, FetchBoundsNext, PTL DEF FetchSpec

-----------------------------------------------------------------------------

SynthRow == [at : SynthStage, text : Text, cycle : Int, named : 0 .. MaxSecond,
             before : Text, chain : BOOLEAN]

\* What a text keeps of the one that was accepted before the translation: its sections,
\* unless the translation took its place, and the translation, unless it had no room.
Kept(f) ==
  /\ ~(f.chain /\ f.before.implied = "first") => f.before.has \subseteq f.text.has
  /\ f.chain /\ f.before.implied # "inside" => f.text.chained

\* What the text of a report has at each of its stages: what it kept from the translation
\* on, and the sections of the contract from the gate on.
TextFits(f) ==
  /\ f.at \in {"gate", "write", "critique", "completed"} => "contracts" \in f.text.has
  /\ f.at \in {"finish", "gate", "write", "critique", "completed"} => Kept(f)

\* A report whose name is its own is on the shelf as it was written.
ShelfFits(r) ==
  Alone(r) =>
    /\ synth[r].at \in {"critique", "completed"} =>
         shelf[synth[r].named] = [by |-> r, text |-> synth[r].text]
    /\ synth[r].at = "completed" => critique[synth[r].named] = r

SynthInv ==
  /\ synth \in [Paper -> SynthRow]
  /\ shelf \in [0 .. MaxSecond -> [by : Paper \cup {"nobody"}, text : Text]]
  /\ critique \in [0 .. MaxSecond -> Paper \cup {"nobody"}]
  /\ second \in 0 .. MaxSecond
  /\ \A r \in Paper : TextFits(synth[r]) /\ ShelfFits(r)

LEMMA NoTextType == NoText \in Text
  BY DEF NoText, Text, TextIs, Implied

LEMMA SynthInitInv == SynthInit => SynthInv
<1> SUFFICES ASSUME SynthInit PROVE SynthInv
  OBVIOUS
<1> DEFINE f == [at |-> "start", text |-> NoText, cycle |-> 0, named |-> 0, before |-> NoText,
                 chain |-> FALSE]
<1>1. f \in SynthRow /\ TextFits(f) /\ f.at = "start" /\ 0 \in 0 .. MaxSecond
  BY NoTextType, SynthesisAssumption
     DEF SynthRow, SynthStage, Implied, TextFits, SynthesisAssumption
<1>2. synth = [r \in Paper |-> f]
  BY DEF SynthInit
<1> HIDE DEF f
<1>3. QED
  BY <1>1, <1>2, NoTextType DEF SynthInit, SynthInv, ShelfFits, NoReport

\* A stage of one report that names and writes no file.
LEMMA OnePaper ==
  ASSUME SynthInv, NEW r \in Paper, NEW f \in SynthRow, synth' = [synth EXCEPT ![r] = f],
         UNCHANGED <<shelf, critique, second>>, TextFits(f),
         synth[r].at # "start", f.at # "start", f.named = synth[r].named,
         f.at \notin {"critique", "completed"}
  PROVE  SynthInv'
<1>1. /\ synth' \in [Paper -> SynthRow] /\ synth'[r] = f
      /\ \A q \in Paper \ {r} : synth'[q] = synth[q]
  BY DEF SynthInv
<1>2. ASSUME NEW q \in Paper PROVE TextFits(synth'[q]) /\ ShelfFits(q)'
  <2>1. CASE q = r
    BY <1>1, <2>1 DEF ShelfFits
  <2>2. CASE q # r
    <3>1. Alone(q)' => Alone(q)
      BY <1>1, <2>2 DEF Alone, SynthAt
    <3>2. QED
      BY <1>1, <2>2, <3>1 DEF SynthInv, ShelfFits
  <2>3. QED
    BY <2>1, <2>2
<1>3. QED
  BY <1>1, <1>2 DEF SynthInv

\* A stage that changes the text only.
LEMMA Reaches ==
  ASSUME SynthInv, NEW r \in Paper, NEW l \in SynthStage, NEW text \in Text, Reach(r, l, text),
         UNCHANGED <<shelf, critique, second>>,
         synth[r].at # "start", l \notin {"start", "critique", "completed"},
         TextFits([synth[r] EXCEPT !.at = l, !.text = text])
  PROVE  SynthInv'
<1> DEFINE f == [synth[r] EXCEPT !.at = l, !.text = text]
<1>1. synth[r] \in SynthRow
  BY DEF SynthInv
<1>2. f \in SynthRow /\ f.at = l /\ f.named = synth[r].named
  BY <1>1 DEF SynthRow
<1>3. synth' = [synth EXCEPT ![r] = f]
  BY <1>1 DEF Reach, SynthInv
<1> HIDE DEF f
<1>4. QED
  BY <1>1, <1>2, <1>3, OnePaper DEF f

LEMMA TextKeeps ==
  ASSUME NEW f \in SynthRow, NEW l, NEW text
  PROVE  LET g == [f EXCEPT !.at = l, !.text = text]
         IN  /\ g.at = l /\ g.text = text /\ g.chain = f.chain /\ g.before = f.before
             /\ g.named = f.named
  BY DEF SynthRow

LEMMA SynthNextInv == SynthInv /\ [SynthNext]_synthVars => SynthInv'
<1> SUFFICES ASSUME SynthInv, [SynthNext]_synthVars PROVE SynthInv'
  OBVIOUS
<1>a. \A r \in Paper : synth[r] \in SynthRow /\ synth[r].text \in Text /\ TextFits(synth[r])
  BY DEF SynthInv, SynthRow
<1>b. \A text \in Written : text \in Text
  BY DEF Written
<1>1. ASSUME NEW r \in Paper, BeginSynthesis(r) PROVE SynthInv'
  <2> DEFINE f == [synth[r] EXCEPT !.at = "draft", !.named = second]
  <2>1. /\ synth[r].at = "start" /\ synth' = [synth EXCEPT ![r] = f]
        /\ UNCHANGED <<shelf, critique, second>>
    BY <1>1, <1>a DEF BeginSynthesis, SynthAt, SynthInv
  <2>2. /\ f \in SynthRow /\ f.at = "draft" /\ f.text = synth[r].text
        /\ f.chain = synth[r].chain
    BY <1>a DEF SynthRow, SynthInv, SynthStage
  <2>3. TextFits(f)
    BY <1>a, <2>1, <2>2 DEF TextFits
  <2> HIDE DEF f
  <2>4. /\ synth' \in [Paper -> SynthRow] /\ synth'[r] = f
        /\ \A q \in Paper \ {r} : synth'[q] = synth[q]
    BY <2>1, <2>2 DEF SynthInv
  <2>5. ASSUME NEW q \in Paper PROVE TextFits(synth'[q]) /\ ShelfFits(q)'
    <3>1. CASE q = r
      BY <2>2, <2>3, <2>4, <3>1 DEF ShelfFits
    <3>2. CASE q # r
      <4>1. Alone(q)' => Alone(q)
        BY <2>1, <2>4, <3>2 DEF Alone, SynthAt
      <4>2. QED
        BY <2>1, <2>4, <3>2, <4>1 DEF SynthInv, ShelfFits
    <3>3. QED
      BY <3>1, <3>2
  <2>6. QED
    BY <2>1, <2>4, <2>5 DEF SynthInv
<1>2. ASSUME NEW r \in Paper, synth[r].at # "start", UNCHANGED <<shelf, critique, second>>,
             NEW l \in {"unavailable", "raised"}, Reach(r, l, NoText)
      PROVE  SynthInv'
  <2>1. TextFits([synth[r] EXCEPT !.at = l, !.text = NoText])
    BY <1>a, TextKeeps DEF TextFits
  <2>2. QED
    BY <1>2, <2>1, NoTextType, Reaches DEF SynthStage
<1>3. ASSUME NEW r \in Paper, synth[r].at \in {"draft", "skeptic"},
             UNCHANGED <<shelf, critique, second>>,
             NEW l \in {"skeptic", "primitives"}, NEW text \in Text,
             Reach(r, l, text)
      PROVE  SynthInv'
  <2>1. TextFits([synth[r] EXCEPT !.at = l, !.text = text])
    BY <1>3, <1>a, TextKeeps DEF TextFits, Kept
  <2>2. QED
    BY <1>3, <2>1, Reaches DEF SynthStage
<1>4. ASSUME NEW r \in Paper, DraftByLoop(r) PROVE SynthInv'
  BY <1>2, <1>3, <1>4, <1>b DEF DraftByLoop, SynthAt
<1>5. ASSUME NEW r \in Paper, NoModel(r) PROVE SynthInv'
  BY <1>2, <1>5 DEF NoModel, SynthAt
<1>6. ASSUME NEW r \in Paper, DraftText(r) PROVE SynthInv'
  <2>1. synth[r].at = "draft" /\ UNCHANGED <<shelf, critique, second>>
    BY <1>6 DEF DraftText, SynthAt
  <2>2. ASSUME NEW text \in Text,
               synth' = [synth EXCEPT ![r].cycle = @ + 1, ![r].text = text]
        PROVE  SynthInv'
    <3> DEFINE n == synth[r].cycle + 1
               f == [synth[r] EXCEPT !.cycle = n, !.text = text]
    <3>0. n \in Int
      BY <1>a DEF SynthRow
    <3>a. synth' = [synth EXCEPT ![r] = f]
      BY <2>2, <1>a DEF SynthInv
    <3> HIDE DEF n
    <3>1. /\ f \in SynthRow /\ f.at = "draft" /\ f.named = synth[r].named
          /\ f.chain = synth[r].chain
      BY <1>a, <2>1, <3>0 DEF SynthRow
    <3>3. TextFits(f)
      BY <1>a, <2>1, <3>1 DEF TextFits
    <3> HIDE DEF f
    <3>4. QED
      BY <2>1, <3>1, <3>a, <3>3, OnePaper
  <2>3. CASE synth' = [synth EXCEPT ![r].cycle = @ + 1]
    <3> DEFINE f == [synth[r] EXCEPT !.cycle = synth[r].cycle + 1]
    <3>0. f = [f EXCEPT !.text = synth[r].text]
      BY <1>a DEF SynthRow
    <3>1. synth' = [synth EXCEPT ![r].cycle = @ + 1, ![r].text = synth[r].text]
      BY <2>3, <1>a, <3>0 DEF SynthInv
    <3>2. QED
      BY <1>a, <2>2, <3>1
  <2>4. CASE \E text \in Written :
               IF Valid(text) /\ text.is # "cut" THEN Reach(r, "skeptic", text)
               ELSE synth' = [synth EXCEPT ![r].cycle = @ + 1, ![r].text = text]
    BY <1>3, <1>b, <2>1, <2>2, <2>4
  <2>5. QED
    BY <1>6, <2>3, <2>4 DEF DraftText
<1>7. ASSUME NEW r \in Paper, EndDraft(r) PROVE SynthInv'
  <2>1. synth[r].at = "draft" /\ UNCHANGED <<shelf, critique, second>>
    BY <1>7 DEF EndDraft, SynthAt
  <2>2. \/ Reach(r, "unavailable", NoText)
        \/ \E text \in Text : Reach(r, "skeptic", text)
    BY <1>7, <1>a, <1>b DEF EndDraft
  <2>3. QED
    BY <1>2, <1>3, <2>1, <2>2
<1>8. ASSUME NEW r \in Paper, SkepticPass(r) PROVE SynthInv'
  <2>1. synth[r].at = "skeptic" /\ UNCHANGED <<shelf, critique, second>>
    BY <1>8 DEF SkepticPass, SynthAt
  <2>2. \E text \in Text : Reach(r, "primitives", text)
    BY <1>8, <1>a, <1>b, <2>1 DEF SkepticPass
  <2>3. QED
    BY <1>3, <2>1, <2>2
<1>9. ASSUME NEW r \in Paper, ExtractPrimitives(r) PROVE SynthInv'
  <2>1. TextFits([synth[r] EXCEPT !.at = "translate", !.text = synth[r].text])
    BY <1>9, <1>a, TextKeeps DEF ExtractPrimitives, SynthAt, TextFits
  <2>2. QED
    BY <1>9, <1>a, <2>1, Reaches DEF ExtractPrimitives, SynthAt, SynthStage
<1>10. ASSUME NEW r \in Paper, Translate(r) PROVE SynthInv'
  <2>1. synth[r].at = "translate" /\ UNCHANGED <<shelf, critique, second>>
    BY <1>10 DEF Translate, SynthAt
  <2>2. PICK chain \in BOOLEAN :
          synth' = [synth EXCEPT ![r].at = "finish", ![r].chain = chain,
                                 ![r].before = synth[r].text,
                                 ![r].text = IF chain THEN WithChain(synth[r].text) ELSE @]
    BY <1>10 DEF Translate
  <2> DEFINE text == IF chain THEN WithChain(synth[r].text) ELSE synth[r].text
             f == [synth[r] EXCEPT !.at = "finish", !.chain = chain, !.before = synth[r].text,
                                   !.text = text]
  <2>3. /\ text \in Text
        /\ ~(chain /\ synth[r].text.implied = "first") => text.has = synth[r].text.has
        /\ chain /\ synth[r].text.implied # "inside" => text.chained
    BY <1>a DEF WithChain, Text, TextIs, Implied
  <2>4. synth' = [synth EXCEPT ![r] = f]
    BY <2>2, <1>a DEF SynthInv
  <2> HIDE DEF text
  <2>5. /\ f \in SynthRow /\ f.at = "finish" /\ f.named = synth[r].named
        /\ f.text = text /\ f.chain = chain /\ f.before = synth[r].text
    BY <1>a, <2>3 DEF SynthRow, SynthStage
  <2> HIDE DEF f
  <2>6. TextFits(f)
    BY <2>3, <2>5 DEF TextFits, Kept
  <2>7. QED
    BY <2>1, <2>4, <2>5, <2>6, OnePaper
<1>11. ASSUME NEW r \in Paper, FinishSummary(r) PROVE SynthInv'
  <2> DEFINE text == [synth[r].text EXCEPT !.has = synth[r].text.has \cup {"contracts"}]
  <2>1. /\ synth[r].at = "finish" /\ UNCHANGED <<shelf, critique, second>>
        /\ Reach(r, "gate", text)
    BY <1>11, <1>a DEF FinishSummary, SynthAt
  <2>3. /\ text \in Text /\ text.chained = synth[r].text.chained
        /\ text.has = synth[r].text.has \cup {"contracts"}
    BY <1>a DEF Text, Section
  <2> HIDE DEF text
  <2>4. TextFits([synth[r] EXCEPT !.at = "gate", !.text = text])
    BY <1>a, <2>1, <2>3, TextKeeps DEF TextFits, Kept
  <2>5. QED
    BY <1>a, <2>1, <2>3, <2>4, Reaches DEF SynthStage
<1>12. ASSUME NEW r \in Paper, GateArtifacts(r) PROVE SynthInv'
  <2>1. TextFits([synth[r] EXCEPT !.at = "write", !.text = synth[r].text])
    BY <1>12, <1>a, TextKeeps DEF GateArtifacts, SynthAt, TextFits, Kept
  <2>2. QED
    BY <1>12, <1>a, <2>1, Reaches DEF GateArtifacts, SynthAt, SynthStage
<1>13. ASSUME NEW r \in Paper, WriteSummaryFile(r) PROVE SynthInv'
  <2> DEFINE f == [synth[r] EXCEPT !.at = "critique"]
             report == [by |-> r, text |-> synth[r].text]
  <2>1. /\ synth[r].at = "write" /\ UNCHANGED <<critique, second>>
        /\ synth' = [synth EXCEPT ![r] = f] /\ synth[r].named \in 0 .. MaxSecond
        /\ shelf' = [shelf EXCEPT ![synth[r].named] = report]
    BY <1>13, <1>a DEF WriteSummaryFile, SynthAt, SynthInv, SynthRow
  <2>2. /\ f \in SynthRow /\ f.at = "critique" /\ f.text = synth[r].text
        /\ f.chain = synth[r].chain /\ f.before = synth[r].before /\ f.named = synth[r].named
    BY <1>a DEF SynthRow, SynthStage
  <2>3. TextFits(f)
    BY <1>a, <2>1, <2>2 DEF TextFits, Kept
  <2>4. report \in [by : Paper \cup {"nobody"}, text : Text]
    BY <1>a
  <2> HIDE DEF f, report
  <2>5. /\ synth' \in [Paper -> SynthRow] /\ synth'[r] = f
        /\ \A q \in Paper \ {r} : synth'[q] = synth[q]
        /\ shelf' \in [0 .. MaxSecond -> [by : Paper \cup {"nobody"}, text : Text]]
        /\ shelf'[synth[r].named] = report
        /\ \A n \in 0 .. MaxSecond : n # synth[r].named => shelf'[n] = shelf[n]
    BY <2>1, <2>2, <2>4 DEF SynthInv
  <2>6. ASSUME NEW q \in Paper PROVE TextFits(synth'[q]) /\ ShelfFits(q)'
    <3>1. CASE q = r
      BY <2>2, <2>3, <2>5, <3>1 DEF ShelfFits, report
    <3>2. CASE q # r
      <4> SUFFICES ASSUME Alone(q)' PROVE ShelfFits(q)'
        BY <1>a, <2>5, <3>2 DEF ShelfFits
      <4>1. Alone(q) /\ synth[r].named # synth[q].named
        BY <2>1, <2>2, <2>5, <3>2 DEF Alone, SynthAt
      <4>2. synth[q].named \in 0 .. MaxSecond
        BY <1>a DEF SynthRow
      <4>3. QED
        BY <2>1, <2>5, <3>2, <4>1, <4>2 DEF SynthInv, ShelfFits
    <3>3. QED
      BY <3>1, <3>2
  <2>7. QED
    BY <2>1, <2>5, <2>6 DEF SynthInv
<1>14. ASSUME NEW r \in Paper, WriteCritique(r) PROVE SynthInv'
  <2> DEFINE f == [synth[r] EXCEPT !.at = "completed"]
  <2>1. /\ synth[r].at = "critique" /\ UNCHANGED <<shelf, second>>
        /\ synth' = [synth EXCEPT ![r] = f] /\ synth[r].named \in 0 .. MaxSecond
        /\ critique' = [critique EXCEPT ![synth[r].named] = r]
    BY <1>14, <1>a DEF WriteCritique, SynthAt, SynthInv, SynthRow
  <2>2. /\ f \in SynthRow /\ f.at = "completed" /\ f.text = synth[r].text
        /\ f.chain = synth[r].chain /\ f.before = synth[r].before /\ f.named = synth[r].named
    BY <1>a DEF SynthRow, SynthStage
  <2>3. TextFits(f)
    BY <1>a, <2>1, <2>2 DEF TextFits, Kept
  <2> HIDE DEF f
  <2>5. /\ synth' \in [Paper -> SynthRow] /\ synth'[r] = f
        /\ \A q \in Paper \ {r} : synth'[q] = synth[q]
        /\ critique' \in [0 .. MaxSecond -> Paper \cup {"nobody"}]
        /\ critique'[synth[r].named] = r
        /\ \A n \in 0 .. MaxSecond : n # synth[r].named => critique'[n] = critique[n]
    BY <2>1, <2>2 DEF SynthInv
  <2>6. ASSUME NEW q \in Paper PROVE TextFits(synth'[q]) /\ ShelfFits(q)'
    <3>1. Alone(q)' => Alone(q)
      BY <2>1, <2>2, <2>5 DEF Alone, SynthAt
    <3>2. CASE q = r
      BY <2>1, <2>2, <2>3, <2>5, <3>1, <3>2 DEF SynthInv, ShelfFits
    <3>3. CASE q # r
      <4> SUFFICES ASSUME Alone(q)' PROVE ShelfFits(q)'
        BY <1>a, <2>5, <3>3 DEF ShelfFits
      <4>1. Alone(q) /\ synth[r].named # synth[q].named
        BY <2>1, <2>2, <2>5, <3>1, <3>3 DEF Alone, SynthAt
      <4>2. synth[q].named \in 0 .. MaxSecond
        BY <1>a DEF SynthRow
      <4>3. QED
        BY <2>1, <2>5, <3>3, <4>1, <4>2 DEF SynthInv, ShelfFits
    <3>4. QED
      BY <3>2, <3>3
  <2>7. QED
    BY <2>1, <2>5, <2>6 DEF SynthInv
<1>15. ASSUME NextSecond PROVE SynthInv'
  <2>1. second' \in 0 .. MaxSecond /\ UNCHANGED <<synth, shelf, critique>>
    BY <1>15, SynthesisAssumption DEF NextSecond, SynthInv, SynthesisAssumption
  <2>2. QED
    BY <2>1 DEF SynthInv, ShelfFits, Alone, SynthAt
<1>16. CASE UNCHANGED synthVars
  BY <1>16 DEF synthVars, SynthInv, ShelfFits, Alone, SynthAt
<1>17. QED
  BY <1>1, <1>4, <1>5, <1>6, <1>7, <1>8, <1>9, <1>10, <1>11, <1>12, <1>13, <1>14, <1>15, <1>16
     DEF SynthNext

\* A run that completed has its report, with the sections of the contract and what was
\* accepted from its writer, for any number of runs, cycles and seconds.
THEOREM ReportsAreWhole == SynthSpec => []ReportHolds
<1>1. SynthInv => ReportHolds
  <2> SUFFICES ASSUME SynthInv, NEW r \in Paper, synth[r].at = "completed", Alone(r)
               PROVE  LET report == shelf[synth[r].named]
                      IN  /\ report.by = r /\ critique[synth[r].named] = r
                          /\ "contracts" \in report.text.has
                          /\ ~(synth[r].chain /\ synth[r].before.implied = "first")
                               => synth[r].before.has \subseteq report.text.has
                          /\ synth[r].chain /\ synth[r].before.implied # "inside"
                               => report.text.chained
    BY DEF ReportHolds, SynthAt
  <2>1. shelf[synth[r].named] = [by |-> r, text |-> synth[r].text] /\ critique[synth[r].named] = r
    BY DEF SynthInv, ShelfFits
  <2>2. TextFits(synth[r])
    BY DEF SynthInv
  <2>3. QED
    BY <2>1, <2>2 DEF TextFits, Kept
<1>2. QED
  BY <1>1, SynthInitInv, SynthNextInv, PTL DEF SynthSpec

\* A draft is asked for as often as the cycles allow.
CyclesLeft == \A r \in Paper : synth[r].cycle \in 0 .. Round

LEMMA CyclesInit == SynthInit => CyclesLeft
  BY SynthesisAssumption DEF SynthInit, CyclesLeft, SynthesisAssumption

LEMMA CyclesNext == SynthInv /\ CyclesLeft /\ [SynthNext]_synthVars => CyclesLeft'
<1> SUFFICES ASSUME SynthInv, CyclesLeft, [SynthNext]_synthVars PROVE CyclesLeft'
  OBVIOUS
<1>0. Round \in Nat /\ \A r \in Paper : synth[r] \in SynthRow
  BY SynthesisAssumption DEF SynthInv, SynthesisAssumption
<1>1. ASSUME NEW r \in Paper, NEW row, row.cycle \in 0 .. Round, synth' = [synth EXCEPT ![r] = row]
      PROVE  CyclesLeft'
  BY <1>1 DEF SynthInv, CyclesLeft
<1>2. ASSUME NEW r \in Paper, NEW l, NEW text, Reach(r, l, text) PROVE CyclesLeft'
  <2> DEFINE row == [synth[r] EXCEPT !.at = l, !.text = text]
  <2>1. row.cycle = synth[r].cycle /\ synth' = [synth EXCEPT ![r] = row]
    BY <1>0, <1>2 DEF Reach, SynthInv, SynthRow
  <2> HIDE DEF row
  <2>2. QED
    BY <1>1, <2>1 DEF CyclesLeft
<1>3. ASSUME NEW r \in Paper, DraftText(r) PROVE CyclesLeft'
  <2> DEFINE n == synth[r].cycle + 1
  <2>1. n \in 0 .. Round
    BY <1>0, <1>3 DEF DraftText, CyclesLeft
  <2>2. ASSUME synth' = [synth EXCEPT ![r].cycle = @ + 1] PROVE CyclesLeft'
    <3> DEFINE row == [synth[r] EXCEPT !.cycle = n]
    <3>1. synth' = [synth EXCEPT ![r] = row]
      BY <2>2 DEF SynthInv
    <3> HIDE DEF n
    <3>2. row.cycle = n
      BY <1>0 DEF SynthRow
    <3> HIDE DEF row
    <3>3. QED
      BY <1>1, <2>1, <3>1, <3>2
  <2>3. ASSUME NEW text, synth' = [synth EXCEPT ![r].cycle = @ + 1, ![r].text = text]
        PROVE  CyclesLeft'
    <3> DEFINE row == [synth[r] EXCEPT !.cycle = n, !.text = text]
    <3>1. synth' = [synth EXCEPT ![r] = row]
      BY <2>3 DEF SynthInv
    <3> HIDE DEF n
    <3>2. row.cycle = n
      BY <1>0 DEF SynthRow
    <3> HIDE DEF row
    <3>3. QED
      BY <1>1, <2>1, <3>1, <3>2
  <2>4. QED
    BY <1>2, <1>3, <2>2, <2>3 DEF DraftText
<1>4. ASSUME NEW r \in Paper, BeginSynthesis(r) PROVE CyclesLeft'
  <2> DEFINE row == [synth[r] EXCEPT !.at = "draft", !.named = second]
  <2>1. row.cycle = synth[r].cycle /\ synth' = [synth EXCEPT ![r] = row]
    BY <1>0, <1>4 DEF BeginSynthesis, SynthInv, SynthRow
  <2> HIDE DEF row
  <2>2. QED
    BY <1>1, <2>1 DEF CyclesLeft
<1>5. ASSUME NEW r \in Paper, Translate(r) PROVE CyclesLeft'
  <2>1. PICK chain \in BOOLEAN :
          synth' = [synth EXCEPT ![r].at = "finish", ![r].chain = chain,
                                 ![r].before = synth[r].text,
                                 ![r].text = IF chain THEN WithChain(synth[r].text) ELSE @]
    BY <1>5 DEF Translate
  <2> DEFINE row == [synth[r] EXCEPT !.at = "finish", !.chain = chain,
                                     !.before = synth[r].text,
                                     !.text = IF chain THEN WithChain(synth[r].text) ELSE @]
  <2>2. row.cycle = synth[r].cycle /\ synth' = [synth EXCEPT ![r] = row]
    BY <1>0, <2>1 DEF SynthInv, SynthRow
  <2> HIDE DEF row
  <2>3. QED
    BY <1>1, <2>2 DEF CyclesLeft
<1>6. ASSUME NEW r \in Paper, WriteSummaryFile(r) \/ WriteCritique(r) PROVE CyclesLeft'
  <2>1. PICK l \in {"critique", "completed"} : synth' = [synth EXCEPT ![r].at = l]
    BY <1>6 DEF WriteSummaryFile, WriteCritique
  <2> DEFINE row == [synth[r] EXCEPT !.at = l]
  <2>2. row.cycle = synth[r].cycle /\ synth' = [synth EXCEPT ![r] = row]
    BY <1>0, <2>1 DEF SynthInv, SynthRow
  <2> HIDE DEF row
  <2>3. QED
    BY <1>1, <2>2 DEF CyclesLeft
<1>7. ASSUME NEW r \in Paper,
             \/ DraftByLoop(r) \/ NoModel(r) \/ EndDraft(r) \/ SkepticPass(r)
             \/ ExtractPrimitives(r) \/ FinishSummary(r) \/ GateArtifacts(r)
      PROVE  CyclesLeft'
  BY <1>2, <1>7 DEF DraftByLoop, NoModel, EndDraft, SkepticPass, ExtractPrimitives,
                    FinishSummary, GateArtifacts
<1>8. CASE NextSecond \/ UNCHANGED synthVars
  BY <1>8 DEF NextSecond, synthVars, CyclesLeft
<1>9. QED
  BY <1>3, <1>4, <1>5, <1>6, <1>7, <1>8 DEF SynthNext

\* The runs, their texts, the shelf and the critiques have their types.
THEOREM SynthTypes == SynthSpec => []SynthTypeOK
<1>1. SynthInv /\ CyclesLeft => SynthTypeOK
  <2> SUFFICES ASSUME SynthInv, CyclesLeft PROVE SynthTypeOK
    OBVIOUS
  <2>1. synth \in [Paper -> [at : SynthStage, text : Text, cycle : 0 .. Round,
                             named : 0 .. MaxSecond, before : Text, chain : BOOLEAN]]
    BY DEF SynthInv, CyclesLeft, SynthRow
  <2>2. QED
    BY <2>1 DEF SynthInv, SynthTypeOK
<1>2. QED
  BY <1>1, SynthInitInv, SynthNextInv, CyclesInit, CyclesNext, PTL DEF SynthSpec

-----------------------------------------------------------------------------

\* A behaviour of the six components together is one of each of them.
LEMMA WorkParts ==
  WorkSpec => /\ TurnSpec /\ ForagingSpec /\ WebSpec
              /\ FetchSpec /\ SynthSpec /\ InferenceSpec
<1>1. WorkInit => /\ TurnInit /\ ForagingInit /\ WebInit
                  /\ FetchInit /\ SynthInit /\ InferenceInit
  BY DEF WorkInit
<1>2. [WorkNext]_workVars =>
        /\ [TurnNext]_turnVars /\ [ForagingNext]_foragingVars /\ [WebNext]_webVars
        /\ [FetchNext]_fetchVars /\ [SynthNext]_synthVars /\ [InferenceNext]_inferenceVars
  <2> SUFFICES ASSUME [WorkNext]_workVars
               PROVE  /\ [TurnNext]_turnVars /\ [ForagingNext]_foragingVars
                      /\ [WebNext]_webVars /\ [FetchNext]_fetchVars
                      /\ [SynthNext]_synthVars /\ [InferenceNext]_inferenceVars
    OBVIOUS
  <2>1. CASE WorkNext
    BY <2>1 DEF WorkNext
  <2>2. CASE UNCHANGED workVars
    BY <2>2 DEF workVars
  <2>3. QED
    BY <2>1, <2>2
<1>3. QED
  BY <1>1, <1>2, PTL
     DEF WorkSpec, TurnSpec, ForagingSpec, WebSpec, FetchSpec, SynthSpec, InferenceSpec

\* The types of the components that a turn sets to work, as the run checks them.
THEOREM WorkTypes == WorkSpec => []WorkTypesOK
<1>1. ForagingSpec => []ForagingTypeOK
  <2>1. ForagingInv => ForagingTypeOK
    BY DEF ForagingInv
  <2>2. QED
    BY <2>1, ForagingInitInv, ForagingNextInv, PTL DEF ForagingSpec
<1>2. WebSpec => []WebTypeOK
  <2>1. WebInv => WebTypeOK
    BY DEF WebInv
  <2>2. QED
    BY <2>1, WebInitInv, WebNextInv, PTL DEF WebSpec
<1>3. InferenceSpec => []InferenceTypeOK
  <2>1. InferenceInv => InferenceTypeOK
    BY DEF InferenceInv
  <2>2. QED
    BY <2>1, InferenceInitInv, InferenceNextInv, PTL DEF InferenceSpec
<1>4. (/\ TurnTypeOK /\ ForagingTypeOK /\ WebTypeOK
       /\ FetchTypeOK /\ SynthTypeOK /\ InferenceTypeOK) => WorkTypesOK
  BY DEF WorkTypesOK
<1>5. QED
  BY <1>1, <1>2, <1>3, <1>4, WorkParts, TurnTypes, FetchTypes, SynthTypes, PTL

\* What is proved of each component holds when they run together.
THEOREM WorkSafe ==
  WorkSpec => [](/\ ForageBudget /\ CancelledTellsAll /\ OneForagingPerProject
                 /\ AnswerStaysReadable /\ FindsWhatAnswers /\ ReportHolds /\ RaisesUnanswered)
  BY WorkParts, BudgetKept, CancelledTurnsTellAll, OneRunAtATime, SourcesStay,
     NothingUnlessNobody, ReportsAreWhole, NobodyAnswers, PTL
=============================================================================
