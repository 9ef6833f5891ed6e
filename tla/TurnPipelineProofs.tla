------------------------- MODULE TurnPipelineProofs -------------------------
(***************************************************************************)
(* What holds of the turns of any number of callers.  That a cancelled     *)
(* turn has left nothing of an answer is not inductive: the reply may be   *)
(* cancelled at any place where it still looks for a cancellation, so      *)
(* nothing may have been left at any of these places (TurnFits).  A reply  *)
(* that no longer looks is never cancelled.                                *)
(*                                                                         *)
(* The rows of a window are bounded together with the forages that passed  *)
(* the gate and have no row yet (BudgetInv): the gate lets one more in     *)
(* below the limit of rows, and at most all the others were let in before. *)
(***************************************************************************)
EXTENDS TurnPipeline, FiniteSetTheorems, SequenceTheorems, TLAPS

\* The places before the lane has done anything for the answer.
BeforeLane == {"idle", "facts", "gate", "context", "plan", "personal", "research", "make"}

TurnRow == [at : TurnPlace, forced : BOOLEAN, seed : Seed,
            graph : {"no", "runs", "fallback"}, checks : BOOLEAN,
            did : SUBSET Effect, reply : TurnReply]

Nothing(row) == row.did \cap Answered = {}

TurnFits(row) ==
  /\ row \in TurnRow
  /\ row.at \in BeforeLane => Nothing(row)
  /\ row.at \in {"talk", "web", "chat"} /\ row.checks => Nothing(row)
  /\ row.at = "replied" /\ row.reply = "empty" /\ row.checks => Nothing(row)
  /\ row.at \in {"replied", "told"} /\ row.reply = "cancelled" => Nothing(row)
  /\ row.at = "replied" => row.reply # "partial"
  /\ row.at = "told" /\ row.reply = "partial" => row.did \cap Answered = {"summary"}

TurnInv == turnOf \in [Handler -> TurnRow] /\ \A c \in Handler : TurnFits(turnOf[c])

USE DEF TurnRow, TurnPlace, TurnReply, Effect, Answered

LEMMA NoTurnFits == NoTurn \in TurnRow /\ NoTurn.did = {} /\ NoTurn.at = "idle" /\ TurnFits(NoTurn)
<1>1. (CHOOSE s \in Seed : TRUE) \in Seed
  BY TurnAssumption
<1>2. QED
  BY <1>1 DEF NoTurn, TurnFits, Nothing

LEMMA TurnInitInv == TurnInit => TurnInv
  BY NoTurnFits DEF TurnInit, TurnInv

\* A turn that changes to a row that fits.
LEMMA HandlerMoves ==
  ASSUME TurnInv, NEW c \in Handler, NEW row, TurnFits(row),
         turnOf' = [turnOf EXCEPT ![c] = row]
  PROVE  TurnInv'
<1>1. /\ turnOf' \in [Handler -> TurnRow] /\ turnOf'[c] = row
      /\ \A d \in Handler \ {c} : turnOf'[d] = turnOf[d]
  BY DEF TurnInv, TurnFits
<1>2. \A d \in Handler : TurnFits(turnOf'[d])
  BY <1>1 DEF TurnInv
<1>3. \A d \in Handler : TurnFits(turnOf[d])'
  BY <1>2 DEF TurnFits, Nothing
<1>4. QED
  BY <1>1, <1>3 DEF TurnInv

\* A turn that is told: nothing of an answer may have been left if it was cancelled,
\* or just a summary that it names.
LEMMA TellMoves ==
  ASSUME TurnInv, NEW c \in Handler, NEW reply \in TurnReply, NEW did \in SUBSET Effect,
         Tell(c, reply, did),
         reply = "cancelled" => (turnOf[c].did \cup did) \cap Answered = {},
         reply = "partial" => (turnOf[c].did \cup did) \cap Answered = {"summary"}
  PROVE  TurnInv'
<1>1. PICK row : /\ row = [NoTurn EXCEPT !.at = "told", !.reply = reply,
                                         !.did = turnOf[c].did \cup did]
                 /\ turnOf' = [turnOf EXCEPT ![c] = row]
  BY DEF Tell
<1>2. turnOf[c] \in TurnRow
  BY DEF TurnInv
<1>3. /\ row \in TurnRow /\ row.at = "told" /\ row.reply = reply
      /\ row.did = turnOf[c].did \cup did
  BY <1>1, <1>2, NoTurnFits
<1>4. TurnFits(row)
  BY <1>3 DEF TurnFits, Nothing, BeforeLane
<1>5. QED
  BY <1>1, <1>4, HandlerMoves

\* A turn that goes on to a place where nothing is asked of it, or from one place
\* before the lane to another.
LEMMA GoMoves ==
  ASSUME TurnInv, NEW c \in Handler, NEW to \in TurnPlace, NEW from \in TurnPlace,
         Go(c, from, to),
         \/ from \in BeforeLane /\ to \in BeforeLane
         \/ from = "talk" /\ to = "web"
         \/ to \in {"deliver", "relay", "complete"}
  PROVE  TurnInv'
<1>1. PICK row : row = [turnOf[c] EXCEPT !.at = to] /\ turnOf' = [turnOf EXCEPT ![c] = row]
  BY DEF Go
<1>2. turnOf[c] \in TurnRow /\ TurnFits(turnOf[c]) /\ turnOf[c].at = from
  BY DEF TurnInv, Go
<1>3. /\ row \in TurnRow /\ row.at = to /\ row.did = turnOf[c].did
      /\ row.checks = turnOf[c].checks
  BY <1>1, <1>2
<1>4. TurnFits(row)
  BY <1>2, <1>3 DEF TurnFits, Nothing, BeforeLane
<1>5. QED
  BY <1>1, <1>4, HandlerMoves

\* The reply of a conversation, which may say that it was cancelled only where
\* nothing was left.
LEMMA ReplyMoves ==
  ASSUME TurnInv, NEW c \in Handler, NEW reply \in TurnReply \ {"partial"},
         NEW did \in SUBSET Effect,
         turnOf' = [turnOf EXCEPT ![c].at = "replied", ![c].reply = reply, ![c].did = @ \cup did],
         reply = "cancelled" \/ (reply = "empty" /\ turnOf[c].checks)
           => (turnOf[c].did \cup did) \cap Answered = {}
  PROVE  TurnInv'
<1>1. turnOf[c] \in TurnRow
  BY DEF TurnInv
<1>2. PICK row : /\ row = [turnOf[c] EXCEPT !.at = "replied", !.reply = reply,
                                            !.did = turnOf[c].did \cup did]
                 /\ turnOf' = [turnOf EXCEPT ![c] = row]
  OBVIOUS
<1>3. /\ row \in TurnRow /\ row.at = "replied" /\ row.reply = reply
      /\ row.did = turnOf[c].did \cup did /\ row.checks = turnOf[c].checks
  BY <1>1, <1>2
<1>4. TurnFits(row)
  BY <1>3 DEF TurnFits, Nothing, BeforeLane
<1>5. QED
  BY <1>2, <1>4, HandlerMoves

\* Replied leaves what the turn did alone.
LEMMA PlainReply ==
  ASSUME TurnInv, NEW c \in Handler, NEW reply \in TurnReply \ {"partial"}, Replied(c, reply),
         reply = "cancelled" \/ (reply = "empty" /\ turnOf[c].checks) => Nothing(turnOf[c])
  PROVE  TurnInv'
<1>1. turnOf[c] \in TurnRow
  BY DEF TurnInv
<1>2. PICK row : /\ row = [turnOf[c] EXCEPT !.at = "replied", !.reply = reply]
                 /\ turnOf' = [turnOf EXCEPT ![c] = row]
  BY DEF Replied
<1>3. /\ row \in TurnRow /\ row.at = "replied" /\ row.reply = reply
      /\ row.did = turnOf[c].did /\ row.checks = turnOf[c].checks
  BY <1>1, <1>2
<1>4. TurnFits(row)
  BY <1>3 DEF TurnFits, Nothing, BeforeLane
<1>5. QED
  BY <1>2, <1>4, HandlerMoves

\* A conversation begins where nothing was left yet.
LEMMA ConverseMoves ==
  ASSUME TurnInv, NEW c \in Handler, turnOf[c].at = "plan", Converse(c)
  PROVE  TurnInv'
<1>1. PICK graph \in {"no", "runs", "fallback"} :
        turnOf' = [turnOf EXCEPT ![c] = [NoTurn EXCEPT !.at = "talk", !.graph = graph,
                                           !.checks = (graph # "no"), !.did = turnOf[c].did]]
  BY DEF Converse
<1>2. PICK row : /\ row = [NoTurn EXCEPT !.at = "talk", !.graph = graph,
                             !.checks = (graph # "no"), !.did = turnOf[c].did]
                 /\ turnOf' = [turnOf EXCEPT ![c] = row]
  BY <1>1
<1>3. turnOf[c] \in TurnRow /\ Nothing(turnOf[c])
  BY DEF TurnInv, TurnFits, BeforeLane
<1>4. row \in TurnRow /\ row.at = "talk" /\ row.did = turnOf[c].did
  BY <1>2, <1>3, NoTurnFits
<1>5. TurnFits(row)
  BY <1>3, <1>4 DEF TurnFits, Nothing, BeforeLane
<1>6. QED
  BY <1>2, <1>5, HandlerMoves

\* The steps before a lane.
LEMMA FirstSteps ==
  ASSUME TurnInv, NEW c \in Handler,
         \/ ReceiveTurn(c) \/ MemoryCommand(c) \/ CaptureFacts(c) \/ GateForage(c)
         \/ GatherContext(c) \/ CasualTurn(c) \/ PlanTurn(c) \/ AnswerPersonal(c)
  PROVE  TurnInv'
<1>0. turnOf[c] \in TurnRow /\ TurnFits(turnOf[c])
  BY DEF TurnInv
<1>1. ASSUME ReceiveTurn(c) PROVE TurnInv'
  <2>1. CASE Tell(c, "cancelled", {})
    BY <1>0, <1>1, <2>1, TellMoves DEF ReceiveTurn, TurnFits, Nothing, BeforeLane
  <2>2. ASSUME NEW forced \in BOOLEAN, NEW s \in Seed,
               turnOf' = [turnOf EXCEPT ![c] =
                 [NoTurn EXCEPT !.at = "facts", !.forced = forced, !.seed = IF forced THEN s ELSE @]]
        PROVE  TurnInv'
    <3>1. PICK row : /\ row = [NoTurn EXCEPT !.at = "facts", !.forced = forced,
                                 !.seed = IF forced THEN s ELSE @]
                     /\ turnOf' = [turnOf EXCEPT ![c] = row]
      BY <2>2
    <3>2. row \in TurnRow /\ row.at = "facts" /\ row.did = {}
      BY <3>1, NoTurnFits
    <3>3. TurnFits(row)
      BY <3>2 DEF TurnFits, Nothing
    <3>4. QED
      BY <3>1, <3>3, HandlerMoves
  <2>3. QED
    BY <1>1, <2>1, <2>2 DEF ReceiveTurn
<1>2. ASSUME MemoryCommand(c) PROVE TurnInv'
  BY <1>2, TellMoves DEF MemoryCommand
<1>3. ASSUME CaptureFacts(c) PROVE TurnInv'
  <2>1. PICK row : /\ row = [turnOf[c] EXCEPT
                               !.at = IF turnOf[c].forced THEN "gate" ELSE "context",
                               !.did = turnOf[c].did \cup {"fact"}]
                   /\ turnOf' = [turnOf EXCEPT ![c] = row]
    BY <1>3 DEF CaptureFacts
  <2>2. row \in TurnRow /\ row.at \in BeforeLane /\ row.did = turnOf[c].did \cup {"fact"}
    BY <1>0, <2>1 DEF BeforeLane
  <2>3. turnOf[c].at = "facts"
    BY <1>3 DEF CaptureFacts
  <2>4. TurnFits(row)
    BY <1>0, <2>2, <2>3 DEF TurnFits, Nothing, BeforeLane
  <2>5. QED
    BY <2>1, <2>4, HandlerMoves
<1>4. ASSUME GateForage(c) PROVE TurnInv'
  BY <1>4, TellMoves, GoMoves DEF GateForage, BeforeLane
<1>5. ASSUME GatherContext(c) PROVE TurnInv'
  BY <1>5, GoMoves DEF GatherContext, BeforeLane
<1>6. ASSUME CasualTurn(c) \/ PlanTurn(c) PROVE TurnInv'
  BY <1>6, GoMoves, ConverseMoves DEF CasualTurn, PlanTurn, BeforeLane
<1>7. ASSUME AnswerPersonal(c) PROVE TurnInv'
  BY <1>7, TellMoves DEF AnswerPersonal
<1>8. QED
  BY <1>1, <1>2, <1>3, <1>4, <1>5, <1>6, <1>7

\* The steps of conversation_reply and of the graph around it.
LEMMA TalkSteps ==
  ASSUME TurnInv, NEW c \in Handler,
         StartTalk(c) \/ TalkWeb(c) \/ TalkChat(c) \/ EndTalk(c)
  PROVE  TurnInv'
<1>0. turnOf[c] \in TurnRow /\ TurnFits(turnOf[c])
  BY DEF TurnInv
<1>1. ASSUME StartTalk(c) PROVE TurnInv'
  <2>1. turnOf[c].checks => Nothing(turnOf[c])
    BY <1>0, <1>1 DEF StartTalk, TurnFits
  <2>2. QED
    BY <1>1, <2>1, PlainReply, GoMoves DEF StartTalk, Stopped
<1>2. ASSUME TalkWeb(c) PROVE TurnInv'
  <2>1. (turnOf[c].checks => Nothing(turnOf[c])) /\ turnOf[c].at = "web"
    BY <1>0, <1>2 DEF TalkWeb, TurnFits
  <2>2. PICK did \in {{}, {"web"}} :
          \/ turnOf' = [turnOf EXCEPT ![c].at = "chat", ![c].did = @ \cup did]
          \/ \E reply \in IF Stopped(c) THEN {"cancelled"} ELSE {"answer"} :
               turnOf' = [turnOf EXCEPT ![c].at = "replied", ![c].reply = reply,
                                        ![c].did = @ \cup did]
    BY <1>2 DEF TalkWeb, WebAsked, Prompted
  <2>3. ASSUME turnOf' = [turnOf EXCEPT ![c].at = "chat", ![c].did = @ \cup did]
        PROVE  TurnInv'
    <3>1. PICK row : /\ row = [turnOf[c] EXCEPT !.at = "chat", !.did = turnOf[c].did \cup did]
                     /\ turnOf' = [turnOf EXCEPT ![c] = row]
      BY <2>3
    <3>2. /\ row \in TurnRow /\ row.at = "chat" /\ row.did = turnOf[c].did \cup did
          /\ row.checks = turnOf[c].checks
      BY <1>0, <3>1
    <3>3. TurnFits(row)
      BY <2>1, <3>2 DEF TurnFits, Nothing, BeforeLane
    <3>4. QED
      BY <3>1, <3>3, HandlerMoves
  <2>4. ASSUME NEW reply \in IF Stopped(c) THEN {"cancelled"} ELSE {"answer"},
               turnOf' = [turnOf EXCEPT ![c].at = "replied", ![c].reply = reply,
                                        ![c].did = @ \cup did]
        PROVE  TurnInv'
    <3>1. reply \in TurnReply \ {"partial"} /\ did \in SUBSET Effect
          /\ reply \in {"cancelled", "answer"}
      BY <2>4
    <3>2. reply = "cancelled" => (turnOf[c].did \cup did) \cap Answered = {}
      BY <2>1, <2>4 DEF Stopped, Nothing
    <3>3. QED
      BY <2>4, <3>1, <3>2, ReplyMoves
  <2>5. QED
    BY <2>2, <2>3, <2>4
<1>3. ASSUME TalkChat(c) PROVE TurnInv'
  <2>1. turnOf[c].checks => Nothing(turnOf[c])
    BY <1>0, <1>3 DEF TalkChat, TurnFits
  <2>2. ASSUME Replied(c, "answer") \/ (Stopped(c) /\ Replied(c, "cancelled")) PROVE TurnInv'
    BY <2>1, <2>2, PlainReply DEF Stopped
  <2>3. ASSUME turnOf' = [turnOf EXCEPT ![c].at = "replied", ![c].reply = "answer",
                                        ![c].did = @ \cup {"note"}]
        PROVE  TurnInv'
    <3>1. "answer" \in TurnReply \ {"partial"} /\ {"note"} \in SUBSET Effect
      OBVIOUS
    <3>2. QED
      BY <2>3, <3>1, ReplyMoves
  <2>4. QED
    BY <1>3, <2>2, <2>3 DEF TalkChat
<1>4. ASSUME EndTalk(c) PROVE TurnInv'
  <2>1. ASSUME turnOf[c].at = "replied", Tell(c, turnOf[c].reply, {}) PROVE TurnInv'
    <3>1. /\ turnOf[c].reply \in TurnReply \ {"partial"}
          /\ turnOf[c].reply = "cancelled" => (turnOf[c].did \cup {}) \cap Answered = {}
      BY <1>0, <2>1 DEF TurnFits, Nothing
    <3>2. QED
      BY <2>1, <3>1, TellMoves
  <2>2. ASSUME turnOf[c].at = "replied", turnOf[c].reply = "empty",
               turnOf' = [turnOf EXCEPT ![c].at = "talk", ![c].graph = "fallback"]
        PROVE  TurnInv'
    <3>1. PICK row : /\ row = [turnOf[c] EXCEPT !.at = "talk", !.graph = "fallback"]
                     /\ turnOf' = [turnOf EXCEPT ![c] = row]
      BY <2>2
    <3>2. /\ row \in TurnRow /\ row.at = "talk" /\ row.did = turnOf[c].did
          /\ row.checks = turnOf[c].checks
      BY <1>0, <3>1
    <3>3. TurnFits(row)
      BY <1>0, <2>2, <3>2 DEF TurnFits, Nothing, BeforeLane
    <3>4. QED
      BY <3>1, <3>3, HandlerMoves
  <2>3. ASSUME turnOf' = [turnOf EXCEPT ![c].at = "talk", ![c].graph = "no", ![c].checks = FALSE]
        PROVE  TurnInv'
    <3>1. PICK row : /\ row = [turnOf[c] EXCEPT !.at = "talk", !.graph = "no", !.checks = FALSE]
                     /\ turnOf' = [turnOf EXCEPT ![c] = row]
      BY <2>3
    <3>2. row \in TurnRow /\ row.at = "talk" /\ ~row.checks
      BY <1>0, <3>1
    <3>3. TurnFits(row)
      BY <3>2 DEF TurnFits, BeforeLane
    <3>4. QED
      BY <3>1, <3>3, HandlerMoves
  <2>4. QED
    BY <1>4, <2>1, <2>2, <2>3 DEF EndTalk
<1>5. QED
  BY <1>1, <1>2, <1>3, <1>4

\* What a reply of the research lane leaves, by how it was cancelled.
LEMMA ReplyFits ==
  ASSUME NEW c, NEW r \in ResearchReply(c)
  PROVE  /\ r.reply \in TurnReply /\ r.did \in SUBSET Effect
         /\ r.reply = "cancelled" => r.did = {}
         /\ r.reply = "partial" => r.did \in {{"summary"}, {"web", "summary"}}
<1> DEFINE Failed == {[reply |-> "failed", did |-> did] : did \in SUBSET {"web", "summary"}}
<1>1. ASSUME r \in Failed
      PROVE  r.reply = "failed" /\ r.did \in SUBSET Effect
  <2>1. PICK did \in SUBSET {"web", "summary"} : r = [reply |-> "failed", did |-> did]
    BY <1>1
  <2>2. QED
    BY <2>1
<1>2. ASSUME r \notin Failed
      PROVE  \/ r = [reply |-> "answer", did |-> {"web", "summary", "cycle", "note"}]
             \/ r = [reply |-> "refused", did |-> {}]
             \/ r = [reply |-> "cancelled", did |-> {}]
             \/ r = [reply |-> "partial", did |-> {"summary"}]
             \/ r = [reply |-> "partial", did |-> {"web", "summary"}]
  BY <1>2, Zenon DEF ResearchReply
<1>3. QED
  BY <1>1, <1>2

\* The steps of the lanes that work, and of their relay.
LEMMA LaneSteps ==
  ASSUME TurnInv, NEW c \in Handler,
         \/ ResearchLane(c) \/ MakeLane(c) \/ AgentLane(c) \/ DeliverByAgent(c)
         \/ DeliverText(c) \/ DeliverByModel(c) \/ RelayWork(c) \/ CompleteTurn(c)
  PROVE  TurnInv'
<1>0. turnOf[c] \in TurnRow /\ TurnFits(turnOf[c])
  BY DEF TurnInv
<1>1. ASSUME ResearchLane(c) PROVE TurnInv'
  <2>1. PICK r \in ResearchReply(c) : Tell(c, r.reply, r.did)
    BY <1>1 DEF ResearchLane
  <2>2. /\ r.reply \in TurnReply /\ r.did \in SUBSET Effect
        /\ r.reply = "cancelled" => r.did = {}
        /\ r.reply = "partial" => r.did \in {{"summary"}, {"web", "summary"}}
    BY ReplyFits
  <2>3. Nothing(turnOf[c])
    BY <1>0, <1>1 DEF ResearchLane, TurnFits, BeforeLane
  <2>4. r.reply = "cancelled" => (turnOf[c].did \cup r.did) \cap Answered = {}
    BY <2>2, <2>3 DEF Nothing
  <2>5. r.reply = "partial" => (turnOf[c].did \cup r.did) \cap Answered = {"summary"}
    BY <2>2, <2>3 DEF Nothing
  <2>6. QED
    BY <2>1, <2>2, <2>4, <2>5, TellMoves
<1>2. ASSUME Delivered(c) PROVE TurnInv'
  <2>1. PICK row : /\ row = [turnOf[c] EXCEPT !.at = "relay", !.did = turnOf[c].did \cup {"file"}]
                   /\ turnOf' = [turnOf EXCEPT ![c] = row]
    BY <1>2 DEF Delivered
  <2>2. row \in TurnRow /\ row.at = "relay"
    BY <1>0, <2>1
  <2>3. TurnFits(row)
    BY <2>2 DEF TurnFits, BeforeLane
  <2>4. QED
    BY <2>1, <2>3, HandlerMoves
<1>3. ASSUME Tell(c, "failed", {}) PROVE TurnInv'
  BY <1>3, TellMoves
<1>4. ASSUME MakeLane(c) \/ AgentLane(c) PROVE TurnInv'
  <2>1. Nothing(turnOf[c])
    BY <1>0, <1>4 DEF MakeLane, AgentLane, TurnFits, BeforeLane
  <2>2. ASSUME Tell(c, "cancelled", {}) PROVE TurnInv'
    BY <2>1, <2>2, TellMoves DEF Nothing
  <2>3. QED
    BY <1>2, <1>3, <1>4, <2>2, GoMoves DEF MakeLane, AgentLane
<1>5. ASSUME DeliverByAgent(c) \/ DeliverText(c) \/ DeliverByModel(c) PROVE TurnInv'
  BY <1>2, <1>3, <1>5, GoMoves DEF DeliverByAgent, DeliverText, DeliverByModel
<1>6. ASSUME RelayWork(c) PROVE TurnInv'
  BY <1>6, GoMoves DEF RelayWork
<1>7. ASSUME CompleteTurn(c) PROVE TurnInv'
  <2>1. PICK cycle \in SUBSET {"cycle"} : Tell(c, "answer", cycle \cup {"note"})
    BY <1>7 DEF CompleteTurn
  <2>2. cycle \cup {"note"} \in SUBSET Effect
    BY <2>1
  <2>3. QED
    BY <2>1, <2>2, TellMoves
<1>8. QED
  BY <1>1, <1>4, <1>5, <1>6, <1>7

LEMMA TurnNextInv == TurnInv /\ [TurnNext]_turnVars => TurnInv'
<1> SUFFICES ASSUME TurnInv, [TurnNext]_turnVars PROVE TurnInv'
  OBVIOUS
<1>1. ASSUME UNCHANGED turnOf PROVE TurnInv'
  BY <1>1 DEF TurnInv, TurnFits, Nothing
<1>2. ASSUME NEW c \in Handler, ReturnTurn(c) PROVE TurnInv'
  BY <1>2, NoTurnFits, HandlerMoves DEF ReturnTurn
<1>3. ASSUME NEW c \in Handler, RequestCancel(c) PROVE TurnInv'
  BY <1>1, <1>3 DEF RequestCancel
<1>4. CASE AgeRow
  BY <1>1, <1>4 DEF AgeRow
<1>5. CASE UNCHANGED turnVars
  BY <1>1, <1>5 DEF turnVars
<1>6. QED
  BY <1>2, <1>3, <1>4, <1>5, FirstSteps, TalkSteps, LaneSteps DEF TurnNext

\* A turn that says it was cancelled tells all it leaves of an answer, for any callers
\* and however often the graph ran the reply (handle_message, conversation_reply, and
\* the partial summary of a cancelled forage).
THEOREM CancelledTurnsTellAll == TurnSpec => []CancelledTellsAll
<1>1. TurnInv => CancelledTellsAll
  BY DEF TurnInv, TurnFits, Nothing, CancelledTellsAll
<1>2. QED
  BY <1>1, TurnInitInv, TurnNextInv, PTL DEF TurnSpec

-----------------------------------------------------------------------------

\* A forage that passed the gate and has not written its row.
Inside(row) == row.forced /\ row.at \in {"context", "plan", "research"}
Admitted == {c \in Handler : Inside(turnOf[c])}

\* A gate lets one in when there are fewer rows than the limit, whoever is inside
\* then: rows and forages inside are bounded together.
BudgetInv ==
  /\ forageLog \in Seq(LogRow) /\ Len(forageLog) <= MaxRow
  /\ cancel \in [Handler -> BOOLEAN]
  /\ Cardinality(Recent) + Cardinality(Admitted) <= ForageLimit + Cardinality(Handler) - 1

LEMMA Finite ==
  ASSUME forageLog \in Seq(LogRow)
  PROVE  /\ IsFiniteSet(Recent) /\ Cardinality(Recent) \in Nat
         /\ IsFiniteSet(Admitted) /\ Cardinality(Admitted) \in Nat
         /\ IsFiniteSet(Handler) /\ Cardinality(Handler) \in Nat
         /\ Cardinality(Admitted) <= Cardinality(Handler)
<1>1. Recent \in SUBSET (1 .. Len(forageLog)) /\ Len(forageLog) \in Nat
  BY DEF Recent
<1>2. IsFiniteSet(1 .. Len(forageLog))
  BY <1>1, FS_Interval
<1>3. IsFiniteSet(Recent)
  BY <1>1, <1>2, FS_Subset
<1>4. Admitted \in SUBSET Handler
  BY DEF Admitted
<1>5. IsFiniteSet(Admitted) /\ Cardinality(Admitted) <= Cardinality(Handler)
  BY <1>4, TurnAssumption, FS_Subset DEF TurnAssumption
<1>6. QED
  BY <1>3, <1>5, TurnAssumption, FS_CardinalityType DEF TurnAssumption

LEMMA FiniteNext ==
  ASSUME forageLog' \in Seq(LogRow)
  PROVE  IsFiniteSet(Recent') /\ Cardinality(Recent') \in Nat
<1>1. Recent' \in SUBSET (1 .. Len(forageLog')) /\ Len(forageLog') \in Nat
  BY DEF Recent
<1>2. IsFiniteSet(1 .. Len(forageLog'))
  BY <1>1, FS_Interval
<1>3. IsFiniteSet(Recent')
  BY <1>1, <1>2, FS_Subset
<1>4. QED
  BY <1>3, FS_CardinalityType

\* The log: a row is appended, or grows old, or is dropped.
LEMMA LogGrows ==
  ASSUME forageLog \in Seq(LogRow), NEW row \in LogRow, forageLog' = Append(forageLog, row)
  PROVE  Cardinality(Recent') <= Cardinality(Recent) + 1
<1>0. /\ Len(forageLog) \in Nat /\ DOMAIN forageLog = 1 .. Len(forageLog)
      /\ DOMAIN forageLog' = 1 .. Len(forageLog) + 1
      /\ \A i \in 1 .. Len(forageLog) : forageLog'[i] = forageLog[i]
  OBVIOUS
<1>1. Recent' \subseteq Recent \cup {Len(forageLog) + 1}
  <2>1. ASSUME NEW i \in 1 .. Len(forageLog) + 1, forageLog'[i].fresh, i # Len(forageLog) + 1
        PROVE  i \in 1 .. Len(forageLog) /\ forageLog[i].fresh
    BY <1>0, <2>1
  <2>2. QED
    BY <1>0, <2>1 DEF Recent
<1>2. IsFiniteSet(Recent \cup {Len(forageLog) + 1})
      /\ Cardinality(Recent \cup {Len(forageLog) + 1}) <= Cardinality(Recent) + 1
  <2>1. IsFiniteSet(Recent) /\ Cardinality(Recent) \in Nat
    BY Finite
  <2> DEFINE n == Len(forageLog) + 1
  <2> HIDE DEF n
  <2>2. IsFiniteSet(Recent \cup {n})
        /\ Cardinality(Recent \cup {n}) = IF n \in Recent THEN Cardinality(Recent)
                                                          ELSE Cardinality(Recent) + 1
    BY <2>1, FS_AddElement
  <2>3. IsFiniteSet(Recent \cup {n}) /\ Cardinality(Recent \cup {n}) <= Cardinality(Recent) + 1
    BY <2>1, <2>2
  <2>4. QED
    BY <2>3 DEF n
<1>3. IsFiniteSet(Recent') /\ Cardinality(Recent') <= Cardinality(Recent \cup {Len(forageLog) + 1})
  BY <1>1, <1>2, FS_Subset
<1>4. Cardinality(Recent') \in Nat /\ Cardinality(Recent \cup {Len(forageLog) + 1}) \in Nat
  BY <1>2, <1>3, FS_CardinalityType
<1>5. QED
  BY <1>2, <1>3, <1>4, Finite

LEMMA LogAges ==
  ASSUME forageLog \in Seq(LogRow), AgeRow
  PROVE  /\ forageLog' \in Seq(LogRow) /\ Len(forageLog') <= Len(forageLog)
         /\ Cardinality(Recent') <= Cardinality(Recent)
<1>1. CASE forageLog' = Tail(forageLog)
  <2>0. forageLog # <<>>
    BY DEF AgeRow
  <2>1. /\ forageLog' \in Seq(LogRow) /\ Len(forageLog') = Len(forageLog) - 1
        /\ \A i \in 1 .. Len(forageLog') : forageLog'[i] = forageLog[i + 1]
    BY <1>1, <2>0, HeadTailProperties
  <2>a. /\ Len(forageLog) \in Nat /\ DOMAIN forageLog = 1 .. Len(forageLog)
        /\ DOMAIN forageLog' = 1 .. Len(forageLog) - 1
    BY <2>1
  <2>b. \A i \in Recent' : i \in Nat /\ i + 1 \in Recent
    BY <2>1, <2>a DEF Recent
  <2> DEFINE f == [i \in Recent' |-> i + 1]
  <2>2. f \in Injection(Recent', Recent)
    <3>1. f \in [Recent' -> Recent]
      BY <2>b
    <3>2. \A i, j \in Recent' : f[i] = f[j] => i = j
      BY <2>b
    <3>3. QED
      BY <3>1, <3>2 DEF Injection, IsInjective
  <2>3. QED
    BY <2>1, <2>2, Finite, FS_Injection
<1>2. CASE \E i \in DOMAIN forageLog : forageLog' = [forageLog EXCEPT ![i].fresh = FALSE]
  <2>1. PICK i \in DOMAIN forageLog : forageLog' = [forageLog EXCEPT ![i].fresh = FALSE]
    BY <1>2
  <2>2. forageLog[i] \in LogRow /\ [forageLog[i] EXCEPT !.fresh = FALSE] \in LogRow
        /\ [forageLog[i] EXCEPT !.fresh = FALSE].fresh = FALSE
    <3>1. forageLog[i] \in LogRow
      OBVIOUS
    <3>2. QED
      BY <3>1 DEF LogRow
  <2>3. forageLog' = [forageLog EXCEPT ![i] = [forageLog[i] EXCEPT !.fresh = FALSE]]
    BY <2>1
  <2>4. /\ forageLog' \in Seq(LogRow) /\ Len(forageLog') = Len(forageLog)
        /\ \A j \in DOMAIN forageLog \ {i} : forageLog'[j] = forageLog[j]
        /\ ~forageLog'[i].fresh
    <3> DEFINE row == [forageLog[i] EXCEPT !.fresh = FALSE]
    <3>1. row \in LogRow /\ ~row.fresh /\ forageLog' = [forageLog EXCEPT ![i] = row]
      BY <2>2, <2>3
    <3> HIDE DEF row
    <3>2. i \in 1 .. Len(forageLog)
      OBVIOUS
    <3>3. QED
      BY <3>1, <3>2, ExceptSeq
  <2>a. DOMAIN forageLog' = DOMAIN forageLog
    BY <2>4
  <2>5. Recent' \subseteq Recent
    BY <2>4, <2>a DEF Recent
  <2>6. QED
    BY <2>4, <2>5, Finite, FS_Subset
<1>3. QED
  BY <1>1, <1>2 DEF AgeRow

\* A step that lets nobody in.
LEMMA NobodyEnters ==
  ASSUME BudgetInv, forageLog' = forageLog, cancel' \in [Handler -> BOOLEAN],
         \A c \in Handler : Inside(turnOf'[c]) => Inside(turnOf[c])
  PROVE  BudgetInv'
<1>1. Admitted' \subseteq Admitted
  BY DEF Admitted, Inside
<1>2. Cardinality(Admitted') <= Cardinality(Admitted) /\ Cardinality(Admitted') \in Nat
  BY <1>1, Finite, FS_Subset, FS_CardinalityType DEF BudgetInv
<1>3. Recent' = Recent
  BY DEF Recent
<1>4. QED
  BY <1>2, <1>3, Finite, TurnAssumption DEF BudgetInv, TurnAssumption

\* A step that changes one turn, to a row of which it is known whether it is inside.
LEMMA OneTurn ==
  ASSUME TurnInv, NEW c \in Handler, NEW row, turnOf' = [turnOf EXCEPT ![c] = row],
         Inside(row) => Inside(turnOf[c])
  PROVE  \A d \in Handler : Inside(turnOf'[d]) => Inside(turnOf[d])
  BY DEF TurnInv

LEMMA NothingInside ==
  ASSUME TurnInv, NEW c \in Handler,
         \/ \E reply \in TurnReply, did \in SUBSET Effect : Tell(c, reply, did)
         \/ Converse(c)
  PROVE  \A d \in Handler : Inside(turnOf'[d]) => Inside(turnOf[d])
<1>1. CASE \E reply \in TurnReply, did \in SUBSET Effect : Tell(c, reply, did)
  <2>1. PICK row : row.at = "told" /\ turnOf' = [turnOf EXCEPT ![c] = row]
    <3>1. PICK reply \in TurnReply, did \in SUBSET Effect : Tell(c, reply, did)
      BY <1>1
    <3> DEFINE new == [NoTurn EXCEPT !.at = "told", !.reply = reply,
                                     !.did = turnOf[c].did \cup did]
    <3>2. new.at = "told"
      BY DEF NoTurn
    <3>3. turnOf' = [turnOf EXCEPT ![c] = new]
      BY <3>1 DEF Tell
    <3>4. QED
      BY <3>2, <3>3
  <2>2. QED
    BY <2>1, OneTurn DEF Inside
<1>2. CASE Converse(c)
  <2>1. PICK row : row.at = "talk" /\ turnOf' = [turnOf EXCEPT ![c] = row]
    <3>1. PICK graph \in {"no", "runs", "fallback"} :
            turnOf' = [turnOf EXCEPT ![c] = [NoTurn EXCEPT !.at = "talk", !.graph = graph,
                                             !.checks = (graph # "no"), !.did = turnOf[c].did]]
      BY <1>2 DEF Converse
    <3> DEFINE new == [NoTurn EXCEPT !.at = "talk", !.graph = graph,
                                     !.checks = (graph # "no"), !.did = turnOf[c].did]
    <3>2. new.at = "talk"
      BY DEF NoTurn
    <3>3. QED
      BY <3>1, <3>2
  <2>2. QED
    BY <2>1, OneTurn DEF Inside
<1>3. QED
  BY <1>1, <1>2

\* The budget is kept by a step of each kind: a gate, a lane of research, the clock.
LEMMA GateKeepsBudget ==
  ASSUME TurnInv, BudgetInv, NEW c \in Handler, GateForage(c)
  PROVE  BudgetInv'
<1>0. forageLog' = forageLog /\ cancel' = cancel
  BY DEF GateForage
<1>1. CASE Tell(c, "refused", {})
  BY <1>0, <1>1, NothingInside, NobodyEnters DEF BudgetInv
<1>2. CASE \E override \in BOOLEAN : Admits(turnOf[c].seed, override)
  <2>1. Cardinality(Recent) < ForageLimit
    BY <1>2 DEF Admits
  <2>2. Recent' = Recent
    BY <1>0 DEF Recent
  <2>3. IsFiniteSet(Admitted') /\ Cardinality(Admitted') <= Cardinality(Handler)
        /\ Cardinality(Admitted') \in Nat
    <3>1. Admitted' \in SUBSET Handler
      BY DEF Admitted
    <3>2. QED
      BY <3>1, TurnAssumption, FS_Subset, FS_CardinalityType DEF TurnAssumption
  <2>4. Cardinality(Recent) \in Nat /\ Cardinality(Handler) \in Nat
    BY Finite DEF BudgetInv
  <2>5. Cardinality(Recent') + Cardinality(Admitted') <= ForageLimit + Cardinality(Handler) - 1
    BY <2>1, <2>2, <2>3, <2>4, TurnAssumption DEF TurnAssumption
  <2>6. QED
    BY <1>0, <2>5 DEF BudgetInv
<1>3. QED
  BY <1>1, <1>2 DEF GateForage

LEMMA ResearchKeepsBudget ==
  ASSUME TurnInv, BudgetInv, NEW c \in Handler, ResearchLane(c)
  PROVE  BudgetInv'
<1>1. PICK r \in ResearchReply(c) :
        /\ Tell(c, r.reply, r.did)
        /\ \/ /\ turnOf[c].forced /\ Len(forageLog) < MaxRow
              /\ forageLog' = Append(forageLog, [seed |-> turnOf[c].seed, fresh |-> TRUE])
           \/ UNCHANGED forageLog
  BY DEF ResearchLane
<1>2. r.reply \in TurnReply /\ r.did \in SUBSET Effect /\ cancel' = cancel
  BY ReplyFits DEF ResearchLane
<1>3. \A d \in Handler : Inside(turnOf'[d]) => Inside(turnOf[d])
  BY <1>1, <1>2, NothingInside
<1>4. CASE UNCHANGED forageLog
  BY <1>2, <1>3, <1>4, NobodyEnters DEF BudgetInv
<1>5. CASE turnOf[c].forced /\ Len(forageLog) < MaxRow
           /\ forageLog' = Append(forageLog, [seed |-> turnOf[c].seed, fresh |-> TRUE])
  <2>1. turnOf[c] \in TurnRow /\ [seed |-> turnOf[c].seed, fresh |-> TRUE] \in LogRow
    BY DEF TurnInv, LogRow
  <2>2. /\ Cardinality(Recent') <= Cardinality(Recent) + 1
        /\ forageLog' \in Seq(LogRow) /\ Len(forageLog') <= MaxRow
    <3>1. Len(forageLog) \in Nat /\ MaxRow \in Nat /\ forageLog \in Seq(LogRow)
      BY TurnAssumption DEF BudgetInv, TurnAssumption
    <3>2. QED
      BY <1>5, <2>1, <3>1, LogGrows
  <2>3. Inside(turnOf[c]) /\ ~Inside(turnOf'[c])
    <3>1. Inside(turnOf[c])
      BY <1>5 DEF ResearchLane, Inside
    <3>2. turnOf'[c].at = "told"
      BY <1>1, NoTurnFits DEF Tell, TurnInv
    <3>3. QED
      BY <3>1, <3>2 DEF Inside
  <2>4. c \in Admitted /\ Admitted' \subseteq Admitted \ {c}
    BY <1>3, <2>3 DEF Admitted, Inside
  <2>5. IsFiniteSet(Admitted) /\ Cardinality(Admitted) \in Nat
        /\ Cardinality(Recent) \in Nat /\ Cardinality(Handler) \in Nat
    BY Finite DEF BudgetInv
  <2>6. IsFiniteSet(Admitted \ {c}) /\ Cardinality(Admitted \ {c}) = Cardinality(Admitted) - 1
    BY <2>4, <2>5, FS_RemoveElement
  <2>7. IsFiniteSet(Admitted') /\ Cardinality(Admitted') <= Cardinality(Admitted) - 1
        /\ Cardinality(Admitted') \in Nat
    BY <2>4, <2>6, FS_Subset, FS_CardinalityType
  <2>8. Cardinality(Recent') \in Nat
    BY <2>2, FiniteNext
  <2>9. Cardinality(Recent') + Cardinality(Admitted') <= ForageLimit + Cardinality(Handler) - 1
    BY <2>2, <2>5, <2>7, <2>8, TurnAssumption DEF BudgetInv, TurnAssumption
  <2>10. QED
    BY <1>2, <2>2, <2>9 DEF BudgetInv
<1>6. QED
  BY <1>1, <1>4, <1>5

LEMMA ClockKeepsBudget ==
  ASSUME TurnInv, BudgetInv, AgeRow
  PROVE  BudgetInv'
<1>1. forageLog \in Seq(LogRow) /\ turnOf' = turnOf /\ cancel' = cancel
  BY DEF BudgetInv, AgeRow
<1>2. /\ forageLog' \in Seq(LogRow) /\ Len(forageLog') <= Len(forageLog)
      /\ Cardinality(Recent') <= Cardinality(Recent)
  BY <1>1, LogAges
<1>3. Admitted' = Admitted
  BY <1>1 DEF Admitted, Inside
<1>4. Cardinality(Recent') \in Nat
  BY <1>2, FiniteNext
<1>5. /\ Len(forageLog) \in Nat /\ Len(forageLog') \in Nat
      /\ Cardinality(Recent) \in Nat /\ Cardinality(Admitted) \in Nat /\ Cardinality(Handler) \in Nat
  BY <1>1, <1>2, Finite
<1>6. QED
  BY <1>1, <1>2, <1>3, <1>4, <1>5, TurnAssumption DEF BudgetInv, TurnAssumption

\* Every other step of a turn lets nobody in.
LEMMA PlaceMoves ==
  ASSUME TurnInv, NEW c \in Handler, NEW to \in TurnPlace, NEW from \in TurnPlace,
         Go(c, from, to),
         to \in {"context", "plan", "research"} => from \in {"context", "plan", "research"}
  PROVE  \A d \in Handler : Inside(turnOf'[d]) => Inside(turnOf[d])
<1> DEFINE row == [turnOf[c] EXCEPT !.at = to]
<1>1. turnOf[c] \in TurnRow /\ turnOf[c].at = from /\ turnOf' = [turnOf EXCEPT ![c] = row]
  BY DEF TurnInv, Go
<1>2. row.at = to /\ row.forced = turnOf[c].forced
  BY <1>1
<1> HIDE DEF row
<1>3. QED
  BY <1>1, <1>2, OneTurn DEF Inside

\* A row at a place that no forage is inside at.
LEMMA AwayMoves ==
  ASSUME TurnInv, NEW c \in Handler, NEW row, row.at \notin {"context", "plan", "research"},
         turnOf' = [turnOf EXCEPT ![c] = row]
  PROVE  \A d \in Handler : Inside(turnOf'[d]) => Inside(turnOf[d])
  BY OneTurn DEF Inside

LEMMA FirstStepsEnter ==
  ASSUME TurnInv, NEW c \in Handler,
         \/ ReceiveTurn(c) \/ MemoryCommand(c) \/ CaptureFacts(c)
         \/ GatherContext(c) \/ CasualTurn(c) \/ PlanTurn(c) \/ AnswerPersonal(c)
  PROVE  \A d \in Handler : Inside(turnOf'[d]) => Inside(turnOf[d])
<1> DEFINE Q == \A d \in Handler : Inside(turnOf'[d]) => Inside(turnOf[d])
<1>0. turnOf[c] \in TurnRow
  BY DEF TurnInv
<1>a. ASSUME NEW reply \in TurnReply, NEW did \in SUBSET Effect, Tell(c, reply, did) PROVE Q
  BY <1>a, NothingInside
<1>1. ASSUME ReceiveTurn(c) PROVE Q
  <2>1. ASSUME NEW forced \in BOOLEAN, NEW s \in Seed,
               turnOf' = [turnOf EXCEPT ![c] =
                 [NoTurn EXCEPT !.at = "facts", !.forced = forced, !.seed = IF forced THEN s ELSE @]]
        PROVE  Q
    <3> DEFINE row == [NoTurn EXCEPT !.at = "facts", !.forced = forced, !.seed = IF forced THEN s ELSE @]
    <3>1. row.at = "facts" /\ turnOf' = [turnOf EXCEPT ![c] = row]
      BY <2>1, NoTurnFits
    <3> HIDE DEF row
    <3>2. QED
      BY <3>1, AwayMoves
  <2>2. "cancelled" \in TurnReply /\ {} \in SUBSET Effect
    OBVIOUS
  <2>3. QED
    BY <1>1, <1>a, <2>1, <2>2 DEF ReceiveTurn
<1>2. ASSUME MemoryCommand(c) \/ AnswerPersonal(c) PROVE Q
  <2>1. PICK did \in {{}, {"fact"}, {"approval"}} : Tell(c, "answer", did)
    BY <1>2 DEF MemoryCommand, AnswerPersonal
  <2>2. "answer" \in TurnReply /\ did \in SUBSET Effect
    OBVIOUS
  <2>3. QED
    BY <1>a, <2>1, <2>2
<1>3. ASSUME CaptureFacts(c) PROVE Q
  <2> DEFINE row == [turnOf[c] EXCEPT !.at = IF turnOf[c].forced THEN "gate" ELSE "context",
                                      !.did = @ \cup {"fact"}]
  <2>1. /\ turnOf' = [turnOf EXCEPT ![c] = row] /\ row.forced = turnOf[c].forced
        /\ row.at = IF turnOf[c].forced THEN "gate" ELSE "context"
    BY <1>0, <1>3 DEF CaptureFacts
  <2> HIDE DEF row
  <2>2. QED
    BY <1>0, <2>1, OneTurn DEF Inside
<1>4. ASSUME GatherContext(c) PROVE Q
  BY <1>4, PlaceMoves DEF GatherContext
<1>5. ASSUME CasualTurn(c) \/ PlanTurn(c) PROVE Q
  BY <1>5, PlaceMoves, NothingInside DEF CasualTurn, PlanTurn
<1>6. QED
  BY <1>1, <1>2, <1>3, <1>4, <1>5

LEMMA TalkStepsEnter ==
  ASSUME TurnInv, NEW c \in Handler,
         StartTalk(c) \/ TalkWeb(c) \/ TalkChat(c) \/ EndTalk(c)
  PROVE  \A d \in Handler : Inside(turnOf'[d]) => Inside(turnOf[d])
<1> DEFINE Q == \A d \in Handler : Inside(turnOf'[d]) => Inside(turnOf[d])
<1>0. turnOf[c] \in TurnRow
  BY DEF TurnInv
<1>1. ASSUME NEW at \in {"replied", "chat", "talk"}, NEW row,
             row.at = at, turnOf' = [turnOf EXCEPT ![c] = row]
      PROVE  Q
  BY <1>1, AwayMoves
<1>2. ASSUME NEW reply, Replied(c, reply) PROVE Q
  <2> DEFINE row == [turnOf[c] EXCEPT !.at = "replied", !.reply = reply]
  <2>1. row.at = "replied" /\ turnOf' = [turnOf EXCEPT ![c] = row]
    BY <1>0, <1>2 DEF Replied
  <2> HIDE DEF row
  <2>2. QED
    BY <1>1, <2>1
<1>3. ASSUME StartTalk(c) PROVE Q
  BY <1>2, <1>3, PlaceMoves DEF StartTalk
<1>4. ASSUME TalkWeb(c) PROVE Q
  <2>1. PICK did \in {{}, {"web"}}, reply \in {"cancelled", "answer"} :
          \/ turnOf' = [turnOf EXCEPT ![c].at = "chat", ![c].did = @ \cup did]
          \/ turnOf' = [turnOf EXCEPT ![c].at = "replied", ![c].reply = reply, ![c].did = @ \cup did]
    BY <1>4 DEF TalkWeb, WebAsked, Prompted
  <2> DEFINE r1 == [turnOf[c] EXCEPT !.at = "chat", !.did = @ \cup did]
             r2 == [turnOf[c] EXCEPT !.at = "replied", !.reply = reply, !.did = @ \cup did]
  <2>2. r1.at = "chat" /\ r2.at = "replied"
    BY <1>0
  <2>3. turnOf' = [turnOf EXCEPT ![c] = r1] \/ turnOf' = [turnOf EXCEPT ![c] = r2]
    BY <2>1
  <2> HIDE DEF r1, r2
  <2>4. QED
    BY <1>1, <2>2, <2>3
<1>5. ASSUME TalkChat(c) PROVE Q
  <2> DEFINE row == [turnOf[c] EXCEPT !.at = "replied", !.reply = "answer", !.did = @ \cup {"note"}]
  <2>1. row.at = "replied"
    BY <1>0
  <2>2. \/ \E reply \in {"answer", "cancelled"} : Replied(c, reply)
        \/ turnOf' = [turnOf EXCEPT ![c] = row]
    BY <1>5 DEF TalkChat
  <2> HIDE DEF row
  <2>3. QED
    BY <1>1, <1>2, <2>1, <2>2
<1>6. ASSUME EndTalk(c) PROVE Q
  <2> DEFINE r1 == [turnOf[c] EXCEPT !.at = "talk", !.graph = "fallback"]
             r2 == [turnOf[c] EXCEPT !.at = "talk", !.graph = "no", !.checks = FALSE]
  <2>1. r1.at = "talk" /\ r2.at = "talk"
    BY <1>0
  <2>2. \/ Tell(c, turnOf[c].reply, {})
        \/ turnOf' = [turnOf EXCEPT ![c] = r1] \/ turnOf' = [turnOf EXCEPT ![c] = r2]
    BY <1>6 DEF EndTalk
  <2> HIDE DEF r1, r2
  <2>3. Tell(c, turnOf[c].reply, {}) => Q
    BY <1>0, NothingInside
  <2>4. QED
    BY <1>1, <2>1, <2>2, <2>3
<1>7. QED
  BY <1>3, <1>4, <1>5, <1>6

LEMMA LaneStepsEnter ==
  ASSUME TurnInv, NEW c \in Handler,
         \/ MakeLane(c) \/ AgentLane(c) \/ DeliverByAgent(c) \/ DeliverText(c)
         \/ DeliverByModel(c) \/ RelayWork(c) \/ CompleteTurn(c) \/ ReturnTurn(c)
  PROVE  \A d \in Handler : Inside(turnOf'[d]) => Inside(turnOf[d])
<1> DEFINE Q == \A d \in Handler : Inside(turnOf'[d]) => Inside(turnOf[d])
<1>0. turnOf[c] \in TurnRow
  BY DEF TurnInv
<1>1. ASSUME Delivered(c) PROVE Q
  <2> DEFINE row == [turnOf[c] EXCEPT !.at = "relay", !.did = @ \cup {"file"}]
  <2>1. row.at = "relay" /\ turnOf' = [turnOf EXCEPT ![c] = row]
    BY <1>0, <1>1 DEF Delivered
  <2> HIDE DEF row
  <2>2. QED
    BY <2>1, AwayMoves
<1>2. ASSUME NEW reply \in {"cancelled", "failed"}, Tell(c, reply, {}) PROVE Q
  <2>1. reply \in TurnReply /\ {} \in SUBSET Effect
    OBVIOUS
  <2>2. QED
    BY <1>2, <2>1, NothingInside
<1>3. ASSUME NEW from \in TurnPlace, NEW to \in {"deliver", "relay", "complete"}, Go(c, from, to)
      PROVE  Q
  BY <1>3, PlaceMoves
<1>4. ASSUME MakeLane(c) \/ AgentLane(c) PROVE Q
  BY <1>1, <1>2, <1>3, <1>4 DEF MakeLane, AgentLane
<1>5. ASSUME DeliverByAgent(c) \/ DeliverText(c) \/ DeliverByModel(c) \/ RelayWork(c) PROVE Q
  BY <1>1, <1>2, <1>3, <1>5 DEF DeliverByAgent, DeliverText, DeliverByModel, RelayWork
<1>6. ASSUME CompleteTurn(c) PROVE Q
  <2>1. PICK cycle \in SUBSET {"cycle"} : Tell(c, "answer", cycle \cup {"note"})
    BY <1>6 DEF CompleteTurn
  <2>2. cycle \cup {"note"} \in SUBSET Effect /\ "answer" \in TurnReply
    OBVIOUS
  <2>3. QED
    BY <2>1, <2>2, NothingInside
<1>7. ASSUME ReturnTurn(c) PROVE Q
  BY <1>7, NoTurnFits, AwayMoves DEF ReturnTurn
<1>8. QED
  BY <1>4, <1>5, <1>6, <1>7

LEMMA BudgetInitInv == TurnInit => BudgetInv
<1> SUFFICES ASSUME TurnInit PROVE BudgetInv
  OBVIOUS
<1>1. Recent = {} /\ Admitted = {} /\ Cardinality({}) = 0
  BY NoTurnFits, FS_EmptySet DEF TurnInit, Recent, Admitted, Inside
<1>2. Cardinality(Handler) \in Nat /\ <<>> \in Seq(LogRow) /\ Len(<<>>) = 0
  BY TurnAssumption, FS_CardinalityType DEF TurnAssumption
<1>3. QED
  BY <1>1, <1>2, TurnAssumption DEF TurnInit, BudgetInv, TurnAssumption

LEMMA BudgetNextInv == TurnInv /\ BudgetInv /\ [TurnNext]_turnVars => BudgetInv'
<1> SUFFICES ASSUME TurnInv, BudgetInv, [TurnNext]_turnVars PROVE BudgetInv'
  OBVIOUS
<1>0. cancel \in [Handler -> BOOLEAN]
  BY DEF BudgetInv
<1>1. ASSUME NEW c \in Handler,
             \/ ReceiveTurn(c) \/ MemoryCommand(c) \/ CaptureFacts(c)
             \/ GatherContext(c) \/ CasualTurn(c) \/ PlanTurn(c) \/ AnswerPersonal(c)
      PROVE  BudgetInv'
  <2>1. UNCHANGED <<forageLog, cancel>>
    BY <1>1 DEF ReceiveTurn, MemoryCommand, CaptureFacts, GatherContext, CasualTurn, PlanTurn,
                AnswerPersonal
  <2>2. QED
    BY <1>0, <1>1, <2>1, FirstStepsEnter, NobodyEnters
<1>2. ASSUME NEW c \in Handler, StartTalk(c) \/ TalkWeb(c) \/ TalkChat(c) \/ EndTalk(c)
      PROVE  BudgetInv'
  <2>1. UNCHANGED <<forageLog, cancel>>
    BY <1>2 DEF StartTalk, TalkWeb, TalkChat, EndTalk
  <2>2. QED
    BY <1>0, <1>2, <2>1, TalkStepsEnter, NobodyEnters
<1>3. ASSUME NEW c \in Handler,
             \/ MakeLane(c) \/ AgentLane(c) \/ DeliverByAgent(c) \/ DeliverText(c)
             \/ DeliverByModel(c) \/ RelayWork(c) \/ CompleteTurn(c) \/ ReturnTurn(c)
      PROVE  BudgetInv'
  <2>1. forageLog' = forageLog /\ cancel' \in [Handler -> BOOLEAN]
    BY <1>0, <1>3 DEF MakeLane, AgentLane, DeliverByAgent, DeliverText, DeliverByModel,
                      RelayWork, CompleteTurn, ReturnTurn
  <2>2. QED
    BY <1>3, <2>1, LaneStepsEnter, NobodyEnters
<1>4. ASSUME NEW c \in Handler, RequestCancel(c) PROVE BudgetInv'
  <2>1. forageLog' = forageLog /\ turnOf' = turnOf /\ cancel' \in [Handler -> BOOLEAN]
    BY <1>0, <1>4 DEF RequestCancel
  <2>2. QED
    BY <2>1, NobodyEnters
<1>5. CASE UNCHANGED turnVars
  <2>1. UNCHANGED <<turnOf, forageLog, cancel>>
    BY <1>5 DEF turnVars
  <2>2. QED
    BY <1>0, <2>1, NobodyEnters
<1>6. CASE TurnNext
  BY <1>1, <1>2, <1>3, <1>4, <1>6, GateKeepsBudget, ResearchKeepsBudget, ClockKeepsBudget
     DEF TurnNext
<1>7. QED
  BY <1>5, <1>6

\* Forages that run at once exceed the limit of executions in ten minutes by one for
\* every other caller at most, for any callers, limit and log (_forage_gate and
\* _log_forage in main.py): rows and forages inside are bounded together.
THEOREM BudgetKept == TurnSpec => []ForageBudget
<1>1. BudgetInv => ForageBudget
  BY Finite, TurnAssumption DEF BudgetInv, ForageBudget, TurnAssumption
<1>2. QED
  BY <1>1, TurnInitInv, TurnNextInv, BudgetInitInv, BudgetNextInv, PTL DEF TurnSpec

\* The turns and the log have the values that the code gives them.
THEOREM TurnTypes == TurnSpec => []TurnTypeOK
<1>1. TurnInv /\ BudgetInv => TurnTypeOK
  BY DEF TurnInv, BudgetInv, TurnTypeOK
<1>2. QED
  BY <1>1, TurnInitInv, TurnNextInv, BudgetInitInv, BudgetNextInv, PTL DEF TurnSpec
=============================================================================
