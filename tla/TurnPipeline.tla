---------------------------- MODULE TurnPipeline ----------------------------
(***************************************************************************)
(* One message of the user: FoxforgeOrchestrator.handle_message and        *)
(* conversation_reply (SourceCode/orchestrator/main.py), with the chat     *)
(* graph of SourceCode/orchestrator/pipelines/turn_graph.py.               *)
(*                                                                         *)
(* Callers are threads with an orchestrator of their own (a command of the *)
(* TUI, a call of the MCP server) on one project.  They share the files of *)
(* the repository, of which the forage log decides whether a forage runs.  *)
(***************************************************************************)
EXTENDS Integers, Sequences, FiniteSets

CONSTANTS
  Handler,      \* threads that handle a message
  Seed,         \* normalized forage seeds
  ForageLimit,  \* executions in ten minutes
  MaxRow        \* bound: rows of the last hour in the forage log

ASSUME TurnAssumption ==
  /\ IsFiniteSet(Handler) /\ Seed # {}
  /\ ForageLimit \in Nat \ {0} /\ MaxRow \in Nat

VARIABLES
  turnOf,     \* each caller's turn: where it is, and what it has done
  forageLog,  \* forage_log.jsonl: the executed rows of the last hour, oldest first
  cancel      \* what the cancel checker of the turn answers

turnVars == <<turnOf, forageLog, cancel>>

TurnPlace == {"idle", "facts", "gate", "context", "plan", "personal", "talk", "web", "chat",
              "replied", "research", "make", "deliver", "relay", "complete", "told"}
\* "partial" says that the forage was cancelled and names the partial summary.
TurnReply == {"none", "empty", "answer", "cancelled", "partial", "refused", "failed"}

\* What a turn leaves behind: what the user said, what the web said or could not
\* say (a lesson, a pending web request), and, of its answer, an approval request,
\* a deliverable, the raw notes or the summary of a forage, a reflection cycle and a
\* note of the turn's quality.
Answered == {"approval", "file", "summary", "cycle", "note"}
Effect == {"fact", "web"} \cup Answered

\* graph: the chat graph runs the reply; checks: the reply knows the cancel checker.
NoTurn == [at |-> "idle", forced |-> FALSE, seed |-> CHOOSE s \in Seed : TRUE,
           graph |-> "no", checks |-> FALSE, did |-> {}, reply |-> "none"]

\* A row of an executed forage; a cancelled one has a row that nobody looks at.
LogRow == [seed : Seed, fresh : BOOLEAN]

TurnInit ==
  /\ turnOf = [c \in Handler |-> NoTurn]
  /\ forageLog = <<>>
  /\ cancel = [c \in Handler |-> FALSE]

-----------------------------------------------------------------------------

Go(c, from, to) == turnOf[c].at = from /\ turnOf' = [turnOf EXCEPT ![c].at = to]

Tell(c, reply, did) ==
  turnOf' = [turnOf EXCEPT ![c] = [NoTurn EXCEPT !.at = "told", !.reply = reply,
                                                 !.did = turnOf[c].did \cup did]]

\* A turn begins: it is cancelled already, or it is a question about the assistant
\* or a memory command; else it goes on, a forage with its seed.
ReceiveTurn(c) ==
  /\ turnOf[c].at = "idle"
  /\ IF cancel[c] THEN Tell(c, "cancelled", {})
     ELSE \E forced \in BOOLEAN, s \in Seed :
            turnOf' = [turnOf EXCEPT ![c] =
              [NoTurn EXCEPT !.at = "facts", !.forced = forced, !.seed = IF forced THEN s ELSE @]]
  /\ UNCHANGED <<forageLog, cancel>>

\* _handle_memory_command answers: something is remembered, pinned or forgotten, or
\* the memory is asked.
MemoryCommand(c) ==
  /\ turnOf[c].at = "idle"
  /\ ~cancel[c]
  /\ \E did \in {{}, {"fact"}} : Tell(c, "answer", did)
  /\ UNCHANGED <<forageLog, cancel>>

\* Facts and reminders are taken from the message, before a forage is admitted.
CaptureFacts(c) ==
  /\ turnOf[c].at = "facts"
  /\ turnOf' = [turnOf EXCEPT ![c].at = IF turnOf[c].forced THEN "gate" ELSE "context",
                              ![c].did = @ \cup {"fact"}]
  /\ UNCHANGED <<forageLog, cancel>>

\* The rows of the last ten minutes.
Recent == {i \in DOMAIN forageLog : forageLog[i].fresh}

\* Mutant: one execution more is admitted.
AdmitsOneMore(seed, override) ==
  /\ Cardinality(Recent) <= ForageLimit
  /\ override \/ \A i \in DOMAIN forageLog : forageLog[i].seed # seed

\* _forage_gate: the rate limit first, then the seed of a run in the last hour,
\* which the words 'refresh' and 'again' override.
Admits(seed, override) ==
  /\ Cardinality(Recent) < ForageLimit
  /\ override \/ \A i \in DOMAIN forageLog : forageLog[i].seed # seed

GateForage(c) ==
  /\ turnOf[c].at = "gate"
  /\ \E override \in BOOLEAN :
       IF Admits(turnOf[c].seed, override) THEN Go(c, "gate", "context") ELSE Tell(c, "refused", {})
  /\ UNCHANGED <<forageLog, cancel>>

\* The context is put together: facts, memories, the library, briefings.
GatherContext(c) ==
  /\ Go(c, "context", "plan")
  /\ UNCHANGED <<forageLog, cancel>>

Converse(c) ==
  \E graph \in {"no", "runs", "fallback"} :
    turnOf' = [turnOf EXCEPT ![c] = [NoTurn EXCEPT !.at = "talk", !.graph = graph,
                                                   !.checks = (graph # "no"),
                                                   !.did = turnOf[c].did]]

\* A casual message is talked about before a lane is planned, whatever was forced.
CasualTurn(c) ==
  /\ turnOf[c].at = "plan"
  /\ Converse(c)
  /\ UNCHANGED <<forageLog, cancel>>

\* The planner's lane, or the one the caller forces.
PlanTurn(c) ==
  /\ turnOf[c].at = "plan"
  /\ \/ Go(c, "plan", "research")
     \/ ~turnOf[c].forced /\ (Go(c, "plan", "make") \/ Go(c, "plan", "personal"))
     \/ ~turnOf[c].forced /\ Converse(c)
  /\ UNCHANGED <<forageLog, cancel>>

\* A reminder or an event is confirmed, a personal action waits for an approval, or
\* the personal lane is not available.
AnswerPersonal(c) ==
  /\ turnOf[c].at = "personal"
  /\ \E did \in {{}, {"approval"}} : Tell(c, "answer", did)
  /\ UNCHANGED <<forageLog, cancel>>

-----------------------------------------------------------------------------

\* conversation_reply.

Stopped(c) == turnOf[c].checks /\ cancel[c]

Replied(c, reply) ==
  turnOf' = [turnOf EXCEPT ![c].at = "replied", ![c].reply = reply]

\* Reminders, short and casual messages are answered at once; a failed call of the
\* model leaves nothing to say there.
StartTalk(c) ==
  /\ turnOf[c].at = "talk"
  /\ IF Stopped(c) THEN Replied(c, "cancelled")
     ELSE \/ \E reply \in {"answer", "empty"} : Replied(c, reply)
          \/ Go(c, "talk", "web")
  /\ UNCHANGED <<forageLog, cancel>>

\* The words of a message, or that it must be verified, ask for the web.
WebAsked == {{}, {"web"}}

\* The prompt is put together, from all that is known.
Prompted(c, did) ==
  turnOf' = [turnOf EXCEPT ![c].at = "chat", ![c].did = @ \cup did]

\* _prepare_web_context: the web is not asked, or what it says is learned, or that
\* it says nothing, in the ask mode as a pending request.  A question that has to be
\* verified and could not be is answered without the model.
TalkWeb(c) ==
  /\ turnOf[c].at = "web"
  /\ \E did \in WebAsked :
       \/ ~Stopped(c) /\ Prompted(c, did)
       \/ \E reply \in IF Stopped(c) THEN {"cancelled"} ELSE {"answer"} :
            turnOf' = [turnOf EXCEPT ![c].at = "replied", ![c].reply = reply, ![c].did = @ \cup did]
  /\ UNCHANGED <<forageLog, cancel>>

\* Mutant: the answer is noted before the cancellation is looked at.
TalkChatNoted(c) ==
  /\ turnOf[c].at = "chat"
  /\ turnOf' = [turnOf EXCEPT ![c].at = "replied", ![c].did = @ \cup {"note"},
                              ![c].reply = IF Stopped(c) THEN "cancelled" ELSE "answer"]
  /\ UNCHANGED <<forageLog, cancel>>

\* The model is called with everything that is known.  The answer is remembered and
\* noted, unless the call failed or the turn was cancelled meanwhile.
TalkChat(c) ==
  /\ turnOf[c].at = "chat"
  /\ \/ Replied(c, "answer")
     \/ IF Stopped(c) THEN Replied(c, "cancelled")
        ELSE turnOf' = [turnOf EXCEPT ![c].at = "replied", ![c].reply = "answer",
                                      ![c].did = @ \cup {"note"}]
  /\ UNCHANGED <<forageLog, cancel>>

\* The reply is returned; or the graph had another lane in mind or nothing to say,
\* and runs the reply once more; or the graph fails or its fallback was empty, and
\* the reply is made without the graph and without the cancel checker.
EndTalk(c) ==
  LET turn == turnOf[c]
  IN /\ turn.at = "replied"
     /\ \/ /\ turn.graph = "no" \/ turn.reply # "empty"
           /\ Tell(c, turn.reply, {})
        \/ /\ turn.graph = "runs" /\ turn.reply = "empty"
           /\ turnOf' = [turnOf EXCEPT ![c].at = "talk", ![c].graph = "fallback"]
        \/ /\ turn.graph = "runs" \/ (turn.graph = "fallback" /\ turn.reply = "empty")
           /\ turnOf' = [turnOf EXCEPT ![c].at = "talk", ![c].graph = "no",
                                       ![c].checks = FALSE]
     /\ UNCHANGED <<forageLog, cancel>>

-----------------------------------------------------------------------------

\* The research lane (Foraging) has returned: completed, with a summary, a reflection
\* cycle and a note; or the project was busy; or the pool was unavailable or raised.
\* The lane leaves nothing when it is cancelled before it begins; the pool, after the
\* web was asked, writes a partial summary, with raw notes if workers had begun.
ResearchReply(c) ==
  {[reply |-> "answer", did |-> {"web", "summary", "cycle", "note"}],
   [reply |-> "refused", did |-> {}]}
    \cup {[reply |-> "failed", did |-> did] : did \in SUBSET {"web", "summary"}}
    \cup IF cancel[c]
         THEN {[reply |-> "cancelled", did |-> {}],
               [reply |-> "partial", did |-> {"summary"}],
               [reply |-> "partial", did |-> {"web", "summary"}]}
         ELSE {}

\* A forage is logged, as executed unless the word "cancelled" is in its reply,
\* where an answer may have it too.  One that raised is not logged.
ResearchLane(c) ==
  /\ turnOf[c].at = "research"
  /\ \E r \in ResearchReply(c) :
       /\ Tell(c, r.reply, r.did)
       /\ \/ /\ turnOf[c].forced /\ r.reply \in {"answer", "refused"}
             /\ Len(forageLog) < MaxRow
             /\ forageLog' = Append(forageLog, [seed |-> turnOf[c].seed, fresh |-> TRUE])
          \/ /\ ~turnOf[c].forced \/ r.reply # "refused"
             /\ UNCHANGED forageLog
  /\ UNCHANGED cancel

\* A make lane looks for a cancellation once.
MakeLane(c) ==
  /\ turnOf[c].at = "make"
  /\ IF cancel[c] THEN Tell(c, "cancelled", {}) ELSE Go(c, "make", "deliver")
  /\ UNCHANGED <<forageLog, cancel>>

Delivered(c) ==
  turnOf' = [turnOf EXCEPT ![c].at = "relay", ![c].did = @ \cup {"file"}]

\* The lanes of tools, longform texts and desktop apps run their agent themselves,
\* without the premium lease that the delivery of the same kinds takes.
AgentLane(c) ==
  /\ turnOf[c].at = "make"
  /\ IF cancel[c] THEN Tell(c, "cancelled", {})
     ELSE Delivered(c) \/ Go(c, "make", "relay") \/ Tell(c, "failed", {})
  /\ UNCHANGED <<forageLog, cancel>>

\* _run_make_delivery.  The agents of apps, desktop apps and tools write their own
\* files, the last two under a premium lease; the lease times out or the agent raises.
DeliverByAgent(c) ==
  /\ turnOf[c].at = "deliver"
  /\ Delivered(c) \/ Go(c, "deliver", "relay") \/ Tell(c, "failed", {})
  /\ UNCHANGED <<forageLog, cancel>>

\* The text of an essay, creative, content, specialist or longform pool is written
\* by the orchestrator, and a placeholder when there is none, as after a
\* cancellation.
DeliverText(c) ==
  /\ turnOf[c].at = "deliver"
  /\ Delivered(c) \/ Tell(c, "failed", {})
  /\ UNCHANGED <<forageLog, cancel>>

\* Any other kind is one call of the model, and a note that there is no model when
\* none is configured.
DeliverByModel(c) ==
  /\ turnOf[c].at = "deliver"
  /\ Delivered(c) \/ Tell(c, "failed", {})
  /\ UNCHANGED <<forageLog, cancel>>

\* The worker's result is told in the assistant's voice: one call of the model, or
\* two for the UI lane, and a fixed text when they fail.
RelayWork(c) ==
  /\ Go(c, "relay", "complete")
  /\ UNCHANGED <<forageLog, cancel>>

\* _complete_turn: a reflection cycle unless it fails, the artifacts go to the
\* library, and the quality of the turn is noted.
CompleteTurn(c) ==
  /\ turnOf[c].at = "complete"
  /\ \E cycle \in SUBSET {"cycle"} :
       Tell(c, "answer", cycle \cup {"note"})
  /\ UNCHANGED <<forageLog, cancel>>

ReturnTurn(c) ==
  /\ turnOf[c].at = "told"
  /\ turnOf' = [turnOf EXCEPT ![c] = NoTurn]
  /\ cancel' = [cancel EXCEPT ![c] = FALSE]
  /\ UNCHANGED forageLog

-----------------------------------------------------------------------------

RequestCancel(c) ==
  /\ ~cancel[c]
  /\ cancel' = [cancel EXCEPT ![c] = TRUE]
  /\ UNCHANGED <<turnOf, forageLog>>

\* Ten minutes, or the hour, pass for the oldest row.
AgeRow ==
  /\ forageLog # <<>>
  /\ \/ Head(forageLog).fresh = FALSE /\ forageLog' = Tail(forageLog)
     \/ \E i \in DOMAIN forageLog :
          /\ forageLog[i].fresh /\ \A j \in 1 .. i - 1 : ~forageLog[j].fresh
          /\ forageLog' = [forageLog EXCEPT ![i].fresh = FALSE]
  /\ UNCHANGED <<turnOf, cancel>>

TurnNext ==
  \/ \E c \in Handler :
       \/ ReceiveTurn(c) \/ MemoryCommand(c) \/ CaptureFacts(c) \/ GateForage(c)
       \/ GatherContext(c) \/ CasualTurn(c) \/ PlanTurn(c) \/ AnswerPersonal(c)
       \/ StartTalk(c) \/ TalkWeb(c) \/ TalkChat(c) \/ EndTalk(c)
       \/ ResearchLane(c) \/ MakeLane(c) \/ AgentLane(c)
       \/ DeliverByAgent(c) \/ DeliverText(c) \/ DeliverByModel(c)
       \/ RelayWork(c) \/ CompleteTurn(c) \/ ReturnTurn(c) \/ RequestCancel(c)
  \/ AgeRow

TurnSpec == TurnInit /\ [][TurnNext]_turnVars

-----------------------------------------------------------------------------

TurnTypeOK ==
  /\ turnOf \in [Handler -> [at : TurnPlace, forced : BOOLEAN, seed : Seed,
                             graph : {"no", "runs", "fallback"}, checks : BOOLEAN,
                             did : SUBSET Effect, reply : TurnReply]]
  /\ forageLog \in Seq(LogRow) /\ Len(forageLog) <= MaxRow
  /\ cancel \in [Handler -> BOOLEAN]

\* The gate reads the log when a forage begins, and the row is written when it
\* ends.  Forages that run at once can pass the limit, by one for every other
\* caller and no more.
ForageBudget ==
  Cardinality(Recent) <= ForageLimit + Cardinality(Handler) - 1

\* A turn that says it was cancelled tells all that it leaves of an answer: a forage
\* leaves the partial summary that its reply names and no cycle, note or proposal, and
\* any other turn leaves nothing filed, noted, reflected on or to be decided, whichever
\* lane noticed it, and though the graph may have run the reply before.
CancelledTellsAll ==
  \A c \in Handler :
    turnOf[c].at = "told" =>
      /\ turnOf[c].reply = "cancelled" => turnOf[c].did \cap Answered = {}
      /\ turnOf[c].reply = "partial" => turnOf[c].did \cap Answered = {"summary"}
=============================================================================
