---------------------------- MODULE ResearchPool ----------------------------
(***************************************************************************)
(* One foraging run: run_research_pool of                                  *)
(* SourceCode/agents_research/deep_researcher.py.                          *)
(*                                                                         *)
(* The main thread submits agents to an executor, collects their findings, *)
(* honours handoffs, runs the adjudicators, repeats the failed findings    *)
(* and writes the result.  The agents of the executor, and the agents the  *)
(* main thread runs itself, look at the pause and cancel checkers between  *)
(* two model calls.                                                        *)
(***************************************************************************)
EXTENDS Integers, Sequences, FiniteSets, SequencesExt

CONSTANTS
  Primary,      \* personas that run in the executor
  Adjudicator,  \* personas that run after them
  Worker,       \* parallel_agents
  MaxHandoff,   \* research_pool.max_handoffs
  MaxCall,      \* bound: model calls of one agent (passes and validation cycles)
  NoPersona

ASSUME PoolAssumption ==
  /\ Worker \in Nat \ {0} /\ MaxCall \in Nat \ {0} /\ MaxHandoff \in Nat
  /\ IsFiniteSet(Primary) /\ IsFiniteSet(Adjudicator)
  /\ {NoPersona, "main"} \cap (Primary \cup Adjudicator) = {}
  /\ Primary \cap Adjudicator = {}

VARIABLES
  main,      \* the main thread: where it is, and the rows or agents left to do
  queue,     \* primary agents that are not submitted
  pending,   \* agents submitted and not collected
  run,       \* the agent runs, of the executor's threads and of the main thread
  findings,  \* the list of findings
  handoffs,  \* handoff_count
  canceled,  \* the flag of run_research_pool
  asked,     \* what cancel_checker answers
  paused     \* what pause_checker answers

poolVars == <<main, queue, pending, run, findings, handoffs, canceled, asked, paused>>

Roster == Primary \cup Adjudicator
Mode == {"good", "weak", "failed"}
Finding == [agent : Roster \cup {"recovery"}, via : {"pool", "handoff", "adjudicator", "repair"}, is : Mode]

\* "main" is the main thread, which runs the agent of main.who.
Runner == Primary \cup {"main"}
IdleRun == [at |-> "idle", left |-> 0, is |-> "failed", to |-> NoPersona]

Place == {"start", "top", "wait", "collect", "handoff", "adjudicate", "recover",
          "write", "numbers", "raw", "synthesis", "completed", "cancelled", "unavailable"}
Ended == {"completed", "cancelled", "unavailable"}

PoolInit ==
  /\ main = [at |-> "start", who |-> NoPersona, todo |-> <<>>]
  /\ queue = Primary
  /\ pending = {}
  /\ run = [r \in Runner |-> IdleRun]
  /\ findings = <<>>
  /\ handoffs = 0
  /\ canceled = FALSE
  /\ asked = FALSE
  /\ paused = FALSE

-----------------------------------------------------------------------------

\* An agent run: _run_multipass_agent and _run_one_agent.

BeginRun(r) == run' = [run EXCEPT ![r] = [IdleRun EXCEPT !.at = "check", !.left = MaxCall]]

Ends(r, is, to) == run' = [run EXCEPT ![r] = [at |-> "done", left |-> 0, is |-> is, to |-> to]]

\* Between two calls the run waits while it is paused, and stops once cancelled:
\* what it has is weak, as "Cancelled by user" is no failure text.
RunCheck(r) ==
  /\ run[r].at = "check"
  /\ \/ asked /\ Ends(r, "weak", NoPersona)
     \/ ~asked /\ ~paused /\ run' = [run EXCEPT ![r].at = "chat"]
  /\ UNCHANGED <<main, queue, pending, findings, handoffs, canceled, asked, paused>>

\* The model answers with a note, perhaps asking for a handoff to an allowed
\* persona, or the call failed or is too weak and is repeated while calls are left.
RunChat(r) ==
  /\ run[r].at = "chat"
  /\ \/ \E to \in Roster \cup {NoPersona} : to # r /\ Ends(r, "good", to)
     \/ /\ run[r].left > 1
        /\ run' = [run EXCEPT ![r].at = "check", ![r].left = @ - 1]
     \/ run[r].left = 1 /\ \E is \in {"weak", "failed"} : Ends(r, is, NoPersona)
  /\ UNCHANGED <<main, queue, pending, findings, handoffs, canceled, asked, paused>>

-----------------------------------------------------------------------------

GoTo(l) == main' = [main EXCEPT !.at = l]

Visited == {findings[i].agent : i \in DOMAIN findings}

Report(agent, via, r) ==
  Append(findings, [agent |-> agent, via |-> via, is |-> run[r].is])

\* The roster is made; a request that is cancelled already ends here.
StartPool ==
  /\ main.at = "start"
  /\ IF asked THEN GoTo("cancelled") ELSE GoTo("top")
  /\ UNCHANGED <<queue, pending, run, findings, handoffs, canceled, asked, paused>>

\* Mutant: the loop waits for the end of a pause before it looks for a cancellation.
CancelUnlessPaused ==
  /\ main.at = "top"
  /\ queue # {} \/ pending # {}
  /\ asked /\ ~paused
  /\ canceled' = TRUE
  /\ GoTo("write")
  /\ UNCHANGED <<queue, pending, run, findings, handoffs, asked, paused>>

\* The top of the loop notices the cancellation.  Agents that run are left alone
\* and nobody takes their findings.
CancelLoop ==
  /\ main.at = "top"
  /\ queue # {} \/ pending # {}
  /\ asked
  /\ canceled' = TRUE
  /\ GoTo("write")
  /\ UNCHANGED <<queue, pending, run, findings, handoffs, asked, paused>>

\* Agents are submitted up to the number of workers, or one at a time while
\* yield_checker asks for it.
SubmitAgents(batch) ==
  /\ main.at = "top"
  /\ queue # {} \/ pending # {}
  /\ ~asked /\ ~paused
  /\ batch \subseteq queue
  /\ \E desired \in {1, Worker} :
       \/ Cardinality(pending) + Cardinality(batch) = desired
       \/ batch = queue /\ Cardinality(pending) + Cardinality(batch) < desired
       \/ batch = {} /\ Cardinality(pending) >= desired
  /\ queue' = queue \ batch
  /\ pending' = pending \cup batch
  /\ run' = [r \in Runner |->
               IF r \in batch THEN [IdleRun EXCEPT !.at = "check", !.left = MaxCall]
               ELSE run[r]]
  /\ GoTo("wait")
  /\ UNCHANGED <<findings, handoffs, canceled, asked, paused>>

\* wait() returns every finished agent, or none after its timeout.
WaitAgents ==
  LET done == {p \in pending : run[p].at = "done"}
  IN /\ main.at = "wait"
     /\ IF done = {} THEN GoTo("top") /\ UNCHANGED pending
        ELSE /\ \E order \in SetToSeqs(done) :
                  main' = [main EXCEPT !.at = "collect", !.todo = order]
             /\ pending' = pending \ done
     /\ UNCHANGED <<queue, run, findings, handoffs, canceled, asked, paused>>

\* A finding is collected.  Its handoff is honoured when the target has not
\* reported, and the cap is not reached.
CollectFinding ==
  LET p == Head(main.todo)
      to == run[p].to
  IN /\ main.at = "collect"
     /\ main.todo # <<>>
     /\ findings' = Report(p, "pool", p)
     /\ IF to # NoPersona /\ to \notin Visited \cup {p} /\ handoffs < MaxHandoff
        THEN /\ main' = [at |-> "handoff", who |-> to, todo |-> Tail(main.todo)]
             /\ BeginRun("main")
        ELSE main' = [main EXCEPT !.todo = Tail(@)] /\ UNCHANGED run
     /\ UNCHANGED <<queue, pending, handoffs, canceled, asked, paused>>

\* The agent of a handoff has run on the main thread.
EndHandoff ==
  /\ main.at = "handoff"
  /\ run["main"].at = "done"
  /\ findings' = Report(main.who, "handoff", "main")
  /\ handoffs' = handoffs + 1
  /\ run' = [run EXCEPT !["main"] = IdleRun]
  /\ GoTo("collect")
  /\ UNCHANGED <<queue, pending, canceled, asked, paused>>

EndBatch ==
  /\ main.at = "collect"
  /\ main.todo = <<>>
  /\ GoTo("top")
  /\ UNCHANGED <<queue, pending, run, findings, handoffs, canceled, asked, paused>>

\* The loop ends, and the adjudicators are next.
LeaveLoop ==
  /\ main.at = "top"
  /\ queue = {} /\ pending = {}
  /\ \E order \in SetToSeqs(Adjudicator) :
       main' = [main EXCEPT !.at = "adjudicate", !.todo = order]
  /\ UNCHANGED <<queue, pending, run, findings, handoffs, canceled, asked, paused>>

StartAdjudicator ==
  /\ main.at = "adjudicate"
  /\ main.todo # <<>>
  /\ run["main"].at = "idle"
  /\ BeginRun("main")
  /\ UNCHANGED <<main, queue, pending, findings, handoffs, canceled, asked, paused>>

EndAdjudicator ==
  /\ main.at = "adjudicate"
  /\ run["main"].at = "done"
  /\ findings' = Report(Head(main.todo), "adjudicator", "main")
  /\ main' = [main EXCEPT !.todo = Tail(@)]
  /\ run' = [run EXCEPT !["main"] = IdleRun]
  /\ UNCHANGED <<queue, pending, handoffs, canceled, asked, paused>>

\* _recover_failed_findings makes a new list, if a finding has failed.
StartRecovery ==
  /\ main.at = "adjudicate"
  /\ main.todo = <<>>
  /\ IF \E i \in DOMAIN findings : findings[i].is = "failed"
     THEN /\ main' = [main EXCEPT !.at = "recover", !.todo = findings]
          /\ findings' = <<>>
     ELSE GoTo("write") /\ UNCHANGED findings
  /\ UNCHANGED <<queue, pending, run, handoffs, canceled, asked, paused>>

\* Mutant: the recovery pass keeps the rows it repaired only.
RecoverOnlyFailed ==
  LET row == Head(main.todo)
  IN /\ main.at = "recover"
     /\ main.todo # <<>>
     /\ run["main"].at = "idle"
     /\ IF row.is = "failed" /\ ~asked
        THEN BeginRun("main") /\ UNCHANGED <<findings, main>>
        ELSE main' = [main EXCEPT !.todo = Tail(@)] /\ UNCHANGED <<run, findings>>
     /\ UNCHANGED <<queue, pending, handoffs, canceled, asked, paused>>

\* A row of the old list: it is kept, or its agent runs again.  When the request
\* is cancelled meanwhile, the list ends here.
RecoverRow ==
  LET row == Head(main.todo)
  IN /\ main.at = "recover"
     /\ main.todo # <<>>
     /\ run["main"].at = "idle"
     /\ CASE asked ->
               /\ findings' = Append(findings, [agent |-> "recovery", via |-> "repair",
                                                is |-> "weak"])
               /\ main' = [main EXCEPT !.todo = <<>>]
               /\ UNCHANGED run
          [] ~asked /\ row.is # "failed" ->
               /\ findings' = Append(findings, row)
               /\ main' = [main EXCEPT !.todo = Tail(@)]
               /\ UNCHANGED run
          [] ~asked /\ row.is = "failed" ->
               BeginRun("main") /\ UNCHANGED <<findings, main>>
     /\ UNCHANGED <<queue, pending, handoffs, canceled, asked, paused>>

EndRepair ==
  /\ main.at = "recover"
  /\ run["main"].at = "done"
  /\ findings' = Report(Head(main.todo).agent, "repair", "main")
  /\ main' = [main EXCEPT !.todo = Tail(@)]
  /\ run' = [run EXCEPT !["main"] = IdleRun]
  /\ UNCHANGED <<queue, pending, handoffs, canceled, asked, paused>>

EndRecovery ==
  /\ main.at = "recover"
  /\ main.todo = <<>>
  /\ run["main"].at = "idle"
  /\ GoTo("write")
  /\ UNCHANGED <<queue, pending, run, findings, handoffs, canceled, asked, paused>>

\* Evidence labels that no source backs are lowered, also those of a cancelled run ...
AuditLabels ==
  /\ main.at = "write"
  /\ GoTo("numbers")
  /\ UNCHANGED <<queue, pending, run, findings, handoffs, canceled, asked, paused>>

\* ... and so are numbers, with a model call for the doubtful ones.
ValidateNumbers ==
  /\ main.at = "numbers"
  /\ GoTo("raw")
  /\ UNCHANGED <<queue, pending, run, findings, handoffs, canceled, asked, paused>>

\* The raw notes are written.
WriteRaw ==
  /\ main.at = "raw" /\ ~canceled
  /\ GoTo("synthesis")
  /\ UNCHANGED <<queue, pending, run, findings, handoffs, canceled, asked, paused>>

\* A cancelled run writes them and its partial summary, and ends.
WritePartial ==
  /\ main.at = "raw" /\ canceled
  /\ GoTo("cancelled")
  /\ UNCHANGED <<queue, pending, run, findings, handoffs, canceled, asked, paused>>

Adjudicated ==
  \/ Adjudicator = {}
  \/ \E i \in DOMAIN findings : findings[i].agent \in Adjudicator /\ findings[i].is # "failed"

\* Synthesis, critique, translation, artifacts and summary; without adjudication
\* or without a model there is none.
Synthesize ==
  /\ main.at = "synthesis"
  /\ \/ Adjudicated /\ GoTo("completed")
     \/ GoTo("unavailable")
  /\ UNCHANGED <<queue, pending, run, findings, handoffs, canceled, asked, paused>>

\* The user cancels, pauses and resumes.
AskCancel ==
  /\ ~asked /\ asked' = TRUE
  /\ UNCHANGED <<main, queue, pending, run, findings, handoffs, canceled, paused>>

TogglePause ==
  /\ paused' = ~paused
  /\ UNCHANGED <<main, queue, pending, run, findings, handoffs, canceled, asked>>

MainStep ==
  \/ StartPool \/ CancelLoop \/ WaitAgents \/ CollectFinding \/ EndHandoff \/ EndBatch
  \/ \E batch \in SUBSET queue : SubmitAgents(batch)
  \/ LeaveLoop \/ StartAdjudicator \/ EndAdjudicator
  \/ StartRecovery \/ RecoverRow \/ EndRepair \/ EndRecovery
  \/ AuditLabels \/ ValidateNumbers \/ WriteRaw \/ WritePartial \/ Synthesize

PoolNext ==
  \/ MainStep
  \/ \E r \in Runner : RunCheck(r) \/ RunChat(r)
  \/ AskCancel \/ TogglePause

PoolSpec == PoolInit /\ [][PoolNext]_poolVars

\* The threads run, and a model call returns or times out.  Nothing is said of
\* the user: a pause may last for ever.
PoolFairness ==
  /\ WF_poolVars(MainStep)
  /\ \A r \in Runner : WF_poolVars(RunCheck(r) \/ RunChat(r))

-----------------------------------------------------------------------------

PoolTypeOK ==
  /\ main.at \in Place
  /\ main.who \in Roster \cup {NoPersona}
  /\ \/ main.at = "recover" /\ main.todo \in Seq(Finding)
     \/ main.at # "recover" /\ main.todo \in Seq(Roster)
  /\ queue \subseteq Primary /\ pending \subseteq Primary
  /\ run \in [Runner -> [at : {"idle", "check", "chat", "done"}, left : 0 .. MaxCall,
                         is : Mode, to : Roster \cup {NoPersona}]]
  /\ findings \in Seq(Finding)
  /\ handoffs \in 0 .. MaxHandoff
  /\ {canceled, asked, paused} \subseteq BOOLEAN

\* Without a cancellation no finding is lost: when the raw notes are written every
\* agent of the roster has its row, also after the failed ones have been repeated.
EveryAgentReports ==
  main.at \in {"synthesis", "completed"} /\ ~asked => Roster \subseteq Visited

\* A cancelled request ends, though it is paused and stays so.
CancelEnds == asked ~> main.at \in Ended
=============================================================================
