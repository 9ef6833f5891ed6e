------------------------------- MODULE MC_Ends -------------------------------
(***************************************************************************)
(* What has begun must end: four components that do not touch each        *)
(* other's state, of which a behaviour moves one and leaves the others     *)
(* where they begin.  Fairness is that component's.                        *)
(***************************************************************************)
EXTENDS ExternalRequests, ResearchPool

CONSTANTS
  openclaw,
  Project, NoProject, Command, MaxPlan, MaxStamp,
  File, Text, Empty, Missing, Proposal, Client, NoProposal, MaxItems, MaxEdit

ToOpenclaw == [r \in Request |-> openclaw]
Outcomes == {"completed", "ignored"}

VARIABLES
  active, ws, clock, copied, made, owner, digest, superseded, executed, built,
  command,  \* job of PlanSession
  content, row, payload, job, edits, touched,
  part      \* the component that moves

Plans == INSTANCE PlanSession WITH job <- command
Patches == INSTANCE WorkspacePatches

planVars ==
  <<active, ws, clock, copied, made, owner, digest, superseded, executed, built, command>>
patchVars == <<content, row, payload, job, edits, touched>>

AllInit ==
  /\ part \in {"requests", "pool", "plans", "patches"}
  /\ Init /\ PoolInit /\ Plans!Init /\ Patches!Init
  \* One beginning of a component that does not move is enough.
  /\ part # "plans" => ws = [p \in Project |-> Plans!Bare]
  /\ part # "patches" => content = [f \in File |-> Missing]

AllNext ==
  /\ UNCHANGED part
  /\ IF part = "requests" THEN Next ELSE UNCHANGED vars
  /\ IF part = "pool" THEN PoolNext ELSE UNCHANGED poolVars
  /\ IF part = "plans" THEN Plans!Next ELSE UNCHANGED planVars
  /\ IF part = "patches" THEN Patches!Next ELSE UNCHANGED patchVars

AllSpec ==
  /\ AllInit /\ [][AllNext]_<<part, vars, poolVars, planVars, patchVars>>
  /\ \A c \in Caller : WF_vars(part = "requests" /\ MarkStep(c))
  /\ WF_poolVars(part = "pool" /\ MainStep)
  /\ \A r \in Runner : WF_poolVars(part = "pool" /\ (RunCheck(r) \/ RunChat(r)))
  /\ \A c \in Command : WF_planVars(part = "plans" /\ Plans!Step(c))
  /\ \A c \in Client : WF_patchVars(part = "patches" /\ Patches!Execute(c))

\* Every command ends and its outcome is applied: CommandsEnd of PlanSession.
CommandsEnd == Plans!CommandsEnd

\* An execution that began leaves its proposal decided, unless its process dies:
\* ExecutionDecides of WorkspacePatches.
ExecutionDecides == Patches!ExecutionDecides
=============================================================================
