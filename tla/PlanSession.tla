---------------------------- MODULE PlanSession ----------------------------
(***************************************************************************)
(* The plan commands of the terminal UI: /open, /plan, /plan --refresh,    *)
(* /execute and /build (SourceCode/tui/commands/dispatcher.py), the plan   *)
(* store behind them (SourceCode/shared_tools/plan_store.py) and the       *)
(* builder (SourceCode/agents_make/stack_builder_pool.py).                 *)
(*                                                                         *)
(* Every command runs in a thread of its own (SourceCode/tui/app.py,       *)
(* _run_dispatch) and they share one DispatcherState.  What a command      *)
(* returns is applied later by the UI thread.  A call of the model takes   *)
(* up to twenty minutes, so other commands run while a plan is generated.  *)
(*                                                                         *)
(* A workspace is abstracted to its digest, a hash of the relative paths,  *)
(* sizes and nanosecond times of its files.  A digest of some file is the  *)
(* stamp of the workspace's last change; a stamp is never given twice, but *)
(* copies of one tree (/new import --copy keeps the times) start with one  *)
(* stamp.  All workspaces without files have one digest, and a missing     *)
(* directory has the empty one.  No two projects share a directory.  Plans *)
(* are numbered in the order of created_at.                                *)
(***************************************************************************)
EXTENDS Integers, FiniteSets

CONSTANTS
  Project,    \* projects of the engine
  NoProject,  \* the empty slug
  Command,    \* dispatch threads
  MaxPlan,    \* bound: plans created
  MaxStamp    \* bound: changes of workspaces

ASSUME PlanAssumption ==
  /\ NoProject \notin Project
  /\ MaxPlan \in Nat
  /\ MaxStamp \in Nat
  /\ IsFiniteSet(Project)
  /\ Cardinality(Project) < MaxStamp

VARIABLES
  active,      \* DispatcherState.active_project_slug
  ws,          \* the digest of each workspace
  clock,       \* the last stamp given
  copied,      \* history: stamps two workspaces had from the start
  made,        \* number of plans in the store
  owner,       \* project_slug of each plan
  digest,      \* created_workspace_digest
  superseded,  \* superseded_by, 0 when empty
  executed,    \* plans with an executed_at
  built,       \* history: plans whose files were all written
  job          \* what each command is doing

disk == <<ws, clock, copied>>
store == <<made, owner, digest, superseded, executed>>
vars == <<active, disk, store, built, job>>

Plan == 1 .. MaxPlan
Stamp == 0 .. MaxStamp

Gone == 0   \* no directory: the digest is ""
Bare == 1   \* a directory without files: the hash of nothing

\* A command: where it is, which kind of plan it generates, the project it
\* read, the plan it works on, the plan it created in a refresh, and the
\* project its outcome names.
Job ==
  [at : {"idle", "opening", "generating", "superseding", "planned",
         "checking", "building", "marking", "applying"},
   kind : {"none", "plan", "refresh", "build"},
   proj : Project \cup {NoProject},
   plan : 0 .. MaxPlan,
   fresh : 0 .. MaxPlan,
   out : Project \cup {NoProject}]

Idle == [at |-> "idle", kind |-> "none", proj |-> NoProject, plan |-> 0,
         fresh |-> 0, out |-> NoProject]

-----------------------------------------------------------------------------

Init ==
  /\ active = NoProject
  /\ clock = Bare + Cardinality(Project)
  /\ ws \in [Project -> Bare .. clock]
  /\ \A p \in Project : ws[p] > Bare + 1 => \E q \in Project : ws[q] = ws[p] - 1
  /\ copied = {s \in Stamp : \E p, q \in Project : p # q /\ ws[p] = s /\ ws[q] = s}
  /\ made = 0
  /\ owner = [l \in Plan |-> NoProject]
  /\ digest = [l \in Plan |-> Gone]
  /\ superseded = [l \in Plan |-> 0]
  /\ executed = {}
  /\ built = {}
  /\ job = [c \in Command |-> Idle]

\* The bounds leave room for what the commands under way will write.
RoomForChange ==
  clock + Cardinality({c \in Command :
                         \/ job[c].kind = "build"
                         \/ job[c].at \in {"checking", "building"}}) < MaxStamp
RoomForPlan ==
  made + Cardinality({c \in Command : job[c].at = "generating"}) < MaxPlan

At(c, l) == job[c].at = l
Become(c, j) == job' = [job EXCEPT ![c] = j]

\* A command returns: its outcome names the project that is active now.
Return(c) == Become(c, [Idle EXCEPT !.at = "applying", !.out = active])

\* /open p sets the project in the command's thread, ...
Open(c, p) ==
  /\ At(c, "idle")
  /\ active' = p
  /\ Become(c, [Idle EXCEPT !.at = "opening"])
  /\ UNCHANGED <<disk, store, built>>

\* ... finds or creates its conversation, and reads the project back.
FinishOpen(c) ==
  /\ At(c, "opening")
  /\ Return(c)
  /\ UNCHANGED <<active, disk, store, built>>

\* /msg, /forage, /view, a usage error: a command that leaves the plans and
\* the active project alone still returns the project it saw.
Other(c) ==
  /\ At(c, "idle")
  /\ Return(c)
  /\ UNCHANGED <<active, disk, store, built>>

\* /plan and /build start to generate a plan of the active project.
BeginPlan(c, k) ==
  /\ At(c, "idle")
  /\ active # NoProject
  /\ RoomForPlan
  /\ k = "build" => RoomForChange
  /\ Become(c, [Idle EXCEPT !.at = "generating", !.kind = k, !.proj = active])
  /\ UNCHANGED <<active, disk, store, built>>

\* The reference "latest", as opposed to the number of a plan.
Latest == 0

\* _resolve_plan_ref: "latest" is the latest plan of the project, an id is
\* any plan of the store.
Resolves(p, ref, l) ==
  /\ l \in 1 .. made
  /\ IF ref = Latest
     THEN owner[l] = p /\ \A m \in 1 .. made : owner[m] = p => m <= l
     ELSE l = ref

\* /plan --refresh ref.
BeginRefresh(c, ref) ==
  /\ At(c, "idle")
  /\ active # NoProject
  /\ RoomForPlan
  /\ \E l \in Plan :
       /\ Resolves(active, ref, l)
       /\ Become(c, [Idle EXCEPT !.at = "generating", !.kind = "refresh",
                                 !.proj = active, !.plan = l])
  /\ UNCHANGED <<active, disk, store, built>>

\* The model has answered, or failed (the failure text becomes the body);
\* create_plan takes the digest of the workspace as it is now.
CreatePlan(c) ==
  LET l == made + 1
  IN /\ At(c, "generating")
     /\ l \in Plan
     /\ made' = l
     /\ owner' = [owner EXCEPT ![l] = job[c].proj]
     /\ digest' = [digest EXCEPT ![l] = ws[job[c].proj]]
     /\ \/ job[c].kind = "plan" /\ Return(c)
        \/ /\ job[c].kind = "refresh"
           /\ Become(c, [job[c] EXCEPT !.at = "superseding", !.fresh = l])
        \/ /\ job[c].kind = "build"
           /\ Become(c, [job[c] EXCEPT !.at = "planned", !.plan = l])
     /\ UNCHANGED <<active, disk, superseded, executed, built>>

\* Mutant: the new plan is marked as superseded by the old one.
SupersedeSwapped(c) ==
  /\ At(c, "superseding")
  /\ superseded' = [superseded EXCEPT ![job[c].fresh] = job[c].plan]
  /\ Return(c)
  /\ UNCHANGED <<active, disk, made, owner, digest, executed, built>>

\* supersede(old, new) is a transaction of its own.
Supersede(c) ==
  /\ At(c, "superseding")
  /\ superseded' = [superseded EXCEPT ![job[c].plan] = job[c].fresh]
  /\ Return(c)
  /\ UNCHANGED <<active, disk, made, owner, digest, executed, built>>

\* /execute --plan ref.
BeginExecute(c, ref) ==
  /\ At(c, "idle")
  /\ active # NoProject
  /\ RoomForChange
  /\ \E l \in Plan :
       /\ Resolves(active, ref, l)
       /\ Become(c, [Idle EXCEPT !.at = "checking", !.proj = active,
                                 !.plan = l])
  /\ UNCHANGED <<active, disk, store, built>>

\* /build goes on as "/execute --plan <its plan>", which reads the active
\* project again.
ExecuteBuilt(c) ==
  /\ At(c, "planned")
  /\ Become(c, [job[c] EXCEPT !.at = "checking", !.kind = "none",
                              !.proj = active])
  /\ UNCHANGED <<active, disk, store, built>>

\* Mutant: the digest is compared with the workspace of the plan's project.
IsStaleOwner(l, p) == digest[l] # Gone /\ digest[l] # ws[owner[l]]

\* Mutant: a plan is stale once mark_executed has recorded it.
IsStaleExecuted(l, p) == l \in executed \/ owner[l] # p

\* is_stale: a plan without a digest is never stale.
IsStale(l, p) == digest[l] # Gone /\ digest[l] # ws[p]

\* _cmd_execute compares the digests, then goes on or refuses.
Check(c) ==
  /\ At(c, "checking")
  /\ IF IsStale(job[c].plan, job[c].proj)
     THEN Return(c)
     ELSE Become(c, [job[c] EXCEPT !.at = "building"])
  /\ UNCHANGED <<active, disk, store, built>>

\* Mutant: a build that fails half-way is recorded as an execution.
BuildAlwaysMarks(c) ==
  /\ At(c, "building")
  /\ clock < MaxStamp
  /\ clock' = clock + 1
  /\ ws' = [ws EXCEPT ![job[c].proj] = clock + 1]
  /\ Become(c, [job[c] EXCEPT !.at = "marking"])
  /\ built' \in {built, built \cup {job[c].plan}}
  /\ UNCHANGED <<active, copied, store>>

\* build writes every file of the scaffold, existing ones too; an error in
\* the middle ends the command with the workspace partly written.
Build(c) ==
  /\ At(c, "building")
  /\ clock < MaxStamp
  /\ clock' = clock + 1
  /\ ws' = [ws EXCEPT ![job[c].proj] = clock + 1]
  /\ \/ /\ Become(c, [job[c] EXCEPT !.at = "marking"])
        /\ built' = built \cup {job[c].plan}
     \/ Return(c) /\ UNCHANGED built
  /\ UNCHANGED <<active, copied, store>>

\* mark_executed.
Mark(c) ==
  /\ At(c, "marking")
  /\ executed' = executed \cup {job[c].plan}
  /\ Return(c)
  /\ UNCHANGED <<active, disk, made, owner, digest, superseded, built>>

\* Mutant: an outcome without a project is not applied.
ApplyNamed(c) ==
  /\ At(c, "applying")
  /\ job[c].out # NoProject
  /\ active' = job[c].out
  /\ Become(c, Idle)
  /\ UNCHANGED <<disk, store, built>>

\* _apply_outcome, in the UI thread: the outcome's project becomes active.
Apply(c) ==
  /\ At(c, "applying")
  /\ active' = IF job[c].out = NoProject THEN active ELSE job[c].out
  /\ Become(c, Idle)
  /\ UNCHANGED <<disk, store, built>>

\* The user edits the files of a workspace, removes them all, or removes the
\* directory.
Edit(p) ==
  /\ \/ /\ RoomForChange
        /\ clock < MaxStamp
        /\ clock' = clock + 1
        /\ ws' = [ws EXCEPT ![p] = clock + 1]
     \/ /\ ws' \in {[ws EXCEPT ![p] = Gone], [ws EXCEPT ![p] = Bare]}
        /\ ws' # ws
        /\ UNCHANGED clock
  /\ UNCHANGED <<active, copied, store, built, job>>

\* The program dies and is started again: the store and the workspaces stay.
Restart ==
  /\ active' = NoProject
  /\ job' = [c \in Command |-> Idle]
  /\ UNCHANGED <<disk, store, built>>

\* The steps of a command that has started.
Step(c) ==
  \/ FinishOpen(c) \/ CreatePlan(c) \/ Supersede(c) \/ ExecuteBuilt(c)
  \/ Check(c) \/ Build(c) \/ Mark(c) \/ Apply(c)

Next ==
  \/ \E c \in Command :
       \/ \E p \in Project : Open(c, p)
       \/ Other(c)
       \/ \E k \in {"plan", "build"} : BeginPlan(c, k)
       \/ \E ref \in Plan \cup {Latest} :
            BeginRefresh(c, ref) \/ BeginExecute(c, ref)
       \/ Step(c)
  \/ \E p \in Project : Edit(p)
  \/ Restart

Spec == Init /\ [][Next]_vars

\* Every dispatch thread runs, the model answers or times out, and the UI
\* thread takes what is handed to it.
FairSpec == Spec /\ \A c \in Command : WF_vars(Step(c))

-----------------------------------------------------------------------------

TypeOK ==
  /\ active \in Project \cup {NoProject}
  /\ ws \in [Project -> Stamp]
  /\ clock \in Stamp
  /\ copied \subseteq Stamp
  /\ made \in 0 .. MaxPlan
  /\ owner \in [Plan -> Project \cup {NoProject}]
  /\ \A l \in Plan : owner[l] = NoProject <=> l > made
  /\ digest \in [Plan -> Stamp]
  /\ superseded \in [Plan -> 0 .. MaxPlan]
  /\ \A l \in Plan : superseded[l] # 0 => superseded[l] \in l + 1 .. made
  /\ executed \subseteq Plan
  /\ built \subseteq Plan
  /\ job \in [Command -> Job]

\* The digest of the plan tells its workspace from all others: it is that of
\* some file, and not of a tree that was imported twice.
Telling(l) == digest[l] \notin {Gone, Bare} \cup copied

\* A plan with a telling digest is only ever built in the workspace of its own
\* project, although /execute takes the id of any plan of the store and /build
\* reads the active project again after minutes of generation.
OwnWorkspace ==
  \A c \in Command :
    job[c].at \in {"building", "marking"} /\ Telling(job[c].plan)
      => owner[job[c].plan] = job[c].proj

\* A plan with a telling digest that was built once does not pass the
\* staleness check again, also when the program died between the build and
\* mark_executed: two builds of one plan must both have passed the check before
\* the first of them wrote.
ReplayRefused ==
  [][\A c \in Command :
       /\ job[c].at = "checking"
       /\ job'[c].at = "building"
       /\ Telling(job[c].plan)
       => job[c].plan \notin built]_vars

\* A plan recorded as executed was built completely, whatever failed, raced
\* or died in between.
ExecutedWasBuilt == executed \subseteq built

\* Every command ends and its outcome is applied, as long as the model's
\* answer and the builder's file writes end.
CommandsEnd ==
  \A c \in Command : job[c].at # "idle" ~> job[c].at = "idle"

\* "Switch active project." (README.md, line 167) is what /open does: the
\* active project changes when the user opens one, or starts the program
\* again, and never by itself.
OnlyOpenSwitches ==
  [][active' # active =>
       \/ active' = NoProject
       \/ \E c \in Command : job[c].at = "idle" /\ job'[c].at = "opening"]_vars
=============================================================================
