------------------------------ MODULE Watchtower ------------------------------
(***************************************************************************)
(* Watches and routines: WatchtowerEngine (SourceCode/shared_tools/        *)
(* watchtower.py) over WatchtowerRepository (SourceCode/infra/persistence/ *)
(* repositories.py), and RoutineEngine (SourceCode/shared_tools/           *)
(* routine_engine.py), whose watch steps build an engine of their own.     *)
(*                                                                         *)
(* A tick of the clock is half a day: even before the scheduled hour, odd  *)
(* from the hour on.  Threads of an engine share its lock and its set of   *)
(* running watches; engines share only the database, where an update of a  *)
(* watch is a read and a later write of the whole row.                     *)
(***************************************************************************)
EXTENDS Integers, FiniteSets

CONSTANTS
  Watch,       \* ids of watches
  WatchThread, \* run threads
  Schedule,    \* the schedules of the watches
  MaxTick,     \* bound: the clock
  MaxFault     \* bound: exceptions in run threads

\* A "manual" watch is never due, as a disabled one.
ASSUME WatchAssumption ==
  /\ Watch # {} /\ Schedule # {} /\ Schedule \subseteq {"daily", "hourly"}
  /\ MaxTick \in Nat /\ MaxFault \in Nat

VARIABLES
  tick,     \* the clock
  watch,    \* the rows of watchtower_watches
  sweep,    \* the scheduler's snapshot of the rows, and what is left of it
  running,  \* _running_watches of the main engine
  thread,   \* the threads that run a watch
  update,   \* each engine's update of a row, between its read and its write
  routine,  \* whether the routine of routines.json is running
  faults    \* number of exceptions so far

watchVars == <<tick, watch, sweep, running, thread, update, routine, faults>>

Never == -1
Engine == {"main", "step"}

WatchRow ==
  [is : {"new", "there", "gone"}, enabled : BOOLEAN, topic : BOOLEAN,
   schedule : Schedule, last : Never .. MaxTick]

NoWatchRow == [is |-> "new", enabled |-> FALSE, topic |-> FALSE,
               schedule |-> CHOOSE s \in Schedule : TRUE, last |-> Never]

\* A run: its agents work on the topic of the row it was started with, unless that is
\* blank, then it stamps the row.
RunState ==
  [at : {"none", "blank", "agents", "stamp"}, engine : Engine, watch : Watch]

NoRun == [at |-> "none", engine |-> "main", watch |-> CHOOSE w \in Watch : TRUE]

WatchInit ==
  /\ tick = 0
  /\ watch = [w \in Watch |-> NoWatchRow]
  /\ sweep = {}
  /\ running = {}
  /\ thread = [t \in WatchThread |-> NoRun]
  /\ update = [e \in Engine |-> {}]
  /\ routine = FALSE
  /\ faults = 0

-----------------------------------------------------------------------------

\* _is_due, for a row and the time of the test.
Due(r, now) ==
  \/ r.schedule = "daily"  /\ now % 2 = 1 /\ r.last < now
  \/ r.schedule = "hourly" /\ r.last < now

There(w) == watch[w].is = "there"

FreeThread(t) == thread[t] = NoRun

\* A thread for w, with the row r that was read.
Launch(t, e, w, r) ==
  thread' = [thread EXCEPT ![t] =
               [at |-> IF r.topic THEN "agents" ELSE "blank", engine |-> e, watch |-> w]]

\* The scheduler wakes up and lists the watches; it passes over the disabled ones.
SchedulerList ==
  /\ sweep = {}
  /\ sweep' = {<<w, watch[w]>> : w \in {v \in Watch : There(v) /\ watch[v].enabled}}
  /\ UNCHANGED <<tick, watch, running, thread, update, routine,
                 faults>>

\* It goes on to one of the enabled rows it read: a watch that is due in the snapshot
\* and is not in the running set now gets a thread.
SchedulerVisit(w, r, t) ==
  /\ <<w, r>> \in sweep
  /\ sweep' = sweep \ {<<w, r>>}
  /\ IF Due(r, tick) /\ w \notin running
     THEN FreeThread(t) /\ Launch(t, "main", w, r) /\ running' = running \cup {w}
     ELSE UNCHANGED <<thread, running>>
  /\ UNCHANGED <<tick, watch, update, routine, faults>>

\* Mutant: the user's trigger forgets the running set.
TriggerAlways(w, t) ==
  /\ There(w)
  /\ FreeThread(t) /\ Launch(t, "main", w, watch[w])
  /\ running' = running \cup {w}
  /\ UNCHANGED <<tick, watch, sweep, update, routine, faults>>

\* trigger_watch.
TriggerWatch(w, t) ==
  /\ There(w)
  /\ w \notin running
  /\ FreeThread(t) /\ Launch(t, "main", w, watch[w])
  /\ running' = running \cup {w}
  /\ UNCHANGED <<tick, watch, sweep, update, routine, faults>>

\* The thread ends, and _run_watch_safe takes the watch out of the running set.
EndRun(t) ==
  /\ thread' = [thread EXCEPT ![t] = NoRun]
  /\ running' = IF thread[t].engine = "main"
                THEN running \ {thread[t].watch} ELSE running

\* Mutant: a run that raises stays in the running set.
RunRaisesLeak(t) ==
  /\ faults < MaxFault /\ faults' = faults + 1
  /\ thread' = [thread EXCEPT ![t] = NoRun]
  /\ UNCHANGED running

\* Reading the last briefing, composing the prompt or saving the briefing raises:
\* the run ends without a stamp.
RunRaises(t) ==
  /\ faults < MaxFault /\ faults' = faults + 1
  /\ EndRun(t)

\* _run_watch: without a topic it returns at once and stamps nothing.  Else it reads
\* the last briefing and the agents work.  They fail, or the briefing is saved
\* whether the watch is still there or not: either way the stamp is next.
RunAgents(t) ==
  /\ \/ thread[t].at = "blank" /\ EndRun(t) /\ UNCHANGED faults
     \/ /\ thread[t].at = "agents"
        /\ \/ /\ thread' = [thread EXCEPT ![t].at = "stamp"]
              /\ UNCHANGED <<running, faults>>
           \/ RunRaises(t)
  /\ UNCHANGED <<tick, watch, sweep, update, routine>>

\* Update of a row under the engine's lock: the row is read ...
ReadRow(e, w, by, changed) ==
  /\ update[e] = {}
  /\ update' = [update EXCEPT ![e] =
                  IF There(w) THEN {[watch |-> w, by |-> by, row |-> changed]} ELSE {}]

\* _update_watch_last_run by a run.  No row, no update.
StampRow(t) ==
  LET e == thread[t].engine
      w == thread[t].watch
  IN /\ thread[t].at = "stamp"
     /\ ReadRow(e, w, t, [watch[w] EXCEPT !.last = tick])
     /\ IF There(w) THEN UNCHANGED <<thread, running>> ELSE EndRun(t)
     /\ UNCHANGED <<tick, watch, sweep, routine, faults>>

\* update_watch by the user, through the main engine, of one field.  add_watch refuses a
\* blank topic, this does not.  Bound: no watch is both disabled and without a topic.
UpdateWatch(w, schedule) ==
  /\ There(w)
  /\ \E row \in {[watch[w] EXCEPT !.enabled = ~@], [watch[w] EXCEPT !.topic = ~@],
                [watch[w] EXCEPT !.schedule = schedule]} :
       (row.enabled \/ row.topic) /\ ReadRow("main", w, "user", row)
  /\ UNCHANGED <<tick, watch, sweep, running, thread, routine,
                 faults>>

\* ... and the whole row is written, if it is still there; a run ends with it.
WriteRow(e) ==
  \E u \in update[e] :
    /\ update' = [update EXCEPT ![e] = {}]
    /\ watch' = IF There(u.watch)
                THEN [watch EXCEPT ![u.watch] = u.row] ELSE watch
    /\ IF u.by = "user" THEN UNCHANGED <<thread, running>> ELSE EndRun(u.by)
    /\ UNCHANGED <<tick, sweep, routine, faults>>

\* add_watch: a new watch is enabled and has never run.
AddWatch(w, schedule) ==
  /\ update["main"] = {}
  /\ watch[w].is = "new"
  /\ watch' = [watch EXCEPT ![w] = [is |-> "there", enabled |-> TRUE, topic |-> TRUE,
                                    schedule |-> schedule, last |-> Never]]
  /\ UNCHANGED <<tick, sweep, running, thread, update, routine,
                 faults>>

\* delete_watch, under the lock of the main engine.  Ids are not used again.
DeleteWatch(w) ==
  /\ update["main"] = {}
  /\ There(w)
  /\ watch' = [watch EXCEPT ![w] = [NoWatchRow EXCEPT !.is = "gone"]]
  /\ UNCHANGED <<tick, sweep, running, thread, update, routine,
                 faults>>

-----------------------------------------------------------------------------

\* A routine that is due, or triggered (trigger_routine): its step looks the
\* watch up and runs it in an engine made for the step, whose running set nobody
\* shares.  Without that watch the step does nothing.
RunRoutine(w, t) ==
  /\ ~routine
  /\ IF There(w)
     THEN /\ FreeThread(t) /\ Launch(t, "step", w, watch[w])
          /\ routine' = TRUE
     ELSE UNCHANGED <<thread, routine>>
  /\ UNCHANGED <<tick, watch, sweep, running, update, faults>>

\* Every step has ended, failed or not, and the routine is stamped.
EndRoutine ==
  /\ routine
  /\ \A t \in WatchThread : thread[t].engine = "step" => FreeThread(t)
  /\ routine' = FALSE
  /\ UNCHANGED <<tick, watch, sweep, running, thread, update,
                 faults>>

PassTime ==
  /\ tick < MaxTick
  /\ tick' = tick + 1
  /\ UNCHANGED <<watch, sweep, running, thread, update, routine,
                 faults>>

RunStep(t) == RunAgents(t) \/ StampRow(t)

WatchNext ==
  \/ SchedulerList
  \/ \E w \in Watch, t \in WatchThread :
       TriggerWatch(w, t) \/ RunRoutine(w, t)
  \/ \E s \in sweep, t \in WatchThread : SchedulerVisit(s[1], s[2], t)
  \/ \E t \in WatchThread : RunStep(t)
  \/ \E e \in Engine : WriteRow(e)
  \/ \E w \in Watch, s \in Schedule : AddWatch(w, s) \/ UpdateWatch(w, s)
  \/ \E w \in Watch : DeleteWatch(w)
  \/ EndRoutine \/ PassTime

WatchSpec == WatchInit /\ [][WatchNext]_watchVars

\* The scheduler's thread and the run threads run on; the lock of an engine is
\* free again and again, as an update is short.
WatchFairness ==
  /\ WF_watchVars(SchedulerList
                   \/ \E s \in sweep, t \in WatchThread : SchedulerVisit(s[1], s[2], t))
  /\ \A t \in WatchThread : SF_watchVars(RunStep(t))
  /\ \A e \in Engine : WF_watchVars(WriteRow(e))

-----------------------------------------------------------------------------

WatchTypeOK ==
  /\ tick \in 0 .. MaxTick
  /\ watch \in [Watch -> WatchRow]
  /\ sweep \subseteq Watch \X WatchRow
  /\ running \subseteq Watch
  /\ thread \in [WatchThread -> RunState]
  /\ \A e \in Engine : Cardinality(update[e]) <= 1
  /\ routine \in BOOLEAN
  /\ faults \in 0 .. MaxFault

\* A watch that is scheduled and triggered at once runs once: the main engine
\* has one thread for each watch of the running set and none for any other,
\* however a run ends and also when its watch is deleted under it.
OneRunPerWatch ==
  \A w \in Watch :
    Cardinality({t \in WatchThread : thread[t].at # "none" /\ thread[t].engine = "main"
                                      /\ thread[t].watch = w})
      = IF w \in running THEN 1 ELSE 0

\* A row that the scheduler takes for due and that a run can serve.
Waiting(w) == There(w) /\ watch[w].enabled /\ watch[w].topic /\ Due(watch[w], tick)

\* A watch with a topic that is due gets its run: it does not stay due and enabled for
\* ever, though runs fail, snapshots are old, and other engines write the row.
DueWatchServed == \A w \in Watch : Waiting(w) ~> ~Waiting(w)
=============================================================================
