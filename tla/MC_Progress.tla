---------------------------- MODULE MC_Progress ----------------------------
(***************************************************************************)
(* Three components that do not touch each other's state, which run on for *)
(* as long as the program does: a behaviour moves one of them and leaves   *)
(* the others where they begin.  Fairness is that component's.            *)
(***************************************************************************)
EXTENDS PremiumModelLock, LoopController, Watchtower

CONSTANTS tui, mcp, m1, m2

\* Each owner of the lock is a process of its own: the TUI and the MCP server.
OwnProcess == [o \in Owner |-> o]

VARIABLE part  \* the component that moves

allVars == <<vars, loopVars, watchVars, part>>

AllInit ==
  /\ part \in {"lock", "loop", "watch"}
  /\ Init /\ LoopInit /\ WatchInit

AllNext ==
  /\ UNCHANGED part
  /\ IF part = "lock" THEN Next ELSE UNCHANGED vars
  /\ IF part = "loop" THEN LoopNext ELSE UNCHANGED loopVars
  /\ IF part = "watch" THEN WatchNext ELSE UNCHANGED watchVars

AllFairness ==
  /\ WF_vars(part = "lock" /\ Tick)
  /\ \A o \in Owner :
       WF_vars(part = "lock" /\ Grant(o)) /\ WF_vars(part = "lock" /\ GiveUp(o))
  /\ \A u \in Loop : WF_loopVars(part = "loop" /\ LoopStep(u))
  /\ WF_watchVars(part = "watch" /\
                   \/ SchedulerList
                   \/ \E s \in sweep, t \in WatchThread : SchedulerVisit(s[1], s[2], t))
  /\ \A t \in WatchThread : SF_watchVars(part = "watch" /\ RunStep(t))
  /\ \A e \in Engine : WF_watchVars(part = "watch" /\ WriteRow(e))

AllSpec == AllInit /\ [][AllNext]_allVars /\ AllFairness

TypesOK == TypeOK /\ LoopTypeOK /\ WatchTypeOK
=============================================================================
