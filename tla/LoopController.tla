--------------------------- MODULE LoopController ---------------------------
(***************************************************************************)
(* The draft, critique, revise loop with its premium escalation:           *)
(*   SourceCode/shared_tools/loop_controller.py                            *)
(*                                                                         *)
(* Each place that needs a premium model builds a lock object of its own.  *)
(* The lock is what PremiumModelLock grants: one holder, until it releases *)
(* or its record grows stale.  A run uses one object around a critique     *)
(* ("outer") and one around a revision ("inner").                          *)
(***************************************************************************)
EXTENDS Integers, FiniteSets

CONSTANTS
  Loop,      \* runs of run_draft_critique_revise
  NoHolder,  \* a free lock
  MaxRevise  \* max_revise_loops (code: 2)

ASSUME LoopAssumption ==
  /\ MaxRevise \in Nat
  /\ NoHolder \notin Loop \X {"outer", "inner"}

VARIABLES
  phase,     \* where each run is
  big,       \* its default model is a premium model
  passes,    \* loops_done
  severe,    \* the last severity reached the threshold; the default one is below it
  reason,    \* escalation_reason, as far as it matters
  premium,   \* runs that made a premium pass
  halt,      \* what the cancel_checker answers
  noticed,   \* runs that saw the cancellation
  holder,    \* who holds the premium model lock
  stale      \* the holder's record is older than _STALE_TTL_SEC

loopVars == <<phase, big, passes, severe, reason, premium, halt, noticed, holder, stale>>

Phase == {"idle", "draft", "top", "take", "critique", "judge", "abandon", "takeinner", "revise",
          "decide", "takepremium", "premium", "takefocus", "focus", "close", "ended"}
Reason == {"none", "cancelled", "default", "policy", "fallback"}

LoopInit ==
  /\ phase = [u \in Loop |-> "idle"]
  /\ big = [u \in Loop |-> FALSE]
  /\ passes = [u \in Loop |-> 0]
  /\ severe = [u \in Loop |-> FALSE]
  /\ reason = [u \in Loop |-> "none"]
  /\ premium = {} /\ halt = {} /\ noticed = {}
  /\ holder = NoHolder /\ stale = FALSE

-----------------------------------------------------------------------------

From(u, from, to) == phase[u] = from /\ phase' = [phase EXCEPT ![u] = to]
Because(u, why) == reason' = [reason EXCEPT ![u] = why]

Free == holder = NoHolder \/ stale
Grab(u, which) == Free /\ holder' = <<u, which>> /\ stale' = FALSE

\* Mutant: a release frees the lock whoever holds it by then.
DropAnybodys(u, which) == holder' = NoHolder /\ stale' = FALSE

Drop(u, which) == IF holder = <<u, which>> THEN holder' = NoHolder /\ stale' = FALSE
                                           ELSE UNCHANGED <<holder, stale>>

\* The tiers are read from the lane's routing.
StartLoop(u) ==
  /\ From(u, "idle", "draft")
  /\ \E b \in BOOLEAN : big' = [big EXCEPT ![u] = b]
  /\ UNCHANGED <<passes, severe, reason, premium, halt, noticed, holder, stale>>

\* draft_fn, whose exception ends the run, and the first look at the checker.
Draft(u) ==
  /\ \/ From(u, "draft", "ended") /\ UNCHANGED <<reason, noticed>>
     \/ u \notin halt /\ From(u, "draft", "top") /\ UNCHANGED <<reason, noticed>>
     \/ u \in halt /\ From(u, "draft", "ended") /\ Because(u, "cancelled") /\ noticed' = noticed \cup {u}
  /\ UNCHANGED <<big, passes, severe, premium, halt, holder, stale>>

\* The top of the loop: a cancellation breaks out of it.
LoopTop(u) ==
  /\ IF u \in halt
     THEN From(u, "top", "decide") /\ Because(u, "cancelled") /\ noticed' = noticed \cup {u}
     ELSE From(u, "top", IF big[u] THEN "take" ELSE "critique") /\ UNCHANGED <<reason, noticed>>
  /\ UNCHANGED <<big, passes, severe, premium, halt, holder, stale>>

\* lock.acquire, around a critique of the default or the premium tier, or inside
\* _revise_with_focus.
Acquire(u) ==
  /\ \/ From(u, "take", "critique") /\ Grab(u, "outer")
     \/ From(u, "takepremium", "premium") /\ Grab(u, "outer")
     \/ From(u, "takeinner", "revise") /\ Grab(u, "inner")
     \/ From(u, "takefocus", "focus") /\ Grab(u, "inner")
  /\ UNCHANGED <<big, passes, severe, reason, premium, halt, noticed>>

\* Mutant: a revision waits for its model for ever.
GiveUpOuter(u) ==
  /\ ~Free
  /\ \/ From(u, "take", "ended") /\ UNCHANGED reason
     \/ From(u, "takepremium", "ended") /\ Because(u, "fallback")
  /\ UNCHANGED <<big, passes, severe, premium, halt, noticed, holder, stale>>

\* TimeoutError after 180 seconds: around the default critique it ends the run, in a
\* revision it leaves the text as it is, in the premium phase it is a fallback.
GiveUpLock(u) ==
  /\ ~Free
  /\ \/ From(u, "take", "ended") /\ UNCHANGED reason
     \/ From(u, "takeinner", "top") /\ UNCHANGED reason
     \/ From(u, "takepremium", "ended") /\ Because(u, "fallback")
     \/ From(u, "takefocus", "close") /\ Because(u, "policy")
  /\ UNCHANGED <<big, passes, severe, premium, halt, noticed, holder, stale>>

\* critique_fn of the default tier returns a severity, or raises.
Critique(u) ==
  /\ \/ \E s \in BOOLEAN : From(u, "critique", "judge") /\ severe' = [severe EXCEPT ![u] = s]
     \/ From(u, "critique", "abandon") /\ UNCHANGED severe
  /\ UNCHANGED <<big, passes, reason, premium, halt, noticed, holder, stale>>

\* The finally clause runs first, then the loop goes on, or it ends.
Judge(u) ==
  /\ passes' = [passes EXCEPT ![u] = @ + 1]
  /\ IF ~severe[u] \/ passes[u] >= MaxRevise
     THEN From(u, "judge", "decide") /\ Because(u, "default")
     ELSE /\ \E to \in {"top", IF big[u] THEN "takeinner" ELSE "revise"} : From(u, "judge", to)
          /\ UNCHANGED reason
  /\ Drop(u, "outer")
  /\ UNCHANGED <<big, severe, premium, halt, noticed>>

Abandon(u) ==
  /\ From(u, "abandon", "ended") /\ Drop(u, "outer")
  /\ UNCHANGED <<big, passes, severe, reason, premium, halt, noticed>>

\* _revise_with_focus: the model answers or fails, and the inner lock is released.
Revise(u) ==
  /\ From(u, "revise", "top") /\ Drop(u, "inner")
  /\ UNCHANGED <<big, passes, severe, reason, premium, halt, noticed>>

\* should_escalate: never below the threshold; importance, policy and the cooloff
\* may refuse.
Decide(u) ==
  /\ \/ severe[u] /\ From(u, "decide", "takepremium") /\ UNCHANGED reason
     \/ From(u, "decide", "ended") /\ Because(u, "policy")
  /\ UNCHANGED <<big, passes, severe, premium, halt, noticed, holder, stale>>

\* Mutant: an exception of the premium critic ends the run at once.
PremiumCritiqueOut(u) ==
  /\ \/ \E s \in BOOLEAN : /\ severe' = [severe EXCEPT ![u] = s]
                           /\ From(u, "premium", "takefocus") \/ From(u, "premium", "close")
                           /\ Because(u, "policy")
     \/ From(u, "premium", "ended") /\ Because(u, "fallback") /\ UNCHANGED severe
  /\ premium' = premium \cup {u}
  /\ UNCHANGED <<big, passes, halt, noticed, holder, stale>>

\* critique_fn of the premium tier; a focus goes to _revise_with_focus, which takes
\* the lock through an object of its own while the outer lease is held.
PremiumCritique(u) ==
  /\ \/ \E s \in BOOLEAN : /\ severe' = [severe EXCEPT ![u] = s]
                           /\ From(u, "premium", "takefocus") \/ From(u, "premium", "close")
                           /\ Because(u, "policy")
     \/ From(u, "premium", "close") /\ Because(u, "fallback") /\ UNCHANGED severe
  /\ premium' = premium \cup {u}
  /\ UNCHANGED <<big, passes, halt, noticed, holder, stale>>

Focus(u) ==
  /\ From(u, "focus", "close") /\ Drop(u, "inner")
  /\ UNCHANGED <<big, passes, severe, reason, premium, halt, noticed>>

\* The finally clause of the premium phase.
ClosePremium(u) ==
  /\ From(u, "close", "ended") /\ Drop(u, "outer")
  /\ UNCHANGED <<big, passes, severe, reason, premium, halt, noticed>>

CancelLoopRun(u) ==
  /\ u \notin halt /\ halt' = halt \cup {u}
  /\ UNCHANGED <<phase, big, passes, severe, reason, premium, noticed, holder, stale>>

\* A record grows old while its holder works.
GrowStale ==
  /\ holder # NoHolder /\ ~stale /\ stale' = TRUE
  /\ UNCHANGED <<phase, big, passes, severe, reason, premium, halt, noticed, holder>>

LoopStep(u) ==
  \/ StartLoop(u) \/ Draft(u) \/ LoopTop(u) \/ Acquire(u) \/ GiveUpLock(u) \/ Critique(u)
  \/ Judge(u) \/ Abandon(u) \/ Revise(u) \/ Decide(u) \/ PremiumCritique(u) \/ Focus(u)
  \/ ClosePremium(u)

LoopNext == (\E u \in Loop : LoopStep(u) \/ CancelLoopRun(u)) \/ GrowStale

LoopSpec == LoopInit /\ [][LoopNext]_loopVars

\* A run's thread runs on: models answer within their timeouts, and a wait for the
\* lock is polled until its timeout.
LoopFairness == \A u \in Loop : WF_loopVars(LoopStep(u))

-----------------------------------------------------------------------------

LoopTypeOK ==
  /\ phase \in [Loop -> Phase]
  /\ big \in [Loop -> BOOLEAN]
  /\ passes \in [Loop -> 0..MaxRevise + 1]
  /\ severe \in [Loop -> BOOLEAN]
  /\ reason \in [Loop -> Reason]
  /\ premium \subseteq Loop /\ halt \subseteq Loop /\ noticed \subseteq Loop
  /\ holder \in (Loop \X {"outer", "inner"}) \cup {NoHolder}
  /\ stale \in BOOLEAN

\* A run that ended holds no premium model, through neither of its lock objects:
\* whatever raised, timed out or was taken over, the finally clauses gave it back.
NoLeaseLeft == holder # NoHolder => phase[holder[1]] \notin {"idle", "top", "decide", "ended"}

\* A run between an acquire and the finally clause that gives the lease back.
KeepsOuter(u) ==
  \/ big[u] /\ phase[u] \in {"critique", "judge", "abandon"}
  \/ phase[u] \in {"premium", "takefocus", "focus", "close"}
KeepsInner(u) == (big[u] /\ phase[u] = "revise") \/ phase[u] = "focus"

Leased == {h \in Loop \X {"outer", "inner"} :
             IF h[2] = "outer" THEN KeepsOuter(h[1]) ELSE KeepsInner(h[1])}

Loan == INSTANCE PremiumLease WITH
  Holder <- Loop \X {"outer", "inner"}, leased <- Leased, torn <- FALSE

\* The loops use the lock as PremiumModelLock provides it: what a run takes it gives
\* back when it leaves the block, once, and through the object it took it with.
LoopKeepsLease == Loan!Spec

\* Every run ends, also one that waits for the lease it holds itself.
LoopEnds == \A u \in Loop : phase[u] = "draft" ~> phase[u] = "ended"

\* A cancellation that the loop noticed is honored: no premium pass follows it.
\* (tests/test_loop_controller_contract.py, test_cancel_checker_honored)
CancelHonored == [][\A u \in Loop : u \in noticed => (u \in premium' => u \in premium)]_loopVars
=============================================================================
