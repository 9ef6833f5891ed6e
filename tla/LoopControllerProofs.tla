------------------------ MODULE LoopControllerProofs ------------------------
(***************************************************************************)
(* What holds of any number of critique loops that share the premium lock. *)
(*                                                                         *)
(* NoLeaseLeft says where a holder is not.  What is inductive is where it  *)
(* is: an outer lease lives between its acquire and the finally clause of  *)
(* its phase, also while the run works with an inner one, and an inner     *)
(* lease during a revision (HolderWorks).                                  *)
(***************************************************************************)
EXTENDS LoopController, TLAPS

OuterPhase == {"critique", "judge", "abandon", "premium", "takefocus", "focus", "close"}
InnerPhase == {"revise", "focus"}

HolderWorks ==
  \A u \in Loop :
    /\ holder = <<u, "outer">> => phase[u] \in OuterPhase
    /\ holder = <<u, "inner">> => phase[u] \in InnerPhase

\* A run that may still judge has made no more passes than it may repeat.
Passing == {"idle", "draft", "top", "take", "critique", "judge", "takeinner", "revise"}

PassesBounded == \A u \in Loop : phase[u] \in Passing => passes[u] \in 0 .. MaxRevise

LoopInv == LoopTypeOK /\ HolderWorks /\ PassesBounded

LEMMA LoopInitInv == LoopInit => LoopInv
<1> SUFFICES ASSUME LoopInit PROVE LoopInv
  OBVIOUS
<1>1. LoopTypeOK
  <2>1. 0 \in 0 .. MaxRevise + 1
    BY LoopAssumption
  <2>2. QED
    BY <2>1 DEF LoopInit, LoopTypeOK, Phase, Reason
<1>2. HolderWorks
  BY LoopAssumption DEF LoopInit, HolderWorks
<1>3. PassesBounded
  BY LoopAssumption DEF LoopInit, PassesBounded
<1>4. QED
  BY <1>1, <1>2, <1>3 DEF LoopInv

\* A run that moves on keeps what is true of the holder, if it does so of itself.
LEMMA RunMoves ==
  ASSUME LoopInv, NEW u \in Loop, NEW from, NEW to \in Phase, From(u, from, to),
         \/ holder' = holder
         \/ holder' = NoHolder
         \/ \E which \in {"outer", "inner"} : holder' = <<u, which>>,
         holder' = <<u, "outer">> => to \in OuterPhase,
         holder' = <<u, "inner">> => to \in InnerPhase,
         \/ passes' = passes /\ (to \in Passing => from \in Passing)
         \/ /\ passes' = [passes EXCEPT ![u] = @ + 1]
            /\ to \in Passing => passes[u] < MaxRevise
  PROVE  /\ PassesBounded'
         /\ phase' \in [Loop -> Phase]
         /\ holder' \in (Loop \X {"outer", "inner"}) \cup {NoHolder}
         /\ HolderWorks'
<1>1. /\ phase' \in [Loop -> Phase]
      /\ phase'[u] = to /\ \A v \in Loop \ {u} : phase'[v] = phase[v]
  BY DEF From, LoopInv, LoopTypeOK
<1>2. holder' \in (Loop \X {"outer", "inner"}) \cup {NoHolder}
  BY DEF LoopInv, LoopTypeOK
<1>3. \A v \in Loop \ {u} : /\ holder' = <<v, "outer">> => holder = <<v, "outer">>
                            /\ holder' = <<v, "inner">> => holder = <<v, "inner">>
  BY LoopAssumption
<1>4. HolderWorks'
  BY <1>1, <1>3 DEF HolderWorks, LoopInv
<1>5. ASSUME passes' = passes /\ (to \in Passing => from \in Passing)
      PROVE  PassesBounded'
  <2>1. \A v \in Loop : phase'[v] \in Passing => phase[v] \in Passing
    BY <1>1, <1>5 DEF From
  <2>2. QED
    BY <1>5, <2>1 DEF PassesBounded, LoopInv
<1>6. ASSUME /\ passes' = [passes EXCEPT ![u] = @ + 1]
             /\ to \in Passing => passes[u] < MaxRevise
      PROVE  PassesBounded'
  <2>1. passes[u] \in Nat /\ passes'[u] = passes[u] + 1
        /\ \A v \in Loop \ {u} : passes'[v] = passes[v]
    BY <1>6, LoopAssumption DEF LoopInv, LoopTypeOK
  <2>2. ASSUME NEW v \in Loop, phase'[v] \in Passing PROVE passes'[v] \in 0 .. MaxRevise
    <3>1. CASE v = u
      <4>1. passes[u] < MaxRevise
        BY <1>1, <1>6, <2>2, <3>1
      <4>2. QED
        BY <2>1, <3>1, <4>1, LoopAssumption
    <3>2. CASE v # u
      BY <1>1, <2>1, <2>2, <3>2 DEF PassesBounded, LoopInv
    <3>3. QED
      BY <3>1, <3>2
  <2>3. QED
    BY <2>2 DEF PassesBounded
<1>7. QED
  BY <1>1, <1>2, <1>4, <1>5, <1>6

\* Who drops a lease does not hold it afterwards.
LEMMA Dropped ==
  ASSUME LoopInv, NEW u \in Loop, NEW which \in {"outer", "inner"}, Drop(u, which)
  PROVE  /\ holder' = holder \/ holder' = NoHolder
         /\ holder' # <<u, which>>
         /\ stale' \in BOOLEAN
<1>1. NoHolder # <<u, which>>
  BY LoopAssumption
<1>2. stale \in BOOLEAN
  BY DEF LoopInv, LoopTypeOK
<1>3. CASE holder = <<u, which>>
  BY <1>1, <1>3 DEF Drop
<1>4. CASE holder # <<u, which>>
  BY <1>2, <1>4 DEF Drop
<1>5. QED
  BY <1>3, <1>4

\* The run is not where an outer or an inner lease lives.
LEMMA NotHolding ==
  ASSUME LoopInv, NEW u \in Loop
  PROVE  /\ phase[u] \notin OuterPhase => holder # <<u, "outer">>
         /\ phase[u] \notin InnerPhase => holder # <<u, "inner">>
  BY DEF LoopInv, HolderWorks

LEMMA LoopNextInv == LoopInv /\ [LoopNext]_loopVars => LoopInv'
<1> SUFFICES ASSUME LoopInv, [LoopNext]_loopVars PROVE LoopInv'
  OBVIOUS
<1> USE LoopAssumption
<1>1. ASSUME NEW u \in Loop, StartLoop(u) PROVE LoopInv'
  <2>1. From(u, "idle", "draft") /\ holder' = holder /\ passes' = passes
    BY <1>1 DEF StartLoop
  <2>2. phase[u] = "idle"
    BY <2>1 DEF From
  <2>3. phase' \in [Loop -> Phase] /\ HolderWorks' /\ PassesBounded'
    BY <2>1, <2>2, RunMoves, NotHolding DEF Phase, Passing, OuterPhase, InnerPhase
  <2>4. QED
    BY <1>1, <2>3 DEF StartLoop, LoopInv, LoopTypeOK
<1>2. ASSUME NEW u \in Loop, Draft(u) PROVE LoopInv'
  <2>1. PICK to \in {"ended", "top"} : From(u, "draft", to) /\ holder' = holder /\ passes' = passes
    BY <1>2 DEF Draft
  <2>2. phase[u] = "draft"
    BY <2>1 DEF From
  <2>3. phase' \in [Loop -> Phase] /\ HolderWorks' /\ PassesBounded'
    BY <2>1, <2>2, RunMoves, NotHolding DEF Phase, Passing, OuterPhase, InnerPhase
  <2>4. QED
    BY <1>2, <2>3 DEF Draft, Because, Reason, LoopInv, LoopTypeOK
<1>3. ASSUME NEW u \in Loop, LoopTop(u) PROVE LoopInv'
  <2>1. PICK to \in {"decide", "take", "critique"} : From(u, "top", to) /\ holder' = holder /\ passes' = passes
    BY <1>3 DEF LoopTop
  <2>2. phase[u] = "top"
    BY <2>1 DEF From
  <2>3. phase' \in [Loop -> Phase] /\ HolderWorks' /\ PassesBounded'
    BY <2>1, <2>2, RunMoves, NotHolding DEF Phase, Passing, OuterPhase, InnerPhase
  <2>4. QED
    BY <1>3, <2>3 DEF LoopTop, Because, Reason, LoopInv, LoopTypeOK
<1>4. ASSUME NEW u \in Loop, Acquire(u) PROVE LoopInv'
  <2> passes' = passes
    BY <1>4 DEF Acquire
  <2>1. CASE From(u, "take", "critique") /\ Grab(u, "outer")
    <3>1. phase' \in [Loop -> Phase] /\ HolderWorks' /\ PassesBounded'
          /\ holder' \in (Loop \X {"outer", "inner"}) \cup {NoHolder}
      BY <2>1, RunMoves DEF Phase, Passing, OuterPhase, Grab
    <3>2. QED
      BY <1>4, <2>1, <3>1 DEF Acquire, Grab, LoopInv, LoopTypeOK
  <2>2. CASE From(u, "takepremium", "premium") /\ Grab(u, "outer")
    <3>1. phase' \in [Loop -> Phase] /\ HolderWorks' /\ PassesBounded'
          /\ holder' \in (Loop \X {"outer", "inner"}) \cup {NoHolder}
      BY <2>2, RunMoves DEF Phase, Passing, OuterPhase, Grab
    <3>2. QED
      BY <1>4, <2>2, <3>1 DEF Acquire, Grab, LoopInv, LoopTypeOK
  <2>3. CASE From(u, "takeinner", "revise") /\ Grab(u, "inner")
    <3>1. phase' \in [Loop -> Phase] /\ HolderWorks' /\ PassesBounded'
          /\ holder' \in (Loop \X {"outer", "inner"}) \cup {NoHolder}
      BY <2>3, RunMoves DEF Phase, Passing, InnerPhase, Grab
    <3>2. QED
      BY <1>4, <2>3, <3>1 DEF Acquire, Grab, LoopInv, LoopTypeOK
  <2>4. CASE From(u, "takefocus", "focus") /\ Grab(u, "inner")
    <3>1. phase' \in [Loop -> Phase] /\ HolderWorks' /\ PassesBounded'
          /\ holder' \in (Loop \X {"outer", "inner"}) \cup {NoHolder}
      BY <2>4, RunMoves DEF Phase, Passing, InnerPhase, Grab
    <3>2. QED
      BY <1>4, <2>4, <3>1 DEF Acquire, Grab, LoopInv, LoopTypeOK
  <2>5. QED
    BY <1>4, <2>1, <2>2, <2>3, <2>4 DEF Acquire
<1>5. ASSUME NEW u \in Loop, GiveUpLock(u) PROVE LoopInv'
  <2>1. /\ \/ From(u, "take", "ended") \/ From(u, "takeinner", "top")
           \/ From(u, "takepremium", "ended") \/ From(u, "takefocus", "close")
        /\ holder' = holder /\ passes' = passes
    BY <1>5 DEF GiveUpLock
  <2>2. phase' \in [Loop -> Phase] /\ HolderWorks' /\ PassesBounded'
    <3>1. CASE From(u, "take", "ended")
      BY <2>1, <3>1, RunMoves, NotHolding DEF From, Phase, Passing, OuterPhase, InnerPhase
    <3>2. CASE From(u, "takeinner", "top")
      BY <2>1, <3>2, RunMoves, NotHolding DEF From, Phase, Passing, OuterPhase, InnerPhase
    <3>3. CASE From(u, "takepremium", "ended")
      BY <2>1, <3>3, RunMoves, NotHolding DEF From, Phase, Passing, OuterPhase, InnerPhase
    <3>4. CASE From(u, "takefocus", "close")
      BY <2>1, <3>4, RunMoves, NotHolding DEF From, Phase, Passing, OuterPhase, InnerPhase
    <3>5. QED
      BY <2>1, <3>1, <3>2, <3>3, <3>4
  <2>3. QED
    BY <1>5, <2>2 DEF GiveUpLock, Because, Reason, LoopInv, LoopTypeOK
<1>6. ASSUME NEW u \in Loop, Critique(u) PROVE LoopInv'
  <2>1. PICK to \in {"judge", "abandon"} : From(u, "critique", to) /\ holder' = holder /\ passes' = passes
    BY <1>6 DEF Critique
  <2>2. phase[u] = "critique"
    BY <2>1 DEF From
  <2>3. phase' \in [Loop -> Phase] /\ HolderWorks' /\ PassesBounded'
    BY <2>1, <2>2, RunMoves, NotHolding DEF Phase, Passing, OuterPhase, InnerPhase
  <2>4. severe' \in [Loop -> BOOLEAN]
    BY <1>6 DEF Critique, LoopInv, LoopTypeOK
  <2>5. QED
    BY <1>6, <2>3, <2>4 DEF Critique, LoopInv, LoopTypeOK
<1>7. ASSUME NEW u \in Loop, Judge(u) PROVE LoopInv'
  <2>1. PICK to \in {"decide", "top", "takeinner", "revise"} :
          /\ From(u, "judge", to)
          /\ passes' = [passes EXCEPT ![u] = @ + 1]
          /\ to # "decide" => ~(passes[u] >= MaxRevise)
    BY <1>7 DEF Judge
  <2>2. Drop(u, "outer") /\ phase[u] = "judge"
    BY <1>7, <2>1 DEF Judge, From
  <2>3. holder' # <<u, "outer">> /\ holder' # <<u, "inner">>
    BY <2>2, Dropped, NotHolding DEF InnerPhase
  <2>4. /\ phase' \in [Loop -> Phase] /\ HolderWorks' /\ PassesBounded'
        /\ holder' \in (Loop \X {"outer", "inner"}) \cup {NoHolder} /\ stale' \in BOOLEAN
    <3>1. passes[u] \in Nat
      BY DEF LoopInv, LoopTypeOK
    <3>2. to \in Passing => passes[u] < MaxRevise
      BY <2>1, <3>1 DEF Passing
    <3>3. QED
      BY <2>1, <2>2, <2>3, <3>2, Dropped, RunMoves DEF Phase
  <2>5. passes' \in [Loop -> 0 .. MaxRevise + 1]
    <3>1. passes[u] \in 0 .. MaxRevise
      BY <2>2 DEF LoopInv, PassesBounded, Passing
    <3>2. passes[u] + 1 \in 0 .. MaxRevise + 1
      BY <3>1
    <3>3. QED
      BY <2>1, <3>2 DEF LoopInv, LoopTypeOK
  <2>6. reason' \in [Loop -> Reason]
    BY <1>7 DEF Judge, Because, Reason, LoopInv, LoopTypeOK
  <2>7. QED
    BY <1>7, <2>4, <2>5, <2>6 DEF Judge, LoopInv, LoopTypeOK
<1>8. ASSUME NEW u \in Loop, Abandon(u) \/ ClosePremium(u) PROVE LoopInv'
  <2>1. PICK from \in {"abandon", "close"} : From(u, from, "ended") /\ Drop(u, "outer")
                                           /\ passes' = passes
    BY <1>8 DEF Abandon, ClosePremium
  <2>2. phase[u] \in {"abandon", "close"}
    BY <2>1 DEF From
  <2>3. holder' # <<u, "outer">> /\ holder' # <<u, "inner">>
    BY <2>1, <2>2, Dropped, NotHolding DEF InnerPhase
  <2>4. /\ phase' \in [Loop -> Phase] /\ HolderWorks' /\ PassesBounded'
        /\ holder' \in (Loop \X {"outer", "inner"}) \cup {NoHolder} /\ stale' \in BOOLEAN
    BY <2>1, <2>3, Dropped, RunMoves DEF Phase, Passing
  <2>5. QED
    BY <1>8, <2>4 DEF Abandon, ClosePremium, LoopInv, LoopTypeOK
<1>9. ASSUME NEW u \in Loop, Revise(u) PROVE LoopInv'
  <2>1. From(u, "revise", "top") /\ Drop(u, "inner") /\ phase[u] = "revise" /\ passes' = passes
    BY <1>9 DEF Revise, From
  <2>2. holder' # <<u, "outer">> /\ holder' # <<u, "inner">>
    BY <2>1, Dropped, NotHolding DEF OuterPhase
  <2>3. /\ phase' \in [Loop -> Phase] /\ HolderWorks' /\ PassesBounded'
        /\ holder' \in (Loop \X {"outer", "inner"}) \cup {NoHolder} /\ stale' \in BOOLEAN
    BY <2>1, <2>2, Dropped, RunMoves DEF Phase, Passing
  <2>4. QED
    BY <1>9, <2>3 DEF Revise, LoopInv, LoopTypeOK
<1>10. ASSUME NEW u \in Loop, Decide(u) PROVE LoopInv'
  <2>1. PICK to \in {"takepremium", "ended"} : From(u, "decide", to) /\ holder' = holder /\ passes' = passes
    BY <1>10 DEF Decide
  <2>2. phase[u] = "decide"
    BY <2>1 DEF From
  <2>3. phase' \in [Loop -> Phase] /\ HolderWorks' /\ PassesBounded'
    BY <2>1, <2>2, RunMoves, NotHolding DEF Phase, Passing, OuterPhase, InnerPhase
  <2>4. QED
    BY <1>10, <2>3 DEF Decide, Because, Reason, LoopInv, LoopTypeOK
<1>11. ASSUME NEW u \in Loop, PremiumCritique(u) PROVE LoopInv'
  <2>1. PICK to \in {"takefocus", "close"} : From(u, "premium", to) /\ holder' = holder /\ passes' = passes
    BY <1>11 DEF PremiumCritique
  <2>2. phase[u] = "premium"
    BY <2>1 DEF From
  <2>3. phase' \in [Loop -> Phase] /\ HolderWorks' /\ PassesBounded'
    BY <2>1, <2>2, RunMoves, NotHolding DEF Phase, Passing, OuterPhase, InnerPhase
  <2>4. severe' \in [Loop -> BOOLEAN]
    BY <1>11 DEF PremiumCritique, LoopInv, LoopTypeOK
  <2>5. reason' \in [Loop -> Reason]
    BY <1>11 DEF PremiumCritique, Because, Reason, LoopInv, LoopTypeOK
  <2>6. QED
    BY <1>11, <2>3, <2>4, <2>5 DEF PremiumCritique, LoopInv, LoopTypeOK
<1>12. ASSUME NEW u \in Loop, Focus(u) PROVE LoopInv'
  <2>1. From(u, "focus", "close") /\ Drop(u, "inner") /\ passes' = passes
    BY <1>12 DEF Focus
  <2>2. /\ phase' \in [Loop -> Phase] /\ HolderWorks' /\ PassesBounded'
        /\ holder' \in (Loop \X {"outer", "inner"}) \cup {NoHolder} /\ stale' \in BOOLEAN
    BY <2>1, Dropped, RunMoves DEF Phase, Passing, OuterPhase
  <2>3. QED
    BY <1>12, <2>2 DEF Focus, LoopInv, LoopTypeOK
<1>13. ASSUME NEW u \in Loop, CancelLoopRun(u) PROVE LoopInv'
  BY <1>13 DEF CancelLoopRun, LoopInv, LoopTypeOK, HolderWorks, PassesBounded
<1>14. ASSUME GrowStale PROVE LoopInv'
  BY <1>14 DEF GrowStale, LoopInv, LoopTypeOK, HolderWorks, PassesBounded
<1>15. CASE UNCHANGED loopVars
  BY <1>15 DEF loopVars, LoopInv, LoopTypeOK, HolderWorks, PassesBounded
<1>16. QED
  BY <1>1, <1>2, <1>3, <1>4, <1>5, <1>6, <1>7, <1>8, <1>9, <1>10, <1>11, <1>12, <1>13,
     <1>14, <1>15 DEF LoopNext, LoopStep

\* Wherever the lock's holder is, it is at work: the inductive invariant, for any
\* runs and any number of revisions.
THEOREM LoopInvariant == LoopSpec => []LoopInv
  BY LoopInitInv, LoopNextInv, PTL DEF LoopSpec

\* A run that ended holds no premium model, through neither of its lock objects.
THEOREM LeasesReturned == LoopSpec => []NoLeaseLeft
<1>1. LoopInv => NoLeaseLeft
  <2> SUFFICES ASSUME LoopInv, holder # NoHolder
               PROVE  phase[holder[1]] \notin {"idle", "top", "decide", "ended"}
    BY DEF NoLeaseLeft
  <2>1. PICK u \in Loop, which \in {"outer", "inner"} : holder = <<u, which>>
    BY DEF LoopInv, LoopTypeOK
  <2>2. QED
    BY <2>1 DEF LoopInv, HolderWorks, OuterPhase, InnerPhase
<1>2. QED
  BY <1>1, LoopInvariant, PTL

-----------------------------------------------------------------------------

\* The leases of the loops.

\* Where a lease depends on the tier of the default model, who holds it has a
\* premium one.
BigHolds ==
  \A u \in Loop :
    /\ phase[u] \in {"take", "takeinner"} => big[u]
    /\ holder = <<u, "outer">> /\ phase[u] \in {"critique", "judge", "abandon"} => big[u]
    /\ holder = <<u, "inner">> /\ phase[u] = "revise" => big[u]

LEMMA TierMoves ==
  ASSUME LoopInv, BigHolds, NEW u \in Loop, NEW from, NEW to, From(u, from, to), big' = big,
         \/ holder' = holder
         \/ holder' = NoHolder
         \/ \E which \in {"outer", "inner"} : holder' = <<u, which>>,
         to \in {"take", "takeinner"} => big[u],
         holder' = <<u, "outer">> /\ to \in {"critique", "judge", "abandon"} => big[u],
         holder' = <<u, "inner">> /\ to = "revise" => big[u]
  PROVE  BigHolds'
<1>1. phase'[u] = to /\ \A v \in Loop \ {u} : phase'[v] = phase[v]
  BY DEF From, LoopInv, LoopTypeOK
<1>2. \A v \in Loop \ {u} : /\ holder' = <<v, "outer">> => holder = <<v, "outer">>
                            /\ holder' = <<v, "inner">> => holder = <<v, "inner">>
  BY LoopAssumption
<1>3. QED
  BY <1>1, <1>2 DEF BigHolds

LEMMA BigHoldsNext == LoopInv /\ BigHolds /\ [LoopNext]_loopVars => BigHolds'
<1> SUFFICES ASSUME LoopInv, BigHolds, [LoopNext]_loopVars PROVE BigHolds'
  OBVIOUS
<1> USE LoopAssumption
<1>1. ASSUME NEW u \in Loop, StartLoop(u) PROVE BigHolds'
  <2>1. /\ phase[u] = "idle" /\ phase'[u] = "draft" /\ holder' = holder
        /\ \A v \in Loop \ {u} : phase'[v] = phase[v] /\ big'[v] = big[v]
    BY <1>1 DEF StartLoop, From, LoopInv, LoopTypeOK
  <2>2. QED
    BY <2>1 DEF BigHolds
<1>2. ASSUME NEW u \in Loop, Draft(u) PROVE BigHolds'
  <2>1. PICK to \in {"ended", "top"} : From(u, "draft", to)
    BY <1>2 DEF Draft
  <2>2. big' = big /\ holder' = holder
    BY <1>2 DEF Draft
  <2>3. QED
    BY <2>1, <2>2, TierMoves
<1>3. ASSUME NEW u \in Loop, LoopTop(u) PROVE BigHolds'
  <2>1. PICK to \in {"decide", "take", "critique"} : From(u, "top", to) /\ (to = "take" => big[u])
    BY <1>3 DEF LoopTop
  <2>2. big' = big /\ holder' = holder /\ phase[u] = "top"
    BY <1>3, <2>1 DEF LoopTop, From
  <2>3. holder # <<u, "outer">> /\ holder # <<u, "inner">>
    BY <2>2, NotHolding DEF OuterPhase, InnerPhase
  <2>4. QED
    BY <2>1, <2>2, <2>3, TierMoves
<1>4. ASSUME NEW u \in Loop, Acquire(u) PROVE BigHolds'
  <2>1. big' = big
    BY <1>4 DEF Acquire
  <2>2. PICK from \in {"take", "takepremium", "takeinner", "takefocus"},
             to \in {"critique", "premium", "revise", "focus"},
             which \in {"outer", "inner"} :
          /\ From(u, from, to) /\ Grab(u, which)
          /\ to \in {"critique", "revise"} => from \in {"take", "takeinner"}
    BY <1>4 DEF Acquire
  <2>3. holder' = <<u, which>> /\ phase[u] = from
    BY <2>2 DEF Grab, From
  <2>4. to \in {"critique", "revise"} => big[u]
    BY <2>2, <2>3 DEF BigHolds
  <2>5. QED
    BY <2>1, <2>2, <2>3, <2>4, TierMoves
<1>5. ASSUME NEW u \in Loop, GiveUpLock(u) PROVE BigHolds'
  <2>1. PICK from \in Phase, to \in {"ended", "top", "close"} : From(u, from, to)
    BY <1>5 DEF GiveUpLock, Phase
  <2>2. big' = big /\ holder' = holder
    BY <1>5 DEF GiveUpLock
  <2>3. QED
    BY <2>1, <2>2, TierMoves
<1>6. ASSUME NEW u \in Loop, Critique(u) PROVE BigHolds'
  <2>1. PICK to \in {"judge", "abandon"} : From(u, "critique", to)
    BY <1>6 DEF Critique
  <2>2. big' = big /\ holder' = holder /\ phase[u] = "critique"
    BY <1>6, <2>1 DEF Critique, From
  <2>3. holder = <<u, "outer">> => big[u]
    BY <2>2 DEF BigHolds
  <2>4. QED
    BY <2>1, <2>2, <2>3, TierMoves
<1>7. ASSUME NEW u \in Loop, Judge(u) PROVE BigHolds'
  <2>1. PICK to \in {"decide", "top", "takeinner", "revise"} :
          From(u, "judge", to) /\ (to = "takeinner" => big[u])
    BY <1>7 DEF Judge
  <2>2. Drop(u, "outer") /\ big' = big /\ phase[u] = "judge"
    BY <1>7, <2>1 DEF Judge, From
  <2>3. holder' # <<u, "outer">> /\ holder' # <<u, "inner">>
    BY <2>2, Dropped, NotHolding DEF InnerPhase
  <2>4. QED
    BY <2>1, <2>2, <2>3, Dropped, TierMoves
<1>8. ASSUME NEW u \in Loop,
             Abandon(u) \/ Revise(u) \/ Focus(u) \/ ClosePremium(u)
      PROVE  BigHolds'
  <2>1. PICK from \in Phase, to \in {"ended", "top", "close"}, which \in {"outer", "inner"} :
          From(u, from, to) /\ Drop(u, which)
    BY <1>8 DEF Abandon, Revise, Focus, ClosePremium, Phase
  <2>2. big' = big
    BY <1>8 DEF Abandon, Revise, Focus, ClosePremium
  <2>3. QED
    BY <2>1, <2>2, Dropped, TierMoves
<1>9. ASSUME NEW u \in Loop, Decide(u) \/ PremiumCritique(u) PROVE BigHolds'
  <2>1. PICK from \in Phase, to \in {"takepremium", "ended", "takefocus", "close"} : From(u, from, to)
    BY <1>9 DEF Decide, PremiumCritique, Phase
  <2>2. big' = big /\ holder' = holder
    BY <1>9 DEF Decide, PremiumCritique
  <2>3. QED
    BY <2>1, <2>2, TierMoves
<1>10. ASSUME NEW u \in Loop, CancelLoopRun(u) PROVE BigHolds'
  BY <1>10 DEF CancelLoopRun, BigHolds
<1>11. CASE GrowStale
  BY <1>11 DEF GrowStale, BigHolds
<1>12. CASE UNCHANGED loopVars
  BY <1>12 DEF loopVars, BigHolds
<1>13. QED
  BY <1>1, <1>2, <1>3, <1>4, <1>5, <1>6, <1>7, <1>8, <1>9, <1>10, <1>11, <1>12
     DEF LoopNext, LoopStep

\* A run that moves on changes its own leases only.
LEMMA OthersKeep ==
  ASSUME LoopInv, NEW u \in Loop, NEW from, NEW to, From(u, from, to),
         \A v \in Loop \ {u} : big'[v] = big[v]
  PROVE  /\ phase[u] = from /\ phase'[u] = to
         /\ \A v \in Loop \ {u} : /\ KeepsOuter(v)' <=> KeepsOuter(v)
                                  /\ KeepsInner(v)' <=> KeepsInner(v)
<1>1. /\ phase[u] = from /\ phase'[u] = to
      /\ \A v \in Loop \ {u} : phase'[v] = phase[v]
  BY DEF From, LoopInv, LoopTypeOK
<1>2. QED
  BY <1>1 DEF KeepsOuter, KeepsInner

LEMMA OneRunDiffers ==
  ASSUME NEW S, S \subseteq Loop \X {"outer", "inner"},
         NEW T, T \subseteq Loop \X {"outer", "inner"}, NEW u \in Loop,
         \A v \in Loop \ {u} : /\ <<v, "outer">> \in T <=> <<v, "outer">> \in S
                               /\ <<v, "inner">> \in T <=> <<v, "inner">> \in S
  PROVE  \A h \in Loop \X {"outer", "inner"} :
           h # <<u, "outer">> /\ h # <<u, "inner">> => (h \in T <=> h \in S)
<1>1. ASSUME NEW v \in Loop, <<v, "outer">> # <<u, "outer">>
      PROVE  <<v, "outer">> \in T <=> <<v, "outer">> \in S
  <2>1. v \in Loop \ {u}
    BY <1>1
  <2>2. QED
    BY <2>1, Zenon
<1>2. ASSUME NEW v \in Loop, <<v, "inner">> # <<u, "inner">>
      PROVE  <<v, "inner">> \in T <=> <<v, "inner">> \in S
  <2>1. v \in Loop \ {u}
    BY <1>2
  <2>2. QED
    BY <2>1, Zenon
<1>3. SUFFICES ASSUME NEW h \in Loop \X {"outer", "inner"}, h # <<u, "outer">>, h # <<u, "inner">>
               PROVE  h \in T <=> h \in S
  BY Zenon
<1>4. PICK v \in Loop, which \in {"outer", "inner"} : h = <<v, which>>
  OBVIOUS
<1>5. CASE which = "outer"
  BY <1>1, <1>3, <1>4, <1>5, Zenon
<1>6. CASE which = "inner"
  BY <1>2, <1>3, <1>4, <1>6, Zenon
<1>7. QED
  BY <1>5, <1>6

LEMMA LeasedRows ==
  /\ Leased \subseteq Loop \X {"outer", "inner"}
  /\ \A v \in Loop : /\ <<v, "outer">> \in Leased <=> KeepsOuter(v)
                     /\ <<v, "inner">> \in Leased <=> KeepsInner(v)
  BY DEF Leased

LEMMA LeasedRowsPrimed ==
  /\ Leased' \subseteq Loop \X {"outer", "inner"}
  /\ \A v \in Loop : /\ <<v, "outer">> \in Leased' <=> KeepsOuter(v)'
                     /\ <<v, "inner">> \in Leased' <=> KeepsInner(v)'
  BY DEF Leased

\* Who moves leaves the leases as they are, or adds or removes its own.
LEMMA LeasedBy ==
  ASSUME NEW u \in Loop,
         \A v \in Loop \ {u} : /\ KeepsOuter(v)' <=> KeepsOuter(v)
                               /\ KeepsInner(v)' <=> KeepsInner(v)
  PROVE  /\ (KeepsOuter(u)' <=> KeepsOuter(u)) /\ (KeepsInner(u)' <=> KeepsInner(u))
              => Leased' = Leased
         /\ KeepsOuter(u)' /\ (KeepsInner(u)' <=> KeepsInner(u))
              => Leased' = Leased \cup {<<u, "outer">>}
         /\ (KeepsOuter(u)' <=> KeepsOuter(u)) /\ KeepsInner(u)'
              => Leased' = Leased \cup {<<u, "inner">>}
         /\ ~KeepsOuter(u)' /\ (KeepsInner(u)' <=> KeepsInner(u))
              => Leased' = Leased \ {<<u, "outer">>}
         /\ (KeepsOuter(u)' <=> KeepsOuter(u)) /\ ~KeepsInner(u)'
              => Leased' = Leased \ {<<u, "inner">>}
<1> DEFINE S == Leased
           T == Leased'
           out == <<u, "outer">>
           in == <<u, "inner">>
<1>1. /\ S \subseteq Loop \X {"outer", "inner"} /\ T \subseteq Loop \X {"outer", "inner"}
      /\ out \in Loop \X {"outer", "inner"} /\ in \in Loop \X {"outer", "inner"} /\ out # in
  BY LeasedRows, LeasedRowsPrimed
<1>2. \A v \in Loop \ {u} : /\ <<v, "outer">> \in T <=> <<v, "outer">> \in S
                            /\ <<v, "inner">> \in T <=> <<v, "inner">> \in S
  <2>1. ASSUME NEW v \in Loop \ {u}
        PROVE  /\ <<v, "outer">> \in T <=> <<v, "outer">> \in S
               /\ <<v, "inner">> \in T <=> <<v, "inner">> \in S
    <3>1. v \in Loop
      OBVIOUS
    <3>2. (KeepsOuter(v)' <=> KeepsOuter(v)) /\ (KeepsInner(v)' <=> KeepsInner(v))
      BY Zenon
    <3>3. QED
      BY <3>1, <3>2, LeasedRows, LeasedRowsPrimed, Zenon
  <2>2. QED
    BY <2>1, Zenon
<1>3. \A h \in Loop \X {"outer", "inner"} : h # out /\ h # in => (h \in T <=> h \in S)
  <2> HIDE DEF S, T
  <2>1. QED
    BY <1>1, <1>2, OneRunDiffers
<1>4. /\ out \in S <=> KeepsOuter(u)
      /\ in \in S <=> KeepsInner(u)
      /\ out \in T <=> KeepsOuter(u)'
      /\ in \in T <=> KeepsInner(u)'
  BY LeasedRows, LeasedRowsPrimed, Zenon
<1> DEFINE wasOuter == KeepsOuter(u)
           wasInner == KeepsInner(u)
           isOuter == KeepsOuter(u)'
           isInner == KeepsInner(u)'
<1>5. /\ (isOuter <=> wasOuter) /\ (isInner <=> wasInner) => T = S
      /\ isOuter /\ (isInner <=> wasInner) => T = S \cup {out}
      /\ (isOuter <=> wasOuter) /\ isInner => T = S \cup {in}
      /\ ~isOuter /\ (isInner <=> wasInner) => T = S \ {out}
      /\ (isOuter <=> wasOuter) /\ ~isInner => T = S \ {in}
  <2>1. /\ out \in S <=> wasOuter
        /\ in \in S <=> wasInner
        /\ out \in T <=> isOuter
        /\ in \in T <=> isInner
    BY <1>4, Zenon
  <2> HIDE DEF S, T, out, in, wasOuter, wasInner, isOuter, isInner
  <2>2. \A h \in T : h \in Loop \X {"outer", "inner"}
    BY <1>1
  <2>3. \A h \in S : h \in Loop \X {"outer", "inner"}
    BY <1>1
  <2>4. (isOuter <=> wasOuter) /\ (isInner <=> wasInner) => T = S
    <3>1. SUFFICES ASSUME isOuter <=> wasOuter, isInner <=> wasInner
                   PROVE  T = S
      BY Zenon
    <3>2. (out \in T <=> out \in S) /\ (in \in T <=> in \in S)
      BY <2>1, <3>1, Zenon
    <3>3. \A h \in Loop \X {"outer", "inner"} : h \in T <=> h \in S
      BY <1>3, <3>2, Zenon
    <3>4. QED
      BY <2>2, <2>3, <3>3
  <2>5. isOuter /\ (isInner <=> wasInner) => T = S \cup {out}
    BY <1>1, <1>3, <2>1, <2>2, <2>3, Zenon
  <2>6. (isOuter <=> wasOuter) /\ isInner => T = S \cup {in}
    BY <1>1, <1>3, <2>1, <2>2, <2>3, Zenon
  <2>7. ~isOuter /\ (isInner <=> wasInner) => T = S \ {out}
    BY <1>1, <1>3, <2>1, <2>2, <2>3, Zenon
  <2>8. (isOuter <=> wasOuter) /\ ~isInner => T = S \ {in}
    BY <1>1, <1>3, <2>1, <2>2, <2>3, Zenon
  <2>9. QED
    BY <2>4, <2>5, <2>6, <2>7, <2>8, Zenon
<1>6. QED
  BY <1>5, Zenon

\* A step that touches neither the lock nor who has a lease.
LEMMA LoopLeaseRests ==
  ASSUME Leased' = Leased, UNCHANGED <<holder, stale>>
  PROVE  UNCHANGED Loan!vars
  BY DEF Loan!vars

\* A run that drops what it took gives it back.
LEMMA DropGivesBack ==
  ASSUME NEW u \in Loop, NEW which \in {"outer", "inner"}, Drop(u, which),
         <<u, which>> \in Leased, Leased' = Leased \ {<<u, which>>}
  PROVE  Loan!Next
<1>1. Loan!GiveBack(<<u, which>>)
  BY DEF Drop, Loan!GiveBack
<1>2. QED
  BY <1>1 DEF Loan!Next

LEMMA GrabTakes ==
  ASSUME NEW u \in Loop, NEW which \in {"outer", "inner"}, Grab(u, which),
         Leased' = Leased \cup {<<u, which>>}
  PROVE  Loan!Next
<1>1. Loan!Take(<<u, which>>)
  BY DEF Grab, Free, Loan!Take
<1>2. QED
  BY <1>1 DEF Loan!Next

\* A drop is the return of a lease, or of nothing when the run had none.
LEMMA DropReturns ==
  ASSUME LoopInv, BigHolds, NEW u \in Loop, NEW which \in {"outer", "inner"}, Drop(u, which),
         holder = <<u, which>> => <<u, which>> \in Leased,
         Leased' = Leased \ {<<u, which>>}
  PROVE  Loan!Next \/ UNCHANGED Loan!vars
<1>1. CASE <<u, which>> \in Leased
  BY <1>1, DropGivesBack
<1>2. CASE <<u, which>> \notin Leased
  <2>1. Leased' = Leased
    BY <1>2
  <2>2. UNCHANGED <<holder, stale>>
    BY <1>2 DEF Drop
  <2>3. QED
    BY <2>1, <2>2, LoopLeaseRests
<1>3. QED
  BY <1>1, <1>2

LEMMA OuterReturned ==
  ASSUME LoopInv, BigHolds, NEW u \in Loop, NEW from \in {"judge", "abandon", "close"}, NEW to,
         to \in {"decide", "top", "takeinner", "ended"} \/ (to = "revise" /\ ~big[u]),
         From(u, from, to), big' = big, Drop(u, "outer")
  PROVE  Loan!Next \/ UNCHANGED Loan!vars
<1>1. phase[u] = from /\ phase'[u] = to
  BY OthersKeep
<1>2. ~KeepsOuter(u)'
  BY <1>1 DEF KeepsOuter
<1>3. KeepsInner(u)' <=> KeepsInner(u)
  BY <1>1 DEF KeepsInner
<1>4. \A v \in Loop \ {u} : (KeepsOuter(v)' <=> KeepsOuter(v)) /\ (KeepsInner(v)' <=> KeepsInner(v))
  BY OthersKeep
<1>5. Leased' = Leased \ {<<u, "outer">>}
  BY <1>2, <1>3, <1>4, LeasedBy, Zenon
<1>6. holder = <<u, "outer">> => KeepsOuter(u)
  BY <1>1 DEF BigHolds, KeepsOuter
<1>7. holder = <<u, "outer">> => <<u, "outer">> \in Leased
  BY <1>6, LeasedRows, Zenon
<1>8. QED
  BY <1>5, <1>7, DropReturns

LEMMA InnerReturned ==
  ASSUME LoopInv, BigHolds, NEW u \in Loop, NEW from, NEW to,
         (from = "revise" /\ to = "top") \/ (from = "focus" /\ to = "close"),
         From(u, from, to), big' = big, Drop(u, "inner")
  PROVE  Loan!Next \/ UNCHANGED Loan!vars
<1>1. phase[u] = from /\ phase'[u] = to
  BY OthersKeep
<1>2. ~KeepsInner(u)'
  BY <1>1 DEF KeepsInner
<1>3. KeepsOuter(u)' <=> KeepsOuter(u)
  BY <1>1 DEF KeepsOuter
<1>4. \A v \in Loop \ {u} : (KeepsOuter(v)' <=> KeepsOuter(v)) /\ (KeepsInner(v)' <=> KeepsInner(v))
  BY OthersKeep
<1>5. Leased' = Leased \ {<<u, "inner">>}
  BY <1>2, <1>3, <1>4, LeasedBy, Zenon
<1>6. holder = <<u, "inner">> => KeepsInner(u)
  BY <1>1 DEF BigHolds, KeepsInner
<1>7. holder = <<u, "inner">> => <<u, "inner">> \in Leased
  BY <1>6, LeasedRows, Zenon
<1>8. QED
  BY <1>5, <1>7, DropReturns

\* A move that keeps what the run has and does not touch the lock.
LEMMA RunKeeps ==
  ASSUME LoopInv, NEW u \in Loop, NEW from, NEW to, From(u, from, to),
         \A v \in Loop \ {u} : big'[v] = big[v],
         UNCHANGED <<holder, stale>>,
         phase[u] = from /\ phase'[u] = to =>
           (KeepsOuter(u)' <=> KeepsOuter(u)) /\ (KeepsInner(u)' <=> KeepsInner(u))
  PROVE  UNCHANGED Loan!vars
<1>1. phase[u] = from /\ phase'[u] = to
  BY OthersKeep
<1>2. \A v \in Loop \ {u} : (KeepsOuter(v)' <=> KeepsOuter(v)) /\ (KeepsInner(v)' <=> KeepsInner(v))
  BY OthersKeep
<1>3. Leased' = Leased
  BY <1>1, <1>2, LeasedBy, Zenon
<1>4. QED
  BY <1>3, LoopLeaseRests

LEMMA AcquireTakes ==
  ASSUME LoopInv, BigHolds, NEW u \in Loop, Acquire(u)
  PROVE  Loan!Next
<1>1. big' = big
  BY DEF Acquire
<1>2. CASE From(u, "take", "critique") /\ Grab(u, "outer")
  <2>1. phase[u] = "take" /\ phase'[u] = "critique"
    BY <1>1, <1>2, OthersKeep
  <2>2. big[u]
    BY <2>1 DEF BigHolds
  <2>3. KeepsOuter(u)'
    BY <1>1, <2>1, <2>2 DEF KeepsOuter
  <2>4. KeepsInner(u)' <=> KeepsInner(u)
    BY <2>1 DEF KeepsInner
  <2>5. \A v \in Loop \ {u} : (KeepsOuter(v)' <=> KeepsOuter(v)) /\ (KeepsInner(v)' <=> KeepsInner(v))
    BY <1>1, <1>2, OthersKeep
  <2>6. Leased' = Leased \cup {<<u, "outer">>}
    BY <2>3, <2>4, <2>5, LeasedBy, Zenon
  <2>7. QED
    BY <1>2, <2>6, GrabTakes
<1>3. CASE From(u, "takepremium", "premium") /\ Grab(u, "outer")
  <2>1. phase[u] = "takepremium" /\ phase'[u] = "premium"
    BY <1>1, <1>3, OthersKeep
  <2>2. KeepsOuter(u)'
    BY <2>1 DEF KeepsOuter
  <2>3. KeepsInner(u)' <=> KeepsInner(u)
    BY <2>1 DEF KeepsInner
  <2>4. \A v \in Loop \ {u} : (KeepsOuter(v)' <=> KeepsOuter(v)) /\ (KeepsInner(v)' <=> KeepsInner(v))
    BY <1>1, <1>3, OthersKeep
  <2>5. Leased' = Leased \cup {<<u, "outer">>}
    BY <2>2, <2>3, <2>4, LeasedBy, Zenon
  <2>6. QED
    BY <1>3, <2>5, GrabTakes
<1>4. CASE From(u, "takeinner", "revise") /\ Grab(u, "inner")
  <2>1. phase[u] = "takeinner" /\ phase'[u] = "revise"
    BY <1>1, <1>4, OthersKeep
  <2>2. big[u]
    BY <2>1 DEF BigHolds
  <2>3. KeepsInner(u)'
    BY <1>1, <2>1, <2>2 DEF KeepsInner
  <2>4. KeepsOuter(u)' <=> KeepsOuter(u)
    BY <2>1 DEF KeepsOuter
  <2>5. \A v \in Loop \ {u} : (KeepsOuter(v)' <=> KeepsOuter(v)) /\ (KeepsInner(v)' <=> KeepsInner(v))
    BY <1>1, <1>4, OthersKeep
  <2>6. Leased' = Leased \cup {<<u, "inner">>}
    BY <2>3, <2>4, <2>5, LeasedBy, Zenon
  <2>7. QED
    BY <1>4, <2>6, GrabTakes
<1>5. CASE From(u, "takefocus", "focus") /\ Grab(u, "inner")
  <2>1. phase[u] = "takefocus" /\ phase'[u] = "focus"
    BY <1>1, <1>5, OthersKeep
  <2>2. KeepsInner(u)'
    BY <2>1 DEF KeepsInner
  <2>3. KeepsOuter(u)' <=> KeepsOuter(u)
    BY <2>1 DEF KeepsOuter
  <2>4. \A v \in Loop \ {u} : (KeepsOuter(v)' <=> KeepsOuter(v)) /\ (KeepsInner(v)' <=> KeepsInner(v))
    BY <1>1, <1>5, OthersKeep
  <2>5. Leased' = Leased \cup {<<u, "inner">>}
    BY <2>2, <2>3, <2>4, LeasedBy, Zenon
  <2>6. QED
    BY <1>5, <2>5, GrabTakes
<1>6. QED
  BY <1>2, <1>3, <1>4, <1>5 DEF Acquire

\* For any runs and any number of revisions: whatever a critic raises, a wait that
\* times out or a lease that grows stale does, a run gives back what it took, through
\* the object it took it with (loop_controller.py, run_draft_critique_revise).
THEOREM LoopUsesLease == LoopSpec => LoopKeepsLease
<1>1. LoopInit => BigHolds
  BY LoopAssumption DEF LoopInit, BigHolds
<1>2. LoopInit => Loan!Init
  BY DEF LoopInit, Loan!Init, Leased, KeepsOuter, KeepsInner
<1>3. LoopInv /\ BigHolds /\ [LoopNext]_loopVars => [Loan!Next]_(Loan!vars)
  <2> SUFFICES ASSUME LoopInv, BigHolds, [LoopNext]_loopVars
               PROVE  Loan!Next \/ UNCHANGED Loan!vars
    OBVIOUS
  <2>1. ASSUME NEW u \in Loop, StartLoop(u) PROVE UNCHANGED Loan!vars
    <3>1. From(u, "idle", "draft") /\ UNCHANGED <<holder, stale>>
          /\ \A v \in Loop \ {u} : big'[v] = big[v]
      BY <2>1 DEF StartLoop, LoopInv, LoopTypeOK
    <3>2. QED
      BY <3>1, RunKeeps DEF KeepsOuter, KeepsInner
  <2>2. ASSUME NEW u \in Loop, Draft(u) PROVE UNCHANGED Loan!vars
    <3>1. PICK to \in {"ended", "top"} : From(u, "draft", to)
      BY <2>2 DEF Draft
    <3>2. big' = big /\ UNCHANGED <<holder, stale>>
      BY <2>2 DEF Draft
    <3>3. QED
      BY <3>1, <3>2, RunKeeps DEF KeepsOuter, KeepsInner
  <2>3. ASSUME NEW u \in Loop, LoopTop(u) PROVE UNCHANGED Loan!vars
    <3>1. PICK to \in {"decide", "take", "critique"} :
            From(u, "top", to) /\ (to = "critique" => ~big[u])
      BY <2>3 DEF LoopTop
    <3>2. big' = big /\ UNCHANGED <<holder, stale>>
      BY <2>3 DEF LoopTop
    <3>3. QED
      BY <3>1, <3>2, RunKeeps DEF KeepsOuter, KeepsInner
  <2>4. ASSUME NEW u \in Loop, Acquire(u) PROVE Loan!Next
    BY <2>4, AcquireTakes
  <2>5. ASSUME NEW u \in Loop, GiveUpLock(u) PROVE UNCHANGED Loan!vars
    <3>1. PICK from, to \in Phase :
            /\ From(u, from, to)
            /\ \/ from \in {"take", "takepremium"} /\ to = "ended"
               \/ from = "takeinner" /\ to = "top"
               \/ from = "takefocus" /\ to = "close"
      BY <2>5 DEF GiveUpLock, Phase
    <3>2. big' = big /\ UNCHANGED <<holder, stale>>
      BY <2>5 DEF GiveUpLock
    <3>3. QED
      BY <3>1, <3>2, RunKeeps DEF KeepsOuter, KeepsInner
  <2>6. ASSUME NEW u \in Loop, Critique(u) PROVE UNCHANGED Loan!vars
    <3>1. PICK to \in {"judge", "abandon"} : From(u, "critique", to)
      BY <2>6 DEF Critique
    <3>2. big' = big /\ UNCHANGED <<holder, stale>>
      BY <2>6 DEF Critique
    <3>3. QED
      BY <3>1, <3>2, RunKeeps DEF KeepsOuter, KeepsInner
  <2>7. ASSUME NEW u \in Loop, Judge(u) PROVE Loan!Next \/ UNCHANGED Loan!vars
    <3>1. PICK to \in {"decide", "top", "takeinner", "revise"} :
            From(u, "judge", to) /\ (to = "revise" => ~big[u])
      BY <2>7 DEF Judge
    <3>2. big' = big /\ Drop(u, "outer")
      BY <2>7 DEF Judge
    <3>3. QED
      BY <3>1, <3>2, OuterReturned
  <2>8. ASSUME NEW u \in Loop, Abandon(u) \/ ClosePremium(u)
        PROVE  Loan!Next \/ UNCHANGED Loan!vars
    BY <2>8, OuterReturned DEF Abandon, ClosePremium
  <2>9. ASSUME NEW u \in Loop, Revise(u) \/ Focus(u)
        PROVE  Loan!Next \/ UNCHANGED Loan!vars
    BY <2>9, InnerReturned DEF Revise, Focus
  <2>10. ASSUME NEW u \in Loop, Decide(u) PROVE UNCHANGED Loan!vars
    <3>1. PICK to \in {"takepremium", "ended"} : From(u, "decide", to)
      BY <2>10 DEF Decide
    <3>2. big' = big /\ UNCHANGED <<holder, stale>>
      BY <2>10 DEF Decide
    <3>3. QED
      BY <3>1, <3>2, RunKeeps DEF KeepsOuter, KeepsInner
  <2>11. ASSUME NEW u \in Loop, PremiumCritique(u) PROVE UNCHANGED Loan!vars
    <3>1. PICK to \in {"takefocus", "close"} : From(u, "premium", to)
      BY <2>11 DEF PremiumCritique
    <3>2. big' = big /\ UNCHANGED <<holder, stale>>
      BY <2>11 DEF PremiumCritique
    <3>3. QED
      BY <3>1, <3>2, RunKeeps DEF KeepsOuter, KeepsInner
  <2>12. ASSUME NEW u \in Loop, CancelLoopRun(u) PROVE UNCHANGED Loan!vars
    BY <2>12 DEF CancelLoopRun, Loan!vars, Leased, KeepsOuter, KeepsInner
  <2>13. ASSUME GrowStale PROVE Loan!Next
    <3>1. Leased' = Leased
      BY <2>13 DEF GrowStale, Leased, KeepsOuter, KeepsInner
    <3>2. QED
      BY <2>13, <3>1 DEF GrowStale, Loan!GrowStale, Loan!Next
  <2>14. CASE UNCHANGED loopVars
    BY <2>14 DEF loopVars, Loan!vars, Leased, KeepsOuter, KeepsInner
  <2>15. QED
    BY <2>1, <2>2, <2>3, <2>4, <2>5, <2>6, <2>7, <2>8, <2>9, <2>10, <2>11, <2>12, <2>13,
       <2>14 DEF LoopNext, LoopStep
<1>4. LoopSpec => [](LoopInv /\ BigHolds)
  BY <1>1, BigHoldsNext, LoopInvariant, PTL DEF LoopSpec
<1>5. QED
  BY <1>2, <1>3, <1>4, PTL DEF LoopSpec, LoopKeepsLease, Loan!Spec
=============================================================================
