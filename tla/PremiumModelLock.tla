-------------------------- MODULE PremiumModelLock --------------------------
(***************************************************************************)
(* The lock that keeps one large ("premium") local model in memory at a    *)
(* time: SourceCode/shared_tools/premium_model_lock.py.                    *)
(*                                                                         *)
(* Every call site builds its own PremiumModelLock object; an Owner is one *)
(* such object (its owner_token).  Owners live in processes (the TUI, the  *)
(* MCP server) that share one sentinel file, premium_lock.json.  One read  *)
(* and rewrite of that file runs under _PROCESS_LOCK and flock, hence is   *)
(* one step; a process that dies between the truncation and the write      *)
(* leaves the file empty, which every reader takes for "free".             *)
(*                                                                         *)
(* Time is kept as ages that stop growing one unit past the threshold they *)
(* are compared with, so that the model is finite without a clock bound.   *)
(***************************************************************************)
EXTENDS Integers, FiniteSets

CONSTANTS
  Owner,           \* lock objects
  Process,         \* operating system processes
  ProcessOf,       \* the process an owner lives in
  Model,           \* the premium models
  NoModel,         \* the empty model name of a free sentinel
  NoOwner,         \* the empty owner token of a free sentinel
  StaleTTL,        \* _STALE_TTL_SEC
  AcquireTimeout   \* timeout_sec

ASSUME LockAssumption ==
  /\ ProcessOf \in [Owner -> Process]
  /\ NoModel \notin Model
  /\ NoOwner \notin Owner
  /\ StaleTTL \in Nat
  /\ AcquireTimeout \in Nat

VARIABLES
  file,       \* model and owner token recorded in premium_lock.json
  fileAge,    \* now - updated_ts of that record
  pc,         \* where each owner is in acquire and release
  arg,        \* the model of the call in progress
  prev,       \* swapped_from, while the swap's unload is still due
  waited,     \* elapsed time of the acquire in progress
  leases,     \* models of the PremiumLease objects not yet released
  current,    \* the model of the owner's latest unreleased grant
  grantAge,   \* time since that grant
  resident,   \* premium models loaded in the inference server
  torn        \* history: a process died inside a rewrite of the file

lockVars == <<file, fileAge, leases, current, grantAge, torn>>
vars == <<file, fileAge, pc, arg, prev, waited, leases, current, grantAge,
          resident, torn>>

FreeFile == [model |-> NoModel, owner |-> NoOwner]

Location ==
  {"idle", "acquiring", "swapping", "leased", "releasing", "dead"}

\* One more unit of age, up to the first value past the limit.
Older(age, limit) == IF age > limit THEN age ELSE age + 1

-----------------------------------------------------------------------------

\* The sentinel does not block anybody: no model, or a record past its TTL.
Reclaimable == file.model = NoModel \/ fileAge > StaleTTL

\* Where an owner goes when a call returns.
Resting(held) == IF held = {} THEN "idle" ELSE "leased"

Init ==
  /\ file = FreeFile
  /\ fileAge = 0
  /\ pc = [o \in Owner |-> "idle"]
  /\ arg = [o \in Owner |-> NoModel]
  /\ prev = [o \in Owner |-> NoModel]
  /\ waited = [o \in Owner |-> 0]
  /\ leases = [o \in Owner |-> {}]
  /\ current = [o \in Owner |-> NoModel]
  /\ grantAge = [o \in Owner |-> 0]
  /\ resident = {}
  /\ torn = FALSE

\* Mutant: an empty model name is not refused.
BeginAcquireUnnamed(o, m) ==
  /\ pc[o] \in {"idle", "leased"}
  /\ m \notin leases[o]
  /\ pc' = [pc EXCEPT ![o] = "acquiring"]
  /\ arg' = [arg EXCEPT ![o] = NoModel]
  /\ waited' = [waited EXCEPT ![o] = 0]
  /\ UNCHANGED <<prev, lockVars, resident>>

\* acquire(m) is called.  An owner may ask for a second model while it holds
\* a first one; it does not ask for one it holds.
BeginAcquire(o, m) ==
  /\ pc[o] \in {"idle", "leased"}
  /\ m \notin leases[o]
  /\ pc' = [pc EXCEPT ![o] = "acquiring"]
  /\ arg' = [arg EXCEPT ![o] = m]
  /\ waited' = [waited EXCEPT ![o] = 0]
  /\ UNCHANGED <<prev, lockVars, resident>>

\* One turn of the polling loop that takes the lock.  (A turn that finds the
\* lock taken rewrites the record it read and changes nothing.)  Taking it
\* over from oneself is a swap: the previous model is unloaded afterwards.
Grant(o) ==
  /\ pc[o] = "acquiring"
  /\ waited[o] <= AcquireTimeout
  /\ Reclaimable \/ file.owner = o
  /\ LET swappedFrom == IF Reclaimable \/ file.model = arg[o]
                        THEN NoModel ELSE file.model
     IN /\ prev' = [prev EXCEPT ![o] = swappedFrom]
        /\ pc' = [pc EXCEPT ![o] =
                    IF swappedFrom = NoModel THEN "leased" ELSE "swapping"]
  /\ file' = [model |-> arg[o], owner |-> o]
  /\ fileAge' = 0
  /\ leases' = [leases EXCEPT ![o] = @ \cup {arg[o]}]
  /\ current' = [current EXCEPT ![o] = arg[o]]
  /\ grantAge' = [grantAge EXCEPT ![o] = 0]
  /\ arg' = [arg EXCEPT ![o] = NoModel]
  /\ waited' = [waited EXCEPT ![o] = 0]
  /\ UNCHANGED <<resident, torn>>

\* Mutant: the loop never compares the elapsed time with the timeout.
GiveUpNever(o) ==
  /\ pc[o] = "acquiring"
  /\ waited[o] > AcquireTimeout + 1
  /\ pc' = [pc EXCEPT ![o] = Resting(leases[o])]
  /\ arg' = [arg EXCEPT ![o] = NoModel]
  /\ waited' = [waited EXCEPT ![o] = 0]
  /\ UNCHANGED <<prev, lockVars, resident>>

\* acquire raises TimeoutError.
GiveUp(o) ==
  /\ pc[o] = "acquiring"
  /\ waited[o] > AcquireTimeout
  /\ pc' = [pc EXCEPT ![o] = Resting(leases[o])]
  /\ arg' = [arg EXCEPT ![o] = NoModel]
  /\ waited' = [waited EXCEPT ![o] = 0]
  /\ UNCHANGED <<prev, lockVars, resident>>

\* _release_model: the server drops the model, or the request fails and the
\* exception is swallowed.
Unload(m) == resident' \in {resident, resident \ {m}}

\* The second half of a swap: unload the model that was swapped out, sleep.
FinishSwap(o) ==
  /\ pc[o] = "swapping"
  /\ Unload(prev[o])
  /\ pc' = [pc EXCEPT ![o] = "leased"]
  /\ prev' = [prev EXCEPT ![o] = NoModel]
  /\ UNCHANGED <<arg, waited, lockVars>>

\* The holder runs inference; the server loads the model.  Nothing makes a
\* holder look at the sentinel, or at the age of its lease, before this.
UseModel(o) ==
  /\ pc[o] = "leased"
  /\ current[o] # NoModel
  /\ resident' = resident \cup {current[o]}
  /\ UNCHANGED <<pc, arg, prev, waited, lockVars>>

\* Mutant: release compares the model of the record but not its owner.
BeginReleaseAnyOwner(o, m) ==
  /\ pc[o] = "leased"
  /\ m \in leases[o]
  /\ IF file.model = m
     THEN file' = FreeFile /\ fileAge' = 0
     ELSE UNCHANGED <<file, fileAge>>
  /\ leases' = [leases EXCEPT ![o] = @ \ {m}]
  /\ current' = [current EXCEPT ![o] = IF @ = m THEN NoModel ELSE @]
  /\ grantAge' = [grantAge EXCEPT ![o] = IF current[o] = m THEN 0 ELSE @]
  /\ pc' = [pc EXCEPT ![o] = "releasing"]
  /\ arg' = [arg EXCEPT ![o] = m]
  /\ UNCHANGED <<prev, waited, resident, torn>>

\* Mutant: release takes a stale record for somebody else's and leaves it.
BeginReleaseFreshOnly(o, m) ==
  /\ pc[o] = "leased"
  /\ m \in leases[o]
  /\ IF file.model = m /\ file.owner = o /\ fileAge <= StaleTTL
     THEN file' = FreeFile /\ fileAge' = 0
     ELSE UNCHANGED <<file, fileAge>>
  /\ leases' = [leases EXCEPT ![o] = @ \ {m}]
  /\ current' = [current EXCEPT ![o] = IF @ = m THEN NoModel ELSE @]
  /\ grantAge' = [grantAge EXCEPT ![o] = IF current[o] = m THEN 0 ELSE @]
  /\ pc' = [pc EXCEPT ![o] = "releasing"]
  /\ arg' = [arg EXCEPT ![o] = m]
  /\ UNCHANGED <<prev, waited, resident, torn>>

\* release(lease), under the lock: the record is cleared when it is still
\* the one of this lease.
BeginRelease(o, m) ==
  /\ pc[o] = "leased"
  /\ m \in leases[o]
  /\ IF file.model = m /\ file.owner = o
     THEN file' = FreeFile /\ fileAge' = 0
     ELSE UNCHANGED <<file, fileAge>>
  /\ leases' = [leases EXCEPT ![o] = @ \ {m}]
  /\ current' = [current EXCEPT ![o] = IF @ = m THEN NoModel ELSE @]
  /\ grantAge' = [grantAge EXCEPT ![o] = IF current[o] = m THEN 0 ELSE @]
  /\ pc' = [pc EXCEPT ![o] = "releasing"]
  /\ arg' = [arg EXCEPT ![o] = m]
  /\ UNCHANGED <<prev, waited, resident, torn>>

\* release(lease), after the lock is dropped: the model is unloaded whether
\* or not the record was still this lease's.
FinishRelease(o) ==
  /\ pc[o] = "releasing"
  /\ Unload(arg[o])
  /\ pc' = [pc EXCEPT ![o] = Resting(leases[o])]
  /\ arg' = [arg EXCEPT ![o] = NoModel]
  /\ UNCHANGED <<prev, waited, lockVars>>

\* An owner that may be inside _with_state_lock.
MayRewrite(o) == pc[o] = "acquiring" \/ (pc[o] = "leased" /\ leases[o] # {})

\* A process dies; when one of its owners was rewriting the sentinel the file
\* may be left empty.  Loaded models stay in the inference server.
Crash(p) ==
  LET lost == {o \in Owner : ProcessOf[o] = p}
  IN /\ \E o \in lost : pc[o] # "dead"
     /\ pc' = [o \in Owner |-> IF o \in lost THEN "dead" ELSE pc[o]]
     /\ \/ UNCHANGED <<file, fileAge, torn>>
        \/ /\ \E o \in lost : MayRewrite(o)
           /\ file' = FreeFile
           /\ fileAge' = 0
           /\ torn' = TRUE
     /\ arg' = [o \in Owner |-> IF o \in lost THEN NoModel ELSE arg[o]]
     /\ prev' = [o \in Owner |-> IF o \in lost THEN NoModel ELSE prev[o]]
     /\ waited' = [o \in Owner |-> IF o \in lost THEN 0 ELSE waited[o]]
     /\ UNCHANGED <<leases, current, grantAge, resident>>

\* Time passes for the record, the leases and the callers in the loop.
Tick ==
  /\ fileAge' = IF file.model = NoModel THEN 0 ELSE Older(fileAge, StaleTTL)
  /\ grantAge' = [o \in Owner |-> IF current[o] = NoModel THEN grantAge[o]
                                  ELSE Older(grantAge[o], StaleTTL)]
  /\ waited' = [o \in Owner |-> IF pc[o] = "acquiring"
                                THEN Older(waited[o], AcquireTimeout)
                                ELSE waited[o]]
  /\ UNCHANGED <<file, pc, arg, prev, leases, current, resident, torn>>

Next ==
  \/ \E o \in Owner :
       \/ \E m \in Model : BeginAcquire(o, m) \/ BeginRelease(o, m)
       \/ Grant(o) \/ GiveUp(o) \/ FinishSwap(o)
       \/ UseModel(o) \/ FinishRelease(o)
  \/ \E p \in Process : Crash(p)
  \/ Tick

Spec == Init /\ [][Next]_vars

\* A caller in the polling loop keeps polling and the clock keeps moving;
\* nobody promises to release.
Fairness ==
  /\ WF_vars(Tick)
  /\ \A o \in Owner : WF_vars(Grant(o)) /\ WF_vars(GiveUp(o))

FairSpec == Spec /\ Fairness

-----------------------------------------------------------------------------

TypeOK ==
  /\ file \in [model : Model \cup {NoModel}, owner : Owner \cup {NoOwner}]
  /\ fileAge \in 0 .. StaleTTL + 1
  /\ pc \in [Owner -> Location]
  /\ arg \in [Owner -> Model \cup {NoModel}]
  /\ \A o \in Owner : pc[o] = "acquiring" => arg[o] \in Model
  /\ prev \in [Owner -> Model \cup {NoModel}]
  /\ waited \in [Owner -> 0 .. AcquireTimeout + 1]
  /\ leases \in [Owner -> SUBSET Model]
  /\ current \in [Owner -> Model \cup {NoModel}]
  /\ grantAge \in [Owner -> 0 .. StaleTTL + 1]
  /\ resident \subseteq Model
  /\ torn \in BOOLEAN

\* The owner's latest lease is unreleased and younger than the TTL.
Fresh(o) == current[o] # NoModel /\ grantAge[o] <= StaleTTL

\* Two owners never both have a lease younger than the TTL, whatever swaps,
\* late releases of leases that were taken over and crashes come between:
\* the lock is exclusive for as long as it claims to be.  Only a process that
\* dies inside a rewrite of the sentinel (torn) breaks it.
ExclusiveUntilStale ==
  torn \/ \A o1, o2 \in Owner : Fresh(o1) /\ Fresh(o2) => o1 = o2

\* The sentinel never names an owner that does not hold that very model (or
\* died holding it): timeouts, swaps, takeovers and releases leave no record
\* behind that only the TTL could clear.
NoOrphanedRecord ==
  file.model # NoModel =>
    /\ file.owner \in Owner
    /\ current[file.owner] = file.model

\* Every acquire returns: with a lease, with TimeoutError, or because its
\* process died, even if the holder never releases.
AcquireReturns ==
  \A o \in Owner : pc[o] = "acquiring" ~> pc[o] # "acquiring"

\* "mutex for premium model residency" (premium_model_lock.py, line 35): at
\* most one premium model is in memory.
OnePremiumResident == Cardinality(resident) <= 1

-----------------------------------------------------------------------------

RecordedOwner == IF file.model = NoModel THEN NoOwner ELSE file.owner
RecordStale == file.model # NoModel /\ fileAge > StaleTTL
Granted == {o \in Owner : current[o] # NoModel}

Lease == INSTANCE PremiumLease WITH
  Holder <- Owner, NoHolder <- NoOwner,
  holder <- RecordedOwner, stale <- RecordStale, leased <- Granted

\* Whatever the polls, swaps, timeouts, late releases and crashes, the sentinel
\* passes from one owner to another only through a return of that owner's own
\* latest grant, or past the TTL, and the return of a lease that was taken over
\* leaves the new owner's record alone.
LeaseKept == Lease!Spec
=============================================================================
