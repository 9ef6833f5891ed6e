--------------------------- MODULE ProgressProofs ---------------------------
(***************************************************************************)
(* What holds of the premium model lock, of the watches and of a run of    *)
(* the research pool, for any owners, models and times, for any watches    *)
(* and threads, and for any roster and workers; and of the lock, the loops *)
(* and the watches together, as MC_Progress runs them.                     *)
(*                                                                         *)
(* ExclusiveUntilStale is not inductive: nothing in it says that a fresh   *)
(* lease is what the sentinel records, nor that the record's age is the    *)
(* lease's age.  LockInv adds both.  That every agent reports is about the *)
(* end of a run: until then an agent that has not reported is in somebody's*)
(* hands (InHands).  A watch has one thread because an update that ends a  *)
(* run is of a thread that waits for it, and no other row of that engine   *)
(* is on its way (RunsApart).                                              *)
(***************************************************************************)
EXTENDS MC_Progress, ResearchPool, LoopControllerProofs, FiniteSetTheorems, SequenceTheorems, TLAPS

\* The record is as old as the grant it was written for.
RecordAge ==
  \A o \in Owner :
    file.model # NoModel /\ file.owner = o => fileAge = grantAge[o]

\* A lease younger than the TTL is what the sentinel records.
FreshIsRecorded ==
  torn \/ \A o \in Owner :
            Fresh(o) => file.model = current[o] /\ file.owner = o

LockInv ==
  /\ TypeOK
  /\ NoOrphanedRecord
  /\ RecordAge
  /\ FreshIsRecorded

-----------------------------------------------------------------------------

LEMMA OlderType ==
  ASSUME NEW limit \in Nat, NEW age \in 0 .. limit + 1
  PROVE  /\ Older(age, limit) \in 0 .. limit + 1
         /\ Older(age, limit) <= limit => age <= limit
  BY DEF Older

LEMMA InitType == Init => TypeOK
<1> SUFFICES ASSUME Init
             PROVE  TypeOK
  OBVIOUS
<1> USE LockAssumption DEF Init
<1>1. file \in [model : Model \cup {NoModel}, owner : Owner \cup {NoOwner}]
  BY DEF FreeFile
<1>2. /\ fileAge \in 0 .. StaleTTL + 1
      /\ waited \in [Owner -> 0 .. AcquireTimeout + 1]
      /\ grantAge \in [Owner -> 0 .. StaleTTL + 1]
  OBVIOUS
<1>3. /\ pc \in [Owner -> Location]
      /\ arg \in [Owner -> Model \cup {NoModel}]
      /\ prev \in [Owner -> Model \cup {NoModel}]
      /\ leases \in [Owner -> SUBSET Model]
      /\ current \in [Owner -> Model \cup {NoModel}]
      /\ resident \subseteq Model
  BY DEF Location
<1>4. torn \in BOOLEAN
  OBVIOUS
<1>5. QED
  BY <1>1, <1>2, <1>3, <1>4 DEF TypeOK

\* The sentinel, the ages and the program counters keep their types in every
\* step (premium_model_lock.py, acquire and release).
THEOREM TypeCorrect == Spec => []TypeOK
<1>1. Init => TypeOK
  BY InitType
<1>2. TypeOK /\ [Next]_vars => TypeOK'
  <2> SUFFICES ASSUME TypeOK, [Next]_vars
               PROVE  TypeOK'
    OBVIOUS
  <2> USE LockAssumption DEF TypeOK, lockVars
  <2>1. ASSUME NEW o \in Owner, NEW m \in Model, BeginAcquire(o, m)
        PROVE  TypeOK'
    BY <2>1 DEF BeginAcquire, Location
  <2>2. ASSUME NEW o \in Owner, Grant(o)
        PROVE  TypeOK'
    <3>1. arg[o] \in Model
      BY <2>2 DEF Grant
    <3>2. file' \in [model : Model \cup {NoModel}, owner : Owner \cup {NoOwner}]
      BY <2>2, <3>1 DEF Grant
    <3>3. /\ pc' \in [Owner -> Location]
          /\ prev' \in [Owner -> Model \cup {NoModel}]
      BY <2>2 DEF Grant, Location
    <3>4. leases' \in [Owner -> SUBSET Model]
      BY <2>2, <3>1 DEF Grant
    <3>5. /\ fileAge' \in 0 .. StaleTTL + 1
          /\ waited' \in [Owner -> 0 .. AcquireTimeout + 1]
          /\ grantAge' \in [Owner -> 0 .. StaleTTL + 1]
      BY <2>2 DEF Grant
    <3>6. /\ arg' \in [Owner -> Model \cup {NoModel}]
          /\ current' \in [Owner -> Model \cup {NoModel}]
          /\ resident' \subseteq Model
          /\ torn' \in BOOLEAN
      BY <2>2, <3>1 DEF Grant
    <3>7. \A q \in Owner : pc'[q] = "acquiring" => arg'[q] \in Model
      BY <2>2 DEF Grant
    <3>8. QED
      BY <3>2, <3>3, <3>4, <3>5, <3>6, <3>7
  <2>3. ASSUME NEW o \in Owner, GiveUp(o)
        PROVE  TypeOK'
    BY <2>3 DEF GiveUp, Resting, Location
  <2>4. ASSUME NEW o \in Owner, FinishSwap(o)
        PROVE  TypeOK'
    BY <2>4 DEF FinishSwap, Unload, Location
  <2>5. ASSUME NEW o \in Owner, UseModel(o)
        PROVE  TypeOK'
    BY <2>5 DEF UseModel
  <2>6. ASSUME NEW o \in Owner, NEW m \in Model, BeginRelease(o, m)
        PROVE  TypeOK'
    BY <2>6 DEF BeginRelease, FreeFile, Location
  <2>7. ASSUME NEW o \in Owner, FinishRelease(o)
        PROVE  TypeOK'
    BY <2>7 DEF FinishRelease, Unload, Resting, Location
  <2>8. ASSUME NEW p \in Process, Crash(p)
        PROVE  TypeOK'
    <3>1. /\ pc' \in [Owner -> Location]
          /\ arg' \in [Owner -> Model \cup {NoModel}]
          /\ prev' \in [Owner -> Model \cup {NoModel}]
          /\ waited' \in [Owner -> 0 .. AcquireTimeout + 1]
      BY <2>8 DEF Crash, Location
    <3>2. /\ file' \in [model : Model \cup {NoModel}, owner : Owner \cup {NoOwner}]
          /\ fileAge' \in 0 .. StaleTTL + 1
      BY <2>8 DEF Crash, FreeFile
    <3>3. torn' \in BOOLEAN
      BY <2>8, Zenon DEF Crash
    <3>4. QED
      BY <2>8, <3>1, <3>2, <3>3 DEF Crash
  <2>9. CASE Tick
    <3>1. fileAge' \in 0 .. StaleTTL + 1
      BY <2>9, OlderType DEF Tick
    <3>2. grantAge' \in [Owner -> 0 .. StaleTTL + 1]
      BY <2>9, OlderType DEF Tick
    <3>3. waited' \in [Owner -> 0 .. AcquireTimeout + 1]
      BY <2>9, OlderType DEF Tick
    <3>4. QED
      BY <2>9, <3>1, <3>2, <3>3 DEF Tick
  <2>10. CASE UNCHANGED vars
    BY <2>10 DEF vars
  <2>11. QED
    BY <2>1, <2>2, <2>3, <2>4, <2>5, <2>6, <2>7, <2>8, <2>9, <2>10 DEF Next
<1>3. QED
  BY <1>1, <1>2, PTL DEF Spec

-----------------------------------------------------------------------------

\* The strengthened invariant holds in every reachable state.
THEOREM LockInvariant == Spec => []LockInv
<1>1. Init => LockInv
  <2> SUFFICES ASSUME Init
               PROVE  LockInv
    OBVIOUS
  <2>1. TypeOK
    BY InitType
  <2>2. QED
    BY <2>1 DEF Init, LockInv, NoOrphanedRecord, RecordAge,
                FreshIsRecorded, Fresh, FreeFile
<1>2. LockInv /\ TypeOK' /\ [Next]_vars => LockInv'
  <2> SUFFICES ASSUME LockInv, TypeOK', [Next]_vars
               PROVE  LockInv'
    OBVIOUS
  <2> USE LockAssumption DEF LockInv, TypeOK, lockVars
  <2>1. ASSUME NEW o \in Owner, NEW m \in Model, BeginAcquire(o, m)
        PROVE  LockInv'
    BY <2>1 DEF BeginAcquire, NoOrphanedRecord, RecordAge,
                FreshIsRecorded, Fresh
  <2>2. ASSUME NEW o \in Owner, Grant(o)
        PROVE  LockInv'
    <3>1. /\ file' = [model |-> arg[o], owner |-> o]
          /\ fileAge' = 0
          /\ current'[o] = arg[o]
          /\ grantAge'[o] = 0
          /\ arg[o] \in Model
          /\ \A q \in Owner \ {o} : /\ current'[q] = current[q]
                                    /\ grantAge'[q] = grantAge[q]
                                    /\ pc'[q] = pc[q]
                                    /\ arg'[q] = arg[q]
      BY <2>2 DEF Grant
    <3>2. NoOrphanedRecord' /\ RecordAge'
      BY <3>1 DEF NoOrphanedRecord, RecordAge
    <3>3. torn \/ \A q \in Owner \ {o} : ~Fresh(q)
      BY <2>2 DEF Grant, Reclaimable, FreshIsRecorded, Fresh, RecordAge
    <3>4. FreshIsRecorded'
      BY <2>2, <3>1, <3>3 DEF Grant, FreshIsRecorded, Fresh
    <3>5. QED
      BY <3>2, <3>4
  <2>3. ASSUME NEW o \in Owner, GiveUp(o)
        PROVE  LockInv'
    BY <2>3 DEF GiveUp, Resting, NoOrphanedRecord, RecordAge,
                FreshIsRecorded, Fresh
  <2>4. ASSUME NEW o \in Owner, FinishSwap(o)
        PROVE  LockInv'
    BY <2>4 DEF FinishSwap, NoOrphanedRecord, RecordAge,
                FreshIsRecorded, Fresh
  <2>5. ASSUME NEW o \in Owner, UseModel(o)
        PROVE  LockInv'
    BY <2>5 DEF UseModel, NoOrphanedRecord, RecordAge,
                FreshIsRecorded, Fresh
  <2>6. ASSUME NEW o \in Owner, NEW m \in Model, BeginRelease(o, m)
        PROVE  LockInv'
    <3>1. CASE file.model = m /\ file.owner = o
      <4>1. file' = FreeFile
        BY <2>6, <3>1 DEF BeginRelease
      <4>2. NoOrphanedRecord' /\ RecordAge'
        BY <4>1 DEF NoOrphanedRecord, RecordAge, FreeFile
      <4>3. torn \/ \A q \in Owner : ~Fresh(q)'
        BY <2>6, <3>1 DEF BeginRelease, FreshIsRecorded, Fresh
      <4>4. FreshIsRecorded'
        BY <2>6, <4>3 DEF BeginRelease, FreshIsRecorded
      <4>5. QED
        BY <4>2, <4>4
    <3>2. CASE ~(file.model = m /\ file.owner = o)
      BY <2>6, <3>2 DEF BeginRelease, NoOrphanedRecord, RecordAge,
                              FreshIsRecorded, Fresh
    <3>3. QED
      BY <3>1, <3>2
  <2>7. ASSUME NEW o \in Owner, FinishRelease(o)
        PROVE  LockInv'
    BY <2>7 DEF FinishRelease, Resting, NoOrphanedRecord,
                RecordAge, FreshIsRecorded, Fresh
  <2>8. ASSUME NEW p \in Process, Crash(p)
        PROVE  LockInv'
    <3>1. CASE UNCHANGED <<file, fileAge, torn>>
      BY <2>8, <3>1 DEF Crash, NoOrphanedRecord, RecordAge,
                              FreshIsRecorded, Fresh
    <3>2. CASE file' = FreeFile /\ torn' = TRUE
      BY <2>8, <3>2 DEF Crash, FreeFile, NoOrphanedRecord, RecordAge,
                              FreshIsRecorded
    <3>3. QED
      BY <2>8, <3>1, <3>2 DEF Crash
  <2>9. CASE Tick
    <3>1. NoOrphanedRecord'
      BY <2>9 DEF Tick, NoOrphanedRecord
    <3>2. RecordAge'
      BY <2>9 DEF Tick, RecordAge, NoOrphanedRecord
    <3>3. \A o \in Owner : Fresh(o)' => Fresh(o)
      BY <2>9, OlderType DEF Tick, Fresh
    <3>4. FreshIsRecorded'
      BY <2>9, <3>3 DEF Tick, FreshIsRecorded
    <3>5. QED
      BY <3>1, <3>2, <3>4
  <2>10. CASE UNCHANGED vars
    BY <2>10 DEF vars, NoOrphanedRecord, RecordAge,
                 FreshIsRecorded, Fresh
  <2>11. QED
    BY <2>1, <2>2, <2>3, <2>4, <2>5, <2>6, <2>7, <2>8, <2>9, <2>10 DEF Next
<1>3. QED
  BY <1>1, <1>2, TypeCorrect, PTL DEF Spec

\* Two leases younger than the TTL never coexist unless a process died inside
\* a rewrite of the sentinel: acquire's test of owner and age and release's
\* test of model and owner are enough.
THEOREM Exclusive == Spec => []ExclusiveUntilStale
<1>1. LockInv => ExclusiveUntilStale
  BY DEF LockInv, FreshIsRecorded, ExclusiveUntilStale
<1>2. QED
  BY <1>1, LockInvariant, PTL

\* The sentinel never names an owner that does not hold the recorded model.
THEOREM NoOrphan == Spec => []NoOrphanedRecord
<1>1. LockInv => NoOrphanedRecord
  BY DEF LockInv
<1>2. QED
  BY <1>1, LockInvariant, PTL

-----------------------------------------------------------------------------

\* The sentinel as a lease.

\* Nothing the lease is made of has changed.
LEMMA LeaseRests ==
  ASSUME UNCHANGED <<file, fileAge, current, torn>>
  PROVE  UNCHANGED Lease!vars
  BY DEF Lease!vars, RecordedOwner, RecordStale, Granted

LEMMA GrantTakes ==
  ASSUME LockInv, NEW o \in Owner, Grant(o)
  PROVE  Lease!Take(o)
<1> USE LockAssumption
<1>1. /\ arg[o] \in Model /\ arg[o] # NoModel /\ current \in [Owner -> Model \cup {NoModel}]
      /\ file' = [model |-> arg[o], owner |-> o] /\ fileAge' = 0 /\ torn' = torn
      /\ current' = [current EXCEPT ![o] = arg[o]]
  BY DEF Grant, LockInv, TypeOK
<1>2. RecordedOwner = NoOwner \/ RecordStale \/ RecordedOwner = o
  BY DEF Grant, Reclaimable, RecordedOwner, RecordStale
<1>3. RecordedOwner' = o /\ RecordStale' = FALSE
  BY <1>1 DEF RecordedOwner, RecordStale
<1>4. Granted' = Granted \cup {o}
  BY <1>1 DEF Granted
<1>5. QED
  BY <1>1, <1>2, <1>3, <1>4 DEF Lease!Take

\* A release frees the record of the latest grant, and of no other.
LEMMA ReleaseGivesBack ==
  ASSUME LockInv, NEW o \in Owner, NEW m \in Model, BeginRelease(o, m)
  PROVE  Lease!GiveBack(o) \/ UNCHANGED Lease!vars
<1> USE LockAssumption
<1>1. /\ m # NoModel /\ o # NoOwner /\ current \in [Owner -> Model \cup {NoModel}]
      /\ current' = [current EXCEPT ![o] = IF @ = m THEN NoModel ELSE @] /\ torn' = torn
      /\ file.model # NoModel => current[file.owner] = file.model
  BY DEF BeginRelease, LockInv, TypeOK, NoOrphanedRecord
<1>2. CASE current[o] # m
  <2>1. UNCHANGED <<file, fileAge>>
    BY <1>1, <1>2 DEF BeginRelease
  <2>2. current' = current
    BY <1>1, <1>2
  <2>3. QED
    BY <1>1, <2>1, <2>2, LeaseRests
<1>3. CASE current[o] = m
  <2>1. o \in Granted /\ Granted' = Granted \ {o}
    BY <1>1, <1>3 DEF Granted
  <2>2. CASE RecordedOwner = o
    <3>1. file.model = m /\ file.owner = o
      BY <1>1, <1>3, <2>2 DEF RecordedOwner
    <3>2. file' = FreeFile
      BY <3>1 DEF BeginRelease
    <3>3. RecordedOwner' = NoOwner /\ RecordStale' = FALSE
      BY <3>2 DEF RecordedOwner, RecordStale, FreeFile
    <3>4. QED
      BY <1>1, <2>1, <2>2, <3>3 DEF Lease!GiveBack
  <2>3. CASE RecordedOwner # o
    <3>1. UNCHANGED <<file, fileAge>>
      BY <1>1, <2>3 DEF BeginRelease, RecordedOwner
    <3>2. UNCHANGED <<RecordedOwner, RecordStale>>
      BY <3>1 DEF RecordedOwner, RecordStale
    <3>3. QED
      BY <1>1, <2>1, <2>3, <3>2 DEF Lease!GiveBack
  <2>4. QED
    BY <2>2, <2>3
<1>4. QED
  BY <1>2, <1>3

LEMMA TickAges ==
  ASSUME LockInv, Tick
  PROVE  Lease!GrowStale \/ UNCHANGED Lease!vars
<1> USE LockAssumption
<1>1. /\ fileAge' = IF file.model = NoModel THEN 0 ELSE Older(fileAge, StaleTTL)
      /\ UNCHANGED <<file, current, torn>>
  BY DEF Tick
<1>2. UNCHANGED <<RecordedOwner, Granted, torn>>
  BY <1>1 DEF RecordedOwner, Granted
<1>3. RecordStale => RecordStale'
  BY <1>1, OlderType DEF RecordStale, LockInv, TypeOK
<1>4. CASE RecordStale' = RecordStale
  BY <1>2, <1>4 DEF Lease!vars
<1>5. CASE ~RecordStale /\ RecordStale'
  <2>1. RecordedOwner # NoOwner
    BY <1>1, <1>5 DEF RecordStale, RecordedOwner, LockInv, NoOrphanedRecord
  <2>2. RecordStale' = TRUE
    BY <1>5 DEF RecordStale
  <2>3. QED
    BY <1>2, <1>5, <2>1, <2>2 DEF Lease!GrowStale
<1>6. QED
  BY <1>3, <1>4, <1>5 DEF RecordStale

\* For any owners and models: the sentinel file with its polls, swaps, late releases
\* and crashes implements the lease (premium_model_lock.py, acquire and release).
THEOREM LockIsLease == Spec => LeaseKept
<1>1. Init => Lease!Init
  BY LockAssumption DEF Init, FreeFile, Lease!Init, RecordedOwner, RecordStale, Granted
<1>2. LockInv /\ [Next]_vars => [Lease!Next]_(Lease!vars)
  <2> SUFFICES ASSUME LockInv, [Next]_vars
               PROVE  Lease!Next \/ UNCHANGED Lease!vars
    OBVIOUS
  <2>1. ASSUME NEW o \in Owner, Grant(o)
        PROVE  Lease!Next
    BY <2>1, GrantTakes DEF Lease!Next
  <2>2. ASSUME NEW o \in Owner, NEW m \in Model, BeginRelease(o, m)
        PROVE  Lease!Next \/ UNCHANGED Lease!vars
    BY <2>2, ReleaseGivesBack DEF Lease!Next
  <2>3. ASSUME NEW o \in Owner,
               \/ \E m \in Model : BeginAcquire(o, m)
               \/ GiveUp(o) \/ FinishSwap(o) \/ UseModel(o) \/ FinishRelease(o)
        PROVE  UNCHANGED Lease!vars
    BY <2>3, LeaseRests DEF BeginAcquire, GiveUp, FinishSwap, UseModel, FinishRelease, lockVars
  <2>4. ASSUME NEW p \in Process, Crash(p)
        PROVE  Lease!Next \/ UNCHANGED Lease!vars
    <3>1. CASE UNCHANGED <<file, fileAge, torn>>
      BY <2>4, <3>1, LeaseRests DEF Crash
    <3>2. CASE file' = FreeFile /\ torn' = TRUE
      <4>1. RecordedOwner' = NoOwner /\ RecordStale' = FALSE
        BY <3>2 DEF RecordedOwner, RecordStale, FreeFile
      <4>2. Granted' = Granted
        BY <2>4 DEF Crash, Granted
      <4>3. QED
        BY <3>2, <4>1, <4>2 DEF Lease!Tear, Lease!Next
    <3>3. QED
      BY <2>4, <3>1, <3>2 DEF Crash
  <2>5. CASE Tick
    BY <2>5, TickAges DEF Lease!Next
  <2>6. CASE UNCHANGED vars
    BY <2>6, LeaseRests DEF vars
  <2>7. QED
    BY <2>1, <2>2, <2>3, <2>4, <2>5, <2>6 DEF Next
<1>3. QED
  BY <1>1, <1>2, LockInvariant, PTL DEF Spec, LeaseKept, Lease!Spec

-----------------------------------------------------------------------------

\* The sequences that the main thread works through.

Agents(rows) == {rows[i].agent : i \in DOMAIN rows}

LEMMA InOrder ==
  ASSUME NEW S, IsFiniteSet(S), NEW order \in SetToSeqs(S)
  PROVE  order \in Seq(S) /\ Range(order) = S
<1> DEFINE n == Cardinality(S)
<1>1. n \in Nat
  BY FS_CardinalityType
<1>2. order \in [1 .. n -> S] /\ \A i, j \in 1 .. n : i # j => order[i] # order[j]
  BY DEF SetToSeqs
<1>3. order \in Seq(S)
  BY <1>1, <1>2
<1>4. order \in Injection(1 .. n, S)
  BY <1>2 DEF Injection, IsInjective
<1>5. IsFiniteSet(1 .. n) /\ Cardinality(1 .. n) = n
  BY <1>1, FS_Interval
<1>6. order \in Surjection(1 .. n, S)
  BY <1>4, <1>5, FS_Injection
<1>7. Range(order) = S
  BY <1>2, <1>6 DEF Surjection, Range
<1>8. QED
  BY <1>3, <1>7

LEMMA FirstAndRest ==
  ASSUME NEW S, NEW s \in Seq(S), s # <<>>
  PROVE  /\ Head(s) \in S /\ Tail(s) \in Seq(S)
         /\ Range(s) = {Head(s)} \cup Range(Tail(s))
<1>1. /\ Head(s) \in S /\ Tail(s) \in Seq(S) /\ Len(Tail(s)) = Len(s) - 1
      /\ \A i \in 1 .. Len(Tail(s)) : Tail(s)[i] = s[i + 1]
  BY HeadTailProperties
<1>2. Len(s) \in Nat \ {0} /\ DOMAIN s = 1 .. Len(s) /\ DOMAIN Tail(s) = 1 .. Len(s) - 1 /\ Head(s) = s[1]
  BY <1>1
<1>3. \A i \in 2 .. Len(s) : i - 1 \in 1 .. Len(s) - 1 /\ s[i] = Tail(s)[i - 1]
  BY <1>1, <1>2
<1>4. Range(s) \subseteq {Head(s)} \cup Range(Tail(s))
  <2>1. ASSUME NEW i \in 1 .. Len(s) PROVE s[i] \in {Head(s)} \cup Range(Tail(s))
    <3>1. CASE i = 1
      BY <1>2, <3>1
    <3>2. CASE i # 1
      <4>1. i \in 2 .. Len(s)
        BY <1>2, <3>2
      <4>2. QED
        BY <1>2, <1>3, <4>1 DEF Range
    <3>3. QED
      BY <3>1, <3>2
  <2>2. QED
    BY <1>2, <2>1 DEF Range
<1>5. {Head(s)} \cup Range(Tail(s)) \subseteq Range(s)
  <2>1. ASSUME NEW i \in 1 .. Len(s) - 1 PROVE Tail(s)[i] \in Range(s)
    <3>1. i + 1 \in 1 .. Len(s) /\ Tail(s)[i] = s[i + 1]
      BY <1>1, <1>2
    <3>2. QED
      BY <1>2, <3>1 DEF Range
  <2>2. Head(s) \in Range(s)
    BY <1>2 DEF Range
  <2>3. QED
    BY <1>2, <2>1, <2>2 DEF Range
<1>6. QED
  BY <1>1, <1>4, <1>5

LEMMA OneMore ==
  ASSUME NEW S, NEW s \in Seq(S), NEW e \in S
  PROVE  Append(s, e) \in Seq(S) /\ Range(Append(s, e)) = Range(s) \cup {e}
<1>1. /\ Append(s, e) \in Seq(S) /\ Len(s) \in Nat /\ DOMAIN s = 1 .. Len(s)
      /\ DOMAIN Append(s, e) = 1 .. Len(s) + 1
      /\ \A i \in 1 .. Len(s) : Append(s, e)[i] = s[i]
      /\ Append(s, e)[Len(s) + 1] = e
  OBVIOUS
<1>2. 1 .. Len(s) + 1 = (1 .. Len(s)) \cup {Len(s) + 1}
  BY <1>1
<1>3. QED
  BY <1>1, <1>2 DEF Range

\* Agents are the agents of the range.
LEMMA AgentsOfRange ==
  ASSUME NEW s
  PROVE  Agents(s) = {row.agent : row \in Range(s)}
  BY DEF Agents, Range

LEMMA AgentsAppend ==
  ASSUME NEW s \in Seq(Finding), NEW row \in Finding
  PROVE  Append(s, row) \in Seq(Finding) /\ Agents(Append(s, row)) = Agents(s) \cup {row.agent}
<1>1. Append(s, row) \in Seq(Finding) /\ Range(Append(s, row)) = Range(s) \cup {row}
  BY OneMore
<1>2. QED
  BY <1>1, AgentsOfRange

LEMMA AgentsRest ==
  ASSUME NEW s \in Seq(Finding), s # <<>>
  PROVE  /\ Head(s) \in Finding /\ Tail(s) \in Seq(Finding)
         /\ Agents(s) = {Head(s).agent} \cup Agents(Tail(s))
<1>1. Head(s) \in Finding /\ Tail(s) \in Seq(Finding) /\ Range(s) = {Head(s)} \cup Range(Tail(s))
  BY FirstAndRest
<1>2. QED
  BY <1>1, AgentsOfRange

-----------------------------------------------------------------------------

\* What the main thread has left at each of its places.
LeftToDo ==
  /\ main.at \in {"collect", "handoff"} => main.todo \in Seq(Primary)
  /\ main.at = "adjudicate" => main.todo \in Seq(Adjudicator)
  /\ main.at = "recover" => main.todo \in Seq(Finding)
  /\ main.at \notin {"collect", "handoff", "adjudicate", "recover"} => main.todo = <<>>

\* The main thread runs an agent only for a handoff, or for the first one left.
MainRuns ==
  /\ run["main"].at # "idle" =>
       main.at = "handoff" \/ (main.at \in {"adjudicate", "recover"} /\ main.todo # <<>>)
  /\ main.at = "handoff" => main.who \in Roster /\ handoffs < MaxHandoff

\* An agent that has not reported is still in somebody's hands: not submitted, not
\* collected, or left to the main thread.
InHands ==
  ~asked =>
    /\ main.at \in {"start", "top", "wait"} => Primary \subseteq queue \cup pending \cup Visited
    /\ main.at \in {"collect", "handoff"} =>
         Primary \subseteq queue \cup pending \cup Visited \cup Range(main.todo)
    /\ main.at = "adjudicate" =>
         Primary \subseteq Visited /\ Adjudicator \subseteq Visited \cup Range(main.todo)
    /\ main.at = "recover" => Roster \subseteq Visited \cup Agents(main.todo)
    /\ main.at \in {"write", "numbers", "raw", "synthesis", "completed"} => Roster \subseteq Visited

RunRow == [at : {"idle", "check", "chat", "done"}, left : 0 .. MaxCall,
           is : Mode, to : Roster \cup {NoPersona}]

PoolTypes ==
  /\ main = [at |-> main.at, who |-> main.who, todo |-> main.todo]
  /\ main.at \in Place /\ main.who \in Roster \cup {NoPersona}
  /\ queue \subseteq Primary /\ pending \subseteq Primary
  /\ run \in [Runner -> RunRow]
  /\ findings \in Seq(Finding)
  /\ handoffs \in 0 .. MaxHandoff
  /\ canceled \in BOOLEAN /\ asked \in BOOLEAN /\ paused \in BOOLEAN

PoolInv == PoolTypes /\ LeftToDo /\ MainRuns /\ InHands

LEMMA VisitedAgents == Visited = Agents(findings)
  BY DEF Visited, Agents

LEMMA Rows ==
  /\ IdleRun \in RunRow /\ IdleRun.at = "idle"
  /\ [IdleRun EXCEPT !.at = "check", !.left = MaxCall] \in RunRow
  /\ [IdleRun EXCEPT !.at = "check", !.left = MaxCall].at = "check"
<1>1. MaxCall \in Nat \ {0}
  BY PoolAssumption DEF PoolAssumption
<1>2. 0 \in 0 .. MaxCall /\ MaxCall \in 0 .. MaxCall
  BY <1>1
<1>3. QED
  BY <1>2 DEF IdleRun, RunRow, Mode

LEMMA PoolInitInv == PoolInit => PoolInv
<1> SUFFICES ASSUME PoolInit PROVE PoolInv
  OBVIOUS
<1>1. IdleRun \in RunRow /\ IdleRun.at = "idle"
  BY Rows
<1>2. <<>> \in Seq(Finding) /\ 0 \in 0 .. MaxHandoff
  BY PoolAssumption DEF PoolAssumption
<1>3. PoolTypes
  <2>1. canceled \in BOOLEAN /\ asked \in BOOLEAN /\ paused \in BOOLEAN
    BY DEF PoolInit
  <2>2. /\ main = [at |-> main.at, who |-> main.who, todo |-> main.todo]
        /\ main.at \in Place /\ main.who \in Roster \cup {NoPersona}
    BY DEF PoolInit, Place
  <2>3. run \in [Runner -> RunRow]
    BY <1>1 DEF PoolInit
  <2>4. QED
    BY <1>2, <2>1, <2>2, <2>3 DEF PoolInit, PoolTypes
<1>4. QED
  BY <1>1, <1>3 DEF PoolInit, PoolInv, LeftToDo, MainRuns, InHands, Runner

\* An agent run goes on, or ends, wherever it runs.
LEMMA RunGoesOn ==
  ASSUME PoolInv, NEW r \in Runner, NEW row \in RunRow, run[r].at # "idle",
         run' = [run EXCEPT ![r] = row],
         UNCHANGED <<main, queue, pending, findings, handoffs, canceled, asked, paused>>
  PROVE  PoolInv'
<1>1. run' \in [Runner -> RunRow] /\ (run'["main"].at # "idle" => run["main"].at # "idle")
  BY DEF PoolInv, PoolTypes, Runner
<1>2. PoolTypes' /\ LeftToDo' /\ MainRuns'
  BY <1>1 DEF PoolInv, PoolTypes, LeftToDo, MainRuns
<1>3. InHands'
  BY DEF PoolInv, InHands, Visited
<1>4. QED
  BY <1>2, <1>3 DEF PoolInv

LEMMA RunSteps ==
  ASSUME PoolInv, NEW r \in Runner, RunCheck(r) \/ RunChat(r)
  PROVE  PoolInv'
<1>0. run[r] \in RunRow /\ run[r].at # "idle"
      /\ UNCHANGED <<main, queue, pending, findings, handoffs, canceled, asked, paused>>
  BY DEF PoolInv, PoolTypes, RunCheck, RunChat
<1>1. ASSUME NEW is \in Mode, NEW to \in Roster \cup {NoPersona}, Ends(r, is, to) PROVE PoolInv'
  <2> DEFINE row == [at |-> "done", left |-> 0, is |-> is, to |-> to]
  <2>1. row \in RunRow
    BY PoolAssumption DEF RunRow, PoolAssumption
  <2>2. QED
    BY <1>0, <1>1, <2>1, RunGoesOn DEF Ends
<1>2. ASSUME run' = [run EXCEPT ![r].at = "chat"] PROVE PoolInv'
  <2> DEFINE row == [run[r] EXCEPT !.at = "chat"]
  <2>1. row \in RunRow /\ run' = [run EXCEPT ![r] = row]
    BY <1>0, <1>2 DEF RunRow
  <2>2. QED
    BY <1>0, <2>1, RunGoesOn
<1>3. ASSUME run[r].left > 1, run' = [run EXCEPT ![r].at = "check", ![r].left = @ - 1]
      PROVE  PoolInv'
  <2> DEFINE row == [run[r] EXCEPT !.at = "check", !.left = run[r].left - 1]
  <2>1. run[r].left \in 0 .. MaxCall /\ MaxCall \in Nat
    BY <1>0, PoolAssumption DEF RunRow, PoolAssumption
  <2>2. run[r].left - 1 \in 0 .. MaxCall
    BY <1>3, <2>1
  <2>3. row \in RunRow /\ run' = [run EXCEPT ![r] = row]
    BY <1>0, <1>3, <2>2 DEF RunRow
  <2>4. QED
    BY <1>0, <2>3, RunGoesOn
<1>4. "good" \in Mode /\ "weak" \in Mode /\ "failed" \in Mode
      /\ NoPersona \in Roster \cup {NoPersona}
  BY DEF Mode
<1>5. ASSUME RunCheck(r) PROVE PoolInv'
  BY <1>1, <1>2, <1>4, <1>5 DEF RunCheck
<1>6. ASSUME RunChat(r) PROVE PoolInv'
  BY <1>1, <1>3, <1>4, <1>6 DEF RunChat
<1>7. QED
  BY <1>5, <1>6

\* A step of the main thread that goes to another place and leaves the rest alone.
LEMMA MainGoes ==
  ASSUME PoolInv, NEW to \in Place, GoTo(to), run["main"].at = "idle",
         canceled' \in BOOLEAN, UNCHANGED <<queue, pending, run, findings, handoffs, asked, paused>>,
         main.todo = <<>>, to \notin {"handoff"},
         InHands'
  PROVE  PoolInv'
<1>1. /\ main'.at = to /\ main'.todo = <<>> /\ main'.who = main.who
      /\ main' = [at |-> main'.at, who |-> main'.who, todo |-> main'.todo]
  BY DEF GoTo, PoolInv, PoolTypes
<1>2. PoolTypes'
  BY <1>1 DEF PoolInv, PoolTypes
<1>3. LeftToDo' /\ MainRuns'
  BY <1>1 DEF LeftToDo, MainRuns
<1>4. QED
  BY <1>2, <1>3 DEF PoolInv

LEMMA LoopSteps ==
  ASSUME PoolInv,
         \/ StartPool \/ CancelLoop \/ WaitAgents \/ LeaveLoop \/ EndBatch
         \/ \E batch \in SUBSET queue : SubmitAgents(batch)
  PROVE  PoolInv'
<1>0. /\ main = [at |-> main.at, who |-> main.who, todo |-> main.todo]
      /\ \A to \in Place : GoTo(to) => /\ main'.at = to /\ main'.who = main.who
                                       /\ main'.todo = main.todo
  BY DEF PoolInv, PoolTypes, GoTo
<1>p. {"start", "top", "wait", "collect", "adjudicate", "write", "cancelled"} \subseteq Place
  BY DEF Place
<1>1. ASSUME StartPool PROVE PoolInv'
  <2>1. main.todo = <<>> /\ run["main"].at = "idle" /\ main.at = "start"
    BY <1>1 DEF PoolInv, LeftToDo, MainRuns, StartPool
  <2>2. Visited' = Visited
    BY <1>1 DEF StartPool, Visited
  <2>3. InHands'
    BY <1>0, <1>1, <1>p, <2>1, <2>2 DEF StartPool, PoolInv, InHands
  <2>4. QED
    BY <1>1, <1>p, <2>1, <2>3, MainGoes DEF StartPool, PoolInv, PoolTypes
<1>2. ASSUME CancelLoop PROVE PoolInv'
  <2>1. main.todo = <<>> /\ run["main"].at = "idle"
    BY <1>2 DEF PoolInv, LeftToDo, MainRuns, CancelLoop
  <2>2. InHands'
    BY <1>2 DEF CancelLoop, InHands
  <2>3. QED
    BY <1>2, <1>p, <2>1, <2>2, MainGoes DEF CancelLoop
<1>3. ASSUME WaitAgents PROVE PoolInv'
  <2> DEFINE done == {p \in pending : run[p].at = "done"}
  <2>1. main.todo = <<>> /\ run["main"].at = "idle" /\ main.at = "wait"
    BY <1>3 DEF PoolInv, LeftToDo, MainRuns, WaitAgents
  <2>2. Visited' = Visited
    BY <1>3 DEF WaitAgents, Visited
  <2>3. CASE done = {}
    <3>1. GoTo("top") /\ UNCHANGED <<queue, pending, run, findings, handoffs, canceled, asked, paused>>
      BY <1>3, <2>3 DEF WaitAgents
    <3>2. InHands'
      BY <1>0, <1>p, <2>1, <2>2, <3>1 DEF PoolInv, InHands
    <3>3. QED
      BY <1>p, <2>1, <3>1, <3>2, MainGoes DEF PoolInv, PoolTypes
  <2>4. CASE done # {}
    <3>1. PICK order \in SetToSeqs(done) : main' = [main EXCEPT !.at = "collect", !.todo = order]
      BY <1>3, <2>4 DEF WaitAgents
    <3>2. pending' = pending \ done /\ UNCHANGED <<queue, run, findings, handoffs, canceled, asked, paused>>
      BY <1>3, <2>4 DEF WaitAgents
    <3>3. done \in SUBSET Primary /\ IsFiniteSet(done)
      <4>1. done \in SUBSET Primary
        BY DEF PoolInv, PoolTypes
      <4>2. QED
        BY <4>1, PoolAssumption, FS_Subset DEF PoolAssumption
    <3>4. order \in Seq(done) /\ Range(order) = done
      BY <3>3, InOrder
    <3>5. order \in Seq(Primary)
      BY <3>3, <3>4
    <3>6. main'.at = "collect" /\ main'.who = main.who /\ main'.todo = order
          /\ main' = [at |-> main'.at, who |-> main'.who, todo |-> main'.todo]
      BY <1>0, <3>1
    <3>7. PoolTypes'
      BY <1>p, <3>2, <3>6 DEF PoolInv, PoolTypes
    <3>8. LeftToDo' /\ MainRuns'
      BY <2>1, <3>2, <3>5, <3>6 DEF LeftToDo, MainRuns
    <3>9. InHands'
      BY <2>1, <2>2, <3>2, <3>4, <3>6 DEF PoolInv, InHands
    <3>10. QED
      BY <3>7, <3>8, <3>9 DEF PoolInv
  <2>5. QED
    BY <2>3, <2>4
<1>4. ASSUME LeaveLoop PROVE PoolInv'
  <2>1. main.todo = <<>> /\ run["main"].at = "idle" /\ main.at = "top"
    BY <1>4 DEF PoolInv, LeftToDo, MainRuns, LeaveLoop
  <2>2. Visited' = Visited
    BY <1>4 DEF LeaveLoop, Visited
  <2>3. PICK order \in SetToSeqs(Adjudicator) : main' = [main EXCEPT !.at = "adjudicate", !.todo = order]
    BY <1>4 DEF LeaveLoop
  <2>4. order \in Seq(Adjudicator) /\ Range(order) = Adjudicator
    BY PoolAssumption, InOrder DEF PoolAssumption
  <2>5. main'.at = "adjudicate" /\ main'.who = main.who /\ main'.todo = order
        /\ main' = [at |-> main'.at, who |-> main'.who, todo |-> main'.todo]
    BY <1>0, <2>3
  <2>6. UNCHANGED <<queue, pending, run, findings, handoffs, canceled, asked, paused>>
        /\ queue = {} /\ pending = {}
    BY <1>4 DEF LeaveLoop
  <2>7. PoolTypes'
    BY <1>p, <2>5, <2>6 DEF PoolInv, PoolTypes
  <2>8. LeftToDo' /\ MainRuns'
    BY <2>1, <2>4, <2>5, <2>6 DEF LeftToDo, MainRuns
  <2>9. InHands'
    BY <2>1, <2>2, <2>4, <2>5, <2>6 DEF PoolInv, InHands
  <2>10. QED
    BY <2>7, <2>8, <2>9 DEF PoolInv
<1>5. ASSUME EndBatch PROVE PoolInv'
  <2>1. main.todo = <<>> /\ run["main"].at = "idle" /\ main.at = "collect" /\ Range(main.todo) = {}
    BY <1>5 DEF PoolInv, MainRuns, EndBatch, Range
  <2>2. Visited' = Visited
    BY <1>5 DEF EndBatch, Visited
  <2>3. InHands'
    BY <1>0, <1>5, <1>p, <2>1, <2>2 DEF EndBatch, PoolInv, InHands
  <2>4. QED
    BY <1>5, <1>p, <2>1, <2>3, MainGoes DEF EndBatch, PoolInv, PoolTypes
<1>6. ASSUME NEW batch \in SUBSET queue, SubmitAgents(batch) PROVE PoolInv'
  <2>1. main.todo = <<>> /\ run["main"].at = "idle" /\ main.at = "top"
    BY <1>6 DEF PoolInv, LeftToDo, MainRuns, SubmitAgents
  <2>2. /\ queue' = queue \ batch /\ pending' = pending \cup batch
        /\ UNCHANGED <<findings, handoffs, canceled, asked, paused>> /\ GoTo("wait")
    BY <1>6 DEF SubmitAgents
  <2>3. [IdleRun EXCEPT !.at = "check", !.left = MaxCall] \in RunRow
    BY Rows
  <2>4. run' \in [Runner -> RunRow]
    BY <1>6, <2>3 DEF SubmitAgents, PoolInv, PoolTypes
  <2>5. run'["main"] = run["main"]
    BY <1>6, PoolAssumption DEF SubmitAgents, PoolInv, PoolTypes, Runner, PoolAssumption, Roster
  <2>6. /\ main'.at = "wait" /\ main'.todo = <<>> /\ main'.who = main.who
        /\ main' = [at |-> main'.at, who |-> main'.who, todo |-> main'.todo]
    BY <1>0, <2>1, <2>2 DEF GoTo
  <2>7. PoolTypes'
    BY <1>p, <2>2, <2>4, <2>6 DEF PoolInv, PoolTypes
  <2>8. LeftToDo' /\ MainRuns'
    BY <2>1, <2>5, <2>6 DEF LeftToDo, MainRuns
  <2>9. Visited' = Visited
    BY <2>2 DEF Visited
  <2>10. InHands'
    BY <2>1, <2>2, <2>6, <2>9 DEF PoolInv, InHands
  <2>11. QED
    BY <2>7, <2>8, <2>10 DEF PoolInv
<1>7. QED
  BY <1>1, <1>2, <1>3, <1>4, <1>5, <1>6

\* A row that the main thread or the pool reports.
LEMMA Reported ==
  ASSUME PoolInv, NEW agent \in Roster \cup {"recovery"},
         NEW via \in {"pool", "handoff", "adjudicator", "repair"}, NEW r \in Runner,
         findings' = Report(agent, via, r)
  PROVE  findings' \in Seq(Finding) /\ Visited' = Visited \cup {agent}
<1> DEFINE row == [agent |-> agent, via |-> via, is |-> run[r].is]
<1>1. row \in Finding /\ row.agent = agent
  BY DEF PoolInv, PoolTypes, RunRow, Finding
<1>2. findings' = Append(findings, row)
  BY DEF Report
<1> HIDE DEF row
<1>3. findings' \in Seq(Finding) /\ Agents(findings') = Agents(findings) \cup {agent}
  BY <1>1, <1>2, AgentsAppend DEF PoolInv, PoolTypes
<1>4. Visited' = Agents(findings')
  BY DEF Visited, Agents
<1>5. QED
  BY <1>3, <1>4, VisitedAgents

\* The main thread begins to run an agent, or puts the run away.
LEMMA MainRun ==
  ASSUME PoolInv
  PROVE  /\ BeginRun("main") => run' \in [Runner -> RunRow] /\ run'["main"].at = "check"
         /\ run' = [run EXCEPT !["main"] = IdleRun] =>
              run' \in [Runner -> RunRow] /\ run'["main"].at = "idle"
<1>1. run \in [Runner -> RunRow] /\ "main" \in Runner
  BY DEF PoolInv, PoolTypes, Runner
<1>2. QED
  BY <1>1, Rows DEF BeginRun

LEMMA CollectSteps ==
  ASSUME PoolInv, CollectFinding \/ EndHandoff
  PROVE  PoolInv'
<1>0. main = [at |-> main.at, who |-> main.who, todo |-> main.todo]
  BY DEF PoolInv, PoolTypes
<1>p. "collect" \in Place /\ "handoff" \in Place
  BY DEF Place
<1>1. ASSUME CollectFinding PROVE PoolInv'
  <2> DEFINE p == Head(main.todo)
  <2>1. /\ main.at = "collect" /\ main.todo # <<>> /\ findings' = Report(p, "pool", p)
        /\ UNCHANGED <<queue, pending, handoffs, canceled, asked, paused>>
        /\ run["main"].at = "idle"
    BY <1>1 DEF CollectFinding, PoolInv, MainRuns
  <2>2. main.todo \in Seq(Primary)
    BY <2>1 DEF PoolInv, LeftToDo
  <2>3. p \in Primary /\ Tail(main.todo) \in Seq(Primary)
        /\ Range(main.todo) = {p} \cup Range(Tail(main.todo))
    BY <2>1, <2>2, FirstAndRest
  <2>4. findings' \in Seq(Finding) /\ Visited' = Visited \cup {p}
    BY <2>1, <2>3, Reported DEF Roster, Runner
  <2> HIDE DEF p
  <2>5. CASE /\ run[p].to # NoPersona /\ handoffs < MaxHandoff
             /\ main' = [at |-> "handoff", who |-> run[p].to, todo |-> Tail(main.todo)]
             /\ BeginRun("main")
    <3>1. run[p].to \in Roster
      BY <2>3, <2>5 DEF PoolInv, PoolTypes, Runner, RunRow
    <3>2. PoolTypes'
      BY <1>p, <2>1, <2>4, <2>5, <3>1, MainRun DEF PoolInv, PoolTypes
    <3>3. LeftToDo' /\ MainRuns'
      BY <2>1, <2>3, <2>5, <3>1, MainRun DEF LeftToDo, MainRuns
    <3>4. InHands'
      BY <2>1, <2>3, <2>4, <2>5 DEF PoolInv, InHands
    <3>5. QED
      BY <3>2, <3>3, <3>4 DEF PoolInv
  <2>6. CASE main' = [main EXCEPT !.todo = Tail(@)] /\ UNCHANGED run
    <3>1. main' = [at |-> "collect", who |-> main.who, todo |-> Tail(main.todo)]
      BY <1>0, <2>1, <2>6
    <3>2. PoolTypes'
      BY <1>p, <2>1, <2>4, <2>6, <3>1 DEF PoolInv, PoolTypes
    <3>3. LeftToDo' /\ MainRuns'
      BY <2>1, <2>3, <2>6, <3>1 DEF LeftToDo, MainRuns
    <3>4. InHands'
      BY <2>1, <2>3, <2>4, <3>1 DEF PoolInv, InHands
    <3>5. QED
      BY <3>2, <3>3, <3>4 DEF PoolInv
  <2>7. QED
    BY <1>1, <2>5, <2>6 DEF CollectFinding, p
<1>2. ASSUME EndHandoff PROVE PoolInv'
  <2>1. /\ main.at = "handoff" /\ findings' = Report(main.who, "handoff", "main")
        /\ handoffs' = handoffs + 1 /\ run' = [run EXCEPT !["main"] = IdleRun] /\ GoTo("collect")
        /\ UNCHANGED <<queue, pending, canceled, asked, paused>>
    BY <1>2 DEF EndHandoff
  <2>2. main.who \in Roster /\ handoffs < MaxHandoff /\ main.todo \in Seq(Primary)
    BY <2>1 DEF PoolInv, MainRuns, LeftToDo
  <2>3. findings' \in Seq(Finding) /\ Visited' = Visited \cup {main.who}
    BY <2>1, <2>2, Reported DEF Runner
  <2>4. main' = [at |-> "collect", who |-> main.who, todo |-> main.todo]
    BY <1>0, <2>1 DEF GoTo
  <2>5. handoffs' \in 0 .. MaxHandoff
    BY <2>1, <2>2, PoolAssumption DEF PoolInv, PoolTypes, PoolAssumption
  <2>6. PoolTypes'
    BY <1>p, <2>1, <2>3, <2>4, <2>5, MainRun DEF PoolInv, PoolTypes
  <2>7. LeftToDo' /\ MainRuns'
    BY <2>1, <2>2, <2>4, MainRun DEF LeftToDo, MainRuns
  <2>8. InHands'
    BY <2>1, <2>3, <2>4 DEF PoolInv, InHands
  <2>9. QED
    BY <2>6, <2>7, <2>8 DEF PoolInv
<1>3. QED
  BY <1>1, <1>2

\* The main thread runs the agent of the first one left, or has run it.
LEMMA AdjudicateSteps ==
  ASSUME PoolInv, StartAdjudicator \/ EndAdjudicator \/ StartRecovery
  PROVE  PoolInv'
<1>0. /\ main = [at |-> main.at, who |-> main.who, todo |-> main.todo] /\ main.at = "adjudicate"
      /\ main.todo \in Seq(Adjudicator)
  BY DEF PoolInv, PoolTypes, LeftToDo, StartAdjudicator, EndAdjudicator, StartRecovery
<1>p. "adjudicate" \in Place /\ "recover" \in Place /\ "write" \in Place
  BY DEF Place
<1>1. ASSUME StartAdjudicator PROVE PoolInv'
  <2>1. BeginRun("main") /\ main.todo # <<>>
        /\ UNCHANGED <<main, queue, pending, findings, handoffs, canceled, asked, paused>>
    BY <1>1 DEF StartAdjudicator
  <2>2. PoolTypes' /\ LeftToDo' /\ MainRuns'
    BY <1>0, <2>1, MainRun DEF PoolInv, PoolTypes, LeftToDo, MainRuns
  <2>3. InHands'
    BY <2>1 DEF PoolInv, InHands, Visited
  <2>4. QED
    BY <2>2, <2>3 DEF PoolInv
<1>2. ASSUME EndAdjudicator PROVE PoolInv'
  <2>1. /\ main.todo # <<>> /\ findings' = Report(Head(main.todo), "adjudicator", "main")
        /\ main' = [main EXCEPT !.todo = Tail(@)] /\ run' = [run EXCEPT !["main"] = IdleRun]
        /\ UNCHANGED <<queue, pending, handoffs, canceled, asked, paused>>
    BY <1>0, <1>2 DEF EndAdjudicator, PoolInv, MainRuns
  <2>2. /\ Head(main.todo) \in Adjudicator /\ Tail(main.todo) \in Seq(Adjudicator)
        /\ Range(main.todo) = {Head(main.todo)} \cup Range(Tail(main.todo))
    BY <1>0, <2>1, FirstAndRest
  <2>3. findings' \in Seq(Finding) /\ Visited' = Visited \cup {Head(main.todo)}
    BY <2>1, <2>2, Reported DEF Roster, Runner
  <2>4. main' = [at |-> "adjudicate", who |-> main.who, todo |-> Tail(main.todo)]
    BY <1>0, <2>1
  <2>5. PoolTypes'
    BY <1>p, <2>1, <2>3, <2>4, MainRun DEF PoolInv, PoolTypes
  <2>6. LeftToDo' /\ MainRuns'
    BY <2>1, <2>2, <2>4, MainRun DEF LeftToDo, MainRuns
  <2>7. InHands'
    BY <1>0, <2>1, <2>2, <2>3, <2>4 DEF PoolInv, InHands
  <2>8. QED
    BY <2>5, <2>6, <2>7 DEF PoolInv
<1>3. ASSUME StartRecovery PROVE PoolInv'
  <2>1. /\ main.todo = <<>> /\ run["main"].at = "idle" /\ Range(main.todo) = {}
        /\ UNCHANGED <<queue, pending, run, handoffs, canceled, asked, paused>>
    BY <1>0, <1>3 DEF StartRecovery, PoolInv, MainRuns, Range
  <2>2. ~asked => Roster \subseteq Visited
    BY <1>0, <2>1 DEF PoolInv, InHands, Roster
  <2>3. CASE main' = [main EXCEPT !.at = "recover", !.todo = findings] /\ findings' = <<>>
    <3>1. main' = [at |-> "recover", who |-> main.who, todo |-> findings]
      BY <1>0, <2>3
    <3>2. PoolTypes'
      <4>1. findings' \in Seq(Finding)
        BY <2>3
      <4>2. QED
        BY <1>p, <2>1, <3>1, <4>1 DEF PoolInv, PoolTypes
    <3>3. LeftToDo' /\ MainRuns'
      BY <2>1, <3>1 DEF PoolInv, PoolTypes, LeftToDo, MainRuns
    <3>4. InHands'
      BY <2>1, <2>2, <3>1, VisitedAgents DEF InHands
    <3>5. QED
      BY <3>2, <3>3, <3>4 DEF PoolInv
  <2>4. CASE GoTo("write") /\ UNCHANGED findings
    <3>1. main' = [at |-> "write", who |-> main.who, todo |-> main.todo]
      BY <1>0, <2>4 DEF GoTo
    <3>2. InHands'
      BY <2>1, <2>2, <2>4, <3>1 DEF InHands, Visited
    <3>3. QED
      BY <1>p, <2>1, <2>4, <3>2, MainGoes DEF PoolInv, PoolTypes
  <2>5. QED
    BY <1>3, <2>3, <2>4 DEF StartRecovery
<1>4. QED
  BY <1>1, <1>2, <1>3

LEMMA RecoverSteps ==
  ASSUME PoolInv, RecoverRow \/ EndRepair \/ EndRecovery
  PROVE  PoolInv'
<1>0. /\ main = [at |-> main.at, who |-> main.who, todo |-> main.todo] /\ main.at = "recover"
      /\ main.todo \in Seq(Finding)
      /\ UNCHANGED <<queue, pending, handoffs, canceled, asked, paused>>
  BY DEF PoolInv, PoolTypes, LeftToDo, RecoverRow, EndRepair, EndRecovery
<1>p. "recover" \in Place /\ "write" \in Place
  BY DEF Place
<1>1. ASSUME RecoverRow PROVE PoolInv'
  <2> DEFINE row == Head(main.todo)
  <2>1. main.todo # <<>> /\ run["main"].at = "idle"
    BY <1>1 DEF RecoverRow
  <2>2. /\ row \in Finding /\ Tail(main.todo) \in Seq(Finding)
        /\ Agents(main.todo) = {row.agent} \cup Agents(Tail(main.todo))
    BY <1>0, <2>1, AgentsRest
  <2> HIDE DEF row
  <2>3. CASE asked
    <3> DEFINE last == [agent |-> "recovery", via |-> "repair", is |-> "weak"]
    <3>1. findings' = Append(findings, last) /\ main' = [main EXCEPT !.todo = <<>>] /\ run' = run
      BY <1>1, <2>3 DEF RecoverRow
    <3>2. last \in Finding
      BY DEF Finding, Mode
    <3>3. findings' \in Seq(Finding)
      BY <3>1, <3>2 DEF PoolInv, PoolTypes
    <3>4. main' = [at |-> "recover", who |-> main.who, todo |-> <<>>]
      BY <1>0, <3>1
    <3>5. PoolTypes'
      BY <1>0, <1>p, <3>1, <3>3, <3>4 DEF PoolInv, PoolTypes
    <3>6. LeftToDo' /\ MainRuns' /\ InHands'
      BY <1>0, <2>1, <2>3, <3>1, <3>4 DEF LeftToDo, MainRuns, InHands
    <3>7. QED
      BY <3>5, <3>6 DEF PoolInv
  <2>4. CASE ~asked /\ row.is # "failed"
    <3>1. findings' = Append(findings, row) /\ main' = [main EXCEPT !.todo = Tail(@)] /\ run' = run
      BY <1>1, <2>4 DEF RecoverRow, row
    <3>2. findings' \in Seq(Finding) /\ Agents(findings') = Agents(findings) \cup {row.agent}
      BY <2>2, <3>1, AgentsAppend DEF PoolInv, PoolTypes
    <3>3. Visited' = Visited \cup {row.agent}
      BY <3>2, VisitedAgents DEF Visited, Agents
    <3>4. main' = [at |-> "recover", who |-> main.who, todo |-> Tail(main.todo)]
      BY <1>0, <3>1
    <3>5. PoolTypes'
      BY <1>0, <1>p, <3>1, <3>2, <3>4 DEF PoolInv, PoolTypes
    <3>6. LeftToDo' /\ MainRuns'
      BY <1>0, <2>1, <2>2, <3>1, <3>4 DEF LeftToDo, MainRuns
    <3>7. InHands'
      BY <1>0, <2>2, <3>3, <3>4 DEF PoolInv, InHands
    <3>8. QED
      BY <3>5, <3>6, <3>7 DEF PoolInv
  <2>5. CASE ~asked /\ row.is = "failed"
    <3>1. BeginRun("main") /\ findings' = findings /\ main' = main
      BY <1>1, <2>5 DEF RecoverRow, row
    <3>2. PoolTypes' /\ LeftToDo' /\ MainRuns'
      BY <1>0, <2>1, <3>1, MainRun DEF PoolInv, PoolTypes, LeftToDo, MainRuns
    <3>3. InHands'
      BY <1>0, <3>1 DEF PoolInv, InHands, Visited
    <3>4. QED
      BY <3>2, <3>3 DEF PoolInv
  <2>6. QED
    BY <2>3, <2>4, <2>5 DEF PoolInv, PoolTypes
<1>2. ASSUME EndRepair PROVE PoolInv'
  <2>1. /\ main.todo # <<>> /\ findings' = Report(Head(main.todo).agent, "repair", "main")
        /\ main' = [main EXCEPT !.todo = Tail(@)] /\ run' = [run EXCEPT !["main"] = IdleRun]
    BY <1>0, <1>2 DEF EndRepair, PoolInv, MainRuns
  <2>2. /\ Head(main.todo) \in Finding /\ Tail(main.todo) \in Seq(Finding)
        /\ Agents(main.todo) = {Head(main.todo).agent} \cup Agents(Tail(main.todo))
    BY <1>0, <2>1, AgentsRest
  <2>3. findings' \in Seq(Finding) /\ Visited' = Visited \cup {Head(main.todo).agent}
    BY <2>1, <2>2, Reported DEF Finding, Runner
  <2>4. main' = [at |-> "recover", who |-> main.who, todo |-> Tail(main.todo)]
    BY <1>0, <2>1
  <2>5. PoolTypes'
    BY <1>0, <1>p, <2>1, <2>3, <2>4, MainRun DEF PoolInv, PoolTypes
  <2>6. LeftToDo' /\ MainRuns'
    BY <2>1, <2>2, <2>4, MainRun DEF LeftToDo, MainRuns
  <2>7. InHands'
    BY <1>0, <2>2, <2>3, <2>4 DEF PoolInv, InHands
  <2>8. QED
    BY <2>5, <2>6, <2>7 DEF PoolInv
<1>3. ASSUME EndRecovery PROVE PoolInv'
  <2>1. main.todo = <<>> /\ run["main"].at = "idle" /\ GoTo("write") /\ Agents(main.todo) = {}
        /\ UNCHANGED <<run, findings>>
    BY <1>3 DEF EndRecovery, Agents
  <2>2. main' = [at |-> "write", who |-> main.who, todo |-> main.todo]
    BY <1>0, <2>1 DEF GoTo
  <2>3. InHands'
    BY <1>0, <2>1, <2>2 DEF PoolInv, InHands, Visited
  <2>4. QED
    BY <1>0, <1>p, <2>1, <2>3, MainGoes DEF PoolInv, PoolTypes
<1>4. QED
  BY <1>1, <1>2, <1>3

LEMMA WriteSteps ==
  ASSUME PoolInv, AuditLabels \/ ValidateNumbers \/ WriteRaw \/ WritePartial \/ Synthesize
  PROVE  PoolInv'
<1>1. /\ main.at \in {"write", "numbers", "raw", "synthesis"}
      /\ UNCHANGED <<queue, pending, run, findings, handoffs, canceled, asked, paused>>
  BY DEF AuditLabels, ValidateNumbers, WriteRaw, WritePartial, Synthesize
<1>2. PICK to \in {"numbers", "raw", "synthesis", "cancelled", "completed", "unavailable"} : GoTo(to)
  BY DEF AuditLabels, ValidateNumbers, WriteRaw, WritePartial, Synthesize
<1>3. main.todo = <<>> /\ run["main"].at = "idle" /\ to \in Place
  BY <1>1 DEF PoolInv, LeftToDo, MainRuns, Place
<1>4. main'.at = to
  BY <1>2 DEF GoTo, PoolInv, PoolTypes
<1>5. InHands'
  BY <1>1, <1>4 DEF PoolInv, InHands, Visited
<1>6. QED
  BY <1>1, <1>2, <1>3, <1>5, MainGoes DEF PoolInv, PoolTypes

LEMMA PoolNextInv == PoolInv /\ [PoolNext]_poolVars => PoolInv'
<1> SUFFICES ASSUME PoolInv, [PoolNext]_poolVars PROVE PoolInv'
  OBVIOUS
<1>1. ASSUME UNCHANGED <<main, queue, pending, run, findings, handoffs, canceled>>,
             asked' \in BOOLEAN, paused' \in BOOLEAN, asked => asked'
      PROVE  PoolInv'
  BY <1>1 DEF PoolInv, PoolTypes, LeftToDo, MainRuns, InHands, Visited
<1>2. CASE AskCancel \/ TogglePause \/ UNCHANGED poolVars
  BY <1>1, <1>2 DEF AskCancel, TogglePause, poolVars, PoolInv, PoolTypes
<1>3. CASE MainStep
  BY <1>3, LoopSteps, CollectSteps, AdjudicateSteps, RecoverSteps, WriteSteps DEF MainStep
<1>4. CASE \E r \in Runner : RunCheck(r) \/ RunChat(r)
  BY <1>4, RunSteps
<1>5. QED
  BY <1>2, <1>3, <1>4 DEF PoolNext

\* No finding is lost, for any roster, number of workers, handoffs and calls, whatever
\* the order in which agents finish: unless the run is cancelled, each agent of the
\* roster has its row when the notes are written, though the recovery pass makes the
\* list anew (run_research_pool, _recover_failed_findings).
THEOREM AgentsReport == PoolSpec => []EveryAgentReports
<1>1. PoolInv => EveryAgentReports
  BY DEF PoolInv, InHands, EveryAgentReports
<1>2. QED
  BY <1>1, PoolInitInv, PoolNextInv, PTL DEF PoolSpec

\* The main thread, the agents, the findings and the counters have their types.
THEOREM PoolTypesHold == PoolSpec => []PoolTypeOK
<1>1. PoolInv => PoolTypeOK
  <2> SUFFICES ASSUME PoolInv PROVE PoolTypeOK
    OBVIOUS
  <2>1. \/ main.at = "recover" /\ main.todo \in Seq(Finding)
        \/ main.at # "recover" /\ main.todo \in Seq(Roster)
    <3>1. \A s \in Seq(Primary) \cup Seq(Adjudicator) : s \in Seq(Roster)
      BY DEF Roster
    <3>2. <<>> \in Seq(Roster)
      OBVIOUS
    <3>3. QED
      BY <3>1, <3>2 DEF PoolInv, LeftToDo
  <2>2. QED
    BY <2>1 DEF PoolInv, PoolTypes, PoolTypeOK, RunRow
<1>2. QED
  BY <1>1, PoolInitInv, PoolNextInv, PTL DEF PoolSpec

-----------------------------------------------------------------------------

Runs(t, w) == thread[t].at # "none" /\ thread[t].engine = "main" /\ thread[t].watch = w

\* The running set and the threads of the main engine, said of one thread at a time;
\* and an update by a run belongs to a run of that engine that waits for it.
RunsApart ==
  /\ thread \in [WatchThread -> RunState]
  /\ \A w \in Watch : w \in running <=> \E t \in WatchThread : Runs(t, w)
  /\ \A w \in Watch, s, t \in WatchThread : Runs(s, w) /\ Runs(t, w) => s = t
  /\ update = [e \in Engine |-> update[e]]
  /\ \A e \in Engine : \A u \in update[e] :
       u.by = "user" \/ (u.by \in WatchThread /\ thread[u.by].at = "stamp"
                           /\ thread[u.by].engine = e)

LEMMA NoRunType == NoRun.at = "none" /\ NoRun \in RunState
<1>1. (CHOOSE w \in Watch : TRUE) \in Watch
  BY WatchAssumption
<1>2. QED
  BY <1>1 DEF NoRun, RunState, Engine

\* A thread that begins a run of a watch that does not run, or a run of another engine.
LEMMA RunBegins ==
  ASSUME RunsApart, NEW t \in WatchThread, NEW w \in Watch, NEW e \in Engine,
         NEW r, FreeThread(t), Launch(t, e, w, r), update' = update,
         IF e = "main" THEN w \notin running /\ running' = running \cup {w}
                       ELSE running' = running
  PROVE  RunsApart'
<1>1. thread[t].at = "none"
  BY NoRunType DEF FreeThread
<1>2. /\ thread' \in [WatchThread -> RunState]
      /\ thread'[t].at # "none" /\ thread'[t].engine = e /\ thread'[t].watch = w
      /\ \A s \in WatchThread \ {t} : thread'[s] = thread[s]
  BY DEF RunsApart, Launch, RunState
<1>3. \A v \in Watch, s \in WatchThread : Runs(s, v)' <=> Runs(s, v) \/ (s = t /\ e = "main" /\ v = w)
  BY <1>1, <1>2 DEF Runs
<1>4. \A v \in Watch : v \in running' <=> \E s \in WatchThread : Runs(s, v)'
  BY <1>3 DEF RunsApart
<1>5. \A v \in Watch, q, s \in WatchThread : Runs(q, v)' /\ Runs(s, v)' => q = s
  BY <1>3 DEF RunsApart
<1>6. \A f \in Engine : \A u \in update'[f] :
        u.by = "user" \/ (u.by \in WatchThread /\ thread'[u.by].at = "stamp"
                            /\ thread'[u.by].engine = f)
  BY <1>1, <1>2 DEF RunsApart
<1>7. QED
  BY <1>2, <1>4, <1>5, <1>6 DEF RunsApart, Runs

\* A run that ends; an update of its own engine that it made is gone too.
LEMMA RunEnds ==
  ASSUME RunsApart, NEW t \in WatchThread, thread[t].at # "none", EndRun(t),
         update' = [e \in Engine |-> update'[e]],
         \A e \in Engine : update'[e] \subseteq update[e],
         thread[t].at = "stamp" => update'[thread[t].engine] = {}
  PROVE  RunsApart'
<1>1. thread[t] \in RunState
  BY DEF RunsApart
<1>2. NoRun \in RunState /\ NoRun.at = "none"
  BY <1>1, NoRunType DEF RunState
<1>3. /\ thread' \in [WatchThread -> RunState] /\ thread'[t].at = "none"
      /\ \A s \in WatchThread \ {t} : thread'[s] = thread[s]
  BY <1>2 DEF RunsApart, EndRun
<1>4. \A v \in Watch, s \in WatchThread : Runs(s, v)' <=> Runs(s, v) /\ s # t
  BY <1>3 DEF Runs
<1>5. \A v \in Watch : v \in running' <=> v \in running /\ ~Runs(t, v)
  BY <1>1 DEF EndRun, Runs, RunState
<1>6. \A v \in Watch : v \in running' <=> \E s \in WatchThread : Runs(s, v)'
  BY <1>4, <1>5 DEF RunsApart
<1>7. \A v \in Watch, r, s \in WatchThread : Runs(r, v)' /\ Runs(s, v)' => r = s
  BY <1>4 DEF RunsApart
<1>8. \A f \in Engine : \A u \in update'[f] :
        u.by = "user" \/ (u.by \in WatchThread /\ thread'[u.by].at = "stamp"
                            /\ thread'[u.by].engine = f)
  BY <1>3 DEF RunsApart
<1>9. QED
  BY <1>3, <1>6, <1>7, <1>8 DEF RunsApart, Runs

\* A step that changes nothing of the runs but what they wait for.
LEMMA RunsStay ==
  ASSUME RunsApart, UNCHANGED <<thread, running>>,
         update' = [e \in Engine |-> update'[e]],
         \A e \in Engine : \A u \in update'[e] :
           \/ u \in update[e] \/ u.by = "user"
           \/ u.by \in WatchThread /\ thread[u.by].at = "stamp" /\ thread[u.by].engine = e
  PROVE  RunsApart'
  BY DEF RunsApart, Runs

\* ReadRow takes the update of an engine that has none.
LEMMA RowRead ==
  ASSUME RunsApart, NEW e \in Engine, NEW w, NEW by, NEW changed,
         ReadRow(e, w, by, changed)
  PROVE  /\ update[e] = {} /\ update' = [f \in Engine |-> update'[f]]
         /\ \A f \in Engine \ {e} : update'[f] = update[f]
         /\ ~There(w) => update'[e] = {}
         /\ \A u \in update'[e] : u.by = by
<1>1. update[e] = {}
  BY DEF ReadRow
<1>2. PICK us : /\ update' = [update EXCEPT ![e] = us]
                /\ ~There(w) => us = {}
                /\ \A u \in us : u.by = by
  <2> DEFINE us == IF There(w) THEN {[watch |-> w, by |-> by, row |-> changed]} ELSE {}
  <2>1. update' = [update EXCEPT ![e] = us]
    BY DEF ReadRow
  <2>2. (~There(w) => us = {}) /\ \A u \in us : u.by = by
    OBVIOUS
  <2> HIDE DEF us
  <2>3. QED
    BY <2>1, <2>2
<1>3. QED
  BY <1>1, <1>2 DEF RunsApart

\* The snapshot of the scheduler is of watches.
WatchInv == RunsApart /\ \A s \in sweep : s[1] \in Watch

LEMMA WatchInitInv == WatchInit => WatchInv
<1> SUFFICES ASSUME WatchInit PROVE WatchInv
  OBVIOUS
<1>1. QED
  BY NoRunType DEF WatchInit, RunsApart, Runs, WatchInv

LEMMA WatchNextInv == WatchInv /\ [WatchNext]_watchVars => WatchInv'
<1> SUFFICES ASSUME RunsApart, \A s \in sweep : s[1] \in Watch, [WatchNext]_watchVars
             PROVE  WatchInv'
  BY DEF WatchInv
<1>0. "main" \in Engine /\ "step" \in Engine /\ \A t \in WatchThread : thread[t].engine \in Engine
  BY DEF Engine, RunsApart, RunState
<1>1. ASSUME NEW w \in Watch, NEW t \in WatchThread, TriggerWatch(w, t) PROVE RunsApart'
  BY <1>0, <1>1, RunBegins DEF TriggerWatch
<1>2. ASSUME UNCHANGED <<thread, running, update>> PROVE RunsApart'
  BY <1>2 DEF RunsApart, Runs
<1>3. ASSUME NEW w \in Watch, NEW t \in WatchThread, RunRoutine(w, t) PROVE RunsApart'
  BY <1>0, <1>2, <1>3, RunBegins DEF RunRoutine
<1>4. ASSUME NEW w \in Watch, NEW r, NEW t \in WatchThread, SchedulerVisit(w, r, t)
      PROVE  RunsApart'
  BY <1>0, <1>2, <1>4, RunBegins DEF SchedulerVisit
<1>5. ASSUME NEW t \in WatchThread, RunAgents(t) PROVE RunsApart'
  <2>1. thread[t].at \in {"blank", "agents"} /\ update' = update
    BY <1>5 DEF RunAgents
  <2>2. CASE EndRun(t)
    BY <2>1, <2>2, RunEnds DEF RunsApart
  <2>3. ASSUME thread[t].at = "agents", thread' = [thread EXCEPT ![t].at = "stamp"], running' = running PROVE RunsApart'
    <3>1. /\ thread' \in [WatchThread -> RunState]
          /\ \A s \in WatchThread : thread'[s].engine = thread[s].engine
                                      /\ thread'[s].watch = thread[s].watch
                                      /\ (thread'[s].at # "none" <=> thread[s].at # "none")
                                      /\ (thread[s].at = "stamp" => thread'[s].at = "stamp")
      BY <2>1, <2>3 DEF RunsApart, RunState
    <3>2. \A v \in Watch, s \in WatchThread : Runs(s, v)' <=> Runs(s, v)
      BY <3>1 DEF Runs
    <3>3. QED
      BY <2>1, <2>3, <3>1, <3>2 DEF RunsApart
  <2>4. QED
    BY <1>5, <2>2, <2>3 DEF RunAgents, RunRaises
<1>6. ASSUME NEW t \in WatchThread, StampRow(t) PROVE RunsApart'
  <2>1. /\ thread[t].at = "stamp"
        /\ ReadRow(thread[t].engine, thread[t].watch, t,
                   [watch[thread[t].watch] EXCEPT !.last = tick])
    BY <1>6 DEF StampRow
  <2>2. CASE There(thread[t].watch)
    <3>1. UNCHANGED <<thread, running>>
      BY <1>6, <2>2 DEF StampRow
    <3>2. QED
      BY <1>0, <2>1, <3>1, RowRead, RunsStay
  <2>3. CASE ~There(thread[t].watch)
    <3>1. EndRun(t)
      BY <1>6, <2>3 DEF StampRow
    <3>2. /\ update' = [f \in Engine |-> update'[f]]
          /\ \A f \in Engine : update'[f] \subseteq update[f]
          /\ update'[thread[t].engine] = {}
      BY <1>0, <2>1, <2>3, RowRead
    <3>3. QED
      BY <2>1, <3>1, <3>2, RunEnds
  <2>4. QED
    BY <2>2, <2>3
<1>7. ASSUME NEW e \in Engine, WriteRow(e) PROVE RunsApart'
  <2>1. PICK u \in update[e] : /\ update' = [update EXCEPT ![e] = {}]
                               /\ IF u.by = "user" THEN UNCHANGED <<thread, running>>
                                                   ELSE EndRun(u.by)
    BY <1>7 DEF WriteRow
  <2>2. /\ update' = [f \in Engine |-> update'[f]] /\ update'[e] = {}
        /\ \A f \in Engine : update'[f] \subseteq update[f]
    BY <2>1 DEF RunsApart
  <2>3. CASE u.by = "user"
    BY <2>1, <2>2, <2>3, RunsStay
  <2>4. CASE u.by # "user"
    <3>1. u.by \in WatchThread /\ thread[u.by].at = "stamp" /\ thread[u.by].engine = e
      BY <2>1, <2>4 DEF RunsApart
    <3>2. QED
      BY <2>1, <2>2, <2>4, <3>1, RunEnds
  <2>5. QED
    BY <2>3, <2>4
<1>8. ASSUME NEW w \in Watch, NEW s \in Schedule, UpdateWatch(w, s)
      PROVE  RunsApart'
  <2>1. (\E row : ReadRow("main", w, "user", row)) /\ UNCHANGED <<thread, running>>
    BY <1>8 DEF UpdateWatch
  <2>2. QED
    BY <1>0, <2>1, RowRead, RunsStay
<1>9. ASSUME SchedulerList \/ EndRoutine \/ PassTime PROVE RunsApart'
  BY <1>2, <1>9 DEF SchedulerList, EndRoutine, PassTime
<1>a. ASSUME NEW w \in Watch, NEW s \in Schedule, AddWatch(w, s) PROVE RunsApart'
  BY <1>2, <1>a DEF AddWatch
<1>b. ASSUME NEW w \in Watch, DeleteWatch(w) PROVE RunsApart'
  BY <1>2, <1>b DEF DeleteWatch
<1>10. ASSUME UNCHANGED watchVars PROVE RunsApart'
  BY <1>2, <1>10 DEF watchVars
<1>11. ASSUME NEW s \in sweep, NEW t \in WatchThread, SchedulerVisit(s[1], s[2], t)
       PROVE  RunsApart'
  BY <1>4, <1>11
<1>12. \A s \in sweep' : s[1] \in Watch
  <2>1. CASE SchedulerList
    <3>1. \A s \in sweep' : \E w \in Watch : s = <<w, watch[w]>>
      BY <2>1 DEF SchedulerList
    <3>2. QED
      BY <3>1
  <2>2. CASE sweep' \subseteq sweep
    BY <2>2
  <2>3. CASE UNCHANGED watchVars
    BY <2>2, <2>3 DEF watchVars
  <2>4. ASSUME NEW s \in sweep, NEW t \in WatchThread, SchedulerVisit(s[1], s[2], t)
        PROVE  sweep' \subseteq sweep
    BY <2>4 DEF SchedulerVisit
  <2>5. CASE \E e \in Engine : WriteRow(e)
    BY <2>2, <2>5 DEF WriteRow
  <2>6. CASE \E t \in WatchThread : RunStep(t)
    BY <2>2, <2>6 DEF RunStep, RunAgents, StampRow
  <2>7. CASE EndRoutine \/ PassTime \/ \E w \in Watch : DeleteWatch(w)
    BY <2>2, <2>7 DEF EndRoutine, PassTime, DeleteWatch
  <2>8. CASE \E w \in Watch, t \in WatchThread : TriggerWatch(w, t) \/ RunRoutine(w, t)
    BY <2>2, <2>8 DEF TriggerWatch, RunRoutine
  <2>9. CASE \E w \in Watch, s \in Schedule :
               AddWatch(w, s) \/ UpdateWatch(w, s)
    BY <2>2, <2>9 DEF AddWatch, UpdateWatch
  <2>10. QED
    BY <2>1, <2>2, <2>3, <2>4, <2>5, <2>6, <2>7, <2>8, <2>9 DEF WatchNext
<1>13. RunsApart'
  <2>1. CASE SchedulerList \/ EndRoutine \/ PassTime
    BY <1>9, <2>1
  <2>2. CASE \E w \in Watch, t \in WatchThread : TriggerWatch(w, t) \/ RunRoutine(w, t)
    BY <1>1, <1>3, <2>2
  <2>3. CASE \E s \in sweep, t \in WatchThread : SchedulerVisit(s[1], s[2], t)
    BY <1>11, <2>3
  <2>4. CASE \E t \in WatchThread : RunStep(t)
    BY <1>5, <1>6, <2>4 DEF RunStep
  <2>5. CASE \E e \in Engine : WriteRow(e)
    BY <1>7, <2>5
  <2>6. CASE \E w \in Watch, s \in Schedule :
               AddWatch(w, s) \/ UpdateWatch(w, s)
    BY <1>8, <1>a, <2>6
  <2>7. CASE \E w \in Watch : DeleteWatch(w)
    BY <1>b, <2>7
  <2>8. CASE UNCHANGED watchVars
    BY <1>10, <2>8
  <2>9. QED
    BY <2>8, <2>1, <2>2, <2>3, <2>4, <2>5, <2>6, <2>7 DEF WatchNext
<1>14. QED
  BY <1>12, <1>13 DEF WatchInv

\* One thread of the main engine for each watch of its running set, and none for any
\* other, for any watches, threads, schedules and faults (_running_watches).
THEOREM RunsOnce == WatchSpec => []OneRunPerWatch
<1>1. WatchInv => OneRunPerWatch
  <2> SUFFICES ASSUME RunsApart, NEW w \in Watch
               PROVE  Cardinality({t \in WatchThread : Runs(t, w)}) = IF w \in running THEN 1 ELSE 0
    BY DEF OneRunPerWatch, Runs, WatchInv
  <2>1. CASE w \in running
    <3>1. PICK t \in WatchThread : Runs(t, w)
      BY <2>1 DEF RunsApart
    <3>2. {s \in WatchThread : Runs(s, w)} = {t}
      BY <3>1 DEF RunsApart
    <3>3. QED
      BY <2>1, <3>2, FS_Singleton
  <2>2. CASE w \notin running
    <3>1. {s \in WatchThread : Runs(s, w)} = {}
      BY <2>2 DEF RunsApart
    <3>2. QED
      BY <2>2, <3>1, FS_EmptySet
  <2>3. QED
    BY <2>1, <2>2
<1>2. QED
  BY <1>1, WatchInitInv, WatchNextInv, PTL DEF WatchSpec

\* An update of a row, between its read and its write.
RowUpdate == [watch : Watch, by : WatchThread \cup {"user"}, row : WatchRow]

WatchTypes ==
  /\ tick \in 0 .. MaxTick
  /\ watch \in [Watch -> WatchRow]
  /\ sweep \subseteq Watch \X WatchRow
  /\ running \subseteq Watch
  /\ \A e \in Engine : update[e] \subseteq RowUpdate /\ \A u, v \in update[e] : u = v
  /\ routine \in BOOLEAN
  /\ faults \in 0 .. MaxFault

LEMMA NoWatchRowType == NoWatchRow \in WatchRow
<1>1. (CHOOSE s \in Schedule : TRUE) \in Schedule
  BY WatchAssumption DEF WatchAssumption
<1>2. Never \in Never .. MaxTick
  BY WatchAssumption DEF WatchAssumption, Never
<1>3. QED
  BY <1>1, <1>2 DEF NoWatchRow, WatchRow

\* An update that is read has the row's type, and is the only one of its engine.
LEMMA ReadRowTypes ==
  ASSUME RunsApart, WatchTypes, NEW e \in Engine, NEW w \in Watch,
         NEW by \in WatchThread \cup {"user"}, NEW changed \in WatchRow,
         ReadRow(e, w, by, changed)
  PROVE  \A f \in Engine : update'[f] \subseteq RowUpdate /\ \A u, v \in update'[f] : u = v
<1> DEFINE one == [watch |-> w, by |-> by, row |-> changed]
<1>2. one \in RowUpdate
  BY DEF RowUpdate
<1>3. update' = [update EXCEPT ![e] = IF There(w) THEN {one} ELSE {}]
  BY DEF ReadRow
<1> HIDE DEF one
<1>4. QED
  BY <1>2, <1>3 DEF RunsApart, WatchTypes

LEMMA EndRunTypes ==
  ASSUME running \subseteq Watch, NEW t, EndRun(t)
  PROVE  running' \subseteq Watch
  BY DEF EndRun

LEMMA WatchTypesInit == WatchInit => WatchTypes
<1> SUFFICES ASSUME WatchInit PROVE WatchTypes
  OBVIOUS
<1>1. 0 \in 0 .. MaxTick /\ 0 \in 0 .. MaxFault
  BY WatchAssumption DEF WatchAssumption
<1>2. routine \in BOOLEAN
  BY DEF WatchInit
<1>3. QED
  BY <1>1, <1>2, NoWatchRowType DEF WatchInit, WatchTypes

LEMMA WatchTypesNext == RunsApart /\ WatchTypes /\ [WatchNext]_watchVars => WatchTypes'
<1> SUFFICES ASSUME RunsApart, WatchTypes, [WatchNext]_watchVars PROVE WatchTypes'
  OBVIOUS
<1>0. /\ \A t \in WatchThread : thread[t].engine \in Engine /\ thread[t].watch \in Watch
      /\ "main" \in Engine
      /\ \A w \in Watch : /\ watch[w] \in WatchRow
                          /\ watch[w].enabled \in BOOLEAN /\ watch[w].topic \in BOOLEAN
      /\ tick \in Never .. MaxTick
  BY WatchAssumption DEF RunsApart, RunState, Engine, WatchTypes, WatchRow, Never, WatchAssumption
<1>1. CASE SchedulerList
  <2>1. sweep' \subseteq Watch \X WatchRow
    BY <1>0, <1>1 DEF SchedulerList
  <2>2. QED
    BY <1>1, <2>1 DEF SchedulerList, WatchTypes
<1>2. ASSUME NEW s \in sweep, NEW t \in WatchThread, SchedulerVisit(s[1], s[2], t)
      PROVE  WatchTypes'
  <2>1. s[1] \in Watch
    BY DEF WatchTypes
  <2>2. QED
    BY <1>2, <2>1 DEF SchedulerVisit, WatchTypes
<1>3. ASSUME NEW w \in Watch, NEW t \in WatchThread, TriggerWatch(w, t) PROVE WatchTypes'
  BY <1>3 DEF TriggerWatch, WatchTypes
<1>4. ASSUME NEW w \in Watch, NEW t \in WatchThread, RunRoutine(w, t) PROVE WatchTypes'
  <2>1. routine' \in BOOLEAN
    BY <1>4 DEF RunRoutine, WatchTypes
  <2>2. QED
    BY <1>4, <2>1 DEF RunRoutine, WatchTypes
<1>5. ASSUME NEW t \in WatchThread, RunAgents(t) PROVE WatchTypes'
  <2>1. running' \subseteq Watch
    BY <1>5, EndRunTypes DEF RunAgents, RunRaises, WatchTypes
  <2>2. faults' \in 0 .. MaxFault
    BY <1>5, WatchAssumption DEF RunAgents, RunRaises, WatchTypes, WatchAssumption
  <2>3. QED
    BY <1>5, <2>1, <2>2 DEF RunAgents, WatchTypes
<1>6. ASSUME NEW t \in WatchThread, StampRow(t) PROVE WatchTypes'
  <2>0. [watch[thread[t].watch] EXCEPT !.last = tick] \in WatchRow
    BY <1>0 DEF WatchRow
  <2>1. \A f \in Engine : update'[f] \subseteq RowUpdate /\ \A u, v \in update'[f] : u = v
    BY <1>0, <1>6, <2>0, ReadRowTypes DEF StampRow
  <2>2. running' \subseteq Watch
    BY <1>6, EndRunTypes DEF StampRow, WatchTypes
  <2>3. UNCHANGED <<tick, watch, sweep, routine, faults>>
    BY <1>6 DEF StampRow
  <2>4. QED
    BY <2>1, <2>2, <2>3 DEF WatchTypes
<1>7. ASSUME NEW e \in Engine, WriteRow(e) PROVE WatchTypes'
  <2>1. PICK u \in update[e] :
          /\ update' = [update EXCEPT ![e] = {}]
          /\ watch' = IF There(u.watch) THEN [watch EXCEPT ![u.watch] = u.row] ELSE watch
          /\ UNCHANGED running \/ EndRun(u.by)
          /\ UNCHANGED <<tick, sweep, routine, faults>>
    BY <1>7 DEF WriteRow
  <2>2. u \in RowUpdate
    BY DEF WatchTypes
  <2>3. watch' \in [Watch -> WatchRow]
    BY <2>1, <2>2 DEF RowUpdate, WatchTypes
  <2>4. running' \subseteq Watch
    BY <2>1, EndRunTypes DEF WatchTypes
  <2>5. \A f \in Engine : update'[f] \subseteq RowUpdate /\ \A v, x \in update'[f] : v = x
    BY <2>1 DEF RunsApart, WatchTypes
  <2>6. QED
    BY <2>1, <2>3, <2>4, <2>5 DEF WatchTypes
<1>8. ASSUME NEW w \in Watch, NEW s \in Schedule, UpdateWatch(w, s)
      PROVE  WatchTypes'
  <2>0. /\ [watch[w] EXCEPT !.enabled = ~@] \in WatchRow
        /\ [watch[w] EXCEPT !.topic = ~@] \in WatchRow
        /\ [watch[w] EXCEPT !.schedule = s] \in WatchRow
    BY <1>0 DEF WatchRow
  <2>1. \A f \in Engine : update'[f] \subseteq RowUpdate /\ \A u, v \in update'[f] : u = v
    BY <1>0, <1>8, <2>0, ReadRowTypes DEF UpdateWatch
  <2>2. QED
    BY <1>8, <2>1 DEF UpdateWatch, WatchTypes
<1>9. ASSUME NEW w \in Watch, NEW s \in Schedule, AddWatch(w, s) PROVE WatchTypes'
  <2>1. [is |-> "there", enabled |-> TRUE, topic |-> TRUE, schedule |-> s,
         last |-> Never] \in WatchRow
    BY WatchAssumption DEF WatchRow, Never, WatchAssumption
  <2>2. QED
    BY <1>9, <2>1 DEF AddWatch, WatchTypes
<1>a. ASSUME NEW w \in Watch, DeleteWatch(w) PROVE WatchTypes'
  <2>1. [NoWatchRow EXCEPT !.is = "gone"] \in WatchRow
    BY NoWatchRowType DEF WatchRow
  <2>2. QED
    BY <1>a, <2>1 DEF DeleteWatch, WatchTypes
<1>b. CASE EndRoutine
  BY <1>b DEF EndRoutine, WatchTypes
<1>c. CASE PassTime
  BY <1>c, WatchAssumption DEF PassTime, WatchTypes, WatchAssumption
<1>d. CASE UNCHANGED watchVars
  BY <1>d DEF watchVars, WatchTypes
<1>e. QED
  BY <1>1, <1>2, <1>3, <1>4, <1>5, <1>6, <1>7, <1>8, <1>9, <1>a, <1>b, <1>c, <1>d
     DEF WatchNext, RunStep

\* The rows of the watches, the running set, the threads and the updates on their way
\* have the types that watchtower.py and its repository give them.
THEOREM WatchTypesHold == WatchSpec => []WatchTypeOK
<1>1. WatchInv /\ WatchTypes => WatchTypeOK
  <2> SUFFICES ASSUME RunsApart, WatchTypes PROVE WatchTypeOK
    BY DEF WatchInv
  <2>1. ASSUME NEW e \in Engine PROVE Cardinality(update[e]) <= 1
    <3>1. CASE update[e] = {}
      BY <3>1, FS_EmptySet
    <3>2. CASE update[e] # {}
      <4>1. PICK u \in update[e] : TRUE
        BY <3>2
      <4>2. update[e] = {u}
        BY <4>1 DEF WatchTypes
      <4>3. QED
        BY <4>2, FS_Singleton
    <3>3. QED
      BY <3>1, <3>2
  <2>2. QED
    BY <2>1 DEF WatchTypes, RunsApart, WatchTypeOK
<1>2. WatchInv /\ [WatchNext]_watchVars /\ WatchTypes => WatchTypes'
  BY WatchTypesNext DEF WatchInv
<1>3. QED
  BY <1>1, <1>2, WatchInitInv, WatchNextInv, WatchTypesInit, PTL DEF WatchSpec

-----------------------------------------------------------------------------

\* A behaviour of the three components together is one of each of them: what moves
\* one of them leaves the others alone, and their fairness is not needed here.
LEMMA AllParts == AllSpec => Spec /\ LoopSpec /\ WatchSpec
<1>1. AllInit => Init /\ LoopInit /\ WatchInit
  BY DEF AllInit
<1>2. [AllNext]_allVars => [Next]_vars /\ [LoopNext]_loopVars /\ [WatchNext]_watchVars
  <2> SUFFICES ASSUME [AllNext]_allVars
               PROVE  [Next]_vars /\ [LoopNext]_loopVars /\ [WatchNext]_watchVars
    OBVIOUS
  <2>1. CASE AllNext
    BY <2>1 DEF AllNext
  <2>2. CASE UNCHANGED allVars
    BY <2>2 DEF allVars
  <2>3. QED
    BY <2>1, <2>2
<1>3. QED
  BY <1>1, <1>2, PTL DEF AllSpec, Spec, LoopSpec, WatchSpec

\* The types of the three together, as the run checks them.
THEOREM ProgressTypes == AllSpec => []TypesOK
<1>1. TypeOK /\ LoopTypeOK /\ WatchTypeOK => TypesOK
  BY DEF TypesOK
<1>2. LoopInv => LoopTypeOK
  BY DEF LoopInv
<1>3. QED
  BY <1>1, <1>2, AllParts, TypeCorrect, LoopInvariant, WatchTypesHold, PTL

\* What is proved of each component holds when they run together.
THEOREM ProgressSafe ==
  AllSpec =>
    /\ [](ExclusiveUntilStale /\ NoOrphanedRecord /\ NoLeaseLeft /\ OneRunPerWatch)
    /\ LeaseKept /\ LoopKeepsLease
  BY AllParts, Exclusive, NoOrphan, LeasesReturned, RunsOnce, LockIsLease, LoopUsesLease, PTL
=============================================================================
