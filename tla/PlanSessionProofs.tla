-------------------------- MODULE PlanSessionProofs --------------------------
(***************************************************************************)
(* What holds of the plan commands for any number of projects, commands    *)
(* and plans.                                                              *)
(*                                                                         *)
(* None of the properties is inductive.  That a plan is only built in its  *)
(* own workspace needs to know that no other workspace has the digest of   *)
(* the plan, now or later: stamps only grow and a digest is never above    *)
(* the clock (Stamps, Digests).  That a plan is not built twice needs to   *)
(* know that the workspace of a built plan has moved on from its digest    *)
(* (Digests), which in turn needs the first fact for the plan being built  *)
(* (Jobs).                                                                 *)
(***************************************************************************)
EXTENDS PlanSession, FiniteSetTheorems, TLAPS

\* Stamps come from the clock, and no two workspaces share one that is not of
\* a copied tree.
Stamps ==
  /\ clock >= Bare
  /\ \A p \in Project : ws[p] <= clock
  /\ \A p, q \in Project :
       ws[p] = ws[q] => p = q \/ ws[p] \in {Gone, Bare} \cup copied

\* A telling digest is, or was, the one of the plan's own project; when the
\* plan was built it no longer is.
Digests ==
  \A l \in Plan :
    /\ digest[l] <= clock
    /\ l > made => digest[l] = Gone
    /\ Telling(l) =>
         /\ \A q \in Project : ws[q] = digest[l] => q = owner[l]
         /\ l \in built => ws[owner[l]] # digest[l]

\* Where a command is tells what its record holds.
JobFits(c) ==
  /\ job[c].kind # "none" => active \in Project
  /\ job[c].at \in {"generating", "planned"} => job[c].kind # "none"
  /\ job[c].at \in {"generating", "superseding", "planned", "checking",
                    "building", "marking"} => job[c].proj \in Project
  /\ \/ job[c].kind = "refresh"
     \/ job[c].at \in {"superseding", "planned", "checking", "building",
                       "marking"}
     => job[c].plan \in 1 .. made
  /\ job[c].at = "superseding" => job[c].fresh \in job[c].plan + 1 .. made
  /\ job[c].at \in {"building", "marking"} /\ Telling(job[c].plan)
       => owner[job[c].plan] = job[c].proj
  /\ job[c].at = "marking" => job[c].plan \in built

Jobs == \A c \in Command : JobFits(c)

\* Only plans of the store are built, and only built plans are recorded.
Records == executed \subseteq built /\ built \subseteq 1 .. made

Inv == TypeOK /\ Stamps /\ Digests /\ Jobs /\ Records

LEMMA IdleType == Idle \in Job
  BY PlanAssumption DEF Idle, Job

LEMMA InitInv == Init => Inv
<1> SUFFICES ASSUME Init PROVE Inv
  OBVIOUS
<1> USE PlanAssumption, IdleType
<1>1. Cardinality(Project) \in Nat
  BY FS_CardinalityType
<1>2. TypeOK
  BY <1>1 DEF Init, TypeOK, Plan, Stamp, Gone, Bare
<1>3. Stamps
  <2>1. clock \in Nat /\ clock <= MaxStamp /\ clock >= Bare
    BY <1>1 DEF Init, Bare
  <2>2. \A p \in Project : ws[p] \in Bare .. clock /\ ws[p] \in Stamp
    BY <2>1 DEF Init, Bare, Stamp
  <2>3. ASSUME NEW p \in Project, NEW q \in Project, ws[p] = ws[q], p # q
        PROVE  ws[p] \in copied
    BY <2>2, <2>3 DEF Init
  <2>4. QED
    BY <2>1, <2>2, <2>3 DEF Stamps, Bare
<1>4. Digests
  BY <1>1 DEF Init, Digests, Telling, Plan, Gone, Bare
<1>5. Jobs
  BY DEF Init, Jobs, JobFits, Idle
<1>6. Records
  BY DEF Init, Records
<1>7. QED
  BY <1>2, <1>3, <1>4, <1>5, <1>6 DEF Inv

\* A step that changes nothing but the record of one command.
LEMMA OnlyJob ==
  ASSUME Inv, NEW c \in Command, NEW j \in Job, Become(c, j),
         UNCHANGED <<active, disk, store, built>>,
         JobFits(c)'
  PROVE  Inv'
<1>1. TypeOK'
  BY DEF Inv, TypeOK, Become, disk, store
<1>2. Stamps'
  BY DEF Inv, Stamps, disk
<1>3. Digests'
  BY DEF Inv, Digests, Telling, disk, store
<1>4. Jobs'
  BY DEF Inv, TypeOK, Jobs, JobFits, Telling, Become, disk, store
<1>5. Records'
  BY DEF Inv, Records, store
<1>6. QED
  BY <1>1, <1>2, <1>3, <1>4, <1>5 DEF Inv

\* What a command returns is in the type of its record.
LEMMA ReturnFits ==
  ASSUME Inv, NEW c \in Command, Return(c)
  PROVE  /\ \E j \in Job : Become(c, j)
         /\ job'[c].at = "applying"
         /\ job'[c].kind = "none"
<1> DEFINE j == [Idle EXCEPT !.at = "applying", !.out = active]
<1>1. j \in Job
  BY IdleType DEF Inv, TypeOK, Job, Idle
<1>2. j.at = "applying" /\ j.kind = "none"
  BY DEF Idle
<1>3. job' = [job EXCEPT ![c] = j]
  BY DEF Return, Become
<1>4. job'[c] = j
  BY <1>3 DEF Inv, TypeOK
<1>5. Become(c, j)
  BY <1>3 DEF Become
<1>6. QED
  BY <1>1, <1>2, <1>4, <1>5

\* A command that returns disturbs nothing.
LEMMA ReturnKeeps ==
  ASSUME Inv, NEW c \in Command, Return(c),
         UNCHANGED <<active, disk, store, built>>
  PROVE  Inv'
<1>1. PICK j \in Job : Become(c, j)
  BY ReturnFits
<1>2. JobFits(c)'
  BY ReturnFits DEF JobFits
<1>3. QED
  BY <1>1, <1>2, OnlyJob

\* The commands that only read the store and the workspaces.
LEMMA BeginKeeps ==
  ASSUME Inv, NEW c \in Command
  PROVE  /\ FinishOpen(c) \/ Other(c) => Inv'
         /\ \A k \in {"plan", "build"} : BeginPlan(c, k) => Inv'
         /\ \A ref \in Plan \cup {Latest} :
              BeginRefresh(c, ref) \/ BeginExecute(c, ref) => Inv'
<1>1. FinishOpen(c) \/ Other(c) => Inv'
  BY ReturnKeeps DEF FinishOpen, Other
<1>2. ASSUME NEW k \in {"plan", "build"}, BeginPlan(c, k)
      PROVE  Inv'
  <2> DEFINE j == [Idle EXCEPT !.at = "generating", !.kind = k, !.proj = active]
  <2>1. j \in Job /\ active \in Project
    BY <1>2, IdleType DEF BeginPlan, Inv, TypeOK, Job, Idle
  <2>2. Become(c, j)
    BY <1>2 DEF BeginPlan
  <2>3. job'[c] = j
    BY <2>2 DEF Become, Inv, TypeOK
  <2>4. JobFits(c)'
    BY <1>2, <2>1, <2>3 DEF JobFits, BeginPlan, Idle, Telling
  <2>5. QED
    BY <1>2, <2>1, <2>2, <2>4, OnlyJob DEF BeginPlan
<1>3. ASSUME NEW ref \in Plan \cup {Latest}, BeginRefresh(c, ref)
      PROVE  Inv'
  <2>1. PICK l \in Plan :
          /\ Resolves(active, ref, l)
          /\ Become(c, [Idle EXCEPT !.at = "generating", !.kind = "refresh",
                                    !.proj = active, !.plan = l])
    BY <1>3 DEF BeginRefresh
  <2> DEFINE j == [Idle EXCEPT !.at = "generating", !.kind = "refresh",
                               !.proj = active, !.plan = l]
  <2>2. j \in Job /\ active \in Project
    <3>1. active \in Project
      BY <1>3 DEF BeginRefresh, Inv, TypeOK
    <3>2. l \in 0 .. MaxPlan /\ 0 \in 0 .. MaxPlan
      BY PlanAssumption DEF Plan
    <3>3. QED
      BY <3>1, <3>2, IdleType DEF Job
  <2>3. job'[c] = j
    BY <2>1 DEF Become, Inv, TypeOK
  <2>4. l \in 1 .. made /\ made' = made
    BY <1>3, <2>1 DEF Resolves, BeginRefresh, store
  <2>5. JobFits(c)'
    BY <1>3, <2>2, <2>3, <2>4 DEF JobFits, BeginRefresh, Idle, Telling
  <2>6. QED
    BY <1>3, <2>1, <2>2, <2>5, OnlyJob DEF BeginRefresh
<1>4. ASSUME NEW ref \in Plan \cup {Latest}, BeginExecute(c, ref)
      PROVE  Inv'
  <2>1. PICK l \in Plan :
          /\ Resolves(active, ref, l)
          /\ Become(c, [Idle EXCEPT !.at = "checking", !.proj = active,
                                    !.plan = l])
    BY <1>4 DEF BeginExecute
  <2> DEFINE j == [Idle EXCEPT !.at = "checking", !.proj = active, !.plan = l]
  <2>2. j \in Job /\ active \in Project
    <3>1. active \in Project
      BY <1>4 DEF BeginExecute, Inv, TypeOK
    <3>2. l \in 0 .. MaxPlan /\ 0 \in 0 .. MaxPlan
      BY PlanAssumption DEF Plan
    <3>3. QED
      BY <3>1, <3>2, IdleType DEF Job
  <2>3. job'[c] = j
    BY <2>1 DEF Become, Inv, TypeOK
  <2>4. l \in 1 .. made /\ made' = made
    BY <1>4, <2>1 DEF Resolves, BeginExecute, store
  <2>5. JobFits(c)'
    BY <1>4, <2>2, <2>3, <2>4 DEF JobFits, BeginExecute, Idle, Telling
  <2>6. QED
    BY <1>4, <2>1, <2>2, <2>5, OnlyJob DEF BeginExecute
<1>5. QED
  BY <1>1, <1>2, <1>3, <1>4

\* The staleness check lets a command build only in its own workspace.
LEMMA CheckKeeps ==
  ASSUME Inv, NEW c \in Command, ExecuteBuilt(c) \/ Check(c)
  PROVE  Inv'
<1>1. CASE ExecuteBuilt(c)
  <2> DEFINE j == [job[c] EXCEPT !.at = "checking", !.kind = "none",
                                 !.proj = active]
  <2>1. j \in Job /\ job'[c] = j /\ Become(c, j)
    BY <1>1 DEF ExecuteBuilt, At, Become, Inv, TypeOK, Job
  <2>2. active \in Project /\ job[c].plan \in 1 .. made
    BY <1>1 DEF ExecuteBuilt, At, Inv, Jobs, JobFits
  <2>3. made' = made
    BY <1>1 DEF ExecuteBuilt, store
  <2>4. JobFits(c)'
    BY <2>1, <2>2, <2>3 DEF JobFits, Inv, TypeOK, Job
  <2>5. QED
    BY <1>1, <2>1, <2>4, OnlyJob DEF ExecuteBuilt
<1>2. CASE Check(c) /\ IsStale(job[c].plan, job[c].proj)
  BY <1>2, ReturnKeeps DEF Check
<1>3. CASE Check(c) /\ ~IsStale(job[c].plan, job[c].proj)
  <2> DEFINE j == [job[c] EXCEPT !.at = "building"]
  <2>1. j \in Job /\ job'[c] = j /\ Become(c, j)
    BY <1>3 DEF Check, At, Become, Inv, TypeOK, Job
  <2>2. /\ job[c].at = "checking"
        /\ job[c].plan \in 1 .. made /\ job[c].proj \in Project
        /\ job[c].kind # "none" => active \in Project
    BY <1>3 DEF Check, At, Inv, Jobs, JobFits
  <2>3. UNCHANGED <<active, made, digest, owner, ws, copied, built>>
    BY <1>3 DEF Check, store, disk
  <2>4. Telling(job[c].plan) => owner[job[c].plan] = job[c].proj
    <3>1. job[c].plan \in Plan
      BY <2>2, PlanAssumption DEF Inv, TypeOK, Plan
    <3>2. Telling(job[c].plan) => ws[job[c].proj] = digest[job[c].plan]
      BY <1>3 DEF IsStale, Telling
    <3>3. QED
      BY <2>2, <3>1, <3>2 DEF Inv, Digests
  <2>5. JobFits(c)'
    BY <2>1, <2>2, <2>3, <2>4 DEF JobFits, Telling, Inv, TypeOK, Job
  <2>6. QED
    BY <1>3, <2>1, <2>5, OnlyJob DEF Check
<1>4. QED
  BY <1>1, <1>2, <1>3

\* A new plan takes the digest of its own project's workspace.
LEMMA CreateKeeps ==
  ASSUME Inv, NEW c \in Command, CreatePlan(c)
  PROVE  Inv'
<1> DEFINE l == made + 1
           p == job[c].proj
<1>1. /\ job[c].at = "generating"
      /\ l \in Plan /\ made' = l
      /\ owner' = [owner EXCEPT ![l] = p]
      /\ digest' = [digest EXCEPT ![l] = ws[p]]
      /\ UNCHANGED <<active, ws, clock, copied, superseded, executed, built>>
  BY DEF CreatePlan, At, disk
<1>2. p \in Project /\ made \in 0 .. MaxPlan
  BY <1>1 DEF Inv, Jobs, JobFits, TypeOK
<1>3. PICK j \in Job :
        /\ job' = [job EXCEPT ![c] = j]
        /\ \/ j.at = "applying" /\ j.kind = "none"
           \/ /\ j = [job[c] EXCEPT !.at = "superseding", !.fresh = l]
              /\ job[c].kind = "refresh"
           \/ /\ j = [job[c] EXCEPT !.at = "planned", !.plan = l]
              /\ job[c].kind = "build"
  <2>1. CASE Return(c)
    <3>1. PICK j \in Job : Become(c, j)
      BY <2>1, ReturnFits
    <3>2. job' = [job EXCEPT ![c] = j] /\ job'[c] = j
      BY <3>1 DEF Become, Inv, TypeOK
    <3>3. QED
      BY <2>1, <3>2, ReturnFits
  <2>2. CASE /\ job[c].kind = "refresh"
             /\ Become(c, [job[c] EXCEPT !.at = "superseding", !.fresh = l])
    <3> DEFINE j == [job[c] EXCEPT !.at = "superseding", !.fresh = l]
    <3>1. j \in Job
      <4>1. job[c] \in Job /\ l \in 0 .. MaxPlan
        BY <1>1, PlanAssumption DEF Inv, TypeOK, Plan
      <4>2. QED
        BY <4>1 DEF Job
    <3>2. QED
      BY <2>2, <3>1 DEF Become
  <2>3. CASE /\ job[c].kind = "build"
             /\ Become(c, [job[c] EXCEPT !.at = "planned", !.plan = l])
    <3> DEFINE j == [job[c] EXCEPT !.at = "planned", !.plan = l]
    <3>1. j \in Job
      <4>1. job[c] \in Job /\ l \in 0 .. MaxPlan
        BY <1>1, PlanAssumption DEF Inv, TypeOK, Plan
      <4>2. QED
        BY <4>1 DEF Job
    <3>2. QED
      BY <2>3, <3>1 DEF Become
  <2>4. QED
    BY <2>1, <2>2, <2>3 DEF CreatePlan
<1>4. TypeOK'
  <2>1. /\ made' \in 0 .. MaxPlan
        /\ job' \in [Command -> Job]
        /\ \A m \in Plan : superseded'[m] # 0 => superseded'[m] \in m + 1 .. made'
    BY <1>1, <1>2, <1>3 DEF Inv, TypeOK, Plan
  <2>2. /\ owner' \in [Plan -> Project \cup {NoProject}]
        /\ \A m \in Plan : owner'[m] = NoProject <=> m > made'
    BY <1>1, <1>2, PlanAssumption DEF Inv, TypeOK, Plan
  <2>3. digest' \in [Plan -> Stamp]
    BY <1>1, <1>2 DEF Inv, TypeOK
  <2>4. QED
    BY <1>1, <2>1, <2>2, <2>3 DEF Inv, TypeOK
<1>5. Stamps'
  BY <1>1 DEF Inv, Stamps
<1>6. Digests'
  <2> SUFFICES ASSUME NEW m \in Plan
               PROVE  /\ digest'[m] <= clock
                      /\ m > made' => digest'[m] = Gone
                      /\ Telling(m)' =>
                           /\ \A q \in Project : ws[q] = digest'[m] => q = owner'[m]
                           /\ m \in built => ws[owner'[m]] # digest'[m]
    BY <1>1 DEF Digests
  <2>1. CASE m = l
    <3>1. digest'[m] = ws[p] /\ owner'[m] = p /\ m \notin built
      BY <1>1, <1>2, <2>1 DEF Inv, TypeOK, Records
    <3>2. QED
      BY <1>1, <1>2, <2>1, <3>1 DEF Inv, Stamps, Telling
  <2>2. CASE m # l
    <3>1. digest'[m] = digest[m] /\ owner'[m] = owner[m]
      BY <1>1, <2>2 DEF Inv, TypeOK
    <3>2. QED
      BY <1>1, <1>2, <2>2, <3>1 DEF Inv, Digests, Telling, Plan
  <2>3. QED
    BY <2>1, <2>2
<1>7. Jobs'
  <2> SUFFICES ASSUME NEW d \in Command PROVE JobFits(d)'
    BY DEF Jobs
  <2>1. CASE d = c
    <3>1. job'[d] = j
      BY <1>3, <2>1 DEF Inv, TypeOK
    <3>2. JobFits(c)
      BY DEF Inv, Jobs
    <3>3. job[c] \in Job /\ job[c].plan \in 0 .. MaxPlan
      BY DEF Inv, TypeOK, Job
    <3>4. CASE j.at = "applying" /\ j.kind = "none"
      BY <2>1, <3>1, <3>4 DEF JobFits
    <3>5. CASE /\ j = [job[c] EXCEPT !.at = "superseding", !.fresh = l]
               /\ job[c].kind = "refresh"
      <4>1. /\ j.at = "superseding" /\ j.fresh = l /\ j.plan = job[c].plan
            /\ j.kind = "refresh" /\ j.proj = p
        BY <3>3, <3>5 DEF Job
      <4>2. job[c].plan \in 1 .. made
        BY <3>2, <3>5 DEF JobFits
      <4>3. active' \in Project
        BY <1>1, <3>2, <3>5 DEF JobFits
      <4>4. QED
        BY <1>1, <1>2, <2>1, <3>1, <4>1, <4>2, <4>3 DEF JobFits
    <3>6. CASE /\ j = [job[c] EXCEPT !.at = "planned", !.plan = l]
               /\ job[c].kind = "build"
      <4>1. j.at = "planned" /\ j.plan = l /\ j.kind = "build" /\ j.proj = p
        BY <3>3, <3>6 DEF Job
      <4>2. active' \in Project
        BY <1>1, <3>2, <3>6 DEF JobFits
      <4>3. QED
        BY <1>1, <1>2, <2>1, <3>1, <4>1, <4>2 DEF JobFits
    <3>7. QED
      BY <1>3, <3>4, <3>5, <3>6
  <2>2. CASE d # c
    <3>1. job'[d] = job[d] /\ JobFits(d)
      BY <1>3, <2>2 DEF Inv, Jobs, TypeOK
    <3>2. job[d].at \in {"building", "marking"} =>
            /\ digest'[job[d].plan] = digest[job[d].plan]
            /\ owner'[job[d].plan] = owner[job[d].plan]
      <4>1. job[d].at \in {"building", "marking"} =>
              job[d].plan \in Plan /\ job[d].plan # l
        BY <1>2, <3>1, PlanAssumption DEF JobFits, Plan
      <4>2. QED
        BY <1>1, <4>1 DEF Inv, TypeOK
    <3>3. QED
      BY <1>1, <1>2, <3>1, <3>2 DEF JobFits, Telling
  <2>3. QED
    BY <2>1, <2>2
<1>8. Records'
  BY <1>1, <1>2 DEF Inv, Records
<1>9. QED
  BY <1>4, <1>5, <1>6, <1>7, <1>8 DEF Inv

\* The steps that only mark rows of the store.
LEMMA MarkKeeps ==
  ASSUME Inv, NEW c \in Command, Supersede(c) \/ Mark(c)
  PROVE  Inv'
<1>1. /\ Return(c)
      /\ UNCHANGED <<active, ws, clock, copied, made, owner, digest, built>>
  BY DEF Supersede, Mark, disk
<1>2. PICK j \in Job : job' = [job EXCEPT ![c] = j]
  BY <1>1, ReturnFits DEF Become
<1>3. job[c].at \in {"superseding", "marking"} /\ JobFits(c)
  BY DEF Supersede, Mark, At, Inv, Jobs
<1>4. job[c].plan \in Plan
  BY <1>3, PlanAssumption DEF JobFits, Inv, TypeOK, Plan
<1>5. /\ superseded' \in [Plan -> 0 .. MaxPlan]
      /\ \A l \in Plan : superseded'[l] # 0 => superseded'[l] \in l + 1 .. made
  <2>1. CASE Mark(c)
    BY <2>1 DEF Mark, Inv, TypeOK
  <2>2. CASE Supersede(c)
    <3>1. /\ superseded' = [superseded EXCEPT ![job[c].plan] = job[c].fresh]
          /\ job[c].fresh \in job[c].plan + 1 .. made
      BY <1>3, <2>2 DEF Supersede, At, JobFits
    <3>2. job[c].fresh \in 0 .. MaxPlan
      BY <1>4, <3>1, PlanAssumption DEF Inv, TypeOK, Plan
    <3>3. QED
      BY <1>4, <3>1, <3>2 DEF Inv, TypeOK
  <2>3. QED
    BY <2>1, <2>2
<1>6. executed' \subseteq built /\ built \subseteq Plan
  <2>1. CASE Mark(c)
    BY <1>3, <2>1 DEF Mark, At, JobFits, Inv, Records, TypeOK
  <2>2. CASE Supersede(c)
    BY <2>2 DEF Supersede, Inv, Records, TypeOK
  <2>3. QED
    BY <2>1, <2>2
<1>7. TypeOK'
  BY <1>1, <1>2, <1>5, <1>6 DEF Inv, TypeOK
<1>8. Stamps' /\ Digests' /\ Records'
  BY <1>1, <1>6 DEF Inv, Stamps, Digests, Telling, Records
<1>9. Jobs'
  <2> SUFFICES ASSUME NEW d \in Command PROVE JobFits(d)'
    BY DEF Jobs
  <2>1. CASE d = c
    BY <1>1, <2>1, ReturnFits DEF JobFits
  <2>2. CASE d # c
    <3>1. job'[d] = job[d] /\ JobFits(d)
      BY <1>2, <2>2 DEF Inv, Jobs, TypeOK
    <3>2. QED
      BY <1>1, <3>1 DEF JobFits, Telling
  <2>3. QED
    BY <2>1, <2>2
<1>10. QED
  BY <1>7, <1>8, <1>9 DEF Inv

\* A build moves its workspace past every digest of the store.
LEMMA BuildKeeps ==
  ASSUME Inv, NEW c \in Command, Build(c)
  PROVE  Inv'
<1> DEFINE p == job[c].proj
           l == job[c].plan
<1>1. /\ job[c].at = "building"
      /\ clock < MaxStamp /\ clock' = clock + 1
      /\ ws' = [ws EXCEPT ![p] = clock + 1]
      /\ UNCHANGED <<active, copied, made, owner, digest, superseded, executed>>
  BY DEF Build, At, store
<1>2. /\ p \in Project /\ l \in 1 .. made
      /\ Telling(l) => owner[l] = p
      /\ job[c].kind # "none" => active \in Project
  BY <1>1 DEF Inv, Jobs, JobFits
<1>3. /\ clock \in Nat /\ clock >= Bare /\ made \in 0 .. MaxPlan
      /\ job[c] \in Job
  BY PlanAssumption DEF Inv, TypeOK, Stamp, Stamps
<1>4. PICK j \in Job :
        /\ job' = [job EXCEPT ![c] = j]
        /\ \/ j = [job[c] EXCEPT !.at = "marking"] /\ built' = built \cup {l}
           \/ j.at = "applying" /\ j.kind = "none" /\ built' = built
  <2>1. CASE Become(c, [job[c] EXCEPT !.at = "marking"]) /\ built' = built \cup {l}
    <3> DEFINE j == [job[c] EXCEPT !.at = "marking"]
    <3>1. j \in Job
      BY <1>3 DEF Job
    <3>2. QED
      BY <2>1, <3>1 DEF Become
  <2>2. CASE Return(c) /\ UNCHANGED built
    <3>1. PICK j \in Job : Become(c, j)
      BY <2>2, ReturnFits
    <3>2. job' = [job EXCEPT ![c] = j] /\ job'[c] = j
      BY <3>1 DEF Become, Inv, TypeOK
    <3>3. QED
      BY <2>2, <3>2, ReturnFits
  <2>3. QED
    BY <2>1, <2>2 DEF Build
<1>5. built' \subseteq built \cup {l} /\ built \subseteq built'
  BY <1>4
<1>6. TypeOK'
  <2>1. clock' \in Stamp /\ ws' \in [Project -> Stamp]
    BY <1>1, <1>2, <1>3, PlanAssumption DEF Inv, TypeOK, Stamp
  <2>2. built' \subseteq Plan
    BY <1>2, <1>3, <1>5, PlanAssumption DEF Inv, TypeOK, Plan
  <2>3. QED
    BY <1>1, <1>4, <2>1, <2>2 DEF Inv, TypeOK
<1>7. Stamps'
  <2>1. \A q \in Project :
          /\ ws'[q] = IF q = p THEN clock + 1 ELSE ws[q]
          /\ ws[q] \in Nat /\ ws[q] <= clock
    BY <1>1, PlanAssumption DEF Inv, TypeOK, Stamps, Stamp
  <2>2. clock' >= Bare /\ \A q \in Project : ws'[q] <= clock'
    BY <1>1, <1>3, <2>1 DEF Bare
  <2>3. ASSUME NEW q \in Project, NEW r \in Project, ws'[q] = ws'[r]
        PROVE  q = r \/ ws'[q] \in {Gone, Bare} \cup copied
    <3>1. CASE q = p \/ r = p
      BY <1>3, <2>1, <2>3, <3>1
    <3>2. CASE q # p /\ r # p
      BY <2>1, <2>3, <3>2 DEF Inv, Stamps
    <3>3. QED
      BY <3>1, <3>2
  <2>4. QED
    BY <1>1, <2>2, <2>3 DEF Stamps
<1>8. Digests'
  <2> SUFFICES ASSUME NEW m \in Plan
               PROVE  /\ digest[m] <= clock + 1
                      /\ m > made => digest[m] = Gone
                      /\ Telling(m) =>
                           /\ \A q \in Project : ws'[q] = digest[m] => q = owner[m]
                           /\ m \in built' => ws'[owner[m]] # digest[m]
    BY <1>1 DEF Digests, Telling
  <2>1. digest[m] \in Nat /\ digest[m] <= clock
    BY PlanAssumption DEF Inv, TypeOK, Digests, Stamp
  <2>2. Telling(m) => \A q \in Project : ws'[q] = digest[m] => q = owner[m]
    BY <1>1, <1>3, <2>1 DEF Inv, TypeOK, Digests
  <2>3. Telling(m) /\ m \in built' => ws'[owner[m]] # digest[m]
    <3>1. CASE owner[m] = p
      BY <1>1, <1>2, <1>3, <2>1, <3>1 DEF Inv, TypeOK
    <3>2. CASE owner[m] # p
      <4>1. m \in built' /\ Telling(m) => m \in built
        BY <1>2, <1>5, <3>2
      <4>2. m \in built => owner[m] \in Project
        BY PlanAssumption DEF Inv, TypeOK, Records, Plan
      <4>3. m \in built => ws'[owner[m]] = ws[owner[m]]
        BY <1>1, <3>2, <4>2 DEF Inv, TypeOK
      <4>4. QED
        BY <4>1, <4>3 DEF Inv, Digests
    <3>3. QED
      BY <3>1, <3>2
  <2>4. QED
    BY <1>3, <2>1, <2>2, <2>3 DEF Inv, Digests
<1>9. Jobs'
  <2> SUFFICES ASSUME NEW d \in Command PROVE JobFits(d)'
    BY DEF Jobs
  <2>1. CASE d = c
    <3>1. job'[d] = j
      BY <1>4, <2>1 DEF Inv, TypeOK
    <3>2. CASE j.at = "applying" /\ j.kind = "none"
      BY <3>1, <3>2 DEF JobFits
    <3>3. CASE j = [job[c] EXCEPT !.at = "marking"] /\ built' = built \cup {l}
      <4>1. j.at = "marking" /\ j.plan = l /\ j.proj = p /\ j.kind = job[c].kind
        BY <1>3, <3>3 DEF Job
      <4>2. QED
        BY <1>1, <1>2, <3>1, <3>3, <4>1 DEF JobFits, Telling
    <3>4. QED
      BY <1>4, <3>2, <3>3
  <2>2. CASE d # c
    <3>1. job'[d] = job[d] /\ JobFits(d)
      BY <1>4, <2>2 DEF Inv, Jobs, TypeOK
    <3>2. QED
      BY <1>1, <1>5, <3>1 DEF JobFits, Telling
  <2>3. QED
    BY <2>1, <2>2
<1>10. Records'
  BY <1>1, <1>2, <1>5 DEF Inv, Records
<1>11. QED
  BY <1>6, <1>7, <1>8, <1>9, <1>10 DEF Inv

\* The steps that choose the active project: it stays a project once it is one.
LEMMA ActiveKeeps ==
  ASSUME Inv, NEW c \in Command
  PROVE  /\ \A p \in Project : Open(c, p) => Inv'
         /\ Apply(c) => Inv'
<1>1. ASSUME UNCHANGED <<disk, store, built>>,
             active' \in Project \cup {NoProject},
             active \in Project => active' \in Project,
             NEW j \in Job, job' = [job EXCEPT ![c] = j],
             j.at \in {"idle", "opening"}, j.kind = "none"
      PROVE  Inv'
  <2>1. UNCHANGED <<ws, clock, copied, made, owner, digest, superseded, executed>>
    BY <1>1 DEF disk, store
  <2>2. TypeOK'
    BY <1>1, <2>1 DEF Inv, TypeOK
  <2>3. Stamps' /\ Digests' /\ Records'
    BY <1>1, <2>1 DEF Inv, Stamps, Digests, Telling, Records
  <2>4. ASSUME NEW d \in Command PROVE JobFits(d)'
    <3>1. CASE d = c
      BY <1>1, <3>1 DEF JobFits, Inv, TypeOK
    <3>2. CASE d # c
      <4>1. job'[d] = job[d] /\ JobFits(d)
        BY <1>1, <3>2 DEF Inv, Jobs, TypeOK
      <4>2. QED
        BY <1>1, <2>1, <4>1 DEF JobFits, Telling
    <3>3. QED
      BY <3>1, <3>2
  <2>5. QED
    BY <2>2, <2>3, <2>4 DEF Inv, Jobs
<1>2. ASSUME NEW p \in Project, Open(c, p)
      PROVE  Inv'
  <2> DEFINE j == [Idle EXCEPT !.at = "opening"]
  <2>1. j \in Job /\ j.at = "opening" /\ j.kind = "none"
    BY IdleType DEF Idle, Job
  <2>2. QED
    BY <1>1, <1>2, <2>1 DEF Open, Become
<1>3. ASSUME Apply(c)
      PROVE  Inv'
  <2>1. job[c].out \in Project \cup {NoProject}
    BY DEF Inv, TypeOK, Job
  <2>2. Idle.at = "idle" /\ Idle.kind = "none"
    BY DEF Idle
  <2>3. /\ active' \in Project \cup {NoProject}
        /\ active \in Project => active' \in Project
    BY <1>3, <2>1 DEF Apply, Inv, TypeOK
  <2>4. QED
    BY <1>1, <1>3, <2>2, <2>3, IdleType DEF Apply, Become
<1>4. QED
  BY <1>2, <1>3

\* The user's changes give a workspace a new stamp, or none.
LEMMA EditKeeps ==
  ASSUME Inv, NEW p \in Project, Edit(p)
  PROVE  Inv'
<1>1. UNCHANGED <<active, copied, made, owner, digest, superseded, executed,
                  built, job>>
  BY DEF Edit, store
<1>2. clock \in Nat /\ clock >= Bare
  BY PlanAssumption DEF Inv, TypeOK, Stamp, Stamps
<1>3. PICK t \in Stamp :
        /\ ws' = [ws EXCEPT ![p] = t]
        /\ \/ t = clock + 1 /\ clock' = clock + 1
           \/ t \in {Gone, Bare} /\ clock' = clock
  <2>1. clock < MaxStamp => clock + 1 \in Stamp
    BY <1>2, PlanAssumption DEF Stamp
  <2>2. Gone \in Stamp /\ Bare \in Stamp
    BY <1>2, PlanAssumption DEF Stamp, Gone, Bare, Inv, TypeOK
  <2>3. QED
    BY <2>1, <2>2 DEF Edit
<1>4. /\ \A q \in Project : /\ ws'[q] = IF q = p THEN t ELSE ws[q]
                            /\ ws[q] \in Nat /\ ws[q] <= clock
      /\ clock' \in Stamp /\ clock' >= clock
      /\ t \in Nat /\ t <= clock'
  <2>1. \A q \in Project : /\ ws'[q] = IF q = p THEN t ELSE ws[q]
                           /\ ws[q] \in Nat /\ ws[q] <= clock
    BY <1>3, PlanAssumption DEF Inv, TypeOK, Stamps, Stamp
  <2>2. clock' \in Stamp /\ clock' >= clock
    BY <1>2, <1>3 DEF Inv, TypeOK
  <2>3. t \in Nat /\ t <= clock'
    BY <1>2, <1>3, PlanAssumption DEF Stamp, Gone, Bare
  <2>4. QED
    BY <2>1, <2>2, <2>3
<1>5. TypeOK'
  BY <1>1, <1>3, <1>4 DEF Inv, TypeOK
<1>6. Stamps'
  <2>1. clock' >= Bare /\ \A q \in Project : ws'[q] <= clock'
    BY <1>2, <1>4, PlanAssumption DEF Stamp, Bare
  <2>2. ASSUME NEW q \in Project, NEW r \in Project, ws'[q] = ws'[r]
        PROVE  q = r \/ ws'[q] \in {Gone, Bare} \cup copied
    <3>1. CASE q = p \/ r = p
      BY <1>2, <1>3, <1>4, <2>2, <3>1
    <3>2. CASE q # p /\ r # p
      BY <1>4, <2>2, <3>2 DEF Inv, Stamps
    <3>3. QED
      BY <3>1, <3>2
  <2>3. QED
    BY <1>1, <2>1, <2>2 DEF Stamps
<1>7. Digests'
  <2> SUFFICES ASSUME NEW m \in Plan
               PROVE  /\ digest[m] <= clock'
                      /\ m > made => digest[m] = Gone
                      /\ Telling(m) =>
                           /\ \A q \in Project : ws'[q] = digest[m] => q = owner[m]
                           /\ m \in built => ws'[owner[m]] # digest[m]
    BY <1>1 DEF Digests, Telling
  <2>1. digest[m] \in Nat /\ digest[m] <= clock
    BY PlanAssumption DEF Inv, TypeOK, Digests, Stamp
  <2>2. Telling(m) => t # digest[m]
    BY <1>2, <1>3, <2>1 DEF Telling
  <2>3. m \in built => owner[m] \in Project
    BY PlanAssumption DEF Inv, TypeOK, Records, Plan
  <2>4. clock' \in Nat /\ digest[m] <= clock'
    BY <1>2, <1>4, <2>1, PlanAssumption DEF Stamp
  <2>5. QED
    BY <1>4, <2>2, <2>3, <2>4 DEF Inv, Digests
<1>8. Jobs' /\ Records'
  BY <1>1 DEF Inv, Jobs, JobFits, Telling, Records
<1>9. QED
  BY <1>5, <1>6, <1>7, <1>8 DEF Inv

\* Nothing a restart forgets is needed by what stays on disk.
LEMMA RestartKeeps ==
  ASSUME Inv, Restart
  PROVE  Inv'
<1>1. /\ active' = NoProject /\ job' = [c \in Command |-> Idle]
      /\ UNCHANGED <<ws, clock, copied, made, owner, digest, superseded,
                   executed, built>>
  BY DEF Restart, disk, store
<1>2. TypeOK'
  BY <1>1, IdleType DEF Inv, TypeOK
<1>3. Stamps' /\ Digests' /\ Records'
  BY <1>1 DEF Inv, Stamps, Digests, Telling, Records
<1>4. Jobs'
  BY <1>1 DEF Jobs, JobFits, Idle
<1>5. QED
  BY <1>2, <1>3, <1>4 DEF Inv

LEMMA NextKeeps == Inv /\ [Next]_vars => Inv'
<1> SUFFICES ASSUME Inv, [Next]_vars PROVE Inv'
  OBVIOUS
<1>1. ASSUME NEW c \in Command,
             \/ \E p \in Project : Open(c, p)
             \/ Other(c)
             \/ \E k \in {"plan", "build"} : BeginPlan(c, k)
             \/ \E ref \in Plan \cup {Latest} :
                  BeginRefresh(c, ref) \/ BeginExecute(c, ref)
             \/ Step(c)
      PROVE  Inv'
  <2>1. CASE Step(c)
    BY <2>1, BeginKeeps, CreateKeeps, MarkKeeps, CheckKeeps, BuildKeeps,
       ActiveKeeps DEF Step
  <2>2. QED
    BY <1>1, <2>1, ActiveKeeps, BeginKeeps
<1>2. ASSUME NEW p \in Project, Edit(p)
      PROVE  Inv'
  BY <1>2, EditKeeps
<1>3. CASE Restart
  BY <1>3, RestartKeeps
<1>4. CASE UNCHANGED vars
  <2>1. UNCHANGED <<active, ws, clock, copied, made, owner, digest,
                    superseded, executed, built, job>>
    BY <1>4 DEF vars, disk, store
  <2>2. QED
    BY <2>1 DEF Inv, TypeOK, Stamps, Digests, Jobs, JobFits, Records, Telling
<1>5. QED
  BY <1>1, <1>2, <1>3, <1>4 DEF Next

-----------------------------------------------------------------------------

\* The inductive invariant: what links the digests of plans, the stamps of
\* workspaces and the commands under way.
THEOREM PlanInvariant == Spec => []Inv
<1>1. Init => Inv
  BY InitInv
<1>2. Inv /\ [Next]_vars => Inv'
  BY NextKeeps
<1>3. QED
  BY <1>1, <1>2, PTL DEF Spec

\* Every reachable state has the types the store and the session declare.
THEOREM TypeCorrect == Spec => []TypeOK
<1>1. Inv => TypeOK
  BY DEF Inv
<1>2. QED
  BY <1>1, PlanInvariant, PTL

\* /execute and /build write a plan made for a workspace with files only into
\* that project's workspace, for any number of projects and threads.
THEOREM BuiltInOwnWorkspace == Spec => []OwnWorkspace
<1>1. Inv => OwnWorkspace
  BY DEF Inv, Jobs, JobFits, OwnWorkspace
<1>2. QED
  BY <1>1, PlanInvariant, PTL

\* mark_executed only ever records plans that were built completely.
THEOREM RecordedWasBuilt == Spec => []ExecutedWasBuilt
<1>1. Inv => ExecutedWasBuilt
  BY DEF Inv, Records, ExecutedWasBuilt
<1>2. QED
  BY <1>1, PlanInvariant, PTL

\* A plan that was built does not pass the staleness check of /execute again.
THEOREM NoReplay == Spec => ReplayRefused
<1> DEFINE Refused ==
      \A c \in Command :
        /\ job[c].at = "checking"
        /\ job'[c].at = "building"
        /\ Telling(job[c].plan)
        => job[c].plan \notin built
<1>1. Inv /\ [Next]_vars => [Refused]_vars
  <2> SUFFICES ASSUME Inv, Next, NEW c \in Command,
                      job[c].at = "checking", job'[c].at = "building",
                      Telling(job[c].plan), job[c].plan \in built
               PROVE  FALSE
    BY DEF vars
  <2>1. Check(c)
    <3>1. job'[c] # job[c]
      OBVIOUS
    <3>2. ~Restart
      BY DEF Restart, Idle
    <3>3. \A p \in Project : ~Edit(p)
      BY <3>1 DEF Edit
    <3>4. ASSUME NEW d \in Command, d # c, NEW j, Become(d, j)
          PROVE  FALSE
      BY <3>1, <3>4 DEF Become, Inv, TypeOK
    <3>5. QED
      BY <3>2, <3>3, <3>4 DEF Next, Step, Open, Other, BeginPlan, BeginRefresh,
         BeginExecute, FinishOpen, CreatePlan, Supersede, ExecuteBuilt, Check,
         Build, Mark, Apply, Return, At
  <2>2. ~Return(c)
    BY ReturnFits
  <2>3. digest[job[c].plan] = ws[job[c].proj]
    BY <2>1, <2>2 DEF Check, IsStale, Telling
  <2>4. job[c].plan \in Plan /\ job[c].proj \in Project
    BY PlanAssumption DEF Inv, TypeOK, Jobs, JobFits, Plan
  <2>5. QED
    BY <2>3, <2>4 DEF Inv, Digests
<1>2. Spec => [][Refused]_vars
  BY <1>1, PlanInvariant, PTL DEF Spec
<1>3. QED
  BY <1>2 DEF ReplayRefused
=============================================================================
