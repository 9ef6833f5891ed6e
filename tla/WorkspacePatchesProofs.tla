------------------------ MODULE WorkspacePatchesProofs ------------------------
(***************************************************************************)
(* What holds of patch proposals for any number of files, proposals,       *)
(* clients and user edits, and for batches of any length.                  *)
(*                                                                         *)
(* The properties rest on two facts they do not state: a proposal somebody *)
(* executes is stored, so that its files never change under the executor   *)
(* (Stored), and an executor has written every file before the one it is   *)
(* at (Filled).                                                            *)
(***************************************************************************)
EXTENDS WorkspacePatches, TLAPS

Executing == {"checking", "writing", "filling", "succeeded", "failed"}

\* An executor works on a proposal of the store.
Stored ==
  \A c \in Client :
    job[c].at \in Executing =>
      job[c].id \in Proposal /\ row[job[c].id].status # "absent"

\* An executor at a file wrote the files before it; one that reports success
\* wrote them all, and there is one.
Filled ==
  \A c \in Client :
    /\ job[c].at \in {"checking", "writing", "filling"}
         => 1 .. (job[c].next - 1) \subseteq job[c].filled
    /\ job[c].at = "succeeded"
         => /\ payload[job[c].id] # <<>>
            /\ DOMAIN payload[job[c].id] \subseteq job[c].filled

Inv == TypeOK /\ Stored /\ Filled /\ ComparedBeforeWrite

LEMMA IdleType == Idle \in Job
<1>1. 1 \in 1 .. MaxItems + 1
  BY PatchAssumption
<1>2. [f \in File |-> Missing] \in [File -> Content]
  BY DEF Content
<1>3. QED
  BY <1>1, <1>2 DEF Idle, Job

LEMMA InitInv == Init => Inv
<1> SUFFICES ASSUME Init PROVE Inv
  OBVIOUS
<1>1. \A c \in Client : job[c] = Idle
  BY DEF Init
<1>2. \A c \in Client : job[c].at = "idle"
  BY <1>1 DEF Idle
<1>3. payload \in [Proposal -> Seq(Item)] /\ \A p \in Proposal : payload[p] = <<>>
  BY DEF Init
<1>4. row \in [Proposal -> Row] /\ \A p \in Proposal : row[p].mark = "none"
  BY DEF Init, Row
<1>5. TypeOK
  BY <1>2, <1>3, <1>4, IdleType, PatchAssumption DEF Init, TypeOK
<1>6. Stored /\ Filled /\ ComparedBeforeWrite
  BY <1>2 DEF Stored, Filled, ComparedBeforeWrite, At, Executing
<1>7. QED
  BY <1>5, <1>6 DEF Inv

\* A step of one client that writes no file and no row.
LEMMA OnlyJob ==
  ASSUME Inv, NEW c \in Client, NEW j \in Job, Become(c, j),
         UNCHANGED <<content, row, payload, edits>>,
         touched' \in [Client -> SUBSET File],
         \A d \in Client \ {c} : touched'[d] = touched[d],
         j.at \in Executing => j.id \in Proposal /\ row[j.id].status # "absent",
         j.at \in {"checking", "writing", "filling"}
           => j.next <= Len(payload[j.id]),
         j.at # "succeeded",
         j.at \in {"checking", "writing", "filling"}
           => 1 .. (j.next - 1) \subseteq j.filled,
         j.at = "writing" => Unchanged(payload[j.id][j.next])
  PROVE  Inv'
<1>1. job' \in [Client -> Job] /\ job'[c] = j
      /\ \A d \in Client \ {c} : job'[d] = job[d]
  BY DEF Inv, TypeOK, Become
<1>2. TypeOK'
  BY <1>1 DEF Inv, TypeOK
<1>3. Stored' /\ Filled'
  BY <1>1 DEF Inv, Stored, Filled
<1>4. ComparedBeforeWrite'
  BY <1>1 DEF Inv, ComparedBeforeWrite, At, Current, Unchanged
<1>5. QED
  BY <1>2, <1>3, <1>4 DEF Inv

\* The steps of a client that touch no file: it begins, checks or dies.
LEMMA BeginKeeps ==
  ASSUME Inv, NEW c \in Client
  PROVE  /\ BeginPropose(c) \/ Crash(c) => Inv'
         /\ \A p \in Proposal : BeginExecute(c, p) => Inv'
<1> USE DEF Executing
<1>1. CASE BeginPropose(c)
  <2> DEFINE j == [Idle EXCEPT !.at = "generating", !.read = content]
  <2>1. j \in Job
    BY IdleType DEF Inv, TypeOK, Job
  <2>2. j.at = "generating"
    BY DEF Idle
  <2>3. QED
    BY <1>1, <2>1, <2>2, OnlyJob DEF BeginPropose, Inv, TypeOK
<1>2. CASE Crash(c)
  <2> DEFINE j == [Idle EXCEPT !.at = "dead"]
  <2>1. j \in Job
    BY IdleType DEF Job
  <2>2. j.at = "dead"
    BY DEF Idle
  <2>3. QED
    BY <1>2, <2>1, <2>2, OnlyJob DEF Crash, Inv, TypeOK
<1>3. ASSUME NEW p \in Proposal, BeginExecute(c, p)
      PROVE  Inv'
  <2> DEFINE j == [Idle EXCEPT !.id = p,
                     !.at = IF payload[p] = <<>> THEN "failed" ELSE "checking"]
  <2>1. j \in Job
    BY IdleType DEF Job
  <2>2. j.id = p /\ j.next = 1 /\ 1 .. (j.next - 1) = {}
    BY DEF Idle
  <2>3. j.at = IF payload[p] = <<>> THEN "failed" ELSE "checking"
    BY DEF Idle
  <2>4. payload[p] # <<>> => 1 <= Len(payload[p])
    BY DEF Inv, TypeOK
  <2>5. row[p].status # "absent"
    BY <1>3 DEF BeginExecute
  <2>6. /\ Become(c, j) /\ touched' = touched
        /\ UNCHANGED <<content, row, payload, edits>>
    BY <1>3 DEF BeginExecute
  <2>7. touched' \in [Client -> SUBSET File]
    BY <2>6 DEF Inv, TypeOK
  <2> HIDE DEF j
  <2>8. QED
    BY <2>1, <2>2, <2>3, <2>4, <2>5, <2>6, <2>7, OnlyJob
<1>4. QED
  BY <1>1, <1>2, <1>3

LEMMA CheckKeeps ==
  ASSUME Inv, NEW c \in Client, CheckFile(c)
  PROVE  Inv'
<1>1. job[c] \in Job /\ job[c].at = "checking"
  BY DEF CheckFile, At, Inv, TypeOK
<1>2. PICK l \in {"writing", "failed"} :
        /\ Become(c, [job[c] EXCEPT !.at = l])
        /\ l = "writing" => Unchanged(Current(c))
  <2>1. CASE Unchanged(Current(c))
    BY <2>1 DEF CheckFile, GoTo
  <2>2. CASE ~Unchanged(Current(c))
    BY <2>2 DEF CheckFile, GoTo
  <2>3. QED
    BY <2>1, <2>2
<1> DEFINE j == [job[c] EXCEPT !.at = l]
<1>3. /\ j \in Job /\ j.at = l /\ j.id = job[c].id /\ j.next = job[c].next
      /\ j.filled = job[c].filled
  BY <1>1 DEF Job
<1>4. /\ job[c].id \in Proposal /\ row[job[c].id].status # "absent"
      /\ job[c].next <= Len(payload[job[c].id])
      /\ 1 .. (job[c].next - 1) \subseteq job[c].filled
  BY <1>1 DEF Inv, TypeOK, Stored, Filled, Executing
<1>5. /\ touched' \in [Client -> SUBSET File]
      /\ \A d \in Client \ {c} : touched'[d] = touched[d]
  BY DEF CheckFile, Inv, TypeOK
<1>6. l = "writing" => Unchanged(payload[j.id][j.next])
  BY <1>2, <1>3 DEF Current
<1>7. UNCHANGED <<content, row, payload, edits>>
  BY DEF CheckFile
<1> HIDE DEF j
<1>8. QED
  BY <1>2, <1>3, <1>4, <1>5, <1>6, <1>7, OnlyJob DEF j

\* The file an executor is at is one of its proposal.
LEMMA CurrentType ==
  ASSUME Inv, NEW c \in Client,
         job[c].at \in {"checking", "writing", "filling"}
  PROVE  /\ job[c] \in Job
         /\ job[c].id \in Proposal /\ row[job[c].id].status # "absent"
         /\ job[c].next \in 1 .. Len(payload[job[c].id])
         /\ Len(payload[job[c].id]) <= MaxItems
         /\ Current(c) \in Item
<1>1. job[c] \in Job /\ job[c].id \in Proposal /\ row[job[c].id].status # "absent"
  BY DEF Inv, TypeOK, Stored, Executing
<1>2. payload[job[c].id] \in Seq(Item) /\ Len(payload[job[c].id]) <= MaxItems
  BY <1>1 DEF Inv, TypeOK
<1>3. job[c].next \in 1 .. Len(payload[job[c].id])
  <2>1. job[c].next \in 1 .. MaxItems + 1
    BY <1>1 DEF Job
  <2>2. job[c].next <= Len(payload[job[c].id])
    BY DEF Inv, TypeOK
  <2>3. Len(payload[job[c].id]) \in Nat
    BY <1>2
  <2>4. QED
    BY <2>1, <2>2, <2>3, PatchAssumption
<1>4. payload[job[c].id][job[c].next] \in Item
  BY <1>2, <1>3
<1>5. QED
  BY <1>1, <1>2, <1>3, <1>4 DEF Current

\* When a file changes, every client that compared it before is noted.
LEMMA ChangeNoted ==
  ASSUME Inv, NEW f \in File, NEW t \in Content, Change(f, t),
         UNCHANGED payload
  PROVE  /\ content' \in [File -> Content]
         /\ touched' \in [Client -> SUBSET File]
         /\ \A c \in Client :
              At(c, "writing") /\ job'[c] = job[c]
                => Unchanged(Current(c))' \/ Current(c)'.path \in touched'[c]
<1>1. content' \in [File -> Content] /\ touched' \in [Client -> SUBSET File]
  BY DEF Change, Inv, TypeOK
<1>2. ASSUME NEW c \in Client, At(c, "writing"), job'[c] = job[c]
      PROVE  Unchanged(Current(c))' \/ Current(c)'.path \in touched'[c]
  <2>1. Current(c)' = Current(c)
    BY <1>2 DEF Current
  <2>2. touched'[c] = touched[c] \cup {f}
    BY DEF Change
  <2>3. CASE Current(c).path = f \/ Current(c).path \in touched[c]
    BY <2>1, <2>2, <2>3
  <2>4. CASE Current(c).path # f /\ Unchanged(Current(c))
    <3>1. Current(c) \in Item
      BY <1>2, CurrentType DEF At
    <3>2. content'[Current(c).path] = content[Current(c).path]
      BY <2>4, <3>1 DEF Change, Inv, TypeOK, Item
    <3>3. QED
      BY <2>1, <2>4, <3>2 DEF Unchanged
  <2>5. QED
    BY <1>2, <2>3, <2>4 DEF Inv, ComparedBeforeWrite
<1>3. QED
  BY <1>1, <1>2

LEMMA EditKeeps ==
  ASSUME Inv, NEW f \in File, NEW t \in Content, Edit(f, t)
  PROVE  Inv'
<1>1. Change(f, t) /\ UNCHANGED <<row, payload, job>>
  BY DEF Edit
<1>2. edits' \in 0 .. MaxEdit
  BY PatchAssumption DEF Edit, Inv, TypeOK
<1>3. TypeOK'
  BY <1>1, <1>2, ChangeNoted DEF Inv, TypeOK
<1>4. Stored' /\ Filled'
  BY <1>1 DEF Inv, Stored, Filled
<1>5. ComparedBeforeWrite'
  BY <1>1, ChangeNoted DEF ComparedBeforeWrite, At
<1>6. QED
  BY <1>3, <1>4, <1>5 DEF Inv

\* A step of an executor that changes a file.
LEMMA WriteKeeps ==
  ASSUME Inv, NEW c \in Client, NEW j \in Job, Become(c, j),
         NEW f \in File, NEW t \in Content, Change(f, t),
         UNCHANGED <<row, payload, edits>>,
         j.at \in {"filling", "checking", "succeeded"},
         j.id \in Proposal, row[j.id].status # "absent",
         j.at # "succeeded" => j.next <= Len(payload[j.id]),
         j.at # "succeeded" => 1 .. (j.next - 1) \subseteq j.filled,
         j.at = "succeeded" => /\ payload[j.id] # <<>>
                               /\ DOMAIN payload[j.id] \subseteq j.filled
  PROVE  Inv'
<1>1. job' \in [Client -> Job] /\ job'[c] = j
      /\ \A d \in Client \ {c} : job'[d] = job[d]
  BY DEF Inv, TypeOK, Become
<1>2. TypeOK'
  BY <1>1, ChangeNoted DEF Inv, TypeOK
<1>3. Stored' /\ Filled'
  BY <1>1 DEF Inv, Stored, Filled
<1>4. ComparedBeforeWrite'
  BY <1>1, ChangeNoted DEF ComparedBeforeWrite, At
<1>5. QED
  BY <1>2, <1>3, <1>4 DEF Inv

\* An executor that halts is going to record an error.
LEMMA HaltKeeps ==
  ASSUME Inv, NEW c \in Client, job[c].at \in {"writing", "filling"},
         GoTo(c, "failed"),
         UNCHANGED <<content, row, payload, edits, touched>>
  PROVE  Inv'
<1> DEFINE j == [job[c] EXCEPT !.at = "failed"]
<1>1. j \in Job /\ j.at = "failed" /\ j.id = job[c].id
  BY CurrentType DEF Job
<1>2. Become(c, j)
  BY DEF GoTo
<1>3. touched' \in [Client -> SUBSET File]
  BY DEF Inv, TypeOK
<1> HIDE DEF j
<1>4. QED
  BY <1>1, <1>2, <1>3, CurrentType, OnlyJob

LEMMA OpenKeeps ==
  ASSUME Inv, NEW c \in Client, OpenFile(c)
  PROVE  Inv'
<1>1. job[c].at = "writing" /\ UNCHANGED <<row, payload, edits>>
  BY DEF OpenFile, At
<1>2. CASE Change(Current(c).path, Empty) /\ GoTo(c, "filling")
  <2> DEFINE j == [job[c] EXCEPT !.at = "filling"]
  <2>1. /\ j \in Job /\ j.at = "filling" /\ j.id = job[c].id
        /\ j.next = job[c].next /\ j.filled = job[c].filled
    BY <1>1, CurrentType DEF Job
  <2>2. Become(c, j)
    BY <1>2 DEF GoTo
  <2>3. Current(c).path \in File /\ Empty \in Content
    BY <1>1, CurrentType, PatchAssumption DEF Item, Content
  <2>4. 1 .. (j.next - 1) \subseteq j.filled
    BY <1>1, <2>1 DEF Inv, Filled
  <2>5. /\ j.id \in Proposal /\ row[j.id].status # "absent"
        /\ j.next <= Len(payload[j.id])
    BY <1>1, <2>1, CurrentType
  <2> HIDE DEF j
  <2>6. QED
    BY <1>1, <1>2, <2>1, <2>2, <2>3, <2>4, <2>5, WriteKeeps
<1>3. CASE GoTo(c, "failed") /\ UNCHANGED <<content, touched>>
  BY <1>1, <1>3, HaltKeeps
<1>4. QED
  BY <1>2, <1>3 DEF OpenFile

LEMMA FillKeeps ==
  ASSUME Inv, NEW c \in Client, FillFile(c)
  PROVE  Inv'
<1> DEFINE id == job[c].id
           last == job[c].next = Len(payload[id])
<1>1. job[c].at = "filling" /\ UNCHANGED <<row, payload, edits>>
  BY DEF FillFile, At
<1>2. CASE /\ Change(Current(c).path, Current(c).new)
           /\ Become(c, [job[c] EXCEPT
                          !.at = IF last THEN "succeeded" ELSE "checking",
                          !.next = @ + 1,
                          !.filled = @ \cup {job[c].next}])
  <2> DEFINE j == [job[c] EXCEPT
                    !.at = IF last THEN "succeeded" ELSE "checking",
                    !.next = @ + 1,
                    !.filled = @ \cup {job[c].next}]
  <2>1. /\ job[c].next + 1 \in 1 .. MaxItems + 1
        /\ job[c].filled \cup {job[c].next} \in SUBSET (1 .. MaxItems)
    BY <1>1, CurrentType, PatchAssumption DEF Inv, TypeOK, Job
  <2>2. j \in Job
    BY <1>1, <2>1, CurrentType DEF Job
  <2>3. /\ j.at = IF last THEN "succeeded" ELSE "checking"
        /\ j.id = id /\ j.next = job[c].next + 1
        /\ j.filled = job[c].filled \cup {job[c].next}
    BY <1>1, CurrentType DEF Job
  <2>4. Become(c, j)
    BY <1>2
  <2>5. Current(c).path \in File /\ Current(c).new \in Content
    BY <1>1, CurrentType DEF Item, Content
  <2>6. id \in Proposal /\ row[id].status # "absent"
    BY <1>1, CurrentType
  <2>7. 1 .. job[c].next \subseteq job[c].filled \cup {job[c].next}
    <3>1. 1 .. (job[c].next - 1) \subseteq job[c].filled
      BY <1>1 DEF Inv, Filled
    <3>2. QED
      BY <1>1, <3>1, CurrentType
  <2>8. ~last => job[c].next + 1 <= Len(payload[id])
    BY <1>1, CurrentType DEF Inv, TypeOK
  <2>9. /\ ~last => 1 .. (j.next - 1) \subseteq j.filled
        /\ last => /\ payload[id] # <<>>
                   /\ DOMAIN payload[id] \subseteq j.filled
    <3>1. payload[id] \in Seq(Item) /\ DOMAIN payload[id] = 1 .. Len(payload[id])
      BY <2>6 DEF Inv, TypeOK
    <3>2. job[c].next \in 1 .. Len(payload[id]) /\ j.next - 1 = job[c].next
      BY <1>1, <2>3, CurrentType
    <3> HIDE DEF j
    <3>3. QED
      BY <2>3, <2>7, <3>1, <3>2
  <2> HIDE DEF j, last
  <2>10. QED
    BY <1>1, <1>2, <2>2, <2>3, <2>4, <2>5, <2>6, <2>8, <2>9, WriteKeeps
<1>3. CASE GoTo(c, "failed") /\ UNCHANGED <<content, touched>>
  BY <1>1, <1>3, HaltKeeps
<1>4. QED
  BY <1>2, <1>3 DEF FillFile

\* A change of one row, to a status a proposal of the store can have.
LEMMA RowKeeps ==
  ASSUME Inv, NEW p \in Proposal, NEW r \in Row,
         row' = [row EXCEPT ![p] = r],
         UNCHANGED <<content, edits, touched>>,
         r.status # "absent",
         r.mark # "none" => r.status = "approved",
         job' \in [Client -> Job],
         \A c \in Client : \/ job'[c] = job[c]
                           \/ job'[c].at \in {"idle", "generating"},
         payload' \in [Proposal -> Seq(Item)],
         Len(payload'[p]) <= MaxItems,
         \A q \in Proposal \ {p} : payload'[q] = payload[q],
         row[p].status # "absent" => payload'[p] = payload[p]
  PROVE  Inv'
<1>1. TypeOK'
  <2>1. \A q \in Proposal : row'[q] = IF q = p THEN r ELSE row[q]
    BY DEF Inv, TypeOK
  <2>2. \A c \in Client :
          job'[c].at \in {"checking", "writing", "filling"}
            => job'[c].next <= Len(payload'[job'[c].id])
    <3> SUFFICES ASSUME NEW c \in Client, job'[c] = job[c],
                        job[c].at \in {"checking", "writing", "filling"}
                 PROVE  job[c].next <= Len(payload'[job[c].id])
      OBVIOUS
    <3>1. payload'[job[c].id] = payload[job[c].id]
      BY CurrentType
    <3>2. QED
      BY <3>1 DEF Inv, TypeOK
  <2>3. QED
    BY <2>1, <2>2 DEF Inv, TypeOK
<1>2. Stored'
  BY DEF Inv, TypeOK, Stored, Executing
<1>3. Filled'
  <2> SUFFICES ASSUME NEW c \in Client, job'[c] = job[c],
                      job[c].at \in Executing
               PROVE  payload'[job[c].id] = payload[job[c].id]
    BY DEF Inv, Filled, Executing
  <2>1. QED
    BY DEF Inv, Stored
<1>4. ComparedBeforeWrite'
  <2> SUFFICES ASSUME NEW c \in Client, job'[c] = job[c], job[c].at = "writing"
               PROVE  Unchanged(Current(c))' \/ Current(c)'.path \in touched'[c]
    BY DEF ComparedBeforeWrite, At
  <2>1. payload'[job[c].id] = payload[job[c].id]
    BY CurrentType
  <2>2. QED
    BY <2>1 DEF Inv, ComparedBeforeWrite, At, Current, Unchanged
<1>5. QED
  BY <1>1, <1>2, <1>3, <1>4 DEF Inv

LEMMA RecordKeeps ==
  ASSUME Inv, NEW c \in Client, Record(c)
  PROVE  Inv'
<1> DEFINE id == job[c].id
<1>1. /\ job[c].at \in {"succeeded", "failed"}
      /\ job' = [job EXCEPT ![c] = Idle]
      /\ UNCHANGED <<content, payload, edits, touched>>
  BY DEF Record, Become
<1>2. id \in Proposal /\ row[id] \in Row /\ row[id].status # "absent"
  BY <1>1 DEF Inv, TypeOK, Stored, Executing
<1>3. PICK r \in Row :
        /\ row' = [row EXCEPT ![id] = r]
        /\ r.status # "absent"
        /\ r.mark # "none" => r.status = "approved"
  <2>1. CASE row[id].status # "pending"
    <3>1. row' = [row EXCEPT ![id] = row[id]]
      BY <2>1 DEF Record, Inv, TypeOK
    <3>2. QED
      BY <1>2, <3>1 DEF Inv, TypeOK
  <2>2. CASE row[id].status = "pending" /\ job[c].at = "succeeded"
    <3> DEFINE r == [status |-> "approved", mark |-> "ok"]
    <3>1. r \in Row /\ r.status = "approved"
      BY DEF Row
    <3>2. row' = [row EXCEPT ![id] = r]
      BY <2>2 DEF Record, At
    <3>3. QED
      BY <3>1, <3>2
  <2>3. CASE row[id].status = "pending" /\ job[c].at = "failed"
    <3> DEFINE r == [status |-> "approved", mark |-> "error"]
    <3>1. r \in Row /\ r.status = "approved" /\ r.mark = "error"
      BY DEF Row
    <3>2. row' = [row EXCEPT ![id] = r]
      BY <2>3 DEF Record, At
    <3>3. QED
      BY <3>1, <3>2
  <2>4. QED
    BY <1>1, <2>1, <2>2, <2>3
<1>4. /\ job' \in [Client -> Job]
      /\ \A d \in Client : job'[d] = job[d] \/ job'[d].at = "idle"
  <2>1. Idle.at = "idle"
    BY DEF Idle
  <2>2. QED
    BY <1>1, <2>1, IdleType DEF Inv, TypeOK
<1>5. /\ payload' \in [Proposal -> Seq(Item)]
      /\ Len(payload'[id]) <= MaxItems
    BY <1>1, <1>2 DEF Inv, TypeOK
<1> HIDE DEF id
<1>6. QED
  BY <1>1, <1>2, <1>3, <1>4, <1>5, RowKeeps

LEMMA ProposeKeeps ==
  ASSUME Inv, NEW c \in Client, NEW p \in Proposal, FinishPropose(c, p)
  PROVE  Inv'
<1>1. job' = [job EXCEPT ![c] = Idle] /\ job[c].at = "generating"
      /\ UNCHANGED <<content, edits, touched>>
  BY DEF FinishPropose, Become, At
<1>2. CASE UNCHANGED <<row, payload>>
  <2>1. Idle.at = "idle"
    BY DEF Idle
  <2>2. touched' \in [Client -> SUBSET File]
    BY <1>1 DEF Inv, TypeOK
  <2>3. Become(c, Idle)
    BY <1>1 DEF Become
  <2>4. QED
    BY <1>1, <1>2, <2>1, <2>2, <2>3, IdleType, OnlyJob DEF Executing
<1>3. CASE /\ row[p].status = "absent"
           /\ \E n \in 1 .. MaxItems :
                \E s \in [1 .. n -> Answer(job[c].read)] :
                  payload' = [payload EXCEPT ![p] = s]
           /\ row' = [row EXCEPT ![p].status = "pending"]
  <2>0. PICK n \in 1 .. MaxItems :
          \E s \in [1 .. n -> Answer(job[c].read)] :
            payload' = [payload EXCEPT ![p] = s]
    BY <1>3
  <2>1. PICK s \in [1 .. n -> Answer(job[c].read)] :
          payload' = [payload EXCEPT ![p] = s]
    BY <2>0
  <2>2. s \in Seq(Item) /\ Len(s) = n
    BY <2>1, PatchAssumption DEF Answer
  <2>3. /\ payload' \in [Proposal -> Seq(Item)]
        /\ Len(payload'[p]) <= MaxItems
        /\ \A q \in Proposal \ {p} : payload'[q] = payload[q]
    BY <2>1, <2>2, PatchAssumption DEF Inv, TypeOK
  <2> DEFINE r == [row[p] EXCEPT !.status = "pending"]
  <2>4. r \in Row /\ r.status = "pending" /\ r.mark = row[p].mark
    BY DEF Inv, TypeOK, Row
  <2>5. r.mark = "none"
    BY <1>3, <2>4 DEF Inv, TypeOK
  <2>6. row' = [row EXCEPT ![p] = r]
    BY <1>3 DEF Inv, TypeOK
  <2>7. /\ job' \in [Client -> Job]
        /\ \A d \in Client : job'[d] = job[d] \/ job'[d].at = "idle"
    <3>1. Idle.at = "idle"
      BY DEF Idle
    <3>2. QED
      BY <1>1, <3>1, IdleType DEF Inv, TypeOK
  <2> HIDE DEF r
  <2>8. QED
    BY <1>1, <1>3, <2>3, <2>4, <2>5, <2>6, <2>7, RowKeeps
<1>4. QED
  BY <1>2, <1>3 DEF FinishPropose

LEMMA DecideKeeps ==
  ASSUME Inv, NEW p \in Proposal,
         QueueTask(p) \/ \E s \in {"approved", "rejected"} : Decide(p, s)
  PROVE  Inv'
<1>1. /\ row[p].status \in {"absent", "pending"}
      /\ UNCHANGED <<content, payload, job, edits, touched>>
  BY DEF QueueTask, Decide
<1>2. PICK s \in {"pending", "approved", "rejected"} :
        row' = [row EXCEPT ![p].status = s]
  BY DEF QueueTask, Decide
<1> DEFINE r == [row[p] EXCEPT !.status = s]
<1>3. r \in Row /\ r.status = s /\ r.mark = row[p].mark
  BY DEF Inv, TypeOK, Row
<1>4. r.mark = "none"
  BY <1>1, <1>3 DEF Inv, TypeOK
<1>5. row' = [row EXCEPT ![p] = r]
  BY <1>2 DEF Inv, TypeOK
<1>6. job' \in [Client -> Job] /\ payload' \in [Proposal -> Seq(Item)]
      /\ Len(payload'[p]) <= MaxItems
  BY <1>1 DEF Inv, TypeOK
<1> HIDE DEF r
<1>7. QED
  BY <1>1, <1>3, <1>4, <1>5, <1>6, RowKeeps

LEMMA NextKeeps == Inv /\ [Next]_vars => Inv'
<1> SUFFICES ASSUME Inv, [Next]_vars PROVE Inv'
  OBVIOUS
<1>1. ASSUME NEW c \in Client,
             \/ BeginPropose(c)
             \/ \E p \in Proposal : FinishPropose(c, p) \/ BeginExecute(c, p)
             \/ Execute(c)
             \/ Crash(c)
      PROVE  Inv'
  <2>1. CASE Execute(c)
    BY <2>1, CheckKeeps, OpenKeeps, FillKeeps, RecordKeeps DEF Execute
  <2>2. QED
    BY <1>1, <2>1, BeginKeeps, ProposeKeeps
<1>2. CASE \E p \in Proposal :
             QueueTask(p) \/ \E s \in {"approved", "rejected"} : Decide(p, s)
  BY <1>2, DecideKeeps
<1>3. CASE \E f \in File, t \in Content : Edit(f, t)
  BY <1>3, EditKeeps
<1>4. CASE UNCHANGED vars
  BY <1>4 DEF vars, Inv, TypeOK, Stored, Filled, ComparedBeforeWrite, At, Current, Unchanged
<1>5. QED
  BY <1>1, <1>2, <1>3, <1>4 DEF Next

-----------------------------------------------------------------------------

\* The inductive invariant of proposals, executors and files.
THEOREM PatchInvariant == Spec => []Inv
<1>1. Init => Inv
  BY InitInv
<1>2. Inv /\ [Next]_vars => Inv'
  BY NextKeeps
<1>3. QED
  BY <1>1, <1>2, PTL DEF Spec

\* Rows, payloads and executors always have the types the code gives them; an
\* executor never indexes past the files of its batch.
THEOREM TypeCorrect == Spec => []TypeOK
<1>1. Inv => TypeOK
  BY DEF Inv
<1>2. QED
  BY <1>1, PatchInvariant, PTL

\* execute_proposal records "executed:ok" only after it wrote every file itself.
THEOREM OkIsWritten == Spec => OkMeansWritten
<1> DEFINE Wrote(p) ==
             \E c \in Client :
               /\ job[c].id = p /\ job'[c] = Idle
               /\ payload[p] # <<>> /\ DOMAIN payload[p] \subseteq job[c].filled
           OkWritten ==
             \A p \in Proposal :
               row'[p].mark = "ok" /\ row[p].mark # "ok" => Wrote(p)
<1>1. Inv /\ [Next]_vars => [OkWritten]_vars
  <2> SUFFICES ASSUME Inv, Next, NEW p \in Proposal,
                      row'[p].mark = "ok", row[p].mark # "ok"
               PROVE  Wrote(p)
    BY DEF vars
  <2>1. PICK c \in Client : Record(c)
    <3>1. CASE \E q \in Proposal : \E s \in {"pending", "approved", "rejected"} :
                 row' = [row EXCEPT ![q].status = s]
      BY <3>1 DEF Inv, TypeOK, Row
    <3>2. CASE row' = row
      BY <3>2
    <3>3. QED
      BY <3>1, <3>2 DEF Next, Execute, BeginPropose, FinishPropose, BeginExecute,
         CheckFile, OpenFile, FillFile, Crash, QueueTask, Decide, Edit
  <2>2. job[c].id \in Proposal /\ job'[c] = Idle
    BY <2>1 DEF Record, Become, Inv, TypeOK, Stored, Executing
  <2>3. job[c].id = p /\ At(c, "succeeded")
    BY <2>1, <2>2 DEF Record, Inv, TypeOK
  <2>4. QED
    BY <2>2, <2>3 DEF Inv, Filled, At
<1>2. Spec => [][OkWritten]_vars
  BY <1>1, PatchInvariant, PTL DEF Spec
<1>3. QED
  BY <1>2 DEF OkMeansWritten

\* _apply_patch overwrites another text than the one the proposal was made from
\* only when the file changed after its comparison.
THEOREM Compared == Spec => []ComparedBeforeWrite
<1>1. Inv => ComparedBeforeWrite
  BY DEF Inv
<1>2. QED
  BY <1>1, PatchInvariant, PTL

\* decide and execute_proposal never change a decision or a marker.
THEOREM DecisionsStand == Spec => DecisionStands
<1> DEFINE Stands ==
      \A p \in Proposal : row[p].status \in Decided => row'[p] = row[p]
<1>1. Inv /\ [Next]_vars => [Stands]_vars
  <2> SUFFICES ASSUME Inv, Next, NEW p \in Proposal, row[p].status \in Decided
               PROVE  row'[p] = row[p]
    BY DEF vars
  <2>1. ASSUME NEW c \in Client, Record(c)
        PROVE  row'[p] = row[p]
    <3>1. job[c].id \in Proposal
      BY <2>1 DEF Record, Inv, Stored, Executing
    <3>2. QED
      BY <2>1, <3>1 DEF Record, Decided, Inv, TypeOK
  <2>2. ASSUME NEW q \in Proposal, NEW s \in {"pending", "approved", "rejected"},
               row[q].status \in {"absent", "pending"},
               row' = [row EXCEPT ![q].status = s]
        PROVE  row'[p] = row[p]
    BY <2>2 DEF Decided, Inv, TypeOK
  <2>3. QED
    BY <2>1, <2>2 DEF Next, Execute, BeginPropose, FinishPropose, BeginExecute,
       CheckFile, OpenFile, FillFile, Crash, QueueTask, Decide, Edit
<1>2. Spec => [][Stands]_vars
  BY <1>1, PatchInvariant, PTL DEF Spec
<1>3. QED
  BY <1>2 DEF DecisionStands
=============================================================================
