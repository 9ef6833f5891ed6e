----------------------- MODULE ExternalRequestsProofs -----------------------
(***************************************************************************)
(* Proofs about ExternalRequests, for any requests, providers, references  *)
(* and callers.  PatchAgrees is not inductive: a caller about to merge must *)
(* still find the outcome it moved the row to (MergeAgrees), which holds   *)
(* because a closed row never changes its status.  NotesFormPath needs that *)
(* every noted transition started further back than the row is now.        *)
(***************************************************************************)
EXTENDS ExternalRequests, TLAPS

\* A caller about to merge its patch finds the status it asked for.
MergeAgrees ==
  \A c \in Caller : pc[c] = "merge" => status[call[c].request] = call[c].target

\* A noted transition started at an earlier stage than the present one.
NotesBehind ==
  \A r \in Request : \A n \in result[r] \cap (Status \X Status) :
    Rank[n[1]] < Rank[status[r]]

\* A completion time is set exactly on closed rows.
CompletedIffClosed ==
  \A r \in Request : completed[r] <=> status[r] \in TerminalStatus

\* A row without a status has nothing else.
AbsentIsBlank ==
  \A r \in Request : status[r] = "absent" => ref[r] = NoRef /\ result[r] = {}

\* What the rows alone satisfy, and what relates them to the callers.
RowType ==
  /\ status \in [Request -> Status \cup {"absent"}]
  /\ ref \in [Request -> Ref \cup {NoRef}]
  /\ completed \in [Request -> BOOLEAN]
  /\ result \in [Request -> SUBSET Fact]
  /\ says \in [Request -> [PatchKey -> Caller \cup Word \cup {Nothing}]]

RowInv ==
  /\ PatchAgrees
  /\ NotesBehind
  /\ NotesFormPath
  /\ CompletedIffClosed
  /\ AbsentIsBlank
  /\ UniqueRef

RequestInv == TypeOK /\ MergeAgrees /\ RowInv

\* A closed row keeps its status in the next state.
ClosedStays ==
  \A r \in Request : status[r] \in TerminalStatus => status'[r] = status[r]

-----------------------------------------------------------------------------

\* Every transition of the table goes forward, from an open status.
LEMMA MovesForward ==
  ASSUME NEW s \in Status \cup {"absent"}, NEW t, MayBecome(s, t)
  PROVE  /\ s \in OpenStatus
         /\ t \in Status
         /\ Rank[s] < Rank[t]
         /\ s # t
  BY DEF MayBecome, Transitions, OpenStatus, TerminalStatus, Status, Rank, Stage

LEMMA RankType ==
  /\ Rank \in [Status \cup {"absent"} -> 0 .. 5]
  /\ \A s \in Status \cup {"absent"} : Rank[s] = 0 <=> s = "absent"
  /\ \A s \in Status \cup {"absent"} : Rank[s] = 5 <=> s \in TerminalStatus
  BY DEF Rank, Stage, Status, OpenStatus, TerminalStatus

LEMMA FactShape ==
  /\ \A t \in TerminalStatus \cup {"provider"} : Patch(t) \in Fact
  /\ \A a, b \in Status : Note(a, b) \in Fact
  /\ \A t \in TerminalStatus \cup {"provider"} :
       Patch(t) \notin Status \X Status
  /\ \A a, b \in Status, t \in TerminalStatus : Note(a, b) # Patch(t)
  /\ \A t \in TerminalStatus : Patch(t) # Patch("provider")
  /\ \A t, u \in TerminalStatus : Patch(t) = Patch(u) => t = u
  BY DEF Fact, PatchKey, Patch, Note, Status, OpenStatus, TerminalStatus

LEMMA InitInv == Init => RequestInv
<1> SUFFICES ASSUME Init
             PROVE  RequestInv
  OBVIOUS
<1> USE RequestAssumption DEF Init
<1>1. TypeOK
  BY DEF TypeOK, Location
<1>2. MergeAgrees
  BY DEF MergeAgrees
<1>3. RowInv
  BY DEF RowInv, PatchAgrees, NotesBehind, NotesFormPath,
         CompletedIffClosed, AbsentIsBlank, UniqueRef, TerminalStatus
<1>4. QED
  BY <1>1, <1>2, <1>3 DEF RequestInv

\* Moving a row keeps the rows consistent.
LEMMA MoveKeepsRows ==
  ASSUME RowType, RowInv,
         NEW r \in Request, NEW t \in Status, NEW noted \in BOOLEAN,
         NEW f \in Ref \cup {NoRef}, Move(r, t, noted, f)
  PROVE  /\ RowType'
         /\ RowInv'
         /\ ClosedStays
         /\ status'[r] = t
<1> DEFINE final == IF ref[r] = NoRef THEN f ELSE ref[r]
           new == IF noted THEN result[r] \cup {Note(status[r], t)}
                  ELSE result[r]
<1> USE DEF RowType
<1>1. /\ MayBecome(status[r], t)
      /\ RefFree(r, final)
      /\ status' = [status EXCEPT ![r] = t]
      /\ ref' = [ref EXCEPT ![r] = final]
      /\ completed' = [completed EXCEPT ![r] = t \in TerminalStatus]
      /\ result' = [result EXCEPT ![r] = new]
      /\ says' = says
  BY DEF Move
<1> HIDE DEF final, new
<1>2. /\ status[r] \in OpenStatus
      /\ Rank[status[r]] < Rank[t]
      /\ status[r] # t
  BY <1>1, MovesForward
<1>3. /\ status[r] \notin TerminalStatus
      /\ status[r] # "absent"
      /\ status[r] \in Status
      /\ t # "absent"
  BY <1>2 DEF OpenStatus, TerminalStatus, Status
<1>4. final \in Ref \cup {NoRef}
  BY DEF final
<1>5. /\ new \subseteq Fact
      /\ result[r] \subseteq new
      /\ new \subseteq result[r] \cup {Note(status[r], t)}
  BY <1>3, FactShape DEF new
<1>6. RowType'
  <2>1. (t \in TerminalStatus) \in BOOLEAN
    OBVIOUS
  <2>2. completed' \in [Request -> BOOLEAN]
    BY <1>1, <2>1
  <2>3. QED
    BY <1>1, <1>4, <1>5, <2>2
<1>7. ClosedStays
  BY <1>1, <1>3 DEF ClosedStays
<1>8. PatchAgrees'
  <2> SUFFICES ASSUME NEW q \in Request, NEW u \in TerminalStatus,
                      Patch(u) \in result'[q]
               PROVE  status'[q] = u
    BY DEF PatchAgrees
  <2>1. Patch(u) \in result[q]
    BY <1>1, <1>3, <1>5, FactShape
  <2>2. status[q] = u
    BY <2>1 DEF RowInv, PatchAgrees
  <2>3. QED
    BY <2>2, <1>1, <1>3
<1>9. NotesBehind'
  <2> SUFFICES ASSUME NEW q \in Request,
                      NEW n \in result'[q] \cap (Status \X Status)
               PROVE  Rank[n[1]] < Rank[status'[q]]
    BY DEF NotesBehind
  <2>1. CASE n \in result[q]
    <3>1. /\ Rank[n[1]] < Rank[status[q]]
          /\ n[1] \in Status
      BY <2>1 DEF RowInv, NotesBehind
    <3>2. QED
      BY <3>1, <1>1, <1>2, <1>3, RankType
  <2>2. CASE q = r /\ n = Note(status[r], t)
    BY <2>2, <1>1, <1>2 DEF Note
  <2>3. QED
    BY <2>1, <2>2, <1>1, <1>5
<1>10. NotesFormPath'
  <2> SUFFICES ASSUME NEW q \in Request,
                      NEW n \in result'[q] \cap (Status \X Status),
                      NEW k \in result'[q] \cap (Status \X Status)
               PROVE  /\ n[1] # status'[q]
                      /\ k[1] = n[1] => k = n
    BY DEF NotesFormPath
  <2>1. n[1] # status'[q]
    <3>1. Rank[n[1]] < Rank[status'[q]]
      BY <1>9 DEF NotesBehind
    <3>2. n[1] \in Status
      OBVIOUS
    <3>3. QED
      BY <3>1, <3>2, RankType
  <2>2. CASE q # r
    <3>1. n \in result[q] /\ k \in result[q]
      BY <2>2, <1>1
    <3>2. QED
      BY <3>1, <2>1 DEF RowInv, NotesFormPath
  <2>3. CASE q = r
    <3>1. \A m \in result[r] \cap (Status \X Status) : m[1] # status[r]
      BY DEF RowInv, NotesFormPath
    <3>2. Note(status[r], t)[1] = status[r]
      BY DEF Note
    <3>3. n \in new /\ k \in new
      BY <2>3, <1>1
    <3>4. \A m \in {n, k} : m \in result[r] \/ m = Note(status[r], t)
      BY <3>3, <1>5
    <3>5. k[1] = n[1] => k = n
      BY <3>1, <3>2, <3>4 DEF RowInv, NotesFormPath
    <3>6. QED
      BY <3>5, <2>1
  <2>4. QED
    BY <2>2, <2>3
<1>11. CompletedIffClosed'
  BY <1>1 DEF RowInv, CompletedIffClosed
<1>12. AbsentIsBlank'
  BY <1>1, <1>3 DEF RowInv, AbsentIsBlank
<1>13. UniqueRef'
  BY <1>1 DEF RowInv, UniqueRef, RefFree
<1>14. QED
  BY <1>1, <1>6, <1>7, <1>8, <1>9, <1>10, <1>11, <1>12, <1>13 DEF RowInv

\* Opening a row keeps the rows consistent.
LEMMA CreateKeepsRows ==
  ASSUME RowType, RowInv,
         NEW r \in Request, NEW s \in Status, NEW f \in Ref \cup {NoRef},
         Create(r, s, f)
  PROVE  /\ RowType'
         /\ RowInv'
         /\ ClosedStays
<1> USE DEF RowType
<1>1. /\ status[r] = "absent"
      /\ RefFree(r, f)
      /\ status' = [status EXCEPT ![r] = s]
      /\ ref' = [ref EXCEPT ![r] = f]
      /\ completed' = [completed EXCEPT ![r] = s \in TerminalStatus]
      /\ result' = result
      /\ says' = says
  BY DEF Create
<1>2. result[r] = {}
  BY <1>1 DEF RowInv, AbsentIsBlank
<1>3. RowType'
  <2>1. (s \in TerminalStatus) \in BOOLEAN
    OBVIOUS
  <2>2. completed' \in [Request -> BOOLEAN]
    BY <1>1, <2>1
  <2>3. QED
    BY <1>1, <2>2
<1>4. ClosedStays
  BY <1>1 DEF ClosedStays, TerminalStatus
<1>5. PatchAgrees' /\ NotesBehind' /\ NotesFormPath'
  BY <1>1, <1>2 DEF RowInv, PatchAgrees, NotesBehind, NotesFormPath
<1>6. CompletedIffClosed'
  BY <1>1 DEF RowInv, CompletedIffClosed
<1>7. AbsentIsBlank'
  BY <1>1 DEF RowInv, AbsentIsBlank, Status, OpenStatus, TerminalStatus
<1>8. UniqueRef'
  BY <1>1 DEF RowInv, UniqueRef, RefFree
<1>9. QED
  BY <1>3, <1>4, <1>5, <1>6, <1>7, <1>8 DEF RowInv

\* Merging a patch into an existing row keeps the rows consistent when it is
\* the provider's or agrees with the status.
LEMMA MergeKeepsRows ==
  ASSUME RowType, RowInv,
         NEW r \in Request, NEW t \in PatchKey, NEW w \in Caller \cup Word,
         status[r] # "absent",
         t \in TerminalStatus => status[r] = t,
         PutPatch(r, t, w)
  PROVE  /\ RowType'
         /\ RowInv'
         /\ ClosedStays
<1> USE DEF RowType, PutPatch, PatchKey
<1>1. RowType'
  <2>1. says' \in [Request -> [PatchKey -> Caller \cup Word \cup {Nothing}]]
    OBVIOUS
  <2>2. result' \in [Request -> SUBSET Fact]
    BY FactShape
  <2>3. QED
    BY <2>1, <2>2
<1>2. \A q \in Request :
        result'[q] \cap (Status \X Status) = result[q] \cap (Status \X Status)
  BY FactShape
<1>3. NotesBehind' /\ NotesFormPath'
  BY <1>2 DEF RowInv, NotesBehind, NotesFormPath
<1>4. PatchAgrees'
  BY FactShape DEF RowInv, PatchAgrees
<1>5. QED
  BY <1>1, <1>3, <1>4
  DEF RowInv, CompletedIffClosed, AbsentIsBlank, UniqueRef, ClosedStays

-----------------------------------------------------------------------------

\* When the rows change but no caller does, the callers' part survives.
LEMMA CallersKeep ==
  ASSUME TypeOK, MergeAgrees, ClosedStays, RowType', UNCHANGED <<pc, call>>
  PROVE  TypeOK' /\ MergeAgrees'
<1>1. TypeOK'
  BY DEF TypeOK, RowType
<1>2. ASSUME NEW c \in Caller, pc'[c] = "merge"
      PROVE  status'[call'[c].request] = call'[c].target
  <2>1. /\ pc[c] = "merge"
        /\ call'[c] = call[c]
    BY <1>2
  <2>2. call[c] \in [request : Request, target : TerminalStatus]
    BY <2>1 DEF TypeOK
  <2>3. status[call[c].request] = call[c].target
    BY <2>1 DEF MergeAgrees
  <2>4. QED
    BY <2>1, <2>2, <2>3 DEF ClosedStays
<1>3. QED
  BY <1>1, <1>2 DEF MergeAgrees

\* When the rows do not change, their part survives.
LEMMA RowsKeep ==
  ASSUME RowInv, UNCHANGED rowVars
  PROVE  RowInv'
  BY DEF rowVars, RowInv, PatchAgrees, NotesBehind, NotesFormPath,
         CompletedIffClosed, AbsentIsBlank, UniqueRef

LEMMA NextKeepsInv ==
  ASSUME RequestInv, [Next]_vars
  PROVE  RequestInv'
<1> USE RequestAssumption DEF RequestInv
<1>0. RowType
  BY DEF TypeOK, RowType
<1>1. ASSUME NEW r \in Request, NEW s \in Status, NEW f \in Ref \cup {NoRef},
             Create(r, s, f)
      PROVE  RequestInv'
  <2>1. RowType' /\ RowInv' /\ ClosedStays
    BY <1>0, <1>1, CreateKeepsRows
  <2>2. UNCHANGED <<pc, call>>
    BY <1>1 DEF Create
  <2>3. QED
    BY <2>1, <2>2, CallersKeep
<1>2. ASSUME NEW r \in Request, NEW s \in Status, NEW f \in Ref \cup {NoRef},
             NEW noted \in NoteGiven, TransitionStatus(r, s, noted, f)
      PROVE  RequestInv'
  <2>1. noted \in BOOLEAN
    OBVIOUS
  <2>2. RowType' /\ RowInv' /\ ClosedStays
    BY <1>0, <1>2, <2>1, MoveKeepsRows DEF TransitionStatus
  <2>3. UNCHANGED <<pc, call>>
    BY <1>2 DEF TransitionStatus
  <2>4. QED
    BY <2>2, <2>3, CallersKeep
<1>3. ASSUME NEW r \in Request, NEW w \in Word, AppendResult(r, w)
      PROVE  RequestInv'
  <2>1. "provider" \notin TerminalStatus /\ "provider" \in PatchKey
    BY DEF TerminalStatus, PatchKey
  <2>2. RowType' /\ RowInv' /\ ClosedStays
    BY <1>0, <1>3, <2>1, MergeKeepsRows DEF AppendResult
  <2>3. UNCHANGED <<pc, call>>
    BY <1>3 DEF AppendResult
  <2>4. QED
    BY <2>2, <2>3, CallersKeep
<1>4. ASSUME NEW c \in Caller, NEW r \in Request, NEW t \in MarkTarget,
             BeginMark(c, r, t)
      PROVE  RequestInv'
  <2>1. RowInv'
    BY <1>4, RowsKeep DEF BeginMark
  <2>2. TypeOK'
    BY <1>4 DEF BeginMark, TypeOK, Location, rowVars
  <2>3. MergeAgrees'
    BY <1>4 DEF BeginMark, MergeAgrees, TypeOK, rowVars
  <2>4. QED
    BY <2>1, <2>2, <2>3
<1>5. ASSUME NEW c \in Caller, MarkGet(c)
      PROVE  RequestInv'
  <2>1. RowInv'
    BY <1>5, RowsKeep DEF MarkGet
  <2>2. TypeOK'
    <3>1. RowType'
      BY <1>0, <1>5 DEF MarkGet, RowType, rowVars
    <3>2. /\ pc' \in [Caller -> Location]
          /\ call' \in [Caller -> [request : Request, target : TerminalStatus]
                                 \cup {Nothing}]
      BY <1>5 DEF MarkGet, EndMark, TypeOK, Location
    <3>3. \A d \in Caller :
            (pc'[d] \in {"get", "move", "merge"}) <=> (call'[d] # Nothing)
      <4>1. \A d \in Caller \ {c} : pc'[d] = pc[d] /\ call'[d] = call[d]
        BY <1>5 DEF MarkGet, EndMark, TypeOK
      <4>2. \/ pc'[c] = "idle" /\ call'[c] = Nothing
            \/ pc'[c] \in {"merge", "move"} /\ call'[c] = call[c] /\ call[c] # Nothing
        BY <1>5 DEF MarkGet, EndMark, TypeOK
      <4>3. QED
        BY <4>1, <4>2 DEF TypeOK
    <3>4. QED
      BY <3>1, <3>2, <3>3 DEF TypeOK, RowType
  <2>3. MergeAgrees'
    BY <1>5 DEF MarkGet, EndMark, MergeAgrees, TypeOK, rowVars
  <2>4. QED
    BY <2>1, <2>2, <2>3
<1>6. ASSUME NEW c \in Caller, MarkMove(c)
      PROVE  RequestInv'
  <2> DEFINE r == call[c].request
             t == call[c].target
  <2>1. /\ pc[c] = "move"
        /\ r \in Request
        /\ t \in TerminalStatus
        /\ t \in Status
    BY <1>6 DEF MarkMove, TypeOK, Status
  <2> HIDE DEF r, t
  <2>2. CASE /\ Move(r, t, FALSE, NoRef)
             /\ pc' = [pc EXCEPT ![c] = "merge"]
             /\ call' = call
    <3>1. RowType' /\ RowInv' /\ ClosedStays /\ status'[r] = t
      BY <1>0, <2>1, <2>2, MoveKeepsRows
    <3>2. TypeOK'
      BY <2>1, <2>2, <3>1 DEF TypeOK, RowType, Location
    <3>3. MergeAgrees'
      <4> SUFFICES ASSUME NEW d \in Caller, pc'[d] = "merge"
                   PROVE  status'[call'[d].request] = call'[d].target
        BY DEF MergeAgrees
      <4>1. CASE d = c
        BY <4>1, <2>2, <3>1 DEF r, t
      <4>2. CASE d # c
        <5>1. pc[d] = "merge"
          BY <4>2, <2>2 DEF TypeOK
        <5>2. call[d] \in [request : Request, target : TerminalStatus]
          BY <5>1 DEF TypeOK
        <5>3. status[call[d].request] = call[d].target
          BY <5>1 DEF MergeAgrees
        <5>4. QED
          BY <5>2, <5>3, <3>1, <2>2 DEF ClosedStays
      <4>3. QED
        BY <4>1, <4>2
    <3>4. QED
      BY <3>1, <3>2, <3>3
  <2>3. CASE /\ status[r] = t
             /\ UNCHANGED rowVars
             /\ pc' = [pc EXCEPT ![c] = "merge"]
             /\ call' = call
    <3>1. RowInv'
      BY <2>3, RowsKeep
    <3>2. TypeOK'
      BY <2>1, <2>3 DEF TypeOK, Location, rowVars
    <3>3. MergeAgrees'
      BY <2>3 DEF MergeAgrees, TypeOK, rowVars, r, t
    <3>4. QED
      BY <3>1, <3>2, <3>3
  <2>4. CASE EndMark(c) /\ UNCHANGED rowVars
    <3>1. RowInv'
      BY <2>4, RowsKeep
    <3>2. TypeOK'
      BY <2>4 DEF EndMark, TypeOK, Location, rowVars
    <3>3. MergeAgrees'
      BY <2>4 DEF EndMark, MergeAgrees, TypeOK, rowVars
    <3>4. QED
      BY <3>1, <3>2, <3>3
  <2>5. QED
    BY <1>6, <2>2, <2>3, <2>4 DEF MarkMove, r, t
<1>7. ASSUME NEW c \in Caller, MarkMerge(c)
      PROVE  RequestInv'
  <2> DEFINE r == call[c].request
             t == call[c].target
  <2>1. /\ r \in Request
        /\ t \in TerminalStatus
        /\ status[r] = t
        /\ status[r] # "absent"
        /\ EndMark(c)
        /\ PutPatch(r, t, c)
    BY <1>7 DEF MarkMerge, TypeOK, MergeAgrees, TerminalStatus
  <2> HIDE DEF r, t
  <2>2. RowType' /\ RowInv' /\ ClosedStays
    BY <1>0, <2>1, MergeKeepsRows DEF PatchKey
  <2>3. TypeOK'
    BY <2>1, <2>2 DEF EndMark, TypeOK, RowType, Location
  <2>4. MergeAgrees'
    BY <2>1 DEF EndMark, PutPatch, MergeAgrees, TypeOK
  <2>5. QED
    BY <2>2, <2>3, <2>4
<1>8. ASSUME NEW c \in Caller, Crash(c)
      PROVE  RequestInv'
  <2>1. RowInv'
    BY <1>8, RowsKeep DEF Crash
  <2>2. TypeOK'
    BY <1>8 DEF Crash, TypeOK, Location, rowVars
  <2>3. MergeAgrees'
    BY <1>8 DEF Crash, MergeAgrees, TypeOK, rowVars
  <2>4. QED
    BY <2>1, <2>2, <2>3
<1>9. CASE UNCHANGED vars
  <2>1. UNCHANGED rowVars /\ UNCHANGED <<pc, call>>
    BY <1>9 DEF vars, rowVars
  <2>2. RowType' /\ ClosedStays
    BY <1>0, <2>1 DEF rowVars, RowType, ClosedStays
  <2>3. QED
    BY <2>1, <2>2, RowsKeep, CallersKeep
<1>10. QED
  BY <1>1, <1>2, <1>3, <1>4, <1>5, <1>6, <1>7, <1>8, <1>9
  DEF Next, MarkStep

\* The strengthened invariant holds in every reachable state of the store and
\* its callers (external_requests.py, create to mark_terminal).
THEOREM RequestInvariant == Spec => []RequestInv
<1>1. Init => RequestInv
  BY InitInv
<1>2. RequestInv /\ [Next]_vars => RequestInv'
  BY NextKeepsInv
<1>3. QED
  BY <1>1, <1>2, PTL DEF Spec

\* Rows and calls keep their types.
THEOREM TypeCorrect == Spec => []TypeOK
<1>1. RequestInv => TypeOK
  BY DEF RequestInv
<1>2. QED
  BY <1>1, RequestInvariant, PTL

\* However many callers resolve a request, and wherever they stop, the only
\* patch of a resolution in the row is that of the status the row has.
THEOREM PatchesAgree == Spec => []PatchAgrees
<1>1. RequestInv => PatchAgrees
  BY DEF RequestInv, RowInv
<1>2. QED
  BY <1>1, RequestInvariant, PTL

\* The noted transitions of a row are a path to its present status.
THEOREM NotesArePath == Spec => []NotesFormPath
<1>1. RequestInv => NotesFormPath
  BY DEF RequestInv, RowInv
<1>2. QED
  BY <1>1, RequestInvariant, PTL

\* A provider's reference identifies one request.
THEOREM RefsUnique == Spec => []UniqueRef
<1>1. RequestInv => UniqueRef
  BY DEF RequestInv, RowInv
<1>2. QED
  BY <1>1, RequestInvariant, PTL

-----------------------------------------------------------------------------

\* The abstract state that the refinement mapping reads off the rows.
Stages == [q \in Request |-> Rank[status[q]]]
FinalOutcomes == [q \in Request |-> IF completed[q] THEN status[q] ELSE NoOutcome]
Facts == [q \in Request |-> Recorded(q)]

\* A step that changes the record of one row and drops no key of it.
LEMMA OneRecord ==
  ASSUME NEW r \in Request, result[r] \subseteq result'[r],
         \A q \in Request \ {r} : result'[q] = result[q] /\ says'[q] = says[q]
  PROVE  Lifecycle!Record(r)
<1>1. \A q \in Request \ {r} : Facts'[q] = Facts[q]
  BY DEF Facts, Recorded
<1>2. Facts' = [Facts EXCEPT ![r] = Facts'[r]]
  BY <1>1 DEF Facts
<1>3. DOMAIN Facts[r] = result[r] /\ DOMAIN Facts'[r] = result'[r]
  BY DEF Facts, Recorded
<1>4. QED
  BY <1>2, <1>3 DEF Lifecycle!Record, Facts

\* A row that is opened or moved forward is a step of the abstract request.
LEMMA ForwardIsAdvance ==
  ASSUME RowType, CompletedIffClosed,
         NEW r \in Request, NEW t \in Status, NEW h \in Ref \cup {NoRef},
         Rank[status[r]] < Rank[t],
         h # ref[r] => ref[r] = NoRef,
         RefFree(r, h),
         NEW new, result[r] \subseteq new,
         status' = [status EXCEPT ![r] = t],
         ref' = [ref EXCEPT ![r] = h],
         completed' = [completed EXCEPT ![r] = t \in TerminalStatus],
         result' = [result EXCEPT ![r] = new],
         says' = says
  PROVE  Lifecycle!Advance(r)
<1> DEFINE n == Rank[t]
           o == IF t \in TerminalStatus THEN t ELSE NoOutcome
<1> USE DEF RowType
<1>1. n \in Rank[status[r]] + 1 .. 5
  BY RankType
<1>2. /\ o \in TerminalStatus \cup {NoOutcome}
      /\ (n = 5) <=> (o # NoOutcome)
  BY RankType DEF NoOutcome, TerminalStatus
<1>3. h # ref[r] => ref[r] = NoRef /\ Lifecycle!Unused(r, h)
  <2> SUFFICES ASSUME h # ref[r]
               PROVE  Lifecycle!Unused(r, h)
    OBVIOUS
  <2>1. h # NoRef
    OBVIOUS
  <2>2. QED
    BY <2>1 DEF RefFree, Lifecycle!Unused
<1>4. Stages' = [Stages EXCEPT ![r] = n]
  BY DEF Stages
<1>8. Stages' # Stages
  BY <1>1, <1>4 DEF Stages
<1>5. FinalOutcomes' = [FinalOutcomes EXCEPT ![r] = o]
  <2>1. completed'[r] = (t \in TerminalStatus)
    OBVIOUS
  <2>2. \A q \in Request \ {r} :
          completed'[q] = completed[q] /\ status'[q] = status[q]
    OBVIOUS
  <2>3. FinalOutcomes'[r] = o
    BY <2>1, Zenon DEF FinalOutcomes
  <2>4. \A q \in Request \ {r} : FinalOutcomes'[q] = FinalOutcomes[q]
    BY <2>2, Zenon DEF FinalOutcomes
  <2>5. QED
    BY <2>3, <2>4 DEF FinalOutcomes
<1>6. Lifecycle!Record(r)
  BY OneRecord
<1>9. \A k \in DOMAIN Facts[r] : Facts'[r][k] = Facts[r][k]
  BY DEF Facts, Recorded
<1> HIDE DEF n, o
<1>7. QED
  BY <1>1, <1>2, <1>3, <1>4, <1>5, <1>6, <1>8, <1>9, RankType
  DEF Lifecycle!Advance, Stages, FinalOutcomes, Facts

\* Merging a patch into a row is a step of the abstract request.
LEMMA MergeIsLearn ==
  ASSUME RowType, NEW r \in Request, status[r] # "absent",
         NEW k, NEW w, PutPatch(r, k, w)
  PROVE  Lifecycle!Learn(r)
<1> USE DEF RowType, PutPatch
<1>1. Rank[status[r]] > 0
  BY RankType
<1>2. Lifecycle!Record(r)
  BY OneRecord
<1>3. Stages' = Stages /\ FinalOutcomes' = FinalOutcomes
  BY DEF Stages, FinalOutcomes
<1>4. QED
  BY <1>1, <1>2, <1>3 DEF Lifecycle!Learn, Stages, FinalOutcomes

\* The store implements the lifecycle of a request: whatever the callers, the
\* transactions and the crashes, every row goes forward through at most five
\* stages, closes once with an outcome that stays, keeps the provider's
\* reference it got, loses nothing from its result by moving, and no key of it by a
\* patch, which may overwrite what stands under a key.
THEOREM Refinement == Spec => KeepsLifecycle
<1>1. Init => Lifecycle!Init
  <2> SUFFICES ASSUME Init
               PROVE  Lifecycle!Init
    OBVIOUS
  <2>1. Stages = [q \in Request |-> 0]
    BY RankType DEF Init, Stages
  <2>2. FinalOutcomes = [q \in Request |-> NoOutcome]
    BY DEF Init, FinalOutcomes
  <2>3. \A q \in Request : DOMAIN Facts[q] = {}
    BY DEF Init, Facts, Recorded
  <2>4. QED
    BY <2>1, <2>2, <2>3 DEF Init, Lifecycle!Init, Stages, FinalOutcomes, Facts
<1>2. RequestInv /\ [Next]_vars => [Lifecycle!Next]_(Lifecycle!vars)
  <2> SUFFICES ASSUME RequestInv, [Next]_vars
               PROVE  Lifecycle!Next \/ UNCHANGED Lifecycle!vars
    OBVIOUS
  <2> USE RequestAssumption DEF RequestInv
  <2>0. RowType /\ CompletedIffClosed
    BY DEF TypeOK, RowType, RowInv
  <2>1. ASSUME NEW r \in Request, NEW t \in Status, NEW noted \in BOOLEAN,
               NEW f \in Ref \cup {NoRef}, Move(r, t, noted, f)
        PROVE  Lifecycle!Next
    <3> DEFINE final == IF ref[r] = NoRef THEN f ELSE ref[r]
               new == IF noted THEN result[r] \cup {Note(status[r], t)}
                      ELSE result[r]
    <3>1. /\ MayBecome(status[r], t)
          /\ RefFree(r, final)
          /\ status' = [status EXCEPT ![r] = t]
          /\ ref' = [ref EXCEPT ![r] = final]
          /\ completed' = [completed EXCEPT ![r] = t \in TerminalStatus]
          /\ result' = [result EXCEPT ![r] = new]
          /\ says' = says
      BY <2>1 DEF Move
    <3>2. /\ final \in Ref \cup {NoRef}
          /\ final # ref[r] => ref[r] = NoRef
          /\ result[r] \subseteq new
      BY <2>0 DEF RowType
    <3> HIDE DEF final, new
    <3>3. Rank[status[r]] < Rank[t]
      BY <2>0, <3>1, MovesForward DEF RowType
    <3>4. Lifecycle!Advance(r)
      BY <2>0, <3>1, <3>2, <3>3, ForwardIsAdvance
    <3>5. QED
      BY <3>4 DEF Lifecycle!Next
  <2>2. ASSUME NEW r \in Request, NEW s \in Status,
               NEW f \in Ref \cup {NoRef}, Create(r, s, f)
        PROVE  Lifecycle!Next
    <3>1. /\ status[r] = "absent"
          /\ RefFree(r, f)
          /\ status' = [status EXCEPT ![r] = s]
          /\ ref' = [ref EXCEPT ![r] = f]
          /\ completed' = [completed EXCEPT ![r] = s \in TerminalStatus]
          /\ result' = [result EXCEPT ![r] = result[r]]
          /\ says' = says
      BY <2>0, <2>2 DEF Create, RowType
    <3>2. ref[r] = NoRef
      BY <3>1 DEF RowInv, AbsentIsBlank
    <3>3. Rank[status[r]] < Rank[s]
      BY <3>1, RankType DEF Status, OpenStatus, TerminalStatus
    <3>4. Lifecycle!Advance(r)
      BY <2>0, <3>1, <3>2, <3>3, ForwardIsAdvance
    <3>5. QED
      BY <3>4 DEF Lifecycle!Next
  <2>3. ASSUME NEW r \in Request, NEW w \in Word, AppendResult(r, w)
        PROVE  Lifecycle!Next
    BY <2>0, <2>3, MergeIsLearn DEF AppendResult, Lifecycle!Next
  <2>4. ASSUME NEW c \in Caller, MarkMerge(c)
        PROVE  Lifecycle!Next
    <3>1. /\ call[c].request \in Request
          /\ status[call[c].request] # "absent"
      BY <2>4 DEF MarkMerge, TypeOK, MergeAgrees, TerminalStatus
    <3>2. QED
      BY <2>0, <2>4, <3>1, MergeIsLearn DEF MarkMerge, Lifecycle!Next
  <2>5. CASE UNCHANGED rowVars
    BY <2>5 DEF rowVars, Recorded, Lifecycle!vars
  <2>6. ASSUME NEW c \in Caller, MarkMove(c)
        PROVE  Lifecycle!Next \/ UNCHANGED rowVars
    <3>1. /\ call[c].request \in Request
          /\ call[c].target \in Status
      BY <2>6 DEF MarkMove, TypeOK, Status
    <3>2. QED
      BY <2>1, <2>6, <3>1 DEF MarkMove
  <2>7. ASSUME NEW r \in Request, NEW s \in Status,
               NEW f \in Ref \cup {NoRef}, NEW noted \in NoteGiven,
               TransitionStatus(r, s, noted, f)
        PROVE  Lifecycle!Next
    <3>1. noted \in BOOLEAN
      OBVIOUS
    <3>2. QED
      BY <2>1, <2>7, <3>1 DEF TransitionStatus
  <2>8. ASSUME NEW c \in Caller, \/ MarkGet(c) \/ Crash(c)
                                 \/ \E r \in Request, t \in MarkTarget :
                                      BeginMark(c, r, t)
        PROVE  UNCHANGED rowVars
    BY <2>8 DEF MarkGet, Crash, BeginMark
  <2>9. CASE UNCHANGED vars
    BY <2>9 DEF vars, rowVars, Recorded, Lifecycle!vars
  <2>10. QED
    BY <2>2, <2>3, <2>4, <2>5, <2>6, <2>7, <2>8, <2>9 DEF Next, MarkStep
<1>3. QED
  BY <1>1, <1>2, RequestInvariant, PTL DEF Spec, KeepsLifecycle, Lifecycle!Spec
=============================================================================
