-------------------------- MODULE ExternalRequests --------------------------
(***************************************************************************)
(* The requests to external tools and their resolution by the user:        *)
(* ExternalRequestStore in SourceCode/shared_tools/external_requests.py    *)
(* and its callers in SourceCode/orchestrator/main.py.                     *)
(*                                                                         *)
(* create, transition_status and append_result are one SQLite transaction  *)
(* each (BEGIN IMMEDIATE), hence one step.  mark_terminal is three: it     *)
(* reads the row, moves it, then merges the caller's patch, and other      *)
(* callers or a crash come in between.                                     *)
(***************************************************************************)
EXTENDS Integers, FiniteSets

CONSTANTS
  Request,     \* request identifiers
  Provider,    \* external tools
  ProviderOf,  \* the provider a request is created for
  Ref,         \* references a provider gives to a request
  NoRef,       \* the empty external_ref
  Caller,      \* threads that call mark_terminal, each with a patch of its own
  Word,        \* what the patches of a provider say
  MarkTarget,  \* the terminal statuses they ask for
  NoteGiven,   \* whether transition_status gets a note: the cases considered
  Nothing      \* no call in progress

OpenStatus == {"queued", "dispatched", "acknowledged", "working"}
TerminalStatus == {"completed", "failed", "cancelled", "ignored"}
Status == OpenStatus \cup TerminalStatus

ASSUME RequestAssumption ==
  /\ ProviderOf \in [Request -> Provider]
  /\ NoRef \notin Ref
  /\ MarkTarget \subseteq TerminalStatus
  /\ NoteGiven \subseteq BOOLEAN
  /\ Nothing \notin Caller \cup Word
  /\ Nothing \notin [request : Request, target : TerminalStatus]

VARIABLES
  status,     \* status column, "absent" when there is no row
  ref,        \* external_ref column
  completed,  \* completed_at is not null
  result,     \* the keys of result_json: merged patches, noted transitions
  says,       \* whose patch stands under each key
  pc,         \* where each caller is in mark_terminal
  call        \* its arguments

rowVars == <<status, ref, completed, result, says>>
vars == <<status, ref, completed, result, says, pc, call>>

Location == {"idle", "get", "move", "merge", "dead"}

\* A noted transition, as kept in result_json["transitions"].
Note(from, to) == <<from, to>>

\* Keys of result_json: the patch mark_terminal merges in the name of a
\* terminal status, the patch of a provider, and the noted transitions.  A
\* row moves at most four times, so the cut at 50 notes never happens.
PatchKey == TerminalStatus \cup {"provider"}
Fact == ({"patch"} \X PatchKey) \cup (Status \X Status)

Patch(t) == <<"patch", t>>

\* Mutant: an acknowledgement may come late, after the work began.
TransitionsBackward ==
  [queued       |-> {"dispatched", "failed", "cancelled", "ignored"},
   dispatched   |-> {"acknowledged", "working"} \cup TerminalStatus,
   acknowledged |-> {"working"} \cup TerminalStatus,
   working      |-> {"acknowledged"} \cup TerminalStatus]

\* Mutant: a request nobody dispatched yet cannot be ignored.
TransitionsNoIgnore ==
  [queued       |-> {"dispatched", "failed", "cancelled"},
   dispatched   |-> {"acknowledged", "working"} \cup TerminalStatus,
   acknowledged |-> {"working"} \cup TerminalStatus,
   working      |-> TerminalStatus]

\* EXTERNAL_STATUS_TRANSITIONS, of the statuses that have successors.
Transitions ==
  [queued       |-> {"dispatched", "failed", "cancelled", "ignored"},
   dispatched   |-> {"acknowledged", "working"} \cup TerminalStatus,
   acknowledged |-> {"working"} \cup TerminalStatus,
   working      |-> TerminalStatus]

\* Mutant: the table is not consulted.
MayBecomeAny(from, to) == from \in Status /\ to \in Status

\* _validate_transition, apart from the no-op of an unchanged status.
MayBecome(from, to) == from \in OpenStatus /\ to \in Transitions[from]

\* No other row of the same provider has the reference: what create looks
\* up, and what the partial unique index enforces.
RefFree(r, f) ==
  f # NoRef =>
    \A q \in Request \ {r} : ProviderOf[q] = ProviderOf[r] => ref[q] # f

-----------------------------------------------------------------------------

Init ==
  /\ status = [r \in Request |-> "absent"]
  /\ ref = [r \in Request |-> NoRef]
  /\ completed = [r \in Request |-> FALSE]
  /\ result = [r \in Request |-> {}]
  /\ says = [r \in Request |-> [k \in PatchKey |-> Nothing]]
  /\ pc = [c \in Caller |-> "idle"]
  /\ call = [c \in Caller |-> Nothing]

\* create: an id or a (provider, reference) that is already there returns
\* the existing row and writes nothing.
Create(r, s, f) ==
  /\ status[r] = "absent"
  /\ RefFree(r, f)
  /\ status' = [status EXCEPT ![r] = s]
  /\ ref' = [ref EXCEPT ![r] = f]
  /\ completed' = [completed EXCEPT ![r] = s \in TerminalStatus]
  /\ UNCHANGED <<result, says, pc, call>>

\* The rows after transition_status(r, t, note, f) moved r.  A reference is
\* taken only by a row that has none; one that another row of the provider
\* has breaks the unique index and rolls the transaction back.
Move(r, t, noted, f) ==
  LET final == IF ref[r] = NoRef THEN f ELSE ref[r]
  IN /\ MayBecome(status[r], t)
     /\ RefFree(r, final)
     /\ status' = [status EXCEPT ![r] = t]
     /\ ref' = [ref EXCEPT ![r] = final]
     /\ completed' = [completed EXCEPT ![r] = t \in TerminalStatus]
     /\ result' = [result EXCEPT ![r] =
                     IF noted THEN @ \cup {Note(status[r], t)} ELSE @]
     /\ UNCHANGED says

\* transition_status, called by a provider adapter.
TransitionStatus(r, t, noted, f) ==
  /\ Move(r, t, noted, f)
  /\ UNCHANGED <<pc, call>>

\* The keys of the patch are set: what stood under one is overwritten.
PutPatch(r, k, w) ==
  /\ result' = [result EXCEPT ![r] = @ \cup {Patch(k)}]
  /\ says' = [says EXCEPT ![r][k] = w]
  /\ UNCHANGED <<status, ref, completed>>

\* append_result, called by a provider adapter, in any status.
AppendResult(r, w) ==
  /\ status[r] # "absent"
  /\ PutPatch(r, "provider", w)
  /\ UNCHANGED <<pc, call>>

\* mark_terminal(r, t) is called (ignore_pending_action and
\* answer_pending_action ask for "ignored").
BeginMark(c, r, t) ==
  /\ pc[c] = "idle"
  /\ pc' = [pc EXCEPT ![c] = "get"]
  /\ call' = [call EXCEPT ![c] = [request |-> r, target |-> t]]
  /\ UNCHANGED rowVars

\* Mutant: a call that ends keeps its arguments for the next one.
EndMarkKeeps(c) ==
  /\ pc' = [pc EXCEPT ![c] = "idle"]
  /\ UNCHANGED call

\* The call returns or raises.
EndMark(c) ==
  /\ pc' = [pc EXCEPT ![c] = "idle"]
  /\ call' = [call EXCEPT ![c] = Nothing]

\* Its first transaction reads the row; without one it raises.
MarkGet(c) ==
  /\ pc[c] = "get"
  /\ \/ /\ status[call[c].request] = "absent"
        /\ EndMark(c)
     \/ /\ status[call[c].request] # "absent"
        /\ pc' = [pc EXCEPT ![c] =
                    IF status[call[c].request] = call[c].target
                    THEN "merge" ELSE "move"]
        /\ UNCHANGED call
  /\ UNCHANGED rowVars

\* Mutant: a refused transition is swallowed and the patch merged anyway.
MarkMoveSwallow(c) ==
  LET r == call[c].request
      t == call[c].target
  IN /\ pc[c] = "move"
     /\ \/ Move(r, t, FALSE, NoRef)
        \/ ~MayBecome(status[r], t) /\ UNCHANGED rowVars
     /\ pc' = [pc EXCEPT ![c] = "merge"]
     /\ UNCHANGED call

\* Its second one is transition_status: it finds the row as it is now, which
\* may be the target already; what the table forbids raises.
MarkMove(c) ==
  LET r == call[c].request
      t == call[c].target
  IN /\ pc[c] = "move"
     /\ \/ /\ \/ Move(r, t, FALSE, NoRef)
              \/ status[r] = t /\ UNCHANGED rowVars
           /\ pc' = [pc EXCEPT ![c] = "merge"]
           /\ UNCHANGED call
        \/ /\ status[r] # t
           /\ ~MayBecome(status[r], t)
           /\ EndMark(c)
           /\ UNCHANGED rowVars

\* Its third one is append_result: of two callers with one target both merge, and the
\* later patch stands.
MarkMerge(c) ==
  /\ pc[c] = "merge"
  /\ PutPatch(call[c].request, call[c].target, c)
  /\ EndMark(c)

\* The process of a caller dies; committed transactions stay.
Crash(c) ==
  /\ pc[c] # "dead"
  /\ pc' = [pc EXCEPT ![c] = "dead"]
  /\ call' = [call EXCEPT ![c] = Nothing]
  /\ UNCHANGED rowVars

MarkStep(c) == MarkGet(c) \/ MarkMove(c) \/ MarkMerge(c)

Next ==
  \/ \E r \in Request :
       \/ \E s \in Status, f \in Ref \cup {NoRef} :
            \/ Create(r, s, f)
            \/ \E noted \in NoteGiven : TransitionStatus(r, s, noted, f)
       \/ \E w \in Word : AppendResult(r, w)
  \/ \E c \in Caller :
       \/ \E r \in Request, t \in MarkTarget : BeginMark(c, r, t)
       \/ MarkStep(c)
       \/ Crash(c)

Spec == Init /\ [][Next]_vars

\* A call in progress goes on; nothing makes anybody begin one.
FairSpec == Spec /\ \A c \in Caller : WF_vars(MarkStep(c))

-----------------------------------------------------------------------------

TypeOK ==
  /\ status \in [Request -> Status \cup {"absent"}]
  /\ ref \in [Request -> Ref \cup {NoRef}]
  /\ completed \in [Request -> BOOLEAN]
  /\ result \in [Request -> SUBSET Fact]
  /\ says \in [Request -> [PatchKey -> Caller \cup Word \cup {Nothing}]]
  /\ pc \in [Caller -> Location]
  /\ call \in [Caller -> [request : Request, target : TerminalStatus]
                         \cup {Nothing}]
  /\ \A c \in Caller :
       (pc[c] \in {"get", "move", "merge"}) <=> (call[c] # Nothing)

\* A patch merged by mark_terminal agrees with the status of its row: of two
\* callers that resolve a request differently, in any interleaving of their
\* three transactions, only the winner's patch is in the result, and nobody
\* takes the outcome back later.
PatchAgrees ==
  \A r \in Request, t \in TerminalStatus :
    Patch(t) \in result[r] => status[r] = t

\* The noted transitions of a row are a path: no two start from the same
\* status, and none starts from the status the row is in now.
NotesFormPath ==
  \A r \in Request :
    LET notes == result[r] \cap (Status \X Status)
    IN \A n \in notes : /\ n[1] # status[r]
                        /\ \A k \in notes : k[1] = n[1] => k = n

\* A reference identifies one request of its provider (part of KeepsLifecycle).
UniqueRef ==
  \A q, r \in Request :
    ref[q] # NoRef /\ ref[q] = ref[r] /\ ProviderOf[q] = ProviderOf[r]
      => q = r

\* When the user's "ignored" got as far as moving a row, the row is closed in
\* the end (by this caller or by another) unless the caller's process dies.
\* (A "completed" may be refused for ever: a queued row cannot complete.)
IgnoreSettles ==
  \A c \in Caller, r \in Request :
    (pc[c] = "move" /\ call[c] = [request |-> r, target |-> "ignored"])
      ~> (status[r] \in TerminalStatus \/ pc[c] = "dead")

-----------------------------------------------------------------------------

\* How far a status is along the lifecycle.
Stage ==
  [absent |-> 0, queued |-> 1, dispatched |-> 2, acknowledged |-> 3,
   working |-> 4]

Rank ==
  [s \in Status \cup {"absent"} |-> IF s \in TerminalStatus THEN 5 ELSE Stage[s]]

NoOutcome == "open"

\* What stands under each key of result_json; a noted transition has no other value.
Recorded(r) ==
  [k \in result[r] |-> IF k[1] = "patch" THEN says[r][k[2]] ELSE Nothing]

\* The store keeps the promises of RequestLifecycle: a row that has a
\* completion time is closed, its status is its outcome.
Lifecycle == INSTANCE RequestLifecycle WITH
  Outcome <- TerminalStatus,
  Last <- 5,
  stage <- [r \in Request |-> Rank[status[r]]],
  outcome <- [r \in Request |-> IF completed[r] THEN status[r] ELSE NoOutcome],
  handle <- ref,
  facts <- [r \in Request |-> Recorded(r)]

\* The refinement, as a property TLC and the proofs name.
KeepsLifecycle == Lifecycle!Spec
=============================================================================
