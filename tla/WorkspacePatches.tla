--------------------------- MODULE WorkspacePatches ---------------------------
(***************************************************************************)
(* Patch proposals for the files of a workspace: WorkspaceTools proposes   *)
(* them (SourceCode/shared_tools/workspace_tools.py), ApprovalGate keeps   *)
(* them (approval_gate.py) and ActionExecutor writes them                  *)
(* (action_executor.py).                                                   *)
(*                                                                         *)
(* Clients call these from threads of one or more processes.  A proposal   *)
(* is generated from the files as they were before a model call of         *)
(* minutes, and waits for a decision for any time after that.  A SHA-256   *)
(* of a content is the content itself.  path.write_text truncates the file *)
(* and then fills it: two steps.  The paths are below Projects/, as the    *)
(* paths of every proposal of WorkspaceTools are.                          *)
(***************************************************************************)
EXTENDS Naturals, Sequences

CONSTANTS
  File,      \* files of a workspace
  Text,      \* contents of a file
  Empty,     \* the content of length zero
  Missing,   \* there is no such file
  Proposal,  \* ids of action proposals
  Client,    \* threads that propose and execute
  NoProposal,
  MaxItems,  \* bound: files of a batch (8 in the code)
  MaxEdit    \* bound: changes the user makes to files

ASSUME PatchAssumption ==
  /\ Empty \in Text
  /\ Missing \notin Text
  /\ NoProposal \notin Proposal
  /\ MaxItems \in Nat
  /\ MaxEdit \in Nat

VARIABLES
  content,  \* what each file holds
  row,      \* status of each proposal, and the marker added to its source
  payload,  \* files of each proposal, in the order they are written
  job,      \* what each client is doing
  edits,    \* number of changes by the user
  touched   \* history: files changed since the client's latest check

vars == <<content, row, payload, job, edits, touched>>

Content == Text \cup {Missing}

\* One file of a proposal: original_sha256 (Missing when it is empty) and
\* new_content.
Item == [path : File, base : Content, new : Text]

Row ==
  [status : {"absent", "pending", "approved", "rejected"},
   mark : {"none", "ok", "error"}]

\* A client: where it is, the proposal and the file it executes, the files it
\* read for a proposal; and, as history, the files its execution has written.
Job ==
  [at : {"idle", "generating", "checking", "writing", "filling",
         "succeeded", "failed", "dead"},
   id : Proposal \cup {NoProposal},
   next : 1 .. MaxItems + 1,
   read : [File -> Content],
   filled : SUBSET (1 .. MaxItems)]

Idle == [at |-> "idle", id |-> NoProposal, next |-> 1,
         read |-> [f \in File |-> Missing], filled |-> {}]

-----------------------------------------------------------------------------

Init ==
  /\ content \in [File -> Content]
  /\ row = [p \in Proposal |-> [status |-> "absent", mark |-> "none"]]
  /\ payload = [p \in Proposal |-> <<>>]
  /\ job = [c \in Client |-> Idle]
  /\ edits = 0
  /\ touched = [c \in Client |-> {}]

At(c, l) == job[c].at = l
Become(c, j) == job' = [job EXCEPT ![c] = j]
GoTo(c, l) == Become(c, [job[c] EXCEPT !.at = l])

\* File f gets content t; every client that checked f before may not know.
Change(f, t) ==
  /\ content' = [content EXCEPT ![f] = t]
  /\ touched' = [c \in Client |-> touched[c] \cup {f}]

\* propose_patch and propose_patch_batch read the files, then ask the model.
BeginPropose(c) ==
  /\ At(c, "idle")
  /\ Become(c, [Idle EXCEPT !.at = "generating", !.read = content])
  /\ UNCHANGED <<content, row, payload, edits, touched>>

\* The text a missing file is compared with is the empty one.
AsText(t) == IF t = Missing THEN Empty ELSE t

\* The model's answer names some of the files, possibly one twice; files it
\* does not change are left out.
Answer(read) ==
  {i \in Item : i.base = read[i.path] /\ i.new # AsText(i.base)}

\* The proposal is stored, or there is nothing to store.
FinishPropose(c, p) ==
  /\ At(c, "generating")
  /\ \/ /\ row[p].status = "absent"
        /\ \E n \in 1 .. MaxItems :
             \E s \in [1 .. n -> Answer(job[c].read)] :
               payload' = [payload EXCEPT ![p] = s]
        /\ row' = [row EXCEPT ![p].status = "pending"]
     \/ UNCHANGED <<row, payload>>
  /\ Become(c, Idle)
  /\ UNCHANGED <<content, edits, touched>>

\* _queue_action_proposals: a next step of a synthesis ("create_task") is a
\* proposal without files, of a type the executor does not know.
QueueTask(p) ==
  /\ row[p].status = "absent"
  /\ row' = [row EXCEPT ![p].status = "pending"]
  /\ UNCHANGED <<content, payload, job, edits, touched>>

\* execute_proposal reads the row; unless it is pending nothing happens.
BeginExecute(c, p) ==
  /\ At(c, "idle")
  /\ row[p].status = "pending"
  /\ Become(c, [Idle EXCEPT !.id = p,
                  !.at = IF payload[p] = <<>> THEN "failed"
                                              ELSE "checking"])
  /\ UNCHANGED <<content, row, payload, edits, touched>>

\* The file the client is at.
Current(c) == payload[job[c].id][job[c].next]

\* The comparison of _apply_patch.  An empty hash is not compared.
Unchanged(i) ==
  IF content[i.path] = Missing
  THEN i.base = Missing
  ELSE i.base \in {Missing, content[i.path]}

\* Mutant: a batch compares the first file only.
CheckFirst(c) ==
  /\ At(c, "checking")
  /\ GoTo(c, IF job[c].next > 1 \/ Unchanged(Current(c))
             THEN "writing" ELSE "failed")
  /\ touched' = [touched EXCEPT ![c] = {}]
  /\ UNCHANGED <<content, row, payload, edits>>

\* _apply_patch compares the file with the hash; a difference halts.
CheckFile(c) ==
  /\ At(c, "checking")
  /\ GoTo(c, IF Unchanged(Current(c)) THEN "writing" ELSE "failed")
  /\ touched' = [touched EXCEPT ![c] = {}]
  /\ UNCHANGED <<content, row, payload, edits>>

\* Opening the file for writing empties it, or fails.
OpenFile(c) ==
  /\ At(c, "writing")
  /\ \/ /\ Change(Current(c).path, Empty)
        /\ GoTo(c, "filling")
     \/ /\ GoTo(c, "failed")
        /\ UNCHANGED <<content, touched>>
  /\ UNCHANGED <<row, payload, edits>>

\* Mutant: a failed write does not halt the batch.
FillOrSkip(c) ==
  LET id == job[c].id
      last == job[c].next = Len(payload[id])
  IN /\ At(c, "filling")
     /\ \/ /\ Change(Current(c).path, Current(c).new)
           /\ Become(c, [job[c] EXCEPT
                          !.at = IF last THEN "succeeded" ELSE "checking",
                          !.next = @ + 1,
                          !.filled = @ \cup {job[c].next}])
        \/ /\ Become(c, [job[c] EXCEPT
                          !.at = IF last THEN "succeeded" ELSE "checking",
                          !.next = @ + 1])
           /\ UNCHANGED <<content, touched>>
     /\ UNCHANGED <<row, payload, edits>>

\* Mutant: the exception of a failed write ends execute_proposal.
FillOrRaise(c) ==
  LET id == job[c].id
      last == job[c].next = Len(payload[id])
  IN /\ At(c, "filling")
     /\ \/ /\ Change(Current(c).path, Current(c).new)
           /\ Become(c, [job[c] EXCEPT
                          !.at = IF last THEN "succeeded" ELSE "checking",
                          !.next = @ + 1,
                          !.filled = @ \cup {job[c].next}])
        \/ /\ Become(c, Idle)
           /\ UNCHANGED <<content, touched>>
     /\ UNCHANGED <<row, payload, edits>>

\* The text is written and the batch goes on, or the write fails and the
\* batch halts.
FillFile(c) ==
  LET id == job[c].id
      last == job[c].next = Len(payload[id])
  IN /\ At(c, "filling")
     /\ \/ /\ Change(Current(c).path, Current(c).new)
           /\ Become(c, [job[c] EXCEPT
                          !.at = IF last THEN "succeeded" ELSE "checking",
                          !.next = @ + 1,
                          !.filled = @ \cup {job[c].next}])
        \/ /\ GoTo(c, "failed")
           /\ UNCHANGED <<content, touched>>
     /\ UNCHANGED <<row, payload, edits>>

\* Mutant: the status of the row is kept, but the marker is always added.
RecordMarker(c) ==
  LET id == job[c].id
      mark == IF At(c, "succeeded") THEN "ok" ELSE "error"
  IN /\ job[c].at \in {"succeeded", "failed"}
     /\ row' = [row EXCEPT ![id] =
                  [status |-> IF @.status = "pending" THEN "approved" ELSE @.status,
                   mark |-> mark]]
     /\ Become(c, Idle)
     /\ UNCHANGED <<content, payload, edits, touched>>

\* Mutant: the update does not ask whether the row is still pending.
RecordAlways(c) ==
  LET id == job[c].id
      mark == IF At(c, "succeeded") THEN "ok" ELSE "error"
  IN /\ job[c].at \in {"succeeded", "failed"}
     /\ row' = [row EXCEPT ![id] = [status |-> "approved", mark |-> mark]]
     /\ Become(c, Idle)
     /\ UNCHANGED <<content, payload, edits, touched>>

\* The result is recorded as an approval, if the row is still pending.
Record(c) ==
  LET id == job[c].id
      mark == IF At(c, "succeeded") THEN "ok" ELSE "error"
  IN /\ job[c].at \in {"succeeded", "failed"}
     /\ row' = IF row[id].status = "pending"
               THEN [row EXCEPT ![id] = [status |-> "approved", mark |-> mark]]
               ELSE row
     /\ Become(c, Idle)
     /\ UNCHANGED <<content, payload, edits, touched>>

\* decide (/approve, /reject): one transaction, and nothing is executed.
Decide(p, s) ==
  /\ row[p].status = "pending"
  /\ row' = [row EXCEPT ![p].status = s]
  /\ UNCHANGED <<content, payload, job, edits, touched>>

\* The user changes, creates or removes a file.
Edit(f, t) ==
  /\ edits < MaxEdit
  /\ t # content[f]
  /\ Change(f, t)
  /\ edits' = edits + 1
  /\ UNCHANGED <<row, payload, job>>

\* The process of a client dies.
Crash(c) ==
  /\ ~At(c, "dead")
  /\ Become(c, [Idle EXCEPT !.at = "dead"])
  /\ UNCHANGED <<content, row, payload, edits, touched>>

\* The steps of an execution that has begun.
Execute(c) == CheckFile(c) \/ OpenFile(c) \/ FillFile(c) \/ Record(c)

Next ==
  \/ \E c \in Client :
       \/ BeginPropose(c)
       \/ \E p \in Proposal : FinishPropose(c, p) \/ BeginExecute(c, p)
       \/ Execute(c)
       \/ Crash(c)
  \/ \E p \in Proposal :
       QueueTask(p) \/ \E s \in {"approved", "rejected"} : Decide(p, s)
  \/ \E f \in File, t \in Content : Edit(f, t)

Spec == Init /\ [][Next]_vars

\* A thread that executes a proposal keeps running.
FairSpec == Spec /\ \A c \in Client : WF_vars(Execute(c))

-----------------------------------------------------------------------------

Decided == {"approved", "rejected"}

TypeOK ==
  /\ content \in [File -> Content]
  /\ row \in [Proposal -> Row]
  /\ \A p \in Proposal : row[p].mark # "none" => row[p].status = "approved"
  /\ payload \in [Proposal -> Seq(Item)]
  /\ \A p \in Proposal : Len(payload[p]) <= MaxItems
  /\ job \in [Client -> Job]
  /\ \A c \in Client :
       job[c].at \in {"checking", "writing", "filling"}
         => job[c].next <= Len(payload[job[c].id])
  /\ edits \in 0 .. MaxEdit
  /\ touched \in [Client -> SUBSET File]

\* What was decided about a proposal stands: an execution that ends after a
\* decision, or after another execution of the same proposal, changes neither
\* the status nor the marker that the first one left.
DecisionStands ==
  [][\A p \in Proposal : row[p].status \in Decided => row'[p] = row[p]]_vars

\* The marker "executed:ok" is put on a proposal only by an execution that has
\* itself written every file of it, however many others ran, halted or died.
OkMeansWritten ==
  [][\A p \in Proposal :
       row'[p].mark = "ok" /\ row[p].mark # "ok"
         => \E c \in Client :
              /\ job[c].id = p /\ job'[c] = Idle
              /\ payload[p] # <<>> /\ DOMAIN payload[p] \subseteq job[c].filled]_vars

\* A file is written without being what the proposal was made from only when
\* it changed after the executor compared it: each file of a batch is compared
\* right before its own write.  (A proposal to create a file compares nothing.)
ComparedBeforeWrite ==
  \A c \in Client :
    At(c, "writing") => \/ Unchanged(Current(c))
                        \/ Current(c).path \in touched[c]

\* A proposal that somebody started to execute is decided in the end, also
\* when a write fails in the middle, unless the executor's process dies.
ExecutionDecides ==
  \A c \in Client, p \in Proposal :
    job[c].id = p ~> (row[p].status \in Decided \/ At(c, "dead"))

\* "Applying a patch checks a stored SHA-256 hash to make sure the file has
\* not changed since proposal generation." (docs/workspace_tools.md, line 21):
\* what a patch overwrites is what the patch was made from.
OverwritesOnlyBase ==
  [][\A c \in Client :
       At(c, "writing") /\ job'[c].at = "filling"
         => content[Current(c).path] = Current(c).base]_vars

\* "Executes approved action proposals." (action_executor.py, line 9): no file
\* is written for a proposal that was rejected before.
RejectedStaysUnwritten ==
  [][\A c \in Client :
       At(c, "writing") /\ job'[c].at = "filling"
         => row[job[c].id].status # "rejected"]_vars
=============================================================================
