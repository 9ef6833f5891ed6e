---------------------------- MODULE RecordProofs ----------------------------
(***************************************************************************)
(* What holds of the records of jobs, of the user, of handoffs, of         *)
(* lessons, of topics, of documents and of the library, for any number of  *)
(* jobs, threads, fields, processes, cycles, crashes, documents and items; *)
(* and, with the requests, of the eight components that MC_Records runs    *)
(* together.                                                               *)
(*                                                                         *)
(* That cancellations and confirmed rows stand survives each step by       *)
(* itself: a late report writes no flag, and a save that was prepared      *)
(* earlier writes only rows that are none or forgotten by then.  The rest  *)
(* needs more: what a call that is half-way counts on must survive the     *)
(* steps of all others (DutyFits, StudyFits, WriterFits, IngestFits), and  *)
(* does as the call is alone with what it writes: with the handoff of a    *)
(* routing (DutiesApart), with a new cycle (CyclesApart), with a document  *)
(* outside clash, with an item outside overlap.                            *)
(***************************************************************************)
EXTENDS MC_Records, ExternalRequestsProofs, FiniteSetTheorems, TLAPS

JobInv == JobTypeOK /\ CancelSticks

LEMMA NoNewsType ==
  NoNews \in [of : Job \cup {NoJob}, cancel : BOOLEAN, done : SUBSET Agent]
  BY DEF NoNews

LEMMA JobInitInv == JobInit => JobInv
  BY NoNewsType DEF JobInit, JobInv, JobTypeOK, CancelSticks, JobStatus, JobStage

\* A step that changes one row of the table.
LEMMA JobRow ==
  ASSUME JobInv, NEW j \in Job, NEW row,
         row \in [status : JobStatus, stage : JobStage, cancel : BOOLEAN, done : SUBSET Agent],
         job' = [job EXCEPT ![j] = row], accepted' \subseteq Job,
         \A i \in Job \ {j} : i \in accepted' <=> i \in accepted,
         row.cancel <=> j \in accepted'
  PROVE  /\ job' \in [Job -> [status : JobStatus, stage : JobStage, cancel : BOOLEAN,
                               done : SUBSET Agent]]
         /\ CancelSticks'
<1>1. job' \in [Job -> [status : JobStatus, stage : JobStage, cancel : BOOLEAN,
                         done : SUBSET Agent]]
      /\ job'[j] = row /\ \A i \in Job \ {j} : job'[i] = job[i]
  BY DEF JobInv, JobTypeOK
<1>2. QED
  BY <1>1 DEF JobInv, CancelSticks

LEMMA JobNextInv == JobInv /\ [JobNext]_jobVars => JobInv'
<1> SUFFICES ASSUME JobInv, [JobNext]_jobVars PROVE JobInv'
  OBVIOUS
<1> USE DEF JobInv, JobTypeOK
<1>1. ASSUME NEW j \in Job, StartJob(j) PROVE JobInv'
  <2> DEFINE row == [job[j] EXCEPT !.status = "running", !.stage = "queued", !.cancel = FALSE]
  <2>1. row \in [status : JobStatus, stage : JobStage, cancel : BOOLEAN, done : SUBSET Agent]
        /\ row.cancel = FALSE
    BY DEF JobStatus, JobStage
  <2>2. job' = [job EXCEPT ![j] = row]
    BY <1>1 DEF StartJob
  <2> HIDE DEF row
  <2>3. QED
    BY <1>1, <2>1, <2>2, JobRow DEF StartJob
<1>2. ASSUME NEW j \in Job, RegisterJob(j) PROVE JobInv'
  BY <1>2 DEF RegisterJob, CancelSticks
<1>3. ASSUME NEW j \in Job, RequestJobCancel(j) PROVE JobInv'
  <2> DEFINE row == [job[j] EXCEPT !.stage = "cancel_requested", !.cancel = TRUE]
  <2>1. row \in [status : JobStatus, stage : JobStage, cancel : BOOLEAN, done : SUBSET Agent]
        /\ row.cancel = TRUE
    BY DEF JobStatus, JobStage
  <2>2. job' = [job EXCEPT ![j] = row]
    BY <1>3 DEF RequestJobCancel
  <2> HIDE DEF row
  <2>3. QED
    BY <1>3, <2>1, <2>2, JobRow DEF RequestJobCancel
<1>4. ASSUME NEW j \in Job, FinishJob(j) PROVE JobInv'
  <2>1. PICK mark \in {"completed", "failed", "cancelled"} :
          job' = [job EXCEPT ![j].status = mark, ![j].stage = "finished"]
    BY <1>4 DEF FinishJob
  <2> DEFINE row == [job[j] EXCEPT !.status = mark, !.stage = "finished"]
  <2>2. mark \in JobStatus
    BY <2>1 DEF JobStatus
  <2>3. row \in [status : JobStatus, stage : JobStage, cancel : BOOLEAN, done : SUBSET Agent]
        /\ row.cancel = job[j].cancel
    BY <2>2 DEF JobStage
  <2>4. job' = [job EXCEPT ![j] = row]
    BY <2>1
  <2>5. job[j].cancel <=> j \in accepted
    BY DEF CancelSticks
  <2> HIDE DEF row
  <2>6. QED
    BY <1>4, <2>3, <2>4, <2>5, JobRow DEF FinishJob
<1>5. ASSUME NEW j \in Job, UnregisterJob(j) PROVE JobInv'
  BY <1>5 DEF UnregisterJob, CancelSticks
<1>6. ASSUME NEW p \in Reporter, NEW j \in Job, ReadTracker(p, j) PROVE JobInv'
  <2>1. PICK done \in {{}, job[j].done} \cup {job[j].done \cup {a} : a \in Agent} :
          reporter' = [reporter EXCEPT ![p] = [of |-> j, cancel |-> job[j].cancel, done |-> done]]
    BY <1>6 DEF ReadTracker
  <2>2. done \subseteq Agent
    BY <2>1
  <2>3. [of |-> j, cancel |-> job[j].cancel, done |-> done]
          \in [of : Job \cup {NoJob}, cancel : BOOLEAN, done : SUBSET Agent]
    BY <2>2
  <2>4. QED
    BY <1>6, <2>1, <2>3 DEF ReadTracker, CancelSticks
<1>7. ASSUME NEW p \in Reporter, NEW j \in Job, j = reporter[p].of, WriteProgress(p)
      PROVE  JobInv'
  <2> DEFINE row == [job[j] EXCEPT !.stage = "progress", !.done = reporter[p].done]
  <2>1. row \in [status : JobStatus, stage : JobStage, cancel : BOOLEAN, done : SUBSET Agent]
        /\ row.cancel = job[j].cancel
    BY DEF JobStage
  <2>2. /\ job' = [job EXCEPT ![j].stage = "progress", ![j].done = reporter[p].done]
        /\ registered' = registered /\ leaving' = leaving /\ accepted' = accepted
        /\ reporter' = [reporter EXCEPT ![p] = NoNews]
    BY <1>7 DEF WriteProgress
  <2>3. job' = [job EXCEPT ![j] = row]
    BY <2>2
  <2>4. job[j].cancel <=> j \in accepted
    BY DEF CancelSticks
  <2> HIDE DEF row
  <2>5. /\ job' \in [Job -> [status : JobStatus, stage : JobStage, cancel : BOOLEAN,
                              done : SUBSET Agent]]
        /\ CancelSticks'
    BY <2>1, <2>2, <2>3, <2>4, JobRow
  <2>6. QED
    BY <2>2, <2>5, NoNewsType
<1>8. CASE UNCHANGED jobVars
  BY <1>8 DEF jobVars, CancelSticks
<1>9. \A p \in Reporter : WriteProgress(p) => reporter[p].of \in Job
  BY DEF WriteProgress
<1>10. QED
  BY <1>1, <1>2, <1>3, <1>4, <1>5, <1>6, <1>7, <1>8, <1>9 DEF JobNext

\* A cancellation that the runner accepted stays in the row until the job is started
\* again, for any jobs and reports (request_cancel, update_job, finish_job).
THEOREM CancellationsStick == JobSpec => []CancelSticks
<1>1. JobInv => CancelSticks
  BY DEF JobInv
<1>2. QED
  BY <1>1, JobInitInv, JobNextInv, PTL DEF JobSpec

-----------------------------------------------------------------------------

PersonalInv == PersonalTypeOK /\ ConfirmedStands

LEMMA BlankType == Blank \in Snapshot /\ NoSpeech \in
    [at : {"idle", "save", "forget", "pin"}, data : Snapshot, fields : SUBSET Field]
<1>1. 0 \in FieldText
  BY MemoryAssumption DEF FieldText
<1>2. QED
  BY <1>1 DEF Blank, NoSpeech, Snapshot

LEMMA PersonalInitInv == PersonalInit => PersonalInv
<1> SUFFICES ASSUME PersonalInit PROVE PersonalInv
  OBVIOUS
<1>1. PICK old \in Snapshot :
        /\ record = [f \in Field |-> [status |-> IF old[f] = 0 THEN "none" ELSE "confirmed",
                                      text |-> old[f]]]
        /\ word = old
  BY DEF PersonalInit
<1>2. \A f \in Field : old[f] \in FieldText
  BY DEF Snapshot
<1>3. PersonalTypeOK
  BY <1>1, <1>2, BlankType DEF PersonalInit, PersonalTypeOK, RecordStatus
<1>4. ConfirmedStands
  BY <1>1 DEF ConfirmedStands, Active
<1>5. QED
  BY <1>3, <1>4 DEF PersonalInv

LEMMA RecalledType == PersonalTypeOK => Recalled \in Snapshot
<1>1. 0 \in FieldText
  BY MemoryAssumption DEF FieldText
<1>2. QED
  BY <1>1 DEF PersonalTypeOK, Recalled, Snapshot, Active

LEMMA PersonalNextInv == PersonalInv /\ [PersonalNext]_personalVars => PersonalInv'
<1> SUFFICES ASSUME PersonalInv, [PersonalNext]_personalVars PROVE PersonalInv'
  OBVIOUS
<1> USE DEF PersonalInv
<1> DEFINE Speech == [at : {"idle", "save", "forget", "pin"}, data : Snapshot,
                      fields : SUBSET Field]
<1>1. ASSUME NEW s \in Speaker, NEW f \in Field, NEW text \in FieldText \ {0},
             NEW new \in BOOLEAN, CaptureText(s, f, text, new)
      PROVE  PersonalInv'
  <2>1. [Recalled EXCEPT ![f] = text] \in Snapshot
    BY RecalledType DEF Snapshot
  <2>2. [at |-> "save", fields |-> {}, data |-> [Recalled EXCEPT ![f] = text]] \in Speech
    BY <2>1
  <2>3. speaker' \in [Speaker -> Speech]
    BY <1>1, <2>2 DEF CaptureText, PersonalTypeOK
  <2>4. PersonalTypeOK'
    BY <1>1, <2>3 DEF CaptureText, PersonalTypeOK
  <2>5. ConfirmedStands'
    BY <1>1 DEF CaptureText, ConfirmedStands, Active
  <2>6. QED
    BY <2>4, <2>5
<1>2. ASSUME NEW s \in Speaker, SaveCapture(s) PROVE PersonalInv'
  <2> DEFINE data == speaker[s].data
  <2>1. data \in Snapshot
    BY DEF PersonalTypeOK
  <2>2. \A f \in Field : record[f] \in [status : RecordStatus, text : FieldText]
                        /\ data[f] \in FieldText
    BY <2>1 DEF PersonalTypeOK, Snapshot
  <2>3. record' = [f \in Field |->
                     IF data[f] # 0 /\ Overrides(record[f], data[f])
                     THEN [status |-> "captured", text |-> data[f]] ELSE record[f]]
    BY <1>2 DEF SaveCapture
  <2>4. record' \in [Field -> [status : RecordStatus, text : FieldText]]
    BY <2>2, <2>3 DEF RecordStatus
  <2>5. PersonalTypeOK'
    BY <1>2, <2>4, BlankType DEF SaveCapture, PersonalTypeOK
  <2>6. ASSUME NEW f \in Field, word'[f] # 0
        PROVE  Active(f)' /\ record'[f].text = word'[f]
    <3>1. Active(f) /\ record[f].text = word[f] /\ word' = word
      BY <1>2, <2>6 DEF SaveCapture, ConfirmedStands
    <3>2. ~Overrides(record[f], data[f])
      BY <3>1 DEF Active, Overrides
    <3>3. record'[f] = record[f]
      BY <2>3, <3>2
    <3>4. QED
      BY <3>1, <3>3 DEF Active
  <2>7. QED
    BY <2>5, <2>6 DEF ConfirmedStands
<1>3. ASSUME NEW s \in Speaker, NEW command \in {"forget", "pin"}, NEW fields \in SUBSET Field,
             MatchRecords(s, command, fields)
      PROVE  PersonalInv'
  <2>1. [at |-> command, data |-> Blank, fields |-> fields] \in Speech
    BY BlankType
  <2>2. QED
    BY <1>3, <2>1 DEF MatchRecords, PersonalTypeOK, ConfirmedStands, Active
<1>4. ASSUME NEW s \in Speaker, NEW f \in Field, MarkRecord(s, f) PROVE PersonalInv'
  <2> DEFINE pinned == speaker[s].at = "pin"
             mark == IF pinned THEN "pinned" ELSE "forgotten"
  <2>1. /\ record' = [record EXCEPT ![f].status = mark]
        /\ word' = [word EXCEPT ![f] = IF pinned THEN record[f].text ELSE 0]
        /\ dropped' = IF pinned THEN dropped \ {f} ELSE dropped \cup {f}
        /\ speaker' = [speaker EXCEPT ![s] = IF speaker[s].fields \ {f} = {} THEN NoSpeech
                                 ELSE [@ EXCEPT !.fields = speaker[s].fields \ {f}]]
        /\ told' = told
    BY <1>4 DEF MarkRecord
  <2>2. mark \in RecordStatus
    BY DEF RecordStatus
  <2>3. record' \in [Field -> [status : RecordStatus, text : FieldText]]
    BY <2>1, <2>2 DEF PersonalTypeOK
  <2>4. word' \in Snapshot
    <3>1. 0 \in FieldText
      BY MemoryAssumption DEF FieldText
    <3>2. QED
      BY <2>1, <3>1 DEF PersonalTypeOK, Snapshot
  <2>5. speaker' \in [Speaker -> Speech]
    BY <2>1, BlankType DEF PersonalTypeOK
  <2>6. PersonalTypeOK'
    BY <2>1, <2>3, <2>4, <2>5 DEF PersonalTypeOK
  <2>7. \A g \in Field \ {f} : record'[g] = record[g] /\ word'[g] = word[g]
    BY <2>1 DEF PersonalTypeOK, Snapshot
  <2>8. /\ record'[f].status = mark /\ record'[f].text = record[f].text
        /\ word'[f] = IF pinned THEN record[f].text ELSE 0
    BY <2>1 DEF PersonalTypeOK, Snapshot
  <2>9. ConfirmedStands'
    BY <2>7, <2>8 DEF ConfirmedStands, Active
  <2>10. QED
    BY <2>6, <2>9
<1>5. CASE UNCHANGED personalVars
  BY <1>5 DEF personalVars, PersonalTypeOK, ConfirmedStands, Active
<1>6. QED
  BY <1>1, <1>2, <1>3, <1>4, <1>5 DEF PersonalNext

\* What the user confirmed or pinned is what is recalled, for any fields, texts and
\* turns under way (save, update_record_status).
THEOREM ConfirmedIsRecalled == PersonalSpec => []ConfirmedStands
<1>1. PersonalInv => ConfirmedStands
  BY DEF PersonalInv
<1>2. QED
  BY <1>1, PersonalInitInv, PersonalNextInv, PTL DEF PersonalSpec

-----------------------------------------------------------------------------

Decided == inboxFile \cup deniedFile

DutyRow == [at : Duty, of : Handoff \cup {"none"}, for : Errand \cup {NoErrand},
            rows : [Errand -> ErrandStatus]]

\* Actions that are called routed have a decided handoff of their own.
RoutedIn(rows, decided, use) ==
  \A a \in Errand : rows[a] = "routed" => \E h \in Handoff : use[h] = a /\ h \in decided

\* What is asked of a call, given the pending and the decided handoffs and what
\* the handoffs are for.
DutyFits(d, pending, decided, use) ==
  /\ d \in DutyRow
  /\ RoutedIn(d.rows, decided, use)
  /\ d.at = "create" => /\ d.of \in Handoff /\ d.for # NoErrand
                        /\ d.of \notin pending \cup decided
  /\ d.at \in {"inbox", "deny"} => d.of \in pending \cup decided
  /\ d.at \in {"unlink", "discard"} => d.of \in decided
  /\ d.at \in {"approve", "mark", "save"} => d.for # NoErrand
  /\ d.for # NoErrand =>
       /\ d.at \in {"create", "approve", "inbox", "unlink", "check", "template", "mark", "save"}
       /\ d.of = "none" => d.at = "save"
       /\ d.at # "create" /\ d.of # "none" => d.of \in Handoff /\ use[d.of] = d.for
       /\ d.at = "approve" => d.of \in pending \cup decided
       /\ d.at \in {"unlink", "check", "template", "mark", "save"} /\ d.of # "none" => d.of \in decided

\* The handoff of a routing is its own until it is created.
DutiesApart ==
  \A p, q \in Clerk : p # q /\ clerk[p].at = "create" /\ clerk[q].for # NoErrand
                        => clerk[q].of # clerk[p].of

HandoffInv ==
  /\ clerk \in [Clerk -> DutyRow]
  /\ purpose \in [Handoff -> Errand \cup {NoErrand}]
  /\ errand \in [Errand -> ErrandStatus]
  /\ \A p \in Clerk : DutyFits(clerk[p], pendingFile, Decided, purpose)
  /\ DutiesApart
  /\ RoutedHasHandoff

LEMMA OpenRows ==
  /\ AllOpen \in [Errand -> ErrandStatus]
  /\ \A decided, use : RoutedIn(AllOpen, decided, use)
  BY DEF AllOpen, ErrandStatus, RoutedIn

LEMMA NoDutyFits ==
  ASSUME NEW pending, NEW recorded, NEW use
  PROVE  DutyFits(NoDuty, pending, recorded, use) /\ NoDuty.for = NoErrand /\ NoDuty.at = "idle"
  BY OpenRows DEF DutyFits, NoDuty, DutyRow, Duty

LEMMA HandoffInitInv == HandoffInit => HandoffInv
<1> SUFFICES ASSUME HandoffInit PROVE HandoffInv
  OBVIOUS
<1>1. \A p \in Clerk : clerk[p] = NoDuty
  BY DEF HandoffInit
<1>2. NoDuty \in DutyRow
  BY OpenRows DEF NoDuty, DutyRow, Duty
<1>3. clerk \in [Clerk -> DutyRow]
  BY <1>2 DEF HandoffInit
<1>4. DutiesApart
  BY <1>1, NoDutyFits DEF DutiesApart
<1>5. RoutedHasHandoff
  BY DEF HandoffInit, RoutedHasHandoff, AllOpen
<1>6. QED
  BY <1>1, <1>3, <1>4, <1>5, NoDutyFits, OpenRows DEF HandoffInit, HandoffInv

\* What was routed stays so while the decided handoffs and what they are for stay.
LEMMA RoutedStays ==
  ASSUME NEW rows, RoutedIn(rows, Decided, purpose), Decided \subseteq Decided',
         \A h \in Handoff : h \in Decided => purpose'[h] = purpose[h]
  PROVE  RoutedIn(rows, Decided', purpose')
  BY DEF RoutedIn

\* A call that is at its next step, or another one.
LEMMA DutyMoves ==
  ASSUME HandoffInv, NEW p \in Clerk, NEW d, clerk' = [clerk EXCEPT ![p] = d],
         DutyFits(d, pendingFile', Decided', purpose'),
         purpose' \in [Handoff -> Errand \cup {NoErrand}],
         errand' \in [Errand -> ErrandStatus],
         Decided \subseteq Decided',
         \A h \in Handoff : h \in Decided => purpose'[h] = purpose[h],
         pendingFile \cup Decided \subseteq pendingFile' \cup Decided',
         \A q \in Clerk \ {p} :
           /\ clerk[q].at = "create" => clerk[q].of \notin pendingFile' \cup Decided'
           /\ clerk[q].for # NoErrand /\ clerk[q].at # "create" /\ clerk[q].of # "none"
                => purpose'[clerk[q].of] = purpose[clerk[q].of]
           /\ d.at = "create" /\ clerk[q].for # NoErrand => clerk[q].of # d.of
           /\ clerk[q].at = "create" /\ d.for # NoErrand => d.of # clerk[q].of,
         RoutedHasHandoff'
  PROVE  HandoffInv'
<1>1. /\ clerk' \in [Clerk -> DutyRow] /\ clerk'[p] = d
      /\ \A q \in Clerk \ {p} : clerk'[q] = clerk[q]
  BY DEF HandoffInv, DutyFits
<1>2. \A q \in Clerk : DutyFits(clerk'[q], pendingFile', Decided', purpose')
  <2> SUFFICES ASSUME NEW q \in Clerk \ {p}
               PROVE  DutyFits(clerk[q], pendingFile', Decided', purpose')
    BY <1>1
  <2>1. DutyFits(clerk[q], pendingFile, Decided, purpose)
    BY DEF HandoffInv
  <2>2. RoutedIn(clerk[q].rows, Decided', purpose')
    BY <2>1, RoutedStays DEF DutyFits
  <2>3. QED
    BY <2>1, <2>2 DEF DutyFits
<1>3. DutiesApart'
  BY <1>1 DEF DutiesApart, HandoffInv
<1>4. QED
  BY <1>1, <1>2, <1>3 DEF HandoffInv

\* A step of a call that at most moves its own handoff from one directory to another.
LEMMA FilesStay ==
  ASSUME HandoffInv, NEW p \in Clerk, NEW d, clerk' = [clerk EXCEPT ![p] = d],
         DutyFits(d, pendingFile', Decided', purpose), d.at # "create",
         d.for # NoErrand => d.of = "none" \/ (d.for = clerk[p].for /\ d.of = clerk[p].of),
         UNCHANGED <<purpose, errand>>,
         Decided \subseteq Decided',
         pendingFile' \cup Decided' = pendingFile \cup Decided
  PROVE  HandoffInv'
<1>1. \A q \in Clerk : clerk[q].at = "create" => /\ clerk[q].of \notin pendingFile \cup Decided
                                                /\ clerk[q].of # "none"
  BY HandoffAssumption DEF HandoffInv, DutyFits
<1>2. \A q \in Clerk \ {p} : clerk[q].at = "create" /\ d.for # NoErrand => d.of # clerk[q].of
  BY <1>1 DEF HandoffInv, DutiesApart
<1>3. RoutedHasHandoff'
  BY DEF HandoffInv, RoutedHasHandoff, Decided
<1>4. \A q \in Clerk \ {p} :
        /\ clerk[q].at = "create" => clerk[q].of \notin pendingFile' \cup Decided'
        /\ clerk[q].for # NoErrand /\ clerk[q].at # "create" /\ clerk[q].of # "none"
             => purpose'[clerk[q].of] = purpose[clerk[q].of]
        /\ d.at = "create" /\ clerk[q].for # NoErrand => clerk[q].of # d.of
        /\ clerk[q].at = "create" /\ d.for # NoErrand => d.of # clerk[q].of
  BY <1>1, <1>2
<1>5. /\ DutyFits(d, pendingFile', Decided', purpose')
      /\ purpose' \in [Handoff -> Errand \cup {NoErrand}]
      /\ errand' \in [Errand -> ErrandStatus]
      /\ \A h \in Handoff : h \in Decided => purpose'[h] = purpose[h]
      /\ pendingFile \cup Decided \subseteq pendingFile' \cup Decided'
  BY DEF HandoffInv
<1>6. QED
  BY <1>3, <1>4, <1>5, DutyMoves

\* The same for a call that goes on to another step.
LEMMA StepStays ==
  ASSUME HandoffInv, NEW p \in Clerk, NEW at \in Duty, Turns(p, at),
         at \notin {"create", "approve", "save"},
         at \in {"inbox", "deny"} => clerk[p].of \in pendingFile' \cup Decided',
         at \in {"unlink", "discard"} => clerk[p].of \in Decided',
         at = "mark" => clerk[p].for # NoErrand,
         clerk[p].for # NoErrand =>
           /\ at \in {"inbox", "unlink", "check", "template", "mark"}
           /\ clerk[p].at \notin {"create", "save"} /\ (at # "inbox" => clerk[p].of \in Decided'),
         UNCHANGED <<purpose, errand>>,
         Decided \subseteq Decided',
         pendingFile' \cup Decided' = pendingFile \cup Decided
  PROVE  HandoffInv'
<1> DEFINE d == [clerk[p] EXCEPT !.at = at]
<1>1. clerk[p] \in DutyRow /\ DutyFits(clerk[p], pendingFile, Decided, purpose)
  BY DEF HandoffInv
<1>2. /\ d \in DutyRow /\ d.at = at /\ d.of = clerk[p].of /\ d.for = clerk[p].for
      /\ d.rows = clerk[p].rows
  BY <1>1 DEF DutyRow
<1>3. clerk' = [clerk EXCEPT ![p] = d]
  BY <1>1 DEF Turns, HandoffInv
<1> HIDE DEF d
<1>4. RoutedIn(d.rows, Decided', purpose)
  BY <1>1, <1>2 DEF DutyFits, RoutedIn
<1>5. DutyFits(d, pendingFile', Decided', purpose)
  BY <1>1, <1>2, <1>4 DEF DutyFits
<1>6. QED
  BY <1>2, <1>3, <1>5, FilesStay

\* And for a call that ends.
LEMMA EndStays ==
  ASSUME HandoffInv, NEW p \in Clerk, clerk' = [clerk EXCEPT ![p] = NoDuty],
         UNCHANGED <<purpose, errand>>,
         Decided \subseteq Decided',
         pendingFile' \cup Decided' = pendingFile \cup Decided
  PROVE  HandoffInv'
<1>1. NoDuty.at # "create" /\ NoDuty.for = NoErrand
  BY NoDutyFits
<1>2. DutyFits(NoDuty, pendingFile', Decided', purpose)
  BY NoDutyFits
<1>3. QED
  BY <1>1, <1>2, FilesStay

LEMMA ThenStays ==
  ASSUME HandoffInv, NEW p \in Clerk, Then(p),
         clerk[p].for # NoErrand => clerk[p].at \notin {"create", "save"} /\ clerk[p].of \in Decided',
         UNCHANGED <<purpose, errand>>,
         Decided \subseteq Decided',
         pendingFile' \cup Decided' = pendingFile \cup Decided
  PROVE  HandoffInv'
<1>1. CASE clerk[p].for = NoErrand
  BY <1>1, EndStays DEF Then
<1>2. CASE clerk[p].for # NoErrand
  BY <1>2, StepStays DEF Then, Duty
<1>3. QED
  BY <1>1, <1>2

LEMMA HandoffNextInv == HandoffInv /\ [HandoffNext]_handoffVars => HandoffInv'
<1> SUFFICES ASSUME HandoffInv, [HandoffNext]_handoffVars PROVE HandoffInv'
  OBVIOUS
<1>1. \A p \in Clerk : clerk[p] \in DutyRow /\ DutyFits(clerk[p], pendingFile, Decided, purpose)
  BY DEF HandoffInv
<1>2. \A p \in Clerk : clerk[p].for # NoErrand =>
        clerk[p].at \in {"create", "approve", "inbox", "unlink", "check", "template", "mark", "save"}
  BY <1>1 DEF DutyFits
<1>3. {"inbox", "unlink", "discard", "check", "template", "mark"} \subseteq Duty
  BY DEF Duty
<1>4. ASSUME NEW p \in Clerk, NEW h \in Handoff, CreateHandoff(p, h) PROVE HandoffInv'
  <2>1. UNCHANGED <<clerk, purpose, errand, inboxFile, deniedFile>> /\ Decided' = Decided
    BY <1>4 DEF CreateHandoff, Decided
  <2>2. pendingFile' = pendingFile \cup {h} /\ \A q \in Clerk : clerk[q].of # h
    BY <1>4 DEF CreateHandoff, Fresh
  <2>3. \A q \in Clerk : DutyFits(clerk[q], pendingFile', Decided', purpose)
    BY <1>1, <2>1, <2>2 DEF DutyFits
  <2>4. QED
    BY <2>1, <2>3 DEF HandoffInv, DutiesApart, RoutedHasHandoff
<1>5. ASSUME NEW p \in Clerk, NEW a \in Errand, NEW h \in Handoff, RouteErrand(p, a, h)
      PROVE  HandoffInv'
  <2> DEFINE d == [NoDuty EXCEPT !.at = "create", !.of = h, !.for = a]
  <2>1. clerk' = [clerk EXCEPT ![p] = d] /\ UNCHANGED <<purpose, errand, pendingFile>>
        /\ Decided' = Decided
    BY <1>5 DEF RouteErrand, fileVars, Decided
  <2>2. d \in DutyRow /\ d.at = "create" /\ d.of = h /\ d.for = a /\ d.rows = AllOpen
    BY OpenRows DEF NoDuty, DutyRow, Duty
  <2> HIDE DEF d
  <2>3. h \notin pendingFile \cup Decided /\ a # NoErrand /\ h # "none"
    BY <1>5, HandoffAssumption DEF RouteErrand, Fresh, Decided
  <2>4. DutyFits(d, pendingFile, Decided, purpose)
    BY <2>2, <2>3, OpenRows DEF DutyFits
  <2>5. \A q \in Clerk : clerk[q].of # d.of
    BY <1>5, <2>2 DEF RouteErrand, Fresh
  <2>6. \A q \in Clerk : clerk[q].at = "create" => clerk[q].of \notin pendingFile \cup Decided
    BY <1>1 DEF DutyFits
  <2>7. RoutedHasHandoff'
    BY <1>5 DEF HandoffInv, RoutedHasHandoff, RouteErrand, fileVars
  <2>8. QED
    BY <2>1, <2>2, <2>5, <2>6, <2>7, <2>4, DutyMoves DEF HandoffInv
<1>6. ASSUME NEW p \in Clerk, CreateRouted(p) PROVE HandoffInv'
  <2> DEFINE d == [clerk[p] EXCEPT !.at = "approve"]
  <2>1. /\ clerk[p].at = "create" /\ clerk[p].of \in Handoff /\ clerk[p].for # NoErrand
        /\ clerk[p].of \notin pendingFile \cup Decided /\ clerk[p].for \in Errand
    BY <1>1, <1>6 DEF CreateRouted, AtDuty, DutyFits, DutyRow
  <2>2. /\ d \in DutyRow /\ d.at = "approve" /\ d.of = clerk[p].of /\ d.for = clerk[p].for
        /\ d.rows = clerk[p].rows
    BY <1>1 DEF DutyRow, Duty
  <2>3. clerk' = [clerk EXCEPT ![p] = d]
    BY <1>6 DEF CreateRouted, Turns, HandoffInv
  <2> HIDE DEF d
  <2>4. /\ purpose' \in [Handoff -> Errand \cup {NoErrand}]
        /\ purpose'[d.of] = d.for
        /\ \A h \in Handoff : h # d.of => purpose'[h] = purpose[h]
        /\ pendingFile' = pendingFile \cup {d.of} /\ Decided' = Decided /\ errand' = errand
    BY <1>6, <2>1, <2>2 DEF CreateRouted, Of, HandoffInv, Decided
  <2>5. \A h \in Handoff : h \in Decided => purpose'[h] = purpose[h]
    BY <2>1, <2>2, <2>4
  <2>6. RoutedIn(d.rows, Decided', purpose') /\ d.of # "none"
    BY <1>1, <2>1, <2>2, <2>4, <2>5, RoutedStays, HandoffAssumption DEF DutyFits
  <2>7. DutyFits(d, pendingFile', Decided', purpose')
    BY <2>1, <2>2, <2>4, <2>6 DEF DutyFits
  <2>8. \A q \in Clerk \ {p} :
          /\ clerk[q].at = "create" => clerk[q].for # NoErrand
          /\ clerk[q].for # NoErrand => clerk[q].of # d.of
          /\ clerk[q].for # NoErrand /\ clerk[q].at # "create" /\ clerk[q].of # "none"
               => clerk[q].of \in Handoff
          /\ clerk[q].at = "create" => clerk[q].of \notin pendingFile \cup Decided
    BY <1>1, <2>1, <2>2 DEF DutyFits, HandoffInv, DutiesApart
  <2>9. RoutedHasHandoff'
    <3> SUFFICES ASSUME NEW a \in Errand, errand[a] = "routed"
                 PROVE  \E h \in Handoff : purpose'[h] = a /\ h \in Decided'
      BY <2>4 DEF RoutedHasHandoff, Decided
    <3>1. PICK h \in Handoff : purpose[h] = a /\ h \in Decided
      BY DEF HandoffInv, RoutedHasHandoff, Decided
    <3>2. QED
      BY <2>1, <2>2, <2>4, <3>1
  <2>10. QED
    BY <2>2, <2>3, <2>4, <2>7, <2>8, <2>9, <2>5, DutyMoves DEF HandoffInv
<1>7. ASSUME NEW p \in Clerk, NEW h \in Handoff,
             NEW at \in {"inbox", "deny", "resync", "sync", "take"}, Takes(p, at, h),
             at \in {"inbox", "deny"} => h \in pendingFile,
             UNCHANGED <<fileVars, errand>>
      PROVE  HandoffInv'
  <2> DEFINE d == [NoDuty EXCEPT !.at = at, !.of = h]
  <2>1. clerk' = [clerk EXCEPT ![p] = d]
    BY <1>7 DEF Takes
  <2>2. d \in DutyRow /\ d.at = at /\ d.for = NoErrand /\ d.of = h /\ d.rows = AllOpen
    BY OpenRows DEF NoDuty, DutyRow, Duty
  <2> HIDE DEF d
  <2>3. UNCHANGED <<purpose, errand, pendingFile>> /\ Decided' = Decided
    BY <1>7 DEF fileVars, Decided
  <2>4. DutyFits(d, pendingFile', Decided', purpose)
    BY <1>7, <2>2, <2>3, OpenRows DEF DutyFits
  <2>5. QED
    BY <2>1, <2>2, <2>4, <2>3, FilesStay
<1>8. ASSUME NEW p \in Clerk, WriteInbox(p) PROVE HandoffInv'
  <2>1. clerk[p].at = "inbox" /\ UNCHANGED <<purpose, errand, pendingFile>>
        /\ Turns(p, "unlink") /\ Decided' = Decided \cup {clerk[p].of}
    BY <1>8 DEF WriteInbox, AtDuty, Of, Decided
  <2>2. clerk[p].of \in pendingFile \cup Decided
    BY <1>1, <2>1 DEF DutyFits
  <2>3. QED
    BY <1>3, <2>1, <2>2, StepStays
<1>9. ASSUME NEW p \in Clerk, ReadPending(p) PROVE HandoffInv'
  <2>1. clerk[p].at = "approve" /\ UNCHANGED <<purpose, errand, pendingFile>> /\ Decided' = Decided
        /\ Turns(p, IF clerk[p].of \in pendingFile THEN "inbox" ELSE "mark")
    BY <1>9 DEF ReadPending, AtDuty, Of, Decided, fileVars
  <2>2. clerk[p].for # NoErrand /\ clerk[p].of \in pendingFile \cup Decided
    BY <1>1, <2>1 DEF DutyFits
  <2>3. CASE clerk[p].of \in pendingFile
    BY <1>3, <2>1, <2>2, <2>3, StepStays
  <2>4. CASE clerk[p].of \notin pendingFile
    BY <1>3, <2>1, <2>2, <2>4, StepStays
  <2>5. QED
    BY <2>3, <2>4
<1>10. ASSUME NEW p \in Clerk, UnlinkApproved(p) PROVE HandoffInv'
  <2>1. clerk[p].of \in Decided /\ clerk[p].at = "unlink"
    BY <1>1, <1>10 DEF UnlinkApproved, AtDuty, DutyFits
  <2>2. /\ Turns(p, "check") /\ Decided' = Decided /\ UNCHANGED <<purpose, errand>>
        /\ pendingFile' = pendingFile \ {clerk[p].of}
    BY <1>10 DEF UnlinkApproved, Decided, Of
  <2>3. QED
    BY <1>3, <2>1, <2>2, StepStays
<1>11. ASSUME NEW p \in Clerk, clerk[p].at \in {"check", "sync"},
              Turns(p, "template") \/ Then(p), UNCHANGED <<purpose, errand, pendingFile, inboxFile, deniedFile>>
       PROVE  HandoffInv'
  <2>1. Decided' = Decided
    BY <1>11 DEF Decided
  <2>2. clerk[p].for # NoErrand => clerk[p].at \notin {"create", "save"} /\ clerk[p].of \in Decided
    BY <1>1, <1>11 DEF DutyFits
  <2>3. CASE Turns(p, "template")
    BY <1>3, <1>11, <2>1, <2>2, <2>3, StepStays
  <2>4. CASE Then(p)
    BY <1>11, <2>1, <2>2, <2>4, ThenStays
  <2>5. QED
    BY <1>11, <2>3, <2>4
<1>12. ASSUME NEW p \in Clerk, clerk[p].at \in {"template", "resync", "take"}, Then(p),
              UNCHANGED <<purpose, errand, pendingFile, inboxFile, deniedFile>>
       PROVE  HandoffInv'
  <2>1. Decided' = Decided
    BY <1>12 DEF Decided
  <2>2. clerk[p].for # NoErrand => clerk[p].at \notin {"create", "save"} /\ clerk[p].of \in Decided
    BY <1>1, <1>12 DEF DutyFits
  <2>3. QED
    BY <1>12, <2>1, <2>2, ThenStays
<1>13. ASSUME NEW p \in Clerk, WriteDenied(p) PROVE HandoffInv'
  <2>1. clerk[p].at = "deny" /\ clerk[p].for = NoErrand /\ UNCHANGED <<purpose, errand, pendingFile>>
        /\ Turns(p, "discard") /\ Decided' = Decided \cup {clerk[p].of}
    BY <1>2, <1>13 DEF WriteDenied, AtDuty, Of, Decided
  <2>2. clerk[p].of \in pendingFile \cup Decided
    BY <1>1, <2>1 DEF DutyFits
  <2>3. QED
    BY <1>3, <2>1, <2>2, StepStays
<1>14. ASSUME NEW p \in Clerk, UnlinkDenied(p) PROVE HandoffInv'
  <2>1. clerk[p].of \in Decided /\ clerk[p].at = "discard" /\ clerk[p].for = NoErrand
    BY <1>1, <1>2, <1>14 DEF UnlinkDenied, AtDuty, DutyFits
  <2>2. /\ Then(p) /\ Decided' = Decided /\ UNCHANGED <<purpose, errand>>
        /\ pendingFile' = pendingFile \ {clerk[p].of}
    BY <1>14 DEF UnlinkDenied, Decided, Of
  <2>3. QED
    BY <2>1, <2>2, ThenStays
\* A call that has loaded the actions.
<1>15. ASSUME NEW p \in Clerk, NEW a \in Errand, NEW h \in Handoff \cup {"none"},
              NEW d \in DutyRow, clerk' = [clerk EXCEPT ![p] = d],
              d.at = "save", d.of = h, d.for = a, d.rows = errand, UNCHANGED <<fileVars, errand>>,
              h # "none" => a = clerk[p].for /\ h = clerk[p].of /\ purpose[h] = a /\ h \in Decided
       PROVE  HandoffInv'
  <2>1. UNCHANGED <<purpose, errand, pendingFile>> /\ Decided' = Decided
    BY <1>15 DEF fileVars, Decided
  <2>2. RoutedIn(errand, Decided, purpose)
    BY DEF HandoffInv, RoutedHasHandoff, RoutedIn, Decided
  <2>3. DutyFits(d, pendingFile', Decided', purpose)
    BY <1>15, <2>1, <2>2, HandoffAssumption DEF DutyFits
  <2>4. QED
    BY <1>15, <2>1, <2>3, FilesStay
<1>16. ASSUME NEW p \in Clerk, MarkErrand(p) PROVE HandoffInv'
  <2>1. clerk[p].at = "mark" /\ UNCHANGED <<fileVars, errand>>
    BY <1>16 DEF MarkErrand, AtDuty
  <2>2. CASE clerk' = [clerk EXCEPT ![p] = NoDuty]
    <3>1. UNCHANGED <<purpose, errand, pendingFile>> /\ Decided' = Decided
      BY <2>1 DEF fileVars, Decided
    <3>2. QED
      BY <2>2, <3>1, EndStays
  <2>3. CASE clerk' = [clerk EXCEPT ![p].at = "save", ![p].rows = errand]
    <3> DEFINE d == [clerk[p] EXCEPT !.at = "save", !.rows = errand]
    <3>1. /\ clerk[p].for \in Errand /\ clerk[p].of \in Handoff
          /\ purpose[clerk[p].of] = clerk[p].for /\ clerk[p].of \in Decided
      BY <1>1, <2>1 DEF DutyFits, DutyRow
    <3>2. /\ d \in DutyRow /\ d.at = "save" /\ d.of = clerk[p].of /\ d.for = clerk[p].for
          /\ d.rows = errand
      BY <1>1 DEF DutyRow, Duty, HandoffInv
    <3>3. clerk' = [clerk EXCEPT ![p] = d]
      BY <2>3 DEF HandoffInv
    <3> HIDE DEF d
    <3>4. QED
      BY <1>15, <2>1, <3>1, <3>2, <3>3
  <2>4. QED
    BY <1>16, <2>2, <2>3 DEF MarkErrand
<1>17. ASSUME NEW p \in Clerk, NEW a \in Errand, DecideErrand(p, a) PROVE HandoffInv'
  <2> DEFINE d == [NoDuty EXCEPT !.at = "save", !.for = a, !.rows = errand]
  <2>1. clerk' = [clerk EXCEPT ![p] = d] /\ UNCHANGED <<fileVars, errand>>
    BY <1>17 DEF DecideErrand
  <2>2. d \in DutyRow /\ d.at = "save" /\ d.of = "none" /\ d.for = a /\ d.rows = errand
    BY OpenRows DEF NoDuty, DutyRow, Duty, HandoffInv
  <2> HIDE DEF d
  <2>3. QED
    BY <1>15, <2>1, <2>2
<1>18. ASSUME NEW p \in Clerk, SaveErrand(p) PROVE HandoffInv'
  <2> DEFINE b == clerk[p].for
  <2> DEFINE s == IF clerk[p].of = "none" THEN "decided" ELSE "routed"
  <2>1. /\ clerk[p].at = "save" /\ clerk' = [clerk EXCEPT ![p] = NoDuty]
        /\ UNCHANGED <<purpose, pendingFile, inboxFile, deniedFile>> /\ Decided' = Decided
        /\ errand' = [clerk[p].rows EXCEPT ![b] = s]
    BY <1>18 DEF SaveErrand, AtDuty, Of, fileVars, Decided
  <2>2. /\ b \in Errand /\ clerk[p].rows \in [Errand -> ErrandStatus]
        /\ RoutedIn(clerk[p].rows, Decided, purpose)
        /\ clerk[p].of # "none" =>
             clerk[p].of \in Handoff /\ purpose[clerk[p].of] = b /\ clerk[p].of \in Decided
    BY <1>1, <2>1 DEF DutyFits, DutyRow
  <2>3. s \in ErrandStatus /\ (s = "routed" => clerk[p].of # "none")
    BY DEF ErrandStatus
  <2> HIDE DEF b, s
  <2>4. /\ errand' \in [Errand -> ErrandStatus] /\ errand'[b] = s
        /\ \A a \in Errand \ {b} : errand'[a] = clerk[p].rows[a]
    BY <2>1, <2>2, <2>3
  <2>5. RoutedHasHandoff'
    BY <2>1, <2>2, <2>3, <2>4 DEF RoutedHasHandoff, RoutedIn, Decided
  <2>6. \A q \in Clerk : clerk[q].at = "create" => clerk[q].of \notin pendingFile \cup Decided
    BY <1>1 DEF DutyFits
  <2>7. NoDuty.at # "create" /\ NoDuty.for = NoErrand
        /\ DutyFits(NoDuty, pendingFile', Decided', purpose')
    BY NoDutyFits
  <2>8. purpose' \in [Handoff -> Errand \cup {NoErrand}]
    BY <2>1 DEF HandoffInv
  <2>9. QED
    BY <2>1, <2>4, <2>5, <2>6, <2>7, <2>8, DutyMoves
<1>19. ASSUME NEW p \in Clerk, CrashClerk(p) PROVE HandoffInv'
  <2>1. /\ clerk' = [clerk EXCEPT ![p] = NoDuty] /\ UNCHANGED <<purpose, errand, pendingFile>>
        /\ Decided' = Decided
    BY <1>19 DEF CrashClerk, fileVars, Decided
  <2>2. QED
    BY <2>1, EndStays
<1>20. ASSUME UNCHANGED <<clerk, purpose, errand, pendingFile, inboxFile, deniedFile>> PROVE HandoffInv'
  BY <1>20 DEF HandoffInv, DutiesApart, RoutedHasHandoff, Decided
<1>21. ASSUME NEW p \in Clerk, ClerkStep(p) PROVE HandoffInv'
  <2>1. CASE CheckOutbox(p) \/ SyncMissing(p)
    BY <1>11, <2>1 DEF CheckOutbox, SyncMissing, AtDuty, fileVars
  <2>2. CASE WriteTemplate(p) \/ SyncStale(p) \/ MoveAnswer(p)
    BY <1>12, <2>2 DEF WriteTemplate, SyncStale, MoveAnswer, AtDuty
  <2>3. QED
    BY <1>6, <1>8, <1>10, <1>13, <1>14, <1>16, <1>21, <1>9, <1>18, <2>1, <2>2 DEF ClerkStep
<1>22. ASSUME NEW p \in Clerk, NEW h \in Handoff, BeginDecide(p, h) \/ BeginSync(p, h) \/ TakeAnswer(p, h)
       PROVE  HandoffInv'
  BY <1>7, <1>22 DEF BeginDecide, BeginSync, TakeAnswer
<1>23. CASE UNCHANGED handoffVars
  BY <1>20, <1>23 DEF handoffVars
<1>24. ASSUME NEW h \in Handoff, AdvisorAnswers(h) PROVE HandoffInv'
  BY <1>20, <1>24 DEF AdvisorAnswers
<1>25. QED
  BY <1>4, <1>5, <1>17, <1>19, <1>21, <1>22, <1>23, <1>24 DEF HandoffNext

\* A handoff leaves the pending directory only when the call that removes it has
\* recorded the decision (unlink in approve and deny), for any processes and crashes.
THEOREM DecisionsAreRecorded == HandoffSpec => NoHandoffLost
<1>1. HandoffInv /\ [HandoffNext]_handoffVars =>
        [\A h \in Handoff : h \in pendingFile /\ h \notin pendingFile'
                              => h \in inboxFile' \cup deniedFile']_handoffVars
  <2> SUFFICES ASSUME HandoffInv, HandoffNext, NEW h \in Handoff,
                      h \in pendingFile, h \notin pendingFile'
               PROVE  h \in inboxFile' \cup deniedFile'
    OBVIOUS
  <2>1. PICK p \in Clerk : UnlinkApproved(p) \/ UnlinkDenied(p)
    <3>1. ASSUME NEW p \in Clerk, ClerkStep(p) PROVE UnlinkApproved(p) \/ UnlinkDenied(p)
      BY <3>1 DEF ClerkStep, CreateRouted, ReadPending, WriteInbox, CheckOutbox, WriteTemplate,
                  WriteDenied, SyncMissing, SyncStale, MoveAnswer, MarkErrand, SaveErrand, fileVars
    <3>2. QED
      BY <3>1 DEF HandoffNext, CreateHandoff, BeginDecide, BeginSync, TakeAnswer, RouteErrand,
                  DecideErrand, CrashClerk, AdvisorAnswers, fileVars
  <2>2. h = clerk[p].of /\ UNCHANGED <<inboxFile, deniedFile>>
        /\ clerk[p].at \in {"unlink", "discard"}
    BY <2>1 DEF UnlinkApproved, UnlinkDenied, Of, AtDuty
  <2>3. QED
    BY <2>2 DEF HandoffInv, DutyFits, Decided
<1>2. QED
  BY <1>1, HandoffInitInv, HandoffNextInv, PTL DEF HandoffSpec, NoHandoffLost

\* An action is marked as routed only with a handoff of its own that is recorded
\* (send_pending_action_to_codex), whoever decides or dies meanwhile.
THEOREM RoutingsAreRecorded == HandoffSpec => []RoutedHasHandoff
<1>1. HandoffInv => RoutedHasHandoff
  BY DEF HandoffInv
<1>2. QED
  BY <1>1, HandoffInitInv, HandoffNextInv, PTL DEF HandoffSpec

-----------------------------------------------------------------------------

StudyRow == [at : Desk, topic : Cycle \cup Letter \cup {NoTopic},
             of : {"none", "auto", "answer", "outbox"}, saw : LessonRow,
             change : Change, rows : [Cycle -> CycleRow], stale : BOOLEAN]
OfCycle == {"reflect", "auto", "append", "answer", "closed", "learn", "link", "save", "cut"}
Filing(s) == s.at \in {"save", "cut"}
\* Calls that are about a new cycle, and calls that learn from the answer to one.
Creating(s) == s.at \in {"reflect", "auto", "append"} \/ (Filing(s) /\ s.change = "append")
Answered(s) == s.at \in {"closed", "learn"}
Linking(s) == s.at = "link" \/ (Filing(s) /\ s.change = "link")
Linked(rows, lessons) == \A c \in Cycle : rows[c].linked => lessons[<<c, "answer">>].status # "absent"

\* What a call holds, given the cycles, the lessons and whether saves went over each
\* other: rows that are not stale are the file's, the links of any rows lead to
\* lessons, and a decision is of a cycle that was open.
StudyFits(s, cycles, lessons, dirty) ==
  /\ s \in StudyRow
  /\ s.at \in OfCycle => s.topic \in Cycle
  /\ s.at \in {"list", "ingest", "moved"} => s.topic \in Letter
  /\ s.at = "weigh" => /\ <<s.topic, s.of>> \in Lesson
                       /\ lessons[<<s.topic, s.of>>].status # "absent"
                       /\ s.saw.status # "absent"
                       /\ s.saw.active <=> s.saw.status = "approved"
  /\ Linked(s.rows, lessons)
  /\ Linking(s) /\ s.saw # NoLesson => lessons[<<s.topic, "answer">>].status # "absent"
  /\ Filing(s) /\ s.change \in {"close", "ignored", "routed"} => s.rows[s.topic].status = "open"
  /\ Filing(s) /\ ~s.stale => s.rows = cycles
  /\ ~dirty /\ Creating(s) => cycles[s.topic].status = "absent"
  /\ ~dirty /\ Answered(s) => cycles[s.topic].status = "closed"

\* A new cycle is one thread's.
CyclesApart ==
  \A p, q \in Learner :
    p # q /\ Creating(study[p]) /\ Creating(study[q]) => study[p].topic # study[q].topic

LearnedTypes ==
  /\ reflection \in [Cycle -> CycleRow] /\ legible \in BOOLEAN /\ clobbered \in BOOLEAN
  /\ letter \in [Letter -> {"absent", "outbox", "processed"}]
  /\ lesson \in [Lesson -> LessonRow] /\ study \in [Learner -> StudyRow]

LearningInv ==
  /\ LearnedTypes
  /\ \A p \in Learner : StudyFits(study[p], reflection, lesson, clobbered)
  /\ CyclesApart
  /\ LateAnswerTeachesNothing
  /\ LinksHold
  /\ ActiveMeansApproved

LEMMA AnswerLessons ==
  /\ \A c \in Cycle : <<c, "answer">> \in Lesson /\ <<c, "auto">> \in Lesson
  /\ \A f \in Letter : <<f, "outbox">> \in Lesson
  /\ \A l \in Lesson : l = <<l[1], l[2]>> /\ l[1] \in Cycle \cup Letter
                       /\ l[2] \in {"auto", "answer", "outbox"}
  BY DEF Lesson

LEMMA Blanks ==
  /\ NoRows \in [Cycle -> CycleRow] /\ \A c \in Cycle : ~NoRows[c].linked /\ NoRows[c].status = "absent"
  /\ NoLesson \in LessonRow
  BY DEF NoRows, CycleRow, CycleStatus, NoLesson, LessonRow, LessonStatus

LEMMA NoStudyFits ==
  /\ NoStudy \in StudyRow /\ NoStudy.at = "idle" /\ NoStudy.rows = NoRows
  /\ \A cycles, lessons, dirty : StudyFits(NoStudy, cycles, lessons, dirty)
  /\ ~Creating(NoStudy) /\ ~Filing(NoStudy)
<1>1. NoStudy \in StudyRow /\ NoStudy.at = "idle" /\ NoStudy.rows = NoRows
  BY Blanks DEF NoStudy, StudyRow, Desk, Change
<1>2. QED
  BY <1>1, Blanks DEF StudyFits, Linked, Filing, Creating, Answered, Linking, OfCycle

LEMMA LearningInitInv == LearningInit => LearningInv
<1> SUFFICES ASSUME LearningInit PROVE LearningInv
  OBVIOUS
<1>1. \A p \in Learner : study[p] = NoStudy
  BY DEF LearningInit
<1>2. \A p \in Learner : StudyFits(study[p], reflection, lesson, clobbered)
  BY <1>1, NoStudyFits
<1>3. LearnedTypes
  BY Blanks, NoStudyFits DEF LearningInit, LearnedTypes
<1>4. CyclesApart
  BY <1>1, NoStudyFits DEF CyclesApart
<1>5. LateAnswerTeachesNothing /\ LinksHold /\ ActiveMeansApproved
  BY AnswerLessons, Blanks DEF LearningInit, LateAnswerTeachesNothing, LinksHold,
     ActiveMeansApproved, NoLesson
<1>6. QED
  BY <1>2, <1>3, <1>4, <1>5 DEF LearningInv

\* No lesson is ever taken off the table.
Taught == \A l \in Lesson : lesson[l].status # "absent" => lesson'[l].status # "absent"

LEMMA LinksStay ==
  ASSUME NEW rows, Linked(rows, lesson), Taught
  PROVE  Linked(rows, lesson')
  BY AnswerLessons DEF Linked, Taught

\* A call fits on when its own cycle stays and what it loaded is the file's or stale.
LEMMA StudyKept ==
  ASSUME NEW s \in StudyRow, StudyFits(s, reflection, lesson, clobbered), Taught,
         clobbered => clobbered',
         Filing(s) /\ ~s.stale => reflection' = reflection,
         ~clobbered' /\ (Creating(s) \/ Answered(s)) => reflection'[s.topic] = reflection[s.topic]
  PROVE  StudyFits(s, reflection', lesson', clobbered')
<1>1. Linked(s.rows, lesson')
  BY LinksStay DEF StudyFits
<1>2. /\ s.at \in OfCycle => s.topic \in Cycle
      /\ s.at \in {"list", "ingest", "moved"} => s.topic \in Letter
      /\ s.at = "weigh" => /\ <<s.topic, s.of>> \in Lesson
                           /\ lesson'[<<s.topic, s.of>>].status # "absent"
                           /\ s.saw.status # "absent"
                           /\ s.saw.active <=> s.saw.status = "approved"
  BY DEF StudyFits, Taught
<1>3. Linking(s) /\ s.saw # NoLesson => lesson'[<<s.topic, "answer">>].status # "absent"
  BY AnswerLessons DEF StudyFits, Taught, Linking, Filing, OfCycle
<1>4. /\ Filing(s) /\ s.change \in {"close", "ignored", "routed"} => s.rows[s.topic].status = "open"
      /\ Filing(s) /\ ~s.stale => s.rows = reflection'
  BY DEF StudyFits
<1>5. /\ ~clobbered' /\ Creating(s) => reflection'[s.topic].status = "absent"
      /\ ~clobbered' /\ Answered(s) => reflection'[s.topic].status = "closed"
  BY DEF StudyFits
<1>6. QED
  BY <1>1, <1>2, <1>3, <1>4, <1>5 DEF StudyFits

\* What a call loaded may always be called stale.
LEMMA StaleFits ==
  ASSUME NEW s, NEW cycles, NEW lessons, NEW dirty, StudyFits(s, cycles, lessons, dirty)
  PROVE  LET o == [s EXCEPT !.stale = TRUE]
         IN  StudyFits(o, cycles, lessons, dirty) /\ o.topic = s.topic /\ (Creating(o) <=> Creating(s))
<1> DEFINE o == [s EXCEPT !.stale = TRUE]
<1>1. /\ o \in StudyRow /\ o.stale /\ o.at = s.at /\ o.topic = s.topic /\ o.of = s.of
      /\ o.saw = s.saw /\ o.change = s.change /\ o.rows = s.rows
  BY DEF StudyFits, StudyRow
<1> HIDE DEF o
<1>2. (Filing(o) <=> Filing(s)) /\ (Creating(o) <=> Creating(s)) /\ (Answered(o) <=> Answered(s))
      /\ (Linking(o) <=> Linking(s))
  BY <1>1 DEF Filing, Creating, Answered, Linking
<1>3. StudyFits(o, cycles, lessons, dirty)
  BY <1>1, <1>2 DEF StudyFits
<1>4. QED
  BY <1>1, <1>2, <1>3 DEF o

\* A call that is at its next step over rows that stay; a lesson may be added.
LEMMA StudyMoves ==
  ASSUME LearningInv, NEW p \in Learner, NEW s, study' = [study EXCEPT ![p] = s],
         StudyFits(s, reflection, lesson', clobbered'), UNCHANGED <<reflection, legible>>,
         clobbered => clobbered', clobbered' \in BOOLEAN,
         letter' \in [Letter -> {"absent", "outbox", "processed"}],
         lesson' \in [Lesson -> LessonRow], Taught,
         Creating(s) => \A q \in Learner \ {p} : Creating(study[q]) => study[q].topic # s.topic,
         LateAnswerTeachesNothing', ActiveMeansApproved'
  PROVE  LearningInv'
<1>1. /\ s \in StudyRow /\ study' \in [Learner -> StudyRow] /\ study'[p] = s
      /\ \A q \in Learner \ {p} : study'[q] = study[q]
  BY DEF LearningInv, LearnedTypes, StudyFits
<1>2. ASSUME NEW q \in Learner PROVE StudyFits(study'[q], reflection', lesson', clobbered')
  <2>1. CASE q = p
    BY <1>1, <2>1
  <2>2. CASE q # p
    <3>1. StudyFits(study[q], reflection, lesson, clobbered) /\ study[q] \in StudyRow
      BY DEF LearningInv, StudyFits
    <3>2. QED
      BY <1>1, <2>2, <3>1, StudyKept
  <2>3. QED
    BY <2>1, <2>2
<1>3. CyclesApart'
  BY <1>1 DEF CyclesApart, LearningInv
<1>4. LinksHold'
  BY AnswerLessons DEF LearningInv, LinksHold, Taught
<1>5. LearnedTypes'
  BY <1>1 DEF LearnedTypes, LearningInv
<1>6. QED
  BY <1>2, <1>3, <1>4, <1>5 DEF LearningInv

\* The same for a call that leaves the lessons alone.
LEMMA LessonsStay ==
  ASSUME LearningInv, UNCHANGED <<reflection, lesson>>, clobbered => clobbered'
  PROVE  /\ LateAnswerTeachesNothing' /\ ActiveMeansApproved' /\ Taught
         /\ lesson' \in [Lesson -> LessonRow]
  BY DEF LearningInv, LearnedTypes, LateAnswerTeachesNothing, ActiveMeansApproved, Taught

LEMMA StudyStays ==
  ASSUME LearningInv, NEW p \in Learner, NEW s, study' = [study EXCEPT ![p] = s],
         StudyFits(s, reflection, lesson, clobbered),
         UNCHANGED <<reflection, legible, lesson, clobbered>>,
         letter' \in [Letter -> {"absent", "outbox", "processed"}],
         Creating(s) => \A q \in Learner \ {p} : Creating(study[q]) => study[q].topic # s.topic
  PROVE  LearningInv'
<1>1. /\ UNCHANGED reflection /\ UNCHANGED legible /\ UNCHANGED lesson /\ UNCHANGED clobbered
      /\ clobbered' \in BOOLEAN
  BY DEF LearningInv, LearnedTypes
<1>2. StudyFits(s, reflection, lesson', clobbered')
  BY <1>1
<1>3. clobbered => clobbered'
  BY <1>1
<1>4. /\ LateAnswerTeachesNothing' /\ ActiveMeansApproved' /\ Taught
      /\ lesson' \in [Lesson -> LessonRow]
  BY <1>3, LessonsStay
<1>5. QED
  BY <1>1, <1>2, <1>3, <1>4, StudyMoves

LEMMA RiseStays ==
  ASSUME LearningInv, NEW p \in Learner, Rise(p), UNCHANGED <<reflection, legible, letter, lesson>>,
         clobbered => clobbered', clobbered' \in BOOLEAN
  PROVE  LearningInv'
<1>1. letter' \in [Letter -> {"absent", "outbox", "processed"}]
  BY DEF LearningInv, LearnedTypes
<1>2. StudyFits(NoStudy, reflection, lesson', clobbered') /\ study' = [study EXCEPT ![p] = NoStudy]
  BY NoStudyFits DEF Rise
<1>3. QED
  BY <1>1, <1>2, NoStudyFits, LessonsStay, StudyMoves

LEMMA LettersStay ==
  ASSUME LearningInv, UNCHANGED letter
  PROVE  letter' \in [Letter -> {"absent", "outbox", "processed"}]
  BY DEF LearningInv, LearnedTypes

\* A call that only goes on to another step.
LEMMA GoesOnStudying ==
  ASSUME LearningInv, NEW p \in Learner, NEW at \in Desk \ {"idle", "save", "cut"}, Step(p, at),
         ~Filing(study[p]),
         StudyFits([study[p] EXCEPT !.at = at], reflection, lesson, clobbered),
         at \in {"reflect", "auto", "append"} => Creating(study[p]),
         UNCHANGED <<reflection, legible, lesson, clobbered>>,
         letter' \in [Letter -> {"absent", "outbox", "processed"}]
  PROVE  LearningInv'
<1> DEFINE s == [study[p] EXCEPT !.at = at]
<1>1. s.at = at /\ s.topic = study[p].topic
  BY DEF LearningInv, LearnedTypes, StudyRow
<1>2. Creating(s) => Creating(study[p])
  BY <1>1 DEF Creating, Filing
<1>3. Creating(s) => \A q \in Learner \ {p} : Creating(study[q]) => study[q].topic # s.topic
  BY <1>1, <1>2 DEF LearningInv, CyclesApart
<1>4. study' = [study EXCEPT ![p] = s]
  BY DEF Step
<1>5. StudyFits(s, reflection, lesson, clobbered)
  OBVIOUS
<1> HIDE DEF s
<1>6. QED
  BY <1>3, <1>4, <1>5, StudyStays

\* A call that loads the rows, to change the row of a cycle.
LEMMA LoadStays ==
  ASSUME LearningInv, NEW t \in Learner, NEW c \in Cycle, NEW change \in Change, Loads(t, c, change),
         UNCHANGED <<reflection, legible, letter, lesson, clobbered>>,
         change \in {"close", "ignored", "routed"} => Loaded[c].status = "open",
         change = "append" => study[t].topic = c /\ Creating(study[t]),
         change = "link" => study[t].topic = c /\ Linking(study[t])
  PROVE  LearningInv'
<1> DEFINE s == [study[t] EXCEPT !.at = "save", !.topic = c, !.change = change,
                                 !.rows = Loaded, !.stale = ~legible]
<1>1. study[t] \in StudyRow /\ StudyFits(study[t], reflection, lesson, clobbered)
  BY DEF LearningInv, StudyFits
<1>2. Loaded \in [Cycle -> CycleRow] /\ Linked(Loaded, lesson) /\ (legible => Loaded = reflection)
  BY Blanks DEF LearningInv, LearnedTypes, Loaded, Linked, LinksHold
<1>3. /\ s \in StudyRow /\ s.at = "save" /\ s.topic = c /\ s.change = change /\ s.saw = study[t].saw
      /\ s.rows = Loaded /\ s.stale = ~legible
  BY <1>1, <1>2 DEF StudyRow, Desk, LearningInv, LearnedTypes
<1>4. study' = [study EXCEPT ![t] = s]
  BY DEF Loads, LearningInv, LearnedTypes
<1> HIDE DEF s
<1>5. /\ Filing(s) /\ (Creating(s) <=> change = "append") /\ ~Answered(s)
      /\ (Linking(s) <=> change = "link")
  BY <1>3 DEF Filing, Creating, Answered, Linking
<1>6. StudyFits(s, reflection, lesson, clobbered)
  BY <1>1, <1>2, <1>3, <1>5 DEF StudyFits
<1>7. Creating(s) => \A q \in Learner \ {t} : Creating(study[q]) => study[q].topic # s.topic
  BY <1>3, <1>5 DEF LearningInv, CyclesApart
<1>8. QED
  BY <1>4, <1>6, <1>7, LettersStay, StudyStays

\* A lesson that gets a row which could be in the table.
LEMMA LessonRowFits ==
  ASSUME LearningInv, NEW l \in Lesson, NEW row \in LessonRow,
         lesson' = [lesson EXCEPT ![l] = row], UNCHANGED <<reflection, clobbered>>,
         row.status # "absent", row.active <=> row.status = "approved",
         ~clobbered /\ lesson[l].status = "absent" =>
           \A c \in Cycle : l = <<c, "answer">> => reflection[c].status = "closed"
  PROVE  /\ lesson' \in [Lesson -> LessonRow] /\ Taught
         /\ LateAnswerTeachesNothing' /\ ActiveMeansApproved' /\ lesson'[l] = row
<1>1. /\ lesson' \in [Lesson -> LessonRow] /\ lesson'[l] = row
      /\ \A k \in Lesson \ {l} : lesson'[k] = lesson[k]
  BY DEF LearningInv, LearnedTypes
<1>2. Taught
  BY <1>1 DEF Taught
<1>3. ActiveMeansApproved'
  BY <1>1 DEF ActiveMeansApproved, LearningInv
<1>4. LateAnswerTeachesNothing'
  BY <1>1, <1>2, AnswerLessons DEF LateAnswerTeachesNothing, LearningInv
<1>5. QED
  BY <1>1, <1>2, <1>3, <1>4

LEMMA Inserted ==
  ASSUME LearningInv, NEW l \in Lesson, NEW row \in LessonRow, Insert(l, row),
         UNCHANGED <<reflection, clobbered>>,
         ~clobbered => \A c \in Cycle : l = <<c, "answer">> => reflection[c].status = "closed"
  PROVE  /\ lesson' \in [Lesson -> LessonRow] /\ Taught
         /\ LateAnswerTeachesNothing' /\ ActiveMeansApproved'
         /\ row # NoLesson => lesson'[l].status # "absent"
<1>1. CASE row = NoLesson
  BY <1>1 DEF Insert, LearningInv, LearnedTypes, LateAnswerTeachesNothing, ActiveMeansApproved, Taught
<1>2. CASE row # NoLesson
  <2>1. lesson' = [lesson EXCEPT ![l] = row] /\ row.status = "candidate" /\ row.active = FALSE
    BY <1>2 DEF Insert
  <2>2. QED
    BY <1>2, <2>1, LessonRowFits
<1>3. QED
  BY <1>1, <1>2

\* What those who are saving see, or do not see, of another's write.
LEMMA OthersOutdated ==
  ASSUME LearningInv, NEW t \in Learner, NEW q \in Learner \ {t},
         study'[q] = IF Outdated(t, q) THEN [study[q] EXCEPT !.stale = TRUE] ELSE study[q]
  PROVE  /\ StudyFits(study'[q], reflection, lesson, clobbered) /\ study'[q] \in StudyRow
         /\ study'[q].topic = study[q].topic /\ (Creating(study'[q]) <=> Creating(study[q]))
         /\ Filing(study'[q]) => study'[q].stale
<1>1. StudyFits(study[q], reflection, lesson, clobbered) /\ study[q] \in StudyRow
  BY DEF LearningInv, StudyFits
<1>2. CASE Outdated(t, q)
  <2> DEFINE o == [study[q] EXCEPT !.stale = TRUE]
  <2>1. /\ StudyFits(o, reflection, lesson, clobbered) /\ o.topic = study[q].topic
        /\ (Creating(o) <=> Creating(study[q]))
    BY <1>1, StaleFits
  <2>2. o.stale /\ study'[q] = o
    BY <1>1, <1>2 DEF StudyRow
  <2>3. o \in StudyRow
    BY <2>1 DEF StudyFits
  <2> HIDE DEF o
  <2>4. QED
    BY <2>1, <2>2, <2>3
<1>3. CASE ~Outdated(t, q)
  BY <1>1, <1>3 DEF Outdated, Filing
<1>4. QED
  BY <1>2, <1>3

LEMMA CutStays ==
  ASSUME LearningInv, NEW t \in Learner, CutRows(t)
  PROVE  LearningInv'
<1> DEFINE s == [study[t] EXCEPT !.at = "cut"]
<1>1. StudyFits(study[t], reflection, lesson, clobbered) /\ study[t] \in StudyRow /\ study[t].at = "save"
  BY DEF LearningInv, StudyFits, CutRows, Sits
<1>2. /\ s \in StudyRow /\ s.at = "cut" /\ s.topic = study[t].topic /\ s.of = study[t].of
      /\ s.saw = study[t].saw /\ s.change = study[t].change /\ s.rows = study[t].rows
      /\ s.stale = study[t].stale
  BY <1>1 DEF StudyRow, Desk
<1>3. /\ study' = [q \in Learner |-> IF q = t THEN s
                                   ELSE IF Outdated(t, q) THEN [study[q] EXCEPT !.stale = TRUE]
                                   ELSE study[q]]
      /\ UNCHANGED <<reflection, letter, lesson, clobbered>> /\ legible' = FALSE
  BY DEF CutRows
<1> HIDE DEF s
<1>4. /\ (Filing(s) <=> Filing(study[t])) /\ (Creating(s) <=> Creating(study[t]))
      /\ (Answered(s) <=> Answered(study[t])) /\ (Linking(s) <=> Linking(study[t]))
  BY <1>1, <1>2 DEF Filing, Creating, Answered, Linking
<1>5. StudyFits(s, reflection, lesson, clobbered)
  BY <1>1, <1>2, <1>4 DEF StudyFits, OfCycle
<1>6. study'[t] = s /\ \A q \in Learner \ {t} :
        study'[q] = IF Outdated(t, q) THEN [study[q] EXCEPT !.stale = TRUE] ELSE study[q]
  BY <1>3
<1>7. \A q \in Learner : /\ StudyFits(study'[q], reflection, lesson, clobbered)
                         /\ study'[q] \in StudyRow /\ study'[q].topic = study[q].topic
                         /\ (Creating(study'[q]) <=> Creating(study[q]))
  BY <1>2, <1>4, <1>5, <1>6, OthersOutdated
<1>8. CyclesApart'
  BY <1>7 DEF LearningInv, CyclesApart
<1>9. LearnedTypes'
  BY <1>3, <1>7 DEF LearningInv, LearnedTypes
<1>10. LateAnswerTeachesNothing' /\ LinksHold' /\ ActiveMeansApproved'
  BY <1>3 DEF LearningInv, LateAnswerTeachesNothing, LinksHold, ActiveMeansApproved
<1>11. \A q \in Learner : StudyFits(study'[q], reflection', lesson', clobbered')
  BY <1>3, <1>7
<1>12. QED
  BY <1>8, <1>9, <1>10, <1>11 DEF LearningInv

\* The row that a save changes, and the rows that it does not.
LEMMA SavedRows ==
  ASSUME LearningInv, NEW t \in Learner, SaveRows(t)
  PROVE  LET c == study[t].topic
         IN  /\ c \in Cycle /\ Filing(study[t]) /\ reflection' \in [Cycle -> CycleRow]
             /\ reflection'[c] = Changed(t, study[t].rows[c])
             /\ \A d \in Cycle \ {c} : reflection'[d] = study[t].rows[d]
             /\ LinksHold'
<1> DEFINE c == study[t].topic
<1> DEFINE row == study[t].rows[c]
<1>1. StudyFits(study[t], reflection, lesson, clobbered) /\ study[t] \in StudyRow /\ study[t].at = "cut"
  BY DEF LearningInv, StudyFits, SaveRows, Sits
<1>2. c \in Cycle /\ study[t].rows \in [Cycle -> CycleRow] /\ study[t].change \in Change
      /\ row \in CycleRow /\ Filing(study[t])
  BY <1>1 DEF StudyFits, OfCycle, StudyRow, Filing
<1>3. Changed(t, row) \in CycleRow
  <2>1. CASE study[t].change = "append"
    BY <1>2, <2>1 DEF Changed, CycleRow, CycleStatus
  <2>2. CASE study[t].change = "close"
    BY <1>2, <2>2 DEF Changed, CycleRow, CycleStatus
  <2>3. CASE study[t].change = "link"
    BY <1>2, <2>3 DEF Changed, CycleRow, CycleStatus
  <2>4. CASE study[t].change \in {"ignored", "routed"}
    BY <1>2, <2>4 DEF Changed, CycleRow, CycleStatus
  <2>5. QED
    BY <1>2, <2>1, <2>2, <2>3, <2>4 DEF Change
<1>4. reflection' = [study[t].rows EXCEPT ![c] = Changed(t, row)]
  BY DEF SaveRows
<1>5. /\ reflection' \in [Cycle -> CycleRow] /\ reflection'[c] = Changed(t, row)
      /\ \A d \in Cycle \ {c} : reflection'[d] = study[t].rows[d]
  BY <1>2, <1>3, <1>4
<1>6. Changed(t, row).linked => lesson[<<c, "answer">>].status # "absent"
  <2>1. row.linked => lesson[<<c, "answer">>].status # "absent"
    BY <1>1, <1>2 DEF StudyFits, Linked
  <2>2. CASE study[t].change = "append"
    BY <2>2 DEF Changed
  <2>3. CASE study[t].change = "close"
    BY <1>2, <2>1, <2>3 DEF Changed, CycleRow
  <2>4. CASE study[t].change = "link"
    <3>1. study[t].saw # NoLesson => lesson[<<c, "answer">>].status # "absent"
      BY <1>1, <1>2, <2>4 DEF StudyFits, Linking
    <3>2. QED
      BY <1>2, <2>1, <2>4, <3>1 DEF Changed, CycleRow
  <2>5. CASE study[t].change \in {"ignored", "routed"}
    BY <1>2, <2>1, <2>5 DEF Changed, CycleRow
  <2>6. QED
    BY <1>2, <2>2, <2>3, <2>4, <2>5 DEF Change
<1>7. \A d \in Cycle : reflection'[d].linked => lesson[<<d, "answer">>].status # "absent"
  BY <1>1, <1>5, <1>6 DEF StudyFits, Linked
<1>8. lesson' = lesson
  BY DEF SaveRows
<1>9. LinksHold'
  BY <1>7, <1>8 DEF LinksHold
<1>10. QED
  BY <1>2, <1>5, <1>9

\* A save that saw every write before it: what it changes is not a closed cycle.
LEMMA FreshSave ==
  ASSUME LearningInv, NEW t \in Learner, SaveRows(t), ~clobbered'
  PROVE  /\ \A d \in Cycle \ {study[t].topic} : reflection'[d] = reflection[d]
         /\ \A d \in Cycle : reflection[d].status = "closed" => reflection'[d].status = "closed"
         /\ \A q \in Learner \ {t} :
              (Creating(study[q]) => study[q].topic # study[t].topic
                                     \/ reflection'[study[q].topic].status = "absent")
         /\ study[t].change = "close" => reflection'[study[t].topic].status = "closed"
<1> DEFINE c == study[t].topic
<1>1. ~clobbered /\ ~study[t].stale /\ study[t].at = "cut"
  BY DEF SaveRows, Sits
<1>2. StudyFits(study[t], reflection, lesson, clobbered) /\ study[t] \in StudyRow
  BY DEF LearningInv, StudyFits
<1>3. /\ c \in Cycle /\ Filing(study[t]) /\ reflection'[c] = Changed(t, study[t].rows[c])
      /\ \A d \in Cycle \ {c} : reflection'[d] = study[t].rows[d]
  BY SavedRows
<1>4. study[t].rows = reflection
  BY <1>1, <1>2, <1>3 DEF StudyFits
<1>5. reflection \in [Cycle -> CycleRow] /\ reflection[c] \in CycleRow
  BY <1>3 DEF LearningInv, LearnedTypes
<1>6. CASE study[t].change = "append"
  <2>1. Creating(study[t]) /\ reflection[c].status = "absent"
    BY <1>1, <1>2, <1>3, <1>6 DEF StudyFits, Creating
  <2>2. \A q \in Learner \ {t} : Creating(study[q]) => study[q].topic # c
    BY <2>1 DEF LearningInv, CyclesApart
  <2>3. QED
    BY <1>3, <1>4, <1>6, <2>1, <2>2
<1>7. CASE study[t].change \in {"close", "ignored", "routed"}
  <2>1. reflection[c].status = "open"
    BY <1>2, <1>3, <1>4, <1>7 DEF StudyFits
  <2>2. \A q \in Learner \ {t} : Creating(study[q]) => study[q].topic # c
    BY <1>1, <2>1 DEF LearningInv, StudyFits
  <2>3. study[t].change = "close" => Changed(t, reflection[c]).status = "closed"
    BY <1>5, <1>7 DEF Changed, CycleRow
  <2>4. QED
    BY <1>3, <1>4, <2>1, <2>2, <2>3
<1>8. CASE study[t].change = "link"
  <2>1. Changed(t, reflection[c]).status = reflection[c].status
    BY <1>5, <1>8 DEF Changed, CycleRow
  <2>2. \A q \in Learner \ {t} : Creating(study[q]) => reflection[study[q].topic].status = "absent"
    BY <1>1 DEF LearningInv, StudyFits
  <2>3. QED
    BY <1>3, <1>4, <1>8, <2>1, <2>2
<1>9. QED
  BY <1>2, <1>6, <1>7, <1>8 DEF StudyRow, Change

LEMMA SaveStays ==
  ASSUME LearningInv, NEW t \in Learner, SaveRows(t)
  PROVE  LearningInv'
<1> DEFINE c == study[t].topic
<1> DEFINE s == IF study[t].change = "close" THEN [NoStudy EXCEPT !.at = "closed", !.topic = c]
                ELSE NoStudy
<1>1. StudyFits(study[t], reflection, lesson, clobbered) /\ study[t] \in StudyRow /\ study[t].at = "cut"
  BY DEF LearningInv, StudyFits, SaveRows, Sits
<1>2. /\ c \in Cycle /\ reflection' \in [Cycle -> CycleRow] /\ LinksHold'
  BY SavedRows
<1>3. /\ study' = [q \in Learner |-> IF q = t THEN s
                                   ELSE IF Outdated(t, q) THEN [study[q] EXCEPT !.stale = TRUE]
                                   ELSE study[q]]
      /\ UNCHANGED <<letter, lesson>> /\ legible' \in BOOLEAN
      /\ clobbered' = (clobbered \/ study[t].stale)
  BY DEF SaveRows
<1>4. /\ s \in StudyRow /\ s.rows = NoRows
      /\ study[t].change = "close" => s.at = "closed" /\ s.topic = c
      /\ study[t].change # "close" => s = NoStudy
  <2>1. CASE study[t].change = "close"
    <3>1. s = [NoStudy EXCEPT !.at = "closed", !.topic = c]
      BY <2>1
    <3>2. QED
      BY <1>2, <2>1, <3>1, NoStudyFits DEF StudyRow, Desk
  <2>2. CASE study[t].change # "close"
    <3>1. s = NoStudy
      BY <2>2
    <3>2. QED
      BY <2>2, <3>1, NoStudyFits
  <2>3. QED
    BY <2>1, <2>2
<1> HIDE DEF s
<1>5. ~Creating(s) /\ ~Filing(s) /\ (s.at = "closed" \/ s = NoStudy)
  BY <1>4, NoStudyFits DEF Creating, Filing
<1>6. ~clobbered' => /\ \A d \in Cycle \ {c} : reflection'[d] = reflection[d]
                     /\ \A d \in Cycle : reflection[d].status = "closed"
                                           => reflection'[d].status = "closed"
                     /\ \A q \in Learner \ {t} :
                          Creating(study[q]) => study[q].topic # c
                                                 \/ reflection'[study[q].topic].status = "absent"
                     /\ study[t].change = "close" => reflection'[c].status = "closed"
  BY FreshSave
<1>7. StudyFits(s, reflection', lesson', clobbered')
  <2>1. CASE study[t].change = "close"
    <3>1. /\ s.at = "closed" /\ s.topic = c /\ ~Linking(s) /\ ~Filing(s) /\ ~Creating(s)
          /\ Linked(s.rows, lesson')
      BY <1>4, <1>5, <2>1, Blanks DEF Linking, Filing, Linked
    <3>2. ~clobbered' => reflection'[s.topic].status = "closed"
      BY <1>6, <2>1, <3>1
    <3>3. QED
      BY <1>2, <1>4, <3>1, <3>2 DEF StudyFits
  <2>2. CASE study[t].change # "close"
    BY <1>4, <2>2, NoStudyFits
  <2>3. QED
    BY <2>1, <2>2
<1>8. study'[t] = s /\ \A q \in Learner \ {t} :
        study'[q] = IF Outdated(t, q) THEN [study[q] EXCEPT !.stale = TRUE] ELSE study[q]
  BY <1>3
<1>9. \A q \in Learner \ {t} :
        /\ StudyFits(study'[q], reflection, lesson, clobbered)
        /\ study'[q] \in StudyRow /\ study'[q].topic = study[q].topic
        /\ (Creating(study'[q]) <=> Creating(study[q])) /\ (Filing(study'[q]) => study'[q].stale)
  BY <1>8, OthersOutdated
<1>10. \A q \in Learner \ {t} : StudyFits(study'[q], reflection', lesson', clobbered')
  <2> SUFFICES ASSUME NEW q \in Learner \ {t}, NEW o, o = study'[q]
               PROVE  StudyFits(o, reflection', lesson', clobbered')
    OBVIOUS
  <2>1. StudyFits(o, reflection, lesson, clobbered) /\ o \in StudyRow /\ (Filing(o) => o.stale)
    BY <1>9
  <2>2. Linked(o.rows, lesson') /\ lesson' = lesson
    BY <1>3, <2>1 DEF StudyFits
  <2>3. ~clobbered' /\ Creating(o) => reflection'[o.topic].status = "absent"
    <3>1. SUFFICES ASSUME ~clobbered', Creating(o) PROVE reflection'[o.topic].status = "absent"
      OBVIOUS
    <3>2. ~clobbered
      BY <1>3, <3>1
    <3>3. o.topic \in Cycle /\ reflection[o.topic].status = "absent"
      BY <2>1, <3>1, <3>2 DEF StudyFits, Creating, Filing, OfCycle
    <3>4. Creating(study[q]) /\ o.topic = study[q].topic
      BY <1>9, <3>1
    <3>5. QED
      BY <1>6, <3>1, <3>3, <3>4
  <2>4. ~clobbered' /\ Answered(o) => reflection'[o.topic].status = "closed"
    <3>1. SUFFICES ASSUME ~clobbered', Answered(o) PROVE reflection'[o.topic].status = "closed"
      OBVIOUS
    <3>2. ~clobbered
      BY <1>3, <3>1
    <3>3. o.topic \in Cycle /\ reflection[o.topic].status = "closed"
      BY <2>1, <3>1, <3>2 DEF StudyFits, Answered, OfCycle
    <3>4. QED
      BY <1>6, <3>1, <3>3
  <2>5. QED
    BY <2>1, <2>2, <2>3, <2>4 DEF StudyFits
<1>11. \A q \in Learner : StudyFits(study'[q], reflection', lesson', clobbered')
  BY <1>7, <1>8, <1>10
<1>12. CyclesApart'
  BY <1>5, <1>8, <1>9 DEF LearningInv, CyclesApart
<1>13. LearnedTypes'
  <2>1. study' \in [Learner -> StudyRow]
    BY <1>3, <1>4, <1>8, <1>9
  <2>2. clobbered' \in BOOLEAN
    BY <1>3
  <2>3. QED
    BY <1>2, <1>3, <2>1, <2>2 DEF LearningInv, LearnedTypes
<1>14. LateAnswerTeachesNothing' /\ ActiveMeansApproved'
  <2>1. lesson' = lesson /\ (~clobbered' => ~clobbered)
    BY <1>3
  <2>2. QED
    BY <1>6, <2>1 DEF LearningInv, LateAnswerTeachesNothing, ActiveMeansApproved
<1>15. QED
  BY <1>2, <1>11, <1>12, <1>13, <1>14 DEF LearningInv

LEMMA LearningNextInv == LearningInv /\ [LearningNext]_learningVars => LearningInv'
<1> SUFFICES ASSUME LearningInv, [LearningNext]_learningVars PROVE LearningInv'
  OBVIOUS
<1>1. \A p \in Learner : study[p] \in StudyRow /\ StudyFits(study[p], reflection, lesson, clobbered)
  BY DEF LearningInv, StudyFits
<1>2. LearnedTypes
  BY DEF LearningInv
\* A thread that begins a call about a topic.
<1>3. ASSUME NEW t \in Learner, NEW at \in {"reflect", "answer", "list"},
             NEW x \in Cycle \cup Letter,
             study' = [study EXCEPT ![t] = [NoStudy EXCEPT !.at = at, !.topic = x]],
             at \in {"reflect", "answer"} => x \in Cycle, at = "list" => x \in Letter,
             at = "reflect" => reflection[x].status = "absent" /\ \A q \in Learner : study[q].topic # x,
             UNCHANGED <<reflection, legible, letter, lesson, clobbered>>
      PROVE  LearningInv'
  <2> DEFINE s == [NoStudy EXCEPT !.at = at, !.topic = x]
  <2>1. s \in StudyRow /\ s.at = at /\ s.topic = x /\ s.rows = NoRows
    BY NoStudyFits, <1>3 DEF NoStudy, StudyRow, Desk
  <2>2. study' = [study EXCEPT ![t] = s]
    BY <1>3
  <2> HIDE DEF s
  <2>3. ~Filing(s) /\ ~Linking(s) /\ ~Answered(s) /\ (Creating(s) <=> at = "reflect")
    BY <1>3, <2>1 DEF Filing, Linking, Answered, Creating
  <2>4. StudyFits(s, reflection, lesson, clobbered)
    BY <1>3, <2>1, <2>3, Blanks DEF StudyFits, Linked, OfCycle
  <2>5. Creating(s) => \A q \in Learner \ {t} : Creating(study[q]) => study[q].topic # s.topic
    BY <1>3, <2>1, <2>3
  <2>6. UNCHANGED <<reflection, legible, lesson, clobbered>>
        /\ letter' \in [Letter -> {"absent", "outbox", "processed"}]
    BY <1>2, <1>3 DEF LearnedTypes
  <2>7. QED
    BY <2>2, <2>4, <2>5, <2>6, StudyStays
<1>4. ASSUME NEW t \in Learner, NEW c \in Cycle, BeginCycle(t, c) PROVE LearningInv'
  BY <1>3, <1>4 DEF BeginCycle
<1>5. ASSUME NEW t \in Learner, NEW c \in Cycle, BeginAnswer(t, c) PROVE LearningInv'
  BY <1>3, <1>5 DEF BeginAnswer
<1>6. ASSUME NEW t \in Learner, NEW f \in Letter, ListOutbox(t, f) PROVE LearningInv'
  BY <1>3, <1>6 DEF ListOutbox
<1>7. ASSUME NEW t \in Learner, NEW l \in Lesson, BeginWeigh(t, l) PROVE LearningInv'
  <2> DEFINE s == [NoStudy EXCEPT !.at = "weigh", !.topic = l[1], !.of = l[2], !.saw = lesson[l]]
  <2>1. study' = [study EXCEPT ![t] = s] /\ UNCHANGED <<reflection, legible, letter, lesson, clobbered>>
    BY <1>7 DEF BeginWeigh
  <2>2. l = <<l[1], l[2]>> /\ l[1] \in Cycle \cup Letter /\ l[2] \in {"auto", "answer", "outbox"}
    BY AnswerLessons
  <2>3. lesson[l] \in LessonRow /\ lesson[l].status # "absent"
        /\ (lesson[l].active <=> lesson[l].status = "approved")
    BY <1>2, <1>7 DEF BeginWeigh, LearningInv, LearnedTypes, ActiveMeansApproved
  <2>4. /\ s \in StudyRow /\ s.at = "weigh" /\ s.topic = l[1] /\ s.of = l[2]
        /\ s.saw = lesson[l] /\ s.rows = NoRows
    BY <2>2, <2>3, NoStudyFits DEF NoStudy, StudyRow, Desk
  <2> HIDE DEF s
  <2>5. ~Filing(s) /\ ~Linking(s) /\ ~Answered(s) /\ ~Creating(s)
    BY <2>4 DEF Filing, Linking, Answered, Creating
  <2>6. <<s.topic, s.of>> = l
    BY <2>2, <2>4
  <2>7. StudyFits(s, reflection, lesson, clobbered)
    BY <2>3, <2>4, <2>5, <2>6, Blanks DEF StudyFits, Linked, OfCycle
  <2>8. QED
    BY <2>1, <2>5, <2>7, LettersStay, StudyStays
\* A call that goes on.
<1>8. ASSUME NEW t \in Learner, NEW at \in {"auto", "append", "learn", "link", "ingest", "moved"},
             Step(t, at), UNCHANGED <<reflection, legible, lesson, clobbered>>,
             letter' \in [Letter -> {"absent", "outbox", "processed"}],
             <<study[t].at, at>> \in {<<"reflect", "auto">>, <<"closed", "learn">>,
                                      <<"list", "ingest">>, <<"ingest", "moved">>}
      PROVE  LearningInv'
  <2> DEFINE s == [study[t] EXCEPT !.at = at]
  <2>1. StudyFits(study[t], reflection, lesson, clobbered) /\ study[t] \in StudyRow
    BY <1>1
  <2>2. /\ s \in StudyRow /\ s.at = at /\ s.topic = study[t].topic /\ s.of = study[t].of
        /\ s.saw = study[t].saw /\ s.change = study[t].change /\ s.rows = study[t].rows
        /\ s.stale = study[t].stale
    BY <1>8, <2>1 DEF StudyRow, Desk
  <2>3. study[t].at \in {"reflect", "closed", "list", "ingest"}
        /\ (at = "auto" <=> study[t].at = "reflect") /\ (at = "learn" <=> study[t].at = "closed")
        /\ at \in {"auto", "learn", "ingest", "moved"}
    BY <1>8
  <2> HIDE DEF s
  <2>4. ~Filing(s) /\ ~Linking(s) /\ (Creating(s) <=> Creating(study[t]))
        /\ (Answered(s) <=> Answered(study[t])) /\ ~Filing(study[t])
        /\ (at = "auto" => Creating(study[t]))
    BY <2>2, <2>3 DEF Filing, Linking, Creating, Answered
  <2>5. StudyFits(s, reflection, lesson, clobbered)
    BY <2>1, <2>2, <2>3, <2>4 DEF StudyFits, OfCycle
  <2>6. at \in Desk \ {"idle", "save", "cut"}
    BY <1>8 DEF Desk
  <2>7. QED
    BY <1>8, <2>3, <2>4, <2>5, <2>6, GoesOnStudying DEF s
<1>9. ASSUME NEW t \in Learner, BeginIngest(t) PROVE LearningInv'
  BY <1>8, <1>9, LettersStay DEF BeginIngest, Sits
<1>10. ASSUME NEW t \in Learner, MoveLetter(t) PROVE LearningInv'
  <2>1. letter' \in [Letter -> {"absent", "outbox", "processed"}]
    BY <1>2, <1>10 DEF MoveLetter, LearnedTypes
  <2>2. QED
    BY <1>8, <1>10, <2>1 DEF MoveLetter, Sits
<1>11. ASSUME NEW t \in Learner, BeginOutbox(t) PROVE LearningInv'
  <2>1. study[t].at = "list" /\ UNCHANGED <<reflection, legible, letter, lesson, clobbered>>
        /\ (Step(t, "ingest") \/ Rise(t))
    BY <1>11 DEF BeginOutbox, Sits
  <2>2. CASE Step(t, "ingest")
    BY <1>8, <2>1, <2>2, LettersStay
  <2>3. CASE Rise(t)
    BY <1>2, <2>1, <2>3, RiseStays DEF LearnedTypes
  <2>4. QED
    BY <2>1, <2>2, <2>3
\* Lessons of a call in its transaction, and where it goes from there.
<1>12. ASSUME NEW t \in Learner, NEW l \in Lesson, NEW row \in LessonRow, Insert(l, row),
              NEW s, study' = [study EXCEPT ![t] = s],
              UNCHANGED <<reflection, legible, letter, clobbered>>,
              ~clobbered => \A c \in Cycle : l = <<c, "answer">> => reflection[c].status = "closed",
              s \in StudyRow, s.at \in OfCycle => s.topic \in Cycle, s.rows = study[t].rows \/ s = NoStudy,
              s.at \in {"append", "link", "idle"},
              s.at = "link" => l = <<s.topic, "answer">> /\ s.saw = row,
              s.at = "append" => Creating(study[t]) /\ s.topic = study[t].topic
       PROVE  LearningInv'
  <2>1. /\ lesson' \in [Lesson -> LessonRow] /\ Taught
        /\ LateAnswerTeachesNothing' /\ ActiveMeansApproved'
        /\ row # NoLesson => lesson'[l].status # "absent"
    BY <1>12, Inserted
  <2>2. StudyFits(study[t], reflection, lesson, clobbered)
    BY <1>1
  <2>3. Linked(s.rows, lesson')
    BY <1>12, <2>1, <2>2, NoStudyFits, Blanks, LinksStay DEF StudyFits, Linked
  <2>4. ~Filing(s) /\ ~Answered(s) /\ (Creating(s) <=> s.at = "append") /\ (Linking(s) <=> s.at = "link")
    BY <1>12 DEF Filing, Answered, Creating, Linking
  <2>5. ~clobbered /\ Creating(s) => reflection[s.topic].status = "absent"
    BY <1>12, <2>2, <2>4 DEF StudyFits
  <2>6. StudyFits(s, reflection, lesson', clobbered)
    BY <1>12, <2>1, <2>3, <2>4, <2>5 DEF StudyFits
  <2>7. StudyFits(s, reflection, lesson', clobbered') /\ (clobbered => clobbered')
        /\ clobbered' \in BOOLEAN
    BY <1>2, <1>12, <2>6 DEF LearnedTypes
  <2>8. Creating(s) => \A q \in Learner \ {t} : Creating(study[q]) => study[q].topic # s.topic
    BY <1>12, <2>4 DEF LearningInv, CyclesApart
  <2>9. UNCHANGED <<reflection, legible>> /\ letter' \in [Letter -> {"absent", "outbox", "processed"}]
    BY <1>12, LettersStay
  <2>10. QED
    BY <1>12, <2>1, <2>7, <2>8, <2>9, StudyMoves
<1>13. ASSUME NEW t \in Learner, EndIngest(t) PROVE LearningInv'
  <2>1. PICK row \in LessonRow :
          \/ /\ Sits(t, "auto") /\ Insert(<<study[t].topic, "auto">>, row)
             /\ Step(t, "append")
          \/ /\ Sits(t, "learn") /\ Insert(<<study[t].topic, "answer">>, row)
             /\ study' = [study EXCEPT ![t].at = "link", ![t].saw = row]
    BY <1>13 DEF EndIngest
  <2>2. UNCHANGED <<reflection, legible, letter, clobbered>> /\ study[t] \in StudyRow
    BY <1>1, <1>13 DEF EndIngest
  <2>3. CASE Sits(t, "auto")
    <3> DEFINE s == [study[t] EXCEPT !.at = "append"]
    <3>1. study' = [study EXCEPT ![t] = s] /\ Insert(<<study[t].topic, "auto">>, row)
      BY <2>1, <2>3 DEF Step, Sits
    <3>2. study[t].topic \in Cycle /\ Creating(study[t])
      BY <1>1, <2>3 DEF Sits, StudyFits, OfCycle, Creating
    <3>3. s \in StudyRow /\ s.at = "append" /\ s.topic = study[t].topic /\ s.rows = study[t].rows
      BY <2>2 DEF StudyRow, Desk
    <3> HIDE DEF s
    <3>4. <<study[t].topic, "auto">> \in Lesson
          /\ \A c \in Cycle : <<study[t].topic, "auto">> # <<c, "answer">>
      BY <3>2, AnswerLessons
    <3>5. QED
      BY <1>12, <2>2, <3>1, <3>2, <3>3, <3>4
  <2>4. CASE Sits(t, "learn")
    <3> DEFINE s == [study[t] EXCEPT !.at = "link", !.saw = row]
    <3>1. study' = [study EXCEPT ![t] = s] /\ Insert(<<study[t].topic, "answer">>, row)
      BY <1>2, <2>1, <2>4 DEF Sits, LearnedTypes
    <3>2. study[t].topic \in Cycle /\ (~clobbered => reflection[study[t].topic].status = "closed")
      BY <1>1, <2>4 DEF Sits, StudyFits, OfCycle, Answered
    <3>3. s \in StudyRow /\ s.at = "link" /\ s.topic = study[t].topic /\ s.rows = study[t].rows
          /\ s.saw = row
      BY <2>2 DEF StudyRow, Desk
    <3> HIDE DEF s
    <3>4. <<study[t].topic, "answer">> \in Lesson
          /\ \A c \in Cycle : <<study[t].topic, "answer">> = <<c, "answer">> => c = study[t].topic
      BY <3>2, AnswerLessons
    <3>5. QED
      BY <1>12, <2>2, <3>1, <3>2, <3>3, <3>4
  <2>5. QED
    BY <2>1, <2>3, <2>4
<1>14. ASSUME NEW t \in Learner, CommitOutbox(t) PROVE LearningInv'
  <2>1. PICK row \in LessonRow : Insert(<<study[t].topic, "outbox">>, row)
    BY <1>14 DEF CommitOutbox
  <2>2. /\ study[t].topic \in Letter /\ study' = [study EXCEPT ![t] = NoStudy]
        /\ UNCHANGED <<reflection, legible, letter, clobbered>>
    BY <1>1, <1>14 DEF CommitOutbox, Sits, StudyFits, Rise
  <2>3. <<study[t].topic, "outbox">> \in Lesson
        /\ \A c \in Cycle : <<study[t].topic, "outbox">> # <<c, "answer">>
    BY <2>2, AnswerLessons
  <2>4. NoStudy.at \notin OfCycle
    BY NoStudyFits DEF OfCycle
  <2>5. QED
    BY <1>12, <2>1, <2>2, <2>3, <2>4, NoStudyFits
<1>15. ASSUME NEW t \in Learner, AppendCycle(t) PROVE LearningInv'
  <2>1. /\ Loads(t, study[t].topic, "append") /\ study[t].topic \in Cycle /\ Creating(study[t])
        /\ UNCHANGED <<reflection, legible, letter, lesson, clobbered>>
    BY <1>1, <1>15 DEF AppendCycle, Sits, StudyFits, OfCycle, Creating
  <2>2. QED
    BY <2>1, LoadStays DEF Change
<1>16. ASSUME NEW t \in Learner, CloseCycle(t) PROVE LearningInv'
  <2>1. study[t].topic \in Cycle /\ UNCHANGED <<reflection, legible, letter, lesson, clobbered>>
    BY <1>1, <1>16 DEF CloseCycle, Sits, StudyFits, OfCycle
  <2>2. CASE Loaded[study[t].topic].status = "open"
    BY <1>16, <2>1, <2>2, LoadStays DEF CloseCycle, Change
  <2>3. CASE Loaded[study[t].topic].status # "open"
    BY <1>2, <1>16, <2>1, <2>3, RiseStays DEF CloseCycle, LearnedTypes
  <2>4. QED
    BY <2>2, <2>3
<1>17. ASSUME NEW t \in Learner, LinkLessons(t) PROVE LearningInv'
  <2>1. /\ Loads(t, study[t].topic, "link") /\ study[t].topic \in Cycle /\ Linking(study[t])
        /\ UNCHANGED <<reflection, legible, letter, lesson, clobbered>>
    BY <1>1, <1>17 DEF LinkLessons, Sits, StudyFits, OfCycle, Linking
  <2>2. QED
    BY <2>1, LoadStays DEF Change
<1>18. ASSUME NEW t \in Learner, NEW c \in Cycle, DecideCycle(t, c) PROVE LearningInv'
  <2>1. PICK s \in {"ignored", "routed"} : Loads(t, c, s)
    BY <1>18 DEF DecideCycle
  <2>2. Loaded[c].status = "open" /\ UNCHANGED <<reflection, legible, letter, lesson, clobbered>>
    BY <1>18 DEF DecideCycle
  <2>3. s \in Change /\ s \notin {"append", "link"}
    BY <2>1 DEF Change
  <2>4. QED
    BY <2>1, <2>2, <2>3, LoadStays
\* A lesson of the table that is given another row.
<1>19. ASSUME NEW l \in Lesson, NEW row \in LessonRow, lesson' = [lesson EXCEPT ![l] = row],
              lesson[l].status # "absent", row.status # "absent", row.active <=> row.status = "approved",
              UNCHANGED <<reflection, legible, letter, clobbered>>,
              UNCHANGED study \/ \E p \in Learner : Rise(p)
       PROVE  LearningInv'
  <2>1. /\ lesson' \in [Lesson -> LessonRow] /\ Taught
        /\ LateAnswerTeachesNothing' /\ ActiveMeansApproved'
    BY <1>19, LessonRowFits
  <2>2. (clobbered => clobbered') /\ clobbered' \in BOOLEAN /\ UNCHANGED <<reflection, legible>>
        /\ letter' \in [Letter -> {"absent", "outbox", "processed"}]
    BY <1>2, <1>19 DEF LearnedTypes
  <2>3. CASE UNCHANGED study
    <3>1. \A q \in Learner : StudyFits(study[q], reflection', lesson', clobbered')
      BY <1>1, <2>1, <2>2, StudyKept
    <3>2. LinksHold'
      BY <2>1, <2>2, AnswerLessons DEF LearningInv, LinksHold, Taught
    <3>3. LearnedTypes' /\ CyclesApart'
      BY <1>2, <2>1, <2>2, <2>3 DEF LearningInv, LearnedTypes, CyclesApart
    <3>4. QED
      BY <2>1, <2>3, <3>1, <3>2, <3>3 DEF LearningInv
  <2>4. ASSUME NEW p \in Learner, Rise(p) PROVE LearningInv'
    <3>1. StudyFits(NoStudy, reflection, lesson', clobbered') /\ ~Creating(NoStudy)
      BY NoStudyFits
    <3>2. study' = [study EXCEPT ![p] = NoStudy]
      BY <2>4 DEF Rise
    <3>3. QED
      BY <2>1, <2>2, <3>1, <3>2, StudyMoves
  <2>5. QED
    BY <1>19, <2>3, <2>4
<1>20. ASSUME NEW p \in Learner, NEW l \in Lesson, Review(p, l) PROVE LearningInv'
  <2>1. PICK s \in {"approved", "rejected", "expired"} :
          lesson' = [lesson EXCEPT ![l].status = s, ![l].active = s = "approved"]
    BY <1>20 DEF Review
  <2>2. /\ lesson[l].status # "absent" /\ UNCHANGED <<reflection, legible, letter, clobbered>>
        /\ UNCHANGED study /\ lesson[l] \in LessonRow
    BY <1>2, <1>20 DEF Review, LearnedTypes
  <2> DEFINE row == [lesson[l] EXCEPT !.status = s, !.active = s = "approved"]
  <2>3. row \in LessonRow /\ row.status = s /\ (row.active <=> s = "approved")
    BY <2>2 DEF LessonRow, LessonStatus
  <2>4. lesson' = [lesson EXCEPT ![l] = row]
    BY <1>2, <2>1, <2>2 DEF LearnedTypes
  <2> HIDE DEF row
  <2>5. QED
    BY <1>19, <2>2, <2>3, <2>4
<1>21. ASSUME NEW p \in Learner, EndWeigh(p) PROVE LearningInv'
  <2> DEFINE l == <<study[p].topic, study[p].of>>
  <2>1. /\ l \in Lesson /\ lesson[l].status # "absent"
        /\ study[p].saw \in LessonRow /\ study[p].saw.status # "absent"
        /\ (study[p].saw.active <=> study[p].saw.status = "approved")
    BY <1>1, <1>21 DEF EndWeigh, Sits, StudyFits, StudyRow
  <2>2. PICK row \in {study[p].saw, [status |-> "expired", active |-> FALSE]} :
          lesson' = [lesson EXCEPT ![l] = row]
    BY <1>21 DEF EndWeigh
  <2>3. row \in LessonRow /\ row.status # "absent" /\ (row.active <=> row.status = "approved")
    <3>1. CASE row = study[p].saw
      BY <2>1, <3>1
    <3>2. CASE row = [status |-> "expired", active |-> FALSE]
      <4>1. row \in LessonRow /\ row.status = "expired" /\ row.active = FALSE
        BY <3>2 DEF LessonRow, LessonStatus
      <4>2. QED
        BY <4>1
    <3>3. QED
      BY <2>2, <3>1, <3>2
  <2>4. Rise(p) /\ UNCHANGED <<reflection, legible, letter, clobbered>>
    BY <1>21 DEF EndWeigh
  <2> HIDE DEF l
  <2>5. QED
    BY <1>19, <2>1, <2>2, <2>3, <2>4
<1>22. ASSUME NEW p \in Learner, StopStudy(p) PROVE LearningInv'
  <2>1. Rise(p) /\ UNCHANGED <<reflection, legible, letter, lesson>>
        /\ (clobbered => clobbered') /\ clobbered' \in BOOLEAN
    BY <1>22 DEF StopStudy
  <2>2. QED
    BY <2>1, RiseStays
<1>23. ASSUME UNCHANGED <<reflection, legible, lesson, study, clobbered>>,
              letter' \in [Letter -> {"absent", "outbox", "processed"}]
       PROVE LearningInv'
  BY <1>23 DEF LearningInv, LearnedTypes, CyclesApart, LateAnswerTeachesNothing, LinksHold,
     ActiveMeansApproved
<1>24. CASE UNCHANGED learningVars
  BY <1>23, <1>24, LettersStay DEF learningVars
<1>25. ASSUME NEW f \in Letter, WriteLetter(f) PROVE LearningInv'
  <2>1. letter' \in [Letter -> {"absent", "outbox", "processed"}]
    BY <1>2, <1>25 DEF WriteLetter, LearnedTypes
  <2>2. QED
    BY <1>23, <1>25, <2>1 DEF WriteLetter
<1>26. QED
  BY <1>4, <1>5, <1>6, <1>7, <1>9, <1>10, <1>11, <1>13, <1>14, <1>15, <1>16, <1>17, <1>18, <1>20,
     <1>21, <1>22, <1>24, <1>25, CutStays, SaveStays DEF LearningNext

\* Links lead to lessons and active lessons are approved, whatever saves went over each
\* other, and where none did lessons are learned only from answers that came in time:
\* for any threads, engines, cycles and letters.
THEOREM LessonsAreEarned == LearningSpec => []LessonsEarned
<1>1. LearningInv => LessonsEarned
  BY DEF LearningInv, LessonsEarned
<1>2. QED
  BY <1>1, LearningInitInv, LearningNextInv, PTL DEF LearningSpec

-----------------------------------------------------------------------------

\* The ids of reviews that were never made have some topic and claim.
AnyTopic == Topic \cup {CHOOSE g \in Topic : TRUE}
AnyClaim == Claim \cup {CHOOSE c \in Claim : TRUE}

AnyReview == [status : {"none", "pending", "accepted", "rejected"}, topic : AnyTopic,
              claim : AnyClaim]

\* The index counts each topic right, but for one whose entry is still to be written.
IndexAgrees ==
  \A g \in Topic \ lost :
    \/ saving.file = "index" /\ saving.topic = g
    \/ g \in indexed <=> g \in Canon(fact)

\* A flagged fact has its review, or the thread that merged it will ask for one.
AskedFor(g, c) ==
  \/ \E r \in ReviewId : review[r].status # "none" /\ review[r].topic = g /\ review[r].claim = c
  \/ \E t \in Extractor : <<g, c>> \in extractor[t]

FlaggedAsked ==
  \A g \in Topic \ lost, c \in Claim : fact[g][c].status = "flagged" => AskedFor(g, c)

TopicInv ==
  /\ fact \in [Topic -> [Claim -> FactRow]]
  /\ review \in [ReviewId -> AnyReview]
  /\ extractor \in [Extractor -> SUBSET (Topic \X Claim)]
  /\ \A t \in Extractor : \A p, q \in extractor[t] : p = q
  /\ saving.file \in {"none", "index", "topic"}
  /\ saving.file = "none" <=> saving = Unlocked
  /\ saving.file = "topic" => saving.status \in {"canon", "rejected"}
  /\ IndexAgrees
  /\ FlaggedAsked

LEMMA TopicInitInv == MemoryInit => TopicInv
<1> SUFFICES ASSUME MemoryInit PROVE TopicInv
  OBVIOUS
<1>1. /\ fact \in [Topic -> [Claim -> FactRow]]
      /\ \A g \in Topic : \A c \in Claim : fact[g][c].status = "none"
  BY DEF MemoryInit, FactRow
<1>2. review \in [ReviewId -> AnyReview]
  BY DEF MemoryInit, AnyReview, AnyTopic, AnyClaim
<1>3. IndexAgrees
  BY <1>1 DEF MemoryInit, IndexAgrees, Canon
<1>4. FlaggedAsked
  BY <1>1 DEF FlaggedAsked
<1>5. QED
  BY <1>1, <1>2, <1>3, <1>4 DEF MemoryInit, TopicInv, Unlocked

LEMMA HeardRow ==
  ASSUME NEW row \in FactRow, NEW n \in Confidence
  PROVE  /\ Heard(row, n) \in FactRow
         /\ Heard(row, n).status = "flagged" => row.status = "flagged" \/ n # Sure
<1>1. CASE n <= row.confidence
  BY <1>1 DEF Heard
<1>2. CASE ~(n <= row.confidence)
  <2> DEFINE new == [status |-> IF n = Sure THEN "canon"
                                ELSE IF row.status = "none" THEN "flagged" ELSE row.status,
                     confidence |-> n]
  <2>1. Heard(row, n) = new
    BY <1>2 DEF Heard
  <2>2. new \in FactRow /\ (new.status = "flagged" => n # Sure)
    BY DEF FactRow, Confidence
  <2>3. QED
    BY <2>1, <2>2
<1>3. QED
  BY <1>1, <1>2

LEMMA TopicNextInv == TopicInv /\ [MemoryNext]_memoryVars => TopicInv'
<1> SUFFICES ASSUME TopicInv, [MemoryNext]_memoryVars PROVE TopicInv'
  OBVIOUS
<1>1. ASSUME NEW t \in Extractor, NEW g \in Topic, NEW c \in Claim, NEW n \in Confidence,
             MergeFact(t, g, c, n)
      PROVE  TopicInv'
  <2>1. /\ extractor[t] = {} /\ saving = Unlocked /\ UNCHANGED <<indexed, review, lost>>
        /\ fact' = [fact EXCEPT ![g][c] = Heard(fact[g][c], n)]
        /\ saving' = IF fact' = fact THEN Unlocked ELSE [file |-> "index", topic |-> g]
        /\ extractor' = [extractor EXCEPT ![t] = IF n = Sure THEN {} ELSE {<<g, c>>}]
    BY <1>1 DEF MergeFact
  <2>2. fact[g] \in [Claim -> FactRow] /\ fact[g][c] \in FactRow
    BY DEF TopicInv
  <2>3. /\ fact' \in [Topic -> [Claim -> FactRow]]
        /\ fact'[g][c] = Heard(fact[g][c], n)
        /\ \A h \in Topic \ {g} : fact'[h] = fact[h]
        /\ \A d \in Claim \ {c} : fact'[g][d] = fact[g][d]
    BY <2>1, <2>2, HeardRow DEF TopicInv
  <2>4. /\ extractor' \in [Extractor -> SUBSET (Topic \X Claim)]
        /\ \A s \in Extractor : extractor[s] \subseteq extractor'[s]
        /\ \A s \in Extractor : \A p, q \in extractor'[s] : p = q
        /\ n # Sure => <<g, c>> \in extractor'[t]
    BY <2>1 DEF TopicInv
  <2>5. \/ saving' = Unlocked /\ fact' = fact
        \/ saving' = [file |-> "index", topic |-> g]
    BY <2>1
  <2>6. IndexAgrees'
    <3>1. CASE saving' = Unlocked /\ fact' = fact
      BY <2>1, <3>1 DEF TopicInv, IndexAgrees, Canon, Unlocked
    <3>2. CASE saving' = [file |-> "index", topic |-> g]
      BY <2>1, <2>3, <3>2 DEF TopicInv, IndexAgrees, Canon, Unlocked
    <3>3. QED
      BY <2>5, <3>1, <3>2
  <2>7. FlaggedAsked'
    <3> SUFFICES ASSUME NEW h \in Topic \ lost, NEW d \in Claim, fact'[h][d].status = "flagged"
                 PROVE  AskedFor(h, d)'
      BY <2>1 DEF FlaggedAsked
    <3>1. AskedFor(h, d) => AskedFor(h, d)'
      BY <2>1, <2>4 DEF AskedFor
    <3>2. fact[h][d].status = "flagged" \/ (h = g /\ d = c /\ n # Sure)
      BY <2>2, <2>3, HeardRow
    <3>3. QED
      BY <2>4, <3>1, <3>2 DEF TopicInv, FlaggedAsked, AskedFor
  <2>8. /\ saving'.file \in {"none", "index", "topic"}
        /\ saving'.file = "none" <=> saving' = Unlocked
        /\ saving'.file # "topic"
    BY <2>5 DEF Unlocked
  <2>9. QED
    BY <2>1, <2>3, <2>4, <2>6, <2>7, <2>8 DEF TopicInv
<1>2. ASSUME UpdateIndex PROVE TopicInv'
  <2>1. /\ saving.file = "index" /\ saving' = Unlocked /\ UNCHANGED <<fact, review, extractor, lost>>
        /\ indexed' = IF saving.topic \in Canon(fact) THEN indexed \cup {saving.topic}
                      ELSE indexed \ {saving.topic}
    BY <1>2 DEF UpdateIndex
  <2>2. IndexAgrees'
    BY <2>1 DEF TopicInv, IndexAgrees, Canon
  <2>3. saving'.file = "none"
    BY <2>1 DEF Unlocked
  <2>4. QED
    BY <2>1, <2>2, <2>3 DEF TopicInv, FlaggedAsked, AskedFor
<1>3. ASSUME NEW t \in Extractor, NEW r \in ReviewId, CreateReview(t, r) PROVE TopicInv'
  <2>1. PICK q \in extractor[t] :
          review' = [review EXCEPT ![r] = [status |-> "pending", topic |-> q[1], claim |-> q[2]]]
    BY <1>3 DEF CreateReview
  <2>2. /\ review[r].status = "none" /\ extractor' = [extractor EXCEPT ![t] = {}]
        /\ UNCHANGED <<fact, indexed, saving, lost>>
    BY <1>3 DEF CreateReview
  <2>3. q \in Topic \X Claim /\ q[1] \in Topic /\ q[2] \in Claim /\ q = <<q[1], q[2]>>
    BY DEF TopicInv
  <2> DEFINE row == [status |-> "pending", topic |-> q[1], claim |-> q[2]]
  <2>4. row \in AnyReview /\ row.status # "none" /\ row.topic = q[1] /\ row.claim = q[2]
    BY <2>3 DEF AnyReview, AnyTopic, AnyClaim
  <2>5. review' = [review EXCEPT ![r] = row]
    BY <2>1
  <2> HIDE DEF row
  <2>6. /\ review' \in [ReviewId -> AnyReview] /\ review'[r] = row
        /\ \A s \in ReviewId \ {r} : review'[s] = review[s]
    BY <2>4, <2>5 DEF TopicInv
  <2>7. /\ extractor' \in [Extractor -> SUBSET (Topic \X Claim)]
        /\ \A s \in Extractor : \A p, o \in extractor'[s] : p = o
        /\ \A s \in Extractor : \A p \in extractor[s] : p = q \/ p \in extractor'[s]
    BY <2>2 DEF TopicInv
  <2>8. FlaggedAsked'
    <3> SUFFICES ASSUME NEW h \in Topic \ lost, NEW d \in Claim, fact[h][d].status = "flagged"
                 PROVE  AskedFor(h, d)'
      BY <2>2 DEF FlaggedAsked
    <3>1. AskedFor(h, d)
      BY DEF TopicInv, FlaggedAsked
    <3>2. CASE \E s \in ReviewId : review[s].status # "none" /\ review[s].topic = h /\ review[s].claim = d
      BY <2>2, <2>6, <3>2 DEF AskedFor
    <3>3. CASE \E s \in Extractor : <<h, d>> \in extractor[s]
      <4>1. CASE <<h, d>> = q
        BY <2>4, <2>6, <4>1 DEF AskedFor
      <4>2. CASE <<h, d>> # q
        BY <2>7, <3>3, <4>2 DEF AskedFor
      <4>3. QED
        BY <4>1, <4>2
    <3>4. QED
      BY <3>1, <3>2, <3>3 DEF AskedFor
  <2>9. QED
    BY <2>2, <2>6, <2>7, <2>8 DEF TopicInv, IndexAgrees
<1>4. ASSUME NEW r \in ReviewId, NEW b \in BOOLEAN, AnswerReview(r, b) PROVE TopicInv'
  <2> DEFINE verdict == IF b THEN "accepted" ELSE "rejected"
             row == [review[r] EXCEPT !.status = verdict]
             save == [file |-> "topic", topic |-> review[r].topic, claim |-> review[r].claim,
                      status |-> IF b THEN "canon" ELSE "rejected"]
  <2>1. /\ saving = Unlocked /\ review[r].status # "none" /\ saving' = save
        /\ UNCHANGED <<fact, indexed, extractor, lost>>
    BY <1>4 DEF AnswerReview
  <2>2. save.file = "topic" /\ save.status \in {"canon", "rejected"} /\ save # Unlocked
    BY DEF Unlocked
  <2>3. review[r] \in AnyReview
    BY DEF TopicInv
  <2>4. row \in AnyReview /\ row.status # "none" /\ row.topic = review[r].topic
        /\ row.claim = review[r].claim
    BY <2>3 DEF AnyReview
  <2>5. review' = [review EXCEPT ![r] = row]
    BY <1>4 DEF AnswerReview
  <2> HIDE DEF row, save, verdict
  <2>6. /\ review' \in [ReviewId -> AnyReview] /\ review'[r] = row
        /\ \A s \in ReviewId \ {r} : review'[s] = review[s]
    BY <2>4, <2>5 DEF TopicInv
  <2>7. FlaggedAsked'
    <3> SUFFICES ASSUME NEW h \in Topic \ lost', NEW d \in Claim, fact'[h][d].status = "flagged"
                 PROVE  AskedFor(h, d)'
      BY DEF FlaggedAsked
    <3>1. AskedFor(h, d)
      BY <2>1 DEF TopicInv, FlaggedAsked
    <3>2. CASE \E s \in ReviewId : review[s].status # "none" /\ review[s].topic = h /\ review[s].claim = d
      <4>1. PICK s \in ReviewId : review[s].status # "none" /\ review[s].topic = h /\ review[s].claim = d
        BY <3>2
      <4>2. review'[s].status # "none" /\ review'[s].topic = h /\ review'[s].claim = d
        BY <2>4, <2>6, <4>1
      <4>3. QED
        BY <4>2 DEF AskedFor
    <3>3. CASE \E s \in Extractor : <<h, d>> \in extractor[s]
      BY <2>1, <3>3 DEF AskedFor
    <3>4. QED
      BY <3>1, <3>2, <3>3 DEF AskedFor
  <2>8. saving.file = "none"
    BY <2>1 DEF Unlocked
  <2>9. IndexAgrees'
    BY <2>1, <2>2, <2>8 DEF TopicInv, IndexAgrees
  <2>10. QED
    BY <2>1, <2>2, <2>6, <2>7, <2>9 DEF TopicInv
<1>5. ASSUME WriteVerdict PROVE TopicInv'
  <2>1. /\ saving.file = "topic" /\ UNCHANGED <<indexed, review, extractor, lost>>
        /\ fact' = [fact EXCEPT ![saving.topic][saving.claim].status = saving.status]
        /\ saving' = [file |-> "index", topic |-> saving.topic]
        /\ saving.status \in {"canon", "rejected"}
    BY <1>5 DEF WriteVerdict, TopicInv
  <2>2. /\ fact' \in [Topic -> [Claim -> FactRow]]
        /\ \A h \in Topic : h # saving.topic => fact'[h] = fact[h]
        /\ \A h \in Topic : \A d \in Claim : fact'[h][d] = fact[h][d]
                                              \/ fact'[h][d].status = saving.status
    <3>1. CASE saving.topic \notin Topic
      BY <2>1, <3>1 DEF TopicInv
    <3>2. CASE saving.topic \in Topic
      <4> DEFINE g == saving.topic
                 c == saving.claim
      <4>1. fact[g] \in [Claim -> FactRow] /\ fact' = [fact EXCEPT ![g] =
                [fact[g] EXCEPT ![c] = [fact[g][c] EXCEPT !.status = saving.status]]]
        BY <2>1, <3>2 DEF TopicInv
      <4>2. ASSUME c \in Claim
            PROVE  /\ [fact[g][c] EXCEPT !.status = saving.status] \in FactRow
                   /\ [fact[g][c] EXCEPT !.status = saving.status].status = saving.status
        <5>1. fact[g][c] \in FactRow
          BY <4>1, <4>2
        <5>2. QED
          BY <2>1, <5>1 DEF FactRow
      <4> DEFINE new == [fact[g] EXCEPT ![c] = [fact[g][c] EXCEPT !.status = saving.status]]
      <4>3. /\ new \in [Claim -> FactRow]
            /\ \A d \in Claim : new[d] = fact[g][d] \/ new[d].status = saving.status
        BY <4>1, <4>2
      <4>4. fact' = [fact EXCEPT ![g] = new]
        BY <4>1
      <4> HIDE DEF new
      <4>5. QED
        BY <3>2, <4>3, <4>4 DEF TopicInv
    <3>3. QED
      BY <3>1, <3>2
  <2>3. saving'.file = "index" /\ saving'.topic = saving.topic /\ saving' # Unlocked
    BY <2>1 DEF Unlocked
  <2>4. IndexAgrees'
    BY <2>1, <2>2, <2>3 DEF TopicInv, IndexAgrees, Canon
  <2>5. FlaggedAsked'
    <3> SUFFICES ASSUME NEW h \in Topic \ lost', NEW d \in Claim, fact'[h][d].status = "flagged"
                 PROVE  AskedFor(h, d)'
      BY DEF FlaggedAsked
    <3>1. fact'[h][d] = fact[h][d] \/ fact'[h][d].status = saving.status
      BY <2>1, <2>2
    <3>2. fact[h][d].status = "flagged" /\ h \in Topic \ lost
      BY <2>1, <3>1
    <3>3. AskedFor(h, d)
      BY <3>2 DEF TopicInv, FlaggedAsked
    <3>4. QED
      BY <2>1, <3>3 DEF AskedFor
  <2>6. QED
    BY <2>1, <2>2, <2>3, <2>4, <2>5 DEF TopicInv
<1>6. ASSUME CrashMemory PROVE TopicInv'
  <2>1. /\ saving' = Unlocked /\ extractor' = [t \in Extractor |-> {}]
        /\ UNCHANGED <<fact, indexed, review>> /\ lost \subseteq lost'
        /\ saving # Unlocked => saving.topic \in lost'
        /\ \A t \in Extractor : \A q \in extractor[t] : q[1] \in lost'
    <3> DEFINE asking == UNION {extractor[t] : t \in Extractor}
    <3>1. \A t \in Extractor : extractor[t] \subseteq asking
      OBVIOUS
    <3>2. lost' = lost \cup (IF saving = Unlocked THEN {} ELSE {saving.topic})
                      \cup {q[1] : q \in asking}
      BY <1>6 DEF CrashMemory
    <3>3. \A q \in asking : q[1] \in lost'
      BY <3>2
    <3>4. QED
      BY <1>6, <3>1, <3>2, <3>3 DEF CrashMemory
  <2>2. saving'.file = "none"
    BY <2>1 DEF Unlocked
  <2>3. IndexAgrees'
    BY <2>1, <2>2 DEF TopicInv, IndexAgrees
  <2>4. FlaggedAsked'
    <3> SUFFICES ASSUME NEW h \in Topic \ lost', NEW d \in Claim, fact'[h][d].status = "flagged"
                 PROVE  AskedFor(h, d)'
      BY DEF FlaggedAsked
    <3>1. AskedFor(h, d)
      BY <2>1 DEF TopicInv, FlaggedAsked
    <3>2. ASSUME NEW t \in Extractor, <<h, d>> \in extractor[t] PROVE FALSE
      <4>1. <<h, d>>[1] \in lost'
        BY <2>1, <3>2
      <4>2. QED
        BY <4>1
    <3>3. QED
      BY <2>1, <3>1, <3>2 DEF AskedFor
  <2>5. QED
    BY <2>1, <2>2, <2>3, <2>4 DEF TopicInv
<1>7. CASE UNCHANGED memoryVars
  BY <1>7 DEF memoryVars, TopicInv, IndexAgrees, FlaggedAsked, AskedFor
<1>8. QED
  BY <1>1, <1>2, <1>3, <1>4, <1>5, <1>6, <1>7 DEF MemoryNext

\* While no call is at its files, the index and the reviews agree with the facts, but
\* for a topic that a crash cut short, for any topics, claims and threads.
THEOREM FilesAgree == MemorySpec => []FactsReachReader
<1>1. TopicInv => FactsReachReader
  BY DEF TopicInv, FactsReachReader, IndexAgrees, FlaggedAsked, AskedFor, Unlocked
<1>2. QED
  BY <1>1, TopicInitInv, TopicNextInv, PTL DEF MemorySpec

-----------------------------------------------------------------------------

WriterRow == [at : {"idle"} \cup Making \cup Saving, doc : Document \cup {NoDoc}, new : SUBSET Entry,
              text : SUBSET Entry, inode : {"temp", "doc", "gone"}]

\* Nothing was accepted into a document.
Untouched(d) == \A e \in Entry : <<d, e>> \notin saved

\* A document on which no two changes met parses, and has what was saved.
DocumentKept(d) ==
  d \notin clash =>
    /\ doc[d].whole \/ (d = Index /\ Untouched(d))
    /\ \A e \in Entry : <<d, e>> \in saved => e \in doc[d].entries

\* The writer of such a document has its temporary file for itself, and a text with
\* what was saved in it; one that makes the index has it for itself.
WriterFits(t) ==
  LET w == writer[t]
  IN  w.doc \in Document \ clash =>
        IF w.at \in Making THEN w.doc = Index /\ Untouched(Index) ELSE
        /\ w.inode = "temp" /\ w.new \subseteq w.text
        /\ \A e \in Entry : <<w.doc, e>> \in saved => e \in w.text
        /\ w.at = "rename" => temp[w.doc] = Content(w.text)

WritersApart ==
  \A t, u \in Writer : writer[t].doc \in Document \ clash /\ writer[t].doc = writer[u].doc => t = u

\* A chat that is there or is being made.
Claimed(c) == doc[c].here \/ \E t \in Writer : writer[t].doc = c
OneChat ==
  Chat \cap clash = {} => \A a, b \in Chat : Claimed(a) /\ Claimed(b) => a = b

DocumentInv ==
  /\ doc \in [Document -> File] /\ temp \in [Document -> File]
  /\ writer \in [Writer -> WriterRow]
  /\ \A d \in Document : doc[d].here \/ doc[d].entries = {}
  /\ \A t \in Writer : writer[t].at # "idle" => writer[t].doc \in Document
  /\ \A t \in Writer : writer[t].at \in Making => writer[t].doc = Index
  /\ \A d \in Document : DocumentKept(d)
  /\ \A t \in Writer : WriterFits(t)
  /\ WritersApart
  /\ OneChat

LEMMA FileTypes ==
  /\ NoFile \in File /\ ~NoFile.here /\ NoFile.whole /\ NoFile.entries = {}
  /\ Torn \in File /\ Torn.here
  /\ \A es \in SUBSET Entry : /\ Content(es) \in File /\ Content(es).here
                              /\ Content(es).whole /\ Content(es).entries = es
  BY DEF NoFile, Torn, Content, File

LEMMA NoWriteType ==
  NoWrite \in WriterRow /\ NoWrite.at = "idle" /\ NoWrite.doc = NoDoc /\ NoDoc \notin Document
  BY DocumentAssumption DEF NoWrite, WriterRow, Document, DocumentAssumption

LEMMA DocumentInitInv == DocumentInit => DocumentInv
<1> SUFFICES ASSUME DocumentInit PROVE DocumentInv
  OBVIOUS
<1>1. /\ doc \in [Document -> File] /\ temp \in [Document -> File]
      /\ \A d \in Document : doc[d].whole /\ (doc[d].here \/ doc[d].entries = {})
      /\ \A c \in Chat : c \in Document /\ ~doc[c].here
  <2>1. Index \notin Chat /\ Chat \subseteq Document
    BY DocumentAssumption DEF DocumentAssumption, Document
  <2>2. QED
    BY <2>1, FileTypes DEF DocumentInit
<1>2. /\ writer \in [Writer -> WriterRow]
      /\ \A t \in Writer : writer[t].at = "idle" /\ writer[t].doc \notin Document
  BY NoWriteType DEF DocumentInit
<1>3. OneChat
  BY <1>1, <1>2 DEF OneChat, Claimed
<1>4. QED
  BY <1>1, <1>2, <1>3 DEF DocumentInit, DocumentInv, DocumentKept, WriterFits, WritersApart, Making

\* A change that begins.
LEMMA Begins ==
  ASSUME DocumentInv, NEW t \in Writer, NEW d \in Document, writer[t] = NoWrite,
         NEW w \in WriterRow, writer' = [writer EXCEPT ![t] = w],
         w.doc = d,
         \/ /\ w.at = "open" /\ w.new \subseteq w.text /\ w.inode = "temp"
            /\ d \notin clash => \A e \in Entry : <<d, e>> \in saved' => e \in w.text
         \/ /\ w.at = "make" /\ d = Index
            /\ d \notin clash => Untouched(Index),
         clash \subseteq clash', Busy(d) # {} => d \in clash',
         UNCHANGED <<doc, temp>>, saved' \subseteq saved,
         d \in Chat /\ Chat \cap clash' = {} =>
           doc[d].here \/ \A c \in Chat : ~Claimed(c)
  PROVE  DocumentInv'
<1>1. /\ writer' \in [Writer -> WriterRow] /\ writer'[t] = w
      /\ \A u \in Writer \ {t} : writer'[u] = writer[u]
  BY DEF DocumentInv
<1>2. \A e \in Document : DocumentKept(e)'
  BY DEF DocumentInv, DocumentKept, Untouched
<1>3. ASSUME NEW u \in Writer PROVE WriterFits(u)'
  <2>1. CASE u = t
    <3>1. writer'[u] = w
      BY <1>1, <2>1
    <3>2. CASE w.at = "open"
      BY <3>1, <3>2 DEF WriterFits, Making
    <3>3. CASE w.at = "make"
      BY <3>1, <3>3 DEF WriterFits, Making, Untouched
    <3>4. QED
      BY <3>2, <3>3
  <2>2. CASE u # t
    BY <1>1, <2>2 DEF DocumentInv, WriterFits, Untouched
  <2>3. QED
    BY <2>1, <2>2
<1>4. WritersApart'
  <2>1. \A u \in Writer : writer[u].doc = d => d \in clash'
    BY DEF Busy
  <2>2. QED
    BY <1>1, <2>1 DEF DocumentInv, WritersApart
<1>5. OneChat'
  <2> SUFFICES ASSUME (Chat \cap clash = {})', NEW a \in Chat, NEW b \in Chat,
                      Claimed(a)', Claimed(b)'
               PROVE  a = b
    BY DEF OneChat
  <2>1. Chat \cap clash = {}
    OBVIOUS
  <2>2. \A c \in Chat : Claimed(c)' => Claimed(c) \/ c = d
    BY <1>1 DEF Claimed
  <2>3. d \in Chat => Claimed(d) \/ \A c \in Chat : ~Claimed(c)
    BY DEF Claimed
  <2>4. QED
    BY <2>1, <2>2, <2>3 DEF DocumentInv, OneChat
<1>6. \A u \in Writer : writer'[u].at \in Making => writer'[u].doc = Index
  BY <1>1 DEF DocumentInv, Making
<1>7. QED
  BY <1>1, <1>2, <1>3, <1>4, <1>5, <1>6 DEF DocumentInv

\* A writer that goes to its next stage.
LEMMA StageMoves ==
  ASSUME DocumentInv, NEW t \in Writer, NEW d \in Document, writer[t].doc = d,
         NEW l \in Saving \cup {"start"}, l = "start" <=> writer[t].at \in Making,
         writer' = [writer EXCEPT ![t].at = l], UNCHANGED <<saved, clash>>,
         doc' \in [Document -> File], temp' \in [Document -> File],
         \A e \in Document \ {d} : doc'[e] = doc[e] /\ temp'[e] = temp[e],
         doc'[d].here \/ doc'[d].entries = {},
         d \notin clash => /\ DocumentKept(d)'
                           /\ d \in Chat => doc'[d] = doc[d]
                           /\ l = "rename" => temp'[d] = Content(writer[t].text)
  PROVE  DocumentInv'
<1> DEFINE w == [writer[t] EXCEPT !.at = l]
<1>1. /\ w \in WriterRow /\ w.at = l /\ w.doc = d /\ w.new = writer[t].new
      /\ w.text = writer[t].text /\ w.inode = writer[t].inode
  BY DEF DocumentInv, WriterRow, Making
<1>2. writer' = [writer EXCEPT ![t] = w]
  BY DEF DocumentInv
<1> HIDE DEF w
<1>3. /\ writer' \in [Writer -> WriterRow] /\ writer'[t] = w
      /\ \A u \in Writer \ {t} : writer'[u] = writer[u]
      /\ \A u \in Writer : writer'[u].doc = writer[u].doc
  BY <1>1, <1>2 DEF DocumentInv
<1>4. ASSUME NEW e \in Document PROVE DocumentKept(e)'
  <2>1. CASE e = d
    BY <2>1 DEF DocumentKept
  <2>2. CASE e # d
    BY <2>2 DEF DocumentInv, DocumentKept, Untouched
  <2>3. QED
    BY <2>1, <2>2
<1>5. ASSUME NEW u \in Writer PROVE WriterFits(u)'
  <2>1. CASE u = t
    <3>1. WriterFits(t)
      BY DEF DocumentInv
    <3>2. writer'[u] = w
      BY <1>3, <2>1
    <3>3. w.doc \notin clash =>
            IF w.at \in Making THEN w.doc = Index /\ Untouched(Index) ELSE
            /\ w.inode = "temp" /\ w.new \subseteq w.text
            /\ \A e \in Entry : <<w.doc, e>> \in saved => e \in w.text
            /\ w.at = "rename" => temp'[w.doc] = Content(w.text)
      BY <1>1, <3>1 DEF WriterFits, Making, Saving
    <3>4. QED
      BY <3>2, <3>3 DEF WriterFits, Untouched
  <2>2. CASE u # t
    <3>1. writer[u].doc \in Document \ clash => writer[u].doc # d
      BY <2>2 DEF DocumentInv, WritersApart
    <3>2. WriterFits(u) /\ writer'[u] = writer[u]
      BY <1>3, <2>2 DEF DocumentInv
    <3>3. QED
      BY <3>1, <3>2 DEF WriterFits, Untouched
  <2>3. QED
    BY <2>1, <2>2
<1>6. WritersApart'
  BY <1>3 DEF DocumentInv, WritersApart
<1>7. OneChat'
  <2>1. ASSUME Chat \cap clash = {}, NEW a \in Chat, Claimed(a)' PROVE Claimed(a)
    <3>1. a \in Document /\ a \notin clash
      BY <2>1 DEF Document
    <3>2. doc'[a] = doc[a]
      BY <2>1, <3>1, a = d \/ a # d
    <3>3. QED
      BY <1>3, <2>1, <3>2 DEF Claimed
  <2>2. QED
    BY <2>1 DEF DocumentInv, OneChat
<1>8. \A u \in Writer : writer'[u].at \in Making => writer'[u].doc = Index
  <2>1. CASE l = "start"
    BY <1>1, <1>3, <2>1 DEF DocumentInv
  <2>2. CASE l \in Saving
    BY <1>1, <1>3, <2>2 DEF DocumentInv, Making, Saving
  <2>3. QED
    BY <2>1, <2>2
<1>9. QED
  BY <1>1, <1>3, <1>4, <1>5, <1>6, <1>7, <1>8 DEF DocumentInv, Saving

\* A writer that ends; others of that document may lose their temporary file.
LEMMA WriterEnds ==
  ASSUME DocumentInv, NEW t \in Writer, NEW d \in Document, writer[t].doc = d,
         writer' \in [Writer -> WriterRow], writer'[t] = NoWrite,
         \A u \in Writer \ {t} :
           /\ writer'[u].doc = writer[u].doc /\ writer'[u].at = writer[u].at
           /\ writer[u].doc # d => writer'[u] = writer[u],
         UNCHANGED clash,
         doc' \in [Document -> File], temp' \in [Document -> File],
         \A e \in Document \ {d} : doc'[e] = doc[e] /\ temp'[e] = temp[e],
         \A e \in Document \ {d} : \A x \in Entry : <<e, x>> \in saved' <=> <<e, x>> \in saved,
         doc'[d].here \/ doc'[d].entries = {},
         d \notin clash => DocumentKept(d)'
  PROVE  DocumentInv'
<1>1. \A u \in Writer : writer'[u].doc \in Document => u # t /\ writer'[u].doc = writer[u].doc
  BY NoWriteType
<1>2. ASSUME NEW e \in Document PROVE DocumentKept(e)'
  <2>1. CASE e = d
    BY <2>1 DEF DocumentKept
  <2>2. CASE e # d
    BY <2>2 DEF DocumentInv, DocumentKept, Untouched
  <2>3. QED
    BY <2>1, <2>2
<1>3. ASSUME NEW u \in Writer PROVE WriterFits(u)'
  <2> SUFFICES ASSUME writer'[u].doc \in Document \ clash PROVE WriterFits(u)'
    BY DEF WriterFits
  <2>1. u # t /\ writer[u].doc \in Document \ clash
    BY <1>1
  <2>2. writer[u].doc # d
    BY <2>1 DEF DocumentInv, WritersApart
  <2>3. WriterFits(u) /\ writer'[u] = writer[u]
    BY <2>1, <2>2 DEF DocumentInv
  <2>4. QED
    BY <2>1, <2>2, <2>3 DEF WriterFits, Untouched
<1>4. WritersApart'
  BY <1>1 DEF DocumentInv, WritersApart
<1>5. OneChat'
  <2>1. ASSUME NEW a \in Chat, Claimed(a)' PROVE Claimed(a)
    <3>1. a \in Document
      BY DEF Document
    <3>2. CASE doc'[a].here
      BY <3>1, <3>2 DEF Claimed
    <3>3. CASE \E u \in Writer : writer'[u].doc = a
      BY <1>1, <3>1, <3>3 DEF Claimed
    <3>4. QED
      BY <2>1, <3>2, <3>3 DEF Claimed
  <2>2. QED
    BY <2>1 DEF DocumentInv, OneChat
<1>6. \A u \in Writer : writer'[u].at # "idle" => writer'[u].doc \in Document
  BY NoWriteType DEF DocumentInv
<1>7. \A u \in Writer : writer'[u].at \in Making => writer'[u].doc = Index
  BY NoWriteType DEF DocumentInv, Making
<1>8. QED
  BY <1>2, <1>3, <1>4, <1>5, <1>6, <1>7 DEF DocumentInv

LEMMA DocumentNextInv == DocumentInv /\ [DocumentNext]_documentVars => DocumentInv'
<1> SUFFICES ASSUME DocumentInv, [DocumentNext]_documentVars PROVE DocumentInv'
  OBVIOUS
<1>a. Chat \subseteq Document /\ Index \in Document /\ Index \notin Chat
  BY DocumentAssumption DEF Document, DocumentAssumption
<1>b. \A d \in Document : doc[d] \in File /\ doc[d].entries \in SUBSET Entry
  BY DEF DocumentInv, File
<1>1. ASSUME NEW t \in Writer, NEW c \in Chat, CreateChat(t, c) PROVE DocumentInv'
  <2>1. /\ writer[t] = NoWrite /\ Found = {} /\ ~doc[c].here /\ Busy(c) = {}
        /\ clash \subseteq clash' /\ UNCHANGED <<doc, temp, saved>>
        /\ (\E b \in Chat : ~doc[b].here /\ Busy(b) # {}) => Chat \subseteq clash'
    BY <1>1 DEF CreateChat
  <2> DEFINE w == [NoWrite EXCEPT !.at = "open", !.doc = c]
  <2>2. /\ w \in WriterRow /\ w.at = "open" /\ w.doc = c /\ w.new = {} /\ w.text = {}
        /\ w.inode = "temp"
    <3>1. NoWrite.new = {} /\ NoWrite.text = {} /\ NoWrite.inode = "temp"
      BY DEF NoWrite
    <3>2. QED
      BY <1>a, <3>1, NoWriteType DEF WriterRow, Saving
  <2>3. writer' = [writer EXCEPT ![t] = w]
    BY <1>1 DEF CreateChat
  <2> HIDE DEF w
  <2>4. Chat \cap clash' = {} => \A b \in Chat : ~Claimed(b)
    <3>1. Chat \cap clash' = {} => \A b \in Chat : ~doc[b].here
      BY <1>a, <2>1 DEF Found, DocumentInv, DocumentKept
    <3>2. QED
      BY <2>1, <3>1 DEF Claimed, Busy
  <2>5. c \notin clash => \A e \in Entry : <<c, e>> \notin saved
    BY <1>a, <2>1 DEF DocumentInv, DocumentKept
  <2>6. c \in Document
    BY <1>a
  <2>7. QED
    BY <2>1, <2>2, <2>3, <2>4, <2>5, <2>6, Begins
<1>2. ASSUME NEW t \in Writer, NEW d \in Document, NEW new \in SUBSET Entry,
             NEW text \in SUBSET Entry, new \subseteq text, writer[t] = NoWrite,
             Begin(t, d, new, text), UNCHANGED <<doc, temp>>, saved' \subseteq saved,
             d \notin clash => \A e \in Entry : <<d, e>> \in saved' => e \in text,
             d \in Chat => doc[d].here
      PROVE  DocumentInv'
  <2> DEFINE w == [at |-> "open", doc |-> d, new |-> new, text |-> text, inode |-> "temp"]
  <2>1. /\ w \in WriterRow /\ w.at = "open" /\ w.doc = d /\ w.new = new /\ w.text = text
        /\ w.inode = "temp"
    BY DEF WriterRow, Saving
  <2>2. /\ writer' = [writer EXCEPT ![t] = w]
        /\ clash \subseteq clash' /\ (Busy(d) # {} => d \in clash')
    BY <1>2 DEF Begin
  <2> HIDE DEF w
  <2>3. QED
    BY <1>2, <2>1, <2>2, Begins
<1>3. ASSUME NEW t \in Writer, NEW c \in Chat, NEW e \in Entry, AddMessage(t, c, e)
      PROVE  DocumentInv'
  <2> DEFINE text == doc[c].entries \cup {e}
  <2>1. /\ writer[t] = NoWrite /\ doc[c].here /\ Begin(t, c, {e}, text)
        /\ UNCHANGED <<doc, temp, saved>>
    BY <1>3 DEF AddMessage
  <2>2. /\ text \in SUBSET Entry /\ {e} \in SUBSET Entry /\ {e} \subseteq text
        /\ c \notin clash => \A x \in Entry : <<c, x>> \in saved => x \in text
        /\ c \in Document
    BY <1>a, <1>b DEF DocumentInv, DocumentKept
  <2> HIDE DEF text
  <2>3. QED
    BY <1>2, <2>1, <2>2
<1>4. ASSUME NEW t \in Writer, NEW e \in Entry, AddProject(t, e) PROVE DocumentInv'
  <2> DEFINE text == doc[Index].entries \cup {e}
  <2>1. /\ writer[t] = NoWrite /\ Begin(t, Index, {e}, text) /\ UNCHANGED <<doc, temp, saved>>
    BY <1>4 DEF AddProject
  <2>2. /\ text \in SUBSET Entry /\ {e} \in SUBSET Entry /\ {e} \subseteq text
        /\ Index \notin clash => \A x \in Entry : <<Index, x>> \in saved => x \in text
    BY <1>a, <1>b DEF DocumentInv, DocumentKept
  <2> HIDE DEF text
  <2>3. QED
    BY <1>2, <1>a, <2>1, <2>2
<1>5. ASSUME NEW t \in Writer, NEW d \in Document, Rewrite(t, d) PROVE DocumentInv'
  <2>1. /\ writer[t] = NoWrite /\ doc[d].here /\ Begin(t, d, {}, doc[d].entries)
        /\ UNCHANGED <<doc, temp, saved>>
    BY <1>5 DEF Rewrite
  <2>2. /\ doc[d].entries \in SUBSET Entry /\ {} \in SUBSET Entry /\ {} \subseteq doc[d].entries
        /\ d \notin clash => \A x \in Entry : <<d, x>> \in saved => x \in doc[d].entries
    BY <1>b DEF DocumentInv, DocumentKept
  <2>3. QED
    BY <1>2, <2>1, <2>2
<1>6. ASSUME NEW t \in Writer, NEW e \in Entry, NEW d \in Document, Remove(t, d, e)
      PROVE  DocumentInv'
  <2> DEFINE text == doc[d].entries \ {e}
  <2>1. /\ writer[t] = NoWrite /\ Begin(t, d, {}, text) /\ UNCHANGED <<doc, temp>>
        /\ saved' = saved \ {<<d, e>>} /\ e \in doc[d].entries
    BY <1>6 DEF Remove
  <2>2. /\ text \in SUBSET Entry /\ {} \in SUBSET Entry /\ {} \subseteq text
        /\ d \notin clash => \A x \in Entry : <<d, x>> \in saved' => x \in text
        /\ doc[d].here /\ saved' \subseteq saved
    BY <1>b, <2>1 DEF DocumentInv, DocumentKept
  <2> HIDE DEF text
  <2>3. QED
    BY <1>2, <2>1, <2>2
<1>7. ASSUME NEW t \in Writer, NEW c \in Chat, DeleteChat(t, c) PROVE DocumentInv'
  <2>1. /\ doc' = [doc EXCEPT ![c] = NoFile] /\ UNCHANGED <<temp, writer>>
        /\ saved' = {s \in saved : s[1] # c} /\ clash \subseteq clash'
        /\ Busy(c) # {} => c \in clash'
    BY <1>7 DEF DeleteChat
  <2>2. /\ doc' \in [Document -> File] /\ doc'[c] = NoFile /\ c \in Document
        /\ \A d \in Document \ {c} : doc'[d] = doc[d]
    BY <1>a, <2>1, FileTypes DEF DocumentInv
  <2>3. saved' \subseteq saved /\ \A e \in Entry : <<c, e>> \notin saved'
    BY <2>1
  <2>4. \A d \in Document : DocumentKept(d)'
    BY <2>1, <2>2, <2>3, FileTypes DEF DocumentInv, DocumentKept, Untouched
  <2>5. \A u \in Writer : WriterFits(u)'
    BY <2>1, <2>3 DEF DocumentInv, WriterFits, Untouched
  <2>6. WritersApart'
    BY <2>1 DEF DocumentInv, WritersApart
  <2>7. OneChat'
    <3>1. \A b \in Chat : Claimed(b)' => Claimed(b)
      BY <1>a, <2>1, <2>2, FileTypes DEF Claimed
    <3>2. QED
      BY <2>1, <3>1 DEF DocumentInv, OneChat
  <2>8. \A d \in Document : doc'[d].here \/ doc'[d].entries = {}
    BY <2>2, FileTypes DEF DocumentInv
  <2>9. QED
    BY <2>1, <2>2, <2>4, <2>5, <2>6, <2>7, <2>8 DEF DocumentInv
<1>8. ASSUME NEW t \in Writer, OpenTemp(t) PROVE DocumentInv'
  <2>1. PICK d \in Document : d = writer[t].doc
    BY <1>8 DEF OpenTemp, DocumentInv
  <2>2. /\ writer[t].at = "open" /\ temp' = [temp EXCEPT ![d] = Torn]
        /\ writer' = [writer EXCEPT ![t].at = "fill"] /\ UNCHANGED <<doc, saved, clash>>
    BY <1>8, <2>1 DEF OpenTemp
  <2>3. "fill" \in Saving \cup {"start"}
    BY DEF Saving
  <2>4. /\ temp' \in [Document -> File] /\ \A e \in Document \ {d} : temp'[e] = temp[e]
        /\ doc' \in [Document -> File] /\ (doc'[d].here \/ doc'[d].entries = {})
    BY <2>2, <2>3, FileTypes DEF DocumentInv
  <2>5. "fill" = "start" <=> writer[t].at \in Making
    BY <2>2 DEF Making
  <2>6. DocumentKept(d)'
    BY <2>2, <2>3 DEF DocumentInv, DocumentKept, Untouched
  <2>7. QED
    BY <2>1, <2>2, <2>3, <2>4, <2>5, <2>6, StageMoves
<1>9. ASSUME NEW t \in Writer, FillTemp(t) PROVE DocumentInv'
  <2>1. PICK d \in Document : d = writer[t].doc
    BY <1>9 DEF FillTemp, DocumentInv
  <2> DEFINE alone == \A u \in Busy(d) \ {t} : writer[u].at \notin {"fill", "rename"}
  <2>2. PICK f \in {Content(writer[t].text)} \cup (IF alone THEN {} ELSE {Torn}) :
          /\ temp' = IF writer[t].inode = "temp" THEN [temp EXCEPT ![d] = f] ELSE temp
          /\ doc' = IF writer[t].inode = "doc" THEN [doc EXCEPT ![d] = f] ELSE doc
    BY <1>9, <2>1 DEF FillTemp
  <2>3. /\ writer[t].at = "fill" /\ writer' = [writer EXCEPT ![t].at = "rename"]
        /\ UNCHANGED <<saved, clash>>
    BY <1>9 DEF FillTemp
  <2>4. "rename" \in Saving \cup {"start"} /\ writer[t].text \in SUBSET Entry
    BY <2>3 DEF DocumentInv, Saving, WriterRow
  <2>5. f \in File /\ f.here
    BY <2>2, <2>4, FileTypes
  <2>6. /\ temp' \in [Document -> File] /\ doc' \in [Document -> File]
        /\ \A e \in Document \ {d} : doc'[e] = doc[e] /\ temp'[e] = temp[e]
        /\ doc'[d].here \/ doc'[d].entries = {}
    BY <2>2, <2>4, <2>5 DEF DocumentInv
  <2>7. ASSUME d \notin clash
        PROVE  doc'[d] = doc[d] /\ temp'[d] = Content(writer[t].text)
    <3>1. writer[t].inode = "temp"
      BY <2>1, <2>3, <2>7 DEF DocumentInv, WriterFits, Making
    <3>2. Busy(d) \subseteq {t}
      BY <2>1, <2>7 DEF DocumentInv, WritersApart, Busy
    <3>3. f = Content(writer[t].text)
      BY <2>2, <3>2
    <3>4. QED
      BY <2>2, <2>4, <3>1, <3>3 DEF DocumentInv
  <2>8. d \notin clash => DocumentKept(d)'
    BY <2>3, <2>4, <2>7 DEF DocumentInv, DocumentKept, Untouched
  <2>9. "rename" = "start" <=> writer[t].at \in Making
    BY <2>3 DEF Making
  <2>10. QED
    BY <2>1, <2>3, <2>4, <2>6, <2>7, <2>8, <2>9, StageMoves
<1>10. ASSUME NEW t \in Writer, Rename(t) PROVE DocumentInv'
  <2>1. PICK d \in Document : d = writer[t].doc
    BY <1>10 DEF Rename, DocumentInv
  <2>2. writer[t].at = "rename" /\ UNCHANGED clash
        /\ writer[t].new \in SUBSET Entry /\ writer[t].text \in SUBSET Entry
    BY <1>10 DEF Rename, DocumentInv, WriterRow
  <2>3. d \notin clash => temp[d] = Content(writer[t].text)
    BY <2>1, <2>2 DEF DocumentInv, WriterFits, Making
  <2>4. CASE temp[d].here
    <3>1. /\ doc' = [doc EXCEPT ![d] = temp[d]] /\ temp' = [temp EXCEPT ![d] = NoFile]
          /\ writer' = [Moved(d) EXCEPT ![t] = NoWrite]
          /\ saved' = saved \cup {<<d, e>> : e \in writer[t].new}
      BY <1>10, <2>1, <2>4 DEF Rename
    <3>2. /\ doc' \in [Document -> File] /\ temp' \in [Document -> File]
          /\ doc'[d] = temp[d] /\ doc'[d].here
          /\ \A e \in Document \ {d} : doc'[e] = doc[e] /\ temp'[e] = temp[e]
      BY <2>2, <2>4, <3>1, FileTypes DEF DocumentInv
    <3>3. ASSUME NEW u \in Writer
          PROVE  /\ Moved(d)[u] \in WriterRow
                 /\ Moved(d)[u].doc = writer[u].doc /\ Moved(d)[u].at = writer[u].at
                 /\ writer[u].doc # d => Moved(d)[u] = writer[u]
      <4>1. writer[u] \in WriterRow
        BY DEF DocumentInv
      <4>2. Moved(d)[u] = IF writer[u].doc = d /\ writer[u].at \in {"fill", "rename", "start"}
                          THEN [writer[u] EXCEPT !.inode = IF writer[u].inode = "temp" THEN "doc"
                                                           ELSE "gone"]
                          ELSE writer[u]
        BY DEF Moved
      <4>3. QED
        BY <4>1, <4>2 DEF WriterRow
    <3>4. /\ writer' \in [Writer -> WriterRow] /\ writer'[t] = NoWrite
          /\ \A u \in Writer \ {t} : writer'[u] = Moved(d)[u]
      <4>1. Moved(d) = [u \in Writer |-> Moved(d)[u]]
        BY DEF Moved
      <4>2. Moved(d) \in [Writer -> WriterRow]
        BY <3>3, <4>1
      <4>3. QED
        BY <3>1, <4>2, NoWriteType
    <3>5. \A e \in Document \ {d} : \A x \in Entry : <<e, x>> \in saved' <=> <<e, x>> \in saved
      BY <3>1
    <3>6. ASSUME d \notin clash PROVE DocumentKept(d)'
      <4>1. /\ doc'[d].whole /\ doc'[d].entries = writer[t].text
            /\ writer[t].new \subseteq writer[t].text
            /\ \A e \in Entry : <<d, e>> \in saved => e \in writer[t].text
        BY <2>1, <2>2, <2>3, <3>2, <3>6, FileTypes DEF DocumentInv, WriterFits, Making
      <4>2. \A e \in Entry : <<d, e>> \in saved' => <<d, e>> \in saved \/ e \in writer[t].new
        BY <3>1
      <4>3. QED
        BY <4>1, <4>2 DEF DocumentKept
    <3>7. QED
      BY <2>2, <3>2, <3>3, <3>4, <3>5, <3>6, <2>1, WriterEnds
  <2>5. CASE ~temp[d].here
    <3>1. writer' = [writer EXCEPT ![t] = NoWrite] /\ UNCHANGED <<doc, temp, saved>>
      BY <1>10, <2>1, <2>5 DEF Rename
    <3>2. /\ writer' \in [Writer -> WriterRow] /\ writer'[t] = NoWrite
          /\ \A u \in Writer \ {t} : writer'[u] = writer[u]
      BY <3>1, NoWriteType DEF DocumentInv
    <3>3. DocumentKept(d)'
      BY <2>2, <3>1 DEF DocumentInv, DocumentKept, Untouched
    <3>4. doc' \in [Document -> File] /\ temp' \in [Document -> File]
          /\ (doc'[d].here \/ doc'[d].entries = {})
      BY <2>2, <3>1 DEF DocumentInv
    <3>5. QED
      BY <2>2, <3>1, <3>2, <3>3, <3>4, <2>1, WriterEnds
  <2>6. QED
    BY <2>4, <2>5
<1>11. ASSUME CrashWriters PROVE DocumentInv'
  <2>1. /\ writer' = [t \in Writer |-> NoWrite] /\ UNCHANGED <<doc, temp, saved, clash>>
    BY <1>11 DEF CrashWriters
  <2>2. /\ writer' \in [Writer -> WriterRow]
        /\ \A t \in Writer : writer'[t].at = "idle" /\ writer'[t].doc = NoDoc
    BY <2>1, NoWriteType
  <2>3. \A t \in Writer : WriterFits(t)'
    BY <2>2, NoWriteType DEF WriterFits
  <2>4. WritersApart'
    BY <2>2, NoWriteType DEF WritersApart
  <2>5. OneChat'
    <3>1. \A a \in Chat : Claimed(a)' => Claimed(a)
      BY <1>a, <2>1, <2>2, NoWriteType DEF Claimed
    <3>2. QED
      BY <2>1, <3>1 DEF DocumentInv, OneChat
  <2>6. QED
    BY <2>1, <2>2, <2>3, <2>4, <2>5 DEF DocumentInv, DocumentKept, Untouched, Making
<1>12. ASSUME NEW t \in Writer, MakeIndex(t) PROVE DocumentInv'
  <2> DEFINE w == [NoWrite EXCEPT !.at = "make", !.doc = Index, !.inode = "doc"]
  <2>1. /\ writer[t] = NoWrite /\ ~doc[Index].here /\ clash \subseteq clash'
        /\ writer' = [writer EXCEPT ![t] = w]
        /\ Busy(Index) # {} => Index \in clash'
        /\ UNCHANGED <<doc, temp, saved>>
    BY <1>12 DEF MakeIndex
  <2>2. w \in WriterRow /\ w.doc = Index /\ w.at = "make"
    BY <1>a, NoWriteType DEF NoWrite, WriterRow, Making
  <2> HIDE DEF w
  <2>3. Index \notin clash => Untouched(Index)
    BY <1>a, <2>1 DEF DocumentInv, DocumentKept, Untouched
  <2>4. QED
    BY <1>a, <2>1, <2>2, <2>3, Begins
<1>13. ASSUME NEW t \in Writer, CutIndex(t) PROVE DocumentInv'
  <2>1. /\ writer[t].at = "make" /\ doc' = [doc EXCEPT ![Index] = Torn]
        /\ writer' = [writer EXCEPT ![t].at = "start"] /\ UNCHANGED <<temp, saved, clash>>
    BY <1>13 DEF CutIndex
  <2>2. writer[t].doc = Index /\ writer[t].at \in Making
    BY <2>1 DEF DocumentInv, Making
  <2>3. /\ doc' \in [Document -> File] /\ temp' \in [Document -> File]
        /\ \A e \in Document \ {Index} : doc'[e] = doc[e] /\ temp'[e] = temp[e]
        /\ doc'[Index].here
    BY <1>a, <2>1, FileTypes DEF DocumentInv
  <2>4. Index \notin clash => Untouched(Index)
    BY <1>a, <2>2 DEF DocumentInv, WriterFits
  <2>5. Index \notin clash => DocumentKept(Index)'
    BY <2>1, <2>4 DEF DocumentKept, Untouched
  <2>6. QED
    BY <1>a, <2>1, <2>2, <2>3, <2>5, StageMoves
<1>14. ASSUME NEW t \in Writer, StartIndex(t) PROVE DocumentInv'
  <2>1. PICK f \in {Content({})} \cup (IF Busy(Index) = {t} THEN {} ELSE {Torn}) :
          doc' = IF writer[t].inode = "doc" THEN [doc EXCEPT ![Index] = f] ELSE doc
    BY <1>14 DEF StartIndex
  <2>2. /\ writer[t].at = "start" /\ writer' = [writer EXCEPT ![t] = NoWrite]
        /\ UNCHANGED <<temp, saved, clash>>
    BY <1>14 DEF StartIndex
  <2>3. writer[t].doc = Index /\ writer[t].at \in Making
    BY <2>2 DEF DocumentInv, Making
  <2>4. f \in File /\ f.here
    BY <2>1, FileTypes
  <2>5. /\ doc' \in [Document -> File] /\ temp' \in [Document -> File]
        /\ \A e \in Document \ {Index} : doc'[e] = doc[e] /\ temp'[e] = temp[e]
        /\ doc'[Index].here \/ doc'[Index].entries = {}
    BY <1>a, <2>1, <2>2, <2>4 DEF DocumentInv
  <2>6. Index \notin clash => Untouched(Index)
    BY <1>a, <2>3 DEF DocumentInv, WriterFits
  <2>7. Index \notin clash => DocumentKept(Index)'
    BY <2>2, <2>6 DEF DocumentKept, Untouched
  <2>8. /\ writer' \in [Writer -> WriterRow] /\ writer'[t] = NoWrite
        /\ \A u \in Writer \ {t} : writer'[u] = writer[u]
    BY <2>2, NoWriteType DEF DocumentInv
  <2>9. QED
    BY <1>a, <2>2, <2>3, <2>5, <2>7, <2>8, WriterEnds
<1>15. CASE UNCHANGED documentVars
  BY <1>15 DEF documentVars, DocumentInv, DocumentKept, WriterFits, WritersApart, OneChat,
               Claimed, Untouched
<1>16. QED
  BY <1>1, <1>3, <1>4, <1>5, <1>6, <1>7, <1>8, <1>9, <1>10, <1>11, <1>12, <1>13, <1>14, <1>15
     DEF DocumentNext

\* A document on which no two changes met parses and holds what was saved, for any
\* commands, chats and entries.
THEOREM SavedIsThere == DocumentSpec => []KeptUnlessClash
<1>1. ASSUME DocumentInv PROVE KeptUnlessClash
  <2>1. \A d \in Document \ clash : /\ doc[d].whole \/ (d = Index /\ Untouched(d))
                                    /\ \A e \in Entry : <<d, e>> \in saved => e \in doc[d].entries
    BY <1>1 DEF DocumentInv, DocumentKept
  <2>2. \A a, b \in Chat : doc[a].here /\ doc[b].here /\ a # b => Chat \cap clash # {}
    BY <1>1 DEF DocumentInv, OneChat, Claimed
  <2>3. QED
    BY <2>1, <2>2 DEF KeptUnlessClash, Untouched
<1>2. QED
  BY <1>1, DocumentInitInv, DocumentNextInv, PTL DEF DocumentSpec

-----------------------------------------------------------------------------

AnyProject == Project \cup {NoItem}
AnyService == Service \cup {NoItem}

ItemRow == [status : ItemStatus, slug : AnyProject, by : AnyService]
IngestRow == [at : IngestStage, lock : AnyService, item : Item \cup {NoItem}, slug : AnyProject]
KeeperRow == [at : {"idle", "update", "rows", "tree"}, item : Item \cup {NoItem}, slug : AnyProject]
Extracted == {"extract", "markdown", "clear", "embed", "summary", "look", "artifact"}

LibraryTypes ==
  /\ item \in [Item -> ItemRow]
  /\ chunks \in [Item -> SUBSET Ingester]
  /\ files \in [Item -> SUBSET Kept]
  /\ artifacts \subseteq Item \X AnyProject
  /\ overlap \subseteq Item /\ torn \subseteq Item
  /\ ingester \in [Ingester -> IngestRow]
  /\ \A t \in Ingester : ingester[t].item \in Item <=> ingester[t].at \in Extracted \cup {"get"}
  /\ keeper \in KeeperRow
  /\ keeper.item \in Item <=> keeper.at # "idle"

\* What a thread that is alone with an item has written of it, stage by stage.
IngestFits(t, i) ==
  LET l == ingester[t].at
  IN  /\ InLibrary(i)
      /\ l \in Extracted => ingester[t].slug = item[i].slug /\ "source" \in files[i]
      /\ l \in {"clear", "embed", "summary", "look", "artifact"} => "content" \in files[i]
      /\ l \in {"look", "artifact"} => "summary" \in files[i]
      /\ l = "embed" => chunks[i] = {}
      /\ l \in {"summary", "look", "artifact"} => chunks[i] = {t}
      /\ item[i].status = "ready" => WholeItem(i) /\ l \in {"get", "look", "artifact"}

KeeperFits(i) ==
  /\ keeper.at \in {"update", "rows"} => InLibrary(i) /\ (item[i].status = "ready" => WholeItem(i))
  /\ keeper.at = "tree" => ~InLibrary(i)

Settled(i) ==
  /\ item[i].status = "ready" => WholeItem(i)
  /\ item[i].status = "ready" /\ i \notin torn => ArtifactsOf(i) = {<<i, item[i].slug>>}
  /\ ~InLibrary(i) /\ i \notin torn => files[i] = {}

ItemFits(i) ==
  i \notin overlap =>
    /\ \A t, u \in Ingester : ingester[t].item = i /\ ingester[u].item = i => t = u
    /\ \A t \in Ingester : ingester[t].item = i => keeper.item # i /\ IngestFits(t, i)
    /\ keeper.item = i => KeeperFits(i)
    /\ ~Works(i) => Settled(i)

ChunksHaveRow == \A i \in Item : chunks[i] # {} => InLibrary(i)
StoredOnce == \A i, j \in Item : InLibrary(i) /\ InLibrary(j) /\ i # j => item[i].by # item[j].by

\* Under the lock of a service nobody else takes in the content it did not find.
IntakesAlone ==
  \A t \in Ingester : ingester[t].at = "intake" =>
    /\ \A i \in Item : InLibrary(i) => item[i].by # ingester[t].lock
    /\ \A u \in Ingester : ingester[u].at = "intake" /\ ingester[u].lock = ingester[t].lock
                             => u = t

LibraryInv ==
  /\ LibraryTypes
  /\ \A i \in Item : ItemFits(i)
  /\ ChunksHaveRow
  /\ StoredOnce
  /\ IntakesAlone

LEMMA LibraryInitInv == LibraryInit => LibraryInv
<1> SUFFICES ASSUME LibraryInit PROVE LibraryInv
  OBVIOUS
<1>a. NoItem \notin Item
  BY LibraryAssumption DEF LibraryAssumption
<1>1. item \in [Item -> ItemRow] /\ \A i \in Item : item[i].status = "none"
  BY DEF LibraryInit, NoRow, ItemRow, ItemStatus, AnyProject, AnyService
<1>2. /\ ingester \in [Ingester -> IngestRow]
      /\ \A t \in Ingester : ingester[t].at = "idle" /\ ingester[t].item = NoItem
  BY DEF LibraryInit, NoIngest, IngestRow, IngestStage, AnyProject, AnyService
<1>3. keeper \in KeeperRow /\ keeper.at = "idle" /\ keeper.item = NoItem
  BY DEF LibraryInit, NoKeeper, KeeperRow, AnyProject
<1>4. LibraryTypes
  BY <1>a, <1>1, <1>2, <1>3 DEF LibraryInit, LibraryTypes, Extracted
<1>5. \A i \in Item : ~InLibrary(i)
  BY <1>1 DEF InLibrary
<1>6. ASSUME NEW i \in Item PROVE ItemFits(i)
  BY <1>a, <1>1, <1>2, <1>3 DEF ItemFits, Settled, LibraryInit
<1>7. QED
  BY <1>2, <1>4, <1>5, <1>6 DEF LibraryInit, LibraryInv, ChunksHaveRow, StoredOnce, IntakesAlone

\* A step that writes of one item only ...
WritesOf(i) ==
  /\ chunks' \in [Item -> SUBSET Ingester] /\ files' \in [Item -> SUBSET Kept]
  /\ artifacts' \subseteq Item \X AnyProject /\ torn' \subseteq Item
  /\ \A j \in Item \ {i} : /\ chunks'[j] = chunks[j] /\ files'[j] = files[j]
                           /\ ArtifactsOf(j)' = ArtifactsOf(j) /\ (j \in torn' <=> j \in torn)

RowOf(i) == item' \in [Item -> ItemRow] /\ \A j \in Item \ {i} : item'[j] = item[j]

\* ... and neither adds nor removes rows.
Touches(i) ==
  /\ WritesOf(i) /\ RowOf(i)
  /\ \A j \in Item : (InLibrary(j)' <=> InLibrary(j)) /\ item'[j].by = item[j].by
  /\ chunks'[i] # {} => InLibrary(i)

\* Items that a step does not touch.
LEMMA OtherItems ==
  ASSUME LibraryInv, NEW i, WritesOf(i), RowOf(i),
         \A j \in Item \ {i} : j \in overlap' <=> j \in overlap,
         \A t \in Ingester : \/ ingester'[t] = ingester[t]
                             \/ {ingester[t].item, ingester'[t].item} \subseteq {i, NoItem},
         keeper' = keeper \/ {keeper.item, keeper'.item} \subseteq {i, NoItem}
  PROVE  \A j \in Item \ {i} : ItemFits(j)'
<1> SUFFICES ASSUME NEW j \in Item \ {i}, j \notin overlap'
             PROVE  /\ \A t, u \in Ingester : ingester'[t].item = j /\ ingester'[u].item = j => t = u
                    /\ \A t \in Ingester : ingester'[t].item = j =>
                         keeper'.item # j /\ IngestFits(t, j)'
                    /\ keeper'.item = j => KeeperFits(j)'
                    /\ (~Works(j))' => Settled(j)'
  BY DEF ItemFits
<1>a. j # NoItem /\ j \notin overlap /\ ItemFits(j)
  BY LibraryAssumption DEF LibraryAssumption, LibraryInv
<1>b. /\ item'[j] = item[j] /\ chunks'[j] = chunks[j] /\ files'[j] = files[j]
      /\ ArtifactsOf(j)' = ArtifactsOf(j) /\ (j \in torn' <=> j \in torn)
  BY DEF WritesOf, RowOf
<1>1. \A t \in Ingester : ingester'[t].item = j <=> ingester[t].item = j
  BY <1>a
<1>2. \A t \in Ingester : ingester'[t].item = j => ingester'[t] = ingester[t]
  BY <1>a
<1>3. (keeper'.item = j <=> keeper.item = j) /\ (keeper'.item = j => keeper' = keeper)
  BY <1>a
<1>4. (InLibrary(j)' <=> InLibrary(j)) /\ (WholeItem(j)' <=> WholeItem(j))
  BY <1>b DEF InLibrary, WholeItem
<1>5. \A t, u \in Ingester : ingester'[t].item = j /\ ingester'[u].item = j => t = u
  BY <1>a, <1>1 DEF ItemFits
<1>6. ASSUME NEW t \in Ingester, ingester'[t].item = j
      PROVE  keeper'.item # j /\ IngestFits(t, j)'
  BY <1>a, <1>b, <1>1, <1>2, <1>3, <1>4, <1>6 DEF ItemFits, IngestFits
<1>7. ASSUME keeper'.item = j PROVE KeeperFits(j)'
  BY <1>a, <1>b, <1>3, <1>4, <1>7 DEF ItemFits, KeeperFits
<1>8. ASSUME ~Works(j)' PROVE Settled(j)'
  <2>1. ~Works(j)
    BY <1>1, <1>3, <1>8 DEF Works
  <2>2. Settled(j)
    BY <1>a, <2>1 DEF ItemFits
  <2>3. QED
    BY <1>b, <1>4, <2>2 DEF Settled
<1>9. QED
  BY <1>5, <1>6, <1>7, <1>8

\* A row that keeps its place in the library.
LEMMA Marked ==
  ASSUME LibraryInv, NEW i \in Item, NEW mark \in ItemStatus \ {"none", "deleted"},
         NEW slug \in AnyProject,
         \/ item' = IF InLibrary(i) THEN [item EXCEPT ![i].status = mark] ELSE item
         \/ item' = IF InLibrary(i) THEN [item EXCEPT ![i].status = mark, ![i].slug = slug]
                    ELSE item
  PROVE  /\ RowOf(i)
         /\ \A j \in Item : (InLibrary(j)' <=> InLibrary(j)) /\ item'[j].by = item[j].by
         /\ InLibrary(i) => item'[i].status = mark /\ item'[i].slug \in {item[i].slug, slug}
<1>1. item[i] \in ItemRow
  BY DEF LibraryInv, LibraryTypes
<1> DEFINE one == [item[i] EXCEPT !.status = mark]
           both == [item[i] EXCEPT !.status = mark, !.slug = slug]
<1>2. /\ one \in ItemRow /\ one.status = mark /\ one.slug = item[i].slug /\ one.by = item[i].by
      /\ both \in ItemRow /\ both.status = mark /\ both.slug = slug /\ both.by = item[i].by
  BY <1>1 DEF ItemRow
<1>3. \/ item' = item /\ ~InLibrary(i)
      \/ item' = [item EXCEPT ![i] = one] /\ InLibrary(i)
      \/ item' = [item EXCEPT ![i] = both] /\ InLibrary(i)
  BY DEF LibraryInv, LibraryTypes
<1> HIDE DEF one, both
<1>4. CASE item' = item /\ ~InLibrary(i)
  BY <1>4 DEF LibraryInv, LibraryTypes, InLibrary, RowOf
<1>5. ASSUME NEW row \in ItemRow, row.status = mark, row.slug \in {item[i].slug, slug},
             row.by = item[i].by, item' = [item EXCEPT ![i] = row], InLibrary(i)
      PROVE  /\ RowOf(i)
             /\ \A j \in Item : (InLibrary(j)' <=> InLibrary(j)) /\ item'[j].by = item[j].by
             /\ item'[i].status = mark /\ item'[i].slug \in {item[i].slug, slug}
  <2>1. /\ RowOf(i) /\ item'[i] = row
    BY <1>5 DEF LibraryInv, LibraryTypes, RowOf
  <2>2. QED
    BY <1>5, <2>1 DEF InLibrary, RowOf
<1>6. QED
  BY <1>2, <1>3, <1>4, <1>5

\* Artifacts of one item are removed, or replaced by one.
LEMMA Rearranged ==
  ASSUME LibraryInv, NEW i \in Item,
         \/ \E g \in AnyProject : PutArtifact(i, g)
         \/ \E gone \in SUBSET ArtifactsOf(i) : RemoveArtifacts(i, gone)
         \/ \E gone \in SUBSET ArtifactsOf(i) : artifacts' = artifacts \ gone /\ torn' = torn
  PROVE  /\ artifacts' \subseteq Item \X AnyProject /\ torn' \subseteq Item
         /\ \A j \in Item \ {i} : /\ ArtifactsOf(j)' = ArtifactsOf(j)
                                  /\ j \in torn' <=> j \in torn
<1>1. artifacts \subseteq Item \X AnyProject /\ torn \subseteq Item
  BY DEF LibraryInv, LibraryTypes
<1>2. torn' \subseteq Item /\ \A j \in Item \ {i} : j \in torn' <=> j \in torn
  BY <1>1 DEF PutArtifact, RemoveArtifacts
<1>3. \E gone \in SUBSET ArtifactsOf(i), new \in SUBSET ({i} \X AnyProject) :
        artifacts' = (artifacts \ gone) \cup new
  <2>1. ArtifactsOf(i) \subseteq {i} \X AnyProject /\ {} \subseteq ArtifactsOf(i)
    BY <1>1 DEF ArtifactsOf
  <2>2. ASSUME NEW g \in AnyProject, PutArtifact(i, g)
        PROVE  \E gone \in SUBSET ArtifactsOf(i), new \in SUBSET ({i} \X AnyProject) :
                 artifacts' = (artifacts \ gone) \cup new
    <3>1. CASE artifacts' = artifacts
      <4>1. artifacts' = (artifacts \ {}) \cup {}
        BY <3>1
      <4>2. QED
        BY <4>1
    <3>2. ASSUME NEW left \in SUBSET ArtifactsOf(i),
                 artifacts' = (artifacts \ ArtifactsOf(i)) \cup left \cup {<<i, g>>}
          PROVE  \E gone \in SUBSET ArtifactsOf(i), new \in SUBSET ({i} \X AnyProject) :
                   artifacts' = (artifacts \ gone) \cup new
      <4>1. left \cup {<<i, g>>} \in SUBSET ({i} \X AnyProject)
        BY <2>1
      <4>2. artifacts' = (artifacts \ ArtifactsOf(i)) \cup (left \cup {<<i, g>>})
        BY <3>2
      <4>3. QED
        BY <4>1, <4>2
    <3>3. QED
      BY <2>2, <3>1, <3>2 DEF PutArtifact
  <2>3. ASSUME NEW gone \in SUBSET ArtifactsOf(i), NEW left \in SUBSET gone,
               artifacts' = (artifacts \ gone) \cup left
        PROVE  \E taken \in SUBSET ArtifactsOf(i), new \in SUBSET ({i} \X AnyProject) :
                 artifacts' = (artifacts \ taken) \cup new
    BY <2>1, <2>3
  <2>4. ASSUME NEW gone \in SUBSET ArtifactsOf(i), artifacts' = artifacts \ gone
        PROVE  \E taken \in SUBSET ArtifactsOf(i), new \in SUBSET ({i} \X AnyProject) :
                 artifacts' = (artifacts \ taken) \cup new
    <3>1. artifacts' = (artifacts \ gone) \cup {} /\ {} \in SUBSET ({i} \X AnyProject)
      BY <2>4
    <3>2. QED
      BY <3>1
  <2>5. QED
    BY <2>2, <2>3, <2>4 DEF RemoveArtifacts
<1>4. PICK gone \in SUBSET ArtifactsOf(i), new \in SUBSET ({i} \X AnyProject) :
        artifacts' = (artifacts \ gone) \cup new
  BY <1>3
<1>5. artifacts' \subseteq Item \X AnyProject
  BY <1>1, <1>4
<1>6. ASSUME NEW j \in Item \ {i} PROVE ArtifactsOf(j)' = ArtifactsOf(j)
  <2>1. \A a \in gone \cup new : a[1] = i
    BY <1>4 DEF ArtifactsOf
  <2>2. \A a : a \in artifacts' /\ a[1] = j <=> a \in artifacts /\ a[1] = j
    BY <1>4, <2>1
  <2>3. QED
    BY <2>2 DEF ArtifactsOf
<1>7. QED
  BY <1>2, <1>5, <1>6

\* A thread that works on an item, or leaves it.
LEMMA WorkStep ==
  ASSUME LibraryInv, NEW t \in Ingester, NEW i \in Item, ingester[t].item = i,
         NEW w \in IngestRow, ingester' = [ingester EXCEPT ![t] = w],
         (w.at \in Extracted /\ w.item = i) \/ (w.at = "ended" /\ w.item = NoItem),
         UNCHANGED <<keeper, overlap>>,
         Touches(i),
         i \notin overlap => IF w.item = i THEN IngestFits(t, i)' ELSE Settled(i)'
  PROVE  LibraryInv'
<1>a. NoItem \notin Item
  BY LibraryAssumption DEF LibraryAssumption
<1>1. /\ ingester' \in [Ingester -> IngestRow] /\ ingester'[t] = w
      /\ \A u \in Ingester \ {t} : ingester'[u] = ingester[u]
  BY DEF LibraryInv, LibraryTypes
<1>2. w.at # "intake" /\ w.at # "idle"
  BY DEF Extracted
<1>3. LibraryTypes'
  <2>1. w.item \in Item <=> w.at \in Extracted \cup {"get"}
    BY <1>a DEF Extracted
  <2>2. \A u \in Ingester : ingester'[u].item \in Item
                              <=> ingester'[u].at \in Extracted \cup {"get"}
    BY <1>1, <2>1 DEF LibraryInv, LibraryTypes
  <2>3. QED
    BY <1>1, <2>2 DEF LibraryInv, LibraryTypes, Touches, WritesOf, RowOf
<1>4. \A j \in Item \ {i} : ItemFits(j)'
  <2>1. \A u \in Ingester : \/ ingester'[u] = ingester[u]
                            \/ {ingester[u].item, ingester'[u].item} \subseteq {i, NoItem}
    BY <1>1
  <2>2. QED
    BY <2>1, OtherItems DEF Touches
<1>5. ItemFits(i)'
  <2> SUFFICES ASSUME i \notin overlap PROVE ItemFits(i)'
    BY DEF ItemFits
  <2>1. /\ \A u \in Ingester : ingester[u].item = i => u = t
        /\ keeper.item # i
    BY DEF LibraryInv, ItemFits
  <2>2. \A u \in Ingester : ingester'[u].item = i => u = t /\ w.item = i
    BY <1>1, <2>1
  <2>3. keeper'.item # i
    BY <2>1
  <2>4. Works(i)' <=> w.item = i
    BY <1>1, <2>2, <2>3 DEF Works
  <2>5. QED
    BY <2>2, <2>3, <2>4 DEF ItemFits
<1>6. ChunksHaveRow'
  BY DEF LibraryInv, ChunksHaveRow, Touches, WritesOf
<1>7. StoredOnce'
  BY DEF LibraryInv, StoredOnce, Touches
<1>8. IntakesAlone'
  BY <1>1, <1>2 DEF LibraryInv, IntakesAlone, Touches
<1>9. QED
  BY <1>3, <1>4, <1>5, <1>6, <1>7, <1>8 DEF LibraryInv

\* The step of a thread at a stage, with what it changes of the thread.
LEMMA AtItem ==
  ASSUME LibraryInv, NEW t \in Ingester, ingester[t].at \in Extracted \cup {"get"}
  PROVE  /\ ingester[t].item \in Item /\ ingester[t] \in IngestRow
         /\ ingester[t].slug \in AnyProject
         /\ ingester[t].item \notin overlap => IngestFits(t, ingester[t].item)
<1>1. ingester[t].item \in Item /\ ingester[t] \in IngestRow
  BY DEF LibraryInv, LibraryTypes
<1>2. QED
  BY <1>1 DEF LibraryInv, ItemFits, IngestRow

LEMMA GoesTo ==
  ASSUME LibraryInv, NEW t \in Ingester, ingester[t].at \in Extracted \cup {"get"},
         NEW l \in Extracted, IngestTo(t, l)
  PROVE  /\ [ingester[t] EXCEPT !.at = l] \in IngestRow
         /\ [ingester[t] EXCEPT !.at = l].at = l
         /\ [ingester[t] EXCEPT !.at = l].item = ingester[t].item
         /\ [ingester[t] EXCEPT !.at = l].slug = ingester[t].slug
         /\ ingester' = [ingester EXCEPT ![t] = [ingester[t] EXCEPT !.at = l]]
<1>1. ingester[t] \in IngestRow /\ l \in IngestStage
  BY AtItem DEF Extracted, IngestStage
<1>2. ingester' = [ingester EXCEPT ![t] = [ingester[t] EXCEPT !.at = l]]
  BY DEF IngestTo, LibraryInv, LibraryTypes
<1>3. QED
  BY <1>1, <1>2 DEF IngestRow

LEMMA GoesAway ==
  ASSUME LibraryInv, NEW t \in Ingester, Leaves(t)
  PROVE  \E w \in IngestRow : /\ w.at = "ended" /\ w.item = NoItem
                              /\ ingester' = [ingester EXCEPT ![t] = w]
<1> DEFINE w == [NoIngest EXCEPT !.at = "ended"]
<1>1. w \in IngestRow /\ w.at = "ended" /\ w.item = NoItem
  BY DEF NoIngest, IngestRow, IngestStage, AnyProject, AnyService
<1>2. ingester' = [ingester EXCEPT ![t] = w]
  BY DEF Leaves
<1> HIDE DEF w
<1>3. QED
  BY <1>1, <1>2

\* A thread that leaves an item ...
LEMMA LeavesItem ==
  ASSUME LibraryInv, NEW t \in Ingester, ingester[t].at \in Extracted \cup {"get"},
         NEW i \in Item, i = ingester[t].item, Leaves(t), UNCHANGED <<keeper, overlap>>,
         Touches(i), i \notin overlap => Settled(i)'
  PROVE  LibraryInv'
<1>1. PICK w \in IngestRow : /\ w.at = "ended" /\ w.item = NoItem
                             /\ ingester' = [ingester EXCEPT ![t] = w]
  BY GoesAway
<1>2. w.item # i
  BY <1>1, LibraryAssumption DEF LibraryAssumption
<1>3. QED
  BY <1>1, <1>2, WorkStep

\* ... and says that it failed.
LEMMA GivesUp ==
  ASSUME LibraryInv, NEW t \in Ingester, ingester[t].at \in Extracted \cup {"get"},
         NEW i \in Item, i = ingester[t].item, Leaves(t), Mark(i, "failed"),
         UNCHANGED <<keeper, overlap>>, WritesOf(i), chunks'[i] # {} => InLibrary(i)
  PROVE  LibraryInv'
<1>2. item[i].slug \in AnyProject /\ "failed" \in ItemStatus \ {"none", "deleted"}
  BY DEF LibraryInv, LibraryTypes, ItemRow, ItemStatus
<1>3. item' = IF InLibrary(i) THEN [item EXCEPT ![i].status = "failed"] ELSE item
  BY DEF Mark
<1>4. /\ RowOf(i)
      /\ \A j \in Item : (InLibrary(j)' <=> InLibrary(j)) /\ item'[j].by = item[j].by
      /\ InLibrary(i) => item'[i].status = "failed"
  BY <1>2, <1>3, Marked
<1>5. i \notin overlap => Settled(i)'
  <2>1. i \notin overlap => InLibrary(i)
    BY AtItem DEF IngestFits
  <2>2. QED
    BY <1>4, <2>1 DEF Settled
<1>6. Touches(i)
  BY <1>4 DEF Touches
<1>7. QED
  BY <1>5, <1>6, LeavesItem

\* A thread that goes to its next stage; it may write the row and add to the files.
Remarked(t, i, mark) == UNCHANGED item \/ Mark(i, mark) \/ MarkWith(t, mark)
Wrote(i, new, own) ==
  /\ files' = [files EXCEPT ![i] = files[i] \cup new]
  /\ chunks' = [chunks EXCEPT ![i] = own]

Advances(t, i, to, mark, new, own) ==
  /\ IngestTo(t, to) /\ Remarked(t, i, mark) /\ Wrote(i, new, own)
  /\ UNCHANGED <<artifacts, keeper, overlap, torn>>
  /\ to \in Extracted /\ mark \in ItemStatus \ {"none", "deleted"}
  /\ mark = "ready" => to = "look"
  /\ new \subseteq Kept /\ own \subseteq Ingester
  /\ own # {} => InLibrary(i)
  /\ i \notin overlap =>
       /\ to \in {"clear", "embed", "summary", "look", "artifact"} => "content" \in files[i] \cup new
       /\ to \in {"look", "artifact"} => "summary" \in files[i] \cup new
       /\ to = "embed" => own = {}
       /\ to \in {"summary", "look", "artifact"} => own = {t}

LEMMA GoesOn ==
  ASSUME LibraryInv, NEW t \in Ingester, ingester[t].at \in Extracted \ {"look", "artifact"},
         NEW i \in Item, i = ingester[t].item, NEW to, NEW mark, NEW new, NEW own,
         Advances(t, i, to, mark, new, own)
  PROVE  LibraryInv'
<1> USE DEF Advances
<1> DEFINE w == [ingester[t] EXCEPT !.at = to]
<1>1. /\ w \in IngestRow /\ w.at = to /\ w.item = i /\ w.slug = ingester[t].slug
      /\ ingester' = [ingester EXCEPT ![t] = w]
  BY GoesTo
<1> HIDE DEF w
<1>2. ingester[t].slug \in AnyProject
  BY AtItem
<1>3. /\ RowOf(i)
      /\ \A j \in Item : (InLibrary(j)' <=> InLibrary(j)) /\ item'[j].by = item[j].by
      /\ InLibrary(i) => item'[i].slug \in {item[i].slug, ingester[t].slug}
      /\ InLibrary(i) => item'[i].status \in {item[i].status, mark}
  <2>1. CASE UNCHANGED item
    BY <2>1 DEF LibraryInv, LibraryTypes, InLibrary, RowOf
  <2>2. CASE Mark(i, mark) \/ MarkWith(t, mark)
    <3>1. \/ item' = IF InLibrary(i) THEN [item EXCEPT ![i].status = mark] ELSE item
          \/ item' = IF InLibrary(i)
                     THEN [item EXCEPT ![i].status = mark, ![i].slug = ingester[t].slug]
                     ELSE item
      BY <2>2 DEF Mark, MarkWith
    <3>2. QED
      BY <1>2, <3>1, Marked
  <2>3. QED
    BY <2>1, <2>2 DEF Remarked
<1>4. /\ files' \in [Item -> SUBSET Kept] /\ files'[i] = files[i] \cup new
      /\ chunks' \in [Item -> SUBSET Ingester] /\ chunks'[i] = own
      /\ \A j \in Item \ {i} : files'[j] = files[j] /\ chunks'[j] = chunks[j]
  BY DEF LibraryInv, LibraryTypes, Wrote
<1>5. ASSUME i \notin overlap PROVE IngestFits(t, i)'
  <2>1. /\ InLibrary(i) /\ ingester[t].slug = item[i].slug /\ "source" \in files[i]
        /\ item[i].status # "ready"
    <3>1. IngestFits(t, i) /\ ingester[t].at \in Extracted
      BY <1>5, AtItem
    <3>2. ingester[t].at \notin {"get", "look", "artifact"}
      BY DEF Extracted
    <3>3. QED
      BY <3>1, <3>2 DEF IngestFits
  <2>2. ingester'[t] = w
    BY <1>1 DEF LibraryInv, LibraryTypes
  <2>3. InLibrary(i)' /\ item'[i].slug = w.slug
    BY <1>1, <1>3, <2>1
  <2>4. ASSUME item'[i].status = "ready" PROVE WholeItem(i)' /\ to = "look"
    <3>1. to = "look" /\ chunks'[i] = {t}
      BY <1>3, <1>4, <1>5, <2>1, <2>4
    <3>2. files'[i] = Kept
      BY <1>4, <1>5, <2>1, <3>1 DEF Kept
    <3>3. Cardinality({t}) = 1
      BY FS_Singleton
    <3>4. QED
      BY <3>1, <3>2, <3>3 DEF WholeItem
  <2>5. QED
    BY <1>1, <1>4, <1>5, <2>1, <2>2, <2>3, <2>4 DEF IngestFits
<1>6. Touches(i)
  BY <1>3, <1>4 DEF Touches, WritesOf, ArtifactsOf, LibraryInv, LibraryTypes
<1>7. w.at \in Extracted /\ w.item = i /\ ingester[t].item = i
  BY <1>1
<1>8. UNCHANGED <<keeper, overlap>>
  OBVIOUS
<1>9. i \notin overlap => IF w.item = i THEN IngestFits(t, i)' ELSE Settled(i)'
  BY <1>5, <1>7
<1>10. QED
  BY <1>1, <1>6, <1>7, <1>8, <1>9, WorkStep

\* A step of the user on an item.
LEMMA KeeperStep ==
  ASSUME LibraryInv, NEW i \in Item, keeper.item = i,
         UNCHANGED <<ingester, overlap>>, WritesOf(i), RowOf(i),
         InLibrary(i)' => InLibrary(i) /\ item'[i].by = item[i].by,
         chunks'[i] # {} => InLibrary(i)',
         keeper' \in KeeperRow,
         \/ keeper'.item = i /\ keeper'.at # "idle"
         \/ keeper'.item = NoItem /\ keeper'.at = "idle",
         i \notin overlap => IF keeper'.item = i THEN KeeperFits(i)' ELSE Settled(i)'
  PROVE  LibraryInv'
<1>a. NoItem \notin Item
  BY LibraryAssumption DEF LibraryAssumption
<1>1. \A j \in Item : InLibrary(j)' => InLibrary(j) /\ item'[j].by = item[j].by
  BY DEF InLibrary, RowOf
<1>2. LibraryTypes'
  BY <1>a DEF LibraryInv, LibraryTypes, WritesOf, RowOf
<1>3. \A j \in Item \ {i} : ItemFits(j)'
  BY OtherItems
<1>4. ItemFits(i)'
  <2> SUFFICES ASSUME i \notin overlap PROVE ItemFits(i)'
    BY DEF ItemFits
  <2>1. \A t \in Ingester : ingester'[t].item # i
    BY DEF LibraryInv, ItemFits
  <2>2. Works(i)' <=> keeper'.item = i
    BY <2>1 DEF Works
  <2>3. QED
    BY <1>a, <2>1, <2>2 DEF ItemFits
<1>5. ChunksHaveRow'
  <2>1. \A j \in Item \ {i} : (InLibrary(j)' <=> InLibrary(j)) /\ chunks'[j] = chunks[j]
    BY DEF InLibrary, WritesOf, RowOf
  <2>2. QED
    BY <2>1 DEF LibraryInv, ChunksHaveRow
<1>6. StoredOnce'
  BY <1>1 DEF LibraryInv, StoredOnce
<1>7. IntakesAlone'
  BY <1>1 DEF LibraryInv, IntakesAlone
<1>8. QED
  BY <1>2, <1>3, <1>4, <1>5, <1>6, <1>7 DEF LibraryInv

\* The user begins with an item.
LEMMA KeeperBegins ==
  ASSUME LibraryInv, NEW i \in Item, keeper.at = "idle", InLibrary(i), Touch(i),
         UNCHANGED <<chunks, files, ingester>>, WritesOf(i), RowOf(i),
         item'[i].status = item[i].status /\ item'[i].by = item[i].by,
         keeper' \in KeeperRow, keeper'.item = i, keeper'.at \in {"update", "rows"}
  PROVE  LibraryInv'
<1>a. keeper.item = NoItem /\ NoItem \notin Item
  BY LibraryAssumption DEF LibraryAssumption, LibraryInv, LibraryTypes, KeeperRow
<1>b. overlap' \subseteq Item /\ \A j \in Item : j # i => (j \in overlap' <=> j \in overlap)
  BY DEF Touch, LibraryInv, LibraryTypes
<1>1. \A j \in Item : (InLibrary(j)' <=> InLibrary(j)) /\ item'[j].by = item[j].by
  BY DEF InLibrary, RowOf
<1>2. LibraryTypes'
  BY <1>b DEF LibraryInv, LibraryTypes, WritesOf, RowOf
<1>3. \A j \in Item \ {i} : ItemFits(j)'
  BY <1>a, <1>b, OtherItems
<1>4. ItemFits(i)'
  <2> SUFFICES ASSUME i \notin overlap' PROVE ItemFits(i)'
    BY DEF ItemFits
  <2>1. i \notin overlap /\ ~Works(i)
    BY DEF Touch
  <2>2. \A t \in Ingester : ingester'[t].item # i
    BY <2>1 DEF Works
  <2>3. Settled(i)
    BY <2>1 DEF LibraryInv, ItemFits
  <2>4. KeeperFits(i)'
    BY <1>1, <2>3 DEF KeeperFits, Settled, WholeItem
  <2>5. Works(i)'
    BY DEF Works
  <2>6. QED
    BY <2>2, <2>4, <2>5 DEF ItemFits
<1>5. ChunksHaveRow' /\ StoredOnce' /\ IntakesAlone'
  BY <1>1 DEF LibraryInv, ChunksHaveRow, StoredOnce, IntakesAlone
<1>6. QED
  BY <1>2, <1>3, <1>4, <1>5 DEF LibraryInv

\* A thread takes an item in that is there already.
LEMMA FoundIntake ==
  ASSUME LibraryInv, NEW t \in Ingester, NEW g \in Project, NEW i \in Item,
         InLibrary(i), InStage(t, "idle"), item' = [item EXCEPT ![i].slug = g],
         ingester' = [ingester EXCEPT ![t] = [at |-> "get", lock |-> NoItem, item |-> i, slug |-> g]],
         Touch(i), UNCHANGED <<chunks, files, artifacts, keeper, torn>>
  PROVE  LibraryInv'
<1>a. ingester[t].item = NoItem /\ NoItem \notin Item
  <2>1. ingester[t].item \notin Item /\ ingester[t].item \in Item \cup {NoItem}
    BY DEF LibraryInv, LibraryTypes, InStage, Extracted, IngestRow
  <2>2. QED
    BY <2>1, LibraryAssumption DEF LibraryAssumption
<1>b. overlap' \subseteq Item /\ \A j \in Item : j # i => (j \in overlap' <=> j \in overlap)
  BY DEF Touch, LibraryInv, LibraryTypes
<1>1. RowOf(i) /\ item'[i].status = item[i].status /\ item'[i].by = item[i].by
  <2> DEFINE row == [item[i] EXCEPT !.slug = g]
  <2>1. item[i] \in ItemRow /\ g \in AnyProject
    BY DEF LibraryInv, LibraryTypes, AnyProject
  <2>2. item' = [item EXCEPT ![i] = row]
    BY DEF LibraryInv, LibraryTypes
  <2>3. row \in ItemRow /\ row.status = item[i].status /\ row.by = item[i].by
    BY <2>1 DEF ItemRow
  <2> HIDE DEF row
  <2>4. QED
    BY <2>2, <2>3 DEF LibraryInv, LibraryTypes, RowOf
<1>2. \A j \in Item : (InLibrary(j)' <=> InLibrary(j)) /\ item'[j].by = item[j].by
  BY <1>1 DEF InLibrary, RowOf
<1>3. /\ ingester' \in [Ingester -> IngestRow]
      /\ ingester'[t].at = "get" /\ ingester'[t].item = i
      /\ \A u \in Ingester \ {t} : ingester'[u] = ingester[u]
  <2>1. [at |-> "get", lock |-> NoItem, item |-> i, slug |-> g] \in IngestRow
    BY DEF IngestRow, IngestStage, AnyProject, AnyService
  <2>2. QED
    BY <2>1 DEF LibraryInv, LibraryTypes
<1>4. LibraryTypes'
  <2>1. \A u \in Ingester : ingester'[u].item \in Item
                              <=> ingester'[u].at \in Extracted \cup {"get"}
    BY <1>3 DEF LibraryInv, LibraryTypes
  <2>2. QED
    BY <1>b, <1>1, <1>3, <2>1 DEF LibraryInv, LibraryTypes, RowOf
<1>5. \A j \in Item \ {i} : ItemFits(j)'
  <2>1. WritesOf(i)
    BY DEF WritesOf, ArtifactsOf, LibraryInv, LibraryTypes
  <2>2. QED
    BY <1>a, <1>b, <1>1, <1>3, <2>1, OtherItems
<1>6. ItemFits(i)'
  <2> SUFFICES ASSUME i \notin overlap' PROVE ItemFits(i)'
    BY DEF ItemFits
  <2>1. i \notin overlap /\ ~Works(i)
    BY DEF Touch
  <2>2. (\A u \in Ingester \ {t} : ingester'[u].item # i) /\ keeper'.item # i
    BY <1>3, <2>1 DEF Works
  <2>3. Settled(i)
    BY <2>1 DEF LibraryInv, ItemFits
  <2>4. IngestFits(t, i)'
    BY <1>1, <1>2, <1>3, <2>3 DEF IngestFits, Extracted, Settled, WholeItem
  <2>5. Works(i)'
    BY <1>3 DEF Works
  <2>6. QED
    BY <1>3, <2>2, <2>4, <2>5 DEF ItemFits
<1>7. ChunksHaveRow' /\ StoredOnce' /\ IntakesAlone'
  BY <1>2, <1>3 DEF LibraryInv, ChunksHaveRow, StoredOnce, IntakesAlone
<1>8. QED
  BY <1>4, <1>5, <1>6, <1>7 DEF LibraryInv

\* A thread that finds nothing in the library holds its service's lock.
LEMMA LockedIntake ==
  ASSUME LibraryInv, NEW t \in Ingester, NEW s \in Service, NEW g \in Project,
         \A i \in Item : ~InLibrary(i), InStage(t, "idle"),
         \A u \in Ingester : ingester[u].lock # s,
         ingester' = [ingester EXCEPT ![t] =
                        [at |-> "intake", lock |-> s, item |-> NoItem, slug |-> g]],
         UNCHANGED <<item, overlap, chunks, files, artifacts, keeper, torn>>
  PROVE  LibraryInv'
<1>a. ingester[t].item = NoItem /\ NoItem \notin Item
  <2>1. ingester[t].item \notin Item /\ ingester[t].item \in Item \cup {NoItem}
    BY DEF LibraryInv, LibraryTypes, InStage, Extracted, IngestRow
  <2>2. QED
    BY <2>1, LibraryAssumption DEF LibraryAssumption
<1>1. /\ ingester' \in [Ingester -> IngestRow]
      /\ ingester'[t].at = "intake" /\ ingester'[t].item = NoItem /\ ingester'[t].lock = s
      /\ \A u \in Ingester \ {t} : ingester'[u] = ingester[u]
  <2>1. [at |-> "intake", lock |-> s, item |-> NoItem, slug |-> g] \in IngestRow
    BY DEF IngestRow, IngestStage, AnyProject, AnyService
  <2>2. QED
    BY <2>1 DEF LibraryInv, LibraryTypes
<1>2. \A j \in Item : InLibrary(j)' <=> InLibrary(j)
  BY DEF InLibrary
<1>3. LibraryTypes'
  <2>1. \A u \in Ingester : ingester'[u].item \in Item
                              <=> ingester'[u].at \in Extracted \cup {"get"}
    BY <1>a, <1>1 DEF LibraryInv, LibraryTypes, Extracted
  <2>2. QED
    BY <1>1, <2>1 DEF LibraryInv, LibraryTypes
<1>4. \A j \in Item : ItemFits(j)'
  <2>1. WritesOf(NoItem) /\ RowOf(NoItem)
    BY DEF WritesOf, RowOf, ArtifactsOf, LibraryInv, LibraryTypes
  <2>2. \A j \in Item \ {NoItem} : ItemFits(j)'
    BY <1>a, <1>1, <2>1, OtherItems
  <2>3. QED
    BY <1>a, <2>2
<1>5. ChunksHaveRow' /\ StoredOnce'
  BY <1>2 DEF LibraryInv, ChunksHaveRow, StoredOnce
<1>6. IntakesAlone'
  BY <1>1, <1>2 DEF LibraryInv, IntakesAlone, InStage
<1>7. QED
  BY <1>3, <1>4, <1>5, <1>6 DEF LibraryInv

\* The item that is made under the lock is the only one of its service.
LEMMA NewItem ==
  ASSUME LibraryInv, NEW t \in Ingester, NEW i \in Item, EndIntake(t, i)
  PROVE  LibraryInv'
<1>a. NoItem \notin Item /\ ingester[t].at = "intake" /\ ingester[t].item = NoItem
  <2>1. ingester[t].item \notin Item /\ ingester[t].item \in Item \cup {NoItem}
    BY DEF EndIntake, LibraryInv, LibraryTypes, InStage, Extracted, IngestRow
  <2>2. QED
    BY <2>1, LibraryAssumption DEF LibraryAssumption, EndIntake, InStage
<1>b. ~InLibrary(i) /\ ~Works(i) /\ UNCHANGED <<chunks, artifacts, keeper, overlap, torn>>
  BY DEF EndIntake, NewId, InLibrary
<1>1. RowOf(i) /\ item'[i].by = ingester[t].lock /\ item'[i].status = "queued"
  <2> DEFINE row == [status |-> "queued", slug |-> ingester[t].slug, by |-> ingester[t].lock]
  <2>1. row \in ItemRow /\ row.by = ingester[t].lock /\ row.status = "queued"
    BY DEF LibraryInv, LibraryTypes, IngestRow, ItemRow, ItemStatus
  <2>2. item' = [item EXCEPT ![i] = row]
    BY DEF EndIntake
  <2> HIDE DEF row
  <2>3. QED
    BY <2>1, <2>2 DEF LibraryInv, LibraryTypes, RowOf
<1>2. /\ \A j \in Item \ {i} : (InLibrary(j)' <=> InLibrary(j)) /\ item'[j].by = item[j].by
      /\ InLibrary(i)'
  BY <1>1 DEF InLibrary, RowOf
<1>3. /\ ingester' \in [Ingester -> IngestRow]
      /\ ingester'[t].at = "get" /\ ingester'[t].item = i
      /\ \A u \in Ingester \ {t} : ingester'[u] = ingester[u]
  <2> DEFINE w == [ingester[t] EXCEPT !.at = "get", !.item = i, !.lock = NoItem]
  <2>1. w \in IngestRow /\ w.at = "get" /\ w.item = i
    BY DEF LibraryInv, LibraryTypes, IngestRow, IngestStage, AnyService
  <2>2. ingester' = [ingester EXCEPT ![t] = w]
    BY DEF EndIntake, LibraryInv, LibraryTypes
  <2> HIDE DEF w
  <2>3. QED
    BY <2>1, <2>2 DEF LibraryInv, LibraryTypes
<1>4. WritesOf(i)
  BY <1>b DEF EndIntake, LibraryInv, LibraryTypes, Kept, WritesOf, ArtifactsOf
<1>5. LibraryTypes'
  <2>1. \A u \in Ingester : ingester'[u].item \in Item
                              <=> ingester'[u].at \in Extracted \cup {"get"}
    BY <1>3 DEF LibraryInv, LibraryTypes
  <2>2. QED
    BY <1>b, <1>1, <1>3, <1>4, <2>1 DEF LibraryInv, LibraryTypes, RowOf, WritesOf
<1>6. \A j \in Item \ {i} : ItemFits(j)'
  BY <1>a, <1>b, <1>1, <1>3, <1>4, OtherItems
<1>7. ItemFits(i)'
  <2>1. (\A u \in Ingester \ {t} : ingester'[u].item # i) /\ keeper'.item # i
    BY <1>b, <1>3 DEF Works
  <2>2. IngestFits(t, i)'
    BY <1>1, <1>2, <1>3 DEF IngestFits, Extracted
  <2>3. Works(i)'
    BY <1>3 DEF Works
  <2>4. QED
    BY <1>3, <2>1, <2>2, <2>3 DEF ItemFits
<1>8. ChunksHaveRow'
  BY <1>b, <1>2 DEF LibraryInv, ChunksHaveRow
<1>9. StoredOnce'
  BY <1>a, <1>1, <1>2 DEF LibraryInv, StoredOnce, IntakesAlone
<1>10. IntakesAlone'
  <2>1. \A u \in Ingester : ingester'[u].at = "intake" => u # t /\ ingester[u].at = "intake"
    BY <1>3
  <2>2. \A u \in Ingester : ingester'[u].at = "intake" => ingester'[u].lock # ingester[t].lock
    BY <1>a, <1>3, <2>1 DEF LibraryInv, IntakesAlone
  <2>3. QED
    BY <1>1, <1>2, <1>3, <2>1, <2>2 DEF LibraryInv, IntakesAlone
<1>11. QED
  BY <1>5, <1>6, <1>7, <1>8, <1>9, <1>10 DEF LibraryInv

\* A thread that stops before it made an item leaves at most a source without one.
LEMMA IntakeStops ==
  ASSUME LibraryInv, NEW t \in Ingester, StopIntake(t)
  PROVE  LibraryInv'
<1>a. NoItem \notin Item /\ ingester[t].at = "intake" /\ ingester[t].item = NoItem
  <2>1. ingester[t].item \notin Item /\ ingester[t].item \in Item \cup {NoItem}
    BY DEF StopIntake, LibraryInv, LibraryTypes, InStage, Extracted, IngestRow
  <2>2. QED
    BY <2>1, LibraryAssumption DEF LibraryAssumption, StopIntake, InStage
<1>b. UNCHANGED <<item, chunks, artifacts, keeper, overlap>> /\ Leaves(t)
  BY DEF StopIntake
<1>1. PICK w \in IngestRow : /\ w.at = "ended" /\ w.item = NoItem
                             /\ ingester' = [ingester EXCEPT ![t] = w]
  BY <1>b, GoesAway
<1>2. /\ ingester' \in [Ingester -> IngestRow] /\ ingester'[t] = w
      /\ \A u \in Ingester \ {t} : ingester'[u] = ingester[u]
  BY <1>1 DEF LibraryInv, LibraryTypes
<1>3. \A j \in Item : (InLibrary(j)' <=> InLibrary(j)) /\ (Works(j)' <=> Works(j))
  BY <1>a, <1>b, <1>1, <1>2 DEF InLibrary, Works
<1>4. ASSUME NEW i \in Item \cup {NoItem}, WritesOf(i), i \in Item => NewId(i) /\ i \in torn'
      PROVE  LibraryInv'
  <2>1. RowOf(i)
    BY <1>b DEF RowOf, LibraryInv, LibraryTypes
  <2>2. LibraryTypes'
    <3>1. \A u \in Ingester : ingester'[u].item \in Item
                                <=> ingester'[u].at \in Extracted \cup {"get"}
      BY <1>a, <1>1, <1>2 DEF LibraryInv, LibraryTypes, Extracted
    <3>2. QED
      BY <1>b, <1>2, <1>4, <3>1 DEF LibraryInv, LibraryTypes, WritesOf
  <2>3. \A j \in Item \ {i} : ItemFits(j)'
    BY <1>a, <1>b, <1>1, <1>2, <1>4, <2>1, OtherItems
  <2>4. i \in Item => ItemFits(i)'
    <3>1. i \in Item => (~Works(i))' /\ Settled(i)'
      BY <1>b, <1>3, <1>4 DEF NewId, Settled, InLibrary
    <3>2. QED
      BY <3>1 DEF ItemFits, Works
  <2>5. ChunksHaveRow' /\ StoredOnce'
    BY <1>b, <1>3 DEF LibraryInv, ChunksHaveRow, StoredOnce
  <2>6. IntakesAlone'
    BY <1>b, <1>1, <1>2, <1>3 DEF LibraryInv, IntakesAlone
  <2>7. QED
    BY <2>2, <2>3, <2>4, <2>5, <2>6 DEF LibraryInv
<1>5. CASE UNCHANGED <<files, torn>>
  <2>1. WritesOf(NoItem)
    BY <1>b, <1>5 DEF WritesOf, ArtifactsOf, LibraryInv, LibraryTypes
  <2>2. QED
    BY <1>a, <1>4, <2>1
<1>6. ASSUME NEW i \in Item, NewId(i), files' = [files EXCEPT ![i] = {"source"}],
             torn' = torn \cup {i}
      PROVE  LibraryInv'
  <2>1. WritesOf(i)
    BY <1>b, <1>6 DEF WritesOf, ArtifactsOf, LibraryInv, LibraryTypes, Kept
  <2>2. QED
    BY <1>4, <1>6, <2>1
<1>7. QED
  BY <1>5, <1>6 DEF StopIntake

\* What a thread wrote of a stage before it stopped.
LEMMA HalfWritten ==
  ASSUME LibraryInv, NEW t \in Ingester, NEW i \in Item, i = ingester[t].item, HalfDone(t),
         torn' = torn \/ torn' = torn \cup {i}
  PROVE  /\ WritesOf(i) /\ (chunks'[i] # {} => InLibrary(i))
         /\ ingester[t].at \in {"get", "look", "artifact"} => UNCHANGED <<files, chunks>>
<1>1. torn' \subseteq Item /\ \A j \in Item \ {i} : j \in torn' <=> j \in torn
  BY DEF LibraryInv, LibraryTypes
<1>2. /\ artifacts' \subseteq Item \X AnyProject
      /\ \A j \in Item \ {i} : ArtifactsOf(j)' = ArtifactsOf(j)
  <2>1. artifacts' = artifacts \/ \E gone \in SUBSET ArtifactsOf(i) : artifacts' = artifacts \ gone
    BY DEF HalfDone
  <2>2. CASE artifacts' = artifacts
    BY <2>2 DEF ArtifactsOf, LibraryInv, LibraryTypes
  <2>3. ASSUME NEW gone \in SUBSET ArtifactsOf(i), artifacts' = artifacts \ gone
        PROVE  /\ artifacts' \subseteq Item \X AnyProject
               /\ \A j \in Item \ {i} : ArtifactsOf(j)' = ArtifactsOf(j)
    BY <2>3 DEF ArtifactsOf, LibraryInv, LibraryTypes
  <2>4. QED
    BY <2>1, <2>2, <2>3
<1>3. /\ chunks' \in [Item -> SUBSET Ingester] /\ files' \in [Item -> SUBSET Kept]
      /\ \A j \in Item \ {i} : chunks'[j] = chunks[j] /\ files'[j] = files[j]
      /\ chunks'[i] # {} => InLibrary(i)
  BY DEF HalfDone, LibraryInv, LibraryTypes, Kept, ChunksHaveRow
<1>4. ingester[t].at \in {"get", "look", "artifact"} => UNCHANGED <<files, chunks>>
  BY DEF HalfDone, InStage
<1>5. QED
  BY <1>1, <1>2, <1>3, <1>4 DEF WritesOf

LEMMA LibraryNextInv == LibraryInv /\ [LibraryNext]_libraryVars => LibraryInv'
<1> SUFFICES ASSUME LibraryInv, [LibraryNext]_libraryVars PROVE LibraryInv'
  OBVIOUS
<1>a. NoItem \notin Item
  BY LibraryAssumption DEF LibraryAssumption
<1>b. /\ item \in [Item -> ItemRow] /\ chunks \in [Item -> SUBSET Ingester]
      /\ files \in [Item -> SUBSET Kept] /\ artifacts \subseteq Item \X AnyProject
      /\ torn \subseteq Item /\ \A i \in Item : item[i].slug \in AnyProject
      /\ \A i \in Item : chunks[i] # {} => InLibrary(i)
  BY DEF LibraryInv, LibraryTypes, ItemRow, ChunksHaveRow
<1>c. {} \in SUBSET Kept /\ {"content"} \in SUBSET Kept /\ {"summary"} \in SUBSET Kept
  BY DEF Kept
<1>d. /\ "extracting" \in ItemStatus \ {"none", "deleted"}
      /\ "matching_topic" \in ItemStatus \ {"none", "deleted"}
      /\ "chunking" \in ItemStatus \ {"none", "deleted"}
      /\ "embedding" \in ItemStatus \ {"none", "deleted"}
      /\ "summarizing" \in ItemStatus \ {"none", "deleted"}
      /\ "ready" \in ItemStatus \ {"none", "deleted"}
  BY DEF ItemStatus
<1>e. ASSUME UNCHANGED <<chunks, files, artifacts, torn>>, NEW i \in Item PROVE WritesOf(i)
  BY <1>b, <1>e DEF WritesOf, ArtifactsOf
<1>f. ASSUME UNCHANGED item, NEW i \in Item
      PROVE  /\ RowOf(i)
             /\ \A j \in Item : (InLibrary(j)' <=> InLibrary(j)) /\ item'[j].by = item[j].by
  BY <1>b, <1>f DEF RowOf, InLibrary
<1>1. ASSUME NEW t \in Ingester, ExtractItem(t) PROVE LibraryInv'
  <2>1. ingester[t].at = "extract" /\ UNCHANGED <<chunks, files, artifacts, keeper, overlap, torn>>
        /\ ingester[t].at \in Extracted \ {"look", "artifact"} /\ "markdown" \in Extracted
    BY <1>1 DEF ExtractItem, InStage, Extracted
  <2>2. PICK i \in Item : i = ingester[t].item
    BY <2>1, AtItem
  <2>3. CASE Leaves(t) /\ Mark(ingester[t].item, "failed")
    BY <1>b, <1>e, <2>1, <2>2, <2>3, GivesUp
  <2>4. CASE IngestTo(t, "markdown") /\ (UNCHANGED item \/ Mark(ingester[t].item, "matching_topic"))
    <3>1. Wrote(i, {}, chunks[i]) /\ chunks[i] \in SUBSET Ingester
      BY <1>b, <2>1 DEF Wrote
    <3>2. Remarked(t, i, "matching_topic")
      BY <2>2, <2>4 DEF Remarked
    <3>3. Advances(t, i, "markdown", "matching_topic", {}, chunks[i])
      BY <1>b, <1>c, <1>d, <2>1, <2>4, <3>1, <3>2 DEF Advances, Extracted
    <3>4. QED
      BY <2>1, <2>2, <3>3, GoesOn
  <2>5. QED
    BY <1>1, <2>3, <2>4 DEF ExtractItem
<1>2. ASSUME NEW t \in Ingester, WriteMarkdown(t) PROVE LibraryInv'
  <2>1. /\ ingester[t].at = "markdown" /\ UNCHANGED <<chunks, artifacts, keeper, overlap, torn>>
        /\ ingester[t].at \in Extracted \ {"look", "artifact"}
        /\ "clear" \in Extracted /\ IngestTo(t, "clear")
    BY <1>2 DEF WriteMarkdown, InStage, Extracted
  <2>2. PICK i \in Item : i = ingester[t].item
    BY <2>1, AtItem
  <2>3. Wrote(i, {"content"}, chunks[i]) /\ chunks[i] \in SUBSET Ingester
    BY <1>2, <1>b, <2>1, <2>2 DEF WriteMarkdown, Wrote
  <2>4. Remarked(t, i, "chunking")
    BY <1>2 DEF WriteMarkdown, Remarked
  <2>5. Advances(t, i, "clear", "chunking", {"content"}, chunks[i])
    BY <1>b, <1>c, <1>d, <2>1, <2>3, <2>4 DEF Advances
  <2>6. QED
    BY <2>1, <2>2, <2>5, GoesOn
<1>3. ASSUME NEW t \in Ingester, ClearChunks(t) PROVE LibraryInv'
  <2>1. /\ ingester[t].at = "clear" /\ UNCHANGED <<files, artifacts, keeper, overlap, torn>>
        /\ ingester[t].at \in Extracted \ {"look", "artifact"}
        /\ "embed" \in Extracted /\ IngestTo(t, "embed")
    BY <1>3 DEF ClearChunks, InStage, Extracted
  <2>2. PICK i \in Item : i = ingester[t].item
    BY <2>1, AtItem
  <2>3. Wrote(i, {}, {}) /\ {} \in SUBSET Ingester
    BY <1>3, <1>b, <2>1, <2>2 DEF ClearChunks, Wrote
  <2>4. i \notin overlap => "content" \in files[i]
    BY <2>1, <2>2, AtItem DEF IngestFits
  <2>5. Remarked(t, i, "embedding")
    BY <1>3 DEF ClearChunks, Remarked
  <2>6. Advances(t, i, "embed", "embedding", {}, {})
    BY <1>c, <1>d, <2>1, <2>3, <2>4, <2>5 DEF Advances, Extracted
  <2>7. QED
    BY <2>1, <2>2, <2>6, GoesOn
<1>4. ASSUME NEW t \in Ingester, InsertChunks(t) PROVE LibraryInv'
  <2>1. /\ ingester[t].at = "embed" /\ UNCHANGED <<files, artifacts, keeper, overlap, torn>>
        /\ ingester[t].at \in Extracted \ {"look", "artifact"} /\ "summary" \in Extracted
    BY <1>4 DEF InsertChunks, InStage, Extracted
  <2>2. PICK i \in Item : i = ingester[t].item
    BY <2>1, AtItem
  <2>3. i \notin overlap => "content" \in files[i] /\ chunks[i] = {} /\ InLibrary(i)
    BY <2>1, <2>2, AtItem DEF IngestFits
  <2>4. CASE InLibrary(i)
    <3>1. /\ chunks' = [chunks EXCEPT ![i] = chunks[i] \cup {t}] /\ MarkWith(t, "summarizing")
          /\ IngestTo(t, "summary")
      BY <1>4, <2>2, <2>4 DEF InsertChunks
    <3>2. Wrote(i, {}, chunks[i] \cup {t}) /\ chunks[i] \cup {t} \in SUBSET Ingester
      BY <1>b, <2>1, <3>1 DEF Wrote
    <3>3. Remarked(t, i, "summarizing")
      BY <3>1 DEF Remarked
    <3>4. Advances(t, i, "summary", "summarizing", {}, chunks[i] \cup {t})
      BY <1>c, <1>d, <2>1, <2>3, <2>4, <3>1, <3>2, <3>3 DEF Advances, Extracted
    <3>5. QED
      BY <2>1, <2>2, <3>4, GoesOn
  <2>5. CASE ~InLibrary(i)
    <3>1. Leaves(t) /\ UNCHANGED <<chunks, item>> /\ Mark(i, "failed")
      BY <1>4, <2>2, <2>5 DEF InsertChunks, Mark
    <3>2. QED
      BY <1>b, <1>e, <2>1, <2>2, <3>1, GivesUp
  <2>6. QED
    BY <2>4, <2>5
<1>5. ASSUME NEW t \in Ingester, WriteSummary(t) PROVE LibraryInv'
  <2>1. /\ ingester[t].at = "summary" /\ UNCHANGED <<chunks, artifacts, keeper, overlap, torn>>
        /\ ingester[t].at \in Extracted \ {"look", "artifact"}
        /\ "look" \in Extracted /\ IngestTo(t, "look")
    BY <1>5 DEF WriteSummary, InStage, Extracted
  <2>2. PICK i \in Item : i = ingester[t].item
    BY <2>1, AtItem
  <2>3. Wrote(i, {"summary"}, chunks[i]) /\ chunks[i] \in SUBSET Ingester
    BY <1>5, <1>b, <2>1, <2>2 DEF WriteSummary, Wrote
  <2>4. i \notin overlap => "content" \in files[i] /\ chunks[i] = {t}
    BY <2>1, <2>2, AtItem DEF IngestFits
  <2>5. Remarked(t, i, "ready")
    BY <1>5 DEF WriteSummary, Remarked
  <2>6. Advances(t, i, "look", "ready", {"summary"}, chunks[i])
    BY <1>b, <1>c, <1>d, <2>1, <2>3, <2>4, <2>5 DEF Advances
  <2>7. QED
    BY <2>1, <2>2, <2>6, GoesOn
<1>6. ASSUME NEW t \in Ingester, GetItem(t) PROVE LibraryInv'
  <2>1. /\ ingester[t].at = "get" /\ UNCHANGED <<chunks, files, artifacts, keeper, overlap, torn>>
        /\ ingester[t].at \in Extracted \cup {"get"}
    BY <1>6 DEF GetItem, InStage
  <2>2. PICK i \in Item : i = ingester[t].item
    BY <2>1, AtItem
  <2>3. CASE InLibrary(i) /\ "source" \in files[i]
    <3> DEFINE w == [ingester[t] EXCEPT !.at = "extract", !.slug = item[i].slug]
    <3>1. Mark(i, "extracting") /\ ingester' = [ingester EXCEPT ![t] = w]
      BY <1>6, <2>2, <2>3 DEF GetItem, LibraryInv, LibraryTypes
    <3>2. w \in IngestRow /\ w.at = "extract" /\ w.item = i /\ w.slug = item[i].slug
      BY <1>b, <2>1, <2>2, AtItem DEF IngestRow, IngestStage
    <3> HIDE DEF w
    <3>3. /\ RowOf(i)
          /\ \A j \in Item : (InLibrary(j)' <=> InLibrary(j)) /\ item'[j].by = item[j].by
          /\ item'[i].slug = item[i].slug /\ item'[i].status = "extracting"
      <4>1. "extracting" \in ItemStatus \ {"none", "deleted"} /\ item[i].slug \in AnyProject
        BY <1>b, <1>d
      <4>2. item' = IF InLibrary(i) THEN [item EXCEPT ![i].status = "extracting"] ELSE item
        BY <3>1 DEF Mark
      <4> DEFINE mark == "extracting"
                 slug == item[i].slug
      <4>3. /\ mark \in ItemStatus \ {"none", "deleted"} /\ slug \in AnyProject
            /\ item' = IF InLibrary(i) THEN [item EXCEPT ![i].status = mark] ELSE item
        BY <4>1, <4>2
      <4>4. mark = "extracting" /\ slug = item[i].slug
        OBVIOUS
      <4> HIDE DEF mark, slug
      <4>5. /\ RowOf(i)
            /\ \A j \in Item : (InLibrary(j)' <=> InLibrary(j)) /\ item'[j].by = item[j].by
            /\ InLibrary(i) => item'[i].status = mark /\ item'[i].slug \in {item[i].slug, slug}
        BY <4>3, Marked
      <4>6. QED
        BY <2>3, <4>4, <4>5
    <3>4. Touches(i)
      BY <1>e, <2>1, <2>3, <3>3 DEF Touches
    <3>5. IngestFits(t, i)'
      <4>1. ingester'[t] = w
        BY <3>1 DEF LibraryInv, LibraryTypes
      <4>2. InLibrary(i)' /\ files'[i] = files[i]
        BY <2>1, <2>3, <3>3
      <4>3. QED
        BY <2>3, <3>2, <3>3, <4>1, <4>2 DEF IngestFits
    <3>6. w.at \in Extracted
      BY <3>2 DEF Extracted
    <3>7. QED
      BY <2>1, <2>2, <3>1, <3>2, <3>4, <3>5, <3>6, WorkStep
  <2>4. CASE ~(InLibrary(i) /\ "source" \in files[i])
    <3>1. Leaves(t) /\ Mark(i, "failed")
      BY <1>6, <2>2, <2>4 DEF GetItem
    <3>2. QED
      BY <1>b, <1>e, <2>1, <2>2, <3>1, GivesUp
  <2>5. QED
    BY <2>3, <2>4
<1>7. ASSUME NEW t \in Ingester, LookAgain(t) PROVE LibraryInv'
  <2>1. /\ ingester[t].at = "look"
        /\ UNCHANGED <<item, chunks, files, artifacts, keeper, overlap, torn>>
        /\ ingester[t].at \in Extracted \cup {"get"} /\ ingester[t].at \in Extracted
    BY <1>7 DEF LookAgain, InStage, Extracted
  <2>2. PICK i \in Item : i = ingester[t].item
    BY <2>1, AtItem
  <2>3. Touches(i)
    BY <1>b, <1>e, <1>f, <2>1 DEF Touches
  <2>4. CASE InLibrary(i)
    <3> DEFINE w == [ingester[t] EXCEPT !.at = "artifact", !.slug = item[i].slug]
    <3>1. ingester' = [ingester EXCEPT ![t] = w]
      BY <1>7, <2>2, <2>4 DEF LookAgain, LibraryInv, LibraryTypes
    <3>2. w \in IngestRow /\ w.at = "artifact" /\ w.item = i /\ w.slug = item[i].slug
      BY <1>b, <2>1, <2>2, AtItem DEF IngestRow, IngestStage
    <3> HIDE DEF w
    <3>3. w.at \in Extracted
      BY <3>2 DEF Extracted
    <3>4. ASSUME i \notin overlap PROVE IngestFits(t, i)'
      <4>1. ingester'[t] = w
        BY <3>1 DEF LibraryInv, LibraryTypes
      <4>2. IngestFits(t, i)
        BY <2>1, <2>2, <3>4, AtItem
      <4>3. QED
        BY <2>1, <3>2, <4>1, <4>2 DEF IngestFits, InLibrary, WholeItem
    <3>5. QED
      BY <2>1, <2>2, <2>3, <3>1, <3>2, <3>3, <3>4, WorkStep
  <2>5. CASE ~InLibrary(i)
    <3>1. Leaves(t) /\ Mark(i, "failed")
      BY <1>7, <2>1, <2>2, <2>5 DEF LookAgain, Mark
    <3>2. QED
      BY <1>b, <1>e, <2>1, <2>2, <3>1, GivesUp
  <2>6. QED
    BY <2>4, <2>5
<1>8. ASSUME NEW t \in Ingester, WriteArtifact(t) PROVE LibraryInv'
  <2>1. /\ ingester[t].at = "artifact" /\ UNCHANGED <<item, chunks, files, keeper, overlap>>
        /\ ingester[t].at \in Extracted \cup {"get"} /\ ingester[t].at \in Extracted
        /\ Leaves(t) /\ PutArtifact(ingester[t].item, ingester[t].slug)
    BY <1>8 DEF WriteArtifact, InStage, Extracted
  <2>2. PICK i \in Item : i = ingester[t].item
    BY <2>1, AtItem
  <2>3. ingester[t].slug \in AnyProject
    BY <2>1, AtItem
  <2>4. Touches(i)
    <3>1. WritesOf(i)
      BY <1>b, <2>1, <2>2, <2>3, Rearranged DEF WritesOf
    <3>2. QED
      BY <1>b, <1>f, <2>1, <3>1 DEF Touches
  <2>5. ASSUME i \notin overlap PROVE Settled(i)'
    <3>1. IngestFits(t, i)
      BY <2>1, <2>2, <2>5, AtItem
    <3>2. "summary" \in files[i] /\ InLibrary(i) /\ ingester[t].slug = item[i].slug
          /\ (item[i].status = "ready" => WholeItem(i))
      BY <2>1, <3>1 DEF IngestFits
    <3>3. ASSUME i \notin torn' PROVE ArtifactsOf(i)' = {<<i, item[i].slug>>}
      <4>1. PICK left \in SUBSET ArtifactsOf(i) :
              /\ artifacts' = (artifacts \ ArtifactsOf(i)) \cup left \cup {<<i, item[i].slug>>}
              /\ torn' = IF left \subseteq {<<i, item[i].slug>>} THEN torn \ {i} ELSE torn \cup {i}
        BY <2>1, <2>2, <3>2 DEF PutArtifact
      <4>2. left \subseteq {<<i, item[i].slug>>}
        BY <3>3, <4>1
      <4>3. QED
        BY <4>1, <4>2 DEF ArtifactsOf
    <3>4. QED
      BY <2>1, <3>2, <3>3 DEF Settled, WholeItem, InLibrary
  <2>6. QED
    BY <2>1, <2>2, <2>4, <2>5, LeavesItem
<1>9. ASSUME NEW t \in Ingester, StopIngest(t) PROVE LibraryInv'
  <2>1. /\ ingester[t].at \in Extracted \cup {"get"} /\ HalfDone(t) /\ Leaves(t)
        /\ UNCHANGED <<keeper, overlap>>
    BY <1>9 DEF StopIngest, InStage, LibraryInv, LibraryTypes, IngestRow, IngestStage, Extracted
  <2>2. PICK i \in Item : i = ingester[t].item
    BY <2>1, AtItem
  <2>3. /\ WritesOf(i) /\ (chunks'[i] # {} => InLibrary(i))
        /\ ingester[t].at \in {"get", "look", "artifact"} => UNCHANGED <<files, chunks>>
    BY <1>9, <2>1, <2>2, HalfWritten DEF StopIngest
  <2>4. CASE Mark(i, "failed")
    BY <2>1, <2>2, <2>3, <2>4, GivesUp
  <2>5. CASE UNCHANGED item /\ torn' = torn \cup {i}
    <3>1. Touches(i)
      BY <1>f, <2>3, <2>5 DEF Touches
    <3>2. ASSUME i \notin overlap PROVE Settled(i)'
      <4>1. IngestFits(t, i)
        BY <2>1, <2>2, <3>2, AtItem
      <4>2. item[i].status = "ready" => WholeItem(i)'
        BY <2>3, <4>1 DEF IngestFits, WholeItem
      <4>3. QED
        BY <2>5, <4>2 DEF Settled
    <3>3. QED
      BY <2>1, <2>2, <3>1, <3>2, LeavesItem
  <2>6. QED
    BY <1>9, <2>2, <2>4, <2>5 DEF StopIngest
<1>10. ASSUME NEW t \in Ingester, NEW s \in Service, NEW g \in Project, BeginIntake(t, s, g)
       PROVE  LibraryInv'
  BY <1>10, FoundIntake, LockedIntake DEF BeginIntake
<1>11. ASSUME NEW i \in Item, NEW g \in Project, BeginUpdate(i, g) PROVE LibraryInv'
  <2>1. /\ keeper.at = "idle" /\ InLibrary(i) /\ Touch(i)
        /\ UNCHANGED <<chunks, files, artifacts, ingester, torn>>
        /\ keeper' = [at |-> "update", item |-> i, slug |-> item[i].slug]
    BY <1>11 DEF BeginUpdate
  <2>2. RowOf(i) /\ item'[i].status = item[i].status /\ item'[i].by = item[i].by
    <3> DEFINE row == [item[i] EXCEPT !.slug = g]
    <3>1. row \in ItemRow /\ row.status = item[i].status /\ row.by = item[i].by
      BY <1>b DEF ItemRow, AnyProject
    <3>2. item' = [item EXCEPT ![i] = row]
      BY <1>11, <1>b DEF BeginUpdate
    <3> HIDE DEF row
    <3>3. QED
      BY <1>b, <3>1, <3>2 DEF RowOf
  <2>3. keeper' \in KeeperRow /\ keeper'.item = i /\ keeper'.at \in {"update", "rows"}
    BY <1>b, <2>1 DEF KeeperRow
  <2>4. QED
    BY <1>e, <2>1, <2>2, <2>3, KeeperBegins
<1>12. ASSUME NEW i \in Item, BeginDelete(i) PROVE LibraryInv'
  <2>1. /\ keeper.at = "idle" /\ InLibrary(i) /\ Touch(i)
        /\ UNCHANGED <<item, chunks, files, ingester>>
        /\ keeper' = [NoKeeper EXCEPT !.at = "rows", !.item = i]
    BY <1>12 DEF BeginDelete
  <2>2. keeper' \in KeeperRow /\ keeper'.item = i /\ keeper'.at \in {"update", "rows"}
    BY <2>1 DEF NoKeeper, KeeperRow, AnyProject
  <2>3. WritesOf(i)
    <3>1. artifacts \cap {<<i, item[i].slug>>} \in SUBSET ArtifactsOf(i)
      BY DEF ArtifactsOf
    <3>2. RemoveArtifacts(i, artifacts \cap {<<i, item[i].slug>>})
      BY <1>12 DEF BeginDelete
    <3>3. QED
      BY <1>b, <2>1, <3>1, <3>2, Rearranged DEF WritesOf
  <2>4. QED
    BY <1>f, <2>1, <2>2, <2>3, KeeperBegins
<1>g. NoKeeper \in KeeperRow /\ NoKeeper.at = "idle" /\ NoKeeper.item = NoItem
  BY DEF NoKeeper, KeeperRow, AnyProject
<1>13. ASSUME EndUpdate PROVE LibraryInv'
  <2>1. /\ keeper.at = "update" /\ UNCHANGED <<item, chunks, files, ingester, overlap>>
        /\ keeper' = NoKeeper
    BY <1>13 DEF EndUpdate
  <2>2. PICK i \in Item : i = keeper.item
    BY <2>1 DEF LibraryInv, LibraryTypes
  <2>3. WritesOf(i)
    <3>1. artifacts \cap {<<i, keeper.slug>>} \in SUBSET ArtifactsOf(i)
      BY DEF ArtifactsOf
    <3>2. PutArtifact(i, item[i].slug) \/ RemoveArtifacts(i, artifacts \cap {<<i, keeper.slug>>})
      BY <1>13, <2>2 DEF EndUpdate
    <3>3. QED
      BY <1>b, <2>1, <3>1, <3>2, Rearranged DEF WritesOf
  <2>4. ASSUME i \notin overlap PROVE Settled(i)'
    <3>1. KeeperFits(i)
      BY <2>2, <2>4 DEF LibraryInv, ItemFits
    <3>2. InLibrary(i) /\ (item[i].status = "ready" => WholeItem(i))
      BY <2>1, <3>1 DEF KeeperFits
    <3>3. ASSUME item[i].status = "ready", i \notin torn'
          PROVE  ArtifactsOf(i)' = {<<i, item[i].slug>>}
      <4>1. PutArtifact(i, item[i].slug) /\ "summary" \in files[i]
        BY <1>13, <2>2, <3>2, <3>3 DEF EndUpdate, WholeItem, Kept
      <4>2. PICK left \in SUBSET ArtifactsOf(i) :
              /\ artifacts' = (artifacts \ ArtifactsOf(i)) \cup left \cup {<<i, item[i].slug>>}
              /\ torn' = IF left \subseteq {<<i, item[i].slug>>} THEN torn \ {i} ELSE torn \cup {i}
        BY <4>1 DEF PutArtifact
      <4>3. left \subseteq {<<i, item[i].slug>>}
        BY <3>3, <4>2
      <4>4. QED
        BY <4>2, <4>3 DEF ArtifactsOf
    <3>4. QED
      BY <2>1, <3>2, <3>3 DEF Settled, WholeItem, InLibrary
  <2>5. keeper'.item # i
    BY <1>a, <1>g, <2>1
  <2>6. chunks'[i] # {} => InLibrary(i)'
    BY <1>b, <1>f, <2>1
  <2>7. QED
    BY <1>f, <1>g, <2>1, <2>2, <2>3, <2>4, <2>5, <2>6, KeeperStep
<1>14. ASSUME DeleteRows PROVE LibraryInv'
  <2>1. keeper.at = "rows" /\ UNCHANGED <<files, artifacts, ingester, overlap, torn>>
    BY <1>14 DEF DeleteRows
  <2>2. PICK i \in Item : i = keeper.item
    BY <2>1 DEF LibraryInv, LibraryTypes
  <2>3. RowOf(i) /\ item'[i].status = "deleted"
    <3>1. NoRow("deleted") \in ItemRow /\ NoRow("deleted").status = "deleted"
      BY DEF NoRow, ItemRow, ItemStatus, AnyProject, AnyService
    <3>2. item' = [item EXCEPT ![i] = NoRow("deleted")]
      BY <1>14, <2>2 DEF DeleteRows
    <3>3. QED
      BY <1>b, <3>1, <3>2 DEF RowOf
  <2>4. WritesOf(i) /\ chunks'[i] = {}
    <3>1. /\ chunks' \in [Item -> SUBSET Ingester] /\ chunks'[i] = {}
          /\ \A j \in Item \ {i} : chunks'[j] = chunks[j]
      BY <1>14, <1>b, <2>2 DEF DeleteRows
    <3>2. QED
      BY <1>b, <2>1, <3>1 DEF WritesOf, ArtifactsOf
  <2>5. ~InLibrary(i)'
    BY <2>3 DEF InLibrary
  <2>6. keeper' \in KeeperRow /\ keeper'.item = i /\ keeper'.at = "tree"
    BY <1>14, <2>2 DEF DeleteRows, LibraryInv, LibraryTypes, KeeperRow
  <2>7. KeeperFits(i)'
    BY <2>5, <2>6 DEF KeeperFits
  <2>8. QED
    BY <2>1, <2>2, <2>3, <2>4, <2>5, <2>6, <2>7, KeeperStep
<1>15. ASSUME DeleteTree PROVE LibraryInv'
  <2>1. /\ keeper.at = "tree" /\ UNCHANGED <<item, chunks, artifacts, ingester, overlap>>
        /\ keeper' = NoKeeper
    BY <1>15 DEF DeleteTree
  <2>2. PICK i \in Item : i = keeper.item
    BY <2>1 DEF LibraryInv, LibraryTypes
  <2>3. PICK left \in SUBSET files[i] :
          /\ files' = [files EXCEPT ![i] = left]
          /\ torn' = IF left = {} THEN torn ELSE torn \cup {i}
    BY <1>15, <2>2 DEF DeleteTree
  <2>4. WritesOf(i) /\ files'[i] = left
    BY <1>b, <2>1, <2>3 DEF WritesOf, ArtifactsOf
  <2>5. ASSUME i \notin overlap PROVE Settled(i)'
    <3>1. ~InLibrary(i)
      BY <2>1, <2>2, <2>5 DEF LibraryInv, ItemFits, KeeperFits
    <3>2. i \notin torn' => files'[i] = {}
      BY <2>3, <2>4
    <3>3. QED
      BY <2>1, <3>1, <3>2 DEF Settled, InLibrary
  <2>6. chunks'[i] # {} => InLibrary(i)'
    BY <1>b, <1>f, <2>1
  <2>7. keeper'.item # i
    BY <1>a, <1>g, <2>1
  <2>8. QED
    BY <1>f, <1>g, <2>1, <2>2, <2>4, <2>5, <2>6, <2>7, KeeperStep
<1>16. ASSUME StopKeeper PROVE LibraryInv'
  <2>1. /\ keeper.at # "idle" /\ UNCHANGED <<item, chunks, files, ingester, overlap>>
        /\ keeper' = NoKeeper
    BY <1>16 DEF StopKeeper
  <2>2. PICK i \in Item : i = keeper.item
    BY <2>1 DEF LibraryInv, LibraryTypes
  <2>3. /\ torn' = torn \cup {i}
        /\ artifacts' = artifacts \/ \E gone \in SUBSET ArtifactsOf(i) : artifacts' = artifacts \ gone
    BY <1>16, <2>2 DEF StopKeeper
  <2>4. WritesOf(i)
    <3>1. /\ artifacts' \subseteq Item \X AnyProject
          /\ \A j \in Item \ {i} : ArtifactsOf(j)' = ArtifactsOf(j)
      BY <1>b, <2>3 DEF ArtifactsOf
    <3>2. QED
      BY <1>b, <2>1, <2>3, <3>1 DEF WritesOf
  <2>5. ASSUME i \notin overlap PROVE Settled(i)'
    <3>1. KeeperFits(i) /\ keeper.at \in {"update", "rows", "tree"}
      BY <2>1, <2>2, <2>5 DEF LibraryInv, ItemFits, LibraryTypes, KeeperRow
    <3>2. item[i].status = "ready" => WholeItem(i)
      BY <3>1 DEF KeeperFits, InLibrary
    <3>3. QED
      BY <2>1, <2>3, <3>2 DEF Settled, WholeItem
  <2>6. chunks'[i] # {} => InLibrary(i)'
    BY <1>b, <1>f, <2>1
  <2>7. keeper'.item # i
    BY <1>a, <1>g, <2>1
  <2>8. QED
    BY <1>f, <1>g, <2>1, <2>2, <2>4, <2>5, <2>6, <2>7, KeeperStep
<1>17. CASE UNCHANGED libraryVars
  <2>1. UNCHANGED <<item, chunks, files, artifacts, ingester, keeper, overlap, torn>>
    BY <1>17 DEF libraryVars
  <2>2. \A j \in Item : ItemFits(j)'
    <3>1. WritesOf(NoItem) /\ RowOf(NoItem)
      BY <1>b, <2>1 DEF WritesOf, RowOf, ArtifactsOf
    <3>2. \A j \in Item \ {NoItem} : ItemFits(j)'
      BY <2>1, <3>1, OtherItems
    <3>3. QED
      BY <1>a, <3>2
  <2>3. LibraryTypes'
    BY <2>1 DEF LibraryInv, LibraryTypes
  <2>4. ChunksHaveRow' /\ StoredOnce' /\ IntakesAlone'
    BY <2>1 DEF LibraryInv, ChunksHaveRow, StoredOnce, IntakesAlone, InLibrary
  <2>5. QED
    BY <2>2, <2>3, <2>4 DEF LibraryInv
<1>18. ASSUME NEW t \in Ingester, IngestStep(t) PROVE LibraryInv'
  BY <1>1, <1>2, <1>3, <1>4, <1>5, <1>6, <1>7, <1>8, <1>9, <1>18, NewItem, IntakeStops
     DEF IngestStep
<1>20. QED
  BY <1>10, <1>11, <1>12, <1>13, <1>14, <1>15, <1>16, <1>17, <1>18 DEF LibraryNext

\* Whatever stops between two commits, a ready item is whole; unless a stop or a failed
\* removal left something behind, its artifact is in its own project alone and a deleted
\* item keeps no file; no chunk is without its row, and content is stored once per
\* service (LibraryService).
THEOREM LibraryIsConsistent == LibrarySpec => []LibraryConsistent
<1>1. LibraryInv => LibraryConsistent
  BY DEF LibraryInv, ItemFits, Settled, ChunksHaveRow, StoredOnce, LibraryConsistent
<1>2. QED
  BY <1>1, LibraryInitInv, LibraryNextInv, PTL DEF LibrarySpec

-----------------------------------------------------------------------------

\* What the invariants do not say of the types of handoffs, letters, topics, documents
\* and artifacts; each survives a step that keeps the invariant.
HandoffFiles ==
  /\ pendingFile \subseteq Handoff /\ inboxFile \subseteq Handoff /\ deniedFile \subseteq Handoff
  /\ outboxFile \in [Handoff -> {"none", "placeholder", "answer"}]
  /\ processed \subseteq Handoff
  /\ slips \in 0..MaxSlip
  /\ \A p \in Clerk : clerk[p].at \notin {"idle", "save"} => clerk[p].of \in Handoff

LEMMA HandoffInitFiles == HandoffInit => HandoffFiles
  BY HandoffAssumption DEF HandoffInit, HandoffFiles, NoDuty

\* A call that goes on has its handoff still, one that ends needs none.
LEMMA DutyKept ==
  ASSUME HandoffInv, HandoffFiles, NEW p \in Clerk, clerk[p].at \notin {"idle", "save"},
         (\E l \in Duty : Turns(p, l)) \/ Then(p)
  PROVE  \A q \in Clerk : clerk'[q].at \notin {"idle", "save"} => clerk'[q].of \in Handoff
<1>1. clerk \in [Clerk -> DutyRow]
  BY DEF HandoffInv
<1>2. NoDuty \in DutyRow /\ NoDuty.at = "idle"
  BY OpenRows DEF NoDuty, DutyRow, Duty
<1>3. ASSUME NEW row \in DutyRow, clerk' = [clerk EXCEPT ![p] = row],
             row.at \notin {"idle", "save"} => row.of \in Handoff
      PROVE  \A q \in Clerk : clerk'[q].at \notin {"idle", "save"} => clerk'[q].of \in Handoff
  BY <1>1, <1>3 DEF HandoffFiles
<1>4. ASSUME NEW l \in Duty, Turns(p, l)
      PROVE  \A q \in Clerk : clerk'[q].at \notin {"idle", "save"} => clerk'[q].of \in Handoff
  <2> DEFINE row == [clerk[p] EXCEPT !.at = l]
  <2>1. row \in DutyRow /\ row.of = clerk[p].of
    BY <1>1 DEF DutyRow
  <2>2. clerk' = [clerk EXCEPT ![p] = row] /\ row.of \in Handoff
    BY <1>4, <2>1 DEF Turns, HandoffFiles
  <2> HIDE DEF row
  <2>3. QED
    BY <1>3, <2>1, <2>2
<1>5. CASE Then(p)
  BY <1>2, <1>3, <1>4, <1>5 DEF Then, Duty
<1>6. QED
  BY <1>4, <1>5

LEMMA HandoffNextFiles ==
  HandoffInv /\ HandoffFiles /\ [HandoffNext]_handoffVars => HandoffFiles'
<1> SUFFICES ASSUME HandoffInv, HandoffFiles, [HandoffNext]_handoffVars PROVE HandoffFiles'
  OBVIOUS
<1>1. clerk \in [Clerk -> DutyRow]
  BY DEF HandoffInv
<1>2. \A p \in Clerk : clerk[p].at \notin {"idle", "save"} => Of(p) \in Handoff
  BY DEF HandoffFiles, Of
<1>3. NoDuty \in DutyRow /\ NoDuty.at = "idle"
  BY OpenRows DEF NoDuty, DutyRow, Duty
<1>4. ASSUME NEW p \in Clerk, NEW row \in DutyRow, clerk' = [clerk EXCEPT ![p] = row],
             row.at \notin {"idle", "save"} => row.of \in Handoff
      PROVE  \A q \in Clerk : clerk'[q].at \notin {"idle", "save"} => clerk'[q].of \in Handoff
  BY <1>1, <1>4 DEF HandoffFiles
<1>5. ASSUME NEW p \in Clerk, NEW h \in Handoff,
             CreateHandoff(p, h) \/ BeginDecide(p, h) \/ BeginSync(p, h) \/ TakeAnswer(p, h)
      PROVE  HandoffFiles'
  <2>1. CASE CreateHandoff(p, h)
    BY <2>1 DEF CreateHandoff, HandoffFiles
  <2>2. ASSUME NEW l \in Duty, Takes(p, l, h), UNCHANGED <<fileVars, errand, slips>>
        PROVE  HandoffFiles'
    <3> DEFINE row == [NoDuty EXCEPT !.at = l, !.of = h]
    <3>1. row \in DutyRow /\ row.of = h
      BY <1>3 DEF DutyRow
    <3>2. clerk' = [clerk EXCEPT ![p] = row]
      BY <2>2 DEF Takes
    <3> HIDE DEF row
    <3>3. QED
      BY <1>4, <2>2, <3>1, <3>2 DEF HandoffFiles, fileVars
  <2>3. QED
    BY <1>5, <2>1, <2>2 DEF BeginDecide, BeginSync, TakeAnswer, Duty
<1>6. ASSUME NEW p \in Clerk, NEW h \in Handoff, NEW a \in Errand, RouteErrand(p, a, h)
      PROVE  HandoffFiles'
  <2> DEFINE row == [NoDuty EXCEPT !.at = "create", !.of = h, !.for = a]
  <2>1. row \in DutyRow /\ row.of = h
    BY <1>3 DEF DutyRow, Duty
  <2>2. clerk' = [clerk EXCEPT ![p] = row]
    BY <1>6 DEF RouteErrand
  <2> HIDE DEF row
  <2>3. QED
    BY <1>4, <1>6, <2>1, <2>2 DEF RouteErrand, HandoffFiles, fileVars
<1>7. ASSUME NEW p \in Clerk, ClerkStep(p), ~MarkErrand(p), ~SaveErrand(p) PROVE HandoffFiles'
  <2>1. clerk[p].at \notin {"idle", "save"} /\ Of(p) \in Handoff
    BY <1>2, <1>7
       DEF ClerkStep, CreateRouted, ReadPending, WriteInbox, UnlinkApproved, CheckOutbox,
           WriteTemplate, WriteDenied, UnlinkDenied, SyncMissing, SyncStale, MoveAnswer, AtDuty
  <2>2. (\E l \in Duty : Turns(p, l)) \/ Then(p)
    BY <1>7
       DEF ClerkStep, CreateRouted, ReadPending, WriteInbox, UnlinkApproved, CheckOutbox,
           WriteTemplate, WriteDenied, UnlinkDenied, SyncMissing, SyncStale, MoveAnswer, Duty
  <2>3. \A q \in Clerk : clerk'[q].at \notin {"idle", "save"} => clerk'[q].of \in Handoff
    BY <2>1, <2>2, DutyKept
  <2>4. /\ pendingFile' \subseteq pendingFile \cup {Of(p)}
        /\ inboxFile' \subseteq inboxFile \cup {Of(p)}
        /\ deniedFile' \subseteq deniedFile \cup {Of(p)}
        /\ processed' \subseteq processed \cup {Of(p)}
        /\ UNCHANGED slips
    BY <1>7
       DEF ClerkStep, CreateRouted, ReadPending, WriteInbox, UnlinkApproved, CheckOutbox,
           WriteTemplate, WriteDenied, UnlinkDenied, SyncMissing, SyncStale, MoveAnswer, fileVars
  <2>5. \/ UNCHANGED outboxFile
        \/ \E o \in {"none", "placeholder"} : outboxFile' = [outboxFile EXCEPT ![Of(p)] = o]
    BY <1>7
       DEF ClerkStep, CreateRouted, ReadPending, WriteInbox, UnlinkApproved, CheckOutbox,
           WriteTemplate, WriteDenied, UnlinkDenied, SyncMissing, SyncStale, MoveAnswer, fileVars
  <2>6. QED
    BY <2>1, <2>3, <2>4, <2>5 DEF HandoffFiles
\* A call that ends, or that has loaded the actions, and no file moves.
<1>8. ASSUME NEW p \in Clerk, NEW row \in DutyRow, clerk' = [clerk EXCEPT ![p] = row],
             row.at \in {"idle", "save"}, UNCHANGED <<fileVars, slips>>
      PROVE  HandoffFiles'
  <2>1. \A q \in Clerk : clerk'[q].at \notin {"idle", "save"} => clerk'[q].of \in Handoff
    BY <1>4, <1>8
  <2>2. QED
    BY <1>8, <2>1 DEF HandoffFiles, fileVars
<1>9. ASSUME NEW p \in Clerk, MarkErrand(p) \/ SaveErrand(p) PROVE HandoffFiles'
  <2>1. UNCHANGED <<fileVars, slips>>
    BY <1>9 DEF MarkErrand, SaveErrand
  <2>2. CASE clerk' = [clerk EXCEPT ![p] = NoDuty]
    BY <1>3, <1>8, <2>1, <2>2
  <2>3. CASE clerk' = [clerk EXCEPT ![p].at = "save", ![p].rows = errand]
    <3> DEFINE row == [clerk[p] EXCEPT !.at = "save", !.rows = errand]
    <3>1. row \in DutyRow /\ row.at = "save"
      BY <1>1 DEF HandoffInv, DutyRow, Duty
    <3>2. clerk' = [clerk EXCEPT ![p] = row]
      BY <1>1, <2>3
    <3> HIDE DEF row
    <3>3. QED
      BY <1>8, <2>1, <3>1, <3>2
  <2>4. QED
    BY <1>9, <2>2, <2>3 DEF MarkErrand, SaveErrand
<1>10. ASSUME NEW p \in Clerk, NEW a \in Errand, DecideErrand(p, a) PROVE HandoffFiles'
  <2> DEFINE row == [NoDuty EXCEPT !.at = "save", !.for = a, !.rows = errand]
  <2>1. row \in DutyRow /\ row.at = "save"
    BY <1>3 DEF HandoffInv, DutyRow, Duty
  <2>2. clerk' = [clerk EXCEPT ![p] = row] /\ UNCHANGED <<fileVars, slips>>
    BY <1>10 DEF DecideErrand
  <2> HIDE DEF row
  <2>3. QED
    BY <1>8, <2>1, <2>2
<1>11. ASSUME NEW p \in Clerk, CrashClerk(p) PROVE HandoffFiles'
  <2>1. \A q \in Clerk : clerk'[q].at \notin {"idle", "save"} => clerk'[q].of \in Handoff
    BY <1>3, <1>4, <1>11 DEF CrashClerk
  <2>2. slips' \in 0..MaxSlip
    BY <1>11, HandoffAssumption DEF CrashClerk, HandoffFiles
  <2>3. QED
    BY <1>11, <2>1, <2>2 DEF CrashClerk, HandoffFiles, fileVars
<1>12. ASSUME NEW h \in Handoff, AdvisorAnswers(h) PROVE HandoffFiles'
  BY <1>12 DEF AdvisorAnswers, HandoffFiles
<1>13. CASE UNCHANGED handoffVars
  BY <1>13 DEF handoffVars, HandoffFiles
<1>14. QED
  BY <1>5, <1>6, <1>7, <1>11, <1>12, <1>13, <1>9, <1>10 DEF HandoffNext

\* The handoff directories, the actions and the processes have their types.
THEOREM HandoffTypes == HandoffSpec => []HandoffTypeOK
<1>1. HandoffInv /\ HandoffFiles => HandoffTypeOK
  BY DEF HandoffInv, HandoffFiles, HandoffTypeOK, DutyRow
<1>2. QED
  BY <1>1, HandoffInitInv, HandoffNextInv, HandoffInitFiles, HandoffNextFiles, PTL
     DEF HandoffSpec

\* The files as a ledger.

\* Only a handoff that is filed is for an action.
FiledFor == \A h \in Handoff : purpose[h] # NoErrand => h \in Filed

LEMMA FiledParts == Filed = pendingFile \cup Decided
  BY DEF Filed, Decided

LEMMA FiledPartsPrimed == Filed' = pendingFile' \cup Decided'
  BY DEF Filed, Decided

LEMMA LedgerRests ==
  ASSUME UNCHANGED <<purpose, errand, inboxFile, deniedFile>>, Filed' = Filed
  PROVE  UNCHANGED Ledger!vars
  BY DEF Ledger!vars

\* A pending file appears.
LEMMA FiledIsNew ==
  ASSUME NEW h \in Handoff, NEW a \in Errand \cup {NoErrand}, h \notin Filed,
         pendingFile' = pendingFile \cup {h}, UNCHANGED <<inboxFile, deniedFile, errand>>,
         purpose' = [purpose EXCEPT ![h] = a]
  PROVE  Ledger!Next
<1>1. Filed' = Filed \cup {h}
  BY DEF Filed
<1>2. Ledger!File(h, a)
  BY <1>1 DEF Ledger!File
<1>3. QED
  BY <1>2 DEF Ledger!Next

LEMMA FiledForNext ==
  HandoffInv /\ HandoffFiles /\ FiledFor /\ [HandoffNext]_handoffVars => FiledFor'
<1> SUFFICES ASSUME HandoffInv, HandoffFiles, FiledFor, [HandoffNext]_handoffVars PROVE FiledFor'
  OBVIOUS
<1>1. ASSUME UNCHANGED purpose, Filed \subseteq Filed'
      PROVE  FiledFor'
  BY <1>1 DEF FiledFor
<1>2. ASSUME NEW p \in Clerk, CreateRouted(p) PROVE FiledFor'
  <2>1. clerk[p].of \in Handoff
    BY <1>2 DEF HandoffInv, DutyFits, CreateRouted, AtDuty
  <2>2. /\ pendingFile' = pendingFile \cup {clerk[p].of} /\ Decided' = Decided
        /\ purpose' = [purpose EXCEPT ![clerk[p].of] = clerk[p].for]
    BY <1>2 DEF CreateRouted, Of, Decided
  <2>3. Filed' = Filed \cup {clerk[p].of}
    BY <2>2, FiledParts, FiledPartsPrimed
  <2>4. QED
    BY <2>1, <2>2, <2>3 DEF FiledFor, HandoffInv
<1>3. ASSUME NEW p \in Clerk, ClerkStep(p), ~CreateRouted(p) PROVE FiledFor'
  <2>1. CASE UnlinkApproved(p) \/ UnlinkDenied(p)
    <3>1. /\ clerk[p].of \in Decided /\ Decided' = Decided /\ UNCHANGED purpose
          /\ pendingFile' = pendingFile \ {clerk[p].of}
      BY <2>1 DEF UnlinkApproved, UnlinkDenied, AtDuty, Of, Decided, HandoffInv, DutyFits
    <3>2. QED
      BY <1>1, <3>1, FiledParts, FiledPartsPrimed
  <2>2. CASE ~(UnlinkApproved(p) \/ UnlinkDenied(p))
    <3>1. /\ UNCHANGED <<purpose, pendingFile>>
          /\ inboxFile \subseteq inboxFile' /\ deniedFile \subseteq deniedFile'
      BY <1>3, <2>2
         DEF ClerkStep, ReadPending, WriteInbox, CheckOutbox, WriteTemplate, WriteDenied,
             SyncMissing, SyncStale, MoveAnswer, MarkErrand, SaveErrand, fileVars
    <3>2. QED
      BY <1>1, <3>1 DEF Filed
  <2>3. QED
    BY <2>1, <2>2
<1>4. ASSUME UNCHANGED <<purpose, inboxFile, deniedFile>>, pendingFile \subseteq pendingFile'
      PROVE  FiledFor'
  BY <1>1, <1>4 DEF Filed
<1>5. ASSUME NEW p \in Clerk, NEW h \in Handoff,
             CreateHandoff(p, h) \/ BeginDecide(p, h) \/ BeginSync(p, h) \/ TakeAnswer(p, h)
      PROVE  FiledFor'
  BY <1>4, <1>5 DEF CreateHandoff, BeginDecide, BeginSync, TakeAnswer, fileVars
<1>6. ASSUME NEW p \in Clerk, NEW h \in Handoff, NEW a \in Errand, RouteErrand(p, a, h)
      PROVE  FiledFor'
  BY <1>4, <1>6 DEF RouteErrand, fileVars
<1>7. ASSUME NEW p \in Clerk, NEW a \in Errand, DecideErrand(p, a) PROVE FiledFor'
  BY <1>4, <1>7 DEF DecideErrand, fileVars
<1>8. ASSUME NEW p \in Clerk, CrashClerk(p) PROVE FiledFor'
  BY <1>4, <1>8 DEF CrashClerk, fileVars
<1>9. ASSUME NEW h \in Handoff, AdvisorAnswers(h) PROVE FiledFor'
  BY <1>4, <1>9 DEF AdvisorAnswers
<1>10. CASE UNCHANGED handoffVars
  BY <1>4, <1>10 DEF handoffVars
<1>11. QED
  BY <1>2, <1>3, <1>5, <1>6, <1>7, <1>8, <1>9, <1>10 DEF HandoffNext

\* Every step of a call that is under way is a step of the ledger, or none.
LEMMA ClerkKeepsLedger ==
  ASSUME HandoffInv, HandoffInv', HandoffFiles, NEW p \in Clerk, ClerkStep(p)
  PROVE  Ledger!Next \/ UNCHANGED Ledger!vars
<1>1. clerk[p] \in DutyRow /\ DutyFits(clerk[p], pendingFile, Decided, purpose)
  BY DEF HandoffInv
<1>2. clerk[p].at \notin {"idle", "save"} => clerk[p].of \in Handoff
  BY DEF HandoffFiles
<1>3. CASE CreateRouted(p)
  <2>1. /\ clerk[p].of \in Handoff /\ clerk[p].of \notin Filed
        /\ clerk[p].for \in Errand \cup {NoErrand}
    BY <1>1, <1>3, FiledParts DEF CreateRouted, AtDuty, DutyFits, DutyRow
  <2>2. /\ pendingFile' = pendingFile \cup {clerk[p].of} /\ UNCHANGED <<inboxFile, deniedFile, errand>>
        /\ purpose' = [purpose EXCEPT ![clerk[p].of] = clerk[p].for]
    BY <1>3 DEF CreateRouted, Of
  <2>3. QED
    BY <2>1, <2>2, FiledIsNew
<1>4. CASE WriteInbox(p) \/ WriteDenied(p)
  <2> DEFINE h == clerk[p].of
  <2>1. h \in Handoff /\ h \in Filed /\ UNCHANGED <<pendingFile, purpose, errand>>
    BY <1>1, <1>2, <1>4, FiledParts DEF WriteInbox, WriteDenied, AtDuty, DutyFits
  <2>2. \/ inboxFile' = inboxFile \cup {h} /\ UNCHANGED deniedFile
        \/ deniedFile' = deniedFile \cup {h} /\ UNCHANGED inboxFile
    BY <1>4 DEF WriteInbox, WriteDenied, Of
  <2> HIDE DEF h
  <2>3. Filed' = Filed
    BY <2>1, <2>2 DEF Filed
  <2>4. Ledger!Decide(h)
    BY <2>1, <2>2, <2>3 DEF Ledger!Decide
  <2>5. QED
    BY <2>1, <2>4 DEF Ledger!Next
<1>5. CASE UnlinkApproved(p) \/ UnlinkDenied(p)
  <2>1. /\ clerk[p].of \in Decided /\ UNCHANGED <<purpose, errand, inboxFile, deniedFile>>
        /\ pendingFile' = pendingFile \ {clerk[p].of}
    BY <1>1, <1>5 DEF UnlinkApproved, UnlinkDenied, AtDuty, Of, DutyFits
  <2>2. Filed' = Filed
    BY <2>1 DEF Filed, Decided
  <2>3. QED
    BY <2>1, <2>2, LedgerRests
<1>6. CASE ReadPending(p) \/ CheckOutbox(p) \/ WriteTemplate(p) \/ SyncMissing(p) \/ SyncStale(p)
           \/ MoveAnswer(p) \/ MarkErrand(p)
  <2>1. UNCHANGED <<purpose, errand, pendingFile, inboxFile, deniedFile>>
    BY <1>6 DEF ReadPending, CheckOutbox, WriteTemplate, SyncMissing, SyncStale, MoveAnswer,
                MarkErrand, fileVars
  <2>2. QED
    BY <2>1, LedgerRests DEF Filed
<1>7. CASE SaveErrand(p)
  <2>1. UNCHANGED <<purpose, pendingFile, inboxFile, deniedFile>> /\ Filed' = Filed
    BY <1>7 DEF SaveErrand, fileVars, Filed
  <2>2. errand' \in [Errand -> ErrandStatus] /\ RoutedHasHandoff'
    BY DEF HandoffInv
  <2>3. \A a \in Errand : errand'[a] = "routed" =>
          \E h \in Handoff : h \in inboxFile \cup deniedFile /\ purpose[h] = a
    BY <2>1, <2>2 DEF RoutedHasHandoff
  <2>4. Ledger!Save
    BY <2>1, <2>2, <2>3 DEF Ledger!Save, ErrandStatus
  <2>5. QED
    BY <2>4 DEF Ledger!Next
<1>8. QED
  BY <1>3, <1>4, <1>5, <1>6, <1>7 DEF ClerkStep

\* For any processes, handoffs, actions and crashes: the directories and the statuses
\* implement the ledger (HandoffQueue, send_pending_action_to_codex).
THEOREM FilesKeepLedger == HandoffSpec => KeepsLedger
<1>1. HandoffInit => Ledger!Init
  BY DEF HandoffInit, Ledger!Init, Filed, AllOpen
<1>2. HandoffInit => FiledFor
  BY DEF HandoffInit, FiledFor
<1>3. HandoffInv /\ HandoffInv' /\ HandoffFiles /\ FiledFor /\ [HandoffNext]_handoffVars
        => [Ledger!Next]_(Ledger!vars)
  <2> SUFFICES ASSUME HandoffInv, HandoffInv', HandoffFiles, FiledFor, [HandoffNext]_handoffVars
               PROVE  Ledger!Next \/ UNCHANGED Ledger!vars
    OBVIOUS
  <2>1. ASSUME UNCHANGED <<purpose, errand, pendingFile, inboxFile, deniedFile>>
        PROVE  UNCHANGED Ledger!vars
    BY <2>1, LedgerRests DEF Filed
  <2>2. ASSUME NEW p \in Clerk, NEW h \in Handoff, CreateHandoff(p, h)
        PROVE  Ledger!Next
    <3>1. /\ h \notin Filed /\ pendingFile' = pendingFile \cup {h} /\ purpose' = purpose
          /\ UNCHANGED <<inboxFile, deniedFile, errand>>
      BY <2>2 DEF CreateHandoff, Fresh, Filed
    <3>2. purpose' = [purpose EXCEPT ![h] = NoErrand]
      BY <3>1 DEF FiledFor, HandoffInv
    <3>3. QED
      BY <3>1, <3>2, FiledIsNew
  <2>3. ASSUME NEW p \in Clerk, NEW h \in Handoff,
               BeginDecide(p, h) \/ BeginSync(p, h) \/ TakeAnswer(p, h)
        PROVE  UNCHANGED Ledger!vars
    BY <2>1, <2>3 DEF BeginDecide, BeginSync, TakeAnswer, fileVars
  <2>4. ASSUME NEW p \in Clerk, NEW h \in Handoff, NEW a \in Errand, RouteErrand(p, a, h)
        PROVE  UNCHANGED Ledger!vars
    BY <2>1, <2>4 DEF RouteErrand, fileVars
  <2>5. ASSUME NEW p \in Clerk, NEW a \in Errand, DecideErrand(p, a)
        PROVE  UNCHANGED Ledger!vars
    BY <2>1, <2>5 DEF DecideErrand, fileVars
  <2>6. ASSUME NEW p \in Clerk, ClerkStep(p)
        PROVE  Ledger!Next \/ UNCHANGED Ledger!vars
    BY <2>6, ClerkKeepsLedger
  <2>7. ASSUME NEW p \in Clerk, CrashClerk(p)
        PROVE  UNCHANGED Ledger!vars
    BY <2>1, <2>7 DEF CrashClerk, fileVars
  <2>8. ASSUME NEW h \in Handoff, AdvisorAnswers(h)
        PROVE  UNCHANGED Ledger!vars
    BY <2>1, <2>8 DEF AdvisorAnswers
  <2>9. CASE UNCHANGED handoffVars
    BY <2>1, <2>9 DEF handoffVars
  <2>10. QED
    BY <2>2, <2>3, <2>4, <2>5, <2>6, <2>7, <2>8, <2>9 DEF HandoffNext
<1>4. HandoffSpec => [](HandoffInv /\ HandoffFiles /\ FiledFor)
  BY <1>2, FiledForNext, HandoffInitInv, HandoffNextInv, HandoffInitFiles, HandoffNextFiles, PTL
     DEF HandoffSpec
<1>5. QED
  BY <1>1, <1>3, <1>4, PTL DEF HandoffSpec, KeepsLedger, Ledger!Spec

-----------------------------------------------------------------------------

\* The cycles, the lessons, the letters and the calls have their types.
THEOREM LearningTypes == LearningSpec => []LearningTypeOK
<1>1. LearningInv => LearningTypeOK
  BY DEF LearningInv, LearnedTypes, LearningTypeOK, StudyRow
<1>2. QED
  BY <1>1, LearningInitInv, LearningNextInv, PTL DEF LearningSpec

TopicPlaces ==
  /\ indexed \subseteq Topic /\ lost \subseteq Topic
  /\ saving.file # "none" => saving.topic \in Topic

LEMMA TopicInitPlaces == MemoryInit => TopicPlaces
  BY DEF MemoryInit, TopicPlaces, Unlocked

LEMMA SomeTopic == AnyTopic = Topic /\ AnyClaim = Claim
  BY TopicAssumption DEF AnyTopic, AnyClaim

LEMMA TopicNextPlaces ==
  TopicInv /\ TopicPlaces /\ [MemoryNext]_memoryVars => TopicPlaces'
<1> SUFFICES ASSUME TopicInv, TopicPlaces, [MemoryNext]_memoryVars PROVE TopicPlaces'
  OBVIOUS
<1>1. ASSUME NEW t \in Extractor, NEW g \in Topic, NEW c \in Claim, NEW n \in Confidence,
             MergeFact(t, g, c, n)
      PROVE  TopicPlaces'
  BY <1>1 DEF MergeFact, TopicPlaces, Unlocked
<1>2. ASSUME NEW t \in Extractor, NEW r \in ReviewId, CreateReview(t, r) PROVE TopicPlaces'
  BY <1>2 DEF CreateReview, TopicPlaces
<1>3. ASSUME NEW r \in ReviewId, NEW b \in BOOLEAN, AnswerReview(r, b) PROVE TopicPlaces'
  <2>1. review[r].topic \in Topic
    BY SomeTopic DEF TopicInv, AnyReview
  <2>2. QED
    BY <1>3, <2>1 DEF AnswerReview, TopicPlaces
<1>4. CASE UpdateIndex
  BY <1>4 DEF UpdateIndex, TopicPlaces, Unlocked
<1>5. CASE WriteVerdict
  BY <1>5 DEF WriteVerdict, TopicPlaces
<1>6. CASE CrashMemory
  <2>1. \A t \in Extractor : \A q \in extractor[t] : q[1] \in Topic
    BY DEF TopicInv
  <2>2. {q[1] : q \in UNION {extractor[t] : t \in Extractor}} \subseteq Topic
    BY <2>1
  <2>3. saving # Unlocked => saving.topic \in Topic
    BY DEF TopicInv, TopicPlaces
  <2>4. QED
    BY <1>6, <2>2, <2>3 DEF CrashMemory, TopicPlaces, Unlocked
<1>7. CASE UNCHANGED memoryVars
  BY <1>7 DEF memoryVars, TopicPlaces
<1>8. QED
  BY <1>1, <1>2, <1>3, <1>4, <1>5, <1>6, <1>7 DEF MemoryNext

\* The facts, the index, the reviews and what a thread holds have their types.
THEOREM TopicTypes == MemorySpec => []MemoryTypeOK
<1>1. TopicInv /\ TopicPlaces => MemoryTypeOK
  <2> SUFFICES ASSUME TopicInv, TopicPlaces PROVE MemoryTypeOK
    OBVIOUS
  <2>1. ASSUME NEW t \in Extractor PROVE Cardinality(extractor[t]) <= 1
    <3>1. CASE extractor[t] = {}
      BY <3>1, FS_EmptySet
    <3>2. CASE extractor[t] # {}
      <4>1. PICK q : q \in extractor[t]
        BY <3>2
      <4>2. \A p \in extractor[t] : p = q
        BY <4>1 DEF TopicInv
      <4>3. extractor[t] = {q}
        BY <4>1, <4>2, Zenon
      <4>4. Cardinality({q}) = 1
        BY FS_Singleton, Zenon
      <4>5. QED
        BY <4>3, <4>4
    <3>3. QED
      BY <3>1, <3>2
  <2>2. /\ review \in [ReviewId -> ReviewRow]
        /\ saving.file \in {"none", "topic", "index"}
    BY SomeTopic DEF TopicInv, AnyReview, ReviewRow
  <2>3. QED
    BY <2>1, <2>2 DEF TopicInv, TopicPlaces, MemoryTypeOK
<1>2. QED
  BY <1>1, TopicInitInv, TopicNextInv, TopicInitPlaces, TopicNextPlaces, PTL DEF MemorySpec

Changes ==
  /\ saved \subseteq Document \X Entry
  /\ clash \subseteq Document
  /\ changes \in 0..MaxChange

LEMMA ChangesInit == DocumentInit => Changes
  BY DocumentAssumption DEF DocumentInit, Changes

LEMMA ChangesNext == DocumentInv /\ Changes /\ [DocumentNext]_documentVars => Changes'
<1> SUFFICES ASSUME DocumentInv, Changes, [DocumentNext]_documentVars PROVE Changes'
  OBVIOUS
<1>1. ASSUME NEW t \in Writer, NEW d \in Document, NEW new, NEW text, Begin(t, d, new, text)
      PROVE  clash' \subseteq Document /\ changes' \in 0..MaxChange
  <2>1. changes' \in 0..MaxChange
    BY <1>1, DocumentAssumption DEF Begin, Changes
  <2>2. clash' \subseteq Document
    BY <1>1 DEF Begin, Changes
  <2>3. QED
    BY <2>1, <2>2
<1>2. ASSUME NEW t \in Writer, NEW c \in Chat, CreateChat(t, c) PROVE Changes'
  <2>1. changes' \in 0..MaxChange
    BY <1>2, DocumentAssumption DEF CreateChat, Changes
  <2>2. clash' \subseteq Document
    BY <1>2 DEF CreateChat, Changes, Document
  <2>3. QED
    BY <1>2, <2>1, <2>2 DEF CreateChat, Changes
<1>3. ASSUME NEW t \in Writer, NEW c \in Chat, DeleteChat(t, c) PROVE Changes'
  BY <1>3 DEF DeleteChat, Changes, Document
<1>4. ASSUME NEW t \in Writer, NEW e \in Entry,
             \/ AddProject(t, e)
             \/ \E c \in Chat : AddMessage(t, c, e)
             \/ \E d \in Document : Remove(t, d, e)
      PROVE  Changes'
  <2>1. \E d \in Document : \E new, text : Begin(t, d, new, text)
    <3>1. CASE AddProject(t, e)
      BY <3>1 DEF AddProject, Document
    <3>2. ASSUME NEW c \in Chat, AddMessage(t, c, e)
          PROVE  \E d \in Document : \E new, text : Begin(t, d, new, text)
      BY <3>2 DEF AddMessage, Document
    <3>3. ASSUME NEW d \in Document, Remove(t, d, e)
          PROVE  \E g \in Document : \E new, text : Begin(t, g, new, text)
      BY <3>3 DEF Remove
    <3>4. QED
      BY <1>4, <3>1, <3>2, <3>3
  <2>2. clash' \subseteq Document /\ changes' \in 0..MaxChange
    BY <1>1, <2>1
  <2>3. saved' \subseteq saved
    BY <1>4 DEF AddProject, AddMessage, Remove
  <2>4. QED
    BY <2>2, <2>3 DEF Changes
<1>5. ASSUME NEW t \in Writer, NEW d \in Document, Rewrite(t, d) PROVE Changes'
  BY <1>1, <1>5 DEF Rewrite, Changes
<1>6. ASSUME NEW t \in Writer,
             MakeIndex(t) \/ CutIndex(t) \/ StartIndex(t) \/ OpenTemp(t) \/ FillTemp(t)
      PROVE  Changes'
  BY <1>6 DEF MakeIndex, CutIndex, StartIndex, OpenTemp, FillTemp, Changes, Document
<1>7. ASSUME NEW t \in Writer, Rename(t) PROVE Changes'
  <2>1. writer[t] \in WriterRow /\ writer[t].doc \in Document
    BY <1>7 DEF Rename, DocumentInv
  <2>2. saved' \subseteq saved \cup {<<writer[t].doc, e>> : e \in writer[t].new}
    BY <1>7 DEF Rename
  <2>3. saved' \subseteq Document \X Entry
    BY <2>1, <2>2 DEF WriterRow, Changes
  <2>4. QED
    BY <1>7, <2>3 DEF Rename, Changes
<1>8. CASE CrashWriters \/ UNCHANGED documentVars
  BY <1>8 DEF CrashWriters, documentVars, Changes
<1>9. ASSUME NEW t \in Writer,
             \/ \E c \in Chat : CreateChat(t, c) \/ DeleteChat(t, c)
             \/ \E e \in Entry : \/ AddProject(t, e)
                                 \/ \E c \in Chat : AddMessage(t, c, e)
                                 \/ \E d \in Document : Remove(t, d, e)
             \/ \E d \in Document : Rewrite(t, d)
             \/ MakeIndex(t) \/ CutIndex(t) \/ StartIndex(t)
             \/ OpenTemp(t) \/ FillTemp(t) \/ Rename(t)
      PROVE  Changes'
  BY <1>2, <1>3, <1>4, <1>5, <1>6, <1>7, <1>9
<1>10. QED
  BY <1>8, <1>9 DEF DocumentNext

\* The documents, their temporary files and the commands have their types.
THEOREM DocumentTypes == DocumentSpec => []DocumentTypeOK
<1>1. DocumentInv /\ Changes => DocumentTypeOK
  BY DEF DocumentInv, Changes, DocumentTypeOK, WriterRow
<1>2. QED
  BY <1>1, DocumentInitInv, DocumentNextInv, ChangesInit, ChangesNext, PTL DEF DocumentSpec

\* The items, their files and artifacts, the threads and the keeper have their types.
THEOREM LibraryTypesHold == LibrarySpec => []LibraryTypeOK
<1>1. LibraryInv => LibraryTypeOK
  BY DEF LibraryInv, LibraryTypes, LibraryTypeOK, ItemRow, IngestRow, KeeperRow, AnyProject, AnyService
<1>2. QED
  BY <1>1, LibraryInitInv, LibraryNextInv, PTL DEF LibrarySpec

-----------------------------------------------------------------------------

\* A behaviour of the eight components together is one of each of them.
LEMMA RecordParts ==
  RecordSpec => /\ Spec /\ LibrarySpec /\ LearningSpec /\ HandoffSpec
                /\ DocumentSpec /\ MemorySpec /\ PersonalSpec /\ JobSpec
<1>1. RecordInit => /\ Init /\ LibraryInit /\ LearningInit /\ HandoffInit
                    /\ DocumentInit /\ MemoryInit /\ PersonalInit /\ JobInit
  BY DEF RecordInit
<1>2. [RecordNext]_recordVars =>
        /\ [Next]_vars /\ [LibraryNext]_libraryVars /\ [LearningNext]_learningVars
        /\ [HandoffNext]_handoffVars /\ [DocumentNext]_documentVars
        /\ [MemoryNext]_memoryVars /\ [PersonalNext]_personalVars /\ [JobNext]_jobVars
  <2> SUFFICES ASSUME [RecordNext]_recordVars
               PROVE  /\ [Next]_vars /\ [LibraryNext]_libraryVars
                      /\ [LearningNext]_learningVars /\ [HandoffNext]_handoffVars
                      /\ [DocumentNext]_documentVars /\ [MemoryNext]_memoryVars
                      /\ [PersonalNext]_personalVars /\ [JobNext]_jobVars
    OBVIOUS
  <2>1. CASE RecordNext
    BY <2>1 DEF RecordNext
  <2>2. CASE UNCHANGED recordVars
    BY <2>2 DEF recordVars
  <2>3. QED
    BY <2>1, <2>2
<1>3. QED
  BY <1>1, <1>2, PTL DEF RecordSpec, Spec, LibrarySpec, LearningSpec, HandoffSpec,
                         DocumentSpec, MemorySpec, PersonalSpec, JobSpec

\* The types of the eight together, as the run checks them.
THEOREM RecordTypes == RecordSpec => []RecordTypesOK
<1>1. JobSpec => []JobTypeOK
  <2>1. JobInv => JobTypeOK
    BY DEF JobInv
  <2>2. QED
    BY <2>1, JobInitInv, JobNextInv, PTL DEF JobSpec
<1>2. PersonalSpec => []PersonalTypeOK
  <2>1. PersonalInv => PersonalTypeOK
    BY DEF PersonalInv
  <2>2. QED
    BY <2>1, PersonalInitInv, PersonalNextInv, PTL DEF PersonalSpec
<1>3. (/\ TypeOK /\ LibraryTypeOK /\ LearningTypeOK /\ HandoffTypeOK /\ DocumentTypeOK
       /\ MemoryTypeOK /\ PersonalTypeOK /\ JobTypeOK) => RecordTypesOK
  BY DEF RecordTypesOK
<1>4. QED
  BY <1>1, <1>2, <1>3, RecordParts, TypeCorrect, LibraryTypesHold, LearningTypes,
     HandoffTypes, DocumentTypes, TopicTypes, PTL

\* What is proved of each component holds when they run together.
THEOREM RecordSafe ==
  RecordSpec =>
    /\ [](/\ PatchAgrees /\ NotesFormPath /\ UniqueRef /\ LibraryConsistent
          /\ LessonsEarned /\ RoutedHasHandoff /\ KeptUnlessClash
          /\ FactsReachReader /\ ConfirmedStands /\ CancelSticks)
    /\ KeepsLifecycle /\ NoHandoffLost /\ KeepsLedger
  BY RecordParts, PatchesAgree, NotesArePath, RefsUnique, Refinement, LibraryIsConsistent,
     LessonsAreEarned, RoutingsAreRecorded, DecisionsAreRecorded, FilesKeepLedger, SavedIsThere,
     FilesAgree, ConfirmedIsRecalled, CancellationsStick, PTL
=============================================================================
