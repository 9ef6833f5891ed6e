------------------------------ MODULE Learning ------------------------------
(***************************************************************************)
(* Reflection cycles and the lessons learned from them:                    *)
(*   SourceCode/shared_tools/self_reflection.py                            *)
(*   SourceCode/shared_tools/feedback_learning.py                          *)
(*   SourceCode/shared_tools/continuous_improvement.py                     *)
(*                                                                         *)
(* Every command of the user makes an orchestrator, with a reflection      *)
(* engine and a learning engine of its own; their locks join nobody.  What *)
(* they share is one file of cycles, which is loaded and saved as a whole, *)
(* and one database, whose transactions exclude each other.  A lesson is   *)
(* named by what it was learned from.                                      *)
(***************************************************************************)
EXTENDS Integers, FiniteSets

CONSTANTS
  Learner,    \* threads with engines: a turn, a command, a request of the API
  Cycle,      \* reflection cycles
  Letter,     \* answers in the outbox
  NoTopic     \* nothing a call is about

ASSUME LearningAssumption == Cycle \cap Letter = {} /\ NoTopic \notin Cycle \cup Letter

VARIABLES
  reflection,  \* the rows that reflections.json was last given
  legible,     \* it can be read: it is neither cut off nor mixed of two writes
  letter,      \* where each outbox file is
  lesson,      \* the table of lessons
  study,       \* what each thread is doing
  clobbered    \* history: a save went over rows it had not loaded, or was cut off

learningVars == <<reflection, legible, letter, lesson, study, clobbered>>

\* A lesson comes from a reflection, from the answer to one, or from a letter.
Lesson == (Cycle \X {"auto", "answer"}) \cup (Letter \X {"outbox"})

LessonStatus == {"absent", "candidate", "approved", "rejected", "expired"}
LessonRow == [status : LessonStatus, active : BOOLEAN]
NoLesson == [status |-> "absent", active |-> FALSE]

CycleStatus == {"absent", "open", "closed", "ignored", "routed"}
\* A row of a cycle, and whether it has answer_lesson_ids.
CycleRow == [status : CycleStatus, linked : BOOLEAN]
NoRows == [c \in Cycle |-> [status |-> "absent", linked |-> FALSE]]

\* What a save is about: the new row, an answer, its lessons, a decision.
Change == {"append", "close", "link", "ignored", "routed"}
Desk == {"idle", "reflect", "auto", "append", "answer", "closed", "learn", "link", "save", "cut",
         "list", "ingest", "moved", "weigh"}
\* The steps in a transaction.
Writing == {"auto", "learn", "ingest", "moved"}

NoStudy == [at |-> "idle", topic |-> NoTopic, of |-> "none", saw |-> NoLesson,
            change |-> "append", rows |-> NoRows, stale |-> FALSE]

LearningInit ==
  /\ reflection = NoRows
  /\ legible = TRUE
  /\ letter = [f \in Letter |-> "absent"]
  /\ lesson = [l \in Lesson |-> NoLesson]
  /\ study = [p \in Learner |-> NoStudy]
  /\ clobbered = FALSE

-----------------------------------------------------------------------------

NoWriter == \A q \in Learner : study[q].at \notin Writing

Sits(p, at) == study[p].at = at
Step(p, at) == study' = [study EXCEPT ![p].at = at]
Rise(p) == study' = [study EXCEPT ![p] = NoStudy]

\* create_cycle: the model, or the fallback, reflects on the turn; the id is new.
BeginCycle(t, c) ==
  /\ Sits(t, "idle") /\ reflection[c].status = "absent"
  /\ lesson[<<c, "auto">>] = NoLesson /\ lesson[<<c, "answer">>] = NoLesson
  /\ \A q \in Learner : study[q].topic # c
  /\ study' = [study EXCEPT ![t] = [NoStudy EXCEPT !.at = "reflect", !.topic = c]]
  /\ UNCHANGED <<reflection, legible, letter, lesson, clobbered>>

\* ingest_feedback_text, for a new cycle or an answer: the transaction, which holds
\* while the model reads the feedback.
BeginIngest(t) ==
  /\ Sits(t, "reflect") \/ Sits(t, "closed")
  /\ NoWriter
  /\ Step(t, IF Sits(t, "reflect") THEN "auto" ELSE "learn")
  /\ UNCHANGED <<reflection, legible, letter, lesson, clobbered>>

\* _insert_lessons: a candidate, unless the lesson is empty or is a duplicate.
Insert(l, row) ==
  /\ row \in {NoLesson, [status |-> "candidate", active |-> FALSE]}
  /\ lesson' = IF row = NoLesson THEN lesson ELSE [lesson EXCEPT ![l] = row]

EndIngest(t) ==
  /\ \E row \in LessonRow :
       \/ /\ Sits(t, "auto") /\ Insert(<<study[t].topic, "auto">>, row)
          /\ Step(t, "append")
       \/ /\ Sits(t, "learn") /\ Insert(<<study[t].topic, "answer">>, row)
          /\ study' = [study EXCEPT ![t].at = "link", ![t].saw = row]
  /\ UNCHANGED <<reflection, legible, letter, clobbered>>

\* The user answers whatever cycle he names; auto_answer takes a cycle it saw open
\* and asks the model for the answer.
BeginAnswer(t, c) ==
  /\ Sits(t, "idle") /\ reflection[c].status # "absent"
  /\ study' = [study EXCEPT ![t] = [NoStudy EXCEPT !.at = "answer", !.topic = c]]
  /\ UNCHANGED <<reflection, legible, letter, lesson, clobbered>>

\* _load gives no rows of a file that it cannot read.
Loaded == IF legible THEN reflection ELSE NoRows
Loads(t, c, change) ==
  study' = [study EXCEPT ![t] = [@ EXCEPT !.at = "save", !.topic = c, !.change = change,
                                          !.rows = Loaded, !.stale = ~legible]]

\* Rows are loaded to be saved: with a new cycle ...
AppendCycle(t) ==
  /\ Sits(t, "append") /\ Loads(t, study[t].topic, "append")
  /\ UNCHANGED <<reflection, legible, letter, lesson, clobbered>>

\* ... with an answer, if the cycle is open ...
CloseCycle(t) ==
  /\ Sits(t, "answer")
  /\ IF Loaded[study[t].topic].status = "open" THEN Loads(t, study[t].topic, "close") ELSE Rise(t)
  /\ UNCHANGED <<reflection, legible, letter, lesson, clobbered>>

\* ... with the lessons of the answer ...
LinkLessons(t) ==
  /\ Sits(t, "link") /\ Loads(t, study[t].topic, "link")
  /\ UNCHANGED <<reflection, legible, letter, lesson, clobbered>>

\* Mutant: a cycle is decided again, whatever became of it.
DecideAnyCycle(t, c) ==
  /\ Sits(t, "idle") /\ Loaded[c].status # "absent"
  /\ \E s \in {"ignored", "routed"} : Loads(t, c, s)
  /\ UNCHANGED <<reflection, legible, letter, lesson, clobbered>>

\* ... or with the decision of ignore and route_to_external, if the cycle is open.
DecideCycle(t, c) ==
  /\ Sits(t, "idle") /\ Loaded[c].status = "open"
  /\ \E s \in {"ignored", "routed"} : Loads(t, c, s)
  /\ UNCHANGED <<reflection, legible, letter, lesson, clobbered>>

\* Those who loaded before it have not seen a write.
Outdated(t, q) == study[q].at \in {"save", "cut"} /\ q # t

\* _save cuts the file off ...
CutRows(t) ==
  /\ Sits(t, "save")
  /\ legible' = FALSE
  /\ study' = [q \in Learner |-> IF q = t THEN [study[t] EXCEPT !.at = "cut"]
                                 ELSE IF Outdated(t, q) THEN [study[q] EXCEPT !.stale = TRUE]
                                 ELSE study[q]]
  /\ UNCHANGED <<reflection, letter, lesson, clobbered>>

\* The row of the cycle as the call changes it.
Changed(t, row) ==
  CASE study[t].change = "append" -> [status |-> "open", linked |-> FALSE]
    [] study[t].change = "close"  -> [row EXCEPT !.status = "closed"]
    [] study[t].change = "link"   ->
         IF row.status = "absent" THEN row ELSE [row EXCEPT !.linked = study[t].saw # NoLesson]
    [] OTHER                      -> [row EXCEPT !.status = study[t].change]

\* ... and writes all rows; a text over another's may be readable or not.
SaveRows(t) ==
  /\ Sits(t, "cut")
  /\ reflection' = [study[t].rows EXCEPT ![study[t].topic] = Changed(t, @)]
  /\ legible' \in IF study[t].stale THEN BOOLEAN ELSE {TRUE}
  /\ clobbered' = (clobbered \/ study[t].stale)
  /\ study' = [q \in Learner |->
       IF q = t THEN IF study[t].change = "close"
                     THEN [NoStudy EXCEPT !.at = "closed", !.topic = study[t].topic] ELSE NoStudy
       ELSE IF Outdated(t, q) THEN [study[q] EXCEPT !.stale = TRUE] ELSE study[q]]
  /\ UNCHANGED <<letter, lesson>>

\* The advisor writes its answer over the placeholder of the request.
WriteLetter(f) ==
  /\ letter[f] = "absent"
  /\ letter' = [letter EXCEPT ![f] = "outbox"]
  /\ UNCHANGED <<reflection, legible, lesson, study, clobbered>>

\* ingest_outbox: the directory is listed before the transaction begins.
ListOutbox(t, f) ==
  /\ Sits(t, "idle") /\ letter[f] = "outbox"
  /\ study' = [study EXCEPT ![t] = [NoStudy EXCEPT !.at = "list", !.topic = f]]
  /\ UNCHANGED <<reflection, legible, letter, lesson, clobbered>>

\* A file that another call has moved meanwhile raises.
BeginOutbox(t) ==
  /\ Sits(t, "list") /\ NoWriter
  /\ IF letter[study[t].topic] = "outbox" THEN Step(t, "ingest") ELSE Rise(t)
  /\ UNCHANGED <<reflection, legible, letter, lesson, clobbered>>

\* The lessons are inserted, the file is moved, and then the transaction commits.
MoveLetter(t) ==
  /\ Sits(t, "ingest") /\ Step(t, "moved")
  /\ letter' = [letter EXCEPT ![study[t].topic] = "processed"]
  /\ UNCHANGED <<reflection, legible, lesson, clobbered>>

CommitOutbox(t) ==
  /\ Sits(t, "moved") /\ (\E row \in LessonRow : Insert(<<study[t].topic, "outbox">>, row))
  /\ Rise(t)
  /\ UNCHANGED <<reflection, legible, letter, clobbered>>

\* approve_lesson, reject_lesson, expire_lesson: whatever status the lesson has.
Review(p, l) ==
  /\ Sits(p, "idle") /\ NoWriter /\ lesson[l].status # "absent"
  /\ \E s \in {"approved", "rejected", "expired"} :
       lesson' = [lesson EXCEPT ![l].status = s, ![l].active = s = "approved"]
  /\ UNCHANGED <<reflection, legible, letter, study, clobbered>>

\* reinforce reads the row before its transaction begins.
BeginWeigh(p, l) ==
  /\ Sits(p, "idle") /\ lesson[l].status # "absent"
  /\ study' = [study EXCEPT ![p] = [NoStudy EXCEPT !.at = "weigh", !.topic = l[1], !.of = l[2],
                                                   !.saw = lesson[l]]]
  /\ UNCHANGED <<reflection, legible, letter, lesson, clobbered>>

\* With the confidence it writes the status and the activity that it read; a lesson
\* whose confidence falls to the bottom expires.
EndWeigh(p) ==
  /\ Sits(p, "weigh") /\ NoWriter
  /\ \E row \in {study[p].saw, [status |-> "expired", active |-> FALSE]} :
       lesson' = [lesson EXCEPT ![<<study[p].topic, study[p].of>>] = row]
  /\ Rise(p)
  /\ UNCHANGED <<reflection, legible, letter, clobbered>>

\* A call raises (the model, the file system, a database that is busy for too long),
\* or its process dies.  A transaction is rolled back, a file that is cut stays so.
StopStudy(p) ==
  /\ ~Sits(p, "idle")
  /\ clobbered' = (clobbered \/ Sits(p, "cut"))
  /\ Rise(p)
  /\ UNCHANGED <<reflection, legible, letter, lesson>>

LearningNext ==
  \/ \E t \in Learner :
       \/ \E c \in Cycle : BeginCycle(t, c) \/ BeginAnswer(t, c) \/ DecideCycle(t, c)
       \/ BeginIngest(t) \/ EndIngest(t) \/ AppendCycle(t) \/ CloseCycle(t) \/ LinkLessons(t)
       \/ CutRows(t) \/ SaveRows(t)
       \/ \E f \in Letter : ListOutbox(t, f)
       \/ BeginOutbox(t) \/ MoveLetter(t) \/ CommitOutbox(t)
       \/ \E l \in Lesson : Review(t, l) \/ BeginWeigh(t, l)
       \/ EndWeigh(t) \/ StopStudy(t)
  \/ \E f \in Letter : WriteLetter(f)

LearningSpec == LearningInit /\ [][LearningNext]_learningVars

-----------------------------------------------------------------------------

LearningTypeOK ==
  /\ reflection \in [Cycle -> CycleRow]
  /\ legible \in BOOLEAN /\ clobbered \in BOOLEAN
  /\ letter \in [Letter -> {"absent", "outbox", "processed"}]
  /\ lesson \in [Lesson -> LessonRow]
  /\ study \in [Learner -> [at : Desk, topic : Cycle \cup Letter \cup {NoTopic},
                            of : {"none", "auto", "answer", "outbox"}, saw : LessonRow,
                            change : Change, rows : [Cycle -> CycleRow], stale : BOOLEAN]]

\* As long as no save went over another's, lessons are learned from the answer of a
\* cycle only if that answer closed it: an ignored or routed cycle teaches nothing
\* through an answer that came too late.
LateAnswerTeachesNothing ==
  ~clobbered => \A c \in Cycle :
                  lesson[<<c, "answer">>].status # "absent" => reflection[c].status = "closed"

\* A cycle that names lessons has them, whatever saves went over each other.
LinksHold == \A c \in Cycle : reflection[c].linked => lesson[<<c, "answer">>].status # "absent"

\* A lesson is active just when it is approved, also after a reinforcement wrote back
\* what it had read before a review.  (The prompts take the active lessons of a lane;
\* they take confident candidates of one that has none.)
ActiveMeansApproved == \A l \in Lesson : lesson[l].active <=> lesson[l].status = "approved"

\* What is taught was earned: by an answer in time, where the file's saves did not
\* overlap, and by an approval.
LessonsEarned == LateAnswerTeachesNothing /\ LinksHold /\ ActiveMeansApproved
=============================================================================
