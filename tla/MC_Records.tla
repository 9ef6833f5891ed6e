----------------------------- MODULE MC_Records -----------------------------
(***************************************************************************)
(* What is kept: eight components that do not touch each other's rows and  *)
(* files, of which a behaviour moves one and leaves the others where they  *)
(* begin.                                                                  *)
(***************************************************************************)
EXTENDS
  ExternalRequests, Library, Learning, Handoffs, Documents, TopicMemory,
  PersonalMemory, BackgroundJobs, TLC

CONSTANT openclaw

\* ExternalRequests: two requests and two references at one provider.
ToOpenclaw == [r \in Request |-> openclaw]
Outcomes == {"completed", "ignored"}

\* The threads t1 and t2 (of Ingester, Learner, Writer and Extractor) and the projects
\* of the library are interchangeable.
Symmetry == Permutations(Ingester) \cup Permutations(Project)

VARIABLE part  \* the component that moves

recordVars ==
  <<part, vars, libraryVars, learningVars, handoffVars, documentVars, memoryVars,
    personalVars, jobVars>>

RecordInit ==
  /\ part \in {"requests", "library", "learning", "handoffs", "documents", "topics",
               "personal", "jobs"}
  /\ Init /\ LibraryInit /\ LearningInit /\ HandoffInit /\ DocumentInit /\ MemoryInit
  /\ PersonalInit /\ JobInit
  \* One beginning of a component that does not move is enough.
  /\ part # "personal" => word = Blank

RecordNext ==
  /\ UNCHANGED part
  /\ IF part = "requests" THEN Next ELSE UNCHANGED vars
  /\ IF part = "library" THEN LibraryNext ELSE UNCHANGED libraryVars
  /\ IF part = "learning" THEN LearningNext ELSE UNCHANGED learningVars
  /\ IF part = "handoffs" THEN HandoffNext ELSE UNCHANGED handoffVars
  /\ IF part = "documents" THEN DocumentNext ELSE UNCHANGED documentVars
  /\ IF part = "topics" THEN MemoryNext ELSE UNCHANGED memoryVars
  /\ IF part = "personal" THEN PersonalNext ELSE UNCHANGED personalVars
  /\ IF part = "jobs" THEN JobNext ELSE UNCHANGED jobVars

RecordSpec == RecordInit /\ [][RecordNext]_recordVars

\* Every component has the types its code gives it.
RecordTypesOK ==
  /\ TypeOK /\ LibraryTypeOK /\ LearningTypeOK /\ HandoffTypeOK /\ DocumentTypeOK
  /\ MemoryTypeOK /\ PersonalTypeOK /\ JobTypeOK
=============================================================================
