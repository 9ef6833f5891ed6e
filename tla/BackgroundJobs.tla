--------------------------- MODULE BackgroundJobs ---------------------------
(***************************************************************************)
(* The record of long requests:                                            *)
(*   SourceCode/infra/background/job_store.py   (one transaction per call) *)
(*   SourceCode/infra/background/job_runner.py  (the registered jobs)      *)
(*                                                                         *)
(* The runner's calls are several steps: a report of progress reads the    *)
(* row in one transaction and writes it in another, and a job is finished  *)
(* in the table before it leaves the registered ones.                      *)
(***************************************************************************)
EXTENDS FiniteSets

CONSTANTS
  Job,       \* request ids of one profile
  Reporter,  \* threads that report progress
  Agent,     \* personas whose completion is reported
  NoJob

ASSUME JobAssumption == NoJob \notin Job

VARIABLES
  job,       \* table job_runs
  registered, \* _active
  leaving,   \* jobs finished in the table, before unregister_active
  reporter,  \* a report between its read and its write
  accepted   \* history: jobs for which a cancellation was accepted since their start

jobVars == <<job, registered, leaving, reporter, accepted>>

JobStatus == {"none", "running", "completed", "cancelled", "failed"}
JobStage == {"queued", "progress", "cancel_requested", "finished"}
NoNews == [of |-> NoJob, cancel |-> FALSE, done |-> {}]

JobInit ==
  /\ job = [j \in Job |-> [status |-> "none", stage |-> "queued", cancel |-> FALSE, done |-> {}]]
  /\ registered = {} /\ leaving = {} /\ accepted = {}
  /\ reporter = [p \in Reporter |-> NoNews]

-----------------------------------------------------------------------------

\* start_job: a request that was started before is started again, whatever has become of
\* it; the agents of its tracker stay.
StartJob(j) ==
  /\ job' = [job EXCEPT ![j].status = "running", ![j].stage = "queued", ![j].cancel = FALSE]
  /\ accepted' = accepted \ {j}
  /\ UNCHANGED <<registered, leaving, reporter>>

\* register_active; attach_context changes what nobody decides by.
RegisterJob(j) ==
  /\ job[j].status = "running"
  /\ registered' = registered \cup {j}
  /\ UNCHANGED <<job, leaving, reporter, accepted>>

\* The runner's update_job reads the tracker and applies an event, if it has one: the
\* pool starts, or an agent has completed ...
ReadTracker(p, j) ==
  /\ reporter[p] = NoNews /\ j \in registered
  /\ \E done \in {{}, job[j].done} \cup {job[j].done \cup {a} : a \in Agent} :
       reporter' = [reporter EXCEPT ![p] = [of |-> j, cancel |-> job[j].cancel, done |-> done]]
  /\ UNCHANGED <<job, registered, leaving, accepted>>

\* Mutant: the row is written back as it was read.
WriteRowBack(p) ==
  LET j == reporter[p].of
  IN  /\ j # NoJob
      /\ job' = [job EXCEPT ![j].stage = "progress", ![j].done = reporter[p].done,
                            ![j].cancel = reporter[p].cancel]
      /\ reporter' = [reporter EXCEPT ![p] = NoNews]
      /\ UNCHANGED <<registered, leaving, accepted>>

\* ... and the store's update_job writes it with the stage, and nothing else.
WriteProgress(p) ==
  LET j == reporter[p].of
  IN  /\ j # NoJob
      /\ job' = [job EXCEPT ![j].stage = "progress", ![j].done = reporter[p].done]
      /\ reporter' = [reporter EXCEPT ![p] = NoNews]
      /\ UNCHANGED <<registered, leaving, accepted>>

\* request_cancel: refused unless the job is running.
RequestJobCancel(j) ==
  /\ job[j].status = "running"
  /\ job' = [job EXCEPT ![j].stage = "cancel_requested", ![j].cancel = TRUE]
  /\ accepted' = accepted \cup {j}
  /\ UNCHANGED <<registered, leaving, reporter>>

\* finish_job, in the table, with the status its caller names, asked for or not.
FinishJob(j) ==
  /\ j \in registered \ leaving
  /\ \E status \in {"completed", "failed", "cancelled"} :
       job' = [job EXCEPT ![j].status = status, ![j].stage = "finished"]
  /\ leaving' = leaving \cup {j}
  /\ UNCHANGED <<registered, reporter, accepted>>

UnregisterJob(j) ==
  /\ j \in leaving
  /\ registered' = registered \ {j} /\ leaving' = leaving \ {j}
  /\ UNCHANGED <<job, reporter, accepted>>

JobNext ==
  \/ \E j \in Job : \/ StartJob(j) \/ RegisterJob(j) \/ RequestJobCancel(j) \/ FinishJob(j)
                    \/ UnregisterJob(j)
  \/ \E p \in Reporter : (\E j \in Job : ReadTracker(p, j)) \/ WriteProgress(p)

JobSpec == JobInit /\ [][JobNext]_jobVars

-----------------------------------------------------------------------------

JobTypeOK ==
  /\ job \in [Job -> [status : JobStatus, stage : JobStage, cancel : BOOLEAN,
                      done : SUBSET Agent]]
  /\ registered \subseteq Job /\ leaving \subseteq registered /\ accepted \subseteq Job
  /\ reporter \in [Reporter -> [of : Job \cup {NoJob}, cancel : BOOLEAN, done : SUBSET Agent]]

\* A cancellation that was accepted stays visible to the worker until the request is
\* started again, and the worker sees none that was not asked for: no report under way,
\* and no late one, changes the flag back to what it had read.
CancelSticks == \A j \in Job : job[j].cancel <=> j \in accepted
=============================================================================
