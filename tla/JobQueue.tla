------------------------------ MODULE JobQueue ------------------------------
(***************************************************************************)
(* The queue of background jobs (kernel/jobs.py): a table of jobs in the   *)
(* database and one scheduler thread that runs them one by one.  A job is  *)
(* committed as RUNNING before its handler runs, and committed again with  *)
(* what became of it.                                                      *)
(*                                                                         *)
(* The clock is coarse: a job is due, or it waits for the next day.  The   *)
(* seconds of a back-off or a pause between two batches are not told apart *)
(* from no time at all.                                                    *)
(***************************************************************************)
EXTENDS Integers, FiniteSets

CONSTANTS
  Subjects,     \* what the jobs are about: the ids in their payloads
  MaxJobs,      \* bound: jobs in the table that are not done
  MaxAttempts   \* max_attempts of a job

ASSUME MaxJobsAssumption == MaxJobs \in Nat
ASSUME MaxAttemptsAssumption == MaxAttempts \in Nat \ {0}

VARIABLES
  job,    \* [Jobs -> Job \cup {NoJob}]: kernel_jobs
  tick    \* the job the scheduler runs, 0 when it runs none

queue == <<job, tick>>

Jobs == 1..MaxJobs

Job == [status : {"PENDING", "RUNNING", "FAILED"}, attempts : 0..MaxAttempts,
        waits : BOOLEAN, subject : Subjects]

\* No job has this number, or the one that had it is done.
NoJob == [status |-> "DONE", attempts |-> 0, waits |-> FALSE, subject |-> "none"]

QueueInit == job = [j \in Jobs |-> NoJob] /\ tick = 0

\* The numbers a new job can have.
Unused == { j \in Jobs : job[j] = NoJob }

\* enqueue: the row that is committed with its source.
NewJob(s, waits) == [status |-> "PENDING", attempts |-> 0, waits |-> waits, subject |-> s]

Enqueue(s, waits) ==
  \E j \in Unused : (\A k \in Unused : j <= k) /\ job' = [job EXCEPT ![j] = NewJob(s, waits)]

\* Mutant: the job is not committed as running before its handler runs.
PickJobUncommitted(j) ==
  /\ tick = 0
  /\ job[j].status = "PENDING" /\ ~job[j].waits
  /\ job' = [job EXCEPT ![j].attempts = @ + 1]
  /\ tick' = j

\* run_due_jobs takes a job that is due.
PickJob(j) ==
  /\ tick = 0
  /\ job[j].status = "PENDING" /\ ~job[j].waits
  /\ job' = [job EXCEPT ![j].status = "RUNNING", ![j].attempts = @ + 1]
  /\ tick' = j

\* The handler returned.
JobDone ==
  /\ job' = [job EXCEPT ![tick] = NoJob]
  /\ tick' = 0

\* Mutant: one attempt too many.
UsedUpTooLate(j) == job[j].attempts > MaxAttempts

UsedUp(j) == job[j].attempts >= MaxAttempts

\* The handler raised: again later, or failed for good.
JobRaised ==
  /\ job' = [job EXCEPT ![tick].status = IF UsedUp(tick) THEN "FAILED" ELSE "PENDING"]
  /\ tick' = 0

\* The process stops, or loses the database: the row stays as it was committed.
TickLost == tick' = 0 /\ UNCHANGED job

\* A day passes: every planned job is due.
JobsFallDue == job' = [j \in Jobs |-> [job[j] EXCEPT !.waits = FALSE]] /\ UNCHANGED tick

\* A job that is planned or runs.
Live(j) == job[j].status = "PENDING" \/ (tick = j /\ job[j].status = "RUNNING")

QueueTypeOK ==
  /\ job \in [Jobs -> Job \cup {NoJob}]
  /\ tick \in Jobs \cup {0}
=============================================================================
