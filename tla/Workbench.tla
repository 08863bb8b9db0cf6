------------------------------ MODULE Workbench ------------------------------
(***************************************************************************)
(* The workbench (workflow/handlers.py, api.py): a job that sweeps over    *)
(* the causes of work every hour, opens a task for each and closes the     *)
(* tasks whose cause is gone, and plans the next sweep.  An event about    *)
(* money plans a sweep of its own, once.  Causes are payment records,      *)
(* mails whose retry failed for good, and other jobs that failed for good, *)
(* the sweep itself among them.                                            *)
(*                                                                         *)
(* The day of the queue stands for the hour of the sweep.  The handler of  *)
(* a job commits together with what became of the job.                     *)
(***************************************************************************)
EXTENDS JobQueue

CONSTANTS
  PaymentRecords, \* records that can become a cause: a refund to confirm, a
                  \* status that contradicts the provider's
  Mails,          \* mails that the mail server refused
  MaxCrashes,     \* bound: how often the process or its database is lost
  MaxRaises       \* bound: how often a handler raises

ASSUME SubjectsAssumption == Subjects = {"sweep", "once"} \cup Mails
\* A job's handler tells a sweep from the retry of a mail.
ASSUME MailsAssumption == Mails \cap {"sweep", "once"} = {}
\* The first start plans a sweep.
ASSUME FirstJobAssumption == 1 \in Jobs

Causes == PaymentRecords \cup Mails \cup Jobs

VARIABLES
  due,      \* SUBSET PaymentRecords: the records that are a cause now
  mail,     \* [Mails -> MailStatus]: the status of its row in the log
  handed,   \* [Mails -> 0..2]: how often a retry handed it to the mail server
  task,     \* [Causes -> 0..2]: the open tasks of a cause
  handler,  \* what the handler of the running job does next
  seen,     \* [open, causes]: what the sweep read
  counts    \* [crashes, raises], for the bounds

vars == <<queue, due, mail, handed, task, handler, seen, counts>>

\* "FAILING": the row says failed, and the retry is not planned yet.
MailStatus == {"NEW", "FAILING", "FAILED", "SENT"}

NothingSeen == [open |-> {}, causes |-> {}]

Sweeps == {"sweep", "once"}

\* _start_kernel_jobs: a sweep is planned when none is pending or running.
PlanAtStart ==
  IF \E j \in Jobs : job[j].subject \in Sweeps /\ job[j].status \in {"PENDING", "RUNNING"}
  THEN UNCHANGED job
  ELSE Enqueue("sweep", FALSE)

\* The first start of the process.
Init ==
  /\ job = [[j \in Jobs |-> NoJob] EXCEPT ![1] = NewJob("sweep", FALSE)]
  /\ tick = 0
  /\ due = {}
  /\ mail = [m \in Mails |-> "NEW"]
  /\ handed = [m \in Mails |-> 0]
  /\ task = [c \in Causes |-> 0]
  /\ handler = "idle"
  /\ seen = NothingSeen
  /\ counts = [crashes |-> 0, raises |-> 0]

-----------------------------------------------------------------------------
\* The causes, as _sweep_sources finds them.

FailedForGood(s) == { j \in Jobs : job[j].status = "FAILED" /\ job[j].subject \in s }

\* A failed retry counts for its mail, unless it was sent after all.
MailCauses == { m \in Mails : FailedForGood({m}) # {} /\ mail[m] # "SENT" }

Candidates == due \cup MailCauses \cup FailedForGood(Sweeps)

-----------------------------------------------------------------------------
\* What happens around it.

\* vervroeg_sweep, in the transaction of what happened, when that tells.
Advance(tells) == IF tells THEN Enqueue("once", FALSE) ELSE UNCHANGED job

\* A refund is registered or money comes in, which tell; or a status is corrected,
\* or the provider contradicts the record, which do not.
CauseAppears(r, tells) ==
  /\ r \notin due
  /\ due' = due \cup {r}
  /\ Advance(tells)
  /\ UNCHANGED <<tick, mail, handed, task, handler, seen, counts>>

\* Money is confirmed, which tells; or the record is deleted or corrected.
CauseGoes(r, tells) ==
  /\ r \in due
  /\ due' = due \ {r}
  /\ Advance(tells)
  /\ UNCHANGED <<tick, mail, handed, task, handler, seen, counts>>

\* _log_email: the mail server refused, and the row is committed.
MailFails(m) ==
  /\ mail[m] = "NEW"
  /\ mail' = [mail EXCEPT ![m] = "FAILING"]
  /\ UNCHANGED <<queue, due, handed, task, handler, seen, counts>>

\* _enqueue_retry, a transaction of its own.
PlanRetry(m) ==
  /\ mail[m] = "FAILING"
  /\ mail' = [mail EXCEPT ![m] = "FAILED"]
  /\ Enqueue(m, FALSE)
  /\ UNCHANGED <<tick, due, handed, task, handler, seen, counts>>

\* complete_task, of a task without a workflow.
CompleteTask(c) ==
  /\ task[c] > 0
  /\ task' = [task EXCEPT ![c] = @ - 1]
  /\ UNCHANGED <<queue, due, mail, handed, handler, seen, counts>>

HourPasses ==
  /\ JobsFallDue
  /\ UNCHANGED <<due, mail, handed, task, handler, seen, counts>>

-----------------------------------------------------------------------------
\* The jobs.

StartJob(j) ==
  /\ PickJob(j)
  /\ handler' = IF job[j].subject \in Sweeps THEN "sweep" ELSE "retry"
  /\ UNCHANGED <<due, mail, handed, task, seen, counts>>

\* The sweep reads the open tasks and the sources.
SweepReads ==
  /\ handler = "sweep"
  /\ handler' = "decided"
  /\ seen' = [open |-> { c \in Causes : task[c] > 0 }, causes |-> Candidates]
  /\ UNCHANGED <<queue, due, mail, handed, task, counts>>

\* Mutant: every cause gets a task, whether it has one or not.
OpensAlways(c) == c \in seen.causes

\* Mutant: tasks that read alike count as one (before #1994).
OpensByTitle(c) == c \in seen.causes /\ seen.open = {}

Opens(c) == c \in seen.causes /\ c \notin seen.open

\* Mutant: no task closes itself (before #675).
ClosesNone(c) == FALSE

Closes(c) == c \in seen.open /\ c \notin seen.causes

\* Mutant: a sweep that is run once plans a successor too.
FollowedAlways(s) == TRUE

\* Mutant: the payload's flag is read the wrong way round.
FollowedOnce(s) == s = "once"

Followed(s) == s = "sweep"

\* ... opens and closes tasks, and plans the next round; the job is done.  The next
\* round takes the number of the one that is done.
SweepCommits ==
  /\ handler = "decided"
  /\ task' = [c \in Causes |-> IF Opens(c) THEN task[c] + 1
                               ELSE IF Closes(c) THEN 0 ELSE task[c]]
  /\ job' = [job EXCEPT ![tick] =
               IF Followed(job[tick].subject) THEN NewJob("sweep", TRUE) ELSE NoJob]
  /\ tick' = 0
  /\ handler' = "idle"
  /\ seen' = NothingSeen
  /\ UNCHANGED <<due, mail, handed, counts>>

\* retry_mail hands the mail to the mail server, unless it was sent by now.
RetryHands ==
  /\ handler = "retry"
  /\ mail[job[tick].subject] # "SENT"
  /\ handed' = [handed EXCEPT ![job[tick].subject] = @ + 1]
  /\ handler' = "handed"
  /\ UNCHANGED <<queue, due, mail, task, seen, counts>>

\* ... and the row says it was sent.
RetryCommits ==
  /\ handler = "handed"
  /\ mail' = [mail EXCEPT ![job[tick].subject] = "SENT"]
  /\ handler' = "idle"
  /\ JobDone
  /\ UNCHANGED <<due, handed, task, seen, counts>>

\* A handler raises before anything left: the mail server refuses, a query fails.
HandlerRaises ==
  /\ handler \in {"sweep", "decided", "retry"}
  /\ counts.raises < MaxRaises
  /\ counts' = [counts EXCEPT !.raises = @ + 1]
  /\ JobRaised
  /\ handler' = "idle"
  /\ seen' = NothingSeen
  /\ UNCHANGED <<due, mail, handed, task>>

Lost ==
  /\ counts.crashes < MaxCrashes
  /\ counts' = [counts EXCEPT !.crashes = @ + 1]
  /\ handler' = "idle"
  /\ seen' = NothingSeen
  /\ UNCHANGED <<due, handed, task>>

\* The database is lost while a job runs; the scheduler's loop goes on.
DatabaseLost ==
  /\ tick # 0
  /\ TickLost
  /\ Lost
  /\ UNCHANGED mail

\* The process stops and starts again.  A retry that was to be planned never is.
Restart ==
  /\ tick' = 0
  /\ PlanAtStart
  /\ Lost
  /\ mail' = [m \in Mails |-> IF mail[m] = "FAILING" THEN "FAILED" ELSE mail[m]]

-----------------------------------------------------------------------------
Scheduler ==
  \/ \E j \in Jobs : StartJob(j)
  \/ SweepReads \/ SweepCommits \/ RetryHands \/ RetryCommits

Next ==
  \/ Scheduler \/ HandlerRaises
  \/ HourPasses
  \/ \E r \in PaymentRecords, tells \in BOOLEAN : CauseAppears(r, tells) \/ CauseGoes(r, tells)
  \/ \E m \in Mails : MailFails(m) \/ PlanRetry(m)
  \/ \E c \in Causes : CompleteTask(c)
  \/ DatabaseLost \/ Restart

\* The scheduler's thread runs, and hours pass.
Spec == Init /\ [][Next]_vars /\ WF_vars(Scheduler) /\ WF_vars(HourPasses)

-----------------------------------------------------------------------------
TypeOK ==
  /\ QueueTypeOK
  /\ due \subseteq PaymentRecords
  /\ mail \in [Mails -> MailStatus]
  /\ handed \in [Mails -> Nat]
  /\ task \in [Causes -> Nat]
  /\ handler \in {"idle", "sweep", "decided", "retry", "handed"}
  /\ seen \in [open : SUBSET Causes, causes : SUBSET Causes]
  /\ counts \in [crashes : Nat, raises : Nat]

\* "The same refund twice" (vervroeg_sweep, #705): a cause never has two open tasks,
\* however many sweeps are planned and whoever completes tasks meanwhile.
OneTaskPerCause == \A c \in Causes : task[c] <= 1

\* The hourly sweeps that are planned or run.
Hourly == { j \in Jobs : job[j].subject = "sweep" /\ Live(j) }

\* "A second one without that flag would double the cadence" (vervroeg_sweep): there
\* is never more than one hourly chain, restarts included.
OneCadence == Cardinality(Hourly) <= 1

\* "A sweep is always waiting" (vervroeg_sweep), but for the two ways the chain of
\* sweeps ends: a sweep that failed for good, or one that was interrupted.
SweepGoesOn ==
  \/ Hourly # {}
  \/ \E j \in Jobs : job[j].subject = "sweep" /\ job[j].status \in {"RUNNING", "FAILED"}

\* A retry hands a mail to the mail server once, whatever is interrupted: a job that
\* was running when the process stopped is not taken again.
RetryHandsOnce == \A m \in Mails : handed[m] <= 1

\* While the hourly chain lives, a cause that stays gets its task ...
CauseGetsTask ==
  \A c \in Causes : c \in Candidates ~> (task[c] > 0 \/ c \notin Candidates \/ Hourly = {})

\* ... and a task whose cause is gone is closed.
TaskIsClosed ==
  \A c \in Causes : (task[c] > 0 /\ c \notin Candidates)
    ~> (task[c] = 0 \/ c \in Candidates \/ Hourly = {})

-----------------------------------------------------------------------------
\* The inductive invariant: what a step may rely on.  WorkbenchProofs proves it.

\* A job that waits has an attempt left.
AttemptsLeft == \A j \in Jobs : job[j].status = "PENDING" => job[j].attempts < MaxAttempts

\* What runs is the handler of the running job, which is committed as such.
HandlerFits ==
  /\ tick = 0 => handler = "idle"
  /\ tick # 0 =>
       /\ job[tick].status = "RUNNING"
       /\ job[tick].subject \in Sweeps => handler \in {"sweep", "decided"}
       /\ job[tick].subject \notin Sweeps => handler \in {"retry", "handed"}

\* A cause that has a task when a sweep commits had it when it read: nobody else
\* opens tasks, and they are only completed meanwhile.
TasksWereSeen == handler = "decided" => \A c \in Causes : task[c] > 0 => c \in seen.open

\* The jobs of one subject that are not done.
About(s) == { j \in Jobs : job[j].subject = s /\ job[j].status # "DONE" }

\* A mail's retry is planned once ...
OneRetry ==
  \A m \in Mails :
    /\ \A j, k \in About(m) : j = k
    /\ mail[m] \in {"NEW", "FAILING"} => About(m) = {} /\ handed[m] = 0

\* ... and once it handed the mail over it ends, or is RUNNING for ever.
HandedIsOver ==
  \A m \in Mails :
    handed[m] > 0 /\ mail[m] # "SENT" =>
      \A j \in About(m) : job[j].status = "RUNNING" /\ (tick = j => handler = "handed")

\* The hourly sweeps that have not failed for good, an interrupted one among them:
\* each plans one successor, and a start plans none while it sees one.
OneSweep ==
  \A j, k \in About("sweep") :
    job[j].status # "FAILED" /\ job[k].status # "FAILED" => j = k

Inv ==
  /\ TypeOK
  /\ AttemptsLeft
  /\ HandlerFits
  /\ TasksWereSeen /\ OneTaskPerCause
  /\ OneRetry /\ HandedIsOver /\ RetryHandsOnce
  /\ OneSweep /\ SweepGoesOn
=============================================================================
