--------------------------- MODULE WorkbenchProofs ---------------------------
(***************************************************************************)
(* What holds of Workbench for any number of jobs, mails, records, crashes *)
(* and attempts: no cause has two open tasks, a retry hands its mail over  *)
(* once, and the hourly sweeps are one chain that ends only as the code    *)
(* lets it.                                                                *)
(***************************************************************************)
EXTENDS Workbench, FiniteSetTheorems, TLAPS

\* The rows of the table.
LEMMA Rows ==
  ASSUME QueueTypeOK, NEW j \in Jobs
  PROVE  /\ job[j] = NoJob \/ job[j] \in Job
         /\ job[j].status = "DONE" <=> job[j] = NoJob
         /\ job[j].status \in {"DONE", "PENDING", "RUNNING", "FAILED"}
BY DEF QueueTypeOK, Job, NoJob

\* A new job takes a number nobody has.
LEMMA EnqueueRows ==
  ASSUME QueueTypeOK, NEW s \in Subjects, NEW waits \in BOOLEAN, Enqueue(s, waits)
  PROVE  \E n \in Jobs : /\ job[n] = NoJob
                         /\ job' = [job EXCEPT ![n] = NewJob(s, waits)]
BY DEF Enqueue, Unused

LEMMA NewJobs ==
  ASSUME NEW s \in Subjects, NEW waits \in BOOLEAN
  PROVE  /\ NewJob(s, waits) \in Job
         /\ NewJob(s, waits).status = "PENDING" /\ NewJob(s, waits).subject = s
         /\ NewJob(s, waits).attempts = 0
BY MaxAttemptsAssumption DEF NewJob, Job

\* The subjects of sweeps are no mail's.
LEMMA SubjectKinds ==
  /\ Sweeps \subseteq Subjects /\ Mails \subseteq Subjects /\ Subjects = Sweeps \cup Mails
  /\ \A m \in Mails : m \notin Sweeps
  /\ "sweep" \in Sweeps /\ "once" \in Sweeps /\ "sweep" # "once"
BY SubjectsAssumption, MailsAssumption DEF Sweeps

LEMMA InitInv == Init => Inv
<1> SUFFICES ASSUME Init
             PROVE  Inv
  OBVIOUS
<1>1. /\ 1 \in Jobs /\ NewJob("sweep", FALSE) \in Job
      /\ NewJob("sweep", FALSE).status = "PENDING" /\ NewJob("sweep", FALSE).subject = "sweep"
      /\ NewJob("sweep", FALSE).attempts = 0
  BY FirstJobAssumption, NewJobs, SubjectKinds
<1>2. /\ job[1] = NewJob("sweep", FALSE)
      /\ \A j \in Jobs : j # 1 => job[j] = NoJob
      /\ job \in [Jobs -> Job \cup {NoJob}]
  BY <1>1 DEF Init
<1>10. /\ job[1].status = "PENDING" /\ job[1].subject = "sweep" /\ job[1].attempts = 0
       /\ \A j \in Jobs : j # 1 => job[j].status = "DONE"
  <2>1. NoJob.status = "DONE"
    BY DEF NoJob
  <2> QED
    BY <1>1, <1>2, <2>1
<1>3. TypeOK
  BY <1>2 DEF Init, TypeOK, QueueTypeOK, MailStatus, NothingSeen
<1>4. AttemptsLeft
  BY <1>10, MaxAttemptsAssumption DEF AttemptsLeft
<1>5. HandlerFits /\ TasksWereSeen /\ OneTaskPerCause /\ RetryHandsOnce /\ HandedIsOver
  BY DEF Init, HandlerFits, TasksWereSeen, OneTaskPerCause, RetryHandsOnce, HandedIsOver
<1>6. \A s : \A j \in About(s) : j = 1 /\ s = "sweep"
  BY <1>10 DEF About
<1>7. OneRetry
  BY <1>6, SubjectKinds DEF OneRetry, Init
<1>8. OneSweep
  BY <1>6 DEF OneSweep
<1>9. SweepGoesOn
  <2>1. 1 \in Hourly
    BY <1>1, <1>2 DEF Hourly, Live
  <2> QED
    BY <2>1 DEF SweepGoesOn
<1> QED
  BY <1>3, <1>4, <1>5, <1>7, <1>8, <1>9 DEF Inv

-----------------------------------------------------------------------------
\* Types, attempts left, and the handler that runs.

Typed == TypeOK /\ AttemptsLeft /\ HandlerFits

\* A handler that runs is that of a job which is committed as running.
LEMMA RunningJob ==
  ASSUME Typed, handler # "idle"
  PROVE  /\ tick \in Jobs /\ job[tick] \in Job /\ job[tick].status = "RUNNING"
         /\ handler \in {"sweep", "decided"} => job[tick].subject \in Sweeps
         /\ handler \in {"retry", "handed"} => job[tick].subject \in Mails
<1>1. /\ tick \in Jobs /\ job[tick].status = "RUNNING"
      /\ handler \in {"sweep", "decided"} <=> job[tick].subject \in Sweeps
  BY DEF Typed, TypeOK, QueueTypeOK, HandlerFits
<1>2. job[tick] \in Job
  BY <1>1, Rows DEF Typed, TypeOK, NoJob
<1>3. job[tick].subject \in Subjects
  BY <1>2 DEF Job
<1> QED
  BY <1>1, <1>2, <1>3, SubjectKinds

\* A transaction that plans a job leaves the others as they are.
LEMMA PlanTyped ==
  ASSUME Typed, NEW s \in Subjects, NEW waits \in BOOLEAN, Enqueue(s, waits)
  PROVE  /\ job' \in [Jobs -> Job \cup {NoJob}]
         /\ AttemptsLeft'
         /\ tick # 0 => job'[tick] = job[tick]
<1>1. QueueTypeOK
  BY DEF Typed, TypeOK
<1>2. PICK n \in Jobs : job[n] = NoJob /\ job' = [job EXCEPT ![n] = NewJob(s, waits)]
  BY <1>1, EnqueueRows
<1>3. /\ job'[n] = NewJob(s, waits) /\ \A j \in Jobs : j # n => job'[j] = job[j]
      /\ job' \in [Jobs -> Job \cup {NoJob}]
  BY <1>1, <1>2, NewJobs DEF QueueTypeOK
<1>4. AttemptsLeft'
  <2>1. job'[n].attempts = 0 /\ 0 < MaxAttempts
    BY <1>3, NewJobs, MaxAttemptsAssumption
  <2> QED
    BY <1>3, <2>1 DEF Typed, AttemptsLeft
<1>5. tick # 0 => job[tick].status = "RUNNING" /\ tick \in Jobs
  BY <1>1 DEF Typed, HandlerFits, QueueTypeOK
<1>6. tick # 0 => tick # n
  BY <1>2, <1>5 DEF NoJob
<1> QED
  BY <1>3, <1>4, <1>5, <1>6

LEMMA AdvanceTyped ==
  ASSUME Typed, NEW tells, Advance(tells)
  PROVE  /\ job' \in [Jobs -> Job \cup {NoJob}]
         /\ AttemptsLeft'
         /\ tick # 0 => job'[tick] = job[tick]
<1>1. CASE tells
  BY <1>1, PlanTyped, SubjectKinds DEF Advance
<1>2. CASE ~tells
  BY <1>2 DEF Advance, Typed, TypeOK, QueueTypeOK, AttemptsLeft
<1> QED
  BY <1>1, <1>2

LEMMA CausesTyped ==
  ASSUME Typed
  PROVE  Candidates \subseteq Causes
BY DEF Typed, TypeOK, Candidates, Causes, MailCauses, FailedForGood

LEMMA CausesStep ==
  ASSUME Typed, NEW r \in PaymentRecords, NEW tells,
         CauseAppears(r, tells) \/ CauseGoes(r, tells)
  PROVE  Typed'
<1>1. /\ Advance(tells) /\ due' \in {due \cup {r}, due \ {r}}
      /\ UNCHANGED <<tick, mail, handed, task, handler, seen, counts>>
  BY DEF CauseAppears, CauseGoes
<1>2. TypeOK'
  BY <1>1, AdvanceTyped DEF Typed, TypeOK, QueueTypeOK
<1>3. HandlerFits'
  BY <1>1, AdvanceTyped DEF Typed, HandlerFits
<1> QED
  BY <1>1, <1>2, <1>3, AdvanceTyped DEF Typed

LEMMA MailStepTyped ==
  ASSUME Typed, NEW m \in Mails, MailFails(m) \/ PlanRetry(m)
  PROVE  Typed'
<1>1. CASE MailFails(m)
  BY <1>1 DEF MailFails, queue, Typed, TypeOK, QueueTypeOK, MailStatus, AttemptsLeft, HandlerFits
<1>2. CASE PlanRetry(m)
  <2>1. /\ job' \in [Jobs -> Job \cup {NoJob}]
        /\ AttemptsLeft'
        /\ tick # 0 => job'[tick] = job[tick]
    BY <1>2, PlanTyped, SubjectKinds DEF PlanRetry
  <2>2. /\ mail' = [mail EXCEPT ![m] = "FAILED"]
        /\ UNCHANGED <<tick, due, handed, task, handler, seen, counts>>
    BY <1>2 DEF PlanRetry
  <2>3. TypeOK'
    BY <2>1, <2>2 DEF Typed, TypeOK, QueueTypeOK, MailStatus
  <2>4. HandlerFits'
    BY <2>1, <2>2 DEF Typed, HandlerFits
  <2> QED
    BY <2>1, <2>3, <2>4 DEF Typed
<1> QED
  BY <1>1, <1>2

LEMMA HourTyped ==
  ASSUME Typed, HourPasses
  PROVE  Typed'
<1>1. /\ job' = [j \in Jobs |-> [job[j] EXCEPT !.waits = FALSE]]
      /\ UNCHANGED <<tick, due, mail, handed, task, handler, seen, counts>>
  BY DEF HourPasses, JobsFallDue
<1>6. \A j \in Jobs : job'[j] = [job[j] EXCEPT !.waits = FALSE]
  BY <1>1
<1>7. \A j \in Jobs : job[j] = NoJob => job'[j] = NoJob
  BY <1>6 DEF NoJob
<1>8. \A j \in Jobs : job[j] \in Job =>
        /\ job'[j] \in Job /\ job'[j].status = job[j].status
        /\ job'[j].subject = job[j].subject /\ job'[j].attempts = job[j].attempts
  BY <1>6 DEF Job
<1>2. ASSUME NEW j \in Jobs
      PROVE  /\ job'[j] \in Job \cup {NoJob} /\ job'[j].status = job[j].status
             /\ job'[j].subject = job[j].subject /\ job'[j].attempts = job[j].attempts
  BY <1>7, <1>8, Rows DEF Typed, TypeOK
<1>3. TypeOK'
  BY <1>1, <1>2 DEF Typed, TypeOK, QueueTypeOK
<1>4. AttemptsLeft'
  BY <1>2 DEF Typed, AttemptsLeft
<1>5. HandlerFits'
  BY <1>1, <1>2 DEF Typed, HandlerFits, TypeOK, QueueTypeOK
<1> QED
  BY <1>3, <1>4, <1>5 DEF Typed

LEMMA StartJobTyped ==
  ASSUME Typed, NEW j \in Jobs, StartJob(j)
  PROVE  Typed'
<1>1. /\ tick = 0 /\ tick' = j /\ job[j].status = "PENDING"
      /\ job' = [job EXCEPT ![j].status = "RUNNING", ![j].attempts = @ + 1]
      /\ handler' = IF job[j].subject \in Sweeps THEN "sweep" ELSE "retry"
      /\ UNCHANGED <<due, mail, handed, task, seen, counts>>
  BY DEF StartJob, PickJob
<1>2. job[j] \in Job /\ job[j].attempts < MaxAttempts
  BY <1>1, Rows DEF Typed, TypeOK, AttemptsLeft, NoJob
<1>3. /\ \A k \in Jobs : k # j => job'[k] = job[k]
      /\ job'[j] \in Job /\ job'[j].status = "RUNNING" /\ job'[j].subject = job[j].subject
      /\ job' \in [Jobs -> Job \cup {NoJob}]
  BY <1>1, <1>2, MaxAttemptsAssumption DEF Typed, TypeOK, QueueTypeOK, Job
<1>4. TypeOK'
  BY <1>1, <1>3 DEF Typed, TypeOK, QueueTypeOK
<1>5. AttemptsLeft'
  BY <1>3 DEF Typed, AttemptsLeft
<1>6. HandlerFits'
  <2>1. j # 0
    BY DEF Jobs
  <2> QED
    BY <1>1, <1>3, <2>1 DEF HandlerFits
<1> QED
  BY <1>4, <1>5, <1>6 DEF Typed

\* The sweep ends: it plans its successor under its own number, or none.
LEMMA SweepCommitsTyped ==
  ASSUME Typed, SweepCommits
  PROVE  Typed'
<1> DEFINE after == IF Followed(job[tick].subject) THEN NewJob("sweep", TRUE) ELSE NoJob
<1>1. /\ handler = "decided"
      /\ task' = [c \in Causes |-> IF Opens(c) THEN task[c] + 1
                                   ELSE IF Closes(c) THEN 0 ELSE task[c]]
      /\ job' = [job EXCEPT ![tick] = after]
      /\ tick' = 0 /\ handler' = "idle" /\ seen' = NothingSeen
      /\ UNCHANGED <<due, mail, handed, counts>>
  BY DEF SweepCommits
<1>2. /\ after \in Job \cup {NoJob}
      /\ after.status = "PENDING" => after.attempts = 0
  <2>1. "sweep" \in Subjects /\ NoJob.status = "DONE"
    BY SubjectKinds DEF NoJob
  <2> QED
    BY <2>1, NewJobs
<1> HIDE DEF after
<1>6. job' \in [Jobs -> Job \cup {NoJob}]
  BY <1>1, <1>2 DEF Typed, TypeOK, QueueTypeOK
<1>7. task' \in [Causes -> Nat]
  BY <1>1 DEF Typed, TypeOK
<1>3. TypeOK'
  BY <1>1, <1>6, <1>7 DEF Typed, TypeOK, QueueTypeOK, NothingSeen
<1>4. AttemptsLeft'
  <2>1. 0 < MaxAttempts
    BY MaxAttemptsAssumption
  <2> QED
    BY <1>1, <1>2, <2>1 DEF Typed, TypeOK, QueueTypeOK, AttemptsLeft
<1>5. HandlerFits'
  BY <1>1 DEF HandlerFits
<1> QED
  BY <1>3, <1>4, <1>5 DEF Typed

LEMMA RetryTyped ==
  ASSUME Typed, RetryHands \/ RetryCommits
  PROVE  Typed'
<1>1. CASE RetryHands
  <2>1. /\ handler = "retry" /\ handler' = "handed"
        /\ handed' = [handed EXCEPT ![job[tick].subject] = @ + 1]
        /\ UNCHANGED <<job, tick, due, mail, task, seen, counts>>
    BY <1>1 DEF RetryHands, queue
  <2>4. handed' \in [Mails -> Nat]
    <3>1. job[tick].subject \in Mails
      BY <2>1, RunningJob
    <3> QED
      BY <2>1, <3>1 DEF Typed, TypeOK
  <2>2. TypeOK'
    BY <2>1, <2>4 DEF Typed, TypeOK, QueueTypeOK
  <2>3. HandlerFits' /\ AttemptsLeft'
    BY <2>1 DEF Typed, HandlerFits, AttemptsLeft
  <2> QED
    BY <2>2, <2>3 DEF Typed
<1>2. CASE RetryCommits
  <2>1. /\ handler' = "idle" /\ tick' = 0
        /\ job' = [job EXCEPT ![tick] = NoJob]
        /\ mail' = [mail EXCEPT ![job[tick].subject] = "SENT"]
        /\ UNCHANGED <<due, handed, task, seen, counts>>
    BY <1>2 DEF RetryCommits, JobDone
  <2>2. TypeOK'
    BY <2>1 DEF Typed, TypeOK, QueueTypeOK, MailStatus
  <2>3. AttemptsLeft'
    BY <2>1 DEF Typed, TypeOK, QueueTypeOK, AttemptsLeft, NoJob
  <2>4. HandlerFits'
    BY <2>1 DEF HandlerFits
  <2> QED
    BY <2>2, <2>3, <2>4 DEF Typed
<1> QED
  BY <1>1, <1>2

LEMMA RaisesTyped ==
  ASSUME Typed, HandlerRaises
  PROVE  Typed'
<1> DEFINE status == IF UsedUp(tick) THEN "FAILED" ELSE "PENDING"
<1>1. /\ handler # "idle" /\ handler' = "idle" /\ tick' = 0 /\ seen' = NothingSeen
      /\ job' = [job EXCEPT ![tick].status = status]
      /\ counts' = [counts EXCEPT !.raises = @ + 1]
      /\ UNCHANGED <<due, mail, handed, task>>
  BY DEF HandlerRaises, JobRaised
<1>2. tick \in Jobs /\ job[tick] \in Job
  BY <1>1, Rows DEF Typed, TypeOK, QueueTypeOK, HandlerFits, NoJob
<1>3. /\ \A j \in Jobs : j # tick => job'[j] = job[j]
      /\ job'[tick] \in Job /\ job'[tick].status = status
      /\ job'[tick].attempts = job[tick].attempts
      /\ job' \in [Jobs -> Job \cup {NoJob}]
  BY <1>1, <1>2 DEF Typed, TypeOK, QueueTypeOK, Job
<1>4. status = "PENDING" => job[tick].attempts < MaxAttempts
  BY <1>2, MaxAttemptsAssumption DEF UsedUp, Job
<1> HIDE DEF status
<1>5. counts' \in [crashes : Nat, raises : Nat]
  BY <1>1 DEF Typed, TypeOK
<1>6. TypeOK'
  BY <1>1, <1>3, <1>5 DEF Typed, TypeOK, QueueTypeOK, NothingSeen
<1>7. AttemptsLeft'
  BY <1>3, <1>4 DEF Typed, AttemptsLeft
<1>8. HandlerFits'
  BY <1>1 DEF HandlerFits
<1> QED
  BY <1>6, <1>7, <1>8 DEF Typed

\* A start plans the hourly sweep, or leaves the table.
LEMMA PlanAtStartTyped ==
  ASSUME Typed, PlanAtStart
  PROVE  job' \in [Jobs -> Job \cup {NoJob}] /\ AttemptsLeft'
<1>1. CASE Enqueue("sweep", FALSE)
  BY <1>1, PlanTyped, SubjectKinds
<1>2. CASE UNCHANGED job
  BY <1>2 DEF Typed, TypeOK, QueueTypeOK, AttemptsLeft
<1> QED
  BY <1>1, <1>2 DEF PlanAtStart

LEMMA LostTyped ==
  ASSUME Typed, DatabaseLost \/ Restart
  PROVE  Typed'
<1>1. /\ tick' = 0 /\ handler' = "idle" /\ seen' = NothingSeen
      /\ counts' = [counts EXCEPT !.crashes = @ + 1]
      /\ UNCHANGED <<due, handed, task>>
  BY DEF DatabaseLost, Restart, Lost, TickLost
<1>2. job' \in [Jobs -> Job \cup {NoJob}] /\ AttemptsLeft'
  BY PlanAtStartTyped DEF DatabaseLost, Restart, TickLost, Typed, TypeOK, QueueTypeOK, AttemptsLeft
<1>3. mail' \in [Mails -> MailStatus]
  BY DEF DatabaseLost, Restart, Typed, TypeOK, MailStatus
<1>4. TypeOK'
  BY <1>1, <1>2, <1>3 DEF Typed, TypeOK, QueueTypeOK, NothingSeen
<1>5. HandlerFits'
  BY <1>1 DEF HandlerFits
<1> QED
  BY <1>2, <1>4, <1>5 DEF Typed

LEMMA TypedStep == Typed /\ [Next]_vars => Typed'
<1> SUFFICES ASSUME Typed, [Next]_vars
             PROVE  Typed'
  OBVIOUS
<1>1. CASE \E c \in Causes : CompleteTask(c)
  BY <1>1 DEF CompleteTask, queue, Typed, TypeOK, QueueTypeOK, AttemptsLeft, HandlerFits
<1>2. CASE SweepReads
  BY <1>2, CausesTyped DEF SweepReads, queue, Typed, TypeOK, QueueTypeOK, AttemptsLeft, HandlerFits
<1>3. CASE UNCHANGED vars
  BY <1>3 DEF vars, queue, Typed, TypeOK, QueueTypeOK, AttemptsLeft, HandlerFits
<1> QED
  BY <1>1, <1>2, <1>3, CausesStep, MailStepTyped, HourTyped, StartJobTyped, SweepCommitsTyped,
     RetryTyped, RaisesTyped, LostTyped DEF Next, Scheduler

-----------------------------------------------------------------------------
\* The tasks.

TaskInv == TasksWereSeen /\ OneTaskPerCause

LEMMA TaskStep == Typed /\ TaskInv /\ [Next]_vars => TaskInv'
<1> SUFFICES ASSUME Typed, TaskInv, [Next]_vars
             PROVE  TaskInv'
  OBVIOUS
<1>1. task \in [Causes -> Nat]
  BY DEF Typed, TypeOK
<1>2. CASE UNCHANGED <<task, handler, seen>> \/ (UNCHANGED task /\ handler' # "decided")
  BY <1>2 DEF TaskInv, TasksWereSeen, OneTaskPerCause
<1>3. ASSUME NEW c \in Causes, CompleteTask(c)
      PROVE  TaskInv'
  <2>1. /\ task[c] > 0 /\ task' = [task EXCEPT ![c] = @ - 1]
        /\ UNCHANGED <<handler, seen>>
    BY <1>3 DEF CompleteTask
  <2>2. \A d \in Causes : task'[d] <= task[d]
    BY <1>1, <2>1
  <2>3. \A d \in Causes : task[d] \in Nat /\ task'[d] \in Nat
    BY <1>1, <2>1
  <2> QED
    BY <2>1, <2>2, <2>3 DEF TaskInv, TasksWereSeen, OneTaskPerCause
<1>4. CASE SweepReads
  BY <1>4 DEF SweepReads, TaskInv, TasksWereSeen, OneTaskPerCause
<1>5. CASE SweepCommits
  <2>1. /\ handler = "decided" /\ handler' = "idle"
        /\ task' = [c \in Causes |-> IF Opens(c) THEN task[c] + 1
                                     ELSE IF Closes(c) THEN 0 ELSE task[c]]
    BY <1>5 DEF SweepCommits
  <2>2. ASSUME NEW c \in Causes
        PROVE  task'[c] <= 1
    <3>1. task[c] \in Nat /\ task[c] <= 1
      BY <1>1 DEF TaskInv, OneTaskPerCause
    <3>2. Opens(c) => task[c] = 0
      BY <2>1, <3>1 DEF TaskInv, TasksWereSeen, Opens
    <3> QED
      BY <2>1, <3>1, <3>2
  <2> QED
    BY <2>1, <2>2 DEF TaskInv, TasksWereSeen, OneTaskPerCause
<1>6. CASE \/ \E r \in PaymentRecords, tells \in BOOLEAN :
                CauseAppears(r, tells) \/ CauseGoes(r, tells)
           \/ \E m \in Mails : MailFails(m) \/ PlanRetry(m)
           \/ HourPasses \/ (\E j \in Jobs : StartJob(j))
  BY <1>2, <1>6 DEF CauseAppears, CauseGoes, MailFails, PlanRetry, HourPasses, StartJob
<1>7. CASE RetryHands \/ RetryCommits \/ HandlerRaises \/ DatabaseLost \/ Restart
  BY <1>2, <1>7 DEF RetryHands, RetryCommits, HandlerRaises, DatabaseLost, Restart, Lost
<1>8. CASE UNCHANGED vars
  BY <1>2, <1>8 DEF vars
<1> QED
  BY <1>3, <1>4, <1>5, <1>6, <1>7, <1>8 DEF Next, Scheduler

-----------------------------------------------------------------------------
\* What a step does to the rows of one subject.

\* A row keeps what it is about and how far it is.
Stays(j) == job'[j].subject = job[j].subject /\ job'[j].status = job[j].status

LEMMA PlanRows ==
  ASSUME Typed, NEW s \in Subjects, NEW waits \in BOOLEAN, Enqueue(s, waits)
  PROVE  \E n \in Jobs : /\ job[n].status = "DONE"
                         /\ job'[n].status = "PENDING" /\ job'[n].subject = s
                         /\ \A j \in Jobs : j # n => Stays(j)
<1>1. QueueTypeOK
  BY DEF Typed, TypeOK
<1>2. PICK n \in Jobs : job[n] = NoJob /\ job' = [job EXCEPT ![n] = NewJob(s, waits)]
  BY <1>1, EnqueueRows
<1>3. /\ job'[n] = NewJob(s, waits) /\ \A j \in Jobs : j # n => job'[j] = job[j]
  BY <1>1, <1>2 DEF QueueTypeOK
<1>4. NoJob.status = "DONE"
  BY DEF NoJob
<1> QED
  BY <1>2, <1>3, <1>4, NewJobs DEF Stays

\* Steps that plan nothing, start nothing and end nothing.
LEMMA QuietRows ==
  ASSUME Typed,
         \/ \E m \in Mails : MailFails(m)
         \/ \E c \in Causes : CompleteTask(c)
         \/ HourPasses \/ SweepReads \/ RetryHands \/ DatabaseLost \/ UNCHANGED vars
  PROVE  \A j \in Jobs : Stays(j)
<1>1. CASE HourPasses
  <2>1. \A j \in Jobs : job'[j] = [job[j] EXCEPT !.waits = FALSE]
    BY <1>1 DEF HourPasses, JobsFallDue
  <2>2. \A j \in Jobs : job[j] = NoJob => job'[j] = NoJob
    BY <2>1 DEF NoJob
  <2>3. \A j \in Jobs : job[j] \in Job => Stays(j)
    BY <2>1 DEF Job, Stays
  <2> QED
    BY <2>2, <2>3, Rows DEF Typed, TypeOK, Stays
<1>2. CASE UNCHANGED job
  BY <1>2 DEF Stays
<1> QED
  BY <1>1, <1>2 DEF MailFails, CompleteTask, SweepReads, RetryHands, DatabaseLost, TickLost,
                    queue, vars

LEMMA StartRows ==
  ASSUME Typed, NEW j \in Jobs, StartJob(j)
  PROVE  /\ job[j].status = "PENDING" /\ job'[j].status = "RUNNING"
         /\ job'[j].subject = job[j].subject
         /\ \A k \in Jobs : k # j => Stays(k)
<1>1. /\ job[j].status = "PENDING"
      /\ job' = [job EXCEPT ![j].status = "RUNNING", ![j].attempts = @ + 1]
  BY DEF StartJob, PickJob
<1>2. job[j] \in Job /\ job \in [Jobs -> Job \cup {NoJob}]
  BY <1>1, Rows DEF Typed, TypeOK, QueueTypeOK, NoJob
<1> QED
  BY <1>1, <1>2 DEF Job, Stays

LEMMA RaiseRows ==
  ASSUME Typed, HandlerRaises
  PROVE  /\ tick \in Jobs /\ job[tick].status = "RUNNING"
         /\ job'[tick].status \in {"FAILED", "PENDING"}
         /\ job'[tick].subject = job[tick].subject
         /\ \A k \in Jobs : k # tick => Stays(k)
<1> DEFINE status == IF UsedUp(tick) THEN "FAILED" ELSE "PENDING"
<1>1. handler # "idle" /\ job' = [job EXCEPT ![tick].status = status]
  BY DEF HandlerRaises, JobRaised
<1>2. /\ tick \in Jobs /\ job[tick] \in Job /\ job[tick].status = "RUNNING"
      /\ job \in [Jobs -> Job \cup {NoJob}]
  BY <1>1, RunningJob DEF Typed, TypeOK, QueueTypeOK
<1>3. status \in {"FAILED", "PENDING"}
  OBVIOUS
<1> HIDE DEF status
<1> QED
  BY <1>1, <1>2, <1>3 DEF Job, Stays

LEMMA EndRows ==
  ASSUME Typed, SweepCommits \/ RetryCommits
  PROVE  /\ tick \in Jobs /\ job[tick].status = "RUNNING"
         /\ \A k \in Jobs : k # tick => Stays(k)
         /\ RetryCommits => job'[tick].status = "DONE" /\ job[tick].subject \in Mails
         /\ SweepCommits =>
              /\ job[tick].subject \in Sweeps
              /\ IF job[tick].subject = "sweep"
                 THEN job'[tick].status = "PENDING" /\ job'[tick].subject = "sweep"
                 ELSE job'[tick].status = "DONE"
<1>1. /\ tick \in Jobs /\ job[tick] \in Job /\ job[tick].status = "RUNNING"
      /\ job \in [Jobs -> Job \cup {NoJob}]
      /\ RetryCommits => job[tick].subject \in Mails
      /\ SweepCommits => job[tick].subject \in Sweeps
  BY RunningJob DEF Typed, TypeOK, QueueTypeOK, SweepCommits, RetryCommits
<1>2. NoJob.status = "DONE"
  BY DEF NoJob
<1>3. CASE RetryCommits
  <2>1. job' = [job EXCEPT ![tick] = NoJob]
    BY <1>3 DEF RetryCommits, JobDone
  <2>2. ~SweepCommits
    BY <1>3 DEF RetryCommits, SweepCommits
  <2> QED
    BY <1>1, <1>2, <2>1, <2>2 DEF Stays
<1>4. CASE SweepCommits
  <2> DEFINE after == IF Followed(job[tick].subject) THEN NewJob("sweep", TRUE) ELSE NoJob
  <2>1. job' = [job EXCEPT ![tick] = after] /\ ~RetryCommits
    BY <1>4 DEF SweepCommits, RetryCommits
  <2>2. IF job[tick].subject = "sweep"
        THEN after.status = "PENDING" /\ after.subject = "sweep"
        ELSE after.status = "DONE"
    BY <1>2, NewJobs, SubjectKinds DEF Followed
  <2> HIDE DEF after
  <2> QED
    BY <1>1, <1>4, <2>1, <2>2 DEF Stays
<1> QED
  BY <1>3, <1>4

-----------------------------------------------------------------------------
\* The mails, one by one.

MailGood(m) ==
  /\ \A j, k \in About(m) : j = k
  /\ mail[m] \in {"NEW", "FAILING"} => About(m) = {} /\ handed[m] = 0
  /\ handed[m] > 0 /\ mail[m] # "SENT" =>
       \A j \in About(m) : job[j].status = "RUNNING" /\ (tick = j => handler = "handed")
  /\ handed[m] <= 1

MailInv == OneRetry /\ HandedIsOver /\ RetryHandsOnce

LEMMA MailByMail == MailInv <=> \A m \in Mails : MailGood(m)
BY DEF MailInv, OneRetry, HandedIsOver, RetryHandsOnce, MailGood

\* A step that plans no retry of m and hands nothing of it over.
LEMMA MailFrame ==
  ASSUME NEW m \in Mails, MailGood(m),
         mail'[m] \in {"NEW", "FAILING"} => mail[m] \in {"NEW", "FAILING"},
         mail[m] = "SENT" => mail'[m] = "SENT",
         handed'[m] = handed[m],
         \A j \in Jobs : job'[j].subject = m /\ job'[j].status # "DONE" =>
           /\ job[j].subject = m /\ job[j].status # "DONE"
           /\ job[j].status = "RUNNING" /\ (tick = j => handler = "handed") =>
                job'[j].status = "RUNNING" /\ (tick' = j => handler' = "handed")
  PROVE  MailGood(m)'
<1>1. \A j \in Jobs : j \in About(m)' =>
        /\ j \in About(m)
        /\ job[j].status = "RUNNING" /\ (tick = j => handler = "handed") =>
             job'[j].status = "RUNNING" /\ (tick' = j => handler' = "handed")
  BY DEF About
<1>2. About(m)' \subseteq Jobs
  BY DEF About
<1>3. \A j, k \in About(m)' : j = k
  BY <1>1, <1>2 DEF MailGood
<1>4. mail'[m] \in {"NEW", "FAILING"} => About(m)' = {} /\ handed'[m] = 0
  BY <1>1, <1>2 DEF MailGood
<1>5. handed'[m] > 0 /\ mail'[m] # "SENT" =>
        \A j \in About(m)' : job'[j].status = "RUNNING" /\ (tick' = j => handler' = "handed")
  BY <1>1, <1>2 DEF MailGood
<1> QED
  BY <1>3, <1>4, <1>5 DEF MailGood

\* A step that plans or leaves the jobs of others.
LEMMA OthersPlanned ==
  ASSUME Typed, NEW m \in Mails, MailGood(m), NEW s \in Subjects, s # m,
         NEW waits \in BOOLEAN, Enqueue(s, waits),
         mail'[m] \in {"NEW", "FAILING"} => mail[m] \in {"NEW", "FAILING"},
         mail[m] = "SENT" => mail'[m] = "SENT", UNCHANGED handed,
         UNCHANGED <<tick, handler>> \/ tick' = 0
  PROVE  MailGood(m)'
<1>1. PICK n \in Jobs : /\ job'[n].subject = s /\ \A j \in Jobs : j # n => Stays(j)
  BY PlanRows
<1>2. \A j \in Jobs : j # 0
  BY DEF Jobs
<1> QED
  BY <1>1, <1>2, MailFrame DEF Stays

LEMMA RowsStayMail ==
  ASSUME NEW m \in Mails, MailGood(m), \A j \in Jobs : Stays(j),
         mail'[m] \in {"NEW", "FAILING"} => mail[m] \in {"NEW", "FAILING"},
         mail[m] = "SENT" => mail'[m] = "SENT", handed'[m] = handed[m],
         UNCHANGED <<tick, handler>> \/ tick' = 0
         \/ (UNCHANGED tick /\ \A j \in About(m) : tick # j)
  PROVE  MailGood(m)'
<1>1. \A j \in Jobs : j # 0
  BY DEF Jobs
<1> QED
  BY <1>1, MailFrame DEF Stays, About

LEMMA PlanRetryMail ==
  ASSUME Typed, NEW m \in Mails, MailGood(m), PlanRetry(m)
  PROVE  MailGood(m)'
<1>1. /\ mail[m] = "FAILING" /\ mail' = [mail EXCEPT ![m] = "FAILED"]
      /\ Enqueue(m, FALSE) /\ UNCHANGED handed
  BY DEF PlanRetry
<1>2. mail'[m] = "FAILED" /\ About(m) = {} /\ handed[m] = 0
  BY <1>1 DEF Typed, TypeOK, MailGood
<1>3. PICK n \in Jobs : \A j \in Jobs : j # n => Stays(j)
  BY <1>1, PlanRows, SubjectKinds
<1>4. \A j \in About(m)' : j = n
  BY <1>2, <1>3 DEF About, Stays
<1> QED
  BY <1>1, <1>2, <1>4 DEF MailGood

LEMMA RetryHandsMail ==
  ASSUME Typed, NEW m \in Mails, MailGood(m), RetryHands, m = job[tick].subject
  PROVE  MailGood(m)'
<1>1. /\ handler = "retry" /\ mail[m] # "SENT" /\ handler' = "handed"
      /\ handed' = [handed EXCEPT ![m] = @ + 1] /\ UNCHANGED <<job, tick, mail>>
  BY DEF RetryHands, queue
<1>2. tick \in About(m) /\ job[tick].status = "RUNNING"
  BY <1>1, RunningJob DEF About
<1>3. handed[m] = 0
  <2>1. handed[m] \in Nat
    BY DEF Typed, TypeOK
  <2> QED
    BY <1>1, <1>2, <2>1 DEF MailGood
<1>4. handed'[m] = 1
  BY <1>1, <1>3 DEF Typed, TypeOK
<1>5. About(m)' = About(m) /\ \A j \in About(m) : j = tick
  BY <1>1, <1>2 DEF About, MailGood
<1> QED
  BY <1>1, <1>2, <1>4, <1>5 DEF MailGood

LEMMA MailStep == Typed /\ MailInv /\ [Next]_vars => MailInv'
<1> SUFFICES ASSUME Typed, MailInv, [Next]_vars, NEW m \in Mails
             PROVE  MailGood(m)'
  <2>1. MailInv' <=> \A m \in Mails : MailGood(m)'
    BY DEF MailInv, OneRetry, HandedIsOver, RetryHandsOnce, MailGood
  <2> QED
    BY <2>1
<1>1. MailGood(m)
  BY MailByMail
<1>2. \A s \in Sweeps : s \in Subjects /\ s # m
  BY SubjectKinds
<1>3. CASE \E r \in PaymentRecords, tells \in BOOLEAN :
             CauseAppears(r, tells) \/ CauseGoes(r, tells)
  <2>1. (Enqueue("once", FALSE) \/ UNCHANGED job) /\ UNCHANGED <<tick, mail, handed, handler>>
    BY <1>3 DEF CauseAppears, CauseGoes, Advance
  <2>2. CASE Enqueue("once", FALSE)
    BY <1>1, <1>2, <2>1, <2>2, OthersPlanned, SubjectKinds
  <2>3. CASE UNCHANGED job
    BY <1>1, <2>1, <2>3, RowsStayMail DEF Stays
  <2> QED
    BY <2>1, <2>2, <2>3
<1>4. ASSUME NEW n \in Mails, PlanRetry(n)
      PROVE  MailGood(m)'
  <2>1. CASE n = m
    BY <1>1, <1>4, <2>1, PlanRetryMail
  <2>2. CASE n # m
    <3>1. Enqueue(n, FALSE) /\ mail'[m] = mail[m] /\ UNCHANGED <<tick, handed, handler>>
      BY <1>4, <2>2 DEF PlanRetry, Typed, TypeOK
    <3> QED
      BY <1>1, <2>2, <3>1, OthersPlanned, SubjectKinds
  <2> QED
    BY <2>1, <2>2
<1>5. ASSUME NEW n \in Mails, MailFails(n)
      PROVE  MailGood(m)'
  <2>1. /\ mail[n] = "NEW" /\ mail' = [mail EXCEPT ![n] = "FAILING"]
        /\ UNCHANGED <<tick, handed, handler>>
    BY <1>5 DEF MailFails, queue
  <2>2. /\ mail'[m] \in {"NEW", "FAILING"} => mail[m] \in {"NEW", "FAILING"}
        /\ mail[m] = "SENT" => mail'[m] = "SENT"
    BY <2>1 DEF Typed, TypeOK
  <2> QED
    BY <1>1, <1>5, <2>1, <2>2, QuietRows, RowsStayMail
<1>6. CASE (\E c \in Causes : CompleteTask(c)) \/ HourPasses \/ UNCHANGED vars
  <2>1. UNCHANGED <<tick, mail, handed, handler>>
    BY <1>6 DEF CompleteTask, HourPasses, JobsFallDue, vars, queue
  <2> QED
    BY <1>1, <1>6, <2>1, QuietRows, RowsStayMail
<1>7. CASE SweepReads
  <2>1. UNCHANGED <<tick, mail, handed>> /\ handler = "sweep"
    BY <1>7 DEF SweepReads, queue
  <2>2. \A j \in About(m) : tick # j
    BY <1>2, <2>1, RunningJob DEF About
  <2> QED
    BY <1>1, <1>7, <2>1, <2>2, QuietRows, RowsStayMail
<1>8. CASE RetryHands
  <2>1. job[tick].subject \in Mails
    BY <1>8, RunningJob DEF RetryHands
  <2>2. CASE m = job[tick].subject
    BY <1>1, <1>8, <2>2, RetryHandsMail
  <2>3. CASE m # job[tick].subject
    <3>1. UNCHANGED <<tick, mail>> /\ handed'[m] = handed[m]
      BY <1>8, <2>3 DEF RetryHands, queue, Typed, TypeOK
    <3>2. \A j \in About(m) : tick # j
      BY <2>3 DEF About
    <3> QED
      BY <1>1, <1>8, <3>1, <3>2, QuietRows, RowsStayMail
  <2> QED
    BY <2>2, <2>3
<1>9. ASSUME NEW j \in Jobs, StartJob(j)
      PROVE  MailGood(m)'
  <2>1. tick' = j /\ UNCHANGED <<mail, handed>>
    BY <1>9 DEF StartJob, PickJob
  <2>2. tick = 0 /\ \A k \in Jobs : k # 0
    BY <1>9 DEF StartJob, PickJob, Jobs
  <2> QED
    BY <1>1, <1>9, <2>1, <2>2, StartRows, MailFrame DEF Stays
<1>10. CASE HandlerRaises
  <2>1. tick' = 0 /\ UNCHANGED <<mail, handed>> /\ handler # "handed"
    BY <1>10 DEF HandlerRaises, JobRaised
  <2>2. \A k \in Jobs : k # 0
    BY DEF Jobs
  <2> QED
    BY <1>1, <1>10, <2>1, <2>2, RaiseRows, MailFrame DEF Stays
<1>11. CASE SweepCommits
  <2>1. tick' = 0 /\ UNCHANGED <<mail, handed>>
    BY <1>11 DEF SweepCommits
  <2>2. \A k \in Jobs : k # 0
    BY DEF Jobs
  <2> QED
    BY <1>1, <1>2, <1>11, <2>1, <2>2, EndRows, MailFrame DEF Stays, Sweeps
<1>12. CASE RetryCommits
  <2>1. /\ tick' = 0 /\ UNCHANGED handed
        /\ mail' = [mail EXCEPT ![job[tick].subject] = "SENT"]
    BY <1>12 DEF RetryCommits, JobDone
  <2>2. \A k \in Jobs : k # 0
    BY DEF Jobs
  <2>3. mail'[m] \in {mail[m], "SENT"}
    BY <2>1 DEF Typed, TypeOK
  <2> QED
    BY <1>1, <1>12, <2>1, <2>2, <2>3, EndRows, MailFrame DEF Stays
<1>13. CASE DatabaseLost
  <2>1. tick' = 0 /\ UNCHANGED <<mail, handed>>
    BY <1>13 DEF DatabaseLost, TickLost, Lost
  <2> QED
    BY <1>1, <1>13, <2>1, QuietRows, RowsStayMail
<1>14. CASE Restart
  <2>1. /\ tick' = 0 /\ UNCHANGED handed
        /\ mail' = [n \in Mails |-> IF mail[n] = "FAILING" THEN "FAILED" ELSE mail[n]]
        /\ Enqueue("sweep", FALSE) \/ UNCHANGED job
    BY <1>14 DEF Restart, Lost, PlanAtStart
  <2>2. /\ mail'[m] \in {"NEW", "FAILING"} => mail[m] \in {"NEW", "FAILING"}
        /\ mail[m] = "SENT" => mail'[m] = "SENT"
    BY <2>1
  <2>3. CASE Enqueue("sweep", FALSE)
    BY <1>1, <1>2, <2>1, <2>2, <2>3, OthersPlanned, SubjectKinds
  <2>4. CASE UNCHANGED job
    BY <1>1, <2>1, <2>2, <2>4, RowsStayMail DEF Stays
  <2> QED
    BY <2>1, <2>3, <2>4
<1> QED
  BY <1>3, <1>4, <1>5, <1>6, <1>7, <1>8, <1>9, <1>10, <1>11, <1>12, <1>13, <1>14
  DEF Next, Scheduler

-----------------------------------------------------------------------------
\* The hourly sweeps.

SweepInv == OneSweep /\ SweepGoesOn

\* An hourly sweep that is planned or was committed as running.
Alive(j) == job[j].subject = "sweep" /\ job[j].status \in {"PENDING", "RUNNING"}

LEMMA SweepByRow ==
  ASSUME QueueTypeOK
  PROVE  /\ OneSweep <=> \A j, k \in Jobs : Alive(j) /\ Alive(k) => j = k
         /\ SweepGoesOn <=> \E j \in Jobs : job[j].subject = "sweep" /\ job[j].status # "DONE"
<1>1. \A j \in Jobs : job[j].status \in {"DONE", "PENDING", "RUNNING", "FAILED"}
  BY Rows
<1> QED
  BY <1>1 DEF OneSweep, SweepGoesOn, About, Alive, Hourly, Live

\* A step that plans no hourly sweep and ends none.
LEMMA SweepFrame ==
  ASSUME Typed, QueueTypeOK', SweepInv,
         \A j \in Jobs : Alive(j)' => Alive(j),
         \A j \in Jobs : job[j].subject = "sweep" /\ job[j].status # "DONE" =>
                           job'[j].subject = "sweep" /\ job'[j].status # "DONE"
  PROVE  SweepInv'
<1>1. /\ \A j, k \in Jobs : Alive(j) /\ Alive(k) => j = k
      /\ \E j \in Jobs : job[j].subject = "sweep" /\ job[j].status # "DONE"
  BY SweepByRow DEF Typed, TypeOK, SweepInv
<1>2. /\ \A j, k \in Jobs : Alive(j)' /\ Alive(k)' => j = k
      /\ \E j \in Jobs : job'[j].subject = "sweep" /\ job'[j].status # "DONE"
  BY <1>1
<1>3. \A j \in Jobs : job'[j].status \in {"DONE", "PENDING", "RUNNING", "FAILED"}
  BY DEF QueueTypeOK, Job, NoJob
<1> QED
  BY <1>2, <1>3 DEF SweepInv, OneSweep, SweepGoesOn, About, Alive, Hourly, Live

LEMMA RowsStaySweep ==
  ASSUME Typed, QueueTypeOK', SweepInv, \A j \in Jobs : Stays(j)
  PROVE  SweepInv'
BY SweepFrame DEF Stays, Alive

\* Another job is planned.
LEMMA OthersPlannedSweep ==
  ASSUME Typed, QueueTypeOK', SweepInv, NEW s \in Subjects, s # "sweep",
         NEW waits \in BOOLEAN, Enqueue(s, waits)
  PROVE  SweepInv'
<1>1. PICK n \in Jobs : /\ job[n].status = "DONE"
                        /\ job'[n].status = "PENDING" /\ job'[n].subject = s
                        /\ \A j \in Jobs : j # n => Stays(j)
  BY PlanRows
<1> QED
  BY <1>1, SweepFrame DEF Stays, Alive

\* A start that sees no sweep plans one, and no hourly sweep is alive then.
LEMMA PlanAtStartSweep ==
  ASSUME Typed, QueueTypeOK', SweepInv, PlanAtStart
  PROVE  SweepInv'
<1>1. CASE UNCHANGED job
  BY <1>1, RowsStaySweep DEF Stays
<1>2. CASE ~UNCHANGED job
  <2>1. /\ Enqueue("sweep", FALSE)
        /\ \A j \in Jobs : ~Alive(j)
    BY <1>2, SubjectKinds DEF PlanAtStart, Alive
  <2>2. PICK n \in Jobs : /\ job'[n].status = "PENDING" /\ job'[n].subject = "sweep"
                          /\ \A j \in Jobs : j # n => Stays(j)
    BY <2>1, PlanRows, SubjectKinds
  <2>3. \A j \in Jobs : Alive(j)' => j = n
    BY <2>1, <2>2 DEF Stays, Alive
  <2>4. \A j \in Jobs : job'[j].status \in {"DONE", "PENDING", "RUNNING", "FAILED"}
    BY DEF QueueTypeOK, Job, NoJob
  <2> QED
    BY <2>2, <2>3, <2>4 DEF SweepInv, OneSweep, SweepGoesOn, About, Alive, Hourly, Live
<1> QED
  BY <1>1, <1>2

LEMMA SweepStep ==
  ASSUME Typed, QueueTypeOK', SweepInv, [Next]_vars
  PROVE  SweepInv'
<1>1. CASE \E r \in PaymentRecords, tells \in BOOLEAN :
             CauseAppears(r, tells) \/ CauseGoes(r, tells)
  <2>1. Enqueue("once", FALSE) \/ UNCHANGED job
    BY <1>1 DEF CauseAppears, CauseGoes, Advance
  <2> QED
    BY <2>1, OthersPlannedSweep, RowsStaySweep, SubjectKinds DEF Stays
<1>2. ASSUME NEW m \in Mails, PlanRetry(m)
      PROVE  SweepInv'
  <2>1. Enqueue(m, FALSE) /\ m \in Subjects /\ m # "sweep"
    BY <1>2, SubjectKinds DEF PlanRetry
  <2> QED
    BY <2>1, OthersPlannedSweep
<1>3. CASE \/ \E m \in Mails : MailFails(m)
           \/ \E c \in Causes : CompleteTask(c)
           \/ HourPasses \/ SweepReads \/ RetryHands \/ DatabaseLost \/ UNCHANGED vars
  BY <1>3, QuietRows, RowsStaySweep
<1>4. ASSUME NEW j \in Jobs, StartJob(j)
      PROVE  SweepInv'
  BY <1>4, StartRows, SweepFrame DEF Stays, Alive
<1>5. CASE HandlerRaises
  BY <1>5, RaiseRows, SweepFrame DEF Stays, Alive
<1>6. CASE SweepCommits
  BY <1>6, EndRows, SweepFrame DEF Stays, Alive
<1>7. CASE RetryCommits
  <2>1. job[tick].subject # "sweep"
    BY <1>7, EndRows, SubjectKinds
  <2> QED
    BY <1>7, <2>1, EndRows, SweepFrame DEF Stays, Alive
<1>8. CASE Restart
  BY <1>8, PlanAtStartSweep DEF Restart
<1> QED
  BY <1>1, <1>2, <1>3, <1>4, <1>5, <1>6, <1>7, <1>8 DEF Next, Scheduler

-----------------------------------------------------------------------------
\* What holds in every reachable state.

LEMMA InvParts == Inv <=> Typed /\ TaskInv /\ MailInv /\ SweepInv
BY DEF Inv, Typed, TaskInv, MailInv, SweepInv

LEMMA Inductive == Inv /\ [Next]_vars => Inv'
<1> SUFFICES ASSUME Inv, [Next]_vars
             PROVE  Inv'
  OBVIOUS
<1>1. Typed /\ TaskInv /\ MailInv /\ SweepInv
  BY InvParts
<1>2. Typed' /\ TaskInv' /\ MailInv'
  BY <1>1, TypedStep, TaskStep, MailStep
<1>3. SweepInv'
  <2>1. QueueTypeOK'
    BY <1>2 DEF Typed, TypeOK
  <2> QED
    BY <1>1, <2>1, SweepStep
<1> QED
  BY <1>2, <1>3 DEF Inv, Typed, TaskInv, MailInv, SweepInv

\* The inductive invariant holds in every reachable state.
THEOREM Invariant == Spec => []Inv
<1> QED
  BY InitInv, Inductive, PTL DEF Spec

\* Every variable has its type, the counters of attempts among them.
THEOREM TypeCorrect == Spec => []TypeOK
<1>1. Inv => TypeOK
  BY DEF Inv
<1> QED
  BY <1>1, Invariant, PTL

\* "The same refund twice": a cause never has two open tasks, however many
\* sweeps are planned and whoever completes tasks while one of them runs.
THEOREM TasksAreOnce == Spec => []OneTaskPerCause
<1>1. Inv => OneTaskPerCause
  BY DEF Inv
<1> QED
  BY <1>1, Invariant, PTL

\* A retry hands its mail to the mail server at most once, wherever the process
\* stops or a handler raises.
THEOREM RetriesHandOnce == Spec => []RetryHandsOnce
<1>1. Inv => RetryHandsOnce
  BY DEF Inv
<1> QED
  BY <1>1, Invariant, PTL

\* A second hourly chain never comes to be, restarts included.
THEOREM CadenceIsOne == Spec => []OneCadence
<1>1. ASSUME Inv
      PROVE  OneCadence
  <2>1. \A j, k \in Hourly : j = k
    BY <1>1 DEF Inv, OneSweep, Hourly, Live, About
  <2>2. CASE Hourly = {}
    BY <2>2, FS_EmptySet DEF OneCadence
  <2>3. CASE Hourly # {}
    <3>1. PICK j : Hourly = {j}
      BY <2>1, <2>3
    <3>2. Cardinality({j}) = 1
      BY FS_Singleton
    <3> QED
      BY <3>1, <3>2 DEF OneCadence
  <2> QED
    BY <2>2, <2>3
<1> QED
  BY <1>1, Invariant, PTL

\* An hourly sweep is always in the table: planned, running, interrupted while
\* it ran, or failed for good.
THEOREM SweepsGoOn == Spec => []SweepGoesOn
<1>1. Inv => SweepGoesOn
  BY DEF Inv
<1> QED
  BY <1>1, Invariant, PTL
=============================================================================
