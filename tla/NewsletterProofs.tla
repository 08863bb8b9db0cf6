-------------------------- MODULE NewsletterProofs --------------------------
(***************************************************************************)
(* MailInv is an inductive invariant of Newsletter; the type invariant and *)
(* OneMailPerQueueing follow, for any letters, addresses, bounds and       *)
(* screens.  On it rests ChainInv, which says where the next job of a      *)
(* letter is; ChainHolds, PauseEnds and PauseHolds follow.                 *)
(***************************************************************************)
EXTENDS NewsletterInvariant, TLAPS

\* A delivery is a letter and an address.
LEMMA DeliveryParts ==
  ASSUME NEW d \in Deliveries
  PROVE  d = <<d[1], d[2]>> /\ d[1] \in Letters /\ d[2] \in Addresses
BY DEF Deliveries

\* The address whose turn it is, is one.
LEMMA NextIsOne ==
  ASSUME TypeOK, NEW a, NEW b, IsNext(a), IsNext(b)
  PROVE  a = b /\ a \in Addresses
<1>1. todo \subseteq Nat
  BY AddressesAssumption DEF TypeOK
<1>2. a \in Nat /\ b \in Nat /\ a <= b /\ b <= a
  BY <1>1 DEF IsNext
<1> QED  BY <1>2 DEF IsNext, TypeOK

\* No job is NoJob.
LEMMA JobIsJob == NoJob \notin Job
BY DEF NoJob, Job

\* The job that runs has a letter.
LEMMA RunIsOfLetter ==
  ASSUME TypeOK, RunHasJob, run # "idle"
  PROVE  tick \in Jobs /\ job[tick] \in Job /\ Subject \in Letters
<1>1. tick \in Jobs /\ job[tick] # NoJob
  BY DEF TypeOK, QueueTypeOK, RunHasJob
<1>2. job[tick] \in Job
  BY <1>1 DEF TypeOK, QueueTypeOK
<1> QED  BY <1>1, <1>2 DEF RunHasJob, Subject

\* A new job takes an unused number and has all its attempts; the other jobs
\* stay.
LEMMA EnqueueKeeps ==
  ASSUME TypeOK, RunHasJob, NEW n \in Letters, NEW waits \in BOOLEAN,
         Enqueue(n, waits), tick' = tick, run' # "idle" <=> tick # 0
  PROVE  QueueTypeOK' /\ RunHasJob' /\ (tick # 0 => job'[tick] = job[tick])
<1>1. PICK j \in Unused : job' = [job EXCEPT ![j] = NewJob(n, waits)]
  BY DEF Enqueue
<1>2. j \in Jobs /\ job[j] = NoJob
  BY <1>1 DEF Unused
<1>3. NewJob(n, waits) \in Job
  BY LettersAssumption, MaxAttemptsAssumption DEF NewJob, Job
<1>4. QueueTypeOK'
  BY <1>1, <1>2, <1>3 DEF TypeOK, QueueTypeOK
<1>5. tick # 0 => tick # j /\ tick \in Jobs
  BY <1>2 DEF RunHasJob, TypeOK, QueueTypeOK
<1>6. job'[j] = NewJob(n, waits) /\ \A k \in Jobs \ {j} : job'[k] = job[k]
  BY <1>1, <1>2 DEF TypeOK, QueueTypeOK
<1>7. NewJob(n, waits).subject = n /\ NewJob(n, waits).attempts < MaxAttempts
  BY MaxAttemptsAssumption DEF NewJob
<1>8. \A k \in Jobs : job'[k] # NoJob => job'[k].subject \in Letters
  BY <1>6, <1>7 DEF RunHasJob
<1>9. \A k \in Jobs : job'[k].status = "PENDING" => job'[k].attempts < MaxAttempts
  BY <1>6, <1>7 DEF RunHasJob
<1>10. tick # 0 => job'[tick] = job[tick]
  BY <1>5, <1>6
<1> QED  BY <1>4, <1>8, <1>9, <1>10 DEF RunHasJob

-----------------------------------------------------------------------------
\* The part of MailInv about the mails, apart from the types and the queue.
Mails ==
  /\ BatchIsStarted
  /\ DraftIsUnsent
  /\ QueuedIsUnsent
  /\ BatchIsUnsent
  /\ OneMailPerQueueing

\* What is not about mails leaves Mails alone: the same run, or one that is not
\* about to write an outcome either.
LEMMA MailsStay ==
  ASSUME Mails, UNCHANGED <<letter, delivery, left, doubtful>>,
         run # "sent", run' # "sent",
         run' \in {"idle", "start", "close", "again", "finish"} => todo' = {},
         todo' # {} => todo' \subseteq todo /\ Subject' = Subject
  PROVE  Mails'
<1> USE DEF Mails, Unwritten
<1>1. BatchIsStarted'
  BY DEF BatchIsStarted
<1>2. DraftIsUnsent' /\ OneMailPerQueueing'
  BY DEF DraftIsUnsent, OneMailPerQueueing
<1>3. QueuedIsUnsent'
  BY DEF QueuedIsUnsent
<1>4. BatchIsUnsent'
  BY DEF BatchIsUnsent
<1> QED  BY <1>1, <1>2, <1>3, <1>4

\* The same job goes on.
LEMMA QueueStays ==
  ASSUME TypeOK, RunHasJob, UNCHANGED queue, run' = "idle" <=> run = "idle"
  PROVE  QueueTypeOK' /\ RunHasJob'
BY DEF TypeOK, QueueTypeOK, RunHasJob, queue

LEMMA MailInvParts == MailInv <=> TypeOK /\ RunHasJob /\ Mails
BY DEF MailInv, Mails

-----------------------------------------------------------------------------
\* Init.
LEMMA InitMailInv == Init => MailInv
<1> SUFFICES ASSUME Init PROVE MailInv
  OBVIOUS
<1>1. TypeOK
  BY DEF Init, QueueInit, TypeOK, QueueTypeOK, LetterStatus, DeliveryStatus, Runs, Request, NoRequest
<1>2. RunHasJob
  BY DEF Init, QueueInit, RunHasJob, NoJob
<1>3. Mails
  BY DeliveryParts
  DEF Init, Mails, BatchIsStarted, DraftIsUnsent, QueuedIsUnsent, BatchIsUnsent, OneMailPerQueueing
<1> QED  BY <1>1, <1>2, <1>3 DEF MailInv, Mails

-----------------------------------------------------------------------------
\* The steps of a job that only choose the next one.
LEMMA ContinueKeeps ==
  ASSUME MailInv, NEW there \in Runs \ {"idle", "sent"}, Continue(there), run \notin {"idle", "sent"},
         there \in {"start", "close", "again", "finish"} => todo = {}
  PROVE  MailInv'
<1>1. TypeOK /\ RunHasJob /\ Mails
  BY MailInvParts
<1>2. QueueTypeOK' /\ RunHasJob'
  BY <1>1, QueueStays DEF Continue
<1>3. TypeOK'
  BY <1>1, <1>2 DEF TypeOK, Continue
<1>4. Mails'
  <2>1. Subject' = Subject
    BY DEF Continue, queue, Subject
  <2> QED  BY <1>1, <2>1, MailsStay DEF Continue
<1> QED  BY <1>2, <1>3, <1>4 DEF MailInv, Mails

LEMMA StartJobKeeps ==
  ASSUME MailInv, NEW j \in Jobs, StartJob(j)
  PROVE  MailInv'
<1>1. TypeOK /\ RunHasJob /\ Mails
  BY MailInvParts
<1> USE DEF StartJob, PickJob
<1>2. job[j] \in Job /\ job[j] # NoJob /\ job[j].attempts < MaxAttempts
  BY <1>1 DEF TypeOK, QueueTypeOK, NoJob, RunHasJob
<1>3. job[j].attempts + 1 \in 0..MaxAttempts /\ job[j].subject \in Letters
  BY <1>1, <1>2, MaxAttemptsAssumption DEF Job, RunHasJob
<1>4. /\ job'[j] = [status |-> "RUNNING", attempts |-> job[j].attempts + 1,
                    waits |-> job[j].waits, subject |-> job[j].subject]
      /\ \A k \in Jobs \ {j} : job'[k] = job[k]
  BY <1>1, <1>2 DEF TypeOK, QueueTypeOK, Job
<1>5. /\ job'[j] \in Job /\ job'[j].status = "RUNNING"
      /\ job'[j].subject = job[j].subject
  BY <1>2, <1>3, <1>4 DEF Job
<1>6. job' \in [Jobs -> Job \cup {NoJob}]
  BY <1>1, <1>4, <1>5 DEF TypeOK, QueueTypeOK
<1>7. j # 0
  BY MaxJobsAssumption DEF Jobs
<1>8. TypeOK'
  BY <1>1, <1>6 DEF TypeOK, QueueTypeOK, Runs
<1>9. RunHasJob'
  BY <1>1, <1>3, <1>4, <1>5, <1>7, JobIsJob DEF RunHasJob
<1>10. Mails'
  BY <1>1, MailsStay DEF Mails, BatchIsStarted
<1> QED  BY <1>8, <1>9, <1>10 DEF MailInv, Mails

\* A pause and the plan of the next batch commit a new job.
LEMMA PauseKeeps ==
  ASSUME MailInv, Pause, run \notin {"idle", "sent"}
  PROVE  MailInv'
<1>1. TypeOK /\ RunHasJob /\ Mails
  BY MailInvParts
<1>2. Subject \in Letters /\ tick # 0
  BY <1>1, RunIsOfLetter DEF RunHasJob
<1>3. QueueTypeOK' /\ RunHasJob'
  BY <1>1, <1>2, EnqueueKeeps DEF Pause, GoesOnTomorrow
<1>4. TypeOK'
  BY <1>1, <1>2, <1>3 DEF TypeOK, Pause, Runs
<1>5. Mails'
  BY <1>1, MailsStay DEF Pause
<1> QED  BY <1>3, <1>4, <1>5 DEF MailInv, Mails

LEMMA PlanNextBatchKeeps ==
  ASSUME MailInv, PlanNextBatch
  PROVE  MailInv'
<1>1. TypeOK /\ RunHasJob /\ Mails
  BY MailInvParts
<1>2. Subject \in Letters /\ tick # 0
  BY <1>1, RunIsOfLetter DEF RunHasJob, PlanNextBatch
<1>3. QueueTypeOK' /\ RunHasJob' /\ job'[tick] = job[tick]
  BY <1>1, <1>2, EnqueueKeeps DEF PlanNextBatch
<1>4. TypeOK'
  BY <1>1, <1>3 DEF TypeOK, PlanNextBatch, Runs
<1>5. Mails'
  BY <1>1, <1>3, MailsStay DEF PlanNextBatch, Mails, BatchIsStarted
<1> QED  BY <1>3, <1>4, <1>5 DEF MailInv, Mails

LEMMA TakeBatchKeeps ==
  ASSUME MailInv, TakeBatch
  PROVE  MailInv'
<1>1. TypeOK /\ RunHasJob /\ Mails
  BY MailInvParts
<1>2. QueueTypeOK' /\ RunHasJob'
  BY <1>1, QueueStays DEF TakeBatch
<1>3. Batch(Subject) \subseteq Queued(Subject)
  BY DEF Batch
<1>4. TypeOK'
  BY <1>1, <1>2, <1>3 DEF TypeOK, TakeBatch, Runs, Queued
<1>5. Subject \in Letters /\ Subject' = Subject
  BY <1>1, RunIsOfLetter DEF TakeBatch, queue, Subject
<1>6. \A a \in todo' : <<Subject, a>> \in Deliveries /\ delivery[<<Subject, a>>] = "QUEUED"
  BY <1>3, <1>5 DEF TakeBatch, Queued, Deliveries
<1>7. BatchIsUnsent'
  BY <1>1, <1>5, <1>6 DEF TakeBatch, Mails, QueuedIsUnsent, BatchIsUnsent, Unwritten
<1>8. QueuedIsUnsent' /\ DraftIsUnsent' /\ OneMailPerQueueing'
  BY <1>1 DEF TakeBatch, Mails, QueuedIsUnsent, DraftIsUnsent, OneMailPerQueueing, Unwritten
<1>9. BatchIsStarted'
  BY <1>5 DEF TakeBatch, Ready, BatchIsStarted
<1> QED  BY <1>2, <1>4, <1>7, <1>8, <1>9 DEF MailInv, Mails

\* The outcome of a mail, or that there is none, is committed.
LEMMA RecordKeeps ==
  ASSUME MailInv, NEW a \in todo, IsNext(a), NEW status \in {"SENT", "FAILED", "SKIPPED"},
         Record(a, status), run \in {"next", "sent", "refused"}
  PROVE  MailInv'
<1>1. TypeOK /\ RunHasJob /\ Mails
  BY MailInvParts
<1>2. QueueTypeOK' /\ RunHasJob' /\ Subject' = Subject
  BY <1>1, QueueStays DEF Record, queue, Subject
<1>3. a \in Addresses /\ Subject \in Letters
  BY <1>1, RunIsOfLetter DEF TypeOK
<1> DEFINE d == <<Subject, a>>
<1>4. d \in Deliveries
  BY <1>3 DEF Deliveries
<1>5. TypeOK'
  BY <1>1, <1>2, <1>4 DEF TypeOK, Record, Runs, DeliveryStatus
<1>6. delivery'[d] # "QUEUED" /\ \A e \in Deliveries \ {d} : delivery'[e] = delivery[e]
  BY <1>1, <1>4 DEF TypeOK, Record
<1>7. \A e \in Deliveries : Unwritten(e) => e = d
  <2> SUFFICES ASSUME NEW e \in Deliveries, Unwritten(e) PROVE e = d
    OBVIOUS
  <2>1. e[2] = a
    BY <1>1, NextIsOne DEF Unwritten
  <2> QED  BY <2>1, DeliveryParts DEF Unwritten
<1>8. QueuedIsUnsent'
  BY <1>1, <1>6, <1>7 DEF Record, Mails, QueuedIsUnsent
<1>9. BatchIsUnsent'
  <2> SUFFICES ASSUME NEW b \in todo'
               PROVE  left[<<Subject, b>>] = 0 \/ <<Subject, b>> \in doubtful
    BY <1>2 DEF BatchIsUnsent, Record
  <2>1. b \in todo /\ b # a /\ b \in Addresses
    BY <1>1 DEF Record, TypeOK
  <2>2. ~IsNext(b)
    BY <1>1, <2>1, NextIsOne
  <2> QED  BY <1>1, <2>1, <2>2 DEF Mails, BatchIsUnsent, Unwritten
<1>10. DraftIsUnsent' /\ OneMailPerQueueing' /\ BatchIsStarted'
  BY <1>1, <1>2 DEF Record, Mails, DraftIsUnsent, OneMailPerQueueing, BatchIsStarted
<1> QED  BY <1>2, <1>5, <1>8, <1>9, <1>10 DEF MailInv

\* A mail leaves: none left before, or the code cannot know of it.
LEMMA LeavesOnce ==
  ASSUME MailInv, NEW a \in todo, IsNext(a), Leaves(a), run \in {"try", "retry"}
  PROVE  LET d == <<Subject, a>>
         IN /\ d \in Deliveries /\ letter[d[1]] # "DRAFT"
            /\ left[d] = 0 \/ d \in doubtful
            /\ left' \in [Deliveries -> 0..2]
            /\ \A e \in Deliveries \ {d} : left'[e] = left[e]
            /\ left[d] = 0 => left'[d] = 1
<1>1. TypeOK /\ RunHasJob /\ Mails
  BY MailInvParts
<1>2. a \in Addresses /\ Subject \in Letters
  BY <1>1, RunIsOfLetter DEF TypeOK
<1>3. <<Subject, a>> \in Deliveries
  BY <1>2 DEF Deliveries
<1>4. letter[Subject] # "DRAFT"
  BY <1>1 DEF Mails, BatchIsStarted
<1>5. left[<<Subject, a>>] = 0 \/ <<Subject, a>> \in doubtful
  BY <1>1 DEF Mails, BatchIsUnsent, Unwritten
<1>6. left \in [Deliveries -> 0..2]
  BY <1>1 DEF TypeOK
<1> QED  BY <1>3, <1>4, <1>5, <1>6 DEF Leaves

LEMMA AcceptedKeeps ==
  ASSUME MailInv, NEW a \in todo, Accepted(a)
  PROVE  MailInv'
<1>1. TypeOK /\ RunHasJob /\ Mails
  BY MailInvParts
<1>2. QueueTypeOK' /\ RunHasJob' /\ Subject' = Subject
  BY <1>1, QueueStays DEF Accepted, queue, Subject
<1> DEFINE d == <<Subject, a>>
<1>3. /\ d \in Deliveries /\ letter[d[1]] # "DRAFT"
      /\ left[d] = 0 \/ d \in doubtful
      /\ left' \in [Deliveries -> 0..2]
      /\ \A e \in Deliveries \ {d} : left'[e] = left[e]
      /\ left[d] = 0 => left'[d] = 1
  BY LeavesOnce DEF Accepted
<1>4. TypeOK'
  BY <1>1, <1>2, <1>3 DEF TypeOK, Accepted, Runs
<1>5. \A e \in Deliveries : e = d => Unwritten(e)'
  BY <1>2 DEF Accepted, Unwritten, IsNext
<1>6. QueuedIsUnsent'
  <2> SUFFICES ASSUME NEW e \in Deliveries \ {d}, delivery[e] = "QUEUED"
               PROVE  left'[e] = 0 \/ e \in doubtful
    BY <1>5 DEF QueuedIsUnsent, Accepted
  <2> QED  BY <1>1, <1>3 DEF Accepted, Mails, QueuedIsUnsent, Unwritten
<1>7. BatchIsUnsent'
  <2> SUFFICES ASSUME NEW b \in todo, b # a
               PROVE  left'[<<Subject, b>>] = 0 \/ <<Subject, b>> \in doubtful
    BY <1>2, <1>3, <1>5 DEF BatchIsUnsent, Accepted
  <2>1. <<Subject, b>> \in Deliveries \ {d}
    BY <1>1, <1>3 DEF TypeOK, Deliveries
  <2> QED  BY <1>1, <1>3, <2>1 DEF Mails, BatchIsUnsent, Unwritten, Accepted
<1>8. DraftIsUnsent' /\ OneMailPerQueueing' /\ BatchIsStarted'
  BY <1>1, <1>2, <1>3 DEF Accepted, Mails, DraftIsUnsent, OneMailPerQueueing, BatchIsStarted
<1> QED  BY <1>2, <1>4, <1>6, <1>7, <1>8 DEF MailInv

LEMMA AnswerLostKeeps ==
  ASSUME MailInv, NEW a \in todo, AnswerLost(a)
  PROVE  MailInv'
<1>1. TypeOK /\ RunHasJob /\ Mails
  BY MailInvParts
<1>2. run' \in {"retry", "refused"}
  BY DEF AnswerLost, AfterFault
<1>3. QueueTypeOK' /\ RunHasJob' /\ Subject' = Subject
  BY <1>1, <1>2, QueueStays DEF AnswerLost, queue, Subject
<1> DEFINE d == <<Subject, a>>
<1>4. /\ d \in Deliveries /\ letter[d[1]] # "DRAFT"
      /\ left' \in [Deliveries -> 0..2]
      /\ \A e \in Deliveries \ {d} : left'[e] = left[e]
  BY LeavesOnce DEF AnswerLost
<1>5. doubtful' = doubtful \cup {d}
  BY DEF AnswerLost
<1>6. TypeOK'
  BY <1>1, <1>2, <1>3, <1>4, <1>5 DEF TypeOK, AnswerLost, Runs
<1>7. QueuedIsUnsent'
  BY <1>1, <1>4, <1>5 DEF AnswerLost, Mails, QueuedIsUnsent, Unwritten
<1>8. BatchIsUnsent'
  <2> SUFFICES ASSUME NEW b \in todo, b # a
               PROVE  left'[<<Subject, b>>] = 0 \/ <<Subject, b>> \in doubtful
    BY <1>3, <1>5 DEF BatchIsUnsent, AnswerLost
  <2>1. <<Subject, b>> \in Deliveries \ {d}
    BY <1>1, <1>4 DEF TypeOK, Deliveries
  <2> QED  BY <1>1, <1>4, <2>1 DEF Mails, BatchIsUnsent, Unwritten, AnswerLost
<1>9. DraftIsUnsent' /\ OneMailPerQueueing' /\ BatchIsStarted'
  BY <1>1, <1>2, <1>3, <1>4, <1>5
  DEF AnswerLost, Mails, DraftIsUnsent, OneMailPerQueueing, BatchIsStarted
<1> QED  BY <1>3, <1>6, <1>7, <1>8, <1>9 DEF MailInv

-----------------------------------------------------------------------------
\* The ends of a job.
LEMMA CloseLetterKeeps ==
  ASSUME MailInv, CloseLetter
  PROVE  MailInv'
<1>1. TypeOK /\ RunHasJob /\ Mails
  BY MailInvParts
<1>2. QueueTypeOK' /\ RunHasJob' /\ todo = {}
  BY <1>1, QueueStays DEF CloseLetter, Mails, BatchIsStarted
<1>3. TypeOK'
  BY <1>1, <1>2 DEF TypeOK, CloseLetter, Runs, LetterStatus
<1>4. \A n \in Letters : letter'[n] = "DRAFT" => letter[n] = "DRAFT"
  BY <1>1 DEF CloseLetter, TypeOK
<1>5. DraftIsUnsent'
  BY <1>1, <1>4, DeliveryParts DEF CloseLetter, Mails, DraftIsUnsent
<1>6. BatchIsStarted' /\ QueuedIsUnsent' /\ BatchIsUnsent' /\ OneMailPerQueueing'
  BY <1>1, <1>2
  DEF CloseLetter, Mails, BatchIsStarted, QueuedIsUnsent, BatchIsUnsent, OneMailPerQueueing, Unwritten
<1> QED  BY <1>2, <1>3, <1>5, <1>6 DEF MailInv

LEMMA FinishJobKeeps ==
  ASSUME MailInv, FinishJob
  PROVE  MailInv'
<1>1. TypeOK /\ RunHasJob /\ Mails
  BY MailInvParts
<1>2. tick \in Jobs /\ todo = {}
  BY <1>1, RunIsOfLetter DEF FinishJob, Mails, BatchIsStarted
<1>3. job'[tick] = NoJob /\ \A k \in Jobs \ {tick} : job'[k] = job[k]
  BY <1>1, <1>2 DEF FinishJob, JobDone, TypeOK, QueueTypeOK
<1>4. QueueTypeOK'
  BY <1>1, <1>2 DEF FinishJob, JobDone, TypeOK, QueueTypeOK
<1>5. RunHasJob'
  BY <1>1, <1>2, <1>3 DEF FinishJob, JobDone, RunHasJob, NoJob
<1>6. TypeOK'
  BY <1>1, <1>4 DEF FinishJob, TypeOK, Runs
<1>7. Mails'
  BY <1>1, <1>2, MailsStay DEF FinishJob
<1> QED  BY <1>5, <1>6, <1>7 DEF MailInv, Mails

LEMMA RaiseKeeps ==
  ASSUME MailInv, Raise
  PROVE  MailInv'
<1>1. TypeOK /\ RunHasJob /\ Mails
  BY MailInvParts
<1>2. tick \in Jobs /\ job[tick] \in Job /\ job[tick] # NoJob
  BY <1>1, RunIsOfLetter, JobIsJob DEF Raise
<1> DEFINE s == IF UsedUp(tick) THEN "FAILED" ELSE "PENDING"
           r == [job[tick] EXCEPT !.status = s]
<1>3. r \in Job /\ r.subject = job[tick].subject /\ r.status = s /\ r.attempts = job[tick].attempts
  BY <1>2 DEF Job
<1>4. s = "PENDING" => job[tick].attempts < MaxAttempts
  BY <1>2, MaxAttemptsAssumption DEF UsedUp, Job
<1>5. job' = [job EXCEPT ![tick] = r] /\ tick' = 0
  BY <1>1, <1>2 DEF Raise, JobRaised, TypeOK, QueueTypeOK
<1> HIDE DEF r, s
<1>6. job'[tick] = r /\ \A k \in Jobs \ {tick} : job'[k] = job[k]
  BY <1>1, <1>2, <1>5 DEF TypeOK, QueueTypeOK
<1>7. QueueTypeOK'
  BY <1>1, <1>2, <1>3, <1>5 DEF TypeOK, QueueTypeOK
<1>8. RunHasJob'
  BY <1>1, <1>2, <1>3, <1>4, <1>5, <1>6 DEF Raise, RunHasJob
<1>9. TypeOK'
  BY <1>1, <1>7 DEF Raise, TypeOK, Runs
<1>10. Mails'
  BY <1>1, MailsStay DEF Raise
<1> QED  BY <1>8, <1>9, <1>10 DEF MailInv, Mails

\* What was on its way in a crash is doubtful from then on.
LEMMA CrashKeeps ==
  ASSUME MailInv, Crash
  PROVE  MailInv'
<1>1. TypeOK /\ RunHasJob /\ Mails
  BY MailInvParts
<1>2. QueueTypeOK' /\ RunHasJob'
  BY <1>1 DEF Crash, TickLost, TypeOK, QueueTypeOK, RunHasJob
<1>3. Subject \in Letters
  BY <1>1, RunIsOfLetter DEF Crash
<1>4. doubtful \subseteq doubtful' /\ doubtful' \subseteq Deliveries
  BY <1>1, <1>3 DEF Crash, TypeOK, Deliveries
<1>5. TypeOK'
  BY <1>1, <1>2, <1>4 DEF Crash, TypeOK, Runs
<1>6. \A d \in Deliveries : Unwritten(d) /\ d[2] \in todo => d \in doubtful'
  <2> SUFFICES ASSUME NEW d \in Deliveries, Unwritten(d), d[2] \in todo
               PROVE  d \in doubtful'
    OBVIOUS
  <2>1. d = <<Subject, d[2]>> /\ IsNext(d[2]) /\ run = "sent"
    BY DeliveryParts DEF Unwritten
  <2> QED  BY <2>1 DEF Crash
<1>7. \A d \in Deliveries : Unwritten(d) => d[2] \in todo
  BY DEF Unwritten, IsNext
<1>8. QueuedIsUnsent'
  BY <1>1, <1>4, <1>6, <1>7 DEF Crash, Mails, QueuedIsUnsent
<1>9. BatchIsUnsent' /\ BatchIsStarted'
  BY DEF Crash, BatchIsUnsent, BatchIsStarted
<1>10. DraftIsUnsent' /\ OneMailPerQueueing'
  BY <1>1, <1>4 DEF Crash, Mails, DraftIsUnsent, OneMailPerQueueing
<1> QED  BY <1>2, <1>5, <1>8, <1>9, <1>10 DEF MailInv

-----------------------------------------------------------------------------
\* The screens, and the clock.

\* What changes nothing that Mails speaks of.
LEMMA MailsSame ==
  ASSUME Mails, UNCHANGED <<letter, delivery, left, doubtful, run, todo>>, Subject' = Subject
  PROVE  Mails'
BY DEF Mails, BatchIsStarted, DraftIsUnsent, QueuedIsUnsent, BatchIsUnsent,
       OneMailPerQueueing, Unwritten, IsNext

LEMMA ReadKeeps ==
  ASSUME MailInv, NEW a \in Screens, NEW request \in Request, Read(a, request)
  PROVE  MailInv'
<1>1. TypeOK /\ RunHasJob /\ Mails
  BY MailInvParts
<1>2. QueueTypeOK' /\ RunHasJob' /\ Subject' = Subject
  BY <1>1, QueueStays DEF Read, queue, Subject
<1>3. TypeOK'
  BY <1>1, <1>2 DEF Read, TypeOK
<1>4. Mails'
  BY <1>1, <1>2, MailsSame DEF Read
<1> QED  BY <1>2, <1>3, <1>4 DEF MailInv, Mails

LEMMA AbandonKeeps ==
  ASSUME MailInv, NEW a \in Screens, Abandon(a)
  PROVE  MailInv'
<1>1. TypeOK /\ RunHasJob /\ Mails
  BY MailInvParts
<1>2. QueueTypeOK' /\ RunHasJob' /\ Subject' = Subject
  BY <1>1, QueueStays DEF Abandon, queue, Subject
<1>3. NoRequest \in Request
  BY DEF NoRequest, Request
<1>4. TypeOK'
  BY <1>1, <1>2, <1>3 DEF Abandon, TypeOK
<1>5. Mails'
  BY <1>1, <1>2, MailsSame DEF Abandon
<1> QED  BY <1>2, <1>4, <1>5 DEF MailInv, Mails

LEMMA UnsubscribeKeeps ==
  ASSUME MailInv, NEW a \in Addresses, Unsubscribe(a)
  PROVE  MailInv'
<1>1. TypeOK /\ RunHasJob /\ Mails
  BY MailInvParts
<1>2. QueueTypeOK' /\ RunHasJob' /\ Subject' = Subject
  BY <1>1, QueueStays DEF Unsubscribe, queue, Subject
<1>3. TypeOK'
  BY <1>1, <1>2 DEF Unsubscribe, TypeOK
<1>4. Mails'
  BY <1>1, <1>2, MailsSame DEF Unsubscribe
<1> QED  BY <1>2, <1>3, <1>4 DEF MailInv, Mails

LEMMA DayPassesKeeps ==
  ASSUME MailInv, DayPasses
  PROVE  MailInv'
<1>1. TypeOK /\ RunHasJob /\ Mails
  BY MailInvParts
<1>2. tick' = tick /\ run = "idle" /\ run' = "idle" /\ todo = {} /\ todo' = {} /\ tick = 0
  BY <1>1 DEF DayPasses, JobsFallDue, Mails, BatchIsStarted, RunHasJob
<1>3. \A j \in Jobs : job'[j] = [job[j] EXCEPT !.waits = FALSE]
  BY DEF DayPasses, JobsFallDue
<1>4. \A j \in Jobs : job[j] = NoJob => job'[j] = NoJob
  BY <1>3 DEF NoJob
<1>5. \A j \in Jobs : job[j] \in Job =>
        /\ job'[j] \in Job /\ job'[j].status = job[j].status
        /\ job'[j].attempts = job[j].attempts /\ job'[j].subject = job[j].subject
  BY <1>3 DEF Job
<1>6. \A j \in Jobs : job[j] = NoJob \/ job[j] \in Job
  BY <1>1 DEF TypeOK, QueueTypeOK
<1>7. QueueTypeOK'
  <2>1. job' = [j \in Jobs |-> [job[j] EXCEPT !.waits = FALSE]]
    BY DEF DayPasses, JobsFallDue
  <2>2. \A j \in Jobs : job'[j] \in Job \cup {NoJob}
    BY <1>4, <1>5, <1>6
  <2> QED  BY <1>1, <1>2, <2>1, <2>2 DEF TypeOK, QueueTypeOK
<1>8. RunHasJob'
  <2>1. \A j \in Jobs : job'[j] # NoJob => job'[j].subject \in Letters
    BY <1>1, <1>4, <1>5, <1>6 DEF RunHasJob
  <2>2. \A j \in Jobs : job'[j].status = "PENDING" => job'[j].attempts < MaxAttempts
    BY <1>1, <1>4, <1>5, <1>6 DEF RunHasJob, NoJob
  <2> QED  BY <1>2, <2>1, <2>2 DEF RunHasJob
<1>9. TypeOK'
  BY <1>1, <1>7 DEF DayPasses, TypeOK
<1>10. Mails'
  BY <1>1, <1>2, MailsStay DEF DayPasses
<1> QED  BY <1>8, <1>9, <1>10 DEF MailInv, Mails

\* A write that queues only what has not left, under a run that does not see it.
LEMMA QueueingKeeps ==
  ASSUME TypeOK, RunHasJob, Mails, NEW rows \in SUBSET Deliveries,
         UNCHANGED <<tick, run, todo>>,
         tick # 0 => job'[tick] = job[tick],
         \A n \in Letters : letter'[n] = "DRAFT" => letter[n] = "DRAFT",
         tick # 0 => letter[Subject] = "DRAFT" \/ letter'[Subject] # "DRAFT",
         \A d \in Deliveries \ rows :
           /\ delivery'[d] = delivery[d] \/ delivery'[d] # "QUEUED"
           /\ left'[d] = left[d]
           /\ d \in doubtful' <=> d \in doubtful,
         \A d \in rows : left'[d] = 0
  PROVE  Mails'
<1>1. tick # 0 => Subject' = Subject
  BY DEF Subject
<1>2. tick = 0 => todo = {} /\ run = "idle"
  BY DEF RunHasJob, Mails, BatchIsStarted
<1>3. BatchIsStarted'
  BY <1>1, <1>2 DEF Mails, BatchIsStarted
<1>4. DraftIsUnsent'
  BY DeliveryParts DEF Mails, DraftIsUnsent
<1>5. \A d : Unwritten(d)' <=> Unwritten(d)
  BY <1>1, <1>2 DEF Unwritten, IsNext
<1>6. QueuedIsUnsent'
  <2> SUFFICES ASSUME NEW d \in Deliveries \ rows, delivery'[d] = "QUEUED"
               PROVE  left'[d] = 0 \/ d \in doubtful' \/ Unwritten(d)'
    BY DEF QueuedIsUnsent
  <2> QED  BY <1>5 DEF Mails, QueuedIsUnsent
<1>7. BatchIsUnsent'
  <2> SUFFICES ASSUME NEW a \in todo, <<Subject, a>> \notin rows
               PROVE  left'[<<Subject, a>>] = 0 \/ <<Subject, a>> \in doubtful'
                      \/ Unwritten(<<Subject, a>>)'
    BY <1>1, <1>2 DEF BatchIsUnsent
  <2>1. run # "idle"
    BY <1>2 DEF RunHasJob
  <2>2. Subject \in Letters
    BY <2>1, RunIsOfLetter
  <2>3. <<Subject, a>> \in Deliveries \ rows
    BY <2>2 DEF TypeOK, Deliveries
  <2>4. left[<<Subject, a>>] = 0 \/ <<Subject, a>> \in doubtful \/ Unwritten(<<Subject, a>>)
    BY DEF Mails, BatchIsUnsent
  <2>5. /\ left'[<<Subject, a>>] = left[<<Subject, a>>]
        /\ <<Subject, a>> \in doubtful' <=> <<Subject, a>> \in doubtful
    BY <2>3
  <2>6. Unwritten(<<Subject, a>>)' <=> Unwritten(<<Subject, a>>)
    BY <1>1, <1>2 DEF Unwritten, IsNext
  <2> QED  BY <2>4, <2>5, <2>6
<1>8. OneMailPerQueueing'
  BY DEF Mails, OneMailPerQueueing
<1> QED  BY <1>3, <1>4, <1>6, <1>7, <1>8 DEF Mails

LEMMA MarkKeeps ==
  ASSUME MailInv, NEW a \in Screens, Mark(a)
  PROVE  MailInv'
<1>1. TypeOK /\ RunHasJob /\ Mails
  BY MailInvParts
<1>2. QueueTypeOK' /\ RunHasJob'
  BY <1>1, QueueStays DEF Mark, queue
<1> DEFINE status == IF screen[a].kind = "bounce" THEN "BOUNCED" ELSE "SENT"
<1>3. /\ delivery' = [d \in Deliveries |-> IF d \in screen[a].rows THEN status ELSE delivery[d]]
      /\ screen' = [screen EXCEPT ![a] = NoRequest]
  BY DEF Mark, Write
<1>4. TypeOK'
  <2>1. delivery' \in [Deliveries -> DeliveryStatus]
    BY <1>1, <1>3 DEF TypeOK, DeliveryStatus
  <2>2. screen' \in [Screens -> Request]
    BY <1>1, <1>3 DEF TypeOK, Request
  <2> QED  BY <1>1, <1>2, <2>1, <2>2 DEF TypeOK, Mark
<1>5. \A d \in Deliveries : delivery'[d] = delivery[d] \/ delivery'[d] # "QUEUED"
  BY <1>3
<1>6. UNCHANGED <<tick, job, run, todo, letter, left, doubtful>>
  BY DEF Mark, queue
<1>7. Mails'
  <2> DEFINE rows == {}
  <2>1. rows \in SUBSET Deliveries /\ \A d \in rows : left'[d] = 0
    OBVIOUS
  <2> HIDE DEF rows
  <2>2. \A d \in Deliveries \ rows :
          /\ delivery'[d] = delivery[d] \/ delivery'[d] # "QUEUED"
          /\ left'[d] = left[d]
          /\ d \in doubtful' <=> d \in doubtful
    BY <1>5, <1>6
  <2>3. tick # 0 => letter[Subject] = "DRAFT" \/ letter'[Subject] # "DRAFT"
    BY <1>6
  <2> QED  BY <1>1, <1>6, <2>1, <2>2, <2>3, QueueingKeeps
<1> QED  BY <1>2, <1>4, <1>7 DEF MailInv, Mails

LEMMA ResendKeeps ==
  ASSUME MailInv, NEW a \in Screens, Resend(a)
  PROVE  MailInv'
<1>1. TypeOK /\ RunHasJob /\ Mails
  BY MailInvParts
<1>2. screen[a] \in Request /\ screen[a] # NoRequest
  BY <1>1 DEF TypeOK, Resend, NoRequest
<1>3. screen[a].letter \in Letters /\ screen[a].rows \in SUBSET Deliveries
  BY <1>2 DEF Request
<1> DEFINE rows == screen[a].rows
<1>4. QueueTypeOK' /\ RunHasJob' /\ tick' = tick /\ run' = run /\ (tick # 0 => job'[tick] = job[tick])
  <2>1. tick' = tick /\ run' = run
    BY DEF Resend
  <2>2. CASE NeedsJob(a)
    <3>1. Enqueue(screen[a].letter, FALSE)
      BY <2>2 DEF Resend
    <3>2. run' # "idle" <=> tick # 0
      BY <1>1, <2>1 DEF RunHasJob
    <3> QED  BY <1>1, <1>3, <2>1, <3>1, <3>2, EnqueueKeeps
  <2>3. CASE ~NeedsJob(a)
    <3>1. UNCHANGED queue
      BY <2>1, <2>3 DEF Resend, queue
    <3>2. QueueTypeOK' /\ RunHasJob'
      BY <1>1, <2>1, <3>1, QueueStays
    <3> QED  BY <2>1, <3>1, <3>2 DEF queue
  <2> QED  BY <2>2, <2>3
<1>5. /\ delivery' = [d \in Deliveries |-> IF d \in rows THEN "QUEUED" ELSE delivery[d]]
      /\ screen' = [screen EXCEPT ![a] = NoRequest]
      /\ left' = [d \in Deliveries |-> IF d \in rows THEN 0 ELSE left[d]]
      /\ doubtful' = doubtful \ rows
      /\ letter' = [n \in Letters |-> IF n = screen[a].letter /\ ~screen[a].sending
                                      THEN "SENDING" ELSE letter[n]]
      /\ counts' = [counts EXCEPT !.resends = @ + 1]
      /\ UNCHANGED <<paused, recent, unsubscribed, todo>>
  BY DEF Resend, Write
<1>6. TypeOK'
  <2>1. delivery' \in [Deliveries -> DeliveryStatus] /\ left' \in [Deliveries -> 0..2]
    BY <1>1, <1>5 DEF TypeOK, DeliveryStatus
  <2>2. screen' \in [Screens -> Request]
    BY <1>1, <1>5 DEF TypeOK, Request
  <2>3. letter' \in [Letters -> LetterStatus] /\ doubtful' \subseteq Deliveries
    BY <1>1, <1>5 DEF TypeOK, LetterStatus
  <2>4. counts' \in [crashes : Nat, raises : Nat, resends : Nat]
    BY <1>1, <1>5 DEF TypeOK
  <2> QED  BY <1>1, <1>4, <1>5, <2>1, <2>2, <2>3, <2>4 DEF TypeOK
<1>7. Mails'
  <2>1. \A n \in Letters : letter'[n] = letter[n] \/ letter'[n] = "SENDING"
    BY <1>5
  <2>2. tick # 0 => Subject \in Letters
    BY <1>1, RunIsOfLetter DEF RunHasJob
  <2>3. tick # 0 => letter[Subject] = "DRAFT" \/ letter'[Subject] # "DRAFT"
    BY <2>1, <2>2
  <2>4. /\ \A d \in Deliveries \ rows :
              /\ delivery'[d] = delivery[d] \/ delivery'[d] # "QUEUED"
              /\ left'[d] = left[d]
              /\ d \in doubtful' <=> d \in doubtful
        /\ \A d \in rows : left'[d] = 0
    BY <1>3, <1>5
  <2>5. rows \in SUBSET Deliveries /\ UNCHANGED <<tick, run, todo>>
    BY <1>3, <1>4, <1>5
  <2>6. \A n \in Letters : letter'[n] = "DRAFT" => letter[n] = "DRAFT"
    BY <2>1
  <2> HIDE DEF rows
  <2> QED  BY <1>1, <1>4, <2>3, <2>4, <2>5, <2>6, QueueingKeeps
<1> QED  BY <1>4, <1>6, <1>7 DEF MailInv, Mails

LEMMA StartSendingKeeps ==
  ASSUME MailInv, NEW n \in Letters, StartSending(n)
  PROVE  MailInv'
<1>1. TypeOK /\ RunHasJob /\ Mails
  BY MailInvParts
<1> DEFINE recipients == { a \in Addresses : MayHave(a) }
           rows == { d \in Deliveries : d[1] = n /\ d[2] \in recipients }
<1>2. UNCHANGED <<tick, run, todo, left, doubtful, paused, recent, unsubscribed, screen, counts>>
  BY DEF StartSending
<1>3. QueueTypeOK' /\ RunHasJob' /\ (tick # 0 => job'[tick] = job[tick])
  <2>1. Enqueue(n, FALSE)
    BY DEF StartSending
  <2>2. run' # "idle" <=> tick # 0
    BY <1>1, <1>2 DEF RunHasJob
  <2> QED  BY <1>1, <1>2, <2>1, <2>2, EnqueueKeeps
<1>4. /\ letter[n] = "DRAFT"
      /\ letter' = [letter EXCEPT ![n] = "SENDING"]
      /\ delivery' = [d \in Deliveries |->
                        IF d[1] = n /\ d[2] \in recipients THEN "QUEUED" ELSE delivery[d]]
  BY DEF StartSending
<1>5. TypeOK'
  <2>1. letter' \in [Letters -> LetterStatus]
    BY <1>1, <1>4 DEF TypeOK, LetterStatus
  <2>2. delivery' \in [Deliveries -> DeliveryStatus]
    BY <1>1, <1>4 DEF TypeOK, DeliveryStatus
  <2> QED  BY <1>1, <1>2, <1>3, <2>1, <2>2 DEF TypeOK
<1>6. Mails'
  <2>1. \A m \in Letters : letter'[m] = letter[m] \/ letter'[m] = "SENDING"
    BY <1>1, <1>4 DEF TypeOK
  <2>2. tick # 0 => Subject \in Letters
    BY <1>1, RunIsOfLetter DEF RunHasJob
  <2>3. tick # 0 => letter[Subject] = "DRAFT" \/ letter'[Subject] # "DRAFT"
    BY <2>1, <2>2
  <2>4. \A m \in Letters : letter'[m] = "DRAFT" => letter[m] = "DRAFT"
    BY <2>1
  <2>5. rows \in SUBSET Deliveries
    OBVIOUS
  <2>6. \A d \in Deliveries \ rows : delivery'[d] = delivery[d]
    BY <1>4
  <2>7. \A d \in rows : left'[d] = 0
    BY <1>1, <1>2, <1>4 DEF Mails, DraftIsUnsent
  <2> HIDE DEF rows
  <2>8. \A d \in Deliveries \ rows :
          /\ delivery'[d] = delivery[d] \/ delivery'[d] # "QUEUED"
          /\ left'[d] = left[d]
          /\ d \in doubtful' <=> d \in doubtful
    BY <1>2, <2>6
  <2>9. UNCHANGED <<tick, run, todo>>
    BY <1>2
  <2> QED  BY <1>1, <1>3, <2>3, <2>4, <2>5, <2>7, <2>8, <2>9, QueueingKeeps
<1> QED  BY <1>3, <1>5, <1>6 DEF MailInv, Mails

-----------------------------------------------------------------------------
\* Each step of the job keeps MailInv.
LEMMA SendBatchKeeps ==
  ASSUME MailInv, SendBatch
  PROVE  MailInv'
<1>1. TypeOK /\ RunHasJob /\ Mails
  BY MailInvParts
<1>2. ASSUME NEW j \in Jobs, StartJob(j) PROVE MailInv'
  BY <1>2, StartJobKeeps
<1>3. CASE Nothing
  <2>1. todo = {}
    BY <1>1, <1>3 DEF Nothing, Mails, BatchIsStarted
  <2> QED  BY <1>3, <2>1, ContinueKeeps DEF Nothing, Runs
<1>4. CASE DayIsFull
  BY <1>4, PauseKeeps DEF DayIsFull
<1>5. CASE TakeBatch
  BY <1>5, TakeBatchKeeps
<1>6. ASSUME NEW a \in todo, Skip(a) PROVE MailInv'
  <2>1. IsNext(a) /\ Record(a, "SKIPPED") /\ run = "next"
    BY <1>6 DEF Skip
  <2> QED  BY <2>1, RecordKeeps
<1>7. ASSUME NEW a \in todo, Render(a) PROVE MailInv'
  BY <1>7, ContinueKeeps DEF Render, Runs
<1>8. ASSUME NEW a \in todo, SendMail(a) PROVE MailInv'
  <2>1. CASE Accepted(a)
    BY <2>1, AcceptedKeeps
  <2>2. CASE TemporaryFault(a)
    <3>1. AfterFault \in {"retry", "refused"}
      BY DEF AfterFault
    <3>2. AfterFault \in Runs \ {"idle", "sent"} /\ AfterFault \notin {"start", "close", "again", "finish"}
      BY <3>1 DEF Runs
    <3>3. Continue(AfterFault) /\ run \notin {"idle", "sent"}
      BY <2>2 DEF TemporaryFault
    <3> QED  BY <3>2, <3>3, ContinueKeeps
  <2>3. CASE AnswerLost(a)
    BY <2>3, AnswerLostKeeps
  <2>4. CASE PermanentFault(a)
    BY <2>4, ContinueKeeps DEF PermanentFault, Runs
  <2>5. CASE QuotaReached(a)
    BY <2>5, PauseKeeps DEF QuotaReached
  <2> QED  BY <1>8, <2>1, <2>2, <2>3, <2>4, <2>5 DEF SendMail
<1>9. ASSUME NEW a \in todo, RecordSent(a) PROVE MailInv'
  <2>1. IsNext(a) /\ Record(a, "SENT") /\ run = "sent"
    BY <1>9 DEF RecordSent
  <2> QED  BY <2>1, RecordKeeps
<1>10. ASSUME NEW a \in todo, RecordFailed(a) PROVE MailInv'
  <2>1. IsNext(a) /\ Record(a, "FAILED") /\ run = "refused"
    BY <1>10 DEF RecordFailed
  <2> QED  BY <2>1, RecordKeeps
<1>11. CASE CountLeft
  <2> DEFINE there == IF AllLeft(Subject) THEN "close" ELSE "again"
  <2>1. there \in Runs \ {"idle", "sent"}
    BY DEF Runs
  <2>2. Continue(there) /\ todo = {} /\ run \notin {"idle", "sent"}
    BY <1>11 DEF CountLeft
  <2> HIDE DEF there
  <2> QED  BY <2>1, <2>2, ContinueKeeps
<1>12. CASE CloseLetter
  BY <1>12, CloseLetterKeeps
<1>13. CASE PlanNextBatch
  BY <1>13, PlanNextBatchKeeps
<1>14. CASE FinishJob
  BY <1>14, FinishJobKeeps
<1> QED
  BY <1>2, <1>3, <1>4, <1>5, <1>6, <1>7, <1>8, <1>9, <1>10, <1>11, <1>12, <1>13, <1>14
  DEF SendBatch

\* Each step of a screen keeps MailInv.
LEMMA WebKeeps ==
  ASSUME MailInv, NEW a \in Screens, Web(a)
  PROVE  MailInv'
<1>1. ASSUME NEW n \in Letters, ReadFailed(a, n) PROVE MailInv'
  <2> DEFINE request == [kind |-> "resend", letter |-> n,
                         rows |-> { d \in Deliveries : d[1] = n /\ delivery[d] \in {"FAILED", "BOUNCED"} },
                         sending |-> letter[n] = "SENDING"]
  <2>1. Read(a, request)
    BY <1>1 DEF ReadFailed
  <2>2. request \in Request
    BY DEF Request
  <2> HIDE DEF request
  <2> QED  BY <2>1, <2>2, ReadKeeps
<1>2. ASSUME NEW d \in Deliveries, NEW kind \in {"bounce", "unbounce"}, NEW status,
             ReadForMark(a, d, kind, status)
      PROVE  MailInv'
  <2> DEFINE request == [kind |-> kind, letter |-> d[1], rows |-> {d}, sending |-> FALSE]
  <2>1. Read(a, request)
    BY <1>2 DEF ReadForMark
  <2>2. request \in Request
    BY DeliveryParts DEF Request
  <2> HIDE DEF request
  <2> QED  BY <2>1, <2>2, ReadKeeps
<1> QED  BY <1>1, <1>2, ResendKeeps, MarkKeeps, AbandonKeeps DEF Web

LEMMA NextMailInv == MailInv /\ [Next]_vars => MailInv'
<1> SUFFICES ASSUME MailInv, [Next]_vars PROVE MailInv'
  OBVIOUS
<1>1. CASE UNCHANGED vars
  <2>1. TypeOK /\ RunHasJob /\ Mails
    BY MailInvParts
  <2>2. QueueTypeOK' /\ RunHasJob'
    BY <1>1, <2>1, QueueStays DEF vars
  <2>3. TypeOK'
    BY <1>1, <2>1, <2>2 DEF TypeOK, vars
  <2>4. Mails'
    BY <1>1, <2>1, MailsSame DEF vars, queue, Subject
  <2> QED  BY <2>2, <2>3, <2>4 DEF MailInv, Mails
<1>2. CASE Next
  BY <1>2, SendBatchKeeps, RaiseKeeps, CrashKeeps, DayPassesKeeps, StartSendingKeeps,
     WebKeeps, UnsubscribeKeeps DEF Next
<1> QED  BY <1>1, <1>2

-----------------------------------------------------------------------------
\* The invariant of the sending holds in every state that can be reached.
THEOREM MailInvariant == Spec => []MailInv
BY InitMailInv, NextMailInv, PTL DEF Spec

\* Every variable of the queue and of the newsletter has its type; a job is never
\* tried more often than max_attempts (kernel/jobs.py).
THEOREM MailTypeCorrect == Spec => []TypeOK
<1>1. MailInv => TypeOK
  BY DEF MailInv
<1> QED  BY <1>1, MailInvariant, PTL

\* Nobody gets the letter twice (newsletter/service.py, send_batch): between two
\* queueings of a delivery one mail leaves, unless a crash or a lost answer hid
\* the first, for any letters, addresses, screens and numbers of crashes.
THEOREM NobodyGetsItTwice == Spec => []OneMailPerQueueing
<1>1. MailInv => OneMailPerQueueing
  BY DEF MailInv
<1> QED  BY <1>1, MailInvariant, PTL
-----------------------------------------------------------------------------
\* The chain of jobs.

\* The queue and the letters stay, and the job is not about to be done unless it was, or
\* has nothing to do.
LEMMA ChainStays ==
  ASSUME ChainInv, UNCHANGED <<queue, letter, paused>>,
         run' \notin {"idle", "start", "finish"} =>
           run \notin {"idle", "start", "finish"} \/ Subject \notin paused,
         run' = "finish" => run = "finish" \/ letter[Subject] # "SENDING" \/ Subject \in paused
  PROVE  ChainInv'
<1>1. UNCHANGED <<job, tick, letter, paused>> /\ Subject' = Subject
  BY DEF queue, Subject
<1>2. RunIsCommitted' /\ PauseHasJob' /\ BatchIsUnpaused'
  BY <1>1 DEF ChainInv, RunIsCommitted, PauseHasJob, BatchIsUnpaused, Jobs
<1>3. SendingGoesOn'
  <2> SUFFICES ASSUME NEW n \in Letters, letter[n] = "SENDING"
               PROVE  \E j \in Jobs : /\ job[j] # NoJob /\ job[j].subject = n
                                      /\ ~(j = tick /\ run' = "finish")
    BY <1>1 DEF SendingGoesOn, Jobs, NoJob
  <2>1. PICK j \in Jobs : /\ job[j] # NoJob /\ job[j].subject = n
                          /\ ~(j = tick /\ run = "finish")
    BY DEF ChainInv, SendingGoesOn
  <2>2. CASE j = tick /\ run' = "finish"
    <3>1. n \in paused
      BY <2>1, <2>2 DEF Subject
    <3>2. PICK k \in Jobs : job[k].status = "PENDING" /\ job[k].subject = n
      BY <3>1 DEF ChainInv, PauseHasJob
    <3>3. tick # 0
      BY <2>2, MaxJobsAssumption DEF Jobs
    <3>4. k # tick
      BY <3>2, <3>3 DEF ChainInv, RunIsCommitted
    <3>5. job[k] # NoJob
      BY <3>2 DEF NoJob
    <3> QED
      BY <3>2, <3>4, <3>5
  <2> QED
    BY <2>1, <2>2
<1> QED
  BY <1>2, <1>3 DEF ChainInv

\* A job is added, for the letter that needs one.
LEMMA ChainGrows ==
  ASSUME TypeOK, RunHasJob, ChainInv, NEW n \in Letters, NEW waits \in BOOLEAN,
         Enqueue(n, waits), tick' = tick,
         \A m \in Letters : letter'[m] = "SENDING" => letter[m] = "SENDING" \/ m = n,
         paused' \subseteq paused \/ (waits /\ paused' \subseteq paused \cup {n}),
         \/ run' = run /\ paused' \subseteq paused
         \/ run' = "finish" /\ tick # 0 /\ Subject = n
  PROVE  ChainInv'
<1>1. PICK i \in Unused : job' = [job EXCEPT ![i] = NewJob(n, waits)]
  BY DEF Enqueue
<1>2. /\ i \in Jobs /\ job[i] = NoJob /\ job'[i] = NewJob(n, waits)
      /\ \A k \in Jobs \ {i} : job'[k] = job[k]
  BY <1>1 DEF Unused, TypeOK, QueueTypeOK
<1>3. /\ NewJob(n, waits).status = "PENDING" /\ NewJob(n, waits).waits = waits
      /\ NewJob(n, waits).subject = n /\ NewJob(n, waits) # NoJob
  BY DEF NewJob, NoJob
<1>4. i # tick
  <2>1. i # 0
    BY <1>2, MaxJobsAssumption DEF Jobs
  <2> QED
    BY <1>2, <2>1 DEF ChainInv, RunIsCommitted, NoJob
<1>5. tick # 0 => tick \in Jobs /\ job'[tick] = job[tick]
  BY <1>2, <1>4 DEF TypeOK, QueueTypeOK
<1>6. RunIsCommitted'
  BY <1>5 DEF ChainInv, RunIsCommitted
<1>7. PauseHasJob'
  <2> SUFFICES ASSUME NEW m \in paused'
               PROVE  \E j \in Jobs : /\ job'[j].status = "PENDING" /\ job'[j].waits
                                      /\ job'[j].subject = m
    BY DEF PauseHasJob, Jobs
  <2>1. CASE m \in paused
    <3>1. PICK j \in Jobs : job[j].status = "PENDING" /\ job[j].waits /\ job[j].subject = m
      BY <2>1 DEF ChainInv, PauseHasJob
    <3>2. j # i
      BY <1>2, <3>1 DEF NoJob
    <3> QED
      BY <1>2, <3>1, <3>2
  <2>2. CASE waits /\ m = n
    BY <1>2, <1>3, <2>2
  <2> QED
    BY <2>1, <2>2
<1>8. BatchIsUnpaused'
  <2>1. CASE run' = run /\ paused' \subseteq paused
    <3>1. run = "idle" \/ Subject' = Subject
      BY <1>5 DEF RunHasJob, Subject
    <3> QED
      BY <2>1, <3>1 DEF ChainInv, BatchIsUnpaused
  <2>2. CASE run' = "finish"
    BY <2>2 DEF BatchIsUnpaused
  <2> QED
    BY <2>1, <2>2
<1>9. SendingGoesOn'
  <2> SUFFICES ASSUME NEW m \in Letters, letter'[m] = "SENDING"
               PROVE  \E j \in Jobs : /\ job'[j] # NoJob /\ job'[j].subject = m
                                      /\ ~(j = tick /\ run' = "finish")
    BY DEF SendingGoesOn, Jobs, NoJob
  <2>1. CASE m = n
    BY <1>2, <1>3, <1>4, <2>1
  <2>2. CASE m # n
    <3>1. PICK j \in Jobs : /\ job[j] # NoJob /\ job[j].subject = m
                            /\ ~(j = tick /\ run = "finish")
      BY <2>2 DEF ChainInv, SendingGoesOn
    <3>2. job'[j] = job[j]
      BY <1>2, <3>1
    <3>3. ~(j = tick /\ run' = "finish")
      BY <2>2, <3>1 DEF Subject
    <3> QED
      BY <3>1, <3>2, <3>3
  <2> QED
    BY <2>1, <2>2
<1> QED
  BY <1>6, <1>7, <1>8, <1>9 DEF ChainInv

\* The same, when the job that runs adds it: for its own letter.
LEMMA JobAdds ==
  ASSUME MailInv, ChainInv, run \notin {"idle", "finish"}, NEW waits \in BOOLEAN,
         Enqueue(Subject, waits), run' = "finish", UNCHANGED <<tick, letter>>,
         paused' = paused \/ (waits /\ paused' = paused \cup {Subject})
  PROVE  ChainInv'
<1>1. TypeOK /\ RunHasJob
  BY DEF MailInv
<1>2. Subject \in Letters /\ tick # 0
  BY <1>1, RunIsOfLetter DEF RunHasJob
<1> DEFINE n == Subject
<1>3. /\ n \in Letters /\ Enqueue(n, waits) /\ Subject = n
      /\ paused' \subseteq paused \/ (waits /\ paused' \subseteq paused \cup {n})
  BY <1>2
<1> HIDE DEF n
<1> QED
  BY <1>1, <1>2, <1>3, ChainGrows

LEMMA StartJobChain ==
  ASSUME MailInv, ChainInv, NEW j \in Jobs, StartJob(j)
  PROVE  ChainInv'
<1>1. TypeOK /\ RunHasJob
  BY DEF MailInv
<1>2. job[j] \in Job /\ job[j] # NoJob /\ job[j].status = "PENDING" /\ ~job[j].waits
  BY <1>1 DEF StartJob, PickJob, TypeOK, QueueTypeOK, NoJob
<1> DEFINE r == [job[j] EXCEPT !.status = "RUNNING", !.attempts = @ + 1]
<1>3. r.status = "RUNNING" /\ r.subject = job[j].subject
  BY <1>2 DEF Job
<1>4. /\ job' = [job EXCEPT ![j] = r] /\ tick' = j /\ run' = "start"
      /\ UNCHANGED <<letter, paused>>
  BY DEF StartJob, PickJob
<1> HIDE DEF r
<1>5. job'[j] = r /\ \A k \in Jobs \ {j} : job'[k] = job[k]
  BY <1>1, <1>4 DEF TypeOK, QueueTypeOK
<1>6. RunIsCommitted' /\ BatchIsUnpaused'
  BY <1>3, <1>4, <1>5 DEF RunIsCommitted, BatchIsUnpaused
<1>7. PauseHasJob'
  <2> SUFFICES ASSUME NEW m \in paused
               PROVE  \E k \in Jobs : /\ job'[k].status = "PENDING" /\ job'[k].waits
                                      /\ job'[k].subject = m
    BY <1>4 DEF PauseHasJob, Jobs
  <2>1. PICK k \in Jobs : job[k].status = "PENDING" /\ job[k].waits /\ job[k].subject = m
    BY DEF ChainInv, PauseHasJob
  <2> QED
    BY <1>2, <1>5, <2>1
<1>8. SendingGoesOn'
  <2> SUFFICES ASSUME NEW m \in Letters, letter[m] = "SENDING"
               PROVE  \E k \in Jobs : job'[k] # NoJob /\ job'[k].subject = m
    BY <1>4 DEF SendingGoesOn, Jobs, NoJob
  <2>1. PICK k \in Jobs : job[k] # NoJob /\ job[k].subject = m
    BY DEF ChainInv, SendingGoesOn
  <2>2. r # NoJob
    BY <1>3 DEF NoJob
  <2> QED
    BY <1>3, <1>5, <2>1, <2>2
<1> QED
  BY <1>6, <1>7, <1>8 DEF ChainInv

LEMMA CloseLetterChain ==
  ASSUME MailInv, ChainInv, CloseLetter
  PROVE  ChainInv'
<1>1. TypeOK /\ RunHasJob
  BY DEF MailInv
<1>2. /\ UNCHANGED <<job, tick, paused>> /\ run' = "finish" /\ run = "close"
      /\ letter' = [letter EXCEPT ![Subject] = "SENT"]
  BY DEF CloseLetter, queue
<1>3. RunIsCommitted' /\ PauseHasJob' /\ BatchIsUnpaused'
  BY <1>2 DEF ChainInv, RunIsCommitted, PauseHasJob, BatchIsUnpaused, Jobs
<1>4. SendingGoesOn'
  <2> SUFFICES ASSUME NEW n \in Letters, letter'[n] = "SENDING"
               PROVE  \E j \in Jobs : /\ job[j] # NoJob /\ job[j].subject = n
                                      /\ ~(j = tick /\ run' = "finish")
    BY <1>2 DEF SendingGoesOn, Jobs, NoJob
  <2>1. n # Subject /\ letter[n] = "SENDING"
    BY <1>1, <1>2 DEF TypeOK
  <2>2. PICK j \in Jobs : job[j] # NoJob /\ job[j].subject = n
    BY <2>1 DEF ChainInv, SendingGoesOn
  <2> QED
    BY <2>1, <2>2 DEF Subject
<1> QED
  BY <1>3, <1>4 DEF ChainInv

LEMMA FinishJobChain ==
  ASSUME MailInv, ChainInv, FinishJob
  PROVE  ChainInv'
<1>1. TypeOK /\ RunHasJob
  BY DEF MailInv
<1>2. /\ run = "finish" /\ run' = "idle" /\ tick' = 0 /\ UNCHANGED <<letter, paused>>
      /\ job' = [job EXCEPT ![tick] = NoJob]
  BY DEF FinishJob, JobDone
<1>3. \A k \in Jobs \ {tick} : job'[k] = job[k]
  BY <1>1, <1>2 DEF TypeOK, QueueTypeOK
<1>4. RunIsCommitted' /\ BatchIsUnpaused'
  BY <1>2 DEF RunIsCommitted, BatchIsUnpaused
<1>5. PauseHasJob'
  <2> SUFFICES ASSUME NEW m \in paused
               PROVE  \E k \in Jobs : /\ job'[k].status = "PENDING" /\ job'[k].waits
                                      /\ job'[k].subject = m
    BY <1>2 DEF PauseHasJob, Jobs
  <2>1. PICK k \in Jobs : job[k].status = "PENDING" /\ job[k].waits /\ job[k].subject = m
    BY DEF ChainInv, PauseHasJob
  <2>2. k # tick
    BY <2>1, MaxJobsAssumption DEF ChainInv, RunIsCommitted, Jobs
  <2> QED
    BY <1>3, <2>1, <2>2
<1>6. SendingGoesOn'
  <2> SUFFICES ASSUME NEW m \in Letters, letter[m] = "SENDING"
               PROVE  \E k \in Jobs : job'[k] # NoJob /\ job'[k].subject = m
    BY <1>2 DEF SendingGoesOn, Jobs, NoJob
  <2>1. PICK k \in Jobs : /\ job[k] # NoJob /\ job[k].subject = m
                          /\ ~(k = tick /\ run = "finish")
    BY DEF ChainInv, SendingGoesOn
  <2> QED
    BY <1>2, <1>3, <2>1
<1> QED
  BY <1>4, <1>5, <1>6 DEF ChainInv

LEMMA RaiseChain ==
  ASSUME MailInv, ChainInv, Raise
  PROVE  ChainInv'
<1>1. TypeOK /\ RunHasJob
  BY DEF MailInv
<1>2. tick \in Jobs /\ job[tick] \in Job
  BY <1>1, RunIsOfLetter DEF Raise
<1> DEFINE s == IF UsedUp(tick) THEN "FAILED" ELSE "PENDING"
           r == [job[tick] EXCEPT !.status = s]
<1>3. r.subject = job[tick].subject /\ r \in Job
  BY <1>2 DEF Job
<1>4. /\ job' = [job EXCEPT ![tick] = r] /\ tick' = 0 /\ run' = "idle"
      /\ UNCHANGED <<letter, paused>>
  BY DEF Raise, JobRaised
<1> HIDE DEF r, s
<1>5. job'[tick] = r /\ \A k \in Jobs \ {tick} : job'[k] = job[k]
  BY <1>1, <1>2, <1>4 DEF TypeOK, QueueTypeOK
<1>6. RunIsCommitted' /\ BatchIsUnpaused'
  BY <1>4 DEF RunIsCommitted, BatchIsUnpaused
<1>7. PauseHasJob'
  <2> SUFFICES ASSUME NEW m \in paused
               PROVE  \E k \in Jobs : /\ job'[k].status = "PENDING" /\ job'[k].waits
                                      /\ job'[k].subject = m
    BY <1>4 DEF PauseHasJob, Jobs
  <2>1. PICK k \in Jobs : job[k].status = "PENDING" /\ job[k].waits /\ job[k].subject = m
    BY DEF ChainInv, PauseHasJob
  <2>2. k # tick
    BY <2>1, MaxJobsAssumption DEF ChainInv, RunIsCommitted, Jobs
  <2> QED
    BY <1>5, <2>1, <2>2
<1>8. SendingGoesOn'
  <2> SUFFICES ASSUME NEW m \in Letters, letter[m] = "SENDING"
               PROVE  \E k \in Jobs : job'[k] # NoJob /\ job'[k].subject = m
    BY <1>4 DEF SendingGoesOn, Jobs, NoJob
  <2>1. PICK k \in Jobs : job[k] # NoJob /\ job[k].subject = m
    BY DEF ChainInv, SendingGoesOn
  <2> QED
    BY <1>3, <1>5, <2>1, JobIsJob
<1> QED
  BY <1>6, <1>7, <1>8 DEF ChainInv

LEMMA CrashChain ==
  ASSUME ChainInv, Crash
  PROVE  ChainInv'
<1>1. UNCHANGED <<job, letter, paused>> /\ tick' = 0 /\ run' = "idle"
  BY DEF Crash, TickLost
<1>2. RunIsCommitted' /\ PauseHasJob' /\ BatchIsUnpaused'
  BY <1>1 DEF ChainInv, RunIsCommitted, PauseHasJob, BatchIsUnpaused, Jobs
<1>3. SendingGoesOn'
  BY <1>1 DEF ChainInv, SendingGoesOn, Jobs, NoJob
<1> QED
  BY <1>2, <1>3 DEF ChainInv

LEMMA DayPassesChain ==
  ASSUME MailInv, ChainInv, DayPasses
  PROVE  ChainInv'
<1>1. TypeOK /\ RunHasJob
  BY DEF MailInv
<1>2. /\ UNCHANGED <<tick, run, letter>> /\ paused' = {} /\ run = "idle" /\ tick = 0
      /\ job' = [j \in Jobs |-> [job[j] EXCEPT !.waits = FALSE]]
  BY <1>1 DEF DayPasses, JobsFallDue, RunHasJob
<1>3. RunIsCommitted' /\ PauseHasJob' /\ BatchIsUnpaused'
  BY <1>2 DEF RunIsCommitted, PauseHasJob, BatchIsUnpaused
<1>4. SendingGoesOn'
  <2> SUFFICES ASSUME NEW m \in Letters, letter[m] = "SENDING"
               PROVE  \E k \in Jobs : job'[k] # NoJob /\ job'[k].subject = m
    BY <1>2 DEF SendingGoesOn, Jobs, NoJob
  <2>1. PICK k \in Jobs : job[k] # NoJob /\ job[k].subject = m
    BY DEF ChainInv, SendingGoesOn
  <2>2. job[k] \in Job
    BY <1>1, <2>1 DEF TypeOK, QueueTypeOK
  <2>3. job'[k].status = job[k].status /\ job'[k].subject = m
    BY <1>2, <2>1, <2>2 DEF Job
  <2>4. job'[k] # NoJob
    BY <2>2, <2>3 DEF Job, NoJob
  <2> QED
    BY <2>3, <2>4
<1> QED
  BY <1>3, <1>4 DEF ChainInv

LEMMA StartSendingChain ==
  ASSUME MailInv, ChainInv, NEW n \in Letters, StartSending(n)
  PROVE  ChainInv'
<1>1. TypeOK /\ RunHasJob
  BY DEF MailInv
<1>2. /\ Enqueue(n, FALSE) /\ UNCHANGED <<tick, run, paused>>
      /\ letter' = [letter EXCEPT ![n] = "SENDING"]
  BY DEF StartSending
<1>3. \A m \in Letters : letter'[m] = "SENDING" => letter[m] = "SENDING" \/ m = n
  BY <1>1, <1>2 DEF TypeOK
<1>4. FALSE \in BOOLEAN
  OBVIOUS
<1> QED
  BY <1>1, <1>2, <1>3, <1>4, ChainGrows

\* A letter that a screen makes sending again has a job of its own.
LEMMA ResendChain ==
  ASSUME MailInv, ChainInv, NEW a \in Screens, Resend(a)
  PROVE  ChainInv'
<1>1. TypeOK /\ RunHasJob
  BY DEF MailInv
<1>2. screen[a] \in Request /\ screen[a] # NoRequest
  BY <1>1 DEF TypeOK, Resend, NoRequest
<1> DEFINE n == screen[a].letter
<1>3. n \in Letters
  BY <1>2 DEF Request
<1>4. /\ UNCHANGED <<tick, run, paused>>
      /\ letter' = [m \in Letters |-> IF m = n /\ ~screen[a].sending THEN "SENDING"
                                      ELSE letter[m]]
  BY DEF Resend
<1>5. CASE NeedsJob(a)
  <2>1. Enqueue(n, FALSE) /\ FALSE \in BOOLEAN
    BY <1>5 DEF Resend
  <2>2. \A m \in Letters : letter'[m] = "SENDING" => letter[m] = "SENDING" \/ m = n
    BY <1>4
  <2> HIDE DEF n
  <2> QED
    BY <1>1, <1>3, <1>4, <2>1, <2>2, ChainGrows
<1>6. CASE ~NeedsJob(a)
  <2>1. UNCHANGED job
    BY <1>6 DEF Resend
  <2>2. \A m \in Letters : letter'[m] = letter[m]
    BY <1>4, <1>6 DEF NeedsJob
  <2>3. letter' = letter
    BY <1>1, <1>4, <2>2 DEF TypeOK
  <2>4. UNCHANGED <<queue, letter, paused>> /\ run' = run
    BY <1>4, <2>1, <2>3 DEF queue
  <2> QED
    BY <2>4, ChainStays
<1> QED
  BY <1>5, <1>6

\* Each step of the job keeps the chain.
LEMMA SendBatchChain ==
  ASSUME MailInv, ChainInv, SendBatch
  PROVE  ChainInv'
<1>1. ASSUME NEW j \in Jobs, StartJob(j) PROVE ChainInv'
  BY <1>1, StartJobChain
<1>2. CASE Nothing
  BY <1>2, ChainStays DEF Nothing, Ready, Continue
<1>3. ASSUME Pause, run \notin {"idle", "finish"} PROVE ChainInv'
  <2>1. /\ Enqueue(Subject, TRUE) /\ run' = "finish" /\ UNCHANGED <<tick, letter>>
        /\ paused' = paused \cup {Subject} /\ TRUE \in BOOLEAN
    BY <1>3 DEF Pause, GoesOnTomorrow
  <2> QED
    BY <1>3, <2>1, JobAdds
<1>4. CASE DayIsFull
  BY <1>3, <1>4 DEF DayIsFull
<1>5. CASE TakeBatch
  BY <1>5, ChainStays DEF TakeBatch, Ready
<1>6. ASSUME NEW a \in todo, Skip(a) \/ RecordSent(a) \/ RecordFailed(a) PROVE ChainInv'
  <2>1. /\ UNCHANGED <<queue, letter, paused>> /\ run' = "next"
        /\ run \in {"next", "sent", "refused"}
    BY <1>6 DEF Skip, RecordSent, RecordFailed, Record
  <2> QED
    BY <2>1, ChainStays
<1>7. ASSUME NEW a \in todo, Render(a) PROVE ChainInv'
  BY <1>7, ChainStays DEF Render, Continue
<1>8. ASSUME NEW a \in todo, SendMail(a) PROVE ChainInv'
  <2>1. CASE QuotaReached(a)
    BY <1>3, <2>1 DEF QuotaReached
  <2>2. CASE ~QuotaReached(a)
    <3>1. /\ UNCHANGED <<queue, letter, paused>> /\ run' \in {"sent", "retry", "refused"}
          /\ run \in {"try", "retry"}
      BY <1>8, <2>2
      DEF SendMail, Accepted, TemporaryFault, AnswerLost, PermanentFault, AfterFault, Continue
    <3> QED
      BY <3>1, ChainStays
  <2> QED
    BY <2>1, <2>2
<1>9. CASE CountLeft
  <2>1. UNCHANGED <<queue, letter, paused>> /\ run' \in {"close", "again"} /\ run = "next"
    BY <1>9 DEF CountLeft, Continue
  <2> QED
    BY <2>1, ChainStays
<1>10. CASE CloseLetter
  BY <1>10, CloseLetterChain
<1>11. CASE PlanNextBatch
  <2>1. /\ Enqueue(Subject, FALSE) /\ run' = "finish" /\ UNCHANGED <<tick, letter, paused>>
        /\ FALSE \in BOOLEAN /\ run \notin {"idle", "finish"}
    BY <1>11 DEF PlanNextBatch
  <2> QED
    BY <2>1, JobAdds
<1>12. CASE FinishJob
  BY <1>12, FinishJobChain
<1> QED
  BY <1>1, <1>2, <1>4, <1>5, <1>6, <1>7, <1>8, <1>9, <1>10, <1>11, <1>12 DEF SendBatch

LEMMA InitChainInv == Init => ChainInv
<1> SUFFICES ASSUME Init PROVE ChainInv
  OBVIOUS
<1> QED
  BY DEF Init, QueueInit, ChainInv, RunIsCommitted, PauseHasJob, BatchIsUnpaused, SendingGoesOn

LEMMA NextChainInv == MailInv /\ ChainInv /\ [Next]_vars => ChainInv'
<1> SUFFICES ASSUME MailInv, ChainInv, [Next]_vars PROVE ChainInv'
  OBVIOUS
<1>1. ASSUME UNCHANGED <<queue, letter, paused, run>> PROVE ChainInv'
  BY <1>1, ChainStays
<1>2. ASSUME NEW a \in Screens, Web(a) PROVE ChainInv'
  <2>1. CASE Resend(a)
    BY <2>1, ResendChain
  <2>2. ASSUME NEW request, Read(a, request) PROVE ChainInv'
    BY <1>1, <2>2 DEF Read
  <2>3. CASE Mark(a) \/ Abandon(a)
    BY <1>1, <2>3 DEF Mark, Abandon
  <2> QED
    BY <1>2, <2>1, <2>2, <2>3 DEF Web, ReadFailed, ReadForMark
<1>3. ASSUME NEW a \in Addresses, Unsubscribe(a) PROVE ChainInv'
  BY <1>1, <1>3 DEF Unsubscribe
<1>4. CASE UNCHANGED vars
  BY <1>1, <1>4 DEF vars
<1> QED
  BY <1>2, <1>3, <1>4, SendBatchChain, RaiseChain, CrashChain, DayPassesChain,
     StartSendingChain DEF Next

-----------------------------------------------------------------------------
\* The invariant of the chain of jobs holds in every state that can be reached.
THEOREM ChainInvariant == Spec => []ChainInv
BY InitChainInv, NextChainInv, MailInvariant, PTL DEF Spec

\* The letter that is being sent has a job, unless a crash or a handler that failed for
\* good left its row behind: no order of batches, resends, pauses and days breaks the
\* chain (newsletter/service.py: every job plans the next before it is done).
THEOREM ChainIsUnbroken == Spec => []ChainHolds
<1>1. ChainInv => ChainHolds
  BY DEF ChainInv, SendingGoesOn, ChainHolds
<1> QED  BY <1>1, ChainInvariant, PTL

\* A paused letter is taken up again: the pause is committed with the job that ends it.
THEOREM PausesEnd == Spec => []PauseEnds
<1>1. ChainInv => PauseEnds
  BY DEF ChainInv, PauseHasJob, PauseEnds, Live
<1> QED  BY <1>1, ChainInvariant, PTL

\* While a letter is paused none of its mails leaves, however many jobs two resends made.
THEOREM PausesHold == Spec => PauseHolds
<1>1. ASSUME MailInv, ChainInv, [Next]_vars, NEW d \in Deliveries, left'[d] > left[d]
      PROVE  d[1] \notin paused
  <2>1. TypeOK
    BY <1>1 DEF MailInv
  <2>2. left[d] \in 0..2 /\ left \in [Deliveries -> 0..2]
    BY <2>1 DEF TypeOK
  <2>3. left' # left
    BY <1>1, <2>2
  <2>4. ASSUME NEW a \in todo, Leaves(a), run \in {"try", "retry"}
        PROVE  d[1] \notin paused
    <3>1. d = <<Subject, a>>
      <4>1. SUFFICES ASSUME d # <<Subject, a>> PROVE FALSE
        OBVIOUS
      <4>2. left'[d] = left[d]
        BY <2>2, <2>4, <4>1 DEF Leaves
      <4> QED
        BY <1>1, <2>2, <4>2
    <3>2. Subject \notin paused
      BY <1>1, <2>4 DEF ChainInv, BatchIsUnpaused
    <3> QED
      BY <3>1, <3>2
  <2>5. ASSUME NEW a \in Screens, Resend(a)
        PROVE  FALSE
    <3>1. left' = [e \in Deliveries |-> IF e \in screen[a].rows THEN 0 ELSE left[e]]
      BY <2>5 DEF Resend
    <3>2. left'[d] = 0 \/ left'[d] = left[d]
      BY <3>1
    <3> QED
      BY <1>1, <2>2, <3>2
  <2>6. ASSUME NEW a \in todo, Accepted(a) \/ AnswerLost(a)
        PROVE  d[1] \notin paused
    BY <2>4, <2>6 DEF Accepted, AnswerLost
  <2>7. ASSUME NEW a \in todo, SendMail(a)
        PROVE  d[1] \notin paused
    BY <2>3, <2>6, <2>7
    DEF SendMail, TemporaryFault, PermanentFault, QuotaReached, Continue, Pause
  <2>8. CASE SendBatch
    <3>1. ASSUME NEW a \in todo, Skip(a) \/ Render(a) \/ RecordSent(a) \/ RecordFailed(a)
          PROVE  left' = left
      BY <3>1 DEF Skip, Render, RecordSent, RecordFailed, Record, Continue
    <3>2. ASSUME NEW j \in Jobs, StartJob(j)
          PROVE  left' = left
      BY <3>2 DEF StartJob
    <3>3. Nothing \/ DayIsFull \/ TakeBatch \/ CountLeft \/ CloseLetter \/ PlanNextBatch
            \/ FinishJob => left' = left
      BY DEF Nothing, DayIsFull, TakeBatch, CountLeft, CloseLetter, PlanNextBatch, FinishJob,
             Continue, Pause
    <3> QED
      BY <2>3, <2>7, <2>8, <3>1, <3>2, <3>3 DEF SendBatch
  <2>9. ASSUME NEW a \in Screens, Web(a)
        PROVE  FALSE
    BY <2>3, <2>5, <2>9 DEF Web, ReadFailed, ReadForMark, Read, Mark, Abandon
  <2>10. Raise \/ Crash \/ DayPasses \/ UNCHANGED vars => left' = left
    BY DEF Raise, Crash, DayPasses, vars
  <2>11. (\E n \in Letters : StartSending(n)) \/ (\E a \in Addresses : Unsubscribe(a)) =>
           left' = left
    BY DEF StartSending, Unsubscribe
  <2> QED
    BY <1>1, <2>3, <2>8, <2>9, <2>10, <2>11 DEF Next
<1>2. MailInv /\ ChainInv /\ [Next]_vars =>
        [\A d \in Deliveries : left'[d] > left[d] => d[1] \notin paused]_vars
  BY <1>1
<1> QED  BY <1>2, MailInvariant, ChainInvariant, PTL DEF Spec, PauseHolds
=============================================================================
