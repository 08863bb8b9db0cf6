------------------------- MODULE NewsletterInvariant -------------------------
(***************************************************************************)
(* The inductive invariants of Newsletter: MailInv, from which             *)
(* OneMailPerQueueing follows, and ChainInv, from which ChainHolds,        *)
(* PauseEnds and PauseHolds follow; NewsletterProofs proves them.          *)
(***************************************************************************)
EXTENDS Newsletter

\* The scheduler runs one job, of a letter; a planned job has an attempt left.
RunHasJob ==
  /\ run = "idle" <=> tick = 0
  /\ \A j \in Jobs : job[j] # NoJob => job[j].subject \in Letters
  /\ tick # 0 => job[tick] # NoJob
  /\ \A j \in Jobs : job[j].status = "PENDING" => job[j].attempts < MaxAttempts

\* A batch is of a letter that was started.
BatchIsStarted ==
  /\ run \in {"idle", "start", "close", "again", "finish"} => todo = {}
  /\ todo # {} => letter[Subject] # "DRAFT"

\* No mail of a draft has left.
DraftIsUnsent ==
  \A d \in Deliveries : letter[d[1]] = "DRAFT" => left[d] = 0

\* The code has yet to write down that a mail of d left.
Unwritten(d) == run = "sent" /\ d[1] = Subject /\ IsNext(d[2])

\* What is queued has not left, but for what a crash or a lost answer hid.
QueuedIsUnsent ==
  \A d \in Deliveries :
    delivery[d] = "QUEUED" => left[d] = 0 \/ d \in doubtful \/ Unwritten(d)

\* What is left of the batch has not left either.
BatchIsUnsent ==
  \A a \in todo :
    LET d == <<Subject, a>>
    IN left[d] = 0 \/ d \in doubtful \/ Unwritten(d)

MailInv ==
  /\ TypeOK
  /\ RunHasJob
  /\ BatchIsStarted
  /\ DraftIsUnsent
  /\ QueuedIsUnsent
  /\ BatchIsUnsent
  /\ OneMailPerQueueing

-----------------------------------------------------------------------------
\* The job that runs was committed as running.
RunIsCommitted == tick # 0 => job[tick].status = "RUNNING"

\* A paused letter has a job of the next day.
PauseHasJob ==
  \A n \in paused :
    \E j \in Jobs : job[j].status = "PENDING" /\ job[j].waits /\ job[j].subject = n

\* Nobody but its own job pauses a letter, and after that the job is over.
BatchIsUnpaused == run \notin {"idle", "start", "finish"} => Subject \notin paused

\* The letter that is being sent has a job that is not about to be done.
SendingGoesOn ==
  \A n \in Letters : letter[n] = "SENDING" =>
    \E j \in Jobs : /\ job[j] # NoJob /\ job[j].subject = n
                    /\ ~(j = tick /\ run = "finish")

ChainInv ==
  /\ RunIsCommitted
  /\ PauseHasJob
  /\ BatchIsUnpaused
  /\ SendingGoesOn
=============================================================================
