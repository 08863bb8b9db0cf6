----------------------------- MODULE Newsletter -----------------------------
(***************************************************************************)
(* The sending of newsletters (newsletter/service.py, handlers.py) on the  *)
(* job queue: a letter is handed to the queue with one delivery per        *)
(* address, and its job mails a batch at a time and plans the next one,    *)
(* while the screens mark bounces and queue failed addresses again.        *)
(*                                                                         *)
(* A delivery is committed after its mail left, so between the mail server *)
(* and the commit there is a step; a screen reads the deliveries, and      *)
(* writes and commits what it decided in a later step.                     *)
(***************************************************************************)
EXTENDS JobQueue

CONSTANTS
  Letters,      \* the letters
  Addresses,    \* the addresses, by the order of their deliveries
  Members,      \* the addresses of members: no re-check, no unsubscribing
  Cap,          \* tenant_newsletter_daily_cap
  BatchSize,    \* BATCH_SIZE
  Screens,      \* requests of the administration screens
  MaxCrashes,   \* bound: how often the process or its database is lost
  MaxRaises,    \* bound: how often a handler raises
  MaxResends    \* bound: how often failed addresses are queued again

ASSUME LettersAssumption == Letters \subseteq Subjects
ASSUME AddressesAssumption == Addresses \subseteq Nat /\ IsFiniteSet(Addresses)
ASSUME MembersAssumption == Members \subseteq Addresses
ASSUME CapAssumption == Cap \in Nat \ {0} /\ BatchSize \in Nat \ {0}

Deliveries == Letters \X Addresses

VARIABLES
  letter,       \* [Letters -> LetterStatus]
  paused,       \* letters whose paused_until lies ahead
  delivery,     \* [Deliveries -> DeliveryStatus]
  recent,       \* deliveries with a sent_at of today
  unsubscribed, \* addresses that unsubscribed
  run,          \* what send_batch does next
  todo,         \* the addresses left of its batch
  screen,       \* [Screens -> Request]
  \* What happened, for the properties and the bounds.
  left,         \* [Deliveries -> 0..2]: mails that left since it was last queued
  doubtful,     \* deliveries whose mail left and no commit or answer says so
  counts        \* [crashes, raises, resends]

vars == <<queue, letter, paused, delivery, recent, unsubscribed, run, todo, screen,
          left, doubtful, counts>>

LetterStatus == {"DRAFT", "SENDING", "SENT"}

\* "NONE": not a recipient of the letter.
DeliveryStatus == {"NONE", "QUEUED", "SENT", "FAILED", "SKIPPED", "BOUNCED"}

\* Steps of send_batch: "try", "retry": the mail goes out; "sent", "refused": its
\* outcome is known and not committed.
Runs == {"idle", "start", "next", "try", "retry", "sent", "refused", "count",
         "close", "again", "finish"}

NoRequest == [kind |-> "none", letter |-> "none", rows |-> {}, sending |-> FALSE]

\* rows: the deliveries the screen read and will write.
Request == [kind : {"resend", "bounce", "unbounce"}, letter : Letters,
            rows : SUBSET Deliveries, sending : BOOLEAN] \cup {NoRequest}

Init ==
  /\ QueueInit
  /\ letter = [n \in Letters |-> "DRAFT"]
  /\ paused = {}
  /\ delivery = [d \in Deliveries |-> "NONE"]
  /\ recent = {}
  /\ unsubscribed = {}
  /\ run = "idle"
  /\ todo = {}
  /\ screen = [a \in Screens |-> NoRequest]
  /\ left = [d \in Deliveries |-> 0]
  /\ doubtful = {}
  /\ counts = [crashes |-> 0, raises |-> 0, resends |-> 0]

-----------------------------------------------------------------------------
\* What send_batch reads.

\* The letter of the job that runs.
Subject == job[tick].subject

\* sent_in_last_day.
SentInLastDay == Cardinality({ d \in recent : delivery[d] = "SENT" })

Room == Cap - SentInLastDay

Queued(n) == { a \in Addresses : delivery[<<n, a>>] = "QUEUED" }

\* The first of the queued addresses, by id: as many as the room and the batch.
Batch(n) ==
  { a \in Queued(n) :
      LET before == Cardinality({ b \in Queued(n) : b < a })
      IN before < Room /\ before < BatchSize }

\* The delivery whose turn it is.
IsNext(a) == a \in todo /\ \A b \in todo : a <= b

-----------------------------------------------------------------------------
\* The job.

Continue(there) ==
  /\ run' = there
  /\ UNCHANGED <<queue, letter, paused, delivery, recent, unsubscribed, todo, screen,
                 left, doubtful, counts>>

StartJob(j) ==
  /\ run = "idle"
  /\ PickJob(j)
  /\ run' = "start"
  /\ UNCHANGED <<letter, paused, delivery, recent, unsubscribed, todo, screen,
                 left, doubtful, counts>>

\* Mutant: the pause is not looked at.
ReadyThoughPaused(n) == letter[n] = "SENDING"

Ready(n) == letter[n] = "SENDING" /\ n \notin paused

\* The letter is not being sent, or is paused.
Nothing ==
  /\ run = "start"
  /\ ~Ready(Subject)
  /\ Continue("finish")

\* Mutant: the next job is planned for now.
GoesOnNow(n) == Enqueue(n, FALSE)

GoesOnTomorrow(n) == Enqueue(n, TRUE)

\* _pause: the letter goes on tomorrow, in a job that is committed with the pause.
Pause ==
  /\ run' = "finish"
  /\ paused' = paused \cup {Subject}
  /\ GoesOnTomorrow(Subject)
  /\ todo' = {}
  /\ UNCHANGED <<tick, letter, delivery, recent, unsubscribed, screen, left, doubtful, counts>>

DayIsFull ==
  /\ run = "start"
  /\ Ready(Subject)
  /\ Room <= 0
  /\ Pause

TakeBatch ==
  /\ run = "start"
  /\ Ready(Subject)
  /\ Room > 0
  /\ run' = "next"
  /\ todo' = Batch(Subject)
  /\ UNCHANGED <<queue, letter, paused, delivery, recent, unsubscribed, screen,
                 left, doubtful, counts>>

\* One re-check for every delivery that is not a member's.
MayHave(a) == a \in Members \/ a \notin unsubscribed

\* The delivery is committed with its outcome.
Record(a, status) ==
  /\ run' = "next"
  /\ todo' = todo \ {a}
  /\ delivery' = [delivery EXCEPT ![<<Subject, a>>] = status]
  /\ recent' = IF status = "SENT" THEN recent \cup {<<Subject, a>>} ELSE recent
  /\ UNCHANGED <<queue, letter, paused, unsubscribed, screen, left, doubtful, counts>>

Skip(a) ==
  /\ run = "next"
  /\ IsNext(a)
  /\ ~MayHave(a)
  /\ Record(a, "SKIPPED")

Render(a) ==
  /\ run = "next"
  /\ IsNext(a)
  /\ MayHave(a)
  /\ Continue("try")

\* The mail leaves.  Two mails are as bad as more.
Leaves(a) == left' = [left EXCEPT ![<<Subject, a>>] = IF @ = 0 THEN 1 ELSE 2]

Accepted(a) ==
  /\ run \in {"try", "retry"}
  /\ IsNext(a)
  /\ Leaves(a)
  /\ run' = "sent"
  /\ UNCHANGED <<queue, letter, paused, delivery, recent, unsubscribed, todo, screen,
                 doubtful, counts>>

\* After a temporary fault the mail is tried once more.
AfterFault == IF run = "try" THEN "retry" ELSE "refused"

\* UNREACHABLE, REFUSED_FOR_NOW: nothing left.
TemporaryFault(a) ==
  /\ run \in {"try", "retry"}
  /\ IsNext(a)
  /\ Continue(AfterFault)

\* UNREACHABLE as well: the connection broke after the mail server took the
\* mail and before its answer came.
AnswerLost(a) ==
  /\ run \in {"try", "retry"}
  /\ IsNext(a)
  /\ Leaves(a)
  /\ doubtful' = doubtful \cup {<<Subject, a>>}
  /\ run' = AfterFault
  /\ UNCHANGED <<queue, letter, paused, delivery, recent, unsubscribed, todo, screen, counts>>

\* REFUSED, FAILED, SKIPPED.
PermanentFault(a) ==
  /\ run \in {"try", "retry"}
  /\ IsNext(a)
  /\ Continue("refused")

\* SendingQuotaReached: the mail server takes no more mails today.
QuotaReached(a) ==
  /\ run \in {"try", "retry"}
  /\ IsNext(a)
  /\ Pause

\* Mutant: the outcome of a mail that left is not committed.
RecordNothing(a) ==
  /\ run = "sent"
  /\ IsNext(a)
  /\ run' = "next"
  /\ todo' = todo \ {a}
  /\ UNCHANGED <<queue, letter, paused, delivery, recent, unsubscribed, screen,
                 left, doubtful, counts>>

RecordSent(a) ==
  /\ run = "sent"
  /\ IsNext(a)
  /\ Record(a, "SENT")

RecordFailed(a) ==
  /\ run = "refused"
  /\ IsNext(a)
  /\ Record(a, "FAILED")

\* Mutant: the letter is done with its first batch.
AllLeftUncounted(n) == TRUE

AllLeft(n) == Queued(n) = {}

\* The batch is done: are there any left?
CountLeft ==
  /\ run = "next"
  /\ todo = {}
  /\ Continue(IF AllLeft(Subject) THEN "close" ELSE "again")

CloseLetter ==
  /\ run = "close"
  /\ letter' = [letter EXCEPT ![Subject] = "SENT"]
  /\ run' = "finish"
  /\ UNCHANGED <<queue, paused, delivery, recent, unsubscribed, todo, screen,
                 left, doubtful, counts>>

PlanNextBatch ==
  /\ run = "again"
  /\ Enqueue(Subject, FALSE)
  /\ run' = "finish"
  /\ UNCHANGED <<tick, letter, paused, delivery, recent, unsubscribed, todo, screen,
                 left, doubtful, counts>>

FinishJob ==
  /\ run = "finish"
  /\ JobDone
  /\ run' = "idle"
  /\ UNCHANGED <<letter, paused, delivery, recent, unsubscribed, todo, screen,
                 left, doubtful, counts>>

\* The letter cannot be rendered, or a read fails.
Raise ==
  /\ run \in {"start", "next"}
  /\ counts.raises < MaxRaises
  /\ JobRaised
  /\ run' = "idle"
  /\ todo' = {}
  /\ counts' = [counts EXCEPT !.raises = @ + 1]
  /\ UNCHANGED <<letter, paused, delivery, recent, unsubscribed, screen, left, doubtful>>

-----------------------------------------------------------------------------
\* The screens.

\* The web needs room in the table for its job and the one of the scheduler.
TableHasRoom == Cardinality(Unused) > 1

\* start_sending: the recipients are fixed.  The unique address of a letter's
\* deliveries lets one of two requests through.
StartSending(n) ==
  LET recipients == { a \in Addresses : MayHave(a) }
  IN /\ letter[n] = "DRAFT"
     /\ recipients # {}
     /\ TableHasRoom
     /\ letter' = [letter EXCEPT ![n] = "SENDING"]
     /\ delivery' = [d \in Deliveries |->
                       IF d[1] = n /\ d[2] \in recipients THEN "QUEUED" ELSE delivery[d]]
     /\ Enqueue(n, FALSE)
     /\ UNCHANGED <<tick, paused, recent, unsubscribed, run, todo, screen, left, doubtful, counts>>

Read(a, request) ==
  /\ screen[a] = NoRequest
  /\ screen' = [screen EXCEPT ![a] = request]
  /\ UNCHANGED <<queue, letter, paused, delivery, recent, unsubscribed, run, todo,
                 left, doubtful, counts>>

\* resend_failed: the failed and the bounced deliveries, and whether the letter is
\* still being sent.
ReadFailed(a, n) ==
  LET failed == { d \in Deliveries : d[1] = n /\ delivery[d] \in {"FAILED", "BOUNCED"} }
  IN /\ letter[n] \in {"SENT", "SENDING"}
     /\ failed # {}
     /\ Read(a, [kind |-> "resend", letter |-> n, rows |-> failed,
                 sending |-> letter[n] = "SENDING"])

ReadForMark(a, d, kind, status) ==
  /\ delivery[d] = status
  /\ Read(a, [kind |-> kind, letter |-> d[1], rows |-> {d}, sending |-> FALSE])

\* The rows are written as they were decided on, whatever they are now.
Write(a, status) ==
  /\ delivery' = [d \in Deliveries |-> IF d \in screen[a].rows THEN status ELSE delivery[d]]
  /\ screen' = [screen EXCEPT ![a] = NoRequest]

\* Mutant: the condition is swapped.
NeedsNoJob(a) == screen[a].sending

NeedsJob(a) == ~screen[a].sending

\* A letter that the screen read as sending is not written and gets no job.
Resend(a) ==
  /\ screen[a].kind = "resend"
  /\ counts.resends < MaxResends
  /\ Write(a, "QUEUED")
  /\ letter' = [n \in Letters |-> IF n = screen[a].letter /\ ~screen[a].sending
                                  THEN "SENDING" ELSE letter[n]]
  /\ IF NeedsJob(a) THEN TableHasRoom /\ Enqueue(screen[a].letter, FALSE) ELSE UNCHANGED job
  /\ left' = [d \in Deliveries |-> IF d \in screen[a].rows THEN 0 ELSE left[d]]
  /\ doubtful' = doubtful \ screen[a].rows
  /\ counts' = [counts EXCEPT !.resends = @ + 1]
  /\ UNCHANGED <<tick, paused, recent, unsubscribed, run, todo>>

\* mark_bounced and unmark_bounced.
Mark(a) ==
  /\ screen[a].kind \in {"bounce", "unbounce"}
  /\ Write(a, IF screen[a].kind = "bounce" THEN "BOUNCED" ELSE "SENT")
  /\ UNCHANGED <<queue, letter, paused, recent, unsubscribed, run, todo, left, doubtful, counts>>

\* A request is lost: the resends are used up, or it fails.
Abandon(a) ==
  /\ screen[a] # NoRequest
  /\ screen' = [screen EXCEPT ![a] = NoRequest]
  /\ UNCHANGED <<queue, letter, paused, delivery, recent, unsubscribed, run, todo,
                 left, doubtful, counts>>

Unsubscribe(a) ==
  /\ a \notin Members
  /\ unsubscribed' = unsubscribed \cup {a}
  /\ UNCHANGED <<queue, letter, paused, delivery, recent, run, todo, screen,
                 left, doubtful, counts>>

-----------------------------------------------------------------------------
\* Crashes, and the clock.

\* The process stops, or the scheduler loses its database: what was not
\* committed is gone.
Crash ==
  /\ counts.crashes < MaxCrashes
  /\ run # "idle"
  /\ TickLost
  /\ run' = "idle"
  /\ todo' = {}
  /\ doubtful' = IF run = "sent"
                   THEN doubtful \cup { <<Subject, a>> : a \in { b \in todo : IsNext(b) } }
                   ELSE doubtful
  /\ counts' = [counts EXCEPT !.crashes = @ + 1]
  /\ UNCHANGED <<letter, paused, delivery, recent, unsubscribed, screen, left>>

\* A day passes while no job runs: yesterday's mails do not count any more, and
\* what waited is due.
DayPasses ==
  /\ run = "idle"
  /\ recent # {} \/ paused # {}
  /\ recent' = {}
  /\ paused' = {}
  /\ JobsFallDue
  /\ UNCHANGED <<letter, delivery, unsubscribed, run, todo, screen, left, doubtful, counts>>

-----------------------------------------------------------------------------
SendMail(a) ==
  Accepted(a) \/ TemporaryFault(a) \/ AnswerLost(a) \/ PermanentFault(a) \/ QuotaReached(a)

SendBatch ==
  \/ \E j \in Jobs : StartJob(j)
  \/ Nothing
  \/ DayIsFull
  \/ TakeBatch
  \/ \E a \in todo : Skip(a) \/ Render(a) \/ SendMail(a) \/ RecordSent(a) \/ RecordFailed(a)
  \/ CountLeft
  \/ CloseLetter
  \/ PlanNextBatch
  \/ FinishJob

Web(a) ==
  \/ \E n \in Letters : ReadFailed(a, n)
  \/ \E d \in Deliveries :
       ReadForMark(a, d, "bounce", "SENT") \/ ReadForMark(a, d, "unbounce", "BOUNCED")
  \/ Resend(a)
  \/ Mark(a)
  \/ Abandon(a)

Next ==
  \/ SendBatch
  \/ Raise
  \/ Crash
  \/ DayPasses
  \/ \E n \in Letters : StartSending(n)
  \/ \E a \in Screens : Web(a)
  \/ \E a \in Addresses : Unsubscribe(a)

Spec == Init /\ [][Next]_vars

\* The scheduler's thread runs, days pass, and the mail server does not refuse
\* every mail for its quota.
Fairness ==
  /\ WF_vars(SendBatch)
  /\ WF_vars(DayPasses)
  /\ SF_vars(\E a \in todo : Accepted(a) \/ PermanentFault(a))

FairSpec == Spec /\ Fairness

-----------------------------------------------------------------------------
\* Properties.

\* Every variable has its type.
TypeOK ==
  /\ QueueTypeOK
  /\ letter \in [Letters -> LetterStatus]
  /\ paused \subseteq Letters
  /\ delivery \in [Deliveries -> DeliveryStatus]
  /\ recent \subseteq Deliveries
  /\ unsubscribed \subseteq Addresses
  /\ run \in Runs
  /\ todo \subseteq Addresses
  /\ screen \in [Screens -> Request]
  /\ left \in [Deliveries -> 0..2]
  /\ doubtful \subseteq Deliveries
  /\ counts \in [crashes : Nat, raises : Nat, resends : Nat]

\* Nobody gets the letter twice: between two queueings of a delivery one mail
\* leaves, unless a crash or a lost answer hid the first from the code.
OneMailPerQueueing ==
  \A d \in Deliveries : left[d] > 1 => d \in doubtful

\* The letter that is being sent has a job, or the job that sent it was lost in a
\* crash or failed for good: whatever the screens and the batches do meanwhile,
\* the chain of jobs does not break.
ChainHolds ==
  \A n \in Letters :
    letter[n] = "SENDING" =>
      \E j \in Jobs : job[j].subject = n /\ job[j] # NoJob

\* A letter is paused only with a job that takes it up again.
PauseEnds ==
  \A n \in paused :
    letter[n] = "SENDING" => \E j \in Jobs : job[j].subject = n /\ Live(j)

\* While a letter is paused no mail of it leaves, however many jobs it has: two
\* resends of one letter make two.
PauseHolds ==
  [][\A d \in Deliveries : left'[d] > left[d] => d[1] \notin paused]_vars

\* Every queued address gets its turn.
EveryDeliveryEnds ==
  \A d \in Deliveries : delivery[d] = "QUEUED" ~> delivery[d] # "QUEUED"

-----------------------------------------------------------------------------
\* What the documentation of the code says, and the code does not keep.

\* send_batch: "a restart resumes with the next address".
RestartResumes ==
  \A n \in Letters :
    letter[n] = "SENDING" => \E j \in Jobs : job[j].subject = n /\ Live(j)
=============================================================================
