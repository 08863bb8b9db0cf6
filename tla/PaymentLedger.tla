---------------------------- MODULE PaymentLedger ----------------------------
(***************************************************************************)
(* The payment records of one registration (payment/service.py, models.py) *)
(* and everything that writes them at the same time: the visitor who       *)
(* registers, the provider's webhooks, the treasurer, and the changes of   *)
(* the order, which bring the records to the new total.                    *)
(*                                                                         *)
(* A request reads the records, works on its own copy, and commits in a    *)
(* later step.  A commit writes the columns the request changed and no     *)
(* others, and only the webhook locks what it reads.                       *)
(*                                                                         *)
(* One treasurer works at a time.  Amounts are whole euros.                *)
(***************************************************************************)
EXTENDS Integers, FiniteSets, Functions

CONSTANTS
  Failures,    \* the statuses of a payment that did not come off: failed, cancelled
  None,        \* no amount was booked, nothing was filled in
  Products,    \* the products of the component
  Price,       \* [Products -> Nat]: what counts in the total
  MaxQuantity, \* bound: pieces of a product in one request
  MaxRecord,   \* bound: records of the registration, deleted ones included
  Admins,      \* requests that change the order
  Calls,       \* calls of the webhook
  MaxChanges,  \* bound: changes of the order
  MaxEdits,    \* bound: requests of the treasurer
  MaxCrashes   \* bound: how often every open request is lost

ASSUME NoneAssumption == None \notin Int
ASSUME PriceAssumption == IsFiniteSet(Products) /\ Price \in [Products -> Nat]
ASSUME MaxRecordAssumption == MaxRecord \in Nat \ {0} /\ MaxQuantity \in Nat

Records == 1..MaxRecord

VARIABLES
  row,        \* [Records -> Row \cup {NoRow}]: payment_records, in the order they came
  line,       \* [Products -> Nat]: the order of the registration
  visitor,    \* "idle", "starting" at the provider, "registered", "refused" or "gone"
  provider,   \* what the provider says of the online payment, record 1
  notice,     \* the provider has a change that no call has told yet
  treasurer,  \* the request of the treasurer
  change,     \* [Admins -> Change]
  call,       \* [Calls -> Answers]: what the provider answered a call of the webhook
  counts      \* [changes, edits, crashes], for the bounds

vars == <<row, line, visitor, provider, notice, treasurer, change, call, counts>>

PaymentStatus == {"PENDING", "PAID"} \cup Failures

\* "MISMATCH": paid, with another amount or currency than was asked.
Answers == PaymentStatus \cup {"MISMATCH", "none"}

Row == [refund : BOOLEAN, online : BOOLEAN, amount : Int, paid : Int \cup {None},
        status : PaymentStatus, dated : BOOLEAN, deleted : BOOLEAN]

NoRow == [refund |-> FALSE, online |-> FALSE, amount |-> 0, paid |-> None,
          status |-> "PENDING", dated |-> FALSE, deleted |-> TRUE]

NewRow(amount, online) ==
  [refund |-> amount < 0, online |-> online, amount |-> amount, paid |-> None,
   status |-> "PENDING", dated |-> FALSE, deleted |-> FALSE]

Rows == [Records -> Row]

\* What a treasurer's request read, and the provider's answer when it asked.
NoRequest == [busy |-> FALSE, rows |-> [i \in Records |-> NoRow], answer |-> "none"]
Request == [busy : BOOLEAN, rows : Rows, answer : Answers]

\* A change of the order: what it read (was, rows), the order as it will be (to).
\* "changed": update_order_line committed the line, and has yet to reconcile.
NoOrder == [p \in Products |-> 0]
NoChange == [step |-> "idle", was |-> NoOrder, to |-> NoOrder,
             rows |-> [i \in Records |-> NoRow], removes |-> FALSE]
Change == [step : {"idle", "changed", "reconciling"}, was : [Products -> Nat],
           to : [Products -> Nat], rows : Rows, removes : BOOLEAN]

Init ==
  /\ row = [i \in Records |-> NoRow]
  /\ line = NoOrder
  /\ visitor = "idle"
  /\ provider = "none"
  /\ notice = FALSE
  /\ treasurer = NoRequest
  /\ change = [a \in Admins |-> NoChange]
  /\ call = [c \in Calls |-> "none"]
  /\ counts = [changes |-> 0, edits |-> 0, crashes |-> 0]

-----------------------------------------------------------------------------
\* The records and what is computed from them.

\* The rows a query sees: those that exist and are not soft-deleted.
Living(rows) == { i \in Records : ~rows[i].deleted }

\* _amount, for a column that may be empty.
Booked(r) == IF r.paid = None THEN 0 ELSE r.paid

\* amount_received, net_paid.
NetPaid(rows) == SumFunctionOnSet([i \in Records |-> Booked(rows[i])], Living(rows))

\* What the records ask for, together.
Claimed(rows) == SumFunctionOnSet([i \in Records |-> rows[i].amount], Living(rows))

\* compute_registration_total.
Total(order) == SumFunctionOnSet([p \in Products |-> Price[p] * order[p]], Products)

Between(booked, amount) ==
  \/ 0 <= booked /\ booked <= amount
  \/ amount <= booked /\ booked <= 0

\* check, and the two CHECKs of the table.
Sound(r) ==
  /\ ~r.deleted => IF r.refund THEN r.amount < 0 ELSE r.amount > 0
  /\ r.paid # None => Between(r.paid, r.amount)

\* covers.
Covers(r, booked) == IF r.amount < 0 THEN booked <= r.amount ELSE booked >= r.amount

\* mark_paid: None books the full amount.
MarkPaid(r, booked) ==
  LET b == IF booked = None THEN r.amount ELSE booked
  IN [r EXCEPT !.paid = b, !.dated = TRUE,
               !.status = IF Covers(r, b) THEN "PAID" ELSE "PENDING"]

\* cancel.
Cancel(r, status) == [r EXCEPT !.status = status, !.paid = None, !.dated = FALSE]

\* Mutant: the status of the provider is compared as a word with a member: never equal.
GatewayUpdateLost(r, status) == r

\* Mutant: a repeated "paid" books again.
GatewayUpdateAgain(r, status) ==
  IF r.status # status /\ status = "PAID" THEN MarkPaid(r, None)
  ELSE [r EXCEPT !.status = status]

\* handle_gateway_update, for one record.
GatewayUpdate(r, status) ==
  IF r.status # status /\ status = "PAID" /\ ~r.dated THEN MarkPaid(r, None)
  ELSE [r EXCEPT !.status = status]

\* The columns that a request changed are written over the row as it is now.  A date
\* that was set counts as unchanged: only the treasurer clears one.
Written(now, read, new) ==
  [now EXCEPT !.amount = IF new.amount = read.amount THEN @ ELSE new.amount,
              !.paid = IF new.paid = read.paid THEN @ ELSE new.paid,
              !.status = IF new.status = read.status THEN @ ELSE new.status,
              !.dated = IF new.dated = read.dated THEN @ ELSE new.dated,
              !.deleted = IF new.deleted = read.deleted THEN @ ELSE new.deleted]

Unused == { i \in Records : row[i] = NoRow }

\* The record that comes next.
NextRecord(i) == i \in Unused /\ \A k \in Unused : i <= k

Busy == { a \in Admins : change[a].step # "idle" }

\* Bound: a request starts when there is a record left for each open request.
RecordLeft ==
  Cardinality(Unused) > Cardinality(Busy) + (IF treasurer.busy THEN 1 ELSE 0)

-----------------------------------------------------------------------------
\* The visitor registers, and the payer pays.

Orders == { order \in [Products -> 0..MaxQuantity] : Total(order) > 0 }

Registered(order, online) ==
  /\ visitor' = "registered"
  /\ line' = order
  /\ row' = [row EXCEPT ![1] = NewRow(Total(order), online)]
  /\ UNCHANGED <<notice, treasurer, change, call, counts>>

RegisterTransfer ==
  /\ visitor = "idle"
  /\ \E order \in Orders : Registered(order, FALSE)
  /\ UNCHANGED provider

\* create_payment calls the provider inside the transaction of the registration.
StartOnline ==
  /\ visitor = "idle"
  /\ visitor' = "starting"
  /\ provider' = "PENDING"
  /\ UNCHANGED <<row, line, notice, treasurer, change, call, counts>>

RegisterOnline ==
  /\ visitor = "starting"
  /\ \E order \in Orders : Registered(order, TRUE)
  /\ UNCHANGED provider

\* No checkout address, or a later statement failed: everything but the provider's
\* payment is rolled back.
RegistrationFails ==
  /\ visitor = "starting"
  /\ visitor' = "refused"
  /\ UNCHANGED <<row, line, provider, notice, treasurer, change, call, counts>>

\* Only who got the checkout address can pay; the provider lets a payment expire.
PaymentEnds ==
  /\ provider = "PENDING"
  /\ \/ visitor = "registered" /\ provider' \in Answers \ {"PENDING", "none"}
     \/ visitor = "refused" /\ provider' \in Failures
  /\ notice' = TRUE
  /\ UNCHANGED <<row, line, visitor, treasurer, change, call, counts>>

-----------------------------------------------------------------------------
\* The webhook.  The provider calls until it is answered, and may call again.

GatewayPaymentExists == row[1].online

\* refresh_payment_status asks the provider.
CallAsks(c) ==
  /\ call[c] = "none"
  /\ GatewayPaymentExists
  /\ call' = [call EXCEPT ![c] = provider]
  /\ UNCHANGED <<row, line, visitor, provider, notice, treasurer, change, counts>>

\* The provider has told what it says now.
Told(answer) == notice' = (notice /\ answer # provider)

CallEnds(c) ==
  /\ call' = [call EXCEPT ![c] = "none"]
  /\ UNCHANGED <<line, visitor, provider, treasurer, change, counts>>

\* handle_gateway_update on the row, read and locked now; a deleted one is not found.
CallCommits(c) ==
  /\ call[c] \in PaymentStatus
  /\ CallEnds(c)
  /\ row' = [row EXCEPT ![1] = IF @.deleted THEN @ ELSE GatewayUpdate(@, call[c])]
  /\ Sound(row'[1])
  /\ Told(call[c])

\* needs_review is no PaymentStatus: the call raises and nothing is kept.
CallRaises(c) ==
  /\ call[c] = "MISMATCH"
  /\ CallEnds(c)
  /\ UNCHANGED <<row, notice>>

\* The payment of a registration that was rolled back.
CallIgnored ==
  /\ notice
  /\ ~GatewayPaymentExists
  /\ notice' = FALSE
  /\ UNCHANGED <<row, line, visitor, provider, treasurer, change, call, counts>>

-----------------------------------------------------------------------------
\* The treasurer: a screen action reads, and commits in a later step.

TreasurerReads ==
  /\ ~treasurer.busy
  /\ Living(row) # {}
  /\ treasurer' = [busy |-> TRUE, rows |-> row, answer |-> "none"]
  /\ RecordLeft /\ counts.edits < MaxEdits
  /\ counts' = [counts EXCEPT !.edits = @ + 1]
  /\ UNCHANGED <<row, line, visitor, provider, notice, change, call>>

\* "Ververs" asks the provider.
TreasurerAsks ==
  /\ treasurer.busy
  /\ 1 \in Living(treasurer.rows)
  /\ treasurer.rows[1].online
  /\ treasurer.answer = "none"
  /\ treasurer' = [treasurer EXCEPT !.answer = provider]
  /\ UNCHANGED <<row, line, visitor, provider, notice, change, call, counts>>

TreasurerEnds ==
  /\ treasurer' = NoRequest
  /\ UNCHANGED <<line, visitor, provider, notice, change, call, counts>>

\* The commit of a request that changed record i of those it read.
TreasurerSaves(i, new) ==
  /\ row' = [row EXCEPT ![i] = Written(@, treasurer.rows[i], new)]
  /\ Sound(row'[i])
  /\ TreasurerEnds

Seen == IF treasurer.busy /\ treasurer.answer = "none" THEN Living(treasurer.rows) ELSE {}

\* What a treasurer can fill in for a record, on its side of zero.
Bookings(r) == (IF r.refund THEN r.amount..0 ELSE 0..r.amount) \cup {None}

Refunded(rows) == SumFunctionOnSet([i \in Records |-> Booked(rows[i])],
                                   { i \in Living(rows) : rows[i].refund })

\* confirm_manual_payment refuses to lower what came in on a charge after a refund.
MayConfirm(rows, i, booked) ==
  (booked # None /\ ~rows[i].refund /\ Refunded(rows) # 0) => booked >= Booked(rows[i])

ConfirmPayment(i, booked) ==
  /\ booked \in Bookings(treasurer.rows[i])
  /\ MayConfirm(treasurer.rows, i, booked)
  /\ TreasurerSaves(i, MarkPaid(treasurer.rows[i], booked))

\* Mutant: an amount that is typed in gets no date.
EditedUndated(r, status, booked) ==
  [r EXCEPT !.status = IF status = None THEN @ ELSE status,
            !.paid = IF booked = None THEN @ ELSE booked]

\* edit_payment_record, below its two ways to confirm_manual_payment.
Edited(r, status, booked) ==
  [r EXCEPT !.status = IF status = None THEN @ ELSE status,
            !.paid = IF booked = None THEN @ ELSE booked,
            !.dated = @ \/ booked \notin {None, 0}]

\* The edit settles the record: posted as paid, or in full on an open record.
Settles(r, status, booked) ==
  \/ status = "PAID"
  \/ booked # None /\ r.status = "PENDING" /\ status \in {None, "PENDING"} /\ Covers(r, booked)

EditPayment(i, status, booked) ==
  /\ booked \in Bookings(treasurer.rows[i])
  /\ IF Settles(treasurer.rows[i], status, booked)
     THEN /\ MayConfirm(treasurer.rows, i, booked)
          /\ TreasurerSaves(i, MarkPaid(treasurer.rows[i], booked))
     ELSE TreasurerSaves(i, Edited(treasurer.rows[i], status, booked))

\* set_payment_status.
SetStatus(i, status) ==
  /\ TreasurerSaves(i, IF status = "PAID"
                       THEN MarkPaid(treasurer.rows[i], treasurer.rows[i].paid)
                       ELSE Cancel(treasurer.rows[i], status))

\* refresh_record_status: the row it read before it asked, unless it is deleted by now.
RefreshStatus ==
  /\ treasurer.busy
  /\ treasurer.answer \in PaymentStatus
  /\ IF row[1].deleted
     THEN UNCHANGED row /\ TreasurerEnds
     ELSE TreasurerSaves(1, GatewayUpdate(treasurer.rows[1], treasurer.answer))

\* deletion_refusal.
MayDelete(r) == ~(r.online /\ r.status = "PAID") /\ Booked(r) = 0

\* verwijder_betaling.
DeletePayment(i) ==
  /\ MayDelete(treasurer.rows[i])
  /\ TreasurerSaves(i, [treasurer.rows[i] EXCEPT !.deleted = TRUE])

\* create_refund, not settled.
RegisterRefund(i, amount) ==
  /\ ~treasurer.rows[i].refund
  /\ amount \in 1..NetPaid(treasurer.rows)
  /\ \E k \in Unused : NextRecord(k) /\ row' = [row EXCEPT ![k] = NewRow(-amount, FALSE)]
  /\ TreasurerEnds

\* Refused by one of the rules above, by a CHECK at the commit, or needs_review.
TreasurerRefused ==
  /\ treasurer.busy
  /\ UNCHANGED row
  /\ TreasurerEnds

-----------------------------------------------------------------------------
\* A change of the order, in the back office.

\* The lines that a request has written and not committed: their rows are locked.
Changed(was, to) == { p \in Products : was[p] > 0 /\ was[p] # to[p] }
Held == UNION { Changed(change[a].was, change[a].to) : a \in Busy }

MayChange(a) ==
  /\ change[a].step = "idle"
  /\ visitor = "registered"
  /\ RecordLeft /\ counts.changes < MaxChanges
  /\ counts' = [counts EXCEPT !.changes = @ + 1]

\* The request reads the order and writes its lines, waiting for those another holds,
\* computes the total and reads the records.
Reconciles(a, to, removes) ==
  /\ Changed(line, to) \cap Held = {}
  /\ change' = [change EXCEPT ![a] = [step |-> "reconciling", was |-> line, to |-> to,
                                     rows |-> row, removes |-> removes]]
  /\ UNCHANGED <<row, line, visitor, provider, notice, treasurer, call>>

\* set_order_quantities, of one product.
SetOrderQuantities(a, p, quantity) ==
  /\ MayChange(a)
  /\ quantity # line[p]
  /\ Reconciles(a, [line EXCEPT ![p] = quantity], FALSE)

\* delete_registration: its lines go, and the records follow to a total of 0.
DeleteRegistration(a) ==
  /\ MayChange(a)
  /\ Reconciles(a, NoOrder, TRUE)

\* update_order_line commits the line, of this or another product, by itself.
UpdateOrderLine(a, p, product, quantity) ==
  /\ MayChange(a)
  /\ line[p] > 0 /\ p \notin Held
  /\ quantity > 0
  /\ line' = [q \in Products |-> (IF q = p THEN 0 ELSE line[q])
                                + (IF q = product THEN quantity ELSE 0)]
  /\ change' = [change EXCEPT ![a].step = "changed"]
  /\ UNCHANGED <<row, visitor, provider, notice, treasurer, call>>

\* ... and goes on to reconcile, with everything read again.
UpdateReconciles(a) ==
  /\ change[a].step = "changed"
  /\ Reconciles(a, line, FALSE)
  /\ UNCHANGED counts

\* reconcile_charges: a record on which nothing came in goes, another closes on
\* what came in.
Closed(r) == IF Booked(r) = 0 THEN [r EXCEPT !.deleted = TRUE]
             ELSE [r EXCEPT !.amount = r.paid]

\* Mutant: what was paid back does not count.
OutstandingGross(rows, total) ==
  total - SumFunctionOnSet([i \in Records |-> Booked(rows[i])],
                           { i \in Living(rows) : ~rows[i].refund })

Outstanding(rows, total) == total - NetPaid(rows)

\* Mutant: the records on which nothing came in stay.
ClosesPaid(rows, i) == i \in Living(rows) /\ Booked(rows[i]) # 0

Closes(rows, i) == i \in Living(rows)

\* The records as the reconciliation writes them over what they are now, and the one
\* post for what is outstanding.
Reconciled(rows, total) ==
  LET closed == [i \in Records |-> IF Closes(rows, i)
                                   THEN Written(row[i], rows[i], Closed(rows[i])) ELSE row[i]]
      outstanding == Outstanding(rows, total)
      new == CHOOSE i \in Unused : NextRecord(i)
  IN IF \/ outstanding > 0
        \/ outstanding < 0 /\ \E i \in Living(rows) : ~rows[i].refund /\ Booked(rows[i]) > 0
     THEN [closed EXCEPT ![new] = NewRow(outstanding, FALSE)]
     ELSE closed

\* Mutant: what the request changed is taken back instead of carried over.
NewOrderSwapped(was, to) == [p \in Products |-> line[p] - to[p] + was[p]]

\* The lines as they are now, with what the request changed: a changed line is its own,
\* an inserted one comes beside one that another inserted.
NewOrder(was, to) == [p \in Products |-> line[p] - was[p] + to[p]]

ChangeCommits(a) ==
  /\ change[a].step = "reconciling"
  /\ change' = [change EXCEPT ![a] = NoChange]
  /\ row' = Reconciled(change[a].rows, Total(change[a].to))
  /\ \A i \in Records : row'[i] # row[i] => Sound(row'[i])
  /\ line' = NewOrder(change[a].was, change[a].to)
  /\ visitor' = IF change[a].removes THEN "gone" ELSE visitor
  /\ UNCHANGED <<provider, notice, treasurer, call, counts>>

\* A CHECK refuses, or a later statement fails: the request is rolled back.
ChangeRollsBack(a) ==
  /\ change[a].step # "idle"
  /\ change' = [change EXCEPT ![a] = NoChange]
  /\ UNCHANGED <<row, line, visitor, provider, notice, treasurer, call, counts>>

\* The process stops: what was not committed is lost.
Crash ==
  /\ counts.crashes < MaxCrashes
  /\ counts' = [counts EXCEPT !.crashes = @ + 1]
  /\ treasurer' = NoRequest
  /\ change' = [a \in Admins |-> NoChange]
  /\ call' = [c \in Calls |-> "none"]
  /\ visitor' = IF visitor = "starting" THEN "refused" ELSE visitor
  /\ UNCHANGED <<row, line, provider, notice>>

-----------------------------------------------------------------------------
Visitor == RegisterTransfer \/ StartOnline \/ RegisterOnline \/ RegistrationFails \/ PaymentEnds

Webhook(c) == CallAsks(c) \/ CallCommits(c) \/ CallRaises(c)

Treasurer ==
  \/ TreasurerReads \/ TreasurerAsks \/ RefreshStatus \/ TreasurerRefused
  \/ \E i \in Seen :
       \/ \E booked \in Bookings(treasurer.rows[i]) :
            \/ ConfirmPayment(i, booked)
            \/ \E status \in PaymentStatus \cup {None} : EditPayment(i, status, booked)
       \/ \E status \in PaymentStatus : SetStatus(i, status)
       \/ DeletePayment(i)
       \/ \E amount \in 1..NetPaid(treasurer.rows) : RegisterRefund(i, amount)

Admin(a) ==
  \/ \E p \in Products, quantity \in 0..MaxQuantity :
       \/ SetOrderQuantities(a, p, quantity)
       \/ \E product \in Products : UpdateOrderLine(a, p, product, quantity)
  \/ DeleteRegistration(a)
  \/ UpdateReconciles(a) \/ ChangeCommits(a) \/ ChangeRollsBack(a)

Next ==
  \/ Visitor
  \/ CallIgnored
  \/ \E c \in Calls : Webhook(c)
  \/ Treasurer
  \/ \E a \in Admins : Admin(a)
  \/ Crash

\* The provider calls until it is answered, and a call that asked is carried out.
Fairness == \A c \in Calls : WF_vars(notice /\ CallAsks(c)) /\ WF_vars(CallCommits(c) \/ CallRaises(c))

Spec == Init /\ [][Next]_vars /\ Fairness

-----------------------------------------------------------------------------
\* The types, and the two CHECKs of payment_records on every row.
TypeOK ==
  /\ row \in Rows /\ \A i \in Records : Sound(row[i])
  /\ line \in [Products -> Nat]
  /\ visitor \in {"idle", "starting", "registered", "refused", "gone"}
  /\ provider \in Answers
  /\ notice \in BOOLEAN
  /\ treasurer \in Request
  /\ change \in [Admins -> Change]
  /\ call \in [Calls -> Answers]
  /\ counts \in [changes : Nat, edits : Nat, crashes : Nat]

\* "No paid without a date" (edit_payment_record, #346): an amount that is booked has
\* its date, whatever the webhook and a change of the order wrote between the
\* treasurer's read and commit.
BookedIsDated ==
  \A i \in Records : row[i].paid \notin {None, 0} => row[i].dated

\* A repeated, late or contradicting webhook never books again and never takes back
\* what is booked (handle_gateway_update, #91).
WebhookKeepsBooking ==
  [][\A c \in Calls : CallCommits(c) => \A i \in Records :
       row[i].dated => row'[i].dated /\ row'[i].paid = row[i].paid]_vars

\* Nobody else changed the order, or added, removed or re-priced a record.
NotOvertaken(a) ==
  /\ line = change[a].was
  /\ Living(row) = Living(change[a].rows)
  /\ \A i \in Living(row) : row[i].amount = change[a].rows[i].amount

\* The invariant of reconcile_charges (P12): after a change of the order that no other
\* change overtook, the records ask for the total of the order, even if money was
\* booked on them meanwhile.
ClaimFollowsOrder ==
  [][\A a \in Admins : ChangeCommits(a) /\ NotOvertaken(a)
       => Claimed(row') = Total(line')]_vars

\* "One open post": after a change of the order on records that did not move, at most
\* one record is not booked in full, and what came in counts as before.
OneOpenPost ==
  [][\A a \in Admins : ChangeCommits(a) /\ row = change[a].rows
       => /\ Cardinality({ i \in Living(row') : Booked(row'[i]) # row'[i].amount }) <= 1
          /\ NetPaid(row') = NetPaid(row)]_vars

\* A payment that the provider confirms is booked on its record, unless the record is
\* deleted: whatever calls, answers and requests were lost or came late.
PaidIsSettled ==
  (provider = "PAID" /\ notice) ~> (row[1].deleted \/ row[1].status = "PAID")

\* "Its state follows from its amounts" (PaymentRecord, #720): a record that says it
\* is paid is booked in full.
PaidIsCovered ==
  \A i \in Living(row) : row[i].status = "PAID" => Covers(row[i], Booked(row[i]))
-----------------------------------------------------------------------------
\* The inductive invariant behind the properties above.

\* A registration that is not made has no records, and nobody works on it.
NotStarted ==
  visitor \in {"idle", "starting", "refused"} =>
    /\ row = [i \in Records |-> NoRow]
    /\ Busy = {}
    /\ ~treasurer.busy

\* A record that exists asks for an amount, and one that a request read exists.
RecordsStay ==
  /\ \A i \in Records : row[i].amount = 0 => row[i] = NoRow
  /\ \A i \in Living(treasurer.rows) : row[i].amount # 0
  /\ \A a \in Admins : \A i \in Living(change[a].rows) : row[i].amount # 0

\* The records that a change read are sound.
ReadIsSound == \A a \in Admins : \A i \in Records : Sound(change[a].rows[i])

\* A booking that the treasurer read with its date is there unaltered.
DatesKept ==
  treasurer.busy => \A i \in Records :
    treasurer.rows[i].dated => row[i].dated /\ row[i].paid = treasurer.rows[i].paid

\* The lines that an open request changed are its own: nobody took from them.
LinesAreLocked ==
  \A a \in Admins :
    /\ change[a].step # "reconciling" => Changed(change[a].was, change[a].to) = {}
    /\ \A p \in Changed(change[a].was, change[a].to) : line[p] >= change[a].was[p]
    /\ \A b \in Admins \ {a} :
         Changed(change[a].was, change[a].to) \cap Changed(change[b].was, change[b].to) = {}

\* Every open request finds a record for its post.
RecordForEach ==
  /\ IsFiniteSet(Busy)
  /\ Cardinality(Unused) >= Cardinality(Busy) + (IF treasurer.busy THEN 1 ELSE 0)

Inv ==
  /\ TypeOK /\ BookedIsDated
  /\ NotStarted /\ RecordsStay /\ ReadIsSound /\ DatesKept /\ LinesAreLocked /\ RecordForEach
=============================================================================
