-------------------------------- MODULE Shop --------------------------------
(***************************************************************************)
(* The webshop: the orders of `sales` (sales/service.py) on the ledger of  *)
(* `stock` (stock/service.py), as requests that run at the same time.      *)
(*                                                                         *)
(* Every request is one database transaction at READ COMMITTED.  It reads  *)
(* what is committed with its own writes on top, takes the locks the code  *)
(* takes (advisory per variant, the row of a line, the unique index on the *)
(* form's key), holds them to its end, and commits or rolls back.  A step  *)
(* of this module is the code between two points where another             *)
(* transaction's commit can be seen or a lock can block.                   *)
(*                                                                         *)
(* Prices are one per piece, so an order's total is its number of pieces.  *)
(***************************************************************************)
EXTENDS StockOps, Sequences

CONSTANTS
  Clerks,       \* database sessions: each serves one request at a time
  Forms,        \* order forms shown to visitors, by their signed key
  Baskets,      \* what an order form posts: sequences of items, in any order
  Targets,      \* what a change form posts: the items the order is to have
  MaxOrder      \* bound: orders the sequence hands out

Orders == 1..MaxOrder

Item == [variant : Variants, quantity : 0..(MaxQuantity + 1)]

ASSUME BasketsAssumption == Baskets \subseteq Seq(Item) /\ Targets \subseteq Seq(Item)
ASSUME MaxOrderAssumption == MaxOrder \in Nat

VARIABLES
  \* Committed rows.  A row inserted and not committed is PENDING: only its
  \* own transaction sees it.
  stock,        \* [Variants -> Int]: the sum of the movements
  reservation,  \* [Lines -> Reservation \cup {NoReservation}]
  issues,       \* [Lines -> Nat]: the GOODS_ISSUE movements of the line
  line,         \* [Lines -> LineRow \cup {NoLine}]: sales_order_lines
  delivered,    \* lines with a delivered_at
  removed,      \* lines with a deleted_at
  order,        \* [Orders -> OrderRow]: sales_orders
  due,          \* [Orders -> Nat]: the total payment was last told
  \* The requests that run.
  pc,           \* [Clerks -> Steps]: what the request does next
  req,          \* [Clerks -> Request]: its inputs and what it has read
  made,         \* [Clerks -> SUBSET Lines]: lines it has reserved
  freed,        \* [Clerks -> SUBSET Lines]: reservations it has cancelled
  handed,       \* [Clerks -> SUBSET Lines]: reservations it has delivered
  dropped,      \* [Clerks -> SUBSET Lines]: lines it has soft-deleted
  locks         \* [Clerks -> SUBSET Resources]: locks it holds

rows == <<stock, reservation, issues, line, delivered, removed, order, due>>
session == <<pc, req, made, freed, handed, dropped, locks>>
vars == <<rows, session>>

-----------------------------------------------------------------------------
\* Rows and requests.

LineRow == [order : Orders, variant : Variants, quantity : Quantities]
NoLine == [order |-> 0, variant |-> 0, quantity |-> 0]

NoForm == "none"
OrderRow == [status : {"NONE", "PENDING", "PLACED", "CANCELLED"},
             form : Forms \cup {NoForm}]
NoOrder == [status |-> "NONE", form |-> NoForm]

\* todo: positions of the basket still to reserve; drop: lines still to
\* release; due: the total it published.
Request == [kind : {"none", "place", "change", "cancel", "deliver"},
            form : Forms \cup {NoForm}, order : 0..MaxOrder, line : 0..MaxLine,
            basket : Baskets \cup Targets \cup { << >> }, todo : SUBSET Nat,
            drop : SUBSET Lines, due : Nat]
NoRequest == [kind |-> "none", form |-> NoForm, order |-> 0, line |-> 0,
              basket |-> << >>, todo |-> {}, drop |-> {}, due |-> 0]

Steps == {"idle", "insert_order", "item", "reserve", "release", "release_locked",
          "flush", "lock_line", "issue", "issue_locked", "commit"}

Resources == ({"variant"} \X Variants) \cup ({"line"} \X Lines) \cup ({"form"} \X Forms)

Init ==
  /\ stock = [v \in Variants |-> 0]
  /\ reservation = [l \in Lines |-> NoReservation]
  /\ issues = [l \in Lines |-> 0]
  /\ line = [l \in Lines |-> NoLine]
  /\ delivered = {}
  /\ removed = {}
  /\ order = [o \in Orders |-> NoOrder]
  /\ due = [o \in Orders |-> 0]
  /\ pc = [p \in Clerks |-> "idle"]
  /\ req = [p \in Clerks |-> NoRequest]
  /\ made = [p \in Clerks |-> {}]
  /\ freed = [p \in Clerks |-> {}]
  /\ handed = [p \in Clerks |-> {}]
  /\ dropped = [p \in Clerks |-> {}]
  /\ locks = [p \in Clerks |-> {}]

-----------------------------------------------------------------------------
\* What a transaction reads.

Open == { l \in Lines : reservation[l].status = "OPEN" }

\* The open reservations p sees: the committed ones, under its own writes.
OpenFor(p) == (Open \cup made[p]) \ (freed[p] \cup handed[p])

AvailableFor(p, v) == Available(stock, reservation, OpenFor(p), v)

Live(o) == order[o].status = "PLACED"

\* order_for_submission: the live order a form already made.
Accepted(f) == \E o \in Orders : Live(o) /\ order[o].form = f

\* order.lines, without the soft-deleted ones.  A line and its reservation
\* commit together.
LinesOf(o) ==
  { l \in Lines : /\ line[l].order = o
                  /\ reservation[l].status \notin {"NONE", "PENDING"}
                  /\ l \notin removed }

\* total_of, as p reads it after its own changes.
TotalFor(p) ==
  LET mine == (LinesOf(req[p].order) \cup made[p]) \ dropped[p]
  IN Cardinality({ piece \in mine \X Quantities : piece[2] <= line[piece[1]].quantity })

\* A sequence hands out the next number.  A number nobody kept is used again
\* here: only the order of the numbers matters.
NextNumber(n, used) == (\A m \in used : m < n) /\ (n = 1 \/ n - 1 \in used)

UsedOrders == { o \in Orders : order[o].status # "NONE" }
UsedLines == { l \in Lines : line[l] # NoLine }
UsedIds(v) == { reservation[l].id : l \in { k \in Lines : reservation[k].variant = v } }

-----------------------------------------------------------------------------
\* Locks: a resource has one holder, a request waits for all it wants.

FirstToDrop(p) == { l \in req[p].drop : \A k \in req[p].drop : l <= k }

\* Mutant: the items are served as they were posted.
NextItemAsPosted(p, i) == i \in req[p].todo /\ \A j \in req[p].todo : i <= j

\* The items are served by variant id, equal variants as posted.
NextItem(p, i) ==
  /\ i \in req[p].todo
  /\ \A j \in req[p].todo :
       \/ req[p].basket[i].variant < req[p].basket[j].variant
       \/ req[p].basket[i].variant = req[p].basket[j].variant /\ i <= j

\* Mutant: a lock of the order line, which no other order takes.
VariantLockOfLine(l) == <<"line", l>>

\* The advisory lock of the line's variant.
VariantLock(l) == <<"variant", line[l].variant>>

\* The release wrote a reservation, and what the session holds goes with it.
Flushes(p) == pc[p] = "flush" /\ FirstToDrop(p) \subseteq freed[p]

\* The soft deletes of a change wait in its session for the next flush: the
\* UPDATE of a line locks its row.
Wanted(p) ==
  CASE pc[p] = "insert_order"   -> { <<"form", req[p].form>> }
    [] pc[p] = "lock_line"      -> { <<"line", req[p].line>> }
    [] pc[p] \in {"reserve", "issue_locked"} -> { VariantLock(req[p].line) }
    [] pc[p] = "release_locked" -> { VariantLock(l) : l \in FirstToDrop(p) }
    [] pc[p] = "item" \/ Flushes(p) -> { <<"line", l>> : l \in dropped[p] }
    [] OTHER -> {}

WaitsFor(p, q) == q # p /\ Wanted(p) \cap locks[q] # {}

Free(p) == \A q \in Clerks : ~WaitsFor(p, q)

Take(p) == Free(p) /\ locks' = [locks EXCEPT ![p] = @ \cup Wanted(p)]

\* A set of requests each of which waits for another one of the set.
WaitCycle(S) == S # {} /\ \A p \in S : \E q \in S : WaitsFor(p, q)

Deadlocked(p) == \E S \in SUBSET Clerks : p \in S /\ WaitCycle(S)

-----------------------------------------------------------------------------
\* The end of a transaction.

\* Mutant: the session keeps its locks.
ForgetButLocks(p) ==
  /\ pc' = [pc EXCEPT ![p] = "idle"]
  /\ req' = [req EXCEPT ![p] = NoRequest]
  /\ made' = [made EXCEPT ![p] = {}]
  /\ freed' = [freed EXCEPT ![p] = {}]
  /\ handed' = [handed EXCEPT ![p] = {}]
  /\ dropped' = [dropped EXCEPT ![p] = {}]
  /\ UNCHANGED locks

Forget(p) ==
  /\ pc' = [pc EXCEPT ![p] = "idle"]
  /\ req' = [req EXCEPT ![p] = NoRequest]
  /\ made' = [made EXCEPT ![p] = {}]
  /\ freed' = [freed EXCEPT ![p] = {}]
  /\ handed' = [handed EXCEPT ![p] = {}]
  /\ dropped' = [dropped EXCEPT ![p] = {}]
  /\ locks' = [locks EXCEPT ![p] = {}]

\* The lines p inserted: those it reserved and the one it is about to.
Inserted(p) == made[p] \cup (IF pc[p] = "reserve" THEN {req[p].line} ELSE {})

\* db.rollback, and the end of a session without a commit.
RollBack(p) ==
  /\ pc[p] # "idle"
  /\ line' = [l \in Lines |-> IF l \in Inserted(p) THEN NoLine ELSE line[l]]
  /\ reservation' = [l \in Lines |-> IF l \in made[p] THEN NoReservation ELSE reservation[l]]
  /\ order' = [o \in Orders |->
                 IF o = req[p].order /\ order[o].status = "PENDING" THEN NoOrder ELSE order[o]]
  /\ Forget(p)
  /\ UNCHANGED <<stock, issues, delivered, removed, due>>

\* db.commit: every write of the request becomes visible at once.
Commit(p) ==
  LET o == req[p].order
      kind == req[p].kind
      status == [l \in Lines |->
                   CASE l \in freed[p]  -> "CANCELLED"
                     [] l \in handed[p] -> "DELIVERED"
                     [] l \in made[p]   -> "OPEN"
                     [] OTHER           -> reservation[l].status]
  IN /\ pc[p] = "commit"
     /\ reservation' = [l \in Lines |-> [reservation[l] EXCEPT !.status = status[l]]]
     /\ stock' = [v \in Variants |->
                    stock[v] - Cardinality(Pieces(reservation, handed[p], v))]
     /\ issues' = [l \in Lines |-> IF l \in handed[p] THEN issues[l] + 1 ELSE issues[l]]
     /\ delivered' = IF kind = "deliver" THEN delivered \cup {req[p].line} ELSE delivered
     /\ removed' = removed \cup dropped[p]
     /\ order' = CASE kind = "place"  -> [order EXCEPT ![o].status = "PLACED"]
                   [] kind = "cancel" -> [order EXCEPT ![o].status = "CANCELLED"]
                   [] OTHER           -> order
     /\ due' = IF kind = "deliver" THEN due ELSE [due EXCEPT ![o] = req[p].due]
     /\ Forget(p)
     /\ UNCHANGED line

-----------------------------------------------------------------------------
\* submit_order and place_order.

Step(p, here, there) == pc[p] = here /\ pc' = [pc EXCEPT ![p] = there]

Serve(p, request) == req' = [req EXCEPT ![p] = request]

\* parse_items: the same variant posted twice is one item.
OneItemPerVariant(basket) ==
  \A i, j \in DOMAIN basket : basket[i].variant = basket[j].variant => i = j

\* The form's key is looked up before every rule; a form already accepted is
\* answered with its order (order_again), which writes nothing.
SubmitOrder(p, f, basket) ==
  /\ Step(p, "idle", "insert_order")
  /\ ~Accepted(f)
  /\ basket # << >> /\ OneItemPerVariant(basket)
  /\ Serve(p, [kind |-> "place", form |-> f, order |-> 0, line |-> 0, basket |-> basket,
               todo |-> DOMAIN basket, drop |-> {}, due |-> 0])
  /\ UNCHANGED <<rows, made, freed, handed, dropped, locks>>

\* Mutant: only the lookup before the insert tells that the form was accepted.
KeyIsFreeUnchecked(p) == TRUE

\* The unique index on the form's key lets the insert through.
KeyIsFree(p) == ~Accepted(req[p].form)

\* The insert waits for another transaction's insert of the same key.
InsertOrder(p, o) ==
  /\ Step(p, "insert_order", "item")
  /\ Take(p)
  /\ KeyIsFree(p)
  /\ NextNumber(o, UsedOrders)
  /\ order' = [order EXCEPT ![o] = [status |-> "PENDING", form |-> req[p].form]]
  /\ req' = [req EXCEPT ![p].order = o]
  /\ UNCHANGED <<stock, reservation, issues, line, delivered, removed, due,
                 made, freed, handed, dropped>>

\* The unique key refused the insert: the first post's order is the answer.
AnswerAgain(p) ==
  /\ pc[p] = "insert_order"
  /\ Free(p)
  /\ ~KeyIsFree(p)
  /\ RollBack(p)

-----------------------------------------------------------------------------
\* The lines of place_order and change_order_lines: each is checked without
\* the lock, inserted, and reserved under it.

\* _stock_refusal, and reserve's own test of the same thing.
Orderable(p, v, q) == v \in PreOrder \/ AvailableFor(p, v) >= q

\* Mutant: any posted quantity is taken.
QuantityOffered(q) == q >= 0

\* 1 <= quantity <= tenant_max_item_quantity.
QuantityAllowed(q) == q \in Quantities

InsertLine(p, i, l) ==
  LET item == req[p].basket[i]
  IN /\ Step(p, "item", "reserve")
     /\ Take(p)
     /\ NextItem(p, i)
     /\ QuantityAllowed(item.quantity)
     /\ Orderable(p, item.variant, item.quantity)
     /\ NextNumber(l, UsedLines)
     /\ line' = [line EXCEPT ![l] = [order |-> req[p].order, variant |-> item.variant,
                                     quantity |-> item.quantity]]
     /\ req' = [req EXCEPT ![p].line = l]
     /\ UNCHANGED <<stock, reservation, issues, delivered, removed, order, due,
                    made, freed, handed, dropped>>

\* stock.reserve of the inserted line.
Reserve(p, i, id) ==
  LET l == req[p].line
  IN /\ Step(p, "reserve", "item")
     /\ NextItem(p, i)
     /\ Take(p)
     /\ Orderable(p, line[l].variant, line[l].quantity)
     /\ NextNumber(id, UsedIds(line[l].variant))
     /\ reservation' = [reservation EXCEPT ![l] =
                          [variant |-> line[l].variant, quantity |-> line[l].quantity,
                           id |-> id, status |-> "PENDING"]]
     /\ made' = [made EXCEPT ![p] = @ \cup {l}]
     /\ req' = [req EXCEPT ![p].todo = @ \ {i}]
     /\ UNCHANGED <<stock, issues, line, delivered, removed, order, due,
                    freed, handed, dropped>>

\* The last line is reserved: CreatePayment and SalesOrderPlaced, or
\* SalesOrderChanged, carry the total payment is to expect.
Publish(p) ==
  /\ Step(p, "item", "commit")
  /\ req[p].todo = {}
  /\ Take(p)
  /\ req' = [req EXCEPT ![p].due = TotalFor(p)]
  /\ UNCHANGED <<rows, made, freed, handed, dropped>>

-----------------------------------------------------------------------------
\* change_order_lines and cancel_order.

SameItem(l, item) == line[l].variant = item.variant /\ line[l].quantity = item.quantity

\* change_plan: delivered lines are matched first, then by id.
MatchedBefore(k, l) ==
  \/ k \in delivered /\ l \notin delivered
  \/ (k \in delivered <=> l \in delivered) /\ k < l

\* The target has a place for l after the twins matched before it.
Kept(o, basket, l) ==
  Cardinality({ k \in LinesOf(o) : SameItem(k, line[l]) /\ MatchedBefore(k, l) })
    < Cardinality({ i \in DOMAIN basket : SameItem(l, basket[i]) })

\* Position i of the target is a line that stays.
Stays(o, basket, i) ==
  Cardinality({ j \in DOMAIN basket : j < i /\ basket[j] = basket[i] })
    < Cardinality({ l \in LinesOf(o) : SameItem(l, basket[i]) })

\* The order and its lines are read once, without a lock.  A change that does
\* not keep every delivered line is refused.
StartChange(p, o, target) ==
  /\ Step(p, "idle", "release")
  /\ Live(o)
  /\ target # << >>
  /\ \A i \in DOMAIN target : QuantityAllowed(target[i].quantity)
  /\ \A l \in LinesOf(o) \cap delivered : Kept(o, target, l)
  /\ Serve(p, [kind |-> "change", form |-> NoForm, order |-> o, line |-> 0, basket |-> target,
               todo |-> { i \in DOMAIN target : ~Stays(o, target, i) },
               drop |-> { l \in LinesOf(o) \ delivered : ~Kept(o, target, l) }, due |-> 0])
  /\ UNCHANGED <<rows, made, freed, handed, dropped, locks>>

\* cancel_order reads the order and its lines, without a lock, and refuses
\* when it sees a delivered one.
StartCancel(p, o) ==
  /\ Step(p, "idle", "release")
  /\ Live(o)
  /\ LinesOf(o) \cap delivered = {}
  /\ Serve(p, [kind |-> "cancel", form |-> NoForm, order |-> o, line |-> 0, basket |-> << >>,
               todo |-> {}, drop |-> LinesOf(o), due |-> 0])
  /\ UNCHANGED <<rows, made, freed, handed, dropped, locks>>

\* The line is done: a change soft-deletes it, a cancelled order keeps it.
Drop(p, l) ==
  /\ req' = [req EXCEPT ![p].drop = @ \ {l}]
  /\ dropped' = IF req[p].kind = "change" THEN [dropped EXCEPT ![p] = @ \cup {l}] ELSE dropped

\* stock.release of the next line, which has no open reservation.
ReleaseNothing(p, l) ==
  /\ pc[p] = "release"
  /\ l \in FirstToDrop(p)
  /\ l \notin OpenFor(p)
  /\ Drop(p, l)
  /\ UNCHANGED <<rows, pc, made, freed, handed, locks>>

\* It has one: the first read finds the key of the lock.
ReadReservation(p, l) ==
  /\ Step(p, "release", "release_locked")
  /\ l \in FirstToDrop(p)
  /\ l \in OpenFor(p)
  /\ UNCHANGED <<rows, req, made, freed, handed, dropped, locks>>

\* Mutant: what the first read found is taken for granted under the lock.
StillOpenUnread(p, l) == {l}

\* _open_reservation_under_lock: the read under the lock decides.
StillOpen(p, l) == {l} \cap OpenFor(p)

Release(p, l) ==
  /\ Step(p, "release_locked", "flush")
  /\ l \in FirstToDrop(p)
  /\ Take(p)
  /\ freed' = [freed EXCEPT ![p] = @ \cup StillOpen(p, l)]
  /\ UNCHANGED <<rows, req, made, handed, dropped>>

\* The release is flushed, with the soft deletes before it; then the line goes.
Flush(p, l) ==
  /\ Step(p, "flush", "release")
  /\ l \in FirstToDrop(p)
  /\ Take(p)
  /\ Drop(p, l)
  /\ UNCHANGED <<rows, made, freed, handed>>

\* Everything is released: the change goes on to the lines it adds.
StartAdding(p) ==
  /\ Step(p, "release", "item")
  /\ req[p].kind = "change"
  /\ req[p].drop = {}
  /\ UNCHANGED <<rows, req, made, freed, handed, dropped, locks>>

\* The order is soft-deleted and payment is told a total of 0.
CancelOrder(p) ==
  /\ Step(p, "release", "commit")
  /\ req[p].kind = "cancel"
  /\ req[p].drop = {}
  /\ UNCHANGED <<rows, req, made, freed, handed, dropped, locks>>

-----------------------------------------------------------------------------
\* deliver_line.

StartDeliver(p, o, l) ==
  /\ Step(p, "idle", "lock_line")
  /\ Live(o)
  /\ l \in LinesOf(o)
  /\ Serve(p, [kind |-> "deliver", form |-> NoForm, order |-> o, line |-> l, basket |-> << >>,
               todo |-> {}, drop |-> {}, due |-> 0])
  /\ UNCHANGED <<rows, made, freed, handed, dropped, locks>>

\* Mutant: a line that waits for the supplier is handed over when the shelf
\* happens to hold enough for it.
DeliverableUncovered(l) == l \notin removed /\ l \notin delivered /\ l \in Open

Deliverable(l) ==
  /\ l \notin removed
  /\ l \notin delivered
  /\ l \in Open
  /\ Covered(stock, reservation, Open, l)

\* The line is read FOR UPDATE, and its reservation without the variant's lock.
LockLine(p) ==
  /\ Step(p, "lock_line", "issue")
  /\ Take(p)
  /\ Deliverable(req[p].line)
  /\ UNCHANGED <<rows, req, made, freed, handed, dropped>>

\* stock.issue finds no open reservation: nothing happens, and the line is
\* marked delivered all the same.
IssueNothing(p) ==
  /\ Step(p, "issue", "commit")
  /\ req[p].line \notin Open
  /\ UNCHANGED <<rows, req, made, freed, handed, dropped, locks>>

IssueRead(p) ==
  /\ Step(p, "issue", "issue_locked")
  /\ req[p].line \in Open
  /\ UNCHANGED <<rows, req, made, freed, handed, dropped, locks>>

\* On hand covers the line's own quantity.
OnHandCovers(l) == stock[line[l].variant] >= line[l].quantity

\* Under the lock the reservation is read again.
Issue(p) ==
  LET l == req[p].line
  IN /\ Step(p, "issue_locked", "commit")
     /\ Take(p)
     /\ \A k \in StillOpen(p, l) : OnHandCovers(k)
     /\ handed' = [handed EXCEPT ![p] = StillOpen(p, l)]
     /\ UNCHANGED <<rows, req, made, freed, dropped>>

-----------------------------------------------------------------------------
\* What ends a request before its commit.

\* A rule of the code refuses: the item, the reservation or the delivery.
Refused(p) ==
  \/ /\ pc[p] = "item"
     /\ \E i \in req[p].todo :
          /\ NextItem(p, i)
          /\ \/ ~QuantityAllowed(req[p].basket[i].quantity)
             \/ ~Orderable(p, req[p].basket[i].variant, req[p].basket[i].quantity)
  \/ /\ pc[p] = "reserve"
     /\ Free(p)
     /\ ~Orderable(p, line[req[p].line].variant, line[req[p].line].quantity)
  \/ /\ pc[p] = "lock_line"
     /\ Free(p)
     /\ ~Deliverable(req[p].line)
  \/ /\ pc[p] = "issue_locked"
     /\ Free(p)
     /\ \E l \in StillOpen(p, req[p].line) : ~OnHandCovers(l)

\* The bounds: a request that finds no number left ends.
NumbersUsedUp(p) ==
  \/ pc[p] = "insert_order" /\ MaxOrder \in UsedOrders
  \/ pc[p] = "item" /\ req[p].todo # {} /\ MaxLine \in UsedLines

Refuse(p) == (Refused(p) \/ NumbersUsedUp(p)) /\ RollBack(p)

\* PostgreSQL ends one transaction of a deadlock.
DeadlockVictim(p) == Deadlocked(p) /\ RollBack(p)

\* The provider refuses the payment, an article is withdrawn, the connection
\* or the process is lost.
Fail(p) == RollBack(p)

-----------------------------------------------------------------------------
\* Voorraadbeheer: one write and one lock, so one step.

LockFree(v) == \A p \in Clerks : <<"variant", v>> \notin locks[p]

BookReceipt(v, q) ==
  /\ LockFree(v)
  /\ stock[v] + q <= MaxStock
  /\ stock' = [stock EXCEPT ![v] = @ + q]
  /\ UNCHANGED <<reservation, issues, line, delivered, removed, order, due, session>>

\* Mutant: the correction forgets that pieces are reserved.
CorrectionFitsOnHand(v, q) == stock[v] + q >= 0

CorrectionFits(v, q) == Available(stock, reservation, Open, v) + q >= 0

\* correct: q is signed, a correction down leaves the open reservations covered.
ApplyCorrection(v, q) ==
  /\ LockFree(v)
  /\ q # 0
  /\ stock[v] + q <= MaxStock
  /\ q < 0 => CorrectionFits(v, q)
  /\ stock' = [stock EXCEPT ![v] = @ + q]
  /\ UNCHANGED <<reservation, issues, line, delivered, removed, order, due, session>>

-----------------------------------------------------------------------------
Start(p) ==
  \/ \E f \in Forms, basket \in Baskets : SubmitOrder(p, f, basket)
  \/ \E o \in Orders, target \in Targets : StartChange(p, o, target)
  \/ \E o \in Orders : StartCancel(p, o)
  \/ \E o \in Orders, l \in Lines : StartDeliver(p, o, l)

\* What the server does next for a request it serves.
Proceed(p) ==
  \/ \E o \in Orders : InsertOrder(p, o)
  \/ AnswerAgain(p)
  \/ \E i \in req[p].todo, l \in Lines : InsertLine(p, i, l)
  \/ \E i \in req[p].todo, id \in Lines : Reserve(p, i, id)
  \/ Publish(p)
  \/ \E l \in req[p].drop :
       ReleaseNothing(p, l) \/ ReadReservation(p, l) \/ Release(p, l) \/ Flush(p, l)
  \/ StartAdding(p)
  \/ CancelOrder(p)
  \/ LockLine(p)
  \/ IssueNothing(p)
  \/ IssueRead(p)
  \/ Issue(p)
  \/ Refuse(p)
  \/ Commit(p)

Stock(v) ==
  \E q \in Quantities : BookReceipt(v, q) \/ ApplyCorrection(v, q) \/ ApplyCorrection(v, -q)

Next ==
  \/ \E p \in Clerks : Start(p) \/ Proceed(p) \/ DeadlockVictim(p) \/ Fail(p)
  \/ \E v \in Variants : Stock(v)

Spec == Init /\ [][Next]_vars

\* A started request is carried on, PostgreSQL hands a lock to its waiters in
\* turn and breaks a deadlock.
Fairness == \A p \in Clerks : SF_vars(Proceed(p)) /\ WF_vars(DeadlockVictim(p))

FairSpec == Spec /\ Fairness

-----------------------------------------------------------------------------
\* Properties.

\* Every variable has its type.
TypeOK ==
  /\ stock \in [Variants -> Int]
  /\ reservation \in [Lines -> Reservation \cup {NoReservation}]
  /\ issues \in [Lines -> Nat]
  /\ line \in [Lines -> LineRow \cup {NoLine}]
  /\ delivered \subseteq Lines
  /\ removed \subseteq Lines
  /\ order \in [Orders -> OrderRow]
  /\ due \in [Orders -> Nat]
  /\ pc \in [Clerks -> Steps]
  /\ req \in [Clerks -> Request]
  /\ made \in [Clerks -> SUBSET Lines]
  /\ freed \in [Clerks -> SUBSET Lines]
  /\ handed \in [Clerks -> SUBSET Lines]
  /\ dropped \in [Clerks -> SUBSET Lines]
  /\ locks \in [Clerks -> SUBSET Resources]

\* The last piece is sold once: the committed reservations of a variant that is
\* not on pre-order never exceed what is on the shelf, whatever the requests
\* that run, and nobody is handed what is not there.
NeverOversold ==
  \A v \in Variants :
    /\ stock[v] >= 0
    /\ v \notin PreOrder => Available(stock, reservation, Open, v) >= 0

\* A piece leaves the shelf once, for a line whose reservation says so.
IssuedOnce ==
  \A l \in Lines : issues[l] = IF reservation[l].status = "DELIVERED" THEN 1 ELSE 0

\* A reservation that was released or delivered is never opened, released or
\* delivered again: the read under the lock decides.
ClosedStaysClosed ==
  [][ \A l \in Lines :
        reservation[l].status \in {"CANCELLED", "DELIVERED"} =>
          reservation'[l] = reservation[l] ]_vars

\* The pieces a waiting order was promised are not taken by a younger one: a
\* line the stock covers stays covered for as long as its reservation is open.
CoverageIsStable ==
  [][ \A l \in Open \cap Open' :
        Covered(stock, reservation, Open, l) => Covered(stock', reservation', Open', l) ]_vars

\* A shown form is accepted once: its posts make one live order.
OneOrderPerForm ==
  \A o1, o2 \in Orders :
    Live(o1) /\ Live(o2) /\ order[o1].form = order[o2].form => o1 = o2

\* Placing locks the variants in a fixed order, so orders that are being placed
\* never wait for each other crosswise.
PlacingNeverDeadlocks ==
  ~ \E S \in SUBSET { p \in Clerks : req[p].kind = "place" } : WaitCycle(S)

\* Every request that is carried on ends.
EveryRequestEnds == \A p \in Clerks : pc[p] # "idle" ~> pc[p] = "idle"

-----------------------------------------------------------------------------
\* What the documentation of the code says, and the code does not keep.

\* deliver_line: "the stock and the state never disagree".
StockAndStateAgree == \A l \in delivered : issues[l] = 1

\* cancel_order: "the reservations free the stock".
CancelledHoldsNoStock ==
  \A l \in Open : order[line[l].order].status # "CANCELLED"

\* docs/change_request_21_shop.md: "two orders never wait on each other
\* crosswise".
NoCrosswiseWait ==
  \A p, q \in Clerks :
    WaitsFor(p, q) /\ WaitsFor(q, p) => req[p].order = req[q].order
=============================================================================
