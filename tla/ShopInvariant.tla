---------------------------- MODULE ShopInvariant ----------------------------
(***************************************************************************)
(* The inductive invariant of Shop: what the requests that run may rely on *)
(* between two steps.  ShopProofs proves it; its conjuncts are named for   *)
(* the part of the code that keeps them.                                   *)
(***************************************************************************)
EXTENDS Shop

\* The row of the line and its reservation are committed.
Committed(l) == reservation[l].status \notin {"NONE", "PENDING"}

\* The steps of a request of each kind.
StepsOf(kind) ==
  CASE kind = "none"    -> {"idle"}
    [] kind = "place"   -> {"insert_order", "item", "reserve", "commit"}
    [] kind = "change"  -> {"release", "release_locked", "flush", "item", "reserve", "commit"}
    [] kind = "cancel"  -> {"release", "release_locked", "flush", "commit"}
    [] kind = "deliver" -> {"lock_line", "issue", "issue_locked", "commit"}

StepsFitKind == \A p \in Clerks : pc[p] \in StepsOf(req[p].kind)

\* What a request works on exists.
InputsExist ==
  \A p \in Clerks :
    /\ req[p].kind = "place" => req[p].form \in Forms
    /\ pc[p] \notin {"idle", "insert_order"} => req[p].order \in Orders
    /\ req[p].todo \subseteq DOMAIN req[p].basket
    /\ \A l \in req[p].drop : Committed(l)
    /\ req[p].kind = "deliver" => req[p].line \in Lines /\ Committed(req[p].line)

\* The line a request has inserted and not yet reserved is its own.
InsertedIsOwn ==
  \A p \in Clerks :
    pc[p] = "reserve" =>
      /\ req[p].line \in Lines
      /\ line[req[p].line] # NoLine
      /\ reservation[req[p].line] = NoReservation
      /\ \A q \in Clerks \ {p} : pc[q] = "reserve" => req[q].line # req[p].line

\* A request writes the reservations its kind writes, in its order: the change
\* releases first, then reserves.
WritesFitKind ==
  \A p \in Clerks :
    /\ made[p] # {} => pc[p] \in {"item", "reserve", "commit"}
    /\ made[p] # {} => req[p].kind \in {"place", "change"}
    /\ freed[p] # {} => req[p].kind \in {"change", "cancel"}
    /\ handed[p] # {} => req[p].kind = "deliver"

\* A lock has one holder.
LocksExclusive ==
  \A p, q \in Clerks : p # q => locks[p] \cap locks[q] = {}

\* A reservation is of its line's variant and quantity.
RowsAgree ==
  \A l \in Lines :
    reservation[l] # NoReservation =>
      /\ line[l] # NoLine
      /\ reservation[l].variant = line[l].variant
      /\ reservation[l].quantity = line[l].quantity

\* A reservation is written under its variant's lock, held to the commit: what
\* the request read there is still so.
WrittenUnderLock ==
  \A p \in Clerks :
    /\ \A l \in made[p] : reservation[l].status = "PENDING" /\ VariantLock(l) \in locks[p]
    /\ \A l \in freed[p] \cup handed[p] :
         reservation[l].status = "OPEN" /\ VariantLock(l) \in locks[p]

Inv ==
  /\ TypeOK
  /\ StepsFitKind
  /\ InputsExist
  /\ InsertedIsOwn
  /\ WritesFitKind
  /\ LocksExclusive
  /\ RowsAgree
  /\ WrittenUnderLock
  /\ IssuedOnce

-----------------------------------------------------------------------------
\* What keeps NeverOversold.

\* The lines whose reservations are open once p commits, before it hands one over.
Promised(p) == (Open \cup made[p]) \ freed[p]

\* Whoever commits next, the shelf holds what is then reserved: a request has
\* checked this under the locks it still has.
PromisesFit ==
  \A p \in Clerks, v \in Variants :
    v \notin PreOrder => Available(stock, reservation, Promised(p), v) >= 0

\* What a request is about to hand over is on the shelf.
HandedIsThere ==
  \A p \in Clerks, v \in Variants : Cardinality(Pieces(reservation, handed[p], v)) <= stock[v]

StockInv == NeverOversold /\ PromisesFit /\ HandedIsThere

-----------------------------------------------------------------------------
\* What keeps OneOrderPerForm.

\* The request has inserted its order, and has not committed it.
Placing(p) == req[p].kind = "place" /\ pc[p] # "insert_order"

\* The order that is being placed is its request's own, and no other request
\* can insert one of the same form: the lock of the index is held to the end.
OrderIsOwn ==
  \A p \in Clerks :
    Placing(p) =>
      /\ order[req[p].order].status = "PENDING" /\ order[req[p].order].form = req[p].form
      /\ <<"form", req[p].form>> \in locks[p]
      /\ ~Accepted(req[p].form)

NoOrderYet == \A p \in Clerks : pc[p] = "insert_order" => req[p].order = 0

\* Any other request works on an order that was accepted.
OrderWasAccepted ==
  \A p \in Clerks :
    req[p].kind \in {"change", "cancel", "deliver"} =>
      order[req[p].order].status \in {"PLACED", "CANCELLED"}

FormInv == OneOrderPerForm /\ OrderIsOwn /\ NoOrderYet /\ OrderWasAccepted

-----------------------------------------------------------------------------
\* What keeps PlacingNeverDeadlocks.

\* A post that waits for another post of its form holds nothing.
FirstLockIsForm == \A p \in Clerks : pc[p] \in {"idle", "insert_order"} => locks[p] = {}

\* Only a change removes lines, so an order that is placed locks no line.
PlacingDropsNothing == \A p \in Clerks : req[p].kind \in {"none", "place"} => dropped[p] = {}

\* The variants it has locked come before those of the items to come.
LocksAscend ==
  \A p \in Clerks :
    req[p].kind = "place" =>
      \A v \in Variants, i \in req[p].todo :
        <<"variant", v>> \in locks[p] => v <= req[p].basket[i].variant

\* The line it is about to reserve is of the next item.
ReservesNextItem ==
  \A p \in Clerks :
    req[p].kind = "place" /\ pc[p] = "reserve" =>
      \E i \in req[p].todo :
        NextItem(p, i) /\ line[req[p].line].variant = req[p].basket[i].variant

WaitInv == FirstLockIsForm /\ PlacingDropsNothing /\ LocksAscend /\ ReservesNextItem

-----------------------------------------------------------------------------
\* What keeps CoverageIsStable, and makes Shop implement StockLedger.

\* What a request reserved is the youngest of its variant: nobody else is
\* granted one while it has the lock.
GrantedLast ==
  \A p \in Clerks : \A l \in made[p], k \in Lines \ made[p] :
    reservation[k].variant = reservation[l].variant => reservation[k].id < reservation[l].id

\* A delivery hands over its own line ...
HandsOverItsLine == \A p \in Clerks : handed[p] \subseteq {req[p].line}

\* ... which the stock still covers, though it was read without the lock: it is
\* covered for as long as its reservation is open.
DeliversCovered ==
  \A p \in Clerks :
    req[p].kind = "deliver" /\ pc[p] # "lock_line" /\ req[p].line \in Open =>
      Covered(stock, reservation, Open, req[p].line)

CoverInv == GrantedLast /\ HandsOverItsLine /\ DeliversCovered

\* The ledger, as its callers see it: a row that is not committed is none.
Ledger == INSTANCE StockLedger
  WITH reservation <- [l \in Lines |-> IF reservation[l].status = "PENDING"
                                       THEN NoReservation ELSE reservation[l]]

\* Ledger!Spec, with the steps named first that leave the tables as they are.
LedgerSpec == Ledger!Init /\ [][UNCHANGED <<stock, reservation>> \/ Ledger!Next]_(Ledger!vars)
=============================================================================
