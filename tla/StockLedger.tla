---------------------------- MODULE StockLedger ----------------------------
(***************************************************************************)
(* What the stock ledger promises its callers, one atomic step per         *)
(* committed transaction: the sums of the movements and the reservations   *)
(* move together, an article that is not on pre-order is never reserved    *)
(* beyond what is there, and pieces an older order waits for are never     *)
(* handed to a younger one.  The module Shop, in which requests interleave *)
(* lock by lock and row by row, implements it.                             *)
(***************************************************************************)
EXTENDS StockOps

VARIABLES
  stock,        \* [Variants -> Int]: the sum of the movements, on_hand
  reservation   \* [Lines -> Reservation \cup {NoReservation}]

vars == <<stock, reservation>>

Open == { l \in Lines : reservation[l].status = "OPEN" }
Unreserved == { l \in Lines : reservation[l] = NoReservation }

Init ==
  /\ stock = [v \in Variants |-> 0]
  /\ reservation = [l \in Lines |-> NoReservation]

\* receive, behind book_receipt.
Receive(v, q) ==
  /\ stock[v] + q <= MaxStock
  /\ stock' = [stock EXCEPT ![v] = @ + q]
  /\ UNCHANGED reservation

\* correct, behind apply_correction: q is signed.
Correct(v, q) ==
  /\ q # 0
  /\ stock[v] + q <= MaxStock
  /\ q < 0 => Available(stock, reservation, Open, v) + q >= 0
  /\ stock' = [stock EXCEPT ![v] = @ + q]
  /\ UNCHANGED reservation

\* A row the ledger writes for a line it reserves.
NewRow == [variant : Variants, quantity : Quantities, id : Lines, status : {"OPEN"}]

\* Granted after every reservation of its variant.
Granted(grants, l) ==
  \A k \in Lines \ Unreserved :
    reservation[k].variant = grants[l].variant => reservation[k].id < grants[l].id

\* The row of l once a request has reserved the lines DOMAIN grants, released
\* the lines of released and handed over those of issued.
SettledRow(grants, released, issued, l) ==
  CASE l \in DOMAIN grants -> grants[l]
    [] l \in released      -> [reservation[l] EXCEPT !.status = "CANCELLED"]
    [] l \in issued        -> [reservation[l] EXCEPT !.status = "DELIVERED"]
    [] OTHER               -> reservation[l]

\* One committed request: it handed over at most one line.
Settle(grants, released, issued) ==
  LET next == [l \in Lines |-> SettledRow(grants, released, issued, l)]
      open == (Open \cup DOMAIN grants) \ (released \cup issued)
  IN /\ released \cap issued = {}
     /\ \A l \in DOMAIN grants : Granted(grants, l)
     /\ \A l \in DOMAIN grants : grants[l].variant \notin PreOrder =>
                                   Available(stock, next, open, grants[l].variant) >= 0
     /\ \A l \in issued : Covered(stock, reservation, Open, l)
     /\ reservation' = next
     /\ stock' = [v \in Variants |->
                    stock[v] - Cardinality(Pieces(reservation, issued, v))]

AtMostOne(S) == { {} } \cup { {l} : l \in S }

Next ==
  \/ \E v \in Variants, q \in Quantities : Receive(v, q) \/ Correct(v, q) \/ Correct(v, -q)
  \/ \E released \in SUBSET Open, issued \in AtMostOne(Open), reserved \in SUBSET Unreserved :
       \E grants \in [reserved -> NewRow] : Settle(grants, released, issued)

Spec == Init /\ [][Next]_vars
=============================================================================
