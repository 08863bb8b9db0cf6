------------------------------ MODULE StockOps ------------------------------
(***************************************************************************)
(* The readers of the stock ledger (stock/service.py), as operators on a   *)
(* view of it.  A view is what one database transaction reads: the sum of  *)
(* the movements of each variant, the reservation rows, and the set of     *)
(* order lines whose reservation it sees as OPEN (under READ COMMITTED     *)
(* that is the committed rows with the transaction's own writes on top).   *)
(*                                                                         *)
(* A sum of quantities is the number of pieces it counts, so it is the     *)
(* cardinality of a set of pieces.                                         *)
(***************************************************************************)
EXTENDS Integers, FiniteSets

CONSTANTS
  Variants,     \* the sizes of the articles, by id: locks are taken by id
  MaxLine,      \* bound: order lines the sequence hands out
  MaxQuantity,  \* tenant_max_item_quantity
  PreOrder,     \* variants of articles whose pre-order window is open
  MaxStock      \* bound: pieces of one variant on the shelf

ASSUME VariantsAssumption == Variants \subseteq Nat /\ IsFiniteSet(Variants)
ASSUME MaxLineAssumption == MaxLine \in Nat
ASSUME MaxQuantityAssumption == MaxQuantity \in Nat
ASSUME PreOrderAssumption == PreOrder \subseteq Variants
ASSUME MaxStockAssumption == MaxStock \in Nat

Lines == 1..MaxLine
Quantities == 1..MaxQuantity

\* The reservation row of an order line.  "PENDING" is a row its transaction
\* has inserted and not committed; id orders the grants of one variant.
ReservationStatus == {"PENDING", "OPEN", "CANCELLED", "DELIVERED"}

Reservation == [variant : Variants, quantity : Quantities, id : Lines,
                status : ReservationStatus]

\* A line without a reservation.
NoReservation == [variant |-> 0, quantity |-> 0, id |-> 0, status |-> "NONE"]

\* The pieces of variant v that the reservations of the lines S hold back.
Pieces(resv, S, v) ==
  { piece \in S \X Quantities :
      /\ resv[piece[1]].variant = v
      /\ piece[2] <= resv[piece[1]].quantity }

\* _open_reservations_sum: the pieces the open reservations hold back.
OpenReservationsSum(resv, open, v) == Cardinality(Pieces(resv, open, v))

\* available: on hand minus the open reservations.
Available(shelf, resv, open, v) == shelf[v] - OpenReservationsSum(resv, open, v)

\* The open reservations of l's variant granted before l's, and l's own.
NotYounger(resv, open, l) ==
  { k \in open : /\ resv[k].variant = resv[l].variant
                 /\ resv[k].id <= resv[l].id }

\* waiting: the stock on hand covers the oldest reservations first.  The loop
\* stops at the first reservation the remainder does not cover, so a line is
\* covered exactly when it and everything older fit the stock together.
Covered(shelf, resv, open, l) ==
  OpenReservationsSum(resv, NotYounger(resv, open, l), resv[l].variant)
    <= shelf[resv[l].variant]
=============================================================================
