-------------------------- MODULE MCPaymentLedger --------------------------
(***************************************************************************)
(* A small instance of PaymentLedger for TLC.                              *)
(***************************************************************************)
EXTENDS PaymentLedger

\* One product, of which more or fewer pieces are ordered.
OneProduct == {1}
OnePrice == [p \in OneProduct |-> 1]
=============================================================================
