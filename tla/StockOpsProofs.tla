--------------------------- MODULE StockOpsProofs ---------------------------
(***************************************************************************)
(* Facts about the sums of StockOps that the proofs of StockLedger and of  *)
(* Shop cite.                                                              *)
(***************************************************************************)
EXTENDS StockOps, FiniteSetTheorems, TLAPS

\* The pieces that some lines hold back are finitely many.
LEMMA PiecesFinite ==
  ASSUME NEW resv, NEW S \in SUBSET Lines, NEW v
  PROVE  /\ IsFiniteSet(Pieces(resv, S, v))
         /\ Cardinality(Pieces(resv, S, v)) \in Nat
<1>1. IsFiniteSet(Lines) /\ IsFiniteSet(Quantities)
  BY FS_Interval, MaxLineAssumption, MaxQuantityAssumption DEF Lines, Quantities
<1>2. IsFiniteSet(Lines \X Quantities)
  BY <1>1, FS_Product
<1>3. Pieces(resv, S, v) \in SUBSET (Lines \X Quantities)
  BY DEF Pieces
<1> QED
  BY <1>2, <1>3, FS_Subset, FS_CardinalityType

\* Lines that are apart hold back apart pieces.
LEMMA PiecesSplit ==
  ASSUME NEW resv, NEW S \in SUBSET Lines, NEW T \in SUBSET Lines, S \cap T = {}, NEW v
  PROVE  Cardinality(Pieces(resv, S \cup T, v))
           = Cardinality(Pieces(resv, S, v)) + Cardinality(Pieces(resv, T, v))
<1>1. Pieces(resv, S \cup T, v) = Pieces(resv, S, v) \cup Pieces(resv, T, v)
  BY DEF Pieces
<1>2. Pieces(resv, S, v) \cap Pieces(resv, T, v) = {}
  BY DEF Pieces
<1>3. Cardinality(Pieces(resv, S, v) \cap Pieces(resv, T, v)) = 0
  BY <1>2, FS_EmptySet
<1>4. /\ IsFiniteSet(Pieces(resv, S, v)) /\ Cardinality(Pieces(resv, S, v)) \in Nat
      /\ IsFiniteSet(Pieces(resv, T, v)) /\ Cardinality(Pieces(resv, T, v)) \in Nat
  BY PiecesFinite
<1>5. Cardinality(Pieces(resv, S, v) \cup Pieces(resv, T, v))
        = Cardinality(Pieces(resv, S, v)) + Cardinality(Pieces(resv, T, v))
            - Cardinality(Pieces(resv, S, v) \cap Pieces(resv, T, v))
  BY <1>4, FS_Union
<1>6. Cardinality(Pieces(resv, S \cup T, v))
        = Cardinality(Pieces(resv, S, v) \cup Pieces(resv, T, v))
  BY <1>1, Zenon
<1> QED
  BY <1>3, <1>4, <1>5, <1>6

\* Fewer lines hold back no more pieces.
LEMMA PiecesMonotone ==
  ASSUME NEW resv, NEW S \in SUBSET Lines, NEW T \in SUBSET S, NEW v
  PROVE  Cardinality(Pieces(resv, T, v)) <= Cardinality(Pieces(resv, S, v))
<1>1. Pieces(resv, T, v) \in SUBSET Pieces(resv, S, v)
  BY DEF Pieces
<1> QED
  BY <1>1, PiecesFinite, FS_Subset

\* Only the variant and the quantity of a reservation count.
LEMMA PiecesSame ==
  ASSUME NEW resv, NEW next, NEW S \in SUBSET Lines, NEW v,
         \A l \in S : next[l].variant = resv[l].variant /\ next[l].quantity = resv[l].quantity
  PROVE  Pieces(next, S, v) = Pieces(resv, S, v)
BY DEF Pieces

\* Lines of other variants hold back nothing of v.
LEMMA PiecesOfOthers ==
  ASSUME NEW resv, NEW S \in SUBSET Lines, NEW v,
         \A l \in S : resv[l].variant # v
  PROVE  Cardinality(Pieces(resv, S, v)) = 0
<1>1. Pieces(resv, S, v) = {}
  BY DEF Pieces
<1> QED
  BY <1>1, FS_EmptySet

\* One line holds back its quantity.
LEMMA PiecesOfLine ==
  ASSUME NEW resv, NEW l \in Lines, NEW v, resv[l].variant = v, resv[l].quantity \in Quantities
  PROVE  Cardinality(Pieces(resv, {l}, v)) = resv[l].quantity
<1> DEFINE q == resv[l].quantity
<1>1. Pieces(resv, {l}, v) = {l} \X (1..q)
  BY MaxQuantityAssumption DEF Pieces, Quantities
<1>2. q \in Nat /\ IsFiniteSet(1..q) /\ Cardinality(1..q) = q
  BY FS_Interval, MaxQuantityAssumption DEF Quantities
<1>3. IsFiniteSet({l}) /\ Cardinality({l}) = 1
  BY FS_Singleton
<1>4. Cardinality({l} \X (1..q)) = 1 * q
  BY <1>2, <1>3, FS_Product
<1>5. Cardinality(Pieces(resv, {l}, v)) = Cardinality({l} \X (1..q))
  BY <1>1, Zenon
<1> QED
  BY <1>2, <1>4, <1>5
=============================================================================
