------------------------------- MODULE MCShop -------------------------------
(***************************************************************************)
(* Small instances of Shop for TLC.                                        *)
(***************************************************************************)
EXTENDS ShopInvariant, TLC

Piece(v, q) == [variant |-> v, quantity |-> q]

\* One article that is not on pre-order: the last pieces.  A piece is ordered, and the
\* order changed to two, on one line or on two.
OneArticle == {1}
OneArticleBaskets == { <<Piece(1, 1)>>, <<Piece(1, 0)>> }
OneArticleTargets == { <<Piece(1, 2)>>, <<Piece(1, 1), Piece(1, 1)>> }

\* Two articles, the second on pre-order, posted in either order.
TwoArticles == {1, 2}
TwoArticleBaskets == { <<Piece(1, 1), Piece(2, 1)>>, <<Piece(2, 1), Piece(1, 1)>> }

\* A change that releases the second article and reserves the first.
SwapBaskets == { <<Piece(2, 1)>>, <<Piece(1, 1), Piece(2, 1)>> }
SwapTargets == { <<Piece(1, 1)>> }

Symmetry == Permutations(Clerks) \cup Permutations(Forms)
=============================================================================
