--------------------------- MODULE ShopStockProofs ---------------------------
(***************************************************************************)
(* The last piece is sold once: the proof that Shop keeps NeverOversold,   *)
(* for any number of sessions, orders, lines and variants.  On top of Inv  *)
(* it needs what each request has checked under the locks it still holds   *)
(* (PromisesFit, HandedIsThere).                                           *)
(***************************************************************************)
EXTENDS ShopProofs

-----------------------------------------------------------------------------
\* Sums.

\* Two views that agree on the reservations of v hold back the same of v.
LEMMA PiecesFrame ==
  ASSUME NEW resv, NEW S \in SUBSET Lines, NEW next, NEW T \in SUBSET Lines, NEW v,
         \A l \in Lines : l \in S /\ resv[l].variant = v <=> l \in T /\ next[l].variant = v,
         \A l \in S \cap T : resv[l].variant = v => next[l].quantity = resv[l].quantity
  PROVE  Cardinality(Pieces(next, T, v)) = Cardinality(Pieces(resv, S, v))
<1>1. Pieces(next, T, v) = Pieces(resv, S, v)
  BY DEF Pieces
<1> QED
  BY <1>1, Zenon

\* The sums of a view are integers.
LEMMA SumsAreInt ==
  ASSUME Inv, NEW v \in Variants
  PROVE  /\ stock[v] \in Int
         /\ \A resv : \A S \in SUBSET Lines : Cardinality(Pieces(resv, S, v)) \in Nat
<1>1. ASSUME NEW resv, NEW S \in SUBSET Lines
      PROVE  Cardinality(Pieces(resv, S, v)) \in Nat
  BY PiecesFinite
<1> QED
  BY <1>1 DEF Inv, TypeOK

\* What a request sees and writes are lines.
LEMMA ViewsAreLines ==
  ASSUME Inv, NEW p \in Clerks
  PROVE  /\ Open \in SUBSET Lines /\ Promised(p) \in SUBSET Lines
         /\ made[p] \in SUBSET Lines /\ freed[p] \in SUBSET Lines /\ handed[p] \in SUBSET Lines
BY DEF Inv, TypeOK, Open, Promised

\* A request that writes a reservation of a variant holds the variant's lock.
LEMMA WriterHolds ==
  ASSUME Inv, NEW p \in Clerks, NEW l \in Written(p)
  PROVE  <<"variant", reservation[l].variant>> \in locks[p]
<1>1. l \in Lines
  BY DEF Written, Inv, TypeOK
<1>2. VariantLock(l) \in locks[p]
  BY DEF Written, Inv, WrittenUnderLock
<1>3. reservation[l].variant = line[l].variant
  BY <1>1, UnreservedIsUnwritten DEF Inv, RowsAgree
<1> QED
  BY <1>2, <1>3 DEF VariantLock

\* Two requests do not write reservations of one variant.
LEMMA WritersApart ==
  ASSUME Inv, NEW p \in Clerks, NEW q \in Clerks, p # q,
         NEW k \in Written(p), NEW l \in Written(q)
  PROVE  reservation[k].variant # reservation[l].variant
<1>1. <<"variant", reservation[k].variant>> \in locks[p]
  BY WriterHolds
<1>2. <<"variant", reservation[l].variant>> \in locks[q]
  BY WriterHolds
<1> QED
  BY <1>1, <1>2 DEF Inv, LocksExclusive

-----------------------------------------------------------------------------
\* Steps that write neither the stock nor what the requests promise.

LEMMA SameViews ==
  ASSUME StockInv, UNCHANGED <<stock, reservation, made, freed, handed>>
  PROVE  StockInv'
BY DEF StockInv, NeverOversold, PromisesFit, HandedIsThere, Promised, Open, Available,
       OpenReservationsSum, Pieces

-----------------------------------------------------------------------------
\* Steps that write.

LEMMA ReleaseFits ==
  ASSUME Inv, StockInv, NEW p \in Clerks, NEW l, Release(p, l)
  PROVE  StockInv'
<1>1. UNCHANGED <<stock, reservation, made, handed>>
  BY DEF Release, rows
<1>2. /\ freed[p] \subseteq freed'[p]
      /\ \A q \in Clerks : q # p => freed'[q] = freed[q]
  BY DEF Release, Inv, TypeOK
<1>3. Open' = Open
  BY <1>1 DEF Open
<1>4. \A q \in Clerks : Promised(q)' \in SUBSET Promised(q)
  BY <1>1, <1>2, <1>3 DEF Promised
<1>5. ASSUME NEW q \in Clerks, NEW v \in Variants, v \notin PreOrder
      PROVE  Available(stock', reservation', Promised(q)', v) >= 0
  <2>1. Cardinality(Pieces(reservation, Promised(q)', v))
          <= Cardinality(Pieces(reservation, Promised(q), v))
    BY <1>4, ViewsAreLines, PiecesMonotone
  <2>2. stock[v] - Cardinality(Pieces(reservation, Promised(q), v)) >= 0
    BY <1>5 DEF StockInv, PromisesFit, Available, OpenReservationsSum
  <2>3. /\ stock[v] \in Int
        /\ Cardinality(Pieces(reservation, Promised(q)', v)) \in Nat
        /\ Cardinality(Pieces(reservation, Promised(q), v)) \in Nat
    BY <1>4, SumsAreInt, ViewsAreLines
  <2>4. stock[v] - Cardinality(Pieces(reservation, Promised(q)', v)) >= 0
    BY <2>1, <2>2, <2>3
  <2> QED
    BY <1>1, <2>4 DEF Available, OpenReservationsSum
<1>6. NeverOversold' /\ HandedIsThere'
  BY <1>1, <1>3 DEF StockInv, NeverOversold, HandedIsThere, Available, OpenReservationsSum
<1> QED
  BY <1>5, <1>6 DEF StockInv, PromisesFit

LEMMA IssueFits ==
  ASSUME Inv, StockInv, NEW p \in Clerks, Issue(p)
  PROVE  StockInv'
<1> DEFINE l == req[p].line
<1>1. /\ UNCHANGED <<stock, reservation, made, freed>>
      /\ pc[p] = "issue_locked"
      /\ handed' = [handed EXCEPT ![p] = StillOpen(p, l)]
      /\ \A k \in StillOpen(p, l) : OnHandCovers(k)
  BY DEF Issue, Step, rows
<1>2. l \in Lines
  BY <1>1, KindOfStep DEF Inv, InputsExist
<1>3. made[p] = {}
  BY <1>1, WritesOfKind
<1>4. StillOpen(p, l) = {} \/ (StillOpen(p, l) = {l} /\ l \in Open)
  BY <1>3 DEF StillOpen, OpenFor
<1>5. handed'[p] = StillOpen(p, l) /\ \A q \in Clerks : q # p => handed'[q] = handed[q]
  BY <1>1 DEF Inv, TypeOK
<1> HIDE DEF l
<1>6. ASSUME NEW v \in Variants
      PROVE  Cardinality(Pieces(reservation, handed'[p], v)) <= stock[v]
  <2>1. stock[v] \in Int /\ stock[v] >= 0
    BY SumsAreInt DEF StockInv, NeverOversold
  <2>2. CASE StillOpen(p, l) = {}
    <3>1. Cardinality(Pieces(reservation, {}, v)) = 0
      BY PiecesOfOthers
    <3>2. Cardinality(Pieces(reservation, handed'[p], v)) = 0
      BY <1>5, <2>2, <3>1
    <3> QED
      BY <2>1, <3>2
  <2>3. CASE StillOpen(p, l) = {l} /\ l \in Open
    <3>1. handed'[p] = {l}
      BY <1>5, <2>3
    <3>2. /\ reservation[l] # NoReservation /\ reservation[l] \in Reservation
      BY <1>2, <2>3 DEF Open, Inv, TypeOK, NoReservation
    <3>3. reservation[l].variant = line[l].variant /\ reservation[l].quantity = line[l].quantity
      BY <1>2, <3>2 DEF Inv, RowsAgree
    <3>4. stock[line[l].variant] >= line[l].quantity
      BY <1>1, <2>3 DEF OnHandCovers
    <3>5. CASE reservation[l].variant = v
      <4>1. reservation[l].quantity \in Quantities
        BY <3>2 DEF Reservation
      <4>2. Cardinality(Pieces(reservation, {l}, v)) = reservation[l].quantity
        BY <1>2, <3>5, <4>1, PiecesOfLine
      <4>3. stock[v] >= reservation[l].quantity
        BY <3>3, <3>4, <3>5
      <4>4. reservation[l].quantity \in Int
        BY <4>1, MaxQuantityAssumption DEF Quantities
      <4>5. Cardinality(Pieces(reservation, {l}, v)) <= stock[v]
        BY <2>1, <4>2, <4>3, <4>4
      <4> QED
        BY <3>1, <4>5
    <3>6. CASE reservation[l].variant # v
      <4>1. {l} \in SUBSET Lines
        BY <1>2
      <4>2. Cardinality(Pieces(reservation, {l}, v)) = 0
        BY <3>6, <4>1, PiecesOfOthers
      <4> QED
        BY <2>1, <3>1, <4>2
    <3> QED
      BY <3>5, <3>6
  <2> QED
    BY <1>4, <2>2, <2>3
<1>7. HandedIsThere'
  BY <1>1, <1>5, <1>6 DEF StockInv, HandedIsThere
<1>8. NeverOversold' /\ PromisesFit'
  BY <1>1 DEF StockInv, NeverOversold, PromisesFit, Promised, Open, Available,
              OpenReservationsSum
<1> QED
  BY <1>7, <1>8 DEF StockInv

LEMMA ReserveFits ==
  ASSUME Inv, StockInv, NEW p \in Clerks, NEW i, NEW id \in Lines, Reserve(p, i, id)
  PROVE  StockInv'
<1> DEFINE l == req[p].line
           w == line[l].variant
           q == line[l].quantity
<1>1. /\ pc[p] = "reserve"
      /\ Orderable(p, w, q)
      /\ reservation' = [reservation EXCEPT ![l] = [variant |-> w, quantity |-> q,
                                                    id |-> id, status |-> "PENDING"]]
      /\ made' = [made EXCEPT ![p] = @ \cup {l}]
      /\ UNCHANGED <<stock, freed, handed>>
  BY DEF Reserve, Step
<1>2. l \in Lines /\ line[l] # NoLine /\ reservation[l] = NoReservation
  BY <1>1 DEF Inv, InsertedIsOwn
<1>3. w \in Variants /\ q \in Quantities
  BY <1>2 DEF Inv, TypeOK, LineRow
<1>4. /\ reservation'[l].variant = w /\ reservation'[l].quantity = q
      /\ reservation'[l].status = "PENDING"
      /\ \A k \in Lines : k # l => reservation'[k] = reservation[k]
  BY <1>1, <1>2 DEF Inv, TypeOK
<1>5. l \notin Open /\ \A c \in Clerks : l \notin Written(c) /\ l \notin Promised(c)
  BY <1>2, UnreservedIsUnwritten DEF Open, NoReservation, Promised, Written
<1>6. Open' = Open
  BY <1>2, <1>4, <1>5 DEF Open
<1>7. handed[p] = {}
  BY <1>1, KindOfStep, WritesOfKind
<1>8. /\ Promised(p)' = Promised(p) \cup {l}
      /\ \A c \in Clerks : c # p => Promised(c)' = Promised(c)
  BY <1>1, <1>5, <1>6 DEF Promised, Inv, TypeOK, Written
<1>9. OpenFor(p) = Promised(p)
  BY <1>7 DEF OpenFor, Promised
<1> HIDE DEF l, w, q
\* The new row counts for nobody else.
<1>10. ASSUME NEW S \in SUBSET Lines, l \notin S, NEW v
       PROVE  Cardinality(Pieces(reservation', S, v)) = Cardinality(Pieces(reservation, S, v))
  BY <1>4, <1>10, PiecesFrame
<1>11. ASSUME NEW v \in Variants, v \notin PreOrder
       PROVE  Available(stock', reservation', Promised(p)', v) >= 0
  <2> DEFINE before == Cardinality(Pieces(reservation, Promised(p), v))
             new == Cardinality(Pieces(reservation', {l}, v))
  <2>1. Cardinality(Pieces(reservation', Promised(p)', v)) = before + new
    <3>1. Promised(p) \in SUBSET Lines /\ {l} \in SUBSET Lines /\ Promised(p) \cap {l} = {}
      BY <1>2, <1>5, ViewsAreLines
    <3>2. Cardinality(Pieces(reservation', Promised(p) \cup {l}, v))
            = Cardinality(Pieces(reservation', Promised(p), v)) + new
      BY <3>1, PiecesSplit
    <3>3. Cardinality(Pieces(reservation', Promised(p), v)) = before
      BY <1>5, <1>10, <3>1
    <3> HIDE DEF before, new
    <3> QED
      BY <1>8, <3>2, <3>3
  <2>2. stock[v] \in Int /\ before \in Nat
    BY SumsAreInt, ViewsAreLines
  <2>3. stock[v] - before >= 0
    BY <1>11 DEF StockInv, PromisesFit, Available, OpenReservationsSum
  <2>4. CASE v = w
    <3>1. new = q
      BY <1>2, <1>3, <1>4, <2>4, PiecesOfLine
    <3>2. stock[v] - before >= q
      BY <1>1, <1>9, <1>11, <2>4 DEF Orderable, AvailableFor, Available, OpenReservationsSum, w, q
    <3>3. q \in Int
      BY <1>3, MaxQuantityAssumption DEF Quantities
    <3> HIDE DEF before, new
    <3>4. stock[v] - (before + new) >= 0
      BY <2>2, <3>1, <3>2, <3>3
    <3> QED
      BY <1>1, <2>1, <3>4 DEF Available, OpenReservationsSum
  <2>5. CASE v # w
    <3>1. {l} \in SUBSET Lines /\ \A k \in {l} : reservation'[k].variant # v
      BY <1>2, <1>4, <2>5
    <3>2. new = 0
      BY <3>1, PiecesOfOthers
    <3> HIDE DEF before, new
    <3>3. stock[v] - (before + new) >= 0
      BY <2>2, <2>3, <3>2
    <3> QED
      BY <1>1, <2>1, <3>3 DEF Available, OpenReservationsSum
  <2> QED
    BY <2>4, <2>5
<1>12. ASSUME NEW c \in Clerks, c # p, NEW v \in Variants, v \notin PreOrder
       PROVE  Available(stock', reservation', Promised(c)', v) >= 0
  <2>1. Cardinality(Pieces(reservation', Promised(c), v))
          = Cardinality(Pieces(reservation, Promised(c), v))
    BY <1>5, <1>10, ViewsAreLines
  <2>2. stock[v] - Cardinality(Pieces(reservation, Promised(c), v)) >= 0
    BY <1>12 DEF StockInv, PromisesFit, Available, OpenReservationsSum
  <2> QED
    BY <1>1, <1>8, <1>12, <2>1, <2>2 DEF Available, OpenReservationsSum
<1>13. PromisesFit'
  BY <1>11, <1>12 DEF PromisesFit
<1>14. NeverOversold'
  <2>1. \A v \in Variants : Cardinality(Pieces(reservation', Open, v))
                              = Cardinality(Pieces(reservation, Open, v))
    BY <1>5, <1>10 DEF Open
  <2> QED
    BY <1>1, <1>6, <2>1 DEF StockInv, NeverOversold, Available, OpenReservationsSum
<1>15. HandedIsThere'
  <2>1. ASSUME NEW c \in Clerks, NEW v \in Variants
        PROVE  Cardinality(Pieces(reservation', handed[c], v))
                 = Cardinality(Pieces(reservation, handed[c], v))
    <3>1. l \notin handed[c]
      BY <1>5 DEF Written
    <3> QED
      BY <1>10, <3>1, ViewsAreLines
  <2> QED
    BY <1>1, <2>1 DEF StockInv, HandedIsThere
<1> QED
  BY <1>13, <1>14, <1>15 DEF StockInv

LEMMA RollBackFits ==
  ASSUME Inv, StockInv, NEW p \in Clerks, RollBack(p)
  PROVE  StockInv'
<1>1. /\ reservation' = [l \in Lines |->
                           IF l \in made[p] THEN NoReservation ELSE reservation[l]]
      /\ UNCHANGED stock /\ Forget(p)
  BY DEF RollBack
<1>2. /\ made'[p] = {} /\ freed'[p] = {} /\ handed'[p] = {}
      /\ \A q \in Clerks : q # p =>
           made'[q] = made[q] /\ freed'[q] = freed[q] /\ handed'[q] = handed[q]
  BY <1>1, ForgetSession
<1>3. \A l \in made[p] : reservation[l].status = "PENDING"
  BY DEF Inv, WrittenUnderLock
<1>4. Open' = Open /\ made[p] \cap Open = {}
  BY <1>1, <1>3 DEF Open, NoReservation
\* Nobody else counts the rows that go.
<1>5. ASSUME NEW S \in SUBSET Lines, made[p] \cap S = {}, NEW v
      PROVE  Cardinality(Pieces(reservation', S, v)) = Cardinality(Pieces(reservation, S, v))
  <2>1. \A l \in S : reservation'[l] = reservation[l]
    BY <1>1, <1>5
  <2> QED
    BY <2>1, PiecesFrame
<1>6. ASSUME NEW v \in Variants
      PROVE  Cardinality(Pieces(reservation', Open, v)) = Cardinality(Pieces(reservation, Open, v))
  BY <1>4, <1>5 DEF Open
<1>7. NeverOversold'
  BY <1>1, <1>4, <1>6 DEF StockInv, NeverOversold, Available, OpenReservationsSum
<1>8. ASSUME NEW q \in Clerks, NEW v \in Variants, v \notin PreOrder
      PROVE  Available(stock', reservation', Promised(q)', v) >= 0
  <2>1. CASE q = p
    <3>1. Promised(q)' = Open'
      BY <1>2, <2>1 DEF Promised
    <3> QED
      BY <1>7, <1>8, <3>1 DEF NeverOversold
  <2>2. CASE q # p
    <3>1. Promised(q)' = Promised(q)
      BY <1>2, <1>4, <2>2 DEF Promised
    <3>2. made[p] \cap Promised(q) = {}
      BY <1>4, <2>2, WritesAreApart DEF Promised, Written
    <3>3. Cardinality(Pieces(reservation', Promised(q), v))
            = Cardinality(Pieces(reservation, Promised(q), v))
      BY <1>5, <3>2, ViewsAreLines
    <3>4. stock[v] - Cardinality(Pieces(reservation, Promised(q), v)) >= 0
      BY <1>8 DEF StockInv, PromisesFit, Available, OpenReservationsSum
    <3> QED
      BY <1>1, <3>1, <3>3, <3>4 DEF Available, OpenReservationsSum
  <2> QED
    BY <2>1, <2>2
<1>9. ASSUME NEW q \in Clerks, NEW v \in Variants
      PROVE  Cardinality(Pieces(reservation', handed'[q], v)) <= stock'[v]
  <2>1. CASE q = p
    <3>1. Cardinality(Pieces(reservation', {}, v)) = 0
      BY PiecesOfOthers
    <3>2. stock'[v] \in Int /\ stock'[v] >= 0
      BY <1>1, SumsAreInt DEF StockInv, NeverOversold
    <3> QED
      BY <1>2, <2>1, <3>1, <3>2
  <2>2. CASE q # p
    <3>1. made[p] \cap handed[q] = {}
      BY <2>2, WritesAreApart DEF Written
    <3>2. Cardinality(Pieces(reservation', handed[q], v))
            = Cardinality(Pieces(reservation, handed[q], v))
      BY <1>5, <3>1, ViewsAreLines
    <3>3. Cardinality(Pieces(reservation, handed[q], v)) <= stock[v]
      BY DEF StockInv, HandedIsThere
    <3> QED
      BY <1>1, <1>2, <2>2, <3>2, <3>3
  <2> QED
    BY <2>1, <2>2
<1> QED
  BY <1>7, <1>8, <1>9 DEF StockInv, PromisesFit, HandedIsThere

LEMMA CommitFits ==
  ASSUME Inv, StockInv, NEW p \in Clerks, Commit(p)
  PROVE  StockInv'
<1>1. /\ stock' = [v \in Variants |->
                     stock[v] - Cardinality(Pieces(reservation, handed[p], v))]
      /\ Forget(p)
  BY DEF Commit
<1>2. /\ made'[p] = {} /\ freed'[p] = {} /\ handed'[p] = {}
      /\ \A q \in Clerks : q # p =>
           made'[q] = made[q] /\ freed'[q] = freed[q] /\ handed'[q] = handed[q]
  BY <1>1, ForgetSession
<1>3. \A l \in Lines : l \notin Written(p) => reservation'[l] = reservation[l]
  BY CommitRows
<1>4. ASSUME NEW l \in Lines
      PROVE  /\ reservation'[l].variant = reservation[l].variant
             /\ reservation'[l].quantity = reservation[l].quantity
             /\ l \in Written(p) => (reservation'[l].status = "OPEN" <=> l \in made[p])
  <2>1. CASE l \in Written(p)
    <3>1. reservation[l] \in Reservation
      BY <2>1, CommitRows
    <3>2. \A k \in made[p] : reservation[k].status = "PENDING"
      BY DEF Inv, WrittenUnderLock
    <3>3. \A k \in freed[p] \cup handed[p] : reservation[k].status = "OPEN"
      BY DEF Inv, WrittenUnderLock
    <3>4. \E s \in {"OPEN", "CANCELLED", "DELIVERED"} :
            /\ reservation'[l] = [reservation[l] EXCEPT !.status = s]
            /\ s = "OPEN" <=> l \in made[p]
      BY <2>1, <3>2, <3>3, CommitRows DEF Written
    <3> QED
      BY <2>1, <3>1, <3>4 DEF Reservation
  <2>2. CASE l \notin Written(p)
    BY <1>3, <2>2
  <2> QED
    BY <2>1, <2>2
\* What is open then is what p promised, without what it hands over.
<1>5. /\ Open' = Promised(p) \ handed[p]
      /\ handed[p] \subseteq Promised(p)
  <2>1. \A k \in handed[p] : k \in Open /\ k \notin freed[p]
    BY DEF Inv, WrittenUnderLock, WritesFitKind, TypeOK, Open
  <2>2. Open' = { l \in Lines : reservation'[l].status = "OPEN" }
    BY DEF Open
  <2>3. made[p] \cap freed[p] = {}
    BY DEF Inv, WrittenUnderLock
  <2>4. made[p] \cap handed[p] = {}
    BY DEF Inv, WrittenUnderLock
  <2>5. \A l \in Lines : l \in Open' <=> l \in Promised(p) \ handed[p]
    BY <1>3, <1>4, <2>2, <2>3, <2>4 DEF Promised, Open, Written
  <2> QED
    BY <2>1, <2>2, <2>5, ViewsAreLines DEF Promised
<1>6. ASSUME NEW S \in SUBSET Lines, NEW v
      PROVE  Cardinality(Pieces(reservation', S, v)) = Cardinality(Pieces(reservation, S, v))
  BY <1>4, PiecesFrame
<1>7. ASSUME NEW v \in Variants
      PROVE  /\ stock'[v] - Cardinality(Pieces(reservation', Open', v))
                  = stock[v] - Cardinality(Pieces(reservation, Promised(p), v))
             /\ stock'[v] >= 0 /\ stock'[v] \in Int
  <2> DEFINE given == Cardinality(Pieces(reservation, handed[p], v))
             left == Cardinality(Pieces(reservation, Promised(p) \ handed[p], v))
             all == Cardinality(Pieces(reservation, Promised(p), v))
  <2>1. all = left + given
    <3>1. Promised(p) = (Promised(p) \ handed[p]) \cup handed[p]
      BY <1>5
    <3>2. /\ Promised(p) \ handed[p] \in SUBSET Lines /\ handed[p] \in SUBSET Lines
          /\ (Promised(p) \ handed[p]) \cap handed[p] = {}
      BY ViewsAreLines
    <3>3. Cardinality(Pieces(reservation, (Promised(p) \ handed[p]) \cup handed[p], v))
            = left + given
      BY <3>2, PiecesSplit
    <3> QED
      BY <3>1, <3>3
  <2>2. Cardinality(Pieces(reservation', Open', v)) = left
    BY <1>5, <1>6, ViewsAreLines
  <2>3. stock'[v] = stock[v] - given
    BY <1>1
  <2>4. stock[v] \in Int /\ given \in Nat /\ left \in Nat
    BY SumsAreInt, ViewsAreLines
  <2>5. given <= stock[v]
    BY DEF StockInv, HandedIsThere
  <2> HIDE DEF given, left, all
  <2>6. stock'[v] - left = stock[v] - all /\ stock'[v] >= 0 /\ stock'[v] \in Int
    BY <2>1, <2>3, <2>4, <2>5
  <2> QED
    BY <2>2, <2>6 DEF all
<1>8. NeverOversold'
  <2>1. ASSUME NEW v \in Variants, v \notin PreOrder
        PROVE  stock[v] - Cardinality(Pieces(reservation, Promised(p), v)) >= 0
    BY <2>1 DEF StockInv, PromisesFit, Available, OpenReservationsSum
  <2> QED
    BY <1>7, <2>1 DEF NeverOversold, Available, OpenReservationsSum
\* A variant p wrote nothing of, and one it did.
<1>9. ASSUME NEW q \in Clerks, q # p, NEW v \in Variants
      PROVE  /\ v \notin PreOrder => Available(stock', reservation', Promised(q)', v) >= 0
             /\ Cardinality(Pieces(reservation', handed'[q], v)) <= stock'[v]
  <2>1. CASE \A l \in Written(p) : reservation[l].variant # v
    <3>1. stock'[v] = stock[v]
      <4>1. Cardinality(Pieces(reservation, handed[p], v)) = 0
        BY <2>1, ViewsAreLines, PiecesOfOthers DEF Written
      <4> QED
        BY <1>1, <4>1, SumsAreInt
    <3>2. \A l \in Lines : reservation[l].variant = v => (l \in Open' <=> l \in Open)
      BY <1>3, <2>1 DEF Open
    <3>3. \A l \in Lines : l \in Promised(q) /\ reservation[l].variant = v
                             <=> l \in Promised(q)' /\ reservation'[l].variant = v
      BY <1>2, <1>4, <1>9, <3>2 DEF Promised
    <3>4. Promised(q) \in SUBSET Lines /\ Promised(q)' \in SUBSET Lines
      <4>1. Promised(q)' = (Open' \cup made[q]) \ freed[q]
        BY <1>2, <1>9 DEF Promised
      <4>2. Open' \in SUBSET Lines
        BY DEF Open
      <4> QED
        BY <4>1, <4>2, ViewsAreLines
    <3>5. Cardinality(Pieces(reservation', Promised(q)', v))
            = Cardinality(Pieces(reservation, Promised(q), v))
      BY <1>4, <3>3, <3>4, PiecesFrame
    <3>6. v \notin PreOrder =>
            stock[v] - Cardinality(Pieces(reservation, Promised(q), v)) >= 0
      BY DEF StockInv, PromisesFit, Available, OpenReservationsSum
    <3>7. v \notin PreOrder => Available(stock', reservation', Promised(q)', v) >= 0
      BY <3>1, <3>5, <3>6 DEF Available, OpenReservationsSum
    <3>8. Cardinality(Pieces(reservation', handed[q], v))
            = Cardinality(Pieces(reservation, handed[q], v))
      BY <1>6, ViewsAreLines
    <3>9. Cardinality(Pieces(reservation, handed[q], v)) <= stock[v]
      BY DEF StockInv, HandedIsThere
    <3> QED
      BY <1>2, <1>9, <3>1, <3>7, <3>8, <3>9
  <2>2. CASE \E l \in Written(p) : reservation[l].variant = v
    <3>1. \A l \in Written(q) : reservation[l].variant # v
      BY <1>9, <2>2, WritersApart
    <3>2. Promised(q)' = (Open' \cup made[q]) \ freed[q]
      BY <1>2, <1>9 DEF Promised
    <3>3. Open' \in SUBSET Lines
      BY DEF Open
    <3>4. \A l \in Lines : l \in Open' /\ reservation'[l].variant = v
                             <=> l \in Promised(q)' /\ reservation'[l].variant = v
      BY <1>4, <3>1, <3>2 DEF Written
    <3>5. Promised(q)' \in SUBSET Lines
      BY <3>2, <3>3, ViewsAreLines
    <3>6. Cardinality(Pieces(reservation', Promised(q)', v))
            = Cardinality(Pieces(reservation', Open', v))
      BY <3>3, <3>4, <3>5, PiecesFrame
    <3>7. v \notin PreOrder => Available(stock', reservation', Promised(q)', v) >= 0
      BY <1>8, <3>6 DEF NeverOversold, Available, OpenReservationsSum
    <3>8. Cardinality(Pieces(reservation', handed[q], v)) = 0
      <4>1. \A l \in handed[q] : reservation'[l].variant # v
        BY <1>4, <3>1, ViewsAreLines DEF Written
      <4> QED
        BY <4>1, ViewsAreLines, PiecesOfOthers
    <3> QED
      BY <1>2, <1>7, <1>9, <3>7, <3>8
  <2> QED
    BY <2>1, <2>2
<1>10. PromisesFit'
  <2>1. Promised(p)' = Open'
    BY <1>2 DEF Promised
  <2> QED
    BY <1>8, <1>9, <2>1 DEF NeverOversold, PromisesFit
<1>11. HandedIsThere'
  <2>1. \A v \in Variants : Cardinality(Pieces(reservation', {}, v)) = 0
    BY PiecesOfOthers
  <2> QED
    BY <1>2, <1>7, <1>9, <2>1 DEF HandedIsThere
<1> QED
  BY <1>8, <1>10, <1>11 DEF StockInv

-----------------------------------------------------------------------------
\* Receipts and corrections: they take the lock for one write.

LEMMA UnlockedIsUnwritten ==
  ASSUME Inv, NEW v, LockFree(v), NEW p \in Clerks
  PROVE  \A l \in Written(p) : reservation[l].variant # v
BY WriterHolds DEF LockFree

LEMMA StockFits ==
  ASSUME Inv, StockInv, NEW v \in Variants, NEW q \in Int, LockFree(v),
         stock' = [stock EXCEPT ![v] = @ + q],
         q >= 0 \/ CorrectionFits(v, q),
         UNCHANGED <<reservation, made, freed, handed>>
  PROVE  StockInv'
<1>1. /\ stock'[v] = stock[v] + q
      /\ \A w \in Variants : w # v => stock'[w] = stock[w]
  BY DEF Inv, TypeOK
<1>2. Open' = Open /\ \A p \in Clerks : Promised(p)' = Promised(p)
  BY DEF Open, Promised
<1>3. stock[v] \in Int /\ Cardinality(Pieces(reservation, Open, v)) \in Nat
  BY SumsAreInt DEF Open
<1>4. stock[v] >= 0
  BY DEF StockInv, NeverOversold
<1>5. q >= 0 \/ stock[v] - Cardinality(Pieces(reservation, Open, v)) + q >= 0
  BY DEF CorrectionFits, Available, OpenReservationsSum
<1>6. stock[v] + q >= 0
  BY <1>3, <1>4, <1>5
<1>7. v \notin PreOrder => stock[v] - Cardinality(Pieces(reservation, Open, v)) >= 0
  BY DEF StockInv, NeverOversold, Available, OpenReservationsSum
<1>8. v \notin PreOrder => (stock[v] + q) - Cardinality(Pieces(reservation, Open, v)) >= 0
  BY <1>3, <1>5, <1>7
<1>9. NeverOversold'
  BY <1>1, <1>2, <1>6, <1>8 DEF StockInv, NeverOversold, Available, OpenReservationsSum
<1>10. ASSUME NEW p \in Clerks
       PROVE  /\ Cardinality(Pieces(reservation, Promised(p), v))
                   = Cardinality(Pieces(reservation, Open, v))
              /\ Cardinality(Pieces(reservation, handed[p], v)) = 0
  <2>1. \A l \in Written(p) : reservation[l].variant # v
    BY UnlockedIsUnwritten
  <2>2. \A l \in Lines : l \in Open /\ reservation[l].variant = v
                           <=> l \in Promised(p) /\ reservation[l].variant = v
    BY <2>1 DEF Promised, Written
  <2>3. Cardinality(Pieces(reservation, Promised(p), v))
          = Cardinality(Pieces(reservation, Open, v))
    BY <2>2, ViewsAreLines, PiecesFrame
  <2>4. Cardinality(Pieces(reservation, handed[p], v)) = 0
    BY <2>1, ViewsAreLines, PiecesOfOthers DEF Written
  <2> QED
    BY <2>3, <2>4
<1>11. PromisesFit'
  BY <1>1, <1>2, <1>8, <1>10 DEF StockInv, PromisesFit, Available, OpenReservationsSum
<1>12. HandedIsThere'
  BY <1>1, <1>6, <1>10 DEF StockInv, HandedIsThere
<1> QED
  BY <1>9, <1>11, <1>12 DEF StockInv

-----------------------------------------------------------------------------
\* Every step.

LEMMA InitFits == Init => StockInv
<1> SUFFICES ASSUME Init PROVE StockInv
  OBVIOUS
<1>1. \A v : Cardinality(Pieces(reservation, {}, v)) = 0
  BY PiecesOfOthers
<1>2. Open = {}
  BY DEF Init, Open, NoReservation
<1>3. \A p \in Clerks : Promised(p) = {} /\ handed[p] = {}
  BY <1>2 DEF Init, Promised
<1>4. \A v \in Variants : stock[v] = 0
  BY DEF Init
<1>5. \A v \in Variants : Available(stock, reservation, {}, v) >= 0
  BY <1>1, <1>4 DEF Available, OpenReservationsSum
<1>6. NeverOversold
  BY <1>2, <1>4, <1>5 DEF NeverOversold
<1>7. PromisesFit
  BY <1>3, <1>5 DEF PromisesFit
<1>8. HandedIsThere
  BY <1>1, <1>3, <1>4 DEF HandedIsThere
<1> QED
  BY <1>6, <1>7, <1>8 DEF StockInv

LEMMA ProceedFits ==
  ASSUME Inv, StockInv, NEW p \in Clerks, Proceed(p)
  PROVE  StockInv'
<1>1. CASE \/ \E o \in Orders : InsertOrder(p, o)
           \/ \E i \in req[p].todo, l \in Lines : InsertLine(p, i, l)
           \/ Publish(p) \/ StartAdding(p) \/ CancelOrder(p) \/ LockLine(p)
           \/ IssueNothing(p) \/ IssueRead(p)
  <2>1. UNCHANGED <<stock, reservation, made, freed, handed>>
    BY <1>1 DEF InsertOrder, InsertLine, Publish, StartAdding, CancelOrder, LockLine,
                IssueNothing, IssueRead, rows
  <2> QED
    BY <2>1, SameViews
<1>2. CASE AnswerAgain(p) \/ Refuse(p)
  BY <1>2, RollBackFits DEF AnswerAgain, Refuse
<1>3. CASE \E i \in req[p].todo, id \in Lines : Reserve(p, i, id)
  BY <1>3, ReserveFits
<1>4. CASE \E l \in req[p].drop :
             ReleaseNothing(p, l) \/ ReadReservation(p, l) \/ Release(p, l) \/ Flush(p, l)
  <2>1. CASE \E l \in req[p].drop :
               ReleaseNothing(p, l) \/ ReadReservation(p, l) \/ Flush(p, l)
    <3>1. UNCHANGED <<stock, reservation, made, freed, handed>>
      BY <2>1 DEF ReleaseNothing, ReadReservation, Flush, rows
    <3> QED
      BY <3>1, SameViews
  <2> QED
    BY <1>4, <2>1, ReleaseFits
<1>5. CASE Issue(p)
  BY <1>5, IssueFits
<1>6. CASE Commit(p)
  BY <1>6, CommitFits
<1> QED
  BY <1>1, <1>2, <1>3, <1>4, <1>5, <1>6 DEF Proceed

LEMMA StockInductive == Inv /\ StockInv /\ [Next]_vars => StockInv'
<1> SUFFICES ASSUME Inv, StockInv, [Next]_vars PROVE StockInv'
  OBVIOUS
<1>1. ASSUME NEW p \in Clerks, Start(p)
      PROVE  StockInv'
  <2>1. UNCHANGED <<stock, reservation, made, freed, handed>>
    BY <1>1 DEF Start, SubmitOrder, StartChange, StartCancel, StartDeliver, rows
  <2> QED
    BY <2>1, SameViews
<1>2. ASSUME NEW p \in Clerks, DeadlockVictim(p) \/ Fail(p)
      PROVE  StockInv'
  BY <1>2, RollBackFits DEF DeadlockVictim, Fail
<1>3. ASSUME NEW v \in Variants, Stock(v)
      PROVE  StockInv'
  <2>1. \A q \in Quantities : q \in Int /\ q >= 0 /\ -q \in Int
    BY MaxQuantityAssumption DEF Quantities
  <2>2. PICK q \in Int : /\ LockFree(v)
                         /\ stock' = [stock EXCEPT ![v] = @ + q]
                         /\ q >= 0 \/ CorrectionFits(v, q)
                         /\ UNCHANGED <<reservation, made, freed, handed>>
    BY <1>3, <2>1 DEF Stock, BookReceipt, ApplyCorrection, session
  <2> QED
    BY <2>2, StockFits
<1>4. CASE UNCHANGED vars
  BY <1>4, SameViews DEF vars, rows, session
<1> QED
  BY <1>1, <1>2, <1>3, <1>4, ProceedFits DEF Next

\* What a request has checked under the locks it holds stays so until it commits: if it
\* committed now, what is then reserved would fit the shelf.
THEOREM PromisesAreKept == Spec => []StockInv
<1> QED
  BY InitFits, StockInductive, Invariant, PTL DEF Spec

\* The last piece is sold once: whatever the requests that run, the committed
\* reservations of a variant that is not on pre-order fit the shelf, and the
\* shelf is never below zero.  reserve, issue and correct read under the lock of
\* the variant and keep it to their commit.
THEOREM LastPieceIsSoldOnce == Spec => []NeverOversold
<1>1. StockInv => NeverOversold
  BY DEF StockInv
<1> QED
  BY <1>1, PromisesAreKept, PTL

-----------------------------------------------------------------------------
\* An order that is covered stays covered.

\* What a commit leaves of the reservations, and which are open then.
LEMMA CommitOpens ==
  ASSUME Inv, NEW p \in Clerks, Commit(p)
  PROVE  /\ \A l \in Lines : /\ reservation'[l].variant = reservation[l].variant
                             /\ reservation'[l].quantity = reservation[l].quantity
                             /\ reservation'[l].id = reservation[l].id
         /\ Open' = (Open \cup made[p]) \ (freed[p] \cup handed[p])
<1>1. \A l \in made[p] : reservation[l].status = "PENDING"
  BY DEF Inv, WrittenUnderLock
<1>2. \A l \in freed[p] \cup handed[p] : reservation[l].status = "OPEN"
  BY DEF Inv, WrittenUnderLock
<1>3. made[p] \subseteq Lines
  BY ViewsAreLines
<1>4. ASSUME NEW l \in Lines
      PROVE  /\ reservation'[l].variant = reservation[l].variant
             /\ reservation'[l].quantity = reservation[l].quantity
             /\ reservation'[l].id = reservation[l].id
             /\ reservation'[l].status = "OPEN" <=>
                  l \in (Open \cup made[p]) \ (freed[p] \cup handed[p])
  <2>1. CASE l \notin Written(p)
    BY <2>1, CommitRows DEF Written, Open
  <2>2. CASE l \in Written(p)
    <3>1. \E s \in {"OPEN", "CANCELLED", "DELIVERED"} :
            /\ reservation'[l] = [reservation[l] EXCEPT !.status = s]
            /\ s = "OPEN" <=> l \in made[p]
      BY <1>1, <1>2, <2>2, CommitRows DEF Written
    <3>2. reservation[l] \in Reservation
      BY <2>2, CommitRows
    <3>3. l \in made[p] <=> l \in (Open \cup made[p]) \ (freed[p] \cup handed[p])
      BY <1>1, <1>2, <2>2 DEF Written
    <3> QED
      BY <3>1, <3>2, <3>3 DEF Reservation
  <2> QED
    BY <2>1, <2>2
<1> QED
  BY <1>3, <1>4 DEF Open

\* The grants of a variant are numbered.
LEMMA IdsAreNumbers ==
  ASSUME Inv, NEW l \in Lines
  PROVE  /\ reservation[l].id \in Nat
         /\ reservation[l] # NoReservation => reservation[l].id > 0
<1>1. reservation[l] \in Reservation \/ reservation[l] = NoReservation
  BY DEF Inv, TypeOK
<1>2. \A n \in Lines : n \in Nat /\ n > 0
  BY DEF Lines
<1> QED
  BY <1>1, <1>2 DEF Reservation, NoReservation

\* Whether a line is covered hangs on the open rows and on the shelf of its variant.
LEMMA CoveredFrame ==
  ASSUME NEW resv, NEW next, NEW S \in SUBSET Lines, NEW T \in SUBSET S, NEW l \in T,
         \A k \in T : /\ next[k].variant = resv[k].variant
                      /\ next[k].quantity = resv[k].quantity
                      /\ next[k].id = resv[k].id,
         NEW shelf, NEW left, shelf[resv[l].variant] \in Int, left[resv[l].variant] \in Int,
         shelf[resv[l].variant] <= left[resv[l].variant],
         Covered(shelf, resv, S, l)
  PROVE  Covered(left, next, T, l)
<1> DEFINE v == resv[l].variant
           M == NotYounger(resv, S, l)
           N == NotYounger(next, T, l)
<1>1. N \in SUBSET M /\ M \in SUBSET Lines /\ N \in SUBSET Lines
  BY DEF NotYounger
<1>2. Cardinality(Pieces(resv, N, v)) <= Cardinality(Pieces(resv, M, v))
  BY <1>1, PiecesMonotone
<1>3. /\ Cardinality(Pieces(resv, N, v)) \in Nat
      /\ Cardinality(Pieces(resv, M, v)) \in Nat
  BY <1>1, PiecesFinite
<1>4. \A k \in N : next[k].variant = resv[k].variant /\ next[k].quantity = resv[k].quantity
  BY DEF NotYounger
<1>5. Pieces(next, N, v) = Pieces(resv, N, v)
  BY <1>1, <1>4, PiecesSame
<1>6. Cardinality(Pieces(next, N, v)) = Cardinality(Pieces(resv, N, v))
  BY <1>5, Zenon
<1>7. Cardinality(Pieces(resv, M, v)) <= shelf[v]
  BY DEF Covered, OpenReservationsSum
<1>8. next[l].variant = v
  OBVIOUS
<1> HIDE DEF M, N, v
<1>9. Cardinality(Pieces(next, N, v)) <= left[v]
  BY <1>2, <1>3, <1>6, <1>7 DEF v
<1> QED
  BY <1>8, <1>9 DEF Covered, OpenReservationsSum, N

\* A step that keeps the open rows, and takes nothing from the shelf.
LEMMA SameRowsCover ==
  ASSUME Inv, NEW l \in Open, Covered(stock, reservation, Open, l),
         Open' = Open, \A k \in Open : reservation'[k] = reservation[k],
         \A v \in Variants : stock'[v] \in Int /\ stock[v] <= stock'[v]
  PROVE  Covered(stock', reservation', Open', l)
<1>1. Open \in SUBSET Lines /\ Open \in SUBSET Open
  BY DEF Open
<1>2. reservation[l].variant \in Variants /\ stock \in [Variants -> Int]
  BY DEF Inv, TypeOK, Open, NoReservation, Reservation
<1> QED
  BY <1>1, <1>2, CoveredFrame

\* A correction leaves what is open covered.
LEMMA CorrectionCovers ==
  ASSUME Inv, NEW l \in Open, Covered(stock, reservation, Open, l),
         NEW v \in Variants, NEW q \in Int, stock' = [stock EXCEPT ![v] = @ + q],
         q < 0 => CorrectionFits(v, q), UNCHANGED reservation
  PROVE  Covered(stock', reservation', Open', l)
<1> DEFINE w == reservation[l].variant
           M == NotYounger(reservation, Open, l)
<1>1. w \in Variants /\ stock \in [Variants -> Int] /\ Open' = Open
  BY DEF Inv, TypeOK, Open, NoReservation, Reservation
<1>2. M \in SUBSET Open /\ Open \in SUBSET Lines /\ M \in SUBSET Lines
  BY DEF NotYounger, Open
<1>3. Cardinality(Pieces(reservation, M, w)) <= Cardinality(Pieces(reservation, Open, w))
  BY <1>2, PiecesMonotone
<1>4. /\ Cardinality(Pieces(reservation, M, w)) \in Nat
      /\ Cardinality(Pieces(reservation, Open, w)) \in Nat
  BY <1>2, PiecesFinite
<1>5. Cardinality(Pieces(reservation, M, w)) <= stock[w]
  BY DEF Covered, OpenReservationsSum
<1>6. q < 0 => stock[v] - Cardinality(Pieces(reservation, Open, v)) + q >= 0
  BY DEF CorrectionFits, Available, OpenReservationsSum
<1>7. stock'[w] = IF v = w THEN stock[w] + q ELSE stock[w]
  BY <1>1
<1> HIDE DEF M, w
<1>8. Cardinality(Pieces(reservation, M, w)) <= stock'[w]
  BY <1>1, <1>3, <1>4, <1>5, <1>6, <1>7
<1> QED
  BY <1>1, <1>8 DEF Covered, OpenReservationsSum, M, w

\* A commit hands over only what is covered, and opens only what is younger.
LEMMA CommitCovers ==
  ASSUME Inv, CoverInv, NEW p \in Clerks, Commit(p),
         NEW l \in Open, l \in Open', Covered(stock, reservation, Open, l)
  PROVE  Covered(stock', reservation', Open', l)
<1> DEFINE v == reservation[l].variant
           N == NotYounger(reservation, Open, l)
           T == Open \ (freed[p] \cup handed[p])
           M == NotYounger(reservation, T, l)
<1>1. /\ Open \in SUBSET Lines /\ made[p] \in SUBSET Lines /\ handed[p] \in SUBSET Lines
      /\ l \in Lines
  BY ViewsAreLines
<1>2. /\ \A k \in Lines : /\ reservation'[k].variant = reservation[k].variant
                          /\ reservation'[k].quantity = reservation[k].quantity
                          /\ reservation'[k].id = reservation[k].id
      /\ Open' = (Open \cup made[p]) \ (freed[p] \cup handed[p])
  BY CommitOpens
<1>3. v \in Variants /\ stock[v] \in Int
  BY DEF Inv, TypeOK, Open, NoReservation, Reservation
<1>4. stock'[v] = stock[v] - Cardinality(Pieces(reservation, handed[p], v))
  BY <1>3 DEF Commit
<1>5. l \notin made[p]
  BY DEF Inv, WrittenUnderLock, Open
<1>6. \A k \in Lines : reservation[k].id \in Nat
  BY IdsAreNumbers
<1>7. \A k \in made[p] : reservation[k].variant = v => ~(reservation[k].id <= reservation[l].id)
  <2>1. \A k \in made[p] : reservation[l].variant = reservation[k].variant =>
                             reservation[l].id < reservation[k].id
    BY <1>1, <1>5 DEF CoverInv, GrantedLast
  <2> QED
    BY <1>1, <1>6, <2>1
<1>8. NotYounger(reservation', Open', l) = M
  BY <1>1, <1>2, <1>7 DEF NotYounger
<1>9. M \in SUBSET N /\ N \in SUBSET Open /\ M \in SUBSET Lines /\ N \in SUBSET Lines
  BY <1>1 DEF NotYounger
<1>10. Cardinality(Pieces(reservation', M, v)) = Cardinality(Pieces(reservation, M, v))
  <2>1. \A k \in M : /\ reservation'[k].variant = reservation[k].variant
                     /\ reservation'[k].quantity = reservation[k].quantity
    BY <1>2, <1>9
  <2> HIDE DEF M, v
  <2>2. Pieces(reservation', M, v) = Pieces(reservation, M, v)
    BY <1>9, <2>1, PiecesSame
  <2> QED
    BY <2>2, Zenon
<1>11. Cardinality(Pieces(reservation, N, v)) <= stock[v]
  BY DEF Covered, OpenReservationsSum
<1>12. /\ Cardinality(Pieces(reservation, M, v)) \in Nat
       /\ Cardinality(Pieces(reservation, N, v)) \in Nat
       /\ Cardinality(Pieces(reservation, handed[p], v)) \in Nat
  BY <1>1, <1>9, PiecesFinite
<1>13. Cardinality(Pieces(reservation, M, v)) + Cardinality(Pieces(reservation, handed[p], v))
         <= stock[v]
  <2>1. CASE \A h \in handed[p] : reservation[h].variant # v
    <3>1. Cardinality(Pieces(reservation, handed[p], v)) = 0
      BY <1>1, <2>1, PiecesOfOthers
    <3>2. Cardinality(Pieces(reservation, M, v)) <= Cardinality(Pieces(reservation, N, v))
      BY <1>9, PiecesMonotone
    <3> HIDE DEF M, N, v
    <3> QED
      BY <1>3, <1>11, <1>12, <3>1, <3>2
  <2>2. ASSUME NEW h \in handed[p], reservation[h].variant = v
        PROVE  Cardinality(Pieces(reservation, M, v))
                 + Cardinality(Pieces(reservation, handed[p], v)) <= stock[v]
    <3> DEFINE K == IF reservation[h].id <= reservation[l].id
                    THEN N ELSE NotYounger(reservation, Open, h)
    <3>1. handed[p] = {req[p].line} /\ h = req[p].line /\ h \in Open
      BY <2>2 DEF CoverInv, HandsOverItsLine, Inv, WrittenUnderLock, Open, TypeOK
    <3>2. req[p].kind = "deliver" /\ pc[p] = "commit"
      BY <2>2 DEF Inv, WritesFitKind, Commit
    <3>3. Covered(stock, reservation, Open, h)
      BY <3>1, <3>2 DEF CoverInv, DeliversCovered
    <3>4. Cardinality(Pieces(reservation, K, v)) <= stock[v]
      BY <1>11, <2>2, <3>3 DEF Covered, OpenReservationsSum
    <3>5. M \cup handed[p] \subseteq K /\ M \cap handed[p] = {} /\ K \in SUBSET Lines
      BY <1>1, <1>6, <1>9, <2>2, <3>1 DEF NotYounger
    <3> HIDE DEF M, N, K, v
    <3>6. Cardinality(Pieces(reservation, M \cup handed[p], v))
            = Cardinality(Pieces(reservation, M, v)) + Cardinality(Pieces(reservation, handed[p], v))
      BY <1>1, <1>9, <3>5, PiecesSplit
    <3>7. Cardinality(Pieces(reservation, M \cup handed[p], v))
            <= Cardinality(Pieces(reservation, K, v))
      BY <3>5, PiecesMonotone
    <3>8. Cardinality(Pieces(reservation, K, v)) \in Nat
      BY <3>5, PiecesFinite
    <3> QED
      BY <1>3, <1>12, <3>4, <3>6, <3>7, <3>8
  <2> QED
    BY <2>1, <2>2
<1>14. Cardinality(Pieces(reservation', M, v)) <= stock'[v]
  <2> HIDE DEF M, N, v
  <2> QED
    BY <1>3, <1>4, <1>10, <1>12, <1>13
<1>15. reservation'[l].variant = v
  BY <1>1, <1>2
<1> QED
  BY <1>8, <1>14, <1>15 DEF Covered, OpenReservationsSum

\* What a request writes and commits without a reservation leaves the rows.
LEMMA StepRows ==
  ASSUME Inv, NEW p \in Clerks,
         Start(p) \/ (\E o \in Orders : InsertOrder(p, o)) \/ Middle(p)
  PROVE  \/ UNCHANGED <<stock, reservation>>
         \/ \E i \in req[p].todo, id \in Lines : Reserve(p, i, id)
BY DEF Start, SubmitOrder, StartChange, StartCancel, StartDeliver, InsertOrder, Middle, InsertLine,
       ReleaseNothing, ReadReservation, Release, Flush, Publish, StartAdding, CancelOrder,
       LockLine, IssueNothing, IssueRead, Issue, rows

\* Every step: what is covered and stays open stays covered.
LEMMA StepCovers ==
  ASSUME Inv, CoverInv, [Next]_vars,
         NEW l \in Open, l \in Open', Covered(stock, reservation, Open, l)
  PROVE  Covered(stock', reservation', Open', l)
<1>1. \A v \in Variants : stock[v] \in Int
  BY DEF Inv, TypeOK
<1>2. CASE UNCHANGED <<stock, reservation>>
  BY <1>2 DEF Open
<1>3. ASSUME NEW p \in Clerks, NEW i, NEW id \in Lines, Reserve(p, i, id)
      PROVE  Covered(stock', reservation', Open', l)
  <2>1. /\ req[p].line \in Lines /\ reservation[req[p].line] = NoReservation
        /\ reservation' = [reservation EXCEPT ![req[p].line] =
             [variant |-> line[req[p].line].variant, quantity |-> line[req[p].line].quantity,
              id |-> id, status |-> "PENDING"]]
        /\ UNCHANGED stock
    BY <1>3 DEF Inv, InsertedIsOwn, Reserve, Step
  <2>2. \A k \in Lines : k # req[p].line => reservation'[k] = reservation[k]
    BY <2>1 DEF Inv, TypeOK
  <2>3. req[p].line \notin Open /\ req[p].line \notin Open'
    BY <2>1 DEF Open, NoReservation, Inv, TypeOK
  <2>4. Open' = Open /\ \A k \in Open : reservation'[k] = reservation[k]
    BY <2>2, <2>3 DEF Open
  <2>5. \A v \in Variants : stock'[v] \in Int /\ stock[v] <= stock'[v]
    BY <1>1, <2>1
  <2> QED
    BY <2>4, <2>5, SameRowsCover
<1>4. ASSUME NEW p \in Clerks, RollBack(p)
      PROVE  Covered(stock', reservation', Open', l)
  <2>1. /\ reservation' = [k \in Lines |->
                             IF k \in made[p] THEN NoReservation ELSE reservation[k]]
        /\ UNCHANGED stock
    BY <1>4 DEF RollBack
  <2>2. \A k \in made[p] : k \notin Open
    BY DEF Inv, WrittenUnderLock, Open
  <2>3. Open' = Open /\ \A k \in Open : reservation'[k] = reservation[k]
    BY <2>1, <2>2 DEF Open, NoReservation
  <2>4. \A v \in Variants : stock'[v] \in Int /\ stock[v] <= stock'[v]
    BY <1>1, <2>1
  <2> QED
    BY <2>3, <2>4, SameRowsCover
<1>5. ASSUME NEW v \in Variants, Stock(v)
      PROVE  Covered(stock', reservation', Open', l)
  <2>1. \A q \in Quantities : q \in Int /\ -q \in Int /\ ~(q < 0)
    BY MaxQuantityAssumption DEF Quantities
  <2>2. PICK q \in Int : /\ stock' = [stock EXCEPT ![v] = @ + q]
                         /\ q < 0 => CorrectionFits(v, q)
                         /\ UNCHANGED reservation
    BY <1>5, <2>1 DEF Stock, BookReceipt, ApplyCorrection
  <2> QED
    BY <2>2, CorrectionCovers
<1>6. CASE \E p \in Clerks : Start(p) \/ (\E o \in Orders : InsertOrder(p, o)) \/ Middle(p)
  BY <1>2, <1>3, <1>6, StepRows
<1>7. CASE \E p \in Clerks : Proceed(p)
  BY <1>4, <1>6, <1>7, CommitCovers DEF Proceed, Middle, AnswerAgain, Refuse
<1>8. CASE UNCHANGED vars
  BY <1>2, <1>8 DEF vars, rows
<1> QED
  BY <1>4, <1>5, <1>6, <1>7, <1>8 DEF Next, DeadlockVictim, Fail

\* A delivery goes on with the line it was asked for, once it found it covered.
LEMMA DeliverySteps ==
  ASSUME Inv, [Next]_vars, NEW q \in Clerks, req'[q].kind = "deliver", pc'[q] # "lock_line"
  PROVE  /\ req[q].kind = "deliver" /\ req'[q].line = req[q].line
         /\ pc[q] # "lock_line" \/ Deliverable(req[q].line)
<1>1. /\ pc \in [Clerks -> Steps] /\ req \in [Clerks -> Request]
  BY DEF Inv, TypeOK
<1>2. CASE Start(q)
  BY <1>1, <1>2 DEF Start, SubmitOrder, StartChange, StartCancel, StartDeliver, Step, Serve
<1>3. CASE \E o \in Orders : InsertOrder(q, o)
  BY <1>1, <1>3, KindOfStep DEF InsertOrder, Step, Request
<1>4. CASE Middle(q)
  <2>1. req[q].kind = "deliver"
    BY <1>4, MiddleKeeps
  <2>2. pc[q] \in {"lock_line", "issue", "issue_locked", "commit"}
    BY <2>1 DEF Inv, StepsFitKind, StepsOf
  <2>3. LockLine(q) \/ IssueNothing(q) \/ IssueRead(q) \/ Issue(q)
    BY <1>4, <2>2 DEF Middle, InsertLine, Reserve, ReleaseNothing, ReadReservation, Release, Flush,
                      Publish, StartAdding, CancelOrder, Step
  <2> QED
    BY <2>1, <2>3 DEF LockLine, IssueNothing, IssueRead, Issue, Step
<1>5. CASE RollBack(q) \/ Commit(q)
  BY <1>5, ForgetSession DEF RollBack, Commit, NoRequest
<1>6. CASE pc'[q] = pc[q] /\ req'[q] = req[q]
  BY <1>6
<1> QED
  BY <1>2, <1>3, <1>4, <1>5, <1>6, StepKinds, OthersKept DEF session

LEMMA DeliveriesCovered ==
  ASSUME Inv, CoverInv, [Next]_vars
  PROVE  DeliversCovered'
<1> SUFFICES ASSUME NEW q \in Clerks, req'[q].kind = "deliver", pc'[q] # "lock_line",
                    req'[q].line \in Open'
             PROVE  Covered(stock', reservation', Open', req'[q].line)
  BY DEF DeliversCovered
<1> DEFINE l == req[q].line
<1>1. /\ req[q].kind = "deliver" /\ req'[q].line = l
      /\ pc[q] # "lock_line" \/ Deliverable(l)
  BY DeliverySteps
<1>2. l \in Lines /\ reservation[l].status \notin {"NONE", "PENDING"}
  BY <1>1 DEF Inv, InputsExist, Committed
<1>3. reservation[l].status \notin {"CANCELLED", "DELIVERED"}
  BY <1>1, <1>2, ClosedRowsStay DEF Open
<1>4. l \in Open
  BY <1>2, <1>3 DEF Inv, TypeOK, Reservation, ReservationStatus, Open, NoReservation
<1>5. Covered(stock, reservation, Open, l)
  BY <1>1, <1>4 DEF CoverInv, DeliversCovered, Deliverable
<1> QED
  BY <1>1, <1>4, <1>5, StepCovers

LEMMA HandsOverStep ==
  ASSUME Inv, CoverInv, [Next]_vars
  PROVE  HandsOverItsLine'
<1> SUFFICES ASSUME NEW q \in Clerks
             PROVE  handed'[q] \subseteq {req'[q].line}
  BY DEF HandsOverItsLine
<1>1. handed \in [Clerks -> SUBSET Lines] /\ handed[q] \subseteq {req[q].line}
  BY DEF Inv, TypeOK, CoverInv, HandsOverItsLine
<1>2. CASE Start(q) \/ (\E o \in Orders : InsertOrder(q, o))
  <2>1. handed[q] = {}
    BY <1>2, WritesOfKind, KindOfStep DEF Start, SubmitOrder, StartChange, StartCancel,
                                          StartDeliver, InsertOrder, Step
  <2> QED
    BY <1>2, <2>1 DEF Start, SubmitOrder, StartChange, StartCancel, StartDeliver, InsertOrder
<1>3. CASE Middle(q)
  <2>1. CASE LockLine(q) \/ IssueNothing(q) \/ IssueRead(q)
    BY <1>1, <2>1 DEF LockLine, IssueNothing, IssueRead
  <2>2. CASE Issue(q)
    BY <1>1, <2>2 DEF Issue, StillOpen
  <2>3. CASE ~(LockLine(q) \/ IssueNothing(q) \/ IssueRead(q) \/ Issue(q))
    <3>1. UNCHANGED handed
      BY <1>3, <2>3 DEF Middle, InsertLine, Reserve, ReleaseNothing, ReadReservation, Release,
                        Flush, Publish, StartAdding, CancelOrder
    <3>2. pc[q] \in {"item", "reserve", "release", "release_locked", "flush"}
      BY <1>3, <2>3 DEF Middle, InsertLine, Reserve, ReleaseNothing, ReadReservation, Release,
                        Flush, Publish, StartAdding, CancelOrder, Step
    <3>3. req[q].kind # "deliver"
      BY <3>2, KindOfStep
    <3> QED
      BY <3>1, <3>3, WritesOfKind
  <2> QED
    BY <2>1, <2>2, <2>3
<1>4. CASE RollBack(q) \/ Commit(q)
  BY <1>4, ForgetSession DEF RollBack, Commit
<1>5. CASE handed'[q] = handed[q] /\ req'[q] = req[q]
  BY <1>1, <1>5
<1> QED
  BY <1>2, <1>3, <1>4, <1>5, StepKinds, OthersKept DEF session

\* The grants of the requests stay the youngest while the rows keep their number.
LEMMA SameGrants ==
  ASSUME Inv, CoverInv,
         \A q \in Clerks : made'[q] \subseteq made[q],
         \A q \in Clerks : made'[q] # {} => made'[q] = made[q],
         \A q \in Clerks : \A l \in made'[q] :
           reservation'[l].variant = reservation[l].variant /\ reservation'[l].id = reservation[l].id,
         \A k \in Lines :
           \/ reservation'[k].variant = reservation[k].variant /\ reservation'[k].id = reservation[k].id
           \/ reservation'[k] = NoReservation
  PROVE  GrantedLast'
<1> SUFFICES ASSUME NEW q \in Clerks, NEW l \in made'[q], NEW k \in Lines, k \notin made'[q],
                    reservation'[k].variant = reservation'[l].variant
             PROVE  reservation'[k].id < reservation'[l].id
  BY DEF GrantedLast
<1>1. l \in made[q] /\ k \notin made[q] /\ l \in Lines
  BY DEF Inv, TypeOK
<1>2. reservation[l].status = "PENDING"
  BY <1>1 DEF Inv, WrittenUnderLock
<1>3. reservation[l].id \in Nat /\ reservation[l].id > 0
  BY <1>1, <1>2, IdsAreNumbers DEF NoReservation
<1>4. CASE reservation'[k].variant = reservation[k].variant /\ reservation'[k].id = reservation[k].id
  BY <1>1, <1>4 DEF CoverInv, GrantedLast
<1>5. CASE reservation'[k] = NoReservation
  BY <1>1, <1>3, <1>5 DEF NoReservation
<1> QED
  BY <1>4, <1>5

\* A new grant is younger than every other one of its variant, whose lock it has.
LEMMA ReserveGrants ==
  ASSUME Inv, CoverInv, NEW p \in Clerks, NEW i, NEW id \in Lines, Reserve(p, i, id)
  PROVE  GrantedLast'
<1> DEFINE n == req[p].line
           v == line[n].variant
<1>1. /\ pc[p] = "reserve" /\ Take(p) /\ NextNumber(id, UsedIds(v))
      /\ reservation' = [reservation EXCEPT ![n] =
           [variant |-> v, quantity |-> line[n].quantity, id |-> id, status |-> "PENDING"]]
      /\ made' = [made EXCEPT ![p] = @ \cup {n}]
  BY DEF Reserve, Step
<1>2. n \in Lines /\ reservation[n] = NoReservation
  BY <1>1 DEF Inv, InsertedIsOwn
<1>3. /\ reservation'[n].variant = v /\ reservation'[n].id = id
      /\ \A k \in Lines : k # n => reservation'[k] = reservation[k]
  BY <1>1, <1>2 DEF Inv, TypeOK
<1>4. made'[p] = made[p] \cup {n} /\ \A q \in Clerks : q # p => made'[q] = made[q]
  BY <1>1 DEF Inv, TypeOK
<1>5. \A k \in Lines : k # n /\ reservation[k].variant = v => reservation[k].id < id
  BY <1>1 DEF NextNumber, UsedIds
<1>6. \A q \in Clerks : made[q] \subseteq Lines /\ n \notin made[q]
  BY <1>2, UnreservedIsUnwritten DEF Written, Inv, TypeOK
<1>7. ASSUME NEW q \in Clerks, q # p, NEW l \in made[q]
      PROVE  reservation[l].variant # v
  <2>1. <<"variant", reservation[l].variant>> \in locks[q]
    BY <1>7, WriterHolds DEF Written
  <2>2. <<"variant", v>> \in Wanted(p)
    BY <1>1 DEF Wanted, Flushes, VariantLock
  <2> QED
    BY <1>1, <1>7, <2>1, <2>2 DEF Take, Free, WaitsFor
<1>8. ASSUME NEW q \in Clerks, NEW l \in made'[q], NEW k \in Lines, k \notin made'[q],
             reservation'[k].variant = reservation'[l].variant
      PROVE  reservation'[k].id < reservation'[l].id
  <2>1. CASE q = p
    <3>1. k # n /\ k \notin made[p] /\ reservation'[k] = reservation[k]
      BY <1>3, <1>4, <1>8, <2>1
    <3>2. CASE l = n
      BY <1>3, <1>5, <1>8, <3>1, <3>2
    <3>3. CASE l # n
      <4>1. l \in made[p] /\ reservation'[l] = reservation[l]
        BY <1>3, <1>4, <1>6, <1>8, <2>1, <3>3
      <4> QED
        BY <1>8, <3>1, <4>1 DEF CoverInv, GrantedLast
    <3> QED
      BY <3>2, <3>3
  <2>2. CASE q # p
    <3>1. l \in made[q] /\ k \notin made[q]
      BY <1>4, <1>8, <2>2
    <3>2. l # n /\ reservation'[l] = reservation[l] /\ reservation[l].variant # v
      BY <1>3, <1>6, <1>7, <2>2, <3>1
    <3>3. k # n /\ reservation'[k] = reservation[k]
      BY <1>3, <1>8, <3>2
    <3> QED
      BY <1>8, <3>1, <3>2, <3>3 DEF CoverInv, GrantedLast
  <2> QED
    BY <2>1, <2>2
<1> QED
  BY <1>8 DEF GrantedLast

LEMMA GrantsStep ==
  ASSUME Inv, CoverInv, [Next]_vars
  PROVE  GrantedLast'
<1>1. CASE UNCHANGED <<reservation, made>>
  BY <1>1, SameGrants
<1>2. ASSUME NEW p \in Clerks, RollBack(p)
      PROVE  GrantedLast'
  <2>1. /\ \A k \in Lines : IF k \in made[p] THEN reservation'[k] = NoReservation
                                             ELSE reservation'[k] = reservation[k]
        /\ Forget(p)
    BY <1>2 DEF RollBack
  <2>2. made'[p] = {} /\ \A q \in Clerks : q # p => made'[q] = made[q]
    BY <2>1, ForgetSession
  <2>3. \A q \in Clerks : q # p => \A l \in made[q] : l \in Lines /\ l \notin made[p]
    BY WritesAreApart, ViewsAreLines DEF Written
  <2>4. \A q \in Clerks : \A l \in made'[q] : reservation'[l] = reservation[l]
    BY <2>1, <2>2, <2>3
  <2> QED
    BY <2>1, <2>2, <2>4, SameGrants
<1>3. ASSUME NEW p \in Clerks, Commit(p)
      PROVE  GrantedLast'
  <2>1. Forget(p)
    BY <1>3 DEF Commit
  <2>2. made'[p] = {} /\ \A q \in Clerks : q # p => made'[q] = made[q]
    BY <2>1, ForgetSession
  <2>3. \A k \in Lines :
          reservation'[k].variant = reservation[k].variant /\ reservation'[k].id = reservation[k].id
    BY <1>3, CommitOpens
  <2>4. \A q \in Clerks : made[q] \subseteq Lines
    BY ViewsAreLines
  <2>5. \A q \in Clerks : made'[q] = {} \/ made'[q] = made[q]
    BY <2>2
  <2> QED
    BY <2>3, <2>4, <2>5, SameGrants
<1>4. CASE \E p \in Clerks : Start(p) \/ (\E o \in Orders : InsertOrder(p, o)) \/ Middle(p)
  <2>1. ASSUME NEW p \in Clerks, NEW i, NEW l \in Lines, InsertLine(p, i, l)
        PROVE  UNCHANGED <<reservation, made>>
    BY <2>1 DEF InsertLine
  <2>2. ASSUME NEW p \in Clerks, Start(p) \/ (\E o \in Orders : InsertOrder(p, o))
        PROVE  UNCHANGED <<reservation, made>>
    BY <2>2 DEF Start, SubmitOrder, StartChange, StartCancel, StartDeliver, InsertOrder, rows
  <2>3. ASSUME NEW p \in Clerks, NEW l,
               ReleaseNothing(p, l) \/ ReadReservation(p, l) \/ Release(p, l) \/ Flush(p, l)
        PROVE  UNCHANGED <<reservation, made>>
    BY <2>3 DEF ReleaseNothing, ReadReservation, Release, Flush, rows
  <2>4. ASSUME NEW p \in Clerks,
               \/ Publish(p) \/ StartAdding(p) \/ CancelOrder(p)
               \/ LockLine(p) \/ IssueNothing(p) \/ IssueRead(p) \/ Issue(p)
        PROVE  UNCHANGED <<reservation, made>>
    BY <2>4 DEF Publish, StartAdding, CancelOrder, LockLine, IssueNothing, IssueRead, Issue, rows
  <2>5. ASSUME NEW p \in Clerks, Middle(p)
        PROVE  GrantedLast'
    BY <1>1, <2>1, <2>3, <2>4, <2>5, ReserveGrants DEF Middle
  <2> QED
    BY <1>1, <1>4, <2>2, <2>5
<1> QED
  BY <1>1, <1>2, <1>3, <1>4, StepKinds

LEMMA InitCovers == Init => CoverInv
BY DEF Init, CoverInv, GrantedLast, HandsOverItsLine, DeliversCovered, NoRequest

LEMMA CoversInductive == Inv /\ CoverInv /\ [Next]_vars => CoverInv'
BY DeliveriesCovered, HandsOverStep, GrantsStep DEF CoverInv

\* What the ledger rests on holds in every reachable state: a grant is the
\* youngest of its variant until its commit, and a delivery's line is covered.
THEOREM GrantsAreInOrder == Spec => []CoverInv
<1> QED
  BY InitCovers, CoversInductive, Invariant, PTL DEF Spec

\* The pieces a waiting order was promised are not taken by a younger one: a
\* line the stock covers stays covered for as long as its reservation is open.
THEOREM OlderOrdersFirst == Spec => CoverageIsStable
<1>1. Inv /\ CoverInv /\ [Next]_vars =>
        [ \A l \in Open \cap Open' :
            Covered(stock, reservation, Open, l) => Covered(stock', reservation', Open', l) ]_vars
  BY StepCovers
<1> QED
  BY <1>1, GrantsAreInOrder, Invariant, PTL DEF Spec, CoverageIsStable

-----------------------------------------------------------------------------
\* Shop implements StockLedger.

\* The reservations as the ledger's callers see them.
Shown == [l \in Lines |-> IF reservation[l].status = "PENDING"
                          THEN NoReservation ELSE reservation[l]]

\* The ledger reads its view as the shop does.
LEMMA LedgerReads ==
  /\ Ledger!Lines = Lines /\ Ledger!Quantities = Quantities
  /\ Ledger!NoReservation = NoReservation
  /\ \A resv, S, v : Ledger!Pieces(resv, S, v) = Pieces(resv, S, v)
  /\ \A S : Ledger!Cardinality(S) = Cardinality(S)
  /\ \A shelf, resv, S, v : Ledger!Available(shelf, resv, S, v) = Available(shelf, resv, S, v)
  /\ \A shelf, resv, S, l : Ledger!Covered(shelf, resv, S, l) = Covered(shelf, resv, S, l)
<1>1. Ledger!Lines = Lines /\ Ledger!Quantities = Quantities
  BY DEF Ledger!Lines, Lines, Ledger!Quantities, Quantities
<1>2. Ledger!NoReservation = NoReservation
  BY DEF Ledger!NoReservation, NoReservation
<1>3. ASSUME NEW resv, NEW S, NEW v
      PROVE  Ledger!Pieces(resv, S, v) = Pieces(resv, S, v)
  BY <1>1 DEF Ledger!Pieces, Pieces
<1>4. \A S : Ledger!Cardinality(S) = Cardinality(S)
  BY DEF Ledger!Cardinality, Cardinality
<1>5. ASSUME NEW resv, NEW S, NEW v
      PROVE  Ledger!OpenReservationsSum(resv, S, v) = OpenReservationsSum(resv, S, v)
  BY <1>3, <1>4, Zenon DEF Ledger!OpenReservationsSum, OpenReservationsSum
<1>6. ASSUME NEW shelf, NEW resv, NEW S, NEW v
      PROVE  Ledger!Available(shelf, resv, S, v) = Available(shelf, resv, S, v)
  BY <1>5 DEF Ledger!Available, Available
<1>7. ASSUME NEW resv, NEW S, NEW l
      PROVE  Ledger!NotYounger(resv, S, l) = NotYounger(resv, S, l)
  BY DEF Ledger!NotYounger, NotYounger
<1>8. ASSUME NEW shelf, NEW resv, NEW S, NEW l
      PROVE  Ledger!Covered(shelf, resv, S, l) = Covered(shelf, resv, S, l)
  BY <1>5, <1>7 DEF Ledger!Covered, Covered
<1> QED
  BY <1>1, <1>2, <1>3, <1>4, <1>6, <1>8

LEMMA ShownOpen == Inv => Ledger!Open = Open
BY LedgerReads DEF Ledger!Open, Open, Shown, NoReservation, Ledger!NoReservation

LEMMA LedgerInit == Init => Ledger!Init
BY DEF Init, Ledger!Init, NoReservation, Ledger!NoReservation, Ledger!Lines, Lines

\* A row that is open or closed is shown as it is.
LEMMA ShownRows ==
  /\ \A l \in Lines : reservation[l].status = "PENDING" => Shown[l] = NoReservation
  /\ \A l \in Lines : reservation[l].status # "PENDING" => Shown[l] = reservation[l]
  /\ \A l \in Lines : reservation'[l].status = "PENDING" => Shown'[l] = NoReservation
  /\ \A l \in Lines : reservation'[l].status # "PENDING" => Shown'[l] = reservation'[l]
  /\ \A f : f = [l \in Lines |-> f[l]] /\ (\A l \in Lines : f[l] = Shown'[l]) => f = Shown'
BY DEF Shown

\* A request that has not committed shows nothing.
LEMMA ReserveShowsNothing ==
  ASSUME Inv, NEW p \in Clerks, NEW i, NEW id \in Lines, Reserve(p, i, id)
  PROVE  Shown' = Shown /\ stock' = stock
<1>1. /\ req[p].line \in Lines /\ reservation[req[p].line] = NoReservation
      /\ reservation' = [reservation EXCEPT ![req[p].line] =
           [variant |-> line[req[p].line].variant, quantity |-> line[req[p].line].quantity,
            id |-> id, status |-> "PENDING"]]
      /\ UNCHANGED stock
  BY DEF Inv, InsertedIsOwn, Reserve, Step
<1>2. \A k \in Lines : k # req[p].line => reservation'[k] = reservation[k]
  BY <1>1 DEF Inv, TypeOK
<1>3. reservation'[req[p].line].status = "PENDING" /\ reservation[req[p].line].status = "NONE"
  BY <1>1 DEF NoReservation, Inv, TypeOK
<1>4. \A k \in Lines : Shown'[k] = Shown[k]
  BY <1>1, <1>2, <1>3, ShownRows
<1> QED
  BY <1>1, <1>4 DEF Shown

LEMMA RollBackShowsNothing ==
  ASSUME Inv, NEW p \in Clerks, RollBack(p)
  PROVE  Shown' = Shown /\ stock' = stock
<1>1. /\ reservation' = [k \in Lines |->
                           IF k \in made[p] THEN NoReservation ELSE reservation[k]]
      /\ UNCHANGED stock
  BY DEF RollBack
<1>2. \A k \in made[p] : reservation[k].status = "PENDING"
  BY DEF Inv, WrittenUnderLock
<1>3. \A k \in Lines : Shown'[k] = Shown[k]
  BY <1>1, <1>2, ShownRows DEF NoReservation
<1> QED
  BY <1>1, <1>3 DEF Shown

\* A receipt or a correction is the ledger's.
LEMMA StockIsLedger ==
  ASSUME Inv, NEW v \in Variants, Stock(v)
  PROVE  Ledger!Next
<1>1. UNCHANGED reservation
  BY DEF Stock, BookReceipt, ApplyCorrection
<1>2. Shown' = Shown
  BY <1>1 DEF Shown
<1>3. Available(stock, Shown, Open, v) = Available(stock, reservation, Open, v)
  <2>1. \A l \in Open : Shown[l] = reservation[l]
    BY ShownRows DEF Open
  <2>2. Pieces(Shown, Open, v) = Pieces(reservation, Open, v)
    BY <2>1 DEF Pieces
  <2> QED
    BY <2>2, Zenon DEF Available, OpenReservationsSum
<1>4. Ledger!Available(stock, Shown, Ledger!Open, v) = Available(stock, reservation, Open, v)
  BY <1>3, LedgerReads, ShownOpen
<1>5. ASSUME NEW q \in Quantities, BookReceipt(v, q)
      PROVE  Ledger!Receive(v, q)
  BY <1>2, <1>5 DEF BookReceipt, Ledger!Receive, Shown
<1>6. ASSUME NEW q, ApplyCorrection(v, q)
      PROVE  Ledger!Correct(v, q)
  BY <1>2, <1>4, <1>6 DEF ApplyCorrection, CorrectionFits, Ledger!Correct, Shown
<1>7. \E q \in Quantities : Ledger!Receive(v, q) \/ Ledger!Correct(v, q) \/ Ledger!Correct(v, -q)
  BY <1>5, <1>6 DEF Stock
<1> QED
  BY <1>7, LedgerReads DEF Ledger!Next

\* A commit is a request settled with the ledger.
LEMMA CommitIsLedger ==
  ASSUME Inv, StockInv, CoverInv, NEW p \in Clerks, Commit(p)
  PROVE  Ledger!Next
\* issued names the line handed over by a constant: the provers do not put a
\* variable for the last parameter of an instance's operator.
<1> SUFFICES ASSUME NEW issued, handed[p] = issued
             PROVE  Ledger!Next
  OBVIOUS
<1> DEFINE As(row, s) == [row EXCEPT !.status = s]
           new == [l \in made[p] |-> As(reservation[l], "OPEN")]
           Row(l) == Ledger!SettledRow(new, freed[p], issued, l)
           next == [l \in Ledger!Lines |-> Row(l)]
           open == (Ledger!Open \cup DOMAIN new) \ (freed[p] \cup issued)
<1>1. /\ made[p] \in SUBSET Lines
      /\ \A l \in made[p] : reservation[l].status = "PENDING" /\ reservation[l] \in Reservation
  <2>1. \A l \in made[p] : reservation[l].status = "PENDING"
    BY DEF Inv, WrittenUnderLock
  <2>2. \A l \in made[p] : l \in Lines /\ l \in Written(p)
    BY ViewsAreLines DEF Written
  <2> QED
    BY <2>1, <2>2, CommitRows
<1>2. /\ freed[p] \in SUBSET Open /\ handed[p] \in SUBSET Open
      /\ freed[p] \cap handed[p] = {} /\ (made[p] # {} => handed[p] = {})
  BY ViewsAreLines DEF Inv, WrittenUnderLock, WritesFitKind, Open
<1>3. /\ \A l \in made[p] : l \notin freed[p] /\ l \notin handed[p] /\ l \notin Open
      /\ \A l \in Open : l \in Lines /\ Shown[l] = reservation[l]
  BY <1>1, <1>2, ShownRows DEF Open
<1>4. /\ DOMAIN new = made[p] /\ Ledger!Open = Open /\ Ledger!Lines = Lines
      /\ \A l \in made[p] : new[l] = As(reservation[l], "OPEN")
  BY LedgerReads, ShownOpen
<1>5. ASSUME NEW l \in made[p]
      PROVE  /\ new[l].variant = reservation[l].variant /\ new[l].id = reservation[l].id
             /\ new[l] \in Ledger!NewRow /\ new[l].status = "OPEN"
  <2>1. reservation[l] \in Reservation
    BY <1>1
  <2> QED
    BY <2>1, LedgerReads DEF Reservation, Ledger!NewRow
<1>6. ASSUME NEW l \in Lines
      PROVE  /\ l \in made[p] => Row(l) = new[l]
             /\ l \in freed[p] => Row(l) = As(Shown[l], "CANCELLED")
             /\ l \in handed[p] => Row(l) = As(Shown[l], "DELIVERED")
             /\ l \notin Written(p) => Row(l) = Shown[l]
  BY <1>2, <1>3, <1>4, Zenon DEF Ledger!SettledRow, Shown, Written
<1>7. ASSUME NEW l \in Lines
      PROVE  /\ l \in made[p] => reservation'[l] = As(reservation[l], "OPEN")
             /\ l \in freed[p] => reservation'[l] = As(reservation[l], "CANCELLED")
             /\ l \in handed[p] => reservation'[l] = As(reservation[l], "DELIVERED")
             /\ l \notin Written(p) => reservation'[l] = reservation[l]
  BY CommitRows
<1>8. ASSUME NEW l \in Lines, l \in Written(p)
      PROVE  reservation'[l].status # "PENDING"
  <2>1. reservation[l] \in Reservation
    BY <1>8, CommitRows
  <2>2. \A s \in {"OPEN", "CANCELLED", "DELIVERED"} : As(reservation[l], s).status # "PENDING"
    BY <2>1 DEF Reservation
  <2> HIDE DEF As
  <2> QED
    BY <1>7, <1>8, <2>2 DEF Written
<1> HIDE DEF As, new, Row
<1>9. ASSUME NEW l \in Lines
      PROVE  Row(l) = Shown'[l]
  <2>1. CASE l \in Written(p)
    BY <1>2, <1>3, <1>4, <1>6, <1>7, <1>8, <2>1, ShownRows DEF Written
  <2>2. CASE l \notin Written(p)
    BY <1>6, <1>7, <2>2, ShownRows
  <2> QED
    BY <2>1, <2>2
<1>10. next = Shown'
  BY <1>4, <1>9 DEF Shown
<1>11. made[p] \in SUBSET Ledger!Unreserved
  BY <1>1, <1>4, ShownRows, LedgerReads DEF Ledger!Unreserved, Shown
<1>12. new \in [made[p] -> Ledger!NewRow]
  BY <1>5 DEF new
\* The lock of the variant was p's since it was granted.
<1>13. ASSUME NEW l \in made[p]
       PROVE  Ledger!Granted(new, l)
  <2>1. ASSUME NEW k \in Ledger!Lines \ Ledger!Unreserved, Shown[k].variant = new[l].variant
        PROVE  Shown[k].id < new[l].id
    <3>1. k \in Lines /\ Shown[k] # NoReservation
      BY LedgerReads DEF Ledger!Unreserved, Shown
    <3>2. Shown[k] = reservation[k] /\ reservation[k].status # "PENDING"
      BY <3>1, ShownRows
    <3>3. k \notin made[p]
      BY <1>1, <3>2
    <3> QED
      BY <1>5, <2>1, <3>1, <3>2, <3>3 DEF CoverInv, GrantedLast
  <2> QED
    BY <2>1 DEF Ledger!Granted, Shown
\* It checked what was available under that lock.
<1>14. ASSUME NEW l \in made[p], new[l].variant \notin PreOrder
       PROVE  Ledger!Available(stock, next, open, new[l].variant) >= 0
  <2>1. new[l].variant \in Variants
    BY <1>1, <1>5 DEF Reservation
  <2>2. open = Promised(p) /\ open = Open'
    BY <1>2, <1>4, CommitOpens DEF Promised
  <2>3. Available(stock, reservation, Promised(p), new[l].variant) >= 0
    BY <1>14, <2>1 DEF StockInv, PromisesFit
  <2> DEFINE after == Shown'
  <2>4. \A k \in Open' : /\ after[k].variant = reservation[k].variant
                         /\ after[k].quantity = reservation[k].quantity
    BY CommitOpens, ShownRows DEF Open
  <2> HIDE DEF after
  <2>5. Pieces(after, Open', new[l].variant) = Pieces(reservation, Open', new[l].variant)
    BY <2>4 DEF Pieces
  <2>6. Available(stock, after, Open', new[l].variant)
          = Available(stock, reservation, Open', new[l].variant)
    BY <2>5, Zenon DEF Available, OpenReservationsSum
  <2> QED
    BY <1>10, <2>2, <2>3, <2>6, LedgerReads DEF after
\* The line was covered when it was locked, and is for as long as it is open.
<1>15. handed[p] \in Ledger!AtMostOne(Open)
  BY <1>2, ViewsAreLines DEF CoverInv, HandsOverItsLine, Ledger!AtMostOne
<1>16. ASSUME NEW l \in handed[p]
       PROVE  Ledger!Covered(stock, Shown, Ledger!Open, l)
  <2>1. req[p].kind = "deliver" /\ pc[p] = "commit" /\ l = req[p].line /\ l \in Open
    BY <1>2 DEF Inv, WritesFitKind, CoverInv, HandsOverItsLine, Commit
  <2>2. Covered(stock, reservation, Open, l)
    BY <2>1 DEF CoverInv, DeliversCovered
  <2>3. /\ NotYounger(Shown, Open, l) = NotYounger(reservation, Open, l)
        /\ Shown[l].variant = reservation[l].variant
    BY <1>3, <2>1 DEF NotYounger
  <2>4. NotYounger(reservation, Open, l) \subseteq Open
    BY DEF NotYounger
  <2>5. Pieces(Shown, NotYounger(Shown, Open, l), Shown[l].variant)
          = Pieces(reservation, NotYounger(reservation, Open, l), reservation[l].variant)
    BY <1>3, <2>3, <2>4 DEF Pieces
  <2>6. OpenReservationsSum(Shown, NotYounger(Shown, Open, l), Shown[l].variant)
          = OpenReservationsSum(reservation, NotYounger(reservation, Open, l),
                                reservation[l].variant)
    BY <2>5, Zenon DEF OpenReservationsSum
  <2> QED
    BY <1>4, <2>2, <2>3, <2>6, LedgerReads DEF Covered
<1>17. stock' = [v \in Variants |->
                   stock[v] - Ledger!Cardinality(Ledger!Pieces(Shown, issued, v))]
  <2>1. stock' = [v \in Variants |-> stock[v] - Cardinality(Pieces(reservation, handed[p], v))]
    BY DEF Commit
  <2>2. \A v : Pieces(Shown, handed[p], v) = Pieces(reservation, handed[p], v)
    BY <1>2, <1>3 DEF Pieces
  <2>3. \A v : Ledger!Cardinality(Ledger!Pieces(Shown, handed[p], v))
                 = Cardinality(Pieces(reservation, handed[p], v))
    BY <2>2, LedgerReads
  <2> QED
    BY <2>1, <2>3
<1>18. Ledger!Settle(new, freed[p], issued)
  BY <1>2, <1>4, <1>10, <1>13, <1>14, <1>16, <1>17 DEF Ledger!Settle, Shown, Row
<1>19. /\ freed[p] \in SUBSET Ledger!Open /\ issued \in Ledger!AtMostOne(Ledger!Open)
  BY <1>2, <1>4, <1>15
<1>20. \E reserved \in SUBSET Ledger!Unreserved : \E grants \in [reserved -> Ledger!NewRow] :
         Ledger!Settle(grants, freed[p], issued)
  BY <1>11, <1>12, <1>18, Zenon
<1>21. \E released \in SUBSET Ledger!Open, i \in Ledger!AtMostOne(Ledger!Open),
          reserved \in SUBSET Ledger!Unreserved :
            \E grants \in [reserved -> Ledger!NewRow] : Ledger!Settle(grants, released, i)
  BY <1>19, <1>20, Zenon
<1> QED
  BY <1>21, Zenon DEF Ledger!Next

LEMMA StepIsLedger ==
  ASSUME Inv, StockInv, CoverInv, [Next]_vars
  PROVE  (Shown' = Shown /\ stock' = stock) \/ Ledger!Next
<1>1. CASE UNCHANGED <<stock, reservation>>
  BY <1>1 DEF Shown
<1>2. CASE \E p \in Clerks : Start(p) \/ (\E o \in Orders : InsertOrder(p, o)) \/ Middle(p)
  BY <1>1, <1>2, StepRows, ReserveShowsNothing
<1>3. CASE \E p \in Clerks : RollBack(p)
  BY <1>3, RollBackShowsNothing
<1>4. CASE \E p \in Clerks : Commit(p)
  BY <1>4, CommitIsLedger
<1>5. CASE \E p \in Clerks : Proceed(p)
  BY <1>2, <1>3, <1>4, <1>5 DEF Proceed, Middle, AnswerAgain, Refuse
<1>6. CASE \E v \in Variants : Stock(v)
  BY <1>6, StockIsLedger
<1>7. CASE UNCHANGED vars
  BY <1>1, <1>7 DEF vars, rows
<1> QED
  BY <1>2, <1>3, <1>5, <1>6, <1>7 DEF Next, DeadlockVictim, Fail

\* The interleaved transactions of the webshop implement the ledger: to those
\* who read what is committed, every step is one of its atomic steps, or none.
THEOREM ShopImplementsLedger == Spec => Ledger!Spec
<1>1. Inv /\ StockInv /\ CoverInv /\ [Next]_vars => [Ledger!Next]_(Ledger!vars)
  BY StepIsLedger DEF Ledger!vars, Shown
<1> QED
  BY <1>1, LedgerInit, Invariant, PromisesAreKept, GrantsAreInOrder, PTL DEF Spec, Ledger!Spec

\* The same, in the form TLC checks, which tries first whether a step leaves
\* the tables as they are.
THEOREM LedgerIsImplemented == Spec => LedgerSpec
<1>1. Inv /\ StockInv /\ CoverInv /\ [Next]_vars =>
        [UNCHANGED <<stock, reservation>> \/ Ledger!Next]_(Ledger!vars)
  BY StepIsLedger DEF Ledger!vars, Shown
<1> QED
  BY <1>1, LedgerInit, Invariant, PromisesAreKept, GrantsAreInOrder, PTL DEF Spec, LedgerSpec
=============================================================================
