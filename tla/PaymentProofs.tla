---------------------------- MODULE PaymentProofs ----------------------------
(***************************************************************************)
(* Proofs about PaymentLedger: the types and the two CHECKs, no booking    *)
(* without its date, the webhook that keeps what is booked, and the        *)
(* reconciliation that brings the records to the total of the order.       *)
(***************************************************************************)
EXTENDS PaymentLedger, FiniteSetTheorems, TLAPS

-----------------------------------------------------------------------------
\* Sums of the community modules, over any finite set.  What holds of the sums is
\* shown on a smallest subset for which it would fail.

\* The element that the sum takes first, and what it leaves.
Pick(s) == CHOOSE x \in s : TRUE
Rest(s) == s \ {Pick(s)}

\* g sums f over every subset of S.
Sums(g, f, S) == g = [s \in SUBSET S |-> IF s = {} THEN 0 ELSE f[Pick(s)] + g[Rest(s)]]

LEMMA SumIs ==
  ASSUME NEW f, NEW S
  PROVE  SumFunctionOnSet(f, S) = (CHOOSE g : Sums(g, f, S))[S]
BY DEF SumFunctionOnSet, FoldFunctionOnSet, MapThenFoldSet, Sums, Pick, Rest

LEMMA PickIsIn ==
  ASSUME NEW s, s # {}
  PROVE  Pick(s) \in s
BY Zenon DEF Pick

\* A finite set of finite subsets has a smallest one.
LEMMA SmallestSet ==
  ASSUME NEW S, IsFiniteSet(S), NEW T \in SUBSET SUBSET S, T # {}
  PROVE  \E s \in T : \A u \in T : u \subseteq s => u = s
<1>1. IsWellFoundedOn(StrictSubsetOrdering(S), SUBSET S)
  BY FS_StrictSubsetOrderingWellFounded, FS_FiniteSubsetsOfFinite, Zenon
<1>2. PICK s \in T : \A u \in T : ~ (<<u, s>> \in StrictSubsetOrdering(S))
  BY <1>1, WFMin, Zenon
<1>3. ASSUME NEW u \in T, u \subseteq s
      PROVE  u = s
  <2>1. u \in SUBSET S /\ s \in SUBSET S
    OBVIOUS
  <2> QED
    BY <1>2, <1>3, <2>1 DEF StrictSubsetOrdering
<1> QED
  BY <1>3

LEMMA SumsAgree ==
  ASSUME NEW f, NEW S, NEW T, NEW g, NEW h, Sums(g, f, S), Sums(h, f, T),
         NEW s, IsFiniteSet(s), s \subseteq S, s \subseteq T
  PROVE  g[s] = h[s]
<1> DEFINE Differ == { u \in SUBSET s : g[u] # h[u] }
<1>1. SUFFICES ASSUME Differ # {} PROVE FALSE
  BY Zenon
<1>2. PICK u \in Differ : \A v \in Differ : v \subseteq u => v = u
  <2>1. Differ \in SUBSET SUBSET s
    OBVIOUS
  <2> HIDE DEF Differ
  <2> QED
    BY <1>1, <2>1, SmallestSet
<1>3. u \in SUBSET S /\ u \in SUBSET T
  OBVIOUS
<1>4. g[u] = IF u = {} THEN 0 ELSE f[Pick(u)] + g[Rest(u)]
  BY <1>3 DEF Sums
<1>5. h[u] = IF u = {} THEN 0 ELSE f[Pick(u)] + h[Rest(u)]
  BY <1>3 DEF Sums
<1>6. u # {}
  BY <1>4, <1>5
<1>7. Rest(u) \in SUBSET s /\ Rest(u) \subseteq u /\ Rest(u) # u
  BY <1>6, PickIsIn DEF Rest
<1>8. g[Rest(u)] = h[Rest(u)]
  BY <1>2, <1>7
<1> QED
  BY <1>4, <1>5, <1>8

LEMMA SumsExist ==
  ASSUME NEW f, NEW S, IsFiniteSet(S)
  PROVE  \E g : Sums(g, f, S)
<1> DEFINE Lacks == { s \in SUBSET S : ~ \E g : Sums(g, f, s) }
<1>1. SUFFICES ASSUME Lacks # {} PROVE FALSE
  BY Zenon
<1>2. PICK s \in Lacks : \A u \in Lacks : u \subseteq s => u = s
  <2>1. Lacks \in SUBSET SUBSET S
    OBVIOUS
  <2> HIDE DEF Lacks
  <2> QED
    BY <1>1, <2>1, SmallestSet
<1> DEFINE Sum(u) == (CHOOSE g : Sums(g, f, u))[u]
           G == [u \in SUBSET s |-> IF u = {} THEN 0 ELSE f[Pick(u)] + Sum(Rest(u))]
<1>3. ASSUME NEW u \in SUBSET s, u # s
      PROVE  Sums(CHOOSE g : Sums(g, f, u), f, u)
  BY <1>2, <1>3, Zenon
<1>4. ASSUME NEW u \in SUBSET s, u # {}
      PROVE  G[Rest(u)] = Sum(Rest(u))
  <2> DEFINE r == Rest(u)
             F(t) == CHOOSE g : Sums(g, f, t)
  <2>1. r \in SUBSET s /\ r # s /\ Rest(r) \subseteq r /\ Rest(r) # s
    BY <1>4, PickIsIn DEF Rest
  <2>2. Sums(F(r), f, r) /\ Sums(F(Rest(r)), f, Rest(r))
    <3>1. Rest(r) \in SUBSET s
      BY <2>1
    <3> HIDE DEF r
    <3> QED
      BY <2>1, <3>1, <1>3, Zenon
  <2>3. IsFiniteSet(Rest(r))
    BY <2>1, FS_Subset
  <2>4. F(r)[Rest(r)] = F(Rest(r))[Rest(r)]
    <3> HIDE DEF r, F
    <3>1. Rest(r) \subseteq Rest(r)
      OBVIOUS
    <3> QED
      BY <2>1, <2>2, <2>3, <3>1, SumsAgree
  <2>5. F(r)[r] = IF r = {} THEN 0 ELSE f[Pick(r)] + F(r)[Rest(r)]
    <3> HIDE DEF r, F
    <3> QED
      BY <2>2 DEF Sums
  <2>6. G[r] = IF r = {} THEN 0 ELSE f[Pick(r)] + Sum(Rest(r))
    <3> HIDE DEF r, Sum
    <3> QED
      BY <2>1
  <2> QED
    BY <2>4, <2>5, <2>6
<1>5. G = [u \in SUBSET s |-> IF u = {} THEN 0 ELSE f[Pick(u)] + G[Rest(u)]]
  <2> HIDE DEF Sum
  <2> QED
    BY <1>4
<1>6. Sums(G, f, s)
  <2> HIDE DEF G
  <2> QED
    BY <1>5 DEF Sums
<1> HIDE DEF G, Sum
<1> QED
  BY <1>2, <1>6

LEMMA SumRest ==
  ASSUME NEW f, NEW S, IsFiniteSet(S)
  PROVE  SumFunctionOnSet(f, S) = IF S = {} THEN 0 ELSE f[Pick(S)] + SumFunctionOnSet(f, Rest(S))
<1> DEFINE g == CHOOSE g : Sums(g, f, S)
           h == CHOOSE h : Sums(h, f, Rest(S))
<1>1. Rest(S) \subseteq S /\ IsFiniteSet(Rest(S))
  BY FS_Subset DEF Rest
<1>2. Sums(g, f, S)
  BY SumsExist, Zenon
<1>3. Sums(h, f, Rest(S))
  BY <1>1, SumsExist, Zenon
<1>4. SumFunctionOnSet(f, S) = g[S] /\ SumFunctionOnSet(f, Rest(S)) = h[Rest(S)]
  BY SumIs, Zenon
<1> HIDE DEF g, h
<1>5. g[S] = IF S = {} THEN 0 ELSE f[Pick(S)] + g[Rest(S)]
  BY <1>2 DEF Sums
<1>6. g[Rest(S)] = h[Rest(S)]
  <2>1. Rest(S) \subseteq Rest(S)
    OBVIOUS
  <2> QED
    BY <1>1, <1>2, <1>3, <2>1, SumsAgree
<1> QED
  BY <1>4, <1>5, <1>6

LEMMA SumIsInt ==
  ASSUME NEW S, IsFiniteSet(S), NEW f, \A x \in S : f[x] \in Int
  PROVE  SumFunctionOnSet(f, S) \in Int
<1> DEFINE Wrong == { s \in SUBSET S : SumFunctionOnSet(f, s) \notin Int }
<1>1. SUFFICES ASSUME Wrong # {} PROVE FALSE
  OBVIOUS
<1>2. PICK s \in Wrong : \A u \in Wrong : u \subseteq s => u = s
  <2>1. Wrong \in SUBSET SUBSET S
    OBVIOUS
  <2> HIDE DEF Wrong
  <2> QED
    BY <1>1, <2>1, SmallestSet
<1>3. IsFiniteSet(s)
  BY FS_Subset
<1>4. s # {}
  <2>1. SumFunctionOnSet(f, {}) = 0
    BY FS_EmptySet, SumRest
  <2> QED
    BY <2>1
<1>5. Pick(s) \in s /\ Rest(s) \in SUBSET S /\ Rest(s) \subseteq s /\ Rest(s) # s
  BY <1>4, PickIsIn DEF Rest
<1>6. SumFunctionOnSet(f, Rest(s)) \in Int
  BY <1>2, <1>5
<1>7. SumFunctionOnSet(f, s) = f[Pick(s)] + SumFunctionOnSet(f, Rest(s))
  BY <1>3, <1>4, SumRest
<1> QED
  BY <1>5, <1>6, <1>7

\* Any element may be taken first.
LEMMA SumTakesOut ==
  ASSUME NEW S, IsFiniteSet(S), NEW f, \A x \in S : f[x] \in Int, NEW x \in S
  PROVE  SumFunctionOnSet(f, S) = f[x] + SumFunctionOnSet(f, S \ {x})
<1> DEFINE Good(s) == \A y \in s : SumFunctionOnSet(f, s) = f[y] + SumFunctionOnSet(f, s \ {y})
           Wrong == { s \in SUBSET S : ~ Good(s) }
<1>1. SUFFICES ASSUME Wrong # {} PROVE FALSE
  OBVIOUS
<1>2. PICK s \in Wrong : \A u \in Wrong : u \subseteq s => u = s
  <2>1. Wrong \in SUBSET SUBSET S
    OBVIOUS
  <2> HIDE DEF Wrong
  <2> QED
    BY <1>1, <2>1, SmallestSet
<1>3. PICK y \in s : SumFunctionOnSet(f, s) # f[y] + SumFunctionOnSet(f, s \ {y})
  OBVIOUS
<1> DEFINE p == Pick(s)
<1>4. s \in SUBSET S /\ s # {} /\ p \in s
  BY PickIsIn
<1>5. SumFunctionOnSet(f, s) = f[p] + SumFunctionOnSet(f, s \ {p})
  <2>1. IsFiniteSet(s)
    BY FS_Subset
  <2> QED
    BY <2>1, <1>4, SumRest DEF Rest
<1>6. p # y
  BY <1>3, <1>5
<1>7. Good(s \ {p}) /\ Good(s \ {y})
  <2>1. ASSUME NEW z \in s PROVE Good(s \ {z})
    <3>1. s \ {z} \in SUBSET S /\ s \ {z} \subseteq s /\ s \ {z} # s
      BY <1>4
    <3> HIDE DEF Good
    <3> QED
      BY <1>2, <3>1
  <2> HIDE DEF Good, p
  <2> QED
    BY <2>1, <1>4
<1> DEFINE rest == (s \ {p}) \ {y}
<1>8. rest = (s \ {y}) \ {p}
  OBVIOUS
<1>9. SumFunctionOnSet(f, s \ {p}) = f[y] + SumFunctionOnSet(f, rest)
  BY <1>6, <1>7
<1>10. SumFunctionOnSet(f, s \ {y}) = f[p] + SumFunctionOnSet(f, rest)
  BY <1>4, <1>6, <1>7, <1>8
<1>11. f[p] \in Int /\ f[y] \in Int /\ SumFunctionOnSet(f, rest) \in Int
  <2>1. IsFiniteSet(rest)
    BY FS_Subset
  <2>2. \A z \in rest : f[z] \in Int
    OBVIOUS
  <2>3. SumFunctionOnSet(f, rest) \in Int
    <3> HIDE DEF rest
    <3> QED
      BY <2>1, <2>2, SumIsInt
  <2> QED
    BY <2>3, <1>4
<1> HIDE DEF p, rest
<1> QED
  BY <1>3, <1>5, <1>9, <1>10, <1>11

LEMMA SumIsSame ==
  ASSUME NEW S, IsFiniteSet(S), NEW f, NEW g, \A x \in S : f[x] = g[x]
  PROVE  SumFunctionOnSet(f, S) = SumFunctionOnSet(g, S)
<1> DEFINE Wrong == { s \in SUBSET S : SumFunctionOnSet(f, s) # SumFunctionOnSet(g, s) }
<1>1. SUFFICES ASSUME Wrong # {} PROVE FALSE
  OBVIOUS
<1>2. PICK s \in Wrong : \A u \in Wrong : u \subseteq s => u = s
  <2>1. Wrong \in SUBSET SUBSET S
    OBVIOUS
  <2> HIDE DEF Wrong
  <2> QED
    BY <1>1, <2>1, SmallestSet
<1>3. IsFiniteSet(s)
  BY FS_Subset
<1>4. s # {}
  BY <1>3, SumRest
<1>5. Pick(s) \in s /\ Rest(s) \in SUBSET S /\ Rest(s) \subseteq s /\ Rest(s) # s
  BY <1>4, PickIsIn DEF Rest
<1>6. SumFunctionOnSet(f, Rest(s)) = SumFunctionOnSet(g, Rest(s))
  BY <1>2, <1>5
<1>7. SumFunctionOnSet(f, s) = f[Pick(s)] + SumFunctionOnSet(f, Rest(s))
  BY <1>3, <1>4, SumRest
<1>8. SumFunctionOnSet(g, s) = g[Pick(s)] + SumFunctionOnSet(g, Rest(s))
  BY <1>3, <1>4, SumRest
<1> QED
  BY <1>5, <1>6, <1>7, <1>8

\* Elements that count for nothing may be left out.
LEMMA SumLeavesOut ==
  ASSUME NEW S, IsFiniteSet(S), NEW f, \A x \in S : f[x] \in Int,
         NEW T \in SUBSET S, \A x \in S \ T : f[x] = 0
  PROVE  SumFunctionOnSet(f, S) = SumFunctionOnSet(f, T)
<1> DEFINE Wrong == { s \in SUBSET S : T \subseteq s /\ SumFunctionOnSet(f, s) # SumFunctionOnSet(f, T) }
<1>1. SUFFICES ASSUME Wrong # {} PROVE FALSE
  OBVIOUS
<1>2. PICK s \in Wrong : \A u \in Wrong : u \subseteq s => u = s
  <2>1. Wrong \in SUBSET SUBSET S
    OBVIOUS
  <2> HIDE DEF Wrong
  <2> QED
    BY <1>1, <2>1, SmallestSet
<1>3. PICK x \in s : x \notin T
  OBVIOUS
<1>4. s \ {x} \in SUBSET S /\ T \subseteq s \ {x} /\ s \ {x} \subseteq s /\ s \ {x} # s
  BY <1>3
<1>5. SumFunctionOnSet(f, s \ {x}) = SumFunctionOnSet(f, T)
  BY <1>2, <1>4
<1>6. IsFiniteSet(s) /\ IsFiniteSet(s \ {x})
  BY <1>4, FS_Subset
<1>7. SumFunctionOnSet(f, s) = f[x] + SumFunctionOnSet(f, s \ {x})
  BY <1>6, SumTakesOut
<1>8. f[x] = 0
  BY <1>3
<1>9. SumFunctionOnSet(f, s \ {x}) \in Int
  BY <1>6, SumIsInt
<1> QED
  BY <1>5, <1>7, <1>8, <1>9

\* A sum above zero has a member above zero.
LEMMA SumIsAbove ==
  ASSUME NEW S, IsFiniteSet(S), NEW f, \A x \in S : f[x] \in Int,
         SumFunctionOnSet(f, S) > 0
  PROVE  \E x \in S : f[x] > 0
<1> DEFINE Above == { s \in SUBSET S : SumFunctionOnSet(f, s) > 0 }
<1>1. PICK s \in Above : \A u \in Above : u \subseteq s => u = s
  <2>1. Above \in SUBSET SUBSET S /\ S \in Above
    OBVIOUS
  <2> HIDE DEF Above
  <2> QED
    BY <2>1, SmallestSet
<1>2. IsFiniteSet(s)
  BY FS_Subset
<1>3. s # {}
  <2>1. SumFunctionOnSet(f, {}) = 0
    BY FS_EmptySet, SumRest
  <2> QED
    BY <2>1
<1>4. Pick(s) \in s /\ Rest(s) \in SUBSET S /\ Rest(s) \subseteq s /\ Rest(s) # s
  BY <1>3, PickIsIn DEF Rest
<1>5. ~(SumFunctionOnSet(f, Rest(s)) > 0)
  BY <1>1, <1>4
<1>6. SumFunctionOnSet(f, s) = f[Pick(s)] + SumFunctionOnSet(f, Rest(s))
  BY <1>2, <1>3, SumRest
<1>7. IsFiniteSet(Rest(s)) /\ \A x \in Rest(s) : f[x] \in Int
  BY <1>4, FS_Subset
<1>8. SumFunctionOnSet(f, Rest(s)) \in Int
  BY <1>7, SumIsInt
<1>9. f[Pick(s)] > 0
  BY <1>4, <1>5, <1>6, <1>8
<1> QED
  BY <1>4, <1>9

\* A sum of what is not below zero is not below zero.
LEMMA SumIsNat ==
  ASSUME NEW S, IsFiniteSet(S), NEW f, \A x \in S : f[x] \in Nat
  PROVE  SumFunctionOnSet(f, S) \in Nat
<1> DEFINE Wrong == { s \in SUBSET S : SumFunctionOnSet(f, s) \notin Nat }
<1>1. SUFFICES ASSUME Wrong # {} PROVE FALSE
  OBVIOUS
<1>2. PICK s \in Wrong : \A u \in Wrong : u \subseteq s => u = s
  <2>1. Wrong \in SUBSET SUBSET S
    OBVIOUS
  <2> HIDE DEF Wrong
  <2> QED
    BY <1>1, <2>1, SmallestSet
<1>3. IsFiniteSet(s)
  BY FS_Subset
<1>4. s # {}
  BY <1>3, SumRest
<1>5. Pick(s) \in s /\ Rest(s) \in SUBSET S /\ Rest(s) \subseteq s /\ Rest(s) # s
  BY <1>4, PickIsIn DEF Rest
<1>6. SumFunctionOnSet(f, Rest(s)) \in Nat
  BY <1>2, <1>5
<1>7. SumFunctionOnSet(f, s) = f[Pick(s)] + SumFunctionOnSet(f, Rest(s))
  BY <1>3, <1>4, SumRest
<1>8. f[Pick(s)] \in Nat
  BY <1>5
<1> HIDE DEF Wrong
<1>9. SumFunctionOnSet(f, s) \in Nat
  BY <1>6, <1>7, <1>8
<1> QED
  BY <1>9 DEF Wrong

-----------------------------------------------------------------------------
\* Records.

LEMMA RecordsAre ==
  /\ Records \in SUBSET Int /\ 1 \in Records /\ IsFiniteSet(Records)
  /\ Cardinality(Records) = MaxRecord
BY MaxRecordAssumption, FS_Interval DEF Records

LEMMA LivingIsFinite ==
  ASSUME NEW rows
  PROVE  Living(rows) \in SUBSET Records /\ IsFiniteSet(Living(rows))
BY RecordsAre, FS_Subset DEF Living

LEMMA NoRowIs ==
  /\ NoRow \in Row /\ Sound(NoRow)
  /\ NoRow.amount = 0 /\ NoRow.paid = None /\ ~NoRow.dated /\ NoRow.deleted /\ ~NoRow.online
<1>1. NoRow \in Row
  BY DEF NoRow, Row, PaymentStatus
<1> QED
  BY <1>1 DEF NoRow, Sound

LEMMA NewRowIs ==
  ASSUME NEW amount \in Int, NEW online \in BOOLEAN
  PROVE  /\ NewRow(amount, online) \in Row
         /\ amount # 0 => Sound(NewRow(amount, online))
         /\ NewRow(amount, online).amount = amount /\ NewRow(amount, online).paid = None
         /\ ~NewRow(amount, online).deleted /\ ~NewRow(amount, online).dated
<1>1. NewRow(amount, online) \in Row
  BY DEF NewRow, Row, PaymentStatus
<1> DEFINE r == NewRow(amount, online)
<1>2. /\ r.amount = amount /\ r.paid = None /\ ~r.deleted /\ ~r.dated
      /\ r.refund <=> amount < 0
  BY DEF NewRow
<1> HIDE DEF r
<1>3. amount # 0 => Sound(r)
  <2>1. CASE amount < 0
    BY <1>2, <2>1 DEF Sound
  <2>2. CASE amount > 0
    BY <1>2, <2>2 DEF Sound
  <2> QED
    BY <2>1, <2>2
<1> QED
  BY <1>1, <1>2, <1>3 DEF r

LEMMA BookedIsInt ==
  ASSUME NEW r \in Row
  PROVE  Booked(r) \in Int
BY DEF Booked, Row

LEMMA NetPaidIsInt ==
  ASSUME NEW rows \in Rows
  PROVE  NetPaid(rows) \in Int
<1>1. \A i \in Living(rows) : [k \in Records |-> Booked(rows[k])][i] \in Int
  BY LivingIsFinite, BookedIsInt DEF Rows
<1> QED
  BY <1>1, LivingIsFinite, SumIsInt DEF NetPaid

LEMMA TotalIsNat ==
  ASSUME NEW order \in [Products -> Nat]
  PROVE  Total(order) \in Nat
<1> DEFINE f == [p \in Products |-> Price[p] * order[p]]
<1>1. ASSUME NEW p \in Products
      PROVE  f[p] \in Nat
  <2>1. Price[p] \in Nat /\ order[p] \in Nat
    BY PriceAssumption
  <2> QED
    BY <2>1
<1> HIDE DEF f
<1>2. SumFunctionOnSet(f, Products) \in Nat
  BY <1>1, PriceAssumption, SumIsNat
<1> QED
  BY <1>2 DEF Total, f

LEMMA MarkPaidIs ==
  ASSUME NEW r \in Row, NEW booked \in Int \cup {None}
  PROVE  /\ MarkPaid(r, booked) \in Row
         /\ MarkPaid(r, booked).amount = r.amount /\ MarkPaid(r, booked).dated
         /\ MarkPaid(r, booked).online = r.online
<1>1. (IF booked = None THEN r.amount ELSE booked) \in Int
  BY DEF Row
<1> DEFINE b == IF booked = None THEN r.amount ELSE booked
           status == IF Covers(r, b) THEN "PAID" ELSE "PENDING"
<1>2. status \in PaymentStatus
  BY DEF PaymentStatus
<1>3. MarkPaid(r, booked) = [r EXCEPT !.paid = b, !.dated = TRUE, !.status = status]
  BY DEF MarkPaid
<1> HIDE DEF b, status
<1>4. b \in Int
  BY <1>1 DEF b
<1> QED
  BY <1>2, <1>3, <1>4 DEF Row

LEMMA GatewayUpdateIs ==
  ASSUME NEW r \in Row, NEW status \in PaymentStatus
  PROVE  LET u == GatewayUpdate(r, status)
         IN  /\ u \in Row /\ u.amount = r.amount /\ u.online = r.online
             /\ u.dated \/ (~r.dated /\ u.paid = r.paid /\ ~u.dated)
             /\ r.dated => u.paid = r.paid
<1>1. None \in Int \cup {None}
  OBVIOUS
<1>2. CASE r.status # status /\ status = "PAID" /\ ~r.dated
  BY <1>1, <1>2, MarkPaidIs DEF GatewayUpdate
<1>3. CASE ~(r.status # status /\ status = "PAID" /\ ~r.dated)
  <2>1. GatewayUpdate(r, status) = [r EXCEPT !.status = status]
    BY <1>3 DEF GatewayUpdate
  <2> QED
    BY <2>1 DEF Row
<1> QED
  BY <1>2, <1>3

LEMMA WrittenIs ==
  ASSUME NEW now \in Row, NEW read \in Row, NEW new \in Row
  PROVE  LET w == Written(now, read, new)
         IN  /\ w \in Row /\ w.refund = now.refund /\ w.online = now.online
             /\ w.amount = IF new.amount = read.amount THEN now.amount ELSE new.amount
             /\ w.paid = IF new.paid = read.paid THEN now.paid ELSE new.paid
             /\ w.dated = IF new.dated = read.dated THEN now.dated ELSE new.dated
             /\ w.deleted = IF new.deleted = read.deleted THEN now.deleted ELSE new.deleted
BY DEF Written, Row

LEMMA ClosedIs ==
  ASSUME NEW r \in Row
  PROVE  /\ Closed(r) \in Row
         /\ Closed(r).paid = r.paid /\ Closed(r).dated = r.dated /\ Closed(r).status = r.status
         /\ Closed(r).amount = IF Booked(r) = 0 THEN r.amount ELSE Booked(r)
         /\ Closed(r).deleted = IF Booked(r) = 0 THEN TRUE ELSE r.deleted
<1>1. CASE Booked(r) = 0
  BY <1>1 DEF Closed, Row
<1>2. CASE Booked(r) # 0
  <2>1. r.paid # None /\ Booked(r) = r.paid /\ r.paid \in Int
    BY <1>2 DEF Booked, Row
  <2>2. Closed(r) = [r EXCEPT !.amount = r.paid]
    BY <1>2 DEF Closed
  <2> QED
    BY <1>2, <2>1, <2>2 DEF Row
<1> QED
  BY <1>1, <1>2
-----------------------------------------------------------------------------
\* What a step can be.

\* A request of the treasurer writes record i: what it asks stays, and what it books
\* has its date.
Allowed(read, new) ==
  /\ new \in Row /\ new.amount = read.amount
  /\ new.dated \/ new.paid \in {None, 0} \/ (~read.dated /\ new.paid = read.paid)

Saves ==
  /\ treasurer.busy
  /\ \E i \in Records, new \in Row :
       row[i].amount # 0 /\ Allowed(treasurer.rows[i], new) /\ TreasurerSaves(i, new)

Refunds ==
  /\ treasurer.busy
  /\ \E k \in Unused, amount \in Nat \ {0} : row' = [row EXCEPT ![k] = NewRow(-amount, FALSE)]
  /\ TreasurerEnds

Registers ==
  /\ visitor \in {"idle", "starting"}
  /\ \E order \in Orders, online \in BOOLEAN : Registered(order, online)
  /\ UNCHANGED provider

\* A request of the back office reads the order and the records.
Reads(a) ==
  /\ visitor = "registered" \/ change[a].step = "changed"
  /\ change[a].step = "idle" => RecordLeft
  /\ \E to \in [Products -> Nat], removes \in BOOLEAN : Reconciles(a, to, removes)
  /\ counts' \in [changes : Nat, edits : Nat, crashes : Nat]

\* The records and the orders stay.
Quiet ==
  /\ row' = row /\ line' = line /\ change' = change /\ counts' = counts
  /\ treasurer'.busy = treasurer.busy /\ treasurer'.rows = treasurer.rows
  /\ treasurer' \in Request
  /\ visitor' \in {"idle", "starting", "registered", "refused", "gone"}
  /\ visitor' \in {"idle", "starting", "refused"} => visitor \in {"idle", "starting", "refused"}
  /\ provider' \in Answers /\ notice' \in BOOLEAN /\ call' \in [Calls -> Answers]

LEMMA BookingsAre ==
  ASSUME NEW r \in Row, NEW booked \in Bookings(r)
  PROVE  booked \in Int \cup {None}
BY DEF Bookings, Row

LEMMA EditedIs ==
  ASSUME NEW r \in Row, NEW status \in PaymentStatus \cup {None}, NEW booked \in Int \cup {None}
  PROVE  Allowed(r, Edited(r, status, booked))
<1> DEFINE st == IF status = None THEN r.status ELSE status
           b == IF booked = None THEN r.paid ELSE booked
           d == r.dated \/ booked \notin {None, 0}
           e == Edited(r, status, booked)
<1>1. st \in PaymentStatus /\ b \in Int \cup {None} /\ d \in BOOLEAN /\ r.dated \in BOOLEAN
  BY DEF Row
<1>2. Edited(r, status, booked) = [r EXCEPT !.status = st, !.paid = b, !.dated = d]
  BY DEF Edited
<1>3. d \/ b \in {None, 0} \/ (~r.dated /\ b = r.paid)
  BY <1>1
<1> HIDE DEF st, b, d
<1>4. e \in Row /\ e.amount = r.amount /\ e.dated = d /\ e.paid = b
  BY <1>1, <1>2 DEF Row
<1> HIDE DEF e
<1>5. e.dated \/ e.paid \in {None, 0} \/ (~r.dated /\ e.paid = r.paid)
  BY <1>3, <1>4, Zenon
<1> QED
  BY <1>4, <1>5 DEF e, Allowed

LEMMA CancelIs ==
  ASSUME NEW r \in Row, NEW status \in PaymentStatus
  PROVE  LET e == Cancel(r, status)
         IN  e \in Row /\ e.amount = r.amount /\ e.paid = None
<1>1. None \in Int \cup {None}
  OBVIOUS
<1> QED
  BY <1>1 DEF Cancel, Row

LEMMA DeletedIs ==
  ASSUME NEW r \in Row
  PROVE  LET e == [r EXCEPT !.deleted = TRUE]
         IN  e \in Row /\ e.amount = r.amount /\ e.paid = r.paid /\ e.dated = r.dated
BY DEF Row

LEMMA TreasurerKinds ==
  ASSUME TypeOK, RecordsStay, Treasurer
  PROVE  \/ TreasurerReads \/ Quiet \/ Saves \/ Refunds
         \/ UNCHANGED row /\ TreasurerEnds
<1> DEFINE read == treasurer.rows
<1>1. /\ read \in [Records -> Row] /\ row \in [Records -> Row] /\ treasurer \in Request
      /\ treasurer.busy \in BOOLEAN
  BY DEF TypeOK, Rows, Request
<1>2. ASSUME NEW i \in Seen
      PROVE  i \in Records /\ read[i] \in Row /\ row[i].amount # 0 /\ treasurer.busy
  BY <1>1, <1>2, LivingIsFinite DEF Seen, RecordsStay
<1>3. ASSUME NEW i \in Seen, NEW new, Allowed(read[i], new), TreasurerSaves(i, new)
      PROVE  Saves
  <2>1. new \in Row
    BY <1>3 DEF Allowed
  <2> QED
    BY <1>2, <1>3, <2>1 DEF Saves
<1>4. ASSUME NEW i \in Seen, NEW booked \in Int \cup {None}
      PROVE  Allowed(read[i], MarkPaid(read[i], booked))
  BY <1>2, <1>4, MarkPaidIs DEF Allowed
<1>5. CASE TreasurerAsks
  <2>1. treasurer' \in Request /\ treasurer'.busy = treasurer.busy /\ treasurer'.rows = treasurer.rows
    BY <1>1, <1>5 DEF TreasurerAsks, TypeOK, Request
  <2>2. UNCHANGED <<row, line, visitor, provider, notice, change, call, counts>>
    BY <1>5 DEF TreasurerAsks
  <2> QED
    BY <2>1, <2>2 DEF Quiet, TypeOK
<1>6. CASE RefreshStatus
  <2>1. CASE row[1].deleted
    BY <1>6, <2>1 DEF RefreshStatus
  <2>2. CASE ~row[1].deleted
    <3>1. row[1].amount # 0
      BY <2>2, RecordsAre, NoRowIs DEF RecordsStay
    <3>2. /\ TreasurerSaves(1, GatewayUpdate(read[1], treasurer.answer))
          /\ treasurer.busy /\ treasurer.answer \in PaymentStatus
      BY <1>6, <2>2 DEF RefreshStatus
    <3>3. read[1] \in Row
      BY <1>1, RecordsAre
    <3>4. Allowed(read[1], GatewayUpdate(read[1], treasurer.answer))
      BY <3>2, <3>3, GatewayUpdateIs DEF Allowed
    <3>5. GatewayUpdate(read[1], treasurer.answer) \in Row
      BY <3>4 DEF Allowed
    <3> QED
      BY <3>1, <3>2, <3>4, <3>5, RecordsAre DEF Saves
  <2> QED
    BY <2>1, <2>2
<1>7. ASSUME NEW i \in Seen, NEW booked \in Bookings(read[i]), ConfirmPayment(i, booked)
      PROVE  Saves
  <2>1. TreasurerSaves(i, MarkPaid(read[i], booked))
    BY <1>7 DEF ConfirmPayment
  <2>2. booked \in Int \cup {None}
    BY <1>2, BookingsAre
  <2> QED
    BY <1>3, <1>4, <2>1, <2>2
<1>8. ASSUME NEW i \in Seen, NEW booked \in Bookings(read[i]),
             NEW status \in PaymentStatus \cup {None}, EditPayment(i, status, booked)
      PROVE  Saves
  <2>1. booked \in Int \cup {None}
    BY <1>2, BookingsAre
  <2>2. CASE Settles(read[i], status, booked)
    <3>1. TreasurerSaves(i, MarkPaid(read[i], booked))
      BY <1>8, <2>2 DEF EditPayment
    <3> QED
      BY <1>3, <1>4, <2>1, <3>1
  <2>3. CASE ~Settles(read[i], status, booked)
    <3>1. TreasurerSaves(i, Edited(read[i], status, booked))
      BY <1>8, <2>3 DEF EditPayment
    <3>2. Allowed(read[i], Edited(read[i], status, booked))
      BY <1>2, <2>1, EditedIs
    <3> QED
      BY <1>3, <3>1, <3>2
  <2> QED
    BY <2>2, <2>3
<1>9. ASSUME NEW i \in Seen, NEW status \in PaymentStatus, SetStatus(i, status)
      PROVE  Saves
  <2>1. CASE status = "PAID"
    <3>1. TreasurerSaves(i, MarkPaid(read[i], read[i].paid))
      BY <1>9, <2>1 DEF SetStatus
    <3>2. read[i].paid \in Int \cup {None}
      BY <1>2 DEF Row
    <3> QED
      BY <1>3, <1>4, <3>1, <3>2
  <2>2. CASE status # "PAID"
    <3>1. TreasurerSaves(i, Cancel(read[i], status))
      BY <1>9, <2>2 DEF SetStatus
    <3>2. Allowed(read[i], Cancel(read[i], status))
      BY <1>2, CancelIs DEF Allowed
    <3> QED
      BY <1>3, <3>1, <3>2
  <2> QED
    BY <2>1, <2>2
<1>10. ASSUME NEW i \in Seen, DeletePayment(i)
       PROVE  Saves
  <2>1. TreasurerSaves(i, [read[i] EXCEPT !.deleted = TRUE])
    BY <1>10 DEF DeletePayment
  <2>2. Allowed(read[i], [read[i] EXCEPT !.deleted = TRUE])
    <3>1. read[i] \in Row /\ read[i].dated \in BOOLEAN
      BY <1>2 DEF Row
    <3> QED
      BY <3>1, DeletedIs DEF Allowed
  <2> QED
    BY <1>3, <2>1, <2>2
<1>11. ASSUME NEW i \in Seen, NEW amount \in 1..NetPaid(read), RegisterRefund(i, amount)
       PROVE  Refunds
  <2>1. read \in Rows
    BY <1>1 DEF Rows
  <2>2. amount \in Nat \ {0}
    BY <2>1, NetPaidIsInt
  <2>3. \E k \in Unused : row' = [row EXCEPT ![k] = NewRow(-amount, FALSE)]
    BY <1>11 DEF RegisterRefund
  <2>4. TreasurerEnds /\ treasurer.busy
    BY <1>2, <1>11 DEF RegisterRefund
  <2> QED
    BY <2>2, <2>3, <2>4 DEF Refunds
<1>12. CASE TreasurerRefused
  BY <1>12 DEF TreasurerRefused
<1> HIDE DEF read
<1>13. CASE TreasurerReads
  BY <1>13
<1>14. ASSUME NEW i \in Seen,
              \/ \E booked \in Bookings(treasurer.rows[i]) :
                    \/ ConfirmPayment(i, booked)
                    \/ \E status \in PaymentStatus \cup {None} : EditPayment(i, status, booked)
              \/ \E status \in PaymentStatus : SetStatus(i, status)
              \/ DeletePayment(i)
              \/ \E amount \in 1..NetPaid(treasurer.rows) : RegisterRefund(i, amount)
       PROVE  Saves \/ Refunds
  BY <1>7, <1>8, <1>9, <1>10, <1>11, <1>14, Zenon DEF read
<1> QED
  BY <1>5, <1>6, <1>12, <1>13, <1>14 DEF Treasurer

LEMMA AdminKinds ==
  ASSUME TypeOK, NEW a \in Admins, Admin(a)
  PROVE  \/ Reads(a) \/ ChangeCommits(a) \/ ChangeRollsBack(a)
         \/ \E p \in Products, product \in Products, quantity \in Nat :
              UpdateOrderLine(a, p, product, quantity)
<1>1. line \in [Products -> Nat] /\ counts \in [changes : Nat, edits : Nat, crashes : Nat]
  BY DEF TypeOK
<1>2. MayChange(a) => /\ visitor = "registered" /\ RecordLeft
                      /\ counts' \in [changes : Nat, edits : Nat, crashes : Nat]
  BY <1>1 DEF MayChange
<1>3. ASSUME NEW p \in Products, NEW quantity \in 0..MaxQuantity, SetOrderQuantities(a, p, quantity)
      PROVE  Reads(a)
  <2>1. [line EXCEPT ![p] = quantity] \in [Products -> Nat]
    BY <1>1, MaxRecordAssumption
  <2> QED
    BY <1>2, <1>3, <2>1 DEF SetOrderQuantities, Reads
<1>4. CASE DeleteRegistration(a)
  <2>1. NoOrder \in [Products -> Nat]
    BY DEF NoOrder
  <2> QED
    BY <1>2, <1>4, <2>1 DEF DeleteRegistration, Reads
<1>5. CASE UpdateReconciles(a)
  BY <1>1, <1>5 DEF UpdateReconciles, Reads
<1>6. \A quantity \in 0..MaxQuantity : quantity \in Nat
  BY MaxRecordAssumption
<1> QED
  BY <1>3, <1>4, <1>5, <1>6, Zenon DEF Admin

LEMMA StepKinds ==
  ASSUME TypeOK, RecordsStay, [Next]_vars
  PROVE  \/ Quiet \/ Registers \/ TreasurerReads \/ Saves \/ Refunds
         \/ UNCHANGED row /\ TreasurerEnds
         \/ \E c \in Calls : CallCommits(c)
         \/ \E a \in Admins :
              \/ Reads(a) \/ ChangeCommits(a) \/ ChangeRollsBack(a)
              \/ \E p \in Products, product \in Products, quantity \in Nat :
                   UpdateOrderLine(a, p, product, quantity)
         \/ Crash
<1>1. /\ treasurer \in Request /\ provider \in Answers /\ notice \in BOOLEAN
      /\ call \in [Calls -> Answers]
      /\ visitor \in {"idle", "starting", "registered", "refused", "gone"}
  BY DEF TypeOK
<1>2. CASE UNCHANGED vars
  BY <1>1, <1>2 DEF vars, Quiet
<1>3. CASE Visitor
  <2>1. CASE RegisterTransfer
    BY <2>1 DEF RegisterTransfer, Registers
  <2>2. CASE RegisterOnline
    BY <2>2 DEF RegisterOnline, Registers
  <2>3. CASE StartOnline
    <3>1. "PENDING" \in Answers
      BY DEF Answers, PaymentStatus
    <3> QED
      BY <1>1, <2>3, <3>1 DEF StartOnline, Quiet
  <2>4. CASE RegistrationFails
    BY <1>1, <2>4 DEF RegistrationFails, Quiet
  <2>5. CASE PaymentEnds
    <3>1. Failures \subseteq Answers
      BY DEF Answers, PaymentStatus
    <3> QED
      BY <1>1, <2>5, <3>1 DEF PaymentEnds, Quiet
  <2> QED
    BY <1>3, <2>1, <2>2, <2>3, <2>4, <2>5 DEF Visitor
<1>4. CASE CallIgnored
  BY <1>1, <1>4 DEF CallIgnored, Quiet
<1>5. ASSUME NEW c \in Calls, Webhook(c)
      PROVE  Quiet \/ CallCommits(c)
  <2>1. CASE CallAsks(c)
    BY <1>1, <2>1 DEF CallAsks, Quiet
  <2>2. CASE CallRaises(c)
    <3>1. "none" \in Answers
      BY DEF Answers
    <3> QED
      BY <1>1, <2>2, <3>1 DEF CallRaises, CallEnds, Quiet
  <2> QED
    BY <1>5, <2>1, <2>2 DEF Webhook
<1>6. CASE Treasurer
  BY <1>6, TreasurerKinds
<1>7. ASSUME NEW a \in Admins, Admin(a)
      PROVE  \/ Reads(a) \/ ChangeCommits(a) \/ ChangeRollsBack(a)
             \/ \E p \in Products, product \in Products, quantity \in Nat :
                  UpdateOrderLine(a, p, product, quantity)
  BY <1>7, AdminKinds
<1> QED
  BY <1>2, <1>3, <1>4, <1>5, <1>6, <1>7, Zenon DEF Next
-----------------------------------------------------------------------------
\* What a change of the order writes.

LEMMA UnusedIs ==
  /\ Unused \in SUBSET Records /\ IsFiniteSet(Unused)
  /\ Cardinality(Unused) \in Nat
BY RecordsAre, FS_Subset, FS_CardinalityType DEF Unused

LEMMA FirstUnused ==
  ASSUME Unused # {}
  PROVE  (CHOOSE i \in Unused : NextRecord(i)) \in Unused
<1> DEFINE UpTo(i) == { k \in Unused : k <= i }
           All == { UpTo(i) : i \in Unused }
<1>1. All \in SUBSET SUBSET Unused /\ All # {}
  OBVIOUS
<1>2. PICK s \in All : \A u \in All : u \subseteq s => u = s
  <2> HIDE DEF All
  <2> QED
    BY <1>1, UnusedIs, SmallestSet
<1>3. PICK i \in Unused : s = UpTo(i)
  OBVIOUS
<1>4. ASSUME NEW k \in Unused
      PROVE  i <= k
  <2>1. i \in Int /\ k \in Int
    BY UnusedIs, RecordsAre
  <2>2. SUFFICES ASSUME k < i PROVE FALSE
    BY <2>1
  <2>3. UpTo(k) \subseteq UpTo(i)
    <3>1. ASSUME NEW l \in UpTo(k) PROVE l \in UpTo(i)
      <4>1. l \in Int /\ l \in Unused /\ l <= k
        BY UnusedIs, RecordsAre
      <4> QED
        BY <2>1, <2>2, <4>1
    <3> QED
      BY <3>1
  <2>4. UpTo(k) = UpTo(i)
    BY <1>2, <1>3, <2>3
  <2>5. i \in UpTo(i) /\ i \notin UpTo(k)
    BY <2>1, <2>2
  <2> QED
    BY <2>4, <2>5
<1>5. NextRecord(i)
  BY <1>4 DEF NextRecord
<1> QED
  BY <1>5

\* The records as they are closed, before the post is added.
ClosedRows(rows) ==
  [i \in Records |-> IF Closes(rows, i) THEN Written(row[i], rows[i], Closed(rows[i])) ELSE row[i]]

Owes(rows, total) ==
  \/ Outstanding(rows, total) > 0
  \/ /\ Outstanding(rows, total) < 0
     /\ \E i \in Living(rows) : ~rows[i].refund /\ Booked(rows[i]) > 0

LEMMA ReconciledIs ==
  ASSUME Unused # {}, NEW rows \in Rows, NEW total \in Nat
  PROVE  \/ Owes(rows, total) /\ \E new \in Unused :
              Reconciled(rows, total) =
                [ClosedRows(rows) EXCEPT ![new] = NewRow(Outstanding(rows, total), FALSE)]
         \/ ~Owes(rows, total) /\ Reconciled(rows, total) = ClosedRows(rows)
<1> DEFINE new == CHOOSE i \in Unused : NextRecord(i)
<1>1. new \in Unused
  BY FirstUnused, Zenon
<1>2. Reconciled(rows, total) =
        IF Owes(rows, total)
        THEN [ClosedRows(rows) EXCEPT ![new] = NewRow(Outstanding(rows, total), FALSE)]
        ELSE ClosedRows(rows)
  BY Zenon DEF Reconciled, ClosedRows, Owes
<1> HIDE DEF new
<1> QED
  BY <1>1, <1>2

LEMMA OutstandingIsInt ==
  ASSUME NEW rows \in Rows, NEW total \in Nat
  PROVE  /\ Outstanding(rows, total) \in Int
         /\ Owes(rows, total) => Outstanding(rows, total) # 0
<1>1. NetPaid(rows) \in Int
  BY NetPaidIsInt
<1> QED
  BY <1>1 DEF Outstanding, Owes

LEMMA ClosedRowsAre ==
  ASSUME TypeOK, NEW rows \in Rows, NEW i \in Records
  PROVE  LET c == ClosedRows(rows)
         IN  /\ c \in Rows
             /\ i \notin Living(rows) => c[i] = row[i]
             /\ i \in Living(rows) =>
                  /\ c[i].paid = row[i].paid /\ c[i].dated = row[i].dated
                  /\ c[i].amount = IF Booked(rows[i]) \in {0, rows[i].amount}
                                   THEN row[i].amount ELSE Booked(rows[i])
                  /\ c[i].deleted = IF Booked(rows[i]) = 0 THEN TRUE ELSE row[i].deleted
<1>1. ASSUME NEW k \in Records
      PROVE  /\ row[k] \in Row /\ rows[k] \in Row /\ Closed(rows[k]) \in Row
             /\ Written(row[k], rows[k], Closed(rows[k])) \in Row
  BY ClosedIs, WrittenIs DEF TypeOK, Rows
<1>2. ClosedRows(rows) \in Rows
  BY <1>1, Zenon DEF ClosedRows, Rows
<1>3. ClosedRows(rows)[i] = IF i \in Living(rows) THEN Written(row[i], rows[i], Closed(rows[i]))
                            ELSE row[i]
  BY DEF ClosedRows, Closes
<1>4. CASE i \in Living(rows)
  <2> DEFINE w == Written(row[i], rows[i], Closed(rows[i]))
  <2>1. ~rows[i].deleted
    BY <1>4 DEF Living
  <2>2. /\ w.amount = IF Closed(rows[i]).amount = rows[i].amount THEN row[i].amount
                      ELSE Closed(rows[i]).amount
        /\ w.paid = IF Closed(rows[i]).paid = rows[i].paid THEN row[i].paid ELSE Closed(rows[i]).paid
        /\ w.dated = IF Closed(rows[i]).dated = rows[i].dated THEN row[i].dated
                     ELSE Closed(rows[i]).dated
        /\ w.deleted = IF Closed(rows[i]).deleted = rows[i].deleted THEN row[i].deleted
                       ELSE Closed(rows[i]).deleted
    BY <1>1, WrittenIs
  <2>3. /\ Closed(rows[i]).paid = rows[i].paid /\ Closed(rows[i]).dated = rows[i].dated
        /\ Closed(rows[i]).amount = IF Booked(rows[i]) = 0 THEN rows[i].amount ELSE Booked(rows[i])
        /\ Closed(rows[i]).deleted = IF Booked(rows[i]) = 0 THEN TRUE ELSE rows[i].deleted
    BY <1>1, ClosedIs
  <2>4. rows[i].deleted = FALSE
    BY <1>1, <2>1 DEF Row
  <2> HIDE DEF w
  <2>5. CASE Booked(rows[i]) = 0
    BY <2>2, <2>3, <2>4, <2>5, <1>2, <1>3, <1>4 DEF w
  <2>6. CASE Booked(rows[i]) # 0
    BY <2>2, <2>3, <2>4, <2>6, <1>2, <1>3, <1>4 DEF w
  <2> QED
    BY <2>5, <2>6
<1>5. CASE i \notin Living(rows)
  BY <1>2, <1>3, <1>5
<1> QED
  BY <1>4, <1>5
-----------------------------------------------------------------------------
\* The types.

LEMMA BusyHasUnused ==
  ASSUME RecordForEach, TypeOK, NEW a \in Busy
  PROVE  Unused # {}
<1>1. treasurer.busy \in BOOLEAN
  BY DEF TypeOK, Request
<1>2. IsFiniteSet(Busy) /\ Cardinality(Busy) \in Nat /\ Cardinality(Busy) # 0
  BY FS_CardinalityType, FS_EmptySet DEF RecordForEach
<1>3. Cardinality(Unused) # 0
  BY <1>1, <1>2, UnusedIs DEF RecordForEach
<1> QED
  BY <1>3, FS_EmptySet

LEMMA OrdersAre ==
  ASSUME NEW order \in Orders
  PROVE  order \in [Products -> Nat] /\ Total(order) \in Nat \ {0}
<1>1. order \in [Products -> Nat] /\ Total(order) > 0
  <2>1. 0..MaxQuantity \subseteq Nat
    BY MaxRecordAssumption
  <2> QED
    BY <2>1 DEF Orders
<1> QED
  BY <1>1, TotalIsNat

LEMMA ChangeIs ==
  ASSUME TypeOK, NEW a \in Admins
  PROVE  /\ change[a] \in Change /\ change[a].rows \in Rows /\ change[a].removes \in BOOLEAN
         /\ change[a].was \in [Products -> Nat] /\ change[a].to \in [Products -> Nat]
         /\ Total(change[a].to) \in Nat
<1>1. change[a] \in Change
  BY DEF TypeOK
<1>2. change[a].to \in [Products -> Nat]
  BY <1>1 DEF Change
<1> QED
  BY <1>1, <1>2, TotalIsNat DEF Change

LEMMA NothingIs ==
  /\ NoOrder \in [Products -> Nat] /\ NoRequest \in Request /\ NoChange \in Change
  /\ NoChange.was = NoOrder /\ NoChange.to = NoOrder /\ NoChange.step = "idle"
  /\ NoChange.rows = [i \in Records |-> NoRow]
  /\ ~NoRequest.busy /\ NoRequest.rows = [i \in Records |-> NoRow]
  /\ Changed(NoOrder, NoOrder) = {}
  /\ Living([i \in Records |-> NoRow]) = {}
<1>1. NoOrder \in [Products -> Nat]
  BY DEF NoOrder
<1>2. [i \in Records |-> NoRow] \in Rows
  BY NoRowIs DEF Rows
<1>3. "none" \in Answers
  BY DEF Answers
<1>4. NoRequest \in Request
  BY <1>2, <1>3 DEF NoRequest, Request
<1>5. NoChange \in Change
  BY <1>1, <1>2 DEF NoChange, Change
<1>6. Living([i \in Records |-> NoRow]) = {}
  BY NoRowIs DEF Living
<1>7. Changed(NoOrder, NoOrder) = {}
  BY DEF Changed
<1> QED
  BY <1>1, <1>4, <1>5, <1>6, <1>7 DEF NoChange, NoRequest

\* What an open request adds to the lines never falls below zero.
LEMMA NewOrderIs ==
  ASSUME TypeOK, LinesAreLocked, NEW a \in Admins
  PROVE  NewOrder(change[a].was, change[a].to) \in [Products -> Nat]
<1> DEFINE was == change[a].was
           to == change[a].to
<1>1. was \in [Products -> Nat] /\ to \in [Products -> Nat] /\ line \in [Products -> Nat]
  BY ChangeIs DEF TypeOK
<1>2. \A p \in Changed(was, to) : line[p] >= was[p]
  BY DEF LinesAreLocked
<1> HIDE DEF was, to
<1>3. ASSUME NEW p \in Products
      PROVE  line[p] - was[p] + to[p] \in Nat
  <2>1. line[p] \in Nat /\ was[p] \in Nat /\ to[p] \in Nat
    BY <1>1
  <2>2. CASE p \in Changed(was, to)
    BY <1>2, <2>1, <2>2
  <2>3. CASE p \notin Changed(was, to)
    BY <2>1, <2>3 DEF Changed
  <2> QED
    BY <2>2, <2>3
<1> QED
  BY <1>3 DEF NewOrder, was, to

LEMMA TypesStep ==
  ASSUME TypeOK, RecordsStay, LinesAreLocked, RecordForEach, [Next]_vars
  PROVE  TypeOK'
<1> USE DEF TypeOK
<1>1. row \in [Records -> Row] /\ \A i \in Records : Sound(row[i])
  BY DEF Rows
<1>2. ASSUME NEW i \in Records, NEW new \in Row, row' = [row EXCEPT ![i] = new], Sound(new)
      PROVE  row' \in Rows /\ \A k \in Records : Sound(row'[k])
  BY <1>1, <1>2 DEF Rows
<1>3. CASE Quiet
  BY <1>3 DEF Quiet
<1>4. CASE Registers
  <2>1. PICK order \in Orders, online \in BOOLEAN : Registered(order, online)
    BY <1>4 DEF Registers
  <2>2. order \in [Products -> Nat] /\ Total(order) \in Nat \ {0}
    BY OrdersAre
  <2>3. NewRow(Total(order), online) \in Row /\ Sound(NewRow(Total(order), online))
    BY <2>2, NewRowIs
  <2>4. row' \in Rows /\ \A k \in Records : Sound(row'[k])
    BY <1>2, <2>1, <2>3, RecordsAre DEF Registered
  <2> QED
    BY <1>4, <2>1, <2>2, <2>4 DEF Registers, Registered
<1>5. CASE TreasurerReads
  <2>1. treasurer' \in Request
    <3>1. "none" \in Answers
      BY DEF Answers
    <3> QED
      BY <1>5, <3>1 DEF TreasurerReads, Request
  <2>2. counts' \in [changes : Nat, edits : Nat, crashes : Nat]
    BY <1>5 DEF TreasurerReads
  <2> QED
    BY <1>5, <2>1, <2>2 DEF TreasurerReads
<1>6. TreasurerEnds => /\ treasurer' \in Request
                       /\ UNCHANGED <<line, visitor, provider, notice, change, call, counts>>
  BY NothingIs DEF TreasurerEnds
<1>7. CASE Saves
  <2>1. PICK i \in Records, new \in Row : TreasurerSaves(i, new)
    BY <1>7 DEF Saves
  <2>2. treasurer.rows[i] \in Row
    BY DEF Request, Rows
  <2>3. Written(row[i], treasurer.rows[i], new) \in Row
    BY <1>1, <2>2, WrittenIs
  <2>4. row' = [row EXCEPT ![i] = Written(row[i], treasurer.rows[i], new)] /\ Sound(row'[i])
    BY <2>1 DEF TreasurerSaves
  <2>5. row' \in Rows /\ \A k \in Records : Sound(row'[k])
    BY <1>1, <1>2, <2>3, <2>4
  <2> QED
    BY <1>6, <2>1, <2>5 DEF TreasurerSaves
<1>8. CASE Refunds
  <2>1. PICK k \in Unused, amount \in Nat \ {0} : row' = [row EXCEPT ![k] = NewRow(-amount, FALSE)]
    BY <1>8 DEF Refunds
  <2>2. NewRow(-amount, FALSE) \in Row /\ Sound(NewRow(-amount, FALSE))
    <3>1. -amount \in Int /\ -amount # 0 /\ FALSE \in BOOLEAN
      OBVIOUS
    <3> QED
      BY <3>1, NewRowIs
  <2>3. row' \in Rows /\ \A i \in Records : Sound(row'[i])
    BY <1>2, <2>1, <2>2, UnusedIs
  <2> QED
    BY <1>6, <1>8, <2>3 DEF Refunds
<1>9. CASE UNCHANGED row /\ TreasurerEnds
  BY <1>6, <1>9
<1>10. ASSUME NEW c \in Calls, CallCommits(c)
       PROVE  TypeOK'
  <2> DEFINE new == IF row[1].deleted THEN row[1] ELSE GatewayUpdate(row[1], call[c])
  <2>1. new \in Row
    BY <1>1, <1>10, RecordsAre, GatewayUpdateIs DEF CallCommits
  <2>2. row' = [row EXCEPT ![1] = new] /\ Sound(row'[1])
    BY <1>1, <1>10, RecordsAre DEF CallCommits
  <2> HIDE DEF new
  <2>3. row' \in Rows /\ \A k \in Records : Sound(row'[k])
    BY <1>1, <1>2, <2>1, <2>2, RecordsAre
  <2>4. "none" \in Answers
    BY DEF Answers
  <2>5. call' \in [Calls -> Answers] /\ notice' \in BOOLEAN
        /\ UNCHANGED <<line, visitor, provider, treasurer, change, counts>>
    BY <1>10, <2>4 DEF CallCommits, CallEnds, Told
  <2> QED
    BY <2>3, <2>5
<1>11. ASSUME NEW a \in Admins, Reads(a)
       PROVE  TypeOK'
  <2>1. PICK to \in [Products -> Nat], removes \in BOOLEAN : Reconciles(a, to, removes)
    BY <1>11 DEF Reads
  <2>2. [step |-> "reconciling", was |-> line, to |-> to, rows |-> row, removes |-> removes] \in Change
    BY DEF Change
  <2>3. change' \in [Admins -> Change]
    BY <2>1, <2>2 DEF Reconciles
  <2> QED
    BY <1>11, <2>1, <2>3 DEF Reads, Reconciles
<1>12. ASSUME NEW a \in Admins, ChangeCommits(a)
       PROVE  TypeOK'
  <2>1. a \in Busy
    BY <1>12 DEF ChangeCommits, Busy
  <2> DEFINE rows == change[a].rows
             total == Total(change[a].to)
  <2>2. rows \in Rows /\ total \in Nat
    BY ChangeIs
  <2>3. row' = Reconciled(rows, total)
    BY <1>12 DEF ChangeCommits
  <2> HIDE DEF rows, total
  <2>4. ClosedRows(rows) \in Rows
    BY <2>2, RecordsAre, ClosedRowsAre
  <2>5. NewRow(Outstanding(rows, total), FALSE) \in Row
    BY <2>2, OutstandingIsInt, NewRowIs
  <2>6. row' \in Rows
    BY <2>1, <2>2, <2>3, <2>4, <2>5, BusyHasUnused, ReconciledIs DEF Rows
  <2>7. \A i \in Records : Sound(row'[i])
    BY <1>1, <1>12 DEF ChangeCommits
  <2>8. line' \in [Products -> Nat]
    BY <1>12, NewOrderIs DEF ChangeCommits
  <2>9. change' \in [Admins -> Change]
    BY <1>12, NothingIs DEF ChangeCommits
  <2>10. visitor' \in {"idle", "starting", "registered", "refused", "gone"}
    BY <1>12 DEF ChangeCommits
  <2> QED
    BY <1>12, <2>6, <2>7, <2>8, <2>9, <2>10 DEF ChangeCommits
<1>13. ASSUME NEW a \in Admins, ChangeRollsBack(a)
       PROVE  TypeOK'
  <2>1. change' \in [Admins -> Change]
    BY <1>13, NothingIs DEF ChangeRollsBack
  <2> QED
    BY <1>13, <2>1 DEF ChangeRollsBack
<1>14. ASSUME NEW a \in Admins, NEW p \in Products, NEW product \in Products, NEW quantity \in Nat,
              UpdateOrderLine(a, p, product, quantity)
       PROVE  TypeOK'
  <2>1. line' \in [Products -> Nat]
    <3>1. ASSUME NEW q \in Products
          PROVE  (IF q = p THEN 0 ELSE line[q]) + (IF q = product THEN quantity ELSE 0) \in Nat
      OBVIOUS
    <3> QED
      BY <1>14, <3>1 DEF UpdateOrderLine
  <2>2. change' \in [Admins -> Change]
    <3>1. [change[a] EXCEPT !.step = "changed"] \in Change
      BY ChangeIs DEF Change
    <3> QED
      BY <1>14, <3>1 DEF UpdateOrderLine
  <2>3. counts' \in [changes : Nat, edits : Nat, crashes : Nat]
    BY <1>14 DEF UpdateOrderLine, MayChange
  <2> QED
    BY <1>14, <2>1, <2>2, <2>3 DEF UpdateOrderLine
<1>15. CASE Crash
  <2>1. change' \in [Admins -> Change] /\ treasurer' \in Request
    BY <1>15, NothingIs DEF Crash
  <2>2. call' \in [Calls -> Answers]
    <3>1. "none" \in Answers
      BY DEF Answers
    <3> QED
      BY <1>15, <3>1 DEF Crash
  <2>3. counts' \in [changes : Nat, edits : Nat, crashes : Nat]
    BY <1>15 DEF Crash
  <2>4. visitor' \in {"idle", "starting", "registered", "refused", "gone"}
    BY <1>15 DEF Crash
  <2> QED
    BY <1>15, <2>1, <2>2, <2>3, <2>4 DEF Crash
<1> QED
  BY <1>3, <1>4, <1>5, <1>7, <1>8, <1>9, <1>10, <1>11, <1>12, <1>13, <1>14, <1>15, StepKinds, Zenon
-----------------------------------------------------------------------------
\* What a step does to a record.

\* Record i as a request of the treasurer leaves it.
LEMMA SavedIs ==
  ASSUME TypeOK, NEW i \in Records, NEW new \in Row, Allowed(treasurer.rows[i], new),
         TreasurerSaves(i, new)
  PROVE  /\ row'[i].amount = row[i].amount
         /\ row'[i].paid = IF new.paid = treasurer.rows[i].paid THEN row[i].paid ELSE new.paid
         /\ row'[i].dated = IF new.dated = treasurer.rows[i].dated THEN row[i].dated ELSE new.dated
         /\ \A k \in Records \ {i} : row'[k] = row[k]
         /\ new.dated \in BOOLEAN /\ treasurer.rows[i].dated \in BOOLEAN
<1> DEFINE read == treasurer.rows[i]
           w == Written(row[i], read, new)
<1>1. row \in [Records -> Row] /\ read \in Row
  BY DEF TypeOK, Rows, Request
<1>2. row' = [row EXCEPT ![i] = w]
  BY DEF TreasurerSaves
<1>3. /\ w.amount = IF new.amount = read.amount THEN row[i].amount ELSE new.amount
      /\ w.paid = IF new.paid = read.paid THEN row[i].paid ELSE new.paid
      /\ w.dated = IF new.dated = read.dated THEN row[i].dated ELSE new.dated
  BY <1>1, WrittenIs
<1>4. new.amount = read.amount
  BY DEF Allowed
<1>5. new.dated \in BOOLEAN /\ read.dated \in BOOLEAN
  BY <1>1 DEF Row
<1> HIDE DEF w, read
<1>6. row'[i] = w /\ \A k \in Records \ {i} : row'[k] = row[k]
  BY <1>1, <1>2
<1> QED
  BY <1>3, <1>4, <1>5, <1>6 DEF read

\* Record i as a change of the order leaves it: as it was, but for the amount and the
\* deletion, or new.
LEMMA CommittedIs ==
  ASSUME TypeOK, RecordForEach, NEW a \in Admins, ChangeCommits(a)
  PROVE  LET rows == change[a].rows
             closed == ClosedRows(rows)
             owed == Outstanding(rows, Total(change[a].to))
         IN  \/ /\ Owes(rows, Total(change[a].to)) /\ owed \in Int \ {0}
                /\ \E new \in Unused :
                     /\ row'[new] = NewRow(owed, FALSE)
                     /\ \A i \in Records \ {new} : row'[i] = closed[i]
             \/ /\ ~Owes(rows, Total(change[a].to))
                /\ \A i \in Records : row'[i] = closed[i]
<1> DEFINE rows == change[a].rows
           total == Total(change[a].to)
<1>1. rows \in Rows /\ total \in Nat
  BY ChangeIs
<1>2. row' = Reconciled(rows, total) /\ a \in Busy
  BY DEF ChangeCommits, Busy
<1> HIDE DEF rows, total
<1>3. ClosedRows(rows) \in [Records -> Row]
  BY <1>1, RecordsAre, ClosedRowsAre DEF Rows
<1>4. Unused # {} /\ Unused \in SUBSET Records
  BY <1>2, BusyHasUnused, UnusedIs
<1>5. CASE Owes(rows, total)
  <2>1. PICK new \in Unused :
          row' = [ClosedRows(rows) EXCEPT ![new] = NewRow(Outstanding(rows, total), FALSE)]
    BY <1>1, <1>2, <1>4, <1>5, ReconciledIs
  <2>2. Outstanding(rows, total) \in Int \ {0}
    BY <1>1, <1>5, OutstandingIsInt
  <2>3. /\ row'[new] = NewRow(Outstanding(rows, total), FALSE)
        /\ \A i \in Records \ {new} : row'[i] = ClosedRows(rows)[i]
    BY <1>3, <1>4, <2>1
  <2> QED
    BY <1>5, <2>2, <2>3 DEF rows, total
<1>6. CASE ~Owes(rows, total)
  BY <1>1, <1>2, <1>4, <1>6, ReconciledIs DEF rows, total
<1> QED
  BY <1>5, <1>6

\* What is booked on a record stays under a change of the order, on a new record
\* nothing is booked.
LEMMA CommitKeepsBooking ==
  ASSUME TypeOK, RecordForEach, NEW a \in Admins, ChangeCommits(a), NEW i \in Records
  PROVE  \/ row'[i].paid = row[i].paid /\ row'[i].dated = row[i].dated
         \/ row[i] = NoRow /\ row'[i].paid = None /\ ~row'[i].dated
<1> DEFINE rows == change[a].rows
           closed == ClosedRows(rows)
           owed == Outstanding(rows, Total(change[a].to))
<1>1. rows \in Rows
  BY ChangeIs
<1>2. closed[i].paid = row[i].paid /\ closed[i].dated = row[i].dated
  <2> HIDE DEF rows
  <2> QED
    BY <1>1, ClosedRowsAre
<1>3. \/ row'[i] = closed[i]
      \/ i \in Unused /\ owed \in Int /\ row'[i] = NewRow(owed, FALSE)
  BY CommittedIs
<1> HIDE DEF owed, closed, rows
<1>4. CASE i \in Unused /\ owed \in Int /\ row'[i] = NewRow(owed, FALSE)
  BY <1>4, NewRowIs DEF Unused
<1> QED
  BY <1>2, <1>3, <1>4

\* A call books at most once.
LEMMA CallKeeps ==
  ASSUME TypeOK, NEW c \in Calls, CallCommits(c), NEW i \in Records
  PROVE  /\ row'[i].amount = row[i].amount
         /\ row[i].dated => row'[i].dated /\ row'[i].paid = row[i].paid
         /\ row'[i].dated \/ (row'[i].paid = row[i].paid /\ ~row[i].dated)
         /\ row[i] = NoRow => row'[i] = NoRow
<1>1. row \in [Records -> Row] /\ \A k \in Records : row[k].dated \in BOOLEAN
  BY DEF TypeOK, Rows, Row
<1>2. row' = [row EXCEPT ![1] = IF row[1].deleted THEN row[1] ELSE GatewayUpdate(row[1], call[c])]
  BY <1>1, RecordsAre DEF CallCommits
<1>3. CASE i = 1 /\ ~row[1].deleted
  <2> DEFINE u == GatewayUpdate(row[1], call[c])
  <2>1. /\ u \in Row /\ u.amount = row[1].amount
        /\ u.dated \/ (~row[1].dated /\ u.paid = row[1].paid /\ ~u.dated)
        /\ row[1].dated => u.paid = row[1].paid
    BY <1>1, RecordsAre, GatewayUpdateIs DEF CallCommits
  <2>2. row'[i] = u
    BY <1>1, <1>2, <1>3
  <2> HIDE DEF u
  <2>3. row[i] # NoRow
    BY <1>3, NoRowIs
  <2> QED
    BY <1>1, <1>3, <2>1, <2>2, <2>3
<1>4. CASE ~(i = 1 /\ ~row[1].deleted)
  <2>1. row'[i] = row[i]
    BY <1>1, <1>2, <1>4
  <2> QED
    BY <1>1, <2>1
<1> QED
  BY <1>3, <1>4

\* The kinds of step that leave the records alone.
RowsStay == row' = row

LEMMA RowsStayIn ==
  /\ Quiet \/ TreasurerReads \/ (UNCHANGED row /\ TreasurerEnds) \/ Crash => RowsStay
  /\ \A a \in Admins : Reads(a) \/ ChangeRollsBack(a) => RowsStay
  /\ \A a \in Admins, p \in Products, product \in Products, quantity \in Nat :
       UpdateOrderLine(a, p, product, quantity) => RowsStay
<1>1. Quiet \/ TreasurerReads \/ (UNCHANGED row /\ TreasurerEnds) \/ Crash => RowsStay
  BY DEF RowsStay, Quiet, TreasurerReads, Crash
<1>2. \A a \in Admins : Reads(a) => RowsStay
  BY DEF RowsStay, Reads, Reconciles
<1>3. \A a \in Admins : ChangeRollsBack(a) => RowsStay
  BY DEF RowsStay, ChangeRollsBack
<1>4. \A a \in Admins, p \in Products, product \in Products, quantity \in Nat :
        UpdateOrderLine(a, p, product, quantity) => RowsStay
  BY DEF RowsStay, UpdateOrderLine
<1> QED
  BY <1>1, <1>2, <1>3, <1>4

LEMMA RowKinds ==
  ASSUME TypeOK, RecordsStay, [Next]_vars
  PROVE  \/ RowsStay \/ Registers \/ Saves \/ Refunds
         \/ \E c \in Calls : CallCommits(c)
         \/ \E a \in Admins : ChangeCommits(a)
BY StepKinds, RowsStayIn, Zenon

LEMMA RegistersIs ==
  ASSUME TypeOK, Registers
  PROVE  /\ \E amount \in Nat \ {0}, online \in BOOLEAN : row'[1] = NewRow(amount, online)
         /\ \A i \in Records \ {1} : row'[i] = row[i]
         /\ visitor \in {"idle", "starting"} /\ visitor' = "registered"
         /\ treasurer' = treasurer /\ change' = change
<1>1. PICK order \in Orders, online \in BOOLEAN : Registered(order, online)
  BY DEF Registers
<1>2. row \in [Records -> Row]
  BY DEF TypeOK, Rows
<1>3. row' = [row EXCEPT ![1] = NewRow(Total(order), online)]
  BY <1>1 DEF Registered
<1>4. row'[1] = NewRow(Total(order), online) /\ \A i \in Records \ {1} : row'[i] = row[i]
  BY <1>2, <1>3, RecordsAre
<1>5. Total(order) \in Nat \ {0}
  BY OrdersAre
<1> QED
  BY <1>1, <1>4, <1>5 DEF Registered, Registers

LEMMA RefundsIs ==
  ASSUME TypeOK, Refunds
  PROVE  \E k \in Unused, amount \in Nat \ {0} :
           row'[k] = NewRow(-amount, FALSE) /\ \A i \in Records \ {k} : row'[i] = row[i]
<1>1. row \in [Records -> Row]
  BY DEF TypeOK, Rows
<1>2. PICK k \in Unused, amount \in Nat \ {0} : row' = [row EXCEPT ![k] = NewRow(-amount, FALSE)]
  BY DEF Refunds
<1>3. row'[k] = NewRow(-amount, FALSE) /\ \A i \in Records \ {k} : row'[i] = row[i]
  BY <1>1, <1>2, UnusedIs
<1> QED
  BY <1>3
\* A record that exists goes on existing, and one that does not is as it was.
LEMMA ExistingStays ==
  ASSUME TypeOK, RecordsStay, RecordForEach, [Next]_vars, NEW i \in Records
  PROVE  /\ row[i].amount # 0 => row'[i].amount # 0
         /\ row'[i].amount = 0 => row'[i] = NoRow
<1>1. row[i].amount = 0 => row[i] = NoRow
  BY DEF RecordsStay
<1>2. CASE RowsStay
  BY <1>1, <1>2 DEF RowsStay
<1>3. CASE Registers
  <2>1. PICK amount \in Nat \ {0}, online \in BOOLEAN : row'[1] = NewRow(amount, online)
    BY <1>3, RegistersIs
  <2>2. row'[1].amount # 0
    BY <2>1, NewRowIs
  <2>3. i # 1 => row'[i] = row[i]
    BY <1>3, RegistersIs
  <2> QED
    BY <1>1, <2>2, <2>3
<1>4. CASE Saves
  <2>1. PICK k \in Records, new \in Row : /\ row[k].amount # 0 /\ Allowed(treasurer.rows[k], new)
                                          /\ TreasurerSaves(k, new)
    BY <1>4 DEF Saves
  <2>2. row'[k].amount = row[k].amount /\ \A l \in Records \ {k} : row'[l] = row[l]
    BY <2>1, SavedIs
  <2>3. i # k => row'[i] = row[i]
    BY <2>2
  <2> QED
    BY <1>1, <2>1, <2>2, <2>3
<1>5. CASE Refunds
  <2>1. PICK k \in Unused, amount \in Nat \ {0} :
          row'[k] = NewRow(-amount, FALSE) /\ \A l \in Records \ {k} : row'[l] = row[l]
    BY <1>5, RefundsIs
  <2>2. row'[k].amount # 0
    <3>1. -amount \in Int /\ -amount # 0 /\ FALSE \in BOOLEAN
      OBVIOUS
    <3> QED
      BY <2>1, <3>1, NewRowIs
  <2>3. i # k => row'[i] = row[i]
    BY <2>1
  <2> QED
    BY <1>1, <2>2, <2>3
<1>6. ASSUME NEW c \in Calls, CallCommits(c)
      PROVE  /\ row'[i].amount = row[i].amount
             /\ row[i] = NoRow => row'[i] = NoRow
  BY <1>6, CallKeeps
<1>7. ASSUME NEW a \in Admins, ChangeCommits(a)
      PROVE  \/ row'[i].amount # 0
             \/ row'[i] = row[i]
  <2> DEFINE rows == change[a].rows
             closed == ClosedRows(rows)
             owed == Outstanding(rows, Total(change[a].to))
  <2>1. rows \in Rows
    BY ChangeIs
  <2>2. i \in Living(rows) => row[i].amount # 0
    BY DEF RecordsStay
  <2>3. closed[i].amount # 0 \/ closed[i] = row[i]
    <3> HIDE DEF rows
    <3>1. CASE i \in Living(rows)
      <4>1. closed[i].amount = IF Booked(rows[i]) \in {0, rows[i].amount}
                               THEN row[i].amount ELSE Booked(rows[i])
        BY <2>1, <3>1, ClosedRowsAre
      <4> QED
        BY <2>2, <3>1, <4>1
    <3>2. CASE i \notin Living(rows)
      BY <2>1, <3>2, ClosedRowsAre
    <3> QED
      BY <3>1, <3>2
  <2>4. \/ row'[i] = closed[i]
        \/ owed \in Int \ {0} /\ row'[i] = NewRow(owed, FALSE)
    BY <1>7, CommittedIs
  <2> HIDE DEF owed, closed, rows
  <2>5. CASE owed \in Int \ {0} /\ row'[i] = NewRow(owed, FALSE)
    BY <2>5, NewRowIs
  <2> QED
    BY <2>3, <2>4, <2>5
<1>8. (\E c \in Calls : CallCommits(c)) =>
        row'[i].amount = row[i].amount /\ (row[i] = NoRow => row'[i] = NoRow)
  BY <1>6
<1>9. (\E a \in Admins : ChangeCommits(a)) => row'[i].amount # 0 \/ row'[i] = row[i]
  BY <1>7
<1> QED
  BY <1>1, <1>2, <1>3, <1>4, <1>5, <1>8, <1>9, RowKinds

\* What the requests hold after a step: what they held, what they read, or nothing.
LEMMA RequestsAre ==
  ASSUME TypeOK, RecordsStay, [Next]_vars
  PROVE  /\ \/ treasurer'.busy = treasurer.busy /\ treasurer'.rows = treasurer.rows
            \/ TreasurerReads /\ row' = row /\ treasurer'.busy /\ treasurer'.rows = row
            \/ ~treasurer'.busy /\ treasurer'.rows = [i \in Records |-> NoRow]
         /\ \A a \in Admins :
              \/ change'[a] = change[a]
              \/ row' = row /\ change'[a].rows = row
              \/ UNCHANGED row /\ change'[a] = [change[a] EXCEPT !.step = "changed"]
              \/ change'[a] = NoChange
<1> DEFINE T == \/ treasurer'.busy = treasurer.busy /\ treasurer'.rows = treasurer.rows
                \/ TreasurerReads /\ row' = row /\ treasurer'.busy /\ treasurer'.rows = row
                \/ ~treasurer'.busy /\ treasurer'.rows = [i \in Records |-> NoRow]
           A(a) == \/ change'[a] = change[a]
                   \/ row' = row /\ change'[a].rows = row
                   \/ UNCHANGED row /\ change'[a] = [change[a] EXCEPT !.step = "changed"]
                   \/ change'[a] = NoChange
<1>1. change \in [Admins -> Change]
  BY DEF TypeOK
<1>2. CASE Quiet
  BY <1>2 DEF Quiet
<1>3. CASE Registers
  BY <1>3, RegistersIs
<1>4. CASE TreasurerReads
  BY <1>4 DEF TreasurerReads
<1>5. CASE TreasurerEnds
  BY <1>5, NothingIs DEF TreasurerEnds
<1>6. Saves => TreasurerEnds
  BY DEF Saves, TreasurerSaves
<1>7. Refunds => TreasurerEnds
  BY DEF Refunds
<1>8. ASSUME NEW c \in Calls, CallCommits(c)
      PROVE  treasurer' = treasurer /\ change' = change
  BY <1>8 DEF CallCommits, CallEnds
<1>9. ASSUME NEW b \in Admins, Reads(b)
      PROVE  T /\ \A a \in Admins : A(a)
  <2>1. PICK to \in [Products -> Nat], removes \in BOOLEAN : Reconciles(b, to, removes)
    BY <1>9 DEF Reads
  <2>2. change'[b].rows = row /\ row' = row /\ treasurer' = treasurer
        /\ \A a \in Admins \ {b} : change'[a] = change[a]
    BY <1>1, <2>1 DEF Reconciles
  <2> QED
    BY <2>2
<1>10. ASSUME NEW b \in Admins, ChangeCommits(b) \/ ChangeRollsBack(b)
       PROVE  T /\ \A a \in Admins : A(a)
  <2>1. change' = [change EXCEPT ![b] = NoChange] /\ treasurer' = treasurer
    BY <1>10 DEF ChangeCommits, ChangeRollsBack
  <2>2. change'[b] = NoChange /\ \A a \in Admins \ {b} : change'[a] = change[a]
    BY <1>1, <2>1
  <2> QED
    BY <2>1, <2>2
<1>11. ASSUME NEW b \in Admins, NEW p \in Products, NEW product \in Products, NEW quantity \in Nat,
              UpdateOrderLine(b, p, product, quantity)
       PROVE  T /\ \A a \in Admins : A(a)
  <2>1. /\ change' = [change EXCEPT ![b] = [change[b] EXCEPT !.step = "changed"]]
        /\ treasurer' = treasurer /\ row' = row
    BY <1>1, <1>11 DEF UpdateOrderLine
  <2>2. /\ change'[b] = [change[b] EXCEPT !.step = "changed"]
        /\ \A a \in Admins \ {b} : change'[a] = change[a]
    BY <1>1, <2>1
  <2> QED
    BY <2>1, <2>2
<1>12. CASE Crash
  BY <1>12, NothingIs DEF Crash
<1> HIDE DEF T, A
<1>13. T /\ \A a \in Admins : A(a)
  <2>1. Quiet \/ Registers \/ TreasurerReads \/ TreasurerEnds => T /\ \A a \in Admins : A(a)
    BY <1>2, <1>3, <1>4, <1>5 DEF T, A
  <2>2. ASSUME NEW c \in Calls, CallCommits(c)
        PROVE  T /\ \A a \in Admins : A(a)
    BY <1>8, <2>2 DEF T, A
  <2>3. Crash => T /\ \A a \in Admins : A(a)
    BY <1>12 DEF T, A
  <2> QED
    BY <1>6, <1>7, <1>9, <1>10, <1>11, <2>1, <2>2, <2>3, StepKinds, Zenon
<1> QED
  BY <1>13 DEF T, A
-----------------------------------------------------------------------------
\* The conjuncts of the invariant, one by one.

LEMMA RecordsStayStep ==
  ASSUME TypeOK, RecordsStay, RecordForEach, [Next]_vars
  PROVE  RecordsStay'
<1>1. \A i \in Records : /\ row[i].amount # 0 => row'[i].amount # 0
                         /\ row'[i].amount = 0 => row'[i] = NoRow
  BY ExistingStays
<1>2. \A i \in Living(row) : row[i].amount # 0
  BY NoRowIs DEF RecordsStay, Living
<1>3. \A i \in Living(treasurer'.rows) : row'[i].amount # 0
  <2>1. CASE treasurer'.rows = treasurer.rows
    BY <1>1, <2>1, LivingIsFinite DEF RecordsStay
  <2>2. CASE treasurer'.rows = row
    BY <1>1, <1>2, <2>2, LivingIsFinite
  <2>3. CASE treasurer'.rows = [i \in Records |-> NoRow]
    BY <2>3, NothingIs
  <2> QED
    BY <2>1, <2>2, <2>3, RequestsAre
<1>4. ASSUME NEW a \in Admins
      PROVE  \A i \in Living(change'[a].rows) : row'[i].amount # 0
  <2>1. CASE change'[a].rows = change[a].rows
    BY <1>1, <2>1, LivingIsFinite DEF RecordsStay
  <2>2. CASE change'[a].rows = row
    BY <1>1, <1>2, <2>2, LivingIsFinite
  <2>3. CASE change'[a].rows = [i \in Records |-> NoRow]
    BY <2>3, NothingIs
  <2>4. change'[a] = [change[a] EXCEPT !.step = "changed"] => change'[a].rows = change[a].rows
    BY ChangeIs DEF Change
  <2> QED
    BY <2>1, <2>2, <2>3, <2>4, RequestsAre, NothingIs
<1>5. Living(treasurer.rows)' = Living(treasurer'.rows)
      /\ \A a \in Admins : Living(change[a].rows)' = Living(change'[a].rows)
  BY DEF Living
<1> QED
  BY <1>1, <1>3, <1>4, <1>5 DEF RecordsStay

LEMMA ReadIsSoundStep ==
  ASSUME TypeOK, RecordsStay, ReadIsSound, [Next]_vars
  PROVE  ReadIsSound'
<1>1. ASSUME NEW a \in Admins, NEW i \in Records
      PROVE  Sound(change'[a].rows[i])
  <2>1. Sound(change[a].rows[i]) /\ Sound(row[i]) /\ Sound(NoRow)
    BY NoRowIs DEF ReadIsSound, TypeOK
  <2>2. change'[a] = [change[a] EXCEPT !.step = "changed"] => change'[a].rows = change[a].rows
    BY ChangeIs DEF Change
  <2>3. \/ change'[a].rows = change[a].rows \/ change'[a].rows = row
        \/ change'[a].rows = [k \in Records |-> NoRow]
    BY <2>2, RequestsAre, NothingIs
  <2> QED
    BY <2>1, <2>3
<1> QED
  BY <1>1 DEF ReadIsSound, Sound

\* A row that has its date keeps it and what is booked, unless the treasurer commits.
LEMMA DatedStays ==
  ASSUME TypeOK, RecordsStay, RecordForEach, NotStarted, [Next]_vars, NEW i \in Records,
         row[i].dated, ~TreasurerEnds
  PROVE  row'[i].dated /\ row'[i].paid = row[i].paid
<1>1. row[i] # NoRow
  BY NoRowIs
<1>2. ~Registers
  BY <1>1 DEF NotStarted, Registers
<1>3. ~Saves /\ ~Refunds
  BY DEF Saves, TreasurerSaves, Refunds
<1>4. ASSUME NEW c \in Calls, CallCommits(c)
      PROVE  row'[i].dated /\ row'[i].paid = row[i].paid
  BY <1>4, CallKeeps
<1>5. ASSUME NEW a \in Admins, ChangeCommits(a)
      PROVE  row'[i].dated /\ row'[i].paid = row[i].paid
  BY <1>1, <1>5, CommitKeepsBooking
<1>6. CASE RowsStay
  BY <1>6 DEF RowsStay
<1> QED
  BY <1>2, <1>3, <1>4, <1>5, <1>6, RowKinds

LEMMA DatesKeptStep ==
  ASSUME TypeOK, RecordsStay, RecordForEach, NotStarted, DatesKept, [Next]_vars
  PROVE  DatesKept'
<1>1. CASE ~treasurer'.busy
  BY <1>1 DEF DatesKept
<1>2. CASE treasurer'.busy
  <2>1. ~TreasurerEnds
    BY <1>2, NothingIs DEF TreasurerEnds
  <2>2. CASE row' = row /\ treasurer'.rows = row
    BY <2>2 DEF DatesKept
  <2>3. CASE treasurer'.busy = treasurer.busy /\ treasurer'.rows = treasurer.rows
    <3>1. ASSUME NEW i \in Records, treasurer.rows[i].dated
          PROVE  row'[i].dated /\ row'[i].paid = treasurer.rows[i].paid
      <4>1. row[i].dated /\ row[i].paid = treasurer.rows[i].paid
        BY <1>2, <2>3, <3>1 DEF DatesKept
      <4> QED
        BY <2>1, <4>1, DatedStays
    <3> QED
      BY <2>3, <3>1 DEF DatesKept
  <2> QED
    BY <1>2, <2>2, <2>3, RequestsAre
<1> QED
  BY <1>1, <1>2

LEMMA BookedIsDatedStep ==
  ASSUME TypeOK, RecordsStay, RecordForEach, DatesKept, BookedIsDated, [Next]_vars
  PROVE  BookedIsDated'
<1> SUFFICES ASSUME NEW i \in Records, row'[i].paid \notin {None, 0}
             PROVE  row'[i].dated
  BY DEF BookedIsDated
<1>1. row[i].paid \notin {None, 0} => row[i].dated
  BY DEF BookedIsDated
<1>2. CASE RowsStay
  BY <1>1, <1>2 DEF RowsStay
<1>3. CASE Registers
  <2>1. PICK amount \in Nat \ {0}, online \in BOOLEAN : row'[1] = NewRow(amount, online)
    BY <1>3, RegistersIs
  <2>2. row'[1].paid = None
    BY <2>1, NewRowIs
  <2>3. i # 1 => row'[i] = row[i]
    BY <1>3, RegistersIs
  <2> QED
    BY <1>1, <2>2, <2>3
<1>4. CASE Refunds
  <2>1. PICK k \in Unused, amount \in Nat \ {0} :
          row'[k] = NewRow(-amount, FALSE) /\ \A l \in Records \ {k} : row'[l] = row[l]
    BY <1>4, RefundsIs
  <2>2. row'[k].paid = None
    <3>1. -amount \in Int /\ FALSE \in BOOLEAN
      OBVIOUS
    <3> QED
      BY <2>1, <3>1, NewRowIs
  <2>3. i # k => row'[i] = row[i]
    BY <2>1
  <2> QED
    BY <1>1, <2>2, <2>3
<1>5. ASSUME NEW c \in Calls, CallCommits(c)
      PROVE  row'[i].dated
  BY <1>1, <1>5, CallKeeps
<1>6. ASSUME NEW a \in Admins, ChangeCommits(a)
      PROVE  row'[i].dated
  BY <1>1, <1>6, CommitKeepsBooking
<1>7. CASE Saves
  <2>1. PICK k \in Records, new \in Row : /\ Allowed(treasurer.rows[k], new)
                                          /\ TreasurerSaves(k, new)
    BY <1>7 DEF Saves
  <2> DEFINE read == treasurer.rows[k]
  <2>2. /\ row'[k].paid = IF new.paid = read.paid THEN row[k].paid ELSE new.paid
        /\ row'[k].dated = IF new.dated = read.dated THEN row[k].dated ELSE new.dated
        /\ \A l \in Records \ {k} : row'[l] = row[l]
        /\ new.dated \in BOOLEAN /\ read.dated \in BOOLEAN
    BY <2>1, SavedIs
  <2>3. new.dated \/ new.paid \in {None, 0} \/ (~read.dated /\ new.paid = read.paid)
    BY <2>1 DEF Allowed
  <2>4. read.dated => row[k].dated /\ row[k].paid = read.paid
    BY <1>7 DEF Saves, DatesKept
  <2> HIDE DEF read
  <2>5. CASE i # k
    BY <1>1, <2>2, <2>5
  <2>6. CASE i = k /\ new.dated
    BY <2>2, <2>4, <2>6
  <2>7. CASE i = k /\ ~new.dated
    BY <1>1, <2>2, <2>3, <2>4, <2>7
  <2> QED
    BY <2>5, <2>6, <2>7
<1> QED
  BY <1>2, <1>3, <1>4, <1>5, <1>6, <1>7, RowKinds
LEMMA NotStartedStep ==
  ASSUME TypeOK, TypeOK', RecordsStay, NotStarted, [Next]_vars
  PROVE  NotStarted'
<1> SUFFICES ASSUME visitor' \in {"idle", "starting", "refused"}
             PROVE  /\ row' = [i \in Records |-> NoRow]
                    /\ \A a \in Admins : change'[a].step = "idle"
                    /\ ~treasurer'.busy
  BY DEF NotStarted, Busy
<1> DEFINE Nothing == /\ visitor \in {"idle", "starting", "refused"}
                      /\ row = [i \in Records |-> NoRow]
                      /\ \A a \in Admins : change[a].step = "idle"
                      /\ ~treasurer.busy
<1>1. visitor \in {"idle", "starting", "refused"} => Nothing
  BY DEF NotStarted, Busy
<1>2. CASE Quiet
  BY <1>1, <1>2 DEF Quiet
<1>3. ~Registers
  BY RegistersIs
<1>4. ~TreasurerReads
  <2>1. SUFFICES ASSUME TreasurerReads PROVE FALSE
    OBVIOUS
  <2>2. Living(row) # {} /\ visitor' = visitor
    BY <2>1 DEF TreasurerReads
  <2> QED
    BY <1>1, <2>2, NothingIs
<1>5. ~Saves /\ ~Refunds
  BY <1>1 DEF Saves, Refunds, TreasurerSaves, TreasurerEnds
<1>6. CASE UNCHANGED row /\ TreasurerEnds
  BY <1>1, <1>6, NothingIs DEF TreasurerEnds
<1>7. ASSUME NEW c \in Calls, CallCommits(c)
      PROVE  /\ row' = [i \in Records |-> NoRow]
             /\ \A a \in Admins : change'[a].step = "idle"
             /\ ~treasurer'.busy
  <2>1. Nothing /\ change' = change /\ treasurer' = treasurer
    BY <1>1, <1>7 DEF CallCommits, CallEnds
  <2>2. \A i \in Records : row'[i] = NoRow
    BY <1>7, <2>1, CallKeeps
  <2>3. row' = [i \in Records |-> row'[i]]
    BY DEF TypeOK, Rows
  <2> QED
    BY <2>1, <2>2, <2>3
<1>8. ASSUME NEW a \in Admins,
             \/ Reads(a) \/ ChangeCommits(a) \/ ChangeRollsBack(a)
             \/ \E p \in Products, product \in Products, quantity \in Nat :
                  UpdateOrderLine(a, p, product, quantity)
      PROVE  FALSE
  <2>1. CASE Reads(a)
    <3>1. visitor' = visitor
      BY <2>1 DEF Reads, Reconciles
    <3> QED
      BY <1>1, <2>1, <3>1 DEF Reads
  <2>2. CASE ChangeCommits(a)
    <3>1. visitor' = "gone" \/ visitor' = visitor
      BY <2>2 DEF ChangeCommits
    <3> QED
      BY <1>1, <2>2, <3>1 DEF ChangeCommits
  <2>3. CASE ChangeRollsBack(a)
    BY <1>1, <2>3 DEF ChangeRollsBack
  <2>4. ASSUME NEW p \in Products, NEW product \in Products, NEW quantity \in Nat,
               UpdateOrderLine(a, p, product, quantity)
        PROVE  FALSE
    BY <2>4 DEF UpdateOrderLine, MayChange
  <2> QED
    BY <1>8, <2>1, <2>2, <2>3, <2>4
<1>9. CASE Crash
  <2>1. visitor \in {"idle", "starting", "refused"} /\ row' = row
    BY <1>9 DEF Crash
  <2> QED
    BY <1>1, <1>9, <2>1, NothingIs DEF Crash
<1> QED
  BY <1>2, <1>3, <1>4, <1>5, <1>6, <1>7, <1>8, <1>9, StepKinds

\* The lines that a request changed.
Mine(ch) == Changed(ch.was, ch.to)

LEMMA LinesAreLockedStep ==
  ASSUME TypeOK, RecordsStay, NotStarted, LinesAreLocked, [Next]_vars
  PROVE  LinesAreLocked'
<1> DEFINE Locked(ch, l) ==
             \A a \in Admins :
               /\ ch[a].step # "reconciling" => Mine(ch[a]) = {}
               /\ \A p \in Mine(ch[a]) : l[p] >= ch[a].was[p]
               /\ \A b \in Admins \ {a} : Mine(ch[a]) \cap Mine(ch[b]) = {}
<1>1. Locked(change, line)
  BY DEF LinesAreLocked, Mine
<1>2. SUFFICES Locked(change', line')
  BY DEF LinesAreLocked, Mine, Changed
<1>3. change \in [Admins -> Change] /\ line \in [Products -> Nat]
  BY DEF TypeOK
<1>4. Mine(NoChange) = {} /\ NoChange.step = "idle"
  BY NothingIs DEF Mine
<1>5. \A a \in Admins : Mine(change[a]) \in SUBSET Products
  BY DEF Mine, Changed
<1>6. CASE change' = change /\ line' = line
  BY <1>1, <1>6
<1>7. CASE Registers
  <2>1. change' = change /\ Busy = {}
    BY <1>7, RegistersIs DEF NotStarted
  <2>2. \A a \in Admins : Mine(change[a]) = {}
    BY <1>1, <2>1 DEF Busy
  <2> QED
    BY <1>1, <2>1, <2>2
<1>8. ASSUME NEW a \in Admins, Reads(a)
      PROVE  Locked(change', line')
  <2>1. PICK to \in [Products -> Nat], removes \in BOOLEAN : Reconciles(a, to, removes)
    BY <1>8 DEF Reads
  <2>2. /\ change'[a].step = "reconciling" /\ change'[a].was = line /\ change'[a].to = to
        /\ line' = line /\ \A b \in Admins \ {a} : change'[b] = change[b]
    BY <1>3, <2>1 DEF Reconciles
  <2>3. ASSUME NEW b \in Admins
        PROVE  Mine(change'[a]) \cap Mine(change[b]) = {}
    <3>1. CASE b \in Busy
      <4>1. Changed(line, to) \cap Held = {}
        BY <2>1 DEF Reconciles
      <4>2. Mine(change[b]) \subseteq Held
        BY <3>1 DEF Mine, Held
      <4> QED
        BY <2>2, <4>1, <4>2 DEF Mine
    <3>2. CASE b \notin Busy
      BY <1>1, <3>2 DEF Busy
    <3> QED
      BY <3>1, <3>2
  <2>4. \A p \in Mine(change'[a]) : line'[p] >= change'[a].was[p]
    <3>1. Mine(change'[a]) \in SUBSET Products
      BY DEF Mine, Changed
    <3> QED
      BY <1>3, <2>2, <3>1
  <2>5. ASSUME NEW b \in Admins, NEW c \in Admins \ {b}
        PROVE  Mine(change'[b]) \cap Mine(change'[c]) = {}
    <3>1. CASE b = a
      BY <2>2, <2>3, <3>1
    <3>2. CASE c = a
      BY <2>2, <2>3, <3>2
    <3>3. CASE b # a /\ c # a
      BY <1>1, <2>2, <3>3
    <3> QED
      BY <3>1, <3>2, <3>3
  <2>6. ASSUME NEW b \in Admins
        PROVE  /\ change'[b].step # "reconciling" => Mine(change'[b]) = {}
               /\ \A p \in Mine(change'[b]) : line'[p] >= change'[b].was[p]
    <3>1. CASE b = a
      BY <2>2, <2>4, <3>1
    <3>2. CASE b # a
      BY <1>1, <2>2, <3>2
    <3> QED
      BY <3>1, <3>2
  <2> QED
    BY <2>5, <2>6
\* A request that ends gives its lines free; the lines of the others did not fall.
<1>9. ASSUME NEW a \in Admins, Mine(change'[a]) = {}, \A b \in Admins \ {a} : change'[b] = change[b],
             \A b \in Admins \ {a} : \A p \in Mine(change[b]) : line'[p] >= line[p],
             line' \in [Products -> Int]
      PROVE  Locked(change', line')
  <2>1. ASSUME NEW b \in Admins
        PROVE  /\ change'[b].step # "reconciling" => Mine(change'[b]) = {}
               /\ \A p \in Mine(change'[b]) : line'[p] >= change'[b].was[p]
    <3>1. CASE b = a
      BY <1>9, <3>1
    <3>2. CASE b # a
      <4>1. ASSUME NEW p \in Mine(change[b])
            PROVE  line'[p] >= change[b].was[p]
        <5>1. p \in Products /\ change[b].was[p] \in Nat /\ line[p] \in Nat /\ line'[p] \in Int
          BY <1>3, <1>5, <1>9, ChangeIs
        <5>2. line'[p] >= line[p] /\ line[p] >= change[b].was[p]
          BY <1>1, <1>9, <3>2
        <5> QED
          BY <5>1, <5>2
      <4> QED
        BY <1>1, <1>9, <3>2, <4>1
    <3> QED
      BY <3>1, <3>2
  <2>2. ASSUME NEW b \in Admins, NEW c \in Admins \ {b}
        PROVE  Mine(change'[b]) \cap Mine(change'[c]) = {}
    BY <1>1, <1>9
  <2> QED
    BY <2>1, <2>2
<1>10. ASSUME NEW a \in Admins, ChangeCommits(a)
       PROVE  Locked(change', line')
  <2> DEFINE was == change[a].was
             to == change[a].to
  <2>1. was \in [Products -> Nat] /\ to \in [Products -> Nat]
    BY ChangeIs
  <2>2. /\ change'[a] = NoChange /\ \A b \in Admins \ {a} : change'[b] = change[b]
        /\ line' = NewOrder(was, to)
    BY <1>3, <1>10 DEF ChangeCommits
  <2>3. Mine(change[a]) = Changed(was, to)
    BY DEF Mine
  <2> HIDE DEF was, to
  <2>4. ASSUME NEW b \in Admins \ {a}, NEW p \in Mine(change[b])
        PROVE  line'[p] >= line[p]
    <3>1. p \in Products /\ p \notin Changed(was, to)
      BY <1>1, <1>5, <2>3
    <3>2. line'[p] = line[p] - was[p] + to[p]
      BY <2>2, <3>1 DEF NewOrder
    <3>3. was[p] \in Nat /\ to[p] \in Nat /\ line[p] \in Nat
      BY <1>3, <2>1, <3>1
    <3> QED
      BY <3>1, <3>2, <3>3 DEF Changed
  <2>5. line' \in [Products -> Int]
    <3>1. \A p \in Products : line[p] - was[p] + to[p] \in Int
      BY <1>3, <2>1
    <3> QED
      BY <2>2, <3>1 DEF NewOrder
  <2> QED
    BY <1>4, <1>9, <2>2, <2>4, <2>5
<1>11. ASSUME NEW a \in Admins, ChangeRollsBack(a)
       PROVE  Locked(change', line')
  <2>1. /\ change'[a] = NoChange /\ \A b \in Admins \ {a} : change'[b] = change[b]
        /\ line' = line
    BY <1>3, <1>11 DEF ChangeRollsBack
  <2>2. \A b \in Admins \ {a} : \A p \in Mine(change[b]) : line'[p] >= line[p]
    BY <1>3, <1>5, <2>1
  <2>3. line' \in [Products -> Int]
    BY <1>3, <2>1
  <2> QED
    BY <1>4, <1>9, <2>1, <2>2, <2>3
<1>12. ASSUME NEW a \in Admins, NEW p \in Products, NEW product \in Products, NEW quantity \in Nat,
              UpdateOrderLine(a, p, product, quantity)
       PROVE  Locked(change', line')
  <2>1. change[a].step = "idle" /\ p \notin Held
    BY <1>12 DEF UpdateOrderLine, MayChange
  <2>2. change' = [change EXCEPT ![a] = [change[a] EXCEPT !.step = "changed"]]
    BY <1>3, <1>12 DEF UpdateOrderLine
  <2>3. \A b \in Admins \ {a} : change'[b] = change[b]
    BY <1>3, <2>2
  <2>4. Mine(change'[a]) = {}
    <3>1. change'[a].was = change[a].was /\ change'[a].to = change[a].to
      BY <1>3, <2>2 DEF Change
    <3> QED
      BY <1>1, <2>1, <3>1 DEF Mine
  <2>5. ASSUME NEW q \in Products
        PROVE  line'[q] \in Int /\ (q # p => line'[q] >= line[q])
    <3>1. line'[q] = (IF q = p THEN 0 ELSE line[q]) + (IF q = product THEN quantity ELSE 0)
      BY <1>12 DEF UpdateOrderLine
    <3>2. line[q] \in Nat
      BY <1>3
    <3> QED
      BY <3>1, <3>2
  <2>6. ASSUME NEW b \in Admins \ {a}, NEW q \in Mine(change[b])
        PROVE  line'[q] >= line[q]
    <3>1. b \in Busy
      BY <1>1 DEF Busy
    <3>2. q \in Held
      BY <3>1 DEF Held, Mine
    <3> QED
      BY <1>5, <2>1, <2>5, <3>2
  <2>7. line' \in [Products -> Int]
    <3>1. line' = [q \in Products |-> line'[q]]
      BY <1>12 DEF UpdateOrderLine
    <3> QED
      BY <2>5, <3>1
  <2> QED
    BY <1>9, <2>3, <2>4, <2>6, <2>7
<1>13. CASE Crash
  <2>1. \A a \in Admins : change'[a] = NoChange
    BY <1>13 DEF Crash
  <2> QED
    BY <1>4, <2>1
<1>14. Quiet \/ TreasurerReads \/ TreasurerEnds => change' = change /\ line' = line
  BY DEF Quiet, TreasurerReads, TreasurerEnds
<1>15. Saves \/ Refunds => TreasurerEnds
  BY DEF Saves, TreasurerSaves, Refunds
<1>16. ASSUME NEW c \in Calls, CallCommits(c)
       PROVE  change' = change /\ line' = line
  BY <1>16 DEF CallCommits, CallEnds
<1> HIDE DEF Locked
<1> QED
  BY <1>6, <1>7, <1>8, <1>10, <1>11, <1>12, <1>13, <1>14, <1>15, <1>16, StepKinds, Zenon
\* A step takes at most one unused record.
LEMMA UnusedStays ==
  ASSUME TypeOK, RecordsStay, RecordForEach, [Next]_vars
  PROVE  /\ Registers \/ Refunds \/ (\E a \in Admins : ChangeCommits(a))
              \/ \A i \in Unused : row'[i] = NoRow
         /\ \E k \in Records : \A i \in Unused \ {k} : row'[i] = NoRow
<1>1. \A i \in Unused : i \in Records /\ row[i] = NoRow
  BY DEF Unused
<1>2. CASE RowsStay
  BY <1>1, <1>2, RecordsAre DEF RowsStay
<1>3. CASE Registers
  <2>1. \A i \in Unused \ {1} : row'[i] = NoRow
    BY <1>1, <1>3, RegistersIs
  <2> QED
    BY <1>3, <2>1, RecordsAre
<1>4. CASE Refunds
  <2>1. PICK k \in Unused, amount \in Nat \ {0} : \A i \in Records \ {k} : row'[i] = row[i]
    BY <1>4, RefundsIs
  <2> QED
    BY <1>1, <1>4, <2>1
<1>5. CASE Saves
  <2>1. PICK k \in Records, new \in Row : /\ row[k].amount # 0 /\ Allowed(treasurer.rows[k], new)
                                          /\ TreasurerSaves(k, new)
    BY <1>5 DEF Saves
  <2>2. \A i \in Records \ {k} : row'[i] = row[i]
    BY <2>1, SavedIs
  <2>3. k \notin Unused
    BY <1>1, <2>1, NoRowIs
  <2>4. \A i \in Unused : row'[i] = NoRow
    BY <1>1, <2>2, <2>3
  <2> QED
    BY <2>4, RecordsAre
<1>6. ASSUME NEW c \in Calls, CallCommits(c)
      PROVE  \A i \in Unused : row'[i] = NoRow
  BY <1>1, <1>6, CallKeeps
<1>7. ASSUME NEW a \in Admins, ChangeCommits(a)
      PROVE  \E k \in Records : \A i \in Unused \ {k} : row'[i] = NoRow
  <2> DEFINE rows == change[a].rows
             closed == ClosedRows(rows)
  <2>1. rows \in Rows
    BY ChangeIs
  <2>2. ASSUME NEW i \in Unused
        PROVE  closed[i] = NoRow
    <3>1. i \notin Living(rows)
      BY <1>1, NoRowIs DEF RecordsStay
    <3> HIDE DEF rows
    <3> QED
      BY <1>1, <2>1, <3>1, ClosedRowsAre
  <2>3. \/ \E k \in Unused : \A i \in Records \ {k} : row'[i] = closed[i]
        \/ \A i \in Records : row'[i] = closed[i]
    BY <1>7, CommittedIs
  <2> HIDE DEF closed, rows
  <2> QED
    BY <1>1, <2>2, <2>3, RecordsAre
<1>8. (\E a \in Admins : ChangeCommits(a)) => \E k \in Records : \A i \in Unused \ {k} : row'[i] = NoRow
  BY <1>7
<1>9. (\E c \in Calls : CallCommits(c)) => \A i \in Unused : row'[i] = NoRow
  BY <1>6
<1>10. (\A i \in Unused : row'[i] = NoRow) => \E k \in Records : \A i \in Unused \ {k} : row'[i] = NoRow
  BY RecordsAre
<1> QED
  BY <1>2, <1>3, <1>4, <1>5, <1>8, <1>9, <1>10, RowKinds

LEMMA RecordForEachStep ==
  ASSUME TypeOK, TypeOK', RecordsStay, NotStarted, RecordForEach, [Next]_vars
  PROVE  RecordForEach'
<1> DEFINE unused == { i \in Records : row'[i] = NoRow }
           busy == { a \in Admins : change'[a].step # "idle" }
           asks == IF treasurer.busy THEN 1 ELSE 0
           left == IF treasurer'.busy THEN 1 ELSE 0
<1>1. SUFFICES IsFiniteSet(busy) /\ Cardinality(unused) >= Cardinality(busy) + left
  BY DEF RecordForEach, Unused, Busy
<1>2. /\ treasurer.busy \in BOOLEAN /\ treasurer'.busy \in BOOLEAN
      /\ asks \in {0, 1} /\ left \in {0, 1}
  BY DEF TypeOK, Request
<1>3. IsFiniteSet(unused) /\ Cardinality(unused) \in Nat
  BY RecordsAre, FS_Subset, FS_CardinalityType
<1>4. /\ IsFiniteSet(Busy) /\ Cardinality(Busy) \in Nat /\ Cardinality(Unused) \in Nat
      /\ Cardinality(Unused) >= Cardinality(Busy) + asks
  BY UnusedIs, FS_CardinalityType DEF RecordForEach
<1>5. (\A i \in Unused : row'[i] = NoRow) => Cardinality(unused) >= Cardinality(Unused)
  <2>1. SUFFICES ASSUME \A i \in Unused : row'[i] = NoRow
                 PROVE  Cardinality(unused) >= Cardinality(Unused)
    OBVIOUS
  <2>2. Unused \in SUBSET unused
    BY <2>1, UnusedIs
  <2> HIDE DEF unused
  <2> QED
    BY <1>3, <1>4, <2>2, FS_Subset
<1>6. Cardinality(unused) >= Cardinality(Unused) - 1
  <2>1. PICK k \in Records : \A i \in Unused \ {k} : row'[i] = NoRow
    BY UnusedStays
  <2>2. Unused \ {k} \in SUBSET unused
    BY <2>1, UnusedIs
  <2>3. /\ IsFiniteSet(Unused \ {k}) /\ Cardinality(Unused \ {k}) \in Nat
        /\ Cardinality(Unused \ {k}) >= Cardinality(Unused) - 1
    <3>1. /\ IsFiniteSet(Unused \ {k})
          /\ Cardinality(Unused \ {k}) = IF k \in Unused THEN Cardinality(Unused) - 1
                                         ELSE Cardinality(Unused)
      BY UnusedIs, FS_RemoveElement
    <3>2. Cardinality(Unused \ {k}) \in Nat
      BY <3>1, FS_CardinalityType
    <3> QED
      BY <1>4, <3>1, <3>2
  <2> HIDE DEF unused
  <2>4. Cardinality(unused) >= Cardinality(Unused \ {k})
    BY <1>3, <2>2, FS_Subset
  <2> QED
    BY <1>3, <1>4, <2>3, <2>4
<1>7. \/ Registers \/ Refunds \/ (\E a \in Admins : ChangeCommits(a))
      \/ Cardinality(unused) >= Cardinality(Unused)
  <2> HIDE DEF unused
  <2> QED
    BY <1>5, UnusedStays
<1>8. change \in [Admins -> Change]
  BY DEF TypeOK
<1> HIDE DEF unused, asks, left
\* A request that begins, and one that ends.
<1>9. ASSUME NEW a \in Admins, \A b \in Admins \ {a} : change'[b] = change[b]
      PROVE  /\ IsFiniteSet(busy) /\ Cardinality(busy) \in Nat
             /\ Cardinality(busy) <= Cardinality(Busy) + 1
             /\ a \in Busy => Cardinality(busy) <= Cardinality(Busy)
             /\ a \in Busy /\ change'[a].step = "idle" => Cardinality(busy) = Cardinality(Busy) - 1
  <2>1. busy \in SUBSET (Busy \cup {a})
    BY <1>9 DEF Busy
  <2>2. /\ IsFiniteSet(Busy \cup {a})
        /\ Cardinality(Busy \cup {a}) = IF a \in Busy THEN Cardinality(Busy) ELSE Cardinality(Busy) + 1
    BY <1>4, FS_AddElement
  <2>3. a \in Busy /\ change'[a].step = "idle" => busy = Busy \ {a}
    BY <1>9 DEF Busy
  <2>4. a \in Busy => Cardinality(Busy \ {a}) = Cardinality(Busy) - 1
    BY <1>4, FS_RemoveElement
  <2> HIDE DEF busy
  <2>5. IsFiniteSet(busy) /\ Cardinality(busy) <= Cardinality(Busy \cup {a}) /\ Cardinality(busy) \in Nat
    BY <2>1, <2>2, FS_Subset, FS_CardinalityType
  <2>6. CASE a \in Busy
    <3>1. change'[a].step = "idle" => Cardinality(busy) = Cardinality(Busy) - 1
      BY <2>3, <2>4, <2>6, Zenon
    <3>2. Cardinality(busy) <= Cardinality(Busy)
      BY <2>2, <2>5, <2>6
    <3> QED
      BY <1>4, <2>5, <3>1, <3>2
  <2>7. CASE a \notin Busy
    BY <1>4, <2>2, <2>5, <2>7
  <2> QED
    BY <2>6, <2>7
<1>10. change' = change => busy = Busy
  BY DEF Busy
<1> HIDE DEF busy
<1> DEFINE Goal == IsFiniteSet(busy) /\ Cardinality(unused) >= Cardinality(busy) + left
           Takes == Registers \/ Refunds \/ (\E a \in Admins : ChangeCommits(a))
<1>11. CASE Quiet
  <2>1. busy = Busy /\ left = asks /\ row' = row
    BY <1>10, <1>11 DEF Quiet, asks, left
  <2>2. unused = Unused
    BY <2>1 DEF unused, Unused
  <2> QED
    BY <1>4, <2>1, <2>2
<1>12. CASE Registers
  <2>1. change' = change /\ treasurer' = treasurer /\ visitor \in {"idle", "starting"}
    BY <1>12, RegistersIs
  <2>2. busy = {} /\ left = 0
    BY <1>10, <2>1 DEF NotStarted, left
  <2> QED
    BY <1>3, <2>2, FS_EmptySet
<1>13. CASE TreasurerReads
  <2>1. /\ change' = change /\ row' = row /\ ~treasurer.busy
        /\ Cardinality(Unused) > Cardinality(Busy) + asks
    BY <1>13 DEF TreasurerReads, RecordLeft, asks
  <2>2. unused = Unused /\ busy = Busy
    BY <1>10, <2>1 DEF unused, Unused
  <2> QED
    BY <1>2, <1>4, <2>1, <2>2
<1>14. TreasurerEnds => left = 0 /\ change' = change
  BY NothingIs DEF TreasurerEnds, left
<1>15. CASE Refunds
  <2>1. treasurer.busy /\ TreasurerEnds
    BY <1>15 DEF Refunds
  <2>2. asks = 1 /\ left = 0 /\ busy = Busy
    BY <1>10, <1>14, <2>1 DEF asks
  <2> QED
    BY <1>3, <1>4, <1>6, <2>2
<1>16. CASE (Saves \/ (UNCHANGED row /\ TreasurerEnds)) /\ ~Refunds /\ ~Registers
  <2>1. TreasurerEnds
    BY <1>16 DEF Saves, TreasurerSaves
  <2>2. left = 0 /\ busy = Busy
    BY <1>10, <1>14, <2>1
  <2>3. ~ \E a \in Admins : ChangeCommits(a)
    <3>1. ASSUME NEW a \in Admins, ChangeCommits(a) PROVE FALSE
      <4>1. change'[a] = NoChange /\ change[a].step = "reconciling"
        BY <1>8, <3>1 DEF ChangeCommits
      <4> QED
        BY <1>14, <2>1, <4>1, NothingIs
    <3> QED
      BY <3>1
  <2> QED
    BY <1>2, <1>3, <1>4, <1>7, <1>16, <2>2, <2>3
<1>17. ASSUME NEW c \in Calls, CallCommits(c)
       PROVE  Goal
  <2>1. change' = change /\ treasurer' = treasurer
    BY <1>17 DEF CallCommits, CallEnds
  <2>2. busy = Busy /\ left = asks
    BY <1>10, <2>1 DEF left, asks
  <2>3. \A i \in Unused : row'[i] = NoRow
    BY <1>17, CallKeeps DEF Unused
  <2>4. Cardinality(unused) >= Cardinality(Unused)
    BY <1>5, <2>3, Zenon
  <2> QED
    BY <1>2, <1>3, <1>4, <2>2, <2>4
<1>18. RowsStay => unused = Unused
  BY DEF RowsStay, unused, Unused
<1>19. ASSUME NEW a \in Admins, Reads(a)
       PROVE  Goal
  <2>1. PICK to \in [Products -> Nat], removes \in BOOLEAN : Reconciles(a, to, removes)
    BY <1>19 DEF Reads
  <2>2. treasurer' = treasurer /\ \A b \in Admins \ {a} : change'[b] = change[b]
    BY <1>8, <2>1 DEF Reconciles
  <2>3. left = asks /\ unused = Unused
    BY <1>18, <1>19, <2>2, RowsStayIn DEF left, asks
  <2>4. CASE a \in Busy
    BY <1>2, <1>4, <1>9, <2>2, <2>3, <2>4
  <2>5. CASE a \notin Busy
    <3>1. Cardinality(Unused) > Cardinality(Busy) + asks
      BY <1>19, <2>5 DEF Reads, RecordLeft, Busy, asks
    <3> QED
      BY <1>2, <1>4, <1>9, <2>2, <2>3, <3>1
  <2> QED
    BY <2>4, <2>5
<1>20. ASSUME NEW a \in Admins, ChangeCommits(a) \/ ChangeRollsBack(a)
       PROVE  Goal
  <2>1. /\ change' = [change EXCEPT ![a] = NoChange] /\ treasurer' = treasurer
        /\ change[a].step # "idle"
    BY <1>20 DEF ChangeCommits, ChangeRollsBack
  <2>2. change'[a].step = "idle" /\ \A b \in Admins \ {a} : change'[b] = change[b]
    BY <1>8, <2>1, NothingIs
  <2>3. a \in Busy /\ left = asks
    BY <2>1 DEF Busy, left, asks
  <2>4. IsFiniteSet(busy) /\ Cardinality(busy) = Cardinality(Busy) - 1
    BY <1>9, <2>2, <2>3
  <2> QED
    BY <1>2, <1>3, <1>4, <1>6, <2>3, <2>4
<1>21. ASSUME NEW a \in Admins, NEW p \in Products, NEW product \in Products, NEW quantity \in Nat,
              UpdateOrderLine(a, p, product, quantity)
       PROVE  Goal
  <2>1. /\ change' = [change EXCEPT ![a] = [change[a] EXCEPT !.step = "changed"]]
        /\ treasurer' = treasurer /\ RecordLeft
    BY <1>8, <1>21 DEF UpdateOrderLine, MayChange
  <2>2. \A b \in Admins \ {a} : change'[b] = change[b]
    BY <1>8, <2>1
  <2>3. left = asks /\ unused = Unused /\ Cardinality(Unused) > Cardinality(Busy) + asks
    BY <1>18, <1>21, <2>1, RowsStayIn DEF left, asks, RecordLeft
  <2> QED
    BY <1>2, <1>4, <1>9, <2>2, <2>3
<1>22. CASE Crash
  <2>1. (\A a \in Admins : change'[a] = NoChange) /\ ~treasurer'.busy
    BY <1>22, NothingIs DEF Crash
  <2>2. busy = {} /\ left = 0
    BY <2>1, NothingIs DEF busy, left
  <2> QED
    BY <1>3, <2>2, FS_EmptySet
<1>23. Goal
  BY <1>11, <1>12, <1>13, <1>15, <1>16, <1>17, <1>19, <1>20, <1>21, <1>22, StepKinds
<1> QED
  BY <1>23
-----------------------------------------------------------------------------
\* The invariant.

LEMMA InitIsInv ==
  ASSUME Init
  PROVE  Inv
<1> USE DEF Init
<1>1. TypeOK
  <2>1. row \in Rows /\ \A i \in Records : Sound(row[i])
    BY NoRowIs DEF Rows
  <2>2. "none" \in Answers
    BY DEF Answers
  <2> QED
    BY <2>1, <2>2, NothingIs DEF TypeOK
<1>2. BookedIsDated
  BY NoRowIs DEF BookedIsDated
<1>3. Busy = {}
  BY NothingIs DEF Busy
<1>4. NotStarted
  BY <1>3, NothingIs DEF NotStarted
<1>5. RecordsStay
  BY NothingIs DEF RecordsStay
<1>6. ReadIsSound
  BY NoRowIs, NothingIs DEF ReadIsSound
<1>7. DatesKept
  BY NothingIs DEF DatesKept
<1>8. LinesAreLocked
  BY NothingIs DEF LinesAreLocked
<1>9. RecordForEach
  BY <1>3, UnusedIs, FS_EmptySet, NothingIs DEF RecordForEach
<1> QED
  BY <1>1, <1>2, <1>4, <1>5, <1>6, <1>7, <1>8, <1>9 DEF Inv

\* Inv is an invariant: the types and the CHECKs, dates, locks and records left.
THEOREM Invariant == Spec => []Inv
<1>1. Init => Inv
  BY InitIsInv
<1>2. Inv /\ [Next]_vars => Inv'
  <2> SUFFICES ASSUME Inv, [Next]_vars PROVE Inv'
    OBVIOUS
  <2> USE DEF Inv
  <2>1. TypeOK'
    BY TypesStep
  <2>2. BookedIsDated'
    BY BookedIsDatedStep
  <2>3. NotStarted'
    BY <2>1, NotStartedStep
  <2>4. RecordsStay'
    BY RecordsStayStep
  <2>5. ReadIsSound'
    BY ReadIsSoundStep
  <2>6. DatesKept'
    BY DatesKeptStep
  <2>7. LinesAreLocked'
    BY LinesAreLockedStep
  <2>8. RecordForEach'
    BY <2>1, RecordForEachStep
  <2> QED
    BY <2>1, <2>2, <2>3, <2>4, <2>5, <2>6, <2>7, <2>8
<1> QED
  BY <1>1, <1>2, PTL DEF Spec

\* The types, and the CHECKs of payment_records on every row, whatever the number of
\* products, records and requests.
THEOREM TypeCorrect == Spec => []TypeOK
<1>1. Inv => TypeOK
  BY DEF Inv
<1> QED
  BY <1>1, Invariant, PTL

\* "No paid without a date" (edit_payment_record): no interleaving of the treasurer, the
\* webhook and the changes of the order books an amount without its date.
THEOREM NoPaidWithoutDate == Spec => []BookedIsDated
<1>1. Inv => BookedIsDated
  BY DEF Inv
<1> QED
  BY <1>1, Invariant, PTL

\* handle_gateway_update books at most once: a repeated, late or contradicting call of
\* the webhook neither changes nor takes back what is booked.
THEOREM WebhookBooksOnce == Spec => WebhookKeepsBooking
<1>1. Inv => [\A c \in Calls : CallCommits(c) => \A i \in Records :
                row[i].dated => row'[i].dated /\ row'[i].paid = row[i].paid]_vars
  BY CallKeeps DEF Inv
<1> QED
  BY <1>1, Invariant, PTL DEF WebhookKeepsBooking

-----------------------------------------------------------------------------
\* What the reconciliation leaves: the records on which something came in, closed on
\* what came in, and at most one post for the rest.

LEMMA NothingOwed ==
  ASSUME NEW rows \in Rows, \A i \in Records : Sound(rows[i]), NEW total \in Nat,
         ~Owes(rows, total)
  PROVE  Outstanding(rows, total) = 0
<1> DEFINE f == [i \in Records |-> Booked(rows[i])]
           living == Living(rows)
<1>1. living \in SUBSET Records /\ IsFiniteSet(living)
  BY LivingIsFinite
<1>2. \A i \in living : f[i] \in Int
  BY <1>1, BookedIsInt DEF Rows
<1>3. NetPaid(rows) \in Int /\ NetPaid(rows) = SumFunctionOnSet(f, living)
  BY NetPaidIsInt DEF NetPaid
<1>4. SUFFICES ASSUME Outstanding(rows, total) < 0 PROVE FALSE
  BY <1>3 DEF Owes, Outstanding
<1> HIDE DEF f
<1>5. SumFunctionOnSet(f, living) > 0
  BY <1>3, <1>4 DEF Outstanding
<1> HIDE DEF living
<1>6. PICK i \in living : f[i] > 0
  BY <1>1, <1>2, <1>5, SumIsAbove
<1>7. i \in Records /\ i \in Living(rows) /\ Booked(rows[i]) > 0
  BY <1>1, <1>6 DEF f, living
<1>8. ~rows[i].refund
  <2>1. rows[i] \in Row /\ Sound(rows[i]) /\ ~rows[i].deleted
    BY <1>7 DEF Living, Rows
  <2>2. rows[i].paid # None /\ rows[i].paid > 0 /\ rows[i].paid \in Int /\ rows[i].amount \in Int
    BY <1>7, <2>1 DEF Booked, Row
  <2> QED
    BY <2>1, <2>2 DEF Sound, Between
<1> QED
  BY <1>4, <1>7, <1>8 DEF Owes

LEMMA AfterCommit ==
  ASSUME Inv, NEW a \in Admins, ChangeCommits(a),
         Living(row) = Living(change[a].rows),
         \A i \in Living(row) : row[i].amount = change[a].rows[i].amount
  PROVE  LET rows == change[a].rows
             kept == { i \in Living(rows) : Booked(rows[i]) # 0 }
             owed == Outstanding(rows, Total(change[a].to))
         IN  /\ \A i \in kept : row'[i].amount = Booked(rows[i]) /\ row'[i].paid = row[i].paid
             /\ \/ owed = 0 /\ Living(row') = kept
                \/ \E new \in Records \ kept :
                     /\ row'[new].amount = owed /\ row'[new].paid = None
                     /\ Living(row') = kept \cup {new}
<1> DEFINE rows == change[a].rows
           total == Total(change[a].to)
           closed == ClosedRows(rows)
           kept == { i \in Living(rows) : Booked(rows[i]) # 0 }
           owed == Outstanding(rows, total)
<1>1. rows \in Rows /\ total \in Nat /\ TypeOK /\ RecordForEach
  BY ChangeIs DEF Inv
<1>2. \A i \in Records : Sound(rows[i])
  BY DEF Inv, ReadIsSound
<1>3. /\ Living(row) = Living(rows)
      /\ \A i \in Living(rows) : row[i].amount = rows[i].amount
  OBVIOUS
<1>4. \/ /\ owed \in Int \ {0}
         /\ \E new \in Unused :
              /\ row'[new] = NewRow(owed, FALSE)
              /\ \A i \in Records \ {new} : row'[i] = closed[i]
      \/ ~Owes(rows, total) /\ \A i \in Records : row'[i] = closed[i]
  BY <1>1, CommittedIs
<1> HIDE DEF rows, total
<1>5. Living(rows) \in SUBSET Records
  BY LivingIsFinite
<1>6. ASSUME NEW i \in Records
      PROVE  /\ i \in kept => /\ closed[i].amount = Booked(rows[i])
                              /\ closed[i].paid = row[i].paid
             /\ closed[i].deleted <=> i \notin kept
  <2>1. row[i].deleted <=> i \notin Living(rows)
    BY <1>3 DEF Living
  <2>2. CASE i \in Living(rows)
    <3>1. /\ closed[i].paid = row[i].paid
          /\ closed[i].amount = IF Booked(rows[i]) \in {0, rows[i].amount}
                                THEN row[i].amount ELSE Booked(rows[i])
          /\ closed[i].deleted = IF Booked(rows[i]) = 0 THEN TRUE ELSE row[i].deleted
      BY <1>1, <2>2, ClosedRowsAre
    <3> QED
      BY <1>3, <2>1, <2>2, <3>1
  <2>3. CASE i \notin Living(rows)
    <3>1. closed[i] = row[i]
      BY <1>1, <2>3, ClosedRowsAre
    <3> QED
      BY <2>1, <2>3, <3>1
  <2> QED
    BY <2>2, <2>3
<1> HIDE DEF closed
<1>7. CASE /\ owed \in Int \ {0}
           /\ \E new \in Unused :
                /\ row'[new] = NewRow(owed, FALSE)
                /\ \A i \in Records \ {new} : row'[i] = closed[i]
  <2>1. PICK new \in Unused : /\ row'[new] = NewRow(owed, FALSE)
                              /\ \A i \in Records \ {new} : row'[i] = closed[i]
    BY <1>7
  <2>2. new \in Records /\ new \notin Living(row)
    BY NoRowIs DEF Unused, Living
  <2>3. new \notin kept
    BY <1>3, <2>2
  <2>4. row'[new].amount = owed /\ row'[new].paid = None /\ ~row'[new].deleted
    <3>1. owed \in Int /\ FALSE \in BOOLEAN
      BY <1>7
    <3> HIDE DEF owed
    <3> QED
      BY <2>1, <3>1, NewRowIs
  <2>5. \A i \in Records \ {new} : row'[i].deleted <=> i \notin kept
    BY <1>6, <2>1
  <2>6. Living(row') = kept \cup {new}
    <3>1. kept \subseteq Records
      BY <1>5
    <3> HIDE DEF kept
    <3> QED
      BY <2>2, <2>4, <2>5, <3>1 DEF Living
  <2>7. \A i \in kept : row'[i].amount = Booked(rows[i]) /\ row'[i].paid = row[i].paid
    BY <1>5, <1>6, <2>1, <2>3
  <2> QED
    BY <2>2, <2>3, <2>4, <2>6, <2>7 DEF rows, total
<1>8. CASE ~Owes(rows, total) /\ \A i \in Records : row'[i] = closed[i]
  <2>1. owed = 0
    BY <1>1, <1>2, <1>8, NothingOwed
  <2>2. Living(row') = kept
    <3>1. kept \subseteq Records
      BY <1>5
    <3>2. \A i \in Records : row'[i].deleted <=> i \notin kept
      BY <1>6, <1>8
    <3> HIDE DEF kept
    <3> QED
      BY <3>1, <3>2 DEF Living
  <2>3. \A i \in kept : row'[i].amount = Booked(rows[i]) /\ row'[i].paid = row[i].paid
    BY <1>5, <1>6, <1>8
  <2> QED
    BY <2>1, <2>2, <2>3 DEF rows, total
<1> QED
  BY <1>4, <1>7, <1>8
\* The sum of f over what is kept of the living, and over one more.
LEMMA SumOfKept ==
  ASSUME NEW rows \in Rows, NEW g, NEW kept, kept = { i \in Living(rows) : Booked(rows[i]) # 0 },
         \A i \in kept : g[i] = Booked(rows[i])
  PROVE  /\ SumFunctionOnSet(g, kept) = NetPaid(rows)
         /\ \A new \in Records \ kept : g[new] \in Int =>
              SumFunctionOnSet(g, kept \cup {new}) = g[new] + NetPaid(rows)
<1> DEFINE f == [i \in Records |-> Booked(rows[i])]
           living == Living(rows)
<1>1. living \in SUBSET Records /\ IsFiniteSet(living)
  BY LivingIsFinite
<1>2. kept \in SUBSET living /\ IsFiniteSet(kept)
  BY <1>1, FS_Subset
<1>3. /\ \A i \in living : f[i] \in Int
      /\ \A i \in living \ kept : f[i] = 0
      /\ \A i \in kept : g[i] = f[i]
  BY <1>1, <1>2, BookedIsInt DEF Rows
<1>4. NetPaid(rows) = SumFunctionOnSet(f, living)
  BY DEF NetPaid
<1> HIDE DEF f, living
<1>5. SumFunctionOnSet(f, living) = SumFunctionOnSet(f, kept)
  BY <1>1, <1>2, <1>3, SumLeavesOut
<1>6. SumFunctionOnSet(g, kept) = SumFunctionOnSet(f, kept)
  BY <1>2, <1>3, SumIsSame
<1>7. ASSUME NEW new \in Records \ kept, g[new] \in Int
      PROVE  SumFunctionOnSet(g, kept \cup {new}) = g[new] + SumFunctionOnSet(g, kept)
  <2> DEFINE S == kept \cup {new}
  <2>1. IsFiniteSet(S)
    BY <1>2, FS_AddElement
  <2>2. \A i \in S : g[i] \in Int
    BY <1>2, <1>3, <1>7
  <2>3. new \in S /\ S \ {new} = kept
    BY <1>7
  <2> HIDE DEF S
  <2>4. SumFunctionOnSet(g, S) = g[new] + SumFunctionOnSet(g, S \ {new})
    BY <2>1, <2>2, <2>3, SumTakesOut
  <2> QED
    BY <2>3, <2>4 DEF S
<1> QED
  BY <1>4, <1>5, <1>6, <1>7

\* The invariant of reconcile_charges: after a change of the order that no other change
\* overtook, the records ask for the total of the order, whatever the webhook and the
\* treasurer booked meanwhile.
THEOREM ClaimFollows == Spec => ClaimFollowsOrder
<1>1. ASSUME Inv, NEW a \in Admins, ChangeCommits(a), NotOvertaken(a)
      PROVE  Claimed(row') = Total(line')
  <2> DEFINE rows == change[a].rows
             to == change[a].to
             kept == { i \in Living(rows) : Booked(rows[i]) # 0 }
             owed == Outstanding(rows, Total(to))
             g == [i \in Records |-> row'[i].amount]
  <2>1. rows \in Rows /\ to \in [Products -> Nat] /\ Total(to) \in Nat /\ line \in [Products -> Nat]
    BY <1>1, ChangeIs DEF Inv, TypeOK
  <2>2. line' = to
    <3>1. line' = [p \in Products |-> line[p] - line[p] + to[p]]
      BY <1>1 DEF ChangeCommits, NewOrder, NotOvertaken
    <3> HIDE DEF to
    <3>2. \A p \in Products : line[p] - line[p] + to[p] = to[p]
      BY <2>1
    <3> QED
      BY <2>1, <3>1, <3>2
  <2>3. /\ \A i \in kept : row'[i].amount = Booked(rows[i])
        /\ \/ owed = 0 /\ Living(row') = kept
           \/ \E new \in Records \ kept : row'[new].amount = owed /\ Living(row') = kept \cup {new}
    <3>1. /\ Living(row) = Living(change[a].rows)
          /\ \A i \in Living(row) : row[i].amount = change[a].rows[i].amount
      BY <1>1 DEF NotOvertaken
    <3> QED
      BY <1>1, <3>1, AfterCommit
  <2>4. NetPaid(rows) \in Int /\ owed = Total(to) - NetPaid(rows)
    BY <2>1, NetPaidIsInt DEF Outstanding
  <2>5. \A i \in kept : g[i] = Booked(rows[i])
    BY <2>3, LivingIsFinite
  <2>6. Claimed(row') = SumFunctionOnSet(g, Living(row'))
    BY DEF Claimed
  <2> HIDE DEF g, rows, to, owed
  <2>7. /\ SumFunctionOnSet(g, kept) = NetPaid(rows)
        /\ \A new \in Records \ kept : g[new] \in Int =>
             SumFunctionOnSet(g, kept \cup {new}) = g[new] + NetPaid(rows)
    BY <2>1, <2>5, SumOfKept
  <2> HIDE DEF kept
  <2>8. CASE owed = 0 /\ Living(row') = kept
    BY <2>1, <2>2, <2>4, <2>6, <2>7, <2>8
  <2>9. ASSUME NEW new \in Records \ kept, row'[new].amount = owed, Living(row') = kept \cup {new}
        PROVE  Claimed(row') = Total(line')
    <3>1. g[new] = owed /\ owed \in Int
      BY <2>1, <2>4, <2>9 DEF g
    <3>2. SumFunctionOnSet(g, kept \cup {new}) = owed + NetPaid(rows)
      BY <2>7, <3>1
    <3> QED
      BY <2>1, <2>2, <2>4, <2>6, <2>9, <3>2
  <2> QED
    BY <2>3, <2>8, <2>9
<1>2. Inv => [\A a \in Admins : ChangeCommits(a) /\ NotOvertaken(a)
                => Claimed(row') = Total(line')]_vars
  BY <1>1
<1> QED
  BY <1>2, Invariant, PTL DEF ClaimFollowsOrder

\* "One open post": after a change of the order on records that did not move, at most
\* one record is open, and what came in counts as it did.
THEOREM OnePostIsOpen == Spec => OneOpenPost
<1>1. ASSUME Inv, NEW a \in Admins, ChangeCommits(a), row = change[a].rows
      PROVE  /\ Cardinality({ i \in Living(row') : Booked(row'[i]) # row'[i].amount }) <= 1
             /\ NetPaid(row') = NetPaid(row)
  <2> DEFINE kept == { i \in Living(row) : Booked(row[i]) # 0 }
             g == [i \in Records |-> Booked(row'[i])]
             open == { i \in Living(row') : Booked(row'[i]) # row'[i].amount }
  <2>1. row \in Rows
    BY <1>1 DEF Inv, TypeOK
  <2>2. /\ \A i \in kept : row'[i].amount = Booked(row[i]) /\ row'[i].paid = row[i].paid
        /\ \/ Living(row') = kept
           \/ \E new \in Records \ kept : row'[new].paid = None /\ Living(row') = kept \cup {new}
    BY <1>1, AfterCommit
  <2>3. \A i \in kept : Booked(row'[i]) = Booked(row[i]) /\ i \in Records
    BY <2>2, LivingIsFinite DEF Booked
  <2>4. \A i \in kept : g[i] = Booked(row[i])
    BY <2>3
  <2>5. NetPaid(row') = SumFunctionOnSet(g, Living(row'))
    BY DEF NetPaid
  <2>6. NetPaid(row) \in Int
    BY <2>1, NetPaidIsInt
  <2>7. \A i \in kept : i \notin open
    BY <2>2, <2>3
  <2>8. open \subseteq Living(row')
    OBVIOUS
  <2> HIDE DEF g, open
  <2>9. /\ SumFunctionOnSet(g, kept) = NetPaid(row)
        /\ \A new \in Records \ kept : g[new] \in Int =>
             SumFunctionOnSet(g, kept \cup {new}) = g[new] + NetPaid(row)
    BY <2>1, <2>4, SumOfKept
  <2> HIDE DEF kept
  <2>10. CASE Living(row') = kept
    <3>1. open = {}
      BY <2>7, <2>8, <2>10
    <3> QED
      BY <2>5, <2>9, <2>10, <3>1, FS_EmptySet DEF open
  <2>11. ASSUME NEW new \in Records \ kept, row'[new].paid = None, Living(row') = kept \cup {new}
         PROVE  Cardinality(open) <= 1 /\ NetPaid(row') = NetPaid(row)
    <3>1. open \in SUBSET {new}
      BY <2>7, <2>8, <2>11
    <3>2. Cardinality(open) <= 1
      <4>1. IsFiniteSet({new}) /\ Cardinality({new}) = 1
        BY FS_Singleton
      <4> QED
        BY <3>1, <4>1, FS_Subset
    <3>3. g[new] = 0
      BY <2>11 DEF g, Booked
    <3> QED
      BY <2>5, <2>6, <2>9, <2>11, <3>2, <3>3
  <2> QED
    BY <2>2, <2>10, <2>11 DEF open
<1>2. Inv => [\A a \in Admins : ChangeCommits(a) /\ row = change[a].rows
                => /\ Cardinality({ i \in Living(row') : Booked(row'[i]) # row'[i].amount }) <= 1
                   /\ NetPaid(row') = NetPaid(row)]_vars
  BY <1>1
<1> QED
  BY <1>2, Invariant, PTL DEF OneOpenPost
=============================================================================
