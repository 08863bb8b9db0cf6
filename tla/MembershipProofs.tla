-------------------------- MODULE MembershipProofs --------------------------
(***************************************************************************)
(* Proved of Membership for any number of renewals at once, memberships,   *)
(* payments and days, and any settings: a household has one membership of  *)
(* a year; a renewal sells no day that is paid already, the button that    *)
(* offers it is kept to, and the cover it makes has no gap.                *)
(*                                                                         *)
(* The first proof needs no types: what its invariant adds is only that    *)
(* every row is a record, so that a write of one column leaves the others  *)
(* alone.  The others rest on Inv of Membership: a step writes one row at  *)
(* most, whose year and end never change (RowsStep), and what a renewal    *)
(* reads stays true until it commits (SessionsStep).                       *)
(***************************************************************************)
EXTENDS Membership, FiniteSetTheorems, TLAPS

\* A row has the columns of a membership.
IsRow(r) ==
  r = [year |-> r.year, from |-> r.from, to |-> r.to, active |-> r.active, deleted |-> r.deleted]

RowsAreRows == /\ row = [i \in Rows |-> row[i]]
               /\ \A i \in Rows : IsRow(row[i])

\* The inductive invariant.
RowInv == RowsAreRows /\ OneRowPerYear

\* Writing columns of a row leaves a row, with its other columns.
LEMMA WriteActive ==
  ASSUME NEW q, IsRow(q), NEW a
  PROVE  LET r == [q EXCEPT !.active = a]
         IN IsRow(r) /\ r.year = q.year /\ r.deleted = q.deleted
BY DEF IsRow

LEMMA WriteDeleted ==
  ASSUME NEW q, IsRow(q), NEW d
  PROVE  LET r == [q EXCEPT !.deleted = d]
         IN IsRow(r) /\ r.year = q.year /\ r.deleted = d
<1> DEFINE r == [q EXCEPT !.deleted = d]
<1>1. IsRow(r) /\ r.year = q.year
  BY DEF IsRow
<1>2. "deleted" \in DOMAIN q
  BY DEF IsRow
<1>3. r.deleted = d
  BY <1>2, Zenon
<1> QED BY <1>1, <1>3

\* A step that leaves the rows alone keeps the invariant.
LEMMA RowsStay ==
  ASSUME RowInv, UNCHANGED row
  PROVE  RowInv'
BY DEF RowInv, RowsAreRows, IsRow, OneRowPerYear, Living, Rows

\* A write that changes no year and brings no row back to life keeps it.
LEMMA RowsChange ==
  ASSUME RowInv, NEW t \in Rows, NEW r, IsRow(r),
         r.year = row[t].year, row[t].deleted => r.deleted,
         row' = [row EXCEPT ![t] = r]
  PROVE  RowInv'
<1>1. /\ row' = [i \in Rows |-> row'[i]]
      /\ row'[t] = r
      /\ \A i \in Rows : i # t => row'[i] = row[i]
  BY DEF RowInv, RowsAreRows
<1>2. RowsAreRows'
  <2>1. \A i \in Rows : IsRow(row'[i])
    BY <1>1 DEF RowInv, RowsAreRows
  <2> QED BY <1>1, <2>1 DEF RowsAreRows, IsRow, Rows
<1>3. OneRowPerYear'
  <2>1. \A i \in Rows : ~row'[i].deleted => ~row[i].deleted
    BY <1>1
  <2>2. \A i \in Rows : row'[i].year = row[i].year
    BY <1>1
  <2> QED BY <2>1, <2>2 DEF RowInv, OneRowPerYear, Living, Rows
<1> QED BY <1>2, <1>3 DEF RowInv

\* A membership that is made active or inactive.
LEMMA RowsActivated ==
  ASSUME RowInv, NEW t \in Rows, NEW a, row' = [row EXCEPT ![t].active = a]
  PROVE  RowInv'
<1> DEFINE r == [row[t] EXCEPT !.active = a]
<1>1. row' = [row EXCEPT ![t] = r]
  OBVIOUS
<1>2. IsRow(row[t])
  BY DEF RowInv, RowsAreRows
<1>3. IsRow(r) /\ r.year = row[t].year /\ r.deleted = row[t].deleted
  BY <1>2, WriteActive
<1> HIDE DEF r
<1> QED BY <1>1, <1>3, RowsChange

\* A membership that is given another period.
LEMMA RowsGivenPeriod ==
  ASSUME RowInv, NEW t \in Rows, NEW a, NEW b,
         row' = [row EXCEPT ![t] = [@ EXCEPT !.from = a, !.to = b]]
  PROVE  RowInv'
<1> DEFINE q == [row[t] EXCEPT !.from = a]
           r == [q EXCEPT !.to = b]
<1>1. IsRow(row[t])
  BY DEF RowInv, RowsAreRows
<1>2. row' = [row EXCEPT ![t] = r]
  OBVIOUS
<1>3. IsRow(q) /\ q.year = row[t].year /\ q.deleted = row[t].deleted
  BY <1>1 DEF IsRow
<1> HIDE DEF q
<1>4. IsRow(r) /\ r.year = q.year /\ r.deleted = q.deleted
  BY <1>3 DEF IsRow
<1> HIDE DEF r
<1> QED BY <1>2, <1>3, <1>4, RowsChange

\* An insert keeps it: the unique index knows every row that lives.
LEMMA RowsInserted ==
  ASSUME RowInv, NEW t \in Rows, NEW year, NEW period, NEW active,
         Insert(t, year, period, active)
  PROVE  RowInv'
<1> DEFINE r == NewRow(year, period, active)
<1>1. /\ IsRow(r)
      /\ r.year = year
  BY DEF NewRow, IsRow
<1>2. KeyIsFree(year) /\ row' = [row EXCEPT ![t] = r]
  BY DEF Insert
<1> HIDE DEF r
<1>3. /\ row' = [i \in Rows |-> row'[i]]
      /\ row'[t] = r
      /\ \A i \in Rows : i # t => row'[i] = row[i]
  BY <1>2 DEF RowInv, RowsAreRows
<1>4. RowsAreRows'
  <2>1. \A i \in Rows : IsRow(row'[i])
    BY <1>1, <1>3 DEF RowInv, RowsAreRows
  <2> QED BY <1>3, <2>1 DEF RowsAreRows, IsRow, Rows
<1>5. OneRowPerYear'
  <2>1. \A i \in Rows : i # t /\ ~row'[i].deleted => row'[i].year # year
    BY <1>2, <1>3 DEF KeyIsFree, Living
  <2>2. ASSUME NEW i \in Rows, NEW k \in Rows, i # t, k # t,
               ~row'[i].deleted, ~row'[k].deleted, row'[i].year = row'[k].year
        PROVE  i = k
    <3>1. row'[i] = row[i] /\ row'[k] = row[k]
      BY <1>3, <2>2
    <3>2. i \in Living /\ k \in Living
      BY <2>2, <3>1 DEF Living
    <3> QED BY <2>2, <3>1, <3>2 DEF RowInv, OneRowPerYear
  <2>3. row'[t].year = year
    BY <1>1, <1>3
  <2> QED BY <2>1, <2>2, <2>3 DEF OneRowPerYear, Living, Rows
<1> QED BY <1>4, <1>5 DEF RowInv

-----------------------------------------------------------------------------
LEMMA RowInvInit == Init => RowInv
<1> SUFFICES ASSUME Init PROVE RowInv
  OBVIOUS
<1>1. row = [i \in Rows |-> NoRow]
  BY DEF Init
<1> QED BY <1>1 DEF RowInv, RowsAreRows, IsRow, OneRowPerYear, Living, NoRow

\* A renewal that reuses a row writes its period and no more.
LEMMA RowInvReuses ==
  ASSUME RowInv, NEW s \in Sessions, RenewReuses(s)
  PROVE  RowInv'
<1> DEFINE t == session[s].target
           a == session[s].period.from
           b == session[s].period.to
<1>1. row' = [row EXCEPT ![t] = [@ EXCEPT !.from = a, !.to = b]]
  BY DEF RenewReuses
<1> HIDE DEF t, a, b
<1>2. CASE t \in Rows
  BY <1>1, <1>2, RowsGivenPeriod
<1>3. CASE t \notin Rows
  <2>1. row' = row
    BY <1>1, <1>3 DEF RowInv, RowsAreRows
  <2> QED BY <2>1, RowsStay
<1> QED BY <1>2, <1>3

\* A payment activates a membership and no more.
LEMMA RowInvReceived ==
  ASSUME RowInv, NEW p \in Payments, PaymentReceived(p)
  PROVE  RowInv'
<1> DEFINE t == payment[p].row
<1>1. CASE t \in Living
  <2>1. t \in Rows /\ row' = [row EXCEPT ![t].active = TRUE]
    BY <1>1 DEF PaymentReceived, Activated, Living
  <2> HIDE DEF t
  <2> QED BY <2>1, RowsActivated
<1>2. CASE t \notin Living
  <2>1. row' = row
    BY <1>2 DEF PaymentReceived, Activated
  <2> QED BY <2>1, RowsStay
<1> QED BY <1>1, <1>2

\* The board adds a year, or says of one that is there whether it is active.
LEMMA RowInvAdds ==
  ASSUME RowInv, NEW year, NEW active, AddMembership(year, active)
  PROVE  RowInv'
<1>1. CASE \E i \in Living : row[i].year = year /\ row' = [row EXCEPT ![i].active = active]
  <2>1. PICK t \in Living : row' = [row EXCEPT ![t].active = active]
    BY <1>1
  <2>2. t \in Rows
    BY DEF Living
  <2> QED BY <2>1, <2>2, RowsActivated
<1>2. CASE \E i \in Rows : Insert(i, year, WholeYear(year), active)
  BY <1>2, RowsInserted
<1> QED BY <1>1, <1>2 DEF AddMembership

\* The board removes a year.
LEMMA RowInvDeletes ==
  ASSUME RowInv, NEW t \in Rows, DeleteMembership(t)
  PROVE  RowInv'
<1> DEFINE r == [row[t] EXCEPT !.deleted = TRUE]
<1>1. IsRow(row[t])
  BY DEF RowInv, RowsAreRows
<1>2. row' = [row EXCEPT ![t] = r]
  BY DEF DeleteMembership
<1>3. IsRow(r) /\ r.year = row[t].year /\ r.deleted = TRUE
  BY <1>1, WriteDeleted
<1> HIDE DEF r
<1> QED BY <1>2, <1>3, RowsChange

LEMMA RowInvStep == RowInv /\ [Next]_vars => RowInv'
<1> SUFFICES ASSUME RowInv, [Next]_vars PROVE RowInv'
  OBVIOUS
<1>1. CASE SignUp
  BY <1>1, RowsInserted DEF SignUp
<1>2. CASE BoardCreatesFamily
  BY <1>2, RowsInserted DEF BoardCreatesFamily
<1>3. ASSUME NEW s \in Sessions, Renew(s) PROVE RowInv'
  <2>1. CASE RenewReads(s)
    BY <2>1, RowsStay DEF RenewReads
  <2>2. CASE RenewInserts(s)
    BY <2>2, RowsInserted DEF RenewInserts
  <2>3. CASE RenewReuses(s)
    BY <2>3, RowInvReuses
  <2>4. CASE RenewFails(s)
    BY <2>4, RowsStay DEF RenewFails
  <2> QED BY <1>3, <2>1, <2>2, <2>3, <2>4 DEF Renew
<1>4. ASSUME NEW p \in Payments, Money(p) PROVE RowInv'
  <2>1. CASE PaymentReceived(p)
    BY <2>1, RowInvReceived
  <2>2. CASE PaymentFails(p)
    BY <2>2, RowsStay DEF PaymentFails
  <2>3. CASE VoidPayment(p)
    BY <2>3, RowsStay DEF VoidPayment, Corrects
  <2>4. CASE \E status \in {"PENDING", "FAILED"} : SetPaymentStatus(p, status)
    BY <2>4, RowsStay DEF SetPaymentStatus, Corrects
  <2> QED BY <1>4, <2>1, <2>2, <2>3, <2>4 DEF Money
<1>5. CASE Board
  <2>1. CASE \E year \in Year(today) - 1 .. Year(today) + 1 : AddReportedMembership(year)
    BY <2>1, RowsInserted DEF AddReportedMembership
  <2>2. CASE \E year \in Year(today) - 1 .. Year(today) + 1 :
               \E active \in BOOLEAN : AddMembership(year, active)
    BY <2>2, RowInvAdds
  <2>3. CASE \E i \in Rows : DeleteMembership(i)
    BY <2>3, RowInvDeletes
  <2> QED BY <1>5, <2>1, <2>2, <2>3 DEF Board
<1>6. CASE DayPasses
  BY <1>6, RowsStay DEF DayPasses
<1>7. CASE UNCHANGED vars
  BY <1>7, RowsStay DEF vars
<1> QED BY <1>1, <1>2, <1>3, <1>4, <1>5, <1>6, <1>7 DEF Next

\* However renewals overlap, whatever the board adds, reports and removes in between, a
\* household has one membership of a year (#74, migration 053).
THEOREM OneMembershipPerYear == Spec => []OneRowPerYear
<1>1. RowInv => OneRowPerYear
  BY DEF RowInv
<1> QED BY <1>1, RowInvInit, RowInvStep, PTL DEF Spec
-----------------------------------------------------------------------------
\* Days and years.

LEMMA DivMod ==
  ASSUME NEW d \in Nat
  PROVE  /\ Year(d) \in Nat /\ DayOfYear(d) \in 0..(DaysPerYear - 1)
         /\ d = Year(d) * DaysPerYear + DayOfYear(d)
BY DaysAssumption DEF Year, DayOfYear

LEMMA YearEndIs ==
  ASSUME NEW y \in Nat
  PROVE  /\ YearEnd(y) \in Nat /\ FirstDay(y) \in Nat /\ YearEnd(y) + 1 = FirstDay(y + 1)
         /\ Year(YearEnd(y)) = y /\ Year(FirstDay(y)) = y
<1>1. y * DaysPerYear \in Nat
  BY DaysAssumption
<1>2. (y + 1) * DaysPerYear = y * DaysPerYear + DaysPerYear
  BY DaysAssumption
<1>3. YearEnd(y) \in Nat /\ FirstDay(y) \in Nat /\ YearEnd(y) + 1 = FirstDay(y + 1)
  BY <1>1, <1>2, DaysAssumption DEF YearEnd, FirstDay
<1>4. Year(FirstDay(y)) = y
  BY <1>1, DaysAssumption DEF Year, FirstDay
<1>5. Year(YearEnd(y)) = y
  BY <1>1, DaysAssumption DEF Year, YearEnd
<1> QED
  BY <1>3, <1>4, <1>5

LEMMA YearGrows ==
  ASSUME NEW c \in Nat, NEW d \in Nat, c <= d
  PROVE  Year(c) <= Year(d) /\ (Year(c) = Year(d) => DayOfYear(c) <= DayOfYear(d))
<1>1. /\ c = Year(c) * DaysPerYear + DayOfYear(c) /\ d = Year(d) * DaysPerYear + DayOfYear(d)
      /\ Year(c) \in Nat /\ Year(d) \in Nat
      /\ DayOfYear(c) \in 0..(DaysPerYear - 1) /\ DayOfYear(d) \in 0..(DaysPerYear - 1)
  BY DivMod
<1>2. ASSUME Year(c) >= Year(d) + 1
      PROVE  FALSE
  <2> DEFINE C == Year(c)
             D == Year(d)
  <2> HIDE DEF C, D
  <2>1. C * DaysPerYear >= (D + 1) * DaysPerYear
    BY <1>1, <1>2, DaysAssumption DEF C, D
  <2>2. (D + 1) * DaysPerYear = D * DaysPerYear + DaysPerYear
    BY <1>1, DaysAssumption DEF D
  <2> QED
    BY <1>1, <2>1, <2>2, DaysAssumption DEF C, D
<1> QED
  BY <1>1, <1>2, DaysAssumption

LEMMA YearSpan ==
  ASSUME NEW d \in Nat
  PROVE  FirstDay(Year(d)) <= d /\ d <= YearEnd(Year(d))
<1> DEFINE start == Year(d) * DaysPerYear
<1>1. Year(d) \in Nat /\ DayOfYear(d) \in 0..(DaysPerYear - 1) /\ d = start + DayOfYear(d)
  BY DivMod
<1>2. start \in Nat
  BY <1>1, DaysAssumption
<1>3. FirstDay(Year(d)) = start /\ YearEnd(Year(d)) = start + DaysPerYear - 1
  BY DEF FirstDay, YearEnd
<1> HIDE DEF start
<1> QED
  BY <1>1, <1>2, <1>3, DaysAssumption

LEMMA YearEndGrows ==
  ASSUME NEW y \in Nat, NEW z \in Nat, y <= z
  PROVE  YearEnd(y) <= YearEnd(z) /\ FirstDay(y) <= FirstDay(z) /\ FirstDay(y) <= YearEnd(y)
<1>1. y * DaysPerYear <= z * DaysPerYear /\ y * DaysPerYear \in Nat /\ z * DaysPerYear \in Nat
  BY DaysAssumption
<1> QED
  BY <1>1, DaysAssumption DEF FirstDay, YearEnd

\* A later day is never for an earlier year.
LEMMA TargetGrows ==
  ASSUME NEW c \in Nat, setting \in [opens : RenewalStarts, tilts : NextYearFroms]
  PROVE  /\ TargetYear(c) \in Nat /\ TargetYear(c) \in {Year(c), Year(c) + 1}
         /\ TargetYear(c) <= TargetYear(c + 1)
<1>1. setting.tilts \in Int
  <2>1. setting.tilts \in NextYearFroms
    OBVIOUS
  <2>2. NextYearFroms \subseteq Int
    BY SettingsAssumption, DaysAssumption
  <2> QED
    BY <2>1, <2>2
<1>2. /\ Year(c) \in Nat /\ Year(c + 1) \in Nat /\ DayOfYear(c) \in Int /\ DayOfYear(c + 1) \in Int
  BY DivMod, DaysAssumption
<1>3. Year(c) <= Year(c + 1) /\ (Year(c) = Year(c + 1) => DayOfYear(c) <= DayOfYear(c + 1))
  BY YearGrows
<1> QED
  BY <1>1, <1>2, <1>3 DEF TargetYear, Tilted

-----------------------------------------------------------------------------
\* The longest cover, and the one that ends first.

LEMMA RowsAreFinite == IsFiniteSet(Rows)
  BY BoundsAssumption, FS_Interval DEF Rows

LEMMA Highest ==
  ASSUME NEW A \in SUBSET Rows, A # {}, NEW f, \A i \in A : f[i] \in Int
  PROVE  \E m \in A : \A i \in A : f[i] <= f[m]
<1> DEFINE From(m) == { i \in A : f[i] >= f[m] }
           All == { From(m) : m \in A }
<1>1. IsWellFoundedOn(StrictSubsetOrdering(Rows), SUBSET Rows)
  BY RowsAreFinite, FS_StrictSubsetOrderingWellFounded, FS_FiniteSubsetsOfFinite, Zenon
<1>2. All \subseteq SUBSET Rows /\ All # {}
  OBVIOUS
<1>3. PICK u \in All : \A v \in All : ~(<<v, u>> \in StrictSubsetOrdering(Rows))
  <2> HIDE DEF All
  <2> QED
    BY <1>1, <1>2, WFMin, Zenon
<1>4. PICK m \in A : u = From(m)
  OBVIOUS
<1>5. ASSUME NEW i \in A
      PROVE  f[i] <= f[m]
  <2>1. SUFFICES ASSUME f[i] > f[m] PROVE FALSE
    OBVIOUS
  <2>2. From(i) \subseteq From(m) /\ m \in From(m) /\ m \notin From(i)
    BY <2>1
  <2>3. <<From(i), u>> \in StrictSubsetOrdering(Rows)
    <3>1. From(i) \in SUBSET Rows /\ From(m) \in SUBSET Rows
      OBVIOUS
    <3> HIDE DEF From
    <3> QED
      BY <1>4, <2>2, <3>1 DEF StrictSubsetOrdering
  <2>4. From(i) \in All
    OBVIOUS
  <2> HIDE DEF All, From
  <2> QED
    BY <1>3, <2>3, <2>4
<1> QED
  BY <1>5

LEMMA Lowest ==
  ASSUME NEW A \in SUBSET Rows, A # {}, NEW f, \A i \in A : f[i] \in Int
  PROVE  \E m \in A : \A i \in A : f[m] <= f[i]
<1> DEFINE g == [i \in A |-> 0 - f[i]]
<1>1. \A i \in A : g[i] \in Int /\ g[i] = 0 - f[i]
  OBVIOUS
<1> HIDE DEF g
<1>2. PICK m \in A : \A i \in A : g[i] <= g[m]
  BY <1>1, Highest
<1>3. \A i \in A : f[m] <= f[i]
  BY <1>1, <1>2
<1> QED
  BY <1>3
-----------------------------------------------------------------------------
\* What the invariant says of a row, of the cover and of the terms.

\* The conditions of TypeOK on one membership.
Fits(r) ==
  /\ r \in Row
  /\ r # NoRow => /\ r.from <= r.to
                  /\ r.to = YearEnd(Year(r.to))
                  /\ Year(r.to) - r.year \in {0, 1}

LEMMA RowFits ==
  ASSUME TypeOK
  PROVE  row \in [Rows -> Row] /\ \A i \in Rows : Fits(row[i])
<1>1. NoRow \in Row
  BY DEF NoRow, Row
<1> QED
  BY <1>1 DEF TypeOK, Fits

LEMMA LivingRow ==
  ASSUME TypeOK, NEW i \in Living
  PROVE  /\ i \in Rows /\ row[i] \in Row /\ row[i] # NoRow
         /\ row[i].from \in Nat /\ row[i].to \in Nat /\ row[i].year \in Nat
         /\ row[i].from <= row[i].to
         /\ row[i].to = YearEnd(Year(row[i].to)) /\ Year(row[i].to) \in Nat
         /\ row[i].year <= Year(row[i].to) /\ Year(row[i].to) <= row[i].year + 1
<1>1. i \in Rows /\ row[i] \in Row /\ Fits(row[i]) /\ ~row[i].deleted
  BY RowFits DEF Living
<1>2. row[i] # NoRow
  BY <1>1 DEF NoRow
<1>3. row[i].from \in Nat /\ row[i].to \in Nat /\ row[i].year \in Nat
  BY <1>1 DEF Row
<1>4. Year(row[i].to) \in Nat
  BY <1>3, DivMod
<1>5. Year(row[i].to) - row[i].year \in {0, 1}
  BY <1>1, <1>2 DEF Fits
<1> QED
  BY <1>1, <1>2, <1>3, <1>4, <1>5 DEF Fits

LEMMA CoverageIs ==
  ASSUME TypeOK, NEW day \in Nat, Covering(day) # {}
  PROVE  /\ \E k \in Active : row[k].to = CoverageUntil(day)
         /\ CoverageUntil(day) \in Nat /\ CoverageUntil(day) >= day
         /\ CoverageUntil(day) = YearEnd(Year(CoverageUntil(day)))
         /\ \A i \in Active : row[i].to <= CoverageUntil(day)
<1> DEFINE covers == { k \in Active : row[k].to >= day }
           to == [i \in Rows |-> row[i].to]
<1>1. \A i \in Active : i \in Living /\ i \in Rows /\ row[i].to \in Nat
                        /\ row[i].to = YearEnd(Year(row[i].to))
  BY LivingRow DEF Active
<1>2. covers \in SUBSET Rows /\ covers # {}
  BY <1>1 DEF Covering
<1>3. \A i \in covers : to[i] \in Int
  BY <1>1
<1>4. PICK m \in covers : \A i \in covers : to[i] <= to[m]
  <2> HIDE DEF covers, to
  <2> QED
    BY <1>2, <1>3, Highest
<1>5. /\ row[m].to \in Covering(day)
      /\ \A c \in Covering(day) : c \in Nat /\ row[m].to >= c
  BY <1>1, <1>4 DEF Covering
<1>6. /\ CoverageUntil(day) \in Covering(day)
      /\ \A c \in Covering(day) : CoverageUntil(day) >= c
  BY <1>5, Zenon DEF CoverageUntil, Max
<1>7. CoverageUntil(day) = row[m].to
  <2>1. CoverageUntil(day) \in Nat /\ row[m].to \in Nat
    BY <1>5, <1>6
  <2>2. CoverageUntil(day) >= row[m].to /\ row[m].to >= CoverageUntil(day)
    BY <1>5, <1>6
  <2>3. \A x, y \in Nat : x >= y /\ y >= x => x = y
    OBVIOUS
  <2> QED
    BY <2>1, <2>2, <2>3, Zenon
<1>8. ASSUME NEW i \in Active
      PROVE  row[i].to <= row[m].to
  <2>1. row[m].to \in Nat /\ row[m].to >= day /\ row[i].to \in Nat
    BY <1>1
  <2>2. CASE i \in covers
    <3>1. to[i] <= to[m] /\ to[i] = row[i].to /\ to[m] = row[m].to
      BY <1>1, <1>4, <2>2
    <3> QED
      BY <3>1
  <2>3. CASE i \notin covers
    <3>1. ~(row[i].to >= day)
      BY <2>3
    <3> HIDE DEF covers, to
    <3> QED
      BY <2>1, <3>1
  <2> QED
    BY <2>2, <2>3
<1> QED
  BY <1>1, <1>4, <1>7, <1>8

LEMMA TodayIs ==
  ASSUME TypeOK, today >= FirstDay(1)
  PROVE  /\ today \in Nat /\ Year(today) \in Nat \ {0}
         /\ TargetYear(today) \in Nat /\ TargetYear(today) \in {Year(today), Year(today) + 1}
         /\ TargetYear(today) <= TargetYear(today + 1)
         /\ today <= YearEnd(Year(today)) /\ YearEnd(Year(today)) <= YearEnd(TargetYear(today))
<1>1. today \in Nat /\ setting \in [opens : RenewalStarts, tilts : NextYearFroms]
  BY DaysAssumption DEF TypeOK
<1>2. /\ TargetYear(today) \in Nat /\ TargetYear(today) \in {Year(today), Year(today) + 1}
      /\ TargetYear(today) <= TargetYear(today + 1)
  BY <1>1, TargetGrows
<1>3. Year(today) \in Nat /\ today <= YearEnd(Year(today))
  BY <1>1, DivMod, YearSpan
<1>4. Year(today) # 0
  <2>1. FirstDay(1) \in Nat /\ Year(FirstDay(1)) = 1
    BY YearEndIs
  <2>2. Year(FirstDay(1)) <= Year(today)
    BY <1>1, <2>1, YearGrows
  <2> QED
    BY <1>3, <2>1, <2>2
<1>5. YearEnd(Year(today)) <= YearEnd(TargetYear(today))
  BY <1>2, <1>3, YearEndGrows
<1> QED
  BY <1>1, <1>2, <1>3, <1>4, <1>5

\* A period that a membership can have, of the year it ends in.
Fitting(period) ==
  /\ period \in Period /\ Sound(period)
  /\ Year(period.to) \in Nat /\ period.to = YearEnd(Year(period.to))

LEMMA WholeYearIs ==
  ASSUME NEW year \in Nat
  PROVE  /\ Fitting(WholeYear(year)) /\ Year(WholeYear(year).to) = year
         /\ WholeYear(year).from = FirstDay(year) /\ WholeYear(year).to = YearEnd(year)
<1>1. /\ FirstDay(year) \in Nat /\ YearEnd(year) \in Nat /\ Year(YearEnd(year)) = year
      /\ FirstDay(year) <= YearEnd(year)
  BY YearEndIs, YearEndGrows
<1> QED
  BY <1>1 DEF Fitting, WholeYear, Period, Sound

LEMMA ValidPeriodIs ==
  ASSUME TypeOK, today >= FirstDay(1)
  PROVE  /\ Fitting(ValidPeriod(today)) /\ ValidPeriod(today).from = today
         /\ ValidPeriod(today).to = YearEnd(TargetYear(today))
         /\ Year(ValidPeriod(today).to) = TargetYear(today)
<1>1. ValidPeriod(today) = [from |-> today, to |-> YearEnd(TargetYear(today))]
  BY DEF ValidPeriod, TargetYear
<1>2. YearEnd(TargetYear(today)) \in Nat /\ Year(YearEnd(TargetYear(today))) = TargetYear(today)
  BY TodayIs, YearEndIs
<1>3. today <= YearEnd(TargetYear(today))
  <2>1. YearEnd(Year(today)) \in Nat
    BY TodayIs, YearEndIs
  <2> QED
    BY TodayIs, <1>2, <2>1
<1> QED
  BY TodayIs, <1>1, <1>2, <1>3 DEF Fitting, Period, Sound

\* What a renewal buys begins after the longest cover, or today when nobody is covered.
LEMMA TermsAre ==
  ASSUME TypeOK, today >= FirstDay(1)
  PROVE  LET terms == RenewalTerms(today)
         IN  /\ Fitting(terms)
             /\ Year(terms.to) >= TargetYear(today) /\ Year(terms.to) > 0
             /\ \A i \in Active : row[i].to < terms.from
             /\ \/ terms.from = today
                \/ \E k \in Active : row[k].to + 1 = terms.from
<1> DEFINE terms == RenewalTerms(today)
<1>1. CASE Covering(today) = {}
  <2>1. terms = ValidPeriod(today)
    BY <1>1 DEF RenewalTerms
  <2>2. ASSUME NEW i \in Active
        PROVE  row[i].to < today
    <3>1. row[i].to \in Nat
      BY LivingRow DEF Active
    <3>2. ~(row[i].to >= today)
      BY <1>1 DEF Covering
    <3>3. today \in Nat
      BY TodayIs
    <3> QED
      BY <3>1, <3>2, <3>3
  <2>3. TargetYear(today) >= Year(today)
    BY TodayIs
  <2> QED
    BY <2>1, <2>2, <2>3, TodayIs, ValidPeriodIs
<1>2. CASE Covering(today) # {}
  <2> DEFINE until == CoverageUntil(today)
  <2>1. /\ \E k \in Active : row[k].to = until
        /\ until \in Nat /\ until >= today /\ until = YearEnd(Year(until))
        /\ \A i \in Active : row[i].to <= until
    BY <1>2, CoverageIs, TodayIs
  <2>2. terms = WholeYear(Year(until) + 1)
    BY <1>2 DEF RenewalTerms
  <2> HIDE DEF until
  <2>3. Year(until) \in Nat /\ Year(until) >= Year(today)
    BY <2>1, DivMod, YearGrows, TodayIs
  <2>4. until + 1 = FirstDay(Year(until) + 1)
    BY <2>1, <2>3, YearEndIs
  <2>5. /\ Fitting(terms) /\ Year(terms.to) = Year(until) + 1
        /\ terms.from = FirstDay(Year(until) + 1)
    BY <2>2, <2>3, WholeYearIs
  <2> HIDE DEF terms
  <2>6. \A i \in Active : row[i].to < terms.from
    <3>1. \A i \in Active : row[i].to \in Nat
      BY LivingRow DEF Active
    <3> QED
      BY <2>1, <2>4, <2>5, <3>1
  <2>7. Year(terms.to) >= TargetYear(today) /\ Year(terms.to) > 0
    BY <2>3, <2>5, TodayIs
  <2>8. \E k \in Active : row[k].to + 1 = terms.from
    BY <2>1, <2>4, <2>5
  <2> QED
    BY <2>5, <2>6, <2>7, <2>8 DEF terms
<1> QED
  BY <1>1, <1>2
-----------------------------------------------------------------------------
\* What a step writes: one membership at most.

\* A membership that a step adds.
Added(r) ==
  /\ Fits(r) /\ ~r.deleted
  /\ r.year < Year(r.to) => r.year < TargetYear(today)
  /\ counts'.board = 0 => JoinsOn(r.from)

\* What a step makes of the membership t: its year and its end stay, and only the board
\* removes it or takes it out of use.
Changed(t, r) ==
  /\ Fits(r) /\ r.year = row[t].year /\ r.to = row[t].to
  /\ row[t].deleted => r.deleted
  /\ counts'.board = 0 => /\ row[t].active => r.active
                          /\ r.deleted => row[t].deleted
                          /\ ~r.deleted => JoinsOn(r.from)

Writes ==
  \E t \in Rows, r \in Row :
    /\ row' = [row EXCEPT ![t] = r]
    /\ (row[t] = NoRow /\ Added(r)) \/ Changed(t, r)

\* One day is all that passes, and the board's count only grows.
RowsStep ==
  /\ setting' = setting
  /\ today' = today \/ today' = today + 1
  /\ counts'.board = 0 => counts.board = 0
  /\ row' = row \/ Writes

LEMMA InsertWrites ==
  ASSUME TypeOK, NEW t \in Rows, NEW year \in Nat, NEW period, NEW active \in BOOLEAN,
         Fitting(period), Year(period.to) - year \in {0, 1},
         year < Year(period.to) => year < TargetYear(today),
         counts'.board = 0 => JoinsOn(period.from),
         Insert(t, year, period, active)
  PROVE  Writes
<1> DEFINE r == NewRow(year, period, active)
<1>1. /\ r \in Row /\ r.year = year /\ r.from = period.from /\ r.to = period.to
      /\ r.active = active /\ ~r.deleted
  BY DEF Row, NewRow, Fitting, Period
<1>2. row' = [row EXCEPT ![t] = r] /\ row[t] = NoRow
  BY DEF Insert, UnusedRow
<1> HIDE DEF r
<1>3. r.from <= r.to /\ r.to = YearEnd(Year(r.to)) /\ Year(r.to) - r.year \in {0, 1}
  BY <1>1 DEF Fitting, Sound
<1>4. Fits(r)
  BY <1>1, <1>3 DEF Fits
<1>5. Added(r)
  <2>1. counts'.board = 0 => JoinsOn(r.from)
    BY <1>1
  <2> QED
    BY <1>1, <1>4, <2>1 DEF Added
<1> QED
  BY <1>1, <1>2, <1>5 DEF Writes

\* The rules of Fits read the year and the period only.
LEMMA FitsWith ==
  ASSUME NEW q, Fits(q), q # NoRow, NEW r \in Row,
         r.year = q.year, r.to = q.to, r.from <= r.to
  PROVE  Fits(r)
BY DEF Fits

LEMMA SignUpWrites ==
  ASSUME TypeOK, today >= FirstDay(1), NEW i \in Rows, NEW active \in BOOLEAN,
         Insert(i, Year(today), ValidPeriod(today), active)
  PROVE  Writes
<1>1. /\ Fitting(ValidPeriod(today)) /\ ValidPeriod(today).from = today
      /\ Year(ValidPeriod(today).to) = TargetYear(today)
  BY ValidPeriodIs
<1>2. /\ today \in Nat /\ Year(today) \in Nat /\ TargetYear(today) \in Nat
      /\ TargetYear(today) \in {Year(today), Year(today) + 1}
  BY TodayIs
<1>3. /\ Year(ValidPeriod(today).to) - Year(today) \in {0, 1}
      /\ Year(today) < Year(ValidPeriod(today).to) => Year(today) < TargetYear(today)
  BY <1>1, <1>2
<1>4. JoinsOn(ValidPeriod(today).from)
  BY <1>1, <1>2 DEF JoinsOn
<1> QED
  BY <1>1, <1>2, <1>3, <1>4, InsertWrites

\* The board's count is not zero after it changed a year.
LEMMA BoardCounts ==
  ASSUME TypeOK, ByBoard
  PROVE  counts'.board # 0 /\ setting' = setting /\ today' = today
<1>1. counts \in [board : 0..MaxBoard, corrections : 0..MaxCorrections]
  BY DEF TypeOK
<1>2. counts'.board = counts.board + 1
  BY <1>1 DEF ByBoard
<1> QED
  BY <1>1, <1>2 DEF ByBoard

LEMMA WholeYearWrites ==
  ASSUME TypeOK, today >= FirstDay(1), counts'.board # 0,
         NEW year \in Year(today) - 1 .. Year(today) + 1, NEW i \in Rows,
         NEW active \in BOOLEAN, Insert(i, year, WholeYear(year), active)
  PROVE  Writes
<1>1. year \in Nat
  BY TodayIs
<1>2. Fitting(WholeYear(year)) /\ Year(WholeYear(year).to) = year
  BY <1>1, WholeYearIs
<1>3. Year(WholeYear(year).to) - year \in {0, 1} /\ ~(year < Year(WholeYear(year).to))
  BY <1>1, <1>2
<1> QED
  BY <1>1, <1>2, <1>3, InsertWrites

\* A flag is written of a membership that lives.
LEMMA ActiveWrites ==
  ASSUME Inv, NEW t \in Living, NEW a \in BOOLEAN, row' = [row EXCEPT ![t].active = a],
         counts'.board = 0 => counts.board = 0 /\ a
  PROVE  Writes
<1> DEFINE q == row[t]
           r == [q EXCEPT !.active = a]
<1>1. t \in Rows /\ q \in Row /\ q # NoRow /\ q.from <= q.to /\ ~q.deleted /\ Fits(q)
  BY LivingRow, RowFits DEF Inv, Living
<1>2. row' = [row EXCEPT ![t] = r]
  OBVIOUS
<1> HIDE DEF q
<1>3. /\ r \in Row /\ r.year = q.year /\ r.from = q.from /\ r.to = q.to
      /\ r.active = a /\ r.deleted = q.deleted
  BY <1>1 DEF Row
<1> HIDE DEF r
<1>4. Fits(r)
  BY <1>1, <1>3, FitsWith
<1>5. counts'.board = 0 => JoinsOn(r.from)
  <2>1. counts.board = 0 => JoinsOn(q.from)
    BY DEF Inv, Joined, q
  <2> QED
    BY <1>3, <2>1
<1>6. Changed(t, r)
  BY <1>1, <1>3, <1>4, <1>5 DEF Changed, q
<1> QED
  BY <1>1, <1>2, <1>3, <1>6 DEF Writes

LEMMA DeleteWrites ==
  ASSUME TypeOK, NEW t \in Rows, DeleteMembership(t)
  PROVE  Writes
<1> DEFINE q == row[t]
           r == [q EXCEPT !.deleted = TRUE]
<1>1. t \in Living /\ q \in Row /\ q # NoRow /\ q.from <= q.to /\ Fits(q)
  BY LivingRow, RowFits DEF DeleteMembership
<1>2. row' = [row EXCEPT ![t] = r] /\ counts'.board # 0
  BY BoardCounts DEF DeleteMembership
<1> HIDE DEF q
<1>3. r \in Row /\ r.year = q.year /\ r.from = q.from /\ r.to = q.to /\ r.deleted
  BY <1>1 DEF Row
<1> HIDE DEF r
<1>4. Fits(r)
  BY <1>1, <1>3, FitsWith
<1> QED
  BY <1>2, <1>3, <1>4 DEF Changed, Writes, q

\* A renewal rewrites the row it found with the end it has, whatever became of it since.
LEMMA ReuseWrites ==
  ASSUME Inv, NEW s \in Sessions, RenewReuses(s)
  PROVE  Writes
<1> DEFINE t == session[s].target
           period == session[s].period
           q == row[t]
           r == [q EXCEPT !.from = period.from, !.to = period.to]
<1>1. session[s] \in Session /\ session[s].busy /\ t # 0
  BY DEF Inv, TypeOK, RenewReuses
<1>2. t \in Rows /\ period \in Period
  BY <1>1, BoundsAssumption DEF Session, Rows
<1>3. /\ period.from <= period.to /\ period.to = YearEnd(Year(period.to))
      /\ q.year = Year(period.to) /\ q.to = period.to
  BY <1>1 DEF Inv, RenewalsFit, Sound
<1>4. counts.board = 0 => JoinsOn(period.from)
  BY <1>1 DEF Inv, Joined
<1>5. row' = [row EXCEPT ![t] = r] /\ counts' = counts
  BY DEF RenewReuses, RenewEnds
<1>6. q \in Row
  BY <1>2, RowFits DEF Inv
<1> HIDE DEF q, period, t
<1>7. /\ r \in Row /\ r.year = q.year /\ r.from = period.from /\ r.to = period.to
      /\ r.active = q.active /\ r.deleted = q.deleted
  BY <1>2, <1>6 DEF Row, Period
<1> HIDE DEF r
<1>8. Fits(r)
  <2>1. Year(r.to) - r.year \in {0, 1}
    <3>1. period.to \in Nat
      BY <1>2 DEF Period
    <3>2. Year(period.to) \in Nat
      BY <3>1, DivMod
    <3> QED
      BY <1>3, <1>7, <3>2
  <2>2. r.from <= r.to /\ r.to = YearEnd(Year(r.to))
    BY <1>3, <1>7
  <2> QED
    BY <1>7, <2>1, <2>2 DEF Fits
<1>9. counts'.board = 0 => JoinsOn(r.from)
  BY <1>4, <1>5, <1>7
<1>10. Changed(t, r)
  BY <1>3, <1>7, <1>8, <1>9 DEF Changed, q
<1> QED
  BY <1>2, <1>5, <1>7, <1>10 DEF Writes
LEMMA InsertOfRenewal ==
  ASSUME Inv, NEW s \in Sessions, RenewInserts(s)
  PROVE  Writes
<1> DEFINE period == session[s].period
<1>1. session[s] \in Session /\ session[s].busy
  BY DEF Inv, TypeOK, RenewInserts
<1>2. period \in Period /\ period.to \in Nat
  BY <1>1 DEF Session, Period
<1>3. Year(period.to) \in Nat
  BY <1>2, DivMod
<1>4. Fitting(period)
  BY <1>1, <1>2, <1>3 DEF Inv, RenewalsFit, Fitting
<1>5. counts.board = 0 => JoinsOn(period.from)
  BY <1>1 DEF Inv, Joined
<1>6. PICK i \in Rows : Insert(i, Year(period.to), period, FALSE)
  BY DEF RenewInserts
<1>7. counts' = counts
  BY DEF RenewInserts, RenewEnds
<1>8. TypeOK
  BY DEF Inv
<1> HIDE DEF period
<1>9. Year(period.to) - Year(period.to) \in {0, 1} /\ ~(Year(period.to) < Year(period.to))
  BY <1>3
<1>10. counts'.board = 0 => JoinsOn(period.from)
  BY <1>5, <1>7
<1>11. FALSE \in BOOLEAN
  OBVIOUS
<1> QED
  BY <1>3, <1>4, <1>6, <1>8, <1>9, <1>10, <1>11, InsertWrites

LEMMA RenewRows ==
  ASSUME Inv, NEW s \in Sessions, Renew(s)
  PROVE  RowsStep
<1>1. CASE RenewReads(s)
  BY <1>1 DEF RenewReads, RowsStep
<1>2. CASE RenewInserts(s)
  BY <1>2, InsertOfRenewal DEF RenewInserts, RenewEnds, RowsStep
<1>3. CASE RenewReuses(s)
  BY <1>3, ReuseWrites DEF RenewReuses, RenewEnds, RowsStep
<1>4. CASE RenewFails(s)
  BY <1>4 DEF RenewFails, RenewEnds, RowsStep
<1> QED
  BY <1>1, <1>2, <1>3, <1>4 DEF Renew

LEMMA CorrectionRows ==
  ASSUME TypeOK, Corrects
  PROVE  RowsStep
<1>1. counts \in [board : 0..MaxBoard, corrections : 0..MaxCorrections]
  BY DEF TypeOK
<1>2. counts'.board = counts.board
  BY <1>1 DEF Corrects
<1> QED
  BY <1>2 DEF Corrects, PaymentOnly, RowsStep

LEMMA MoneyRows ==
  ASSUME Inv, NEW p \in Payments, Money(p)
  PROVE  RowsStep
<1>1. CASE PaymentReceived(p)
  <2>1. row' = Activated(payment[p].row) /\ counts' = counts
        /\ today' = today /\ setting' = setting
    BY <1>1 DEF PaymentReceived, PaymentOnly
  <2>2. CASE payment[p].row \in Living
    <3>1. row' = [row EXCEPT ![payment[p].row].active = TRUE]
      BY <2>1, <2>2 DEF Activated
    <3>2. TRUE \in BOOLEAN
      OBVIOUS
    <3>3. Writes
      BY <2>1, <2>2, <3>1, <3>2, ActiveWrites
    <3> QED
      BY <2>1, <3>3 DEF RowsStep
  <2>3. CASE payment[p].row \notin Living
    BY <2>1, <2>3 DEF Activated, RowsStep
  <2> QED
    BY <2>2, <2>3
<1>2. CASE PaymentFails(p)
  BY <1>2 DEF PaymentFails, PaymentOnly, RowsStep
<1>3. CASE VoidPayment(p)
  BY <1>3, CorrectionRows DEF VoidPayment, Inv
<1>4. ASSUME NEW status \in {"PENDING", "FAILED"}, SetPaymentStatus(p, status)
      PROVE  RowsStep
  BY <1>4, CorrectionRows DEF SetPaymentStatus, Inv
<1> QED
  BY <1>1, <1>2, <1>3, <1>4 DEF Money

LEMMA BoardRows ==
  ASSUME Inv, Board
  PROVE  RowsStep
<1>1. TypeOK /\ today >= FirstDay(1)
  BY DEF Inv
<1>2. ASSUME ByBoard, Writes
      PROVE  RowsStep
  BY <1>1, <1>2, BoardCounts DEF RowsStep
<1>3. ASSUME NEW year \in Year(today) - 1 .. Year(today) + 1, AddReportedMembership(year)
      PROVE  RowsStep
  <2>1. ByBoard /\ \E i \in Rows : Insert(i, year, WholeYear(year), TRUE)
    BY <1>3 DEF AddReportedMembership
  <2>2. Writes
    <3>1. counts'.board # 0 /\ TRUE \in BOOLEAN
      BY <1>1, <2>1, BoardCounts
    <3> QED
      BY <1>1, <2>1, <3>1, WholeYearWrites
  <2> QED
    BY <1>2, <2>1, <2>2
<1>4. ASSUME NEW year \in Year(today) - 1 .. Year(today) + 1, NEW active \in BOOLEAN,
             AddMembership(year, active)
      PROVE  RowsStep
  <2>1. ByBoard /\ counts'.board # 0
    BY <1>1, <1>4, BoardCounts DEF AddMembership
  <2>2. CASE \E i \in Living : row[i].year = year /\ row' = [row EXCEPT ![i].active = active]
    <3>1. PICK i \in Living : row' = [row EXCEPT ![i].active = active]
      BY <2>2
    <3>2. Writes
      BY <2>1, <3>1, ActiveWrites
    <3> QED
      BY <1>2, <2>1, <3>2
  <2>3. CASE \E i \in Rows : Insert(i, year, WholeYear(year), active)
    <3>1. Writes
      BY <1>1, <2>1, <2>3, WholeYearWrites
    <3> QED
      BY <1>2, <2>1, <3>1
  <2> QED
    BY <1>4, <2>2, <2>3 DEF AddMembership
<1>5. ASSUME NEW i \in Rows, DeleteMembership(i)
      PROVE  RowsStep
  <2>1. Writes /\ ByBoard
    BY <1>1, <1>5, DeleteWrites DEF DeleteMembership
  <2> QED
    BY <1>2, <2>1
<1> QED
  BY <1>3, <1>4, <1>5 DEF Board

LEMMA StepRows ==
  ASSUME Inv, [Next]_vars
  PROVE  RowsStep
<1>1. TypeOK /\ today >= FirstDay(1)
  BY DEF Inv
<1>2. CASE SignUp
  <2>1. FALSE \in BOOLEAN
    OBVIOUS
  <2>2. Writes
    BY <1>1, <1>2, <2>1, SignUpWrites DEF SignUp
  <2> QED
    BY <1>2, <2>2 DEF SignUp, RowsStep
<1>3. CASE BoardCreatesFamily
  <2>1. TRUE \in BOOLEAN
    OBVIOUS
  <2>2. Writes
    BY <1>1, <1>3, <2>1, SignUpWrites DEF BoardCreatesFamily
  <2> QED
    BY <1>3, <2>2 DEF BoardCreatesFamily, RowsStep
<1>4. CASE \E s \in Sessions : Renew(s)
  BY <1>4, RenewRows
<1>5. CASE \E p \in Payments : Money(p)
  BY <1>5, MoneyRows
<1>6. CASE Board
  BY <1>6, BoardRows
<1>7. CASE DayPasses
  BY <1>7 DEF DayPasses, RowsStep
<1>8. CASE UNCHANGED vars
  BY <1>8 DEF vars, RowsStep
<1> QED
  BY <1>2, <1>3, <1>4, <1>5, <1>6, <1>7, <1>8 DEF Next
-----------------------------------------------------------------------------
\* What follows from it for the rows.

LEMMA RowsFitAfter ==
  ASSUME Inv, RowsStep
  PROVE  row' \in [Rows -> Row] /\ \A i \in Rows : Fits(row'[i])
<1>1. row \in [Rows -> Row] /\ \A i \in Rows : Fits(row[i])
  BY RowFits DEF Inv
<1>2. CASE row' = row
  BY <1>1, <1>2
<1>3. CASE Writes
  <2>1. PICK t \in Rows, r \in Row :
          /\ row' = [row EXCEPT ![t] = r]
          /\ (row[t] = NoRow /\ Added(r)) \/ Changed(t, r)
    BY <1>3 DEF Writes
  <2>2. Fits(r)
    BY <2>1 DEF Added, Changed
  <2> QED
    BY <1>1, <2>1, <2>2
<1> QED
  BY <1>2, <1>3 DEF RowsStep

LEMMA DayAfter ==
  ASSUME Inv, RowsStep
  PROVE  /\ today \in Nat /\ today' \in Nat /\ today' >= today
         /\ TargetYear(today) \in Nat /\ TargetYear(today)' \in Nat
         /\ TargetYear(today)' >= TargetYear(today)
<1>1. /\ today \in Nat /\ TargetYear(today) \in Nat
      /\ TargetYear(today) <= TargetYear(today + 1)
  BY TodayIs DEF Inv
<1>2. CASE today' = today
  <2>1. TargetYear(today)' = TargetYear(today)
    BY <1>2 DEF RowsStep, TargetYear, Tilted, Year, DayOfYear
  <2> QED
    BY <1>1, <1>2, <2>1
<1>3. CASE today' = today + 1
  <2>1. TargetYear(today)' = TargetYear(today + 1)
    BY <1>3 DEF RowsStep, TargetYear, Tilted, Year, DayOfYear
  <2>2. TargetYear(today + 1) \in Nat
    <3>1. setting \in [opens : RenewalStarts, tilts : NextYearFroms] /\ today + 1 \in Nat
      BY <1>1 DEF Inv, TypeOK
    <3> QED
      BY <3>1, TargetGrows
  <2> QED
    BY <1>1, <1>3, <2>1, <2>2
<1> QED
  BY <1>2, <1>3 DEF RowsStep

\* A membership keeps its year and its end.
LEMMA KeepsYear ==
  ASSUME Inv, RowsStep, NEW i \in Rows, row[i] # NoRow
  PROVE  row'[i].year = row[i].year /\ row'[i].to = row[i].to
<1>1. CASE row' = row
  BY <1>1
<1>2. CASE Writes
  <2>1. PICK t \in Rows, r \in Row :
          /\ row' = [row EXCEPT ![t] = r]
          /\ (row[t] = NoRow /\ Added(r)) \/ Changed(t, r)
    BY <1>2 DEF Writes
  <2>2. row \in [Rows -> Row]
    BY RowFits DEF Inv
  <2>3. CASE i = t
    BY <2>1, <2>2, <2>3 DEF Changed
  <2>4. CASE i # t
    BY <2>1, <2>2, <2>4
  <2> QED
    BY <2>3, <2>4
<1> QED
  BY <1>1, <1>2 DEF RowsStep

\* Unless the board changes years, an active membership stays one, to the day it had.
LEMMA ActiveStays ==
  ASSUME Inv, RowsStep, counts'.board = 0, NEW k \in Active
  PROVE  k \in Active' /\ row'[k].to = row[k].to
<1>1. k \in Rows /\ ~row[k].deleted /\ row[k].active /\ row[k] # NoRow
  BY LivingRow DEF Inv, Active, Living
<1>2. row'[k].to = row[k].to
  BY <1>1, KeepsYear
<1>3. ~row'[k].deleted /\ row'[k].active
  <2>1. CASE row' = row
    BY <1>1, <2>1
  <2>2. CASE Writes
    <3>1. PICK t \in Rows, r \in Row :
            /\ row' = [row EXCEPT ![t] = r]
            /\ (row[t] = NoRow /\ Added(r)) \/ Changed(t, r)
      BY <2>2 DEF Writes
    <3>2. row \in [Rows -> Row]
      BY RowFits DEF Inv
    <3>3. CASE k = t
      BY <1>1, <3>1, <3>2, <3>3 DEF Changed
    <3>4. CASE k # t
      BY <1>1, <3>1, <3>2, <3>4
    <3> QED
      BY <3>3, <3>4
  <2> QED
    BY <2>1, <2>2 DEF RowsStep
<1> QED
  BY <1>1, <1>2, <1>3 DEF Active, Living, Rows

LEMMA JoinsOnStays ==
  ASSUME Inv, RowsStep, counts'.board = 0, NEW from, from \in Nat, JoinsOn(from)
  PROVE  from > today' => \E k \in Active' : row'[k].to + 1 = from
<1> SUFFICES ASSUME from > today' PROVE \E k \in Active' : row'[k].to + 1 = from
  OBVIOUS
<1>1. from > today
  BY DayAfter
<1>2. PICK k \in Active : row[k].to + 1 = from
  BY <1>1 DEF JoinsOn
<1> QED
  BY <1>2, ActiveStays

LEMMA LateSignUpsAfter ==
  ASSUME Inv, RowsStep
  PROVE  LateSignUps'
<1> SUFFICES ASSUME NEW i \in Rows, ~row'[i].deleted, row'[i].year < Year(row'[i].to)
             PROVE  row'[i].year < TargetYear(today)'
  BY DEF LateSignUps, Living, Rows, Year
<1>1. row'[i].year \in Nat
  BY RowsFitAfter DEF Row
<1>2. row'[i].year < TargetYear(today)
  <2>1. ASSUME row'[i] = row[i]
        PROVE  row'[i].year < TargetYear(today)
    BY <2>1 DEF Inv, LateSignUps, Living
  <2>2. CASE Writes
    <3>1. PICK t \in Rows, r \in Row :
            /\ row' = [row EXCEPT ![t] = r]
            /\ (row[t] = NoRow /\ Added(r)) \/ Changed(t, r)
      BY <2>2 DEF Writes
    <3>2. row \in [Rows -> Row]
      BY RowFits DEF Inv
    <3>3. CASE i # t
      BY <2>1, <3>1, <3>2, <3>3
    <3>4. CASE i = t /\ Added(r)
      BY <3>1, <3>2, <3>4 DEF Added
    <3>5. CASE i = t /\ Changed(t, r)
      <4>1. ~row[t].deleted /\ row[t].year = r.year /\ row[t].to = r.to /\ row'[i] = r
        BY <3>1, <3>2, <3>5 DEF Changed
      <4> QED
        BY <3>5, <4>1 DEF Inv, LateSignUps, Living
    <3> QED
      BY <3>1, <3>3, <3>4, <3>5
  <2> QED
    BY <2>1, <2>2 DEF RowsStep
<1> QED
  BY <1>1, <1>2, DayAfter

LEMMA RowsJoinAfter ==
  ASSUME Inv, RowsStep, counts'.board = 0, NEW i \in Living'
  PROVE  JoinsOn(row[i].from)'
<1>1. i \in Rows /\ ~row'[i].deleted /\ row'[i].from \in Nat
  BY RowsFitAfter DEF Living, Rows, Row
<1>2. counts.board = 0
  BY DEF RowsStep
<1>3. JoinsOn(row'[i].from)
  <2>1. ASSUME row'[i] = row[i]
        PROVE  JoinsOn(row'[i].from)
    BY <1>1, <1>2, <2>1 DEF Inv, Joined, Living
  <2>2. CASE Writes
    <3>1. PICK t \in Rows, r \in Row :
            /\ row' = [row EXCEPT ![t] = r]
            /\ (row[t] = NoRow /\ Added(r)) \/ Changed(t, r)
      BY <2>2 DEF Writes
    <3>2. row \in [Rows -> Row]
      BY RowFits DEF Inv
    <3>3. CASE i # t
      BY <1>1, <2>1, <3>1, <3>2, <3>3
    <3>4. CASE i = t
      <4>1. row'[i] = r
        BY <1>1, <3>1, <3>2, <3>4
      <4>2. JoinsOn(r.from)
        BY <1>1, <3>1, <4>1 DEF Added, Changed
      <4> QED
        BY <4>1, <4>2
    <3> QED
      BY <3>3, <3>4
  <2> QED
    BY <1>1, <2>1, <2>2 DEF RowsStep
<1> DEFINE from == row'[i].from
<1> HIDE DEF from
<1>4. from \in Nat /\ JoinsOn(from)
  BY <1>1, <1>3 DEF from
<1>5. from > today' => \E k \in Active' : row'[k].to + 1 = from
  BY <1>4, JoinsOnStays
<1> QED
  BY <1>5 DEF JoinsOn, from
-----------------------------------------------------------------------------
\* What a step does to the renewals.

\* The renewal s has just read.
ReadsNow(s) ==
  /\ row' = row /\ today' = today /\ counts' = counts
  /\ session'[s].period = RenewalTerms(today)
  /\ session'[s].target = 0 \/ session'[s].target \in Found(RenewalTerms(today))

SessionsStep ==
  /\ session' \in [Sessions -> Session]
  /\ \A s \in Sessions : session'[s] = session[s] \/ ~session'[s].busy \/ ReadsNow(s)

LEMMA NoSessionIs == NoSession \in Session /\ ~NoSession.busy
<1>1. 0 \in 0..MaxRow
  BY BoundsAssumption
<1>2. WholeYear(0) \in Period
  <2>1. 0 \in Nat
    OBVIOUS
  <2> QED
    BY <2>1, WholeYearIs DEF Fitting
<1> QED
  BY <1>1, <1>2 DEF NoSession, Session

LEMMA SessionsStay ==
  ASSUME TypeOK, UNCHANGED session
  PROVE  SessionsStep
BY DEF TypeOK, SessionsStep

LEMMA SessionEnds ==
  ASSUME TypeOK, NEW s \in Sessions, RenewEnds(s)
  PROVE  SessionsStep
<1>1. session' = [session EXCEPT ![s] = NoSession] /\ session \in [Sessions -> Session]
  BY DEF RenewEnds, TypeOK
<1> QED
  BY <1>1, NoSessionIs DEF SessionsStep

LEMMA SessionReads ==
  ASSUME TypeOK, today >= FirstDay(1), NEW s \in Sessions, RenewReads(s)
  PROVE  SessionsStep
<1> DEFINE period == RenewalTerms(today)
<1>1. period \in Period
  BY TermsAre DEF Fitting
<1>2. session \in [Sessions -> Session]
  BY DEF TypeOK
<1>3. PICK target \in Found(period) \cup {0} :
        session' = [session EXCEPT ![s] = [busy |-> TRUE, target |-> target, period |-> period]]
  BY DEF RenewReads
<1>4. target \in 0..MaxRow
  BY BoundsAssumption DEF Found, Living, Rows
<1>5. row' = row /\ today' = today /\ counts' = counts
  BY DEF RenewReads
<1> HIDE DEF period
<1> DEFINE e == [busy |-> TRUE, target |-> target, period |-> period]
<1>6. e \in Session /\ e.target = target /\ e.period = period
  BY <1>1, <1>4 DEF Session
<1> HIDE DEF e
<1>7. session' = [session EXCEPT ![s] = e]
  BY <1>3 DEF e
<1>8. session' \in [Sessions -> Session] /\ session'[s] = e
      /\ \A u \in Sessions : u # s => session'[u] = session[u]
  BY <1>2, <1>6, <1>7
<1>9. ReadsNow(s)
  BY <1>3, <1>5, <1>6, <1>8 DEF ReadsNow, period
<1> QED
  BY <1>8, <1>9 DEF SessionsStep

LEMMA StepSessions ==
  ASSUME Inv, [Next]_vars
  PROVE  SessionsStep
<1>1. TypeOK /\ today >= FirstDay(1)
  BY DEF Inv
<1>2. CASE UNCHANGED session
  BY <1>1, <1>2, SessionsStay
<1>3. ASSUME NEW s \in Sessions, Renew(s)
      PROVE  SessionsStep
  <2>1. CASE RenewReads(s)
    BY <1>1, <2>1, SessionReads
  <2>2. CASE RenewEnds(s)
    BY <1>1, <2>2, SessionEnds
  <2> QED
    BY <1>3, <2>1, <2>2 DEF Renew, RenewInserts, RenewReuses, RenewFails
<1>4. ASSUME NEW p \in Payments, Money(p)
      PROVE  UNCHANGED session
  <2>1. ASSUME NEW status \in {"PENDING", "FAILED"}, SetPaymentStatus(p, status)
        PROVE  UNCHANGED session
    BY <2>1 DEF SetPaymentStatus, Corrects, PaymentOnly
  <2>2. PaymentReceived(p) \/ PaymentFails(p) \/ VoidPayment(p) => UNCHANGED session
    BY DEF PaymentReceived, PaymentFails, VoidPayment, Corrects, PaymentOnly
  <2> QED
    BY <1>4, <2>1, <2>2 DEF Money
<1>5. CASE Board
  <2>1. ByBoard
    BY <1>5 DEF Board, AddReportedMembership, AddMembership, DeleteMembership
  <2> QED
    BY <1>1, <2>1, SessionsStay DEF ByBoard
<1> QED
  BY <1>2, <1>3, <1>4, <1>5 DEF Next, SignUp, BoardCreatesFamily, DayPasses, vars

\* The row a renewal finds ends with its year: it is no late sign-up any more.
LEMMA FoundEnds ==
  ASSUME Inv, NEW i \in Found(RenewalTerms(today))
  PROVE  /\ i \in Rows /\ row[i].year = Year(RenewalTerms(today).to)
         /\ row[i].to = RenewalTerms(today).to
<1> DEFINE to == RenewalTerms(today).to
<1>1. i \in Living /\ row[i].year = Year(to)
  BY DEF Found
<1>2. TypeOK /\ today >= FirstDay(1)
  BY DEF Inv
<1>3. Year(to) \in Nat /\ to = YearEnd(Year(to)) /\ Year(to) >= TargetYear(today)
  BY <1>2, TermsAre DEF Fitting
<1>4. /\ i \in Rows /\ row[i].year \in Nat /\ row[i].to = YearEnd(Year(row[i].to))
      /\ Year(row[i].to) \in Nat /\ row[i].year <= Year(row[i].to)
  BY <1>1, <1>2, LivingRow
<1>5. row[i].year < Year(row[i].to) => row[i].year < TargetYear(today)
  BY <1>1 DEF Inv, LateSignUps
<1>6. TargetYear(today) \in Nat
  BY <1>2, TodayIs
<1> HIDE DEF to
<1>7. row[i].year = Year(row[i].to)
  BY <1>1, <1>3, <1>4, <1>5, <1>6
<1>8. row[i].to = to
  BY <1>1, <1>3, <1>4, <1>7
<1> QED
  BY <1>1, <1>4, <1>8 DEF to

LEMMA RenewalsFitAfter ==
  ASSUME Inv, RowsStep, SessionsStep
  PROVE  RenewalsFit'
<1> SUFFICES ASSUME NEW s \in Sessions, session'[s].busy
             PROVE  /\ Sound(session'[s].period)
                    /\ session'[s].period.to = YearEnd(Year(session'[s].period.to))
                    /\ Year(session'[s].period.to) > 0
                    /\ session'[s].target # 0 =>
                         /\ row'[session'[s].target].year = Year(session'[s].period.to)
                         /\ row'[session'[s].target].to = session'[s].period.to
  BY DEF RenewalsFit, Sound, Year, YearEnd
<1>1. CASE session'[s] = session[s]
  <2> DEFINE t == session[s].target
             period == session[s].period
  <2>1. /\ Sound(period) /\ period.to = YearEnd(Year(period.to)) /\ Year(period.to) > 0
        /\ t # 0 => row[t].year = Year(period.to) /\ row[t].to = period.to
    BY <1>1 DEF Inv, RenewalsFit
  <2>2. t \in 0..MaxRow /\ period.to \in Nat
    BY DEF Inv, TypeOK, Session, Period
  <2> HIDE DEF t, period
  <2>3. ASSUME t # 0
        PROVE  row'[t].year = Year(period.to) /\ row'[t].to = period.to
    <3>1. t \in Rows
      BY <2>2, <2>3, BoundsAssumption DEF Rows
    <3>2. row[t] # NoRow
      <4>1. Year(period.to) # 0
        BY <2>1
      <4> QED
        BY <2>1, <2>3, <4>1 DEF NoRow
    <3> QED
      BY <2>1, <2>3, <3>1, <3>2, KeepsYear
  <2> QED
    BY <1>1, <2>1, <2>3 DEF t, period
<1>2. CASE ReadsNow(s)
  <2> DEFINE period == RenewalTerms(today)
  <2>1. /\ Sound(period) /\ period.to = YearEnd(Year(period.to)) /\ Year(period.to) > 0
    BY TermsAre DEF Inv, Fitting
  <2>2. session'[s].period = period /\ row' = row
    BY <1>2 DEF ReadsNow
  <2>3. ASSUME session'[s].target # 0
        PROVE  /\ row[session'[s].target].year = Year(period.to)
               /\ row[session'[s].target].to = period.to
    BY <1>2, <2>3, FoundEnds DEF ReadsNow
  <2> HIDE DEF period
  <2> QED
    BY <2>1, <2>2, <2>3
<1> QED
  BY <1>1, <1>2 DEF SessionsStep
LEMMA JoinedAfter ==
  ASSUME Inv, RowsStep, SessionsStep
  PROVE  Joined'
<1>1. ASSUME counts'.board = 0, NEW i \in Living'
      PROVE  JoinsOn(row[i].from)'
  BY <1>1, RowsJoinAfter
<1>2. ASSUME counts'.board = 0, NEW s \in Sessions, session'[s].busy
      PROVE  JoinsOn(session[s].period.from)'
  <2> DEFINE from == session'[s].period.from
  <2>1. from \in Nat
    BY DEF SessionsStep, Session, Period
  <2>2. JoinsOn(from)
    <3>1. CASE session'[s] = session[s]
      BY <1>2, <3>1 DEF Inv, Joined, RowsStep
    <3>2. CASE ReadsNow(s)
      <4>1. from = RenewalTerms(today).from
        BY <3>2 DEF ReadsNow
      <4>2. /\ RenewalTerms(today).from = today
               \/ \E k \in Active : row[k].to + 1 = RenewalTerms(today).from
            /\ today \in Nat
        BY TermsAre, DayAfter DEF Inv
      <4> QED
        BY <4>1, <4>2 DEF JoinsOn
    <3> QED
      BY <1>2, <3>1, <3>2 DEF SessionsStep
  <2> HIDE DEF from
  <2>3. from > today' => \E k \in Active' : row'[k].to + 1 = from
    BY <1>2, <2>1, <2>2, JoinsOnStays
  <2> QED
    BY <2>3 DEF JoinsOn, from
<1> QED
  BY <1>1, <1>2 DEF Joined

-----------------------------------------------------------------------------
\* The types.

LEMMA NoPaymentIs == NoPayment \in Payment
<1>1. 0 \in 0..MaxRow
  BY BoundsAssumption
<1> QED
  BY <1>1 DEF NoPayment, Payment

\* A record that is given another status is a record.
LEMMA StatusGiven ==
  ASSUME NEW q \in Payment, NEW status \in {"NONE", "PENDING", "PAID", "FAILED"}
  PROVE  [q EXCEPT !.status = status] \in Payment
BY DEF Payment

LEMMA Charged ==
  ASSUME TypeOK, NEW i \in 0..MaxRow, Charge(i)
  PROVE  payment' \in [Payments -> Payment]
<1>1. [row |-> i, status |-> "PENDING"] \in Payment
  BY DEF Payment
<1> QED
  BY <1>1 DEF TypeOK, Charge

LEMMA PaymentsAfter ==
  ASSUME Inv, [Next]_vars
  PROVE  payment' \in [Payments -> Payment]
<1>1. payment \in [Payments -> Payment] /\ TypeOK
  BY DEF Inv, TypeOK
<1>2. \A i \in Rows : i \in 0..MaxRow
  BY BoundsAssumption DEF Rows
<1>3. CASE payment' = payment
  BY <1>1, <1>3
<1>4. CASE SignUp
  BY <1>1, <1>2, <1>4, Charged DEF SignUp
<1>5. ASSUME NEW s \in Sessions, Renew(s)
      PROVE  payment' \in [Payments -> Payment]
  <2>1. CASE RenewInserts(s)
    BY <1>1, <1>2, <2>1, Charged DEF RenewInserts
  <2>2. CASE RenewReuses(s)
    <3>1. session[s].target \in 0..MaxRow
      BY <1>1 DEF TypeOK, Session
    <3>2. Charge(session[s].target)
      BY <2>2 DEF RenewReuses
    <3> QED
      BY <1>1, <3>1, <3>2, Charged
  <2> QED
    BY <1>3, <1>5, <2>1, <2>2 DEF Renew, RenewReads, RenewFails
<1>6. ASSUME NEW p \in Payments, Money(p)
      PROVE  payment' \in [Payments -> Payment]
  <2>1. ASSUME NEW status \in {"NONE", "PENDING", "PAID", "FAILED"},
               payment' = [payment EXCEPT ![p].status = status]
        PROVE  payment' \in [Payments -> Payment]
    BY <1>1, <2>1, StatusGiven
  <2>2. CASE PaymentReceived(p)
    <3>1. payment' = [payment EXCEPT ![p].status = "PAID"]
      BY <2>2 DEF PaymentReceived
    <3> QED
      BY <2>1, <3>1
  <2>3. CASE PaymentFails(p)
    <3>1. payment' = [payment EXCEPT ![p].status = "FAILED"]
      BY <2>3 DEF PaymentFails
    <3> QED
      BY <2>1, <3>1
  <2>4. CASE VoidPayment(p)
    <3>1. payment' = [payment EXCEPT ![p].status = "NONE"]
      BY <2>4 DEF VoidPayment
    <3> QED
      BY <2>1, <3>1
  <2>5. ASSUME NEW status \in {"PENDING", "FAILED"}, SetPaymentStatus(p, status)
        PROVE  payment' \in [Payments -> Payment]
    <3>1. payment' = [payment EXCEPT ![p].status = status]
      BY <2>5 DEF SetPaymentStatus
    <3> QED
      BY <2>1, <3>1
  <2> QED
    BY <1>6, <2>2, <2>3, <2>4, <2>5 DEF Money
<1>7. CASE Board
  <2>1. ASSUME NEW i \in Rows, DeleteMembership(i)
        PROVE  payment' \in [Payments -> Payment]
    <3>1. \A p \in Payments : [payment[p] EXCEPT !.status = "NONE"] \in Payment
      BY <1>1, StatusGiven
    <3> QED
      BY <1>1, <2>1, <3>1 DEF DeleteMembership
  <2> QED
    BY <1>3, <1>7, <2>1 DEF Board, AddReportedMembership, AddMembership
<1> QED
  BY <1>3, <1>4, <1>5, <1>6, <1>7 DEF Next, BoardCreatesFamily, DayPasses, vars

LEMMA CountsAfter ==
  ASSUME Inv, [Next]_vars
  PROVE  counts' \in [board : 0..MaxBoard, corrections : 0..MaxCorrections]
<1> DEFINE Counts == [board : 0..MaxBoard, corrections : 0..MaxCorrections]
<1>1. counts \in Counts
  BY DEF Inv, TypeOK
<1>2. CASE counts' = counts
  BY <1>1, <1>2
<1>3. CASE ByBoard
  BY <1>1, <1>3, BoundsAssumption DEF ByBoard
<1>4. CASE Corrects
  BY <1>1, <1>4, BoundsAssumption DEF Corrects
<1>5. ASSUME NEW s \in Sessions, Renew(s)
      PROVE  counts' = counts
  BY <1>5 DEF Renew, RenewReads, RenewInserts, RenewReuses, RenewFails, RenewEnds
<1>6. ASSUME NEW p \in Payments, Money(p)
      PROVE  counts' = counts \/ Corrects
  <2>1. ASSUME NEW status \in {"PENDING", "FAILED"}, SetPaymentStatus(p, status)
        PROVE  Corrects
    BY <2>1 DEF SetPaymentStatus
  <2> QED
    BY <1>6, <2>1 DEF Money, PaymentReceived, PaymentFails, VoidPayment
<1>7. CASE Board
  <2>1. ByBoard
    BY <1>7 DEF Board, AddReportedMembership, AddMembership, DeleteMembership
  <2> QED
    BY <1>3, <2>1
<1> HIDE DEF Counts
<1>8. CASE SignUp \/ BoardCreatesFamily \/ DayPasses \/ UNCHANGED vars
  BY <1>2, <1>8 DEF SignUp, BoardCreatesFamily, DayPasses, vars
<1>9. CASE \E s \in Sessions : Renew(s)
  BY <1>2, <1>5, <1>9
<1>10. CASE \E p \in Payments : Money(p)
  BY <1>2, <1>4, <1>6, <1>10
<1> QED
  BY <1>7, <1>8, <1>9, <1>10 DEF Next

LEMMA TodayAfter ==
  ASSUME Inv, [Next]_vars
  PROVE  /\ today' \in 0..LastDay /\ today' >= FirstDay(1)
         /\ setting' \in [opens : RenewalStarts, tilts : NextYearFroms]
<1>1. today \in 0..LastDay /\ today >= FirstDay(1) /\ FirstDay(1) \in Nat
  BY YearEndIs DEF Inv, TypeOK
<1>2. setting' \in [opens : RenewalStarts, tilts : NextYearFroms]
  BY StepRows DEF RowsStep, Inv, TypeOK
<1>3. CASE today' = today
  BY <1>1, <1>2, <1>3
<1>4. CASE DayPasses
  BY <1>1, <1>2, <1>4, DaysAssumption DEF DayPasses
<1>5. ASSUME NEW s \in Sessions, Renew(s)
      PROVE  today' = today
  BY <1>5 DEF Renew, RenewReads, RenewInserts, RenewReuses, RenewFails, RenewEnds
<1>6. ASSUME NEW p \in Payments, Money(p)
      PROVE  today' = today
  <2>1. ASSUME NEW status \in {"PENDING", "FAILED"}, SetPaymentStatus(p, status)
        PROVE  today' = today
    BY <2>1 DEF SetPaymentStatus, Corrects, PaymentOnly
  <2> QED
    BY <1>6, <2>1 DEF Money, PaymentReceived, PaymentFails, VoidPayment, Corrects, PaymentOnly
<1>7. CASE Board
  <2>1. ByBoard
    BY <1>7 DEF Board, AddReportedMembership, AddMembership, DeleteMembership
  <2> QED
    BY <1>3, <2>1 DEF ByBoard
<1> QED
  BY <1>3, <1>4, <1>5, <1>6, <1>7 DEF Next, SignUp, BoardCreatesFamily, vars

-----------------------------------------------------------------------------
LEMMA InvInit == Init => Inv
<1> SUFFICES ASSUME Init PROVE Inv
  OBVIOUS
<1>1. today = FirstDay(1) /\ FirstDay(1) = DaysPerYear
  BY DaysAssumption DEF Init, FirstDay
<1>2. today \in 0..LastDay /\ today >= FirstDay(1)
  BY <1>1, DaysAssumption
<1>3. row = [i \in Rows |-> NoRow]
  BY DEF Init
<1>4. \A i \in Rows : row[i] = NoRow /\ row[i].deleted
  BY <1>3 DEF NoRow
<1>5. payment \in [Payments -> Payment] /\ session \in [Sessions -> Session]
      /\ \A s \in Sessions : ~session[s].busy
  BY NoPaymentIs, NoSessionIs DEF Init
<1>6. counts \in [board : 0..MaxBoard, corrections : 0..MaxCorrections]
  BY BoundsAssumption DEF Init
<1>7. TypeOK
  BY <1>2, <1>3, <1>4, <1>5, <1>6 DEF TypeOK, Init
<1>8. Living = {}
  BY <1>4 DEF Living
<1> QED
  BY <1>2, <1>5, <1>7, <1>8 DEF Inv, RenewalsFit, LateSignUps, Joined

LEMMA InvStep == Inv /\ [Next]_vars => Inv'
<1> SUFFICES ASSUME Inv, [Next]_vars PROVE Inv'
  OBVIOUS
<1>1. RowsStep /\ SessionsStep
  BY StepRows, StepSessions
<1>2. /\ row' \in [Rows -> Row \cup {NoRow}]
      /\ \A i \in Rows : row'[i] # NoRow =>
           /\ row'[i].from <= row'[i].to
           /\ row'[i].to = YearEnd(Year(row'[i].to))
           /\ Year(row'[i].to) - row'[i].year \in {0, 1}
  BY <1>1, RowsFitAfter DEF Fits
<1>3. TypeOK'
  BY <1>1, <1>2, PaymentsAfter, CountsAfter, TodayAfter DEF TypeOK, SessionsStep, Rows, Year, YearEnd
<1>4. (today >= FirstDay(1))'
  BY TodayAfter DEF FirstDay
<1>5. RenewalsFit' /\ LateSignUps' /\ Joined'
  BY <1>1, RenewalsFitAfter, LateSignUpsAfter, JoinedAfter
<1> QED
  BY <1>3, <1>4, <1>5 DEF Inv

\* The years, the renewals under way and the joins between periods stay in order.
THEOREM Invariant == Spec => []Inv
<1> QED BY InvInit, InvStep, PTL DEF Spec

\* Every membership, payment and renewal has its type at all times; a period ends with a
\* year, the one it is labelled with or the next.
THEOREM TypeCorrect == Spec => []TypeOK
<1>1. Inv => TypeOK
  BY DEF Inv
<1> QED BY <1>1, Invariant, PTL
-----------------------------------------------------------------------------
\* What a renewal sells, and whom it is offered to.

\* However the board, the treasurer and other renewals moved before it, what a renewal is
\* about to sell covers no day an active membership covers (#496).
THEOREM NoDayIsSoldTwice == Spec => RenewalBuysNewDays
<1>1. ASSUME Inv, [Next]_vars
      PROVE  \A s \in Sessions : RenewReads(s) =>
               \A i \in Active : \/ row[i].to < session'[s].period.from
                                 \/ session'[s].period.to < row[i].from
  <2> SUFFICES ASSUME NEW s \in Sessions, RenewReads(s), NEW i \in Active
               PROVE  row[i].to < session'[s].period.from
    OBVIOUS
  <2>1. session'[s].period = RenewalTerms(today)
    <3>1. session \in [Sessions -> Session]
      BY <1>1 DEF Inv, TypeOK
    <3> QED
      BY <3>1 DEF RenewReads
  <2>2. row[i].to < RenewalTerms(today).from
    BY <1>1, TermsAre DEF Inv
  <2> QED
    BY <2>1, <2>2
<1>2. Inv /\ [Next]_vars =>
        [\A s \in Sessions : RenewReads(s) =>
           \A i \in Active : row[i].to < session'[s].period.from \/ session'[s].period.to < row[i].from]_vars
  BY <1>1
<1> QED BY <1>2, Invariant, PTL DEF Spec, RenewalBuysNewDays

\* Whoever is shown the button to renew is not refused when it is pressed (#496).
THEOREM OffersAreKept == Spec => []OfferIsKept
<1>1. ASSUME Inv, RenewalAvailable(today), OpenPayments = {}
      PROVE  MayRenew(today)
  <2> DEFINE terms == RenewalTerms(today)
  <2>1. /\ Sound(terms) /\ terms.from \in Nat /\ terms.to \in Nat
        /\ \A i \in Active : row[i].to < terms.from
    BY <1>1, TermsAre DEF Inv, Fitting, Period
  <2>2. ValidOn(today) => RenewalOpen(today)
    <3> SUFFICES ASSUME ValidOn(today) PROVE RenewalOpen(today)
      OBVIOUS
    <3>1. PICK i \in Active : today <= row[i].to
      BY DEF ValidOn
    <3>2. today \in Nat /\ row[i].to \in Nat
      BY <1>1, TodayIs, LivingRow DEF Inv, Active
    <3>3. row[i].to >= today
      BY <3>1, <3>2
    <3>4. Covering(today) # {}
      BY <3>3 DEF Covering
    <3> QED
      BY <1>1, <3>4 DEF RenewalAvailable
  <2>3. ASSUME NEW i \in Found(terms), row[i].active
        PROVE  FALSE
    <3>1. row[i].to = terms.to
      BY <1>1, FoundEnds
    <3>2. i \in Active
      BY <2>3 DEF Found, Active
    <3>3. terms.to < terms.from
      BY <2>1, <3>1, <3>2
    <3> HIDE DEF terms
    <3> QED
      BY <2>1, <3>3 DEF Sound
  <2> QED
    BY <1>1, <2>2, <2>3 DEF MayRenew
<1>2. Inv => OfferIsKept
  BY <1>1 DEF OfferIsKept
<1> QED BY <1>2, Invariant, PTL

\* Until the board changes a year, cover that goes on beyond a day covers that day: the
\* membership that ends first after it began before it.
LEMMA NoHole ==
  ASSUME Inv, counts.board = 0, NEW day \in Nat, today <= day,
         NEW c \in Active, row[c].to >= day
  PROVE  \E m \in Active : row[m].from <= day /\ day <= row[m].to
<1> DEFINE A == { i \in Active : row[i].to >= day }
           to == [i \in Rows |-> row[i].to]
<1>1. \A i \in Active : /\ i \in Rows /\ row[i].to \in Nat /\ row[i].from \in Nat
                        /\ row[i].from <= row[i].to /\ JoinsOn(row[i].from)
  BY LivingRow DEF Inv, Joined, Active
<1>2. A \in SUBSET Rows /\ A # {} /\ \A i \in A : to[i] \in Int /\ to[i] = row[i].to
  BY <1>1
<1>3. PICK m \in A : \A i \in A : to[m] <= to[i]
  <2> HIDE DEF A, to
  <2> QED
    BY <1>2, Lowest
<1>4. ASSUME row[m].from > day
      PROVE  FALSE
  <2>1. today \in Nat
    BY TodayIs DEF Inv
  <2>2. row[m].from > today /\ row[m].from \in Nat /\ JoinsOn(row[m].from)
    BY <1>1, <1>4, <2>1
  <2>3. PICK k \in Active : row[k].to + 1 = row[m].from
    BY <2>2 DEF JoinsOn
  <2>4. row[k].to \in Nat /\ row[m].to \in Nat /\ row[m].from <= row[m].to
    BY <1>1
  <2>5. row[k].to >= day /\ row[k].to < row[m].to
    BY <1>4, <2>2, <2>3, <2>4
  <2>6. k \in A
    BY <2>5
  <2>7. row[m].to <= row[k].to
    BY <1>2, <1>3, <2>6
  <2> QED
    BY <2>4, <2>5, <2>7
<1> QED
  BY <1>1, <1>4

\* Who is covered up to a day is covered on every day until then, as long as the board
\* changes no years: every renewal joins on to what it renews.
THEOREM CoverHasNoGap == Spec => []NoGap
<1>1. ASSUME Inv, ValidOn(today), counts.board = 0, NEW day \in today..CoverageUntil(today)
      PROVE  ValidOn(day)
  <2>1. today \in Nat /\ TypeOK
    BY <1>1, TodayIs DEF Inv
  <2>2. Covering(today) # {}
    <3>1. PICK i \in Active : today <= row[i].to
      BY <1>1 DEF ValidOn
    <3>2. row[i].to \in Nat
      BY <2>1, LivingRow DEF Active
    <3>3. row[i].to >= today
      BY <2>1, <3>1, <3>2
    <3> QED
      BY <3>3 DEF Covering
  <2>3. /\ CoverageUntil(today) \in Nat
        /\ \E c \in Active : row[c].to = CoverageUntil(today)
    BY <2>1, <2>2, CoverageIs
  <2>4. day \in Nat /\ today <= day /\ CoverageUntil(today) >= day
    BY <1>1, <2>1, <2>3
  <2>5. PICK c \in Active : row[c].to >= day
    BY <2>3, <2>4
  <2> QED
    BY <1>1, <2>4, <2>5, NoHole DEF ValidOn
<1>2. Inv => NoGap
  BY <1>1 DEF NoGap
<1> QED BY <1>2, Invariant, PTL

\* Whom the campaign counts as still to renew is offered a renewal once it is open, as
\* long as the board changes no years.
THEOREM CampaignIsAnswered == Spec => []WhoMustRenewCan
<1>1. ASSUME Inv, ToRenew(today), RenewalOpen(today), counts.board = 0,
             Covering(today) # {}, ~(Year(CoverageUntil(today)) <= Year(today))
      PROVE  FALSE
  <2> DEFINE until == CoverageUntil(today)
             target == TargetYear(today)
  <2>1. /\ today \in Nat /\ TypeOK /\ Year(today) \in Nat
        /\ target \in Nat /\ target \in {Year(today), Year(today) + 1}
        /\ today <= YearEnd(Year(today)) /\ YearEnd(Year(today)) <= YearEnd(target)
    BY <1>1, TodayIs DEF Inv
  <2>2. /\ until \in Nat /\ until = YearEnd(Year(until))
        /\ \E c \in Active : row[c].to = until
    BY <1>1, <2>1, CoverageIs
  <2>3. Year(until) \in Nat
    BY <2>2, DivMod
  <2>4. ~(Year(until) <= Year(today))
    BY <1>1
  <2> HIDE DEF until
  <2>5. Year(until) >= target
    BY <2>1, <2>3, <2>4
  <2> HIDE DEF target
  <2>6. YearEnd(target) \in Nat /\ YearEnd(Year(today)) \in Nat
    BY <2>1, YearEndIs
  <2>7. /\ YearEnd(target) <= until /\ today <= YearEnd(target)
        /\ FirstDay(target) <= YearEnd(target) /\ FirstDay(target) \in Nat
    BY <2>1, <2>2, <2>3, <2>5, <2>6, YearEndGrows, YearEndIs
  <2>8. PICK c \in Active : row[c].to >= YearEnd(target)
    BY <2>2, <2>6, <2>7
  <2>9. PICK m \in Active : row[m].from <= YearEnd(target) /\ YearEnd(target) <= row[m].to
    BY <1>1, <2>6, <2>7, <2>8, NoHole
  <2>10. row[m].to \in Nat
    BY <2>1, LivingRow DEF Active
  <2>11. row[m].to >= FirstDay(target)
    BY <2>6, <2>7, <2>9, <2>10
  <2>12. CoversYear(target)
    BY <2>9, <2>11 DEF CoversYear
  <2> QED
    BY <1>1, <2>12 DEF ToRenew, target
<1>2. Inv => WhoMustRenewCan
  BY <1>1 DEF WhoMustRenewCan, RenewalAvailable
<1> QED BY <1>2, Invariant, PTL
=============================================================================
