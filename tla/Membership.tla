----------------------------- MODULE Membership -----------------------------
(***************************************************************************)
(* The memberships of one household (membership/service.py,                *)
(* portal_service.py, household_service.py): it signs up, renews from its  *)
(* own page or from the board's, pays or does not, while the board adds    *)
(* and removes years and the treasurer corrects payments.                  *)
(*                                                                         *)
(* Two renewals may overlap: each reads, decides and commits in a later    *)
(* step.  Days are numbered; a year has DaysPerYear of them, and a setting *)
(* of the tenant is a day of the year.  A payment is booked in full.       *)
(***************************************************************************)
EXTENDS Integers, FiniteSets, FiniteSetsExt

CONSTANTS
  DaysPerYear,    \* the days of a year that differ from each other
  RenewalStarts,  \* membership_renewal_start_md: days of a year; DaysPerYear is never
  NextYearFroms,  \* membership_next_year_from_md: days of a year
  Sessions,       \* requests that renew
  LastDay,        \* bound: the last day
  MaxRow,         \* bound: memberships, deleted ones included
  MaxPayment,     \* bound: payment records, deleted ones included
  MaxBoard,       \* bound: years the board or the member report adds or removes
  MaxCorrections  \* bound: payments the treasurer corrects

ASSUME DaysAssumption ==
  DaysPerYear \in Nat \ {0} /\ LastDay \in Nat /\ LastDay >= DaysPerYear
ASSUME SettingsAssumption ==
  RenewalStarts \subseteq 0..DaysPerYear /\ NextYearFroms \subseteq 0..(DaysPerYear - 1)
ASSUME BoundsAssumption ==
  MaxRow \in Nat /\ MaxPayment \in Nat /\ MaxBoard \in Nat /\ MaxCorrections \in Nat

Rows == 1..MaxRow
Payments == 1..MaxPayment

VARIABLES
  today,    \* the number of the day
  setting,  \* [opens, tilts]: RenewalStarts, NextYearFroms of the tenant
  row,      \* [Rows -> Row \cup {NoRow}]: memberships
  payment,  \* [Payments -> Payment]: their payment records
  session,  \* [Sessions -> Session]
  counts    \* [board, corrections], for the bounds

vars == <<today, setting, row, payment, session, counts>>

Year(day) == day \div DaysPerYear
DayOfYear(day) == day % DaysPerYear
FirstDay(year) == year * DaysPerYear
YearEnd(year) == year * DaysPerYear + DaysPerYear - 1

Row == [year : Nat, from : Nat, to : Nat, active : BOOLEAN, deleted : BOOLEAN]
NoRow == [year |-> 0, from |-> 0, to |-> 0, active |-> FALSE, deleted |-> TRUE]

Period == [from : Nat, to : Nat]
WholeYear(year) == [from |-> FirstDay(year), to |-> YearEnd(year)]

NewRow(year, period, active) ==
  [year |-> year, from |-> period.from, to |-> period.to, active |-> active, deleted |-> FALSE]

\* "NONE": no record, or a deleted one.
Payment == [row : 0..MaxRow, status : {"NONE", "PENDING", "PAID", "FAILED"}]
NoPayment == [row |-> 0, status |-> "NONE"]

\* A renewal: the inactive row it found for its year (0: none), and the period it buys.
NoSession == [busy |-> FALSE, target |-> 0, period |-> WholeYear(0)]
Session == [busy : BOOLEAN, target : 0..MaxRow, period : Period]

Init ==
  /\ today = FirstDay(1)
  /\ setting \in [opens : RenewalStarts, tilts : NextYearFroms]
  /\ row = [i \in Rows |-> NoRow]
  /\ payment = [p \in Payments |-> NoPayment]
  /\ session = [s \in Sessions |-> NoSession]
  /\ counts = [board |-> 0, corrections |-> 0]

-----------------------------------------------------------------------------
\* The questions about a membership.

Living == { i \in Rows : ~row[i].deleted }
Active == { i \in Living : row[i].active }

\* valid_on, has_valid_membership.
ValidOn(day) == \E i \in Active : row[i].from <= day /\ day <= row[i].to

\* What membership_coverage_until takes the furthest of: an already paid next year counts.
Covering(day) == { row[i].to : i \in { k \in Active : row[k].to >= day } }
CoverageUntil(day) == Max(Covering(day))

\* renewal_open.
RenewalOpen(day) == DayOfYear(day) >= setting.opens

Tilted(day) == DayOfYear(day) >= setting.tilts

\* Mutant: a membership lasts a year from the day it is asked.
ValidPeriodOfAYear(day) == [from |-> day, to |-> day + DaysPerYear]

\* membership_valid_period.
ValidPeriod(day) ==
  [from |-> day, to |-> YearEnd(IF Tilted(day) THEN Year(day) + 1 ELSE Year(day))]

\* Mutant: a renewal is for the next calendar year, whatever is paid already.
TermsNextYear(day) ==
  IF Covering(day) # {} THEN WholeYear(Year(day) + 1) ELSE ValidPeriod(day)

\* Mutant: a renewal starts on the day it is asked, a year after the cover began.
TermsFromAnniversary(day) ==
  IF Covering(day) # {}
  THEN [WholeYear(Year(CoverageUntil(day)) + 1) EXCEPT !.from = @ + DayOfYear(day)]
  ELSE ValidPeriod(day)

\* renewal_terms.
RenewalTerms(day) ==
  IF Covering(day) # {} THEN WholeYear(Year(CoverageUntil(day)) + 1) ELSE ValidPeriod(day)

\* Mutant: the button does not ask whether the campaign is open.
AvailableAlways(day) ==
  Covering(day) = {} \/ Year(CoverageUntil(day)) <= Year(day)

\* Mutant: cover up to the end of this year counts as next year's.
AvailableTooLate(day) ==
  Covering(day) = {} \/ (RenewalOpen(day) /\ Year(CoverageUntil(day)) < Year(day))

\* renewal_available.
RenewalAvailable(day) ==
  Covering(day) = {} \/ (RenewalOpen(day) /\ Year(CoverageUntil(day)) <= Year(day))

\* open_renewal_payment.
OpenPayments == { p \in Payments : payment[p].status = "PENDING" /\ payment[p].row \in Living }

\* members_with_membership_for_year, for the household.
CoversYear(year) ==
  \E i \in Active : row[i].from <= YearEnd(year) /\ row[i].to >= FirstDay(year)

\* renewal_years: the target; the reference is the year before.
TargetYear(day) == IF Tilted(day) THEN Year(day) + 1 ELSE Year(day)

\* members_to_renew.
ToRenew(day) == CoversYear(TargetYear(day) - 1) /\ ~CoversYear(TargetYear(day))

-----------------------------------------------------------------------------
\* The rows.

UnusedRow(i) == row[i] = NoRow /\ \A k \in Rows : row[k] = NoRow => i <= k
UnusedPayment(p) == payment[p] = NoPayment /\ \A k \in Payments : payment[k] = NoPayment => p <= k

\* Mutant: the unique index is gone.
KeyIsUnchecked(year) == TRUE

\* uq_memberships_member_year: one row of a year that is not deleted.
KeyIsFree(year) == \A i \in Living : row[i].year # year

\* check.
Sound(period) == period.from <= period.to

Insert(i, year, period, active) ==
  /\ UnusedRow(i) /\ KeyIsFree(year) /\ Sound(period)
  /\ row' = [row EXCEPT ![i] = NewRow(year, period, active)]

\* create_payment_record.
Charge(i) ==
  \E p \in Payments : /\ UnusedPayment(p)
                      /\ payment' = [payment EXCEPT ![p] = [row |-> i, status |-> "PENDING"]]

Household == \E i \in Rows : row[i] # NoRow

\* register_family: labelled with the year of today, also when it covers the next.
SignUp ==
  /\ ~Household
  /\ \E i \in Rows : Insert(i, Year(today), ValidPeriod(today), FALSE) /\ Charge(i)
  /\ UNCHANGED <<today, setting, session, counts>>

\* create_family_by_admin: active at once, and nothing to pay.
BoardCreatesFamily ==
  /\ ~Household
  /\ \E i \in Rows : Insert(i, Year(today), ValidPeriod(today), TRUE)
  /\ UNCHANGED <<today, setting, payment, session, counts>>

-----------------------------------------------------------------------------
\* renew_membership.

\* The row of the year that ends the period.
Found(period) == { i \in Living : row[i].year = Year(period.to) }

\* What it refuses, in words.
MayRenew(day) ==
  /\ ValidOn(day) => RenewalOpen(day)
  /\ OpenPayments = {}
  /\ \A i \in Found(RenewalTerms(day)) : ~row[i].active

RenewReads(s) ==
  /\ ~session[s].busy
  /\ Household
  /\ MayRenew(today)
  /\ LET period == RenewalTerms(today)
     IN \E target \in Found(period) \cup {0} :
          /\ target = 0 => Found(period) = {}
          /\ session' = [session EXCEPT ![s] = [busy |-> TRUE, target |-> target,
                                                period |-> period]]
  /\ UNCHANGED <<today, setting, row, payment, counts>>

RenewEnds(s) ==
  /\ session' = [session EXCEPT ![s] = NoSession]
  /\ UNCHANGED <<today, setting, counts>>

\* A new row, inactive until it is paid.
RenewInserts(s) ==
  /\ session[s].busy /\ session[s].target = 0
  /\ \E i \in Rows : /\ Insert(i, Year(session[s].period.to), session[s].period, FALSE)
                     /\ Charge(i)
  /\ RenewEnds(s)

\* The row of an earlier try, whatever became of it since it was read.
RenewReuses(s) ==
  /\ session[s].busy /\ session[s].target # 0
  /\ Sound(session[s].period)
  /\ row' = [row EXCEPT ![session[s].target] =
                          [@ EXCEPT !.from = session[s].period.from, !.to = session[s].period.to]]
  /\ Charge(session[s].target)
  /\ RenewEnds(s)

\* The provider, the unique index or the connection fails: all is rolled back.
RenewFails(s) ==
  /\ session[s].busy
  /\ UNCHANGED <<row, payment>>
  /\ RenewEnds(s)

-----------------------------------------------------------------------------
\* The money.

Known(p) == payment[p].status # "NONE"

\* activate_after_payment: a deleted membership is not found, an active one left alone.
Activated(i) == IF i \in Living THEN [row EXCEPT ![i].active = TRUE] ELSE row

PaymentOnly == UNCHANGED <<today, setting, session>>

\* Booked in full: by the provider's webhook, by hand or by a corrected status.
PaymentReceived(p) ==
  /\ payment[p].status \in {"PENDING", "FAILED"}
  /\ payment' = [payment EXCEPT ![p].status = "PAID"]
  /\ row' = Activated(payment[p].row)
  /\ PaymentOnly /\ UNCHANGED counts

\* It expired at the provider, or failed.
PaymentFails(p) ==
  /\ payment[p].status = "PENDING"
  /\ payment' = [payment EXCEPT ![p].status = "FAILED"]
  /\ PaymentOnly /\ UNCHANGED <<row, counts>>

Corrects ==
  /\ counts.corrections < MaxCorrections
  /\ counts' = [counts EXCEPT !.corrections = @ + 1]
  /\ PaymentOnly /\ UNCHANGED row

\* set_payment_status: the booking is taken back; the membership stays as it is.
SetPaymentStatus(p, status) ==
  /\ Known(p) /\ status \in {"PENDING", "FAILED"} \ {payment[p].status}
  /\ payment' = [payment EXCEPT ![p].status = status]
  /\ Corrects

\* void_payment_record, refused once money is booked.
VoidPayment(p) ==
  /\ payment[p].status \in {"PENDING", "FAILED"}
  /\ payment' = [payment EXCEPT ![p].status = "NONE"]
  /\ Corrects

-----------------------------------------------------------------------------
\* The board, and the member report.

ByBoard ==
  /\ counts.board < MaxBoard
  /\ counts' = [counts EXCEPT !.board = @ + 1]
  /\ UNCHANGED <<today, setting, session>>

\* create_membership_for_family (in the facade; no screen calls it): a year that is there
\* keeps its period.
AddMembership(year, active) ==
  /\ Household
  /\ \/ \E i \in Living : row[i].year = year /\ row' = [row EXCEPT ![i].active = active]
     \/ \E i \in Rows : Insert(i, year, WholeYear(year), active)
  /\ UNCHANGED payment
  /\ ByBoard

\* add_reported_membership: a year that is there stays as it is.
AddReportedMembership(year) ==
  /\ Household
  /\ \E i \in Rows : Insert(i, year, WholeYear(year), TRUE)
  /\ UNCHANGED payment
  /\ ByBoard

\* remove_memberships, of the household's form, and delete_membership: what nobody paid is not owed any more.
DeleteMembership(i) ==
  /\ i \in Living
  /\ row' = [row EXCEPT ![i].deleted = TRUE]
  /\ payment' = [p \in Payments |->
                   IF payment[p].row = i /\ payment[p].status # "PAID"
                   THEN [payment[p] EXCEPT !.status = "NONE"] ELSE payment[p]]
  /\ ByBoard

DayPasses ==
  /\ today < LastDay
  /\ today' = today + 1
  /\ UNCHANGED <<setting, row, payment, session, counts>>

-----------------------------------------------------------------------------
Renew(s) == RenewReads(s) \/ RenewInserts(s) \/ RenewReuses(s) \/ RenewFails(s)

Money(p) ==
  \/ PaymentReceived(p) \/ PaymentFails(p) \/ VoidPayment(p)
  \/ \E status \in {"PENDING", "FAILED"} : SetPaymentStatus(p, status)

Board ==
  \/ \E year \in Year(today) - 1 .. Year(today) + 1 :
       AddReportedMembership(year) \/ \E active \in BOOLEAN : AddMembership(year, active)
  \/ \E i \in Rows : DeleteMembership(i)

Next ==
  \/ SignUp \/ BoardCreatesFamily
  \/ \E s \in Sessions : Renew(s)
  \/ \E p \in Payments : Money(p)
  \/ Board
  \/ DayPasses

Spec == Init /\ [][Next]_vars

-----------------------------------------------------------------------------
\* The types; a period ends with a year, the one it is labelled with or, of a sign-up late
\* in the year, the next.
TypeOK ==
  /\ today \in 0..LastDay
  /\ setting \in [opens : RenewalStarts, tilts : NextYearFroms]
  /\ row \in [Rows -> Row \cup {NoRow}]
  /\ \A i \in Rows : row[i] # NoRow =>
       /\ row[i].from <= row[i].to
       /\ row[i].to = YearEnd(Year(row[i].to))
       /\ Year(row[i].to) - row[i].year \in {0, 1}
  /\ payment \in [Payments -> Payment]
  /\ session \in [Sessions -> Session]
  /\ counts \in [board : 0..MaxBoard, corrections : 0..MaxCorrections]

\* "Never a second" (#74, migration 053): a household has one membership of a year,
\* whoever renews, adds and reports years at the same time.
OneRowPerYear ==
  \A i, k \in Living : row[i].year = row[k].year => i = k

\* "Renewing never duplicates a year" (renewal_terms, #496): no day of what a renewal is
\* about to sell is covered by an active membership it read.
RenewalBuysNewDays ==
  [][\A s \in Sessions : RenewReads(s) =>
       \A i \in Active : row[i].to < session'[s].period.from \/ session'[s].period.to < row[i].from]_vars

\* The button that is shown does not end in a refusal (renewal_available, #496).
OfferIsKept ==
  Household /\ RenewalAvailable(today) /\ OpenPayments = {} => MayRenew(today)

\* Whom the campaign counts as still to renew is offered a renewal once it is open
\* (members_to_renew, renewal_available), unless the board changed years by hand.
WhoMustRenewCan ==
  ToRenew(today) /\ RenewalOpen(today) /\ counts.board = 0 => RenewalAvailable(today)

\* A member who is covered up to a day is a member on every day until then: a renewal
\* joins on to what it renews, unless the board changed years by hand.
NoGap ==
  ValidOn(today) /\ counts.board = 0 =>
    \A day \in today..CoverageUntil(today) : ValidOn(day)
-----------------------------------------------------------------------------
\* The inductive invariant behind the properties above.

\* An open renewal buys to the end of a year, and the row it found ends with that year.
RenewalsFit ==
  \A s \in Sessions : session[s].busy =>
    /\ Sound(session[s].period)
    /\ session[s].period.to = YearEnd(Year(session[s].period.to))
    /\ Year(session[s].period.to) > 0
    /\ session[s].target # 0 =>
         /\ row[session[s].target].year = Year(session[s].period.to)
         /\ row[session[s].target].to = session[s].period.to

\* A sign-up that covers the next year too is labelled with a year that no renewal is
\* for any more.
LateSignUps ==
  \A i \in Living : row[i].year < Year(row[i].to) => row[i].year < TargetYear(today)

\* What starts later than today starts the day after an active membership ends.
JoinsOn(from) == from > today => \E k \in Active : row[k].to + 1 = from

Joined ==
  counts.board = 0 =>
    /\ \A i \in Living : JoinsOn(row[i].from)
    /\ \A s \in Sessions : session[s].busy => JoinsOn(session[s].period.from)

Inv ==
  /\ TypeOK /\ today >= FirstDay(1)
  /\ RenewalsFit /\ LateSignUps /\ Joined
=============================================================================
