----------------------------- MODULE ShopProofs -----------------------------
(***************************************************************************)
(* Theorems about Shop, for any number of sessions, forms, orders, lines   *)
(* and variants.                                                           *)
(***************************************************************************)
EXTENDS ShopInvariant, StockOpsProofs

-----------------------------------------------------------------------------
\* The initial state.

LEMMA InitInv == Init => Inv
<1> SUFFICES ASSUME Init PROVE Inv
  OBVIOUS
<1> USE DEF Init
<1>1. NoRequest \in Request
  BY MaxLineAssumption, MaxOrderAssumption DEF NoRequest, Request, NoForm
<1>2. TypeOK
  BY <1>1 DEF TypeOK, NoReservation, NoLine, NoOrder, OrderRow, NoForm, Steps
<1>3. StepsFitKind
  BY DEF StepsFitKind, StepsOf, NoRequest
<1>4. InputsExist
  BY DEF InputsExist, NoRequest
<1>5. InsertedIsOwn
  BY DEF InsertedIsOwn
<1>6. WritesFitKind /\ LocksExclusive /\ WrittenUnderLock
  BY DEF WritesFitKind, LocksExclusive, WrittenUnderLock
<1>7. RowsAgree /\ IssuedOnce
  BY DEF RowsAgree, IssuedOnce, NoReservation
<1> QED
  BY <1>2, <1>3, <1>4, <1>5, <1>6, <1>7 DEF Inv

-----------------------------------------------------------------------------
\* Locks.

\* A request only wants locks that exist.
LEMMA WantedAreResources ==
  ASSUME Inv, NEW p \in Clerks
  PROVE  Wanted(p) \subseteq Resources
<1> USE DEF Inv
<1>1. \A l \in Lines : line[l] # NoLine => VariantLock(l) \in Resources
  BY DEF TypeOK, LineRow, VariantLock, Resources
<1>2. \A l \in Lines : Committed(l) => line[l] # NoLine
  BY DEF TypeOK, Committed, RowsAgree, NoReservation
<1>3. CASE pc[p] = "insert_order"
  <2>1. req[p].kind = "place"
    BY <1>3 DEF StepsFitKind, StepsOf, TypeOK, Request
  <2>2. req[p].form \in Forms
    BY <2>1 DEF InputsExist
  <2>3. Wanted(p) = {<<"form", req[p].form>>}
    BY <1>3 DEF Wanted, Flushes
  <2> QED
    BY <2>2, <2>3 DEF Resources
<1>4. CASE pc[p] = "lock_line"
  <2>1. req[p].kind = "deliver"
    BY <1>4 DEF StepsFitKind, StepsOf, TypeOK, Request
  <2>2. req[p].line \in Lines
    BY <2>1 DEF InputsExist
  <2>3. Wanted(p) = {<<"line", req[p].line>>}
    BY <1>4 DEF Wanted, Flushes
  <2> QED
    BY <2>2, <2>3 DEF Resources
<1>5. CASE pc[p] = "reserve"
  BY <1>1, <1>5 DEF InsertedIsOwn, Wanted, Flushes
<1>6. CASE pc[p] = "issue_locked"
  <2>1. req[p].kind = "deliver"
    BY <1>6 DEF StepsFitKind, StepsOf, TypeOK, Request
  <2>2. req[p].line \in Lines /\ line[req[p].line] # NoLine
    BY <1>2, <2>1 DEF InputsExist
  <2>3. Wanted(p) = {VariantLock(req[p].line)}
    BY <1>6 DEF Wanted, Flushes
  <2> QED
    BY <1>1, <2>2, <2>3
<1>7. CASE pc[p] = "release_locked"
  <2>1. \A l \in FirstToDrop(p) : l \in Lines /\ line[l] # NoLine
    BY <1>2 DEF InputsExist, FirstToDrop, TypeOK, Request
  <2>2. Wanted(p) = { VariantLock(l) : l \in FirstToDrop(p) }
    BY <1>7 DEF Wanted, Flushes
  <2> QED
    BY <1>1, <2>1, <2>2
<1>8. CASE pc[p] \in {"item", "flush"}
  <2>1. Wanted(p) \in { {}, { <<"line", l>> : l \in dropped[p] } }
    BY <1>8 DEF Wanted, Flushes
  <2>2. dropped[p] \subseteq Lines
    BY DEF TypeOK
  <2> QED
    BY <2>1, <2>2 DEF Resources
<1>9. CASE pc[p] \notin {"insert_order", "lock_line", "reserve", "issue_locked",
                         "release_locked", "item", "flush"}
  BY <1>9 DEF Wanted, Flushes
<1> QED
  BY <1>3, <1>4, <1>5, <1>6, <1>7, <1>8, <1>9

\* A lock is taken when nobody else has it, and is kept.
LEMMA TakeIsExclusive ==
  ASSUME Inv, NEW p \in Clerks, Take(p)
  PROVE  /\ locks' \in [Clerks -> SUBSET Resources]
         /\ LocksExclusive'
         /\ \A q \in Clerks : locks[q] \subseteq locks'[q]
         /\ Wanted(p) \subseteq locks'[p]
<1>1. locks \in [Clerks -> SUBSET Resources] /\ LocksExclusive
  BY DEF Inv, TypeOK
<1>2. Wanted(p) \subseteq Resources
  BY WantedAreResources
<1>3. locks' = [locks EXCEPT ![p] = @ \cup Wanted(p)]
  BY DEF Take
<1>4. \A q \in Clerks : q # p => Wanted(p) \cap locks[q] = {}
  BY DEF Take, Free, WaitsFor
<1> QED
  BY <1>1, <1>2, <1>3, <1>4 DEF LocksExclusive

\* Locks that nobody takes stay as they are.
LEMMA LocksKept ==
  ASSUME Inv, UNCHANGED locks
  PROVE  /\ locks' \in [Clerks -> SUBSET Resources]
         /\ LocksExclusive'
         /\ \A q \in Clerks : locks[q] \subseteq locks'[q]
BY DEF Inv, TypeOK, LocksExclusive

-----------------------------------------------------------------------------
\* Steps that read, and write no row.

\* What a request knows may change, and the locks may grow, when it fits the
\* kind of the request.
LEMMA SessionStep ==
  ASSUME Inv, NEW p \in Clerks,
         UNCHANGED <<rows, made, freed, handed>>,
         NEW there \in Steps, there # "reserve", pc' = [pc EXCEPT ![p] = there],
         NEW r \in Request, req' = [req EXCEPT ![p] = r],
         there \in StepsOf(r.kind),
         r.kind = "place" => r.form \in Forms,
         there \notin {"idle", "insert_order"} => r.order \in Orders,
         r.todo \subseteq DOMAIN r.basket,
         \A l \in r.drop : Committed(l),
         r.kind = "deliver" => r.line \in Lines /\ Committed(r.line),
         made[p] # {} => there \in {"item", "commit"} /\ r.kind \in {"place", "change"},
         freed[p] # {} => r.kind \in {"change", "cancel"},
         handed[p] # {} => r.kind = "deliver",
         dropped' \in [Clerks -> SUBSET Lines],
         locks' \in [Clerks -> SUBSET Resources],
         LocksExclusive',
         \A q \in Clerks : locks[q] \subseteq locks'[q]
  PROVE  Inv'
<1> USE DEF Inv
<1>1. TypeOK'
  BY DEF TypeOK, rows
<1>2. StepsFitKind'
  BY DEF TypeOK, StepsFitKind
<1>3. InputsExist'
  <2>1. \A l : Committed(l)' <=> Committed(l)
    BY DEF Committed, rows
  <2>2. pc'[p] = there /\ req'[p] = r
    BY DEF TypeOK
  <2>3. \A q \in Clerks : q # p => pc'[q] = pc[q] /\ req'[q] = req[q]
    BY DEF TypeOK
  <2> QED
    BY <2>1, <2>2, <2>3 DEF InputsExist, Committed, rows
<1>4. InsertedIsOwn'
  BY DEF TypeOK, InsertedIsOwn, rows
<1>5. WritesFitKind'
  BY DEF TypeOK, WritesFitKind
<1>6. RowsAgree' /\ IssuedOnce'
  BY DEF RowsAgree, IssuedOnce, rows
<1>7. WrittenUnderLock'
  BY DEF TypeOK, WrittenUnderLock, VariantLock, rows
<1> QED
  BY <1>1, <1>2, <1>3, <1>4, <1>5, <1>6, <1>7

\* What the state of the request says about its writes.
LEMMA WritesOfKind ==
  ASSUME Inv, NEW p \in Clerks
  PROVE  /\ req[p].kind = "none" => made[p] = {} /\ freed[p] = {} /\ handed[p] = {}
         /\ pc[p] \notin {"item", "reserve", "commit"} => made[p] = {}
         /\ req[p].kind \notin {"place", "change"} => made[p] = {}
         /\ req[p].kind \notin {"change", "cancel"} => freed[p] = {}
         /\ req[p].kind # "deliver" => handed[p] = {}
BY DEF Inv, WritesFitKind

\* What the step of a request says about its kind.
LEMMA KindOfStep ==
  ASSUME Inv, NEW p \in Clerks
  PROVE  /\ req[p].kind \in {"none", "place", "change", "cancel", "deliver"}
         /\ pc[p] = "idle" => req[p].kind = "none"
         /\ pc[p] = "insert_order" => req[p].kind = "place"
         /\ pc[p] \in {"item", "reserve"} => req[p].kind \in {"place", "change"}
         /\ pc[p] \in {"release", "release_locked", "flush"} => req[p].kind \in {"change", "cancel"}
         /\ pc[p] \in {"lock_line", "issue", "issue_locked"} => req[p].kind = "deliver"
<1>1. req[p].kind \in {"none", "place", "change", "cancel", "deliver"}
  BY DEF Inv, TypeOK, Request
<1> QED
  BY <1>1 DEF Inv, StepsFitKind, StepsOf

\* A basket's positions hold items.
LEMMA BasketItems ==
  ASSUME NEW basket \in Baskets \cup Targets \cup { << >> }
  PROVE  /\ DOMAIN basket \subseteq Nat
         /\ \A i \in DOMAIN basket : basket[i] \in Item
BY BasketsAssumption

\* The lines of an order are committed.
LEMMA LinesAreCommitted ==
  ASSUME NEW o
  PROVE  LinesOf(o) \subseteq Lines /\ \A l \in LinesOf(o) : Committed(l)
BY DEF LinesOf, Committed

LEMMA SubmitOrderStep ==
  ASSUME Inv, NEW p \in Clerks, NEW f \in Forms, NEW basket \in Baskets,
         SubmitOrder(p, f, basket)
  PROVE  Inv'
<1> DEFINE r == [kind |-> "place", form |-> f, order |-> 0, line |-> 0, basket |-> basket,
                 todo |-> DOMAIN basket, drop |-> {}, due |-> 0]
<1>1. pc[p] = "idle" /\ pc' = [pc EXCEPT ![p] = "insert_order"] /\ req' = [req EXCEPT ![p] = r]
  BY DEF SubmitOrder, Step, Serve
<1>2. r \in Request
  BY BasketItems, MaxLineAssumption, MaxOrderAssumption DEF Request
<1>3. /\ r.kind = "place" /\ r.form = f /\ r.todo = DOMAIN r.basket /\ r.drop = {}
      /\ "insert_order" \in StepsOf(r.kind)
  BY DEF StepsOf
<1>4. made[p] = {} /\ freed[p] = {} /\ handed[p] = {}
  BY <1>1, KindOfStep, WritesOfKind
<1> HIDE DEF r
<1> QED
  BY <1>1, <1>2, <1>3, <1>4, SessionStep, LocksKept DEF SubmitOrder, Steps, Inv, TypeOK

LEMMA StartChangeStep ==
  ASSUME Inv, NEW p \in Clerks, NEW o \in Orders, NEW target \in Targets,
         StartChange(p, o, target)
  PROVE  Inv'
<1> DEFINE r == [kind |-> "change", form |-> NoForm, order |-> o, line |-> 0, basket |-> target,
                 todo |-> { i \in DOMAIN target : ~Stays(o, target, i) },
                 drop |-> { l \in LinesOf(o) \ delivered : ~Kept(o, target, l) }, due |-> 0]
<1>1. pc[p] = "idle" /\ pc' = [pc EXCEPT ![p] = "release"] /\ req' = [req EXCEPT ![p] = r]
  BY DEF StartChange, Step, Serve
<1>2. /\ r.kind = "change" /\ r.order = o /\ r.todo \subseteq DOMAIN r.basket
      /\ r.drop \subseteq LinesOf(o) /\ "release" \in StepsOf(r.kind)
  BY DEF StepsOf
<1>3. r \in Request
  <2>1. { i \in DOMAIN target : ~Stays(o, target, i) } \in SUBSET Nat
    BY BasketItems
  <2>2. { l \in LinesOf(o) \ delivered : ~Kept(o, target, l) } \in SUBSET Lines
    BY LinesAreCommitted
  <2> QED
    BY <2>1, <2>2, MaxLineAssumption, MaxOrderAssumption DEF Request, Orders
<1>4. made[p] = {} /\ freed[p] = {} /\ handed[p] = {}
  BY <1>1, KindOfStep, WritesOfKind
<1>5. \A l \in r.drop : Committed(l)
  BY <1>2, LinesAreCommitted
<1>6. UNCHANGED <<rows, made, freed, handed, dropped, locks>>
  BY DEF StartChange
<1>7. dropped' \in [Clerks -> SUBSET Lines]
  BY <1>6 DEF Inv, TypeOK
<1> HIDE DEF r
<1> QED
  BY <1>1, <1>2, <1>3, <1>4, <1>5, <1>6, <1>7, SessionStep, LocksKept DEF Steps

LEMMA StartCancelStep ==
  ASSUME Inv, NEW p \in Clerks, NEW o \in Orders, StartCancel(p, o)
  PROVE  Inv'
<1> DEFINE r == [kind |-> "cancel", form |-> NoForm, order |-> o, line |-> 0, basket |-> << >>,
                 todo |-> {}, drop |-> LinesOf(o), due |-> 0]
<1>1. pc[p] = "idle" /\ pc' = [pc EXCEPT ![p] = "release"] /\ req' = [req EXCEPT ![p] = r]
  BY DEF StartCancel, Step, Serve
<1>2. /\ r.kind = "cancel" /\ r.order = o /\ r.todo = {} /\ r.drop = LinesOf(o)
      /\ "release" \in StepsOf(r.kind)
  BY DEF StepsOf
<1>3. r \in Request
  BY LinesAreCommitted, MaxLineAssumption, MaxOrderAssumption DEF Request, Orders
<1>4. made[p] = {} /\ freed[p] = {} /\ handed[p] = {}
  BY <1>1, KindOfStep, WritesOfKind
<1>5. \A l \in r.drop : Committed(l)
  BY <1>2, LinesAreCommitted
<1>6. UNCHANGED <<rows, made, freed, handed, dropped, locks>>
  BY DEF StartCancel
<1>7. dropped' \in [Clerks -> SUBSET Lines]
  BY <1>6 DEF Inv, TypeOK
<1> HIDE DEF r
<1> QED
  BY <1>1, <1>2, <1>3, <1>4, <1>5, <1>6, <1>7, SessionStep, LocksKept DEF Steps

LEMMA StartDeliverStep ==
  ASSUME Inv, NEW p \in Clerks, NEW o \in Orders, NEW l \in Lines, StartDeliver(p, o, l)
  PROVE  Inv'
<1> DEFINE r == [kind |-> "deliver", form |-> NoForm, order |-> o, line |-> l, basket |-> << >>,
                 todo |-> {}, drop |-> {}, due |-> 0]
<1>1. /\ pc[p] = "idle" /\ pc' = [pc EXCEPT ![p] = "lock_line"] /\ req' = [req EXCEPT ![p] = r]
      /\ l \in LinesOf(o)
  BY DEF StartDeliver, Step, Serve
<1>2. /\ r.kind = "deliver" /\ r.order = o /\ r.line = l /\ r.todo = {} /\ r.drop = {}
      /\ "lock_line" \in StepsOf(r.kind)
  BY DEF StepsOf
<1>3. r \in Request
  BY MaxLineAssumption, MaxOrderAssumption DEF Request, Orders, Lines
<1>4. made[p] = {} /\ freed[p] = {} /\ handed[p] = {}
  BY <1>1, KindOfStep, WritesOfKind
<1> HIDE DEF r
<1> QED
  BY <1>1, <1>2, <1>3, <1>4, LinesAreCommitted, SessionStep, LocksKept
     DEF StartDeliver, Steps, Inv, TypeOK

\* The request goes on and keeps what it knows.
LEMMA MoveOn ==
  ASSUME Inv, NEW p \in Clerks,
         UNCHANGED <<rows, req, made, freed, handed, dropped>>,
         NEW there \in {"item", "release_locked", "issue", "issue_locked", "commit"},
         pc' = [pc EXCEPT ![p] = there],
         there \in StepsOf(req[p].kind),
         pc[p] \notin {"idle", "insert_order"},
         made[p] # {} => there \in {"item", "commit"},
         locks' \in [Clerks -> SUBSET Resources],
         LocksExclusive',
         \A q \in Clerks : locks[q] \subseteq locks'[q]
  PROVE  Inv'
<1> DEFINE r == req[p]
<1>1. r \in Request /\ req' = [req EXCEPT ![p] = r]
  BY DEF Inv, TypeOK
<1>2. /\ r.kind = "place" => r.form \in Forms
      /\ r.order \in Orders
      /\ r.todo \subseteq DOMAIN r.basket
      /\ \A l \in r.drop : Committed(l)
      /\ r.kind = "deliver" => r.line \in Lines /\ Committed(r.line)
  BY DEF Inv, InputsExist
<1>3. /\ made[p] # {} => r.kind \in {"place", "change"}
      /\ freed[p] # {} => r.kind \in {"change", "cancel"}
      /\ handed[p] # {} => r.kind = "deliver"
  BY DEF Inv, WritesFitKind
<1>4. dropped' \in [Clerks -> SUBSET Lines]
  BY DEF Inv, TypeOK
<1>5. there \in StepsOf(r.kind)
  OBVIOUS
<1>6. there \in Steps /\ there # "reserve"
  BY DEF Steps
<1> HIDE DEF r
<1> QED
  BY <1>1, <1>2, <1>3, <1>4, <1>5, <1>6, SessionStep

LEMMA ReadReservationStep ==
  ASSUME Inv, NEW p \in Clerks, NEW l, ReadReservation(p, l)
  PROVE  Inv'
<1>1. "release_locked" \in StepsOf(req[p].kind) /\ made[p] = {}
  BY KindOfStep, WritesOfKind DEF ReadReservation, Step, StepsOf
<1> QED
  BY <1>1, MoveOn, LocksKept DEF ReadReservation, Step

LEMMA StartAddingStep ==
  ASSUME Inv, NEW p \in Clerks, StartAdding(p)
  PROVE  Inv'
<1>1. "item" \in StepsOf(req[p].kind)
  BY DEF StartAdding, StepsOf
<1> QED
  BY <1>1, MoveOn, LocksKept DEF StartAdding, Step

LEMMA CancelOrderStep ==
  ASSUME Inv, NEW p \in Clerks, CancelOrder(p)
  PROVE  Inv'
<1>1. "commit" \in StepsOf(req[p].kind)
  BY DEF CancelOrder, StepsOf
<1> QED
  BY <1>1, MoveOn, LocksKept DEF CancelOrder, Step

LEMMA LockLineStep ==
  ASSUME Inv, NEW p \in Clerks, LockLine(p)
  PROVE  Inv'
<1>1. "issue" \in StepsOf(req[p].kind) /\ made[p] = {}
  BY KindOfStep, WritesOfKind DEF LockLine, Step, StepsOf
<1> QED
  BY <1>1, MoveOn, TakeIsExclusive DEF LockLine, Step

LEMMA IssueNothingStep ==
  ASSUME Inv, NEW p \in Clerks, IssueNothing(p)
  PROVE  Inv'
<1>1. "commit" \in StepsOf(req[p].kind)
  BY KindOfStep DEF IssueNothing, Step, StepsOf
<1> QED
  BY <1>1, MoveOn, LocksKept DEF IssueNothing, Step

LEMMA IssueReadStep ==
  ASSUME Inv, NEW p \in Clerks, IssueRead(p)
  PROVE  Inv'
<1>1. "issue_locked" \in StepsOf(req[p].kind) /\ made[p] = {}
  BY KindOfStep, WritesOfKind DEF IssueRead, Step, StepsOf
<1> QED
  BY <1>1, MoveOn, LocksKept DEF IssueRead, Step

LEMMA PublishStep ==
  ASSUME Inv, NEW p \in Clerks, Publish(p)
  PROVE  Inv'
<1> DEFINE r == [req[p] EXCEPT !.due = TotalFor(p)]
<1>1. TotalFor(p) \in Nat
  <2> DEFINE mine == (LinesOf(req[p].order) \cup made[p]) \ dropped[p]
             pieces == { piece \in mine \X Quantities : piece[2] <= line[piece[1]].quantity }
  <2>1. mine \subseteq Lines
    BY DEF LinesOf, Inv, TypeOK
  <2>0. IsFiniteSet(Lines) /\ IsFiniteSet(Quantities)
    BY FS_Interval, MaxLineAssumption, MaxQuantityAssumption DEF Lines, Quantities
  <2>2. IsFiniteSet(Lines \X Quantities)
    BY <2>0, FS_Product
  <2>3. pieces \subseteq Lines \X Quantities
    BY <2>1
  <2>4. IsFiniteSet(pieces)
    BY <2>2, <2>3, FS_Subset
  <2>5. Cardinality(pieces) \in Nat
    BY <2>4, FS_CardinalityType
  <2> QED
    BY <2>5 DEF TotalFor
<1>2. req[p] \in Request
  BY DEF Inv, TypeOK
<1>3. r \in Request
  BY <1>1, <1>2 DEF Request
<1>4. /\ r.kind = req[p].kind /\ r.form = req[p].form /\ r.order = req[p].order
      /\ r.line = req[p].line /\ r.basket = req[p].basket /\ r.todo = req[p].todo
      /\ r.drop = req[p].drop
  BY <1>2 DEF Request
<1>5. req' = [req EXCEPT ![p] = r] /\ pc[p] = "item" /\ pc' = [pc EXCEPT ![p] = "commit"]
  BY DEF Publish, Step
<1>6. UNCHANGED <<rows, made, freed, handed, dropped>> /\ Take(p)
  BY DEF Publish
<1>7. r.kind \in {"place", "change"} /\ "commit" \in StepsOf(r.kind) /\ "commit" \in Steps
  BY <1>4, <1>5, KindOfStep DEF StepsOf, Steps
<1>8. /\ r.kind = "place" => r.form \in Forms
      /\ r.order \in Orders
      /\ r.todo \subseteq DOMAIN r.basket
      /\ \A l \in r.drop : Committed(l)
      /\ r.kind = "deliver" => r.line \in Lines /\ Committed(r.line)
  BY <1>4, <1>5 DEF Inv, InputsExist
<1>9. /\ freed[p] # {} => r.kind \in {"change", "cancel"}
      /\ handed[p] # {} => r.kind = "deliver"
  BY <1>4 DEF Inv, WritesFitKind
<1>10. dropped' \in [Clerks -> SUBSET Lines]
  BY <1>6 DEF Inv, TypeOK
<1> HIDE DEF r
<1> QED
  BY <1>3, <1>5, <1>6, <1>7, <1>8, <1>9, <1>10, SessionStep, TakeIsExclusive

-----------------------------------------------------------------------------
\* Steps that release or issue, and write no row.

\* Under the lock of its variant a request closes reservations that are open.
LEMMA CloseStep ==
  ASSUME Inv, NEW p \in Clerks,
         UNCHANGED <<rows, made>>, made[p] = {},
         NEW there \in Steps, there # "reserve", pc' = [pc EXCEPT ![p] = there],
         NEW r \in Request, req' = [req EXCEPT ![p] = r],
         there \in StepsOf(r.kind),
         r.kind # "place",
         r.order \in Orders,
         r.todo \subseteq DOMAIN r.basket,
         \A l \in r.drop : Committed(l),
         r.kind = "deliver" => r.line \in Lines /\ Committed(r.line),
         freed' \in [Clerks -> SUBSET Lines], handed' \in [Clerks -> SUBSET Lines],
         \A q \in Clerks : q # p => freed'[q] = freed[q] /\ handed'[q] = handed[q],
         freed'[p] # {} => r.kind \in {"change", "cancel"},
         handed'[p] # {} => r.kind = "deliver",
         \A l \in freed'[p] \cup handed'[p] :
           reservation[l].status = "OPEN" /\ VariantLock(l) \in locks'[p],
         dropped' \in [Clerks -> SUBSET Lines],
         locks' \in [Clerks -> SUBSET Resources],
         LocksExclusive',
         \A q \in Clerks : locks[q] \subseteq locks'[q]
  PROVE  Inv'
<1> USE DEF Inv
<1>1. TypeOK'
  BY DEF TypeOK, rows
<1>2. StepsFitKind'
  BY DEF TypeOK, StepsFitKind
<1>3. InputsExist'
  <2>1. \A l : Committed(l)' <=> Committed(l)
    BY DEF Committed, rows
  <2>2. pc'[p] = there /\ req'[p] = r
    BY DEF TypeOK
  <2>3. \A q \in Clerks : q # p => pc'[q] = pc[q] /\ req'[q] = req[q]
    BY DEF TypeOK
  <2> QED
    BY <2>1, <2>2, <2>3 DEF InputsExist, Committed, rows
<1>4. InsertedIsOwn'
  BY DEF TypeOK, InsertedIsOwn, rows
<1>5. WritesFitKind'
  BY DEF TypeOK, WritesFitKind
<1>6. RowsAgree' /\ IssuedOnce'
  BY DEF RowsAgree, IssuedOnce, rows
<1>7. WrittenUnderLock'
  <2>3. \A l : VariantLock(l)' = VariantLock(l) /\ reservation'[l] = reservation[l]
    BY DEF VariantLock, rows
  <2>4. \A q \in Clerks : made'[q] = made[q]
    OBVIOUS
  <2>5. ASSUME NEW q \in Clerks, q # p
        PROVE  \A l \in freed'[q] \cup handed'[q] :
                 reservation[l].status = "OPEN" /\ VariantLock(l) \in locks'[q]
    BY <2>5 DEF WrittenUnderLock
  <2>6. \A q \in Clerks : \A l \in made[q] :
          reservation[l].status = "PENDING" /\ VariantLock(l) \in locks'[q]
    BY DEF WrittenUnderLock
  <2>7. \A q \in Clerks : \A l \in freed'[q] \cup handed'[q] :
          reservation[l].status = "OPEN" /\ VariantLock(l) \in locks'[q]
    BY <2>5
  <2> HIDE DEF Inv
  <2> QED
    BY <2>3, <2>4, <2>6, <2>7 DEF WrittenUnderLock
<1> QED
  BY <1>1, <1>2, <1>3, <1>4, <1>5, <1>6, <1>7

\* The line is done: it leaves the lines still to release.
LEMMA DropRequest ==
  ASSUME Inv, NEW p \in Clerks, NEW l \in Lines, Drop(p, l),
         pc[p] \in {"release", "flush"}
  PROVE  \E r \in Request :
           /\ req' = [req EXCEPT ![p] = r]
           /\ r.kind = req[p].kind
           /\ r.order \in Orders
           /\ r.todo \subseteq DOMAIN r.basket
           /\ \A k \in r.drop : Committed(k)
           /\ dropped' \in [Clerks -> SUBSET Lines]
<1> DEFINE r == [req[p] EXCEPT !.drop = req[p].drop \ {l}]
<1>1. req[p] \in Request
  BY DEF Inv, TypeOK
<1>2. req[p].drop \ {l} \in SUBSET Lines
  BY <1>1 DEF Request
<1>3. r \in Request
  BY <1>1, <1>2 DEF Request
<1>4. /\ r.kind = req[p].kind /\ r.order = req[p].order /\ r.basket = req[p].basket
      /\ r.todo = req[p].todo /\ r.drop = req[p].drop \ {l}
  BY <1>1 DEF Request
<1>5. req' = [req EXCEPT ![p] = r]
  BY DEF Drop
<1>6. dropped' \in [Clerks -> SUBSET Lines]
  BY DEF Drop, Inv, TypeOK
<1>7. /\ req[p].order \in Orders /\ req[p].todo \subseteq DOMAIN req[p].basket
      /\ \A k \in req[p].drop : Committed(k)
  BY DEF Inv, InputsExist
<1> HIDE DEF r
<1> QED
  BY <1>3, <1>4, <1>5, <1>6, <1>7

LEMMA ReleaseNothingStep ==
  ASSUME Inv, NEW p \in Clerks, NEW l \in Lines, ReleaseNothing(p, l)
  PROVE  Inv'
<1>1. /\ pc[p] = "release" /\ Drop(p, l)
      /\ UNCHANGED <<rows, pc, made, freed, handed, locks>>
  BY DEF ReleaseNothing
<1>2. PICK r \in Request :
        /\ req' = [req EXCEPT ![p] = r]
        /\ r.kind = req[p].kind
        /\ r.order \in Orders
        /\ r.todo \subseteq DOMAIN r.basket
        /\ \A k \in r.drop : Committed(k)
        /\ dropped' \in [Clerks -> SUBSET Lines]
  BY <1>1, DropRequest
<1>3. r.kind \in {"change", "cancel"} /\ "release" \in StepsOf(r.kind) /\ "release" \in Steps
  BY <1>1, <1>2, KindOfStep DEF StepsOf, Steps
<1>4. pc' = [pc EXCEPT ![p] = "release"]
  BY <1>1 DEF Inv, TypeOK
<1>5. made[p] = {} /\ handed[p] = {}
  BY <1>1, <1>2, <1>3, WritesOfKind
<1> QED
  BY <1>1, <1>2, <1>3, <1>4, <1>5, SessionStep, LocksKept

LEMMA FlushStep ==
  ASSUME Inv, NEW p \in Clerks, NEW l \in Lines, Flush(p, l)
  PROVE  Inv'
<1>1. /\ pc[p] = "flush" /\ pc' = [pc EXCEPT ![p] = "release"]
      /\ Take(p) /\ Drop(p, l)
      /\ UNCHANGED <<rows, made, freed, handed>>
  BY DEF Flush, Step
<1>2. PICK r \in Request :
        /\ req' = [req EXCEPT ![p] = r]
        /\ r.kind = req[p].kind
        /\ r.order \in Orders
        /\ r.todo \subseteq DOMAIN r.basket
        /\ \A k \in r.drop : Committed(k)
        /\ dropped' \in [Clerks -> SUBSET Lines]
  BY <1>1, DropRequest
<1>3. r.kind \in {"change", "cancel"} /\ "release" \in StepsOf(r.kind) /\ "release" \in Steps
  BY <1>1, <1>2, KindOfStep DEF StepsOf, Steps
<1>4. made[p] = {} /\ handed[p] = {}
  BY <1>1, <1>2, <1>3, WritesOfKind
<1> QED
  BY <1>1, <1>2, <1>3, <1>4, SessionStep, TakeIsExclusive

LEMMA ReleaseStep ==
  ASSUME Inv, NEW p \in Clerks, NEW l \in Lines, Release(p, l)
  PROVE  Inv'
<1> DEFINE F == freed[p] \cup StillOpen(p, l)
<1>1. /\ pc[p] = "release_locked" /\ pc' = [pc EXCEPT ![p] = "flush"]
      /\ l \in FirstToDrop(p) /\ Take(p)
      /\ freed' = [freed EXCEPT ![p] = F]
      /\ UNCHANGED <<rows, req, made, handed, dropped>>
  BY DEF Release, Step
<1>2. req[p] \in Request /\ req' = [req EXCEPT ![p] = req[p]]
  BY <1>1 DEF Inv, TypeOK
<1>3. /\ req[p].kind \in {"change", "cancel"} /\ "flush" \in StepsOf(req[p].kind)
      /\ "flush" \in Steps
  BY <1>1, KindOfStep DEF StepsOf, Steps
<1>4. made[p] = {} /\ handed[p] = {}
  BY <1>1, <1>3, WritesOfKind
<1>5. F \in SUBSET Lines
  BY DEF StillOpen, Inv, TypeOK, OpenFor, Open
<1>6. /\ freed' \in [Clerks -> SUBSET Lines] /\ handed' \in [Clerks -> SUBSET Lines]
      /\ freed'[p] = F /\ handed'[p] = {}
      /\ \A q \in Clerks : q # p => freed'[q] = freed[q] /\ handed'[q] = handed[q]
  BY <1>1, <1>4, <1>5 DEF Inv, TypeOK
<1>7. VariantLock(l) \in locks'[p]
  BY <1>1, TakeIsExclusive DEF Wanted, Flushes
<1>8. \A k \in StillOpen(p, l) : k = l /\ reservation[k].status = "OPEN"
  BY <1>4 DEF StillOpen, OpenFor, Open
<1>9. \A k \in freed[p] : reservation[k].status = "OPEN" /\ VariantLock(k) \in locks'[p]
  BY <1>1, TakeIsExclusive DEF Inv, WrittenUnderLock
<1>10. \A k \in freed'[p] \cup handed'[p] :
         reservation[k].status = "OPEN" /\ VariantLock(k) \in locks'[p]
  BY <1>6, <1>7, <1>8, <1>9
<1>11. /\ locks' \in [Clerks -> SUBSET Resources]
       /\ LocksExclusive'
       /\ \A q \in Clerks : locks[q] \subseteq locks'[q]
  BY <1>1, TakeIsExclusive
<1>12. /\ req[p].order \in Orders /\ req[p].todo \subseteq DOMAIN req[p].basket
       /\ \A k \in req[p].drop : Committed(k)
  BY <1>1 DEF Inv, InputsExist
<1>13. UNCHANGED <<rows, made>> /\ dropped' \in [Clerks -> SUBSET Lines]
  BY <1>1 DEF Inv, TypeOK
<1> HIDE DEF F
<1> QED
  BY <1>1, <1>2, <1>3, <1>4, <1>6, <1>10, <1>11, <1>12, <1>13, CloseStep

LEMMA IssueStep ==
  ASSUME Inv, NEW p \in Clerks, Issue(p)
  PROVE  Inv'
<1> DEFINE l == req[p].line
           H == StillOpen(p, l)
<1>1. /\ pc[p] = "issue_locked" /\ pc' = [pc EXCEPT ![p] = "commit"]
      /\ Take(p)
      /\ handed' = [handed EXCEPT ![p] = H]
      /\ UNCHANGED <<rows, req, made, freed, dropped>>
  BY DEF Issue, Step
<1>2. req[p].kind = "deliver" /\ "commit" \in StepsOf(req[p].kind) /\ "commit" \in Steps
  BY <1>1, KindOfStep DEF StepsOf, Steps
<1>3. req[p] \in Request /\ req' = [req EXCEPT ![p] = req[p]]
  BY <1>1 DEF Inv, TypeOK
<1>4. made[p] = {} /\ freed[p] = {}
  BY <1>1, <1>2, WritesOfKind
<1>5. H \in SUBSET Lines
  BY DEF StillOpen, OpenFor, Open, Inv, TypeOK
<1>6. VariantLock(l) \in locks'[p]
  BY <1>1, TakeIsExclusive DEF Wanted, Flushes
<1>7. /\ freed' \in [Clerks -> SUBSET Lines] /\ handed' \in [Clerks -> SUBSET Lines]
      /\ freed'[p] = {} /\ handed'[p] = H
      /\ \A q \in Clerks : q # p => freed'[q] = freed[q] /\ handed'[q] = handed[q]
  BY <1>1, <1>4, <1>5 DEF Inv, TypeOK
<1>12. \A k \in H : reservation[k].status = "OPEN" /\ VariantLock(k) \in locks'[p]
  BY <1>4, <1>6 DEF StillOpen, OpenFor, Open
<1>13. \A k \in freed'[p] \cup handed'[p] :
         reservation[k].status = "OPEN" /\ VariantLock(k) \in locks'[p]
  BY <1>7, <1>12
<1>8. /\ req[p].order \in Orders /\ req[p].todo \subseteq DOMAIN req[p].basket
      /\ \A k \in req[p].drop : Committed(k)
      /\ req[p].line \in Lines /\ Committed(req[p].line)
  BY <1>1, <1>2 DEF Inv, InputsExist
<1>9. dropped' \in [Clerks -> SUBSET Lines]
  BY <1>1 DEF Inv, TypeOK
<1>10. /\ locks' \in [Clerks -> SUBSET Resources]
       /\ LocksExclusive'
       /\ \A q \in Clerks : locks[q] \subseteq locks'[q]
  BY <1>1, TakeIsExclusive
<1>11. UNCHANGED <<rows, made>>
  BY <1>1
<1> HIDE DEF H
<1> QED
  BY <1>1, <1>2, <1>3, <1>4, <1>7, <1>8, <1>9, <1>10, <1>11, <1>13, CloseStep

-----------------------------------------------------------------------------
\* Steps that write rows.

Written(p) == made[p] \cup freed[p] \cup handed[p]

\* What the requests write is apart: they hold the locks of what they write.
LEMMA WritesAreApart ==
  ASSUME Inv, NEW p \in Clerks, NEW q \in Clerks, p # q
  PROVE  Written(p) \cap Written(q) = {}
<1>1. \A l \in Written(p) : VariantLock(l) \in locks[p]
  BY DEF Inv, WrittenUnderLock, Written
<1>2. \A l \in Written(q) : VariantLock(l) \in locks[q]
  BY DEF Inv, WrittenUnderLock, Written
<1>3. locks[p] \cap locks[q] = {}
  BY DEF Inv, LocksExclusive
<1> QED
  BY <1>1, <1>2, <1>3

\* A line that is being inserted, or was not, is written by no request.
LEMMA UnreservedIsUnwritten ==
  ASSUME Inv, NEW p \in Clerks, NEW l, reservation[l] = NoReservation
  PROVE  l \notin Written(p) /\ ~Committed(l)
<1>1. reservation[l].status = "NONE"
  BY DEF NoReservation
<1> QED
  BY <1>1 DEF Inv, WrittenUnderLock, Written, Committed

LEMMA InsertOrderStep ==
  ASSUME Inv, NEW p \in Clerks, NEW o \in Orders, InsertOrder(p, o)
  PROVE  Inv'
<1> DEFINE r == [req[p] EXCEPT !.order = o]
<1> USE DEF Inv
<1>1. /\ pc[p] = "insert_order" /\ pc' = [pc EXCEPT ![p] = "item"]
      /\ Take(p)
      /\ order' = [order EXCEPT ![o] = [status |-> "PENDING", form |-> req[p].form]]
      /\ req' = [req EXCEPT ![p] = r]
      /\ UNCHANGED <<stock, reservation, issues, line, delivered, removed, due,
                     made, freed, handed, dropped>>
  BY DEF InsertOrder, Step
<1>2. req[p] \in Request
  BY DEF TypeOK
<1>3. r \in Request
  BY <1>2 DEF Request, Orders
<1>4. /\ r.kind = req[p].kind /\ r.form = req[p].form /\ r.order = o /\ r.line = req[p].line
      /\ r.basket = req[p].basket /\ r.todo = req[p].todo /\ r.drop = req[p].drop
  BY <1>2 DEF Request
<1>5. req[p].kind = "place" /\ req[p].form \in Forms
  BY <1>1, KindOfStep DEF InputsExist
<1>6. /\ locks' \in [Clerks -> SUBSET Resources] /\ LocksExclusive'
      /\ \A q \in Clerks : locks[q] \subseteq locks'[q]
  BY <1>1, TakeIsExclusive
<1>7. order' \in [Orders -> OrderRow]
  BY <1>1, <1>5 DEF TypeOK, OrderRow
<1> HIDE DEF r
<1>8. TypeOK'
  BY <1>1, <1>3, <1>6, <1>7 DEF TypeOK, Steps
<1>9. /\ pc'[p] = "item" /\ req'[p] = r
      /\ \A q \in Clerks : q # p => pc'[q] = pc[q] /\ req'[q] = req[q]
  BY <1>1 DEF TypeOK
<1>10. StepsFitKind'
  BY <1>4, <1>5, <1>9 DEF StepsFitKind, StepsOf
<1>11. InputsExist'
  <2>1. \A l : Committed(l)' <=> Committed(l)
    BY <1>1 DEF Committed
  <2> QED
    BY <1>1, <1>4, <1>5, <1>9, <2>1 DEF InputsExist, Committed
<1>12. InsertedIsOwn'
  BY <1>1, <1>9 DEF InsertedIsOwn
<1>13. WritesFitKind'
  BY <1>1, <1>4, <1>5, <1>9 DEF WritesFitKind
<1>14. RowsAgree' /\ IssuedOnce'
  BY <1>1 DEF RowsAgree, IssuedOnce
<1>15. WrittenUnderLock'
  BY <1>1, <1>6 DEF WrittenUnderLock, VariantLock
<1> QED
  BY <1>6, <1>8, <1>10, <1>11, <1>12, <1>13, <1>14, <1>15

LEMMA InsertLineStep ==
  ASSUME Inv, NEW p \in Clerks, NEW i, NEW l \in Lines, InsertLine(p, i, l)
  PROVE  Inv'
<1> DEFINE r == [req[p] EXCEPT !.line = l]
           item == req[p].basket[i]
           new == [order |-> req[p].order, variant |-> item.variant, quantity |-> item.quantity]
<1>0. /\ locks' \in [Clerks -> SUBSET Resources] /\ LocksExclusive'
      /\ \A q \in Clerks : locks[q] \subseteq locks'[q]
  BY TakeIsExclusive DEF InsertLine
<1> USE DEF Inv
<1>1. /\ pc[p] = "item" /\ pc' = [pc EXCEPT ![p] = "reserve"]
      /\ i \in req[p].todo /\ item.quantity \in Quantities
      /\ NextNumber(l, UsedLines)
      /\ line' = [line EXCEPT ![l] = new]
      /\ req' = [req EXCEPT ![p] = r]
      /\ Take(p)
      /\ UNCHANGED <<stock, reservation, issues, delivered, removed, order, due,
                     made, freed, handed, dropped>>
  BY DEF InsertLine, Step, NextItem, QuantityAllowed
<1>2. req[p] \in Request
  BY DEF TypeOK
<1>3. r \in Request
  BY <1>2 DEF Request, Lines
<1>4. /\ r.kind = req[p].kind /\ r.form = req[p].form /\ r.order = req[p].order /\ r.line = l
      /\ r.basket = req[p].basket /\ r.todo = req[p].todo /\ r.drop = req[p].drop
  BY <1>2 DEF Request
<1>5. req[p].kind \in {"place", "change"} /\ req[p].order \in Orders
  BY <1>1, KindOfStep DEF InputsExist
<1>6. new \in LineRow /\ new # NoLine
  <2>1. i \in DOMAIN req[p].basket
    BY <1>1 DEF InputsExist
  <2>2. item \in Item
    BY <1>2, <2>1, BasketItems DEF Request
  <2>3. new.order \in 1..MaxOrder
    BY <1>5 DEF Orders
  <2>4. new # NoLine
    BY <2>3, MaxOrderAssumption DEF NoLine
  <2> QED
    BY <1>1, <1>5, <2>2, <2>4 DEF Item, LineRow
<1>7. line[l] = NoLine
  BY <1>1 DEF NextNumber, UsedLines, Lines
<1>8. reservation[l] = NoReservation
  BY <1>7 DEF RowsAgree
<1>9. /\ pc'[p] = "reserve" /\ req'[p] = r
      /\ \A q \in Clerks : q # p => pc'[q] = pc[q] /\ req'[q] = req[q]
  BY <1>1 DEF TypeOK
<1>10. line'[l] = new /\ \A k \in Lines : k # l => line'[k] = line[k]
  BY <1>1 DEF TypeOK
<1> HIDE DEF r, new, item
<1>11. TypeOK'
  BY <1>1, <1>3, <1>6, <1>0 DEF TypeOK, Steps
<1>12. StepsFitKind'
  BY <1>4, <1>5, <1>9 DEF StepsFitKind, StepsOf
<1>13. InputsExist'
  <2>1. \A k : Committed(k)' <=> Committed(k)
    BY <1>1 DEF Committed
  <2> QED
    BY <1>1, <1>4, <1>5, <1>9, <2>1 DEF InputsExist, Committed
<1>14. InsertedIsOwn'
  BY <1>1, <1>4, <1>6, <1>7, <1>8, <1>9, <1>10 DEF InsertedIsOwn
<1>15. WritesFitKind'
  BY <1>1, <1>4, <1>5, <1>9 DEF WritesFitKind
<1>16. RowsAgree' /\ IssuedOnce'
  BY <1>1, <1>6, <1>8, <1>10 DEF RowsAgree, IssuedOnce
<1>17. WrittenUnderLock'
  <2>1. \A q \in Clerks : l \notin Written(q)
    BY <1>8, UnreservedIsUnwritten
  <2>2. \A k \in Lines : k # l => VariantLock(k)' = VariantLock(k)
    BY <1>10 DEF VariantLock
  <2>3. \A q \in Clerks : Written(q) \subseteq Lines
    BY DEF Written, TypeOK
  <2>4. WrittenUnderLock
    OBVIOUS
  <2> HIDE DEF Inv
  <2> QED
    BY <1>1, <1>0, <2>1, <2>2, <2>3, <2>4 DEF WrittenUnderLock, Written
<1> QED
  BY <1>11, <1>12, <1>13, <1>14, <1>15, <1>16, <1>17, <1>0

LEMMA ReserveStep ==
  ASSUME Inv, NEW p \in Clerks, NEW i, NEW id \in Lines, Reserve(p, i, id)
  PROVE  Inv'
<1> DEFINE l == req[p].line
           r == [req[p] EXCEPT !.todo = @ \ {i}]
           new == [variant |-> line[l].variant, quantity |-> line[l].quantity,
                   id |-> id, status |-> "PENDING"]
<1> USE DEF Inv
<1>1. /\ pc[p] = "reserve" /\ pc' = [pc EXCEPT ![p] = "item"]
      /\ Take(p)
      /\ reservation' = [reservation EXCEPT ![l] = new]
      /\ made' = [made EXCEPT ![p] = @ \cup {l}]
      /\ req' = [req EXCEPT ![p] = r]
      /\ UNCHANGED <<stock, issues, line, delivered, removed, order, due,
                     freed, handed, dropped>>
  BY DEF Reserve, Step
<1>2. req[p] \in Request
  BY DEF TypeOK
<1>3. r \in Request
  BY <1>2 DEF Request
<1>4. /\ r.kind = req[p].kind /\ r.form = req[p].form /\ r.order = req[p].order
      /\ r.line = req[p].line /\ r.basket = req[p].basket /\ r.todo \subseteq req[p].todo
      /\ r.drop = req[p].drop
  BY <1>2 DEF Request
<1>5. req[p].kind \in {"place", "change"} /\ req[p].order \in Orders
  BY <1>1, KindOfStep DEF InputsExist
<1>6. l \in Lines /\ line[l] # NoLine /\ reservation[l] = NoReservation
  BY <1>1 DEF InsertedIsOwn
<1>7. /\ new \in Reservation /\ new.status = "PENDING"
      /\ new.variant = line[l].variant /\ new.quantity = line[l].quantity
  BY <1>6 DEF TypeOK, LineRow, Reservation, ReservationStatus
<1>8. /\ pc'[p] = "item" /\ req'[p] = r /\ made'[p] = made[p] \cup {l}
      /\ \A q \in Clerks : q # p => pc'[q] = pc[q] /\ req'[q] = req[q] /\ made'[q] = made[q]
  BY <1>1 DEF TypeOK
<1>9. reservation'[l] = new /\ \A k \in Lines : k # l => reservation'[k] = reservation[k]
  BY <1>1, <1>6 DEF TypeOK
<1>10. /\ locks' \in [Clerks -> SUBSET Resources] /\ LocksExclusive'
       /\ \A q \in Clerks : locks[q] \subseteq locks'[q]
       /\ VariantLock(l) \in locks'[p]
  BY <1>1, TakeIsExclusive DEF Wanted, Flushes
<1>11. ~Committed(l) /\ \A q \in Clerks : l \notin Written(q)
  BY <1>6, UnreservedIsUnwritten
<1> HIDE DEF r, new, l
<1>12. TypeOK'
  BY <1>1, <1>3, <1>6, <1>7, <1>10 DEF TypeOK, Steps
<1>13. StepsFitKind'
  BY <1>4, <1>5, <1>8 DEF StepsFitKind, StepsOf
<1>14. InputsExist'
  <2>1. \A k \in Lines : Committed(k) => Committed(k)'
    BY <1>9, <1>11 DEF Committed
  <2>2. \A q \in Clerks : req[q].drop \subseteq Lines
    BY DEF TypeOK, Request
  <2>3. InputsExist
    OBVIOUS
  <2> HIDE DEF Inv
  <2>4. ASSUME NEW q \in Clerks
        PROVE  /\ req'[q].kind = req[q].kind /\ req'[q].form = req[q].form
               /\ req'[q].order = req[q].order /\ req'[q].line = req[q].line
               /\ req'[q].basket = req[q].basket /\ req'[q].todo \subseteq req[q].todo
               /\ req'[q].drop = req[q].drop
               /\ pc'[q] \notin {"idle", "insert_order"} => pc[q] \notin {"idle", "insert_order"}
    BY <1>1, <1>4, <1>8
  <2> QED
    BY <2>1, <2>2, <2>3, <2>4 DEF InputsExist
<1>15. InsertedIsOwn'
  BY <1>1, <1>6, <1>8, <1>9 DEF InsertedIsOwn, l
<1>16. WritesFitKind'
  BY <1>1, <1>4, <1>5, <1>8 DEF WritesFitKind
<1>17. RowsAgree' /\ IssuedOnce'
  <2>1. RowsAgree'
    BY <1>1, <1>6, <1>7, <1>9 DEF RowsAgree
  <2>2. issues[l] = 0
    BY <1>6 DEF IssuedOnce, NoReservation
  <2> QED
    BY <1>1, <1>6, <1>7, <1>9, <2>1, <2>2 DEF IssuedOnce
<1>18. WrittenUnderLock'
  <2>1. \A k : VariantLock(k)' = VariantLock(k)
    BY <1>1 DEF VariantLock
  <2>2. \A q \in Clerks : Written(q) \subseteq Lines
    BY DEF Written, TypeOK
  <2>3. WrittenUnderLock
    OBVIOUS
  <2> HIDE DEF Inv
  <2>4. \A q \in Clerks : \A k \in Written(q) : reservation'[k] = reservation[k]
    BY <1>9, <1>11, <2>2
  <2> QED
    BY <1>1, <1>7, <1>8, <1>9, <1>10, <2>1, <2>3, <2>4 DEF WrittenUnderLock, Written
<1> QED
  BY <1>10, <1>12, <1>13, <1>14, <1>15, <1>16, <1>17, <1>18

-----------------------------------------------------------------------------
\* The end of a transaction.

\* A request that ends knows nothing, writes nothing and holds no lock.
LEMMA ForgetSession ==
  ASSUME Inv, NEW p \in Clerks, Forget(p)
  PROVE  /\ pc' \in [Clerks -> Steps] /\ req' \in [Clerks -> Request]
         /\ made' \in [Clerks -> SUBSET Lines] /\ freed' \in [Clerks -> SUBSET Lines]
         /\ handed' \in [Clerks -> SUBSET Lines] /\ dropped' \in [Clerks -> SUBSET Lines]
         /\ locks' \in [Clerks -> SUBSET Resources]
         /\ pc'[p] = "idle" /\ req'[p] = NoRequest
         /\ made'[p] = {} /\ freed'[p] = {} /\ handed'[p] = {} /\ locks'[p] = {}
         /\ \A q \in Clerks : q # p =>
              /\ pc'[q] = pc[q] /\ req'[q] = req[q] /\ made'[q] = made[q]
              /\ freed'[q] = freed[q] /\ handed'[q] = handed[q] /\ locks'[q] = locks[q]
<1>1. NoRequest \in Request
  BY MaxLineAssumption, MaxOrderAssumption DEF NoRequest, Request, NoForm
<1> QED
  BY <1>1 DEF Forget, Inv, TypeOK, Steps

\* What the other requests rely on holds when the rows they rely on stay.
LEMMA ForgetStep ==
  ASSUME Inv, NEW p \in Clerks, Forget(p),
         \A l \in Lines : Committed(l) => Committed(l)',
         \A q \in Clerks : q # p =>
           \A l \in Written(q) : reservation'[l] = reservation[l] /\ line'[l] = line[l],
         \A q \in Clerks : q # p /\ pc[q] = "reserve" =>
           /\ reservation'[req[q].line] = reservation[req[q].line]
           /\ line'[req[q].line] = line[req[q].line]
  PROVE  /\ StepsFitKind' /\ InputsExist' /\ InsertedIsOwn' /\ WritesFitKind'
         /\ LocksExclusive' /\ WrittenUnderLock'
<1>1. /\ pc'[p] = "idle" /\ req'[p] = NoRequest
      /\ made'[p] = {} /\ freed'[p] = {} /\ handed'[p] = {} /\ locks'[p] = {}
      /\ \A q \in Clerks : q # p =>
           /\ pc'[q] = pc[q] /\ req'[q] = req[q] /\ made'[q] = made[q]
           /\ freed'[q] = freed[q] /\ handed'[q] = handed[q] /\ locks'[q] = locks[q]
  BY ForgetSession
<1>2. \A q \in Clerks : req[q].drop \subseteq Lines
  BY DEF Inv, TypeOK, Request
<1>3. /\ NoRequest.kind = "none" /\ NoRequest.todo = {} /\ NoRequest.drop = {}
  BY DEF NoRequest
<1>4. StepsFitKind /\ InputsExist /\ InsertedIsOwn /\ WritesFitKind /\ LocksExclusive
      /\ WrittenUnderLock
  BY DEF Inv
<1> HIDE DEF Inv
<1>5. StepsFitKind'
  BY <1>1, <1>3, <1>4 DEF StepsFitKind, StepsOf
<1>6. InputsExist'
  BY <1>1, <1>2, <1>3, <1>4 DEF InputsExist
<1>7. InsertedIsOwn'
  BY <1>1, <1>4 DEF InsertedIsOwn
<1>8. WritesFitKind'
  BY <1>1, <1>4 DEF WritesFitKind
<1>9. LocksExclusive'
  BY <1>1, <1>4 DEF LocksExclusive
<1>10. WrittenUnderLock'
  <2>1. \A q \in Clerks : q # p => \A l \in Written(q) :
          VariantLock(l)' = VariantLock(l) /\ reservation'[l] = reservation[l]
    BY DEF VariantLock
  <2>2. ASSUME NEW q \in Clerks, q # p
        PROVE  /\ \A l \in made'[q] :
                    reservation'[l].status = "PENDING" /\ VariantLock(l)' \in locks'[q]
               /\ \A l \in freed'[q] \cup handed'[q] :
                    reservation'[l].status = "OPEN" /\ VariantLock(l)' \in locks'[q]
    BY <1>1, <1>4, <2>1, <2>2 DEF WrittenUnderLock, Written
  <2> QED
    BY <1>1, <2>2 DEF WrittenUnderLock
<1> QED
  BY <1>5, <1>6, <1>7, <1>8, <1>9, <1>10

LEMMA RollBackStep ==
  ASSUME Inv, NEW p \in Clerks, RollBack(p)
  PROVE  Inv'
<1>1. /\ line' = [l \in Lines |-> IF l \in Inserted(p) THEN NoLine ELSE line[l]]
      /\ reservation' = [l \in Lines |->
                           IF l \in made[p] THEN NoReservation ELSE reservation[l]]
      /\ order' = [o \in Orders |->
                     IF o = req[p].order /\ order[o].status = "PENDING"
                     THEN NoOrder ELSE order[o]]
      /\ Forget(p)
      /\ UNCHANGED <<stock, issues, delivered, removed, due>>
  BY DEF RollBack
<1>2. made[p] \subseteq Written(p) /\ made[p] \subseteq Lines
  BY DEF Written, Inv, TypeOK
<1>3. \A l \in made[p] : reservation[l].status = "PENDING"
  BY DEF Inv, WrittenUnderLock
<1>4. \A l \in Inserted(p) \ made[p] :
        pc[p] = "reserve" /\ l = req[p].line /\ reservation[l] = NoReservation
  BY DEF Inserted, Inv, InsertedIsOwn
<1>5. \A l \in Lines : l \notin made[p] => reservation'[l] = reservation[l]
  BY <1>1
<1>6. \A l \in Lines : l \notin Inserted(p) => line'[l] = line[l]
  BY <1>1
<1>7. \A l \in Lines : Committed(l) => Committed(l)'
  BY <1>3, <1>5 DEF Committed
<1>8. ASSUME NEW q \in Clerks, q # p, NEW l \in Written(q)
      PROVE  reservation'[l] = reservation[l] /\ line'[l] = line[l]
  <2>1. l \in Lines
    BY DEF Written, Inv, TypeOK
  <2>2. l \notin made[p]
    BY <1>2, <1>8, WritesAreApart
  <2>3. reservation[l] # NoReservation
    BY <1>8, UnreservedIsUnwritten
  <2>4. l \notin Inserted(p)
    BY <1>4, <2>2, <2>3
  <2> QED
    BY <1>5, <1>6, <2>1, <2>2, <2>4
<1>9. ASSUME NEW q \in Clerks, q # p, pc[q] = "reserve"
      PROVE  /\ reservation'[req[q].line] = reservation[req[q].line]
             /\ line'[req[q].line] = line[req[q].line]
  <2>1. req[q].line \in Lines /\ reservation[req[q].line] = NoReservation
    BY <1>9 DEF Inv, InsertedIsOwn
  <2>2. req[q].line \notin made[p]
    BY <1>2, <2>1, UnreservedIsUnwritten
  <2>3. pc[p] = "reserve" => req[q].line # req[p].line
    BY <1>9 DEF Inv, InsertedIsOwn
  <2>4. req[q].line \notin Inserted(p)
    BY <1>4, <2>2, <2>3
  <2> QED
    BY <1>5, <1>6, <2>1, <2>2, <2>4
<1>10. /\ StepsFitKind' /\ InputsExist' /\ InsertedIsOwn' /\ WritesFitKind'
       /\ LocksExclusive' /\ WrittenUnderLock'
  BY <1>1, <1>7, <1>8, <1>9, ForgetStep
<1>11. RowsAgree'
  <2>1. ASSUME NEW l \in Lines, reservation'[l] # NoReservation
        PROVE  l \notin Inserted(p) /\ reservation'[l] = reservation[l] /\ line'[l] = line[l]
    <3>1. l \notin made[p]
      BY <1>1, <2>1
    <3>2. l \notin Inserted(p)
      BY <1>4, <1>5, <2>1, <3>1
    <3> QED
      BY <1>5, <1>6, <3>1, <3>2
  <2>2. RowsAgree
    BY DEF Inv
  <2> QED
    BY <2>1, <2>2 DEF RowsAgree
<1>12. IssuedOnce'
  <2>1. NoReservation.status = "NONE"
    BY DEF NoReservation
  <2>2. IssuedOnce
    BY DEF Inv
  <2> QED
    BY <1>1, <1>3, <2>1, <2>2 DEF IssuedOnce
<1>13. TypeOK'
  <2>1. NoOrder \in OrderRow
    BY DEF NoOrder, OrderRow, NoForm
  <2>2. TypeOK
    BY DEF Inv
  <2>3. /\ pc' \in [Clerks -> Steps] /\ req' \in [Clerks -> Request]
        /\ made' \in [Clerks -> SUBSET Lines] /\ freed' \in [Clerks -> SUBSET Lines]
        /\ handed' \in [Clerks -> SUBSET Lines] /\ dropped' \in [Clerks -> SUBSET Lines]
        /\ locks' \in [Clerks -> SUBSET Resources]
    BY <1>1, ForgetSession
  <2> QED
    BY <1>1, <2>1, <2>2, <2>3 DEF TypeOK
<1> QED
  BY <1>10, <1>11, <1>12, <1>13 DEF Inv

\* What Commit makes of a reservation the request wrote, and of the others.
LEMMA CommitRows ==
  ASSUME Inv, NEW p \in Clerks, Commit(p)
  PROVE  \A l \in Lines :
           /\ l \in freed[p] =>
                /\ reservation'[l] = [reservation[l] EXCEPT !.status = "CANCELLED"]
                /\ reservation[l].status = "OPEN"
           /\ l \in handed[p] =>
                /\ reservation'[l] = [reservation[l] EXCEPT !.status = "DELIVERED"]
                /\ reservation[l].status = "OPEN"
           /\ l \in made[p] =>
                /\ reservation'[l] = [reservation[l] EXCEPT !.status = "OPEN"]
                /\ reservation[l].status = "PENDING"
           /\ l \notin Written(p) => reservation'[l] = reservation[l]
           /\ l \in Written(p) => reservation[l] \in Reservation
<1> DEFINE status == [l \in Lines |->
                        CASE l \in freed[p]  -> "CANCELLED"
                          [] l \in handed[p] -> "DELIVERED"
                          [] l \in made[p]   -> "OPEN"
                          [] OTHER           -> reservation[l].status]
<1>1. reservation' = [l \in Lines |-> [reservation[l] EXCEPT !.status = status[l]]]
  BY DEF Commit
<1>2. \A l \in freed[p] \cup handed[p] : reservation[l].status = "OPEN"
  BY DEF Inv, WrittenUnderLock
<1>3. \A l \in made[p] : reservation[l].status = "PENDING"
  BY DEF Inv, WrittenUnderLock
<1>4. freed[p] = {} \/ handed[p] = {}
  BY DEF Inv, WritesFitKind
<1>5. \A l \in Lines : reservation[l] \in Reservation \/ reservation[l] = NoReservation
  BY DEF Inv, TypeOK
<1>6. \A l \in Lines : l \in Written(p) => reservation[l] \in Reservation
  BY <1>5, UnreservedIsUnwritten
<1> SUFFICES ASSUME NEW l \in Lines
             PROVE  /\ l \in freed[p] =>
                         reservation'[l] = [reservation[l] EXCEPT !.status = "CANCELLED"]
                    /\ l \in handed[p] =>
                         reservation'[l] = [reservation[l] EXCEPT !.status = "DELIVERED"]
                    /\ l \in made[p] =>
                         reservation'[l] = [reservation[l] EXCEPT !.status = "OPEN"]
                    /\ l \notin Written(p) => reservation'[l] = reservation[l]
  BY <1>2, <1>3, <1>6
<1>7. reservation'[l] = [reservation[l] EXCEPT !.status = status[l]]
  BY <1>1
<1>8. l \in freed[p] => status[l] = "CANCELLED"
  BY <1>2, <1>3, <1>4
<1>9. l \in handed[p] => status[l] = "DELIVERED"
  BY <1>2, <1>3, <1>4
<1>10. l \in made[p] => status[l] = "OPEN"
  BY <1>2, <1>3
<1>11. l \notin Written(p) => status[l] = reservation[l].status
  BY DEF Written
<1>12. [reservation[l] EXCEPT !.status = reservation[l].status] = reservation[l]
  BY <1>5 DEF Reservation, NoReservation
<1> HIDE DEF status
<1> QED
  BY <1>7, <1>8, <1>9, <1>10, <1>11, <1>12

LEMMA CommitStep ==
  ASSUME Inv, NEW p \in Clerks, Commit(p)
  PROVE  Inv'
<1>1. Forget(p) /\ UNCHANGED line /\ pc[p] = "commit"
  BY DEF Commit
<1>2. \A l \in Lines : l \notin Written(p) => reservation'[l] = reservation[l]
  BY CommitRows
<1>3. ASSUME NEW l \in Written(p)
      PROVE  /\ l \in Lines
             /\ reservation'[l] \in Reservation
             /\ reservation'[l].status \in {"OPEN", "CANCELLED", "DELIVERED"}
             /\ reservation'[l].status = "DELIVERED" <=> l \in handed[p]
             /\ reservation'[l].variant = reservation[l].variant
             /\ reservation'[l].quantity = reservation[l].quantity
             /\ reservation[l].status # "DELIVERED"
             /\ reservation[l] # NoReservation
  <2>1. l \in Lines
    BY DEF Written, Inv, TypeOK
  <2>2. reservation[l] \in Reservation
    BY <2>1, CommitRows
  <2>3. \E s \in {"OPEN", "CANCELLED", "DELIVERED"} :
          /\ reservation'[l] = [reservation[l] EXCEPT !.status = s]
          /\ s = "DELIVERED" <=> l \in handed[p]
          /\ reservation[l].status # "DELIVERED"
    <3>1. CASE l \in freed[p]
      BY <2>1, <3>1, CommitRows DEF Inv, WritesFitKind
    <3>2. CASE l \in handed[p]
      BY <2>1, <3>2, CommitRows
    <3>3. CASE l \in made[p]
      BY <2>1, <3>3, CommitRows DEF Inv, WritesFitKind
    <3> QED
      BY <3>1, <3>2, <3>3 DEF Written
  <2>4. reservation[l] # NoReservation
    BY UnreservedIsUnwritten
  <2> QED
    BY <2>1, <2>2, <2>3, <2>4 DEF Reservation, ReservationStatus
<1>4. \A l \in Lines : Committed(l) => Committed(l)'
  BY <1>2, <1>3 DEF Committed
<1>5. ASSUME NEW q \in Clerks, q # p, NEW l \in Written(q)
      PROVE  reservation'[l] = reservation[l] /\ line'[l] = line[l]
  <2>1. l \notin Written(p)
    BY <1>5, WritesAreApart
  <2>2. l \in Lines
    BY DEF Written, Inv, TypeOK
  <2> QED
    BY <1>1, <1>2, <2>1, <2>2
<1>6. ASSUME NEW q \in Clerks, q # p, pc[q] = "reserve"
      PROVE  /\ reservation'[req[q].line] = reservation[req[q].line]
             /\ line'[req[q].line] = line[req[q].line]
  <2>1. req[q].line \in Lines /\ reservation[req[q].line] = NoReservation
    BY <1>6 DEF Inv, InsertedIsOwn
  <2>2. req[q].line \notin Written(p)
    BY <2>1, UnreservedIsUnwritten
  <2> QED
    BY <1>1, <1>2, <2>1, <2>2
<1>7. /\ StepsFitKind' /\ InputsExist' /\ InsertedIsOwn' /\ WritesFitKind'
      /\ LocksExclusive' /\ WrittenUnderLock'
  BY <1>1, <1>4, <1>5, <1>6, ForgetStep
<1>8. RowsAgree'
  <2>1. ASSUME NEW l \in Lines
        PROVE  /\ reservation'[l] = NoReservation <=> reservation[l] = NoReservation
               /\ reservation'[l].variant = reservation[l].variant
               /\ reservation'[l].quantity = reservation[l].quantity
    <3>1. CASE l \in Written(p)
      <4>1. reservation'[l] # NoReservation
        BY <1>3, <3>1 DEF NoReservation
      <4> QED
        BY <1>3, <3>1, <4>1
    <3> QED
      BY <1>2, <3>1
  <2>2. RowsAgree
    BY DEF Inv
  <2> QED
    BY <1>1, <2>1, <2>2 DEF RowsAgree
<1>9. IssuedOnce'
  <2>1. issues' = [l \in Lines |-> IF l \in handed[p] THEN issues[l] + 1 ELSE issues[l]]
    BY DEF Commit
  <2>2. IssuedOnce
    BY DEF Inv
  <2>3. handed[p] \subseteq Written(p)
    BY DEF Written
  <2> QED
    BY <1>2, <1>3, <2>1, <2>2, <2>3 DEF IssuedOnce
<1>10. TypeOK'
  <2>1. TypeOK
    BY DEF Inv
  <2>2. /\ pc' \in [Clerks -> Steps] /\ req' \in [Clerks -> Request]
        /\ made' \in [Clerks -> SUBSET Lines] /\ freed' \in [Clerks -> SUBSET Lines]
        /\ handed' \in [Clerks -> SUBSET Lines] /\ dropped' \in [Clerks -> SUBSET Lines]
        /\ locks' \in [Clerks -> SUBSET Resources]
    BY <1>1, ForgetSession
  <2>3. stock' \in [Variants -> Int]
    <3>1. handed[p] \in SUBSET Lines
      BY <2>1 DEF TypeOK
    <3>2. \A v \in Variants : Cardinality(Pieces(reservation, handed[p], v)) \in Nat
      BY <3>1, PiecesFinite
    <3>3. stock' = [v \in Variants |->
                      stock[v] - Cardinality(Pieces(reservation, handed[p], v))]
      BY DEF Commit
    <3> QED
      BY <2>1, <3>2, <3>3 DEF TypeOK
  <2>4. reservation' \in [Lines -> Reservation \cup {NoReservation}]
    <3>1. \A l \in Lines : reservation'[l] \in Reservation \cup {NoReservation}
      BY <1>2, <1>3, <2>1 DEF TypeOK
    <3>2. reservation' = [l \in Lines |-> reservation'[l]]
      BY DEF Commit
    <3> QED
      BY <3>1, <3>2
  <2>5. issues' \in [Lines -> Nat]
    BY <2>1 DEF TypeOK, Commit
  <2>6. delivered' \subseteq Lines
    BY <2>1 DEF TypeOK, Commit, Inv, InputsExist
  <2>7. removed' \subseteq Lines
    BY <2>1 DEF TypeOK, Commit
  <2>8. order' \in [Orders -> OrderRow]
    BY <2>1 DEF TypeOK, Commit, OrderRow
  <2>9. due' \in [Orders -> Nat]
    <3>1. req[p].due \in Nat
      BY <2>1 DEF TypeOK, Request
    <3>2. due' = IF req[p].kind = "deliver" THEN due
                 ELSE [due EXCEPT ![req[p].order] = req[p].due]
      BY DEF Commit
    <3> QED
      BY <2>1, <3>1, <3>2 DEF TypeOK
  <2>10. line' \in [Lines -> LineRow \cup {NoLine}]
    BY <1>1, <2>1 DEF TypeOK
  <2> QED
    BY <2>2, <2>3, <2>4, <2>5, <2>6, <2>7, <2>8, <2>9, <2>10 DEF TypeOK
<1> QED
  BY <1>7, <1>8, <1>9, <1>10 DEF Inv

-----------------------------------------------------------------------------
\* Receipts and corrections.

LEMMA StockStep ==
  ASSUME Inv, NEW v \in Variants, NEW q \in Int, stock' = [stock EXCEPT ![v] = @ + q],
         UNCHANGED <<reservation, issues, line, delivered, removed, order, due, session>>
  PROVE  Inv'
<1> USE DEF Inv, session
<1>1. TypeOK'
  BY DEF TypeOK
<1>2. StepsFitKind' /\ WritesFitKind' /\ LocksExclusive'
  BY DEF StepsFitKind, WritesFitKind, LocksExclusive
<1>3. InputsExist' /\ InsertedIsOwn'
  BY DEF InputsExist, InsertedIsOwn, Committed
<1>4. RowsAgree' /\ IssuedOnce' /\ WrittenUnderLock'
  BY DEF RowsAgree, IssuedOnce, WrittenUnderLock, VariantLock
<1> QED
  BY <1>1, <1>2, <1>3, <1>4

-----------------------------------------------------------------------------
\* Every step.

LEMMA StartStep ==
  ASSUME Inv, NEW p \in Clerks, Start(p)
  PROVE  Inv'
BY SubmitOrderStep, StartChangeStep, StartCancelStep, StartDeliverStep DEF Start

LEMMA ProceedStep ==
  ASSUME Inv, NEW p \in Clerks, Proceed(p)
  PROVE  Inv'
<1>1. req[p].drop \subseteq Lines
  BY DEF Inv, TypeOK, Request
<1>2. CASE \E o \in Orders : InsertOrder(p, o)
  BY <1>2, InsertOrderStep
<1>3. CASE AnswerAgain(p) \/ Refuse(p)
  BY <1>3, RollBackStep DEF AnswerAgain, Refuse
<1>4. CASE \E i \in req[p].todo, l \in Lines : InsertLine(p, i, l)
  BY <1>4, InsertLineStep
<1>5. CASE \E i \in req[p].todo, id \in Lines : Reserve(p, i, id)
  BY <1>5, ReserveStep
<1>6. CASE Publish(p) \/ StartAdding(p) \/ CancelOrder(p) \/ LockLine(p)
  BY <1>6, PublishStep, StartAddingStep, CancelOrderStep, LockLineStep
<1>7. CASE \E l \in req[p].drop :
             ReleaseNothing(p, l) \/ ReadReservation(p, l) \/ Release(p, l) \/ Flush(p, l)
  BY <1>1, <1>7, ReleaseNothingStep, ReadReservationStep, ReleaseStep, FlushStep
<1>8. CASE IssueNothing(p) \/ IssueRead(p) \/ Issue(p)
  BY <1>8, IssueNothingStep, IssueReadStep, IssueStep
<1>9. CASE Commit(p)
  BY <1>9, CommitStep
<1> QED
  BY <1>2, <1>3, <1>4, <1>5, <1>6, <1>7, <1>8, <1>9 DEF Proceed

LEMMA StutterStep ==
  ASSUME Inv, UNCHANGED vars
  PROVE  Inv'
<1> USE DEF Inv, vars, rows, session
<1>1. TypeOK'
  BY DEF TypeOK
<1>2. StepsFitKind' /\ WritesFitKind' /\ LocksExclusive'
  BY DEF StepsFitKind, WritesFitKind, LocksExclusive
<1>3. InputsExist' /\ InsertedIsOwn'
  BY DEF InputsExist, InsertedIsOwn, Committed
<1>4. RowsAgree' /\ IssuedOnce' /\ WrittenUnderLock'
  BY DEF RowsAgree, IssuedOnce, WrittenUnderLock, VariantLock
<1> QED
  BY <1>1, <1>2, <1>3, <1>4

\* A step of the shop keeps the invariant: what a request relies on between
\* two of its steps, no other request takes away.
THEOREM Inductive == Inv /\ [Next]_vars => Inv'
<1> SUFFICES ASSUME Inv, [Next]_vars PROVE Inv'
  OBVIOUS
<1>1. ASSUME NEW p \in Clerks, Start(p) \/ Proceed(p)
      PROVE  Inv'
  BY <1>1, StartStep, ProceedStep
<1>2. ASSUME NEW p \in Clerks, DeadlockVictim(p) \/ Fail(p)
      PROVE  Inv'
  BY <1>2, RollBackStep DEF DeadlockVictim, Fail
<1>3. ASSUME NEW v \in Variants, Stock(v)
      PROVE  Inv'
  <2>1. \A q \in Quantities : q \in Int /\ -q \in Int
    BY MaxQuantityAssumption DEF Quantities
  <2>2. PICK q \in Int : /\ stock' = [stock EXCEPT ![v] = @ + q]
                         /\ UNCHANGED <<reservation, issues, line, delivered, removed,
                                        order, due, session>>
    BY <1>3, <2>1 DEF Stock, BookReceipt, ApplyCorrection
  <2> QED
    BY <2>2, StockStep
<1>4. CASE UNCHANGED vars
  BY <1>4, StutterStep
<1> QED
  BY <1>1, <1>2, <1>3, <1>4 DEF Next

\* The invariant holds in every reachable state.
THEOREM Invariant == Spec => []Inv
<1> QED
  BY InitInv, Inductive, PTL DEF Spec

\* Type correctness: every variable has its type, in every reachable state.
THEOREM TypeCorrect == Spec => []TypeOK
<1>1. Inv => TypeOK
  BY DEF Inv
<1> QED
  BY <1>1, Invariant, PTL

\* A piece leaves the shelf once, for a line whose reservation says delivered:
\* issue reads the reservation again under the lock.
THEOREM IssuesAreOnce == Spec => []IssuedOnce
<1>1. Inv => IssuedOnce
  BY DEF Inv
<1> QED
  BY <1>1, Invariant, PTL

\* A reservation that was released or delivered is not written again.
LEMMA ClosedRowsStay ==
  ASSUME Inv, [Next]_vars
  PROVE  \A l \in Lines :
           reservation[l].status \in {"CANCELLED", "DELIVERED"} =>
             reservation'[l] = reservation[l]
<1> DEFINE Kept1 ==
             \A l \in Lines :
               reservation[l].status \in {"CANCELLED", "DELIVERED"} =>
                 reservation'[l] = reservation[l]
<1>1. CASE UNCHANGED reservation
  BY <1>1
<1>2. ASSUME NEW p \in Clerks, RollBack(p)
      PROVE  Kept1
  BY <1>2 DEF RollBack, Inv, WrittenUnderLock
<1>3. ASSUME NEW p \in Clerks, Commit(p)
      PROVE  Kept1
  <2>1. \A l \in Written(p) : reservation[l].status \in {"PENDING", "OPEN"}
    BY DEF Written, Inv, WrittenUnderLock
  <2> QED
    BY <1>3, <2>1, CommitRows
<1>4. ASSUME NEW p \in Clerks, NEW i, NEW id \in Lines, Reserve(p, i, id)
      PROVE  Kept1
  <2>1. reservation[req[p].line] = NoReservation
    BY <1>4 DEF Inv, InsertedIsOwn, Reserve, Step
  <2> QED
    BY <1>4, <2>1 DEF Reserve, Inv, TypeOK, NoReservation
<1>5. ASSUME NEW p \in Clerks, Start(p)
      PROVE  UNCHANGED reservation
  BY <1>5 DEF Start, SubmitOrder, StartChange, StartCancel, StartDeliver, rows
<1>6. ASSUME NEW p \in Clerks, Proceed(p)
      PROVE  Kept1
  <2>1. CASE \E i \in req[p].todo, id \in Lines : Reserve(p, i, id)
    BY <1>4, <2>1
  <2>2. CASE AnswerAgain(p) \/ Refuse(p)
    BY <1>2, <2>2 DEF AnswerAgain, Refuse
  <2>3. CASE Commit(p)
    BY <1>3, <2>3
  <2>4. CASE \/ \E o \in Orders : InsertOrder(p, o)
             \/ \E i \in req[p].todo, l \in Lines : InsertLine(p, i, l)
             \/ Publish(p) \/ StartAdding(p) \/ CancelOrder(p) \/ LockLine(p)
             \/ IssueNothing(p) \/ IssueRead(p) \/ Issue(p)
    BY <1>1, <2>4 DEF InsertOrder, InsertLine, Publish, StartAdding, CancelOrder,
                      LockLine, IssueNothing, IssueRead, Issue, rows
  <2>5. CASE \E l \in req[p].drop :
               ReleaseNothing(p, l) \/ ReadReservation(p, l) \/ Release(p, l) \/ Flush(p, l)
    BY <1>1, <2>5 DEF ReleaseNothing, ReadReservation, Release, Flush, rows
  <2> QED
    BY <1>6, <2>1, <2>2, <2>3, <2>4, <2>5 DEF Proceed
<1>7. ASSUME NEW v \in Variants, Stock(v)
      PROVE  UNCHANGED reservation
  BY <1>7 DEF Stock, BookReceipt, ApplyCorrection
<1>8. CASE UNCHANGED vars
  BY <1>1, <1>8 DEF vars, rows
<1> QED
  BY <1>1, <1>2, <1>5, <1>6, <1>7, <1>8 DEF Next, DeadlockVictim, Fail

\* A reservation that was released or delivered is never written again: every
\* request writes the reservations it read as open under their lock.
THEOREM ClosedIsFinal == Spec => ClosedStaysClosed
<1>1. Inv /\ [Next]_vars =>
        [ \A l \in Lines :
            reservation[l].status \in {"CANCELLED", "DELIVERED"} =>
              reservation'[l] = reservation[l] ]_vars
  BY ClosedRowsStay
<1> QED
  BY <1>1, Invariant, PTL DEF Spec, ClosedStaysClosed

-----------------------------------------------------------------------------
\* Facts about the steps that other proofs use.

\* A number that was handed out is new.
LEMMA NumberIsNew ==
  ASSUME NEW n \in Int, NEW used, NextNumber(n, used)
  PROVE  n \notin used
BY DEF NextNumber

\* The steps of a request between its first write and its end.
Middle(p) ==
  \/ \E i \in req[p].todo, l \in Lines : InsertLine(p, i, l)
  \/ \E i \in req[p].todo, id \in Lines : Reserve(p, i, id)
  \/ \E l \in req[p].drop :
       ReleaseNothing(p, l) \/ ReadReservation(p, l) \/ Release(p, l) \/ Flush(p, l)
  \/ Publish(p) \/ StartAdding(p) \/ CancelOrder(p)
  \/ LockLine(p) \/ IssueNothing(p) \/ IssueRead(p) \/ Issue(p)

\* A request starts, inserts its order, goes on, ends with nothing, or commits;
\* or the stock is received or corrected.
LEMMA StepKinds ==
  ASSUME [Next]_vars
  PROVE  \/ \E p \in Clerks : Start(p)
         \/ \E p \in Clerks, o \in Orders : InsertOrder(p, o)
         \/ \E p \in Clerks : Middle(p)
         \/ \E p \in Clerks : RollBack(p)
         \/ \E p \in Clerks : Commit(p)
         \/ UNCHANGED <<reservation, line, order, made, freed, handed, session>>
<1>1. CASE \E p \in Clerks : Proceed(p)
  BY <1>1 DEF Proceed, Middle, AnswerAgain, Refuse
<1>2. CASE \E p \in Clerks : DeadlockVictim(p) \/ Fail(p)
  BY <1>2 DEF DeadlockVictim, Fail
<1>3. CASE \E v \in Variants : Stock(v)
  BY <1>3 DEF Stock, BookReceipt, ApplyCorrection, session
<1>4. CASE UNCHANGED vars
  BY <1>4 DEF vars, rows, session
<1> QED
  BY <1>1, <1>2, <1>3, <1>4 DEF Next

\* A step of a request leaves what the other requests know and hold.
LEMMA OthersKept ==
  ASSUME Inv, NEW p \in Clerks,
         \/ Start(p) \/ (\E o \in Orders : InsertOrder(p, o)) \/ Middle(p)
         \/ RollBack(p) \/ Commit(p),
         NEW q \in Clerks, q # p
  PROVE  /\ pc'[q] = pc[q] /\ req'[q] = req[q] /\ locks'[q] = locks[q]
         /\ dropped'[q] = dropped[q] /\ made'[q] = made[q] /\ freed'[q] = freed[q]
         /\ handed'[q] = handed[q]
<1>1. /\ pc \in [Clerks -> Steps] /\ req \in [Clerks -> Request]
      /\ made \in [Clerks -> SUBSET Lines] /\ freed \in [Clerks -> SUBSET Lines]
      /\ handed \in [Clerks -> SUBSET Lines] /\ dropped \in [Clerks -> SUBSET Lines]
      /\ locks \in [Clerks -> SUBSET Resources]
  BY DEF Inv, TypeOK
<1>2. CASE Start(p)
  BY <1>1, <1>2 DEF Start, SubmitOrder, StartChange, StartCancel, StartDeliver, Step, Serve
<1>3. CASE \E o \in Orders : InsertOrder(p, o)
  BY <1>1, <1>3 DEF InsertOrder, Step, Take
<1>4. CASE Middle(p)
  <2>1. CASE \E i \in req[p].todo, l \in Lines : InsertLine(p, i, l) \/ Reserve(p, i, l)
    BY <1>1, <2>1 DEF InsertLine, Reserve, Step, Take
  <2>2. CASE \E l \in req[p].drop :
               ReleaseNothing(p, l) \/ ReadReservation(p, l) \/ Release(p, l) \/ Flush(p, l)
    BY <1>1, <2>2 DEF ReleaseNothing, ReadReservation, Release, Flush, Drop, Step, Take
  <2>3. CASE Publish(p) \/ StartAdding(p) \/ CancelOrder(p)
    BY <1>1, <2>3 DEF Publish, StartAdding, CancelOrder, Step, Take
  <2>4. CASE LockLine(p) \/ IssueNothing(p) \/ IssueRead(p) \/ Issue(p)
    BY <1>1, <2>4 DEF LockLine, IssueNothing, IssueRead, Issue, Step, Take
  <2> QED
    BY <1>4, <2>1, <2>2, <2>3, <2>4 DEF Middle
<1>5. CASE RollBack(p) \/ Commit(p)
  BY <1>1, <1>5 DEF RollBack, Commit, Forget
<1> QED
  BY <1>2, <1>3, <1>4, <1>5

\* What a request was asked, its order and its locks stay with it to its end.
LEMMA MiddleKeeps ==
  ASSUME Inv, NEW p \in Clerks, Middle(p)
  PROVE  /\ UNCHANGED order
         /\ pc[p] \notin {"idle", "insert_order"} /\ pc'[p] \notin {"idle", "insert_order"}
         /\ req'[p].kind = req[p].kind /\ req'[p].form = req[p].form
         /\ req'[p].order = req[p].order /\ req'[p].basket = req[p].basket
         /\ req'[p].todo \subseteq req[p].todo
         /\ locks'[p] \in { locks[p], locks[p] \cup Wanted(p) }
<1> DEFINE Goal ==
             /\ UNCHANGED order
             /\ pc[p] \notin {"idle", "insert_order"} /\ pc'[p] \notin {"idle", "insert_order"}
             /\ req'[p].kind = req[p].kind /\ req'[p].form = req[p].form
             /\ req'[p].order = req[p].order /\ req'[p].basket = req[p].basket
             /\ req'[p].todo \subseteq req[p].todo
             /\ locks'[p] \in { locks[p], locks[p] \cup Wanted(p) }
<1>1. /\ pc \in [Clerks -> Steps] /\ req \in [Clerks -> Request]
      /\ locks \in [Clerks -> SUBSET Resources]
  BY DEF Inv, TypeOK
<1>2. ASSUME NEW i \in req[p].todo, NEW l \in Lines, InsertLine(p, i, l)
      PROVE  Goal
  BY <1>1, <1>2 DEF InsertLine, Step, Take, Request
<1>6. ASSUME NEW i \in req[p].todo, NEW l \in Lines, Reserve(p, i, l)
      PROVE  Goal
  BY <1>1, <1>6 DEF Reserve, Step, Take, Request
<1>3. CASE \E l \in req[p].drop :
             ReleaseNothing(p, l) \/ ReadReservation(p, l) \/ Release(p, l) \/ Flush(p, l)
  BY <1>1, <1>3 DEF ReleaseNothing, ReadReservation, Release, Flush, Drop, Step, Take, Request,
                    rows
<1>4. CASE StartAdding(p) \/ CancelOrder(p)
  BY <1>1, <1>4 DEF StartAdding, CancelOrder, Step, Take, Request, rows
<1>7. CASE Publish(p)
  BY <1>1, <1>7 DEF Publish, Step, Take, Request, rows
<1>5. CASE LockLine(p) \/ IssueNothing(p) \/ IssueRead(p) \/ Issue(p)
  BY <1>1, <1>5 DEF LockLine, IssueNothing, IssueRead, Issue, Step, Take, Request, rows
<1> QED
  BY <1>2, <1>3, <1>4, <1>5, <1>6, <1>7 DEF Middle
=============================================================================
