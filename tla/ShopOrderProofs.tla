-------------------------- MODULE ShopOrderProofs --------------------------
(***************************************************************************)
(* What a visitor who places an order may rely on, for any number of       *)
(* sessions, forms and variants: the form is accepted once, and two orders *)
(* that are being placed do not wait for each other.                       *)
(***************************************************************************)
EXTENDS ShopProofs, WellFoundedInduction

-----------------------------------------------------------------------------
\* A shown form is accepted once.

LEMMA InitForms == Init => FormInv
<1> SUFFICES ASSUME Init PROVE FormInv
  OBVIOUS
<1>1. \A o \in Orders : ~Live(o)
  BY DEF Init, Live, NoOrder
<1>2. \A p \in Clerks : req[p].kind = "none"
  BY DEF Init, NoRequest
<1> QED
  BY <1>1, <1>2 DEF FormInv, OneOrderPerForm, OrderIsOwn, NoOrderYet, OrderWasAccepted, Placing,
                    Init

\* While the orders stay, only what is asked of a request and what it holds count.
LEMMA SameOrders ==
  ASSUME FormInv, UNCHANGED order,
         \A p \in Clerks : Placing(p)' =>
           /\ Placing(p) /\ req'[p].order = req[p].order /\ req'[p].form = req[p].form
           /\ locks[p] \subseteq locks'[p],
         \A p \in Clerks : pc'[p] = "insert_order" => req'[p].order = 0,
         \A p \in Clerks : req'[p].kind \in {"change", "cancel", "deliver"} =>
           order[req'[p].order].status \in {"PLACED", "CANCELLED"}
  PROVE  FormInv'
<1>1. \A f : Accepted(f)' <=> Accepted(f)
  BY DEF Accepted, Live
<1>2. OneOrderPerForm'
  BY DEF FormInv, OneOrderPerForm, Live
<1>3. OrderIsOwn'
  BY <1>1 DEF FormInv, OrderIsOwn
<1>4. NoOrderYet' /\ OrderWasAccepted'
  BY DEF FormInv, NoOrderYet, OrderWasAccepted
<1> QED
  BY <1>2, <1>3, <1>4 DEF FormInv

LEMMA StartForms ==
  ASSUME Inv, FormInv, NEW p \in Clerks, Start(p)
  PROVE  FormInv'
<1>1. pc \in [Clerks -> Steps] /\ req \in [Clerks -> Request]
  BY DEF Inv, TypeOK
<1>2. /\ UNCHANGED <<order, locks>>
      /\ ~Placing(p)'
      /\ pc'[p] = "insert_order" => req'[p].order = 0
      /\ req'[p].kind \in {"change", "cancel", "deliver"} => Live(req'[p].order)
  BY <1>1 DEF Start, SubmitOrder, StartChange, StartCancel, StartDeliver, Step, Serve, rows, Placing
<1>3. \A q \in Clerks : q # p => pc'[q] = pc[q] /\ req'[q] = req[q]
  BY OthersKept
<1> QED
  BY <1>2, <1>3, SameOrders DEF Placing, Live, FormInv, NoOrderYet, OrderWasAccepted

LEMMA MiddleForms ==
  ASSUME Inv, FormInv, NEW p \in Clerks, Middle(p)
  PROVE  FormInv'
<1>1. /\ UNCHANGED order
      /\ pc[p] # "insert_order" /\ pc'[p] # "insert_order"
      /\ req'[p].kind = req[p].kind /\ req'[p].form = req[p].form
      /\ req'[p].order = req[p].order
      /\ locks[p] \subseteq locks'[p]
  BY MiddleKeeps
<1>2. \A q \in Clerks : q # p => pc'[q] = pc[q] /\ req'[q] = req[q] /\ locks'[q] = locks[q]
  BY OthersKept
<1> QED
  BY <1>1, <1>2, SameOrders DEF Placing, FormInv, NoOrderYet, OrderWasAccepted

\* What a request relies on does not hang on an order that is neither its own
\* nor accepted.
LEMMA OtherOrders ==
  ASSUME Inv, FormInv, NEW p \in Clerks, NEW o,
         ~Placing(p)', pc'[p] # "insert_order",
         req'[p].kind \notin {"change", "cancel", "deliver"},
         \A q \in Clerks : q # p =>
           /\ pc'[q] = pc[q] /\ req'[q] = req[q] /\ locks'[q] = locks[q]
           /\ Placing(q) => req[q].order # o,
         \A k \in Orders : k # o => order'[k] = order[k],
         o \in Orders => /\ order'[o].form = order[o].form \/ order'[o].status # "PLACED"
                         /\ Live(o)' => Live(o)
                         /\ order[o].status \in {"PLACED", "CANCELLED"} =>
                              order'[o].status \in {"PLACED", "CANCELLED"}
  PROVE  FormInv'
<1>1. \A k \in Orders : Live(k)' => Live(k) /\ order'[k].form = order[k].form
  BY DEF Live
<1>2. \A f : Accepted(f)' => Accepted(f)
  BY <1>1 DEF Accepted
<1>3. OneOrderPerForm'
  BY <1>1 DEF FormInv, OneOrderPerForm
<1>4. \A q \in Clerks : q # p /\ req[q].kind # "none" /\ pc[q] \notin {"idle", "insert_order"} =>
        req[q].order \in Orders
  BY DEF Inv, InputsExist
<1>5. \A q \in Clerks : req[q].kind \in {"place", "change", "cancel", "deliver"} => pc[q] # "idle"
  BY KindOfStep
<1>6. OrderIsOwn'
  BY <1>2, <1>4, <1>5 DEF FormInv, OrderIsOwn, Placing
<1>7. \A q \in Clerks : req[q].kind \in {"change", "cancel", "deliver"} => req[q].order \in Orders
  BY <1>5, KindOfStep DEF Inv, InputsExist
<1>8. NoOrderYet' /\ OrderWasAccepted'
  BY <1>7 DEF FormInv, NoOrderYet, OrderWasAccepted
<1> QED
  BY <1>3, <1>6, <1>8 DEF FormInv

\* A request past its first write works on an order that exists.
LEMMA RequestOrders ==
  ASSUME Inv, NEW p \in Clerks
  PROVE  /\ req[p].kind \in {"change", "cancel", "deliver"} => req[p].order \in Orders
         /\ Placing(p) => req[p].order \in Orders
BY KindOfStep DEF Inv, InputsExist, Placing

\* Two requests do not place the same order, nor orders of the same form.
LEMMA OwnOrdersApart ==
  ASSUME Inv, FormInv, NEW p \in Clerks, NEW q \in Clerks, p # q, Placing(p), Placing(q)
  PROVE  req[q].order # req[p].order /\ req[q].form # req[p].form
<1>1. /\ <<"form", req[p].form>> \in locks[p] /\ <<"form", req[q].form>> \in locks[q]
      /\ order[req[p].order].form = req[p].form /\ order[req[q].order].form = req[q].form
  BY DEF FormInv, OrderIsOwn
<1> QED
  BY <1>1 DEF Inv, LocksExclusive

LEMMA RollBackForms ==
  ASSUME Inv, FormInv, NEW p \in Clerks, RollBack(p)
  PROVE  FormInv'
<1> DEFINE o == req[p].order
<1>1. /\ order' = [k \in Orders |->
                     IF k = o /\ order[k].status = "PENDING" THEN NoOrder ELSE order[k]]
      /\ Forget(p)
  BY DEF RollBack
<1>2. pc'[p] = "idle" /\ req'[p] = NoRequest
  BY <1>1, ForgetSession
<1>3. \A q \in Clerks : q # p => pc'[q] = pc[q] /\ req'[q] = req[q] /\ locks'[q] = locks[q]
  BY OthersKept
<1>4. /\ ~Placing(p)' /\ pc'[p] # "insert_order"
      /\ req'[p].kind \notin {"change", "cancel", "deliver"}
  BY <1>2 DEF Placing, NoRequest
<1>5. CASE o \in Orders /\ order[o].status = "PENDING"
  <2>1. Placing(p)
    <3>1. pc[p] # "insert_order"
      BY <1>5 DEF FormInv, NoOrderYet, Orders
    <3>2. req[p].kind # "none"
      BY DEF RollBack, Inv, StepsFitKind, StepsOf
    <3>3. req[p].kind \notin {"change", "cancel", "deliver"}
      BY <1>5 DEF FormInv, OrderWasAccepted
    <3> QED
      BY <3>1, <3>2, <3>3, KindOfStep DEF Placing
  <2>2. \A q \in Clerks : q # p /\ Placing(q) => req[q].order # o
    BY <2>1, OwnOrdersApart
  <2>3. order'[o] = NoOrder /\ \A k \in Orders : k # o => order'[k] = order[k]
    BY <1>1, <1>5
  <2>4. NoOrder.status = "NONE"
    BY DEF NoOrder
  <2> QED
    BY <1>3, <1>4, <1>5, <2>2, <2>3, <2>4, OtherOrders DEF Live
<1>6. CASE ~(o \in Orders /\ order[o].status = "PENDING")
  <2>1. \A k \in Orders : order'[k] = order[k]
    BY <1>1, <1>6
  <2>2. 0 \notin Orders
    BY DEF Orders
  <2>3. \A q \in Clerks : q # p /\ Placing(q) => req[q].order # 0
    BY <2>2, KindOfStep DEF Inv, InputsExist, Placing
  <2> QED
    BY <1>3, <1>4, <2>1, <2>2, <2>3, OtherOrders
<1> QED
  BY <1>5, <1>6

LEMMA CommitForms ==
  ASSUME Inv, FormInv, NEW p \in Clerks, Commit(p)
  PROVE  FormInv'
<1> DEFINE o == req[p].order
<1>1. /\ order' = CASE req[p].kind = "place"  -> [order EXCEPT ![o].status = "PLACED"]
                    [] req[p].kind = "cancel" -> [order EXCEPT ![o].status = "CANCELLED"]
                    [] OTHER                  -> order
      /\ Forget(p) /\ pc[p] = "commit"
  BY DEF Commit
<1>2. pc'[p] = "idle" /\ req'[p] = NoRequest
  BY <1>1, ForgetSession
<1>3. \A q \in Clerks : q # p => pc'[q] = pc[q] /\ req'[q] = req[q] /\ locks'[q] = locks[q]
  BY OthersKept
<1>4. /\ ~Placing(p)' /\ pc'[p] # "insert_order"
      /\ req'[p].kind \notin {"change", "cancel", "deliver"}
  BY <1>2 DEF Placing, NoRequest
<1>5. o \in Orders /\ order \in [Orders -> OrderRow]
  BY <1>1 DEF Inv, InputsExist, TypeOK
<1>6. CASE req[p].kind = "place"
  <2>1. Placing(p)
    BY <1>1, <1>6 DEF Placing
  <2>2. /\ order[o].status = "PENDING" /\ order[o].form = req[p].form
        /\ ~Accepted(req[p].form) /\ <<"form", req[p].form>> \in locks[p]
    BY <2>1 DEF FormInv, OrderIsOwn
  <2>3. /\ order'[o].status = "PLACED" /\ order'[o].form = req[p].form
        /\ \A k \in Orders : k # o => order'[k] = order[k]
    BY <1>1, <1>5, <1>6, <2>2 DEF OrderRow
  <2>4. \A q \in Clerks : q # p /\ Placing(q) => req[q].order # o /\ req[q].form # req[p].form
    BY <2>1, OwnOrdersApart
  <2>5. \A k \in Orders : k # o /\ Live(k)' => Live(k) /\ order'[k].form # req[p].form
    BY <2>2, <2>3 DEF Live, Accepted
  <2>6. OneOrderPerForm'
    BY <2>3, <2>5 DEF FormInv, OneOrderPerForm, Live
  <2>7. \A f : Accepted(f)' => Accepted(f) \/ f = req[p].form
    BY <2>3, <2>5 DEF Accepted, Live
  <2>8. OrderIsOwn'
    <3>1. ASSUME NEW q \in Clerks, q # p, Placing(q)
          PROVE  /\ order'[req[q].order].status = "PENDING" /\ order'[req[q].order].form = req[q].form
                 /\ <<"form", req[q].form>> \in locks[q]
                 /\ ~Accepted(req[q].form)'
      <4>1. req[q].order \in Orders
        BY <3>1, KindOfStep DEF Inv, InputsExist, Placing
      <4> QED
        BY <1>3, <2>3, <2>4, <2>5, <3>1, <4>1 DEF FormInv, OrderIsOwn, Accepted, Live
    <3> QED
      BY <1>3, <1>4, <3>1 DEF OrderIsOwn, Placing
  <2>9. NoOrderYet' /\ OrderWasAccepted'
    BY <1>3, <1>4, <2>3, RequestOrders DEF FormInv, NoOrderYet, OrderWasAccepted
  <2> QED
    BY <2>6, <2>8, <2>9 DEF FormInv
<1>7. CASE req[p].kind # "place"
  <2>1. order[o].status \in {"PLACED", "CANCELLED"}
    BY <1>1, <1>7, KindOfStep DEF FormInv, OrderWasAccepted, Inv, StepsFitKind, StepsOf
  <2>2. \A q \in Clerks : q # p /\ Placing(q) => req[q].order # o
    BY <2>1 DEF FormInv, OrderIsOwn
  <2>3. /\ order'[o].status \in {order[o].status, "CANCELLED"}
        /\ \A k \in Orders : k # o => order'[k] = order[k]
        /\ order'[o].form = order[o].form
    BY <1>1, <1>5, <1>7 DEF OrderRow
  <2> QED
    BY <1>3, <1>4, <1>5, <2>1, <2>2, <2>3, OtherOrders DEF Live
<1> QED
  BY <1>6, <1>7

LEMMA InsertForms ==
  ASSUME Inv, FormInv, NEW p \in Clerks, NEW o \in Orders, InsertOrder(p, o)
  PROVE  FormInv'
<1> DEFINE f == req[p].form
<1>1. /\ pc[p] = "insert_order" /\ pc' = [pc EXCEPT ![p] = "item"]
      /\ Take(p) /\ ~Accepted(f) /\ NextNumber(o, UsedOrders)
      /\ order' = [order EXCEPT ![o] = [status |-> "PENDING", form |-> f]]
      /\ req' = [req EXCEPT ![p].order = o]
  BY DEF InsertOrder, Step, KeyIsFree
<1>2. order[o].status = "NONE"
  BY <1>1, NumberIsNew DEF UsedOrders, Orders
<1>3. /\ pc \in [Clerks -> Steps] /\ req \in [Clerks -> Request]
      /\ order \in [Orders -> OrderRow] /\ locks \in [Clerks -> SUBSET Resources]
  BY DEF Inv, TypeOK
<1>4. req'[p].kind = "place" /\ req'[p].form = f /\ req'[p].order = o /\ pc'[p] = "item"
  BY <1>1, <1>3, KindOfStep DEF Request
<1>5. \A q \in Clerks : q # p => pc'[q] = pc[q] /\ req'[q] = req[q] /\ locks'[q] = locks[q]
  BY OthersKept
<1>6. <<"form", f>> \in locks'[p]
  BY <1>1, TakeIsExclusive DEF Wanted, Flushes
<1>7. /\ order'[o].status = "PENDING" /\ order'[o].form = f
      /\ \A k \in Orders : k # o => order'[k] = order[k]
  BY <1>1, <1>3
<1>8. \A k \in Orders : Live(k)' => Live(k) /\ order'[k].form = order[k].form
  BY <1>7 DEF Live
<1>9. \A g : Accepted(g)' => Accepted(g)
  BY <1>8 DEF Accepted
<1>10. OneOrderPerForm'
  BY <1>8 DEF FormInv, OneOrderPerForm
<1>11. OrderIsOwn'
  <2>1. ASSUME NEW q \in Clerks, q # p, Placing(q)
        PROVE  /\ order'[req[q].order].status = "PENDING" /\ order'[req[q].order].form = req[q].form
               /\ <<"form", req[q].form>> \in locks[q]
               /\ ~Accepted(req[q].form)'
    <3>1. /\ order[req[q].order].status = "PENDING" /\ order[req[q].order].form = req[q].form
          /\ req[q].order \in Orders
      BY <2>1, RequestOrders DEF FormInv, OrderIsOwn
    <3> QED
      BY <1>2, <1>5, <1>7, <1>8, <2>1, <3>1, RequestOrders DEF FormInv, OrderIsOwn, Accepted, Live
  <2> QED
    BY <1>1, <1>4, <1>5, <1>6, <1>7, <1>9, <2>1 DEF OrderIsOwn, Placing
<1>12. NoOrderYet' /\ OrderWasAccepted'
  BY <1>2, <1>4, <1>5, <1>7, RequestOrders DEF FormInv, NoOrderYet, OrderWasAccepted
<1> QED
  BY <1>10, <1>11, <1>12 DEF FormInv

LEMMA FormsInductive == Inv /\ FormInv /\ [Next]_vars => FormInv'
<1> SUFFICES ASSUME Inv, FormInv, [Next]_vars PROVE FormInv'
  OBVIOUS
<1>1. CASE UNCHANGED <<reservation, line, order, made, freed, handed, session>>
  BY <1>1, SameOrders DEF session, Placing, FormInv, NoOrderYet, OrderWasAccepted
<1> QED
  BY <1>1, StepKinds, StartForms, InsertForms, MiddleForms, RollBackForms, CommitForms

\* A shown form is accepted once, however often it is posted and whatever
\* requests run: the unique index keeps the second insert waiting until the
\* first one commits, and then refuses it.
THEOREM FormIsAcceptedOnce == Spec => []OneOrderPerForm
<1>1. FormInv => OneOrderPerForm
  BY DEF FormInv
<1> QED
  BY <1>1, InitForms, FormsInductive, Invariant, PTL DEF Spec

-----------------------------------------------------------------------------
\* Orders that are being placed do not wait for each other crosswise.

\* WaitInv, of one request.
WaitsWell(p) ==
  /\ pc[p] \in {"idle", "insert_order"} => locks[p] = {}
  /\ req[p].kind \in {"none", "place"} => dropped[p] = {}
  /\ req[p].kind = "place" =>
       \A v \in Variants, i \in req[p].todo :
         <<"variant", v>> \in locks[p] => v <= req[p].basket[i].variant
  /\ req[p].kind = "place" /\ pc[p] = "reserve" =>
       \E i \in req[p].todo :
         NextItem(p, i) /\ line[req[p].line].variant = req[p].basket[i].variant

LEMMA WaitsWellForAll == WaitInv <=> \A p \in Clerks : WaitsWell(p)
BY DEF WaitInv, FirstLockIsForm, PlacingDropsNothing, LocksAscend, ReservesNextItem, WaitsWell

LEMMA InitWaits == Init => WaitInv
<1> SUFFICES ASSUME Init, NEW p \in Clerks PROVE WaitsWell(p)
  BY WaitsWellForAll
<1> QED
  BY DEF Init, NoRequest, WaitsWell

\* The line that a request is about to reserve is not written by another one.
LEMMA LineIsKept ==
  ASSUME Inv, NEW p \in Clerks,
         \/ Start(p) \/ (\E o \in Orders : InsertOrder(p, o)) \/ Middle(p)
         \/ RollBack(p) \/ Commit(p),
         NEW q \in Clerks, q # p, pc[q] = "reserve"
  PROVE  line'[req[q].line] = line[req[q].line]
<1> DEFINE k == req[q].line
<1>1. k \in Lines /\ line[k] # NoLine /\ reservation[k] = NoReservation
  BY DEF Inv, InsertedIsOwn
<1>2. CASE UNCHANGED line
  BY <1>2
<1>3. ASSUME NEW i, NEW l \in Lines, InsertLine(p, i, l)
      PROVE  line'[k] = line[k]
  <2>1. l \notin UsedLines
    BY <1>3, NumberIsNew DEF InsertLine, Lines
  <2> QED
    BY <1>1, <1>3, <2>1 DEF InsertLine, UsedLines, Inv, TypeOK
<1>4. CASE RollBack(p)
  <2>1. k \notin made[p]
    BY <1>1 DEF Inv, WrittenUnderLock, NoReservation
  <2>2. pc[p] = "reserve" => k # req[p].line
    BY DEF Inv, InsertedIsOwn
  <2> QED
    BY <1>1, <1>4, <2>1, <2>2 DEF RollBack, Inserted
<1>5. CASE Start(p) \/ (\E o \in Orders : InsertOrder(p, o)) \/ Commit(p)
  BY <1>2, <1>5 DEF Start, SubmitOrder, StartChange, StartCancel, StartDeliver, InsertOrder,
                    Commit, rows
<1>6. CASE Middle(p)
  BY <1>2, <1>3, <1>6 DEF Middle, Reserve, ReleaseNothing, ReadReservation, Release, Flush,
                          Publish, StartAdding, CancelOrder, LockLine, IssueNothing, IssueRead,
                          Issue, rows
<1> QED
  BY <1>4, <1>5, <1>6

LEMMA OtherWaits ==
  ASSUME Inv, WaitInv, NEW p \in Clerks,
         \/ Start(p) \/ (\E o \in Orders : InsertOrder(p, o)) \/ Middle(p)
         \/ RollBack(p) \/ Commit(p),
         WaitsWell(p)'
  PROVE  WaitInv'
<1>1. ASSUME NEW q \in Clerks, q # p
      PROVE  WaitsWell(q)'
  <2>1. /\ pc'[q] = pc[q] /\ req'[q] = req[q] /\ locks'[q] = locks[q]
        /\ dropped'[q] = dropped[q]
    BY <1>1, OthersKept
  <2>2. pc[q] = "reserve" => line'[req[q].line] = line[req[q].line]
    BY <1>1, LineIsKept
  <2>3. WaitsWell(q)
    BY WaitsWellForAll
  <2> QED
    BY <2>1, <2>2, <2>3 DEF WaitsWell, NextItem
<1>2. \A q \in Clerks : WaitsWell(q)'
  BY <1>1
<1> QED
  BY <1>2 DEF WaitInv, FirstLockIsForm, PlacingDropsNothing, LocksAscend, ReservesNextItem,
              WaitsWell, NextItem

LEMMA StartWaits ==
  ASSUME Inv, WaitInv, NEW p \in Clerks, Start(p)
  PROVE  WaitInv'
<1>1. pc \in [Clerks -> Steps] /\ req \in [Clerks -> Request]
  BY DEF Inv, TypeOK
<1>2. pc[p] = "idle" /\ pc'[p] \in {"insert_order", "release", "lock_line"}
      /\ UNCHANGED <<locks, dropped>>
  BY <1>1 DEF Start, SubmitOrder, StartChange, StartCancel, StartDeliver, Step
<1>3. locks'[p] = {} /\ dropped'[p] = {}
  BY <1>2, KindOfStep, WaitsWellForAll DEF WaitsWell
<1>4. WaitsWell(p)'
  BY <1>2, <1>3 DEF WaitsWell
<1> QED
  BY <1>4, OtherWaits

LEMMA InsertWaits ==
  ASSUME Inv, WaitInv, NEW p \in Clerks, NEW o \in Orders, InsertOrder(p, o)
  PROVE  WaitInv'
<1>1. pc \in [Clerks -> Steps] /\ locks \in [Clerks -> SUBSET Resources]
  BY DEF Inv, TypeOK
<1>2. /\ pc[p] = "insert_order" /\ pc'[p] = "item"
      /\ locks'[p] = locks[p] \cup Wanted(p) /\ UNCHANGED dropped
  BY <1>1 DEF InsertOrder, Step, Take
<1>3. locks[p] = {} /\ dropped[p] = {}
  BY <1>2, KindOfStep, WaitsWellForAll DEF WaitsWell
<1>4. locks'[p] = {<<"form", req[p].form>>}
  BY <1>2, <1>3 DEF Wanted, Flushes
<1> QED
  BY <1>2, <1>3, <1>4, OtherWaits DEF WaitsWell

LEMMA EndWaits ==
  ASSUME Inv, WaitInv, NEW p \in Clerks, RollBack(p) \/ Commit(p)
  PROVE  WaitInv'
<1>1. Forget(p)
  BY DEF RollBack, Commit
<1>2. pc'[p] = "idle" /\ req'[p].kind = "none" /\ locks'[p] = {} /\ dropped'[p] = {}
  BY <1>1 DEF Forget, NoRequest, Inv, TypeOK
<1> QED
  BY <1>2, OtherWaits DEF WaitsWell

\* An order that is being placed is at its items, or reserves the next one.
LEMMA PlacingMiddle ==
  ASSUME Inv, NEW p \in Clerks, Middle(p), req[p].kind = "place"
  PROVE  \/ \E i \in req[p].todo, l \in Lines : InsertLine(p, i, l)
         \/ \E i \in req[p].todo, id \in Lines : Reserve(p, i, id)
         \/ Publish(p)
<1>1. pc[p] \notin {"release", "release_locked", "flush", "lock_line", "issue", "issue_locked"}
  BY KindOfStep
<1> QED
  BY <1>1 DEF Middle, ReleaseNothing, ReadReservation, Release, Flush, StartAdding, CancelOrder,
              LockLine, IssueNothing, IssueRead, Issue, Step

LEMMA MiddleWaits ==
  ASSUME Inv, WaitInv, NEW p \in Clerks, Middle(p)
  PROVE  WaitInv'
<1>1. /\ pc[p] \notin {"idle", "insert_order"} /\ pc'[p] \notin {"idle", "insert_order"}
      /\ req'[p].kind = req[p].kind /\ req'[p].basket = req[p].basket
      /\ req'[p].todo \subseteq req[p].todo
  BY MiddleKeeps
<1>2. WaitsWell(p)
  BY WaitsWellForAll
<1>3. /\ pc \in [Clerks -> Steps] /\ locks \in [Clerks -> SUBSET Resources]
      /\ req \in [Clerks -> Request] /\ line \in [Lines -> LineRow \cup {NoLine}]
  BY DEF Inv, TypeOK
<1>4. CASE req[p].kind # "place"
  BY <1>1, <1>4, OtherWaits DEF WaitsWell, Inv, StepsFitKind, StepsOf
<1>5. CASE req[p].kind = "place"
  <2>1. dropped[p] = {}
    BY <1>2, <1>5 DEF WaitsWell
  <2>2. pc[p] = "item" => Wanted(p) = {}
    BY <2>1 DEF Wanted, Flushes
  <2>3. ASSUME NEW i \in req[p].todo, NEW l \in Lines, InsertLine(p, i, l)
        PROVE  WaitsWell(p)'
    <3>1. /\ pc'[p] = "reserve" /\ locks'[p] = locks[p] /\ UNCHANGED dropped
          /\ NextItem(p, i)
      BY <1>3, <2>2, <2>3 DEF InsertLine, Step, Take
    <3>2. /\ req'[p].todo = req[p].todo /\ req'[p].line = l
          /\ line'[l].variant = req[p].basket[i].variant
      BY <1>3, <2>3 DEF InsertLine, Request
    <3>3. NextItem(p, i)'
      BY <1>1, <3>1, <3>2 DEF NextItem
    <3> QED
      BY <1>1, <1>2, <2>1, <3>1, <3>2, <3>3 DEF WaitsWell
  <2>4. ASSUME NEW j \in req[p].todo, NEW id \in Lines, Reserve(p, j, id)
        PROVE  WaitsWell(p)'
    <3> DEFINE v == line[req[p].line].variant
    <3>1. /\ pc[p] = "reserve" /\ pc'[p] = "item" /\ UNCHANGED dropped
          /\ locks'[p] = locks[p] \cup {<<"variant", v>>}
      BY <1>3, <2>4 DEF Reserve, Step, Take, Wanted, Flushes, VariantLock
    <3>2. PICK i \in req[p].todo : NextItem(p, i) /\ v = req[p].basket[i].variant
      BY <1>2, <1>5, <3>1 DEF WaitsWell
    <3>3. \A k \in req[p].todo : req[p].basket[k].variant \in Nat
      <4>1. req[p].basket \in Baskets \cup Targets \cup { << >> }
        BY <1>3 DEF Request
      <4> QED
        BY <4>1, BasketItems, VariantsAssumption DEF Item, Inv, InputsExist
    <3>4. \A k \in req[p].todo : v <= req[p].basket[k].variant
      BY <3>2, <3>3 DEF NextItem
    <3> QED
      BY <1>1, <1>2, <1>5, <2>1, <3>1, <3>4 DEF WaitsWell
  <2>5. ASSUME Publish(p)
        PROVE  WaitsWell(p)'
    <3>1. pc'[p] = "commit" /\ locks'[p] = locks[p] /\ UNCHANGED dropped
      BY <1>3, <2>2, <2>5 DEF Publish, Step, Take
    <3> QED
      BY <1>1, <1>2, <1>5, <2>1, <3>1 DEF WaitsWell
  <2> QED
    BY <1>5, <2>3, <2>4, <2>5, PlacingMiddle, OtherWaits
<1> QED
  BY <1>4, <1>5

LEMMA WaitsInductive == Inv /\ WaitInv /\ [Next]_vars => WaitInv'
<1> SUFFICES ASSUME Inv, WaitInv, [Next]_vars PROVE WaitInv'
  OBVIOUS
<1>1. CASE UNCHANGED <<reservation, line, order, made, freed, handed, session>>
  BY <1>1 DEF session, WaitInv, FirstLockIsForm, PlacingDropsNothing, LocksAscend,
              ReservesNextItem, NextItem
<1> QED
  BY <1>1, StepKinds, StartWaits, InsertWaits, MiddleWaits, EndWaits

\* Of the variants that are wanted one comes last: they are a finite set.
LEMMA LastVariant ==
  ASSUME NEW V \in SUBSET Variants, V # {}
  PROVE  \E v \in V : \A w \in V : w <= v
<1> DEFINE From(v) == { w \in Variants : v <= w }
           T == { From(v) : v \in V }
           R == StrictSubsetOrdering(Variants)
<1>1. Variants \subseteq Nat /\ IsFiniteSet(Variants)
  BY VariantsAssumption
<1>2. IsWellFoundedOn(R, FiniteSubsetsOf(Variants))
  BY FS_StrictSubsetOrderingWellFounded
<1>3. T \subseteq FiniteSubsetsOf(Variants)
  BY <1>1, FS_FiniteSubsetsOfFinite
<1>4. T # {}
  OBVIOUS
<1>5. PICK x \in T : \A y \in T : ~ (<<y, x>> \in R)
  <2> HIDE DEF T, R
  <2> QED
    BY <1>2, <1>3, <1>4, WFMin
<1>6. PICK v \in V : x = From(v)
  OBVIOUS
<1>7. ASSUME NEW w \in V, ~(w <= v)
      PROVE  FALSE
  <2>1. v \in Nat /\ w \in Nat /\ v < w
    BY <1>1, <1>7
  <2>2. From(w) \subseteq From(v) /\ v \in From(v) /\ v \notin From(w)
    <3>1. v \in Variants /\ w \in Variants
      OBVIOUS
    <3>2. \A u \in Variants : w <= u => v <= u
      BY <1>1, <2>1
    <3>3. v <= v /\ ~(w <= v)
      BY <2>1
    <3> QED
      BY <3>1, <3>2, <3>3, Zenon
  <2>3. <<From(w), From(v)>> \in (SUBSET Variants) \X (SUBSET Variants)
    OBVIOUS
  <2>4. <<From(w), From(v)>> \in R
    BY <2>2, <2>3 DEF StrictSubsetOrdering
  <2> QED
    BY <1>5, <1>6, <2>4
<1> QED
  BY <1>7

LEMMA AscendingLocksNeverDeadlock == Inv /\ WaitInv => PlacingNeverDeadlocks
<1> SUFFICES ASSUME Inv, WaitInv,
                    NEW S \in SUBSET { p \in Clerks : req[p].kind = "place" }, WaitCycle(S)
             PROVE  FALSE
  BY DEF PlacingNeverDeadlocks
<1> DEFINE Wants(p) == line[req[p].line].variant
           Reserving == { p \in S : pc[p] = "reserve" }
           V == { Wants(p) : p \in Reserving }
<1>1. \A p \in S : WaitsWell(p)
  BY WaitsWellForAll
<1>2. ASSUME NEW p \in S
      PROVE  /\ pc[p] \in {"insert_order", "reserve"}
             /\ pc[p] = "reserve" => Wanted(p) = {<<"variant", Wants(p)>>}
             /\ \E q \in S : q # p /\ Wanted(p) \cap locks[q] # {}
  <2>1. pc[p] \in {"insert_order", "item", "reserve", "commit"}
    BY DEF Inv, StepsFitKind, StepsOf
  <2>2. dropped[p] = {}
    BY <1>1 DEF WaitsWell
  <2>3. \E q \in S : q # p /\ Wanted(p) \cap locks[q] # {}
    BY DEF WaitCycle, WaitsFor
  <2>4. pc[p] \notin {"item", "commit"}
    BY <2>2, <2>3 DEF Wanted, Flushes
  <2> QED
    BY <2>1, <2>3, <2>4 DEF Wanted, VariantLock, Flushes
<1>3. ASSUME NEW q \in S, locks[q] # {}
      PROVE  q \in Reserving
  BY <1>1, <1>2, <1>3 DEF WaitsWell
<1>4. V \in SUBSET Variants /\ V # {}
  <2>1. Reserving # {}
    BY <1>2, <1>3 DEF WaitCycle
  <2>2. \A p \in Reserving : Wants(p) \in Variants
    BY DEF Inv, InsertedIsOwn, TypeOK, LineRow
  <2> QED
    BY <2>1, <2>2
<1>5. PICK p \in Reserving : \A q \in Reserving : Wants(q) <= Wants(p)
  <2> HIDE DEF Reserving
  <2>1. PICK v \in V : \A w \in V : w <= v
    BY <1>4, LastVariant
  <2> QED
    BY <2>1
<1>6. PICK q \in S : q # p /\ <<"variant", Wants(p)>> \in locks[q]
  BY <1>2
<1>7. q \in Reserving
  BY <1>3, <1>6
<1>8. Wants(p) \in Variants /\ Wants(q) \in Variants
  BY <1>4, <1>7
<1>9. Wants(p) <= Wants(q)
  BY <1>1, <1>6, <1>7, <1>8 DEF WaitsWell
<1>10. Wants(p) = Wants(q)
  BY <1>5, <1>7, <1>8, <1>9, VariantsAssumption
<1>11. PICK r \in S : r # q /\ <<"variant", Wants(q)>> \in locks[r]
  BY <1>2, <1>7
<1> QED
  BY <1>6, <1>10, <1>11 DEF Inv, LocksExclusive

\* Orders that are being placed never wait for each other in a circle, however
\* many there are: they lock the variants in one order, whatever was posted.
THEOREM PlacingIsDeadlockFree == Spec => []PlacingNeverDeadlocks
<1> QED
  BY InitWaits, WaitsInductive, AscendingLocksNeverDeadlock, Invariant, InitInv, PTL DEF Spec
=============================================================================
