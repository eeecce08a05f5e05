---------------------------- MODULE SystemProofs ----------------------------
(***************************************************************************)
(* Theorems about bookings and payments together.  The composition adds    *)
(* nothing to its parts - each of its steps is a step of module Booking    *)
(* and a step of module Payment, or none of the module's business - and    *)
(* what relates the parts is proved of the composition itself.             *)
(***************************************************************************)
EXTENDS EventBookingSystem, BookingProofs

----------------------------------------------------------------------------
(* The steps of the parts.                                                 *)

LEMMA BookingStep == [SystemNext]_system => [Next]_vars
<1> SUFFICES ASSUME [SystemNext]_system PROVE [Next]_vars
  OBVIOUS
<1>1. CASE Serve(Arrive)
  BY <1>1 DEF Serve, Arrive, Next
<1>2. ASSUME NEW r \in BookReq, BookAndPay(r) PROVE BookStep(r)
  BY <1>2 DEF BookAndPay, BookStep
<1>3. ASSUME NEW r \in EditReq, Serve(EditStep(r)) \/ Notify(r) PROVE EditStep(r) \/ NotifyTask(r)
  BY <1>3 DEF Serve, Notify
<1>4. ASSUME NEW r \in EditReq, NotifyLook(r) PROVE UNCHANGED vars
  BY <1>4 DEF NotifyLook
<1>5. ASSUME NEW r \in EditReq, LoseNotice(r) PROVE LoseTask(r) \/ UNCHANGED vars
  BY <1>5 DEF LoseNotice
<1>6. ASSUME NEW A, Pay(A) PROVE UNCHANGED vars
  BY <1>6 DEF Pay
<1>7. CASE SystemQuiescent \/ UNCHANGED system
  BY <1>7 DEF SystemQuiescent, system
<1> QED
  BY <1>1, <1>2, <1>3, <1>4, <1>5, <1>6, <1>7 DEF SystemNext, SystemWork, Next

LEMMA PaymentStep == [SystemNext]_system => [P!Next]_(P!vars)
<1> SUFFICES ASSUME [SystemNext]_system PROVE [P!Next]_(P!vars)
  OBVIOUS
<1>0. UNCHANGED <<ledger, lost>> => UNCHANGED P!vars
  BY DEF ledger, P!vars, P!requests, P!triggers, P!confirmations, P!gateway, P!receiver
<1>1. CASE Serve(Arrive)
  BY <1>0, <1>1 DEF Serve
<1>2. ASSUME NEW r \in BookReq, BookAndPay(r) PROVE P!Record(r) \/ P!Publish(r) \/ UNCHANGED <<ledger, lost>>
  BY <1>2 DEF BookAndPay
<1>3. ASSUME NEW r \in EditReq, Serve(EditStep(r)) \/ Notify(r) \/ NotifyLook(r) \/ LoseNotice(r)
      PROVE  UNCHANGED <<ledger, lost>>
  BY <1>3 DEF Serve, Notify, NotifyLook, LoseNotice
<1>4. CASE Pay(P!Work) \/ Pay(P!Surprise)
  BY <1>4 DEF Pay, P!Next
<1>5. CASE SystemQuiescent \/ UNCHANGED system
  BY <1>0, <1>5 DEF SystemQuiescent, system
<1> QED
  BY <1>0, <1>1, <1>2, <1>3, <1>4, <1>5 DEF SystemNext, SystemWork, P!Next

(***************************************************************************)
(* Whatever the composition does, its bookings, events and notifications   *)
(* do what module Booking describes: the theorems of module BookingProofs  *)
(* hold of it.                                                             *)
(***************************************************************************)
THEOREM BookingsCompose == SystemSpec => Spec
<1>1. SystemInit => Init
  BY DEF SystemInit
<1> QED BY <1>1, BookingStep, PTL DEF SystemSpec, Spec

(***************************************************************************)
(* Likewise its payments do what module Payment describes, the commit of a *)
(* booking and the publication after it being the only steps they wait for. *)
(***************************************************************************)
THEOREM PaymentsCompose == SystemSpec => P!Spec
<1>1. SystemInit => P!Init
  BY DEF SystemInit
<1> QED BY <1>1, PaymentStep, PTL DEF SystemSpec, P!Spec

(***************************************************************************)
(* So no mix of bookings, updates, tasks and webhooks counts a ticket      *)
(* wrongly, breaks a reservation, loses half of a booking or tells a       *)
(* customer what did not happen (bookings/service.py 24-81).               *)
(***************************************************************************)
THEOREM BookingsStayCorrect ==
    SystemSpec => [](TicketsMatchBookings /\ ReservationHolds /\ BookingsAreWhole /\ RepliesTellTheTruth)
BY BookingsCompose, CounterCorrect, ReservationsHold, WholeBookings, TrueReplies, PTL

(***************************************************************************)
(* Seen from outside, tickets are still sold by the ticket office - each   *)
(* sale and each change of capacity at once, never beyond the capacity -   *)
(* while webhooks and tasks go on between the steps of a booking.          *)
(***************************************************************************)
THEOREM OfficeStaysOpen == SystemSpec => ImplementsTicketOffice /\ NoOversellAtSale
BY BookingsCompose, Refinement, NoOversell, PTL

(***************************************************************************)
(* With one web worker the webhooks, which take turns with the bookings,   *)
(* do not make a customer pay an outdated price either.                    *)
(***************************************************************************)
THEOREM CurrentPricePaid == ASSUME WebWorkers = 1 PROVE SystemSpec => ChargedTheCurrentPrice
BY BookingsCompose, CurrentPriceCharged, PTL

----------------------------------------------------------------------------
(* Webhooks and the rows they write.                                       *)

\* Arrays of the payments' side, of whatever values.
Arrays ==
    /\ row = [p \in BookReq |-> row[p]] /\ request = [p \in BookReq |-> request[p]]
    /\ confirmed = [p \in BookReq |-> confirmed[p]]
    /\ order = [c \in P!Call |-> order[c]] /\ mock = [c \in P!Call |-> mock[c]]
    /\ hook = [d \in P!Delivery |-> hook[d]]

\* A webhook is delivered for a call that was made; its handler went on only
\* because it found the row of the order.
HandledAreRecorded ==
    /\ \A c \in P!Call : mock[c] # "unused" => order[c] \in BookReq
    /\ \A d \in P!Delivery :
        /\ mock[d[1]] = "unused" => hook[d] = "unsent"
        /\ hook[d] \in {"loaded", "written"} => P!Recorded(P!Order(d))

LEMMA Deliveries ==
    /\ \A d \in P!Delivery : d[1] \in P!Call
    /\ \A c \in P!Call, n \in 1..MaxTries : <<c, n>> \in P!Delivery
    /\ \A c \in P!Call : <<c, 1>> \in P!Delivery
    /\ BookReq \subseteq P!Call /\ Manual \subseteq P!Call
BY SystemAssumption DEF P!PaymentAssumption, P!Delivery, P!Call

LEMMA Carried ==
    ASSUME HandledAreRecorded, NEW d \in P!Delivery, hook[d] # "unsent"
    PROVE  P!Order(d) \in BookReq
BY Deliveries DEF HandledAreRecorded, P!Order

\* What a step may do to a row, a confirmation and a handler.
LEMMA Writes ==
    ASSUME Arrays, HandledAreRecorded, [SystemNext]_system
    PROVE  /\ \/ UNCHANGED row
              \/ \E p \in BookReq : P!Record(p) /\ BookCommit(p)
              \/ \E d \in P!Delivery : P!HookWrite(d)
           /\ \/ UNCHANGED confirmed
              \/ \E d \in P!Delivery : P!HookConfirm(d)
           /\ \A c \in P!Call : mock'[c] # "unused" => order'[c] \in BookReq
           /\ \A d \in P!Delivery :
                 /\ mock'[d[1]] = "unused" => hook'[d] = "unsent"
                 /\ \/ hook'[d] \notin {"loaded", "written"}
                    \/ hook'[d] = hook[d] /\ P!Order(d)' = P!Order(d)
                    \/ P!HookLoad(d)
                    \/ P!HookWrite(d)
           /\ \A p \in BookReq : request'[p] = "none" => request[p] = "none"
           /\ Arrays'
<1> DEFINE Goal ==
           /\ \/ UNCHANGED row
              \/ \E p \in BookReq : P!Record(p) /\ BookCommit(p)
              \/ \E d \in P!Delivery : P!HookWrite(d)
           /\ \/ UNCHANGED confirmed
              \/ \E d \in P!Delivery : P!HookConfirm(d)
           /\ \A c \in P!Call : mock'[c] # "unused" => order'[c] \in BookReq
           /\ \A d \in P!Delivery :
                 /\ mock'[d[1]] = "unused" => hook'[d] = "unsent"
                 /\ \/ hook'[d] \notin {"loaded", "written"}
                    \/ hook'[d] = hook[d] /\ P!Order(d)' = P!Order(d)
                    \/ P!HookLoad(d)
                    \/ P!HookWrite(d)
           /\ \A p \in BookReq : request'[p] = "none" => request[p] = "none"
           /\ Arrays'
<1> SUFFICES Goal
  OBVIOUS
<1> USE DEF P!gateway, P!receiver, P!confirmations, P!requests, P!triggers, P!Order, HandledAreRecorded, Arrays
<1>1. ASSUME NEW p \in BookReq, P!Record(p), BookCommit(p) PROVE Goal
  BY <1>1 DEF P!Record, P!Request
<1>2. ASSUME UNCHANGED <<row, confirmed, order, mock, hook>>, request' = [p \in BookReq |-> request'[p]],
             \A p \in BookReq : request'[p] = "none" => request[p] = "none"
      PROVE  Goal
  BY <1>2
<1>3. ASSUME NEW p \in BookReq, P!Publish(p) \/ P!RequestStep(p) \/ P!LoseRequest(p) PROVE Goal
  BY <1>2, <1>3 DEF P!Publish, P!RequestStep, P!RequestStart, P!RequestMark, P!AfterMark, P!RequestSchedule,
     P!LoseRequest, P!Request
<1>4. ASSUME NEW p \in BookReq, P!SendConfirmation(p) \/ P!LoseConfirmation(p) \/ P!LoseTrigger(p) PROVE Goal
  BY <1>2, <1>4 DEF P!SendConfirmation, P!LoseConfirmation, P!LoseTrigger
<1>5. ASSUME NEW c \in P!Call, NEW o \in BookReq, NEW t, P!CallMock(c, o, t),
             UNCHANGED <<row, request, confirmed, hook>>
      PROVE  Goal
  <2>1. /\ mock[c] = "unused" /\ mock'[c] = "called" /\ order'[c] = o
        /\ \A b \in P!Call \ {c} : mock'[b] = mock[b] /\ order'[b] = order[b]
    BY <1>5 DEF P!CallMock
  <2>2. order' = [b \in P!Call |-> order'[b]] /\ mock' = [b \in P!Call |-> mock'[b]]
    BY <1>5 DEF P!CallMock
  <2>3. \A d \in P!Delivery : /\ d[1] \in P!Call
                              /\ hook[d] # "unsent" => d[1] # c
    BY <2>1, Deliveries
  <2> QED BY <1>5, <2>1, <2>2, <2>3
<1>6. ASSUME NEW p \in BookReq, P!TriggerStep(p) PROVE Goal
  <2>1. CASE P!TriggerCall(p)
    BY <1>5, <2>1, Deliveries DEF P!TriggerCall
  <2>2. CASE P!TriggerStart(p) \/ P!TriggerReturn(p) \/ P!TriggerRaise(p)
    BY <1>2, <2>2 DEF P!TriggerStart, P!TriggerReturn, P!TriggerRaise
  <2> QED BY <1>6, <2>1, <2>2 DEF P!TriggerStep
<1>7. ASSUME NEW c \in Manual, NEW o \in BookReq, NEW t, P!Simulate(c, o, t) PROVE Goal
  BY <1>5, <1>7, Deliveries DEF P!Simulate
<1>8. ASSUME NEW e \in P!Delivery, P!Deliver(e), mock[e[1]] # "unused", UNCHANGED <<row, request, confirmed, order>>,
             mock' = [c \in P!Call |-> mock'[c]], \A c \in P!Call : mock'[c] = "unused" <=> mock[c] = "unused"
      PROVE  Goal
  <2>1. /\ hook' = [d \in P!Delivery |-> hook'[d]] /\ hook'[e] = "sent"
        /\ \A d \in P!Delivery \ {e} : hook'[d] = hook[d]
    BY <1>8 DEF P!Deliver
  <2> QED BY <1>8, <2>1, Deliveries
<1>9. ASSUME NEW c \in P!Call, P!MockStep(c) \/ P!LoseCall(c) PROVE Goal
  <2>1. CASE P!MockDeliver(c)
    <3>1. <<c, 1>> \in P!Delivery /\ <<c, 1>>[1] = c
      BY Deliveries
    <3>2. mock[c] # "unused" /\ \A b \in P!Call : mock'[b] = "unused" <=> mock[b] = "unused"
      BY <2>1 DEF P!MockDeliver
    <3>3. P!Deliver(<<c, 1>>) /\ UNCHANGED <<row, request, confirmed, order>> /\ mock' = [b \in P!Call |-> mock'[b]]
      BY <2>1 DEF P!MockDeliver
    <3> QED BY <1>8, <3>1, <3>2, <3>3
  <2>2. CASE P!MockReturn(c) \/ P!LoseCall(c)
    <3>1. /\ UNCHANGED <<row, request, confirmed, order, hook>> /\ mock' = [b \in P!Call |-> mock'[b]]
          /\ \A b \in P!Call : mock'[b] = "unused" <=> mock[b] = "unused"
      BY <2>2 DEF P!MockReturn, P!LoseCall
    <3> QED BY <3>1, Deliveries
  <2> QED BY <1>9, <2>1, <2>2 DEF P!MockStep
<1>10. ASSUME NEW c \in P!Call, NEW n \in 1..MaxTries, P!Redeliver(c, n) PROVE Goal
  <2>1. n + 1 \in 1..MaxTries
    BY <1>10, SystemAssumption DEF P!Redeliver, P!PaymentAssumption
  <2>2. <<c, n + 1>> \in P!Delivery /\ <<c, n + 1>>[1] = c /\ <<c, n>> \in P!Delivery /\ <<c, n>>[1] = c
    BY <2>1, Deliveries
  <2>3. hook[<<c, n>>] # "unsent" /\ P!Deliver(<<c, n + 1>>) /\ UNCHANGED <<row, request, confirmed, order, mock>>
    BY <1>10 DEF P!Redeliver
  <2>4. mock[c] # "unused"
    BY <2>2, <2>3
  <2> QED BY <1>8, <2>2, <2>3, <2>4
\* A handler goes on, and nothing but its own delivery changes.
<1>11. ASSUME NEW e \in P!Delivery, hook[e] # "unsent", UNCHANGED <<order, mock, request>>,
              NEW h, hook' = [hook EXCEPT ![e] = h], h # "unsent",
              \/ h \notin {"loaded", "written"} \/ P!HookLoad(e) \/ P!HookWrite(e),
              \/ UNCHANGED row /\ row' = [p \in BookReq |-> row'[p]]
              \/ P!HookWrite(e) /\ row' = [p \in BookReq |-> row'[p]],
              \/ UNCHANGED confirmed
              \/ P!HookConfirm(e) /\ confirmed' = [p \in BookReq |-> confirmed'[p]]
       PROVE  Goal
  <2>1. /\ hook' = [d \in P!Delivery |-> hook'[d]] /\ hook'[e] = h
        /\ \A d \in P!Delivery \ {e} : hook'[d] = hook[d]
    BY <1>11
  <2>2. ASSUME NEW d \in P!Delivery
        PROVE  /\ mock'[d[1]] = "unused" => hook'[d] = "unsent"
               /\ \/ hook'[d] \notin {"loaded", "written"}
                  \/ hook'[d] = hook[d] /\ P!Order(d)' = P!Order(d)
                  \/ P!HookLoad(d)
                  \/ P!HookWrite(d)
    BY <1>11, <2>1
  <2> HIDE DEF P!Order
  <2> QED BY <1>11, <2>1, <2>2
<1>12. ASSUME NEW e \in P!Delivery, P!HookLimit(e) \/ P!HookReject(e) \/ P!HookIgnore(e) \/ P!LoseHook(e) PROVE Goal
  <2>1. /\ hook[e] # "unsent" /\ UNCHANGED <<order, mock, request, row, confirmed>>
        /\ \E h \in {"answered", "lost"} : hook' = [hook EXCEPT ![e] = h]
    BY <1>12 DEF P!HookLimit, P!HookReject, P!HookIgnore, P!LoseHook, P!Admit, P!AnswerHook
  <2> QED BY <1>11, <2>1
<1>13. ASSUME NEW e \in P!Delivery, P!HookLoad(e) PROVE Goal
  <2>1. /\ hook[e] # "unsent" /\ UNCHANGED <<order, mock, request, row, confirmed>>
        /\ hook' = [hook EXCEPT ![e] = "loaded"]
    BY <1>13 DEF P!HookLoad, P!Admit
  <2> QED BY <1>11, <1>13, <2>1
<1>14. ASSUME NEW e \in P!Delivery, P!HookWrite(e) PROVE Goal
  <2>1. /\ hook[e] # "unsent" /\ UNCHANGED <<order, mock, request, confirmed>>
        /\ \E h \in {"written", "answered"} : hook' = [hook EXCEPT ![e] = h]
        /\ row' = [p \in BookReq |-> row'[p]]
    BY <1>14 DEF P!HookWrite, P!AnswerHook, P!UpdatePayment
  <2> QED BY <1>11, <1>14, <2>1
<1>15. ASSUME NEW e \in P!Delivery, P!HookConfirm(e) PROVE Goal
  <2>1. /\ hook[e] # "unsent" /\ UNCHANGED <<order, mock, request, row>>
        /\ hook' = [hook EXCEPT ![e] = "answered"]
        /\ UNCHANGED confirmed \/ confirmed' = [p \in BookReq |-> confirmed'[p]]
    BY <1>15 DEF P!HookConfirm, P!AnswerHook
  <2> QED BY <1>11, <1>15, <2>1
<1>16. CASE P!NextHour
  BY <1>2, <1>16 DEF P!NextHour
<1>17. CASE UNCHANGED <<ledger, lost>>
  BY <1>2, <1>17 DEF ledger
<1> HIDE DEF Goal
<1>18. CASE P!Work \/ P!Surprise
  BY <1>3, <1>4, <1>6, <1>7, <1>9, <1>10, <1>12, <1>13, <1>14, <1>15, <1>16, <1>18
     DEF P!Work, P!Surprise, P!HookStep
<1>19. ASSUME NEW r \in BookReq, BookAndPay(r) PROVE Goal
  BY <1>1, <1>3, <1>17, <1>19 DEF BookAndPay
<1>20. ASSUME NEW r \in EditReq, Serve(EditStep(r)) \/ Notify(r) \/ NotifyLook(r) \/ LoseNotice(r) PROVE Goal
  BY <1>17, <1>20 DEF Serve, Notify, NotifyLook, LoseNotice
<1>21. CASE Serve(Arrive) \/ SystemQuiescent \/ UNCHANGED system
  BY <1>17, <1>21 DEF Serve, SystemQuiescent, system
<1> QED
  BY <1>18, <1>19, <1>20, <1>21 DEF SystemNext, SystemWork, Pay

\* Bookings and payments are not undone, and requests name their event for good.
LEMMA BookingsStay ==
    ASSUME IInv, [Next]_vars
    PROVE  /\ bookings \subseteq bookings' /\ payments \subseteq payments'
           /\ \A r \in Req : pc[r] # "new" => pc'[r] # "new" /\ target'[r] = target[r]
<1> USE DEF IInv, TypeOK
<1>1. ASSUME NEW r \in BookReq, BookCommit(r)
      PROVE  /\ bookings' = bookings \cup {r} /\ payments' = payments \cup {r}
             /\ pc' = [pc EXCEPT ![r] = "committed"] /\ target' = target
  BY <1>1, CommitStep DEF BookCommit, Goto, args
<1>2. ASSUME NEW r \in Req, NEW l \in {"loaded", "reserved", "ordered", "committed", "done"},
             pc' = [pc EXCEPT ![r] = l], target' = target \/ (pc[r] = "new" /\ \E e : target' = [target EXCEPT ![r] = e])
      PROVE  \A s \in Req : pc[s] # "new" => pc'[s] # "new" /\ target'[s] = target[s]
  BY <1>2
<1>3. ASSUME NEW r \in BookReq, BookArrive(r) \/ (BookStep(r) /\ ~BookCommit(r))
      PROVE  /\ bookings' = bookings /\ payments' = payments
             /\ \E l \in {"loaded", "reserved", "ordered", "committed", "done"} : pc' = [pc EXCEPT ![r] = l]
             /\ target' = target \/ (pc[r] = "new" /\ \E e : target' = [target EXCEPT ![r] = e])
  BY <1>3 DEF BookArrive, BookReject, BookLoad, BookStep, BookRefuse, BookReserve, BookOrder,
     BookGatewayFails, BookTooDear, BookEnqueue, Rollback, Goto, Answer, rows, args
<1>4. ASSUME NEW r \in EditReq, EditArrive(r) \/ EditStep(r)
      PROVE  /\ bookings' = bookings /\ payments' = payments
             /\ \E l \in {"loaded", "reserved", "ordered", "committed", "done"} : pc' = [pc EXCEPT ![r] = l]
             /\ target' = target \/ (pc[r] = "new" /\ \E e : target' = [target EXCEPT ![r] = e])
  <2>1. CASE EditArrive(r)
    <3>1. ASSUME NEW e \in Event, NEW o \in Organizer, NEW p \in Patch, EditReject(r, e, o, p)
          PROVE  /\ bookings' = bookings /\ payments' = payments
                 /\ pc' = [pc EXCEPT ![r] = "done"] /\ target' = target
      BY <3>1 DEF EditReject, Answer, rows, args
    <3>2. ASSUME NEW e \in Event, NEW o \in Organizer, NEW p \in Patch, EditLoad(r, e, o, p)
          PROVE  /\ bookings' = bookings /\ payments' = payments /\ pc[r] = "new"
                 /\ pc' = [pc EXCEPT ![r] = "loaded"] /\ target' = [target EXCEPT ![r] = e]
      BY <3>2 DEF EditLoad, Goto, rows
    <3> QED BY <2>1, <3>1, <3>2 DEF EditArrive
  <2>2. CASE EditStep(r)
    <3>1. CASE EditCommit(r)
      BY <3>1 DEF EditCommit, Goto, args
    <3>2. CASE EditStale(r)
      BY <3>2 DEF EditStale, Answer, rows, args
    <3>3. CASE EditTooWide(r)
      BY <3>3 DEF EditTooWide, Answer, rows, args
    <3>4. CASE EditEnqueue(r)
      BY <3>4 DEF EditEnqueue, Answer, rows, args
    <3> QED BY <2>2, <3>1, <3>2, <3>3, <3>4 DEF EditStep
  <2> QED BY <1>4, <2>1, <2>2
<1>5. ASSUME NEW r \in DropReq, DropArrive(r) \/ DropStep(r)
      PROVE  /\ bookings' = bookings /\ payments' = payments
             /\ \E l \in {"loaded", "reserved", "ordered", "committed", "done"} : pc' = [pc EXCEPT ![r] = l]
             /\ target' = target \/ (pc[r] = "new" /\ \E e : target' = [target EXCEPT ![r] = e])
  BY <1>5 DEF DropArrive, DropReject, DropLoad, DropStep, DropConflict, DropDelete, Answer, Goto, rows, args
<1>6. ASSUME NEW r \in Req, Crash(r)
      PROVE  /\ bookings' = bookings /\ payments' = payments
             /\ pc' = [pc EXCEPT ![r] = "done"] /\ target' = target
  BY <1>6 DEF Crash, Goto, rows, args
<1>7. ASSUME NEW r \in EditReq, NotifyTask(r) \/ LoseTask(r)
      PROVE  bookings' = bookings /\ payments' = payments /\ pc' = pc /\ target' = target
  BY <1>7 DEF NotifyTask, LoseTask, rows, handlers
<1>8. ASSUME NEW e \in Event, NEW o \in Organizer, NEW c \in NewEvent, CreateEvent(e, o, c)
      PROVE  bookings' = bookings /\ payments' = payments /\ pc' = pc /\ target' = target
  BY <1>8 DEF CreateEvent, handlers
<1>9. CASE Tick \/ UNCHANGED vars
  BY <1>9 DEF Tick, vars, rows, handlers
<1> HIDE DEF TypeOK, IInv
<1>10. ASSUME NEW r \in BookReq, BookArrive(r) \/ BookStep(r)
       PROVE  /\ bookings \subseteq bookings' /\ payments \subseteq payments'
              /\ \A s \in Req : pc[s] # "new" => pc'[s] # "new" /\ target'[s] = target[s]
  BY <1>1, <1>2, <1>3, <1>10 DEF Req
<1>11. ASSUME NEW r \in EditReq, EditArrive(r) \/ EditStep(r)
       PROVE  \A s \in Req : pc[s] # "new" => pc'[s] # "new" /\ target'[s] = target[s]
  BY <1>2, <1>4, <1>11 DEF Req
<1>12. ASSUME NEW r \in DropReq, DropArrive(r) \/ DropStep(r)
       PROVE  \A s \in Req : pc[s] # "new" => pc'[s] # "new" /\ target'[s] = target[s]
  BY <1>2, <1>5, <1>12 DEF Req
<1>13. ASSUME NEW r \in Req, Crash(r)
       PROVE  \A s \in Req : pc[s] # "new" => pc'[s] # "new" /\ target'[s] = target[s]
  BY <1>2, <1>6, <1>13
<1> QED
  BY <1>4, <1>5, <1>6, <1>7, <1>8, <1>9, <1>10, <1>11, <1>12, <1>13 DEF Next, Quiescent

\* A row that was written is no NoRow.
LEMMA RowsAreRows ==
    ASSUME NEW s \in P!PaymentStatus, NEW g, NEW id PROVE P!Row(s, g, id) # P!NoRow
BY SystemAssumption DEF P!PaymentAssumption, P!Row, P!NoRow, P!PaymentStatus

\* Rows are of committed bookings; confirmations are of rows.
RecordedAreBooked ==
    \A p \in BookReq :
        /\ P!Recorded(p) => p \in bookings /\ p \in payments
        /\ confirmed[p] # 0 => P!Recorded(p)

LEMMA InitBooked == SystemInit => Arrays /\ HandledAreRecorded /\ RecordedAreBooked
BY DEF SystemInit, P!Init, Arrays, HandledAreRecorded, RecordedAreBooked, P!Recorded

LEMMA StepBooked ==
    ASSUME IInv, Arrays, HandledAreRecorded, RecordedAreBooked, [SystemNext]_system
    PROVE  Arrays' /\ HandledAreRecorded' /\ RecordedAreBooked'
<1> USE DEF P!Recorded
<1>1. bookings \subseteq bookings' /\ payments \subseteq payments'
  BY BookingStep, BookingsStay
<1>2. ASSUME NEW q \in BookReq, P!Record(q), BookCommit(q)
      PROVE  /\ \A p \in BookReq : P!Recorded(p) => P!Recorded(p)'
             /\ \A p \in BookReq : P!Recorded(p)' => P!Recorded(p) \/ p = q
             /\ q \in bookings' /\ q \in payments'
  <2>1. q \in bookings' /\ q \in payments'
    BY <1>2, CommitStep
  <2>2. row'[q] # P!NoRow /\ \A p \in BookReq \ {q} : row'[p] = row[p]
    BY <1>2, RowsAreRows DEF P!Record, P!PaymentStatus, Arrays
  <2> QED BY <2>1, <2>2
<1>3. ASSUME NEW d \in P!Delivery, P!HookWrite(d)
      PROVE  \A p \in BookReq : P!Recorded(p)' <=> P!Recorded(p)
  <2>1. P!Order(d) \in BookReq /\ P!Recorded(P!Order(d))
    BY <1>3, Carried DEF P!HookWrite, HandledAreRecorded
  <2>2. row'[P!Order(d)] # P!NoRow /\ \A p \in BookReq \ {P!Order(d)} : row'[p] = row[p]
    BY <1>3, <2>1, RowsAreRows DEF P!HookWrite, P!UpdatePayment, P!EventToStatus, P!PaymentStatus, Arrays
  <2> QED BY <2>1, <2>2
<1>4. \A p \in BookReq : /\ P!Recorded(p) => P!Recorded(p)'
                         /\ P!Recorded(p)' => p \in bookings' /\ p \in payments'
  <2>1. CASE UNCHANGED row
    BY <1>1, <2>1 DEF RecordedAreBooked
  <2> QED BY <1>1, <1>2, <1>3, <2>1, Writes DEF RecordedAreBooked
<1>5. \A p \in BookReq : confirmed'[p] # 0 => P!Recorded(p)
  <2>1. ASSUME NEW d \in P!Delivery, P!HookConfirm(d), NEW p \in BookReq, confirmed'[p] # confirmed[p]
        PROVE  P!Recorded(p)
    <3>1. p = P!Order(d) /\ hook[d] = "written"
      BY <2>1 DEF P!HookConfirm, Arrays
    <3> QED BY <3>1 DEF HandledAreRecorded
  <2> QED BY <2>1, Writes DEF RecordedAreBooked
<1>6. HandledAreRecorded'
  <2> SUFFICES ASSUME NEW d \in P!Delivery, hook'[d] \in {"loaded", "written"}
               PROVE  P!Recorded(P!Order(d))'
    BY Writes DEF HandledAreRecorded
  <2>1. P!Order(d)' = P!Order(d) /\ P!Order(d) \in BookReq /\ P!Recorded(P!Order(d))
    <3>1. CASE hook'[d] = hook[d] /\ P!Order(d)' = P!Order(d)
      BY <3>1, Carried DEF HandledAreRecorded
    <3>2. CASE P!HookLoad(d) \/ P!HookWrite(d)
      BY <3>2, Carried DEF P!HookLoad, P!Admit, P!HookWrite, P!gateway, P!Order, HandledAreRecorded
    <3> QED BY <3>1, <3>2, Writes
  <2> QED BY <1>4, <2>1
<1>7. RecordedAreBooked'
  BY <1>4, <1>5 DEF RecordedAreBooked
<1> QED BY <1>6, <1>7, Writes

LEMMA SystemInvariance == SystemSpec => [](IInv /\ Arrays /\ HandledAreRecorded /\ RecordedAreBooked)
<1> DEFINE Inv == Arrays /\ HandledAreRecorded /\ RecordedAreBooked
<1>1. SystemInit => IInv /\ Inv
  BY InitBooked, InitInv DEF SystemInit
<1>2. IInv /\ Inv /\ [SystemNext]_system => (IInv /\ Inv)'
  BY BookingStep, StepInv, StepBooked
<1> QED BY <1>1, <1>2, PTL DEF SystemSpec

(***************************************************************************)
(* No webhook - early, late, twice or for an order whose booking was       *)
(* rolled back - settles or confirms what was not booked, with any number  *)
(* of web workers (payments/service.py 14-22, bookings/service.py 56-68).  *)
(***************************************************************************)
THEOREM OnlyBookedIsPaid == SystemSpec => []PaidIsBooked
<1>1. RecordedAreBooked => PaidIsBooked
  <2> SUFFICES ASSUME RecordedAreBooked, NEW p \in BookReq, P!Settled(p) \/ confirmed[p] > 0
               PROVE  P!Recorded(p)
    BY DEF RecordedAreBooked, PaidIsBooked
  <2>1. P!Settled(p) => P!Recorded(p)
    BY SystemAssumption DEF P!PaymentAssumption, P!Settled, P!Recorded, P!NoRow, P!Row, P!PaymentStatus
  <2> QED BY <2>1 DEF RecordedAreBooked
<1> QED BY <1>1, SystemInvariance, PTL

----------------------------------------------------------------------------
(* With one web worker no two webhook handlers overlap.                    *)

OneWebhook ==
    /\ \A d, e \in P!Handling : d = e
    /\ \A d \in P!Delivery : hook[d] = "loaded" => ~P!Settled(P!Order(d))
    /\ \A d \in P!Delivery : hook[d] = "written" => row[P!Order(d)].status = "PROCESSED" /\ confirmed[P!Order(d)] = 0
    /\ \A p \in BookReq : confirmed[p] = 0 \/ (confirmed[p] = 1 /\ row[p].status = "PROCESSED")
    /\ \A p \in BookReq : request[p] = "none" => row[p] = P!NoRow

LEMMA InitOneWebhook == SystemInit => OneWebhook
BY DEF SystemInit, P!Init, OneWebhook, P!Handling

LEMMA SameCount == ASSUME NEW S PROVE P!Cardinality(S) = Cardinality(S)
BY DEF P!Cardinality, Cardinality

LEMMA NoHandler == ASSUME WebWorkers = 1, OneWebhook, P!HasWorker PROVE P!Handling = {}
<1> SUFFICES ASSUME NEW d \in P!Handling PROVE FALSE
  OBVIOUS
<1>1. P!Handling = {} \cup {d}
  BY DEF OneWebhook
<1>2. Cardinality({} \cup {d}) = Cardinality({}) + 1 /\ Cardinality({}) = 0
  BY FS_EmptySet, FS_AddElement
<1> QED BY <1>1, <1>2, SameCount DEF P!HasWorker

\* A row that is not there is not settled.
LEMMA NoRowUnsettled == P!NoRow.status \notin {"PENDING", "PROCESSED", "FAILED"}
BY SystemAssumption DEF P!PaymentAssumption, P!NoRow, P!Row, P!PaymentStatus

LEMMA StepOneWebhook ==
    ASSUME WebWorkers = 1, Arrays, HandledAreRecorded, OneWebhook, [SystemNext]_system
    PROVE  OneWebhook'
<1> USE DEF P!requests, P!confirmations, P!gateway, P!receiver
<1>0. \A p \in BookReq : request'[p] = "none" => request[p] = "none"
  BY Writes
<1>1. ASSUME NEW d \in P!Delivery, P!HookLoad(d) PROVE OneWebhook'
  <2>1. P!Handling = {}
    BY <1>1, NoHandler DEF P!HookLoad, P!Admit
  <2>2. P!Handling' = {d} /\ hook'[d] = "loaded" /\ P!Order(d)' = P!Order(d)
    BY <1>1, <2>1 DEF P!HookLoad, P!Handling, Arrays, P!Order
  <2> QED BY <1>1, <2>2 DEF P!HookLoad, OneWebhook, P!Handling, P!Settled
<1>2. ASSUME NEW d \in P!Delivery, P!HookWrite(d) PROVE OneWebhook'
  <2>1. /\ hook[d] = "loaded" /\ ~P!Settled(P!Order(d)) /\ P!Order(d) \in BookReq
        /\ UNCHANGED <<order, confirmed, request>> /\ d \in P!Handling
    BY <1>2, Carried DEF P!HookWrite, OneWebhook, P!Handling
  <2>0. P!Order(d)' = P!Order(d)
    BY <2>1 DEF P!Order
  <2>2. confirmed[P!Order(d)] = 0 /\ request[P!Order(d)] # "none"
    BY <2>1, <1>2 DEF OneWebhook, P!Settled, HandledAreRecorded, P!Recorded
  <2>3. row'[P!Order(d)].status = P!EventToStatus(P!Type(d))[1] /\ \A p \in BookReq \ {P!Order(d)} : row'[p] = row[p]
    BY <1>2, <2>1 DEF P!HookWrite, P!UpdatePayment, Arrays, P!Row
  <2>4. \A e \in P!Delivery \ {d} : hook'[e] = hook[e] /\ e \notin P!Handling
    BY <1>2, <2>1 DEF P!HookWrite, P!AnswerHook, Arrays, OneWebhook
  <2>5. hook'[d] # "loaded" /\ (hook'[d] = "written" => row'[P!Order(d)].status = "PROCESSED")
    BY <1>2, <2>3 DEF P!HookWrite, P!AnswerHook, Arrays, P!Confirms, P!EventToStatus
  <2> QED BY <2>0, <2>1, <2>2, <2>3, <2>4, <2>5 DEF OneWebhook, P!Handling
<1>3. ASSUME NEW d \in P!Delivery, P!HookConfirm(d) PROVE OneWebhook'
  <2>1. /\ hook[d] = "written" /\ row[P!Order(d)].status = "PROCESSED" /\ confirmed[P!Order(d)] = 0
        /\ P!Order(d) \in BookReq /\ UNCHANGED <<row, order, request>> /\ d \in P!Handling
    BY <1>3, Carried DEF P!HookConfirm, OneWebhook, P!Handling
  <2>2. hook'[d] = "answered" /\ \A e \in P!Delivery \ {d} : hook'[e] = hook[e] /\ e \notin P!Handling
    BY <1>3, <2>1 DEF P!HookConfirm, P!AnswerHook, Arrays, OneWebhook
  <2>3. \A p \in BookReq : confirmed'[p] = confirmed[p] \/ (p = P!Order(d) /\ confirmed'[p] = 1)
    BY <1>3, <2>1 DEF P!HookConfirm, Arrays
  <2> QED BY <2>1, <2>2, <2>3 DEF OneWebhook, P!Handling
<1>4. ASSUME UNCHANGED confirmed,
             \A d \in P!Delivery : hook'[d] \in {"loaded", "written"} => hook'[d] = hook[d] /\ P!Order(d)' = P!Order(d),
             NEW p \in BookReq, P!Record(p)
      PROVE  OneWebhook'
  <2>1. /\ row[p] = P!NoRow /\ request'[p] = "booked" /\ row'[p].status = "PENDING"
        /\ \A q \in BookReq \ {p} : row'[q] = row[q] /\ request'[q] = request[q]
    BY <1>4 DEF P!Record, P!Request, OneWebhook, Arrays, P!Row
  <2>2. confirmed[p] = 0
    BY <2>1, NoRowUnsettled DEF OneWebhook
  <2>3. \A d \in P!Handling : P!Order(d) \in BookReq \ {p}
    BY <2>1, Carried DEF P!Handling, HandledAreRecorded, P!Recorded
  <2> QED BY <1>4, <2>1, <2>2, <2>3 DEF OneWebhook, P!Handling, P!Settled
<1>5. ASSUME UNCHANGED <<row, confirmed>>,
             \A d \in P!Delivery : hook'[d] \in {"loaded", "written"} => hook'[d] = hook[d] /\ P!Order(d)' = P!Order(d)
      PROVE  OneWebhook'
  BY <1>0, <1>5 DEF OneWebhook, P!Handling, P!Settled
<1> QED
  BY <1>1, <1>2, <1>3, <1>4, <1>5, Writes

\* A row is written once by its booking and once by a webhook.
LEMMA SettledStays ==
    ASSUME Arrays, HandledAreRecorded, OneWebhook, [SystemNext]_system, NEW p \in BookReq, P!Settled(p)
    PROVE  row'[p] = row[p]
<1>1. ASSUME NEW q \in BookReq, P!Record(q) PROVE row'[p] = row[p]
  <2>1. q # p
    BY <1>1, NoRowUnsettled DEF P!Record, P!Request, OneWebhook, P!Settled
  <2> QED BY <1>1, <2>1 DEF P!Record, Arrays
<1>2. ASSUME NEW d \in P!Delivery, P!HookWrite(d) PROVE row'[p] = row[p]
  BY <1>2 DEF P!HookWrite, P!UpdatePayment, OneWebhook, Arrays
<1> QED BY <1>1, <1>2, Writes

LEMMA OneInvariance ==
    ASSUME WebWorkers = 1
    PROVE  SystemSpec => [](IInv /\ Arrays /\ HandledAreRecorded /\ RecordedAreBooked /\ OneWebhook)
<1>1. OneWebhook /\ Arrays /\ HandledAreRecorded /\ [SystemNext]_system => OneWebhook'
  BY StepOneWebhook
<1> QED BY <1>1, InitOneWebhook, SystemInvariance, PTL DEF SystemSpec

----------------------------------------------------------------------------
(* Notifications.                                                          *)

\* What is left to be looked at, and who was told, are bookings of the event.
NotificationsAreMeant ==
    /\ \A r \in EditReq : r \in notices => pc[r] # "new"
    /\ todo = [r \in EditReq |-> todo[r]]
    /\ \A r \in EditReq : \A b \in todo[r] : pc[r] # "new" /\ b \in bookings /\ target[b] = target[r]
    /\ \A n \in told : /\ n[1] \in EditReq /\ pc[n[1]] # "new"
                       /\ n[2] \in bookings /\ target[n[2]] = target[n[1]]
                       /\ row[n[2]].status = "PROCESSED"

LEMMA InitNotified == SystemInit => NotificationsAreMeant
BY DEF SystemInit, Init, NotificationsAreMeant

LEMMA StepNotified ==
    ASSUME IInv, IInv', NotificationsAreMeant, [SystemNext]_system,
           \A p \in BookReq : P!Settled(p) => row'[p] = row[p]
    PROVE  NotificationsAreMeant'
<1> USE RequestAssumption DEF Req
<1>1. /\ bookings \subseteq bookings' /\ bookings' \subseteq BookReq
      /\ \A r \in Req : pc[r] # "new" => pc'[r] # "new" /\ target'[r] = target[r]
      /\ \A b \in bookings : pc[b] # "new"
  BY BookingStep, BookingsStay DEF IInv, TypeOK, Phases
<1>2. \A n \in told : /\ n[1] \in EditReq /\ pc'[n[1]] # "new"
                      /\ n[2] \in bookings' /\ target'[n[2]] = target'[n[1]]
                      /\ row'[n[2]].status = "PROCESSED"
  <2> SUFFICES ASSUME NEW n \in told
               PROVE  /\ n[1] \in EditReq /\ pc'[n[1]] # "new"
                      /\ n[2] \in bookings' /\ target'[n[2]] = target'[n[1]]
                      /\ row'[n[2]].status = "PROCESSED"
    OBVIOUS
  <2>1. /\ n[1] \in EditReq /\ pc[n[1]] # "new"
        /\ n[2] \in bookings /\ target[n[2]] = target[n[1]]
        /\ row[n[2]].status = "PROCESSED"
    BY DEF NotificationsAreMeant
  <2>2. n[1] \in Req /\ n[2] \in BookReq /\ n[2] \in Req /\ n[2] \in bookings' /\ pc[n[2]] # "new"
    BY <1>1, <2>1
  <2>3. pc'[n[1]] # "new" /\ target'[n[1]] = target[n[1]] /\ target'[n[2]] = target[n[2]]
    BY <1>1, <2>1, <2>2
  <2>4. row'[n[2]] = row[n[2]]
    BY <2>1, <2>2 DEF P!Settled
  <2> QED BY <2>1, <2>2, <2>3, <2>4
<1>3. \A r \in EditReq : \A b \in todo[r] : pc'[r] # "new" /\ b \in bookings' /\ target'[b] = target'[r]
  BY <1>1 DEF NotificationsAreMeant, IInv, TypeOK
<1>4. ASSUME notices' \subseteq notices, UNCHANGED <<todo, told>> PROVE NotificationsAreMeant'
  BY <1>1, <1>2, <1>3, <1>4 DEF NotificationsAreMeant
<1>5. ASSUME NEW r \in EditReq, Serve(EditStep(r)) PROVE NotificationsAreMeant'
  <2>1. /\ UNCHANGED <<todo, told>> /\ pc[r] # "new"
        /\ notices' \subseteq notices \cup {r}
    BY <1>5 DEF Serve, notifying, EditStep, EditCommit, EditStale, EditTooWide, EditEnqueue, outside
  <2> QED BY <1>1, <1>2, <1>3, <2>1 DEF NotificationsAreMeant
<1>6. ASSUME NEW r \in EditReq, Notify(r) PROVE NotificationsAreMeant'
  <2>1. /\ r \in notices /\ notices' \subseteq notices /\ pc' = pc /\ target' = target /\ bookings' = bookings
        /\ told' = told /\ todo' = [todo EXCEPT ![r] = BookingsOf(target[r])]
    BY <1>6 DEF Notify, NotifyTask, handlers
  <2>2. pc[r] # "new" /\ \A b \in BookingsOf(target[r]) : b \in bookings /\ target[b] = target[r]
    BY <2>1 DEF NotificationsAreMeant, BookingsOf
  <2> QED BY <1>2, <1>3, <2>1, <2>2 DEF NotificationsAreMeant
<1>7. ASSUME NEW r \in EditReq, NotifyLook(r) PROVE NotificationsAreMeant'
  <2>1. PICK b \in todo[r] : /\ todo' = [todo EXCEPT ![r] = @ \ {b}]
                             /\ told' = told \cup {n \in {<<r, b>>} : IsTold(b)}
                             /\ UNCHANGED <<vars, ledger, lost>>
    BY <1>7 DEF NotifyLook
  <2>2. notices' = notices /\ row' = row
    BY <2>1 DEF vars, outside, ledger
  <2>3. b \in bookings' /\ target'[b] = target'[r] /\ pc'[r] # "new"
    BY <1>3, <2>1
  <2>4. IsTold(b) => row'[b].status = "PROCESSED"
    BY <2>2 DEF IsTold, P!BookingStatus
  <2>5. \A n \in told' : n \in told \/ (n = <<r, b>> /\ IsTold(b))
    BY <2>1
  <2>6. \A n \in told' : /\ n[1] \in EditReq /\ pc'[n[1]] # "new"
                         /\ n[2] \in bookings' /\ target'[n[2]] = target'[n[1]]
                         /\ row'[n[2]].status = "PROCESSED"
    BY <1>2, <2>3, <2>4, <2>5
  <2>7. \A s \in EditReq : todo'[s] \subseteq todo[s]
    BY <2>1 DEF NotificationsAreMeant
  <2>8. todo' = [s \in EditReq |-> todo'[s]]
    BY <2>1 DEF NotificationsAreMeant
  <2> QED BY <1>1, <1>3, <2>2, <2>6, <2>7, <2>8 DEF NotificationsAreMeant
<1>8. ASSUME NEW r \in EditReq, LoseNotice(r) PROVE NotificationsAreMeant'
  <2>1. notices' \subseteq notices /\ told' = told /\ todo' = [todo EXCEPT ![r] = {}]
    BY <1>8 DEF LoseNotice, LoseTask, vars, outside
  <2> QED BY <1>1, <1>2, <1>3, <2>1 DEF NotificationsAreMeant
<1>9. ASSUME NEW r \in BookReq, BookAndPay(r) PROVE NotificationsAreMeant'
  <2>1. BookStep(r) /\ UNCHANGED <<todo, told>>
    BY <1>9 DEF BookAndPay, BookStep, notifying
  <2>2. notices' = notices
    BY <2>1 DEF BookStep, BookRefuse, BookReserve, BookOrder, BookGatewayFails, BookCommit, BookTooDear,
       BookEnqueue, outside
  <2> QED BY <1>4, <2>1, <2>2
<1>10. CASE Serve(Arrive)
  <2>1. Arrive /\ UNCHANGED <<todo, told>>
    BY <1>10 DEF Serve, notifying
  <2>2. notices' = notices
    BY <2>1 DEF Arrive, CreateEvent, BookArrive, BookReject, BookLoad, EditArrive, EditReject, EditLoad, outside
  <2> QED BY <1>4, <2>1, <2>2
<1>11. CASE UNCHANGED <<vars, notifying>>
  BY <1>4, <1>11 DEF vars, outside, notifying
<1> QED
  BY <1>5, <1>6, <1>7, <1>8, <1>9, <1>10, <1>11
     DEF SystemNext, SystemWork, Pay, SystemQuiescent, system

(***************************************************************************)
(* With one web worker whoever is told of an update has paid for the event, *)
(* for good, although the task and the webhooks interleave (events/tasks.py *)
(* 12-41).                                                                 *)
(***************************************************************************)
THEOREM OnlyPaidAreTold == ASSUME WebWorkers = 1 PROVE SystemSpec => []NotifiedHavePaid
<1> DEFINE Inv == IInv /\ Arrays /\ HandledAreRecorded /\ RecordedAreBooked /\ OneWebhook
<1>1. Inv /\ Inv' /\ NotificationsAreMeant /\ [SystemNext]_system => NotificationsAreMeant'
  BY SettledStays, StepNotified
<1>2. NotificationsAreMeant => NotifiedHavePaid
  BY DEF NotificationsAreMeant, NotifiedHavePaid
<1> HIDE DEF Inv
<1>3. SystemSpec => []Inv
  BY OneInvariance DEF Inv
<1> QED BY <1>1, <1>2, <1>3, InitNotified, PTL DEF SystemSpec

----------------------------------------------------------------------------
(* The ledger.                                                             *)

(***************************************************************************)
(* With one web worker bookings, tasks, webhooks and notifications         *)
(* together implement the ledger: every step settles one booking that is   *)
(* PENDING, or confirms one that is CONFIRMED for the first time, or is    *)
(* none of the ledger's business.                                          *)
(***************************************************************************)
THEOREM LedgerKept == ASSUME WebWorkers = 1 PROVE SystemSpec => ImplementsLedger
<1> DEFINE Status == [p \in BookReq |-> P!BookingStatus(p)]
           Settle(p) == /\ Status[p] = "PENDING"
                        /\ \E s \in {"CONFIRMED", "FAILED"} : Status' = [Status EXCEPT ![p] = s]
                        /\ confirmed' = confirmed
           Confirm(p) == /\ Status[p] = "CONFIRMED"
                         /\ confirmed[p] = 0
                         /\ confirmed' = [confirmed EXCEPT ![p] = 1]
                         /\ Status' = Status
           Inv == IInv /\ Arrays /\ HandledAreRecorded /\ RecordedAreBooked /\ OneWebhook
<1>1. SystemInit => P!Ledger!LedgerInit
  BY NoRowUnsettled DEF SystemInit, P!Init, P!Ledger!LedgerInit, P!BookingStatus
<1>2. Inv /\ [SystemNext]_system => [P!Ledger!LedgerNext]_(P!Ledger!ledger)
  <2> SUFFICES ASSUME Inv, [SystemNext]_system
               PROVE  (\E p \in BookReq : Settle(p) \/ Confirm(p)) \/ (Status' = Status /\ confirmed' = confirmed)
    BY DEF P!Ledger!LedgerNext, P!Ledger!Settle, P!Ledger!Confirm, P!Ledger!ledger
  <2>1. ASSUME UNCHANGED row PROVE Status' = Status
    BY <2>1 DEF P!BookingStatus
  <2>2. ASSUME NEW p \in BookReq, P!Record(p) PROVE Status' = Status /\ confirmed' = confirmed
    <3>1. row[p] = P!NoRow /\ row'[p].status = "PENDING" /\ UNCHANGED confirmed
      BY <2>2 DEF P!Record, P!Request, OneWebhook, Arrays, P!Row, P!confirmations
    <3>2. \A q \in BookReq \ {p} : row'[q] = row[q]
      BY <2>2 DEF P!Record, Arrays
    <3>3. \A q \in BookReq : P!BookingStatus(q)' = P!BookingStatus(q)
      BY <3>1, <3>2, NoRowUnsettled DEF P!BookingStatus
    <3> QED BY <3>1, <3>3
  <2>3. ASSUME NEW d \in P!Delivery, NEW o, o = P!Order(d), P!HookWrite(d) PROVE o \in BookReq /\ Settle(o)
    <3>1. o \in BookReq /\ ~P!Settled(o) /\ UNCHANGED confirmed
      BY <2>3, Carried DEF P!HookWrite, OneWebhook, P!confirmations
    <3>2. /\ row'[o].status \in {"PROCESSED", "FAILED"}
          /\ \A q \in BookReq \ {o} : row'[q] = row[q]
      BY <2>3, <3>1 DEF P!HookWrite, P!UpdatePayment, P!EventToStatus, Arrays, P!Row
    <3>3. P!BookingStatus(o) = "PENDING" /\ P!BookingStatus(o)' \in {"CONFIRMED", "FAILED"}
      BY <3>1, <3>2, <2>3 DEF P!BookingStatus, P!Settled, P!HookWrite, P!gateway
    <3>4. \A q \in BookReq \ {o} : P!BookingStatus(q)' = P!BookingStatus(q)
      BY <3>2 DEF P!BookingStatus
    <3>5. PICK s \in {"CONFIRMED", "FAILED"} : P!BookingStatus(o)' = s
      BY <3>3
    <3>6. Status' = [Status EXCEPT ![o] = s]
      BY <2>3, <3>4, <3>5 DEF P!HookWrite, P!gateway
    <3> QED BY <3>1, <3>3, <3>6
  <2>4. ASSUME NEW d \in P!Delivery, NEW o, o = P!Order(d), P!HookConfirm(d), confirmed' # confirmed
        PROVE  o \in BookReq /\ Confirm(o)
    <3>0. o \in BookReq /\ row[o].status = "PROCESSED" /\ confirmed[o] = 0
      BY <2>4, Carried DEF P!HookConfirm, OneWebhook
    <3>1. /\ o \in BookReq /\ row[o].status = "PROCESSED" /\ confirmed[o] = 0
          /\ UNCHANGED row /\ confirmed' = [confirmed EXCEPT ![o] = 1]
      BY <2>4, <3>0 DEF P!HookConfirm
    <3>2. Status[o] = "CONFIRMED"
      BY <3>1 DEF P!BookingStatus
    <3> QED BY <2>1, <3>1, <3>2
  <2>5. \A d \in P!Delivery : (P!HookConfirm(d) => UNCHANGED row) /\ (P!HookWrite(d) => UNCHANGED confirmed)
    BY DEF P!HookConfirm, P!HookWrite, P!confirmations
  <2> HIDE DEF Status, Settle, Confirm
  <2> QED BY <2>1, <2>2, <2>3, <2>4, <2>5, Writes
<1> QED
  BY <1>1, <1>2, OneInvariance, PTL DEF SystemSpec, ImplementsLedger, P!ImplementsLedger, P!Ledger!LedgerSpec

=============================================================================
