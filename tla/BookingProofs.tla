--------------------------- MODULE BookingProofs ---------------------------
(***************************************************************************)
(* Theorems about module Booking, for every set of events and requests,    *)
(* every number of web workers and every size of the columns.              *)
(***************************************************************************)
EXTENDS BookingProperties, FiniteSetTheorems, TLAPS

----------------------------------------------------------------------------
(* Type correctness.                                                       *)

LEMMA InitType == Init => TypeOK
BY RequestAssumption, ColumnAssumption
DEF Init, TypeOK, Req, Columns, InWidth, InColumn, Blank, NoPatch, Column

LEMMA StepType == TypeOK /\ [Next]_vars => TypeOK'
<1> SUFFICES ASSUME TypeOK, [Next]_vars PROVE TypeOK'
  OBVIOUS
<1> USE DEF TypeOK, Req, Replies
<1>1. ASSUME NEW e \in Event, NEW o \in Organizer, NEW c \in NewEvent, CreateEvent(e, o, c)
      PROVE  TypeOK'
  BY <1>1, ColumnAssumption DEF CreateEvent, outside, handlers
<1>2. ASSUME NEW r \in BookReq, BookArrive(r) PROVE TypeOK'
  <2>1. ASSUME NEW e \in Event, NEW n \in Quantity, BookReject(r, e, n) PROVE TypeOK'
    BY <2>1 DEF BookReject, Answer, rows, outside, args
  <2>2. ASSUME NEW e \in Event, NEW n \in Quantity, BookLoad(r, e, n) PROVE TypeOK'
    BY <2>2, ColumnAssumption DEF BookLoad, Goto, rows, outside
  <2> HIDE DEF TypeOK
  <2> QED BY <1>2, <2>1, <2>2 DEF BookArrive
<1>3. ASSUME NEW r \in BookReq, BookStep(r) PROVE TypeOK'
  <2>1. CASE BookRefuse(r)
    BY <2>1 DEF BookRefuse, Answer, Rollback, rows, outside, args
  <2>2. CASE BookReserve(r)
    BY <2>2 DEF BookReserve, Goto, rows, outside, args
  <2>3. CASE BookOrder(r)
    BY <2>3 DEF BookOrder, Goto, rows, args
  <2>4. CASE BookGatewayFails(r)
    BY <2>4 DEF BookGatewayFails, Answer, Rollback, rows, args
  <2>5. CASE BookCommit(r)
    <3>1. Amount(r) \in 0..AmountMax
      <4>1. seen[r]["price"] \in Nat /\ qty[r] \in Nat
        BY DEF Columns, Column
      <4>2. Amount(r) \in Nat
        BY <4>1 DEF Amount
      <4> QED BY <2>5, <4>2, ColumnAssumption DEF BookCommit, InColumn
    <3>2. tickets_sold' \in [Event -> Nat]
      <4> DEFINE k == IF "seats" \in tx[r] \cup {"payment"} THEN qty[r] ELSE 0
      <4>1. k \in Nat
        OBVIOUS
      <4>2. tickets_sold' = [tickets_sold EXCEPT ![target[r]] = @ + k]
        BY <2>5 DEF BookCommit, Commit
      <4>3. tickets_sold' = [e \in Event |-> IF e = target[r] THEN tickets_sold[e] + k ELSE tickets_sold[e]]
        <5> HIDE DEF k
        <5>1. tickets_sold = [e \in Event |-> tickets_sold[e]]
          OBVIOUS
        <5> HIDE DEF TypeOK
        <5> QED BY <4>2, <5>1
      <4> HIDE DEF k
      <4> QED BY <4>1, <4>3
    <3> QED BY <2>5, <3>1, <3>2 DEF BookCommit, Commit, Goto, outside, args
  <2>6. CASE BookTooDear(r)
    BY <2>6 DEF BookTooDear, Answer, Rollback, rows, outside, args
  <2>7. CASE BookEnqueue(r)
    BY <2>7 DEF BookEnqueue, Answer, rows, args
  <2> HIDE DEF TypeOK
  <2> QED BY <1>3, <2>1, <2>2, <2>3, <2>4, <2>5, <2>6, <2>7 DEF BookStep
<1>4. ASSUME NEW r \in EditReq, EditArrive(r) PROVE TypeOK'
  <2>1. ASSUME NEW e \in Event, NEW o \in Organizer, NEW p \in Patch, EditReject(r, e, o, p)
        PROVE  TypeOK'
    BY <2>1 DEF EditReject, Answer, rows, outside, args
  <2>2. ASSUME NEW e \in Event, NEW o \in Organizer, NEW p \in Patch, EditLoad(r, e, o, p)
        PROVE  TypeOK'
    BY <2>2 DEF EditLoad, Goto, rows, outside
  <2> HIDE DEF TypeOK
  <2> QED BY <1>4, <2>1, <2>2 DEF EditArrive
<1>5. ASSUME NEW r \in EditReq, EditStep(r) PROVE TypeOK'
  <2>1. CASE EditCommit(r)
    <3>1. \A p \in Patch \cup {NoPatch} : \A c \in DOMAIN p : p[c] \in Nat
      <4>1. \A p \in Patch : \A c \in DOMAIN p : p[c] \in Nat
        BY ColumnAssumption
      <4>2. DOMAIN NoPatch = {}
        BY DEF NoPatch
      <4> QED BY <4>1, <4>2
    <3>2. \A c \in Changed(r) : patch[r][c] \in Nat /\ InWidth(c, patch[r][c])
      BY <2>1, <3>1 DEF EditCommit, Fitting, Changed
    <3> DEFINE row(e) == [c \in Column |-> IF c \in Changed(r) THEN patch[r][c] ELSE event[e][c]]
    <3>3. \A e \in Event : row(e) \in Columns
      <4> SUFFICES ASSUME NEW e \in Event PROVE row(e) \in Columns
        OBVIOUS
      <4>1. event[e] \in [Column -> Nat] /\ \A k \in Column : InWidth(k, event[e][k])
        BY DEF Columns
      <4>2. row(e) \in [Column -> Nat]
        BY <3>2, <4>1
      <4>3. \A k \in Column : InWidth(k, row(e)[k])
        BY <3>2, <4>1
      <4> QED BY <4>2, <4>3 DEF Columns
    <3>4. event' = [e \in Event |-> IF e = target[r] THEN row(e) ELSE event[e]]
      <4>1. event = [e \in Event |-> event[e]]
        OBVIOUS
      <4> HIDE DEF TypeOK
      <4> QED BY <2>1, <4>1 DEF EditCommit
    <3>5. event' \in [Event -> Columns]
      BY <3>3, <3>4
    <3> QED BY <2>1, <3>5 DEF EditCommit, Goto, outside, args
  <2>2. CASE EditStale(r)
    BY <2>2 DEF EditStale, Answer, rows, outside, args
  <2>3. CASE EditEnqueue(r)
    BY <2>3 DEF EditEnqueue, Answer, rows, args
  <2>4. CASE EditTooWide(r)
    BY <2>4 DEF EditTooWide, Answer, rows, outside, args
  <2> HIDE DEF TypeOK
  <2> QED BY <1>5, <2>1, <2>2, <2>3, <2>4 DEF EditStep
<1>6. ASSUME NEW r \in EditReq, NotifyTask(r) \/ LoseTask(r) PROVE TypeOK'
  BY <1>6 DEF NotifyTask, LoseTask, rows, handlers
<1>7. ASSUME NEW r \in DropReq, DropArrive(r) PROVE TypeOK'
  <2>1. ASSUME NEW e \in Event, NEW o \in Organizer, DropReject(r, e, o) PROVE TypeOK'
    BY <2>1 DEF DropReject, Answer, rows, outside, args
  <2>2. ASSUME NEW e \in Event, NEW o \in Organizer, DropLoad(r, e, o) PROVE TypeOK'
    BY <2>2 DEF DropLoad, Goto, rows, outside
  <2> HIDE DEF TypeOK
  <2> QED BY <1>7, <2>1, <2>2 DEF DropArrive
<1>8. ASSUME NEW r \in DropReq, DropStep(r) PROVE TypeOK'
  BY <1>8 DEF DropStep, DropConflict, DropDelete, Answer, rows, outside, args
<1>9. ASSUME NEW r \in Req, Crash(r) PROVE TypeOK'
  BY <1>9 DEF Crash, Goto, rows, outside, args
<1>10. CASE Tick
  BY <1>10, ColumnAssumption DEF Tick, rows, outside, handlers
<1>11. CASE UNCHANGED vars
  BY <1>11 DEF vars, rows, outside, handlers
<1> HIDE DEF TypeOK
<1> QED
  BY <1>1, <1>2, <1>3, <1>4, <1>5, <1>6, <1>7, <1>8, <1>9, <1>10, <1>11 DEF Next, Quiescent

(***************************************************************************)
(* Every reachable state is well typed.                                    *)
(***************************************************************************)
THEOREM TypeCorrect == Spec => []TypeOK
BY InitType, StepType, PTL DEF Spec

----------------------------------------------------------------------------
(* The inductive invariant behind the safety theorems.                     *)

\* What a booking request's progress says about its transaction and its row.
Phases ==
    \A r \in BookReq :
        /\ tx[r] = IF pc[r] \in {"reserved", "ordered"} THEN {"seats", "booking"} ELSE {}
        /\ pc[r] \in {"loaded", "reserved", "ordered", "committed"} \/ r \in bookings
              => target[r] \in Event /\ qty[r] \in Quantity /\ qty[r] > 0
        /\ pc[r] \in {"new", "loaded", "reserved", "ordered"} => r \notin bookings

\* Nobody loads an event before it was created.
Owned ==
    \A e \in Event : owner[e] = None =>
        e \notin live /\ \A r \in BookReq : target[r] # e

TicketsFinite == \A e \in Event : IsFiniteSet(TicketsOf(e))

IInv ==
    /\ TypeOK /\ Phases /\ Owned /\ ReservationHolds
    /\ TicketsFinite /\ TicketsMatchBookings
    /\ \A b \in bookings : target[b] \in live

\* The tickets depend on the bookings and on what these were made with.
LEMMA TicketsFrame ==
    ASSUME bookings' = bookings,
           \A b \in bookings : target'[b] = target[b] /\ qty'[b] = qty[b]
    PROVE  \A e \in Event : TicketsOf(e)' = TicketsOf(e)
<1> SUFFICES ASSUME NEW e \in Event PROVE TicketsOf(e)' = TicketsOf(e)
  OBVIOUS
<1>1. {c \in bookings' : target'[c] = e} = {c \in bookings : target[c] = e}
  OBVIOUS
<1>2. \A b \in {c \in bookings : target[c] = e} : {b} \X (1..qty'[b]) = {b} \X (1..qty[b])
  OBVIOUS
<1> QED BY <1>1, <1>2 DEF TicketsOf

\* A booking of n tickets holds n tickets.
LEMMA TicketsOfOne ==
    ASSUME NEW b, NEW n \in Nat
    PROVE  IsFiniteSet({b} \X (1..n)) /\ Cardinality({b} \X (1..n)) = n
<1>1. IsFiniteSet({b}) /\ Cardinality({b}) = 1
  <2>1. IsFiniteSet({}) /\ Cardinality({}) = 0
    BY FS_EmptySet
  <2>2. IsFiniteSet({} \cup {b}) /\ Cardinality({} \cup {b}) = 0 + 1
    BY <2>1, FS_AddElement
  <2> QED BY <2>2
<1>2. IsFiniteSet(1..n) /\ Cardinality(1..n) = n
  BY FS_Interval
<1>3. IsFiniteSet({b} \X (1..n)) /\ Cardinality({b} \X (1..n)) = Cardinality({b}) * Cardinality(1..n)
  BY <1>1, <1>2, FS_Product
<1> QED BY <1>1, <1>2, <1>3

\* A sold event has a booking, an unsold one none.
LEMMA UnsoldUnbooked ==
    ASSUME IInv, NEW e \in Event, tickets_sold[e] = 0
    PROVE  \A b \in bookings : target[b] # e
<1> SUFFICES ASSUME NEW b \in bookings, target[b] = e PROVE FALSE
  OBVIOUS
<1>1. b \in BookReq /\ qty[b] \in Nat /\ qty[b] > 0
  BY DEF IInv, TypeOK, Phases
<1>2. <<b, 1>> \in TicketsOf(e)
  <2>1. <<b, 1>> \in {b} \X (1..qty[b])
    BY <1>1
  <2> QED BY <2>1 DEF TicketsOf
<1>3. Cardinality(TicketsOf(e)) = 0 /\ IsFiniteSet(TicketsOf(e))
  BY DEF IInv, TicketsMatchBookings, TicketsFinite
<1> QED BY <1>2, <1>3, FS_EmptySet

LEMMA InitInv == Init => IInv
<1> SUFFICES ASSUME Init PROVE IInv
  OBVIOUS
<1>1. TypeOK
  BY InitType
<1>2. Phases /\ Owned /\ ReservationHolds
  BY RequestAssumption DEF Init, Phases, Owned, ReservationHolds, Req
<1>3. \A e \in Event : TicketsOf(e) = {}
  BY DEF Init, TicketsOf
<1>4. TicketsFinite /\ TicketsMatchBookings
  BY <1>3, FS_EmptySet DEF Init, TicketsFinite, TicketsMatchBookings
<1> QED BY <1>1, <1>2, <1>4 DEF IInv, Init

\* Steps that leave the booking requests, their transactions and the rows they
\* depend on alone.
LEMMA FrameStep ==
    ASSUME IInv, TypeOK',
           UNCHANGED <<live, owner, event, tickets_sold, bookings, tx, qty>>,
           \A r \in BookReq : target'[r] = target[r] /\ pc'[r] = pc[r]
    PROVE  IInv'
<1> USE DEF IInv
<1>1. Phases' /\ Owned' /\ ReservationHolds'
  BY DEF Phases, Owned, ReservationHolds, Fits
<1>2. \A e \in Event : TicketsOf(e)' = TicketsOf(e)
  BY TicketsFrame DEF TypeOK
<1>3. TicketsFinite' /\ TicketsMatchBookings'
  BY <1>2 DEF TicketsFinite, TicketsMatchBookings
<1> QED BY <1>1, <1>3 DEF TypeOK

\* Steps of a booking request that write nothing: it ends, or goes on, with
\* its transaction rolled back or as it was.
LEMMA QuietStep ==
    ASSUME IInv, TypeOK', NEW r \in BookReq,
           UNCHANGED <<live, owner, event, tickets_sold, bookings, target, qty>>,
           \A s \in BookReq \ {r} : tx'[s] = tx[s] /\ pc'[s] = pc[s],
           \/ tx'[r] = {} /\ pc'[r] = "done"
           \/ tx'[r] = tx[r] /\ pc[r] = "reserved" /\ pc'[r] = "ordered"
    PROVE  IInv'
<1> USE DEF IInv
<1>1. Phases'
  BY DEF Phases
<1>2. Owned'
  BY DEF Owned
<1>3. ReservationHolds'
  BY DEF ReservationHolds, Fits, TypeOK
<1>4. \A e \in Event : TicketsOf(e)' = TicketsOf(e)
  BY TicketsFrame
<1>5. TicketsFinite' /\ TicketsMatchBookings'
  BY <1>4 DEF TicketsFinite, TicketsMatchBookings
<1> QED BY <1>1, <1>2, <1>3, <1>5

\* What the commit of a booking does to the counter and to the tickets.
LEMMA CommitStep ==
    ASSUME IInv, NEW r \in BookReq, BookCommit(r)
    PROVE  /\ tx[r] = {"seats", "booking"} /\ r \notin bookings
           /\ target[r] \in live /\ target[r] \in Event
           /\ qty[r] \in Quantity /\ qty[r] \in Nat /\ qty[r] > 0
           /\ tickets_sold[target[r]] + qty[r] <= event[target[r]]["capacity"]
           /\ bookings' = bookings \cup {r} /\ payments' = payments \cup {r}
           /\ tickets_sold' = [tickets_sold EXCEPT ![target[r]] = @ + qty[r]]
           /\ \A f \in Event : TicketsOf(f)' =
                 IF f = target[r] THEN TicketsOf(f) \cup ({r} \X (1..qty[r])) ELSE TicketsOf(f)
<1> USE DEF BookCommit, Commit, args
<1>1. /\ tx[r] = {"seats", "booking"} /\ r \notin bookings
      /\ target[r] \in Event
      /\ qty[r] \in Quantity /\ qty[r] \in Nat /\ qty[r] > 0
  BY DEF IInv, Phases, TypeOK
<1>2. Fits(target[r], qty[r])
  BY <1>1 DEF IInv, ReservationHolds, Fits
<1>3. /\ bookings' = bookings \cup {r} /\ payments' = payments \cup {r}
      /\ tickets_sold' = [tickets_sold EXCEPT ![target[r]] = @ + qty[r]]
  BY <1>1
<1>4. ASSUME NEW f \in Event, f # target[r] PROVE TicketsOf(f)' = TicketsOf(f)
  <2>1. {c \in bookings' : target[c] = f} = {c \in bookings : target[c] = f}
    BY <1>3, <1>4
  <2> QED BY <2>1 DEF TicketsOf
<1>5. ASSUME NEW f \in Event, f = target[r]
      PROVE  TicketsOf(f)' = TicketsOf(f) \cup ({r} \X (1..qty[r]))
  <2>1. {c \in bookings' : target[c] = f} = {c \in bookings : target[c] = f} \cup {r}
    BY <1>3, <1>5
  <2> QED BY <2>1 DEF TicketsOf
<1> QED BY <1>1, <1>2, <1>3, <1>4, <1>5 DEF Fits

LEMMA StepInv == IInv /\ [Next]_vars => IInv'
<1> SUFFICES ASSUME IInv, [Next]_vars PROVE IInv'
  OBVIOUS
<1> USE RequestAssumption DEF Req
<1>t. TypeOK /\ TypeOK'
  BY StepType DEF IInv
<1>1. ASSUME NEW e \in Event, NEW o \in Organizer, NEW c \in NewEvent, CreateEvent(e, o, c)
      PROVE  IInv'
  <2> USE <1>1, <1>t DEF CreateEvent, outside, handlers
  <2>1. e \notin live /\ \A r \in BookReq : target[r] # e
    BY DEF IInv, Owned
  <2>2. Phases'
    BY DEF IInv, Phases
  <2>3. Owned'
    BY DEF IInv, Owned, TypeOK
  <2>4. ReservationHolds'
    BY <2>1 DEF IInv, ReservationHolds, Fits, TypeOK
  <2>5. \A f \in Event : TicketsOf(f)' = TicketsOf(f)
    BY TicketsFrame
  <2>6. TicketsOf(e) = {}
    BY <2>1 DEF TicketsOf, TypeOK
  <2>7. TicketsFinite' /\ TicketsMatchBookings'
    BY <2>5, <2>6, FS_EmptySet DEF IInv, TicketsFinite, TicketsMatchBookings, TypeOK
  <2> QED BY <2>2, <2>3, <2>4, <2>7 DEF IInv
<1>2. ASSUME NEW r \in BookReq, BookArrive(r) PROVE IInv'
  <2>1. ASSUME NEW e \in Event, NEW n \in Quantity, BookReject(r, e, n) PROVE IInv'
    <3> USE <2>1, <1>t DEF BookReject, Answer, rows, outside, args
    <3>1. pc' = [pc EXCEPT ![r] = "done"] /\ pc[r] = "new"
      OBVIOUS
    <3>2. tx[r] = {}
      BY <3>1 DEF IInv, Phases
    <3> QED BY <3>1, <3>2, QuietStep DEF TypeOK
  <2>2. ASSUME NEW e \in Event, NEW n \in Quantity, BookLoad(r, e, n) PROVE IInv'
    <3> USE <2>2, <1>t DEF BookLoad, Goto, rows, outside
    <3>1. r \notin bookings /\ tx[r] = {} /\ owner[e] # None
      BY DEF IInv, Phases, Owned
    <3>2. Phases'
      BY <3>1 DEF IInv, Phases, TypeOK
    <3>3. Owned'
      BY <3>1 DEF IInv, Owned, TypeOK
    <3>4. ReservationHolds'
      BY <3>1 DEF IInv, ReservationHolds, Fits, TypeOK
    <3>5. \A b \in bookings : b # r /\ target'[b] = target[b] /\ qty'[b] = qty[b]
      BY <3>1 DEF TypeOK
    <3>6. \A f \in Event : TicketsOf(f)' = TicketsOf(f)
      BY <3>5, TicketsFrame
    <3>7. TicketsFinite' /\ TicketsMatchBookings'
      BY <3>6 DEF IInv, TicketsFinite, TicketsMatchBookings
    <3> QED BY <3>2, <3>3, <3>4, <3>5, <3>7 DEF IInv
  <2> QED BY <1>2, <2>1, <2>2 DEF BookArrive
<1>3. ASSUME NEW r \in BookReq, BookStep(r) PROVE IInv'
  <2>1. CASE BookRefuse(r)
    BY <2>1, <1>t, QuietStep DEF BookRefuse, Answer, Rollback, rows, outside, args, TypeOK
  <2>2. CASE BookReserve(r)
    <3> USE <2>2, <1>t DEF BookReserve, Goto, rows, outside, args
    <3>1. Phases'
      <4>1. /\ pc'[r] = "reserved" /\ tx'[r] = {"seats", "booking"}
            /\ pc[r] = "loaded"
        BY DEF TypeOK
      <4>2. \A s \in BookReq \ {r} : pc'[s] = pc[s] /\ tx'[s] = tx[s]
        BY DEF TypeOK
      <4> QED BY <4>1, <4>2 DEF IInv, Phases
    <3>2. Owned'
      BY DEF IInv, Owned
    <3>3. ReservationHolds'
      BY DEF IInv, ReservationHolds, Fits, Locked, TypeOK
    <3>4. \A f \in Event : TicketsOf(f)' = TicketsOf(f)
      BY TicketsFrame
    <3>5. TicketsFinite' /\ TicketsMatchBookings'
      BY <3>4 DEF IInv, TicketsFinite, TicketsMatchBookings
    <3> QED BY <3>1, <3>2, <3>3, <3>5 DEF IInv
  <2>3. CASE BookOrder(r)
    BY <2>3, <1>t, QuietStep DEF BookOrder, Goto, rows, outside, args, TypeOK
  <2>4. CASE BookGatewayFails(r)
    BY <2>4, <1>t, QuietStep DEF BookGatewayFails, Answer, Rollback, rows, outside, args, TypeOK
  <2>5. CASE BookCommit(r)
    <3> USE <2>5, <1>t DEF BookCommit, Commit, Goto, outside, args
    <3> DEFINE e == target[r]
    <3> DEFINE n == qty[r]
    <3>1. /\ tx[r] = {"seats", "booking"} /\ r \notin bookings
          /\ e \in Event /\ n \in Quantity /\ n \in Nat /\ n > 0
          /\ bookings' = bookings \cup {r}
          /\ tickets_sold' = [tickets_sold EXCEPT ![e] = @ + n]
      BY CommitStep
    <3>2. e \in live /\ \A s \in BookReq : "seats" \in tx[s] /\ target[s] = e => s = r
      BY <3>1 DEF IInv, ReservationHolds, Fits
    <3>3. tx' = [tx EXCEPT ![r] = {}] /\ pc' = [pc EXCEPT ![r] = "committed"]
      OBVIOUS
    <3>4. Phases'
      <4>1. pc'[r] = "committed" /\ tx'[r] = {}
        BY <3>3 DEF TypeOK
      <4>2. \A s \in BookReq \ {r} : pc'[s] = pc[s] /\ tx'[s] = tx[s] /\ (s \in bookings' <=> s \in bookings)
        BY <3>1, <3>3 DEF TypeOK
      <4> QED BY <3>1, <4>1, <4>2 DEF IInv, Phases
    <3>5. Owned'
      BY DEF IInv, Owned
    <3>6. ReservationHolds'
      BY <3>1, <3>2, <3>3 DEF IInv, ReservationHolds, Fits, TypeOK
    <3>7. \A f \in Event : f # e => TicketsOf(f)' = TicketsOf(f)
      BY CommitStep
    <3>8. TicketsOf(e)' = TicketsOf(e) \cup ({r} \X (1..n))
      BY CommitStep
    <3>9. TicketsOf(e) \cap ({r} \X (1..n)) = {}
      <4>1. \A t \in TicketsOf(e) : t[1] \in bookings
        BY DEF TicketsOf
      <4> QED BY <4>1, <3>1
    <3>10. /\ IsFiniteSet(TicketsOf(e)')
           /\ Cardinality(TicketsOf(e)') = tickets_sold[e] + n
      <4>1. IsFiniteSet(TicketsOf(e)) /\ Cardinality(TicketsOf(e)) = tickets_sold[e]
        BY <3>1 DEF IInv, TicketsFinite, TicketsMatchBookings
      <4>2. IsFiniteSet({r} \X (1..n)) /\ Cardinality({r} \X (1..n)) = n
        BY <3>1, TicketsOfOne
      <4>3. /\ IsFiniteSet(TicketsOf(e) \cup ({r} \X (1..n)))
            /\ Cardinality(TicketsOf(e) \cup ({r} \X (1..n)))
                 = Cardinality(TicketsOf(e)) + Cardinality({r} \X (1..n))
                     - Cardinality(TicketsOf(e) \cap ({r} \X (1..n)))
        BY <4>1, <4>2, FS_Union
      <4>4. Cardinality(TicketsOf(e) \cap ({r} \X (1..n))) = 0
        BY <3>9, FS_EmptySet
      <4>5. tickets_sold[e] \in Nat
        BY <3>1 DEF TypeOK
      <4> QED BY <3>1, <3>8, <4>1, <4>2, <4>3, <4>4, <4>5
    <3>11. TicketsFinite'
      BY <3>7, <3>10 DEF IInv, TicketsFinite
    <3>12. TicketsMatchBookings'
      BY <3>1, <3>7, <3>10 DEF IInv, TicketsMatchBookings, TypeOK
    <3>13. \A b \in bookings' : target'[b] \in live'
      BY <3>1, <3>2 DEF IInv
    <3> QED BY <3>4, <3>5, <3>6, <3>11, <3>12, <3>13 DEF IInv
  <2>6. CASE BookTooDear(r)
    BY <2>6, <1>t, QuietStep DEF BookTooDear, Answer, Rollback, rows, outside, args, TypeOK
  <2>7. CASE BookEnqueue(r)
    <3> USE <2>7, <1>t DEF BookEnqueue, Answer, rows, args
    <3>1. tx[r] = {}
      BY DEF IInv, Phases
    <3> QED BY <3>1, QuietStep DEF TypeOK
  <2> QED BY <1>3, <2>1, <2>2, <2>3, <2>4, <2>5, <2>6, <2>7 DEF BookStep
<1>4. ASSUME NEW r \in EditReq, EditArrive(r) PROVE IInv'
  <2>1. ASSUME NEW e \in Event, NEW o \in Organizer, NEW p \in Patch, EditReject(r, e, o, p)
        PROVE  IInv'
    BY <2>1, <1>t, FrameStep DEF EditReject, Answer, rows, outside, args, TypeOK
  <2>2. ASSUME NEW e \in Event, NEW o \in Organizer, NEW p \in Patch, EditLoad(r, e, o, p)
        PROVE  IInv'
    BY <2>2, <1>t, FrameStep DEF EditLoad, Goto, rows, outside, TypeOK
  <2> QED BY <1>4, <2>1, <2>2 DEF EditArrive
<1>5. ASSUME NEW r \in EditReq, EditStep(r) PROVE IInv'
  <2>1. CASE EditCommit(r)
    <3> USE <2>1, <1>t DEF EditCommit, Goto, outside, args
    <3>1. \A b \in BookReq : pc'[b] = pc[b] /\ target'[b] = target[b]
      BY DEF TypeOK
    <3>2. \A f \in Event : Locked(f) => event'[f] = event[f]
      <4>1. CASE Changed(r) = {}
        <5>1. \A f \in Event : event[f] = [c \in Column |-> event[f][c]]
          BY DEF TypeOK, Columns
        <5> QED BY <4>1, <5>1 DEF TypeOK
      <4>2. CASE Changed(r) # {}
        BY <4>2 DEF TypeOK
      <4> QED BY <4>1, <4>2
    <3>3. Phases'
      BY <3>1 DEF IInv, Phases
    <3>4. Owned'
      BY <3>1 DEF IInv, Owned
    <3>5. ReservationHolds'
      <4> SUFFICES ASSUME NEW b \in BookReq, "seats" \in tx[b]
                   PROVE  Fits(target[b], qty[b])'
        BY <3>1 DEF IInv, ReservationHolds, Fits
      <4>1. Fits(target[b], qty[b]) /\ target[b] \in live
        BY DEF IInv, ReservationHolds, Fits
      <4>2. event'[target[b]] = event[target[b]]
        BY <3>2, <4>1 DEF Locked, TypeOK
      <4> QED BY <3>1, <4>1, <4>2 DEF Fits
    <3>6. \A f \in Event : TicketsOf(f)' = TicketsOf(f)
      BY TicketsFrame
    <3>7. TicketsFinite' /\ TicketsMatchBookings'
      BY <3>6 DEF IInv, TicketsFinite, TicketsMatchBookings
    <3> QED BY <3>1, <3>3, <3>4, <3>5, <3>7 DEF IInv
  <2>2. CASE EditStale(r)
    BY <2>2, <1>t, FrameStep DEF EditStale, Answer, rows, outside, args, TypeOK
  <2>3. CASE EditEnqueue(r)
    BY <2>3, <1>t, FrameStep DEF EditEnqueue, Answer, rows, args, TypeOK
  <2>4. CASE EditTooWide(r)
    BY <2>4, <1>t, FrameStep DEF EditTooWide, Answer, rows, outside, args, TypeOK
  <2> QED BY <1>5, <2>1, <2>2, <2>3, <2>4 DEF EditStep
<1>6. ASSUME NEW r \in EditReq, NotifyTask(r) \/ LoseTask(r) PROVE IInv'
  BY <1>6, <1>t, FrameStep DEF NotifyTask, LoseTask, rows, handlers
<1>7. ASSUME NEW r \in DropReq, DropArrive(r) PROVE IInv'
  <2>1. ASSUME NEW e \in Event, NEW o \in Organizer, DropReject(r, e, o) PROVE IInv'
    BY <2>1, <1>t, FrameStep DEF DropReject, Answer, rows, outside, args, TypeOK
  <2>2. ASSUME NEW e \in Event, NEW o \in Organizer, DropLoad(r, e, o) PROVE IInv'
    BY <2>2, <1>t, FrameStep DEF DropLoad, Goto, rows, outside, TypeOK
  <2> QED BY <1>7, <2>1, <2>2 DEF DropArrive
<1>8. ASSUME NEW r \in DropReq, DropStep(r) PROVE IInv'
  <2>1. CASE DropConflict(r)
    BY <2>1, <1>t, FrameStep DEF DropConflict, Answer, rows, outside, args, TypeOK
  <2>2. CASE DropDelete(r)
    <3> USE <2>2, <1>t DEF DropDelete, Answer, outside, args
    <3> DEFINE e == target[r]
    <3>1. \A b \in BookReq : pc'[b] = pc[b]
      BY DEF TypeOK
    <3>2. \A b \in bookings : target[b] # e
      BY UnsoldUnbooked DEF Unsold, TypeOK
    <3>3. Phases'
      BY <3>1 DEF IInv, Phases
    <3>4. Owned'
      BY DEF IInv, Owned
    <3>5. ReservationHolds'
      BY DEF IInv, ReservationHolds, Fits, Locked
    <3>6. \A f \in Event : TicketsOf(f)' = TicketsOf(f)
      BY TicketsFrame
    <3>7. TicketsFinite' /\ TicketsMatchBookings'
      BY <3>6 DEF IInv, TicketsFinite, TicketsMatchBookings
    <3> QED BY <3>2, <3>3, <3>4, <3>5, <3>7 DEF IInv
  <2> QED BY <1>8, <2>1, <2>2 DEF DropStep
<1>9. ASSUME NEW r \in Req, Crash(r) PROVE IInv'
  <2> USE <1>9, <1>t DEF Crash, Goto, rows, outside, args
  <2>1. CASE r \in BookReq
    BY <2>1, QuietStep DEF TypeOK
  <2>2. CASE r \notin BookReq
    <3>1. tx' = tx
      BY <2>2 DEF TypeOK
    <3> QED BY <2>2, <3>1, FrameStep DEF TypeOK
  <2> QED BY <2>1, <2>2
<1>10. CASE Tick
  BY <1>10, <1>t, FrameStep DEF Tick, rows, outside, handlers
<1>11. CASE UNCHANGED vars
  BY <1>11, <1>t, FrameStep DEF vars, rows, outside, handlers
<1> QED
  BY <1>1, <1>2, <1>3, <1>4, <1>5, <1>6, <1>7, <1>8, <1>9, <1>10, <1>11 DEF Next, Quiescent

LEMMA Invariance == Spec => []IInv
BY InitInv, StepInv, PTL DEF Spec

----------------------------------------------------------------------------
(* Safety theorems.                                                        *)

(***************************************************************************)
(* The counter of sold tickets equals the tickets of the committed         *)
(* bookings, for any number of concurrent handlers and any failures.       *)
(***************************************************************************)
THEOREM CounterCorrect == Spec => []TicketsMatchBookings
BY Invariance, PTL DEF IInv

(***************************************************************************)
(* A reservation stays good and exclusive until it commits or rolls back.  *)
(***************************************************************************)
THEOREM ReservationsHold == Spec => []ReservationHolds
BY Invariance, PTL DEF IInv

\* Only a commit of a booking raises a counter, and its reservation held.
LEMMA SaleStep ==
    ASSUME IInv, [Next]_vars, NEW e \in Event, tickets_sold'[e] > tickets_sold[e]
    PROVE  e \in live' /\ tickets_sold'[e] <= event'[e]["capacity"]
<1> USE DEF IInv
<1>1. ASSUME NEW r \in BookReq, BookCommit(r)
      PROVE  e \in live' /\ tickets_sold'[e] <= event'[e]["capacity"]
  <2>1. tickets_sold' = [tickets_sold EXCEPT ![target[r]] = @ + qty[r]]
    BY <1>1, CommitStep
  <2>2. e = target[r]
    BY <2>1 DEF TypeOK
  <2>3. tickets_sold'[e] = tickets_sold[e] + qty[r]
    BY <2>1, <2>2 DEF TypeOK
  <2> QED BY <1>1, <2>2, <2>3, CommitStep DEF BookCommit
<1>2. ASSUME NEW f \in Event, NEW o \in Organizer, NEW c \in NewEvent, CreateEvent(f, o, c)
      PROVE  FALSE
  BY <1>2 DEF CreateEvent, TypeOK
<1>3. ASSUME tickets_sold' = tickets_sold PROVE FALSE
  BY <1>3 DEF TypeOK
<1>4. ASSUME NEW r \in BookReq, BookArrive(r) \/ (BookStep(r) /\ ~BookCommit(r))
      PROVE  tickets_sold' = tickets_sold
  BY <1>4 DEF BookArrive, BookReject, BookLoad, BookStep, BookRefuse, BookReserve, BookOrder,
              BookGatewayFails, BookTooDear, BookEnqueue, Rollback, rows
<1>5. ASSUME NEW r \in Req,
             \/ EditArrive(r) \/ EditStep(r) \/ NotifyTask(r) \/ LoseTask(r)
             \/ DropArrive(r) \/ DropStep(r) \/ Crash(r)
      PROVE  tickets_sold' = tickets_sold
  BY <1>5 DEF EditArrive, EditReject, EditLoad, EditStep, EditCommit, EditTooWide, EditStale, EditEnqueue,
              NotifyTask, LoseTask, DropArrive, DropReject, DropLoad, DropStep, DropConflict,
              DropDelete, Crash, rows
<1>6. ASSUME Tick \/ UNCHANGED vars PROVE tickets_sold' = tickets_sold
  BY <1>6 DEF Tick, vars, rows
<1> QED
  BY <1>1, <1>2, <1>3, <1>4, <1>5, <1>6 DEF Next, Quiescent, Req

(***************************************************************************)
(* No sale takes an event beyond the capacity it has at that moment.       *)
(***************************************************************************)
THEOREM NoOversell == Spec => NoOversellAtSale
<1>1. IInv /\ [Next]_vars =>
        [\A e \in Event : tickets_sold'[e] > tickets_sold[e] =>
            e \in live' /\ tickets_sold'[e] <= event'[e]["capacity"]]_vars
  BY SaleStep
<1> QED BY <1>1, Invariance, PTL DEF Spec, NoOversellAtSale

\* Only a PATCH changes the capacity of an event that is there.
LEMMA CapacityStep ==
    ASSUME IInv, [Next]_vars, NEW e \in live', event'[e]["capacity"] # event[e]["capacity"]
    PROVE  \/ e \notin live /\ tickets_sold'[e] = 0
           \/ \E r \in EditReq : EditCommit(r) /\ target[r] = e /\ "capacity" \in Changed(r)
<1> USE DEF IInv, TypeOK
<1>1. ASSUME NEW f \in Event, NEW o \in Organizer, NEW c \in NewEvent, CreateEvent(f, o, c)
      PROVE  e \notin live /\ tickets_sold'[e] = 0
  <2>1. f = e
    BY <1>1 DEF CreateEvent
  <2>2. e \notin live
    BY <1>1, <2>1 DEF CreateEvent, Owned
  <2> QED BY <1>1, <2>1, <2>2 DEF CreateEvent
<1>2. ASSUME NEW r \in EditReq, EditCommit(r)
      PROVE  target[r] = e /\ "capacity" \in Changed(r)
  <2>1. e \in Event /\ event' = [event EXCEPT ![target[r]] =
                                 [c \in Column |-> IF c \in Changed(r) THEN patch[r][c] ELSE event[target[r]][c]]]
    BY <1>2 DEF EditCommit
  <2>2. target[r] = e
    BY <2>1
  <2> QED BY <2>1, <2>2 DEF Column
<1>3. ASSUME event' = event PROVE FALSE
  BY <1>3
<1>4. ASSUME NEW r \in BookReq, BookArrive(r) \/ BookStep(r)
      PROVE  event' = event
  BY <1>4 DEF BookArrive, BookReject, BookLoad, BookStep, BookRefuse, BookReserve, BookOrder,
              BookGatewayFails, BookTooDear, BookCommit, BookEnqueue, Rollback, rows
<1>5. ASSUME NEW r \in Req,
             \/ EditArrive(r) \/ (EditStep(r) /\ ~EditCommit(r)) \/ NotifyTask(r) \/ LoseTask(r)
             \/ DropArrive(r) \/ DropStep(r) \/ Crash(r)
      PROVE  event' = event
  BY <1>5 DEF EditArrive, EditReject, EditLoad, EditStep, EditTooWide, EditStale, EditEnqueue,
              NotifyTask, LoseTask, DropArrive, DropReject, DropLoad, DropStep, DropConflict,
              DropDelete, Crash, rows
<1>6. ASSUME Tick \/ UNCHANGED vars PROVE event' = event
  BY <1>6 DEF Tick, vars, rows
<1> QED
  BY <1>1, <1>2, <1>3, <1>4, <1>5, <1>6 DEF Next, Quiescent, Req

\* An event that was not there is created with nothing sold.
LEMMA NewcomerStep ==
    ASSUME IInv, [Next]_vars, NEW e \in live', e \notin live
    PROVE  tickets_sold'[e] = 0
<1> USE DEF IInv, TypeOK
<1>1. ASSUME NEW f \in Event, NEW o \in Organizer, NEW c \in NewEvent, CreateEvent(f, o, c)
      PROVE  tickets_sold'[e] = 0
  BY <1>1 DEF CreateEvent
<1>2. ASSUME live' \subseteq live PROVE FALSE
  BY <1>2
<1>3. ASSUME NEW r \in BookReq, BookArrive(r) \/ BookStep(r)
      PROVE  live' \subseteq live
  BY <1>3 DEF BookArrive, BookReject, BookLoad, BookStep, BookRefuse, BookReserve, BookOrder,
              BookGatewayFails, BookTooDear, BookCommit, BookEnqueue, Rollback, rows
<1>4. ASSUME NEW r \in Req,
             \/ EditArrive(r) \/ EditStep(r) \/ NotifyTask(r) \/ LoseTask(r)
             \/ DropArrive(r) \/ DropStep(r) \/ Crash(r)
      PROVE  live' \subseteq live
  BY <1>4 DEF EditArrive, EditReject, EditLoad, EditStep, EditCommit, EditTooWide, EditStale, EditEnqueue,
              NotifyTask, LoseTask, DropArrive, DropReject, DropLoad, DropStep, DropConflict,
              DropDelete, Crash, rows
<1>5. ASSUME Tick \/ UNCHANGED vars PROVE live' \subseteq live
  BY <1>5 DEF Tick, vars, rows
<1> QED
  BY <1>1, <1>2, <1>3, <1>4, <1>5 DEF Next, Quiescent, Req

\* An event that is there with more tickets sold than seats.
Overbooked(e) == e \in live /\ tickets_sold[e] > event[e]["capacity"]

(***************************************************************************)
(* The one way to more tickets than seats is a PATCH that lowers the       *)
(* capacity (events/schemas.py 50 lets it, events/controller.py 96-116     *)
(* writes it): no sale, no new event, no deletion and no crash does it,    *)
(* however they interleave.                                                *)
(***************************************************************************)
THEOREM OverbookedByPatchesOnly ==
    Spec => [][\A e \in Event : ~Overbooked(e) /\ Overbooked(e)' =>
                  \E r \in EditReq : EditCommit(r) /\ target[r] = e /\ "capacity" \in Changed(r)]_vars
<1> DEFINE ByPatch(e) == \E r \in EditReq : EditCommit(r) /\ target[r] = e /\ "capacity" \in Changed(r)
<1>1. ASSUME IInv, IInv', [Next]_vars, NEW e \in Event, ~Overbooked(e), Overbooked(e)'
      PROVE  ByPatch(e)
  <2>1. /\ e \in live' /\ tickets_sold'[e] > event'[e]["capacity"]
        /\ tickets_sold[e] \in Nat /\ tickets_sold'[e] \in Nat
        /\ event[e]["capacity"] \in Nat /\ event'[e]["capacity"] \in Nat
    BY <1>1 DEF Overbooked, IInv, TypeOK, Columns, Column
  <2>2. ~(tickets_sold'[e] > tickets_sold[e])
    BY <1>1, <2>1, SaleStep
  <2>3. e \in live
    BY <1>1, <2>1, NewcomerStep
  <2>4. tickets_sold[e] <= event[e]["capacity"]
    BY <1>1, <2>1, <2>3 DEF Overbooked
  <2>5. event'[e]["capacity"] # event[e]["capacity"]
    BY <2>1, <2>2, <2>4
  <2> QED BY <1>1, <2>1, <2>3, <2>5, CapacityStep
<1>2. IInv /\ IInv' /\ [Next]_vars => [\A e \in Event : ~Overbooked(e) /\ Overbooked(e)' => ByPatch(e)]_vars
  BY <1>1
<1> QED BY <1>2, Invariance, PTL DEF Spec

----------------------------------------------------------------------------
(* What requests are told.                                                 *)

\* What ServerErrorsExplained says of organizers' requests, and of bookings.
OrganizersErrors ==
    /\ \A r \in EditReq : reply[r] = 500 =>
           target[r] \notin live \/ \E c \in DOMAIN patch[r] : ~InWidth(c, patch[r][c])
    /\ \A r \in DropReq : reply[r] = 500 => target[r] \in jobs

BookingErrors ==
    \A r \in BookReq : reply[r] = 500 =>
        /\ target[r] \in Event
        /\ ~InColumn(Amount(r)) \/ (qty[r] <= IntMax /\ tickets_sold[target[r]] + qty[r] > IntMax)

Answers ==
    /\ BookingsAreWhole /\ RepliesTellTheTruth /\ OrganizersErrors
    /\ \A r \in Req : reply[r] # None => pc[r] = "done"
    /\ \A r \in BookReq :
          /\ pc[r] = "ordered" => r \in orders
          /\ pc[r] = "committed" => r \in bookings
          /\ r \in requested => r \in bookings /\ pc[r] = "done"
    /\ \A r \in EditReq : target[r] # None => target[r] \in Event /\ owner[target[r]] # None

LEMMA InitAnswers == Init => Answers
BY RequestAssumption
DEF Init, Answers, BookingsAreWhole, RepliesTellTheTruth, OrganizersErrors, Req, Replies

LEMMA StepAnswers == IInv /\ Answers /\ [Next]_vars => Answers'
<1> SUFFICES ASSUME IInv, Answers, [Next]_vars PROVE Answers'
  OBVIOUS
<1> USE RequestAssumption DEF IInv, Req, Replies, Answers, BookingsAreWhole,
        RepliesTellTheTruth, OrganizersErrors
<1>1. ASSUME NEW e \in Event, NEW o \in Organizer, NEW c \in NewEvent, CreateEvent(e, o, c)
      PROVE  Answers'
  BY <1>1 DEF CreateEvent, outside, handlers, TypeOK
<1>2. ASSUME NEW r \in BookReq, BookArrive(r) PROVE Answers'
  <2>1. ASSUME NEW e \in Event, NEW n \in Quantity, BookReject(r, e, n) PROVE Answers'
    BY <2>1 DEF BookReject, Answer, rows, outside, args, TypeOK, Phases
  <2>2. ASSUME NEW e \in Event, NEW n \in Quantity, BookLoad(r, e, n) PROVE Answers'
    BY <2>2 DEF BookLoad, Goto, rows, outside, TypeOK, Phases
  <2> QED BY <1>2, <2>1, <2>2 DEF BookArrive
<1>3. ASSUME NEW r \in BookReq, BookStep(r) PROVE Answers'
  <2>1. CASE BookRefuse(r)
    BY <2>1 DEF BookRefuse, Answer, Rollback, rows, outside, args, TypeOK, Phases
  <2>2. CASE BookReserve(r)
    BY <2>2 DEF BookReserve, Goto, rows, outside, args, TypeOK, Phases
  <2>3. CASE BookOrder(r)
    BY <2>3 DEF BookOrder, Goto, rows, args, TypeOK, Phases
  <2>4. CASE BookGatewayFails(r)
    BY <2>4 DEF BookGatewayFails, Answer, Rollback, rows, args, TypeOK, Phases
  <2>5. CASE BookCommit(r)
    <3>1. bookings' = bookings \cup {r} /\ payments' = payments \cup {r} /\ target[r] \in live
      BY <2>5, CommitStep
    <3> QED BY <2>5, <3>1 DEF BookCommit, Goto, outside, args, TypeOK, Phases
  <2>6. CASE BookTooDear(r)
    BY <2>6 DEF BookTooDear, Answer, Rollback, rows, outside, args, TypeOK, Phases
  <2>7. CASE BookEnqueue(r)
    BY <2>7 DEF BookEnqueue, Answer, rows, args, TypeOK, Phases
  <2> QED BY <1>3, <2>1, <2>2, <2>3, <2>4, <2>5, <2>6, <2>7 DEF BookStep
<1>4. ASSUME NEW r \in EditReq, EditArrive(r) PROVE Answers'
  <2>1. ASSUME NEW e \in Event, NEW o \in Organizer, NEW p \in Patch, EditReject(r, e, o, p)
        PROVE  Answers'
    BY <2>1 DEF EditReject, Answer, rows, outside, args, TypeOK
  <2>2. ASSUME NEW e \in Event, NEW o \in Organizer, NEW p \in Patch, EditLoad(r, e, o, p)
        PROVE  Answers'
    BY <2>2 DEF EditLoad, Goto, rows, outside, TypeOK, Owned
  <2> QED BY <1>4, <2>1, <2>2 DEF EditArrive
<1>5. ASSUME NEW r \in EditReq, EditStep(r) PROVE Answers'
  <2>1. CASE EditCommit(r)
    BY <2>1 DEF EditCommit, Goto, outside, args, TypeOK
  <2>2. CASE EditStale(r)
    BY <2>2 DEF EditStale, Answer, rows, outside, args, TypeOK
  <2>3. CASE EditEnqueue(r)
    BY <2>3 DEF EditEnqueue, Answer, rows, args, TypeOK
  <2>4. CASE EditTooWide(r)
    BY <2>4 DEF EditTooWide, Fitting, Changed, Answer, rows, outside, args, TypeOK
  <2> QED BY <1>5, <2>1, <2>2, <2>3, <2>4 DEF EditStep
<1>6. ASSUME NEW r \in EditReq, NotifyTask(r) \/ LoseTask(r) PROVE Answers'
  BY <1>6 DEF NotifyTask, LoseTask, rows, handlers, args, TypeOK
<1>7. ASSUME NEW r \in DropReq, DropArrive(r) PROVE Answers'
  <2>1. ASSUME NEW e \in Event, NEW o \in Organizer, DropReject(r, e, o) PROVE Answers'
    BY <2>1 DEF DropReject, Answer, rows, outside, args, TypeOK
  <2>2. ASSUME NEW e \in Event, NEW o \in Organizer, DropLoad(r, e, o) PROVE Answers'
    BY <2>2 DEF DropLoad, Goto, rows, outside, TypeOK
  <2> QED BY <1>7, <2>1, <2>2 DEF DropArrive
<1>8. ASSUME NEW r \in DropReq, DropStep(r) PROVE Answers'
  <2>1. CASE DropConflict(r)
    BY <2>1 DEF DropConflict, Answer, rows, outside, args, TypeOK
  <2>2. CASE DropDelete(r)
    <3>1. target[r] \in Event /\ \A b \in bookings : target[b] # target[r]
      BY <2>2, UnsoldUnbooked DEF DropDelete, Unsold, TypeOK
    <3>2. Referenced(target[r]) => target[r] \in jobs
      BY <3>1 DEF Referenced
    <3> QED BY <2>2, <3>1, <3>2 DEF DropDelete, Answer, outside, args, TypeOK
  <2> QED BY <1>8, <2>1, <2>2 DEF DropStep
<1>9. ASSUME NEW r \in Req, Crash(r) PROVE Answers'
  BY <1>9 DEF Crash, Busy, Goto, rows, outside, args, TypeOK, Phases
<1>10. CASE Tick
  BY <1>10 DEF Tick, rows, outside, handlers
<1>11. CASE UNCHANGED vars
  BY <1>11 DEF vars, rows, outside, handlers
<1> QED
  BY <1>1, <1>2, <1>3, <1>4, <1>5, <1>6, <1>7, <1>8, <1>9, <1>10, <1>11 DEF Next, Quiescent

LEMMA AnswersInvariance == Spec => []Answers
BY InitAnswers, StepAnswers, Invariance, PTL DEF Spec

(***************************************************************************)
(* Bookings always come with their payment, their order and their event.   *)
(***************************************************************************)
THEOREM WholeBookings == Spec => []BookingsAreWhole
BY AnswersInvariance, PTL DEF Answers

(***************************************************************************)
(* Whatever customers are told about their booking is what happened to it. *)
(***************************************************************************)
THEOREM TrueReplies == Spec => []RepliesTellTheTruth
BY AnswersInvariance, PTL DEF Answers

\* Nothing takes a sold ticket off the counter.
LEMMA CountersGrow ==
    ASSUME IInv, [Next]_vars, NEW e \in Event
    PROVE  tickets_sold'[e] >= tickets_sold[e]
<1> USE DEF IInv
<1>1. ASSUME NEW r \in BookReq, BookCommit(r) PROVE tickets_sold'[e] >= tickets_sold[e]
  <2>1. tickets_sold' = [tickets_sold EXCEPT ![target[r]] = @ + qty[r]] /\ qty[r] \in Nat
    BY <1>1, CommitStep
  <2> QED BY <2>1 DEF TypeOK
<1>2. ASSUME NEW f \in Event, NEW o \in Organizer, NEW c \in NewEvent, CreateEvent(f, o, c)
      PROVE  tickets_sold'[e] >= tickets_sold[e]
  <2>1. TicketsOf(f) = {}
    BY <1>2 DEF CreateEvent, Owned, TicketsOf, TypeOK
  <2>2. tickets_sold[f] = 0
    BY <2>1, FS_EmptySet DEF TicketsMatchBookings
  <2> QED BY <1>2, <2>2 DEF CreateEvent, TypeOK
<1>3. ASSUME tickets_sold' = tickets_sold PROVE tickets_sold'[e] >= tickets_sold[e]
  BY <1>3 DEF TypeOK
<1>4. ASSUME NEW r \in BookReq, BookArrive(r) \/ (BookStep(r) /\ ~BookCommit(r))
      PROVE  tickets_sold' = tickets_sold
  BY <1>4 DEF BookArrive, BookReject, BookLoad, BookStep, BookRefuse, BookReserve, BookOrder,
              BookGatewayFails, BookTooDear, BookEnqueue, Rollback, rows
<1>5. ASSUME NEW r \in Req,
             \/ EditArrive(r) \/ EditStep(r) \/ NotifyTask(r) \/ LoseTask(r)
             \/ DropArrive(r) \/ DropStep(r) \/ Crash(r)
      PROVE  tickets_sold' = tickets_sold
  BY <1>5 DEF EditArrive, EditReject, EditLoad, EditStep, EditCommit, EditTooWide, EditStale,
              EditEnqueue, NotifyTask, LoseTask, DropArrive, DropReject, DropLoad, DropStep,
              DropConflict, DropDelete, Crash, rows
<1>6. ASSUME Tick \/ UNCHANGED vars PROVE tickets_sold' = tickets_sold
  BY <1>6 DEF Tick, vars, rows
<1> QED
  BY <1>1, <1>2, <1>3, <1>4, <1>5, <1>6 DEF Next, Quiescent, Req

\* What was answered stays answered, and the request as it was; a booking that
\* is answered 500 now overflows or is too dear.
LEMMA AnsweredStep ==
    ASSUME IInv, Answers, [Next]_vars, NEW r \in BookReq, reply'[r] = 500
    PROVE  /\ target'[r] = target[r] /\ qty'[r] = qty[r] /\ seen'[r] = seen[r]
           /\ reply[r] = 500 \/ BookRefuse(r) \/ BookTooDear(r)
<1> USE RequestAssumption DEF Req, Replies
<1> DEFINE Goal == /\ target'[r] = target[r] /\ qty'[r] = qty[r] /\ seen'[r] = seen[r]
                   /\ reply[r] = 500 \/ BookRefuse(r) \/ BookTooDear(r)
<1>t. TypeOK /\ (reply[r] # None => pc[r] = "done")
  BY DEF IInv, Answers
<1>1. ASSUME NEW s \in BookReq, BookArrive(s) PROVE Goal
  BY <1>1, <1>t DEF BookArrive, BookReject, BookLoad, Goto, Answer, args, TypeOK
<1>2. ASSUME NEW s \in BookReq, BookStep(s) PROVE Goal
  <2>1. UNCHANGED args
    BY <1>2 DEF BookStep, BookRefuse, BookReserve, BookOrder, BookGatewayFails, BookTooDear,
       BookCommit, BookEnqueue
  <2>2. CASE BookRefuse(s) \/ BookTooDear(s)
    BY <2>1, <2>2, <1>t DEF BookRefuse, BookTooDear, Answer, args, TypeOK
  <2>3. CASE ~BookRefuse(s) /\ ~BookTooDear(s)
    BY <2>1, <2>3, <1>2, <1>t DEF BookStep, BookReserve, BookOrder, BookGatewayFails,
       BookCommit, BookEnqueue, Goto, Answer, args, TypeOK
  <2> QED BY <2>2, <2>3
<1>3. ASSUME NEW s \in EditReq \cup DropReq,
             EditArrive(s) \/ EditStep(s) \/ DropArrive(s) \/ DropStep(s)
      PROVE  Goal
  BY <1>3, <1>t DEF EditArrive, EditReject, EditLoad, EditStep, EditCommit, EditTooWide, EditStale,
     EditEnqueue, DropArrive, DropReject, DropLoad, DropStep, DropConflict, DropDelete, Goto, Answer, args, TypeOK
<1>4. ASSUME UNCHANGED <<reply, args>> PROVE Goal
  BY <1>4 DEF args
<1>5. ASSUME NEW s \in Req, Crash(s) \/ NotifyTask(s) \/ LoseTask(s) PROVE UNCHANGED <<reply, args>>
  BY <1>5 DEF Crash, NotifyTask, LoseTask, Goto, handlers, args
<1>6. ASSUME NEW e \in Event, NEW o \in Organizer, NEW c \in NewEvent, CreateEvent(e, o, c)
      PROVE  UNCHANGED <<reply, args>>
  BY <1>6 DEF CreateEvent, handlers, args
<1>7. CASE Tick \/ UNCHANGED vars
  BY <1>4, <1>7 DEF Tick, vars, handlers, args
<1> QED BY <1>1, <1>2, <1>3, <1>4, <1>5, <1>6, <1>7 DEF Next, Quiescent

LEMMA StepErrors == IInv /\ Answers /\ BookingErrors /\ [Next]_vars => BookingErrors'
<1> SUFFICES ASSUME IInv, Answers, BookingErrors, [Next]_vars,
                    NEW r \in BookReq, reply'[r] = 500
             PROVE  /\ target'[r] \in Event
                    /\ \/ ~InColumn(Amount(r)')
                       \/ qty'[r] <= IntMax /\ tickets_sold'[target'[r]] + qty'[r] > IntMax
  BY DEF BookingErrors
<1>1. /\ target'[r] = target[r] /\ qty'[r] = qty[r] /\ Amount(r)' = Amount(r)
      /\ reply[r] = 500 \/ BookRefuse(r) \/ BookTooDear(r)
  BY AnsweredStep DEF Amount
<1>2. target[r] \in Event
  BY <1>1 DEF BookingErrors, IInv, Phases, BookRefuse, BookTooDear
<1>3. tickets_sold'[target[r]] >= tickets_sold[target[r]]
  BY <1>2, CountersGrow
<1>4. ~InColumn(Amount(r)) \/ (qty[r] <= IntMax /\ tickets_sold[target[r]] + qty[r] > IntMax)
  <2>1. CASE reply[r] = 500
    BY <2>1 DEF BookingErrors
  <2>2. CASE BookTooDear(r)
    BY <2>2 DEF BookTooDear
  <2>3. CASE BookRefuse(r)
    <3>1. reply'[r] = IF Overflows(target[r], qty[r]) THEN 500 ELSE 400
      BY <2>3 DEF BookRefuse, Answer, IInv, TypeOK, Req
    <3> QED BY <3>1 DEF Overflows
  <2> QED BY <1>1, <2>1, <2>2, <2>3
<1>5. /\ tickets_sold[target[r]] \in Nat /\ tickets_sold'[target[r]] \in Nat
      /\ qty[r] \in Nat /\ IntMax \in Nat
  BY <1>2, StepType, ColumnAssumption DEF IInv, TypeOK
<1> QED BY <1>1, <1>2, <1>3, <1>4, <1>5

(***************************************************************************)
(* A booking, a PATCH or a DELETE is answered 500 for the stated causes    *)
(* only, whatever organizers and customers send.                           *)
(***************************************************************************)
THEOREM ExplainedErrors == Spec => []ServerErrorsExplained
<1>1. IInv /\ Answers /\ BookingErrors /\ [Next]_vars => BookingErrors'
  BY StepErrors
<1>2. Init => BookingErrors
  BY RequestAssumption DEF Init, BookingErrors, Req, Replies
<1>3. Answers /\ BookingErrors => ServerErrorsExplained
  BY DEF Answers, OrganizersErrors, BookingErrors, ServerErrorsExplained
<1> QED BY <1>1, <1>2, <1>3, Invariance, AnswersInvariance, PTL DEF Spec

----------------------------------------------------------------------------
(* With one web worker nothing comes between a booking's look at the event *)
(* and its commit.                                                         *)

OneAtATime ==
    /\ \A r, s \in Busy : r = s
    /\ \A r \in BookReq \cap Busy : seen[r]["price"] = event[target[r]]["price"]

LEMMA InitOne == Init => OneAtATime
BY DEF Init, OneAtATime, Busy

\* A free worker is the only one.
LEMMA FreeIsIdle == ASSUME WebWorkers = 1, OneAtATime, HasWorker PROVE Busy = {}
<1> SUFFICES ASSUME NEW r \in Busy PROVE FALSE
  OBVIOUS
<1>1. Busy = {} \cup {r}
  BY DEF OneAtATime
<1>2. Cardinality({} \cup {r}) = Cardinality({}) + 1 /\ Cardinality({}) = 0
  BY FS_EmptySet, FS_AddElement
<1> QED BY <1>1, <1>2 DEF HasWorker

\* Nobody becomes busy, and what the busy booking saw stays as it is.
LEMMA OneFrame ==
    ASSUME OneAtATime, Busy' \subseteq Busy,
           \A r \in BookReq \cap Busy' : /\ seen'[r] = seen[r] /\ target'[r] = target[r]
                                         /\ event'[target[r]] = event[target[r]]
    PROVE  OneAtATime'
BY DEF OneAtATime

LEMMA StepOne == ASSUME WebWorkers = 1, IInv, OneAtATime, [Next]_vars PROVE OneAtATime'
<1> USE RequestAssumption DEF IInv, TypeOK, Req
<1>1. ASSUME NEW e \in Event, NEW o \in Organizer, NEW c \in NewEvent, CreateEvent(e, o, c)
      PROVE  OneAtATime'
  BY <1>1, FreeIsIdle, OneFrame DEF CreateEvent, outside, handlers, Busy
<1>2. ASSUME NEW r \in Req, Busy = {}, pc' = [pc EXCEPT ![r] = "loaded"],
             r \in BookReq => seen'[r] = event[target'[r]], UNCHANGED event
      PROVE  OneAtATime'
  <2>1. Busy' = {r}
    BY <1>2 DEF Busy
  <2> QED BY <1>2, <2>1 DEF OneAtATime
<1>3. ASSUME NEW r \in Req, pc' = [pc EXCEPT ![r] = "done"], UNCHANGED <<event, seen, target>>
      PROVE  OneAtATime'
  BY <1>3, OneFrame DEF Busy
<1>4. ASSUME NEW r \in BookReq, BookArrive(r) PROVE OneAtATime'
  <2>1. ASSUME NEW e \in Event, NEW n \in Quantity, BookReject(r, e, n) PROVE OneAtATime'
    BY <1>3, <2>1 DEF BookReject, Answer, rows, args
  <2>2. ASSUME NEW e \in Event, NEW n \in Quantity, BookLoad(r, e, n) PROVE OneAtATime'
    <3>1. target'[r] = e /\ seen'[r] = event[e]
      BY <2>2 DEF BookLoad
    <3> QED BY <1>2, <2>2, <3>1, FreeIsIdle DEF BookLoad, Goto, rows
  <2> QED BY <1>4, <2>1, <2>2 DEF BookArrive
<1>5. ASSUME NEW r \in EditReq, EditArrive(r) PROVE OneAtATime'
  <2>1. ASSUME NEW e \in Event, NEW o \in Organizer, NEW p \in Patch, EditReject(r, e, o, p)
        PROVE  OneAtATime'
    BY <1>3, <2>1 DEF EditReject, Answer, rows, args
  <2>2. ASSUME NEW e \in Event, NEW o \in Organizer, NEW p \in Patch, EditLoad(r, e, o, p)
        PROVE  OneAtATime'
    BY <1>2, <2>2, FreeIsIdle DEF EditLoad, Goto, rows
  <2> QED BY <1>5, <2>1, <2>2 DEF EditArrive
<1>6. ASSUME NEW r \in DropReq, DropArrive(r) PROVE OneAtATime'
  BY <1>2, <1>3, <1>6, FreeIsIdle DEF DropArrive, DropReject, DropLoad, Goto, Answer, rows, args
<1>7. ASSUME NEW r \in BookReq, BookStep(r) PROVE OneAtATime'
  <2>1. /\ Busy' \subseteq Busy /\ UNCHANGED <<event, seen, target>>
    BY <1>7 DEF BookStep, BookRefuse, BookReserve, BookOrder, BookGatewayFails, BookCommit, BookTooDear,
       BookEnqueue, Goto, Answer, Rollback, rows, args, Busy
  <2> QED BY <2>1, OneFrame
<1>8. ASSUME NEW r \in EditReq, EditStep(r) PROVE OneAtATime'
  <2>1. Busy = {r} /\ Busy' \subseteq Busy
    BY <1>8 DEF EditStep, EditCommit, EditTooWide, EditStale, EditEnqueue, Goto, Answer, Busy, OneAtATime
  <2> QED BY <2>1, OneFrame
<1>9. ASSUME NEW r \in DropReq, DropStep(r) PROVE OneAtATime'
  <2>1. Busy = {r} /\ Busy' \subseteq Busy
    BY <1>9 DEF DropStep, DropConflict, DropDelete, Answer, Busy, OneAtATime
  <2> QED BY <2>1, OneFrame
<1>10. ASSUME NEW r \in Req, Crash(r) PROVE OneAtATime'
  BY <1>3, <1>10 DEF Crash, Goto, rows, args
<1>11. ASSUME UNCHANGED <<event, handlers>> PROVE OneAtATime'
  BY <1>11, OneFrame DEF handlers, Busy
<1>12. ASSUME NEW r \in EditReq, NotifyTask(r) \/ LoseTask(r) PROVE OneAtATime'
  BY <1>11, <1>12 DEF NotifyTask, LoseTask, rows
<1>13. CASE Tick \/ UNCHANGED vars
  BY <1>11, <1>13 DEF Tick, vars, rows
<1> QED
  BY <1>1, <1>4, <1>5, <1>6, <1>7, <1>8, <1>9, <1>10, <1>12, <1>13 DEF Next, Quiescent

(***************************************************************************)
(* With one web worker, as docker-compose.yml runs the application, a      *)
(* booking is charged the price its event has when it commits.             *)
(***************************************************************************)
THEOREM CurrentPriceCharged == ASSUME WebWorkers = 1 PROVE Spec => ChargedTheCurrentPrice
<1>1. IInv /\ OneAtATime /\ [Next]_vars => (IInv /\ OneAtATime)'
  BY StepInv, StepOne
<1>2. IInv /\ OneAtATime /\ [Next]_vars =>
        [\A r \in BookReq : r \in payments' \ payments =>
            amount'[r] = event'[target[r]]["price"] * qty[r]]_vars
  <2> SUFFICES ASSUME IInv, OneAtATime, Next, NEW r \in BookReq, r \in payments' \ payments
               PROVE  amount'[r] = event'[target[r]]["price"] * qty[r]
    OBVIOUS
  <2>1. ASSUME NEW b \in BookReq, BookCommit(b) PROVE amount'[r] = event'[target[r]]["price"] * qty[r]
    <3>1. r = b
      BY <2>1 DEF BookCommit, Commit
    <3>2. r \in Busy
      BY <2>1, <3>1 DEF BookCommit, Busy, Req
    <3> QED BY <2>1, <3>1, <3>2 DEF BookCommit, Amount, OneAtATime, IInv, TypeOK
  <2>2. ASSUME NEW b \in BookReq, BookArrive(b) \/ (BookStep(b) /\ ~BookCommit(b)) PROVE payments' = payments
    BY <2>2 DEF BookArrive, BookReject, BookLoad, BookStep, BookRefuse, BookReserve, BookOrder,
       BookGatewayFails, BookTooDear, BookEnqueue, Rollback, rows
  <2>3. ASSUME NEW s \in Req,
               \/ EditArrive(s) \/ EditStep(s) \/ NotifyTask(s) \/ LoseTask(s)
               \/ DropArrive(s) \/ DropStep(s) \/ Crash(s)
        PROVE  payments' = payments
    BY <2>3 DEF EditArrive, EditReject, EditLoad, EditStep, EditCommit, EditTooWide, EditStale, EditEnqueue,
       NotifyTask, LoseTask, DropArrive, DropReject, DropLoad, DropStep, DropConflict, DropDelete, Crash, rows
  <2>4. ASSUME NEW e \in Event, NEW o \in Organizer, NEW c \in NewEvent, CreateEvent(e, o, c)
        PROVE  payments' = payments
    BY <2>4 DEF CreateEvent
  <2>5. CASE Tick \/ UNCHANGED vars
    BY <2>5 DEF Tick, vars, rows
  <2> QED BY <2>1, <2>2, <2>3, <2>4, <2>5 DEF Next, Quiescent, Req
<1>3. Init => IInv /\ OneAtATime
  BY InitInv, InitOne
<1> QED BY <1>1, <1>2, <1>3, PTL DEF Spec, ChargedTheCurrentPrice

----------------------------------------------------------------------------
(* Handlers implement the ticket office.                                   *)

Capacities == [e \in Event |-> event[e]["capacity"]]
Tickets == [e \in Event |-> TicketsOf(e)]

LEMMA InitRefines == Init => Office!OfficeInit
BY DEF Init, Office!OfficeInit, TicketsOf, Blank, Column

\* Steps that change no event, no booking and nothing of a booking's request.
LEMMA Stutter ==
    ASSUME UNCHANGED <<live, event, bookings>>,
           \A b \in bookings : target'[b] = target[b] /\ qty'[b] = qty[b]
    PROVE  UNCHANGED Office!office
<1>1. \A e \in Event : TicketsOf(e)' = TicketsOf(e)
  BY TicketsFrame
<1> QED BY <1>1 DEF Office!office

LEMMA CreateRefines ==
    ASSUME IInv, NEW e \in Event, NEW o \in Organizer, NEW c \in NewEvent, CreateEvent(e, o, c)
    PROVE  Office!OpenEvent(e, c["capacity"]) /\ c["capacity"] \in 1..IntMax
<1> USE DEF CreateEvent, outside, handlers
<1>1. e \notin live /\ \A r \in BookReq : target[r] # e
  BY DEF IInv, Owned, Req
<1>2. \A f \in Event : TicketsOf(f)' = TicketsOf(f)
  BY TicketsFrame
<1>3. TicketsOf(e) = {}
  BY <1>1 DEF TicketsOf, IInv, TypeOK
<1>4. c["capacity"] \in 1..IntMax
  BY ColumnAssumption DEF Columns, InWidth, Column
<1>5. Capacities' = [Capacities EXCEPT ![e] = c["capacity"]]
  BY DEF Capacities, IInv, TypeOK
<1> QED BY <1>1, <1>2, <1>3, <1>4, <1>5 DEF Office!OpenEvent, Capacities

\* The module TicketOffice counts as this one does.
LEMMA SameCardinality == ASSUME NEW S PROVE Office!Cardinality(S) = Cardinality(S)
BY DEF Office!Cardinality, Cardinality

LEMMA CommitRefines ==
    ASSUME IInv, NEW r \in BookReq, BookCommit(r), TicketsMatchBookings',
           NEW e, e = target[r], NEW n, n = qty[r]
    PROVE  Office!Sell(r, e, n) /\ e \in Event /\ n \in {m \in Quantity : m > 0}
<1>1. e \in live /\ e \in Event /\ n \in Quantity /\ n > 0
  BY CommitStep
<1>2. Tickets' = [Tickets EXCEPT ![e] = @ \cup ({r} \X (1..n))]
  <2>1. \A f \in Event : TicketsOf(f)' =
            IF f = e THEN TicketsOf(f) \cup ({r} \X (1..n)) ELSE TicketsOf(f)
    BY CommitStep
  <2> QED BY <2>1 DEF Tickets
<1>3. Cardinality(Tickets'[e]) <= Capacities[e]
  <2>1. Cardinality(TicketsOf(e)') = tickets_sold'[e]
    BY <1>1 DEF TicketsMatchBookings
  <2>2. tickets_sold'[e] = tickets_sold[e] + n /\ tickets_sold[e] + n <= event[e]["capacity"]
    BY CommitStep DEF IInv, TypeOK
  <2>3. Tickets'[e] = TicketsOf(e)' /\ Capacities[e] = event[e]["capacity"]
    BY <1>1 DEF Tickets, Capacities
  <2> QED BY <2>1, <2>2, <2>3
<1>4. \A f \in Event : r \notin Office!Holders(f)
  <2> SUFFICES ASSUME NEW f \in Event, NEW t \in TicketsOf(f), t[1] = r PROVE FALSE
    BY DEF Office!Holders
  <2>1. t[1] \in bookings
    BY DEF TicketsOf
  <2> QED BY <2>1, CommitStep
<1>5. UNCHANGED <<live, Capacities>>
  BY DEF BookCommit, Capacities
<1>6. Office!Sell(r, e, n)
  BY <1>1, <1>2, <1>3, <1>4, <1>5, SameCardinality DEF Office!Sell, Tickets, Capacities
<1> QED BY <1>1, <1>6

LEMMA EditResizes ==
    ASSUME IInv, NEW r \in EditReq, EditCommit(r), "capacity" \in Changed(r),
           NEW e, e = target[r], NEW c, c = patch[r]["capacity"]
    PROVE  Office!Resize(e, c) /\ e \in Event /\ c \in 1..IntMax
<1> USE DEF EditCommit, outside, args, IInv, TypeOK
<1>1. \A f \in Event : TicketsOf(f)' = TicketsOf(f)
  BY TicketsFrame
<1>2. e \in live /\ e \in Event
  OBVIOUS
<1>3. c \in 1..IntMax
  <2>1. patch[r] \in Patch
    BY DEF Changed, NoPatch
  <2>2. c \in Nat /\ c > 0
    BY <2>1, ColumnAssumption DEF Changed
  <2>3. c <= IntMax
    BY DEF Fitting, InWidth
  <2> QED BY <2>2, <2>3, ColumnAssumption
<1>4. Capacities' = [Capacities EXCEPT ![e] = c]
  BY <1>2 DEF Capacities, Columns, Column
<1>5. Office!Resize(e, c)
  BY <1>1, <1>2, <1>4 DEF Office!Resize, Capacities
<1> QED BY <1>2, <1>3, <1>5

LEMMA EditKeeps ==
    ASSUME IInv, NEW r \in EditReq, EditCommit(r), "capacity" \notin Changed(r)
    PROVE  UNCHANGED Office!office
<1> USE DEF EditCommit, outside, args, IInv, TypeOK
<1>1. \A f \in Event : TicketsOf(f)' = TicketsOf(f)
  BY TicketsFrame
<1>2. Capacities' = Capacities
  BY DEF Capacities, Columns, Column
<1> QED BY <1>1, <1>2 DEF Office!office, Capacities

LEMMA DropRefines ==
    ASSUME IInv, NEW r \in DropReq, DropDelete(r)
    PROVE  \/ UNCHANGED Office!office
           \/ \E e \in Event : Office!Withdraw(e)
<1> USE DEF DropDelete, outside, args
<1>1. \A f \in Event : TicketsOf(f)' = TicketsOf(f)
  BY TicketsFrame
<1>2. CASE live' = live
  BY <1>1, <1>2 DEF Office!office
<1>3. CASE live' = live \ {target[r]}
  <2>1. target[r] \in live /\ target[r] \in Event /\ tickets_sold[target[r]] = 0
    BY DEF Unsold, IInv, TypeOK
  <2>2. TicketsOf(target[r]) = {}
    BY <2>1, UnsoldUnbooked DEF TicketsOf
  <2>3. Office!Withdraw(target[r])
    BY <1>1, <1>3, <2>1, <2>2 DEF Office!Withdraw
  <2> QED BY <2>1, <2>3
<1> QED BY <1>2, <1>3

LEMMA StepRefines ==
    ASSUME IInv, IInv', [Next]_vars
    PROVE  [Office!OfficeNext]_Office!office
<1> USE DEF IInv, Req
<1>1. ASSUME NEW e \in Event, NEW o \in Organizer, NEW c \in NewEvent, CreateEvent(e, o, c)
      PROVE  Office!OfficeNext
  BY <1>1, CreateRefines DEF Office!OfficeNext
<1>2. ASSUME NEW r \in BookReq, BookArrive(r) PROVE UNCHANGED Office!office
  <2>1. r \notin bookings
    BY <1>2 DEF BookArrive, BookReject, BookLoad, Phases
  <2> QED BY <1>2, <2>1, Stutter DEF BookArrive, BookReject, BookLoad, rows, args, TypeOK
<1>3. ASSUME NEW r \in BookReq, BookCommit(r) PROVE Office!OfficeNext
  BY <1>3, CommitRefines DEF Office!OfficeNext
<1>4. ASSUME NEW r \in BookReq, BookStep(r), ~BookCommit(r) PROVE UNCHANGED Office!office
  BY <1>4, Stutter DEF BookStep, BookRefuse, BookReserve, BookOrder, BookGatewayFails,
              BookTooDear, BookEnqueue, Rollback, rows, args
<1>5. ASSUME NEW r \in EditReq, EditCommit(r) PROVE [Office!OfficeNext]_Office!office
  <2>1. CASE "capacity" \in Changed(r)
    <3>1. PICK e, c : e = target[r] /\ c = patch[r]["capacity"]
      OBVIOUS
    <3>2. Office!Resize(e, c) /\ e \in Event /\ c \in 1..IntMax
      BY <1>5, <2>1, <3>1, EditResizes
    <3> QED BY <3>2 DEF Office!OfficeNext
  <2>2. CASE "capacity" \notin Changed(r)
    BY <1>5, <2>2, EditKeeps
  <2> QED BY <2>1, <2>2
<1>6. ASSUME NEW r \in EditReq, EditArrive(r) \/ EditTooWide(r) \/ EditStale(r) \/ EditEnqueue(r)
      PROVE  UNCHANGED Office!office
  BY <1>6, Stutter, RequestAssumption
  DEF EditArrive, EditReject, EditLoad, EditTooWide, EditStale, EditEnqueue, rows, args, TypeOK
<1>7. ASSUME NEW r \in EditReq, NotifyTask(r) \/ LoseTask(r) PROVE UNCHANGED Office!office
  BY <1>7, Stutter DEF NotifyTask, LoseTask, rows, handlers
<1>8. ASSUME NEW r \in DropReq, DropArrive(r) \/ DropConflict(r) PROVE UNCHANGED Office!office
  BY <1>8, Stutter, RequestAssumption
  DEF DropArrive, DropReject, DropLoad, DropConflict, rows, args, TypeOK
<1>9. ASSUME NEW r \in DropReq, DropDelete(r) PROVE [Office!OfficeNext]_Office!office
  BY <1>9, DropRefines DEF Office!OfficeNext
<1>10. ASSUME NEW r \in Req, Crash(r) PROVE UNCHANGED Office!office
  BY <1>10, Stutter DEF Crash, rows, args
<1>11. CASE Tick \/ UNCHANGED vars
  BY <1>11, Stutter DEF Tick, vars, rows, handlers
<1> QED
  BY <1>1, <1>2, <1>3, <1>4, <1>5, <1>6, <1>7, <1>8, <1>9, <1>10, <1>11
  DEF Next, Quiescent, EditStep, DropStep

(***************************************************************************)
(* The transactional handlers implement the ticket office, whose           *)
(* operations are atomic.                                                  *)
(***************************************************************************)
THEOREM Refinement == Spec => ImplementsTicketOffice
<1>1. IInv /\ IInv' /\ [Next]_vars => [Office!OfficeNext]_Office!office
  BY StepRefines
<1> QED
  BY <1>1, InitRefines, Invariance, PTL DEF Spec, ImplementsTicketOffice, Office!OfficeSpec
=============================================================================
