---------------------------- MODULE ReviewProofs ----------------------------
(***************************************************************************)
(* Reviews for any number of bookings, events and requests, and for pools  *)
(* of any size: what module ReviewProperties states, proved.               *)
(***************************************************************************)
EXTENDS ReviewProperties, FiniteSetTheorems, TLAPS

----------------------------------------------------------------------------
(* Types.                                                                  *)

LEMMA InitType == Init => TypeOK
BY ReviewAssumption DEF Init, TypeOK, Req

LEMMA StepType == TypeOK /\ [Next]_vars => TypeOK'
<1> SUFFICES ASSUME TypeOK, [Next]_vars PROVE TypeOK'
  OBVIOUS
<1> USE ReviewAssumption DEF TypeOK, Req, lists
<1>1. ASSUME NEW b \in Booking, Book(b) \/ \E s \in {"PROCESSED", "FAILED"} : Settle(b, s) PROVE TypeOK'
  BY <1>1 DEF Book, Settle
<1>2. ASSUME NEW e \in Event, NEW d \in 1..(MaxTime + 1), Postpone(e, d) PROVE TypeOK'
  BY <1>2 DEF Postpone
<1>3. CASE Tick
  BY <1>3 DEF Tick
<1>4. ASSUME NEW r \in ReviewReq, NEW b \in Booking, NEW own \in BOOLEAN, ReviewFind(r, b, own) PROVE TypeOK'
  BY <1>4 DEF ReviewFind, Answer, Goto
<1>5. ASSUME NEW r \in ReviewReq, ReviewConfirmed(r) \/ ReviewPast(r) \/ ReviewFirst(r) PROVE TypeOK'
  BY <1>5 DEF ReviewConfirmed, ReviewPast, ReviewFirst, Check, Answer, Goto
<1>6. ASSUME NEW r \in ReviewReq, ReviewCreate(r) PROVE TypeOK'
  BY <1>6 DEF ReviewCreate, Answer, Unexpected
<1>7. ASSUME NEW l \in ListReq,
             (\E e \in Event, known \in BOOLEAN : ListFind(l, e, known)) \/ ListBookings(l)
      PROVE  TypeOK'
  BY <1>7 DEF ListFind, ListBookings, BookingsOf, Answer, Goto
<1>8. ASSUME NEW l \in ListReq, NEW b \in Booking, ListNext(l, b) PROVE TypeOK'
  BY <1>8 DEF ListNext
<1>9. ASSUME NEW l \in ListReq, ListEnd(l) PROVE TypeOK'
  BY <1>9 DEF ListEnd, Answer
<1>10. CASE UNCHANGED vars
  BY <1>10 DEF vars
<1> HIDE DEF TypeOK, Req, lists
<1> QED
  BY <1>1, <1>2, <1>3, <1>4, <1>5, <1>6, <1>7, <1>8, <1>9, <1>10 DEF Next, Quiescent

(***************************************************************************)
(* Every reachable state of the reviews is well typed.                     *)
(***************************************************************************)
THEOREM TypeCorrect == Spec => []TypeOK
BY InitType, StepType, PTL DEF Spec

----------------------------------------------------------------------------
(* The inductive invariant.                                                *)

Busy == {r \in Req : pc[r] \notin {"new", "done"}}

\* The web tier has as many requests on hand as workers, at most.
Pool == IsFiniteSet(Busy) /\ Cardinality(Busy) <= workers

\* What is behind a review, and behind the answer to a request for one.
Reviews ==
    \A r \in ReviewReq :
        /\ pc[r] \in {"new", "found", "confirmed", "past", "checked", "done"}
        /\ pc[r] \notin {"new", "done"} \/ r \in reviews => booking[r] \in Booking /\ status[booking[r]] # None
        /\ pc[r] # "done" => reply[r] = None
        /\ r \in reviews <=> reply[r] = 201
        /\ reply[r] = 500 => workers > 1 /\ \E s \in reviews : booking[s] = booking[r]

\* What a single worker has seen is still so.
Looks ==
    workers = 1 => \A r \in ReviewReq :
        /\ pc[r] \in {"confirmed", "past", "checked"} => Confirmed(booking[r])
        /\ pc[r] \in {"past", "checked"} => date[EventOf[booking[r]]] <= now
        /\ pc[r] = "checked" => ~Reviewed(booking[r])

\* Bookings a list is about.
About(l) == todo[l] \cup {booking[r] : r \in listed[l]}

\* A review that was there is listed or will be.
Lists ==
    \A l \in ListReq :
        /\ pc[l] \in {"new", "sought", "listing", "done"}
        /\ reply[l] = 200 => pc[l] = "done"
        /\ pc[l] # "listing" => todo[l] = {}
        /\ pc[l] \in {"new", "sought"} => listed[l] = {}
        /\ pc[l] = "new" => due[l] = {}
        /\ listed[l] \subseteq reviews
        /\ \A r \in due[l] :
              /\ r \in reviews
              /\ IF pc[l] = "sought" THEN EventOf[booking[r]] = event[l]
                 ELSE r \in listed[l] \/ booking[r] \in todo[l]
        /\ \A a, b \in About(l) : EventOf[a] = EventOf[b]

IInv == TypeOK /\ Pool /\ Reviews /\ Looks /\ Lists /\ OneReviewPerBooking

LEMMA InitInv == Init => IInv
<1> SUFFICES ASSUME Init PROVE IInv
  OBVIOUS
<1> USE ReviewAssumption DEF Init
<1>1. Busy = {}
  BY DEF Busy, Req
<1>2. Pool
  BY <1>1, FS_EmptySet DEF Pool
<1>3. Reviews /\ Looks /\ Lists /\ OneReviewPerBooking
  BY DEF Reviews, Looks, Lists, About, OneReviewPerBooking, Req
<1> QED BY <1>2, <1>3, InitType DEF IInv

\* A single worker that has a request on hand takes up no other.
LEMMA Alone ==
    ASSUME IInv, workers = 1, NEW r \in Busy
    PROVE  ~HasWorker /\ \A s \in Busy : s = r
<1>1. IsFiniteSet(Busy) /\ Cardinality(Busy) <= 1 /\ Cardinality(Busy) \in Nat
  BY FS_CardinalityType DEF IInv, Pool
<1>2. Cardinality(Busy) = 1
  BY <1>1, FS_EmptySet
<1>3. PICK x : Busy = {x}
  BY <1>1, <1>2, FS_Singleton
<1> QED BY <1>2, <1>3 DEF HasWorker, Busy

\* A request is taken up by a free worker, keeps it or gives it back.
LEMMA PoolStep ==
    ASSUME IInv, NEW r \in Req, workers' = workers,
           \A s \in Req \ {r} : pc'[s] = pc[s],
           r \in Busy \/ HasWorker \/ pc'[r] = "done"
    PROVE  Pool'
<1>1. workers \in Nat /\ IsFiniteSet(Busy) /\ Cardinality(Busy) <= workers /\ Cardinality(Busy) \in Nat
  BY ReviewAssumption, FS_CardinalityType DEF IInv, Pool, TypeOK
<1>2. CASE r \in Busy'
  <2>1. Busy' = Busy \cup {r}
    BY <1>2 DEF Busy
  <2>2. IsFiniteSet(Busy') /\ Cardinality(Busy') = IF r \in Busy THEN Cardinality(Busy) ELSE Cardinality(Busy) + 1
    BY <1>1, <2>1, FS_AddElement
  <2>3. r \in Busy \/ Cardinality(Busy) < workers
    BY <1>2 DEF HasWorker, Busy
  <2> QED BY <1>1, <2>2, <2>3 DEF Pool
<1>3. CASE r \notin Busy'
  <2>1. Busy' = Busy \ {r}
    BY <1>3 DEF Busy
  <2>2. IsFiniteSet(Busy') /\ Cardinality(Busy') = IF r \in Busy THEN Cardinality(Busy) - 1 ELSE Cardinality(Busy)
    BY <1>1, <2>1, FS_RemoveElement
  <2>3. Cardinality(Busy') <= Cardinality(Busy)
    BY <1>1, <2>2
  <2> QED BY <1>1, <2>2, <2>3 DEF Pool
<1> QED BY <1>2, <1>3

\* Reviews that stay, and lists nobody goes on with.
LEMMA ListsStep ==
    ASSUME IInv, UNCHANGED lists, reviews \subseteq reviews',
           \A r \in reviews : booking'[r] = booking[r],
           \A l \in ListReq : pc'[l] = pc[l] /\ reply'[l] = reply[l]
    PROVE  Lists'
<1> SUFFICES ASSUME NEW l \in ListReq
             PROVE  /\ listed[l] \subseteq reviews'
                    /\ \A r \in due[l] :
                          /\ r \in reviews'
                          /\ IF pc[l] = "sought" THEN EventOf[booking'[r]] = event[l]
                             ELSE r \in listed[l] \/ booking'[r] \in todo[l]
                    /\ \A a, b \in About(l)' : EventOf[a] = EventOf[b]
  BY DEF IInv, Lists, lists
<1>1. \A r \in listed[l] \cup due[l] : r \in reviews /\ booking'[r] = booking[r]
  BY DEF IInv, Lists
<1>2. About(l)' = About(l)
  BY <1>1 DEF About, lists
<1> QED BY <1>1, <1>2 DEF IInv, Lists

----------------------------------------------------------------------------
(* The other handlers.                                                     *)

\* Rows that reviews depend on change only while a single worker has no review on hand.
LEMMA OthersStep ==
    ASSUME IInv, TypeOK',
           UNCHANGED <<workers, reviews, booking, pc, reply, lists>>,
           \A b \in Booking : status[b] # None => status'[b] # None,
           \/ HasWorker
           \/ UNCHANGED <<status, date>> /\ now' >= now
    PROVE  IInv'
<1>1. Pool'
  BY DEF IInv, Pool, Busy
<1>2. Reviews'
  BY DEF IInv, Reviews
<1>3. Looks'
  <2>1. CASE HasWorker
    <3>1. workers = 1 => \A r \in ReviewReq : r \notin Busy
      BY <2>1, Alone
    <3>2. workers = 1 => \A r \in ReviewReq : pc[r] \in {"new", "done"}
      BY <3>1 DEF Busy, Req
    <3> QED BY <3>2 DEF Looks
  <2>2. CASE UNCHANGED <<status, date>> /\ now' >= now
    <3> SUFFICES ASSUME workers = 1, NEW r \in ReviewReq, pc[r] \in {"past", "checked"}
                 PROVE  date[EventOf[booking[r]]] <= now'
      BY <2>2 DEF IInv, Looks, Confirmed, Reviewed
    <3>1. booking[r] \in Booking /\ date[EventOf[booking[r]]] <= now
      BY DEF IInv, Looks, Reviews
    <3>2. date[EventOf[booking[r]]] \in Int /\ now \in Int /\ now' \in Int
      BY <3>1, ReviewAssumption DEF IInv, TypeOK
    <3> QED BY <2>2, <3>1, <3>2
  <2> QED BY <2>1, <2>2
<1>4. Lists'
  BY ListsStep DEF lists
<1>5. OneReviewPerBooking'
  BY DEF IInv, OneReviewPerBooking
<1> QED BY <1>1, <1>2, <1>3, <1>4, <1>5 DEF IInv

----------------------------------------------------------------------------
(* Requests to review.                                                     *)

LEMMA FindStep ==
    ASSUME IInv, TypeOK', NEW r \in ReviewReq, NEW b \in Booking, NEW own \in BOOLEAN, ReviewFind(r, b, own)
    PROVE  IInv'
<1> USE ReviewAssumption
<1>1. /\ pc[r] = "new" /\ HasWorker /\ r \notin reviews
      /\ UNCHANGED <<workers, now, date, status, reviews, lists>>
      /\ \A s \in Req \ {r} : pc'[s] = pc[s] /\ reply'[s] = reply[s]
      /\ \A s \in ReviewReq \ {r} : booking'[s] = booking[s]
  BY DEF ReviewFind, Answer, Goto, IInv, Reviews, TypeOK, Req
<1>2. \/ pc'[r] = "done" /\ reply'[r] = 404 /\ booking'[r] = booking[r]
      \/ pc'[r] = "found" /\ reply'[r] = reply[r] /\ booking'[r] = b /\ status[b] # None
  BY DEF ReviewFind, Answer, Goto, IInv, TypeOK, Req
<1>3. Pool'
  BY <1>1, PoolStep DEF Req
<1>4. \A s \in reviews : s \in ReviewReq /\ s # r /\ booking'[s] = booking[s]
  BY <1>1 DEF IInv, TypeOK
<1>5. Reviews'
  BY <1>1, <1>2, <1>4 DEF IInv, Reviews, Req
<1>6. Looks'
  <2>1. workers = 1 => \A s \in ReviewReq : pc[s] \in {"new", "done"}
    BY <1>1, Alone DEF Busy, Req
  <2> QED BY <1>1, <1>2, <2>1 DEF Looks, Req
<1>7. Lists'
  BY <1>1, <1>4, ListsStep DEF Req
<1>8. OneReviewPerBooking'
  BY <1>1, <1>4 DEF IInv, OneReviewPerBooking
<1> QED BY <1>3, <1>5, <1>6, <1>7, <1>8 DEF IInv

LEMMA CheckStep ==
    ASSUME IInv, TypeOK', NEW r \in ReviewReq, ReviewConfirmed(r) \/ ReviewPast(r) \/ ReviewFirst(r)
    PROVE  IInv'
<1> USE ReviewAssumption
<1>1. /\ pc[r] \notin {"new", "done"} /\ r \in Req
      /\ UNCHANGED <<workers, now, date, status, reviews, booking, lists>>
      /\ \A s \in Req \ {r} : pc'[s] = pc[s] /\ reply'[s] = reply[s]
  BY DEF ReviewConfirmed, ReviewPast, ReviewFirst, Check, Answer, Goto, IInv, TypeOK, Req
<1>2. \/ pc'[r] = "done" /\ reply'[r] = 400
      \/ /\ reply'[r] = reply[r]
         /\ \/ pc[r] = "found" /\ pc'[r] = "confirmed" /\ Confirmed(booking[r])
            \/ pc[r] = "confirmed" /\ pc'[r] = "past" /\ date[EventOf[booking[r]]] <= now
            \/ pc[r] = "past" /\ pc'[r] = "checked" /\ ~Reviewed(booking[r])
  BY <1>1 DEF ReviewConfirmed, ReviewPast, ReviewFirst, Check, Answer, Goto, IInv, TypeOK
<1>3. Pool'
  BY <1>1, PoolStep DEF Busy
<1>4. r \notin reviews
  BY <1>1 DEF IInv, Reviews
<1>5. Reviews'
  BY <1>1, <1>2, <1>4 DEF IInv, Reviews, Req
<1>6. Looks'
  BY <1>1, <1>2 DEF IInv, Looks, Confirmed, Reviewed, Req
<1>7. Lists'
  BY <1>1, ListsStep DEF Req
<1>8. OneReviewPerBooking'
  BY <1>1 DEF IInv, OneReviewPerBooking
<1> QED BY <1>3, <1>5, <1>6, <1>7, <1>8 DEF IInv

LEMMA CreateStep ==
    ASSUME IInv, TypeOK', NEW r \in ReviewReq, ReviewCreate(r)
    PROVE  IInv'
<1> USE ReviewAssumption
<1>1. /\ pc[r] = "checked" /\ r \in Req /\ r \in Busy /\ pc'[r] = "done"
      /\ UNCHANGED <<workers, now, date, status, booking, lists>>
      /\ \A s \in Req \ {r} : pc'[s] = pc[s] /\ reply'[s] = reply[s]
  BY DEF ReviewCreate, Answer, IInv, TypeOK, Req, Busy
<1>2. r \notin reviews
  BY <1>1 DEF IInv, Reviews
<1>3. \/ reviews' = reviews \cup {r} /\ reply'[r] = 201 /\ ~Reviewed(booking[r])
      \/ reviews' = reviews /\ reply'[r] = 500 /\ Reviewed(booking[r])
  BY <1>1 DEF ReviewCreate, Answer, Refused, Reviewed, Unexpected, IInv, TypeOK
<1>4. workers = 1 => ~Reviewed(booking[r]) /\ \A s \in ReviewReq \ {r} : pc[s] \in {"new", "done"}
  BY <1>1, Alone DEF Busy, Req, IInv, Looks
<1>5. Pool'
  BY <1>1, PoolStep
<1>6. Reviews'
  <2>1. workers \in Nat \ {0}
    BY DEF IInv, TypeOK
  <2>2. ASSUME NEW s \in ReviewReq \ {r}
        PROVE  /\ pc'[s] \in {"new", "found", "confirmed", "past", "checked", "done"}
               /\ pc'[s] \notin {"new", "done"} \/ s \in reviews' => booking[s] \in Booking /\ status[booking[s]] # None
               /\ pc'[s] # "done" => reply'[s] = None
               /\ s \in reviews' <=> reply'[s] = 201
               /\ reply'[s] = 500 => workers > 1 /\ \E t \in reviews' : booking[t] = booking[s]
    BY <1>1, <1>3 DEF IInv, Reviews, Req
  <2>3. booking[r] \in Booking /\ status[booking[r]] # None
    BY <1>1 DEF IInv, Reviews
  <2>4. /\ r \in reviews' <=> reply'[r] = 201
        /\ reply'[r] = 500 => workers > 1 /\ \E t \in reviews' : booking[t] = booking[r]
    BY <1>2, <1>3, <1>4, <2>1 DEF Reviewed
  <2> QED BY <1>1, <2>2, <2>3, <2>4 DEF Reviews
<1>7. Looks'
  BY <1>1, <1>4 DEF Looks, Req
<1>8. Lists'
  BY <1>1, <1>3, ListsStep DEF Req
<1>9. OneReviewPerBooking'
  BY <1>1, <1>3 DEF IInv, OneReviewPerBooking, Reviewed
<1> QED BY <1>5, <1>6, <1>7, <1>8, <1>9 DEF IInv

----------------------------------------------------------------------------
(* Lists.                                                                  *)

LEMMA ListStep ==
    ASSUME IInv, TypeOK', NEW l \in ListReq,
           \/ \E e \in Event, known \in BOOLEAN : ListFind(l, e, known)
           \/ ListBookings(l)
           \/ \E b \in Booking : ListNext(l, b)
           \/ ListEnd(l)
    PROVE  IInv'
<1> USE ReviewAssumption
<1>1. /\ UNCHANGED <<workers, now, date, status, reviews, booking>>
      /\ l \in Req /\ \A s \in Req \ {l} : pc'[s] = pc[s] /\ reply'[s] = reply[s]
      /\ \A m \in ListReq \ {l} : event'[m] = event[m] /\ todo'[m] = todo[m] /\ listed'[m] = listed[m] /\ due'[m] = due[m]
  BY DEF ListFind, ListBookings, ListNext, ListEnd, Answer, Goto, IInv, TypeOK, Req, lists
<1>2. \A r \in ReviewReq : r \in Req /\ pc'[r] = pc[r] /\ reply'[r] = reply[r]
  BY <1>1 DEF Req
<1>3. Pool'
  <2>1. pc'[l] = pc[l] \/ l \in Busy \/ HasWorker \/ pc'[l] = "done"
    BY DEF ListFind, ListBookings, ListNext, ListEnd, Answer, Goto, Busy, IInv, TypeOK, Req
  <2>2. CASE pc'[l] = pc[l]
    <3>1. Busy' = Busy
      BY <1>1, <2>2 DEF Busy
    <3> QED BY <1>1, <3>1 DEF IInv, Pool
  <2> QED BY <1>1, <2>1, <2>2, PoolStep
<1>4. Reviews' /\ Looks' /\ OneReviewPerBooking'
  BY <1>1, <1>2 DEF IInv, Reviews, Looks, Confirmed, Reviewed, OneReviewPerBooking
<1>5. Lists'
  <2>1. \A m \in ListReq \ {l} : About(m)' = About(m) /\ pc'[m] = pc[m] /\ reply'[m] = reply[m]
    BY <1>1 DEF About, Req
  <2>2. ASSUME
        /\ pc'[l] \in {"new", "sought", "listing", "done"}
        /\ reply'[l] = 200 => pc'[l] = "done"
        /\ pc'[l] # "listing" => todo'[l] = {}
        /\ pc'[l] \in {"new", "sought"} => listed'[l] = {}
        /\ pc'[l] = "new" => due'[l] = {}
        /\ listed'[l] \subseteq reviews
        /\ \A r \in due'[l] :
              /\ r \in reviews
              /\ IF pc'[l] = "sought" THEN EventOf[booking[r]] = event'[l]
                 ELSE r \in listed'[l] \/ booking[r] \in todo'[l]
        /\ \A a, b \in About(l)' : EventOf[a] = EventOf[b]
        PROVE Lists'
    BY <1>1, <2>2, <2>1 DEF IInv, Lists
  <2>3. ASSUME NEW e \in Event, NEW known \in BOOLEAN, ListFind(l, e, known)
        PROVE  Lists'
    <3>1. CASE ~known
      <4>1. /\ pc'[l] = "done" /\ reply'[l] = 404 /\ pc[l] = "new" /\ UNCHANGED lists
        BY <2>3, <3>1 DEF ListFind, Answer, Goto, IInv, TypeOK, Req
      <4>2. About(l)' = About(l)
        BY <1>1, <4>1 DEF About, lists
      <4> QED BY <1>1, <2>2, <4>1, <4>2 DEF IInv, Lists, lists
    <3>2. CASE known
      <4>1. /\ pc[l] = "new" /\ pc'[l] = "sought" /\ reply'[l] = reply[l]
            /\ todo'[l] = {} /\ listed'[l] = {} /\ event'[l] = e
            /\ due'[l] = {r \in reviews : EventOf[booking[r]] = e}
        BY <2>3, <3>2 DEF ListFind, Answer, Goto, IInv, TypeOK, Req, Lists
      <4>2. About(l)' = {}
        BY <4>1 DEF About
      <4>3. reply'[l] # 200
        BY <4>1 DEF IInv, Lists
      <4> QED BY <2>2, <4>1, <4>2, <4>3
    <3> QED BY <3>1, <3>2
  <2>4. CASE ListBookings(l)
    <3>1. /\ pc[l] = "sought" /\ pc'[l] = "listing" /\ reply'[l] = reply[l]
          /\ todo'[l] = BookingsOf(event[l]) /\ listed'[l] = {} /\ due'[l] = due[l]
      BY <2>4 DEF ListBookings, Goto, IInv, TypeOK, Req, Lists
    <3>2. About(l)' = BookingsOf(event[l])
      BY <1>1, <3>1 DEF About
    <3>3. \A r \in due[l] : r \in reviews /\ booking[r] \in BookingsOf(event[l])
      BY <3>1 DEF IInv, Reviews, Lists, BookingsOf, TypeOK
    <3>4. reply'[l] # 200
      BY <3>1 DEF IInv, Lists
    <3> QED BY <2>2, <3>1, <3>2, <3>3, <3>4 DEF BookingsOf
  <2>5. CASE \E b \in Booking : ListNext(l, b)
    <3>1. PICK b \in Booking : ListNext(l, b)
      BY <2>5
    <3>2. /\ b \in todo[l] /\ pc' = pc /\ reply' = reply /\ due' = due
          /\ todo'[l] = todo[l] \ {b}
          /\ listed'[l] = listed[l] \cup {r \in reviews : booking[r] = b}
      BY <3>1 DEF ListNext, IInv, TypeOK
    <3>3. About(l)' \subseteq About(l)
      BY <1>1, <3>2 DEF About
    <3> QED BY <2>2, <3>2, <3>3 DEF IInv, Lists
  <2>6. CASE ListEnd(l)
    <3>1. pc[l] = "listing" /\ pc'[l] = "done" /\ todo[l] = {} /\ UNCHANGED lists
      BY <2>6 DEF ListEnd, Answer, IInv, TypeOK, Req
    <3>2. About(l)' = About(l)
      BY <1>1, <3>1 DEF About, lists
    <3> QED BY <2>2, <3>1, <3>2 DEF IInv, Lists, lists
  <2> QED BY <2>3, <2>4, <2>5, <2>6
<1> QED BY <1>3, <1>4, <1>5 DEF IInv

----------------------------------------------------------------------------

LEMMA StepInv == IInv /\ [Next]_vars => IInv'
<1> SUFFICES ASSUME IInv, [Next]_vars PROVE IInv'
  OBVIOUS
<1>t. TypeOK'
  BY StepType DEF IInv
<1>1. ASSUME NEW b \in Booking, Book(b) \/ \E s \in {"PROCESSED", "FAILED"} : Settle(b, s) PROVE IInv'
  <2>1. /\ HasWorker /\ UNCHANGED <<workers, reviews, booking, pc, reply, lists>>
        /\ \A c \in Booking : status[c] # None => status'[c] # None
    BY <1>1, ReviewAssumption DEF Book, Settle, IInv, TypeOK
  <2> QED BY <1>t, <2>1, OthersStep
<1>2. ASSUME NEW e \in Event, NEW d \in 1..(MaxTime + 1), Postpone(e, d) PROVE IInv'
  BY <1>t, <1>2, OthersStep DEF Postpone
<1>3. CASE Tick
  <2>1. now' >= now
    BY <1>3, ReviewAssumption DEF Tick, IInv, TypeOK
  <2> QED BY <1>t, <1>3, <2>1, OthersStep DEF Tick
<1>4. ASSUME NEW r \in ReviewReq, NEW b \in Booking, NEW own \in BOOLEAN, ReviewFind(r, b, own) PROVE IInv'
  BY <1>t, <1>4, FindStep
<1>5. ASSUME NEW r \in ReviewReq, ReviewConfirmed(r) \/ ReviewPast(r) \/ ReviewFirst(r) PROVE IInv'
  BY <1>t, <1>5, CheckStep
<1>6. ASSUME NEW r \in ReviewReq, ReviewCreate(r) PROVE IInv'
  BY <1>t, <1>6, CreateStep
<1>7. ASSUME NEW l \in ListReq,
             (\E e \in Event, known \in BOOLEAN : ListFind(l, e, known)) \/ ListBookings(l) \/ (\E b \in Booking : ListNext(l, b)) \/ ListEnd(l)
      PROVE  IInv'
  BY <1>t, <1>7, ListStep
<1>8. CASE UNCHANGED vars
  <2>1. now' >= now
    BY <1>8, ReviewAssumption DEF vars, IInv, TypeOK
  <2> QED BY <1>t, <1>8, <2>1, OthersStep DEF vars
<1> QED BY <1>1, <1>2, <1>3, <1>4, <1>5, <1>6, <1>7, <1>8 DEF Next, Quiescent

LEMMA Invariant == Spec => []IInv
BY InitInv, StepInv, PTL DEF Spec

(***************************************************************************)
(* However many workers look before they write, a booking gets one review  *)
(* (the unique constraint on reviews.booking_id).                          *)
(***************************************************************************)
THEOREM ReviewedOnce == Spec => []OneReviewPerBooking
<1>1. IInv => OneReviewPerBooking
  BY DEF IInv
<1> QED BY <1>1, Invariant, PTL

(***************************************************************************)
(* An answer tells whether there is a review of this request, and a single *)
(* worker never ends in an internal error.                                 *)
(***************************************************************************)
THEOREM RepliesTellTheTruth == Spec => []ReviewRepliesTellTheTruth
<1>1. IInv => ReviewRepliesTellTheTruth
  BY DEF IInv, Reviews, ReviewRepliesTellTheTruth
<1> QED BY <1>1, Invariant, PTL

(***************************************************************************)
(* Lists made statement by statement miss no review that was there.        *)
(***************************************************************************)
THEOREM ListsComplete == Spec => []ListsAreComplete
<1>1. IInv => ListsAreComplete
  <2> SUFFICES ASSUME IInv, NEW l \in ListReq, reply[l] = 200
               PROVE  /\ due[l] \subseteq listed[l] /\ listed[l] \subseteq reviews
                      /\ \A r, s \in listed[l] : EventOf[booking[r]] = EventOf[booking[s]]
    BY DEF ListsAreComplete
  <2>1. todo[l] = {} /\ \A r \in listed[l] : booking[r] \in About(l)
    BY DEF IInv, Lists, About
  <2> QED BY <2>1 DEF IInv, Lists
<1> QED BY <1>1, Invariant, PTL

(***************************************************************************)
(* With a single web worker no check of a review is outdated when its row  *)
(* is written.                                                             *)
(***************************************************************************)
THEOREM Earned == Spec => ReviewsAreEarned
<1> DEFINE Earn == workers = 1 => \A r \in reviews' \ reviews :
                       status'[booking[r]] = "PROCESSED" /\ date'[EventOf[booking[r]]] <= now'
<1>1. IInv /\ [Next]_vars => [Earn]_vars
  <2> SUFFICES ASSUME IInv, Next, workers = 1, NEW r \in reviews' \ reviews
               PROVE  status'[booking[r]] = "PROCESSED" /\ date'[EventOf[booking[r]]] <= now'
    OBVIOUS
  <2>1. ReviewCreate(r) /\ r \in ReviewReq
    BY DEF Next, Book, Settle, Postpone, Tick, ReviewFind, ReviewConfirmed, ReviewPast, ReviewFirst, Check,
           ReviewCreate, ListFind, ListBookings, ListNext, ListEnd, Quiescent, vars
  <2> QED BY <2>1 DEF ReviewCreate, IInv, Looks, Confirmed
<1>2. IInv /\ [Next]_vars => [workers = 1 => \A r \in reviews' \ reviews :
            status'[booking[r]] = "PROCESSED" /\ date'[EventOf[booking[r]]] <= now']_vars
  BY <1>1
<1> QED BY <1>2, Invariant, PTL DEF Spec, ReviewsAreEarned
=============================================================================
