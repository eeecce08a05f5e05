------------------------------- MODULE Review -------------------------------
(***************************************************************************)
(* Reviews: POST /v1/bookings/<id>/reviews, which looks in turn at the     *)
(* booking, its payment, its event and its review before it writes one, and *)
(* GET /v1/events/<id>/reviews, which looks for the event, lists its       *)
(* bookings and asks for the review of each, one statement at a time.      *)
(*                                                                         *)
(* Bookings are made, paid and postponed meanwhile, as modules Booking and *)
(* Payment have it; each statement sees what is committed when it runs.    *)
(***************************************************************************)
EXTENDS Integers, FiniteSets

CONSTANTS
    Booking,
    Event,
    EventOf,     \* booking -> its event
    ReviewReq,   \* review requests; each also names the row it may write
    ListReq,     \* list requests
    WebWorkers,  \* sizes the pool of web workers may have
    MaxTime,     \* bound: the clock stops here
    None

ASSUME ReviewAssumption ==
    /\ EventOf \in [Booking -> Event]
    /\ WebWorkers \subseteq Nat \ {0} /\ MaxTime \in Nat
    /\ None \notin Booking \cup {"PENDING", "PROCESSED", "FAILED"}
    /\ None \notin {200, 201, 400, 404, 500}
    /\ ReviewReq \cap ListReq = {}

VARIABLES
    workers,    \* requests the web tier handles at a time
    now,        \* the IST wall clock
    date,       \* event -> its date
    status,     \* booking -> the status of its payment, None before it is made
    reviews,    \* rows of table reviews
    booking,    \* review request -> booking
    pc, reply,  \* how far a request is; the status it was answered with
    event,      \* list request -> event
    todo,       \* list request -> bookings it has yet to ask about
    listed,     \* list request -> reviews it found
    due         \* list request -> reviews there were when it began

lists == <<event, todo, listed, due>>
vars == <<workers, now, date, status, reviews, booking, pc, reply, lists>>

Req == ReviewReq \cup ListReq

TypeOK ==
    /\ workers \in WebWorkers
    /\ now \in 0..MaxTime
    /\ date \in [Event -> 0..(MaxTime + 1)]
    /\ status \in [Booking -> {None, "PENDING", "PROCESSED", "FAILED"}]
    /\ reviews \subseteq ReviewReq
    /\ booking \in [ReviewReq -> Booking \cup {None}]
    /\ pc \in [Req -> {"new", "found", "confirmed", "past", "checked", "sought", "listing", "done"}]
    /\ reply \in [Req -> {None, 200, 201, 400, 404, 500}]
    /\ event \in [ListReq -> Event \cup {None}]
    /\ todo \in [ListReq -> SUBSET Booking]
    /\ listed \in [ListReq -> SUBSET ReviewReq] /\ due \in [ListReq -> SUBSET ReviewReq]

Init ==
    /\ workers \in WebWorkers
    /\ now = 0
    /\ date \in [Event -> 1..(MaxTime + 1)]
    /\ status = [b \in Booking |-> None]
    /\ reviews = {}
    /\ booking = [r \in ReviewReq |-> None]
    /\ pc = [r \in Req |-> "new"] /\ reply = [r \in Req |-> None]
    /\ event = [l \in ListReq |-> None]
    /\ todo = [l \in ListReq |-> {}]
    /\ listed = [l \in ListReq |-> {}] /\ due = [l \in ListReq |-> {}]

HasWorker == Cardinality({r \in Req : pc[r] \notin {"new", "done"}}) < workers

Answer(r, code) ==
    /\ pc' = [pc EXCEPT ![r] = "done"]
    /\ reply' = [reply EXCEPT ![r] = code]

Goto(r, label) == pc' = [pc EXCEPT ![r] = label] /\ UNCHANGED reply

----------------------------------------------------------------------------
(* What other handlers do to the rows reviews depend on.                   *)

Book(b) ==
    /\ HasWorker
    /\ status[b] = None /\ date[EventOf[b]] > now
    /\ status' = [status EXCEPT ![b] = "PENDING"]
    /\ UNCHANGED <<workers, now, date, reviews, booking, pc, reply, lists>>

\* A webhook; where webhooks overlap a settled payment may be settled again.
Settle(b, s) ==
    /\ HasWorker
    /\ status[b] # None /\ (status[b] = "PENDING" \/ workers > 1)
    /\ status' = [status EXCEPT ![b] = s]
    /\ UNCHANGED <<workers, now, date, reviews, booking, pc, reply, lists>>

\* A PATCH may move any event, also one that took place, into the future.
Postpone(e, d) ==
    /\ HasWorker
    /\ d > now
    /\ date' = [date EXCEPT ![e] = d]
    /\ UNCHANGED <<workers, now, status, reviews, booking, pc, reply, lists>>

Tick ==
    /\ now < MaxTime
    /\ now' = now + 1
    /\ UNCHANGED <<workers, date, status, reviews, booking, pc, reply, lists>>

----------------------------------------------------------------------------
(* POST /v1/bookings/<id>/reviews                                          *)

\* Mutant: an earlier review is not found.
ReviewedNever(b) == FALSE
Reviewed(b) == \E r \in reviews : booking[r] = b

ReviewFind(r, b, own) ==
    /\ pc[r] = "new" /\ HasWorker
    /\ \/ (status[b] = None \/ ~own) /\ Answer(r, 404) /\ UNCHANGED booking
       \/ /\ status[b] # None /\ own
          /\ booking' = [booking EXCEPT ![r] = b]
          /\ Goto(r, "found")
    /\ UNCHANGED <<workers, now, date, status, reviews, lists>>

\* One look at the database: on to the next one if it holds, 400 if not.
Check(r, at, holds, next) ==
    /\ pc[r] = at
    /\ \/ holds /\ Goto(r, next)
       \/ ~holds /\ Answer(r, 400)
    /\ UNCHANGED <<workers, now, date, status, reviews, booking, lists>>

\* Mutant: a booking may be reviewed unless its payment failed.
ConfirmedIfNotFailed(b) == status[b] # "FAILED"
Confirmed(b) == status[b] = "PROCESSED"

ReviewConfirmed(r) == Check(r, "found", Confirmed(booking[r]), "confirmed")

ReviewPast(r) == Check(r, "confirmed", date[EventOf[booking[r]]] <= now, "past")

ReviewFirst(r) == Check(r, "past", ~Reviewed(booking[r]), "checked")

\* Mutant: reviews.booking_id is not unique.
RefusedNever(b) == FALSE
\* The unique constraint on reviews.booking_id.
Refused(b) == \E r \in reviews : booking[r] = b

Unexpected == 500

\* The row is written and committed at once, unless the constraint refuses it.
ReviewCreate(r) ==
    /\ pc[r] = "checked"
    /\ \/ ~Refused(booking[r]) /\ reviews' = reviews \cup {r} /\ Answer(r, 201)
       \/ Refused(booking[r]) /\ reviews' = reviews /\ Answer(r, Unexpected)
    /\ UNCHANGED <<workers, now, date, status, booking, lists>>

----------------------------------------------------------------------------
(* GET /v1/events/<id>/reviews                                             *)

\* Mutant: only confirmed bookings are asked about.
BookingsOfConfirmed(e) == {b \in Booking : EventOf[b] = e /\ status[b] = "PROCESSED"}
BookingsOf(e) == {b \in Booking : EventOf[b] = e /\ status[b] # None}

\* Events do not go away here: those with bookings cannot be deleted.
ListFind(l, e, known) ==
    /\ pc[l] = "new" /\ HasWorker
    /\ \/ ~known /\ Answer(l, 404) /\ UNCHANGED lists
       \/ /\ known
          /\ event' = [event EXCEPT ![l] = e]
          /\ due' = [due EXCEPT ![l] = {r \in reviews : EventOf[booking[r]] = e}]
          /\ Goto(l, "sought")
          /\ UNCHANGED <<todo, listed>>
    /\ UNCHANGED <<workers, now, date, status, reviews, booking>>

ListBookings(l) ==
    /\ pc[l] = "sought"
    /\ todo' = [todo EXCEPT ![l] = BookingsOf(event[l])]
    /\ Goto(l, "listing")
    /\ UNCHANGED <<workers, now, date, status, reviews, booking, event, listed, due>>

ListNext(l, b) ==
    /\ b \in todo[l]
    /\ todo' = [todo EXCEPT ![l] = @ \ {b}]
    /\ listed' = [listed EXCEPT ![l] = @ \cup {r \in reviews : booking[r] = b}]
    /\ UNCHANGED <<workers, now, date, status, reviews, booking, pc, reply, event, due>>

ListEnd(l) ==
    /\ pc[l] = "listing" /\ todo[l] = {}
    /\ Answer(l, 200)
    /\ UNCHANGED <<workers, now, date, status, reviews, booking, lists>>

\* Every request of the instance was answered: it is over, not stuck.
Quiescent == (\A r \in Req : pc[r] = "done") /\ UNCHANGED vars

----------------------------------------------------------------------------

Next ==
    \/ \E b \in Booking : Book(b) \/ \E s \in {"PROCESSED", "FAILED"} : Settle(b, s)
    \/ \E e \in Event, d \in 1..(MaxTime + 1) : Postpone(e, d)
    \/ Tick
    \/ \E r \in ReviewReq, b \in Booking, own \in BOOLEAN : ReviewFind(r, b, own)
    \/ \E r \in ReviewReq : ReviewConfirmed(r) \/ ReviewPast(r) \/ ReviewFirst(r) \/ ReviewCreate(r)
    \/ \E l \in ListReq, e \in Event, known \in BOOLEAN : ListFind(l, e, known)
    \/ \E l \in ListReq : ListBookings(l) \/ ListEnd(l)
    \/ \E l \in ListReq, b \in Booking : ListNext(l, b)
    \/ Quiescent

Spec == Init /\ [][Next]_vars
=============================================================================
