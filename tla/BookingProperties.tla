------------------------- MODULE BookingProperties -------------------------
(***************************************************************************)
(* What must be true of the handlers of module Booking.                    *)
(***************************************************************************)
EXTENDS Booking

\* The tickets of an event according to its committed bookings.
TicketsOf(e) == UNION {{b} \X (1..qty[b]) : b \in {c \in bookings : target[c] = e}}

(***************************************************************************)
(* The counter tickets_sold, kept by a conditional UPDATE, and the bookings *)
(* table, filled by an INSERT, agree at every moment: no crash, gateway    *)
(* failure, overflow or race of handlers counts tickets nobody booked or   *)
(* books tickets nobody counted (bookings/service.py 43-68).               *)
(***************************************************************************)
TicketsMatchBookings == \A e \in Event : tickets_sold[e] = Cardinality(TicketsOf(e))

(***************************************************************************)
(* From the conditional UPDATE to the commit - across the call of the      *)
(* gateway - the seats a handler reserved stay there to be sold: the event *)
(* is not deleted, its capacity not lowered and nobody else reserves       *)
(* (events/repository.py 59-81 with the row lock it leans on).             *)
(***************************************************************************)
ReservationHolds ==
    \A r \in BookReq : "seats" \in tx[r] =>
        /\ target[r] \in live
        /\ tickets_sold[target[r]] + qty[r] <= event[target[r]]["capacity"]
        /\ \A s \in BookReq : "seats" \in tx[s] /\ target[s] = target[r] => s = r

(***************************************************************************)
(* A booking is committed with its payment, its payment with an order the  *)
(* gateway knows, and it names an event that still exists.                 *)
(***************************************************************************)
BookingsAreWhole ==
    /\ bookings = payments /\ payments \subseteq orders
    /\ \A b \in bookings : target[b] \in live

(***************************************************************************)
(* What the customer was told is what happened: 201 means booked and the   *)
(* payment flow started, 503 means booked all the same - the publication   *)
(* that failed may have reached the broker or not -, anything else means   *)
(* nothing of the request is left in the database or the broker.           *)
(***************************************************************************)
RepliesTellTheTruth ==
    \A r \in BookReq :
        /\ reply[r] = 201 => r \in bookings /\ r \in requested
        /\ reply[r] = 503 => r \in bookings
        /\ reply[r] \notin {201, 503, None} => r \notin bookings \cup payments \cup requested

(***************************************************************************)
(* An internal server error has its cause.  A booking's is arithmetic: an   *)
(* amount wider than numeric(10,2), or a quantity that does not add to the *)
(* tickets sold within an int4 (events/repository.py 72-75) - never a lack *)
(* of seats, a deleted event or a race.  A PATCH's is a value wider than   *)
(* its column, or an event deleted under it.  A DELETE's is background     *)
(* jobs that refer to the event: no booking makes a DELETE fail on its     *)
(* foreign key (decisions.md, decision 21).                                *)
(***************************************************************************)
ServerErrorsExplained ==
    /\ \A r \in BookReq : reply[r] = 500 =>
           ~InColumn(Amount(r)) \/ (qty[r] <= IntMax /\ tickets_sold[target[r]] + qty[r] > IntMax)
    /\ \A r \in EditReq : reply[r] = 500 =>
           target[r] \notin live \/ \E c \in DOMAIN patch[r] : ~InWidth(c, patch[r][c])
    /\ \A r \in DropReq : reply[r] = 500 => target[r] \in jobs

(***************************************************************************)
(* A sale never oversells: whenever the tickets of an event increase, the  *)
(* event exists and they are within its capacity as it is then.            *)
(***************************************************************************)
NoOversellAtSale ==
    [][\A e \in Event : tickets_sold'[e] > tickets_sold[e] =>
            e \in live' /\ tickets_sold'[e] <= event'[e]["capacity"]]_vars

(***************************************************************************)
(* Handlers, transactions and locks are invisible: to their customers the  *)
(* events look as if every sale, deletion and change of capacity happened  *)
(* at once (module TicketOffice).                                          *)
(***************************************************************************)
Office == INSTANCE TicketOffice WITH
    Buyer <- BookReq,
    Size <- 1..IntMax,
    Lot <- {n \in Quantity : n > 0},
    open <- live,
    capacity <- [e \in Event |-> event[e]["capacity"]],
    tickets <- [e \in Event |-> TicketsOf(e)]

ImplementsTicketOffice == Office!OfficeSpec

(***************************************************************************)
(* With a single web worker the customer is charged the price the event    *)
(* has at the moment of the sale: the snapshot bookings/service.py 53      *)
(* computes with cannot be outdated.                                       *)
(***************************************************************************)
ChargedTheCurrentPrice ==
    [][\A r \in BookReq : r \in payments' \ payments =>
            amount'[r] = event'[target[r]]["price"] * qty[r]]_vars

(***************************************************************************)
(* As documented: a DELETE by the organizer deletes, or finds bookings     *)
(* (events/repository.py 50-51, decision 21): it never fails.              *)
(***************************************************************************)
DeleteAnswers == \A r \in DropReq : reply[r] \in {None, 200, 403, 404, 409}
=============================================================================
