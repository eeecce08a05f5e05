------------------------- MODULE EventBookingSystem -------------------------
(***************************************************************************)
(* Bookings and payments together: the requests of module Booking and the  *)
(* webhooks of module Payment share the web workers, the commit of a       *)
(* booking writes the payment's row, the publication after it starts the   *)
(* payment's tasks, and notify_event_update looks at the bookings' status. *)
(* The clock, which bookings and events are held against when they arrive  *)
(* (module Booking), stands still here, and events are not deleted: an      *)
(* event that is paid for cannot be (BookingsAreWhole).                    *)
(***************************************************************************)
EXTENDS BookingProperties

CONSTANTS
    Manual, Limit, MaxTries, MayTimeOut  \* as in module Payment

VARIABLES
    row, request, request_job, trigger, trigger_job, confirm, confirmed, mailed,
    order, type, mock, hook, answer, window, lost,  \* as in module Payment
    todo,    \* PATCH -> bookings its notification has yet to look at
    told,    \* pairs of a PATCH and a booking whose customer was told of it
    missed   \* PATCHes whose notification was lost (history)

\* A payment is named like its booking.
P == INSTANCE PaymentProperties WITH Payment <- BookReq

ASSUME SystemAssumption == P!PaymentAssumption

ledger == <<row, request, request_job, trigger, trigger_job, confirm, confirmed, mailed,
            order, type, mock, hook, answer, window>>
notifying == <<todo, told, missed>>
system == <<vars, ledger, lost, notifying>>

SystemInit ==
    /\ Init /\ P!Init
    /\ todo = [r \in EditReq |-> {}]
    /\ told = {} /\ missed = {}

----------------------------------------------------------------------------
(* Requests and webhooks, on the same workers.                             *)

FreeWorker == Cardinality(Busy) + Cardinality(P!Handling) < WebWorkers

BookAndPay(r) ==
    /\ \/ BookCommit(r) /\ P!Record(r)
       \/ BookEnqueue(r) /\ P!Publish(r) /\ (r \in requested' <=> request'[r] = "queued")
       \/ BookStep(r) /\ pc[r] \in {"loaded", "reserved", "ordered"} /\ r \notin payments' /\ UNCHANGED <<ledger, lost>>
    /\ UNCHANGED notifying

\* What the payments have no part in.
Serve(A) == A /\ UNCHANGED <<ledger, lost, notifying>>

Arrive ==
    /\ FreeWorker
    /\ \/ \E e \in Event, o \in Organizer, columns \in NewEvent : CreateEvent(e, o, columns)
       \/ \E r \in BookReq : BookArrive(r)
       \/ \E r \in EditReq : EditArrive(r)

\* What the bookings have no part in; a webhook is taken up by a free worker.
Pay(A) ==
    /\ A
    /\ (\E d \in P!Delivery : hook[d] = "sent" /\ hook'[d] \in {"loaded", "answered"}) => FreeWorker
    /\ UNCHANGED <<vars, notifying>>

----------------------------------------------------------------------------
(* notify_event_update                                                     *)

BookingsOf(e) == {b \in bookings : target[b] = e}

Notify(r) ==
    /\ NotifyTask(r)
    /\ todo' = [todo EXCEPT ![r] = BookingsOf(target[r])]
    /\ UNCHANGED <<ledger, lost, told, missed>>

\* Mutant: customers who have yet to pay are told as well.
IsToldUnpaid(b) == P!BookingStatus(b) # "FAILED"
\* Mutant: the status is that of the gateway, "captured".
IsToldCaptured(b) == P!BookingStatus(b) = "captured"
IsTold(b) == P!BookingStatus(b) = "CONFIRMED"

\* The payment of each booking is read by a statement of its own.
NotifyLook(r) ==
    \E b \in todo[r] :
        /\ todo' = [todo EXCEPT ![r] = @ \ {b}]
        /\ told' = told \cup {n \in {<<r, b>>} : IsTold(b)}
        /\ UNCHANGED <<vars, ledger, lost, missed>>

\* Lost with its message, or while it runs.
LoseNotice(r) ==
    /\ \/ LoseTask(r)
       \/ MayLose /\ todo[r] # {} /\ UNCHANGED vars
    /\ todo' = [todo EXCEPT ![r] = {}]
    /\ missed' = missed \cup {r}
    /\ UNCHANGED <<ledger, lost, told>>

SystemQuiescent ==
    /\ \A r \in BookReq \cup EditReq : pc[r] = "done"
    /\ notices = {} /\ \A r \in EditReq : todo[r] = {}
    /\ P!Idle
    /\ UNCHANGED system

----------------------------------------------------------------------------

\* What a process that has taken something up does next.
SystemWork ==
    \/ \E r \in BookReq : BookAndPay(r)
    \/ \E r \in EditReq : Serve(EditStep(r)) \/ Notify(r) \/ NotifyLook(r)
    \/ Pay(P!Work)

SystemNext ==
    \/ Serve(Arrive)
    \/ SystemWork
    \/ Pay(P!Surprise)
    \/ \E r \in EditReq : LoseNotice(r)
    \/ SystemQuiescent

\* All that is assumed is that the system does not stand still while somebody
\* has work: nothing here goes on for ever, so that everybody gets a turn.
SystemSpec == SystemInit /\ [][SystemNext]_system /\ WF_system(SystemWork)

----------------------------------------------------------------------------

(***************************************************************************)
(* A payment that succeeded, and a confirmation, belong to a booking that  *)
(* was committed with this payment: no webhook - early, late or twice -    *)
(* pays for an order whose booking is not there yet or was rolled back.    *)
(***************************************************************************)
PaidIsBooked ==
    \A r \in BookReq : P!Settled(r) \/ confirmed[r] > 0 => r \in bookings /\ r \in payments

(***************************************************************************)
(* Whoever is told of an update of an event has paid for it, for good      *)
(* (events/tasks.py 12-17), although the task reads one payment after      *)
(* another while webhooks settle them.                                     *)
(***************************************************************************)
NotifiedHavePaid ==
    \A n \in told : row[n[2]].status = "PROCESSED" /\ target[n[2]] = target[n[1]]

(***************************************************************************)
(* With one web worker bookings, tasks and webhooks together implement the *)
(* ledger: a payment is settled once and for good, and confirmed at most   *)
(* once, also while bookings and updates take turns with the webhooks.     *)
(***************************************************************************)
ImplementsLedger == P!ImplementsLedger

(***************************************************************************)
(* Every booking request a worker took up is answered, and a customer who  *)
(* was answered 201 hears of the payment in the end: it is confirmed by    *)
(* mail or has failed - unless a message was lost or the rate limit        *)
(* refused the webhook, which nothing makes up for.                        *)
(***************************************************************************)
EveryBookingEnds ==
    \A r \in BookReq : pc[r] = "loaded" ~>
        /\ pc[r] = "done"
        /\ reply[r] = 201 => mailed[r] > 0 \/ row[r].status = "FAILED" \/ r \in lost \/ answer[<<r, 1>>] = 429

(***************************************************************************)
(* Every PATCH a worker took up is answered, and if the answer is 200 the  *)
(* customers whose bookings are CONFIRMED by then are told of the update   *)
(* in the end, unless the task is lost.                                    *)
(***************************************************************************)
ConfirmedAreTold ==
    \A r \in EditReq, b \in BookReq :
        /\ pc[r] \in {"loaded", "committed"} \/ r \in notices
        /\ row[b].status = "PROCESSED" /\ target[b] = target[r]
        ~> pc[r] = "done" /\ (reply[r] = 200 => <<r, b>> \in told \/ r \in missed)
=============================================================================
