-------------------------- MODULE PaymentProperties --------------------------
(***************************************************************************)
(* What must be true of the tasks and handlers of module Payment.          *)
(***************************************************************************)
EXTENDS Payment

\* Some delivery of the webhook of call c was made.
Delivered(c) == \E n \in 1..MaxTries : hook[<<c, n>>] # "unsent"

(***************************************************************************)
(* The three columns a webhook writes come from one webhook, delivered for *)
(* this very order, and fit each other - also when handlers overlap.       *)
(***************************************************************************)
RowFromOneWebhook ==
    \A p \in Payment : Recorded(p) =>
        LET id == row[p].gateway_payment_id IN
        \/ row[p] = Row("PENDING", "created", None)
        \/ /\ id # None /\ order[id] = p /\ Delivered(id)
           /\ \/ type[id] = "payment.captured" /\ row[p] = Row("PROCESSED", "captured", id)
              \/ type[id] = "payment.failed" /\ row[p] = Row("FAILED", "failed", id)

(***************************************************************************)
(* The most that overlapping deliveries can do: a booking is confirmed no  *)
(* oftener than there are web workers - only handlers that read PENDING    *)
(* before the first one wrote come through -, and never without a captured *)
(* webhook that some handler took up for it (payments/service.py 24-41).   *)
(***************************************************************************)
ConfirmationsAreBounded ==
    \A p \in Payment :
        /\ confirmed[p] <= WebWorkers
        /\ confirmed[p] <= Cardinality({d \in Delivery :
                Order(d) = p /\ Type(d) = "payment.captured" /\ answer[d] \in {200, 503}})

(***************************************************************************)
(* The audit trail is honest about deliveries: the job of a trigger says   *)
(* SUCCESS only if the receiver answered the webhook (payments/tasks.py    *)
(* 41-66), although worker, mock and receiver may each give up on the next. *)
(***************************************************************************)
TriggerJobsAreHonest ==
    \A p \in Payment : trigger_job[p] = "SUCCESS" => hook[<<p, 1>>] = "answered" /\ answer[<<p, 1>>] # None

(***************************************************************************)
(* PROCESSED and FAILED are terminal (payments/service.py 24-27), whatever *)
(* duplicate or contrary webhooks arrive.                                  *)
(***************************************************************************)
SettledForGood == [][\A p \in Payment : Settled(p) => UNCHANGED row[p]]_vars

(***************************************************************************)
(* The booking confirmation task is not enqueued a second time (same       *)
(* comment, and tests/test_payments.py 75).                                *)
(***************************************************************************)
ConfirmedOnce == \A p \in Payment : confirmed[p] <= 1

(***************************************************************************)
(* Seen through Booking.status and the confirmations, tasks, webhooks and  *)
(* jobs implement the ledger.                                              *)
(***************************************************************************)
Ledger == INSTANCE PaymentLedger WITH
    booking_status <- [p \in Payment |-> BookingStatus(p)],
    confirmations <- confirmed

ImplementsLedger == Ledger!LedgerSpec

(***************************************************************************)
(* A payment whose task was published comes to an end, even if every       *)
(* caller gives up waiting for every answer: its customer is sent a        *)
(* confirmation, or it failed and no handler is left that read it PENDING  *)
(* and could still write - unless a message of it was lost or the rate     *)
(* limit refused its webhook, which nothing makes up for.                  *)
(***************************************************************************)
FailedForGood(p) ==
    /\ row[p].status = "FAILED"
    /\ \A d \in Handling : Order(d) # p

EveryPaymentSettles ==
    \A p \in Payment : request[p] = "queued" ~>
        mailed[p] > 0 \/ FailedForGood(p) \/ p \in lost \/ answer[<<p, 1>>] = 429

(***************************************************************************)
(* As documented: the confirmation "fires on payment success" (decisions.md *)
(* 15, decision 17), and a task that could not be enqueued is loud         *)
(* (exceptions.py 2-4): once every webhook of a PROCESSED payment was      *)
(* acknowledged with 200, its confirmation has been published.             *)
(***************************************************************************)
AcknowledgedMeansConfirmed ==
    \A p \in Payment :
        /\ row[p].status = "PROCESSED"
        /\ \A c \in Call : order[c] = p => \E n \in 1..MaxTries : answer[<<c, n>>] = 200
        /\ \A d \in Delivery : Order(d) = p => hook[d] \in {"unsent", "answered"}
        => confirmed[p] > 0
=============================================================================
