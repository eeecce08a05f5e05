------------------------------- MODULE Payment -------------------------------
(***************************************************************************)
(* The life of a payment from the commit of its booking on: the task       *)
(* request_payment, the delayed task trigger_gateway_callback, the mock    *)
(* gateway that mints a payment id and delivers a webhook, the webhook     *)
(* receiver behind its rate limit and the task send_booking_confirmation,  *)
(* with the rows of table jobs in which the tasks record themselves.       *)
(*                                                                         *)
(* A task and a webhook handler are little programs; their steps are their *)
(* commits, their HTTP calls and their publications.  The worker waits for *)
(* the gateway, the gateway for the receiver, each for ten seconds only.   *)
(***************************************************************************)
EXTENDS Integers, FiniteSets

CONSTANTS
    Payment,     \* payments, each named like its order at the gateway
    Manual,      \* calls of simulate-webhook made by hand
    WebWorkers,  \* requests the web tier handles at a time
    Limit,       \* webhooks the receiver lets through in an hour
    MaxTries,    \* bound: deliveries of one webhook (1: delivered once)
    MayLose,     \* whether processes, the broker or connections may fail
    MayTimeOut,  \* whether a caller may give up waiting
    None

\* A call of simulate-webhook mints a payment id and makes a webhook, which are
\* named like the call; that of trigger_gateway_callback like its payment.
Call == Payment \cup Manual

\* A webhook, and the how manieth delivery of it: each is a request of its own.
Delivery == Call \X (1..MaxTries)
EventType == {"payment.captured", "payment.failed"}
PaymentStatus == {"PENDING", "PROCESSED", "FAILED"}
Answers == {200, 400, 429, 503}

ASSUME PaymentAssumption ==
    /\ Payment \cap Manual = {} /\ IsFiniteSet(Payment) /\ IsFiniteSet(Manual)
    /\ None \notin Call /\ None \notin PaymentStatus \cup {"STARTED", "SUCCESS"} /\ None \notin Answers
    /\ WebWorkers \in Nat \ {0} /\ Limit \in Nat \ {0} /\ MaxTries \in Nat \ {0}
    /\ MayLose \in BOOLEAN /\ MayTimeOut \in BOOLEAN

VARIABLES
    row,            \* payment -> its row in table payments
    \* tasks: how far, and the status in their job row
    request, request_job,
    trigger, trigger_job,
    confirm,        \* payment -> send_booking_confirmation tasks waiting
    confirmed,      \* payment -> send_booking_confirmation tasks ever published
    mailed,         \* payment -> confirmations sent
    \* the mock gateway, by call
    order, type,    \* the order and the event it was called with
    mock,           \* how far the call is
    \* the webhook receiver, by delivery
    hook,           \* how far its handler is
    answer,         \* the status it was answered with
    window,         \* webhooks counted in the limiter's current window
    lost            \* payments of which some message was lost (history)

requests == <<request, request_job>>
triggers == <<trigger, trigger_job>>
confirmations == <<confirm, confirmed, mailed>>
gateway == <<order, type, mock>>
receiver == <<hook, answer, window>>
vars == <<row, requests, triggers, confirmations, gateway, receiver, lost>>

Row(s, g, id) == [status |-> s, gateway_status |-> g, gateway_payment_id |-> id]
NoRow == Row(None, None, None)
JobStatus == {None, "STARTED", "SUCCESS", "FAILED"}

TypeOK ==
    /\ row \in [Payment -> {NoRow} \cup [status : PaymentStatus,
                   gateway_status : {"created", "captured", "failed"}, gateway_payment_id : Call \cup {None}]]
    /\ request \in [Payment -> {"none", "booked", "queued", "started", "marked", "over"}]
    /\ trigger \in [Payment -> {"none", "queued", "started", "calling", "over"}]
    /\ request_job \in [Payment -> JobStatus] /\ trigger_job \in [Payment -> JobStatus]
    /\ confirm \in [Payment -> Nat] /\ confirmed \in [Payment -> Nat] /\ mailed \in [Payment -> Nat]
    /\ order \in [Call -> Payment \cup {None}]
    /\ type \in [Call -> EventType \cup {None}]
    /\ mock \in [Call -> {"unused", "called", "waiting", "ok", "error", "lost"}]
    /\ hook \in [Delivery -> {"unsent", "sent", "loaded", "written", "answered", "lost"}]
    /\ answer \in [Delivery -> Answers \cup {None}]
    /\ window \in 0..Limit
    /\ lost \subseteq Payment

Init ==
    /\ row = [p \in Payment |-> NoRow]
    /\ request = [p \in Payment |-> "none"] /\ trigger = [p \in Payment |-> "none"]
    /\ request_job = [p \in Payment |-> None] /\ trigger_job = [p \in Payment |-> None]
    /\ confirm = [p \in Payment |-> 0] /\ confirmed = [p \in Payment |-> 0]
    /\ mailed = [p \in Payment |-> 0]
    /\ order = [c \in Call |-> None] /\ type = [c \in Call |-> None]
    /\ mock = [c \in Call |-> "unused"]
    /\ hook = [d \in Delivery |-> "unsent"] /\ answer = [d \in Delivery |-> None]
    /\ window = 0
    /\ lost = {}

\* Mutant: a webhook for an order that has no row makes one.
RecordedUnchecked(p) == TRUE
Recorded(p) == row[p] # NoRow

\* Mutant: webhooks for a payment that was captured are handled again.
SettledIfFailed(p) == row[p].status = "FAILED"
\* Mutant: a payment that failed may still be captured.
SettledIfProcessed(p) == row[p].status = "PROCESSED"
Settled(p) == row[p].status \in {"PROCESSED", "FAILED"}

\* Booking.status is derived from the payment's.
BookingStatus(p) ==
    CASE row[p].status = "PROCESSED" -> "CONFIRMED"
      [] row[p].status = "FAILED" -> "FAILED"
      [] OTHER -> "PENDING"

Lose(p) == MayLose /\ lost' = lost \cup {p}

----------------------------------------------------------------------------
(* The end of create_booking, and request_payment.                         *)

Request(p, from, to) ==
    /\ request[p] = from
    /\ request' = [request EXCEPT ![p] = to]

\* The commit of the booking; an order whose booking is rolled back has no row.
Record(p) ==
    /\ Request(p, "none", "booked")
    /\ row' = [row EXCEPT ![p] = Row("PENDING", "created", None)]
    /\ UNCHANGED <<request_job, triggers, confirmations, gateway, receiver, lost>>

\* Published - whatever the client is told -, or not.
Publish(p) ==
    /\ \/ Request(p, "booked", "queued") /\ UNCHANGED lost
       \/ Request(p, "booked", "over") /\ Lose(p)
    /\ UNCHANGED <<row, request_job, triggers, confirmations, gateway, receiver>>

RequestStart(p) ==
    /\ Request(p, "queued", "started")
    /\ request_job' = [request_job EXCEPT ![p] = "STARTED"]
    /\ UNCHANGED <<row, triggers, confirmations, gateway, receiver, lost>>

\* Mutant: the task returns once its job is marked.
AfterMarkOver == "over"
AfterMark == "marked"

RequestMark(p) ==
    /\ Request(p, "started", AfterMark)
    /\ request_job' = [request_job EXCEPT ![p] = "SUCCESS"]
    /\ UNCHANGED <<row, triggers, confirmations, gateway, receiver, lost>>

\* apply_async comes after the job was marked SUCCESS, and may still fail.
RequestSchedule(p) ==
    /\ Request(p, "marked", "over")
    /\ \/ trigger' = [trigger EXCEPT ![p] = "queued"] /\ UNCHANGED lost
       \/ Lose(p) /\ UNCHANGED trigger
    /\ UNCHANGED <<row, request_job, trigger_job, confirmations, gateway, receiver>>

----------------------------------------------------------------------------
(* trigger_gateway_callback and the mock gateway                           *)

TriggerStart(p) ==
    /\ trigger[p] = "queued"
    /\ trigger' = [trigger EXCEPT ![p] = "started"]
    /\ trigger_job' = [trigger_job EXCEPT ![p] = "STARTED"]
    /\ UNCHANGED <<row, requests, confirmations, gateway, receiver, lost>>

CallMock(c, o, t) ==
    /\ mock[c] = "unused"
    /\ mock' = [mock EXCEPT ![c] = "called"]
    /\ order' = [order EXCEPT ![c] = o]
    /\ type' = [type EXCEPT ![c] = t]

TriggerCall(p) ==
    /\ trigger[p] = "started"
    /\ trigger' = [trigger EXCEPT ![p] = "calling"]
    /\ CallMock(p, p, "payment.captured")
    /\ UNCHANGED <<row, requests, trigger_job, confirmations, receiver, lost>>

\* Mutant: any answer of the mock is a success.
JobOutcomeTrusting(c) == "SUCCESS"
JobOutcome(c) == IF mock[c] = "ok" THEN "SUCCESS" ELSE "FAILED"

TriggerReturn(p) ==
    /\ trigger[p] = "calling"
    /\ mock[p] \in {"ok", "error"}
    /\ trigger' = [trigger EXCEPT ![p] = "over"]
    /\ trigger_job' = [trigger_job EXCEPT ![p] = JobOutcome(p)]
    /\ UNCHANGED <<row, requests, confirmations, gateway, receiver, lost>>

\* requests raises: the task ends there, its job row says STARTED for ever.
TriggerRaise(p) ==
    /\ trigger[p] = "calling"
    /\ MayTimeOut \/ mock[p] = "lost"
    /\ trigger' = [trigger EXCEPT ![p] = "over"]
    /\ UNCHANGED <<row, requests, trigger_job, confirmations, gateway, receiver, lost>>

\* Whoever has the API key may call the mock, for any order and either event.
Simulate(c, o, t) ==
    /\ CallMock(c, o, t)
    /\ UNCHANGED <<row, requests, triggers, confirmations, receiver, lost>>

Deliver(d) ==
    /\ hook' = [hook EXCEPT ![d] = "sent"]
    /\ UNCHANGED <<answer, window>>

MockDeliver(c) ==
    /\ mock[c] = "called"
    /\ mock' = [mock EXCEPT ![c] = "waiting"]
    /\ Deliver(<<c, 1>>)
    /\ UNCHANGED <<row, requests, triggers, confirmations, order, type, lost>>

\* The mock answers 200 whatever the receiver answered it, 500 when it raised.
MockReturn(c) ==
    /\ mock[c] = "waiting"
    /\ \/ hook[<<c, 1>>] = "answered" /\ mock' = [mock EXCEPT ![c] = "ok"]
       \/ (MayTimeOut \/ hook[<<c, 1>>] = "lost") /\ mock' = [mock EXCEPT ![c] = "error"]
    /\ UNCHANGED <<row, requests, triggers, confirmations, order, type, receiver, lost>>

\* A real gateway delivers again what was not answered with 2xx, and what it
\* gave up waiting for: the handler of the last delivery may still run.
Redeliver(c, n) ==
    /\ n < MaxTries
    /\ mock[c] # "waiting" /\ hook[<<c, n>>] # "unsent" /\ hook[<<c, n + 1>>] = "unsent"
    /\ \/ MayTimeOut \/ hook[<<c, n>>] = "lost"
       \/ hook[<<c, n>>] = "answered" /\ answer[<<c, n>>] # 200
    /\ Deliver(<<c, n + 1>>)
    /\ UNCHANGED <<row, requests, triggers, confirmations, gateway, lost>>

----------------------------------------------------------------------------
(* POST /v1/webhooks/razorpay                                              *)

\* What a delivery carries.
Order(d) == order[d[1]]
Type(d) == type[d[1]]

Handling == {d \in Delivery : hook[d] \in {"loaded", "written"}}

HasWorker == Cardinality(Handling) < WebWorkers

\* The limiter counts every webhook, as all of them come from one address.
Admit(d) ==
    /\ hook[d] = "sent" /\ HasWorker
    /\ window < Limit
    /\ window' = window + 1

AnswerHook(d, code) ==
    /\ hook' = [hook EXCEPT ![d] = "answered"]
    /\ answer' = [answer EXCEPT ![d] = code]

HookLimit(d) ==
    /\ hook[d] = "sent" /\ HasWorker
    /\ window = Limit
    /\ AnswerHook(d, 429)
    /\ UNCHANGED <<row, requests, triggers, confirmations, gateway, window, lost>>

HookReject(d) ==
    /\ Admit(d)
    /\ ~Recorded(Order(d))
    /\ AnswerHook(d, 400)
    /\ UNCHANGED <<row, requests, triggers, confirmations, gateway, lost>>

\* A webhook for a settled payment is acknowledged and changes nothing.
HookIgnore(d) ==
    /\ Admit(d)
    /\ Recorded(Order(d)) /\ Settled(Order(d))
    /\ AnswerHook(d, 200)
    /\ UNCHANGED <<row, requests, triggers, confirmations, gateway, lost>>

HookLoad(d) ==
    /\ Admit(d)
    /\ Recorded(Order(d)) /\ ~Settled(Order(d))
    /\ hook' = [hook EXCEPT ![d] = "loaded"]
    /\ UNCHANGED <<row, requests, triggers, confirmations, gateway, answer, lost>>

EventToStatus(t) ==
    IF t = "payment.captured" THEN <<"PROCESSED", "captured">> ELSE <<"FAILED", "failed">>

\* Mutant: the first payment id stays.
UpdatePaymentKeepsId(p, s, g, id) ==
    row' = [row EXCEPT ![p] = Row(s, g, IF @.gateway_payment_id = None THEN id ELSE @.gateway_payment_id)]
\* An UPDATE by primary key: the status is not looked at again.
UpdatePayment(p, s, g, id) == row' = [row EXCEPT ![p] = Row(s, g, id)]

Confirms(t) == t = "payment.captured"

HookWrite(d) ==
    /\ hook[d] = "loaded"
    /\ UpdatePayment(Order(d), EventToStatus(Type(d))[1], EventToStatus(Type(d))[2], d[1])
    /\ \/ Confirms(Type(d)) /\ hook' = [hook EXCEPT ![d] = "written"] /\ UNCHANGED answer
       \/ ~Confirms(Type(d)) /\ AnswerHook(d, 200)
    /\ UNCHANGED <<requests, triggers, confirmations, gateway, window, lost>>

\* A publication that fails may have reached the broker all the same.
HookConfirm(d) ==
    /\ hook[d] = "written"
    /\ \/ /\ confirm' = [confirm EXCEPT ![Order(d)] = @ + 1]
          /\ confirmed' = [confirmed EXCEPT ![Order(d)] = @ + 1]
          /\ \/ AnswerHook(d, 200)
             \/ MayLose /\ AnswerHook(d, 503)
          /\ UNCHANGED lost
       \/ Lose(Order(d)) /\ AnswerHook(d, 503) /\ UNCHANGED <<confirm, confirmed>>
    /\ UNCHANGED <<row, requests, triggers, mailed, gateway, window>>

----------------------------------------------------------------------------
(* send_booking_confirmation                                               *)

SendConfirmation(p) ==
    /\ confirm[p] > 0
    /\ confirm' = [confirm EXCEPT ![p] = @ - 1]
    /\ mailed' = [mailed EXCEPT ![p] = @ + 1]
    /\ UNCHANGED <<row, requests, triggers, confirmed, gateway, receiver, lost>>

----------------------------------------------------------------------------
(* Time and failures.  Celery acknowledges a task before it runs it, so    *)
(* that a task lost with its worker is not run again.                      *)

NextHour ==
    /\ window > 0
    /\ window' = 0
    /\ UNCHANGED <<row, requests, triggers, confirmations, gateway, hook, answer, lost>>

LoseRequest(p) ==
    /\ \E at \in {"queued", "started", "marked"} : Request(p, at, "over")
    /\ Lose(p)
    /\ UNCHANGED <<row, request_job, triggers, confirmations, gateway, receiver>>

LoseTrigger(p) ==
    /\ trigger[p] \in {"queued", "started", "calling"} /\ Lose(p)
    /\ trigger' = [trigger EXCEPT ![p] = "over"]
    /\ UNCHANGED <<row, requests, trigger_job, confirmations, gateway, receiver>>

LoseConfirmation(p) ==
    /\ confirm[p] > 0 /\ Lose(p)
    /\ confirm' = [confirm EXCEPT ![p] = @ - 1]
    /\ UNCHANGED <<row, requests, triggers, confirmed, mailed, gateway, receiver>>

LoseCall(c) ==
    /\ mock[c] \in {"called", "waiting"} /\ Lose(order[c])
    /\ mock' = [mock EXCEPT ![c] = "lost"]
    /\ UNCHANGED <<row, requests, triggers, confirmations, order, type, receiver>>

LoseHook(d) ==
    /\ hook[d] \in {"sent", "loaded", "written"} /\ Lose(Order(d))
    /\ hook' = [hook EXCEPT ![d] = "lost"]
    /\ UNCHANGED <<row, requests, triggers, confirmations, gateway, answer, window>>

\* Every task ran or was lost, every webhook was answered or was lost.
Idle ==
    /\ \A p \in Payment : request[p] \in {"none", "over"} /\ trigger[p] \in {"none", "over"} /\ confirm[p] = 0
    /\ \A c \in Call : mock[c] \notin {"called", "waiting"}
    /\ \A d \in Delivery : hook[d] \in {"unsent", "answered", "lost"}

Quiescent == Idle /\ UNCHANGED vars

----------------------------------------------------------------------------

RequestStep(p) == RequestStart(p) \/ RequestMark(p) \/ RequestSchedule(p)
TriggerStep(p) ==
    TriggerStart(p) \/ TriggerCall(p) \/ TriggerReturn(p) \/ TriggerRaise(p)
MockStep(c) == MockDeliver(c) \/ MockReturn(c)
HookStep(d) ==
    HookLimit(d) \/ HookReject(d) \/ HookIgnore(d) \/ HookLoad(d) \/ HookWrite(d) \/ HookConfirm(d)

\* What a process that has taken something up does next.
Work ==
    \/ \E p \in Payment : RequestStep(p) \/ TriggerStep(p) \/ SendConfirmation(p)
    \/ \E c \in Call : MockStep(c)
    \/ \E d \in Delivery : HookStep(d)

\* What nobody has to do, and what should not happen.
Surprise ==
    \/ \E c \in Manual, o \in Payment, t \in EventType : Simulate(c, o, t)
    \/ \E c \in Call, n \in 1..MaxTries : Redeliver(c, n)
    \/ \E c \in Call : LoseCall(c)
    \/ \E d \in Delivery : LoseHook(d)
    \/ \E p \in Payment : LoseRequest(p) \/ LoseTrigger(p) \/ LoseConfirmation(p)
    \/ NextHour

Next == Work \/ Surprise \/ Quiescent \/ \E p \in Payment : Record(p) \/ Publish(p)

Spec == Init /\ [][Next]_vars

\* Workers run what they took up, the broker delivers, a queued request is
\* accepted, a handler that committed goes on to publish.  The system must not
\* stand still while somebody has work; as nothing here goes on for ever,
\* everybody gets a turn.
Fairness == WF_vars(Work \/ \E p \in Payment : Publish(p))

FairSpec == Spec /\ Fairness
=============================================================================
