---------------------------- MODULE GatewayPools ----------------------------
(***************************************************************************)
(* Who waits for whom.  The app, the mock gateway and the Celery worker    *)
(* each serve with a pool of processes (docker-compose.yml: gunicorn and   *)
(* celery with their defaults).  A booking holds a process of the app      *)
(* while it waits for the mock to create an order; the mock holds one of   *)
(* its own while it waits for the app to take a webhook; the task          *)
(* trigger_gateway_callback holds one while it waits for the mock.         *)
(*                                                                         *)
(* Nothing else is kept of the calls: what they do is in the modules       *)
(* Booking and Payment.                                                    *)
(***************************************************************************)
EXTENDS Naturals, FiniteSets, Sequences, SequencesExt

CONSTANTS
    Booking,        \* bookings clients post
    Trigger,        \* trigger_gateway_callback tasks
    WebWorkers, MockWorkers, CeleryWorkers,
    None

ASSUME PoolsAssumption ==
    /\ WebWorkers \in Nat \ {0} /\ MockWorkers \in Nat \ {0} /\ CeleryWorkers \in Nat \ {0}
    /\ None \notin {201, 502, "STARTED", "SUCCESS", "FAILED"}

Book(b) == <<"POST /v1/bookings", b>>
Order(b) == <<"POST /mock/razorpay/orders", b>>
Simulate(t) == <<"POST /mock/razorpay/simulate-webhook", t>>
Hook(t) == <<"POST /v1/webhooks/razorpay", t>>

Books == {Book(b) : b \in Booking}
Orders == {Order(b) : b \in Booking}
Simulates == {Simulate(t) : t \in Trigger}
Hooks == {Hook(t) : t \in Trigger}

VARIABLES
    webq, mockq,  \* calls that wait to be accepted by the app and the mock
    web, mock,    \* calls a process of theirs is handling
    waits,        \* calls somebody waits for an answer of, in sending order
    answered,     \* calls that were answered
    expired,      \* calls whose caller gave up waiting
    celery,       \* tasks a Celery process is running
    reply,        \* booking -> the status it was answered with
    job           \* task -> the status of its job row

vars == <<webq, mockq, web, mock, waits, answered, expired, celery, reply, job>>

TypeOK ==
    /\ webq \in Seq(Books \cup Hooks) /\ mockq \in Seq(Orders \cup Simulates)
    /\ web \subseteq Books \cup Hooks /\ mock \subseteq Orders \cup Simulates
    /\ Cardinality(web) <= WebWorkers /\ Cardinality(mock) <= MockWorkers
    /\ waits \in Seq(Orders \cup Simulates \cup Hooks)
    /\ answered \subseteq Orders \cup Simulates \cup Hooks
    /\ expired \subseteq Orders \cup Simulates \cup Hooks
    /\ celery \subseteq Trigger /\ Cardinality(celery) <= CeleryWorkers
    /\ reply \in [Booking -> {None, 201, 502}]
    /\ job \in [Trigger -> {None, "STARTED", "SUCCESS", "FAILED"}]

Init ==
    /\ webq = <<>> /\ mockq = <<>> /\ web = {} /\ mock = {}
    /\ waits = <<>> /\ answered = {} /\ expired = {} /\ celery = {}
    /\ reply = [b \in Booking |-> None] /\ job = [t \in Trigger |-> None]

----------------------------------------------------------------------------

\* The listening socket queues a call whether or not a process is free.
CallApp(c) == webq' = Append(webq, c) /\ waits' = Append(waits, c)
CallMock(c) == mockq' = Append(mockq, c) /\ waits' = Append(waits, c)

\* An answer nobody waits for any more is dropped.
AnswerTo(c) == answered' = answered \cup {c} /\ waits' = RemoveFirst(waits, c)

\* Mutant: no call has a time-out.
OldestNever == {}
\* Mutant: the mock gives up sooner than those who call it.
OldestHook == {c \in Range(waits) : c = waits[1] \/ c \in Hooks}
\* All calls are made with timeout=10: they expire in the order they were sent.
Oldest == {c \in Range(waits) : c = waits[1]}

TimeOut(c) ==
    /\ c \in Oldest
    /\ waits' = RemoveFirst(waits, c)
    /\ expired' = expired \cup {c}
    /\ UNCHANGED <<webq, mockq, web, mock, answered, celery, reply, job>>

----------------------------------------------------------------------------
(* The app                                                                 *)

PostBooking(b) ==
    /\ reply[b] = None
    /\ Book(b) \notin web \cup Range(webq)
    /\ webq' = Append(webq, Book(b))
    /\ UNCHANGED <<mockq, web, mock, waits, answered, expired, celery, reply, job>>

CanAcceptWeb == webq # <<>> /\ Cardinality(web) < WebWorkers
AcceptWeb ==
    /\ CanAcceptWeb
    /\ web' = web \cup {Head(webq)}
    /\ webq' = Tail(webq)
    /\ UNCHANGED <<mockq, mock, waits, answered, expired, celery, reply, job>>

CanCreateOrder(b) == Book(b) \in web /\ Order(b) \notin Range(waits) \cup answered \cup expired
CreateOrder(b) ==
    /\ CanCreateOrder(b)
    /\ CallMock(Order(b))
    /\ UNCHANGED <<webq, web, mock, answered, expired, celery, reply, job>>

CanEndBooking(b) == Book(b) \in web /\ Order(b) \in answered \cup expired
EndBooking(b) ==
    /\ CanEndBooking(b)
    /\ \/ Order(b) \in expired /\ reply' = [reply EXCEPT ![b] = 502]
       \/ Order(b) \in answered \ expired /\ reply' = [reply EXCEPT ![b] = 201]
    /\ web' = web \ {Book(b)}
    /\ UNCHANGED <<webq, mockq, mock, waits, answered, expired, celery, job>>

\* The webhook is handled also when the mock has given up on it.
HandleHook(t) ==
    /\ Hook(t) \in web
    /\ web' = web \ {Hook(t)}
    /\ AnswerTo(Hook(t))
    /\ UNCHANGED <<webq, mockq, mock, expired, celery, reply, job>>

----------------------------------------------------------------------------
(* The mock gateway                                                        *)

\* Mutant: the mock lives in the process of the app.
MockIsFreeInApp == Cardinality(web) + Cardinality(mock) < WebWorkers
MockIsFree == Cardinality(mock) < MockWorkers

CanAcceptMock == mockq # <<>> /\ MockIsFree
AcceptMock ==
    /\ CanAcceptMock
    /\ mock' = mock \cup {Head(mockq)}
    /\ mockq' = Tail(mockq)
    /\ UNCHANGED <<webq, web, waits, answered, expired, celery, reply, job>>

MintOrder(b) ==
    /\ Order(b) \in mock
    /\ mock' = mock \ {Order(b)}
    /\ AnswerTo(Order(b))
    /\ UNCHANGED <<webq, mockq, web, expired, celery, reply, job>>

CanDeliver(t) == Simulate(t) \in mock /\ Hook(t) \notin Range(waits) \cup answered \cup expired
DeliverWebhook(t) ==
    /\ CanDeliver(t)
    /\ CallApp(Hook(t))
    /\ UNCHANGED <<mockq, web, mock, answered, expired, celery, reply, job>>

\* 200 when the webhook was answered; the handler's exception is a 500.
CanEndSimulate(t) == Simulate(t) \in mock /\ Hook(t) \in answered \cup expired
EndSimulate(t) ==
    /\ CanEndSimulate(t)
    /\ mock' = mock \ {Simulate(t)}
    /\ AnswerTo(Simulate(t))
    /\ UNCHANGED <<webq, mockq, web, expired, celery, reply, job>>

----------------------------------------------------------------------------
(* trigger_gateway_callback                                                *)

StartTrigger(t) ==
    /\ job[t] = None /\ Cardinality(celery) < CeleryWorkers
    /\ celery' = celery \cup {t}
    /\ job' = [job EXCEPT ![t] = "STARTED"]
    /\ CallMock(Simulate(t))
    /\ UNCHANGED <<webq, web, mock, answered, expired, reply>>

\* A call that expired raises: the job row stays as it is.
CanEndTrigger(t) == t \in celery /\ Simulate(t) \in answered \cup expired
EndTrigger(t) ==
    /\ CanEndTrigger(t)
    /\ \/ Simulate(t) \in expired /\ UNCHANGED job
       \/ /\ Simulate(t) \in answered \ expired
          /\ job' = [job EXCEPT ![t] = IF Hook(t) \in expired THEN "FAILED" ELSE "SUCCESS"]
    /\ celery' = celery \ {t}
    /\ UNCHANGED <<webq, mockq, web, mock, waits, answered, expired, reply>>

\* Everything was posted and published, and nobody has anything left to do.
Over ==
    /\ \A b \in Booking : reply[b] # None
    /\ \A t \in Trigger : job[t] # None
    /\ webq = <<>> /\ mockq = <<>> /\ web = {} /\ mock = {} /\ celery = {}
    /\ UNCHANGED vars

----------------------------------------------------------------------------

\* What brings the calls that were made forward.
Work ==
    \/ AcceptWeb \/ AcceptMock
    \/ \E b \in Booking : CreateOrder(b) \/ EndBooking(b) \/ MintOrder(b)
    \/ \E t \in Trigger :
          HandleHook(t) \/ DeliverWebhook(t) \/ EndSimulate(t) \/ EndTrigger(t)

Expire == \E c \in Range(waits) : TimeOut(c)

Next ==
    \/ Work \/ Expire \/ Over
    \/ \E b \in Booking : PostBooking(b)
    \/ \E t \in Trigger : StartTrigger(t)

\* Processes work and clocks run.
Spec == Init /\ [][Next]_vars /\ WF_vars(Work \/ Expire)

----------------------------------------------------------------------------

(***************************************************************************)
(* Calls are waited for in vain - nobody can work, only a time-out helps - *)
(* only if both pools are exhausted at once: every process of the app has  *)
(* a booking that waits for the mock, and every process of the mock has a  *)
(* webhook that waits for the app.  One process more than bookings in the  *)
(* app, or than triggers in the mock, rules it out.                        *)
(***************************************************************************)
CanWork ==
    \/ CanAcceptWeb \/ CanAcceptMock
    \/ \E b \in Booking : CanCreateOrder(b) \/ CanEndBooking(b) \/ Order(b) \in mock
    \/ \E t \in Trigger :
          Hook(t) \in web \/ CanDeliver(t) \/ CanEndSimulate(t) \/ CanEndTrigger(t)

InVain == waits # <<>> /\ ~CanWork

BothAreExhausted ==
    /\ Cardinality({b \in Booking : Book(b) \in web /\ Order(b) \in Range(mockq)}) = WebWorkers
    /\ Cardinality({t \in Trigger : Simulate(t) \in mock /\ Hook(t) \in Range(webq)}) = MockWorkers

InVainIfBothAreExhausted == InVain => BothAreExhausted

(***************************************************************************)
(* A webhook that was delivered too late never turns up as a FAILED job:   *)
(* the worker's call of the mock expires before the mock's call of the     *)
(* app, so that the task has raised by then and its job stays STARTED      *)
(* (payments/tasks.py 49-66 and mock_controller.py 96-104).                *)
(***************************************************************************)
LateIsNotFailed == \A t \in Trigger : job[t] # "FAILED"

(***************************************************************************)
(* However many wait for each other, every booking is answered and every   *)
(* trigger ends, and every webhook that was sent is handled in the end,    *)
(* also those the mock gave up on.                                         *)
(***************************************************************************)
EveryCallEnds ==
    /\ \A b \in Booking : Book(b) \in Range(webq) ~> reply[b] # None
    /\ \A t \in Trigger : (t \in celery ~> t \notin celery) /\ (Hook(t) \in Range(webq) ~> Hook(t) \in answered)

(***************************************************************************)
(* As documented: the mock is a service of its own because otherwise a     *)
(* single process would be both the caller and the callee (README.md 36,   *)
(* mock_controller.py 1-6): with it, calls are never waited for in vain.   *)
(***************************************************************************)
NeverInVain == ~InVain
=============================================================================
