# Verification of the event booking system

TLA+ models of the event booking API (Flask, PostgreSQL, Celery, a mock of
Razorpay), checked with TLC on small instances, and theorems about each of them
and about bookings and payments together, proved with TLAPS for all instances.

Paths without a directory are below `app/`. "Overlap" means that the web tier
handles several requests at a time: gunicorn with more than one worker or
thread, or Flask's threaded development server (`run.py`). `docker-compose.yml`
as it stands starts gunicorn with its default of a single synchronous worker.
Every module of handlers has a constant `WebWorkers`; what holds of one worker
only says so, and section 3 says what becomes of it with two.

## 1. Inventory

| Component | State | Operations | Module |
|---|---|---|---|
| Bookings (`bookings/`) | rows of `bookings`, `payments`; `events.tickets_sold` | `POST /v1/bookings` | `Booking`, `EventBookingSystem` |
| Events (`events/`) | rows of `events` | `POST`, `PATCH`, `DELETE /v1/events`, task `notify_event_update` | `Booking`, `EventBookingSystem` |
| Lists (`events/`, `bookings/`) | the tables they read; `events.date` | `GET /v1/events`, `GET /v1/bookings`; dates on a 12-hour clock | `Catalogue` |
| Payments (`payments/`, `bookings/tasks.py`) | `payments.status`, `gateway_status`, `gateway_payment_id`; the broker's queues; rows of `jobs` | `request_payment`, `trigger_gateway_callback`, `POST /v1/webhooks/razorpay`, `send_booking_confirmation` | `Payment`, `EventBookingSystem` |
| Mock gateway (`payments/mock_controller.py`) | orders and payment ids it handed out | create order, simulate webhook | `Booking`, `Payment`, `GatewayPools` |
| Process pools (`docker-compose.yml`) | busy processes of app, mock and Celery; queues before them; calls waited for | accept, call, answer, time out | `GatewayPools` |
| Users, profiles (`users/`, `organizer_profiles/`) | rows of `users`, `organizer_profiles`; tokens | `POST /v1/users`, `POST /v1/sessions`, `PATCH /v1/organizers/me` | `Registration` |
| Reviews (`reviews/`) | rows of `reviews` | `POST /v1/bookings/<id>/reviews`, `GET /v1/events/<id>/reviews` | `Review` |
| Jobs (`jobs/`) | rows of `jobs` | written by the tasks | `Booking`, `Payment` (in part) |
| Migrations (`migrations/`, at the top) | the schema and its revision | `flask db upgrade`, `downgrade` | `Migrations` |
| Rate limiter (`extensions.py`) | counters in Redis | every request | `Payment` (for webhooks) |
| Guards, signatures, application factory, configuration | - | - | in part, see section 5 |

How they interact:

- **Shared tables.** Handlers and tasks have a database session each and meet
  only in PostgreSQL, at READ COMMITTED. An `UPDATE` locks its row until its
  transaction ends; who waits for the lock evaluates its `WHERE` clause again.
  Unique indexes make an `INSERT` wait for, or fail on, another's row.
- **Calls.** A booking calls the gateway *within its transaction* and waits up
  to ten seconds. The worker calls the mock gateway, which calls the webhook
  receiver, each waiting ten seconds for the next.
- **Messages.** After its commit a handler publishes a task to Celery. Celery
  acknowledges a task before it runs it and no task has a retry, so that a task
  is run at most once.
- **References.** `bookings`, `jobs` refer to `events`, and `payments` to
  `bookings`, by foreign keys without cascades.
- **Schema.** A migration is one transaction and takes table locks, against
  requests that hold theirs until they commit.

What is hard, and what makes each component correct, is listed line by line
under `hazards` in `PROJECT.json`. In short:

- Bookings and events: no oversell under any interleaving; the counter
  `tickets_sold` and the table `bookings`, written by different statements,
  never part; no failure of gateway, database, broker or process leaves half a
  booking; the client is told what happened; a deletion never strands a booking.
- Payments: a booking is settled once and for good; its customer is sent one
  confirmation if, and only if, it was paid; the jobs table tells the truth;
  only what was booked is paid, and only those who paid are told of updates.
- Pools: whoever waits gets an answer or gives up; nobody waits for ever.
- Lists: rows that were there all the time are not missed, none is made up.
- Registration: accounts appear whole, under unique addresses.
- Reviews: one per booking, earned when it is written; lists miss nothing.
- Migrations: the revision tells the schema, the head is what the models say.

## 2. Modules

Each component has a module with its state and actions and, where there is more
to say, a `...Properties` module with what must be true of it; where an instance
needs more than model values, an `MC...` module for TLC; some have an abstract
specification they implement and a `...Proofs` module.

    TicketOffice <= BookingProperties > Booking          BookingProofs
    PaymentLedger <= PaymentProperties > Payment         PaymentProofs
        EventBookingSystem > BookingProperties, PaymentProperties
                                     SystemProofs > BookingProofs
    Directory <= RegistrationProperties > Registration   RegistrationProofs
                 ReviewProperties > Review               ReviewProofs
                                    Catalogue            CatalogueProofs
                                    GatewayPools         GatewayPoolsProofs
                                    Migrations           MigrationsProofs

(`>` extends or instantiates, `<=` is implemented by.)

A handler or task is a small program: `pc` is how far it is, `reply` what it was
answered. A step ends where others can observe or disturb the handler: at a
statement that reads or writes shared rows, at a commit, at an HTTP call, at a
publication. Checks on the request alone belong to the first step. A name that
says what a bug would do (`FitsAnyway`, `RollbackCommits`, ...) and is marked
`Mutant` in its comment is not part of the model: it shows which bug a property
would find. `Quiescent` is enabled when every request of an instance was
answered, so that a deadlock TLC reports is a request that is stuck.

### Booking (with TicketOffice)

| Actions | Code |
|---|---|
| `CreateEvent` | `events/controller.py` 49-59 |
| `BookReject`, `BookLoad` | `bookings/service.py` 24-32, after `bookings/schemas.py` |
| `BookRefuse`, `BookReserve` | 43-51 with `events/repository.py` 59-81 |
| `BookOrder`, `BookGatewayFails` | 53-54 with `payments/gateway_client.py` |
| `BookCommit`, `BookTooDear` | 56-68 |
| `BookEnqueue` | 73-81 |
| `EditReject`, `EditLoad`, `EditCommit`, `EditTooWide`, `EditStale`, `EditEnqueue` | `events/service.py` 61-76, `events/controller.py` 96-116 |
| `NotifyTask` | `events/tasks.py`, up to its job row |
| `DropReject`, `DropLoad`, `DropConflict`, `DropDelete` | `events/service.py` 78-86, `events/repository.py` 44-57 |
| `Crash`, `LoseTask`, `Tick` | a process dies; the clock |

`tx[r]` holds what request `r` has written and not committed; `Commit` moves it
into the tables, `Rollback` and `Crash` drop it. `Locked(e)` says that such an
uncommitted `UPDATE` of the event's row exists; writers of the row wait for it,
readers do not. `seen[r]` is the event as the session of `r` loaded it: the price
of a booking comes from there (SQLAlchemy does not load it again), and a PATCH
writes the columns in which it differs from there. A request names the booking,
payment and order it makes, of which it makes at most one; `qty` and `target` of
it are the columns of that booking. Names, venues and who books are left out.

A statement that fails on a foreign key or a width is an answer 500. Three
numeric edges are modelled: `tickets_sold + quantity` is computed in int4
(`Overflows`), unless the quantity itself needs a bigint; the amount must fit
numeric(10,2) (`BookTooDear`); and capacity and price, which the schemas bound
only from below, must fit their columns (`InWidth`, `EditTooWide`). Texts longer
than their columns end like these and are left out with their columns. A
publication that raises may have reached the broker all the same (`BookEnqueue`,
`EditEnqueue`).

`TicketOffice` is the abstract specification: open events, capacities and sets
of issued tickets, no counter, no transaction, no worker. The refinement maps
the committed rows; tickets are computed from `bookings`, never from the counter.

### Payment (with PaymentLedger)

| Actions | Code |
|---|---|
| `Record`, `Publish` | the end of `bookings/service.py` |
| `RequestStart`, `RequestMark`, `RequestSchedule` | `payments/tasks.py` 10-36 |
| `TriggerStart`, `TriggerCall`, `TriggerReturn`, `TriggerRaise` | 39-66 |
| `Simulate`, `MockDeliver`, `MockReturn` | `payments/mock_controller.py` 70-106 |
| `Redeliver` | a real gateway, which `payments/service.py` 24-27 provides for; also while an earlier delivery is being handled |
| `HookLimit`, `NextHour` | `extensions.py` 13-15: the default limit |
| `HookReject`, `HookIgnore`, `HookLoad`, `HookWrite`, `HookConfirm` | `payments/service.py` 16-52 |
| `SendConfirmation` | `bookings/tasks.py` |
| `Lose...` | a process, the broker or a connection fails |

A delivery of a webhook is a request of its own (`Delivery`: the call of the mock
that made it, and a number), so that two deliveries of one webhook may be handled
at once. The handler reads the status (`HookLoad`), then writes by primary key
(`UpdatePayment`), then publishes (`HookConfirm`); a publication that raises may
have reached the broker all the same. The mock answers 200
whatever the receiver answered it. `Simulate` is a call of `simulate-webhook`
made by hand, for any order and either event; an order whose booking has not
been committed, or was rolled back, has no row (`NoRow`), and its webhook is
answered 400. The limiter counts webhooks per address, and all of them come from
one; the window is emptied at any time (`NextHour`), as time is not measured.

`PaymentLedger` is the abstract specification: PENDING, then CONFIRMED or FAILED
for good, and at most one confirmation, of a CONFIRMED booking.

### EventBookingSystem

`Booking` and `Payment` side by side: `BookAndPay` joins the commit of a booking
with `Record` and its publication with `Publish`; a webhook is taken up by a
worker that no request has (`FreeWorker`); `Notify` and `NotifyLook` are
`notify_event_update` to its end, which reads the payment of one booking after
another. Events are not deleted here and the clock stands still: a deletion
cannot touch an event with bookings (`BookingsAreWhole`), and dates do not
matter to payments. Of the failures `MayLose` lets messages be lost - with
`LoseNotice`, which `missed` remembers, also a notification that runs - while
`MayCrash` is for whole processes, which `booking_race` is about.

### GatewayPools

Calls only, and who waits for whom: the queue of a listening socket (`webq`,
`mockq`), the calls a process is handling (`web`, `mock`, `celery`), and `waits`,
the calls somebody waits for, in the order they were sent. All three time-outs
are ten seconds (`gateway_client.py` 24, `mock_controller.py` 103, `tasks.py`
53), so that calls expire in that order: `TimeOut` takes the first. A request
whose caller gave up is handled all the same. The guards of the actions have names
(`CanAcceptWeb`, ..., `CanEndTrigger`); `InVain` says that calls are waited for and
none of the guards holds, `BothAreExhausted` what the processes are then busy with.

### Catalogue

A list is three statements: `ListStart` finds the organizers of an industry,
`ListCount` counts, `ListPage` takes *any* rows of the size of the page, as there
is no `ORDER BY`. Events, profiles and bookings change in between. `always` and
`ever` keep which of the rows a list asks for were there all the time, or at
some moment; what a list asks for (`Asked`) is said in calendar days, the
`WHERE` clause (`Matching`) compares instants.

### Registration (with Directory)

`RegisterCheck` looks for the address, `RegisterUser` inserts the user,
`RegisterProfile` the profile, `RegisterCommit` commits (`users/service.py`
17-44). An address another *uncommitted* row has (`Claimed`) makes the `INSERT`
wait; one a committed row has (`Taken`) makes it fail (`RegisterDuplicate`). Phone
numbers, company names and the like have no greatest length in the schemas:
`misfit` says which of a request's rows has a value too wide for its column, at
whose `INSERT` it fails, is rolled back and answered 500 (`RegisterTooWide`).
`Directory` is the abstract specification.

### Review

One action per look at the database (`reviews/service.py` 22-40), as bookings
are made, settled and events postponed in between: `Book`, `Settle` and
`Postpone` stand for what `Booking` and `Payment` do to the rows reviews
depend on. A PATCH may move an event that took place into the future, as the code
lets it. `ListFind` (the event, or 404), `ListBookings` and `ListNext` are the
statements of `GET /v1/events/<id>/reviews`.

### Migrations

The five revisions as sequences of statements, each with the facts about tables
it adds or drops. A migration runs those between the revision it found and the
head (`StartUpgrade`) or one step down (`StartDowngrade`), then checks the
revision's row and commits everything (`Commit`). A request is the sequence of
its reads and writes of tables (`Writes`). `Possible` is what PostgreSQL
demands of a statement, `WaitsFor` its table locks, which are kept until
the transaction ends: statements `Conflict` on a table both touch, also by a
foreign key, but for reads of a table that is being indexed or referred to
(`LetsRead`). Requests lock rows and do not wait for each other's tables.
`Deadlocked` is its deadlock detection. `SchemaAt` is what the revisions make of an
empty database, one after another, `ToHead` what is left to the last. `Models` is what the classes of
`model.py` declare. Columns are left out, but for the one that was added later.

## 3. Runs

| Run | Instance | Shows |
|---|---|---|
| `booking_race` | 1 event of 2 seats, 2 organizers; 2 bookings of 0, 1, 2, 4 or 5, a PATCH, a DELETE; 3 workers; clock 0..1; gateway and broker failures, values too wide, crashes | types, counter, reservation, whole bookings, true answers, explained errors, no oversell; implements `TicketOffice`; nobody is stuck |
| `payment` | 1 payment, 1 manual call, 2 deliveries each, which may overlap, 2 workers, 1 webhook an hour, losses, time-outs; fairness | consistent rows, confirmations no more than workers and than captured webhooks taken up, honest jobs; what was not lost or refused is confirmed to its customer or has failed for good |
| `system` | 1 event, 1 booking, 1 PATCH, 1 manual call, 1 worker, 1 webhook an hour, losses, time-outs; fairness | only what is booked is paid, only who paid is told, who paid is told, current prices, every booking ends; implements `PaymentLedger` |
| `pools` | 2 bookings, 2 triggers; 1 process of the app, 1 of the mock, 2 of Celery; fairness | who waits in vain, order of time-outs, every call ends |
| `catalogue` | 2 events, 2 organizers, 2 cities, 2 industries, 2 days with midnight, noon and 11:59 PM; 2 bookings, 2 customers; 1 list, 3 changes | dates, complete and true lists, totals |
| `registration_race` | 3 registrations, 2 addresses, 1 visit, 3 workers, values too wide for either row, crashes; fairness | whole accounts, true answers; implements `Directory`; every registration ends |
| `review` | 3 bookings, 2 events, 2 reviews, 1 list, clock 0..1; 1 worker or 2 | one review a booking, true answers, complete lists; with 1 worker reviews are earned, second ones refused with 400 |
| `migrations` | 2 upgrades, 1 downgrade, 1 request, from each of the 6 revisions, crashes; fairness | revision and schema agree, the head is the models, errors explained, every transaction ends |

Four runs are expected to end with a counterexample. They show where the code
departs from what the repository says of it:

| Run | Said by | What happens |
|---|---|---|
| `booking_delete_fails` | `events/repository.py` 50-51, decision 21 | PATCH, notification, DELETE: the job row's foreign key makes the deletion fail with 500 |
| `payment_unsettled` | `payments/service.py` 24-27 | two overlapping webhooks both read PENDING: a settled payment is settled again |
| `payment_unconfirmed` | decision 17, `exceptions.py` 2-4 | the publication fails, 503; the redelivered webhook is taken for a duplicate, 200 |
| `pools_circular_wait` | `README.md` 36, `payments/mock_controller.py` 5-6 | a booking holds the app's process and waits for the mock, whose process waits for the app to take a webhook: only a time-out ends it |

`payment_unsettled` needs two web workers, the others one. What else depends on
a single worker, or on a constant, is stated with that condition:

- `ImplementsLedger` and `ChargedTheCurrentPrice` fail with `WebWorkers = 2` in
  `system.cfg`: two webhooks settle or confirm a payment twice; the customer is charged the price from before a PATCH.
- `ReviewsAreEarned` and the last part of `ReviewRepliesTellTheTruth` are about
  `workers = 1`. With two the second review is answered 500 (by the unique
  constraint, which does keep it out), and an event may be postponed between the
  check and the review. A second registration with one address is likewise
  answered 500 instead of 400 (`RegisterDuplicate`).
- `EveryPaymentSettles` and `EveryBookingEnds` leave out what was lost or refused
  by the rate limit: no task is retried, the mock takes 429 and 503 for
  delivered, and nothing looks for old PENDING payments. A booking whose worker
  dies between commit and publication is such a one as well.
- `LateIsNotFailed` says what the equal time-outs come to: a webhook that was
  delivered too late leaves a job STARTED for ever, never FAILED.

Sales do not oversell (`NoOversellAtSale`), but `tickets_sold <= capacity` is not
an invariant: a PATCH may set the capacity below what is sold, on which the
remaining capacity is negative, and so neither is claimed. Nothing else does so:
`OverbookedByPatchesOnly` of section 4.

**Bounds.** Every bound is a constant or a definition of an `MC` module.

- *Booking.* An event of two seats with two bookings of one or two tickets has
  every outcome of a race for seats: fits alone, fits together, does not fit; the
  PATCH shrinks below what is sold, grows and reprices, asks for a capacity wider
  than its column, or changes nothing; one of the new events is too dear. With
  a DELETE there are four requests for one row, of which three have a worker: one
  holds the lock, one waits, one has read the row and is not at the lock yet;
  what one more of a kind could do, an earlier one did. `IntMax = 4` and
  `AmountMax = 4` stand for the widths of int4 and numeric(10,2): quantities 4 and
  5 are the largest int4 and a bigint. Dates and the clock are only compared, so
  that before and after are all there is.
- *Payments.* Payments share nothing but workers and the rate limit; the manual
  call makes the second webhook, of either event, early, late or at once;
  `MaxTries = 2` is a webhook and one redelivery, late or overlapping; with a limit
  of 1 the second delivery in an hour is refused, and let through in the next,
  which may begin while the first is being handled.
- *System.* One of each: the interleavings of their parts are in the runs of
  these parts. `Limit = 1` refuses one of two webhooks.
- *Pools.* A circular wait takes one process and one call of each kind; the
  second ones queue behind it, also behind calls that were given up.
- *Catalogue.* Two of everything are one that matches and one that does not;
  queries have each filter alone and together, limit 1 or 2 and offset 0 or 1;
  three changes are a row and two changes of it, or of what it depends on. 12 AM,
  12 PM and 11:59 PM are the edges of `_combine` and of a day.
- *Registration, Review.* Two that race and a bystander; two bookings of one event
  and one of another.
- *Migrations.* Two commands that found the same revision, a third that goes back
  meanwhile, and a request between their statements.

Symmetry is used in runs that check no liveness, on sets whose members the
specification does not tell apart. `TypeOK` of the modules tells the reader the
types; it is checked in `booking_race`, the bounds allow adding it to the other
configurations, and it is proved of every module with a `TypeCorrect` below. The
theorems of section 4 have none of these bounds.

**Fairness.** Nearly everywhere it is one condition: the system does not stand
still for ever while somebody who took something up can go on
(`WF_system(SystemWork)`, `WF_vars(Work)`): a worker runs its handler, the broker
delivers what it has, PostgreSQL grants a free lock and ends a deadlock. As
requests, tasks and deliveries are finitely many and each has finitely many
steps, that lets everybody have a turn; nothing about order or priority is
assumed. In `GatewayPools` clocks run too (`Expire`): the time-outs are the
only thing that ends a circular wait. `Registration` has weak fairness of each
request by itself, which it may: `RegisterUser` is only kept from running by a
transaction that goes on or is rolled back. Nobody is obliged to send a request, crash, lose,
redeliver or give up anything, or to let the limiter's hour pass.

## 4. Proofs

The `...Proofs` modules prove, for any sets of requests, events, payments, calls,
addresses, queries, quantities, patches and migrations, any number of workers,
any widths and limits:

| Theorem | States |
|---|---|
| `BookingProofs!TypeCorrect` | `Spec => []TypeOK` |
| `CounterCorrect` | `Spec => []TicketsMatchBookings` |
| `ReservationsHold` | `Spec => []ReservationHolds` |
| `NoOversell` | `Spec => NoOversellAtSale` |
| `OverbookedByPatchesOnly` | under `Spec` an event gets more tickets than seats only by an `EditCommit` that sets its capacity |
| `WholeBookings` | `Spec => []BookingsAreWhole` |
| `TrueReplies` | `Spec => []RepliesTellTheTruth` |
| `ExplainedErrors` | `Spec => []ServerErrorsExplained` |
| `CurrentPriceCharged` | `Spec => ChargedTheCurrentPrice`, if `WebWorkers = 1` |
| `Refinement` | `Spec => ImplementsTicketOffice` |
| `PaymentProofs!TypeCorrect` | `Spec => []TypeOK` |
| `RowsComeFromOneWebhook` | `Spec => []RowFromOneWebhook` |
| `ConfirmationsBounded` | `Spec => []ConfirmationsAreBounded`: at most `WebWorkers` |
| `TriggerJobsTellTheTruth` | `Spec => []TriggerJobsAreHonest` |
| `SettledOnceForAll` | `Spec => SettledForGood`, if `WebWorkers = 1` |
| `NeverPendingAgain` | `Spec => [][\A p \in Payment : Settled(p) => Settled(p)']_vars`, any number of workers |
| `ConfirmedAtMostOnce` | `Spec => []ConfirmedOnce`, if `WebWorkers = 1` |
| `LedgerImplemented` | `Spec => ImplementsLedger`, if `WebWorkers = 1` |
| `RegistrationProofs!TypeCorrect` | `Spec => []TypeOK` |
| `ProfilesMatch`, `TrueReplies` | `Spec => []OrganizersHaveProfiles`, `Spec => []RegistrationsTellTheTruth` |
| `ProfilesFound` | `Spec => []OrganizersFindTheirProfile` |
| `Refinement` | `Spec => ImplementsDirectory` |
| `ReviewProofs!TypeCorrect` | `Spec => []TypeOK` |
| `ReviewedOnce`, `ListsComplete` | `Spec => []OneReviewPerBooking`, `Spec => []ListsAreComplete` |
| `RepliesTellTheTruth` | `Spec => []ReviewRepliesTellTheTruth` |
| `Earned` | `Spec => ReviewsAreEarned` |
| `CatalogueProofs!TypeCorrect` | `Spec => []TypeOK` |
| `DatesAreMeant`, `TotalsAreTrue` | `Spec => []DateIsMeant`, `Spec => []TotalIsTrue` |
| `ListsMissNothing`, `ListsMakeNothingUp` | `Spec => []NothingIsMissed`, `Spec => []NothingIsMadeUp` |
| `GatewayPoolsProofs!TypeCorrect` | `Spec => []TypeOK` |
| `LateNeverFails` | `Spec => []LateIsNotFailed` |
| `InVainTogether` | `Spec => []InVainIfBothAreExhausted` |
| `EnoughProcesses` | `Spec => []~InVain`, if the app has more processes than there are bookings or the mock more than triggers |
| `MockOutnumbersWorker` | if the mock has more processes than Celery, `InVain` takes a process of the mock that is with a call whose task gave up |
| `MigrationsProofs!TypeCorrect` | `Spec => []TypeOK` |
| `RevisionAndSchema` | `Spec => []RevisionTellsSchema` |
| `HeadAndModels` | `Spec => []HeadIsModels` |
| `ErrorsHaveReasons` | `Spec => ErrorsExplained` |
| `SystemProofs!BookingsCompose`, `PaymentsCompose` | `SystemSpec => Spec` (of `Booking`), `SystemSpec => P!Spec` (of `Payment`) |
| `BookingsStayCorrect` | `SystemSpec => [](TicketsMatchBookings /\ ReservationHolds /\ BookingsAreWhole /\ RepliesTellTheTruth)` |
| `OfficeStaysOpen` | `SystemSpec => ImplementsTicketOffice /\ NoOversellAtSale` |
| `OnlyBookedIsPaid` | `SystemSpec => []PaidIsBooked` |
| `OnlyPaidAreTold` | `SystemSpec => []NotifiedHavePaid`, if `WebWorkers = 1` |
| `LedgerKept`, `CurrentPricePaid` | `SystemSpec => ImplementsLedger`, `SystemSpec => ChargedTheCurrentPrice`, if `WebWorkers = 1` |

Assumptions: the named `ASSUME`s of the modules (requests of different kinds
differ, none is `None`; capacities are positive and prices not negative, as the
schemas see to; bounds are numbers; payments and calls are finitely many, which
counting webhooks needs; so are the rows lists count; there are six revisions,
which are part of the code). `EventBookingSystem` assumes of its payments what
`Payment` does. TLC evaluates them in every run of these modules. `WebWorkers =
1`, where it is assumed, is what `docker-compose.yml` starts;
`payment_unsettled` and section 3 show it is needed.

**Booking.** None of the properties is inductive. That `tickets_sold` counts the
tickets of the bookings survives a commit only if the transaction wrote seats
and booking together, once; that a reservation holds survives a PATCH or DELETE
only because they wait for the row lock; that no booking is stranded needs
that a deleted event, with nothing sold, has no bookings, which is the counter
again. The inductive invariant `IInv` is the conjunction of

- `TypeOK`,
- `Phases`: what each request's transaction, arguments and rows are at each `pc`,
- `Owned`: no request is at an event before the event exists,
- `ReservationHolds`,
- `TicketsFinite` and `TicketsMatchBookings`: an event's tickets are finitely
  many (each is sold by a commit), and the counter is their number,
- that bookings name live events.

It is preserved action by action (`StepInv`, with a lemma for the steps that
leave the rows alone and one for those that change one handler); the other
properties are proved from it, their own induction included. The refinement
needs it too: a `BookCommit` is
`Sell` because the tickets it adds are new and the counter bounds their
cardinality, and `DropDelete` is `Withdraw` because counter zero means no
tickets. Every other step is a stutter, a `Resize` or an `OpenEvent`. More tickets
than seats come about by neither a sale (`SaleStep`) nor a new event
(`NewcomerStep`), and nothing but a PATCH changes a capacity (`CapacityStep`).

**Payment.** A row that fits one webhook does so after the next only if that
webhook was made for the row's order, and delivered: `CallsAreMade` says how the
states of a call of the mock and of the deliveries of its webhook go together (a
handler that loaded a payment handles a made, delivered webhook of a recorded
payment; one that wrote it has a captured one). Confirmations are counted by the
captured webhooks that were answered 200 or 503 (`ConfirmationsCounted`), as a
handler publishes once and then answers. That does not bound them when webhooks
come again and again, overlapping; what does is `WorkersSuffice`: the
confirmations published and the handlers under way for a payment are together
no more than the workers. Nothing is confirmed before it is settled, no handler
gets under way after that, and before it there are at most as many of them as
workers. `JobsFollowTasks` relates the job rows to how far the tasks are. A settled
payment is never PENDING again (`NeverPendingAgain`), however many workers there
are, as its booking records it once, before any webhook finds it (`RecordedOnce`),
and webhooks write PROCESSED or FAILED. With `TypeOK` and `RowFromOneWebhook` these are `IInv`. For
one worker `OneAtATime` is added: at most one webhook is being handled, what its
handler loaded is still not settled, what it wrote is still PROCESSED and not
confirmed. From it every `HookWrite` is `Settle` of the ledger and every
publication of `HookConfirm` is `Confirm`.

**Registration.** The invariant says what a transaction holds at each `pc`, that
nobody's row is committed before its request commits, that no two rows,
committed or not, have one address (which is what the unique index keeps: the
insert is only possible when no committed and no uncommitted row has it),
that what is answered is so, and that tokens name users. A request refused for a
width leaves nothing behind because it is rolled back with what it inserted. A commit then is `EnterCustomer` or
`EnterOrganizer`, every other step a stutter.

**Review.** That a booking is reviewed once is kept by the unique column, for any
number of workers; but why a second review is answered 400 or 500, and that it
was earned, depends on what the handler saw being so still. `Looks` says of a
single worker that what it has seen is so: the booking is confirmed, the event
over, no review there. It is inductive because of `Pool`, by which nobody else
is at work, and because nothing else takes back a confirmation or a review; a
postponement is a PATCH and needs the worker too. `Lists` keeps that a review
that was there when the list began is listed or its booking is still to be
looked at.

**Catalogue.** Lists are about rows that were there *all the time*, or at some
moment, while others change. `Meanwhile` ties that history to the present: what
was there all the time matches now (in calendar days), what matches now is among
what was ever there, and an organizer found at the start who had the industry
then has it or their events have dropped out. The step from `Asked`, in
days, to `Matching`, in instants, needs `Entered` - the instant kept is the one
that was typed in - and that `_combine` maps a day into the bounds of that day
(`DatesAreMeant`), on a 12-hour clock with 12 AM before 1 AM. `Found` bounds the
total that was counted by the sizes of both histories.

**Process pools.** A job says FAILED only if the trigger still waited when the mock
answered 502, and the mock answers 502 only when its own call to the app expired.
Calls expire in the order they were sent, and so the trigger's expires first.
`TriggersFirst` says so for each trigger: its webhook is waited for only behind
its own call in `waits`, or after that expired. This stands on `WaitedForOnce`
(no call is in `waits` twice or after it ended), and on lemmas about `RemoveFirst`
on sequences without repetition (`RemoveFirstKeeps`). `OnTheWay` - what is waited
for is in a queue or with a process - is what makes waiting in vain a circular
wait (`NobodyCanGoOn`): somebody waits for an order, so that the mock, which does
not take it up, has no free process and each of them waits for a webhook; then the
app, which takes up none of these, has none free either, and each waits for an
order; or the other way round. By counting, one process more than there can be
waiting on either side suffices. What a configuration can choose is the number of
processes, not of calls: a call of a trigger is held once and was made by a task
(`MadeOnce`), so that processes of the mock which all wait for a webhook, more
than the worker has, are with the call of at least one task that is over: it gave
up (`MockOutnumbersWorker`). Time-outs can still lead there, as a process goes on with a
call nobody waits for.

**Migrations.** `Leads(facts, s, result)` says that the statements `s` are possible
one after another from the schema `facts` on and end in `result`; it composes
(`LeadsOn`). Each revision leads from the schema before to the schema after it,
and its downgrade back (`UpOne`, `DownOne`, ... `UpAndDownFive`), statement by
statement: a created table is new and what it refers to is there, a dropped one is
referred to by none. So `ToHead` leads from any revision to the last, which is
what the models declare (`ModelsAreFive`), and what a request reads and writes is possible
there and changes no schema. The invariant: what a transaction ran, followed by
what it has yet to run, is the script it started with (`Upgrading`, `Downgrading`,
`Writing`), those not running hold nothing (`Idle`), and the revision tells the
schema. A statement can then be refused only if the schema is not the one of
the revision found, hence only after somebody else's commit. What a sequence of
statements does is defined by a recursive function; facts about it for sequences
of every length need induction, which is obtained from the finite subsets of a set
being well founded under inclusion (`Least`, `Induction`), a theorem of the
library that takes no operator.

Types alone need the locks, since tables with rows must be there, and a request
commits rows into tables that migrations drop. `Exclusive` says that of two
transactions, one of them a migration, none ran a statement that conflicts with
one of the other, which holds as a statement waits and locks are kept to the
end; `Parts`, that requests only read and write rows and migrations only alter
tables. So what a migration commits (`LocksCommit`) altered no table on which
another's reads and writes rest: these stay possible (`UsesStand`), and the tables
with rows are there (`RowsHaveTables`). Together with `IInv` these are `LInv`.

**Bookings and payments together.** Each step of `EventBookingSystem` is a step of
`Booking` or none of its business, and the same for `Payment` (`BookingStep`,
`PaymentStep`), whence the composition implements both parts and no mix of them
breaks what is proved of one. The theorems of `BookingProofs` are cited.
TLAPS cannot cite a theorem of an instantiated module: those of `PaymentProofs`
hold of `P` by the rule of instantiation and `PaymentsCompose`, and what the
proofs below need of them is proved again. Between the parts:
`HandledAreRecorded` (a handler went on only because it found the row of its
order) and `RecordedAreBooked` (a row is there only with its committed booking,
a confirmation only with a row) give `OnlyBookedIsPaid`. For one worker
`OneWebhook`, the counterpart of `OneAtATime`, makes settled rows final, from
which come the ledger and, with `NotificationsAreMeant`, that who was told has
paid and does not lose that status.
`CurrentPriceCharged` needs that with one worker no PATCH runs between the
reading of a price and the commit: the price seen is the price that is.

**Model-checked only:** liveness (`EveryPaymentSettles`, `EveryBookingEnds`,
`ConfirmedAreTold`, `EveryTransactionEnds`, ...), which TLAPS does not prove under
fairness, and that no instance deadlocks. Every invariant and every action
property of the passing runs is proved.

## 5. Not modelled

- Authentication beyond the role in a token: JWT encoding and expiry, the HMAC
  of webhooks, the API key and Basic Auth of the mock. They change no state.
- Columns no property is about: names, venues, phone numbers, bank data.
- Rate limits other than that of the webhook receiver: they refuse a request
  before anything happened.
- Reads that return one row (`GET .../<id>`), wording of answers, logging, the
  index, health and version pages, start-up and configuration.
- Offline migrations, which print SQL, and autogeneration.
- Rows of `jobs` for `send_booking_confirmation`, and the status of those for
  `notify_event_update`: nothing reads them.
- Organizers registered before profiles existed (revision 47571f6050e2): `PATCH
  /v1/organizers/me` answers them 404.

## 6. Plan

Done: the modules and theorems above. What could follow:

1. Payments: whether each of the confirmations `WebWorkers` allows can be reached
   with as many deliveries, so that the bound is the least one.
2. Pools: the least number of processes in terms of both pools together, and
   what follows for calls that somebody still waits for.
3. Migrations: columns, of which now only the one that was added later is told
   apart from its table.
