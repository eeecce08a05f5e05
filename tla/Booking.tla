------------------------------- MODULE Booking -------------------------------
(***************************************************************************)
(* Creating, updating, deleting and booking events: the request handlers   *)
(* of the events and bookings controllers, the services and repositories   *)
(* under them, and the notify_event_update task.                           *)
(*                                                                         *)
(* A handler is a little program whose steps are its database statements,  *)
(* its call of the payment gateway and its publication of a background     *)
(* task; handlers run on WebWorkers workers and interleave between those   *)
(* steps.  The database is PostgreSQL at READ COMMITTED: what a            *)
(* transaction wrote is invisible until it commits, and the row it updated *)
(* stays locked until then.                                                *)
(***************************************************************************)
EXTENDS Integers, FiniteSets

CONSTANTS
    Event,       \* ids of event rows
    Organizer,   \* user ids of organizers
    BookReq,     \* POST /v1/bookings requests; each also names its booking,
                 \* payment and order, of which it creates at most one
    EditReq,     \* PATCH /v1/events/<id> requests
    DropReq,     \* DELETE /v1/events/<id> requests
    Quantity,    \* quantities a customer sends
    NewEvent,    \* the columns of the events organizers create
    Patch,       \* the columns a PATCH carries: functions on part of Column
    WebWorkers,  \* requests the web tier handles at a time
    MaxTime,     \* bound: the clock stops here
    IntMax,      \* largest value of an int4 column
    AmountMax,   \* largest value of a numeric(10,2) column
    MayCrash,    \* whether web workers may die
    MayLose,     \* whether background tasks may be lost
    None

Req == BookReq \cup EditReq \cup DropReq
Column == {"capacity", "price", "date"}
NoPatch == [c \in {} |-> 0]
Replies == {200, 201, 400, 403, 404, 409, 500, 502, 503}

ASSUME RequestAssumption ==
    /\ BookReq \cap EditReq = {} /\ BookReq \cap DropReq = {} /\ EditReq \cap DropReq = {}
    /\ None \notin Event \cup Organizer \cup Replies
    /\ WebWorkers \in Nat \ {0} /\ MayCrash \in BOOLEAN /\ MayLose \in BOOLEAN

\* A quantity is any integer JSON carries; the schemas let positive capacities
\* and non-negative prices through, however large.
ASSUME ColumnAssumption ==
    /\ MaxTime \in Nat /\ IntMax \in Nat \ {0} /\ AmountMax \in Nat
    /\ Quantity \subseteq Int
    /\ NewEvent \subseteq [Column -> Nat]
    /\ \A p \in Patch : DOMAIN p \subseteq Column /\ p \in [DOMAIN p -> Nat]
    /\ \A c \in NewEvent \cup Patch : "capacity" \in DOMAIN c => c["capacity"] > 0

\* Mutant: the amount is not held against the width of its column.
InColumnAlways(x) == TRUE
InColumn(x) == x <= AmountMax

\* PostgreSQL refuses a value wider than its column, and the request is answered
\* 500 (a name, venue or city of too many characters, which are not modelled,
\* ends the same way).
InWidth(c, x) == (c = "capacity" => x <= IntMax) /\ (c = "price" => InColumn(x))

Columns == {c \in [Column -> Nat] : \A k \in Column : InWidth(k, c[k])}
Blank == [c \in Column |-> 0]

VARIABLES
    now,           \* the IST wall clock
    \* committed rows
    live,          \* ids of the rows of table events
    owner,         \* event -> its user_id, None before the row is created
    event,         \* event -> Columns
    tickets_sold,  \* event -> its tickets_sold column
    bookings,      \* rows of table bookings, by the request that made them
    payments,      \* rows of table payments, likewise
    amount,        \* payment -> its amount
    jobs,          \* events some row of table jobs refers to
    \* outside the database
    orders,        \* orders that exist at the gateway
    requested,     \* payments whose request_payment task was published
    notices,       \* PATCHes whose notify_event_update task is waiting
    \* handlers
    pc, reply,     \* how far a request is; the status it was answered with
    target,        \* request -> event_id
    qty,           \* booking request -> quantity
    patch,         \* PATCH -> the columns it sets
    seen,          \* request -> the event as its session loaded it
    tx             \* booking request -> its writes not yet committed

rows == <<live, owner, event, tickets_sold, bookings, payments, amount, jobs>>
outside == <<orders, requested, notices>>
args == <<target, qty, patch, seen>>
handlers == <<pc, reply, target, qty, patch, seen, tx>>
vars == <<now, rows, outside, handlers>>

TypeOK ==
    /\ now \in 0..MaxTime
    /\ live \subseteq Event /\ jobs \subseteq Event
    /\ owner \in [Event -> Organizer \cup {None}]
    /\ event \in [Event -> Columns]
    /\ tickets_sold \in [Event -> Nat]
    /\ bookings \subseteq BookReq /\ payments \subseteq BookReq
    /\ orders \subseteq BookReq /\ requested \subseteq BookReq
    /\ notices \subseteq EditReq
    /\ amount \in [BookReq -> 0..AmountMax]
    /\ pc \in [Req -> {"new", "loaded", "reserved", "ordered", "committed", "done"}]
    /\ reply \in [Req -> Replies \cup {None}]
    /\ target \in [Req -> Event \cup {None}]
    /\ qty \in [BookReq -> Nat]
    /\ patch \in [EditReq -> Patch \cup {NoPatch}]
    /\ seen \in [Req -> Columns]
    /\ tx \in [BookReq -> SUBSET {"seats", "booking", "payment"}]

Init ==
    /\ now = 0
    /\ live = {} /\ bookings = {} /\ payments = {} /\ jobs = {}
    /\ orders = {} /\ requested = {} /\ notices = {}
    /\ owner = [e \in Event |-> None]
    /\ event = [e \in Event |-> Blank]
    /\ tickets_sold = [e \in Event |-> 0]
    /\ amount = [r \in BookReq |-> 0]
    /\ pc = [r \in Req |-> "new"]
    /\ reply = [r \in Req |-> None]
    /\ target = [r \in Req |-> None]
    /\ qty = [r \in BookReq |-> 0]
    /\ patch = [r \in EditReq |-> NoPatch]
    /\ seen = [r \in Req |-> Blank]
    /\ tx = [r \in BookReq |-> {}]

----------------------------------------------------------------------------
(* Workers, answers and transactions.                                      *)

Busy == {r \in Req : pc[r] \notin {"new", "done"}}

HasWorker == Cardinality(Busy) < WebWorkers

\* An uncommitted UPDATE of the event row holds its row lock.
Locked(e) == \E r \in BookReq : target[r] = e /\ "seats" \in tx[r]

Goto(r, label) == pc' = [pc EXCEPT ![r] = label] /\ UNCHANGED reply

Answer(r, status) ==
    /\ pc' = [pc EXCEPT ![r] = "done"]
    /\ reply' = [reply EXCEPT ![r] = status]

\* What `writes` put into the tables when the transaction of r commits.
Commit(r, writes) ==
    /\ tickets_sold' = [tickets_sold EXCEPT ![target[r]] = @ + (IF "seats" \in writes THEN qty[r] ELSE 0)]
    /\ bookings' = bookings \cup {b \in {r} : "booking" \in writes}
    /\ payments' = payments \cup {b \in {r} : "payment" \in writes}
    /\ tx' = [tx EXCEPT ![r] = {}]

\* Mutant: a handler that fails commits what it wrote so far.
RollbackCommits(r) == Commit(r, tx[r]) /\ UNCHANGED <<live, owner, event, amount, jobs>>
\* Mutant: the seats were committed before the booking was written.
RollbackKeepsSeats(r) == Commit(r, tx[r] \ {"booking"}) /\ UNCHANGED <<live, owner, event, amount, jobs>>
Rollback(r) == tx' = [tx EXCEPT ![r] = {}] /\ UNCHANGED rows

----------------------------------------------------------------------------
(* POST /v1/events                                                         *)

\* Columns that do not fit their width are refused, and nothing is created.
CreateEvent(e, o, columns) ==
    /\ HasWorker
    /\ owner[e] = None
    /\ columns["date"] > now /\ columns \in Columns
    /\ live' = live \cup {e}
    /\ owner' = [owner EXCEPT ![e] = o]
    /\ event' = [event EXCEPT ![e] = columns]
    /\ tickets_sold' = [tickets_sold EXCEPT ![e] = 0]
    /\ UNCHANGED <<now, bookings, payments, amount, jobs, outside, handlers>>

----------------------------------------------------------------------------
(* POST /v1/bookings                                                       *)

BookReject(r, e, n) ==
    /\ pc[r] = "new" /\ HasWorker
    /\ n <= 0 \/ e \notin live \/ event[e]["date"] <= now
    /\ Answer(r, 400)
    /\ UNCHANGED <<now, rows, outside, args, tx>>

BookLoad(r, e, n) ==
    /\ pc[r] = "new" /\ HasWorker
    /\ n > 0 /\ e \in live /\ event[e]["date"] > now
    /\ target' = [target EXCEPT ![r] = e]
    /\ qty' = [qty EXCEPT ![r] = n]
    /\ seen' = [seen EXCEPT ![r] = event[e]]
    /\ Goto(r, "loaded")
    /\ UNCHANGED <<now, rows, outside, patch, tx>>

\* Mutant: the UPDATE has no condition on the capacity.
FitsAnyway(e, n) == e \in live
Fits(e, n) == e \in live /\ tickets_sold[e] + n <= event[e]["capacity"]

\* int4 arithmetic in the WHERE clause; a literal beyond int4 is a bigint.
Overflows(e, n) == e \in live /\ n <= IntMax /\ tickets_sold[e] + n > IntMax

BookRefuse(r) ==
    /\ pc[r] = "loaded" /\ r \in BookReq
    /\ ~Fits(target[r], qty[r])
    /\ Answer(r, IF Overflows(target[r], qty[r]) THEN 500 ELSE 400)
    /\ Rollback(r)
    /\ UNCHANGED <<now, outside, args>>

\* The conditional UPDATE waits for the row lock, then looks at the row again;
\* the booking row is flushed into the same transaction.
BookReserve(r) ==
    /\ pc[r] = "loaded" /\ r \in BookReq
    /\ Fits(target[r], qty[r]) /\ ~Locked(target[r])
    /\ tx' = [tx EXCEPT ![r] = {"seats", "booking"}]
    /\ Goto(r, "reserved")
    /\ UNCHANGED <<now, rows, outside, args>>

BookOrder(r) ==
    /\ pc[r] = "reserved"
    /\ orders' = orders \cup {r}
    /\ Goto(r, "ordered")
    /\ UNCHANGED <<now, rows, requested, notices, args, tx>>

\* Unreachable, slow or refusing gateway: the order may exist there all the same.
BookGatewayFails(r) ==
    /\ pc[r] = "reserved"
    /\ orders' \in {orders, orders \cup {r}}
    /\ Answer(r, 502)
    /\ Rollback(r)
    /\ UNCHANGED <<now, requested, notices, args>>

\* Mutant: the price of one ticket, however many there are.
AmountOfOne(r) == seen[r]["price"]

Amount(r) == seen[r]["price"] * qty[r]

BookCommit(r) ==
    /\ pc[r] = "ordered"
    /\ InColumn(Amount(r))
    /\ amount' = [amount EXCEPT ![r] = Amount(r)]
    /\ Commit(r, tx[r] \cup {"payment"})
    /\ Goto(r, "committed")
    /\ UNCHANGED <<now, live, owner, event, jobs, outside, args>>

BookTooDear(r) ==
    /\ pc[r] = "ordered"
    /\ ~InColumn(Amount(r))
    /\ Answer(r, 500)
    /\ Rollback(r)
    /\ UNCHANGED <<now, outside, args>>

\* A publication that fails may have reached the broker all the same.
BookEnqueue(r) ==
    /\ pc[r] = "committed" /\ r \in BookReq
    /\ \/ requested' = requested \cup {r} /\ Answer(r, 201)
       \/ requested' \in {requested, requested \cup {r}} /\ Answer(r, 503)
    /\ UNCHANGED <<now, rows, orders, notices, args, tx>>

----------------------------------------------------------------------------
(* PATCH /v1/events/<id>                                                   *)

Misdated(p) == "date" \in DOMAIN p /\ p["date"] <= now

EditReject(r, e, o, p) ==
    /\ pc[r] = "new" /\ HasWorker
    /\ \/ Misdated(p) /\ Answer(r, 400)
       \/ ~Misdated(p) /\ e \notin live /\ Answer(r, 404)
       \/ ~Misdated(p) /\ e \in live /\ owner[e] # o /\ Answer(r, 403)
    /\ UNCHANGED <<now, rows, outside, args, tx>>

EditLoad(r, e, o, p) ==
    /\ pc[r] = "new" /\ HasWorker
    /\ ~Misdated(p) /\ e \in live /\ owner[e] = o
    /\ target' = [target EXCEPT ![r] = e]
    /\ patch' = [patch EXCEPT ![r] = p]
    /\ seen' = [seen EXCEPT ![r] = event[e]]
    /\ Goto(r, "loaded")
    /\ UNCHANGED <<now, rows, outside, qty, tx>>

\* The UPDATE names the columns that differ from what the session loaded.
Changed(r) == {c \in DOMAIN patch[r] : patch[r][c] # seen[r][c]}

Fitting(r) == \A c \in Changed(r) : InWidth(c, patch[r][c])

EditCommit(r) ==
    /\ pc[r] = "loaded" /\ r \in EditReq /\ Fitting(r)
    /\ Changed(r) # {} => target[r] \in live /\ ~Locked(target[r])
    /\ event' = [event EXCEPT ![target[r]] =
                    [c \in Column |-> IF c \in Changed(r) THEN patch[r][c] ELSE @[c]]]
    /\ Goto(r, "committed")
    /\ UNCHANGED <<now, live, owner, tickets_sold, bookings, payments, amount, jobs, outside, args, tx>>

\* The UPDATE is refused before it looks for its row: DataError.
EditTooWide(r) ==
    /\ pc[r] = "loaded" /\ r \in EditReq /\ ~Fitting(r)
    /\ Answer(r, 500)
    /\ UNCHANGED <<now, rows, outside, args, tx>>

\* The row is gone: StaleDataError.
EditStale(r) ==
    /\ pc[r] = "loaded" /\ r \in EditReq /\ Fitting(r)
    /\ Changed(r) # {} /\ target[r] \notin live
    /\ Answer(r, 500)
    /\ UNCHANGED <<now, rows, outside, args, tx>>

\* The answer carries the reloaded row, which must still be there.
EditEnqueue(r) ==
    /\ pc[r] = "committed" /\ r \in EditReq
    /\ \/ notices' = notices \cup {r} /\ Answer(r, IF target[r] \in live THEN 200 ELSE 500)
       \/ notices' \in {notices, notices \cup {r}} /\ Answer(r, 503)
    /\ UNCHANGED <<now, rows, orders, requested, args, tx>>

\* The task starts with a job row that refers to the event; no such event, no
\* row and no task.  The broker has already forgotten it either way.
NotifyTask(r) ==
    /\ r \in notices
    /\ notices' = notices \ {r}
    /\ jobs' = jobs \cup ({target[r]} \cap live)
    /\ UNCHANGED <<now, live, owner, event, tickets_sold, bookings, payments, amount, orders, requested, handlers>>

----------------------------------------------------------------------------
(* DELETE /v1/events/<id>                                                  *)

DropReject(r, e, o) ==
    /\ pc[r] = "new" /\ HasWorker
    /\ \/ e \notin live /\ Answer(r, 404)
       \/ e \in live /\ owner[e] # o /\ Answer(r, 403)
    /\ UNCHANGED <<now, rows, outside, args, tx>>

DropLoad(r, e, o) ==
    /\ pc[r] = "new" /\ HasWorker
    /\ e \in live /\ owner[e] = o
    /\ target' = [target EXCEPT ![r] = e]
    /\ seen' = [seen EXCEPT ![r] = event[e]]
    /\ Goto(r, "loaded")
    /\ UNCHANGED <<now, rows, outside, qty, patch, tx>>

\* Mutant: the DELETE has no condition on tickets_sold.
UnsoldUnchecked(e) == e \in live

Unsold(e) == e \in live /\ tickets_sold[e] = 0

Referenced(e) == e \in jobs \/ \E b \in bookings : target[b] = e

DropConflict(r) ==
    /\ pc[r] = "loaded" /\ r \in DropReq
    /\ ~Unsold(target[r])
    /\ Answer(r, 409)
    /\ UNCHANGED <<now, rows, outside, args, tx>>

\* The conditional DELETE waits for the row lock, like any write of the row;
\* a foreign key that still refers to the row makes it fail.
DropDelete(r) ==
    /\ pc[r] = "loaded" /\ r \in DropReq
    /\ Unsold(target[r]) /\ ~Locked(target[r])
    /\ \/ ~Referenced(target[r]) /\ live' = live \ {target[r]} /\ Answer(r, 200)
       \/ Referenced(target[r]) /\ live' = live /\ Answer(r, 500)
    /\ UNCHANGED <<now, owner, event, tickets_sold, bookings, payments, amount, jobs, outside, args, tx>>

----------------------------------------------------------------------------
(* Crashes and time.                                                       *)

\* A worker dies: the client gets no answer, PostgreSQL rolls its session back.
Crash(r) ==
    /\ MayCrash /\ r \in Busy
    /\ Goto(r, "done")
    /\ tx' = [b \in BookReq |-> IF b = r THEN {} ELSE tx[b]]
    /\ UNCHANGED <<now, rows, outside, args>>

\* A Celery worker dies: an acknowledged task is not delivered again.
LoseTask(r) ==
    /\ MayLose /\ r \in notices
    /\ notices' = notices \ {r}
    /\ UNCHANGED <<now, rows, orders, requested, handlers>>

Tick ==
    /\ now < MaxTime
    /\ now' = now + 1
    /\ UNCHANGED <<rows, outside, handlers>>

\* Every request of the instance was answered: it is over, not stuck.
Quiescent ==
    /\ \A r \in Req : pc[r] = "done"
    /\ notices = {}
    /\ UNCHANGED vars

----------------------------------------------------------------------------

BookArrive(r) == \E e \in Event, n \in Quantity : BookReject(r, e, n) \/ BookLoad(r, e, n)
EditArrive(r) == \E e \in Event, o \in Organizer, p \in Patch : EditReject(r, e, o, p) \/ EditLoad(r, e, o, p)
DropArrive(r) == \E e \in Event, o \in Organizer : DropReject(r, e, o) \/ DropLoad(r, e, o)

BookStep(r) ==
    \/ BookRefuse(r) \/ BookReserve(r) \/ BookOrder(r) \/ BookGatewayFails(r)
    \/ BookCommit(r) \/ BookTooDear(r) \/ BookEnqueue(r)
EditStep(r) == EditCommit(r) \/ EditTooWide(r) \/ EditStale(r) \/ EditEnqueue(r)
DropStep(r) == DropConflict(r) \/ DropDelete(r)

Next ==
    \/ \E e \in Event, o \in Organizer, columns \in NewEvent : CreateEvent(e, o, columns)
    \/ \E r \in BookReq : BookArrive(r) \/ BookStep(r)
    \/ \E r \in EditReq : EditArrive(r) \/ EditStep(r) \/ NotifyTask(r) \/ LoseTask(r)
    \/ \E r \in DropReq : DropArrive(r) \/ DropStep(r)
    \/ \E r \in Req : Crash(r)
    \/ Tick
    \/ Quiescent

Spec == Init /\ [][Next]_vars
=============================================================================
