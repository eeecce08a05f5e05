----------------------------- MODULE Migrations -----------------------------
(***************************************************************************)
(* The schema of the database and its five revisions (migrations/versions),*)
(* applied by hand with "flask db upgrade" while the API may be running    *)
(* (README.md 47 and 60-75).  A migration is one transaction: it reads the *)
(* revision, runs the statements of every revision on the way and stamps   *)
(* the new one.  Requests are transactions as well; both take PostgreSQL's *)
(* locks on tables, statement by statement, and hold them to the end.      *)
(*                                                                         *)
(* Of the schema are kept the tables, what they refer to, what is unique   *)
(* or indexed, and the one column that was added later; of the rows,       *)
(* whether a table has any.                                                *)
(***************************************************************************)
EXTENDS Naturals, Sequences, SequencesExt

CONSTANTS
    Upgrade,    \* runs of "flask db upgrade"
    Downgrade,  \* runs of "flask db downgrade", by one revision
    Request,    \* requests of the API that read and write
    FromRevision,  \* revisions the database may be at
    None

ASSUME MigrationsAssumption ==
    /\ Upgrade \cap Downgrade = {} /\ (Upgrade \cup Downgrade) \cap Request = {}
    /\ FromRevision \subseteq 0..5
    /\ None \notin 0..5 /\ None \notin {"committed", "error", "deadlock", "crash"}

VARIABLES
    schema, version,  \* committed: facts about the tables, the revision
    nonempty,         \* committed: tables with rows
    todo,             \* transaction -> statements it has yet to run
    did,              \* transaction -> statements it ran, not committed
    end,              \* transaction -> None, or how it ended
    base              \* transaction -> the revision it found

database == <<schema, version, nonempty>>
vars == <<database, todo, did, end, base>>

Migration == Upgrade \cup Downgrade
Transaction == Migration \cup Request

----------------------------------------------------------------------------
(* Statements.                                                             *)

Table(t) == <<"table", t>>
References(t, u) == <<"references", t, u>>
Unique(t, c) == <<"unique", t, c>>
Index(t, c) == <<"index", t, c>>
Column(t, c) == <<"column", t, c>>

Statement(op, t, facts) == [op |-> op, table |-> t, facts |-> facts]

CreateTable(t, refs, uniques) ==
    Statement("create table", t,
        {Table(t)} \cup {References(t, u) : u \in refs} \cup {Unique(t, c) : c \in uniques})
\* With what it refers to, which PostgreSQL knows.
DropTable(t, refs) == Statement("drop table", t, {Table(t)} \cup {References(t, u) : u \in refs})
CreateIndex(t, c) == Statement("create", t, {Index(t, c)})
DropIndex(t, c) == Statement("drop", t, {Index(t, c)})
CreateUnique(t, c) == Statement("create", t, {Unique(t, c)})
DropUnique(t, c) == Statement("drop", t, {Unique(t, c)})
AddColumn(t, c) == Statement("create", t, {Column(t, c)})
DropColumn(t, c) == Statement("drop", t, {Column(t, c)})
\* An INSERT or UPDATE, or a SELECT, of a table that must have these columns.
Write(t, columns) == Statement("write", t, {Table(t)} \cup {Column(t, c) : c \in columns})
Read(t, columns) == Statement("read", t, {Table(t)} \cup {Column(t, c) : c \in columns})

InitialSchema == <<
    CreateTable("users", {}, {}), CreateUnique("users", "email"),
    CreateTable("events", {"users"}, {}),
    CreateTable("bookings", {"events", "users"}, {}),
    CreateTable("payments", {"bookings"}, {"booking_id"}), CreateUnique("payments", "order_id"),
    CreateTable("jobs", {"events", "payments"}, {}), CreateIndex("jobs", "task_id")>>

\* Mutant: tables are dropped in the order they were created in.
DropInitialInOrder == <<
    DropUnique("users", "email"), DropTable("users", {}), DropTable("events", {"users"}),
    DropTable("bookings", {"events", "users"}),
    DropUnique("payments", "order_id"), DropTable("payments", {"bookings"}),
    DropIndex("jobs", "task_id"), DropTable("jobs", {"events", "payments"})>>
DropInitial == <<
    DropIndex("jobs", "task_id"), DropTable("jobs", {"events", "payments"}),
    DropUnique("payments", "order_id"), DropTable("payments", {"bookings"}),
    DropTable("bookings", {"events", "users"}), DropTable("events", {"users"}),
    DropUnique("users", "email"), DropTable("users", {})>>

AddProfiles == <<CreateTable("organizer_profiles", {"users"}, {"user_id"})>>
DropProfiles == <<DropTable("organizer_profiles", {"users"})>>

\* Mutant: the one-to-one relation is left to the model.
AddReviewsAnyNumber == <<CreateTable("reviews", {"bookings"}, {})>>
AddReviews == <<CreateTable("reviews", {"bookings"}, {"booking_id"})>>
DropReviews == <<DropTable("reviews", {"bookings"})>>

AddIndexes == <<
    CreateIndex("bookings", "event_id"), CreateIndex("bookings", "user_id"),
    CreateIndex("events", "city"), CreateIndex("events", "date"), CreateIndex("events", "user_id")>>
\* Mutant: the indexes of one table are forgotten.
DropIndexesOfEvents == <<
    DropIndex("events", "user_id"), DropIndex("events", "date"), DropIndex("events", "city")>>
DropIndexes == <<
    DropIndex("events", "user_id"), DropIndex("events", "date"), DropIndex("events", "city"),
    DropIndex("bookings", "user_id"), DropIndex("bookings", "event_id")>>

AddGatewayPaymentId == <<
    AddColumn("payments", "gateway_payment_id"), CreateUnique("payments", "gateway_payment_id")>>
DropGatewayPaymentId == <<
    DropUnique("payments", "gateway_payment_id"), DropColumn("payments", "gateway_payment_id")>>

\* bb1666396d4f, 47571f6050e2, 6511ee91ff71, e5d2e8bcb6c9, 84fcdcce4ab8
Up == <<InitialSchema, AddProfiles, AddReviews, AddIndexes, AddGatewayPaymentId>>
Down == <<DropInitial, DropProfiles, DropReviews, DropIndexes, DropGatewayPaymentId>>
HeadRevision == Len(Up)

\* Transactions of the API: a booking, a registration, a review, a webhook.
\* A foreign key reads the table it refers to, here the users of a booking;
\* where its transaction has read or written that table before, it adds nothing.
Writes == {
    <<Read("events", {}), Write("events", {}), Write("bookings", {}), Read("users", {}),
      Write("payments", {"gateway_payment_id"})>>,
    <<Read("users", {}), Write("users", {}), Write("organizer_profiles", {})>>,
    <<Read("bookings", {}), Read("payments", {"gateway_payment_id"}), Read("events", {}),
      Read("reviews", {}), Write("reviews", {})>>,
    <<Read("payments", {"gateway_payment_id"}), Write("payments", {"gateway_payment_id"})>>}

----------------------------------------------------------------------------

AboutTable(f, t) == f[2] = t

Apply(s, facts) ==
    CASE s.op \in {"create table", "create"} -> facts \cup s.facts
      [] s.op = "drop" -> facts \ s.facts
      [] s.op = "drop table" -> {f \in facts : ~AboutTable(f, s.table)}
      [] OTHER -> facts

After(facts, statements) ==
    LET upTo[n \in 0..Len(statements)] == IF n = 0 THEN facts ELSE Apply(statements[n], upTo[n - 1])
    IN upTo[Len(statements)]

\* What a transaction sees: what is committed, and its own statements.
View(t) == After(schema, did[t])

\* PostgreSQL refuses what is there already, refers to or changes what is not
\* there, or is referred to.  The column is nullable, so that rows do not mind.
Possible(s, facts) ==
    CASE s.op = "create table" ->
            /\ Table(s.table) \notin facts
            /\ \A f \in s.facts : f[1] = "references" => Table(f[3]) \in facts
      [] s.op = "create" -> Table(s.table) \in facts /\ s.facts \cap facts = {}
      [] s.op = "drop table" ->
            /\ Table(s.table) \in facts
            /\ ~\E f \in facts : f[1] = "references" /\ f[3] = s.table
      [] OTHER -> s.facts \subseteq facts

\* A foreign key locks the table it refers to as well.
Touches(s) == {s.table} \cup {f[3] : f \in {g \in s.facts : g[1] = "references"}}

\* One may read a table that is being indexed or referred to, but not one
\* that loses an index or a column or gets a column.
LetsRead(s) == s.op \in {"create table", "create"} /\ \A f \in s.facts : f[1] # "column"

Conflict(s, x) ==
    /\ Touches(s) \cap Touches(x) # {}
    /\ ~(s.op = "read" /\ LetsRead(x)) /\ ~(x.op = "read" /\ LetsRead(s))

\* Requests lock rows, and do not wait for each other's tables.
WaitsFor(t, u) ==
    /\ t # u /\ {t, u} \cap Migration # {}
    /\ todo[t] # <<>>
    /\ \E x \in Range(did[u]) : Conflict(Head(todo[t]), x)

Blocked(t) == \E u \in Transaction : WaitsFor(t, u)

\* Mutant: nobody looks for deadlocks.
DeadlockedNever(t) == FALSE
Deadlocked(t) ==
    \E circle \in SUBSET {u \in Transaction : Blocked(u)} :
        /\ t \in circle
        /\ \A u \in circle : \E before, behind \in circle : WaitsFor(u, before) /\ WaitsFor(behind, u)

----------------------------------------------------------------------------

SchemaAt[r \in 0..HeadRevision] == IF r = 0 THEN {} ELSE After(SchemaAt[r - 1], Up[r])
ToHead[r \in 0..HeadRevision] == IF r = HeadRevision THEN <<>> ELSE Up[r + 1] \o ToHead[r + 1]
TablesOf(facts) == {f[2] : f \in facts}

TypeOK ==
    /\ version \in 0..HeadRevision
    /\ nonempty \subseteq TablesOf(schema)
    /\ \A t \in Transaction :
        /\ end[t] \in {None, "committed", "error", "deadlock", "crash"}
        /\ base[t] \in 0..HeadRevision \cup {None}
        /\ end[t] # None => todo[t] = <<>> /\ did[t] = <<>>

Init ==
    /\ version \in FromRevision
    /\ schema = SchemaAt[version]
    /\ nonempty = {}
    /\ todo = [t \in Transaction |-> <<>>] /\ did = [t \in Transaction |-> <<>>]
    /\ end = [t \in Transaction |-> None] /\ base = [t \in Transaction |-> None]

Start(t, statements) ==
    /\ base[t] = None
    /\ base' = [base EXCEPT ![t] = version]
    /\ todo' = [todo EXCEPT ![t] = statements]
    /\ UNCHANGED <<database, did, end>>

\* Each revision on the way, stamped; the last one is what is left at the end.
StartUpgrade(t) == Start(t, ToHead[version])
StartDowngrade(t) == version > 0 /\ Start(t, Down[version])
StartRequest(t) == \E writes \in Writes : Start(t, writes)

Execute(t) ==
    /\ todo[t] # <<>> /\ ~Blocked(t)
    /\ Possible(Head(todo[t]), View(t))
    /\ did' = [did EXCEPT ![t] = Append(@, Head(todo[t]))]
    /\ todo' = [todo EXCEPT ![t] = Tail(@)]
    /\ UNCHANGED <<database, end, base>>

\* The session is rolled back, and the request or the command ends.
RollBack(t, why) ==
    /\ todo' = [todo EXCEPT ![t] = <<>>]
    /\ did' = [did EXCEPT ![t] = <<>>]
    /\ end' = [end EXCEPT ![t] = why]
    /\ UNCHANGED <<database, base>>

Fail(t) ==
    /\ todo[t] # <<>> /\ ~Blocked(t)
    /\ ~Possible(Head(todo[t]), View(t))
    /\ RollBack(t, "error")

\* PostgreSQL ends one of those who wait for each other.
EndDeadlock(t) == Deadlocked(t) /\ RollBack(t, "deadlock")

\* The UPDATE of the revision matches the row it was read from.
Stamped(t) == t \in Migration /\ did[t] # <<>> => version = base[t]

Written(t) == {s.table : s \in {x \in Range(did[t]) : x.op = "write"}}
Dropped(t) == {s.table : s \in {x \in Range(did[t]) : x.op = "drop table"}}

Running(t) == base[t] # None /\ end[t] = None

FailStamp(t) ==
    /\ Running(t) /\ todo[t] = <<>> /\ ~Stamped(t)
    /\ RollBack(t, "error")

Commit(t) ==
    /\ Running(t) /\ todo[t] = <<>> /\ Stamped(t)
    /\ schema' = View(t)
    /\ version' = IF t \in Request \/ did[t] = <<>> THEN version
                  ELSE IF t \in Upgrade THEN HeadRevision ELSE version - 1
    /\ nonempty' = (nonempty \cup Written(t)) \ Dropped(t)
    /\ did' = [did EXCEPT ![t] = <<>>]
    /\ end' = [end EXCEPT ![t] = "committed"]
    /\ UNCHANGED <<todo, base>>

\* The process or its connection dies.
Crash(t) == Running(t) /\ RollBack(t, "crash")

Quiescent ==
    /\ \A t \in Transaction : end[t] # None \/ (t \in Downgrade /\ base[t] = None)
    /\ UNCHANGED vars

Work ==
    \E t \in Transaction : Execute(t) \/ Fail(t) \/ FailStamp(t) \/ EndDeadlock(t) \/ Commit(t)

Next ==
    \/ Work
    \/ \E t \in Upgrade : StartUpgrade(t)
    \/ \E t \in Downgrade : StartDowngrade(t)
    \/ \E t \in Request : StartRequest(t)
    \/ \E t \in Transaction : Crash(t)
    \/ Quiescent

Spec == Init /\ [][Next]_vars /\ WF_vars(Work)

----------------------------------------------------------------------------
(* What the models declare.                                                *)

UserModel == {Table("users"), Unique("users", "email")}
EventModel == {Table("events"), References("events", "users"),
    Index("events", "user_id"), Index("events", "date"), Index("events", "city")}
BookingModel == {Table("bookings"), References("bookings", "users"), References("bookings", "events"),
    Index("bookings", "user_id"), Index("bookings", "event_id")}
PaymentModel == {Table("payments"), References("payments", "bookings"), Unique("payments", "booking_id"),
    Unique("payments", "order_id"), Column("payments", "gateway_payment_id"),
    Unique("payments", "gateway_payment_id")}
JobModel == {Table("jobs"), References("jobs", "events"), References("jobs", "payments"),
    Index("jobs", "task_id")}
ProfileModel == {Table("organizer_profiles"), References("organizer_profiles", "users"),
    Unique("organizer_profiles", "user_id")}
ReviewModel == {Table("reviews"), References("reviews", "bookings"), Unique("reviews", "booking_id")}

Models == UNION {UserModel, EventModel, BookingModel, PaymentModel, JobModel, ProfileModel, ReviewModel}

(***************************************************************************)
(* A database at the head revision has the tables, foreign keys, unique    *)
(* columns and indexes the models declare, on which the other modules rely *)
(* (one payment and one review a booking, one account an address), and no  *)
(* others - also after a way down and up again.                            *)
(***************************************************************************)
HeadIsModels == version = HeadRevision => schema = Models

(***************************************************************************)
(* The revision tells the schema, whatever migrations meet, crash or are   *)
(* undone: a downgrade is the reverse of its upgrade, and nothing of a     *)
(* migration that did not end stays (migrations/env.py 97-107).            *)
(***************************************************************************)
RevisionTellsSchema == schema = SchemaAt[version]

(***************************************************************************)
(* A migration of a database with rows and requests never fails by itself: *)
(* a statement is refused only if another migration was committed since it *)
(* began.  A request's read or write is refused only below the head        *)
(* revision, by tables or a column that are not there yet (README.md 67-71 *)
(* leaves the moment of a migration to the operator).                      *)
(***************************************************************************)
ErrorsExplained ==
    [][\A t \in Transaction : end[t] = None /\ end'[t] = "error" =>
            IF t \in Request THEN version < HeadRevision ELSE version # base[t]]_vars

(***************************************************************************)
(* Migrations and requests that wait for each other's tables - a booking   *)
(* holds its event and wants to insert, revision e5d2e8bcb6c9 indexes the  *)
(* bookings and then the events - end nevertheless, all of them.           *)
(***************************************************************************)
EveryTransactionEnds == \A t \in Transaction : base[t] # None ~> end[t] # None
=============================================================================
