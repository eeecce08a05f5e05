----------------------------- MODULE Catalogue -----------------------------
(***************************************************************************)
(* The lists: GET /v1/events with its filters and GET /v1/bookings.  A list *)
(* is several statements - the organizers of an industry, the number of    *)
(* rows, one page of them - and each sees what is committed when it runs:  *)
(* events are created, updated and deleted in between, profiles updated,   *)
(* tickets booked.  Nothing orders the rows; a page is any of them.        *)
(*                                                                         *)
(* Dates are what an organizer enters on a 12-hour clock; an instant is a  *)
(* number of minutes, and the last microsecond of a day, at which no event *)
(* takes place, counts as its last minute.                                 *)
(***************************************************************************)
EXTENDS Integers, FiniteSets, FiniteSetsExt

CONSTANTS
    Event, Organizer, City, Industry,
    Day,          \* calendar dates organizers enter
    Time,         \* times of day they enter: <<hour, minute, meridiem>>
    Booking, Customer,
    ListReq,      \* list requests
    Query,        \* what they ask for
    MaxChanges,   \* bound: events, profiles and bookings changed meanwhile
    None

Meridiem == {"AM", "PM"}
Filters == [city : City \cup {None}, date_from : Int \cup {None}, date_to : Int \cup {None},
            industry : Industry \cup {None}]

ASSUME CatalogueAssumption ==
    /\ Day \subseteq Nat /\ Time \subseteq (1..12) \X (0..59) \X Meridiem
    /\ \A q \in Query :
        /\ q.filter \in Filters \cup Customer
        /\ q.limit \in 1..100 /\ q.offset \in Nat
    /\ Event \cap Booking = {} /\ IsFiniteSet(Event) /\ IsFiniteSet(Booking)
    /\ MaxChanges \in Nat

VARIABLES
    events,    \* event -> its row
    industry,  \* organizer -> the industry in its profile
    bookings,  \* booking -> its customer
    pc, ask,   \* list request: how far it is, its query
    user_ids,  \* the organizers its first statement found
    total,     \* the number of rows its second statement found
    page,      \* the rows, by id, its third statement found
    \* history
    always,    \* rows it asks for that were there since it began
    ever,      \* rows it asks for, whatever the industry, that were there at some moment
    changes

tables == <<events, industry, bookings>>
lists == <<pc, ask, user_ids, total, page>>
history == <<always, ever, changes>>
vars == <<tables, lists, history>>

MinutesOfDay == 24 * 60

\* Mutant: noon and midnight are the twelfth hour.
CombineNaively(d, t) == d * MinutesOfDay + (t[1] + (IF t[3] = "PM" THEN 12 ELSE 0)) * 60 + t[2]
Combine(d, t) == d * MinutesOfDay + ((t[1] % 12) + (IF t[3] = "PM" THEN 12 ELSE 0)) * 60 + t[2]

EventRow == [user : Organizer, city : City, day : Day, time : Time, date : Nat]
NewRow(u, c, d, t) == [user |-> u, city |-> c, day |-> d, time |-> t, date |-> Combine(d, t)]

Listed == {e \in Event : events[e] # None}
Rows(ids) == {<<i, IF i \in Event THEN events[i] ELSE bookings[i]>> : i \in ids}
Ids(l) == {r[1] : r \in page[l]}

TypeOK ==
    /\ events \in [Event -> EventRow \cup {None}]
    /\ industry \in [Organizer -> Industry]
    /\ bookings \in [Booking -> Customer \cup {None}]
    /\ pc \in [ListReq -> {"new", "asked", "counted", "done"}]
    /\ ask \in [ListReq -> Query \cup {None}]
    /\ user_ids \in [ListReq -> SUBSET Organizer]
    /\ total \in [ListReq -> 0..Cardinality(Event \cup Booking)]
    /\ page \in [ListReq -> SUBSET ((Event \X EventRow) \cup (Booking \X Customer))]
    /\ always \in [ListReq -> SUBSET (Event \cup Booking)]
    /\ ever \in [ListReq -> SUBSET (Event \cup Booking)]
    /\ changes \in 0..MaxChanges

Init ==
    /\ events = [e \in Event |-> None]
    /\ industry \in [Organizer -> Industry]
    /\ bookings = [b \in Booking |-> None]
    /\ pc = [l \in ListReq |-> "new"] /\ ask = [l \in ListReq |-> None]
    /\ user_ids = [l \in ListReq |-> {}]
    /\ total = [l \in ListReq |-> 0] /\ page = [l \in ListReq |-> {}]
    /\ always = [l \in ListReq |-> {}] /\ ever = [l \in ListReq |-> {}]
    /\ changes = 0

----------------------------------------------------------------------------
(* What a query means: days are compared with days, and an event has the   *)
(* industry its organizer has now.                                         *)

Asked(q, i, anyIndustry) ==
    IF q.filter \in Customer
    THEN i \in Booking /\ bookings[i] = q.filter
    ELSE /\ i \in Event /\ events[i] # None
         /\ q.filter.city \in {None, events[i].city}
         /\ q.filter.date_from = None \/ q.filter.date_from <= events[i].day
         /\ q.filter.date_to = None \/ events[i].day <= q.filter.date_to
         /\ anyIndustry \/ q.filter.industry \in {None, industry[events[i].user]}

Meant(q, anyIndustry) == {i \in Event \cup Booking : Asked(q, i, anyIndustry)}

\* A change of the tables, and what it is to the requests on their way.
Change ==
    /\ changes < MaxChanges
    /\ UNCHANGED lists
    /\ changes' = changes + 1
    /\ always' = [l \in ListReq |->
            IF pc[l] \in {"new", "done"} THEN always[l] ELSE always[l] \cap Meant(ask[l], FALSE)']
    /\ ever' = [l \in ListReq |->
            IF pc[l] \in {"new", "done"} THEN ever[l] ELSE ever[l] \cup Meant(ask[l], TRUE)']

----------------------------------------------------------------------------
(* Changes of the tables, by other requests.                               *)

CreateEvent(e, u, c, d, t) ==
    /\ events[e] = None
    /\ events' = [events EXCEPT ![e] = NewRow(u, c, d, t)]
    /\ UNCHANGED <<industry, bookings>>
    /\ Change

\* The city, or the date with all its parts.
UpdateEvent(e, c, d, t) ==
    /\ events[e] # None
    /\ events' = [events EXCEPT ![e] = NewRow(@.user, c, d, t)]
    /\ c = events[e].city \/ <<d, t>> = <<events[e].day, events[e].time>>
    /\ UNCHANGED <<industry, bookings>>
    /\ Change

DeleteEvent(e) ==
    /\ events[e] # None
    /\ events' = [events EXCEPT ![e] = None]
    /\ UNCHANGED <<industry, bookings>>
    /\ Change

UpdateProfile(u, i) ==
    /\ industry' = [industry EXCEPT ![u] = i]
    /\ UNCHANGED <<events, bookings>>
    /\ Change

Book(b, c) ==
    /\ bookings[b] = None
    /\ bookings' = [bookings EXCEPT ![b] = c]
    /\ UNCHANGED <<events, industry>>
    /\ Change

----------------------------------------------------------------------------
(* The statements of a list.                                               *)

StartOf(d) == d * MinutesOfDay
\* Mutant: date_to is not widened to its whole day.
EndOfAtMidnight(d) == StartOf(d)
EndOf(d) == StartOf(d) + (MinutesOfDay - 1)

\* Mutant: no organizer of the industry is taken for no industry asked for.
HasIndustryIfAny(l, u) == user_ids[l] # {} => u \in user_ids[l]
HasIndustry(l, u) == ask[l].filter.industry # None => u \in user_ids[l]

\* The WHERE clause.
Matching(l) ==
    IF ask[l].filter \in Customer
    THEN {b \in Booking : bookings[b] = ask[l].filter}
    ELSE {e \in Listed :
            LET f == ask[l].filter IN
            /\ f.city # None => events[e].city = f.city
            /\ f.date_from # None => events[e].date >= StartOf(f.date_from)
            /\ f.date_to # None => events[e].date <= EndOf(f.date_to)
            /\ HasIndustry(l, events[e].user)}

\* The organizers of the industry, if one is asked for.
ListStart(l, q) ==
    /\ pc[l] = "new"
    /\ pc' = [pc EXCEPT ![l] = "asked"]
    /\ ask' = [ask EXCEPT ![l] = q]
    /\ user_ids' = [user_ids EXCEPT ![l] =
            {u \in Organizer : q.filter \notin Customer /\ industry[u] = q.filter.industry}]
    /\ always' = [always EXCEPT ![l] = Meant(q, FALSE)]
    /\ ever' = [ever EXCEPT ![l] = Meant(q, TRUE)]
    /\ UNCHANGED <<tables, total, page, changes>>

\* Mutant: the rows from the offset on.
CountFromOffset(l) == Cardinality(Matching(l)) - ask[l].offset
Count(l) == Cardinality(Matching(l))

ListCount(l) ==
    /\ pc[l] = "asked"
    /\ pc' = [pc EXCEPT ![l] = "counted"]
    /\ total' = [total EXCEPT ![l] = Count(l)]
    /\ UNCHANGED <<tables, ask, user_ids, page, history>>

\* OFFSET and LIMIT of rows in any order; profiles and payments are looked up
\* afterwards, for what the page has.
ListPage(l) ==
    /\ pc[l] = "counted"
    /\ pc' = [pc EXCEPT ![l] = "done"]
    /\ LET found == Matching(l)
           size == Min({ask[l].limit, Max({0, Cardinality(found) - ask[l].offset})})
       IN \E ids \in kSubset(size, found) : page' = [page EXCEPT ![l] = Rows(ids)]
    /\ UNCHANGED <<tables, ask, user_ids, total, history>>

Quiescent ==
    /\ \A l \in ListReq : pc[l] = "done"
    /\ changes = MaxChanges
    /\ UNCHANGED vars

Next ==
    \/ \E e \in Event, u \in Organizer, c \in City, d \in Day, t \in Time : CreateEvent(e, u, c, d, t)
    \/ \E e \in Event, c \in City, d \in Day, t \in Time : UpdateEvent(e, c, d, t)
    \/ \E e \in Event : DeleteEvent(e)
    \/ \E u \in Organizer, i \in Industry : UpdateProfile(u, i)
    \/ \E b \in Booking, c \in Customer : Book(b, c)
    \/ \E l \in ListReq, q \in Query : ListStart(l, q)
    \/ \E l \in ListReq : ListCount(l) \/ ListPage(l)
    \/ Quiescent

Spec == Init /\ [][Next]_vars

----------------------------------------------------------------------------

(***************************************************************************)
(* The column is the instant the organizer means: on that day, as many     *)
(* minutes after midnight as a 12-hour clock that starts at 12 AM and      *)
(* passes 12 PM at noon (events/schemas.py 10-17).                         *)
(***************************************************************************)
ClockShows(m) == <<((m \div 60 + 11) % 12) + 1, m % 60, IF m < 720 THEN "AM" ELSE "PM">>

DateIsMeant ==
    \A e \in Listed :
        /\ events[e].date \div MinutesOfDay = events[e].day
        /\ ClockShows(events[e].date % MinutesOfDay) = events[e].time

(***************************************************************************)
(* Whatever is committed between its statements, a list misses none of the *)
(* rows it asks for that were there all the time: they are on the page if  *)
(* the page starts at the beginning and is not full, and the page is as    *)
(* long as they make it.  The range of dates includes both days            *)
(* (decisions.md 13, decision 11).                                         *)
(***************************************************************************)
NothingIsMissed ==
    \A l \in ListReq : pc[l] = "done" =>
        /\ Cardinality(page[l]) >= Min({ask[l].limit, Cardinality(always[l]) - ask[l].offset})
        /\ ask[l].offset = 0 /\ Cardinality(page[l]) < ask[l].limit => always[l] \subseteq Ids(l)

(***************************************************************************)
(* A list shows no row that was never one it asks for: no event of another *)
(* city or day, or of an organizer who was not in the industry when the    *)
(* list was asked for, and no booking of another customer.                 *)
(***************************************************************************)
NothingIsMadeUp ==
    \A l \in ListReq, r \in UNION {page[m] : m \in ListReq} : r \in page[l] =>
        /\ r[1] \in ever[l]
        /\ r[1] \in Booking => r[2] = ask[l].filter
        /\ r[1] \in Event /\ ask[l].filter.industry # None => r[2].user \in user_ids[l]

(***************************************************************************)
(* The total counts all rows the list asks for, not only those of the page *)
(* (tests/test_events.py 387-401), up to what changed meanwhile.           *)
(***************************************************************************)
TotalIsTrue ==
    \A l \in ListReq : pc[l] = "done" => total[l] \in Cardinality(always[l])..Cardinality(ever[l])
=============================================================================
