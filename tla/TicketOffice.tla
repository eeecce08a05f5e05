---------------------------- MODULE TicketOffice ----------------------------
(***************************************************************************)
(* What the events and bookings API promises an event's customers, with    *)
(* every operation atomic: tickets are only sold for an open event and     *)
(* only while they fit its capacity, and an event is only withdrawn when   *)
(* nobody holds a ticket for it.  Nothing here says how: no transactions,  *)
(* no locks, no counter of sold tickets, no web workers.                   *)
(***************************************************************************)
EXTENDS Integers, FiniteSets

CONSTANTS
    Event,   \* event ids
    Buyer,   \* booking ids: one sale each
    Size,    \* capacities an organizer may advertise
    Lot      \* numbers of tickets a sale may have

VARIABLES
    open,      \* events one can book
    capacity,  \* the capacity each event advertises
    tickets    \* the tickets issued for each event, pairs <<buyer, number>>

office == <<open, capacity, tickets>>

Holders(e) == {t[1] : t \in tickets[e]}

OfficeTypeOK ==
    /\ open \subseteq Event
    /\ capacity \in [Event -> Nat]
    /\ \A e \in Event : tickets[e] \subseteq Buyer \X (Nat \ {0})

OfficeInit ==
    /\ open = {}
    /\ capacity = [e \in Event |-> 0]
    /\ tickets = [e \in Event |-> {}]

OpenEvent(e, c) ==
    /\ e \notin open
    /\ tickets[e] = {}
    /\ open' = open \cup {e}
    /\ capacity' = [capacity EXCEPT ![e] = c]
    /\ UNCHANGED tickets

\* The organizer may advertise any capacity, even one below what is sold.
Resize(e, c) ==
    /\ e \in open
    /\ capacity' = [capacity EXCEPT ![e] = c]
    /\ UNCHANGED <<open, tickets>>

\* One sale is all its tickets or none, and it leaves the event within capacity.
Sell(b, e, n) ==
    /\ e \in open
    /\ \A f \in Event : b \notin Holders(f)
    /\ tickets' = [tickets EXCEPT ![e] = @ \cup ({b} \X (1..n))]
    /\ Cardinality(tickets'[e]) <= capacity[e]
    /\ UNCHANGED <<open, capacity>>

Withdraw(e) ==
    /\ e \in open
    /\ tickets[e] = {}
    /\ open' = open \ {e}
    /\ UNCHANGED <<capacity, tickets>>

OfficeNext ==
    \/ \E e \in Event, c \in Size : OpenEvent(e, c) \/ Resize(e, c)
    \/ \E b \in Buyer, e \in Event, n \in Lot : Sell(b, e, n)
    \/ \E e \in Event : Withdraw(e)

OfficeSpec == OfficeInit /\ [][OfficeNext]_office
=============================================================================
