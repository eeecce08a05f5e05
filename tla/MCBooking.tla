------------------------------ MODULE MCBooking ------------------------------
(* Small instances of module Booking for TLC. *)
EXTENDS BookingProperties, TLC

MCSymmetry == Permutations(BookReq) \cup Permutations(Organizer)

\* An event of two seats that can be booked at time 0 only; one too dear to create.
MCNewEvent == {[capacity |-> 2, price |-> 1, date |-> 1], [capacity |-> 2, price |-> 5, date |-> 1]}

\* Nothing; shrink below what may be sold; grow, postpone to where one may no
\* longer postpone it to at time 1, and make two tickets dearer than AmountMax;
\* a capacity no int4 holds.
MCPatch == {NoPatch, [capacity |-> 1], [capacity |-> 3, price |-> 3, date |-> 1], [capacity |-> 5]}

\* None; one; two; as many as overflow an int4 once one is sold; a bigint.
MCQuantity == {0, 1, 2, 4, 5}
=============================================================================
