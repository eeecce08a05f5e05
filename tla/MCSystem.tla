------------------------------ MODULE MCSystem ------------------------------
(* A small instance of module EventBookingSystem for TLC. *)
EXTENDS EventBookingSystem

\* An event of two seats.
MCNewEvent == {[capacity |-> 2, price |-> 1, date |-> 1]}

\* A price that makes two tickets dearer than AmountMax.
MCRepricing == {[price |-> 3]}
=============================================================================
