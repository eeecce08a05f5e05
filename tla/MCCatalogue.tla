---------------------------- MODULE MCCatalogue ----------------------------
(* A small instance of module Catalogue for TLC. *)
EXTENDS Catalogue, TLC

MCSymmetry == Permutations(Event) \cup Permutations(Organizer) \cup Permutations(Booking)

\* Midnight, noon and the last minute of a day.
MCTime == {<<12, 0, "AM">>, <<12, 0, "PM">>, <<11, 59, "PM">>}

Events(city, from, to, ind, limit, offset) ==
    [filter |-> [city |-> city, date_from |-> from, date_to |-> to, industry |-> ind],
     limit |-> limit, offset |-> offset]

MCQuery ==
    {Events(None, None, None, None, 1, 1), Events(None, 1, None, None, 2, 0), Events(None, None, 1, None, 2, 0)}
    \cup {Events(c, 1, 1, None, 1, 0) : c \in City}
    \cup {Events(None, None, None, i, 2, 0) : i \in Industry}
    \cup {Events(c, 1, 1, i, 2, 0) : c \in City, i \in Industry}
    \cup {[filter |-> c, limit |-> n, offset |-> 2 - n] : c \in Customer, n \in {1, 2}}
=============================================================================
