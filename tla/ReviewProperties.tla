-------------------------- MODULE ReviewProperties --------------------------
(***************************************************************************)
(* What must be true of reviews.                                           *)
(***************************************************************************)
EXTENDS Review

(***************************************************************************)
(* One review per booking (decisions.md 6, decision 4), however many       *)
(* requests looked before any of them wrote.                               *)
(***************************************************************************)
OneReviewPerBooking == \A r, s \in reviews : booking[r] = booking[s] => r = s

(***************************************************************************)
(* A 201 is a review, any other answer is none, and an internal error      *)
(* means that the database found a review there.  With a single web worker *)
(* the check finds it first: a second review is refused with 400 "booking  *)
(* already reviewed" (tests/test_reviews.py 262), never with an error.     *)
(***************************************************************************)
ReviewRepliesTellTheTruth ==
    \A r \in ReviewReq :
        /\ pc[r] = "done" => (r \in reviews <=> reply[r] = 201)
        /\ reply[r] = 500 => workers > 1 /\ \E s \in reviews : booking[s] = booking[r]

(***************************************************************************)
(* A list of reviews misses none that was there when it was asked for, and *)
(* holds none of another event, although bookings and reviews are made     *)
(* between its statements (reviews/service.py 42-47).                      *)
(***************************************************************************)
ListsAreComplete ==
    \A l \in ListReq : reply[l] = 200 =>
        /\ due[l] \subseteq listed[l] /\ listed[l] \subseteq reviews
        /\ \A r, s \in listed[l] : EventOf[booking[r]] = EventOf[booking[s]]

(***************************************************************************)
(* With a single web worker reviews are earned: at the moment one appears  *)
(* its booking is confirmed and its event has taken place (decisions.md 5, *)
(* decision 3), and no check of it is outdated.                            *)
(***************************************************************************)
ReviewsAreEarned ==
    [][workers = 1 => \A r \in reviews' \ reviews :
            status'[booking[r]] = "PROCESSED" /\ date'[EventOf[booking[r]]] <= now']_vars
=============================================================================
