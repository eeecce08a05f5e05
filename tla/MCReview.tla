------------------------------ MODULE MCReview ------------------------------
(* Small instances of module Review for TLC. *)
EXTENDS ReviewProperties, TLC

CONSTANTS b1, b2, b3, e1, e2

\* Two bookings of one event and one of another.
MCEventOf == b1 :> e1 @@ b2 :> e1 @@ b3 :> e2

MCSymmetry == Permutations(ReviewReq)
=============================================================================
