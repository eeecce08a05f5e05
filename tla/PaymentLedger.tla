---------------------------- MODULE PaymentLedger ----------------------------
(***************************************************************************)
(* What the payment flow promises about a booking: it is PENDING until it  *)
(* is confirmed or has failed, once, for good; the customer of a confirmed *)
(* booking, and no other, is sent a confirmation, at most once.            *)
(***************************************************************************)
EXTENDS Integers

CONSTANT Payment

VARIABLES
    booking_status,  \* payment -> status of its booking
    confirmations    \* payment -> confirmations under way or sent

ledger == <<booking_status, confirmations>>

LedgerInit ==
    /\ booking_status = [p \in Payment |-> "PENDING"]
    /\ confirmations = [p \in Payment |-> 0]

Settle(p) ==
    /\ booking_status[p] = "PENDING"
    /\ \E s \in {"CONFIRMED", "FAILED"} : booking_status' = [booking_status EXCEPT ![p] = s]
    /\ UNCHANGED confirmations

Confirm(p) ==
    /\ booking_status[p] = "CONFIRMED"
    /\ confirmations[p] = 0
    /\ confirmations' = [confirmations EXCEPT ![p] = 1]
    /\ UNCHANGED booking_status

LedgerNext == \E p \in Payment : Settle(p) \/ Confirm(p)

LedgerSpec == LedgerInit /\ [][LedgerNext]_ledger
=============================================================================
