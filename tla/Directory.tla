----------------------------- MODULE Directory -----------------------------
(***************************************************************************)
(* What registration promises: an account appears at once and whole, under *)
(* an email address no other account has, and has an organizer profile     *)
(* exactly if it is an organizer's.                                        *)
(***************************************************************************)

CONSTANTS Account, Email

VARIABLES
    holder,    \* email -> the accounts that have it
    organizer, \* accounts with role organizer
    profiled   \* accounts with a row in organizer_profiles

directory == <<holder, organizer, profiled>>

DirectoryInit == holder = [m \in Email |-> {}] /\ organizer = {} /\ profiled = {}

\* An account that is already there does not come a second time.
Enter(a, m) ==
    /\ holder[m] = {} /\ \A n \in Email : a \notin holder[n]
    /\ holder' = [holder EXCEPT ![m] = {a}]

EnterCustomer(a, m) == Enter(a, m) /\ UNCHANGED <<organizer, profiled>>

EnterOrganizer(a, m) ==
    /\ Enter(a, m)
    /\ organizer' = organizer \cup {a}
    /\ profiled' = profiled \cup {a}

DirectoryNext == \E a \in Account, m \in Email : EnterCustomer(a, m) \/ EnterOrganizer(a, m)

DirectorySpec == DirectoryInit /\ [][DirectoryNext]_directory
=============================================================================
