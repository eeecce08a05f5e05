----------------------- MODULE RegistrationProperties -----------------------
(***************************************************************************)
(* What must be true of accounts.                                          *)
(***************************************************************************)
EXTENDS Registration

(***************************************************************************)
(* "An organizer without a profile (or vice versa) should never be         *)
(* possible" (users/service.py 30-31): not between the two writes, not     *)
(* when a worker dies or the profile is refused there, not when the index  *)
(* refuses one of two racing registrations.                                *)
(***************************************************************************)
OrganizersHaveProfiles == \A r \in RegisterReq : r \in profiles <=> r \in users /\ role[r] = "organizer"

(***************************************************************************)
(* Whatever a registration is answered is what happened to it: a 201 is an *)
(* account one can log in to, an error leaves nothing behind - neither a   *)
(* row nor a claim on the address - and an internal one (users/service.py  *)
(* 40-42) means that another account has the address, or that the request  *)
(* itself did not fit a column.                                            *)
(***************************************************************************)
RegistrationsTellTheTruth ==
    \A r \in RegisterReq :
        /\ reply[r] = 201 => r \in users
        /\ reply[r] \in {400, 500} => r \notin users \cup profiles /\ tx[r] = {}
        /\ reply[r] = 500 => Taken(email[r]) \/ misfit[r] # None

(***************************************************************************)
(* An organizer who can log in has a profile to update: no token comes     *)
(* before the profile does (organizer_profiles/service.py 19-22).          *)
(***************************************************************************)
OrganizersFindTheirProfile == \A v \in Visit : visited[v] # 404

(***************************************************************************)
(* Checks, inserts and transactions are invisible: accounts appear at once *)
(* and whole, each under an address of its own (module Directory).         *)
(***************************************************************************)
Accounts == INSTANCE Directory WITH
    Account <- RegisterReq,
    holder <- [m \in Email |-> {u \in users : email[u] = m}],
    organizer <- {u \in users : role[u] = "organizer"},
    profiled <- profiles

ImplementsDirectory == Accounts!DirectorySpec

(***************************************************************************)
(* Every registration a worker took up comes to an end: two of them for    *)
(* one address do not wait for each other.                                 *)
(***************************************************************************)
EveryRegistrationEnds == \A r \in RegisterReq : pc[r] # "new" ~> pc[r] = "done"
=============================================================================
