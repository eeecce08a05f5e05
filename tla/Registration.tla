---------------------------- MODULE Registration ----------------------------
(***************************************************************************)
(* Accounts: POST /v1/users, which writes a user and, for an organizer, a  *)
(* profile in one transaction; POST /v1/sessions, which issues a token;    *)
(* and PATCH /v1/organizers/me with such a token.                          *)
(*                                                                         *)
(* An INSERT is refused by the unique index on users.email when a committed *)
(* row has the address, and waits while an uncommitted one has.  It is     *)
(* refused at once if a value is wider than its column, of which the       *)
(* schemas know nothing.                                                   *)
(***************************************************************************)
EXTENDS Integers, FiniteSets

CONSTANTS
    RegisterReq,  \* POST /v1/users requests; each also names its rows
    Visit,        \* clients that log in and then update their profile
    Email,
    WebWorkers,   \* requests the web tier handles at a time
    MayCrash,     \* whether workers may die
    None

Role == {"customer", "organizer"}
Replies == {200, 201, 400, 403, 404, 500}

ASSUME RegistrationAssumption ==
    /\ WebWorkers \in Nat \ {0} /\ MayCrash \in BOOLEAN
    /\ None \notin RegisterReq \cup Email \cup Replies /\ None \notin {"user", "profile"}

VARIABLES
    users,      \* rows of table users
    profiles,   \* rows of table organizer_profiles
    email,      \* request -> email
    role,       \* request -> role
    misfit,     \* request -> which of its rows has a value too wide for its column
    pc, reply,  \* how far a request is; the status it was answered with
    tx,         \* request -> its writes not yet committed
    token,      \* visit -> the user its token names
    visited     \* visit -> what PATCH /v1/organizers/me answered

form == <<email, role, misfit>>
visits == <<token, visited>>
vars == <<users, profiles, form, pc, reply, tx, visits>>

TypeOK ==
    /\ users \subseteq RegisterReq /\ profiles \subseteq RegisterReq
    /\ email \in [RegisterReq -> Email \cup {None}]
    /\ role \in [RegisterReq -> Role \cup {None}]
    /\ misfit \in [RegisterReq -> {None, "user", "profile"}]
    /\ pc \in [RegisterReq -> {"new", "checked", "created", "complete", "done"}]
    /\ reply \in [RegisterReq -> {None, 201, 400, 500}]
    /\ tx \in [RegisterReq -> SUBSET {"user", "profile"}]
    /\ token \in [Visit -> RegisterReq \cup {None}]
    /\ visited \in [Visit -> {None, 200, 403, 404, 500}]

Init ==
    /\ users = {} /\ profiles = {}
    /\ email = [r \in RegisterReq |-> None] /\ role = [r \in RegisterReq |-> None]
    /\ misfit = [r \in RegisterReq |-> None]
    /\ pc = [r \in RegisterReq |-> "new"] /\ reply = [r \in RegisterReq |-> None]
    /\ tx = [r \in RegisterReq |-> {}]
    /\ token = [v \in Visit |-> None] /\ visited = [v \in Visit |-> None]

----------------------------------------------------------------------------
(* POST /v1/users                                                          *)

Busy == {r \in RegisterReq : pc[r] \notin {"new", "done"}}
HasWorker == Cardinality(Busy) < WebWorkers

Taken(m) == \E u \in users : email[u] = m
Claimed(m) == \E s \in RegisterReq : "user" \in tx[s] /\ email[s] = m

\* Mutant: the index on users.email is not unique.
FreeAlways(m) == TRUE
\* The index lets an INSERT of the address through.
Free(m) == ~Taken(m) /\ ~Claimed(m)

Answer(r, code) ==
    /\ pc' = [pc EXCEPT ![r] = "done"]
    /\ reply' = [reply EXCEPT ![r] = code]

Goto(r, label) == pc' = [pc EXCEPT ![r] = label] /\ UNCHANGED reply

\* The schema wants a profile from organizers and from nobody else.
Mismatched(x, with_profile) == (x = "organizer") # with_profile

RegisterReject(r, m, x, with_profile) ==
    /\ pc[r] = "new" /\ HasWorker
    /\ Mismatched(x, with_profile) \/ Taken(m)
    /\ Answer(r, 400)
    /\ UNCHANGED <<users, profiles, form, tx, visits>>

RegisterCheck(r, m, x, with_profile) ==
    /\ pc[r] = "new" /\ HasWorker
    /\ ~Mismatched(x, with_profile) /\ ~Taken(m)
    /\ email' = [email EXCEPT ![r] = m]
    /\ role' = [role EXCEPT ![r] = x]
    /\ \E t \in {None, "user"} \cup {k \in {"profile"} : with_profile} : misfit' = [misfit EXCEPT ![r] = t]
    /\ Goto(r, "checked")
    /\ UNCHANGED <<users, profiles, tx, visits>>

\* Mutant: organizers get no profile.
AfterUserAlways(r) == "complete"
AfterUser(r) == IF role[r] = "organizer" THEN "created" ELSE "complete"

RegisterUser(r) ==
    /\ pc[r] = "checked" /\ misfit[r] # "user"
    /\ Free(email[r])
    /\ tx' = [tx EXCEPT ![r] = {"user"}]
    /\ Goto(r, AfterUser(r))
    /\ UNCHANGED <<users, profiles, form, visits>>

\* Mutant: the error handler takes the index's refusal for success.
UnexpectedSwallowed == 201
Unexpected == 500

RegisterDuplicate(r) ==
    /\ pc[r] = "checked" /\ misfit[r] # "user"
    /\ Taken(email[r])
    /\ Answer(r, Unexpected)
    /\ UNCHANGED <<users, profiles, form, tx, visits>>

RegisterProfile(r) ==
    /\ pc[r] = "created" /\ misfit[r] # "profile"
    /\ tx' = [tx EXCEPT ![r] = @ \cup {"profile"}]
    /\ Goto(r, "complete")
    /\ UNCHANGED <<users, profiles, form, visits>>

\* Mutant: the session keeps what it has written, and its locks.
RollbackForgotten(r) == UNCHANGED tx
Rollback(r) == tx' = [tx EXCEPT ![r] = {}]

\* PostgreSQL refuses the row; what the request wrote before goes with it.
RegisterTooWide(r) ==
    /\ \/ pc[r] = "checked" /\ misfit[r] = "user"
       \/ pc[r] = "created" /\ misfit[r] = "profile"
    /\ Rollback(r)
    /\ Answer(r, Unexpected)
    /\ UNCHANGED <<users, profiles, form, visits>>

RegisterCommit(r) ==
    /\ pc[r] = "complete"
    /\ users' = users \cup {u \in {r} : "user" \in tx[r]}
    /\ profiles' = profiles \cup {u \in {r} : "profile" \in tx[r]}
    /\ tx' = [tx EXCEPT ![r] = {}]
    /\ Answer(r, 201)
    /\ UNCHANGED <<form, visits>>

\* A worker dies: PostgreSQL rolls its session back.
Crash(r) ==
    /\ MayCrash /\ r \in Busy
    /\ tx' = [tx EXCEPT ![r] = {}]
    /\ Goto(r, "done")
    /\ UNCHANGED <<users, profiles, form, visits>>

----------------------------------------------------------------------------
(* POST /v1/sessions and PATCH /v1/organizers/me.  Users are never deleted *)
(* and keep their role, so that a token stays true while it lasts.         *)

Login(v, u) ==
    /\ HasWorker
    /\ token[v] = None /\ u \in users
    /\ token' = [token EXCEPT ![v] = u]
    /\ UNCHANGED <<users, profiles, form, pc, reply, tx, visited>>

\* A profile that is found is updated, or its new values are too wide.
UpdateProfile(v) ==
    /\ HasWorker
    /\ token[v] # None /\ visited[v] = None
    /\ \/ role[token[v]] # "organizer" /\ visited' = [visited EXCEPT ![v] = 403]
       \/ /\ role[token[v]] = "organizer"
          /\ \E code \in IF token[v] \in profiles THEN {200, 500} ELSE {404} : visited' = [visited EXCEPT ![v] = code]
    /\ UNCHANGED <<users, profiles, form, pc, reply, tx, token>>

\* Every request of the instance was answered: it is over, not stuck.
Quiescent ==
    /\ \A r \in RegisterReq : pc[r] = "done"
    /\ \A v \in Visit : visited[v] = None => token[v] = None
    /\ UNCHANGED vars

----------------------------------------------------------------------------

Register(r) ==
    RegisterUser(r) \/ RegisterDuplicate(r) \/ RegisterProfile(r) \/ RegisterTooWide(r) \/ RegisterCommit(r)

Next ==
    \/ \E r \in RegisterReq, m \in Email, x \in Role, w \in BOOLEAN :
          RegisterReject(r, m, x, w) \/ RegisterCheck(r, m, x, w)
    \/ \E r \in RegisterReq : Register(r) \/ Crash(r)
    \/ \E v \in Visit : UpdateProfile(v) \/ \E u \in users : Login(v, u)
    \/ Quiescent

Spec == Init /\ [][Next]_vars

\* A worker runs its handler to the end.
FairSpec == Spec /\ \A r \in RegisterReq : WF_vars(Register(r))
=============================================================================
