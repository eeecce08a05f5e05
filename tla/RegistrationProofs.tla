------------------------- MODULE RegistrationProofs -------------------------
(***************************************************************************)
(* Accounts for any number of registrations, visits, addresses and web     *)
(* workers: what module RegistrationProperties states, proved.             *)
(***************************************************************************)
EXTENDS RegistrationProperties, TLAPS

----------------------------------------------------------------------------
(* Types.                                                                  *)

LEMMA InitType == Init => TypeOK
BY DEF Init, TypeOK

LEMMA StepType == TypeOK /\ [Next]_vars => TypeOK'
<1> SUFFICES ASSUME TypeOK, [Next]_vars PROVE TypeOK'
  OBVIOUS
<1> USE DEF TypeOK, Role, form, visits
<1>1. ASSUME NEW r \in RegisterReq, NEW m \in Email, NEW x \in Role, NEW w \in BOOLEAN,
             RegisterReject(r, m, x, w) \/ RegisterCheck(r, m, x, w)
      PROVE  TypeOK'
  BY <1>1 DEF RegisterReject, RegisterCheck, Answer, Goto
<1>2. ASSUME NEW r \in RegisterReq, Register(r) PROVE TypeOK'
  BY <1>2 DEF Register, RegisterUser, AfterUser, RegisterDuplicate, Unexpected, RegisterProfile, RegisterTooWide, Rollback,
    RegisterCommit, Answer, Goto
<1>3. ASSUME NEW r \in RegisterReq, Crash(r) PROVE TypeOK'
  BY <1>3 DEF Crash, Goto
<1>4. ASSUME NEW v \in Visit, UpdateProfile(v) PROVE TypeOK'
  BY <1>4 DEF UpdateProfile
<1>5. ASSUME NEW v \in Visit, NEW u \in users, Login(v, u) PROVE TypeOK'
  BY <1>5 DEF Login
<1>6. CASE UNCHANGED vars
  BY <1>6 DEF vars
<1> QED BY <1>1, <1>2, <1>3, <1>4, <1>5, <1>6 DEF Next, Quiescent

(***************************************************************************)
(* Every variable keeps its type.                                          *)
(***************************************************************************)
THEOREM TypeCorrect == Spec => []TypeOK
BY InitType, StepType, PTL DEF Spec

----------------------------------------------------------------------------
(* The inductive invariant: a transaction holds what its request has       *)
(* written so far and nothing of it is committed yet, no two of them, nor  *)
(* one and a committed row, claim one address, and tokens name users.      *)

Transactions ==
    \A r \in RegisterReq :
        /\ pc[r] = "new" => r \notin users
        /\ pc[r] = "checked" => tx[r] = {} /\ r \notin users /\ reply[r] = None
        /\ pc[r] = "created" => tx[r] = {"user"} /\ role[r] = "organizer"
        /\ pc[r] = "complete" =>
              tx[r] = IF role[r] = "organizer" THEN {"user", "profile"} ELSE {"user"}
        /\ pc[r] \in {"new", "done"} => tx[r] = {}
        /\ pc[r] \in {"created", "complete"} => r \notin users
        /\ pc[r] # "done" => reply[r] = None
        /\ pc[r] = "new" => misfit[r] = None

EmailsAreUnique ==
    /\ \A r \in RegisterReq : r \in users \/ "user" \in tx[r] => email[r] \in Email
    /\ \A r, s \in RegisterReq :
          /\ r \in users \/ "user" \in tx[r]
          /\ s \in users \/ "user" \in tx[s]
          /\ email[r] = email[s]
          => r = s

TokensAreTrue ==
    \A v \in Visit : (token[v] # None => token[v] \in users) /\ visited[v] # 404

IInv ==
    /\ TypeOK /\ OrganizersHaveProfiles /\ RegistrationsTellTheTruth
    /\ Transactions /\ EmailsAreUnique /\ TokensAreTrue
    /\ \A r \in RegisterReq : pc[r] = "checked" => email[r] \in Email /\ role[r] \in Role

LEMMA InitInv == Init => IInv
BY InitType, RegistrationAssumption DEF Replies, Init, IInv, OrganizersHaveProfiles, RegistrationsTellTheTruth, Transactions,
    EmailsAreUnique, TokensAreTrue

LEMMA StepInv == IInv /\ [Next]_vars => IInv'
<1> SUFFICES ASSUME IInv, [Next]_vars PROVE IInv'
  OBVIOUS
<1>t. TypeOK'
  BY StepType DEF IInv
<1> USE <1>t, RegistrationAssumption DEF IInv, TypeOK, Taken, OrganizersHaveProfiles, RegistrationsTellTheTruth, Transactions,
        EmailsAreUnique, TokensAreTrue
<1>1. ASSUME NEW r \in RegisterReq, NEW m \in Email, NEW x \in Role, NEW w \in BOOLEAN,
             RegisterReject(r, m, x, w)
      PROVE  IInv'
  <2> USE DEF RegisterReject, Answer, form, visits
  <2>1. OrganizersHaveProfiles' /\ RegistrationsTellTheTruth'
    BY <1>1
  <2>2. Transactions'
    BY <1>1
  <2>3. EmailsAreUnique' /\ TokensAreTrue'
    BY <1>1
  <2>4. \A s \in RegisterReq : pc'[s] = "checked" => email'[s] \in Email /\ role'[s] \in Role
    BY <1>1
  <2> QED BY <2>1, <2>2, <2>3, <2>4
<1>2. ASSUME NEW r \in RegisterReq, NEW m \in Email, NEW x \in Role, NEW w \in BOOLEAN,
             RegisterCheck(r, m, x, w)
      PROVE  IInv'
  <2> USE DEF RegisterCheck, Goto, visits
  <2>1. /\ \A s \in RegisterReq \ {r} : email'[s] = email[s] /\ role'[s] = role[s] /\ pc'[s] = pc[s]
        /\ email'[r] = m /\ role'[r] = x /\ pc'[r] = "checked" /\ r \notin users /\ pc[r] = "new"
        /\ \A s \in RegisterReq \ {r} : misfit'[s] = misfit[s]
        /\ UNCHANGED <<users, profiles, reply, tx, token, visited>>
    BY <1>2
  <2>2. OrganizersHaveProfiles'
    BY <2>1
  <2>3. RegistrationsTellTheTruth'
    <3>1. \A s \in RegisterReq : reply[s] = 500 => s # r /\ (misfit[s] # None \/ \E u \in users : u # r /\ email[u] = email[s])
      BY <2>1, RegistrationAssumption DEF Replies
    <3> QED BY <2>1, <3>1
  <2>4. Transactions' /\ EmailsAreUnique' /\ TokensAreTrue'
    BY <2>1, <1>2
  <2>5. \A s \in RegisterReq : pc'[s] = "checked" => email'[s] \in Email /\ role'[s] \in Role
    BY <2>1
  <2> QED BY <2>2, <2>3, <2>4, <2>5
<1>3. ASSUME NEW r \in RegisterReq, RegisterUser(r) PROVE IInv'
  <2>1. /\ tx' = [tx EXCEPT ![r] = {"user"}] /\ r \notin users /\ pc[r] = "checked"
        /\ pc' = [pc EXCEPT ![r] = IF role[r] = "organizer" THEN "created" ELSE "complete"]
        /\ UNCHANGED <<users, profiles, email, role, misfit, reply, token, visited>>
    BY <1>3 DEF RegisterUser, AfterUser, Goto, form, visits
  <2>2. \A s \in RegisterReq : s \in users \/ "user" \in tx[s] => email[s] # email[r]
    BY <1>3 DEF RegisterUser, Free, Taken, Claimed
  <2>3. /\ tx'[r] = {"user"} /\ reply[r] = None
        /\ pc'[r] = IF role[r] = "organizer" THEN "created" ELSE "complete"
    BY <2>1
  <2>4. \A s \in RegisterReq \ {r} : tx'[s] = tx[s] /\ pc'[s] = pc[s]
    BY <2>1
  <2> HIDE DEF TypeOK
  <2>5. Transactions'
    BY <2>1, <2>3, <2>4
  <2>6. EmailsAreUnique'
    BY <2>1, <2>2
  <2>7. RegistrationsTellTheTruth'
    BY <2>1, <2>3, <2>4 DEF Replies
  <2> QED BY <2>1, <2>5, <2>6, <2>7
<1>4. ASSUME NEW r \in RegisterReq, RegisterDuplicate(r) PROVE IInv'
  BY <1>4 DEF RegisterDuplicate, Unexpected, Answer, form, visits
<1>5. ASSUME NEW r \in RegisterReq, RegisterProfile(r) PROVE IInv'
  BY <1>5 DEF RegisterProfile, Goto, form, visits
<1>6. ASSUME NEW r \in RegisterReq, RegisterCommit(r) PROVE IInv'
  BY <1>6 DEF RegisterCommit, Answer, form, visits
<1>7. ASSUME NEW r \in RegisterReq, Crash(r) PROVE IInv'
  BY <1>7 DEF Crash, Busy, Goto, form, visits
<1>8. ASSUME NEW v \in Visit, UpdateProfile(v) PROVE IInv'
  BY <1>8 DEF UpdateProfile, form
<1>9. ASSUME NEW v \in Visit, NEW u \in users, Login(v, u) PROVE IInv'
  BY <1>9 DEF Login, form
<1>10. ASSUME NEW r \in RegisterReq, RegisterTooWide(r) PROVE IInv'
  <2>1. /\ tx' = [tx EXCEPT ![r] = {}] /\ pc' = [pc EXCEPT ![r] = "done"] /\ reply' = [reply EXCEPT ![r] = 500]
        /\ UNCHANGED <<users, profiles, email, role, misfit, token, visited>>
    BY <1>10 DEF RegisterTooWide, Rollback, Unexpected, Answer, form, visits
  <2>2. /\ r \notin users /\ pc[r] \in {"checked", "created"}
        /\ misfit[r] # None
    BY <1>10 DEF RegisterTooWide
  <2>3. tx'[r] = {} /\ pc'[r] = "done" /\ reply'[r] = 500
    BY <2>1
  <2>4. \A s \in RegisterReq \ {r} : tx'[s] = tx[s] /\ pc'[s] = pc[s] /\ reply'[s] = reply[s]
    BY <2>1
  <2>5. r \notin profiles
    BY <2>2
  <2> HIDE DEF TypeOK
  <2>6. Transactions'
    BY <2>1, <2>3, <2>4
  <2>7. EmailsAreUnique'
    BY <2>1, <2>3, <2>4
  <2>8. RegistrationsTellTheTruth'
    BY <2>1, <2>2, <2>3, <2>4, <2>5 DEF Replies
  <2> QED BY <2>1, <2>3, <2>4, <2>6, <2>7, <2>8
<1>11. CASE UNCHANGED vars
  BY <1>11 DEF vars, form, visits
<1> QED
  BY <1>1, <1>2, <1>3, <1>4, <1>5, <1>6, <1>7, <1>8, <1>9, <1>10, <1>11 DEF Next, Quiescent, Register

LEMMA Invariance == Spec => []IInv
BY InitInv, StepInv, PTL DEF Spec

(***************************************************************************)
(* There is never an organizer without a profile, nor a profile without    *)
(* its organizer.                                                          *)
(***************************************************************************)
THEOREM ProfilesMatch == Spec => []OrganizersHaveProfiles
BY Invariance, PTL DEF IInv

(***************************************************************************)
(* Registrations are answered with what happened to them.                  *)
(***************************************************************************)
THEOREM TrueReplies == Spec => []RegistrationsTellTheTruth
BY Invariance, PTL DEF IInv

(***************************************************************************)
(* No PATCH of an organizer's own profile ends in 404.                     *)
(***************************************************************************)
THEOREM ProfilesFound == Spec => []OrganizersFindTheirProfile
<1>1. IInv => OrganizersFindTheirProfile
  BY DEF IInv, TokensAreTrue, OrganizersFindTheirProfile
<1> QED BY <1>1, Invariance, PTL

----------------------------------------------------------------------------
(* Handlers implement the directory.                                       *)

Holder == [m \in Email |-> {u \in users : email[u] = m}]
Organizers == {u \in users : role[u] = "organizer"}

LEMMA InitRefines == Init => Accounts!DirectoryInit
BY DEF Init, Accounts!DirectoryInit

\* Steps that change no row, nor the form a row was made from.
LEMMA Stutter ==
    ASSUME UNCHANGED <<users, profiles>>,
           \A u \in users : email'[u] = email[u] /\ role'[u] = role[u]
    PROVE  UNCHANGED Accounts!directory
<1>1. Holder' = Holder
  <2>1. \A m \in Email : {u \in users' : email'[u] = m} = {u \in users : email[u] = m}
    OBVIOUS
  <2> QED BY <2>1 DEF Holder
<1>2. Organizers' = Organizers
  BY DEF Organizers
<1> QED BY <1>1, <1>2 DEF Accounts!directory, Holder, Organizers

LEMMA CommitRefines ==
    ASSUME IInv, NEW r \in RegisterReq, RegisterCommit(r), NEW m, m = email[r]
    PROVE  m \in Email /\ (Accounts!EnterCustomer(r, m) \/ Accounts!EnterOrganizer(r, m))
<1>1. /\ "user" \in tx[r] /\ ("profile" \in tx[r] <=> role[r] = "organizer")
      /\ r \notin users
  BY DEF RegisterCommit, IInv, Transactions
<1>2. m \in Email
  BY <1>1 DEF IInv, EmailsAreUnique
<1>3. /\ users' = users \cup {r} /\ UNCHANGED <<email, role>>
      /\ profiles' = IF role[r] = "organizer" THEN profiles \cup {r} ELSE profiles
  BY <1>1 DEF RegisterCommit, form
<1>4. \A u \in users : email[u] # m
  BY <1>1 DEF IInv, EmailsAreUnique, TypeOK
<1>5. Accounts!Enter(r, m)
  <2>1. Holder[m] = {} /\ \A n \in Email : r \notin Holder[n]
    BY <1>1, <1>2, <1>4 DEF Holder
  <2>2. Holder' = [Holder EXCEPT ![m] = {r}]
    <3>1. \A n \in Email : {u \in users' : email'[u] = n} = IF n = m THEN {r} ELSE {u \in users : email[u] = n}
      BY <1>3, <1>4
    <3> QED BY <1>2, <3>1 DEF Holder
  <2> QED BY <1>2, <2>1, <2>2 DEF Accounts!Enter, Holder
<1>6. CASE role[r] = "organizer"
  <2>1. Organizers' = Organizers \cup {r} /\ profiles' = profiles \cup {r}
    BY <1>3, <1>6 DEF Organizers
  <2> QED BY <1>2, <1>5, <2>1 DEF Accounts!EnterOrganizer, Organizers
<1>7. CASE role[r] # "organizer"
  <2>1. UNCHANGED <<Organizers, profiles>>
    BY <1>3, <1>7 DEF Organizers
  <2> QED BY <1>2, <1>5, <2>1 DEF Accounts!EnterCustomer, Organizers
<1> QED BY <1>6, <1>7

LEMMA StepRefines == IInv /\ [Next]_vars => [Accounts!DirectoryNext]_Accounts!directory
<1> SUFFICES ASSUME IInv, [Next]_vars PROVE [Accounts!DirectoryNext]_Accounts!directory
  OBVIOUS
<1>1. ASSUME NEW r \in RegisterReq, NEW m \in Email, NEW x \in Role, NEW w \in BOOLEAN,
             RegisterReject(r, m, x, w) \/ RegisterCheck(r, m, x, w)
      PROVE  UNCHANGED Accounts!directory
  BY <1>1, Stutter DEF RegisterReject, RegisterCheck, form, IInv, Transactions, TypeOK
<1>2. ASSUME NEW r \in RegisterReq, RegisterCommit(r) PROVE Accounts!DirectoryNext
  <2>1. PICK m : m = email[r]
    OBVIOUS
  <2> QED BY <1>2, <2>1, CommitRefines DEF Accounts!DirectoryNext
<1>3. ASSUME NEW r \in RegisterReq, RegisterUser(r) \/ RegisterDuplicate(r) \/ RegisterProfile(r) \/ RegisterTooWide(r) \/ Crash(r)
      PROVE  UNCHANGED Accounts!directory
  BY <1>3, Stutter DEF RegisterUser, RegisterDuplicate, RegisterProfile, RegisterTooWide, Crash, form
<1>4. ASSUME NEW v \in Visit, UpdateProfile(v) \/ \E u \in users : Login(v, u)
      PROVE  UNCHANGED Accounts!directory
  BY <1>4, Stutter DEF UpdateProfile, Login, form
<1>5. CASE UNCHANGED vars
  BY <1>5, Stutter DEF vars, form
<1> QED BY <1>1, <1>2, <1>3, <1>4, <1>5 DEF Next, Quiescent, Register

(***************************************************************************)
(* Registrations, with their transactions, implement the directory, where  *)
(* accounts appear at once and under addresses of their own.               *)
(***************************************************************************)
THEOREM Refinement == Spec => ImplementsDirectory
BY StepRefines, InitRefines, Invariance, PTL DEF Spec, ImplementsDirectory, Accounts!DirectorySpec
=============================================================================
