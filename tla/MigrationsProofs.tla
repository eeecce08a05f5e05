-------------------------- MODULE MigrationsProofs --------------------------
(***************************************************************************)
(* The schema under any number of migrations and requests: what sequences  *)
(* of statements do, that each revision and its downgrade are possible and *)
(* the reverse of each other, and that every transaction runs its script.  *)
(***************************************************************************)
EXTENDS Migrations, FiniteSetTheorems, SequenceTheorems, TLAPS

----------------------------------------------------------------------------
(* Induction over the natural numbers, for sets of them, from the finite   *)
(* sets' being well founded under inclusion.                               *)

LEMMA Least == ASSUME NEW T, T \subseteq Nat, T # {} PROVE \E m \in T : \A n \in T : m <= n
<1> DEFINE R == StrictSubsetOrdering(Nat)
           D == {0..n : n \in T}
<1>1. IsWellFoundedOn(R, FiniteSubsetsOf(Nat))
  BY FS_StrictSubsetOrderingWellFounded
<1>2. D \subseteq FiniteSubsetsOf(Nat) /\ D # {}
  <2>1. ASSUME NEW n \in T PROVE 0..n \in SUBSET Nat /\ IsFiniteSet(0..n)
    BY FS_Interval
  <2> QED BY <2>1 DEF FiniteSubsetsOf
<1>3. \E x \in D : \A y \in D : <<y, x>> \notin R
  <2> HIDE DEF R, D
  <2> QED BY <1>1, <1>2, WFMin
<1>4. PICK m \in T : \A y \in D : <<y, 0..m>> \notin R
  BY <1>3
<1>5. ASSUME NEW n \in T, n < m PROVE FALSE
  <2>1. 0..n \in SUBSET Nat /\ 0..m \in SUBSET Nat /\ 0..n \subseteq 0..m
    BY <1>5
  <2>2. m \in 0..m /\ m \notin 0..n
    BY <1>5
  <2>3. <<0..n, 0..m>> \in R
    BY <2>1, <2>2 DEF StrictSubsetOrdering
  <2> QED BY <2>3, <1>4
<1> QED BY <1>5

LEMMA Induction ==
    ASSUME NEW T, T \subseteq Nat, 0 \in T, \A n \in T : n + 1 \in T
    PROVE  T = Nat
<1> SUFFICES ASSUME Nat \ T # {} PROVE FALSE
  OBVIOUS
<1>1. PICK m \in Nat \ T : \A n \in Nat \ T : m <= n
  BY Least
<1>2. m - 1 \in Nat
  BY <1>1
<1> QED BY <1>1, <1>2

----------------------------------------------------------------------------
(* What statements make of a schema.                                       *)

\* The schema after the first n statements, for each n.
Stages(facts, s, v) ==
    v = [n \in 0..Len(s) |-> IF n = 0 THEN facts ELSE Apply(s[n], v[n - 1])]

LEMMA StagesExist == ASSUME NEW facts, NEW S, NEW s \in Seq(S) PROVE \E v : Stages(facts, s, v)
<1> DEFINE Upto(n, v) == v = [k \in 0..n |-> IF k = 0 THEN facts ELSE Apply(s[k], v[k - 1])]
           T == {n \in Nat : \E v : Upto(n, v)}
<1>1. 0 \in T
  <2> Upto(0, [k \in 0..0 |-> facts])
    OBVIOUS
  <2> QED OBVIOUS
<1>2. ASSUME NEW n \in T PROVE n + 1 \in T
  <2>1. PICK v : Upto(n, v)
    OBVIOUS
  <2> DEFINE w == [k \in 0..(n + 1) |-> IF k = n + 1 THEN Apply(s[k], v[n]) ELSE v[k]]
  <2>2. ASSUME NEW k \in 0..(n + 1) PROVE w[k] = IF k = 0 THEN facts ELSE Apply(s[k], w[k - 1])
    <3>1. CASE k = n + 1
      BY <3>1
    <3>2. CASE k \in 0..n
      BY <3>2, <2>1
    <3> QED BY <3>1, <3>2
  <2> HIDE DEF w
  <2>3. w = [k \in 0..(n + 1) |-> IF k = 0 THEN facts ELSE Apply(s[k], w[k - 1])]
    <3>1. w = [k \in 0..(n + 1) |-> w[k]]
      BY DEF w
    <3> QED BY <3>1, <2>2
  <2> QED BY <2>3
<1> HIDE DEF T
<1>3. T = Nat
  BY <1>1, <1>2, Induction DEF T
<1> QED BY <1>3 DEF T, Stages

LEMMA StagesAre ==
    ASSUME NEW facts, NEW S, NEW s \in Seq(S)
    PROVE  \E v : /\ Stages(facts, s, v)
                  /\ After(facts, s) = v[Len(s)]
<1> DEFINE u == CHOOSE v : v = [n \in 0..Len(s) |-> IF n = 0 THEN facts ELSE Apply(s[n], v[n - 1])]
<1>1. After(facts, s) = u[Len(s)]
  BY DEF After
<1>2. Stages(facts, s, u)
  BY StagesExist DEF Stages
<1> QED BY <1>1, <1>2

LEMMA StageValues ==
    ASSUME NEW facts, NEW S, NEW s \in Seq(S), NEW v, Stages(facts, s, v)
    PROVE  v[0] = facts /\ \A n \in 1..Len(s) : v[n] = Apply(s[n], v[n - 1])
BY DEF Stages

LEMMA AfterNothing == ASSUME NEW facts PROVE After(facts, <<>>) = facts
<1>1. <<>> \in Seq({}) /\ Len(<<>>) = 0
  OBVIOUS
<1>2. PICK v : Stages(facts, <<>>, v) /\ After(facts, <<>>) = v[Len(<<>>)]
  BY <1>1, StagesAre
<1>3. v[0] = facts
  BY <1>2, <1>1 DEF Stages
<1> QED BY <1>1, <1>2, <1>3

LEMMA AfterOneMore ==
    ASSUME NEW facts, NEW S, NEW s \in Seq(S), NEW x \in S
    PROVE  After(facts, Append(s, x)) = Apply(x, After(facts, s))
<1> DEFINE t == Append(s, x)
<1>1. /\ t \in Seq(S) /\ Len(t) = Len(s) + 1 /\ Len(s) \in Nat
      /\ t[Len(s) + 1] = x /\ \A n \in 1..Len(s) : t[n] = s[n]
  OBVIOUS
<1> HIDE DEF t
<1>2. PICK v : Stages(facts, s, v) /\ After(facts, s) = v[Len(s)]
  BY StagesAre
<1>3. PICK w : Stages(facts, t, w) /\ After(facts, t) = w[Len(t)]
  BY <1>1, StagesAre
<1>4. v[0] = facts /\ \A n \in 1..Len(s) : v[n] = Apply(s[n], v[n - 1])
  BY <1>2, StageValues
<1>5. w[0] = facts /\ \A n \in 1..Len(t) : w[n] = Apply(t[n], w[n - 1])
  BY <1>1, <1>3, StageValues
<1> DEFINE T == {n \in Nat : n <= Len(s) => v[n] = w[n]}
<1>6. 0 \in T
  BY <1>4, <1>5
<1>7. ASSUME NEW n \in T PROVE n + 1 \in T
  <2> SUFFICES ASSUME n + 1 <= Len(s) PROVE v[n + 1] = w[n + 1]
    OBVIOUS
  <2>1. n + 1 \in 1..Len(s) /\ n + 1 \in 1..Len(t) /\ (n + 1) - 1 = n /\ n <= Len(s)
    BY <1>1
  <2>2. v[n + 1] = Apply(s[n + 1], v[n])
    BY <1>4, <2>1
  <2>3. w[n + 1] = Apply(s[n + 1], w[n])
    BY <1>1, <1>5, <2>1
  <2> QED BY <2>1, <2>2, <2>3
<1> HIDE DEF T
<1>8. T = Nat
  BY <1>6, <1>7, Induction DEF T
<1>9. v[Len(s)] = w[Len(s)]
  BY <1>1, <1>8 DEF T
<1>10. Len(s) + 1 \in 1..Len(t) /\ (Len(s) + 1) - 1 = Len(s)
  BY <1>1
<1>11. w[Len(t)] = Apply(x, w[Len(s)])
  BY <1>1, <1>5, <1>10
<1> QED BY <1>2, <1>3, <1>9, <1>11 DEF t

LEMMA AfterBoth ==
    ASSUME NEW facts, NEW S, NEW s \in Seq(S), NEW t \in Seq(S)
    PROVE  After(facts, s \o t) = After(After(facts, s), t)
<1> DEFINE T == {n \in Nat : \A r \in Seq(S) : Len(r) = n => After(facts, s \o r) = After(After(facts, s), r)}
<1>1. 0 \in T
  <2> SUFFICES ASSUME NEW r \in Seq(S), Len(r) = 0 PROVE After(facts, s \o r) = After(After(facts, s), r)
    OBVIOUS
  <2>1. r = <<>> /\ s \o r = s
    BY EmptySeq, ConcatEmptySeq
  <2> QED BY <2>1, AfterNothing
<1>2. ASSUME NEW n \in T PROVE n + 1 \in T
  <2> SUFFICES ASSUME NEW r \in Seq(S), Len(r) = n + 1 PROVE After(facts, s \o r) = After(After(facts, s), r)
    OBVIOUS
  <2>0. r # <<>>
    OBVIOUS
  <2>1. PICK q \in Seq(S), x \in S : r = Append(q, x)
    BY <2>0, SequenceEmptyOrAppend
  <2>2. Len(q) = n
    BY <2>1
  <2>3. s \o r = Append(s \o q, x) /\ s \o q \in Seq(S)
    BY <2>1
  <2>4. After(facts, s \o r) = Apply(x, After(facts, s \o q))
    <3>1. After(facts, Append(s \o q, x)) = Apply(x, After(facts, s \o q))
      BY <2>3, AfterOneMore, Zenon
    <3> QED BY <2>3, <3>1, Zenon
  <2>5. After(After(facts, s), r) = Apply(x, After(After(facts, s), q))
    BY <2>1, AfterOneMore
  <2> QED BY <2>2, <2>4, <2>5
<1> HIDE DEF T
<1>3. T = Nat
  BY <1>1, <1>2, Induction DEF T
<1>4. Len(t) \in T
  BY <1>3
<1> QED BY <1>4 DEF T

\* Statements that are possible one after another, and lead from one schema
\* to another.
Leads(facts, s, result) ==
    /\ \A n \in 1..Len(s) : Possible(s[n], After(facts, SubSeq(s, 1, n - 1)))
    /\ After(facts, s) = result

LEMMA LeadsNowhere == ASSUME NEW facts PROVE Leads(facts, <<>>, facts)
BY AfterNothing DEF Leads

LEMMA LeadsOneMore ==
    ASSUME NEW facts, NEW S, NEW s \in Seq(S), NEW x \in S, NEW result,
           Leads(facts, s, result), Possible(x, result)
    PROVE  Leads(facts, Append(s, x), Apply(x, result))
<1>1. After(facts, Append(s, x)) = Apply(x, result)
  BY AfterOneMore DEF Leads
<1>2. ASSUME NEW n \in 1..Len(Append(s, x))
      PROVE  Possible(Append(s, x)[n], After(facts, SubSeq(Append(s, x), 1, n - 1)))
  <2>1. n - 1 \in 0..Len(s) /\ Len(s) \in Nat
    OBVIOUS
  <2>2. SubSeq(Append(s, x), 1, n - 1) = SubSeq(s, 1, n - 1)
    BY <2>1
  <2>3. CASE n = Len(s) + 1
    <3>1. SubSeq(s, 1, n - 1) = s /\ Append(s, x)[n] = x
      BY <2>1, <2>3, SubSeqFull
    <3>2. After(facts, s) = result
      BY DEF Leads
    <3> QED BY <2>2, <3>1, <3>2
  <2>4. CASE n \in 1..Len(s)
    <3>1. Append(s, x)[n] = s[n]
      BY <2>4
    <3>2. Possible(s[n], After(facts, SubSeq(s, 1, n - 1)))
      BY <2>4 DEF Leads
    <3> QED BY <2>2, <3>1, <3>2
  <2> QED BY <2>1, <2>3, <2>4
<1> QED BY <1>1, <1>2 DEF Leads

LEMMA LeadsOn ==
    ASSUME NEW facts, NEW S, NEW s \in Seq(S), NEW t \in Seq(S), NEW between, NEW result,
           Leads(facts, s, between), Leads(between, t, result)
    PROVE  Leads(facts, s \o t, result)
<1>1. After(facts, s \o t) = result
  BY AfterBoth DEF Leads
<1>2. ASSUME NEW n \in 1..Len(s \o t)
      PROVE  Possible((s \o t)[n], After(facts, SubSeq(s \o t, 1, n - 1)))
  <2>1. Len(s) \in Nat /\ Len(t) \in Nat /\ Len(s \o t) = Len(s) + Len(t)
    OBVIOUS
  <2>2. CASE n <= Len(s)
    <3>1. SubSeq(s \o t, 1, n - 1) = SubSeq(s, 1, n - 1) /\ (s \o t)[n] = s[n]
      BY <2>1, <2>2
    <3>2. Possible(s[n], After(facts, SubSeq(s, 1, n - 1)))
      BY <2>1, <2>2 DEF Leads
    <3> QED BY <3>1, <3>2
  <2>3. CASE n > Len(s)
    <3> DEFINE m == n - Len(s)
    <3>1. m \in 1..Len(t) /\ (s \o t)[n] = t[m]
      BY <2>1, <2>3
    <3>2. SubSeq(s \o t, 1, n - 1) = s \o SubSeq(t, 1, m - 1)
      BY <2>1, <2>3, <3>1
    <3>3. PICK q \in Seq(S) : q = SubSeq(t, 1, m - 1)
      <4>1. m - 1 \in 0..Len(t)
        BY <2>1, <3>1
      <4> HIDE DEF m
      <4>2. SubSeq(t, 1, m - 1) \in Seq(S)
        BY <2>1, <4>1
      <4> QED BY <4>2
    <3> HIDE DEF m
    <3>4. After(facts, s \o q) = After(After(facts, s), q)
      BY AfterBoth
    <3>5. After(facts, s) = between
      BY DEF Leads
    <3>6. Possible(t[m], After(between, SubSeq(t, 1, m - 1)))
      BY <3>1 DEF Leads
    <3> QED BY <3>1, <3>2, <3>3, <3>4, <3>5, <3>6
  <2> QED BY <2>1, <2>2, <2>3
<1> QED BY <1>1, <1>2 DEF Leads

----------------------------------------------------------------------------
(* Single statements.                                                      *)

LEMMA CreateTableLeads ==
    ASSUME NEW A, NEW t, NEW refs, NEW uniques,
           \A f \in A : f[2] # t, \A u \in refs : Table(u) \in A
    PROVE  LET s == CreateTable(t, refs, uniques)
           IN  Possible(s, A) /\ Apply(s, A) = A \cup s.facts
<1>1. \A u : Table(t)[2] = t /\ Table(t)[1] = "table" /\ References(t, u)[1] = "references" /\ References(t, u)[3] = u
  BY DEF Table, References
<1>2. \A c : Unique(t, c)[1] = "unique"
  BY DEF Unique
<1> HIDE DEF Table
<1>3. \A f \in CreateTable(t, refs, uniques).facts : f[1] = "references" => f[3] \in refs
  BY <1>1, <1>2 DEF CreateTable, Statement
<1> QED BY <1>1, <1>3 DEF CreateTable, Statement, Possible, Apply

LEMMA DropTableLeads ==
    ASSUME NEW A, NEW G, NEW t, NEW refs,
           \A f \in A : f[2] # t, \A f \in G : f[2] = t, Table(t) \in G,
           \A f \in A \cup G : f[1] = "references" => f[3] # t
    PROVE  LET s == DropTable(t, refs)
           IN  Possible(s, A \cup G) /\ Apply(s, A \cup G) = A
BY DEF DropTable, Statement, Possible, Apply, AboutTable

LEMMA CreateLeads ==
    ASSUME NEW A, NEW t, NEW f, Table(t) \in A, f \notin A
    PROVE  LET s == Statement("create", t, {f})
           IN  Possible(s, A) /\ Apply(s, A) = A \cup {f}
BY DEF Statement, Possible, Apply

LEMMA DropLeads ==
    ASSUME NEW A, NEW t, NEW f, f \notin A
    PROVE  LET s == Statement("drop", t, {f})
           IN  Possible(s, A \cup {f}) /\ Apply(s, A \cup {f}) = A
BY DEF Statement, Possible, Apply

----------------------------------------------------------------------------
(* The revisions, one after another, up and down.                          *)

EventTable == {Table("events"), References("events", "users")}
BookingTable == {Table("bookings"), References("bookings", "events"), References("bookings", "users")}
PaymentTable == {Table("payments"), References("payments", "bookings"), Unique("payments", "booking_id")}
JobTable == {Table("jobs"), References("jobs", "events"), References("jobs", "payments")}
PaymentOrders == Unique("payments", "order_id")

One == UserModel \cup EventTable \cup BookingTable \cup (PaymentTable \cup {PaymentOrders}) \cup JobModel
Two == One \cup ProfileModel
Three == Two \cup ReviewModel
Four == Three \cup {Index("bookings", "event_id")} \cup {Index("bookings", "user_id")}
    \cup {Index("events", "city")} \cup {Index("events", "date")} \cup {Index("events", "user_id")}
Five == Four \cup {Column("payments", "gateway_payment_id")} \cup {Unique("payments", "gateway_payment_id")}

\* Of a table, and what it refers to.
About(facts, t, refs) ==
    \A f \in facts : f[2] = t /\ (f[1] = "references" => f[3] \in refs)

LEMMA Groups ==
    /\ About(UserModel, "users", {})
    /\ About({Table("users")}, "users", {})
    /\ About(EventTable, "events", {"users"})
    /\ About(BookingTable, "bookings", {"events", "users"})
    /\ About(PaymentTable, "payments", {"bookings"})
    /\ About(PaymentTable \cup {PaymentOrders}, "payments", {"bookings"})
    /\ About(JobTable, "jobs", {"events", "payments"})
    /\ About(JobModel, "jobs", {"events", "payments"})
    /\ About(ProfileModel, "organizer_profiles", {"users"})
    /\ About(ReviewModel, "reviews", {"bookings"})
BY DEF About, UserModel, EventTable, BookingTable, PaymentTable, PaymentOrders, JobTable, JobModel,
       ProfileModel, ReviewModel, Table, References, Unique, Index

LEMMA TablesThere ==
    /\ Table("users") \in UserModel
    /\ Table("events") \in EventTable
    /\ Table("bookings") \in BookingTable
    /\ Table("payments") \in PaymentTable
    /\ Table("jobs") \in JobTable
    /\ Table("organizer_profiles") \in ProfileModel
    /\ Table("reviews") \in ReviewModel
BY DEF UserModel, EventTable, BookingTable, PaymentTable, JobTable, ProfileModel, ReviewModel

\* One statement by itself.
LEMMA LeadsAlone ==
    ASSUME NEW facts, NEW x, NEW result, Possible(x, facts), Apply(x, facts) = result
    PROVE  Leads(facts, <<x>>, result)
<1>1. <<>> \in Seq({x}) /\ Append(<<>>, x) = <<x>>
  OBVIOUS
<1>2. Leads(facts, <<>>, facts)
  BY LeadsNowhere
<1>3. Leads(facts, Append(<<>>, x), Apply(x, facts))
  BY <1>1, <1>2, LeadsOneMore
<1> QED BY <1>1, <1>3

\* One statement more.
LEMMA LeadsThen ==
    ASSUME NEW facts, NEW S, NEW s \in Seq(S), NEW x \in S, NEW between, NEW result, NEW t,
           Leads(facts, s, between), Possible(x, between), Apply(x, between) = result, t = Append(s, x)
    PROVE  Leads(facts, t, result)
BY LeadsOneMore

\* The same, for long scripts.
Follows(x, before, after) == Possible(x, before) /\ Apply(x, before) = after
Grows(s, x, t) == \E S : s \in Seq(S) /\ x \in S /\ t = Append(s, x)

LEMMA LeadsFurther ==
    ASSUME NEW facts, NEW s, NEW x, NEW between, NEW result, NEW t,
           Leads(facts, s, between), Follows(x, between, result), Grows(s, x, t)
    PROVE  Leads(facts, t, result)
<1>1. PICK S : s \in Seq(S) /\ x \in S /\ t = Append(s, x)
  BY DEF Grows
<1> QED BY <1>1, LeadsThen DEF Follows

LEMMA UpOne == Leads({}, InitialSchema, One)
<1> DEFINE a1 == CreateTable("users", {}, {})
           a2 == CreateUnique("users", "email")
           a3 == CreateTable("events", {"users"}, {})
           a4 == CreateTable("bookings", {"events", "users"}, {})
           a5 == CreateTable("payments", {"bookings"}, {"booking_id"})
           a6 == CreateUnique("payments", "order_id")
           a7 == CreateTable("jobs", {"events", "payments"}, {})
           a8 == CreateIndex("jobs", "task_id")
           S == {a1, a2, a3, a4, a5, a6, a7, a8}
           R1 == {Table("users")}
           R3 == UserModel \cup EventTable
           R4 == R3 \cup BookingTable
           R5 == R4 \cup PaymentTable
           R6 == R4 \cup (PaymentTable \cup {PaymentOrders})
           R7 == R6 \cup JobTable
<1>1. Possible(a1, {}) /\ Apply(a1, {}) = R1
  <2>1. a1.facts = {Table("users")}
    BY DEF CreateTable, Statement
  <2> QED BY <2>1, CreateTableLeads
<1>2. Possible(a2, R1) /\ Apply(a2, R1) = UserModel
  <2>1. Unique("users", "email") \notin {Table("users")}
    BY DEF Unique, Table
  <2>2. a2 = Statement("create", "users", {Unique("users", "email")})
    BY DEF CreateUnique
  <2>3. Possible(a2, R1) /\ Apply(a2, R1) = R1 \cup {Unique("users", "email")}
    <3>1. Table("users") \in R1 /\ Unique("users", "email") \notin R1
      BY <2>1
    <3> HIDE DEF R1
    <3> QED BY <2>2, <3>1, CreateLeads
  <2> QED BY <2>3 DEF UserModel
<1>3. Possible(a3, UserModel) /\ Apply(a3, UserModel) = R3
  <2>1. a3.facts = EventTable
    BY DEF CreateTable, Statement, EventTable
  <2>2. \A f \in UserModel : f[2] # "events"
    BY Groups DEF About
  <2> QED BY <2>1, <2>2, TablesThere, CreateTableLeads
<1>4. Possible(a4, R3) /\ Apply(a4, R3) = R4
  <2>1. a4.facts = BookingTable
    BY DEF CreateTable, Statement, BookingTable
  <2>2. \A f \in R3 : f[2] # "bookings"
    BY Groups DEF About
  <2> QED BY <2>1, <2>2, TablesThere, CreateTableLeads
<1>5. Possible(a5, R4) /\ Apply(a5, R4) = R5
  <2>1. a5.facts = PaymentTable
    BY DEF CreateTable, Statement, PaymentTable
  <2>2. \A f \in R4 : f[2] # "payments"
    BY Groups DEF About
  <2> QED BY <2>1, <2>2, TablesThere, CreateTableLeads
<1>6. Possible(a6, R5) /\ Apply(a6, R5) = R6
  <2>1. PaymentOrders \notin PaymentTable
    BY DEF PaymentOrders, PaymentTable, Unique, Table, References
  <2>2. \A f \in R4 : f[2] # "payments"
    BY Groups DEF About
  <2>3. PaymentOrders[2] = "payments"
    BY DEF PaymentOrders, Unique
  <2>4. a6 = Statement("create", "payments", {PaymentOrders})
    BY DEF CreateUnique, PaymentOrders
  <2>5. Apply(a6, R5) = R5 \cup {PaymentOrders} /\ Possible(a6, R5)
    BY <2>1, <2>2, <2>3, <2>4, TablesThere, CreateLeads
  <2> QED BY <2>5
<1>7. Possible(a7, R6) /\ Apply(a7, R6) = R7
  <2>1. a7.facts = JobTable
    BY DEF CreateTable, Statement, JobTable
  <2>2. \A f \in R6 : f[2] # "jobs"
    BY Groups DEF About
  <2> QED BY <2>1, <2>2, TablesThere, CreateTableLeads
<1>8. Possible(a8, R7) /\ Apply(a8, R7) = One
  <2>1. Index("jobs", "task_id") \notin JobTable
    BY DEF JobTable, Table, References, Index
  <2>2. \A f \in R6 : f[2] # "jobs"
    BY Groups DEF About
  <2>3. Index("jobs", "task_id")[2] = "jobs"
    BY DEF Index
  <2>4. a8 = Statement("create", "jobs", {Index("jobs", "task_id")})
    BY DEF CreateIndex
  <2>5. Apply(a8, R7) = R7 \cup {Index("jobs", "task_id")} /\ Possible(a8, R7)
    <3>1. Table("jobs") \in R7 /\ Index("jobs", "task_id") \notin R7
      BY <2>1, <2>2, <2>3, TablesThere
    <3> QED BY <2>4, <3>1, CreateLeads
  <2>6. JobModel = JobTable \cup {Index("jobs", "task_id")}
    BY DEF JobModel, JobTable
  <2> QED BY <2>5, <2>6 DEF One
<1>9. InitialSchema = <<a1, a2, a3, a4, a5, a6, a7, a8>>
  BY DEF InitialSchema
<1> HIDE DEF a1, a2, a3, a4, a5, a6, a7, a8, R1, R3, R4, R5, R6, R7
<1> DEFINE s1 == <<a1>>
           s2 == <<a1, a2>>
           s3 == <<a1, a2, a3>>
           s4 == <<a1, a2, a3, a4>>
           s5 == <<a1, a2, a3, a4, a5>>
           s6 == <<a1, a2, a3, a4, a5, a6>>
           s7 == <<a1, a2, a3, a4, a5, a6, a7>>
<1>10. Leads({}, s1, R1)
  BY <1>1, LeadsAlone
<1>11. /\ Follows(a2, R1, UserModel) /\ Follows(a3, UserModel, R3) /\ Follows(a4, R3, R4)
       /\ Follows(a5, R4, R5) /\ Follows(a6, R5, R6)
       /\ Follows(a7, R6, R7) /\ Follows(a8, R7, One)
  BY <1>2, <1>3, <1>4, <1>5, <1>6, <1>7, <1>8 DEF Follows
<1>12. /\ Grows(s1, a2, s2) /\ Grows(s2, a3, s3) /\ Grows(s3, a4, s4) /\ Grows(s4, a5, s5)
       /\ Grows(s5, a6, s6) /\ Grows(s6, a7, s7) /\ Grows(s7, a8, InitialSchema)
  <2>1. a1 \in S /\ a2 \in S /\ a3 \in S /\ a4 \in S /\ a5 \in S /\ a6 \in S /\ a7 \in S /\ a8 \in S
    OBVIOUS
  <2>2. /\ s1 \in Seq(S) /\ s2 \in Seq(S) /\ s3 \in Seq(S) /\ s4 \in Seq(S)
        /\ s5 \in Seq(S) /\ s6 \in Seq(S) /\ s7 \in Seq(S)
    OBVIOUS
  <2>3. /\ s2 = Append(s1, a2) /\ s3 = Append(s2, a3) /\ s4 = Append(s3, a4)
        /\ s5 = Append(s4, a5) /\ s6 = Append(s5, a6) /\ s7 = Append(s6, a7)
        /\ InitialSchema = Append(s7, a8)
    BY <1>9
  <2> HIDE DEF S, s1, s2, s3, s4, s5, s6, s7
  <2> QED BY <2>1, <2>2, <2>3, Zenon DEF Grows
<1> HIDE DEF s1, s2, s3, s4, s5, s6, s7
<1> QED BY <1>10, <1>11, <1>12, LeadsFurther, Zenon

LEMMA DownOne == Leads(One, DropInitial, {})
<1> DEFINE a1 == DropIndex("jobs", "task_id")
           a2 == DropTable("jobs", {"events", "payments"})
           a3 == DropUnique("payments", "order_id")
           a4 == DropTable("payments", {"bookings"})
           a5 == DropTable("bookings", {"events", "users"})
           a6 == DropTable("events", {"users"})
           a7 == DropUnique("users", "email")
           a8 == DropTable("users", {})
           S == {a1, a2, a3, a4, a5, a6, a7, a8}
           R1 == {Table("users")}
           R3 == UserModel \cup EventTable
           R4 == R3 \cup BookingTable
           R5 == R4 \cup PaymentTable
           R6 == R4 \cup (PaymentTable \cup {PaymentOrders})
           R7 == R6 \cup JobTable
<1>1. Possible(a1, One) /\ Apply(a1, One) = R7
  <2>1. Index("jobs", "task_id") \notin JobTable
    BY DEF JobTable, Table, References, Index
  <2>2. \A f \in R6 : f[2] # "jobs"
    BY Groups DEF About
  <2>3. Index("jobs", "task_id")[2] = "jobs"
    BY DEF Index
  <2>4. JobModel = JobTable \cup {Index("jobs", "task_id")}
    BY DEF JobModel, JobTable
  <2>5. One = R7 \cup {Index("jobs", "task_id")} /\ Index("jobs", "task_id") \notin R7
    BY <2>1, <2>2, <2>3, <2>4 DEF One
  <2> HIDE DEF R7
  <2> QED BY <2>5, DropLeads DEF DropIndex
<1>2. Possible(a2, R7) /\ Apply(a2, R7) = R6
  <2>1. /\ \A f \in R6 : f[2] # "jobs"
        /\ \A f \in JobTable : f[2] = "jobs"
        /\ \A f \in R6 \cup JobTable : f[1] = "references" => f[3] # "jobs"
    BY Groups DEF About
  <2> HIDE DEF R6
  <2> QED BY <2>1, TablesThere, DropTableLeads
<1>3. Possible(a3, R6) /\ Apply(a3, R6) = R5
  <2>1. PaymentOrders \notin PaymentTable
    BY DEF PaymentOrders, PaymentTable, Unique, Table, References
  <2>2. \A f \in R4 : f[2] # "payments"
    BY Groups DEF About
  <2>3. PaymentOrders[2] = "payments" /\ a3 = Statement("drop", "payments", {PaymentOrders})
    BY DEF PaymentOrders, Unique, DropUnique
  <2>4. R6 = R5 \cup {PaymentOrders} /\ PaymentOrders \notin R5
    BY <2>1, <2>2, <2>3
  <2> HIDE DEF R5
  <2> QED BY <2>3, <2>4, DropLeads
<1>4. Possible(a4, R5) /\ Apply(a4, R5) = R4
  <2>1. /\ \A f \in R4 : f[2] # "payments"
        /\ \A f \in PaymentTable : f[2] = "payments"
        /\ \A f \in R4 \cup PaymentTable : f[1] = "references" => f[3] # "payments"
    BY Groups DEF About
  <2> HIDE DEF R4
  <2> QED BY <2>1, TablesThere, DropTableLeads
<1>5. Possible(a5, R4) /\ Apply(a5, R4) = R3
  <2>1. /\ \A f \in R3 : f[2] # "bookings"
        /\ \A f \in BookingTable : f[2] = "bookings"
        /\ \A f \in R3 \cup BookingTable : f[1] = "references" => f[3] # "bookings"
    BY Groups DEF About
  <2> HIDE DEF R3
  <2> QED BY <2>1, TablesThere, DropTableLeads
<1>6. Possible(a6, R3) /\ Apply(a6, R3) = UserModel
  <2>1. /\ \A f \in UserModel : f[2] # "events"
        /\ \A f \in EventTable : f[2] = "events"
        /\ \A f \in UserModel \cup EventTable : f[1] = "references" => f[3] # "events"
    BY Groups DEF About
  <2> QED BY <2>1, TablesThere, DropTableLeads
<1>7. Possible(a7, UserModel) /\ Apply(a7, UserModel) = R1
  <2>1. UserModel = R1 \cup {Unique("users", "email")} /\ Unique("users", "email") \notin R1
    BY DEF UserModel, Unique, Table
  <2> HIDE DEF R1
  <2> QED BY <2>1, DropLeads DEF DropUnique
<1>8. Possible(a8, R1) /\ Apply(a8, R1) = {}
  <2>1. /\ \A f \in {} : f[2] # "users"
        /\ \A f \in R1 : f[2] = "users"
        /\ \A f \in {} \cup R1 : f[1] = "references" => f[3] # "users"
        /\ {} \cup R1 = R1 /\ Table("users") \in R1
    BY Groups DEF About
  <2> HIDE DEF R1
  <2>2. Possible(a8, {} \cup R1) /\ Apply(a8, {} \cup R1) = {}
    BY <2>1, DropTableLeads
  <2> QED BY <2>1, <2>2
<1>9. DropInitial = <<a1, a2, a3, a4, a5, a6, a7, a8>>
  BY DEF DropInitial
<1> HIDE DEF a1, a2, a3, a4, a5, a6, a7, a8, R1, R3, R4, R5, R6, R7
<1> DEFINE s1 == <<a1>>
           s2 == <<a1, a2>>
           s3 == <<a1, a2, a3>>
           s4 == <<a1, a2, a3, a4>>
           s5 == <<a1, a2, a3, a4, a5>>
           s6 == <<a1, a2, a3, a4, a5, a6>>
           s7 == <<a1, a2, a3, a4, a5, a6, a7>>
<1>10. Leads(One, s1, R7)
  BY <1>1, LeadsAlone
<1>11. /\ Follows(a2, R7, R6) /\ Follows(a3, R6, R5) /\ Follows(a4, R5, R4)
       /\ Follows(a5, R4, R3) /\ Follows(a6, R3, UserModel)
       /\ Follows(a7, UserModel, R1) /\ Follows(a8, R1, {})
  BY <1>2, <1>3, <1>4, <1>5, <1>6, <1>7, <1>8 DEF Follows
<1>12. /\ Grows(s1, a2, s2) /\ Grows(s2, a3, s3) /\ Grows(s3, a4, s4) /\ Grows(s4, a5, s5)
       /\ Grows(s5, a6, s6) /\ Grows(s6, a7, s7) /\ Grows(s7, a8, DropInitial)
  <2>1. a1 \in S /\ a2 \in S /\ a3 \in S /\ a4 \in S /\ a5 \in S /\ a6 \in S /\ a7 \in S /\ a8 \in S
    OBVIOUS
  <2>2. /\ s1 \in Seq(S) /\ s2 \in Seq(S) /\ s3 \in Seq(S) /\ s4 \in Seq(S)
        /\ s5 \in Seq(S) /\ s6 \in Seq(S) /\ s7 \in Seq(S)
    OBVIOUS
  <2>3. /\ s2 = Append(s1, a2) /\ s3 = Append(s2, a3) /\ s4 = Append(s3, a4)
        /\ s5 = Append(s4, a5) /\ s6 = Append(s5, a6) /\ s7 = Append(s6, a7)
        /\ DropInitial = Append(s7, a8)
    BY <1>9
  <2> HIDE DEF S, s1, s2, s3, s4, s5, s6, s7
  <2> QED BY <2>1, <2>2, <2>3, Zenon DEF Grows
<1> HIDE DEF s1, s2, s3, s4, s5, s6, s7
<1> QED BY <1>10, <1>11, <1>12, LeadsFurther, Zenon

LEMMA UpTwo == Leads(One, AddProfiles, Two)
<1>1. CreateTable("organizer_profiles", {"users"}, {"user_id"}).facts = ProfileModel
  BY DEF CreateTable, Statement, ProfileModel
<1>2. Table("users") \in One /\ \A f \in One : f[2] # "organizer_profiles"
  BY Groups, TablesThere DEF About, One
<1> DEFINE x == CreateTable("organizer_profiles", {"users"}, {"user_id"})
<1>3. Possible(x, One) /\ Apply(x, One) = Two
  BY <1>1, <1>2, CreateTableLeads DEF Two
<1> QED BY <1>3, LeadsAlone DEF AddProfiles

LEMMA DownTwo == Leads(Two, DropProfiles, One)
<1>1. /\ \A f \in One : f[2] # "organizer_profiles"
      /\ \A f \in ProfileModel : f[2] = "organizer_profiles"
      /\ \A f \in One \cup ProfileModel : f[1] = "references" => f[3] # "organizer_profiles"
  BY Groups DEF About, One
<1> QED BY <1>1, TablesThere, DropTableLeads, LeadsAlone DEF DropProfiles, Two

LEMMA UpThree == Leads(Two, AddReviews, Three)
<1>1. CreateTable("reviews", {"bookings"}, {"booking_id"}).facts = ReviewModel
  BY DEF CreateTable, Statement, ReviewModel
<1>2. Table("bookings") \in Two /\ \A f \in Two : f[2] # "reviews"
  BY Groups, TablesThere DEF About, One, Two
<1> DEFINE x == CreateTable("reviews", {"bookings"}, {"booking_id"})
<1>3. Possible(x, Two) /\ Apply(x, Two) = Three
  BY <1>1, <1>2, CreateTableLeads DEF Three
<1> QED BY <1>3, LeadsAlone DEF AddReviews

LEMMA DownThree == Leads(Three, DropReviews, Two)
<1>1. /\ \A f \in Two : f[2] # "reviews"
      /\ \A f \in ReviewModel : f[2] = "reviews"
      /\ \A f \in Two \cup ReviewModel : f[1] = "references" => f[3] # "reviews"
  BY Groups DEF About, One, Two
<1> QED BY <1>1, TablesThere, DropTableLeads, LeadsAlone DEF DropReviews, Three

\* What the last two revisions add is new.
LEMMA Additions ==
    \A f \in Three : /\ f[1] = "index" => f[2] = "jobs"
                     /\ f[1] # "column"
                     /\ f[1] = "unique" => f[3] # "gateway_payment_id"
<1>1. One = UserModel \cup EventTable \cup BookingTable \cup (PaymentTable \cup {PaymentOrders}) \cup JobModel
  BY DEF One
<1>2. \A f \in UserModel \cup EventTable \cup BookingTable :
          f[1] # "index" /\ f[1] # "column" /\ (f[1] = "unique" => f[3] # "gateway_payment_id")
  BY DEF UserModel, EventTable, BookingTable, Table, References, Unique
<1>3. \A f \in PaymentTable \cup {PaymentOrders} \cup ProfileModel \cup ReviewModel :
          f[1] # "index" /\ f[1] # "column" /\ (f[1] = "unique" => f[3] # "gateway_payment_id")
  BY DEF PaymentTable, PaymentOrders, ProfileModel, ReviewModel, Table, References, Unique
<1>4. \A f \in JobModel :
          (f[1] = "index" => f[2] = "jobs") /\ f[1] # "column" /\ f[1] # "unique"
  BY DEF JobModel, Table, References, Index
<1> QED BY <1>1, <1>2, <1>3, <1>4 DEF Two, Three

LEMMA UpAndDownFour == Leads(Three, AddIndexes, Four) /\ Leads(Four, DropIndexes, Three)
<1> DEFINE a1 == CreateIndex("bookings", "event_id")
           a2 == CreateIndex("bookings", "user_id")
           a3 == CreateIndex("events", "city")
           a4 == CreateIndex("events", "date")
           a5 == CreateIndex("events", "user_id")
           d1 == DropIndex("bookings", "event_id")
           d2 == DropIndex("bookings", "user_id")
           d3 == DropIndex("events", "city")
           d4 == DropIndex("events", "date")
           d5 == DropIndex("events", "user_id")
           R1 == Three \cup {Index("bookings", "event_id")}
           R2 == R1 \cup {Index("bookings", "user_id")}
           R3 == R2 \cup {Index("events", "city")}
           R4 == R3 \cup {Index("events", "date")}
           S == {a1, a2, a3, a4, a5, d1, d2, d3, d4, d5}
<1>1. /\ Index("bookings", "event_id") \notin Three
      /\ Index("bookings", "user_id") \notin R1
      /\ Index("events", "city") \notin R2
      /\ Index("events", "date") \notin R3
      /\ Index("events", "user_id") \notin R4
  BY Additions DEF Index
<1>2. /\ Table("bookings") \in Three /\ Table("bookings") \in R1
      /\ Table("events") \in R2 /\ Table("events") \in R3 /\ Table("events") \in R4
  BY TablesThere DEF One, Two, Three
<1>3. /\ R1 = Three \cup {Index("bookings", "event_id")}
      /\ R2 = R1 \cup {Index("bookings", "user_id")}
      /\ R3 = R2 \cup {Index("events", "city")}
      /\ R4 = R3 \cup {Index("events", "date")}
      /\ Four = R4 \cup {Index("events", "user_id")}
  BY DEF Four
<1>0. /\ a1 = Statement("create", "bookings", {Index("bookings", "event_id")})
      /\ d1 = Statement("drop", "bookings", {Index("bookings", "event_id")})
      /\ a2 = Statement("create", "bookings", {Index("bookings", "user_id")})
      /\ d2 = Statement("drop", "bookings", {Index("bookings", "user_id")})
      /\ a3 = Statement("create", "events", {Index("events", "city")})
      /\ d3 = Statement("drop", "events", {Index("events", "city")})
      /\ a4 = Statement("create", "events", {Index("events", "date")})
      /\ d4 = Statement("drop", "events", {Index("events", "date")})
      /\ a5 = Statement("create", "events", {Index("events", "user_id")})
      /\ d5 = Statement("drop", "events", {Index("events", "user_id")})
  BY DEF CreateIndex, DropIndex
<1>9. AddIndexes = <<a1, a2, a3, a4, a5>> /\ DropIndexes = <<d5, d4, d3, d2, d1>>
  BY DEF AddIndexes, DropIndexes
<1> HIDE DEF R1, R2, R3, R4, a1, a2, a3, a4, a5, d1, d2, d3, d4, d5
<1>4. /\ Possible(a1, Three) /\ Apply(a1, Three) = R1
      /\ Possible(d1, R1) /\ Apply(d1, R1) = Three
  <2> DEFINE f == Index("bookings", "event_id")
  <2>1. /\ Table("bookings") \in Three /\ f \notin Three /\ R1 = Three \cup {f}
        /\ a1 = Statement("create", "bookings", {f}) /\ d1 = Statement("drop", "bookings", {f})
    BY <1>0, <1>1, <1>2, <1>3
  <2> HIDE DEF f
  <2>2. Possible(a1, Three) /\ Apply(a1, Three) = Three \cup {f}
    BY <2>1, CreateLeads
  <2>3. Possible(d1, Three \cup {f}) /\ Apply(d1, Three \cup {f}) = Three
    BY <2>1, DropLeads
  <2> QED BY <2>1, <2>2, <2>3
<1>5. /\ Possible(a2, R1) /\ Apply(a2, R1) = R2
      /\ Possible(d2, R2) /\ Apply(d2, R2) = R1
  <2> DEFINE f == Index("bookings", "user_id")
  <2>1. /\ Table("bookings") \in R1 /\ f \notin R1 /\ R2 = R1 \cup {f}
        /\ a2 = Statement("create", "bookings", {f}) /\ d2 = Statement("drop", "bookings", {f})
    BY <1>0, <1>1, <1>2, <1>3
  <2> HIDE DEF f
  <2>2. Possible(a2, R1) /\ Apply(a2, R1) = R1 \cup {f}
    BY <2>1, CreateLeads
  <2>3. Possible(d2, R1 \cup {f}) /\ Apply(d2, R1 \cup {f}) = R1
    BY <2>1, DropLeads
  <2> QED BY <2>1, <2>2, <2>3
<1>6. /\ Possible(a3, R2) /\ Apply(a3, R2) = R3
      /\ Possible(d3, R3) /\ Apply(d3, R3) = R2
  <2> DEFINE f == Index("events", "city")
  <2>1. /\ Table("events") \in R2 /\ f \notin R2 /\ R3 = R2 \cup {f}
        /\ a3 = Statement("create", "events", {f}) /\ d3 = Statement("drop", "events", {f})
    BY <1>0, <1>1, <1>2, <1>3
  <2> HIDE DEF f
  <2>2. Possible(a3, R2) /\ Apply(a3, R2) = R2 \cup {f}
    BY <2>1, CreateLeads
  <2>3. Possible(d3, R2 \cup {f}) /\ Apply(d3, R2 \cup {f}) = R2
    BY <2>1, DropLeads
  <2> QED BY <2>1, <2>2, <2>3
<1>7. /\ Possible(a4, R3) /\ Apply(a4, R3) = R4
      /\ Possible(d4, R4) /\ Apply(d4, R4) = R3
  <2> DEFINE f == Index("events", "date")
  <2>1. /\ Table("events") \in R3 /\ f \notin R3 /\ R4 = R3 \cup {f}
        /\ a4 = Statement("create", "events", {f}) /\ d4 = Statement("drop", "events", {f})
    BY <1>0, <1>1, <1>2, <1>3
  <2> HIDE DEF f
  <2>2. Possible(a4, R3) /\ Apply(a4, R3) = R3 \cup {f}
    BY <2>1, CreateLeads
  <2>3. Possible(d4, R3 \cup {f}) /\ Apply(d4, R3 \cup {f}) = R3
    BY <2>1, DropLeads
  <2> QED BY <2>1, <2>2, <2>3
<1>8. /\ Possible(a5, R4) /\ Apply(a5, R4) = Four
      /\ Possible(d5, Four) /\ Apply(d5, Four) = R4
  <2> DEFINE f == Index("events", "user_id")
  <2>1. /\ Table("events") \in R4 /\ f \notin R4 /\ Four = R4 \cup {f}
        /\ a5 = Statement("create", "events", {f}) /\ d5 = Statement("drop", "events", {f})
    BY <1>0, <1>1, <1>2, <1>3
  <2> HIDE DEF f
  <2>2. Possible(a5, R4) /\ Apply(a5, R4) = R4 \cup {f}
    BY <2>1, CreateLeads
  <2>3. Possible(d5, R4 \cup {f}) /\ Apply(d5, R4 \cup {f}) = R4
    BY <2>1, DropLeads
  <2> QED BY <2>1, <2>2, <2>3
<1>10. /\ <<a1>> \in Seq(S) /\ <<a1, a2>> \in Seq(S) /\ <<a1, a2, a3>> \in Seq(S)
       /\ <<a1, a2, a3, a4>> \in Seq(S)
       /\ <<a1, a2>> = Append(<<a1>>, a2)
       /\ <<a1, a2, a3>> = Append(<<a1, a2>>, a3)
       /\ <<a1, a2, a3, a4>> = Append(<<a1, a2, a3>>, a4)
       /\ <<a1, a2, a3, a4, a5>> = Append(<<a1, a2, a3, a4>>, a5)
  OBVIOUS
<1>11. /\ <<d5>> \in Seq(S) /\ <<d5, d4>> \in Seq(S) /\ <<d5, d4, d3>> \in Seq(S)
       /\ <<d5, d4, d3, d2>> \in Seq(S)
       /\ <<d5, d4>> = Append(<<d5>>, d4)
       /\ <<d5, d4, d3>> = Append(<<d5, d4>>, d3)
       /\ <<d5, d4, d3, d2>> = Append(<<d5, d4, d3>>, d2)
       /\ <<d5, d4, d3, d2, d1>> = Append(<<d5, d4, d3, d2>>, d1)
  OBVIOUS
<1>12. /\ a1 \in S /\ a2 \in S /\ a3 \in S /\ a4 \in S /\ a5 \in S
       /\ d1 \in S /\ d2 \in S /\ d3 \in S /\ d4 \in S /\ d5 \in S
  OBVIOUS
<1> HIDE DEF S
<1>13. Leads(Three, <<a1, a2, a3, a4, a5>>, Four)
  <2>1. Leads(Three, <<a1>>, R1)
    BY <1>4, LeadsAlone
  <2>2. Leads(Three, <<a1, a2>>, R2)
    BY <1>5, <1>10, <1>12, <2>1, LeadsThen
  <2>3. Leads(Three, <<a1, a2, a3>>, R3)
    BY <1>6, <1>10, <1>12, <2>2, LeadsThen
  <2>4. Leads(Three, <<a1, a2, a3, a4>>, R4)
    BY <1>7, <1>10, <1>12, <2>3, LeadsThen
  <2> DEFINE s == <<a1, a2, a3, a4>>
             t == <<a1, a2, a3, a4, a5>>
  <2>5. s \in Seq(S) /\ t = Append(s, a5) /\ Leads(Three, s, R4)
    BY <1>10, <2>4
  <2> HIDE DEF s, t
  <2>6. Leads(Three, t, Four)
    BY <1>8, <1>12, <2>5, LeadsThen
  <2> QED BY <2>6 DEF t
<1>14. Leads(Four, <<d5, d4, d3, d2, d1>>, Three)
  <2>1. Leads(Four, <<d5>>, R4)
    BY <1>8, LeadsAlone
  <2>2. Leads(Four, <<d5, d4>>, R3)
    BY <1>7, <1>11, <1>12, <2>1, LeadsThen
  <2>3. Leads(Four, <<d5, d4, d3>>, R2)
    BY <1>6, <1>11, <1>12, <2>2, LeadsThen
  <2>4. Leads(Four, <<d5, d4, d3, d2>>, R1)
    BY <1>5, <1>11, <1>12, <2>3, LeadsThen
  <2> QED BY <1>4, <1>11, <1>12, <2>4, LeadsThen
<1> QED BY <1>9, <1>13, <1>14

LEMMA UpAndDownFive ==
    Leads(Four, AddGatewayPaymentId, Five) /\ Leads(Five, DropGatewayPaymentId, Four)
<1> DEFINE a1 == AddColumn("payments", "gateway_payment_id")
           a2 == CreateUnique("payments", "gateway_payment_id")
           d1 == DropColumn("payments", "gateway_payment_id")
           d2 == DropUnique("payments", "gateway_payment_id")
           R1 == Four \cup {Column("payments", "gateway_payment_id")}
           S == {a1, a2, d1, d2}
<1>1. /\ Column("payments", "gateway_payment_id") \notin Four
      /\ Unique("payments", "gateway_payment_id") \notin R1
  BY Additions DEF Four, Index, Column, Unique
<1>2. Table("payments") \in Four /\ Table("payments") \in R1
  BY TablesThere DEF One, Two, Three, Four
<1>3. /\ R1 = Four \cup {Column("payments", "gateway_payment_id")}
      /\ Five = R1 \cup {Unique("payments", "gateway_payment_id")}
  BY DEF Five
<1>0. /\ a1 = Statement("create", "payments", {Column("payments", "gateway_payment_id")})
      /\ d1 = Statement("drop", "payments", {Column("payments", "gateway_payment_id")})
      /\ a2 = Statement("create", "payments", {Unique("payments", "gateway_payment_id")})
      /\ d2 = Statement("drop", "payments", {Unique("payments", "gateway_payment_id")})
  BY DEF AddColumn, DropColumn, CreateUnique, DropUnique
<1>6. AddGatewayPaymentId = <<a1, a2>> /\ DropGatewayPaymentId = <<d2, d1>>
  BY DEF AddGatewayPaymentId, DropGatewayPaymentId
<1> HIDE DEF R1, a1, a2, d1, d2
<1>4. /\ Possible(a1, Four) /\ Apply(a1, Four) = R1
      /\ Possible(d1, R1) /\ Apply(d1, R1) = Four
  <2> DEFINE f == Column("payments", "gateway_payment_id")
  <2>1. /\ Table("payments") \in Four /\ f \notin Four /\ R1 = Four \cup {f}
        /\ a1 = Statement("create", "payments", {f}) /\ d1 = Statement("drop", "payments", {f})
    BY <1>0, <1>1, <1>2, <1>3
  <2> HIDE DEF f
  <2>2. Possible(a1, Four) /\ Apply(a1, Four) = Four \cup {f}
    BY <2>1, CreateLeads
  <2>3. Possible(d1, Four \cup {f}) /\ Apply(d1, Four \cup {f}) = Four
    BY <2>1, DropLeads
  <2> QED BY <2>1, <2>2, <2>3
<1>5. /\ Possible(a2, R1) /\ Apply(a2, R1) = Five
      /\ Possible(d2, Five) /\ Apply(d2, Five) = R1
  <2> DEFINE f == Unique("payments", "gateway_payment_id")
  <2>1. /\ Table("payments") \in R1 /\ f \notin R1 /\ Five = R1 \cup {f}
        /\ a2 = Statement("create", "payments", {f}) /\ d2 = Statement("drop", "payments", {f})
    BY <1>0, <1>1, <1>2, <1>3
  <2> HIDE DEF f
  <2>2. Possible(a2, R1) /\ Apply(a2, R1) = R1 \cup {f}
    BY <2>1, CreateLeads
  <2>3. Possible(d2, R1 \cup {f}) /\ Apply(d2, R1 \cup {f}) = R1
    BY <2>1, DropLeads
  <2> QED BY <2>1, <2>2, <2>3
<1>7. /\ <<a1>> \in Seq(S) /\ <<d2>> \in Seq(S)
      /\ <<a1, a2>> = Append(<<a1>>, a2) /\ <<d2, d1>> = Append(<<d2>>, d1)
      /\ a1 \in S /\ a2 \in S /\ d1 \in S /\ d2 \in S
  OBVIOUS
<1> HIDE DEF S
<1>8. Leads(Four, <<a1, a2>>, Five)
  BY <1>4, <1>5, <1>7, LeadsAlone, LeadsThen
<1>9. Leads(Five, <<d2, d1>>, Four)
  BY <1>4, <1>5, <1>7, LeadsAlone, LeadsThen
<1> QED BY <1>6, <1>8, <1>9

----------------------------------------------------------------------------
(* What each revision, and the way to the last one, come to.               *)

LEMMA FiveRevisions ==
    /\ HeadRevision = 5
    /\ Up[1] = InitialSchema /\ Down[1] = DropInitial
    /\ Up[2] = AddProfiles /\ Down[2] = DropProfiles
    /\ Up[3] = AddReviews /\ Down[3] = DropReviews
    /\ Up[4] = AddIndexes /\ Down[4] = DropIndexes
    /\ Up[5] = AddGatewayPaymentId /\ Down[5] = DropGatewayPaymentId
BY DEF HeadRevision, Up, Down

LEMMA Revisions ==
    /\ SchemaAt[0] = {} /\ SchemaAt[1] = One /\ SchemaAt[2] = Two
    /\ SchemaAt[3] = Three /\ SchemaAt[4] = Four /\ SchemaAt[5] = Five
<1> DEFINE Is(f) == f = [r \in 0..HeadRevision |-> IF r = 0 THEN {} ELSE After(f[r - 1], Up[r])]
           at(r) == CASE r = 0 -> {} [] r = 1 -> One [] r = 2 -> Two
                          [] r = 3 -> Three [] r = 4 -> Four [] r = 5 -> Five
           known == [r \in 0..HeadRevision |-> at(r)]
<1>1. /\ After({}, Up[1]) = One /\ After(One, Up[2]) = Two /\ After(Two, Up[3]) = Three
      /\ After(Three, Up[4]) = Four /\ After(Four, Up[5]) = Five
  BY FiveRevisions, UpOne, UpTwo, UpThree, UpAndDownFour, UpAndDownFive DEF Leads
<1>2. Is(known)
  <2>1. /\ known[0] = {} /\ known[1] = One /\ known[2] = Two
        /\ known[3] = Three /\ known[4] = Four /\ known[5] = Five
    BY FiveRevisions
  <2>2. known = [r \in 0..HeadRevision |-> known[r]]
    <3> HIDE DEF at
    <3> QED OBVIOUS
  <2> HIDE DEF known
  <2>3. ASSUME NEW r \in 0..HeadRevision
        PROVE  known[r] = IF r = 0 THEN {} ELSE After(known[r - 1], Up[r])
    <3>1. r \in {0, 1, 2, 3, 4, 5}
      BY FiveRevisions
    <3> QED BY <1>1, <2>1, <3>1
  <2> QED BY <2>2, <2>3
<1>3. Is(SchemaAt)
  <2>1. SchemaAt = CHOOSE f : Is(f)
    BY DEF SchemaAt
  <2> HIDE DEF Is, known
  <2> QED BY <1>2, <2>1
<1>4. SchemaAt[0] = {} /\ \A r \in 1..5 : SchemaAt[r] = After(SchemaAt[r - 1], Up[r])
  BY <1>3, FiveRevisions
<1> HIDE DEF Is
<1>5. SchemaAt[1] = One
  BY <1>1, <1>4
<1>6. SchemaAt[2] = Two
  BY <1>1, <1>4, <1>5
<1>7. SchemaAt[3] = Three
  BY <1>1, <1>4, <1>6
<1>8. SchemaAt[4] = Four
  BY <1>1, <1>4, <1>7
<1>9. SchemaAt[5] = Five
  BY <1>1, <1>4, <1>8
<1> QED BY <1>4, <1>5, <1>6, <1>7, <1>8, <1>9

LEMMA ModelsAreFive == Models = Five
<1>1. EventModel = EventTable \cup {Index("events", "user_id")} \cup {Index("events", "date")}
                              \cup {Index("events", "city")}
  BY DEF EventModel, EventTable
<1>2. BookingModel = BookingTable \cup {Index("bookings", "user_id")} \cup {Index("bookings", "event_id")}
  BY DEF BookingModel, BookingTable
<1>3. PaymentModel = PaymentTable \cup {PaymentOrders} \cup {Column("payments", "gateway_payment_id")}
                                  \cup {Unique("payments", "gateway_payment_id")}
  BY DEF PaymentModel, PaymentTable, PaymentOrders
<1>4. Models = UserModel \cup EventModel \cup BookingModel \cup PaymentModel \cup JobModel
                         \cup ProfileModel \cup ReviewModel
  BY DEF Models
<1> QED BY <1>1, <1>2, <1>3, <1>4 DEF One, Two, Three, Four, Five

\* The reads and writes of the API.
WithPayment == {"gateway_payment_id"}
Accesses ==
    {Write("payments", WithPayment), Read("payments", WithPayment)} \cup
    UNION {{Write(u, {}), Read(u, {})} :
           u \in {"users", "events", "bookings", "organizer_profiles", "reviews"}}

\* A transaction of the API consists of such statements.
LEMMA WritesAccess == ASSUME NEW w \in Writes PROVE w \in Seq(Accesses)
<1> DEFINE S == Accesses
<1>1. /\ Write("payments", {"gateway_payment_id"}) \in S /\ Read("payments", {"gateway_payment_id"}) \in S
      /\ \A t \in {"users", "events", "bookings", "organizer_profiles", "reviews"} :
            Write(t, {}) \in S /\ Read(t, {}) \in S
  BY DEF Accesses, WithPayment
<1> HIDE DEF S
<1>2. /\ \A a, b \in S : <<a, b>> \in Seq(S)
      /\ \A a, b, c \in S : <<a, b, c>> \in Seq(S)
      /\ \A a, b, c, d, e \in S : <<a, b, c, d, e>> \in Seq(S)
  OBVIOUS
<1>3. <<Read("events", {}), Write("events", {}), Write("bookings", {}), Read("users", {}),
        Write("payments", {"gateway_payment_id"})>> \in Seq(S)
  BY <1>1, <1>2
<1>4. <<Read("users", {}), Write("users", {}), Write("organizer_profiles", {})>> \in Seq(S)
  BY <1>1, <1>2
<1>5. <<Read("bookings", {}), Read("payments", {"gateway_payment_id"}), Read("events", {}),
        Read("reviews", {}), Write("reviews", {})>> \in Seq(S)
  BY <1>1, <1>2
<1>6. <<Read("payments", {"gateway_payment_id"}), Write("payments", {"gateway_payment_id"})>> \in Seq(S)
  BY <1>1, <1>2
<1> QED BY <1>3, <1>4, <1>5, <1>6, Zenon DEF S, Writes

\* Everything that is ever run.
Scripts == {InitialSchema, AddProfiles, AddReviews, AddIndexes, AddGatewayPaymentId,
            DropInitial, DropProfiles, DropReviews, DropIndexes, DropGatewayPaymentId} \cup Writes
Known == UNION {Range(s) : s \in Scripts}

LEMMA ScriptsAreKnown == ASSUME NEW s \in Scripts PROVE s \in Seq(Known)
<1>1. ASSUME NEW a PROVE \E S : <<a>> \in Seq(S)
  <2> <<a>> \in Seq({a})
    OBVIOUS
  <2> QED OBVIOUS
<1>2. ASSUME NEW a, NEW b PROVE \E S : <<a, b>> \in Seq(S)
  <2> <<a, b>> \in Seq({a, b})
    OBVIOUS
  <2> QED OBVIOUS
<1>5. ASSUME NEW a, NEW b, NEW c, NEW d, NEW e PROVE \E S : <<a, b, c, d, e>> \in Seq(S)
  <2> <<a, b, c, d, e>> \in Seq({a, b, c, d, e})
    OBVIOUS
  <2> QED OBVIOUS
<1>8. ASSUME NEW a, NEW b, NEW c, NEW d, NEW e, NEW f, NEW g, NEW h PROVE \E S : <<a, b, c, d, e, f, g, h>> \in Seq(S)
  <2> <<a, b, c, d, e, f, g, h>> \in Seq({a, b, c, d, e, f, g, h})
    OBVIOUS
  <2> QED OBVIOUS
<1>9. \E S : s \in Seq(S)
  <2>1. \E S : InitialSchema \in Seq(S)
    BY <1>8, Zenon DEF InitialSchema
  <2>2. \E S : DropInitial \in Seq(S)
    BY <1>8, Zenon DEF DropInitial
  <2>3. \E S : AddProfiles \in Seq(S)
    BY <1>1, Zenon DEF AddProfiles
  <2>4. \E S : DropProfiles \in Seq(S)
    BY <1>1, Zenon DEF DropProfiles
  <2>5. \E S : AddReviews \in Seq(S)
    BY <1>1, Zenon DEF AddReviews
  <2>6. \E S : DropReviews \in Seq(S)
    BY <1>1, Zenon DEF DropReviews
  <2>7. \E S : AddIndexes \in Seq(S)
    BY <1>5, Zenon DEF AddIndexes
  <2>8. \E S : DropIndexes \in Seq(S)
    BY <1>5, Zenon DEF DropIndexes
  <2>9. \E S : AddGatewayPaymentId \in Seq(S)
    BY <1>2, Zenon DEF AddGatewayPaymentId
  <2>10. \E S : DropGatewayPaymentId \in Seq(S)
    BY <1>2, Zenon DEF DropGatewayPaymentId
  <2>11. ASSUME NEW w \in Writes PROVE \E S : w \in Seq(S)
    BY WritesAccess
  <2> QED BY <2>1, <2>2, <2>3, <2>4, <2>5, <2>6, <2>7, <2>8, <2>9, <2>10, <2>11 DEF Scripts
<1>10. Range(s) \subseteq Known
  BY DEF Known
<1>11. \A n \in 1..Len(s) : s[n] \in Known
  BY <1>9, <1>10 DEF Range
<1> QED BY <1>9, <1>11

LEMMA WaysUp ==
    /\ ToHead[5] = <<>>
    /\ \A r \in 0..4 : ToHead[r] = Up[r + 1] \o ToHead[r + 1]
<1> DEFINE Is(f) == f = [r \in 0..HeadRevision |-> IF r = HeadRevision THEN <<>> ELSE Up[r + 1] \o f[r + 1]]
           four == Up[5] \o <<>>
           three == Up[4] \o four
           two == Up[3] \o three
           one == Up[2] \o two
           at(r) == CASE r = 0 -> Up[1] \o one [] r = 1 -> one [] r = 2 -> two
                      [] r = 3 -> three [] r = 4 -> four [] r = 5 -> <<>>
           known == [r \in 0..HeadRevision |-> at(r)]
<1>1. Is(known)
  <2>1. /\ known[0] = Up[1] \o known[1] /\ known[1] = Up[2] \o known[2] /\ known[2] = Up[3] \o known[3]
        /\ known[3] = Up[4] \o known[4] /\ known[4] = Up[5] \o known[5] /\ known[5] = <<>>
    <3> HIDE DEF one, two, three, four
    <3>1. /\ known[0] = Up[1] \o one /\ known[1] = one /\ known[2] = two
          /\ known[3] = three /\ known[4] = four /\ known[5] = <<>>
      BY FiveRevisions
    <3> HIDE DEF known
    <3> QED BY <3>1 DEF one, two, three, four
  <2>2. known = [r \in 0..HeadRevision |-> known[r]]
    <3> HIDE DEF at
    <3> QED OBVIOUS
  <2> HIDE DEF known
  <2>3. ASSUME NEW r \in 0..HeadRevision
        PROVE  known[r] = IF r = HeadRevision THEN <<>> ELSE Up[r + 1] \o known[r + 1]
    <3>1. r = 5 \/ r \in 0..4
      BY FiveRevisions
    <3>2. ASSUME NEW q \in 0..4 PROVE known[q] = Up[q + 1] \o known[q + 1]
      <4>1. q \in {0, 1, 2, 3, 4}
        OBVIOUS
      <4>2. 0 + 1 = 1 /\ 1 + 1 = 2 /\ 2 + 1 = 3 /\ 3 + 1 = 4 /\ 4 + 1 = 5
        OBVIOUS
      <4> QED BY <2>1, <4>1, <4>2, Zenon
    <3> QED BY <2>1, <3>1, <3>2, FiveRevisions
  <2> QED BY <2>2, <2>3
<1>2. Is(ToHead)
  <2>1. ToHead = CHOOSE f : Is(f)
    BY DEF ToHead
  <2> HIDE DEF Is, known
  <2> QED BY <1>1, <2>1
<1>3. \A r \in 0..HeadRevision : ToHead[r] = IF r = HeadRevision THEN <<>> ELSE Up[r + 1] \o ToHead[r + 1]
  <2> HIDE DEF known, one, two, three, four, ToHead
  <2> QED BY <1>2
<1> HIDE DEF known, Is, one, two, three, four, at
<1>4. ToHead[5] = <<>>
  <2>1. 5 \in 0..HeadRevision
    BY FiveRevisions
  <2> QED BY <1>3, <2>1, FiveRevisions
<1>5. ASSUME NEW r \in 0..4 PROVE ToHead[r] = Up[r + 1] \o ToHead[r + 1]
  <2>1. r \in 0..HeadRevision /\ r # HeadRevision
    BY FiveRevisions
  <2> QED BY <1>3, <2>1
<1> QED BY <1>4, <1>5

\* The way up from a revision, the way down, and nowhere.
LEMMA UpLeads ==
    \A r \in 0..5 : ToHead[r] \in Seq(Known) /\ Leads(SchemaAt[r], ToHead[r], SchemaAt[5])
<1>1. \A n \in 1..5 : Up[n] \in Seq(Known)
  <2>1. \A n \in 1..5 : Up[n] \in Scripts
    BY FiveRevisions DEF Scripts
  <2> QED BY <2>1, ScriptsAreKnown
<1>2. \A n \in 1..5 : Leads(SchemaAt[n - 1], Up[n], SchemaAt[n])
  <2>1. Leads(SchemaAt[0], Up[1], SchemaAt[1])
    BY FiveRevisions, Revisions, UpOne
  <2>2. Leads(SchemaAt[1], Up[2], SchemaAt[2])
    BY FiveRevisions, Revisions, UpTwo
  <2>3. Leads(SchemaAt[2], Up[3], SchemaAt[3])
    BY FiveRevisions, Revisions, UpThree
  <2>4. Leads(SchemaAt[3], Up[4], SchemaAt[4])
    BY FiveRevisions, Revisions, UpAndDownFour
  <2>5. Leads(SchemaAt[4], Up[5], SchemaAt[5])
    BY FiveRevisions, Revisions, UpAndDownFive
  <2>6. \A n \in 1..5 : n \in {1, 2, 3, 4, 5}
    OBVIOUS
  <2>7. 1 - 1 = 0 /\ 2 - 1 = 1 /\ 3 - 1 = 2 /\ 4 - 1 = 3 /\ 5 - 1 = 4
    OBVIOUS
  <2> QED BY <2>1, <2>2, <2>3, <2>4, <2>5, <2>6, <2>7, Zenon
<1> DEFINE Good(r) == ToHead[r] \in Seq(Known) /\ Leads(SchemaAt[r], ToHead[r], SchemaAt[5])
<1>3. Good(5)
  BY WaysUp, LeadsNowhere
<1>4. ASSUME NEW r \in 0..4, Good(r + 1) PROVE Good(r)
  <2>1. r + 1 \in 1..5 /\ (r + 1) - 1 = r
    OBVIOUS
  <2>2. ToHead[r] = Up[r + 1] \o ToHead[r + 1]
    BY WaysUp
  <2>3. Up[r + 1] \in Seq(Known) /\ Leads(SchemaAt[r], Up[r + 1], SchemaAt[r + 1])
    BY <1>1, <1>2, <2>1
  <2>4. ToHead[r + 1] \in Seq(Known) /\ Leads(SchemaAt[r + 1], ToHead[r + 1], SchemaAt[5])
    BY <1>4
  <2>5. Leads(SchemaAt[r], Up[r + 1] \o ToHead[r + 1], SchemaAt[5])
    BY <2>3, <2>4, LeadsOn
  <2>6. Up[r + 1] \o ToHead[r + 1] \in Seq(Known)
    BY <2>3, <2>4
  <2> QED BY <2>2, <2>5, <2>6
<1> HIDE DEF Good
<1>5. Good(4) /\ Good(3) /\ Good(2) /\ Good(1) /\ Good(0)
  <2>1. Good(4)
    BY <1>3, <1>4
  <2>2. Good(3)
    BY <2>1, <1>4
  <2>3. Good(2)
    BY <2>2, <1>4
  <2>4. Good(1)
    BY <2>3, <1>4
  <2>5. Good(0)
    BY <2>4, <1>4
  <2> QED BY <2>1, <2>2, <2>3, <2>4, <2>5
<1>6. \A r \in 0..5 : r \in {0, 1, 2, 3, 4, 5}
  OBVIOUS
<1> QED BY <1>3, <1>5, <1>6 DEF Good

LEMMA DownLeads ==
    \A r \in 1..5 : Down[r] \in Seq(Known) /\ Leads(SchemaAt[r], Down[r], SchemaAt[r - 1])
<1>1. \A n \in 1..5 : Down[n] \in Scripts
  BY FiveRevisions DEF Scripts
<1>2. \A n \in 1..5 : Leads(SchemaAt[n], Down[n], SchemaAt[n - 1])
  <2>1. Leads(SchemaAt[1], Down[1], SchemaAt[0])
    BY FiveRevisions, Revisions, DownOne
  <2>2. Leads(SchemaAt[2], Down[2], SchemaAt[1])
    BY FiveRevisions, Revisions, DownTwo
  <2>3. Leads(SchemaAt[3], Down[3], SchemaAt[2])
    BY FiveRevisions, Revisions, DownThree
  <2>4. Leads(SchemaAt[4], Down[4], SchemaAt[3])
    BY FiveRevisions, Revisions, UpAndDownFour
  <2>5. Leads(SchemaAt[5], Down[5], SchemaAt[4])
    BY FiveRevisions, Revisions, UpAndDownFive
  <2>6. \A n \in 1..5 : n \in {1, 2, 3, 4, 5}
    OBVIOUS
  <2>7. 1 - 1 = 0 /\ 2 - 1 = 1 /\ 3 - 1 = 2 /\ 4 - 1 = 3 /\ 5 - 1 = 4
    OBVIOUS
  <2> QED BY <2>1, <2>2, <2>3, <2>4, <2>5, <2>6, <2>7, Zenon
<1> QED BY <1>1, <1>2, ScriptsAreKnown

\* They change no schema, and are possible at the last revision.
LEMMA AccessLeads ==
    ASSUME NEW x \in Accesses
    PROVE  Possible(x, Five) /\ \A facts : Apply(x, facts) = facts
<1> DEFINE U == {"users", "events", "bookings", "organizer_profiles", "reviews"}
<1>1. \A t, c : /\ Write(t, c).op = "write" /\ Read(t, c).op = "read"
               /\ Write(t, c).facts = {Table(t)} \cup {Column(t, a) : a \in c}
               /\ Read(t, c).facts = {Table(t)} \cup {Column(t, a) : a \in c}
  BY DEF Write, Read, Statement
<1>2. ASSUME NEW t, NEW c, x \in {Write(t, c), Read(t, c)}, Table(t) \in Five, \A a \in c : Column(t, a) \in Five
      PROVE  Possible(x, Five) /\ \A facts : Apply(x, facts) = facts
  <2>1. x.op \in {"write", "read"} /\ x.facts \subseteq Five
    BY <1>1, <1>2
  <2> QED BY <2>1 DEF Possible, Apply
<1>3. /\ \A t \in U : Table(t) \in Five
      /\ Table("payments") \in Five /\ Column("payments", "gateway_payment_id") \in Five
  BY TablesThere DEF One, Two, Three, Four, Five
<1>4. CASE x \in {Write("payments", WithPayment), Read("payments", WithPayment)}
  BY <1>2, <1>3, <1>4 DEF WithPayment
<1>5. ASSUME NEW t \in U, x \in {Write(t, {}), Read(t, {})}
      PROVE  Possible(x, Five) /\ \A facts : Apply(x, facts) = facts
  BY <1>2, <1>3, <1>5
<1> QED BY <1>4, <1>5 DEF Accesses

LEMMA WritesLead ==
    ASSUME NEW w \in Writes
    PROVE  Leads(Five, w, Five) /\ \A facts : After(facts, w) = facts
<1> DEFINE S == Accesses
           Good(s) == Leads(Five, s, Five) /\ \A facts : After(facts, s) = facts
           T == {n \in Nat : \A s \in Seq(S) : Len(s) = n => Good(s)}
<1>1. w \in Seq(S)
  BY WritesAccess
<1>2. 0 \in T
  BY LeadsNowhere, AfterNothing, EmptySeq
<1>3. ASSUME NEW n \in T PROVE n + 1 \in T
  <2> SUFFICES ASSUME NEW s \in Seq(S), Len(s) = n + 1 PROVE Good(s)
    OBVIOUS
  <2>1. PICK q \in Seq(S), x \in S : s = Append(q, x)
    <3>1. s # <<>>
      OBVIOUS
    <3> QED BY <3>1, SequenceEmptyOrAppend
  <2>2. Good(q)
    BY <2>1
  <2> HIDE DEF S
  <2>3. Possible(x, Five) /\ \A facts : Apply(x, facts) = facts
    BY AccessLeads DEF S
  <2>4. Leads(Five, s, Five)
    BY <2>1, <2>2, <2>3, LeadsThen
  <2>5. ASSUME NEW facts PROVE After(facts, s) = facts
    <3>1. After(facts, s) = Apply(x, After(facts, q))
      BY <2>1, AfterOneMore
    <3> QED BY <2>2, <2>3, <3>1
  <2> QED BY <2>4, <2>5
<1> HIDE DEF T
<1>4. T = Nat
  BY <1>2, <1>3, Induction DEF T
<1> QED BY <1>1, <1>4 DEF T

----------------------------------------------------------------------------
(* The inductive invariant.                                                *)

Types ==
    /\ version \in 0..5
    /\ todo \in [Transaction -> Seq(Known)] /\ did \in [Transaction -> Seq(Known)]
    /\ end \in [Transaction -> {None, "committed", "error", "deadlock", "crash"}]
    /\ base \in [Transaction -> 0..5 \cup {None}]

\* What a transaction ran and will run: all of what it started with.
Script(t) == did[t] \o todo[t]

Idle == \A t \in Transaction : ~Running(t) => todo[t] = <<>> /\ did[t] = <<>>
NotYetEnded == \A t \in Transaction : base[t] = None => end[t] = None

Upgrading == \A t \in Upgrade : Running(t) => Script(t) = ToHead[base[t]]
Downgrading == \A t \in Downgrade : Running(t) => base[t] > 0 /\ Script(t) = Down[base[t]]
Writing == \A t \in Request : Running(t) => Script(t) \in Writes

IInv == Types /\ Idle /\ NotYetEnded /\ Upgrading /\ Downgrading /\ Writing /\ RevisionTellsSchema

LEMMA InitIInv == Init => IInv
<1> SUFFICES ASSUME Init PROVE IInv
  OBVIOUS
<1>1. Types
  <2>1. <<>> \in Seq(Known)
    OBVIOUS
  <2> QED BY <2>1, MigrationsAssumption DEF Init, Types
<1>2. Idle /\ NotYetEnded /\ Upgrading /\ Downgrading /\ Writing
  BY DEF Init, Idle, NotYetEnded, Upgrading, Downgrading, Writing, Running, Transaction, Migration
<1> QED BY <1>1, <1>2 DEF Init, IInv, RevisionTellsSchema

LEMMA Scriptwise ==
    ASSUME NEW S, NEW s \in Seq(S), NEW r \in Seq(S)
    PROVE  /\ <<>> \o s = s /\ s \o <<>> = s
           /\ r # <<>> => /\ Head(r) \in S /\ Tail(r) \in Seq(S)
                          /\ Append(s, Head(r)) \in Seq(S)
                          /\ Append(s, Head(r)) \o Tail(r) = s \o r
                          /\ Len(s) + 1 \in 1..Len(s \o r)
                          /\ (s \o r)[Len(s) + 1] = Head(r)
                          /\ SubSeq(s \o r, 1, Len(s)) = s
<1>1. <<>> \o s = s /\ s \o <<>> = s
  OBVIOUS
<1>2. ASSUME r # <<>> PROVE Len(r) \in Nat /\ Len(r) > 0 /\ Len(s) \in Nat
  BY <1>2
<1>3. ASSUME r # <<>>
      PROVE  /\ Head(r) \in S /\ Tail(r) \in Seq(S) /\ Append(s, Head(r)) \in Seq(S)
             /\ Append(s, Head(r)) \o Tail(r) = s \o r
  BY <1>3
<1>4. ASSUME r # <<>>
      PROVE  /\ Len(s) + 1 \in 1..Len(s \o r)
             /\ (s \o r)[Len(s) + 1] = Head(r)
             /\ SubSeq(s \o r, 1, Len(s)) = s
  BY <1>2, <1>4
<1> QED BY <1>1, <1>3, <1>4

LEMMA StartIInv ==
    ASSUME IInv, NEW t \in Transaction, NEW statements \in Seq(Known), Start(t, statements),
           t \in Upgrade => statements = ToHead[version],
           t \in Downgrade => version > 0 /\ statements = Down[version],
           t \in Request => statements \in Writes
    PROVE  IInv'
<1> USE DEF Start, IInv, database
<1>1. Types'
  BY DEF Types
<1>2. ASSUME NEW u \in Transaction
      PROVE  IF u = t THEN base'[u] = version /\ todo'[u] = statements ELSE base'[u] = base[u] /\ todo'[u] = todo[u]
  BY DEF Types
<1>3. did'[t] = <<>> /\ version # None /\ end[t] = None
  BY MigrationsAssumption DEF Types, Idle, Running, NotYetEnded
<1>4. Idle'
  BY <1>2, <1>3 DEF Idle, Running
<1>5. NotYetEnded'
  BY <1>2, <1>3 DEF NotYetEnded
<1>6. Script(t)' = statements
  BY <1>2, <1>3, Scriptwise DEF Script
<1>7. ASSUME NEW u \in Transaction, u # t PROVE Script(u)' = Script(u) /\ (Running(u)' <=> Running(u))
  BY <1>2, <1>7 DEF Script, Running
<1>8. base'[t] = version
  BY <1>2
<1>9. Upgrading'
  BY <1>2, <1>6, <1>7, <1>8 DEF Upgrading, Transaction, Migration
<1>10. Downgrading'
  BY <1>2, <1>6, <1>7, <1>8 DEF Downgrading, Transaction, Migration
<1>11. Writing'
  BY <1>2, <1>6, <1>7, <1>8 DEF Writing, Transaction, Migration
<1>12. RevisionTellsSchema'
  BY DEF RevisionTellsSchema
<1> QED BY <1>1, <1>4, <1>5, <1>9, <1>10, <1>11, <1>12

LEMMA ExecuteIInv == ASSUME IInv, NEW t \in Transaction, Execute(t) PROVE IInv'
<1> USE DEF Execute, IInv, database
<1>1. todo[t] \in Seq(Known) /\ did[t] \in Seq(Known) /\ todo[t] # <<>>
  BY DEF Types
<1>2. /\ Append(did[t], Head(todo[t])) \in Seq(Known) /\ Tail(todo[t]) \in Seq(Known)
      /\ Append(did[t], Head(todo[t])) \o Tail(todo[t]) = Script(t)
  <2> HIDE DEF Execute, IInv
  <2> DEFINE s == did[t]
             r == todo[t]
  <2>1. s \in Seq(Known) /\ r \in Seq(Known) /\ r # <<>>
    BY <1>1
  <2> HIDE DEF s, r
  <2>2. /\ Append(s, Head(r)) \in Seq(Known) /\ Tail(r) \in Seq(Known)
        /\ Append(s, Head(r)) \o Tail(r) = s \o r
    BY <2>1, Scriptwise
  <2> QED BY <2>2 DEF s, r, Script
<1>3. Types'
  BY <1>2 DEF Types
<1>4. /\ did'[t] = Append(did[t], Head(todo[t])) /\ todo'[t] = Tail(todo[t])
      /\ \A u \in Transaction : u # t => did'[u] = did[u] /\ todo'[u] = todo[u]
  BY DEF Types
<1>5. \A u \in Transaction : Script(u)' = Script(u) /\ (Running(u)' <=> Running(u))
  BY <1>2, <1>4 DEF Script, Running
<1>6. Running(t)
  BY <1>1 DEF Idle
<1>7. Idle'
  BY <1>4, <1>5, <1>6 DEF Idle
<1>8. NotYetEnded' /\ RevisionTellsSchema'
  BY DEF NotYetEnded, RevisionTellsSchema
<1>9. Upgrading' /\ Downgrading' /\ Writing'
  BY <1>5 DEF Upgrading, Downgrading, Writing, Transaction, Migration
<1> QED BY <1>3, <1>7, <1>8, <1>9

LEMMA RollBackIInv ==
    ASSUME IInv, NEW t \in Transaction, Running(t),
           NEW why \in {"error", "deadlock", "crash"}, RollBack(t, why)
    PROVE  IInv'
<1> USE DEF RollBack, IInv, database
<1>1. Types'
  <2>1. <<>> \in Seq(Known)
    OBVIOUS
  <2> QED BY <2>1 DEF Types
<1>2. /\ did'[t] = <<>> /\ todo'[t] = <<>> /\ end'[t] # None
      /\ \A u \in Transaction : u # t => did'[u] = did[u] /\ todo'[u] = todo[u] /\ end'[u] = end[u]
  BY MigrationsAssumption DEF Types
<1>3. ASSUME NEW u \in Transaction PROVE Running(u)' => Running(u) /\ Script(u)' = Script(u)
  BY <1>2 DEF Running, Script
<1>4. Idle'
  BY <1>2 DEF Idle, Running
<1>5. NotYetEnded' /\ RevisionTellsSchema'
  BY <1>2 DEF NotYetEnded, RevisionTellsSchema, Running
<1>6. Upgrading' /\ Downgrading' /\ Writing'
  BY <1>3 DEF Upgrading, Downgrading, Writing, Transaction, Migration
<1> QED BY <1>1, <1>4, <1>5, <1>6

LEMMA CommitIInv == ASSUME IInv, NEW t \in Transaction, Commit(t) PROVE IInv'
<1> USE DEF Commit, IInv
<1>1. did[t] \in Seq(Known) /\ Script(t) = did[t] /\ version \in 0..5 /\ Running(t) /\ base[t] \in 0..5
  <2>1. did[t] \in Seq(Known) /\ todo[t] = <<>> /\ version \in 0..5 /\ Running(t)
    BY DEF Types
  <2>2. base[t] \in 0..5
    BY <2>1 DEF Types, Running
  <2> QED BY <2>1, <2>2, Scriptwise DEF Script
<1>2. schema' = After(SchemaAt[version], did[t])
  BY DEF View, RevisionTellsSchema
<1>3. version' \in 0..5 /\ schema' = SchemaAt[version']
  <2>1. CASE t \in Request
    <3>1. did[t] \in Writes /\ version' = version
      BY <1>1, <2>1 DEF Writing
    <3> QED BY <1>1, <1>2, <3>1, WritesLead
  <2>2. CASE did[t] = <<>>
    BY <1>1, <1>2, <2>2, AfterNothing
  <2>3. CASE t \notin Request /\ did[t] # <<>> /\ t \in Upgrade
    <3>1. version = base[t] /\ did[t] = ToHead[base[t]]
      BY <1>1, <2>3 DEF Upgrading, Stamped, Migration
    <3>2. version' = 5
      BY <2>3, FiveRevisions
    <3>3. After(SchemaAt[version], ToHead[version]) = SchemaAt[5]
      BY <1>1, UpLeads DEF Leads
    <3> QED BY <1>2, <3>1, <3>2, <3>3
  <2>4. CASE t \notin Request /\ did[t] # <<>> /\ t \in Downgrade
    <3>1. version = base[t] /\ base[t] > 0 /\ did[t] = Down[base[t]]
      BY <1>1, <2>4 DEF Downgrading, Stamped, Migration
    <3>2. version' = version - 1
      BY <2>4, MigrationsAssumption
    <3>3. version \in 1..5 /\ version - 1 \in 0..5
      BY <1>1, <3>1
    <3>4. After(SchemaAt[version], Down[version]) = SchemaAt[version - 1]
      BY <3>3, DownLeads DEF Leads
    <3> QED BY <1>2, <3>1, <3>2, <3>3, <3>4
  <2> QED BY <2>1, <2>2, <2>3, <2>4 DEF Transaction, Migration
<1>4. Types'
  <2>1. <<>> \in Seq(Known)
    OBVIOUS
  <2> QED BY <1>3, <2>1 DEF Types
<1>5. /\ did'[t] = <<>> /\ todo'[t] = <<>> /\ end'[t] # None
      /\ \A u \in Transaction : u # t => did'[u] = did[u] /\ todo'[u] = todo[u] /\ end'[u] = end[u]
  BY MigrationsAssumption DEF Types
<1>6. ASSUME NEW u \in Transaction PROVE Running(u)' => Running(u) /\ Script(u)' = Script(u)
  BY <1>5 DEF Running, Script
<1>7. Idle'
  BY <1>5 DEF Idle, Running
<1>8. NotYetEnded'
  BY <1>5 DEF NotYetEnded, Running
<1>9. Upgrading' /\ Downgrading' /\ Writing'
  BY <1>6 DEF Upgrading, Downgrading, Writing, Transaction, Migration
<1> QED BY <1>3, <1>4, <1>7, <1>8, <1>9 DEF RevisionTellsSchema

LEMMA NextIInv == IInv /\ [Next]_vars => IInv'
<1> SUFFICES ASSUME IInv, [Next]_vars PROVE IInv'
  OBVIOUS
<1>1. ASSUME UNCHANGED vars PROVE IInv'
  BY <1>1 DEF vars, database, IInv, Types, Idle, NotYetEnded, Upgrading, Downgrading, Writing,
              Running, Script, RevisionTellsSchema
<1>2. \A t \in Transaction : todo[t] # <<>> => Running(t)
  BY DEF IInv, Idle
<1>3. ASSUME NEW t \in Transaction, Execute(t) PROVE IInv'
  BY <1>3, ExecuteIInv
<1>4. ASSUME NEW t \in Transaction, Fail(t) PROVE IInv'
  BY <1>2, <1>4, RollBackIInv DEF Fail
<1>5. ASSUME NEW t \in Transaction, FailStamp(t) PROVE IInv'
  BY <1>5, RollBackIInv DEF FailStamp
<1>6. ASSUME NEW t \in Transaction, EndDeadlock(t) PROVE IInv'
  <2>1. todo[t] # <<>>
    BY <1>6 DEF EndDeadlock, Deadlocked, WaitsFor
  <2> QED BY <1>2, <1>6, <2>1, RollBackIInv DEF EndDeadlock
<1>7. ASSUME NEW t \in Transaction, Commit(t) PROVE IInv'
  BY <1>7, CommitIInv
<1>8. ASSUME NEW t \in Upgrade, StartUpgrade(t) PROVE IInv'
  <2>1. ToHead[version] \in Seq(Known)
    BY UpLeads DEF IInv, Types
  <2> QED BY <1>8, <2>1, StartIInv, MigrationsAssumption DEF StartUpgrade, Transaction, Migration
<1>9. ASSUME NEW t \in Downgrade, StartDowngrade(t) PROVE IInv'
  <2>1. Down[version] \in Seq(Known)
    BY <1>9, DownLeads DEF IInv, Types, StartDowngrade
  <2> QED BY <1>9, <2>1, StartIInv, MigrationsAssumption DEF StartDowngrade, Transaction, Migration
<1>10. ASSUME NEW t \in Request, StartRequest(t) PROVE IInv'
  <2>1. PICK writes \in Writes : Start(t, writes)
    BY <1>10 DEF StartRequest
  <2>2. writes \in Seq(Known)
    BY ScriptsAreKnown DEF Scripts
  <2> QED BY <2>1, <2>2, StartIInv, MigrationsAssumption DEF Transaction, Migration
<1>11. ASSUME NEW t \in Transaction, Crash(t) PROVE IInv'
  BY <1>11, RollBackIInv DEF Crash
<1> QED BY <1>1, <1>3, <1>4, <1>5, <1>6, <1>7, <1>8, <1>9, <1>10, <1>11 DEF Next, Work, Quiescent

LEMMA Inductive == Spec => []IInv
BY InitIInv, NextIInv, PTL DEF Spec

----------------------------------------------------------------------------
(* What statements say of which table.                                     *)

\* A statement says things of its table only; only DROP TABLE takes a table
\* away, and reads and writes need their table.
Sane(s) ==
    /\ s.op \in {"create table", "create", "drop table", "drop", "write", "read"}
    /\ \A f \in s.facts : f[2] = s.table
    /\ s.op = "drop" => \A f \in s.facts : f[1] # "table"
    /\ s.op \in {"write", "read"} => Table(s.table) \in s.facts

LEMMA StatementsAreSane ==
    /\ \A t, refs, uniques : LET s == CreateTable(t, refs, uniques) IN Sane(s) /\ s.op \notin {"write", "read"}
    /\ \A t, refs : LET s == DropTable(t, refs) IN Sane(s) /\ s.op \notin {"write", "read"}
    /\ \A t, c : LET s == CreateIndex(t, c) IN Sane(s) /\ s.op \notin {"write", "read"}
    /\ \A t, c : LET s == DropIndex(t, c) IN Sane(s) /\ s.op \notin {"write", "read"}
    /\ \A t, c : LET s == CreateUnique(t, c) IN Sane(s) /\ s.op \notin {"write", "read"}
    /\ \A t, c : LET s == DropUnique(t, c) IN Sane(s) /\ s.op \notin {"write", "read"}
    /\ \A t, c : LET s == AddColumn(t, c) IN Sane(s) /\ s.op \notin {"write", "read"}
    /\ \A t, c : LET s == DropColumn(t, c) IN Sane(s) /\ s.op \notin {"write", "read"}
    /\ \A t, columns : LET s == Write(t, columns) IN Sane(s) /\ s.op = "write"
    /\ \A t, columns : LET s == Read(t, columns) IN Sane(s) /\ s.op = "read"
<1> USE DEF Sane, Statement, Table, References, Unique, Index, Column
<1>1. \A t, refs, uniques : LET s == CreateTable(t, refs, uniques) IN Sane(s) /\ s.op \notin {"write", "read"}
  BY DEF CreateTable
<1>2. \A t, refs : LET s == DropTable(t, refs) IN Sane(s) /\ s.op \notin {"write", "read"}
  BY DEF DropTable
<1>3. \A t, c : LET s == CreateIndex(t, c) IN Sane(s) /\ s.op \notin {"write", "read"}
  BY DEF CreateIndex
<1>4. \A t, c : LET s == DropIndex(t, c) IN Sane(s) /\ s.op \notin {"write", "read"}
  BY DEF DropIndex
<1>5. \A t, c : LET s == CreateUnique(t, c) IN Sane(s) /\ s.op \notin {"write", "read"}
  BY DEF CreateUnique
<1>6. \A t, c : LET s == DropUnique(t, c) IN Sane(s) /\ s.op \notin {"write", "read"}
  BY DEF DropUnique
<1>7. \A t, c : LET s == AddColumn(t, c) IN Sane(s) /\ s.op \notin {"write", "read"}
  BY DEF AddColumn
<1>8. \A t, c : LET s == DropColumn(t, c) IN Sane(s) /\ s.op \notin {"write", "read"}
  BY DEF DropColumn
<1>9. \A t, columns : LET s == Write(t, columns) IN Sane(s) /\ s.op = "write"
  BY DEF Write
<1>10. \A t, columns : LET s == Read(t, columns) IN Sane(s) /\ s.op = "read"
  BY DEF Read
<1> HIDE DEF Sane, Statement
<1> QED BY <1>1, <1>2, <1>3, <1>4, <1>5, <1>6, <1>7, <1>8, <1>9, <1>10

Alters(s) == Sane(s) /\ s.op \notin {"write", "read"}
Uses(s) == Sane(s) /\ s.op \in {"write", "read"}

LEMMA RangesOfTuples ==
    /\ \A a : Range(<<a>>) = {a}
    /\ \A a, b : Range(<<a, b>>) = {a, b}
    /\ \A a, b, c : Range(<<a, b, c>>) = {a, b, c}
    /\ \A a, b, c, d, e : Range(<<a, b, c, d, e>>) = {a, b, c, d, e}
    /\ \A a, b, c, d, e, f, g, h : Range(<<a, b, c, d, e, f, g, h>>) = {a, b, c, d, e, f, g, h}
<1>1. ASSUME NEW a PROVE Range(<<a>>) = {a}
  BY DEF Range
<1>2. ASSUME NEW a, NEW b PROVE Range(<<a, b>>) = {a, b}
  BY DEF Range
<1>3. ASSUME NEW a, NEW b, NEW c PROVE Range(<<a, b, c>>) = {a, b, c}
  BY DEF Range
<1>5. ASSUME NEW a, NEW b, NEW c, NEW d, NEW e PROVE Range(<<a, b, c, d, e>>) = {a, b, c, d, e}
  BY DEF Range
<1>8. ASSUME NEW a, NEW b, NEW c, NEW d, NEW e, NEW f, NEW g, NEW h
      PROVE  Range(<<a, b, c, d, e, f, g, h>>) = {a, b, c, d, e, f, g, h}
  <2> DEFINE w == <<a, b, c, d, e, f, g, h>>
  <2>1. DOMAIN w = 1..8
    OBVIOUS
  <2>2. \A n \in 1..8 : n \in {1, 2, 3, 4, 5, 6, 7, 8}
    OBVIOUS
  <2>3. w[1] = a /\ w[2] = b /\ w[3] = c /\ w[4] = d /\ w[5] = e /\ w[6] = f /\ w[7] = g /\ w[8] = h
    OBVIOUS
  <2>4. {1, 2, 3, 4, 5, 6, 7, 8} \subseteq 1..8
    OBVIOUS
  <2> HIDE DEF w
  <2>5. Range(w) = {w[n] : n \in {1, 2, 3, 4, 5, 6, 7, 8}}
    BY <2>1, <2>2, <2>4 DEF Range
  <2>6. Range(w) = {a, b, c, d, e, f, g, h}
    BY <2>3, <2>5
  <2> QED BY <2>6 DEF w
<1> QED BY <1>1, <1>2, <1>3, <1>5, <1>8, Zenon

LEMMA ScriptsAlterOrUse ==
    /\ \A n \in 1..5 : \A s \in Range(Up[n]) \cup Range(Down[n]) : Alters(s)
    /\ \A w \in Writes : \A s \in Range(w) : Uses(s)
<1>1. /\ \A t, refs, uniques : Alters(CreateTable(t, refs, uniques))
      /\ \A t, refs : Alters(DropTable(t, refs))
      /\ \A t, c : /\ Alters(CreateIndex(t, c)) /\ Alters(DropIndex(t, c))
                   /\ Alters(CreateUnique(t, c)) /\ Alters(DropUnique(t, c))
                   /\ Alters(AddColumn(t, c)) /\ Alters(DropColumn(t, c))
      /\ \A t, columns : Uses(Write(t, columns)) /\ Uses(Read(t, columns))
  BY StatementsAreSane, Zenon DEF Alters, Uses
<1> DEFINE All(script) == \A s \in Range(script) : Alters(s)
<1>2. ASSUME NEW a, Alters(a) PROVE All(<<a>>)
  BY <1>2, RangesOfTuples
<1>3. ASSUME NEW a, NEW b, Alters(a), Alters(b) PROVE All(<<a, b>>)
  BY <1>3, RangesOfTuples
<1>4. ASSUME NEW a, NEW b, NEW c, NEW d, NEW e, Alters(a), Alters(b), Alters(c), Alters(d), Alters(e)
      PROVE  All(<<a, b, c, d, e>>)
  <2>1. Range(<<a, b, c, d, e>>) = {a, b, c, d, e}
    BY RangesOfTuples
  <2> QED BY <1>4, <2>1
<1>5. ASSUME NEW a, NEW b, NEW c, NEW d, NEW e, NEW f, NEW g, NEW h, Alters(a), Alters(b), Alters(c),
             Alters(d), Alters(e), Alters(f), Alters(g), Alters(h)
      PROVE  All(<<a, b, c, d, e, f, g, h>>)
  <2>1. Range(<<a, b, c, d, e, f, g, h>>) = {a, b, c, d, e, f, g, h}
    BY RangesOfTuples
  <2> QED BY <1>5, <2>1
<1> HIDE DEF All
<1>6. All(InitialSchema) /\ All(DropInitial)
  BY <1>1, <1>5, Zenon DEF InitialSchema, DropInitial
<1>7. All(AddProfiles) /\ All(DropProfiles) /\ All(AddReviews) /\ All(DropReviews)
  BY <1>1, <1>2, Zenon DEF AddProfiles, DropProfiles, AddReviews, DropReviews
<1>8. All(AddIndexes) /\ All(DropIndexes)
  BY <1>1, <1>4, Zenon DEF AddIndexes, DropIndexes
<1>9. All(AddGatewayPaymentId) /\ All(DropGatewayPaymentId)
  BY <1>1, <1>3, Zenon DEF AddGatewayPaymentId, DropGatewayPaymentId
<1>10. \A n \in 1..5 : n \in {1, 2, 3, 4, 5}
  OBVIOUS
<1>11. \A n \in 1..5 : All(Up[n]) /\ All(Down[n])
  BY <1>6, <1>7, <1>8, <1>9, <1>10, FiveRevisions
<1>12. ASSUME NEW w \in Writes, NEW s \in Range(w) PROVE Uses(s)
  <2>1. w \in Seq(Accesses)
    BY WritesAccess
  <2>2. s \in Accesses
    BY <2>1 DEF Range
  <2> QED BY <1>1, <2>2 DEF Accesses
<1> QED BY <1>11, <1>12 DEF All

LEMMA KnownAreSane == \A s \in Known : Sane(s)
<1>1. ASSUME NEW script \in Scripts, NEW s \in Range(script) PROVE Sane(s)
  <2>1. \/ \E n \in 1..5 : script = Up[n] \/ script = Down[n]
        \/ script \in Writes
    BY FiveRevisions DEF Scripts
  <2> QED BY <1>1, <2>1, ScriptsAlterOrUse DEF Alters, Uses
<1> QED BY <1>1 DEF Known

\* What each statement keeps, all of them keep.
LEMMA AfterKeeps ==
    ASSUME NEW facts, NEW S, NEW s \in Seq(S), NEW kept, kept \subseteq facts,
           \A x \in S : \A g : kept \subseteq g => kept \subseteq Apply(x, g)
    PROVE  kept \subseteq After(facts, s)
<1> DEFINE T == {n \in Nat : \A r \in Seq(S) : Len(r) = n => kept \subseteq After(facts, r)}
<1>1. 0 \in T
  BY AfterNothing, EmptySeq
<1>2. ASSUME NEW n \in T PROVE n + 1 \in T
  <2> SUFFICES ASSUME NEW r \in Seq(S), Len(r) = n + 1 PROVE kept \subseteq After(facts, r)
    OBVIOUS
  <2>1. r # <<>>
    OBVIOUS
  <2>2. PICK q \in Seq(S), x \in S : r = Append(q, x)
    BY <2>1, SequenceEmptyOrAppend
  <2>3. kept \subseteq After(facts, q)
    BY <2>2
  <2>4. After(facts, r) = Apply(x, After(facts, q))
    BY <2>2, AfterOneMore
  <2> QED BY <2>3, <2>4
<1> HIDE DEF T
<1>3. T = Nat
  BY <1>1, <1>2, Induction DEF T
<1> QED BY <1>3 DEF T

LEMMA AfterUses ==
    ASSUME NEW facts, NEW S, NEW s \in Seq(S), \A x \in S : Uses(x)
    PROVE  After(facts, s) = facts
<1>1. \A x \in S : \A g : Apply(x, g) = g
  BY DEF Uses, Apply
<1> DEFINE T == {n \in Nat : \A r \in Seq(S) : Len(r) = n => After(facts, r) = facts}
<1>2. 0 \in T
  BY AfterNothing, EmptySeq
<1>3. ASSUME NEW n \in T PROVE n + 1 \in T
  <2> SUFFICES ASSUME NEW r \in Seq(S), Len(r) = n + 1 PROVE After(facts, r) = facts
    OBVIOUS
  <2>1. r # <<>>
    OBVIOUS
  <2>2. PICK q \in Seq(S), x \in S : r = Append(q, x)
    BY <2>1, SequenceEmptyOrAppend
  <2>3. After(facts, q) = facts
    BY <2>2
  <2>4. After(facts, r) = Apply(x, After(facts, q))
    BY <2>2, AfterOneMore
  <2> QED BY <1>1, <2>3, <2>4
<1> HIDE DEF T
<1>4. T = Nat
  BY <1>2, <1>3, Induction DEF T
<1> QED BY <1>4 DEF T

\* A statement keeps what is said of other tables than its own.
LEMMA KeepsOthers ==
    ASSUME NEW x, Sane(x), NEW g, NEW f \in g, f[2] # x.table
    PROVE  f \in Apply(x, g)
BY DEF Sane, Apply, AboutTable

\* Only DROP TABLE takes a table away.
LEMMA KeepsTables ==
    ASSUME NEW x, Sane(x), NEW g, NEW t, Table(t) \in g, ~(x.op = "drop table" /\ x.table = t)
    PROVE  Table(t) \in Apply(x, g)
<1>1. Table(t)[1] = "table" /\ Table(t)[2] = t
  BY DEF Table
<1> QED BY <1>1 DEF Sane, Apply, AboutTable

----------------------------------------------------------------------------
(* Locks, held to the end: what a request read or wrote stays possible.    *)

\* Of two transactions, one a migration, neither did what the other's
\* statements would have had to wait for.
Exclusive ==
    \A t, u \in Transaction :
        t # u /\ {t, u} \cap Migration # {} =>
            \A s \in Range(did[t]), x \in Range(did[u]) : ~Conflict(s, x)

\* Requests read and write rows, migrations do not.
Parts ==
    /\ \A t \in Request : did[t] \in Seq({x \in Known : Uses(x)})
    /\ \A t \in Migration : did[t] \in Seq({x \in Known : Alters(x)})

\* No migration pulls a table or a column away from under a request.
UsesStand == \A t \in Request : \A s \in Range(did[t]) : Possible(s, schema)

\* Tables with rows are there.
RowsHaveTables == \A t \in nonempty : Table(t) \in schema

LInv == IInv /\ Parts /\ Exclusive /\ UsesStand /\ RowsHaveTables

LEMMA NotBoth == Request \cap Migration = {} /\ Transaction = Request \cup Migration
BY MigrationsAssumption DEF Transaction, Migration

LEMMA SeqPart ==
    ASSUME NEW S, NEW P, P \subseteq S, NEW s \in Seq(S), NEW r \in Seq(S), Range(s \o r) \subseteq P
    PROVE  s \in Seq(P)
<1>1. /\ Len(s) \in Nat /\ Len(r) \in Nat /\ Len(s \o r) = Len(s) + Len(r) /\ DOMAIN (s \o r) = 1..(Len(s) + Len(r))
      /\ \A n \in 1..Len(s) : (s \o r)[n] = s[n]
  OBVIOUS
<1>2. \A n \in 1..Len(s) : s[n] \in P
  BY <1>1 DEF Range
<1> QED BY <1>2

LEMMA UpsAlter == \A r \in 0..5 : ToHead[r] \in Seq({x \in Known : Alters(x)})
<1> DEFINE P == {x \in Known : Alters(x)}
<1>1. \A n \in 1..5 : Up[n] \in Seq(P)
  <2> SUFFICES ASSUME NEW n \in 1..5 PROVE Up[n] \in Seq(P)
    OBVIOUS
  <2>1. Up[n] \in Scripts
    BY FiveRevisions DEF Scripts
  <2>2. Up[n] \in Seq(Known)
    BY <2>1, ScriptsAreKnown
  <2>3. \A m \in 1..Len(Up[n]) : Up[n][m] \in Range(Up[n])
    BY <2>2 DEF Range
  <2>4. \A m \in 1..Len(Up[n]) : Up[n][m] \in P
    BY <2>2, <2>3, ScriptsAlterOrUse
  <2> HIDE DEF P
  <2> QED BY <2>2, <2>4
<1> DEFINE Good(r) == ToHead[r] \in Seq(P)
<1>2. Good(5)
  BY WaysUp
<1>3. ASSUME NEW r \in 0..4, Good(r + 1) PROVE Good(r)
  <2>1. ToHead[r] = Up[r + 1] \o ToHead[r + 1]
    BY WaysUp
  <2>2. r + 1 \in 1..5
    OBVIOUS
  <2> HIDE DEF P
  <2> QED BY <1>1, <1>3, <2>1, <2>2
<1> HIDE DEF Good
<1>4. Good(4)
  BY <1>2, <1>3
<1>5. Good(3)
  BY <1>4, <1>3
<1>6. Good(2)
  BY <1>5, <1>3
<1>7. Good(1)
  BY <1>6, <1>3
<1>8. Good(0)
  BY <1>7, <1>3
<1>9. \A r \in 0..5 : r \in {0, 1, 2, 3, 4, 5}
  OBVIOUS
<1> QED BY <1>2, <1>4, <1>5, <1>6, <1>7, <1>8, <1>9 DEF Good

LEMMA PartsHold == IInv => Parts
<1> SUFFICES ASSUME IInv PROVE Parts
  OBVIOUS
<1>1. \A t \in Transaction : did[t] \in Seq(Known) /\ todo[t] \in Seq(Known)
  BY DEF IInv, Types
<1>2. \A t \in Transaction : ~Running(t) => did[t] = <<>>
  BY DEF IInv, Idle
<1>3. ASSUME NEW P, P \subseteq Known, NEW t \in Transaction, NEW s, s \in Seq(P), Script(t) = s
      PROVE  did[t] \in Seq(P)
  <2>1. Range(s) \subseteq P
    BY <1>3 DEF Range
  <2>2. Range(did[t] \o todo[t]) \subseteq P
    BY <1>3, <2>1 DEF Script
  <2> QED BY <1>1, <1>3, <2>2, SeqPart
<1>4. ASSUME NEW t \in Request PROVE did[t] \in Seq({x \in Known : Uses(x)})
  <2>1. CASE Running(t)
    <3>1. Script(t) \in Writes
      BY <2>1 DEF IInv, Writing
    <3>2. Script(t) \in Seq(Known)
      BY <3>1, ScriptsAreKnown DEF Scripts
    <3>3. \A n \in 1..Len(Script(t)) : Script(t)[n] \in Range(Script(t))
      BY <3>2 DEF Range
    <3>4. \A n \in 1..Len(Script(t)) : Script(t)[n] \in {x \in Known : Uses(x)}
      BY <3>1, <3>2, <3>3, ScriptsAlterOrUse
    <3> DEFINE P == {x \in Known : Uses(x)}
               s == Script(t)
    <3>5. s \in Seq(P)
      <4>1. s \in Seq(Known) /\ \A n \in 1..Len(s) : s[n] \in P
        BY <3>2, <3>4
      <4> HIDE DEF s, P
      <4> QED BY <4>1
    <3> QED BY <1>3, <3>5, NotBoth
  <2>2. CASE ~Running(t)
    <3>1. did[t] = <<>>
      BY <1>2, <2>2, NotBoth
    <3> QED BY <3>1
  <2> QED BY <2>1, <2>2
<1>5. ASSUME NEW t \in Migration PROVE did[t] \in Seq({x \in Known : Alters(x)})
  <2> DEFINE P == {x \in Known : Alters(x)}
  <2>1. CASE Running(t) /\ t \in Upgrade
    <3>1. base[t] \in 0..5 /\ Script(t) = ToHead[base[t]]
      BY <2>1, NotBoth DEF IInv, Types, Upgrading, Running
    <3> QED BY <1>3, <3>1, UpsAlter, NotBoth
  <2>2. CASE Running(t) /\ t \in Downgrade
    <3>1. base[t] \in 1..5 /\ Script(t) = Down[base[t]]
      BY <2>2, NotBoth DEF IInv, Types, Downgrading, Running
    <3>2. Down[base[t]] \in Seq(Known)
      BY <3>1, DownLeads
    <3>3. \A n \in 1..Len(Down[base[t]]) : Down[base[t]][n] \in Range(Down[base[t]])
      BY <3>2 DEF Range
    <3>4. \A n \in 1..Len(Down[base[t]]) : Down[base[t]][n] \in P
      BY <3>1, <3>2, <3>3, ScriptsAlterOrUse
    <3> DEFINE s == Script(t)
    <3>5. s \in Seq(P)
      <4>1. s \in Seq(Known) /\ \A n \in 1..Len(s) : s[n] \in P
        BY <3>1, <3>2, <3>4
      <4> HIDE DEF s, P
      <4> QED BY <4>1
    <3> QED BY <1>3, <3>5, NotBoth
  <2>3. CASE ~Running(t)
    <3>1. did[t] = <<>>
      BY <1>2, <2>3, NotBoth
    <3> QED BY <3>1
  <2> QED BY <2>1, <2>2, <2>3 DEF Migration
<1> QED BY <1>4, <1>5 DEF Parts

\* Locks are only given back, the schema stays.
LEMMA LocksFrame ==
    ASSUME LInv, IInv', UNCHANGED <<schema, nonempty>>,
           \A t \in Transaction : did'[t] = did[t] \/ did'[t] = <<>>
    PROVE  LInv'
<1>1. Range(<<>>) = {}
  BY DEF Range
<1>2. \A t \in Transaction : Range(did'[t]) \subseteq Range(did[t])
  BY <1>1
<1>4. Exclusive'
  BY <1>2 DEF LInv, Exclusive
<1>5. UsesStand'
  BY <1>2, NotBoth DEF LInv, UsesStand
<1>6. RowsHaveTables'
  BY DEF LInv, RowsHaveTables
<1>7. Parts'
  BY PartsHold, PTL
<1> QED BY <1>4, <1>5, <1>6, <1>7 DEF LInv

LEMMA LocksExecute ==
    ASSUME LInv, IInv', NEW t \in Transaction, Execute(t)
    PROVE  LInv'
<1> DEFINE x == Head(todo[t])
<1>1. /\ did[t] \in Seq(Known) /\ x \in Known
      /\ did'[t] = Append(did[t], x)
      /\ \A u \in Transaction : u # t => did'[u] = did[u]
  BY DEF LInv, IInv, Types, Execute
<1>2. Possible(x, View(t)) /\ ~Blocked(t) /\ todo[t] # <<>> /\ UNCHANGED <<schema, nonempty>>
  BY DEF Execute, database
<1>3. \A u \in Transaction : t # u /\ {t, u} \cap Migration # {} =>
          \A y \in Range(did[u]) : ~Conflict(x, y) /\ ~Conflict(y, x)
  BY <1>2 DEF Blocked, WaitsFor, Conflict
<1> HIDE DEF x
<1>4. Range(did'[t]) = Range(did[t]) \cup {x}
  <2> DEFINE s == did[t]
  <2>1. s \in Seq(Known) /\ did'[t] = Append(s, x)
    BY <1>1
  <2> HIDE DEF s
  <2>2. /\ Len(s) \in Nat /\ DOMAIN Append(s, x) = 1..(Len(s) + 1) /\ Append(s, x)[Len(s) + 1] = x
        /\ DOMAIN s = 1..Len(s) /\ \A n \in 1..Len(s) : Append(s, x)[n] = s[n]
    BY <2>1
  <2>3. Range(Append(s, x)) = Range(s) \cup {x}
    BY <2>2 DEF Range
  <2> QED BY <2>1, <2>3 DEF s
<1>7. Exclusive'
  <2> SUFFICES ASSUME NEW u \in Transaction, NEW v \in Transaction, u # v, {u, v} \cap Migration # {},
                      NEW y \in Range(did'[u]), NEW z \in Range(did'[v])
               PROVE  ~Conflict(y, z)
    BY DEF Exclusive
  <2>1. \A a \in Range(did[u]), b \in Range(did[v]) : ~Conflict(a, b)
    BY DEF LInv, Exclusive
  <2>2. CASE u = t
    BY <1>1, <1>3, <1>4, <2>1, <2>2
  <2>3. CASE v = t
    BY <1>1, <1>3, <1>4, <2>1, <2>3
  <2>4. CASE u # t /\ v # t
    BY <1>1, <2>1, <2>4
  <2> QED BY <2>2, <2>3, <2>4
<1>8. UsesStand'
  <2> SUFFICES ASSUME NEW u \in Request, NEW s \in Range(did'[u]) PROVE Possible(s, schema')
    BY DEF UsesStand
  <2>1. CASE s \in Range(did[u])
    BY <1>2, <2>1 DEF LInv, UsesStand
  <2>2. CASE u = t /\ s = x
    <3>1. did[t] \in Seq({y \in Known : Uses(y)})
      BY <2>2 DEF LInv, Parts
    <3>2. After(schema, did[t]) = schema
      BY <3>1, AfterUses
    <3> QED BY <1>2, <2>2, <3>2 DEF View
  <2> QED BY <1>1, <1>4, <2>1, <2>2, NotBoth
<1>9. RowsHaveTables'
  BY <1>2 DEF LInv, RowsHaveTables
<1>10. Parts'
  BY PartsHold, PTL
<1> QED BY <1>7, <1>8, <1>9, <1>10 DEF LInv

LEMMA LocksCommit ==
    ASSUME LInv, IInv', NEW t \in Transaction, Commit(t)
    PROVE  LInv'
<1>1. /\ did'[t] = <<>> /\ \A u \in Transaction : u # t => did'[u] = did[u]
      /\ schema' = After(schema, did[t])
      /\ nonempty' = (nonempty \cup Written(t)) \ Dropped(t)
      /\ did[t] \in Seq(Known)
  BY DEF LInv, IInv, Types, Commit, View
<1>2. Range(<<>>) = {}
  BY DEF Range
<1>3. did[t] \in Seq(Range(did[t]))
  <2> DEFINE s == did[t]
  <2>1. s \in Seq(Known)
    BY <1>1
  <2> HIDE DEF s
  <2>2. \A n \in 1..Len(s) : s[n] \in Range(s)
    BY <2>1 DEF Range
  <2>3. s \in Seq(Range(s))
    BY <2>1, <2>2
  <2> QED BY <2>3 DEF s
<1>4. \A x \in Range(did[t]) : Sane(x)
  BY <1>1, KnownAreSane DEF Range
<1>5. \A u \in Transaction : Range(did'[u]) \subseteq Range(did[u])
  BY <1>1, <1>2
<1>6. Exclusive'
  BY <1>5 DEF LInv, Exclusive
<1>7. t \in Request => schema' = schema /\ \A x \in Range(did[t]) : Uses(x)
  <2> SUFFICES ASSUME t \in Request PROVE schema' = schema /\ \A x \in Range(did[t]) : Uses(x)
    OBVIOUS
  <2>1. did[t] \in Seq({x \in Known : Uses(x)})
    BY DEF LInv, Parts
  <2>2. After(schema, did[t]) = schema
    BY <2>1, AfterUses
  <2>3. Range(did[t]) \subseteq {x \in Known : Uses(x)}
    BY <2>1 DEF Range
  <2> QED BY <1>1, <2>2, <2>3
<1>8. UsesStand'
  <2> SUFFICES ASSUME NEW u \in Request, NEW s \in Range(did'[u]) PROVE Possible(s, schema')
    BY DEF UsesStand
  <2>1. u # t /\ s \in Range(did[u]) /\ u \in Transaction
    BY <1>1, <1>2, NotBoth
  <2>2. Possible(s, schema)
    BY <2>1 DEF LInv, UsesStand
  <2>3. CASE t \in Request
    BY <1>7, <2>2, <2>3
  <2>4. CASE t \in Migration
    <3>1. did[u] \in Seq({x \in Known : Uses(x)})
      BY DEF LInv, Parts
    <3>2. Uses(s)
      BY <2>1, <3>1 DEF Range
    <3>3. s.facts \subseteq schema /\ \A f \in s.facts : f[2] = s.table
      BY <2>2, <3>2 DEF Possible, Uses, Sane
    <3>4. ASSUME NEW x \in Range(did[t]) PROVE x.table # s.table \/ LetsRead(x)
      <4>1. ~Conflict(s, x)
        BY <2>1, <2>4, NotBoth DEF LInv, Exclusive
      <4> QED BY <3>2, <4>1 DEF Conflict, Touches, LetsRead, Uses
    <3>5. ASSUME NEW x, LetsRead(x), NEW g, s.facts \subseteq g PROVE s.facts \subseteq Apply(x, g)
      BY <3>5 DEF LetsRead, Apply
    <3>6. ASSUME NEW x \in Range(did[t]), NEW g, s.facts \subseteq g PROVE s.facts \subseteq Apply(x, g)
      BY <1>4, <3>3, <3>4, <3>5, <3>6, KeepsOthers
    <3>7. s.facts \subseteq After(schema, did[t])
      BY <1>3, <3>3, <3>6, AfterKeeps
    <3> QED BY <1>1, <3>2, <3>7 DEF Possible, Uses
  <2> QED BY <2>3, <2>4, NotBoth
<1>9. RowsHaveTables'
  <2> SUFFICES ASSUME NEW r \in nonempty' PROVE Table(r) \in schema'
    BY DEF RowsHaveTables
  <2>1. (r \in nonempty \/ r \in Written(t)) /\ r \notin Dropped(t)
    BY <1>1
  <2>2. Table(r) \in schema \/ t \in Request
    <3>1. ASSUME t \in Migration PROVE Written(t) = {}
      <4>1. did[t] \in Seq({x \in Known : Alters(x)})
        BY <3>1 DEF LInv, Parts
      <4>2. \A x \in Range(did[t]) : x.op # "write"
        BY <4>1 DEF Range, Alters
      <4> QED BY <4>2 DEF Written
    <3> QED BY <2>1, <3>1, NotBoth DEF LInv, RowsHaveTables
  <2>3. CASE t \in Request
    <3>1. CASE r \in nonempty
      BY <1>7, <2>3, <3>1 DEF LInv, RowsHaveTables
    <3>2. CASE r \in Written(t)
      <4>1. PICK x \in Range(did[t]) : x.op = "write" /\ r = x.table
        BY <3>2 DEF Written
      <4>2. Possible(x, schema) /\ Uses(x)
        BY <1>7, <2>3, <4>1 DEF LInv, UsesStand
      <4> QED BY <1>7, <2>3, <4>1, <4>2 DEF Possible, Uses, Sane
    <3> QED BY <2>1, <3>1, <3>2
  <2>4. CASE Table(r) \in schema /\ t \in Migration
    <3>1. \A x \in Range(did[t]) : ~(x.op = "drop table" /\ x.table = r)
      BY <2>1 DEF Dropped
    <3>2. ASSUME NEW x \in Range(did[t]), NEW g, {Table(r)} \subseteq g PROVE {Table(r)} \subseteq Apply(x, g)
      BY <1>4, <3>1, <3>2, KeepsTables
    <3> DEFINE kept == {Table(r)}
    <3>3. /\ kept \subseteq schema
          /\ \A x \in Range(did[t]) : \A g : kept \subseteq g => kept \subseteq Apply(x, g)
      BY <2>4, <3>2
    <3> HIDE DEF kept
    <3>4. kept \subseteq After(schema, did[t])
      BY <1>3, <3>3, AfterKeeps
    <3> QED BY <1>1, <3>4 DEF kept
  <2> QED BY <2>2, <2>3, <2>4, NotBoth
<1>10. Parts'
  BY PartsHold, PTL
<1> QED BY <1>6, <1>8, <1>9, <1>10 DEF LInv

LEMMA InitLInv == Init => LInv
<1> SUFFICES ASSUME Init PROVE LInv
  OBVIOUS
<1>1. IInv
  BY InitIInv
<1>2. Range(<<>>) = {}
  BY DEF Range
<1>3. \A t \in Transaction : did[t] = <<>>
  BY DEF Init
<1>4. Exclusive /\ UsesStand
  BY <1>2, <1>3, NotBoth DEF Exclusive, UsesStand
<1>5. RowsHaveTables
  BY DEF Init, RowsHaveTables
<1> QED BY <1>1, <1>4, <1>5, PartsHold DEF LInv

LEMMA NextLInv == LInv /\ [Next]_vars => LInv'
<1> SUFFICES ASSUME LInv, [Next]_vars PROVE LInv'
  OBVIOUS
<1>1. IInv'
  BY NextIInv DEF LInv
<1>2. did \in [Transaction -> Seq(Known)]
  BY DEF LInv, IInv, Types
<1>3. CASE UNCHANGED vars
  BY <1>1, <1>3, LocksFrame DEF vars, database
<1>4. ASSUME NEW t \in Transaction, NEW s, Start(t, s) PROVE LInv'
  BY <1>1, <1>4, LocksFrame DEF Start, database
<1>5. ASSUME NEW t \in Transaction, NEW why, RollBack(t, why) PROVE LInv'
  BY <1>1, <1>2, <1>5, LocksFrame DEF RollBack, database
<1>6. ASSUME NEW t \in Transaction, Execute(t) PROVE LInv'
  BY <1>1, <1>6, LocksExecute
<1>7. ASSUME NEW t \in Transaction, Commit(t) PROVE LInv'
  BY <1>1, <1>7, LocksCommit
<1>8. CASE Work
  BY <1>5, <1>6, <1>7, <1>8 DEF Work, Fail, FailStamp, EndDeadlock
<1>9. CASE Next /\ ~Work
  BY <1>3, <1>4, <1>5, <1>9 DEF Next, StartUpgrade, StartDowngrade, StartRequest, Crash, Quiescent,
                                Transaction, Migration
<1> QED BY <1>3, <1>8, <1>9

LEMMA InductiveWithLocks == Spec => []LInv
BY InitLInv, NextLInv, PTL DEF Spec

----------------------------------------------------------------------------
(* Theorems.                                                               *)

(***************************************************************************)
(* The revision is one of the five, rows are only in tables that are       *)
(* there, and who ended has nothing left to run and nothing uncommitted.   *)
(***************************************************************************)
THEOREM TypeCorrect == Spec => []TypeOK
<1>1. ASSUME LInv PROVE TypeOK
  <2>1. version \in 0..HeadRevision
    BY <1>1, FiveRevisions DEF LInv, IInv, Types
  <2>2. nonempty \subseteq TablesOf(schema)
    <3>1. \A t : Table(t)[2] = t
      BY DEF Table
    <3> QED BY <1>1, <3>1 DEF LInv, RowsHaveTables, TablesOf
  <2>3. ASSUME NEW t \in Transaction
        PROVE  /\ end[t] \in {None, "committed", "error", "deadlock", "crash"}
               /\ base[t] \in 0..HeadRevision \cup {None}
               /\ end[t] # None => todo[t] = <<>> /\ did[t] = <<>>
    BY <1>1, FiveRevisions DEF LInv, IInv, Types, Idle, Running
  <2> QED BY <2>1, <2>2, <2>3 DEF TypeOK
<1> QED BY <1>1, InductiveWithLocks, PTL

(***************************************************************************)
(* However many upgrades, downgrades and requests meet, crash or are       *)
(* undone, the revision on record tells which tables, references, unique   *)
(* columns and indexes the database has.                                   *)
(***************************************************************************)
THEOREM RevisionAndSchema == Spec => []RevisionTellsSchema
BY Inductive, PTL DEF IInv

(***************************************************************************)
(* At the head revision the database is what the models declare: nothing   *)
(* forgotten by a revision, and nothing left by a way down and up again.   *)
(***************************************************************************)
THEOREM HeadAndModels == Spec => []HeadIsModels
<1>1. IInv => HeadIsModels
  BY FiveRevisions, Revisions, ModelsAreFive DEF IInv, RevisionTellsSchema, HeadIsModels
<1> QED BY <1>1, Inductive, PTL

(***************************************************************************)
(* No migration is refused a statement by its own revisions, and no        *)
(* request at the head revision: what fails had another migration commit   *)
(* since it began, or came below the head.                                 *)
(***************************************************************************)
THEOREM ErrorsHaveReasons == Spec => ErrorsExplained
<1> DEFINE Reason(t) == IF t \in Request THEN version < HeadRevision ELSE version # base[t]
           A == \A t \in Transaction : end[t] = None /\ end'[t] = "error" => Reason(t)
<1>1. ASSUME IInv, NEW t \in Transaction, Fail(t) PROVE Reason(t)
  <2>1. todo[t] \in Seq(Known) /\ did[t] \in Seq(Known) /\ todo[t] # <<>> /\ Running(t)
        /\ version \in 0..5 /\ schema = SchemaAt[version]
    BY <1>1 DEF IInv, Types, Idle, Fail, RevisionTellsSchema
  <2>2. ASSUME NEW result, Leads(schema, Script(t), result) PROVE FALSE
    <3> DEFINE s == did[t]
               r == todo[t]
    <3>1. s \in Seq(Known) /\ r \in Seq(Known) /\ r # <<>> /\ Script(t) = s \o r
      BY <2>1 DEF Script
    <3>2. ~Possible(Head(r), After(schema, s))
      BY <1>1 DEF Fail, View
    <3> HIDE DEF s, r
    <3>3. /\ Len(s) + 1 \in 1..Len(s \o r) /\ (s \o r)[Len(s) + 1] = Head(r)
          /\ SubSeq(s \o r, 1, Len(s)) = s /\ (Len(s) + 1) - 1 = Len(s)
      BY <3>1, Scriptwise
    <3>4. \A n \in 1..Len(s \o r) : Possible((s \o r)[n], After(schema, SubSeq(s \o r, 1, n - 1)))
      BY <2>2, <3>1 DEF Leads
    <3>5. Possible((s \o r)[Len(s) + 1], After(schema, SubSeq(s \o r, 1, Len(s))))
      BY <3>3, <3>4
    <3> QED BY <3>2, <3>3, <3>5
  <2>3. CASE t \in Request
    <3> SUFFICES ASSUME ~Reason(t) PROVE FALSE
      OBVIOUS
    <3>1. version = 5
      BY <2>1, <2>3, FiveRevisions
    <3>2. Script(t) \in Writes
      BY <1>1, <2>1, <2>3 DEF IInv, Writing
    <3> QED BY <2>1, <2>2, <3>1, <3>2, Revisions, WritesLead
  <2>4. CASE t \in Upgrade
    <3> SUFFICES ASSUME ~Reason(t) PROVE FALSE
      OBVIOUS
    <3>1. version = base[t] /\ Script(t) = ToHead[base[t]]
      BY <1>1, <2>1, <2>4, MigrationsAssumption DEF IInv, Upgrading, Migration
    <3>2. Leads(schema, Script(t), SchemaAt[5])
      BY <2>1, <3>1, UpLeads
    <3> QED BY <2>2, <3>2
  <2>5. CASE t \in Downgrade
    <3> SUFFICES ASSUME ~Reason(t) PROVE FALSE
      OBVIOUS
    <3>1. version = base[t] /\ base[t] > 0 /\ Script(t) = Down[base[t]]
      BY <1>1, <2>1, <2>5, MigrationsAssumption DEF IInv, Downgrading, Migration
    <3>2. version \in 1..5
      BY <2>1, <3>1
    <3>3. Leads(schema, Script(t), SchemaAt[version - 1])
      BY <2>1, <3>1, <3>2, DownLeads
    <3> QED BY <2>2, <3>3
  <2> QED BY <2>3, <2>4, <2>5 DEF Transaction, Migration
<1>2. ASSUME IInv, NEW t \in Transaction, FailStamp(t) PROVE Reason(t)
  BY <1>2, MigrationsAssumption DEF FailStamp, Stamped, Migration
<1>3. ASSUME IInv, [Next]_vars, NEW t \in Transaction, end[t] = None, end'[t] = "error"
      PROVE  Fail(t) \/ FailStamp(t)
  <2>1. end \in [Transaction -> {None, "committed", "error", "deadlock", "crash"}] /\ None # "error"
    BY <1>3, MigrationsAssumption DEF IInv, Types
  <2>2. end' # end
    BY <1>3, <2>1
  <2>3. PICK u \in Transaction : Execute(u) \/ Fail(u) \/ FailStamp(u) \/ EndDeadlock(u) \/ Commit(u)
                                 \/ (\E s : Start(u, s)) \/ Crash(u)
    BY <1>3, <2>2 DEF Next, Work, Quiescent, vars, StartUpgrade, StartDowngrade, StartRequest,
                      Transaction, Migration
  <2>4. CASE Execute(u) \/ \E s : Start(u, s)
    BY <2>2, <2>4 DEF Execute, Start
  <2>5. CASE Fail(u) \/ FailStamp(u)
    <3>1. u = t
      BY <1>3, <2>1, <2>5 DEF Fail, FailStamp, RollBack
    <3> QED BY <2>5, <3>1
  <2>6. CASE EndDeadlock(u) \/ Crash(u)
    BY <1>3, <2>1, <2>6 DEF EndDeadlock, Crash, RollBack
  <2>7. CASE Commit(u)
    BY <1>3, <2>1, <2>7 DEF Commit
  <2> QED BY <2>3, <2>4, <2>5, <2>6, <2>7
<1>4. IInv /\ [Next]_vars => A
  BY <1>1, <1>2, <1>3
<1>5. A <=> \A t \in Transaction : end[t] = None /\ end'[t] = "error" =>
                IF t \in Request THEN version < HeadRevision ELSE version # base[t]
  OBVIOUS
<1> HIDE DEF A
<1>6. IInv /\ [Next]_vars => [\A t \in Transaction : end[t] = None /\ end'[t] = "error" =>
                IF t \in Request THEN version < HeadRevision ELSE version # base[t]]_vars
  BY <1>4, <1>5
<1> QED BY <1>6, Inductive, PTL DEF Spec, ErrorsExplained
=============================================================================
