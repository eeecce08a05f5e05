-------------------------- MODULE CatalogueProofs --------------------------
(***************************************************************************)
(* The lists, for any number of events, bookings, requests and changes and *)
(* any query: what module Catalogue states, proved.                        *)
(***************************************************************************)
EXTENDS Catalogue, FiniteSetTheorems, TLAPS

----------------------------------------------------------------------------
(* Operators.                                                              *)

LEMMA MinOfTwo ==
    ASSUME NEW a \in Int, NEW b \in Int
    PROVE  Min({a, b}) = IF a <= b THEN a ELSE b
<1> DEFINE m == IF a <= b THEN a ELSE b
<1>1. m \in {a, b} /\ \A y \in {a, b} : m =< y
  OBVIOUS
<1>2. \A x \in {a, b} : (\A y \in {a, b} : x =< y) => x = m
  OBVIOUS
<1> QED BY <1>1, <1>2 DEF Min

LEMMA MaxOfTwo ==
    ASSUME NEW a \in Int, NEW b \in Int
    PROVE  Max({a, b}) = IF a >= b THEN a ELSE b
<1> DEFINE m == IF a >= b THEN a ELSE b
<1>1. m \in {a, b} /\ \A y \in {a, b} : m >= y
  OBVIOUS
<1>2. \A x \in {a, b} : (\A y \in {a, b} : x >= y) => x = m
  OBVIOUS
<1> QED BY <1>1, <1>2 DEF Max

\* The minutes of a 12-hour clock: after midnight, and as the clock shows them.
MinuteOf(t) == ((t[1] % 12) + (IF t[3] = "PM" THEN 12 ELSE 0)) * 60 + t[2]

LEMMA MinuteOfClock ==
    ASSUME NEW t \in (1..12) \X (0..59) \X Meridiem
    PROVE  MinuteOf(t) \in 0..1439 /\ ClockShows(MinuteOf(t)) = t
<1> DEFINE h == t[1] % 12
           k == h + (IF t[3] = "PM" THEN 12 ELSE 0)
           m == k * 60 + t[2]
<1>1. t[1] \in 1..12 /\ t[2] \in 0..59 /\ t[3] \in {"AM", "PM"} /\ t = <<t[1], t[2], t[3]>>
  BY DEF Meridiem
<1>2. h = IF t[1] = 12 THEN 0 ELSE t[1]
  BY <1>1
<1>3. h \in 0..11 /\ k \in 0..23 /\ k \in Int
  <2>1. h \in 0..11
    BY <1>1, <1>2
  <2> HIDE DEF h
  <2> QED BY <2>1
<1>4. m \in 0..1439 /\ (m < 720 <=> k < 12)
  <2> HIDE DEF k
  <2> QED BY <1>1, <1>3
<1>5. m \div 60 = k /\ m % 60 = t[2]
  <2> HIDE DEF k
  <2> QED BY <1>1, <1>3
<1>6. (k < 12) <=> t[3] = "AM"
  BY <1>1, <1>3
<1>7. ((k + 11) % 12) + 1 = t[1]
  <2>1. k = h \/ k = h + 12
    OBVIOUS
  <2>2. (h + 11) % 12 = t[1] - 1
    BY <1>1, <1>2
  <2>3. (h + 12 + 11) % 12 = t[1] - 1
    BY <1>1, <1>2
  <2>4. h + 12 + 11 = (h + 12) + 11
    BY <1>3
  <2> HIDE DEF h, k
  <2>5. (k + 11) % 12 = t[1] - 1
    BY <2>1, <2>2, <2>3, <2>4
  <2> QED BY <2>5, <1>1
<1> HIDE DEF m, k, h
<1>8. ClockShows(m) = t
  <2>1. (m < 720) <=> t[3] = "AM"
    BY <1>4, <1>6
  <2>2. (IF m < 720 THEN "AM" ELSE "PM") = t[3]
    BY <1>1, <2>1
  <2>3. ClockShows(m) = <<((k + 11) % 12) + 1, t[2], t[3]>>
    BY <1>5, <2>2 DEF ClockShows
  <2> QED BY <1>1, <1>7, <2>3
<1> QED BY <1>4, <1>8 DEF m, k, h, MinuteOf

\* An instant falls on the day that was entered, at the time that was entered.
LEMMA CombineIsMeant ==
    ASSUME NEW d \in Nat, NEW t \in (1..12) \X (0..59) \X Meridiem
    PROVE  /\ Combine(d, t) \in Nat
           /\ Combine(d, t) \div MinutesOfDay = d
           /\ ClockShows(Combine(d, t) % MinutesOfDay) = t
           /\ StartOf(d) <= Combine(d, t) /\ Combine(d, t) <= EndOf(d)
<1> DEFINE m == MinuteOf(t)
<1>1. m \in 0..1439 /\ ClockShows(m) = t
  BY MinuteOfClock
<1>2. t[1] \in 1..12 /\ t[2] \in 0..59
  OBVIOUS
<1>3. Combine(d, t) = d * 1440 + m
  BY <1>2 DEF Combine, MinutesOfDay, MinuteOf
<1>4. MinutesOfDay = 1440
  BY DEF MinutesOfDay
<1> HIDE DEF m
<1>5. (d * 1440 + m) \div 1440 = d /\ (d * 1440 + m) % 1440 = m
  BY <1>1
<1> QED BY <1>1, <1>3, <1>4, <1>5 DEF StartOf, EndOf

\* Whole days are compared with whole days.
LEMMA DaysCompare ==
    ASSUME NEW d \in Nat, NEW t \in (1..12) \X (0..59) \X Meridiem, NEW x \in Int
    PROVE  /\ StartOf(x) <= Combine(d, t) <=> x <= d
           /\ Combine(d, t) <= EndOf(x) <=> d <= x
<1>1. /\ Combine(d, t) \in Nat
      /\ d * 1440 <= Combine(d, t) /\ Combine(d, t) <= d * 1440 + 1439
  BY CombineIsMeant DEF StartOf, EndOf, MinutesOfDay
<1>2. StartOf(x) = x * 1440 /\ EndOf(x) = x * 1440 + 1439
  BY DEF StartOf, EndOf, MinutesOfDay
<1> QED BY <1>1, <1>2

----------------------------------------------------------------------------
(* Types.                                                                  *)

LEMMA QueryType ==
    ASSUME NEW q \in Query
    PROVE  /\ q.limit \in Nat \ {0} /\ q.offset \in Nat
           /\ q.filter \notin Customer =>
                /\ q.filter.date_from # None => q.filter.date_from \in Int
                /\ q.filter.date_to # None => q.filter.date_to \in Int
BY CatalogueAssumption DEF Filters

LEMMA RowType ==
    ASSUME NEW u \in Organizer, NEW c \in City, NEW d \in Day, NEW t \in Time
    PROVE  NewRow(u, c, d, t) \in EventRow
<1>1. Combine(d, t) \in Nat
  BY CatalogueAssumption, CombineIsMeant
<1> QED BY <1>1 DEF NewRow, EventRow

\* Rows are found among the events or among the bookings.
LEMMA MatchingType ==
    ASSUME TypeOK, NEW l \in ListReq
    PROVE  /\ Matching(l) \subseteq Event \cup Booking
           /\ IsFiniteSet(Matching(l)) /\ Cardinality(Matching(l)) \in 0..Cardinality(Event \cup Booking)
           /\ \A ids \in SUBSET Matching(l) : Rows(ids) \subseteq (Event \X EventRow) \cup (Booking \X Customer)
<1>1. IsFiniteSet(Event \cup Booking)
  BY CatalogueAssumption, FS_Union
<1>2. Matching(l) \subseteq Event \cup Booking
  BY DEF Matching, Listed
<1>3. IsFiniteSet(Matching(l)) /\ Cardinality(Matching(l)) <= Cardinality(Event \cup Booking)
  BY <1>1, <1>2, FS_Subset
<1>4. Cardinality(Matching(l)) \in Nat /\ Cardinality(Event \cup Booking) \in Nat
  BY <1>1, <1>3, FS_CardinalityType
<1>5. ASSUME NEW ids \in SUBSET Matching(l)
      PROVE  Rows(ids) \subseteq (Event \X EventRow) \cup (Booking \X Customer)
  <2>1. CASE ask[l].filter \in Customer
    <3>1. \A i \in ids : i \in Booking /\ i \notin Event /\ bookings[i] \in Customer
      BY <2>1, CatalogueAssumption DEF Matching
    <3> QED BY <3>1 DEF Rows
  <2>2. CASE ask[l].filter \notin Customer
    <3>1. \A i \in ids : i \in Event /\ events[i] \in EventRow
      BY <2>2 DEF Matching, Listed, TypeOK
    <3> QED BY <3>1 DEF Rows
  <2> QED BY <2>1, <2>2
<1> QED BY <1>2, <1>3, <1>4, <1>5

LEMMA InitType == Init => TypeOK
<1>1. Cardinality(Event \cup Booking) \in Nat
  BY CatalogueAssumption, FS_Union, FS_CardinalityType
<1> QED BY <1>1, CatalogueAssumption DEF Init, TypeOK

\* Any change of the tables.
LEMMA ChangeType ==
    ASSUME TypeOK, Change,
           events' \in [Event -> EventRow \cup {None}], industry' \in [Organizer -> Industry],
           bookings' \in [Booking -> Customer \cup {None}]
    PROVE  TypeOK'
<1>1. always' \in [ListReq -> SUBSET (Event \cup Booking)]
  BY DEF Change, TypeOK
<1>2. ever' \in [ListReq -> SUBSET (Event \cup Booking)]
  BY DEF Change, TypeOK, Meant
<1>3. changes' \in 0..MaxChanges
  BY CatalogueAssumption DEF Change, TypeOK
<1>4. UNCHANGED <<pc, ask, user_ids, total, page>>
  BY DEF Change, lists
<1> QED BY <1>1, <1>2, <1>3, <1>4 DEF TypeOK

LEMMA StepType == TypeOK /\ [Next]_vars => TypeOK'
<1> SUFFICES ASSUME TypeOK, [Next]_vars PROVE TypeOK'
  OBVIOUS
<1>1. ASSUME NEW e \in Event, NEW u \in Organizer, NEW c \in City, NEW d \in Day, NEW t \in Time,
             CreateEvent(e, u, c, d, t)
      PROVE  TypeOK'
  BY <1>1, RowType, ChangeType DEF CreateEvent, TypeOK
<1>2. ASSUME NEW e \in Event, NEW c \in City, NEW d \in Day, NEW t \in Time, UpdateEvent(e, c, d, t)
      PROVE  TypeOK'
  <2>1. events[e].user \in Organizer
    BY <1>2 DEF UpdateEvent, TypeOK, EventRow
  <2> QED BY <1>2, <2>1, RowType, ChangeType DEF UpdateEvent, TypeOK
<1>3. ASSUME NEW e \in Event, DeleteEvent(e) PROVE TypeOK'
  BY <1>3, ChangeType DEF DeleteEvent, TypeOK
<1>4. ASSUME NEW u \in Organizer, NEW i \in Industry, UpdateProfile(u, i) PROVE TypeOK'
  BY <1>4, ChangeType DEF UpdateProfile, TypeOK
<1>5. ASSUME NEW b \in Booking, NEW c \in Customer, Book(b, c) PROVE TypeOK'
  BY <1>5, ChangeType DEF Book, TypeOK
<1>6. ASSUME NEW l \in ListReq, NEW q \in Query, ListStart(l, q) PROVE TypeOK'
  BY <1>6 DEF ListStart, TypeOK, tables, Meant
<1>7. ASSUME NEW l \in ListReq, ListCount(l) PROVE TypeOK'
  BY <1>7, MatchingType DEF ListCount, TypeOK, tables, history, Count
<1>8. ASSUME NEW l \in ListReq, ListPage(l) PROVE TypeOK'
  <2>1. PICK ids \in SUBSET Matching(l) : page' = [page EXCEPT ![l] = Rows(ids)]
    BY <1>8 DEF ListPage, kSubset
  <2> QED BY <1>8, <2>1, MatchingType DEF ListPage, TypeOK, tables, history
<1>9. CASE UNCHANGED vars
  BY <1>9 DEF vars, TypeOK, tables, lists, history
<1> QED
  BY <1>1, <1>2, <1>3, <1>4, <1>5, <1>6, <1>7, <1>8, <1>9 DEF Next, Quiescent

(***************************************************************************)
(* Every reachable state of the lists is well typed.                       *)
(***************************************************************************)
THEOREM TypeCorrect == Spec => []TypeOK
BY InitType, StepType, PTL DEF Spec

----------------------------------------------------------------------------
(* The inductive invariant.                                                *)

\* The column is made of what was entered.
Entered == \A e \in Listed : events[e].date = Combine(events[e].day, events[e].time)

Active(l) == pc[l] \in {"asked", "counted"}

\* What there was all the time there is now, and what there is now there was
\* at some moment; organizers who had the industry when it was asked for and
\* have it still are among those that were found.
Meanwhile ==
    \A l \in ListReq :
        /\ pc[l] # "new" => ask[l] \in Query
        /\ always[l] \subseteq ever[l]
        /\ Active(l) =>
            /\ always[l] \subseteq Meant(ask[l], FALSE)
            /\ Meant(ask[l], TRUE) \subseteq ever[l]
            /\ ask[l].filter \notin Customer /\ ask[l].filter.industry # None =>
                  \A e \in always[l] : events[e].user \in user_ids[l]

\* What the statements that ran have found.
Found ==
    \A l \in ListReq :
        /\ pc[l] \in {"counted", "done"} => total[l] \in Cardinality(always[l])..Cardinality(ever[l])
        /\ pc[l] # "done" => page[l] = {}

IInv == TypeOK /\ Entered /\ Meanwhile /\ Found /\ NothingIsMissed /\ NothingIsMadeUp

\* Finite, and so counted.
LEMMA Counted ==
    ASSUME TypeOK, NEW l \in ListReq
    PROVE  /\ IsFiniteSet(always[l]) /\ Cardinality(always[l]) \in Nat
           /\ IsFiniteSet(ever[l]) /\ Cardinality(ever[l]) \in Nat
<1>1. IsFiniteSet(Event \cup Booking)
  BY CatalogueAssumption, FS_Union
<1>2. IsFiniteSet(always[l]) /\ IsFiniteSet(ever[l])
  BY <1>1, FS_Subset DEF TypeOK
<1> QED BY <1>2, FS_CardinalityType

\* The WHERE clause finds what is meant.
LEMMA MatchingIsMeant ==
    ASSUME TypeOK, Entered, Meanwhile, NEW l \in ListReq, Active(l)
    PROVE  always[l] \subseteq Matching(l) /\ Matching(l) \subseteq ever[l]
<1>1. ask[l] \in Query
  BY DEF Meanwhile, Active
<1>2. ASSUME ask[l].filter \notin Customer, NEW e \in Listed
      PROVE  /\ (ask[l].filter.date_from = None \/ ask[l].filter.date_from <= events[e].day) <=>
                (ask[l].filter.date_from # None => events[e].date >= StartOf(ask[l].filter.date_from))
             /\ (ask[l].filter.date_to = None \/ events[e].day <= ask[l].filter.date_to) <=>
                (ask[l].filter.date_to # None => events[e].date <= EndOf(ask[l].filter.date_to))
  <2>1. /\ events[e].day \in Nat /\ events[e].time \in (1..12) \X (0..59) \X Meridiem
        /\ events[e].date = Combine(events[e].day, events[e].time)
    BY CatalogueAssumption DEF Listed, TypeOK, EventRow, Entered
  <2>2. Combine(events[e].day, events[e].time) \in Nat
    BY <2>1, CombineIsMeant
  <2>3. ASSUME NEW x \in Int
        PROVE  /\ x <= events[e].day <=> events[e].date >= StartOf(x)
               /\ events[e].day <= x <=> events[e].date <= EndOf(x)
    <3>1. StartOf(x) \in Int /\ events[e].date \in Int
      BY <2>1, <2>2 DEF StartOf, MinutesOfDay
    <3> QED BY <2>1, <3>1, DaysCompare
  <2> QED BY <1>1, <1>2, <2>3, QueryType
<1>3. CASE ask[l].filter \in Customer
  BY <1>3 DEF Matching, Meanwhile, Meant, Asked
<1>4. CASE ask[l].filter \notin Customer
  <2>1. ASSUME NEW i \in always[l] PROVE i \in Matching(l)
    <3>1. Asked(ask[l], i, FALSE) /\ i \in Listed
      BY <1>4 DEF Meanwhile, Meant, Asked, Listed
    <3>2. HasIndustry(l, events[i].user)
      BY <1>4 DEF Meanwhile, HasIndustry
    <3> QED BY <1>2, <1>4, <3>1, <3>2 DEF Asked, Matching
  <2>2. ASSUME NEW i \in Matching(l) PROVE i \in ever[l]
    <3>1. i \in Listed /\ i \in Event /\ events[i] # None
      BY <1>4 DEF Matching, Listed
    <3>2. Asked(ask[l], i, TRUE)
      BY <1>2, <1>4, <3>1 DEF Asked, Matching
    <3> QED BY <3>1, <3>2 DEF Meanwhile, Meant
  <2> QED BY <2>1, <2>2
<1> QED BY <1>3, <1>4

LEMMA InitInv == Init => IInv
<1> SUFFICES ASSUME Init PROVE IInv
  OBVIOUS
<1>1. Entered /\ Meanwhile /\ Found /\ NothingIsMissed /\ NothingIsMadeUp
  BY DEF Init, Entered, Listed, Meanwhile, Active, Found, NothingIsMissed, NothingIsMadeUp
<1> QED BY <1>1, InitType DEF IInv

\* A change of the tables: what the requests on their way have been asked for
\* is followed, what they have found stays.
LEMMA ChangeInv ==
    ASSUME IInv, TypeOK', Change, Entered',
           \A e \in Event : events[e] # None /\ events'[e] # None => events'[e].user = events[e].user
    PROVE  IInv'
<1>1. /\ UNCHANGED <<pc, ask, user_ids, total, page>>
      /\ \A l \in ListReq :
            IF pc[l] \in {"new", "done"}
            THEN always'[l] = always[l] /\ ever'[l] = ever[l]
            ELSE always'[l] = always[l] \cap Meant(ask[l], FALSE)' /\ ever'[l] = ever[l] \cup Meant(ask[l], TRUE)'
  BY DEF Change, lists
<1>2. \A l \in ListReq : always'[l] \subseteq always[l] /\ ever[l] \subseteq ever'[l]
  BY <1>1
<1>3. Meanwhile'
  <2> SUFFICES ASSUME NEW l \in ListReq
               PROVE  /\ pc[l] # "new" => ask[l] \in Query
                      /\ always'[l] \subseteq ever'[l]
                      /\ Active(l) =>
                          /\ always'[l] \subseteq Meant(ask[l], FALSE)'
                          /\ Meant(ask[l], TRUE)' \subseteq ever'[l]
                          /\ ask[l].filter \notin Customer /\ ask[l].filter.industry # None =>
                                \A e \in always'[l] : events'[e].user \in user_ids[l]
    BY <1>1 DEF Meanwhile, Active
  <2>1. ASSUME Active(l), ask[l].filter \notin Customer, ask[l].filter.industry # None, NEW e \in always'[l]
        PROVE  events'[e].user \in user_ids[l]
    <3>1. e \in always[l] /\ e \in Meant(ask[l], FALSE)' /\ e \in Meant(ask[l], FALSE)
      BY <1>1, <1>2, <2>1 DEF IInv, Meanwhile, Active
    <3>2. e \in Event /\ events[e] # None /\ events'[e] # None
      BY <1>1, <2>1, <3>1 DEF Meant, Asked
    <3> QED BY <2>1, <3>1, <3>2 DEF IInv, Meanwhile
  <2> QED BY <1>1, <1>2, <2>1 DEF IInv, Meanwhile, Active
<1>4. Found'
  <2> SUFFICES ASSUME NEW l \in ListReq, pc[l] \in {"counted", "done"}
               PROVE  total[l] \in Cardinality(always'[l])..Cardinality(ever'[l])
    BY <1>1 DEF IInv, Found
  <2>1. /\ Cardinality(always[l]) \in Nat /\ Cardinality(ever[l]) \in Nat
        /\ Cardinality(always'[l]) \in Nat /\ Cardinality(ever'[l]) \in Nat
        /\ Cardinality(always'[l]) <= Cardinality(always[l])
        /\ Cardinality(ever[l]) <= Cardinality(ever'[l])
    <3>1. IsFiniteSet(always[l]) /\ IsFiniteSet(ever'[l])
      <4>1. IsFiniteSet(Event \cup Booking)
        BY CatalogueAssumption, FS_Union
      <4>2. always[l] \subseteq Event \cup Booking /\ ever'[l] \subseteq Event \cup Booking
        BY DEF IInv, TypeOK
      <4> QED BY <4>1, <4>2, FS_Subset
    <3>2. IsFiniteSet(always'[l]) /\ Cardinality(always'[l]) <= Cardinality(always[l])
      BY <1>2, <3>1, FS_Subset
    <3>3. IsFiniteSet(ever[l]) /\ Cardinality(ever[l]) <= Cardinality(ever'[l])
      BY <1>2, <3>1, FS_Subset
    <3> QED BY <3>1, <3>2, <3>3, FS_CardinalityType
  <2>2. total[l] \in Cardinality(always[l])..Cardinality(ever[l])
    BY DEF IInv, Found
  <2> QED BY <2>1, <2>2
<1>5. NothingIsMissed'
  BY <1>1 DEF IInv, NothingIsMissed, Ids
<1>6. NothingIsMadeUp'
  BY <1>1, <1>2 DEF IInv, NothingIsMadeUp
<1> QED BY <1>3, <1>4, <1>5, <1>6 DEF IInv

LEMMA StartInv ==
    ASSUME IInv, TypeOK', NEW l \in ListReq, NEW q \in Query, ListStart(l, q)
    PROVE  IInv'
<1>1. /\ pc[l] = "new" /\ pc'[l] = "asked" /\ ask'[l] = q
      /\ user_ids'[l] = {u \in Organizer : q.filter \notin Customer /\ industry[u] = q.filter.industry}
      /\ always'[l] = Meant(q, FALSE) /\ ever'[l] = Meant(q, TRUE)
      /\ UNCHANGED <<events, industry, bookings, total, page>>
      /\ \A m \in ListReq \ {l} :
            /\ pc'[m] = pc[m] /\ ask'[m] = ask[m] /\ user_ids'[m] = user_ids[m]
            /\ always'[m] = always[m] /\ ever'[m] = ever[m]
  BY DEF ListStart, tables, IInv, TypeOK
<1>2. \A x, any : Meant(x, any)' = Meant(x, any)
  BY <1>1 DEF Meant, Asked
<1>3. Entered'
  BY <1>1 DEF IInv, Entered, Listed
<1>4. Meanwhile'
  <2> SUFFICES ASSUME NEW m \in ListReq
               PROVE  /\ pc'[m] # "new" => ask'[m] \in Query
                      /\ always'[m] \subseteq ever'[m]
                      /\ Active(m)' =>
                          /\ always'[m] \subseteq Meant(ask'[m], FALSE)
                          /\ Meant(ask'[m], TRUE) \subseteq ever'[m]
                          /\ ask'[m].filter \notin Customer /\ ask'[m].filter.industry # None =>
                                \A e \in always'[m] : events[e].user \in user_ids'[m]
    <3> HIDE DEF IInv
    <3>1. \A m \in ListReq, any \in BOOLEAN : Meant(ask[m], any)' = Meant(ask'[m], any)
      BY <1>1 DEF Meant, Asked
    <3> QED BY <1>1, <3>1 DEF Meanwhile, Active
  <2>1. CASE m = l
    <3>1. Meant(q, FALSE) \subseteq Meant(q, TRUE)
      BY DEF Meant, Asked
    <3>2. ASSUME q.filter \notin Customer, q.filter.industry # None, NEW e \in Meant(q, FALSE)
          PROVE  events[e].user \in user_ids'[l]
      <4>1. e \in Event /\ events[e] # None /\ industry[events[e].user] = q.filter.industry
        BY <3>2 DEF Meant, Asked
      <4>2. events[e].user \in Organizer
        BY <4>1 DEF IInv, TypeOK, EventRow
      <4> QED BY <1>1, <3>2, <4>1, <4>2
    <3> QED BY <1>1, <2>1, <3>1, <3>2
  <2>2. CASE m # l
    BY <1>1, <2>2 DEF IInv, Meanwhile, Active
  <2> QED BY <2>1, <2>2
<1>5. Found'
  BY <1>1 DEF IInv, Found
<1>6. page[l] = {}
  BY <1>1 DEF IInv, Found
<1>7. NothingIsMissed'
  BY <1>1 DEF IInv, NothingIsMissed, Ids
<1>8. NothingIsMadeUp'
  <2>1. \A m \in ListReq : \A r \in page[m] : m # l
    BY <1>6
  <2> QED BY <1>1, <2>1 DEF IInv, NothingIsMadeUp
<1> QED BY <1>3, <1>4, <1>5, <1>7, <1>8 DEF IInv

\* The statements that follow change nothing of what is asked for.
LEMMA MeanwhileFrame ==
    ASSUME Meanwhile, UNCHANGED <<tables, ask, user_ids, always, ever>>,
           \A m \in ListReq : (pc'[m] # "new" => pc[m] # "new") /\ (Active(m)' => Active(m))
    PROVE  Meanwhile'
<1>1. \A m \in ListReq : Meant(ask[m], FALSE)' = Meant(ask[m], FALSE) /\ Meant(ask[m], TRUE)' = Meant(ask[m], TRUE)
  BY DEF Meant, Asked, tables
<1> QED BY <1>1 DEF Meanwhile, tables

LEMMA CountInv ==
    ASSUME IInv, TypeOK', NEW l \in ListReq, ListCount(l)
    PROVE  IInv'
<1>1. /\ pc[l] = "asked" /\ pc'[l] = "counted" /\ total'[l] = Cardinality(Matching(l))
      /\ UNCHANGED <<events, industry, bookings, ask, user_ids, page, always, ever>>
      /\ \A m \in ListReq \ {l} : pc'[m] = pc[m] /\ total'[m] = total[m]
  BY DEF ListCount, Count, tables, history, IInv, TypeOK
<1>2. always[l] \subseteq Matching(l) /\ Matching(l) \subseteq ever[l]
  BY <1>1, MatchingIsMeant DEF IInv, Active
<1>3. total'[l] \in Cardinality(always[l])..Cardinality(ever[l])
  <2>1. /\ IsFiniteSet(ever[l]) /\ IsFiniteSet(Matching(l)) /\ Cardinality(Matching(l)) \in Nat
        /\ Cardinality(always[l]) \in Nat /\ Cardinality(ever[l]) \in Nat
    BY Counted, MatchingType, FS_CardinalityType DEF IInv
  <2>2. Cardinality(always[l]) <= Cardinality(Matching(l))
    BY <1>2, <2>1, FS_Subset
  <2>3. Cardinality(Matching(l)) <= Cardinality(ever[l])
    BY <1>2, <2>1, FS_Subset
  <2> QED BY <1>1, <2>1, <2>2, <2>3
<1>4. Entered'
  BY <1>1 DEF IInv, Entered, Listed
<1>5. Meanwhile'
  BY <1>1, MeanwhileFrame DEF IInv, Active, tables
<1>6. Found'
  BY <1>1, <1>3 DEF IInv, Found
<1>7. NothingIsMissed' /\ NothingIsMadeUp'
  BY <1>1 DEF IInv, NothingIsMissed, NothingIsMadeUp, Ids
<1> QED BY <1>4, <1>5, <1>6, <1>7 DEF IInv

\* A page has one row for each id.
LEMMA RowsCounted ==
    ASSUME NEW ids, IsFiniteSet(ids)
    PROVE  /\ Cardinality(Rows(ids)) = Cardinality(ids)
           /\ {r[1] : r \in Rows(ids)} = ids
<1> DEFINE row(i) == <<i, IF i \in Event THEN events[i] ELSE bookings[i]>>
           f == [i \in ids |-> row(i)]
<1>1. Rows(ids) = {row(i) : i \in ids}
  BY DEF Rows
<1>2. \A i \in ids : row(i)[1] = i
  OBVIOUS
<1>3. f \in Bijection(ids, Rows(ids))
  <2>1. f \in [ids -> Rows(ids)]
    BY <1>1
  <2>2. \A i, j \in ids : f[i] = f[j] => i = j
    OBVIOUS
  <2>3. \A r \in Rows(ids) : \E i \in ids : f[i] = r
    BY <1>1
  <2> HIDE DEF f
  <2> QED BY <2>1, <2>2, <2>3 DEF Bijection, Injection, Surjection, IsInjective
<1>4. ExistsBijection(ids, Rows(ids))
  BY <1>3 DEF ExistsBijection
<1>5. Cardinality(Rows(ids)) = Cardinality(ids)
  BY <1>4, FS_Bijection
<1> HIDE DEF row
<1>6. {r[1] : r \in Rows(ids)} = ids
  BY <1>1, <1>2
<1> QED BY <1>5, <1>6

LEMMA PageInv ==
    ASSUME IInv, TypeOK', NEW l \in ListReq, ListPage(l)
    PROVE  IInv'
<1> DEFINE found == Matching(l)
           size == Min({ask[l].limit, Max({0, Cardinality(found) - ask[l].offset})})
<1>1. PICK ids \in kSubset(size, found) : page' = [page EXCEPT ![l] = Rows(ids)]
  BY DEF ListPage
<1>2. /\ pc[l] = "counted" /\ pc'[l] = "done" /\ page'[l] = Rows(ids)
      /\ UNCHANGED <<events, industry, bookings, ask, user_ids, total, always, ever>>
      /\ \A m \in ListReq \ {l} : pc'[m] = pc[m] /\ page'[m] = page[m]
  BY <1>1 DEF ListPage, tables, history, IInv, TypeOK
<1>3. ids \subseteq found /\ Cardinality(ids) = size
  BY <1>1 DEF kSubset
<1>4. always[l] \subseteq found /\ found \subseteq ever[l] /\ ask[l] \in Query
  BY <1>2, MatchingIsMeant DEF IInv, Active, Meanwhile
<1>5. IsFiniteSet(found) /\ IsFiniteSet(ids) /\ Cardinality(found) \in Nat /\ Cardinality(always[l]) \in Nat
  <2>1. IsFiniteSet(found)
    BY MatchingType DEF IInv
  <2> QED BY <1>3, <2>1, FS_Subset, FS_CardinalityType, Counted DEF IInv
<1>6. Cardinality(Rows(ids)) = size /\ Ids(l)' = ids
  BY <1>2, <1>3, <1>5, RowsCounted DEF Ids
<1> DEFINE n == Cardinality(found)
           a == Cardinality(always[l])
           limit == ask[l].limit
           offset == ask[l].offset
<1>7. limit \in Nat \ {0} /\ offset \in Nat /\ n \in Nat /\ a \in Nat /\ a <= n
  BY <1>4, <1>5, QueryType, FS_Subset
<1>8. size = IF limit <= n - offset THEN limit ELSE IF 0 >= n - offset THEN 0 ELSE n - offset
  <2> HIDE DEF n, limit, offset
  <2> DEFINE left == Max({0, n - offset})
  <2>1. left = IF 0 >= n - offset THEN 0 ELSE n - offset
    BY <1>7, MaxOfTwo
  <2>2. left \in Int
    BY <1>7, <2>1
  <2>3. Min({limit, left}) = IF limit <= left THEN limit ELSE left
    <3> HIDE DEF left
    <3> QED BY <1>7, <2>2, MinOfTwo
  <2>4. size = Min({limit, left})
    BY DEF n, limit, offset
  <2> HIDE DEF left, size
  <2> QED BY <1>7, <2>1, <2>3, <2>4
<1>9. Cardinality(page'[l]) >= Min({limit, a - offset})
  <2> HIDE DEF n, a, limit, offset, size
  <2>1. Min({limit, a - offset}) = IF limit <= a - offset THEN limit ELSE a - offset
    BY <1>7, MinOfTwo
  <2>2. size >= Min({limit, a - offset})
    BY <1>7, <1>8, <2>1
  <2> QED BY <1>2, <1>6, <2>2
<1>10. ASSUME offset = 0, size < limit PROVE always[l] \subseteq ids
  <2>1. size = n
    <3> HIDE DEF n, limit, offset, size
    <3> QED BY <1>7, <1>8, <1>10
  <2>2. ids = found
    BY <1>3, <1>5, <2>1, FS_Subset
  <2> QED BY <1>4, <2>2
<1>11. NothingIsMissed'
  <2> SUFFICES /\ Cardinality(page'[l]) >= Min({limit, a - offset})
               /\ offset = 0 /\ Cardinality(page'[l]) < limit => always[l] \subseteq Ids(l)'
    BY <1>2 DEF IInv, NothingIsMissed, Ids
  <2> HIDE DEF n, a, limit, offset, size
  <2> QED BY <1>2, <1>6, <1>9, <1>10
<1>12. NothingIsMadeUp'
  <2>1. ASSUME NEW r \in Rows(ids)
        PROVE  /\ r[1] \in ever[l]
               /\ r[1] \in Booking => r[2] = ask[l].filter
               /\ r[1] \in Event /\ ask[l].filter.industry # None => r[2].user \in user_ids[l]
    <3>1. PICK i \in ids : r = <<i, IF i \in Event THEN events[i] ELSE bookings[i]>>
      BY DEF Rows
    <3>2. i \in found /\ i \in ever[l]
      BY <1>3, <1>4
    <3>3. CASE ask[l].filter \in Customer
      BY <3>1, <3>2, <3>3, CatalogueAssumption DEF Matching
    <3>4. CASE ask[l].filter \notin Customer
      BY <3>1, <3>2, <3>4, CatalogueAssumption DEF Matching, Listed, HasIndustry
    <3> QED BY <3>3, <3>4
  <2> SUFFICES ASSUME NEW m \in ListReq, NEW r \in page'[m]
               PROVE  /\ r[1] \in ever[m]
                      /\ r[1] \in Booking => r[2] = ask[m].filter
                      /\ r[1] \in Event /\ ask[m].filter.industry # None => r[2].user \in user_ids[m]
    BY <1>2 DEF NothingIsMadeUp
  <2>2. CASE m = l
    BY <1>2, <2>1, <2>2
  <2>3. CASE m # l
    BY <1>2, <2>3 DEF IInv, NothingIsMadeUp
  <2> QED BY <2>2, <2>3
<1>13. Entered' /\ Found'
  BY <1>2 DEF IInv, Entered, Listed, Found
<1>14. Meanwhile'
  BY <1>2, MeanwhileFrame DEF IInv, Active, tables
<1> QED BY <1>11, <1>12, <1>13, <1>14 DEF IInv

LEMMA StepInv == IInv /\ [Next]_vars => IInv'
<1> SUFFICES ASSUME IInv, [Next]_vars PROVE IInv'
  OBVIOUS
<1>t. TypeOK'
  BY StepType DEF IInv
<1>1. ASSUME NEW e \in Event, NEW u \in Organizer, NEW c \in City, NEW d \in Day, NEW t \in Time,
             CreateEvent(e, u, c, d, t)
      PROVE  IInv'
  <2>1. Entered'
    BY <1>1 DEF CreateEvent, IInv, TypeOK, Entered, Listed, NewRow
  <2> QED BY <1>1, <1>t, <2>1, ChangeInv DEF CreateEvent, IInv, TypeOK
<1>2. ASSUME NEW e \in Event, NEW c \in City, NEW d \in Day, NEW t \in Time, UpdateEvent(e, c, d, t)
      PROVE  IInv'
  <2>1. Entered'
    BY <1>2 DEF UpdateEvent, IInv, TypeOK, Entered, Listed, NewRow
  <2> QED BY <1>2, <1>t, <2>1, ChangeInv DEF UpdateEvent, IInv, TypeOK, NewRow
<1>3. ASSUME NEW e \in Event, DeleteEvent(e) PROVE IInv'
  <2>1. Entered'
    BY <1>3 DEF DeleteEvent, IInv, TypeOK, Entered, Listed
  <2> QED BY <1>3, <1>t, <2>1, ChangeInv DEF DeleteEvent, IInv, TypeOK
<1>4. ASSUME NEW u \in Organizer, NEW i \in Industry, UpdateProfile(u, i) PROVE IInv'
  BY <1>4, <1>t, ChangeInv DEF UpdateProfile, IInv, Entered, Listed
<1>5. ASSUME NEW b \in Booking, NEW c \in Customer, Book(b, c) PROVE IInv'
  BY <1>5, <1>t, ChangeInv DEF Book, IInv, Entered, Listed
<1>6. ASSUME NEW l \in ListReq, NEW q \in Query, ListStart(l, q) PROVE IInv'
  BY <1>6, <1>t, StartInv
<1>7. ASSUME NEW l \in ListReq, ListCount(l) \/ ListPage(l) PROVE IInv'
  BY <1>7, <1>t, CountInv, PageInv
<1>8. CASE UNCHANGED vars
  <2>1. UNCHANGED <<tables, pc, ask, user_ids, total, page, always, ever>>
    BY <1>8 DEF vars, lists, history
  <2>2. Meanwhile'
    BY <2>1, MeanwhileFrame DEF IInv, Active
  <2> QED BY <1>t, <2>1, <2>2 DEF IInv, tables, Entered, Listed, Found, NothingIsMissed, NothingIsMadeUp, Ids
<1> QED BY <1>1, <1>2, <1>3, <1>4, <1>5, <1>6, <1>7, <1>8 DEF Next, Quiescent

LEMMA Invariant == Spec => []IInv
BY InitInv, StepInv, PTL DEF Spec

----------------------------------------------------------------------------

(***************************************************************************)
(* The column of every event is the instant its organizer entered, for     *)
(* each of the 1440 times of every day (events/schemas.py 10-17).          *)
(***************************************************************************)
THEOREM DatesAreMeant == Spec => []DateIsMeant
<1>1. IInv => DateIsMeant
  <2> SUFFICES ASSUME IInv, NEW e \in Listed
               PROVE  /\ events[e].date \div MinutesOfDay = events[e].day
                      /\ ClockShows(events[e].date % MinutesOfDay) = events[e].time
    BY DEF DateIsMeant
  <2>1. /\ events[e].day \in Nat /\ events[e].time \in (1..12) \X (0..59) \X Meridiem
        /\ events[e].date = Combine(events[e].day, events[e].time)
    BY CatalogueAssumption DEF IInv, Listed, TypeOK, EventRow, Entered
  <2> QED BY <2>1, CombineIsMeant
<1> QED BY <1>1, Invariant, PTL

(***************************************************************************)
(* A list misses no row that was there all the time, whatever is committed *)
(* between its statements and in whatever order the database returns rows. *)
(***************************************************************************)
THEOREM ListsMissNothing == Spec => []NothingIsMissed
<1>1. IInv => NothingIsMissed
  BY DEF IInv
<1> QED BY <1>1, Invariant, PTL

(***************************************************************************)
(* A list shows nothing that it was never asked for.                       *)
(***************************************************************************)
THEOREM ListsMakeNothingUp == Spec => []NothingIsMadeUp
<1>1. IInv => NothingIsMadeUp
  BY DEF IInv
<1> QED BY <1>1, Invariant, PTL

(***************************************************************************)
(* The total is that of the list, up to what changed meanwhile.            *)
(***************************************************************************)
THEOREM TotalsAreTrue == Spec => []TotalIsTrue
<1>1. IInv => TotalIsTrue
  BY DEF IInv, Found, TotalIsTrue
<1> QED BY <1>1, Invariant, PTL
=============================================================================
