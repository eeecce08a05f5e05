------------------------- MODULE GatewayPoolsProofs -------------------------
(***************************************************************************)
(* The pools of the app, the mock gateway and the Celery worker, of any    *)
(* size and for any number of bookings and triggers: time-outs come in an  *)
(* order that hides a late webhook from its job, and calls are waited for  *)
(* in vain only if the pools of the app and the mock are exhausted at once.*)
(***************************************************************************)
EXTENDS GatewayPools, FiniteSetTheorems, SequenceTheorems, TLAPS

USE DEF CanAcceptWeb, CanAcceptMock, CanCreateOrder, CanEndBooking, CanDeliver, CanEndSimulate,
        CanEndTrigger

----------------------------------------------------------------------------
(* Sequences without duplicates.                                           *)

Before(s, x, y) == \E i, j \in DOMAIN s : i < j /\ s[i] = x /\ s[j] = y

LEMMA RangeOfAppend ==
    ASSUME NEW S, NEW s \in Seq(S), NEW x
    PROVE  Range(Append(s, x)) = Range(s) \cup {x}
BY DEF Range

LEMMA RangeOfTail ==
    ASSUME NEW S, NEW s \in Seq(S), s # <<>>
    PROVE  /\ Tail(s) \in Seq(S)
           /\ Head(s) \in S
           /\ Range(s) = {Head(s)} \cup Range(Tail(s))
<1>1. Tail(s) \in Seq(S) /\ Head(s) \in S /\ Len(Tail(s)) = Len(s) - 1 /\ Head(s) = s[1]
  BY HeadTailProperties, EmptySeq, ElementOfSeq
<1>2. \A i \in 1..Len(Tail(s)) : Tail(s)[i] = s[i + 1]
  BY HeadTailProperties
<1>3. \A i \in 2..Len(s) : i - 1 \in 1..Len(Tail(s)) /\ Tail(s)[i - 1] = s[i]
  BY <1>1, <1>2
<1>4. ASSUME NEW y PROVE y \in Range(s) <=> y \in {Head(s)} \cup Range(Tail(s))
  <2>1. DOMAIN s = 1..Len(s) /\ DOMAIN Tail(s) = 1..Len(Tail(s)) /\ 1 \in DOMAIN s
    BY <1>1, EmptySeq
  <2>2. ASSUME NEW i \in DOMAIN s, i # 1 PROVE s[i] \in Range(Tail(s))
    <3>1. i \in 2..Len(s) /\ i - 1 \in DOMAIN Tail(s) /\ Tail(s)[i - 1] = s[i]
      BY <2>1, <2>2, <1>1, <1>3
    <3> QED BY <3>1 DEF Range
  <2>3. ASSUME NEW i \in DOMAIN Tail(s) PROVE Tail(s)[i] \in Range(s)
    BY <2>1, <2>3, <1>1, <1>2 DEF Range
  <2> QED BY <1>1, <2>1, <2>2, <2>3 DEF Range
<1> QED BY <1>1, <1>4

LEMMA InjectiveTail ==
    ASSUME NEW S, NEW s \in Seq(S), s # <<>>, IsInjective(s)
    PROVE  IsInjective(Tail(s)) /\ Head(s) \notin Range(Tail(s))
<1> DEFINE r == Tail(s)
<1>1. /\ DOMAIN s = 1..Len(s) /\ Len(s) \in Nat \ {0} /\ DOMAIN r = 1..(Len(s) - 1)
      /\ Head(s) = s[1] /\ \A i \in DOMAIN r : r[i] = s[i + 1]
  OBVIOUS
<1> HIDE DEF r
<1>2. \A i, j \in DOMAIN s : s[i] = s[j] => i = j
  BY DEF IsInjective
<1>3. \A i \in DOMAIN r : i + 1 \in DOMAIN s /\ i + 1 # 1 /\ i \in Nat /\ 1 \in DOMAIN s
  BY <1>1
<1>4. \A i, j \in DOMAIN r : r[i] = r[j] => i = j
  <2> SUFFICES ASSUME NEW i \in DOMAIN r, NEW j \in DOMAIN r, r[i] = r[j] PROVE i = j
    OBVIOUS
  <2>1. i + 1 = j + 1
    BY <1>1, <1>2, <1>3
  <2> QED BY <1>3, <2>1
<1>5. \A i \in DOMAIN r : r[i] # s[1]
  BY <1>1, <1>2, <1>3
<1> QED BY <1>1, <1>4, <1>5 DEF IsInjective, Range, r

LEMMA AppendKeeps ==
    ASSUME NEW S, NEW s \in Seq(S), NEW x, x \notin Range(s), IsInjective(s)
    PROVE  /\ IsInjective(Append(s, x))
           /\ \A y, z : Before(s, y, z) => Before(Append(s, x), y, z)
           /\ \A y \in Range(s) : Before(Append(s, x), y, x)
<1> DEFINE r == Append(s, x)
<1>1. /\ DOMAIN s = 1..Len(s) /\ DOMAIN r = 1..(Len(s) + 1) /\ Len(s) \in Nat
      /\ \A i \in DOMAIN s : i \in DOMAIN r /\ r[i] = s[i] /\ i < Len(s) + 1
      /\ r[Len(s) + 1] = x /\ Len(s) + 1 \in DOMAIN r
      /\ \A i \in DOMAIN r : i \in DOMAIN s \/ i = Len(s) + 1
  OBVIOUS
<1> HIDE DEF r
<1>2. IsInjective(r)
  BY <1>1 DEF IsInjective, Range
<1>3. ASSUME NEW y, NEW z, Before(s, y, z) PROVE Before(r, y, z)
  BY <1>1, <1>3 DEF Before
<1>4. ASSUME NEW y \in Range(s) PROVE Before(r, y, x)
  BY <1>1, <1>4 DEF Before, Range
<1> QED BY <1>2, <1>3, <1>4 DEF r

\* Taking out what a sequence has at most once.
LEMMA RemoveFirstKeeps ==
    ASSUME NEW S, NEW s \in Seq(S), NEW x, IsInjective(s)
    PROVE  /\ RemoveFirst(s, x) \in Seq(S)
           /\ IsInjective(RemoveFirst(s, x))
           /\ Range(RemoveFirst(s, x)) = Range(s) \ {x}
           /\ \A y, z : Before(s, y, z) /\ x \notin {y, z} => Before(RemoveFirst(s, x), y, z)
<1>1. CASE x \notin Range(s)
  <2>1. RemoveFirst(s, x) = s
    BY <1>1 DEF RemoveFirst, Range
  <2> QED BY <2>1, <1>1
<1>2. ASSUME NEW k \in 1..Len(s), s[k] = x
      PROVE  /\ RemoveFirst(s, x) \in Seq(S)
             /\ Len(RemoveFirst(s, x)) = Len(s) - 1
             /\ \A i \in 1..(Len(s) - 1) : RemoveFirst(s, x)[i] = IF i < k THEN s[i] ELSE s[i + 1]
  <2> DEFINE I == {i \in 1..Len(s) : s[i] = x}
  <2>1. I = {k}
    BY <1>2 DEF IsInjective
  <2>2. SelectInSeq(s, LAMBDA v : v = x) = k
    BY <2>1 DEF SelectInSeq, Min
  <2> DEFINE a == SubSeq(s, 1, k - 1)
             b == SubSeq(s, k + 1, Len(s))
  <2>3. RemoveFirst(s, x) = a \o b
    BY <2>2, <1>2 DEF RemoveFirst, RemoveAt
  <2>4. a \in Seq(S) /\ Len(a) = k - 1 /\ \A i \in 1..(k - 1) : a[i] = s[i]
    BY SubSeqProperties
  <2>5. b \in Seq(S) /\ Len(b) = Len(s) - k /\ \A i \in 1..(Len(s) - k) : b[i] = s[k + i]
    BY SubSeqProperties
  <2> HIDE DEF a, b, I
  <2> DEFINE r == a \o b
  <2>6. /\ r \in Seq(S) /\ Len(r) = Len(a) + Len(b)
        /\ \A i \in 1..(Len(a) + Len(b)) : r[i] = IF i <= Len(a) THEN a[i] ELSE b[i - Len(a)]
    BY <2>4, <2>5, ConcatProperties
  <2> HIDE DEF r
  <2>7. Len(s) \in Nat /\ k \in 1..Len(s) /\ Len(r) = Len(s) - 1
    BY <2>4, <2>5, <2>6
  <2>8. ASSUME NEW i \in 1..(Len(s) - 1) PROVE r[i] = IF i < k THEN s[i] ELSE s[i + 1]
    <3>1. CASE i < k
      <4>1. i \in 1..(k - 1) /\ i <= Len(a) /\ i \in 1..(Len(a) + Len(b))
        BY <3>1, <2>4, <2>5, <2>7
      <4> QED BY <4>1, <3>1, <2>4, <2>6
    <3>2. CASE ~(i < k)
      <4>1. /\ i - (k - 1) \in 1..(Len(s) - k) /\ k + (i - (k - 1)) = i + 1
            /\ ~(i <= Len(a)) /\ i \in 1..(Len(a) + Len(b)) /\ i - Len(a) = i - (k - 1)
        BY <3>2, <2>4, <2>5, <2>7
      <4> QED BY <4>1, <3>2, <2>5, <2>6
    <3> QED BY <3>1, <3>2
  <2> QED BY <2>3, <2>6, <2>7, <2>8 DEF r
<1>3. ASSUME NEW k \in 1..Len(s), s[k] = x
      PROVE  /\ IsInjective(RemoveFirst(s, x))
             /\ Range(RemoveFirst(s, x)) = Range(s) \ {x}
             /\ \A y, z : Before(s, y, z) /\ x \notin {y, z} => Before(RemoveFirst(s, x), y, z)
  <2> DEFINE r == RemoveFirst(s, x)
  <2>1. /\ r \in Seq(S) /\ Len(r) = Len(s) - 1 /\ DOMAIN r = 1..(Len(s) - 1)
        /\ \A i \in DOMAIN r : r[i] = IF i < k THEN s[i] ELSE s[i + 1]
    BY <1>2, <1>3
  <2> HIDE DEF r
  <2>2. IsInjective(r)
    BY <2>1 DEF IsInjective
  <2>3. \A i \in DOMAIN s \ {k} : \E j \in DOMAIN r : j = (IF i < k THEN i ELSE i - 1) /\ r[j] = s[i]
    BY <2>1
  <2>4. Range(r) = Range(s) \ {x}
    <3>1. ASSUME NEW j \in DOMAIN r PROVE r[j] \in Range(s) \ {x}
      <4>1. PICK i \in 1..Len(s) : i # k /\ r[j] = s[i]
        BY <2>1
      <4> QED BY <4>1, <1>3 DEF IsInjective, Range
    <3>2. ASSUME NEW i \in DOMAIN s, s[i] # x PROVE s[i] \in Range(r)
      BY <2>3, <1>3, <3>2 DEF Range
    <3> QED BY <3>1, <3>2 DEF Range
  <2>5. \A y, z : Before(s, y, z) /\ x \notin {y, z} => Before(r, y, z)
    <3> SUFFICES ASSUME NEW y, NEW z, Before(s, y, z), x \notin {y, z} PROVE Before(r, y, z)
      OBVIOUS
    <3>1. PICK i, j \in DOMAIN s : i < j /\ s[i] = y /\ s[j] = z
      BY DEF Before
    <3>2. i # k /\ j # k
      BY <3>1, <1>3
    <3> DEFINE p(n) == IF n < k THEN n ELSE n - 1
    <3>3. /\ p(i) \in DOMAIN r /\ r[p(i)] = y
          /\ p(j) \in DOMAIN r /\ r[p(j)] = z
      BY <2>3, <3>1, <3>2
    <3>4. p(i) < p(j)
      BY <3>1, <3>2
    <3> HIDE DEF p
    <3> QED BY <3>3, <3>4 DEF Before
  <2> QED BY <2>2, <2>4, <2>5 DEF r
<1>4. CASE x \in Range(s)
  <2>1. PICK k \in 1..Len(s) : s[k] = x
    BY <1>4 DEF Range
  <2> QED BY <2>1, <1>2, <1>3
<1> QED BY <1>1, <1>4
----------------------------------------------------------------------------
(* The inductive invariant.                                                *)

Calls == Orders \cup Simulates \cup Hooks

Pool(S, n) == IsFiniteSet(S) /\ Cardinality(S) <= n
Pools == Pool(web, WebWorkers) /\ Pool(mock, MockWorkers) /\ Pool(celery, CeleryWorkers)

\* The rest of TypeOK.
Types ==
    /\ webq \in Seq(Books \cup Hooks) /\ mockq \in Seq(Orders \cup Simulates)
    /\ web \subseteq Books \cup Hooks /\ mock \subseteq Orders \cup Simulates
    /\ waits \in Seq(Calls)
    /\ answered \subseteq Calls /\ expired \subseteq Calls
    /\ celery \subseteq Trigger
    /\ reply \in [Booking -> {None, 201, 502}]
    /\ job \in [Trigger -> {None, "STARTED", "SUCCESS", "FAILED"}]

\* Somebody waits for a call at most once, and not for one that is over.
WaitedForOnce ==
    /\ IsInjective(waits)
    /\ Range(waits) \cap (answered \cup expired) = {}

\* Whoever waits for a call has it in a queue or with a process.
OnTheWay ==
    /\ \A c \in Range(waits) \cap Hooks : c \in web \cup Range(webq)
    /\ \A c \in Range(waits) \ Hooks : c \in mock \cup Range(mockq)

\* A trigger calls the mock, which then calls the app, gives up no earlier
\* than the trigger does, and answers when the app did or was given up.
TriggerFirst(t) ==
    /\ job[t] = None =>
          Simulate(t) \notin Range(waits) \cup answered \cup expired \cup mock \cup Range(mockq)
    /\ job[t] # None => Simulate(t) \in Range(waits) \cup answered \cup expired
    /\ Simulate(t) \in answered => Hook(t) \in answered \cup expired
    /\ Hook(t) \in expired => Simulate(t) \in expired
    /\ Hook(t) \in Range(waits) =>
          Simulate(t) \in expired \/ Before(waits, Simulate(t), Hook(t))

TriggersFirst == \A t \in Trigger : TriggerFirst(t)

IInv == Types /\ Pools /\ WaitedForOnce /\ OnTheWay /\ TriggersFirst /\ LateIsNotFailed

----------------------------------------------------------------------------

LEMMA Names ==
    /\ \A b \in Booking : Book(b) \in Books /\ Order(b) \in Orders
    /\ \A t \in Trigger : Simulate(t) \in Simulates /\ Hook(t) \in Hooks
    /\ \A b, c \in Booking : (Book(b) = Book(c) => b = c) /\ (Order(b) = Order(c) => b = c)
    /\ \A t, u \in Trigger : (Simulate(t) = Simulate(u) => t = u) /\ (Hook(t) = Hook(u) => t = u)
    /\ Books \cap Hooks = {} /\ Orders \cap Simulates = {}
    /\ Orders \cap Hooks = {} /\ Simulates \cap Hooks = {}
<1>1. \A x, y, z, u : <<x, y>> = <<z, u>> => x = z /\ y = u
  OBVIOUS
<1>2. /\ \A b \in Booking, t \in Trigger : Book(b) # Hook(t) /\ Order(b) # Simulate(t) /\ Order(b) # Hook(t)
      /\ \A t, u \in Trigger : Simulate(t) # Hook(u)
  BY <1>1 DEF Book, Order, Simulate, Hook
<1>3. /\ \A b, c \in Booking : (Book(b) = Book(c) => b = c) /\ (Order(b) = Order(c) => b = c)
      /\ \A t, u \in Trigger : (Simulate(t) = Simulate(u) => t = u) /\ (Hook(t) = Hook(u) => t = u)
  BY <1>1 DEF Book, Order, Simulate, Hook
<1>4. /\ Books \cap Hooks = {} /\ Orders \cap Simulates = {}
      /\ Orders \cap Hooks = {} /\ Simulates \cap Hooks = {}
  BY <1>2 DEF Books, Orders, Simulates, Hooks
<1> QED BY <1>3, <1>4 DEF Books, Orders, Simulates, Hooks

LEMMA InitInv == Init => IInv
<1> SUFFICES ASSUME Init PROVE IInv
  OBVIOUS
<1>1. IsFiniteSet({}) /\ Cardinality({}) = 0 /\ Range(<<>>) = {} /\ IsInjective(<<>>)
  BY FS_EmptySet DEF Range, IsInjective
<1>2. Types /\ Pools
  BY <1>1, PoolsAssumption DEF Init, Types, Pools, Pool
<1>3. WaitedForOnce /\ OnTheWay /\ TriggersFirst /\ LateIsNotFailed
  BY <1>1, PoolsAssumption DEF Init, WaitedForOnce, OnTheWay, TriggersFirst, TriggerFirst, LateIsNotFailed
<1> QED BY <1>2, <1>3 DEF IInv

\* A process more is busy, or one fewer.
LEMMA Busier ==
    ASSUME NEW S, NEW n \in Nat, Pool(S, n)
    PROVE  /\ \A x : Cardinality(S) < n => Pool(S \cup {x}, n)
           /\ \A x : Pool(S \ {x}, n)
<1>1. Cardinality(S) \in Nat
  BY FS_CardinalityType DEF Pool
<1>2. ASSUME NEW x, Cardinality(S) < n PROVE Pool(S \cup {x}, n)
  BY <1>1, <1>2, FS_AddElement DEF Pool
<1>3. ASSUME NEW x PROVE Pool(S \ {x}, n)
  BY <1>1, FS_RemoveElement DEF Pool
<1> QED BY <1>2, <1>3

LEMMA StepPools == Pools /\ [Next]_vars => Pools'
<1> SUFFICES ASSUME Pools, [Next]_vars PROVE Pools'
  OBVIOUS
<1>1. /\ \A x : Cardinality(web) < WebWorkers => Pool(web \cup {x}, WebWorkers)
      /\ \A x : Pool(web \ {x}, WebWorkers)
  BY Busier, PoolsAssumption DEF Pools
<1>2. /\ \A x : Cardinality(mock) < MockWorkers => Pool(mock \cup {x}, MockWorkers)
      /\ \A x : Pool(mock \ {x}, MockWorkers)
  BY Busier, PoolsAssumption DEF Pools
<1>3. /\ \A x : Cardinality(celery) < CeleryWorkers => Pool(celery \cup {x}, CeleryWorkers)
      /\ \A x : Pool(celery \ {x}, CeleryWorkers)
  BY Busier, PoolsAssumption DEF Pools
<1>4. CASE \/ \E c : TimeOut(c)
           \/ \E b \in Booking : PostBooking(b) \/ CreateOrder(b)
           \/ \E t \in Trigger : DeliverWebhook(t)
           \/ UNCHANGED vars
  BY <1>4 DEF Pools, TimeOut, PostBooking, CreateOrder, DeliverWebhook, vars
<1>5. CASE AcceptWeb \/ (\E b \in Booking : EndBooking(b)) \/ (\E t \in Trigger : HandleHook(t))
  BY <1>1, <1>5 DEF Pools, AcceptWeb, EndBooking, HandleHook
<1>6. CASE AcceptMock \/ (\E b \in Booking : MintOrder(b)) \/ (\E t \in Trigger : EndSimulate(t))
  BY <1>2, <1>6 DEF Pools, AcceptMock, MockIsFree, MintOrder, EndSimulate
<1>7. CASE \E t \in Trigger : StartTrigger(t) \/ EndTrigger(t)
  BY <1>3, <1>7 DEF Pools, StartTrigger, EndTrigger
<1> QED BY <1>4, <1>5, <1>6, <1>7 DEF Next, Work, Expire, Over

LEMMA StepTypes == Types /\ WaitedForOnce /\ [Next]_vars => Types'
<1> SUFFICES ASSUME Types, WaitedForOnce, [Next]_vars PROVE Types'
  OBVIOUS
<1> USE Names DEF Types
<1>1. ASSUME NEW c PROVE RemoveFirst(waits, c) \in Seq(Calls)
  BY RemoveFirstKeeps DEF WaitedForOnce
<1>2. Orders \subseteq Calls /\ Simulates \subseteq Calls /\ Hooks \subseteq Calls
  BY DEF Calls
<1>3. ASSUME NEW c, TimeOut(c) PROVE Types'
  <2>1. c \in Calls
    BY <1>3, RangeOfSeq DEF TimeOut, Oldest
  <2> QED BY <1>1, <1>3, <2>1 DEF TimeOut
<1>4. ASSUME NEW b \in Booking, PostBooking(b) \/ CreateOrder(b) \/ EndBooking(b) PROVE Types'
  <2>1. CASE PostBooking(b)
    BY <2>1 DEF PostBooking
  <2>2. CASE CreateOrder(b)
    BY <1>2, <2>2 DEF CreateOrder, CallMock
  <2>3. CASE EndBooking(b)
    BY <2>3 DEF EndBooking
  <2> QED BY <1>4, <2>1, <2>2, <2>3
<1>5. CASE AcceptWeb
  BY <1>5, RangeOfTail DEF AcceptWeb
<1>6. ASSUME NEW t \in Trigger, HandleHook(t) PROVE Types'
  BY <1>1, <1>2, <1>6 DEF HandleHook, AnswerTo
<1>7. CASE AcceptMock
  BY <1>7, RangeOfTail DEF AcceptMock
<1>8. ASSUME NEW b \in Booking, MintOrder(b) PROVE Types'
  BY <1>1, <1>2, <1>8 DEF MintOrder, AnswerTo
<1>9. ASSUME NEW t \in Trigger, DeliverWebhook(t) PROVE Types'
  BY <1>2, <1>9 DEF DeliverWebhook, CallApp
<1>10. ASSUME NEW t \in Trigger, EndSimulate(t) PROVE Types'
  BY <1>1, <1>2, <1>10 DEF EndSimulate, AnswerTo
<1>11. ASSUME NEW t \in Trigger, StartTrigger(t) \/ EndTrigger(t) PROVE Types'
  <2>1. CASE StartTrigger(t)
    BY <1>2, <2>1 DEF StartTrigger, CallMock
  <2>2. CASE EndTrigger(t)
    <3>1. job' \in [Trigger -> {None, "STARTED", "SUCCESS", "FAILED"}]
      BY <2>2 DEF EndTrigger
    <3>2. celery' \subseteq Trigger
      BY <2>2 DEF EndTrigger
    <3>3. UNCHANGED <<webq, mockq, web, mock, waits, answered, expired, reply>>
      BY <2>2 DEF EndTrigger
    <3> QED BY <3>1, <3>2, <3>3
  <2> QED BY <1>11, <2>1, <2>2
<1>12. CASE UNCHANGED vars
  BY <1>12 DEF vars
<1> QED
  BY <1>3, <1>4, <1>5, <1>6, <1>7, <1>8, <1>9, <1>10, <1>11, <1>12 DEF Next, Work, Expire, Over

----------------------------------------------------------------------------
(* What a step does to the calls that are waited for: nothing, or one call *)
(* is sent that was not before, or one is over.                            *)

Sends(c) ==
    /\ c \in Calls \ (Range(waits) \cup answered \cup expired)
    /\ waits' = Append(waits, c)
    /\ UNCHANGED <<answered, expired>>

Ends(c) ==
    /\ waits' = RemoveFirst(waits, c)
    /\ answered' \cup expired' = answered \cup expired \cup {c}

LEMMA SendsKeeps ==
    ASSUME Types, WaitedForOnce, NEW c, Sends(c)
    PROVE  /\ WaitedForOnce'
           /\ Range(waits') = Range(waits) \cup {c}
           /\ \A x, y : Before(waits, x, y) => Before(waits', x, y)
           /\ \A x \in Range(waits) : Before(waits', x, c)
<1>1. /\ Range(waits') = Range(waits) \cup {c}
      /\ IsInjective(waits')
      /\ \A x, y : Before(waits, x, y) => Before(waits', x, y)
      /\ \A x \in Range(waits) : Before(waits', x, c)
  BY RangeOfAppend, AppendKeeps DEF Types, WaitedForOnce, Sends
<1> QED BY <1>1 DEF WaitedForOnce, Sends

LEMMA EndsKeeps ==
    ASSUME Types, WaitedForOnce, NEW c, Ends(c)
    PROVE  /\ WaitedForOnce'
           /\ Range(waits') = Range(waits) \ {c}
           /\ \A x, y : Before(waits, x, y) /\ c \notin {x, y} => Before(waits', x, y)
<1>1. /\ Range(waits') = Range(waits) \ {c}
      /\ IsInjective(waits')
      /\ \A x, y : Before(waits, x, y) /\ c \notin {x, y} => Before(waits', x, y)
  BY RemoveFirstKeeps DEF Types, WaitedForOnce, Ends
<1> QED BY <1>1 DEF WaitedForOnce, Ends

LEMMA StepCalls ==
    ASSUME IInv, [Next]_vars
    PROVE  \/ UNCHANGED <<waits, answered, expired>>
           \/ \E c : Sends(c)
           \/ \E c : Ends(c)
<1>1. Orders \subseteq Calls /\ Simulates \subseteq Calls /\ Hooks \subseteq Calls
  BY DEF Calls
<1>2. ASSUME NEW c, TimeOut(c) PROVE Ends(c)
  BY <1>2 DEF TimeOut, Ends
<1>3. ASSUME NEW b \in Booking, CreateOrder(b) PROVE Sends(Order(b))
  BY <1>1, <1>3, Names DEF CreateOrder, CallMock, Sends
<1>4. ASSUME NEW b \in Booking, MintOrder(b) PROVE Ends(Order(b))
  BY <1>4 DEF MintOrder, AnswerTo, Ends
<1>5. ASSUME NEW t \in Trigger, DeliverWebhook(t) PROVE Sends(Hook(t))
  BY <1>1, <1>5, Names DEF DeliverWebhook, CallApp, Sends
<1>6. ASSUME NEW t \in Trigger, HandleHook(t) PROVE Ends(Hook(t))
  BY <1>6 DEF HandleHook, AnswerTo, Ends
<1>7. ASSUME NEW t \in Trigger, StartTrigger(t) PROVE Sends(Simulate(t))
  BY <1>1, <1>7, Names DEF StartTrigger, CallMock, Sends, IInv, TriggersFirst, TriggerFirst
<1>8. ASSUME NEW t \in Trigger, EndSimulate(t) PROVE Ends(Simulate(t))
  BY <1>8 DEF EndSimulate, AnswerTo, Ends
<1>9. CASE \/ AcceptWeb \/ AcceptMock \/ Over \/ UNCHANGED vars
           \/ \E b \in Booking : PostBooking(b) \/ EndBooking(b)
           \/ \E t \in Trigger : EndTrigger(t)
  BY <1>9 DEF AcceptWeb, AcceptMock, Over, vars, PostBooking, EndBooking, EndTrigger
<1> QED
  BY <1>2, <1>3, <1>4, <1>5, <1>6, <1>7, <1>8, <1>9 DEF Next, Work, Expire

LEMMA StepWaited == IInv /\ [Next]_vars => WaitedForOnce'
BY StepCalls, SendsKeeps, EndsKeeps DEF IInv, WaitedForOnce

LEMMA StepOnTheWay == IInv /\ [Next]_vars => OnTheWay'
<1> SUFFICES ASSUME IInv, [Next]_vars PROVE OnTheWay'
  OBVIOUS
<1> USE DEF IInv, OnTheWay
<1>1. ASSUME NEW c, Ends(c), web \ {c} \subseteq web', mock \ {c} \subseteq mock', UNCHANGED <<webq, mockq>>
      PROVE  OnTheWay'
  BY <1>1, EndsKeeps
<1>2. ASSUME NEW c, TimeOut(c) PROVE OnTheWay'
  BY <1>1, <1>2 DEF TimeOut, Ends
<1>3. ASSUME NEW b \in Booking, PostBooking(b) PROVE OnTheWay'
  BY <1>3, RangeOfAppend DEF PostBooking, Types
<1>4. CASE AcceptWeb
  BY <1>4, RangeOfTail DEF AcceptWeb, Types
<1>5. ASSUME NEW b \in Booking, CreateOrder(b) PROVE OnTheWay'
  <2>1. Range(waits') = Range(waits) \cup {Order(b)} /\ Range(mockq') = Range(mockq) \cup {Order(b)}
    BY <1>5, RangeOfAppend DEF CreateOrder, CallMock, Types
  <2> QED BY <2>1, <1>5, Names DEF CreateOrder
<1>6. ASSUME NEW b \in Booking, EndBooking(b) PROVE OnTheWay'
  BY <1>6, Names DEF EndBooking
<1>7. ASSUME NEW t \in Trigger, HandleHook(t) PROVE OnTheWay'
  BY <1>1, <1>7 DEF HandleHook, AnswerTo, Ends
<1>8. CASE AcceptMock
  BY <1>8, RangeOfTail DEF AcceptMock, Types
<1>9. ASSUME NEW b \in Booking, MintOrder(b) PROVE OnTheWay'
  BY <1>1, <1>9 DEF MintOrder, AnswerTo, Ends
<1>10. ASSUME NEW t \in Trigger, DeliverWebhook(t) PROVE OnTheWay'
  <2>1. Range(waits') = Range(waits) \cup {Hook(t)} /\ Range(webq') = Range(webq) \cup {Hook(t)}
    BY <1>10, RangeOfAppend DEF DeliverWebhook, CallApp, Types
  <2> QED BY <2>1, <1>10, Names DEF DeliverWebhook
<1>11. ASSUME NEW t \in Trigger, EndSimulate(t) PROVE OnTheWay'
  BY <1>1, <1>11 DEF EndSimulate, AnswerTo, Ends
<1>12. ASSUME NEW t \in Trigger, StartTrigger(t) PROVE OnTheWay'
  <2>1. Range(waits') = Range(waits) \cup {Simulate(t)} /\ Range(mockq') = Range(mockq) \cup {Simulate(t)}
    BY <1>12, RangeOfAppend DEF StartTrigger, CallMock, Types
  <2> QED BY <2>1, <1>12, Names DEF StartTrigger
<1>13. CASE (\E t \in Trigger : EndTrigger(t)) \/ UNCHANGED vars
  BY <1>13 DEF EndTrigger, vars
<1> QED
  BY <1>2, <1>3, <1>4, <1>5, <1>6, <1>7, <1>8, <1>9, <1>10, <1>11, <1>12, <1>13
  DEF Next, Work, Expire, Over

LEMMA StepTriggers == IInv /\ [Next]_vars => TriggersFirst'
<1> SUFFICES ASSUME IInv, [Next]_vars, NEW t \in Trigger PROVE TriggerFirst(t)'
  BY DEF TriggersFirst
<1> USE Names
<1>1. Types /\ WaitedForOnce /\ TriggerFirst(t)
  BY DEF IInv, TriggersFirst
<1>2. ASSUME NEW c, Ends(c), c \notin {Simulate(t), Hook(t)},
             Simulate(t) \in answered' => Simulate(t) \in answered,
             Simulate(t) \in expired <=> Simulate(t) \in expired',
             Hook(t) \in expired <=> Hook(t) \in expired',
             UNCHANGED job, mock' \subseteq mock, UNCHANGED mockq
      PROVE  TriggerFirst(t)'
  BY <1>1, <1>2, EndsKeeps DEF TriggerFirst, Ends
<1>3. ASSUME NEW c, TimeOut(c) PROVE TriggerFirst(t)'
  <2>1. Ends(c) /\ 1 \in DOMAIN waits /\ c = waits[1] /\ c \in Range(waits)
    BY <1>1, <1>3 DEF TimeOut, Oldest, Ends, Range, Types
  <2>2. ~Before(waits, Simulate(t), c)
    BY <1>1, <2>1 DEF Before, WaitedForOnce, IsInjective, Types
  <2>3. CASE c = Hook(t)
    <3>1. Simulate(t) \in expired
      BY <1>1, <2>1, <2>2, <2>3 DEF TriggerFirst
    <3> QED BY <1>1, <1>3, <2>1, <2>3, <3>1, EndsKeeps DEF TimeOut, TriggerFirst
  <2>4. CASE c = Simulate(t)
    BY <1>1, <1>3, <2>1, <2>4, EndsKeeps DEF TimeOut, TriggerFirst
  <2>5. CASE c \notin {Simulate(t), Hook(t)}
    BY <1>2, <1>3, <2>1, <2>5 DEF TimeOut
  <2> QED BY <2>3, <2>4, <2>5
<1>4. ASSUME NEW c, Sends(c), c \notin {Simulate(t), Hook(t)}, UNCHANGED job,
             Simulate(t) \in mock' \cup Range(mockq') => Simulate(t) \in mock \cup Range(mockq)
      PROVE  TriggerFirst(t)'
  BY <1>1, <1>4, SendsKeeps DEF TriggerFirst, Sends
<1>5. ASSUME NEW b \in Booking, CreateOrder(b) PROVE TriggerFirst(t)'
  <2>1. Sends(Order(b)) /\ Order(b) \notin {Simulate(t), Hook(t)}
    BY <1>5 DEF CreateOrder, CallMock, Sends, Calls
  <2>2. Range(mockq') = Range(mockq) \cup {Order(b)}
    BY <1>1, <1>5, RangeOfAppend DEF CreateOrder, CallMock, Types
  <2> QED BY <1>4, <1>5, <2>1, <2>2 DEF CreateOrder
<1>6. ASSUME NEW b \in Booking, MintOrder(b) PROVE TriggerFirst(t)'
  <2>1. Ends(Order(b)) /\ Order(b) \notin {Simulate(t), Hook(t)}
    BY <1>6 DEF MintOrder, AnswerTo, Ends
  <2> QED BY <1>2, <1>6, <2>1 DEF MintOrder, AnswerTo
<1>7. ASSUME NEW u \in Trigger, DeliverWebhook(u) PROVE TriggerFirst(t)'
  <2>1. Sends(Hook(u))
    BY <1>7 DEF DeliverWebhook, CallApp, Sends, Calls
  <2>2. CASE u = t
    <3>1. Simulate(t) \in Range(waits) \cup expired
      BY <1>1, <1>7, <2>2 DEF DeliverWebhook, TriggerFirst
    <3>2. Hook(t) \notin Range(waits) \cup answered \cup expired
      BY <1>7, <2>2 DEF DeliverWebhook
    <3> QED
      BY <1>1, <1>7, <2>1, <2>2, <3>1, <3>2, SendsKeeps DEF DeliverWebhook, TriggerFirst, Sends
  <2>3. CASE u # t
    BY <1>4, <1>7, <2>1, <2>3 DEF DeliverWebhook
  <2> QED BY <2>2, <2>3
<1>8. ASSUME NEW u \in Trigger, HandleHook(u) PROVE TriggerFirst(t)'
  <2>1. Ends(Hook(u))
    BY <1>8 DEF HandleHook, AnswerTo, Ends
  <2>2. CASE u = t
    BY <1>1, <1>8, <2>1, <2>2, EndsKeeps DEF HandleHook, AnswerTo, TriggerFirst
  <2>3. CASE u # t
    BY <1>2, <1>8, <2>1, <2>3 DEF HandleHook, AnswerTo
  <2> QED BY <2>2, <2>3
<1>9. ASSUME NEW u \in Trigger, EndSimulate(u) PROVE TriggerFirst(t)'
  <2>1. Ends(Simulate(u))
    BY <1>9 DEF EndSimulate, AnswerTo, Ends
  <2>2. CASE u = t
    <3>1. Hook(t) \notin Range(waits)
      BY <1>1, <1>9, <2>2 DEF EndSimulate, WaitedForOnce
    <3>2. job[t] # None
      BY <1>1, <1>9, <2>2 DEF EndSimulate, TriggerFirst
    <3> QED BY <1>1, <1>9, <2>1, <2>2, <3>1, <3>2, EndsKeeps DEF EndSimulate, AnswerTo, TriggerFirst
  <2>3. CASE u # t
    BY <1>2, <1>9, <2>1, <2>3 DEF EndSimulate, AnswerTo
  <2> QED BY <2>2, <2>3
<1>10. ASSUME NEW u \in Trigger, StartTrigger(u) PROVE TriggerFirst(t)'
  <2>1. Sends(Simulate(u))
    BY <1>10 DEF StartTrigger, CallMock, Sends, Calls, IInv, TriggersFirst, TriggerFirst
  <2>2. Range(mockq') = Range(mockq) \cup {Simulate(u)}
    BY <1>1, <1>10, RangeOfAppend DEF StartTrigger, CallMock, Types
  <2>3. CASE u = t
    <3>1. job'[t] # None
      BY <1>1, <1>10, <2>3, PoolsAssumption DEF StartTrigger, Types
    <3>2. /\ Hook(t) \notin expired \cup Range(waits)
          /\ Simulate(t) \notin answered
      <4>1. Simulate(t) \notin Range(waits) \cup answered \cup expired
        BY <1>1, <1>10, <2>3 DEF StartTrigger, TriggerFirst
      <4>2. ~Before(waits, Simulate(t), Hook(t))
        BY <4>1 DEF Before, Range
      <4> QED BY <1>1, <4>1, <4>2 DEF TriggerFirst
    <3> QED BY <1>1, <1>10, <2>1, <2>3, <3>1, <3>2, SendsKeeps DEF StartTrigger, Sends, TriggerFirst
  <2>4. CASE u # t
    <3>1. job'[t] = job[t]
      BY <1>1, <1>10, <2>4 DEF StartTrigger, Types
    <3> QED BY <1>1, <1>10, <2>1, <2>2, <2>4, <3>1, SendsKeeps DEF StartTrigger, Sends, TriggerFirst
  <2> QED BY <2>3, <2>4
<1>11. ASSUME NEW u \in Trigger, EndTrigger(u) PROVE TriggerFirst(t)'
  <2>1. job'[t] = None <=> job[t] = None
    <3>1. CASE u = t /\ Simulate(t) \in answered
      <4>1. job[t] # None
        BY <1>1, <3>1 DEF TriggerFirst
      <4>2. job'[t] \in {job[t], "FAILED", "SUCCESS"}
        BY <1>1, <1>11, <3>1 DEF EndTrigger, Types
      <4> QED BY <4>1, <4>2, PoolsAssumption
    <3>2. CASE ~(u = t /\ Simulate(t) \in answered)
      BY <1>1, <1>11, <3>2 DEF EndTrigger, Types
    <3> QED BY <3>1, <3>2
  <2> QED BY <1>1, <1>11, <2>1 DEF EndTrigger, TriggerFirst
<1>12. CASE AcceptMock
  <2>1. mock' \cup Range(mockq') = mock \cup Range(mockq)
    BY <1>1, <1>12, RangeOfTail DEF AcceptMock, Types
  <2> QED BY <1>1, <1>12, <2>1 DEF AcceptMock, TriggerFirst
<1>13. CASE \/ AcceptWeb \/ UNCHANGED vars
            \/ \E b \in Booking : PostBooking(b) \/ EndBooking(b)
  BY <1>1, <1>13 DEF AcceptWeb, vars, PostBooking, EndBooking, TriggerFirst
<1> QED
  BY <1>3, <1>5, <1>6, <1>7, <1>8, <1>9, <1>10, <1>11, <1>12, <1>13
  DEF Next, Work, Expire, Over

LEMMA StepLate == IInv /\ [Next]_vars => LateIsNotFailed'
<1> SUFFICES ASSUME IInv, [Next]_vars, NEW t \in Trigger PROVE job'[t] # "FAILED"
  BY DEF LateIsNotFailed
<1>1. job[t] # "FAILED" /\ Types
  BY DEF IInv, LateIsNotFailed
<1>2. ASSUME NEW u \in Trigger, EndTrigger(u) PROVE job'[t] # "FAILED"
  <2>1. Hook(u) \in expired => Simulate(u) \in expired
    BY DEF IInv, TriggersFirst, TriggerFirst
  <2> QED BY <1>1, <1>2, <2>1 DEF EndTrigger, Types
<1>3. ASSUME NEW u \in Trigger, StartTrigger(u) PROVE job'[t] # "FAILED"
  BY <1>1, <1>3 DEF StartTrigger, Types
<1>4. CASE UNCHANGED job
  BY <1>1, <1>4
<1> QED
  BY <1>2, <1>3, <1>4
  DEF Next, Work, Expire, Over, vars, TimeOut, PostBooking, AcceptWeb, CreateOrder, EndBooking,
      HandleHook, AcceptMock, MintOrder, DeliverWebhook, EndSimulate

LEMMA Invariant == Spec => []IInv
<1>1. IInv /\ [Next]_vars => IInv'
  BY StepTypes, StepPools, StepWaited, StepOnTheWay, StepTriggers, StepLate DEF IInv
<1> QED BY <1>1, InitInv, PTL DEF Spec

----------------------------------------------------------------------------

(***************************************************************************)
(* Every reachable state of the pools is well typed; no pool ever has more *)
(* processes busy than it has (docker-compose.yml).                        *)
(***************************************************************************)
THEOREM TypeCorrect == Spec => []TypeOK
<1>1. IInv => TypeOK
  BY DEF IInv, Types, Pools, Pool, TypeOK, Calls
<1> QED BY <1>1, Invariant, PTL

(***************************************************************************)
(* A job never says FAILED for a webhook that was delivered too late: the  *)
(* call of the mock that would have reported it expired first              *)
(* (payments/tasks.py 49-66).                                              *)
(***************************************************************************)
THEOREM LateNeverFails == Spec => []LateIsNotFailed
<1>1. IInv => LateIsNotFailed
  BY DEF IInv
<1> QED BY <1>1, Invariant, PTL

\* As many bookings as there are calls of them.
LEMMA CallsOfBookings ==
    ASSUME NEW S, S \subseteq Books, IsFiniteSet(S)
    PROVE  Cardinality({b \in Booking : Book(b) \in S}) = Cardinality(S)
<1> DEFINE B == {b \in Booking : Book(b) \in S}
           f == [b \in B |-> Book(b)]
<1>1. f \in Injection(B, S)
  BY Names DEF Injection, IsInjective
<1>2. \A c \in S : \E b \in B : f[b] = c
  BY DEF Books
<1>3. f \in Surjection(B, S)
  BY <1>1, <1>2 DEF Surjection, Injection
<1> HIDE DEF B, f
<1> QED BY <1>1, <1>3, FS_Injection DEF B

LEMMA CallsOfTriggers ==
    ASSUME NEW S, S \subseteq Simulates, IsFiniteSet(S)
    PROVE  Cardinality({t \in Trigger : Simulate(t) \in S}) = Cardinality(S)
<1> DEFINE B == {t \in Trigger : Simulate(t) \in S}
           f == [t \in B |-> Simulate(t)]
<1>1. f \in Injection(B, S)
  BY Names DEF Injection, IsInjective
<1>2. \A c \in S : \E t \in B : f[t] = c
  BY DEF Simulates
<1>3. f \in Surjection(B, S)
  BY <1>1, <1>2 DEF Surjection, Injection
<1> HIDE DEF B, f
<1> QED BY <1>1, <1>3, FS_Injection DEF B

LEMMA NobodyCanGoOn == IInv => InVainIfBothAreExhausted
<1> SUFFICES ASSUME IInv, InVain PROVE BothAreExhausted
  BY DEF InVainIfBothAreExhausted
<1> USE Names
<1>1. /\ Types /\ Pools
      /\ Cardinality(web) \in Nat /\ Cardinality(mock) \in Nat
  BY FS_CardinalityType DEF IInv, Pools, Pool
<1>2. webq # <<>> => Cardinality(web) = WebWorkers
  BY <1>1, PoolsAssumption DEF InVain, CanWork, Pools, Pool
<1>3. mockq # <<>> => Cardinality(mock) = MockWorkers
  BY <1>1, PoolsAssumption DEF InVain, CanWork, MockIsFree, Pools, Pool
<1>4. \A c \in Range(waits) : c \in Hooks => c \in Range(webq)
  BY DEF IInv, OnTheWay, InVain, CanWork, Hooks
<1>5. \A c \in Range(waits) : c \in Orders => c \in Range(mockq)
  BY DEF IInv, OnTheWay, InVain, CanWork, Orders
<1>6. web \subseteq Books /\ \A b \in Booking : Book(b) \in web => Order(b) \in Range(mockq)
  BY <1>1, <1>5 DEF Types, InVain, CanWork, Hooks
<1>7. mock \subseteq Simulates /\ \A t \in Trigger : Simulate(t) \in mock => Hook(t) \in Range(webq)
  BY <1>1, <1>4 DEF Types, InVain, CanWork, Orders
<1>8. Range(<<>>) = {}
  BY DEF Range
<1>9. webq # <<>> => mockq # <<>>
  <2> SUFFICES ASSUME webq # <<>> PROVE Range(mockq) # {}
    BY <1>8
  <2>1. web # {}
    BY <1>2, FS_EmptySet, PoolsAssumption
  <2> QED BY <2>1, <1>6 DEF Books
<1>10. mockq # <<>> => webq # <<>>
  <2> SUFFICES ASSUME mockq # <<>> PROVE Range(webq) # {}
    BY <1>8
  <2>1. mock # {}
    BY <1>3, FS_EmptySet, PoolsAssumption
  <2> QED BY <2>1, <1>7 DEF Simulates
<1>11. webq # <<>> /\ mockq # <<>>
  <2>1. PICK c : c \in Range(waits) /\ c \in Calls
    BY <1>1, RangeOfTail DEF InVain, CanWork, Types
  <2>2. CASE c \in Hooks
    BY <2>1, <2>2, <1>4, <1>8, <1>9
  <2>3. CASE c \in Orders
    BY <2>1, <2>3, <1>5, <1>8, <1>10
  <2>4. CASE c \in Simulates
    <3>1. c \in mock \/ c \in Range(mockq)
      BY <2>1, <2>4 DEF IInv, OnTheWay
    <3>2. CASE c \in mock
      BY <2>4, <3>2, <1>7, <1>8, <1>9 DEF Simulates
    <3> QED BY <3>1, <3>2, <1>8, <1>10
  <2> QED BY <2>1, <2>2, <2>3, <2>4 DEF Calls
<1>12. {b \in Booking : Book(b) \in web /\ Order(b) \in Range(mockq)} = {b \in Booking : Book(b) \in web}
  BY <1>6
<1>13. {t \in Trigger : Simulate(t) \in mock /\ Hook(t) \in Range(webq)} = {t \in Trigger : Simulate(t) \in mock}
  BY <1>7
<1>14. IsFiniteSet(web) /\ IsFiniteSet(mock)
  BY DEF IInv, Pools, Pool
<1>15. Cardinality({b \in Booking : Book(b) \in web}) = WebWorkers
  BY <1>2, <1>6, <1>11, <1>14, CallsOfBookings
<1>16. Cardinality({t \in Trigger : Simulate(t) \in mock}) = MockWorkers
  BY <1>3, <1>7, <1>11, <1>14, CallsOfTriggers
<1> QED BY <1>12, <1>13, <1>15, <1>16 DEF BothAreExhausted

(***************************************************************************)
(* If calls are waited for and nobody can go on, every process of the app  *)
(* is waiting with a booking for the mock, and every process of the mock   *)
(* with a webhook for the app (README.md 36).                              *)
(***************************************************************************)
THEOREM InVainTogether == Spec => []InVainIfBothAreExhausted
BY NobodyCanGoOn, Invariant, PTL

(***************************************************************************)
(* An app with more processes than there are bookings, or a mock with more *)
(* than there are triggers, never waits in vain (docker-compose.yml starts *)
(* each with one).                                                         *)
(***************************************************************************)
THEOREM EnoughProcesses ==
    ASSUME IsFiniteSet(Booking), IsFiniteSet(Trigger),
           Cardinality(Booking) < WebWorkers \/ Cardinality(Trigger) < MockWorkers
    PROVE  Spec => []~InVain
<1>1. ASSUME NEW S \in SUBSET Booking PROVE Cardinality(S) <= Cardinality(Booking)
  BY FS_Subset
<1>2. ASSUME NEW S \in SUBSET Trigger PROVE Cardinality(S) <= Cardinality(Trigger)
  BY FS_Subset
<1>3. Cardinality(Booking) \in Nat /\ Cardinality(Trigger) \in Nat
  BY FS_CardinalityType
<1>4. ~BothAreExhausted
  BY <1>1, <1>2, <1>3, PoolsAssumption DEF BothAreExhausted
<1>5. InVainIfBothAreExhausted => ~InVain
  BY <1>4 DEF InVainIfBothAreExhausted
<1> QED BY <1>5, InVainTogether, PTL

----------------------------------------------------------------------------
(* The mock's processes and the worker's.                                  *)

\* The mock has a call in one place, until it answers.
HeldOnce ==
    /\ IsInjective(mockq) /\ mock \cap Range(mockq) = {}
    /\ (mock \cup Range(mockq)) \cap answered = {}

\* A call of the mock is made when it comes into its queue.
Made ==
    /\ \A b \in Booking : Order(b) \in mock \cup Range(mockq) => Order(b) \in Range(waits) \cup expired
    /\ \A t \in Trigger : job[t] # None /\ t \notin celery => Simulate(t) \in answered \cup expired

LEMMA MadeOnce == Spec => [](HeldOnce /\ Made)
<1> USE Names
<1>1. Init => HeldOnce /\ Made
  <2>1. Range(<<>>) = {} /\ IsInjective(<<>>)
    BY DEF Range, IsInjective
  <2> QED BY <2>1 DEF Init, HeldOnce, Made
<1>2. IInv /\ HeldOnce /\ Made /\ [Next]_vars => HeldOnce' /\ Made'
  <2> SUFFICES ASSUME IInv, HeldOnce, Made, [Next]_vars PROVE HeldOnce' /\ Made'
    OBVIOUS
  <2>1. Types /\ WaitedForOnce
    BY DEF IInv
  \* A call that is not with the mock comes into its queue.
  <2>2. ASSUME NEW c, c \notin mock \cup Range(mockq) \cup answered, mockq' = Append(mockq, c),
               UNCHANGED <<mock, answered>>
        PROVE  HeldOnce'
    <3>1. Range(mockq') = Range(mockq) \cup {c} /\ IsInjective(mockq')
      BY <2>1, <2>2, RangeOfAppend, AppendKeeps DEF HeldOnce, Types
    <3> QED BY <2>2, <3>1 DEF HeldOnce
  \* The mock answers a call and forgets it.
  <2>3. ASSUME NEW c \in mock, mock' = mock \ {c}, answered' = answered \cup {c}, UNCHANGED mockq
        PROVE  HeldOnce'
    BY <2>3 DEF HeldOnce
  <2>4. ASSUME NEW c, TimeOut(c) PROVE HeldOnce' /\ Made'
    <3>1. Range(waits') = Range(waits) \ {c}
      BY <2>1, <2>4, EndsKeeps DEF TimeOut, Ends
    <3> QED BY <2>4, <3>1 DEF TimeOut, HeldOnce, Made
  <2>5. ASSUME NEW b \in Booking, CreateOrder(b) PROVE HeldOnce' /\ Made'
    <3>1. Order(b) \notin mock \cup Range(mockq) \cup answered
      BY <2>5 DEF CreateOrder, Made
    <3>2. Range(waits') = Range(waits) \cup {Order(b)} /\ Range(mockq') = Range(mockq) \cup {Order(b)}
      BY <2>1, <2>5, RangeOfAppend DEF CreateOrder, CallMock, Types
    <3>3. Made'
      BY <2>5, <3>2 DEF CreateOrder, Made
    <3> QED BY <2>2, <2>5, <3>1, <3>3 DEF CreateOrder, CallMock
  <2>6. ASSUME NEW b \in Booking, MintOrder(b) PROVE HeldOnce' /\ Made'
    <3>1. Range(waits') = Range(waits) \ {Order(b)}
      BY <2>1, <2>6, EndsKeeps DEF MintOrder, AnswerTo, Ends
    <3>2. Order(b) \notin mock' \cup Range(mockq')
      BY <2>6 DEF MintOrder, HeldOnce
    <3>3. Made'
      BY <2>6, <3>1, <3>2 DEF MintOrder, AnswerTo, Made
    <3> QED BY <2>3, <2>6, <3>3 DEF MintOrder, AnswerTo
  <2>7. ASSUME NEW t \in Trigger, EndSimulate(t) PROVE HeldOnce' /\ Made'
    <3>1. Range(waits') = Range(waits) \ {Simulate(t)}
      BY <2>1, <2>7, EndsKeeps DEF EndSimulate, AnswerTo, Ends
    <3>2. Made'
      BY <2>7, <3>1 DEF EndSimulate, AnswerTo, Made
    <3> QED BY <2>3, <2>7, <3>2 DEF EndSimulate, AnswerTo
  <2>8. ASSUME NEW t \in Trigger, DeliverWebhook(t) PROVE HeldOnce' /\ Made'
    <3>1. Range(waits') = Range(waits) \cup {Hook(t)}
      BY <2>1, <2>8, RangeOfAppend DEF DeliverWebhook, CallApp, Types
    <3> QED BY <2>8, <3>1 DEF DeliverWebhook, HeldOnce, Made
  <2>9. ASSUME NEW t \in Trigger, HandleHook(t) PROVE HeldOnce' /\ Made'
    <3>1. Range(waits') = Range(waits) \ {Hook(t)}
      BY <2>1, <2>9, EndsKeeps DEF HandleHook, AnswerTo, Ends
    <3>2. Hook(t) \notin mock \cup Range(mockq)
      BY <2>1, RangeOfSeq DEF Types
    <3>3. HeldOnce' /\ Made'
      BY <2>9, <3>1, <3>2 DEF HandleHook, AnswerTo, HeldOnce, Made
    <3> QED BY <3>3
  <2>10. ASSUME NEW t \in Trigger, StartTrigger(t) PROVE HeldOnce' /\ Made'
    <3>1. Simulate(t) \notin mock \cup Range(mockq) \cup answered
      BY <2>10 DEF StartTrigger, IInv, TriggersFirst, TriggerFirst
    <3>2. Range(waits') = Range(waits) \cup {Simulate(t)} /\ Range(mockq') = Range(mockq) \cup {Simulate(t)}
      BY <2>1, <2>10, RangeOfAppend DEF StartTrigger, CallMock, Types
    <3>3. \A u \in Trigger : u # t => job'[u] = job[u]
      BY <2>1, <2>10 DEF StartTrigger, Types
    <3>4. Made'
      BY <2>10, <3>2, <3>3 DEF StartTrigger, Made
    <3> QED BY <2>2, <2>10, <3>1, <3>4 DEF StartTrigger, CallMock
  <2>11. ASSUME NEW t \in Trigger, EndTrigger(t) PROVE HeldOnce' /\ Made'
    <3>1. \A u \in Trigger : u # t => job'[u] = job[u]
      BY <2>1, <2>11 DEF EndTrigger, Types
    <3> QED BY <2>11, <3>1 DEF EndTrigger, HeldOnce, Made
  <2>12. CASE AcceptMock
    <3>1. Range(mockq) = {Head(mockq)} \cup Range(Tail(mockq))
      BY <2>1, <2>12, RangeOfTail DEF AcceptMock, Types
    <3>2. IsInjective(Tail(mockq)) /\ Head(mockq) \notin Range(Tail(mockq))
      BY <2>1, <2>12, InjectiveTail DEF AcceptMock, Types, HeldOnce
    <3> QED BY <2>12, <3>1, <3>2 DEF AcceptMock, HeldOnce, Made
  <2>13. CASE \/ AcceptWeb \/ UNCHANGED vars
              \/ \E b \in Booking : PostBooking(b) \/ EndBooking(b)
    BY <2>13 DEF AcceptWeb, vars, PostBooking, EndBooking, HeldOnce, Made
  <2> QED
    BY <2>4, <2>5, <2>6, <2>7, <2>8, <2>9, <2>10, <2>11, <2>12, <2>13 DEF Next, Work, Expire, Over
<1> QED BY <1>1, <1>2, Invariant, PTL DEF Spec

(***************************************************************************)
(* A mock with more processes than the worker has is only ever waited for  *)
(* in vain after a time-out: one of its processes is with a call whose     *)
(* task gave up (payments/tasks.py 49-54, docker-compose.yml).             *)
(***************************************************************************)
THEOREM MockOutnumbersWorker ==
    ASSUME CeleryWorkers < MockWorkers
    PROVE  Spec => [](InVain => \E t \in Trigger : Simulate(t) \in mock \cap expired)
<1>1. ASSUME IInv, HeldOnce, Made, BothAreExhausted
      PROVE  \E t \in Trigger : Simulate(t) \in mock \cap expired
  <2> DEFINE T == {t \in Trigger : Simulate(t) \in mock /\ Hook(t) \in Range(webq)}
  <2>1. Cardinality(T) = MockWorkers
    BY <1>1 DEF BothAreExhausted
  <2>2. IsFiniteSet(celery) /\ Cardinality(celery) <= CeleryWorkers /\ Cardinality(celery) \in Nat
    BY <1>1, FS_CardinalityType DEF IInv, Pools, Pool
  <2>3. ~(T \subseteq celery)
    <3> HIDE DEF T
    <3> SUFFICES ASSUME T \subseteq celery PROVE FALSE
      OBVIOUS
    <3>1. Cardinality(T) <= Cardinality(celery)
      BY <2>2, FS_Subset
    <3> QED BY <2>1, <2>2, <3>1, PoolsAssumption
  <2>4. PICK t \in T : t \notin celery
    BY <2>3
  <2>5. job[t] # None
    BY <1>1, <2>4 DEF IInv, TriggersFirst, TriggerFirst
  <2>6. Simulate(t) \in expired
    BY <1>1, <2>4, <2>5 DEF HeldOnce, Made
  <2> QED BY <2>4, <2>6
<1>2. IInv /\ HeldOnce /\ Made /\ InVainIfBothAreExhausted =>
          (InVain => \E t \in Trigger : Simulate(t) \in mock \cap expired)
  BY <1>1 DEF InVainIfBothAreExhausted
<1> QED BY <1>2, InVainTogether, MadeOnce, Invariant, PTL
=============================================================================
