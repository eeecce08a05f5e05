---------------------------- MODULE PaymentProofs ----------------------------
(***************************************************************************)
(* Payments for any number of payments, webhooks, deliveries and web       *)
(* workers, and any failures: what module PaymentProperties states, proved. *)
(***************************************************************************)
EXTENDS PaymentProperties, FiniteSetTheorems, TLAPS

----------------------------------------------------------------------------
(* How a call of the mock gateway and the deliveries of its webhook go     *)
(* together.                                                               *)

CallsAreMade ==
    /\ \A c \in Call :
        /\ mock[c] = "unused" => order[c] = None
        /\ mock[c] # "unused" => order[c] \in Payment /\ type[c] \in EventType
        /\ mock[c] = "ok" => hook[<<c, 1>>] = "answered"
    /\ \A d \in Delivery :
        /\ hook[d] # "unsent" => mock[d[1]] \notin {"unused", "called"}
        /\ hook[d] \in {"loaded", "written"} => Recorded(Order(d))
        /\ hook[d] = "written" => Type(d) = "payment.captured"
        /\ hook[d] = "answered" <=> answer[d] # None

LEMMA Deliveries ==
    /\ \A d \in Delivery : d[1] \in Call
    /\ \A c \in Call, n \in 1..MaxTries : <<c, n>> \in Delivery /\ <<c, n>>[1] = c
    /\ \A c \in Call : <<c, 1>> \in Delivery
    /\ Payment \subseteq Call /\ Manual \subseteq Call
BY PaymentAssumption DEF Delivery, Call

----------------------------------------------------------------------------
(* Types.                                                                  *)

LEMMA InitType == Init => TypeOK
BY PaymentAssumption DEF Init, TypeOK, Call, JobStatus

LEMMA StepType == TypeOK /\ CallsAreMade /\ [Next]_vars => TypeOK'
<1> SUFFICES ASSUME TypeOK, CallsAreMade, [Next]_vars PROVE TypeOK'
  OBVIOUS
<1> USE PaymentAssumption
        DEF TypeOK, JobStatus, EventType, Answers, requests, triggers, confirmations, gateway, receiver
<1>1. ASSUME NEW p \in Payment, Record(p) \/ Publish(p) PROVE TypeOK'
  BY <1>1 DEF Record, Publish, Request, Row, PaymentStatus, Lose
<1>2. ASSUME NEW p \in Payment, RequestStep(p) \/ LoseRequest(p) PROVE TypeOK'
  BY <1>2 DEF RequestStep, RequestStart, RequestMark, AfterMark, RequestSchedule, LoseRequest, Request, Lose
<1>3. ASSUME NEW p \in Payment, TriggerStep(p) \/ LoseTrigger(p) PROVE TypeOK'
  <2>1. CASE TriggerStart(p) \/ TriggerReturn(p) \/ TriggerRaise(p) \/ LoseTrigger(p)
    BY <2>1 DEF TriggerStart, TriggerReturn, JobOutcome, TriggerRaise, LoseTrigger, Lose
  <2>2. CASE TriggerCall(p)
    <3>1. p \in Call
      BY Deliveries
    <3> QED BY <2>2, <3>1 DEF TriggerCall, CallMock
  <2> QED BY <1>3, <2>1, <2>2 DEF TriggerStep
<1>4. ASSUME NEW p \in Payment, SendConfirmation(p) \/ LoseConfirmation(p) PROVE TypeOK'
  BY <1>4 DEF SendConfirmation, LoseConfirmation, Lose
<1>5. ASSUME NEW c \in Manual, NEW o \in Payment, NEW t \in EventType, Simulate(c, o, t) PROVE TypeOK'
  <2>1. c \in Call
    BY Deliveries
  <2> QED BY <1>5, <2>1 DEF Simulate, CallMock
<1>6. ASSUME NEW c \in Call, MockStep(c) PROVE TypeOK'
  <2>1. <<c, 1>> \in Delivery
    BY Deliveries
  <2> QED BY <1>6, <2>1 DEF MockStep, MockDeliver, MockReturn, Deliver
<1>7. ASSUME NEW c \in Call, NEW n \in 1..MaxTries, Redeliver(c, n) PROVE TypeOK'
  BY <1>7 DEF Redeliver, Deliver
<1>8. ASSUME NEW d \in Delivery, HookLimit(d) \/ HookReject(d) \/ HookIgnore(d) \/ HookLoad(d) PROVE TypeOK'
  BY <1>8 DEF HookLimit, HookReject, HookIgnore, HookLoad, Admit, AnswerHook
<1>9. \A d \in Delivery : d[1] \in Call /\ (hook[d] # "unsent" => Order(d) \in Payment /\ Type(d) \in EventType)
  BY Deliveries DEF CallsAreMade, Order, Type
<1>10. ASSUME NEW d \in Delivery, HookWrite(d) PROVE TypeOK'
  <2>1. Order(d) \in Payment /\ hook[d] = "loaded" /\ d[1] \in Call
    BY <1>9, <1>10 DEF HookWrite
  <2>2. row' \in [Payment -> {NoRow} \cup [status : PaymentStatus,
                   gateway_status : {"created", "captured", "failed"}, gateway_payment_id : Call \cup {None}]]
    BY <1>10, <2>1 DEF HookWrite, UpdatePayment, EventToStatus, Row, PaymentStatus
  <2> QED BY <1>10, <2>2 DEF HookWrite, AnswerHook
<1>11. ASSUME NEW d \in Delivery, HookConfirm(d) \/ LoseHook(d) PROVE TypeOK'
  <2>1. Order(d) \in Payment
    BY <1>9, <1>11 DEF HookConfirm, LoseHook
  <2> QED BY <1>11, <2>1 DEF HookConfirm, LoseHook, AnswerHook, Lose
<1>12. ASSUME NEW c \in Call, LoseCall(c) PROVE TypeOK'
  <2>1. order[c] \in Payment
    BY <1>12 DEF LoseCall, CallsAreMade
  <2> QED BY <1>12, <2>1 DEF LoseCall, Lose
<1>13. CASE NextHour \/ UNCHANGED vars
  BY <1>13 DEF NextHour, vars
<1> HIDE DEF TypeOK, EventType
<1> QED
  BY <1>1, <1>2, <1>3, <1>4, <1>5, <1>6, <1>7, <1>8, <1>10, <1>11, <1>12, <1>13
     DEF Next, Work, Surprise, Quiescent, HookStep

----------------------------------------------------------------------------
(* Calls and webhooks.                                                     *)

LEMMA InitMade == Init => CallsAreMade
BY PaymentAssumption, Deliveries DEF Init, CallsAreMade

\* A webhook that was sent has an order and an event.
LEMMA Carried ==
    ASSUME CallsAreMade, NEW d \in Delivery, hook[d] # "unsent"
    PROVE  Order(d) \in Payment /\ Type(d) \in EventType
BY Deliveries DEF CallsAreMade, Order, Type

\* What CallsAreMade speaks of is left alone.
LEMMA MadeStutter ==
    ASSUME CallsAreMade, UNCHANGED gateway, UNCHANGED <<hook, answer>>,
           \A p \in Payment : Recorded(p) => Recorded(p)'
    PROVE  CallsAreMade'
<1>1. UNCHANGED <<order, type, mock>>
  BY DEF gateway
<1>2. \A d \in Delivery : hook[d] \in {"loaded", "written"} => Recorded(Order(d))' /\ Recorded(Order(d))
  <2> SUFFICES ASSUME NEW d \in Delivery, hook[d] \in {"loaded", "written"}
               PROVE  Recorded(Order(d))' /\ Recorded(Order(d))
    OBVIOUS
  <2>1. Recorded(Order(d)) /\ Order(d) \in Payment /\ Order(d)' = Order(d)
    BY <1>1, Carried DEF CallsAreMade, Order
  <2> QED BY <2>1 DEF Recorded
<1> QED BY <1>1, <1>2 DEF CallsAreMade, Type

\* Only delivery e changes, and its call has been made.
LEMMA MadeHook ==
    ASSUME TypeOK, CallsAreMade, NEW e \in Delivery, mock[e[1]] \notin {"unused", "called"},
           UNCHANGED gateway, \A p \in Payment : Recorded(p) => Recorded(p)',
           hook[e] # "answered", NEW h, NEW a,
           hook' = [hook EXCEPT ![e] = h], answer' = [answer EXCEPT ![e] = a],
           h = "answered" <=> a # None,
           h \in {"loaded", "written"} => Recorded(Order(e))',
           h = "written" => Type(e) = "payment.captured"
    PROVE  CallsAreMade'
<1>1. hook'[e] = h /\ answer'[e] = a /\ \A d \in Delivery \ {e} : hook'[d] = hook[d] /\ answer'[d] = answer[d]
  BY DEF TypeOK
<1>2. UNCHANGED <<order, type, mock>>
  BY DEF gateway
<1>3. \A c \in Call : mock[c] = "ok" => hook'[<<c, 1>>] = "answered"
  BY <1>1, Deliveries DEF CallsAreMade
<1>4. ASSUME NEW d \in Delivery
      PROVE  /\ hook'[d] # "unsent" => mock[d[1]] \notin {"unused", "called"}
             /\ hook'[d] \in {"loaded", "written"} => Recorded(Order(d))'
             /\ hook'[d] = "written" => Type(d) = "payment.captured"
             /\ hook'[d] = "answered" <=> answer'[d] # None
  <2>1. CASE d = e
    BY <1>1, <2>1
  <2>2. CASE d # e
    <3>1. hook'[d] = hook[d] /\ answer'[d] = answer[d]
      BY <1>1, <2>2
    <3>2. hook[d] \in {"loaded", "written"} => Recorded(Order(d))'
      <4> SUFFICES ASSUME hook[d] \in {"loaded", "written"} PROVE Recorded(Order(d))'
        OBVIOUS
      <4>1. Recorded(Order(d)) /\ Order(d) \in Payment /\ Order(d)' = Order(d)
        BY <1>2, Carried DEF CallsAreMade, Order
      <4> QED BY <4>1 DEF Recorded
    <3> QED BY <3>1, <3>2 DEF CallsAreMade
  <2> QED BY <2>1, <2>2
<1> QED BY <1>2, <1>3, <1>4 DEF CallsAreMade, Type

LEMMA StepMade == TypeOK /\ CallsAreMade /\ [Next]_vars => CallsAreMade'
<1> SUFFICES ASSUME TypeOK, CallsAreMade, [Next]_vars PROVE CallsAreMade'
  OBVIOUS
<1> USE DEF receiver
<1>1. ASSUME NEW p \in Payment, Record(p) PROVE CallsAreMade'
  <2>1. Recorded(p)' /\ \A q \in Payment \ {p} : row'[q] = row[q]
    BY <1>1, PaymentAssumption DEF Record, Recorded, NoRow, Row, PaymentStatus, TypeOK
  <2>2. \A q \in Payment : Recorded(q) => Recorded(q)'
    BY <2>1 DEF Recorded
  <2> QED BY <1>1, <2>2, MadeStutter DEF Record
<1>2. ASSUME UNCHANGED <<row, gateway, hook, answer>> PROVE CallsAreMade'
  BY <1>2, MadeStutter DEF Recorded
<1>3. ASSUME NEW c \in Call, NEW o \in Payment, NEW t \in EventType, CallMock(c, o, t),
             UNCHANGED <<row, receiver>>
      PROVE  CallsAreMade'
  <2>1. mock[c] = "unused" /\ mock'[c] = "called" /\ order'[c] = o /\ type'[c] = t
    BY <1>3 DEF CallMock, TypeOK
  <2>2. \A b \in Call \ {c} : mock'[b] = mock[b] /\ order'[b] = order[b] /\ type'[b] = type[b]
    BY <1>3 DEF CallMock, TypeOK
  <2>3. \A b \in Call : /\ mock'[b] = "unused" => order'[b] = None
                        /\ mock'[b] # "unused" => order'[b] \in Payment /\ type'[b] \in EventType
                        /\ mock'[b] = "ok" => hook[<<b, 1>>] = "answered"
    BY <1>3, <2>1, <2>2 DEF CallsAreMade
  <2>4. \A d \in Delivery : hook[d] # "unsent" => d[1] \in Call \ {c}
    BY <2>1, Deliveries DEF CallsAreMade
  <2>5. ASSUME NEW d \in Delivery
        PROVE  /\ hook[d] # "unsent" => mock'[d[1]] \notin {"unused", "called"}
               /\ hook[d] \in {"loaded", "written"} => Recorded(Order(d))'
               /\ hook[d] = "written" => Type(d)' = "payment.captured"
               /\ hook[d] = "answered" <=> answer[d] # None
    <3>1. CASE hook[d] = "unsent"
      BY <3>1 DEF CallsAreMade
    <3>2. CASE hook[d] # "unsent"
      BY <1>3, <2>2, <2>4, <3>2 DEF CallsAreMade, Recorded, Order, Type
    <3> QED BY <3>1, <3>2
  <2> QED BY <1>3, <2>3, <2>5 DEF CallsAreMade
<1>4. ASSUME NEW c \in Call, MockDeliver(c) PROVE CallsAreMade'
  <2>1. mock[c] = "called" /\ UNCHANGED <<row, order, type, answer>>
    BY <1>4 DEF MockDeliver, Deliver
  <2>2. mock'[c] = "waiting" /\ \A b \in Call \ {c} : mock'[b] = mock[b]
    BY <1>4 DEF MockDeliver, TypeOK
  <2>3. hook[<<c, 1>>] = "unsent" /\ hook'[<<c, 1>>] = "sent"
    BY <1>4, <2>1, Deliveries DEF MockDeliver, Deliver, CallsAreMade, TypeOK
  <2>4. \A d \in Delivery \ {<<c, 1>>} : hook'[d] = hook[d]
    BY <1>4 DEF MockDeliver, Deliver, TypeOK
  <2>5. \A b \in Call : mock'[b] = "ok" => hook'[<<b, 1>>] = "answered"
    BY <2>2, <2>3, <2>4, Deliveries DEF CallsAreMade
  <2>6. ASSUME NEW d \in Delivery
        PROVE  /\ hook'[d] # "unsent" => mock'[d[1]] \notin {"unused", "called"}
               /\ hook'[d] \in {"loaded", "written"} => Recorded(Order(d))
               /\ hook'[d] = "written" => Type(d) = "payment.captured"
               /\ hook'[d] = "answered" <=> answer[d] # None
    <3>1. CASE d = <<c, 1>>
      BY <2>2, <2>3, <3>1, Deliveries DEF CallsAreMade
    <3>2. CASE d # <<c, 1>>
      BY <2>1, <2>2, <2>4, <3>2, Deliveries DEF CallsAreMade
    <3> QED BY <3>1, <3>2
  <2> QED BY <2>1, <2>2, <2>5, <2>6 DEF CallsAreMade, Recorded, Order, Type
<1>5. ASSUME NEW c \in Call, MockReturn(c) \/ LoseCall(c) PROVE CallsAreMade'
  <2>1. /\ mock[c] \in {"called", "waiting"} /\ UNCHANGED <<row, order, type, hook, answer>>
        /\ mock'[c] \in {"ok", "error", "lost"} /\ \A b \in Call \ {c} : mock'[b] = mock[b]
        /\ mock'[c] = "ok" => hook[<<c, 1>>] = "answered"
    BY <1>5 DEF MockReturn, LoseCall, TypeOK
  <2> QED BY <2>1, Deliveries DEF CallsAreMade, Recorded, Order, Type
<1>6. ASSUME NEW d \in Delivery, hook[d] # "unsent" PROVE mock[d[1]] \notin {"unused", "called"}
  BY <1>6 DEF CallsAreMade
<1>7. ASSUME NEW c \in Call, NEW n \in 1..MaxTries, Redeliver(c, n) PROVE CallsAreMade'
  <2> DEFINE e == <<c, n + 1>>
  <2>1. n + 1 \in 1..MaxTries /\ e \in Delivery /\ e[1] = c /\ <<c, n>> \in Delivery /\ <<c, n>>[1] = c
    BY <1>7, PaymentAssumption, Deliveries DEF Redeliver
  <2>2. /\ hook' = [hook EXCEPT ![e] = "sent"] /\ hook[e] = "unsent" /\ hook[<<c, n>>] # "unsent"
        /\ UNCHANGED <<row, gateway, answer>>
    BY <1>7 DEF Redeliver, Deliver
  <2>3. answer' = [answer EXCEPT ![e] = None]
    BY <2>1, <2>2 DEF TypeOK, CallsAreMade
  <2> HIDE DEF e
  <2>4. mock[e[1]] \notin {"unused", "called"}
    BY <1>6, <2>1, <2>2
  <2> QED BY <2>1, <2>2, <2>3, <2>4, MadeHook DEF Recorded
<1>8. ASSUME NEW d \in Delivery, NEW code \in Answers, hook[d] # "unsent", hook[d] # "answered",
             AnswerHook(d, code), UNCHANGED gateway, \A p \in Payment : Recorded(p) => Recorded(p)'
      PROVE  CallsAreMade'
  BY <1>6, <1>8, MadeHook, PaymentAssumption DEF AnswerHook
<1>9. ASSUME NEW d \in Delivery, HookLimit(d) \/ HookReject(d) \/ HookIgnore(d) \/ HookConfirm(d)
      PROVE  CallsAreMade'
  BY <1>8, <1>9 DEF HookLimit, HookReject, HookIgnore, HookConfirm, Admit, Answers, Recorded
<1>10. ASSUME NEW d \in Delivery, HookLoad(d) PROVE CallsAreMade'
  <2>1. /\ hook[d] = "sent" /\ Recorded(Order(d)) /\ UNCHANGED <<gateway, row>>
        /\ answer' = [answer EXCEPT ![d] = None] /\ hook' = [hook EXCEPT ![d] = "loaded"]
    BY <1>10 DEF HookLoad, Admit, CallsAreMade, TypeOK
  <2>2. Recorded(Order(d))'
    BY <2>1 DEF Recorded, gateway, Order
  <2> QED BY <1>6, <2>1, <2>2, MadeHook DEF Recorded
<1>11. ASSUME NEW d \in Delivery, HookWrite(d) PROVE CallsAreMade'
  <2>1. hook[d] = "loaded" /\ Order(d) \in Payment /\ UNCHANGED gateway /\ Order(d)' = Order(d)
    BY <1>11, Carried DEF HookWrite, gateway, Order
  <2>2. Recorded(Order(d))' /\ \A p \in Payment : Recorded(p) => Recorded(p)'
    <3>1. row'[Order(d)] # NoRow /\ \A p \in Payment \ {Order(d)} : row'[p] = row[p]
      BY <1>11, <2>1, PaymentAssumption
         DEF HookWrite, UpdatePayment, EventToStatus, TypeOK, NoRow, Row, PaymentStatus
    <3> QED BY <2>1, <3>1 DEF Recorded
  <2>3. CASE Confirms(Type(d))
    <3>1. /\ hook' = [hook EXCEPT ![d] = "written"] /\ answer' = [answer EXCEPT ![d] = None]
      BY <1>11, <2>1, <2>3 DEF HookWrite, TypeOK, CallsAreMade
    <3> QED BY <1>6, <2>1, <2>2, <2>3, <3>1, MadeHook DEF Confirms
  <2>4. CASE ~Confirms(Type(d))
    BY <1>8, <1>11, <2>1, <2>2, <2>4 DEF HookWrite, Answers
  <2> QED BY <2>3, <2>4
<1>12. ASSUME NEW d \in Delivery, LoseHook(d) PROVE CallsAreMade'
  <2>1. /\ hook[d] \in {"sent", "loaded", "written"} /\ UNCHANGED <<gateway, row>>
        /\ answer' = [answer EXCEPT ![d] = None] /\ hook' = [hook EXCEPT ![d] = "lost"]
    BY <1>12 DEF LoseHook, CallsAreMade, TypeOK
  <2> QED BY <1>6, <2>1, MadeHook DEF Recorded
<1>13. ASSUME NEW p \in Payment,
              Publish(p) \/ RequestStep(p) \/ LoseRequest(p) \/ SendConfirmation(p) \/ LoseConfirmation(p)
       PROVE  CallsAreMade'
  BY <1>2, <1>13 DEF Publish, RequestStep, RequestStart, RequestMark, RequestSchedule, LoseRequest,
     SendConfirmation, LoseConfirmation
<1>14. ASSUME NEW p \in Payment, TriggerStep(p) \/ LoseTrigger(p) PROVE CallsAreMade'
  <2>1. CASE TriggerCall(p)
    BY <1>3, <2>1 DEF TriggerCall, Call, EventType
  <2>2. CASE TriggerStart(p) \/ TriggerReturn(p) \/ TriggerRaise(p) \/ LoseTrigger(p)
    BY <1>2, <2>2 DEF TriggerStart, TriggerReturn, TriggerRaise, LoseTrigger
  <2> QED BY <1>14, <2>1, <2>2 DEF TriggerStep
<1>15. ASSUME NEW c \in Manual, NEW o \in Payment, NEW t \in EventType, Simulate(c, o, t)
       PROVE  CallsAreMade'
  BY <1>3, <1>15 DEF Simulate, Call
<1>16. CASE NextHour \/ UNCHANGED vars
  BY <1>2, <1>16 DEF NextHour, vars
<1> QED
  BY <1>1, <1>4, <1>5, <1>7, <1>9, <1>10, <1>11, <1>12, <1>13, <1>14, <1>15, <1>16
     DEF Next, Work, Surprise, Quiescent, MockStep, HookStep

\* A call keeps its order and event, what was delivered stays delivered, what
\* was answered stays answered.
LEMMA CallsStay ==
    ASSUME TypeOK, CallsAreMade, [Next]_vars
    PROVE  /\ \A c \in Call : mock[c] # "unused" => order'[c] = order[c] /\ type'[c] = type[c]
           /\ \A d \in Delivery : /\ hook[d] # "unsent" => hook'[d] # "unsent"
                                  /\ hook[d] = "answered" => hook'[d] = "answered" /\ answer'[d] = answer[d]
<1> DEFINE Stays ==
           /\ \A c \in Call : mock[c] # "unused" => order'[c] = order[c] /\ type'[c] = type[c]
           /\ \A d \in Delivery : /\ hook[d] # "unsent" => hook'[d] # "unsent"
                                  /\ hook[d] = "answered" => hook'[d] = "answered" /\ answer'[d] = answer[d]
<1> SUFFICES Stays
  OBVIOUS
<1> USE DEF receiver, gateway
<1>1. ASSUME UNCHANGED <<order, type, hook, answer>> PROVE Stays
  BY <1>1
<1>2. ASSUME NEW b \in Call, NEW o, NEW t, CallMock(b, o, t), UNCHANGED receiver PROVE Stays
  BY <1>2 DEF CallMock, TypeOK
<1>3. ASSUME NEW e \in Delivery, hook[e] = "unsent", Deliver(e), UNCHANGED <<order, type>> PROVE Stays
  BY <1>3 DEF Deliver, TypeOK
<1>4. ASSUME NEW c \in Call, MockDeliver(c) PROVE Stays
  <2>1. <<c, 1>> \in Delivery /\ <<c, 1>>[1] = c
    BY Deliveries
  <2>2. hook[<<c, 1>>] = "unsent"
    BY <1>4, <2>1 DEF MockDeliver, CallsAreMade
  <2> QED BY <1>3, <1>4, <2>1, <2>2 DEF MockDeliver
<1>5. ASSUME NEW c \in Call, NEW n \in 1..MaxTries, Redeliver(c, n) PROVE Stays
  <2>1. n + 1 \in 1..MaxTries
    BY <1>5, PaymentAssumption DEF Redeliver
  <2>2. <<c, n + 1>> \in Delivery
    BY <2>1, Deliveries
  <2> QED BY <1>3, <1>5, <2>2 DEF Redeliver
<1>6. ASSUME NEW e \in Delivery, hook[e] \notin {"unsent", "answered"}, UNCHANGED <<order, type>>, NEW h, NEW a,
             h # "unsent", hook' = [hook EXCEPT ![e] = h], answer' = [answer EXCEPT ![e] = a]
      PROVE  Stays
  BY <1>6 DEF TypeOK
<1>7. ASSUME NEW e \in Delivery, HookStep(e) PROVE Stays
  <2>1. CASE HookLimit(e) \/ HookReject(e) \/ HookIgnore(e) \/ HookConfirm(e)
    BY <1>6, <2>1 DEF HookLimit, HookReject, HookIgnore, HookConfirm, Admit, AnswerHook
  <2>2. answer = [answer EXCEPT ![e] = answer[e]]
    BY DEF TypeOK
  <2>3. CASE HookLoad(e)
    BY <1>6, <2>2, <2>3 DEF HookLoad, Admit
  <2>4. CASE HookWrite(e)
    BY <1>6, <2>2, <2>4 DEF HookWrite, AnswerHook
  <2> QED BY <1>7, <2>1, <2>3, <2>4 DEF HookStep
<1>8. ASSUME NEW e \in Delivery, LoseHook(e) PROVE Stays
  BY <1>8 DEF LoseHook, TypeOK
<1>9. ASSUME NEW p \in Payment, Record(p) \/ Publish(p) \/ RequestStep(p) \/ LoseRequest(p)
      PROVE  Stays
  BY <1>1, <1>9 DEF Record, Publish, RequestStep, RequestStart, RequestMark, RequestSchedule, LoseRequest
<1>10. ASSUME NEW p \in Payment, TriggerStep(p) \/ LoseTrigger(p) \/ SendConfirmation(p) \/ LoseConfirmation(p)
       PROVE  Stays
  <2>1. CASE TriggerCall(p)
    BY <1>2, <2>1, Deliveries DEF TriggerCall
  <2> QED BY <1>1, <1>10, <2>1 DEF TriggerStep, TriggerStart, TriggerReturn, TriggerRaise, LoseTrigger,
         SendConfirmation, LoseConfirmation
<1>11. ASSUME NEW b \in Call, MockReturn(b) \/ LoseCall(b) PROVE Stays
  BY <1>1, <1>11 DEF MockReturn, LoseCall
<1>12. ASSUME NEW b \in Manual, NEW o \in Payment, NEW t \in EventType, Simulate(b, o, t) PROVE Stays
  BY <1>2, <1>12, Deliveries DEF Simulate
<1>13. CASE NextHour \/ UNCHANGED vars
  BY <1>1, <1>13 DEF NextHour, vars
<1> HIDE DEF Stays
<1> QED
  BY <1>4, <1>5, <1>7, <1>8, <1>9, <1>10, <1>11, <1>12, <1>13 DEF Next, Work, Surprise, Quiescent, MockStep

\* What a delivery carries stays.
LEMMA CarriedStays ==
    ASSUME TypeOK, CallsAreMade, [Next]_vars, NEW d \in Delivery, hook[d] # "unsent"
    PROVE  Order(d)' = Order(d) /\ Type(d)' = Type(d)
BY CallsStay, Deliveries DEF CallsAreMade, Order, Type

----------------------------------------------------------------------------
(* Rows and confirmations.                                                 *)

\* Who writes a payment's row, and who publishes a confirmation.
LEMMA Writers ==
    ASSUME [Next]_vars
    PROVE  /\ \/ UNCHANGED row
              \/ \E p \in Payment : Record(p)
              \/ \E d \in Delivery : HookWrite(d)
           /\ \/ UNCHANGED confirmed
              \/ \E d \in Delivery : HookConfirm(d)
<1> USE DEF confirmations
<1>1. ASSUME NEW p \in Payment, RequestStep(p) \/ LoseRequest(p) \/ TriggerStep(p) \/ LoseTrigger(p)
      PROVE  UNCHANGED <<row, confirmed>>
  BY <1>1 DEF RequestStep, RequestStart, RequestMark, RequestSchedule, LoseRequest,
     TriggerStep, TriggerStart, TriggerCall, TriggerReturn, TriggerRaise, LoseTrigger
<1>2. ASSUME NEW p \in Payment, Publish(p) \/ SendConfirmation(p) \/ LoseConfirmation(p)
      PROVE  UNCHANGED <<row, confirmed>>
  BY <1>2 DEF Publish, SendConfirmation, LoseConfirmation
<1>3. ASSUME NEW c \in Call, NEW n \in 1..MaxTries, MockStep(c) \/ Redeliver(c, n) \/ LoseCall(c)
      PROVE  UNCHANGED <<row, confirmed>>
  BY <1>3 DEF MockStep, MockDeliver, MockReturn, Redeliver, LoseCall
<1>4. ASSUME NEW d \in Delivery, HookLimit(d) \/ HookReject(d) \/ HookIgnore(d) \/ HookLoad(d) \/ LoseHook(d)
      PROVE  UNCHANGED <<row, confirmed>>
  BY <1>4 DEF HookLimit, HookReject, HookIgnore, HookLoad, LoseHook
<1>5. ASSUME NEW c \in Manual, NEW o \in Payment, NEW t \in EventType, Simulate(c, o, t)
      PROVE  UNCHANGED <<row, confirmed>>
  BY <1>5 DEF Simulate
<1>6. ASSUME NextHour \/ UNCHANGED vars PROVE UNCHANGED <<row, confirmed>>
  BY <1>6 DEF NextHour, vars
<1>7. /\ \A p \in Payment : Record(p) => UNCHANGED confirmed
      /\ \A d \in Delivery : (HookWrite(d) => UNCHANGED confirmed) /\ (HookConfirm(d) => UNCHANGED row)
  BY DEF Record, HookWrite, HookConfirm
<1>8. \A c \in Call : MockStep(c) \/ LoseCall(c) => UNCHANGED <<row, confirmed>>
  BY DEF MockStep, MockDeliver, MockReturn, LoseCall
<1> QED
  BY <1>1, <1>2, <1>3, <1>4, <1>5, <1>6, <1>7, <1>8 DEF Next, Work, Surprise, Quiescent, HookStep

LEMMA StepRow == TypeOK /\ CallsAreMade /\ RowFromOneWebhook /\ [Next]_vars => RowFromOneWebhook'
<1> SUFFICES ASSUME TypeOK, CallsAreMade, RowFromOneWebhook, [Next]_vars,
                    NEW p \in Payment, Recorded(p)'
             PROVE  LET id == row'[p].gateway_payment_id IN
                    \/ row'[p] = Row("PENDING", "created", None)
                    \/ /\ id # None /\ order'[id] = p /\ \E n \in 1..MaxTries : hook'[<<id, n>>] # "unsent"
                       /\ \/ type'[id] = "payment.captured" /\ row'[p] = Row("PROCESSED", "captured", id)
                          \/ type'[id] = "payment.failed" /\ row'[p] = Row("FAILED", "failed", id)
  BY DEF RowFromOneWebhook, Recorded, Delivered
<1>1. CASE row'[p] = row[p]
  <2>1. Recorded(p)
    BY <1>1 DEF Recorded
  <2> DEFINE id == row[p].gateway_payment_id
  <2>2. id \in Call \cup {None}
    BY <2>1 DEF TypeOK, Recorded
  <2>3. CASE row[p] = Row("PENDING", "created", None)
    BY <1>1, <2>3
  <2>4. CASE row[p] # Row("PENDING", "created", None)
    <3>1. /\ id \in Call /\ order[id] = p /\ Delivered(id)
          /\ \/ type[id] = "payment.captured" /\ row[p] = Row("PROCESSED", "captured", id)
             \/ type[id] = "payment.failed" /\ row[p] = Row("FAILED", "failed", id)
      BY <2>1, <2>2, <2>4 DEF RowFromOneWebhook
    <3>2. mock[id] # "unused"
      <4>1. (\A c \in Call : mock[c] = "unused" => order[c] = None) /\ None \notin Payment
        BY PaymentAssumption DEF CallsAreMade, Call
      <4> QED BY <3>1, <4>1
    <3>3. order'[id] = order[id] /\ type'[id] = type[id]
      BY <3>1, <3>2, CallsStay
    <3>4. \E n \in 1..MaxTries : hook'[<<id, n>>] # "unsent"
      BY <3>1, CallsStay, Deliveries DEF Delivered
    <3> QED BY <1>1, <3>1, <3>3, <3>4, PaymentAssumption
  <2> QED BY <2>3, <2>4
<1>2. ASSUME NEW q \in Payment, Record(q), row'[p] # row[p]
      PROVE  row'[p] = Row("PENDING", "created", None)
  BY <1>2 DEF Record, TypeOK
<1>3. ASSUME NEW d \in Delivery, HookWrite(d), row'[p] # row[p]
      PROVE  /\ order'[d[1]] = p /\ \E n \in 1..MaxTries : hook'[<<d[1], n>>] # "unsent"
             /\ \/ type'[d[1]] = "payment.captured" /\ row'[p] = Row("PROCESSED", "captured", d[1])
                \/ type'[d[1]] = "payment.failed" /\ row'[p] = Row("FAILED", "failed", d[1])
  <2>1. hook[d] = "loaded" /\ UNCHANGED <<order, type>> /\ Type(d) \in EventType
    BY <1>3, Carried DEF HookWrite, gateway
  <2>2. Order(d) = p /\ row'[p] = Row(EventToStatus(Type(d))[1], EventToStatus(Type(d))[2], d[1])
    BY <1>3 DEF HookWrite, UpdatePayment, TypeOK
  <2>3. d[2] \in 1..MaxTries /\ d = <<d[1], d[2]>> /\ hook'[d] # "unsent"
    BY <2>1, CallsStay DEF Delivery
  <2>4. \E n \in 1..MaxTries : hook'[<<d[1], n>>] # "unsent"
    BY <2>3
  <2> QED BY <2>1, <2>2, <2>4 DEF EventToStatus, EventType, Order, Type
<1>4. \A d \in Delivery : Row("PROCESSED", "captured", d[1]).gateway_payment_id = d[1]
                   /\ Row("FAILED", "failed", d[1]).gateway_payment_id = d[1] /\ d[1] # None
  BY PaymentAssumption, Deliveries DEF Row
<1> QED BY <1>1, <1>2, <1>3, <1>4, Writers

\* Captured webhooks that were answered 200, or 503 after the commit.
Acknowledged(p) == {d \in Delivery : Order(d) = p /\ Type(d) = "payment.captured" /\ answer[d] \in {200, 503}}

ConfirmationsCounted == \A p \in Payment : confirmed[p] <= Cardinality(Acknowledged(p))

LEMMA FiniteDeliveries == \A S \in SUBSET Delivery : IsFiniteSet(S) /\ Cardinality(S) \in Nat
<1>1. IsFiniteSet(Call)
  BY PaymentAssumption, FS_Union DEF Call
<1>2. IsFiniteSet(1..MaxTries)
  BY PaymentAssumption, FS_Interval
<1>3. IsFiniteSet(Delivery)
  BY <1>1, <1>2, FS_Product DEF Delivery
<1> QED BY <1>3, FS_Subset, FS_CardinalityType

LEMMA StepCounted ==
    TypeOK /\ CallsAreMade /\ ConfirmationsCounted /\ [Next]_vars => ConfirmationsCounted'
<1> SUFFICES ASSUME TypeOK, CallsAreMade, ConfirmationsCounted, [Next]_vars, NEW p \in Payment
             PROVE  confirmed'[p] <= Cardinality(Acknowledged(p)')
  BY DEF ConfirmationsCounted
<1>1. Acknowledged(p) \subseteq Acknowledged(p)'
  <2> SUFFICES ASSUME NEW d \in Acknowledged(p) PROVE d \in Acknowledged(p)'
    OBVIOUS
  <2>1. d \in Delivery /\ hook[d] = "answered"
    BY PaymentAssumption DEF Acknowledged, CallsAreMade, Answers
  <2>2. Order(d)' = Order(d) /\ Type(d)' = Type(d) /\ answer'[d] = answer[d]
    BY <2>1, CallsStay, CarriedStays
  <2> QED BY <2>2 DEF Acknowledged
<1>2. /\ Acknowledged(p) \in SUBSET Delivery /\ Acknowledged(p)' \in SUBSET Delivery
      /\ confirmed[p] \in Nat /\ confirmed[p] <= Cardinality(Acknowledged(p))
  BY DEF Acknowledged, ConfirmationsCounted, TypeOK
<1>3. CASE confirmed'[p] = confirmed[p]
  <2>1. Cardinality(Acknowledged(p)) <= Cardinality(Acknowledged(p)')
    BY <1>1, <1>2, FiniteDeliveries, FS_Subset
  <2> QED BY <1>2, <1>3, <2>1, FiniteDeliveries
<1>4. ASSUME NEW d \in Delivery, HookConfirm(d), confirmed'[p] # confirmed[p]
      PROVE  confirmed'[p] <= Cardinality(Acknowledged(p)')
  <2>1. /\ confirmed' = [confirmed EXCEPT ![Order(d)] = @ + 1]
        /\ AnswerHook(d, 200) \/ AnswerHook(d, 503)
        /\ hook[d] = "written"
    BY <1>4 DEF HookConfirm
  <2>2. confirmed'[p] = confirmed[p] + 1 /\ Order(d) = p /\ answer'[d] \in {200, 503}
    BY <1>4, <2>1 DEF AnswerHook, TypeOK
  <2>3. Type(d) = "payment.captured" /\ answer[d] \notin {200, 503}
    BY <2>1, PaymentAssumption DEF CallsAreMade, Answers
  <2>4. Order(d)' = p /\ Type(d)' = "payment.captured"
    BY <2>1, <2>2, <2>3, CarriedStays
  <2>5. d \in Acknowledged(p)' /\ d \notin Acknowledged(p)
    BY <2>2, <2>3, <2>4 DEF Acknowledged
  <2>6. Cardinality(Acknowledged(p) \cup {d}) = Cardinality(Acknowledged(p)) + 1
    BY <1>2, <2>5, FiniteDeliveries, FS_AddElement
  <2>7. Cardinality(Acknowledged(p) \cup {d}) <= Cardinality(Acknowledged(p)')
    BY <1>1, <1>2, <2>5, FiniteDeliveries, FS_Subset
  <2> QED BY <1>2, <2>2, <2>6, <2>7, FiniteDeliveries
<1> QED BY <1>3, <1>4, Writers

\* A payment is recorded with its booking, and has no row before.
RecordedOnce == \A p \in Payment : request[p] = "none" => row[p] = NoRow

\* A booking that was made is not made again: request_payment only goes on.
LEMMA RequestsBegun ==
    ASSUME TypeOK, [Next]_vars
    PROVE  \A p \in Payment : request'[p] = "none" => request[p] = "none"
<1>1. ASSUME NEW q \in Payment, Record(q) \/ Publish(q) \/ RequestStep(q) \/ LoseRequest(q)
      PROVE  \A p \in Payment : request'[p] = "none" => request[p] = "none"
  BY <1>1 DEF Record, Publish, RequestStep, RequestStart, RequestMark, AfterMark, RequestSchedule,
     LoseRequest, Request, TypeOK
<1>2. ASSUME NEW q \in Payment, TriggerStep(q) \/ LoseTrigger(q) \/ SendConfirmation(q) \/ LoseConfirmation(q)
      PROVE  UNCHANGED request
  BY <1>2 DEF TriggerStep, TriggerStart, TriggerCall, TriggerReturn, TriggerRaise, LoseTrigger,
     SendConfirmation, LoseConfirmation, requests
<1>3. ASSUME NEW c \in Call, MockStep(c) \/ LoseCall(c) PROVE UNCHANGED request
  BY <1>3 DEF MockStep, MockDeliver, MockReturn, LoseCall, requests
<1>4. ASSUME NEW c \in Call, NEW n \in 1..MaxTries, Redeliver(c, n) PROVE UNCHANGED request
  BY <1>4 DEF Redeliver, requests
<1>5. ASSUME NEW d \in Delivery, HookStep(d) \/ LoseHook(d) PROVE UNCHANGED request
  BY <1>5 DEF LoseHook, HookStep, HookLimit, HookReject, HookIgnore, HookLoad, HookWrite, HookConfirm, requests
<1>6. ASSUME NEW c \in Manual, NEW p \in Payment, NEW t \in EventType, Simulate(c, p, t)
      PROVE  UNCHANGED request
  BY <1>6 DEF Simulate, requests
<1>7. CASE NextHour \/ UNCHANGED vars
  BY <1>7 DEF NextHour, vars, requests
<1> QED BY <1>1, <1>2, <1>3, <1>4, <1>5, <1>6, <1>7 DEF Next, Work, Surprise, Quiescent

LEMMA StepRecorded == TypeOK /\ CallsAreMade /\ RecordedOnce /\ [Next]_vars => RecordedOnce'
<1> SUFFICES ASSUME TypeOK, CallsAreMade, RecordedOnce, [Next]_vars PROVE RecordedOnce'
  OBVIOUS
<1>1. \A p \in Payment : request'[p] = "none" => request[p] = "none"
  BY RequestsBegun
<1>2. ASSUME NEW p \in Payment, Record(p) PROVE RecordedOnce'
  <2>1. request'[p] # "none" /\ \A q \in Payment \ {p} : row'[q] = row[q]
    BY <1>2 DEF Record, Request, TypeOK
  <2> QED BY <1>1, <2>1 DEF RecordedOnce
<1>3. ASSUME NEW d \in Delivery, HookWrite(d) PROVE RecordedOnce'
  <2>1. Order(d) \in Payment /\ Recorded(Order(d))
    BY <1>3, Carried DEF HookWrite, CallsAreMade
  <2>2. \A q \in Payment \ {Order(d)} : row'[q] = row[q]
    BY <1>3 DEF HookWrite, UpdatePayment, TypeOK
  <2> QED BY <1>1, <2>1, <2>2 DEF RecordedOnce, Recorded
<1>4. CASE UNCHANGED row
  BY <1>1, <1>4 DEF RecordedOnce
<1> QED BY <1>2, <1>3, <1>4, Writers

\* What was settled is settled by every later webhook too: it is never PENDING again.
LEMMA SettledAgain ==
    ASSUME TypeOK, CallsAreMade, RecordedOnce, [Next]_vars, NEW p \in Payment, Settled(p)
    PROVE  Settled(p)'
<1>1. ASSUME NEW q \in Payment, Record(q) PROVE row'[p] = row[p]
  <2>1. q # p
    BY <1>1, PaymentAssumption DEF Record, Request, RecordedOnce, NoRow, Row, Settled, PaymentStatus
  <2> QED BY <1>1, <2>1 DEF Record, TypeOK
<1>2. ASSUME NEW d \in Delivery, HookWrite(d) PROVE Settled(p)'
  <2>1. CASE Order(d) = p
    BY <1>2, <2>1 DEF HookWrite, UpdatePayment, EventToStatus, Row, Settled, TypeOK
  <2>2. CASE Order(d) # p
    BY <1>2, <2>2 DEF HookWrite, UpdatePayment, Settled, TypeOK
  <2> QED BY <2>1, <2>2
<1> QED BY <1>1, <1>2, Writers DEF Settled

----------------------------------------------------------------------------
(* How many confirmations there may still be: those published and the      *)
(* handlers under way are together no more than the web workers, as        *)
(* nothing is confirmed before it is settled, and no handler starts then.  *)

Underway(p) == {d \in Handling : Order(d) = p}

WorkersSuffice ==
    /\ Cardinality(Handling) <= WebWorkers
    /\ \A d \in Delivery : hook[d] = "written" => Settled(Order(d))
    /\ \A p \in Payment : confirmed[p] > 0 => Settled(p)
    /\ \A p \in Payment : confirmed[p] + Cardinality(Underway(p)) <= WebWorkers

\* No handler begins, and as many are under way as before or less.
LEMMA FewerUnderway ==
    ASSUME TypeOK, CallsAreMade, RecordedOnce, WorkersSuffice, [Next]_vars,
           Handling' \subseteq Handling, UNCHANGED confirmed,
           \A d \in Delivery : hook'[d] = "written" => Settled(Order(d))'
    PROVE  WorkersSuffice'
<1>1. ASSUME NEW p \in Payment
      PROVE  /\ confirmed'[p] > 0 => Settled(p)'
             /\ confirmed'[p] + Cardinality(Underway(p)') <= WebWorkers
  <2>1. Underway(p)' \subseteq Underway(p)
    <3> SUFFICES ASSUME NEW d \in Underway(p)' PROVE d \in Underway(p)
      OBVIOUS
    <3>1. d \in Handling /\ Order(d)' = p
      BY DEF Underway
    <3>2. Order(d)' = Order(d)
      BY <3>1, CarriedStays DEF Handling
    <3> QED BY <3>1, <3>2 DEF Underway
  <2>2. Underway(p) \in SUBSET Delivery
    BY DEF Underway, Handling
  <2>3. /\ Cardinality(Underway(p)') <= Cardinality(Underway(p))
        /\ Cardinality(Underway(p)') \in Nat /\ Cardinality(Underway(p)) \in Nat
    BY <2>1, <2>2, FiniteDeliveries, FS_Subset
  <2>4. confirmed[p] \in Nat /\ WebWorkers \in Nat /\ confirmed'[p] = confirmed[p]
    BY PaymentAssumption DEF TypeOK
  <2>5. confirmed[p] > 0 => Settled(p)'
    BY SettledAgain DEF WorkersSuffice
  <2>6. confirmed[p] + Cardinality(Underway(p)) <= WebWorkers
    BY DEF WorkersSuffice
  <2> QED BY <2>3, <2>4, <2>5, <2>6
<1>2. Cardinality(Handling') <= WebWorkers
  <2>1. Handling \in SUBSET Delivery /\ WebWorkers \in Nat
    BY PaymentAssumption DEF Handling
  <2>2. /\ Cardinality(Handling') <= Cardinality(Handling)
        /\ Cardinality(Handling') \in Nat /\ Cardinality(Handling) \in Nat
    BY <2>1, FiniteDeliveries, FS_Subset
  <2> QED BY <2>1, <2>2 DEF WorkersSuffice
<1> QED BY <1>1, <1>2 DEF WorkersSuffice

\* Who writes the webhooks' progress such that a handler begins or commits.
LEMMA HandlersBegin ==
    ASSUME TypeOK, [Next]_vars
    PROVE  \/ \E d \in Delivery : HookLoad(d) \/ HookWrite(d) \/ HookConfirm(d)
           \/ \A d \in Delivery : hook'[d] \in {"loaded", "written"} => hook'[d] = hook[d]
<1> DEFINE Quiet == \A d \in Delivery : hook'[d] \in {"loaded", "written"} => hook'[d] = hook[d]
<1> USE DEF receiver
<1>1. ASSUME NEW p \in Payment, Record(p) \/ Publish(p) \/ RequestStep(p) \/ LoseRequest(p) PROVE Quiet
  BY <1>1 DEF Record, Publish, RequestStep, RequestStart, RequestMark, RequestSchedule, LoseRequest
<1>2. ASSUME NEW p \in Payment, TriggerStep(p) \/ LoseTrigger(p) \/ SendConfirmation(p) \/ LoseConfirmation(p)
      PROVE  Quiet
  BY <1>2 DEF TriggerStep, TriggerStart, TriggerCall, TriggerReturn, TriggerRaise, LoseTrigger,
     SendConfirmation, LoseConfirmation
<1>3. ASSUME NEW c \in Call, MockStep(c) \/ LoseCall(c) PROVE Quiet
  BY <1>3 DEF MockStep, MockDeliver, MockReturn, Deliver, LoseCall, TypeOK
<1>4. ASSUME NEW c \in Call, NEW n \in 1..MaxTries, Redeliver(c, n) PROVE Quiet
  BY <1>4 DEF Redeliver, Deliver, TypeOK
<1>5. ASSUME NEW d \in Delivery, HookLimit(d) \/ HookReject(d) \/ HookIgnore(d) \/ LoseHook(d) PROVE Quiet
  BY <1>5 DEF HookLimit, HookReject, HookIgnore, AnswerHook, LoseHook, TypeOK
<1>6. ASSUME NEW c \in Manual, NEW o \in Payment, NEW t \in EventType, Simulate(c, o, t) PROVE Quiet
  BY <1>6 DEF Simulate
<1>7. CASE NextHour \/ UNCHANGED vars
  BY <1>7 DEF NextHour, vars
<1> HIDE DEF Quiet
<1> QED
  BY <1>1, <1>2, <1>3, <1>4, <1>5, <1>6, <1>7 DEF Next, Work, Surprise, Quiescent, HookStep, Quiet

LEMMA StepWorkers ==
    TypeOK /\ CallsAreMade /\ RecordedOnce /\ WorkersSuffice /\ [Next]_vars => WorkersSuffice'
<1> SUFFICES ASSUME TypeOK, CallsAreMade, RecordedOnce, WorkersSuffice, [Next]_vars PROVE WorkersSuffice'
  OBVIOUS
<1>1. \A d \in Delivery : hook[d] = "written" => Settled(Order(d))'
  <2> SUFFICES ASSUME NEW d \in Delivery, hook[d] = "written" PROVE Settled(Order(d))'
    OBVIOUS
  <2>1. Order(d) \in Payment /\ Settled(Order(d)) /\ Order(d)' = Order(d)
    BY Carried, CarriedStays DEF WorkersSuffice
  <2>2. \A p \in Payment : Settled(p) => Settled(p)'
    BY SettledAgain
  <2> QED BY <2>1, <2>2 DEF Settled
<1>2. CASE /\ \A d \in Delivery : hook'[d] \in {"loaded", "written"} => hook'[d] = hook[d]
           /\ UNCHANGED confirmed
  <2>1. Handling' \subseteq Handling
    BY <1>2 DEF Handling
  <2>2. \A d \in Delivery : hook'[d] = "written" => Settled(Order(d))'
    BY <1>1, <1>2
  <2> QED BY <1>2, <2>1, <2>2, FewerUnderway
<1>3. ASSUME NEW d \in Delivery, HookWrite(d) PROVE WorkersSuffice'
  <2>1. hook[d] = "loaded" /\ UNCHANGED <<order, confirmed>>
    BY <1>3 DEF HookWrite, gateway, confirmations
  <2>2. Order(d) \in Payment /\ Order(d)' = Order(d)
    BY <2>1, Carried, CarriedStays
  <2>3. \A e \in Delivery \ {d} : hook'[e] = hook[e]
    BY <1>3 DEF HookWrite, AnswerHook, TypeOK
  <2>4. Handling' \subseteq Handling
    BY <2>1, <2>3 DEF Handling
  <2>5. Settled(Order(d))'
    BY <1>3, <2>1, <2>2 DEF HookWrite, UpdatePayment, EventToStatus, Row, Settled, TypeOK
  <2>6. \A e \in Delivery : hook'[e] = "written" => Settled(Order(e))'
    BY <1>1, <2>3, <2>5
  <2> QED BY <2>1, <2>4, <2>6, FewerUnderway
<1>4. ASSUME NEW d \in Delivery, HookLoad(d) PROVE WorkersSuffice'
  <2> USE PaymentAssumption
  <2>1. /\ hook[d] = "sent" /\ hook' = [hook EXCEPT ![d] = "loaded"] /\ ~Settled(Order(d))
        /\ Cardinality(Handling) < WebWorkers /\ UNCHANGED <<row, order, confirmed>>
    BY <1>4 DEF HookLoad, Admit, HasWorker, gateway, confirmations
  <2>2. \A e \in Delivery : Order(e)' = Order(e)
    BY <2>1 DEF Order
  <2>3. \A e \in Delivery \ {d} : hook'[e] = hook[e]
    BY <2>1 DEF TypeOK
  <2>4. Handling \in SUBSET Delivery /\ d \notin Handling /\ Handling' = Handling \cup {d}
    BY <2>1, <2>3 DEF Handling, TypeOK
  <2>5. Cardinality(Handling') = Cardinality(Handling) + 1 /\ Cardinality(Handling) \in Nat
    BY <2>4, FiniteDeliveries, FS_AddElement
  <2>6. Cardinality(Handling') <= WebWorkers
    BY <2>1, <2>5
  <2>7. ASSUME NEW p \in Payment PROVE confirmed'[p] + Cardinality(Underway(p)') <= WebWorkers
    <3>1. CASE p = Order(d)
      <4>1. confirmed'[p] = 0
        BY <2>1, <3>1 DEF WorkersSuffice, TypeOK
      <4>2. Underway(p)' \subseteq Handling' /\ Handling' \in SUBSET Delivery
        BY <2>4 DEF Underway
      <4>3. Cardinality(Underway(p)') <= Cardinality(Handling') /\ Cardinality(Underway(p)') \in Nat
        BY <4>2, FiniteDeliveries, FS_Subset
      <4>4. Cardinality(Handling') \in Nat
        BY <2>5
      <4> QED BY <2>6, <4>1, <4>3, <4>4
    <3>2. CASE p # Order(d)
      <4>1. Underway(p)' = Underway(p)
        BY <2>2, <2>4, <3>2 DEF Underway
      <4> QED BY <2>1, <4>1 DEF WorkersSuffice
    <3> QED BY <3>1, <3>2
  <2>8. \A e \in Delivery : hook'[e] = "written" => Settled(Order(e))'
    <3>1. hook'[d] = "loaded"
      BY <2>1 DEF TypeOK
    <3> QED BY <1>1, <2>3, <3>1
  <2>9. \A p \in Payment : confirmed'[p] > 0 => Settled(p)'
    BY <2>1 DEF WorkersSuffice, Settled
  <2> QED BY <2>6, <2>7, <2>8, <2>9 DEF WorkersSuffice
<1>5. ASSUME NEW d \in Delivery, HookConfirm(d) PROVE WorkersSuffice'
  <2> USE PaymentAssumption
  <2>1. /\ hook[d] = "written" /\ hook' = [hook EXCEPT ![d] = "answered"] /\ UNCHANGED <<row, order>>
        /\ UNCHANGED confirmed \/ confirmed' = [confirmed EXCEPT ![Order(d)] = @ + 1]
    BY <1>5 DEF HookConfirm, AnswerHook, gateway
  <2>2. \A e \in Delivery : Order(e)' = Order(e)
    BY <2>1 DEF Order
  <2>3. \A e \in Delivery \ {d} : hook'[e] = hook[e]
    BY <2>1 DEF TypeOK
  <2>4. Handling \in SUBSET Delivery /\ d \in Handling /\ Handling' = Handling \ {d}
    BY <2>1, <2>3 DEF Handling, TypeOK
  <2>5. Settled(Order(d)) /\ Order(d) \in Payment
    BY <2>1, Carried DEF WorkersSuffice
  <2>6. /\ \A p \in Payment \ {Order(d)} : confirmed'[p] = confirmed[p]
        /\ confirmed'[Order(d)] \in {confirmed[Order(d)], confirmed[Order(d)] + 1}
    BY <2>1, <2>5 DEF TypeOK
  <2>7. Cardinality(Handling') <= WebWorkers
    <3>1. Cardinality(Handling') <= Cardinality(Handling) /\ Cardinality(Handling') \in Nat
      BY <2>4, FiniteDeliveries, FS_Subset
    <3>2. Cardinality(Handling) \in Nat /\ Cardinality(Handling) <= WebWorkers
      BY <2>4, FiniteDeliveries DEF WorkersSuffice
    <3> QED BY <3>1, <3>2
  <2>8. ASSUME NEW p \in Payment PROVE confirmed'[p] + Cardinality(Underway(p)') <= WebWorkers
    <3>1. /\ Underway(p) \in SUBSET Delivery /\ confirmed[p] \in Nat
          /\ confirmed[p] + Cardinality(Underway(p)) <= WebWorkers
      BY DEF Underway, Handling, WorkersSuffice, TypeOK
    <3>2. CASE p = Order(d)
      <4>1. Underway(p)' = Underway(p) \ {d} /\ d \in Underway(p)
        BY <2>2, <2>4, <3>2 DEF Underway
      <4>2. Cardinality(Underway(p)') = Cardinality(Underway(p)) - 1 /\ Cardinality(Underway(p)) \in Nat
        BY <3>1, <4>1, FiniteDeliveries, FS_RemoveElement
      <4> QED BY <2>6, <3>1, <3>2, <4>2
    <3>3. CASE p # Order(d)
      <4>1. Underway(p)' = Underway(p)
        BY <2>2, <2>4, <3>3 DEF Underway
      <4> QED BY <2>6, <3>1, <3>3, <4>1
    <3> QED BY <3>2, <3>3
  <2>9. \A p \in Payment : confirmed'[p] > 0 => Settled(p)'
    BY <2>1, <2>5, <2>6 DEF WorkersSuffice, Settled
  <2>10. \A e \in Delivery : hook'[e] = "written" => Settled(Order(e))'
    <3>1. hook'[d] = "answered"
      BY <2>1 DEF TypeOK
    <3> QED BY <1>1, <2>3, <3>1
  <2> QED BY <2>7, <2>8, <2>9, <2>10 DEF WorkersSuffice
<1> QED BY <1>2, <1>3, <1>4, <1>5, HandlersBegin, Writers

----------------------------------------------------------------------------
(* The audit log.                                                          *)

JobsFollowTasks == \A p \in Payment : trigger_job[p] = "SUCCESS" => hook[<<p, 1>>] = "answered"

LEMMA StepJobs == TypeOK /\ CallsAreMade /\ JobsFollowTasks /\ [Next]_vars => JobsFollowTasks'
<1> SUFFICES ASSUME TypeOK, CallsAreMade, JobsFollowTasks, [Next]_vars PROVE JobsFollowTasks'
  OBVIOUS
<1> DEFINE Justified == \A p \in Payment : trigger_job'[p] = "SUCCESS" => hook[<<p, 1>>] = "answered"
<1> USE DEF triggers
<1>1. ASSUME UNCHANGED trigger_job PROVE Justified
  BY <1>1 DEF JobsFollowTasks
<1>2. ASSUME NEW q \in Payment, TriggerReturn(q) PROVE Justified
  <2>1. mock[q] = "ok" => hook[<<q, 1>>] = "answered"
    BY Deliveries DEF CallsAreMade
  <2> QED BY <1>2, <2>1 DEF TriggerReturn, JobOutcome, JobsFollowTasks, TypeOK
<1>3. ASSUME NEW q \in Payment, TriggerStart(q) PROVE Justified
  BY <1>3 DEF TriggerStart, JobsFollowTasks, TypeOK
<1>4. ASSUME NEW q \in Payment, TriggerCall(q) \/ TriggerRaise(q) \/ LoseTrigger(q) PROVE Justified
  BY <1>1, <1>4 DEF TriggerCall, TriggerRaise, LoseTrigger
<1>5. ASSUME NEW q \in Payment, Record(q) \/ Publish(q) \/ RequestStep(q) \/ LoseRequest(q) PROVE Justified
  BY <1>1, <1>5 DEF Record, Publish, RequestStep, RequestStart, RequestMark, RequestSchedule, LoseRequest
<1>6. ASSUME NEW q \in Payment, SendConfirmation(q) \/ LoseConfirmation(q) PROVE Justified
  BY <1>1, <1>6 DEF SendConfirmation, LoseConfirmation
<1>7. ASSUME NEW c \in Call, MockStep(c) \/ LoseCall(c) PROVE Justified
  BY <1>1, <1>7 DEF MockStep, MockDeliver, MockReturn, LoseCall
<1>8. ASSUME NEW c \in Call, NEW n \in 1..MaxTries, Redeliver(c, n) PROVE Justified
  BY <1>1, <1>8 DEF Redeliver
<1>9. ASSUME NEW d \in Delivery, HookStep(d) \/ LoseHook(d) PROVE Justified
  BY <1>1, <1>9 DEF LoseHook, HookStep, HookLimit, HookReject, HookIgnore, HookLoad, HookWrite, HookConfirm
<1>10. ASSUME NEW c \in Manual, NEW o \in Payment, NEW t \in EventType, Simulate(c, o, t) PROVE Justified
  BY <1>1, <1>10 DEF Simulate
<1>11. ASSUME NextHour \/ UNCHANGED vars PROVE Justified
  BY <1>1, <1>11 DEF NextHour, vars
<1> HIDE DEF Justified
<1>12. Justified
  BY <1>2, <1>3, <1>4, <1>5, <1>6, <1>7, <1>8, <1>9, <1>10, <1>11
     DEF Next, Work, Surprise, Quiescent, TriggerStep
<1>13. \A p \in Payment : hook[<<p, 1>>] = "answered" => hook'[<<p, 1>>] = "answered"
  BY CallsStay, Deliveries
<1> QED BY <1>12, <1>13 DEF Justified, JobsFollowTasks

----------------------------------------------------------------------------
(* The invariant.                                                          *)

IInv ==
    /\ TypeOK
    /\ CallsAreMade
    /\ RecordedOnce
    /\ RowFromOneWebhook
    /\ ConfirmationsCounted
    /\ WorkersSuffice
    /\ JobsFollowTasks

LEMMA InitIInv == Init => IInv
<1> SUFFICES ASSUME Init PROVE IInv
  OBVIOUS
<1>1. RowFromOneWebhook /\ RecordedOnce
  BY DEF Init, RowFromOneWebhook, Recorded, RecordedOnce
<1>2. JobsFollowTasks
  BY PaymentAssumption DEF Init, JobsFollowTasks
<1>3. ConfirmationsCounted
  <2>1. \A p \in Payment : confirmed[p] = 0 /\ Acknowledged(p) \in SUBSET Delivery
    BY DEF Init, Acknowledged
  <2> QED BY <2>1, FiniteDeliveries DEF ConfirmationsCounted
<1>4. WorkersSuffice
  <2>1. Handling = {} /\ \A p \in Payment : Underway(p) = {} /\ confirmed[p] = 0
    BY DEF Init, Handling, Underway
  <2>2. \A d \in Delivery : hook[d] # "written"
    BY DEF Init
  <2> QED BY <2>1, <2>2, FS_EmptySet, PaymentAssumption DEF WorkersSuffice
<1> QED BY <1>1, <1>2, <1>3, <1>4, InitType, InitMade DEF IInv

LEMMA StepIInv == IInv /\ [Next]_vars => IInv'
BY StepType, StepMade, StepRecorded, StepRow, StepCounted, StepWorkers, StepJobs DEF IInv

LEMMA Invariance == Spec => []IInv
BY InitIInv, StepIInv, PTL DEF Spec

(***************************************************************************)
(* Every reachable state is of the types declared, for any failures.       *)
(***************************************************************************)
THEOREM TypeCorrect == Spec => []TypeOK
<1>1. IInv => TypeOK
  BY DEF IInv
<1> QED BY <1>1, Invariance, PTL

(***************************************************************************)
(* The columns of a payment's row come from one webhook delivered for its  *)
(* order, however many handlers overlap (payments/service.py 24-37).       *)
(***************************************************************************)
THEOREM RowsComeFromOneWebhook == Spec => []RowFromOneWebhook
<1>1. IInv => RowFromOneWebhook
  BY DEF IInv
<1> QED BY <1>1, Invariance, PTL

(***************************************************************************)
(* For any number of web workers, and however the deliveries of a webhook  *)
(* overlap: a booking is confirmed at most once by each worker, and each   *)
(* confirmation is accounted for by a captured delivery of its own, which  *)
(* was answered 200, or 503 after its commit (payments/service.py 24-52).  *)
(***************************************************************************)
THEOREM ConfirmationsBounded == Spec => []ConfirmationsAreBounded
<1>1. IInv => ConfirmationsAreBounded
  <2> SUFFICES ASSUME IInv, NEW p \in Payment
               PROVE  confirmed[p] <= WebWorkers /\ confirmed[p] <= Cardinality(Acknowledged(p))
    BY DEF ConfirmationsAreBounded, Acknowledged
  <2>1. confirmed[p] \in Nat /\ WebWorkers \in Nat /\ confirmed[p] + Cardinality(Underway(p)) <= WebWorkers
    BY PaymentAssumption DEF IInv, TypeOK, WorkersSuffice
  <2>2. Cardinality(Underway(p)) \in Nat
    BY FiniteDeliveries DEF Underway, Handling
  <2> QED BY <2>1, <2>2 DEF IInv, ConfirmationsCounted
<1> QED BY <1>1, Invariance, PTL

(***************************************************************************)
(* A trigger's job says SUCCESS only if the receiver answered its webhook, *)
(* whoever gives up waiting for whom and whatever is lost.                 *)
(***************************************************************************)
THEOREM TriggerJobsTellTheTruth == Spec => []TriggerJobsAreHonest
<1>1. IInv => TriggerJobsAreHonest
  BY Deliveries DEF IInv, TriggerJobsAreHonest, JobsFollowTasks, CallsAreMade
<1> QED BY <1>1, Invariance, PTL

(***************************************************************************)
(* For any number of web workers a payment that was settled is never       *)
(* PENDING again: what overlapping webhooks can do is to turn PROCESSED    *)
(* into FAILED or back (payments/service.py 24-41), no more.               *)
(***************************************************************************)
THEOREM NeverPendingAgain == Spec => [][\A p \in Payment : Settled(p) => Settled(p)']_vars
<1>1. IInv /\ [Next]_vars => [\A p \in Payment : Settled(p) => Settled(p)']_vars
  BY SettledAgain DEF IInv
<1> QED BY <1>1, Invariance, PTL DEF Spec

----------------------------------------------------------------------------
(* With one web worker, as docker-compose.yml runs the application: nothing *)
(* comes between a handler's look at the status and its UPDATE.            *)

OneAtATime ==
    /\ \A d, e \in Handling : d = e
    /\ \A d \in Delivery : hook[d] = "loaded" => ~Settled(Order(d))
    /\ \A d \in Delivery : hook[d] = "written" => row[Order(d)].status = "PROCESSED" /\ confirmed[Order(d)] = 0
    /\ \A p \in Payment : confirmed[p] <= 1 /\ (confirmed[p] > 0 => row[p].status = "PROCESSED")

LEMMA InitOne == Init => OneAtATime
BY DEF Init, OneAtATime, Handling

\* No handler is begun, no row is written, no confirmation is published.
LEMMA OneQuiet ==
    ASSUME OneAtATime, UNCHANGED <<row, confirmed>>,
           \A d \in Delivery : hook'[d] \in {"loaded", "written"} => hook'[d] = hook[d] /\ Order(d)' = Order(d)
    PROVE  OneAtATime'
BY DEF OneAtATime, Handling, Settled

LEMMA StepOne ==
    ASSUME WebWorkers = 1, TypeOK, CallsAreMade, RecordedOnce, OneAtATime, [Next]_vars
    PROVE  OneAtATime'
<1> USE DEF requests, confirmations, gateway, receiver
<1>1. ASSUME NEW q \in Payment, Record(q) PROVE OneAtATime'
  <2>1. /\ row[q] = NoRow /\ row' = [row EXCEPT ![q] = Row("PENDING", "created", None)]
        /\ UNCHANGED <<confirmed, hook, order>>
    BY <1>1 DEF Record, Request, RecordedOnce
  <2>2. \A d \in Handling : Order(d) \in Payment \ {q} /\ Order(d)' = Order(d)
    BY <2>1, Carried DEF Handling, CallsAreMade, Recorded, Order
  <2>3. confirmed[q] = 0
    BY <2>1, PaymentAssumption DEF OneAtATime, TypeOK, NoRow, Row, PaymentStatus
  <2>4. \A p \in Payment \ {q} : row'[p] = row[p]
    BY <2>1 DEF TypeOK
  <2> QED BY <2>1, <2>2, <2>3, <2>4 DEF OneAtATime, Handling, Settled
<1>2. ASSUME NEW d \in Delivery, HookLoad(d) PROVE OneAtATime'
  <2>1. Handling = {}
    <3>1. Handling \in SUBSET Delivery /\ Cardinality(Handling) < 1
      BY <1>2 DEF HookLoad, Admit, HasWorker, Handling
    <3> QED BY <3>1, FiniteDeliveries, FS_EmptySet
  <2>2. Handling' = {d} /\ hook'[d] = "loaded" /\ Order(d)' = Order(d)
    BY <1>2, <2>1 DEF HookLoad, TypeOK, Handling, Order
  <2> QED BY <1>2, <2>2 DEF HookLoad, OneAtATime, Handling, Settled
<1>3. ASSUME NEW d \in Delivery, HookWrite(d) PROVE OneAtATime'
  <2>1. /\ hook[d] = "loaded" /\ ~Settled(Order(d)) /\ Order(d) \in Payment
        /\ UNCHANGED <<order, type, confirmed>> /\ d \in Handling
    BY <1>3, Carried DEF HookWrite, OneAtATime, Handling
  <2>2. confirmed[Order(d)] = 0 /\ Order(d)' = Order(d)
    BY <2>1 DEF OneAtATime, TypeOK, Settled, Order
  <2>3. row'[Order(d)].status = EventToStatus(Type(d))[1] /\ \A p \in Payment \ {Order(d)} : row'[p] = row[p]
    BY <1>3, <2>1 DEF HookWrite, UpdatePayment, TypeOK, Row
  <2>4. \A e \in Delivery \ {d} : hook'[e] = hook[e] /\ e \notin Handling
    BY <1>3, <2>1 DEF HookWrite, AnswerHook, TypeOK, OneAtATime
  <2>5. hook'[d] # "loaded" /\ (hook'[d] = "written" => row'[Order(d)].status = "PROCESSED")
    BY <1>3, <2>3 DEF HookWrite, AnswerHook, TypeOK, Confirms, EventToStatus
  <2>6. \A p \in Payment : confirmed'[p] > 0 => row'[p].status = "PROCESSED"
    BY <2>1, <2>2, <2>3 DEF OneAtATime
  <2> QED BY <2>1, <2>2, <2>4, <2>5, <2>6 DEF OneAtATime, Handling
<1>4. ASSUME NEW d \in Delivery, HookConfirm(d) PROVE OneAtATime'
  <2>1. /\ hook[d] = "written" /\ row[Order(d)].status = "PROCESSED" /\ confirmed[Order(d)] = 0
        /\ Order(d) \in Payment /\ UNCHANGED <<row, order>> /\ d \in Handling
    BY <1>4, Carried DEF HookConfirm, OneAtATime, Handling
  <2>2. hook'[d] = "answered" /\ \A e \in Delivery \ {d} : hook'[e] = hook[e] /\ e \notin Handling
    BY <1>4, <2>1 DEF HookConfirm, AnswerHook, TypeOK, OneAtATime
  <2>3. \A p \in Payment : confirmed'[p] = confirmed[p] \/ (p = Order(d) /\ confirmed'[p] = 1)
    BY <1>4, <2>1 DEF HookConfirm, TypeOK
  <2> QED BY <2>1, <2>2, <2>3 DEF OneAtATime, Handling
<1>5. CASE /\ \A d \in Delivery : hook'[d] \in {"loaded", "written"} => hook'[d] = hook[d]
           /\ UNCHANGED <<row, confirmed>>
  <2>1. \A d \in Delivery : hook'[d] \in {"loaded", "written"} => hook'[d] = hook[d] /\ Order(d)' = Order(d)
    BY <1>5, CarriedStays
  <2> QED BY <1>5, <2>1, OneQuiet
<1> QED BY <1>1, <1>2, <1>3, <1>4, <1>5, HandlersBegin, Writers

\* A row is written once by its booking and once by a webhook.
LEMMA SettledStays ==
    ASSUME TypeOK, RecordedOnce, OneAtATime, [Next]_vars, NEW p \in Payment, Settled(p)
    PROVE  row'[p] = row[p]
<1>1. ASSUME NEW q \in Payment, Record(q) PROVE row'[p] = row[p]
  <2>1. q # p
    BY <1>1, PaymentAssumption DEF Record, Request, RecordedOnce, NoRow, Row, Settled, PaymentStatus
  <2> QED BY <1>1, <2>1 DEF Record, TypeOK
<1>2. ASSUME NEW d \in Delivery, HookWrite(d) PROVE row'[p] = row[p]
  BY <1>2 DEF HookWrite, UpdatePayment, OneAtATime, TypeOK
<1> QED BY <1>1, <1>2, Writers

LEMMA OneInvariance == ASSUME WebWorkers = 1 PROVE Spec => [](IInv /\ OneAtATime)
<1>1. IInv /\ OneAtATime /\ [Next]_vars => (IInv /\ OneAtATime)'
  BY StepOne, StepIInv DEF IInv
<1>2. Init => IInv /\ OneAtATime
  BY InitIInv, InitOne
<1> QED BY <1>1, <1>2, PTL DEF Spec

(***************************************************************************)
(* With one web worker PROCESSED and FAILED are terminal, whatever webhooks *)
(* come, are lost or come again (payments/service.py 24-27).               *)
(***************************************************************************)
THEOREM SettledOnceForAll == ASSUME WebWorkers = 1 PROVE Spec => SettledForGood
<1>1. IInv /\ OneAtATime /\ [Next]_vars => [\A p \in Payment : Settled(p) => UNCHANGED row[p]]_vars
  BY SettledStays DEF IInv
<1> QED BY <1>1, OneInvariance, PTL DEF Spec, SettledForGood

(***************************************************************************)
(* With one web worker a booking is confirmed at most once (same lines).   *)
(***************************************************************************)
THEOREM ConfirmedAtMostOnce == ASSUME WebWorkers = 1 PROVE Spec => []ConfirmedOnce
<1>1. OneAtATime => ConfirmedOnce
  BY DEF OneAtATime, ConfirmedOnce
<1> QED BY <1>1, OneInvariance, PTL

(***************************************************************************)
(* With one web worker tasks, mock, webhooks and confirmations implement   *)
(* the ledger: every step settles a booking, or confirms a settled one, or *)
(* is none of the ledger's business.                                       *)
(***************************************************************************)
THEOREM LedgerImplemented == ASSUME WebWorkers = 1 PROVE Spec => ImplementsLedger
<1> DEFINE Status == [p \in Payment |-> BookingStatus(p)]
           Step(p) == \/ /\ Status[p] = "PENDING"
                         /\ \E s \in {"CONFIRMED", "FAILED"} : Status' = [Status EXCEPT ![p] = s]
                         /\ confirmed' = confirmed
                      \/ /\ Status[p] = "CONFIRMED"
                         /\ confirmed[p] = 0
                         /\ confirmed' = [confirmed EXCEPT ![p] = 1]
                         /\ Status' = Status
<1>1. Init => Ledger!LedgerInit
  BY PaymentAssumption DEF Init, Ledger!LedgerInit, BookingStatus, NoRow, Row, PaymentStatus
<1>2. IInv /\ OneAtATime /\ [Next]_vars => [Ledger!LedgerNext]_(Ledger!ledger)
  <2> SUFFICES ASSUME IInv, OneAtATime, [Next]_vars
               PROVE  (\E p \in Payment : Step(p)) \/ (Status' = Status /\ confirmed' = confirmed)
    BY DEF Ledger!LedgerNext, Ledger!Settle, Ledger!Confirm, Ledger!ledger
  <2> USE DEF IInv
  <2>1. ASSUME UNCHANGED row PROVE Status' = Status
    BY <2>1 DEF BookingStatus
  <2>2. ASSUME NEW p \in Payment, Record(p) PROVE Status' = Status /\ confirmed' = confirmed
    <3>1. row[p] = NoRow /\ row'[p] = Row("PENDING", "created", None) /\ UNCHANGED confirmed
      BY <2>2 DEF Record, Request, RecordedOnce, TypeOK, confirmations
    <3>2. \A q \in Payment \ {p} : row'[q] = row[q]
      BY <2>2 DEF Record, TypeOK
    <3>3. BookingStatus(p) = "PENDING" /\ BookingStatus(p)' = "PENDING"
      BY <3>1, PaymentAssumption DEF BookingStatus, NoRow, Row, PaymentStatus
    <3>4. \A q \in Payment : BookingStatus(q)' = BookingStatus(q)
      BY <3>2, <3>3 DEF BookingStatus
    <3> QED BY <3>1, <3>4
  <2>3. ASSUME NEW d \in Delivery, NEW p \in Payment, p = Order(d), HookWrite(d) PROVE Step(p)
    <3>1. ~Settled(p) /\ UNCHANGED confirmed /\ Type(d) \in EventType
      BY <2>3, Carried DEF HookWrite, OneAtATime, confirmations
    <3>2. row'[p].status = EventToStatus(Type(d))[1] /\ \A q \in Payment \ {p} : row'[q] = row[q]
      BY <2>3 DEF HookWrite, UpdatePayment, TypeOK, Row
    <3>3. row'[p].status = "PROCESSED" \/ (row'[p].status = "FAILED" /\ row'[p].status # "PROCESSED")
      BY <3>1, <3>2 DEF EventToStatus, EventType
    <3>4. BookingStatus(p) = "PENDING"
      BY <3>1 DEF BookingStatus, Settled
    <3>5. BookingStatus(p)' \in {"CONFIRMED", "FAILED"}
      BY <3>3 DEF BookingStatus
    <3>6. \A q \in Payment \ {p} : BookingStatus(q)' = BookingStatus(q)
      BY <3>2 DEF BookingStatus
    <3>7. Status' = [Status EXCEPT ![p] = BookingStatus(p)']
      BY <3>6
    <3> QED BY <3>1, <3>4, <3>5, <3>7
  <2>4. ASSUME NEW d \in Delivery, HookConfirm(d), confirmed' # confirmed PROVE Step(Order(d))
    <3>1. /\ Order(d) \in Payment /\ row[Order(d)].status = "PROCESSED" /\ confirmed[Order(d)] = 0
          /\ UNCHANGED row /\ confirmed' = [confirmed EXCEPT ![Order(d)] = 1]
      BY <2>4, Carried DEF HookConfirm, OneAtATime, TypeOK
    <3>2. Status[Order(d)] = "CONFIRMED"
      BY <3>1 DEF BookingStatus
    <3> QED BY <2>1, <3>1, <3>2
  <2>5. \A d \in Delivery : HookConfirm(d) => Order(d) \in Payment
    BY Carried DEF HookConfirm
  <2>6. \A d \in Delivery : HookWrite(d) => Order(d) \in Payment
    BY Carried DEF HookWrite
  <2>7. \A d \in Delivery : HookWrite(d) => UNCHANGED confirmed
    BY DEF HookWrite, confirmations
  <2> HIDE DEF Status, Step
  <2>8. ASSUME NEW d \in Delivery, HookWrite(d) PROVE \E p \in Payment : Step(p)
    BY <2>3, <2>6, <2>8
  <2> QED BY <2>1, <2>2, <2>4, <2>5, <2>7, <2>8, Writers
<1> QED BY <1>1, <1>2, OneInvariance, PTL DEF Spec, ImplementsLedger, Ledger!LedgerSpec
=============================================================================
