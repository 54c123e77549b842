------------------------- MODULE NotificationProofs -------------------------
(***************************************************************************)
(* Proofs about the delivery of notifications, for every set of messages,  *)
(* notifications and workers, every visibility timeout and every number of *)
(* receives and deaths: late, dying and duplicate workers included.        *)
(***************************************************************************)
EXTENDS NotificationDelivery, TLAPS

\* What the place of a handler says about its message and its email.
HandlerInv ==
    \A c \in Consumers :
        /\ at[c] # "start" => stage[c] = "working"
        /\ stage[c] # "idle" => held[c] \in Messages
        /\ at[c] = "accepted" => emails[Subject[held[c]]] > 0

\* The inductive invariant.
Inv == TypeOK /\ HandlerInv /\ DeliveredWasEmailed /\ OutcomeRecorded

\* The variables of rows and emails.
emailVars == <<status, attempts, age, applicable, emails, history, deaths>>

-----------------------------------------------------------------------------
\* Before anything is stored the invariant holds.
LEMMA InitInv == Init => Inv
  BY QueueAssumption, SubjectAssumption
     DEF Init, QueueInit, Inv, TypeOK, QueueTypeOK, Statuses, HandlerInv,
         DeliveredWasEmailed, OutcomeRecorded

\* A worker inside the handler works on a notification.
LEMMA JobType ==
    ASSUME Inv, NEW c \in Consumers, stage[c] = "working"
    PROVE  held[c] \in Messages /\ Job(c) \in Notifications
  BY SubjectAssumption DEF Inv, HandlerInv, Job

\* Steps of the queue, which leave rows and emails alone, preserve the invariant.
LEMMA QueueInv ==
    ASSUME Inv,
           \/ \E m \in Messages : Dispatch(m) \/ DuplicateDispatch(m)
                                  \/ RedriveMessage(m)
           \/ \E c \in Consumers : HeartbeatMessage(c) \/ DeleteMessage(c)
           \/ \E c \in Consumers, m \in Messages : ReceiveMessage(c, m)
    PROVE  Inv'
  <1>1. UNCHANGED emailVars /\ UNCHANGED handlerVars
    BY DEF Dispatch, DuplicateDispatch, RedriveMessage, HeartbeatMessage,
           DeleteMessage, ReceiveMessage, Quiet, emailVars
  <1>2. DeliveredWasEmailed' /\ OutcomeRecorded'
    BY <1>1 DEF Inv, DeliveredWasEmailed, OutcomeRecorded, emailVars
  <1>3. ASSUME QueueTypeOK', owed' \subseteq Messages PROVE TypeOK'
    BY <1>1, <1>3 DEF Inv, TypeOK, emailVars, handlerVars
  <1>4. ASSUME NEW m \in Messages,
               Dispatch(m) \/ DuplicateDispatch(m) \/ RedriveMessage(m)
        PROVE  TypeOK' /\ HandlerInv'
    <2>1. UNCHANGED consumerVars /\ owed' \subseteq Messages
      BY <1>4 DEF Dispatch, DuplicateDispatch, RedriveMessage, Send, DeadLetter,
                  Quiet, queueVars, consumerVars, Inv, TypeOK
    <2>2. QueueTypeOK'
      BY <1>4, <2>1 DEF Dispatch, DuplicateDispatch, RedriveMessage, Send,
         DeadLetter, queueVars, consumerVars, Inv, TypeOK, QueueTypeOK
    <2> QED
      BY <1>1, <1>3, <2>1, <2>2
         DEF Inv, HandlerInv, consumerVars, emailVars, handlerVars
  <1>5. ASSUME NEW c \in Consumers, HeartbeatMessage(c)
        PROVE  TypeOK' /\ HandlerInv'
    <2>1. UNCHANGED consumerVars /\ owed' \subseteq Messages
      BY <1>5 DEF HeartbeatMessage, Heartbeat, Quiet, Inv, TypeOK
    <2>2. QueueTypeOK'
      <3>1. UNCHANGED <<place, receives>>
            /\ hidden' = [hidden EXCEPT ![held[c]] = Visibility]
        BY <1>5 DEF HeartbeatMessage, Heartbeat
      <3>2. Visibility \in 0..Visibility
        BY QueueAssumption
      <3> QED
        BY <2>1, <3>1, <3>2 DEF consumerVars, Inv, TypeOK, QueueTypeOK
    <2> QED
      BY <1>1, <1>3, <2>1, <2>2
         DEF Inv, HandlerInv, consumerVars, emailVars, handlerVars
  <1>6. ASSUME NEW c \in Consumers, DeleteMessage(c)
        PROVE  TypeOK' /\ HandlerInv'
    <2>1. at[c] = "start" /\ UNCHANGED owed
      BY <1>6 DEF DeleteMessage, Delete, Quiet, Inv, TypeOK, HandlerInv
    <2>2. QueueTypeOK'
      BY <1>6, QueueAssumption
         DEF DeleteMessage, Delete, Free, Inv, TypeOK, QueueTypeOK
    <2>3. HandlerInv'
      BY <1>1, <1>6, <2>1 DEF DeleteMessage, Delete, Free, Inv, TypeOK,
         QueueTypeOK, HandlerInv, emailVars, handlerVars
    <2> QED
      BY <1>3, <2>1, <2>2, <2>3 DEF Inv, TypeOK
  <1>7. ASSUME NEW c \in Consumers, NEW m \in Messages, ReceiveMessage(c, m)
        PROVE  TypeOK' /\ HandlerInv'
    <2>1. at[c] = "start" /\ UNCHANGED owed
      BY <1>7 DEF ReceiveMessage, Receive, Quiet, Inv, TypeOK, HandlerInv
    <2>2. QueueTypeOK'
      BY <1>7, QueueAssumption
         DEF ReceiveMessage, Receive, Inv, TypeOK, QueueTypeOK
    <2>3. HandlerInv'
      BY <1>1, <1>7, <2>1 DEF ReceiveMessage, Receive, Inv, TypeOK,
         QueueTypeOK, HandlerInv, emailVars, handlerVars
    <2> QED
      BY <1>3, <2>1, <2>2, <2>3 DEF Inv, TypeOK
  <1> QED
    BY <1>2, <1>4, <1>5, <1>6, <1>7 DEF Inv

-----------------------------------------------------------------------------
\* Writes to a row by other transactions preserve the invariant.
LEMMA RowInv ==
    ASSUME Inv,
           \/ \E n \in Notifications : Enqueue(n) \/ Supersede(n)
                                       \/ BecomesInapplicable(n)
           \/ \E n \in Notifications, m \in Messages : Requeue(n, m)
    PROVE  Inv'
  <1>1. UNCHANGED <<queueVars, handlerVars, attempts, emails, history, deaths>>
    BY DEF Enqueue, Supersede, BecomesInapplicable, Requeue
  <1>2. QueueTypeOK' /\ HandlerInv'
    BY <1>1 DEF Inv, TypeOK, QueueTypeOK, HandlerInv, queueVars, handlerVars
  <1>3. owed' \subseteq Messages
    BY SubjectAssumption
       DEF Enqueue, Supersede, BecomesInapplicable, Requeue, Inv, TypeOK
  <1>4. applicable' \in [Notifications -> BOOLEAN]
    <2>1. CASE \E n \in Notifications : BecomesInapplicable(n)
      BY <2>1 DEF BecomesInapplicable, Inv, TypeOK
    <2>2. CASE ~\E n \in Notifications : BecomesInapplicable(n)
      BY <2>2 DEF Enqueue, Supersede, Requeue, Inv, TypeOK
    <2> QED
      BY <2>1, <2>2
  <1>5. \/ UNCHANGED <<status, age>>
        \/ \E n \in Notifications : SetRow(n, "pending") \/ SetRow(n, "superseded")
    BY DEF Enqueue, Supersede, BecomesInapplicable, Requeue
  <1>6. /\ status' \in [Notifications -> Statuses]
        /\ age' \in [Notifications -> 0..Visibility]
    BY <1>5, QueueAssumption DEF SetRow, Inv, TypeOK, Statuses
  <1>7. DeliveredWasEmailed' /\ OutcomeRecorded'
    BY <1>1, <1>5
       DEF SetRow, Inv, TypeOK, DeliveredWasEmailed, OutcomeRecorded
  <1> QED
    BY <1>1, <1>2, <1>3, <1>4, <1>6, <1>7 DEF Inv, TypeOK, handlerVars

-----------------------------------------------------------------------------
\* What the queue and the handlers owe the invariant.
Handlers ==
    /\ QueueTypeOK /\ HandlerInv /\ seen \in [Consumers -> Nat]
    /\ at \in [Consumers -> {"start", "read", "claimed", "refused", "checked",
                              "rendered", "accepted", "failing", "unsure"}]

\* A handler moves on; it may only report the email as accepted when it is.
LEMMA ContinueInv ==
    ASSUME Inv, NEW c \in Consumers,
           NEW p \in {"claimed", "refused", "checked", "rendered", "accepted",
                      "failing", "unsure"},
           Continue(c, p), emails' \in [Notifications -> Nat],
           \A n \in Notifications : emails'[n] >= emails[n],
           p = "accepted" => emails'[Job(c)] > 0
    PROVE  Handlers'
  <1>1. /\ stage[c] = "working" /\ UNCHANGED <<queueVars, seen>>
        /\ at' = [at EXCEPT ![c] = p]
    BY DEF Continue, Goto
  <1>2. QueueTypeOK' /\ UNCHANGED <<stage, held>>
    BY <1>1 DEF Inv, TypeOK, QueueTypeOK, queueVars
  <1>3. \A d \in Consumers : stage[d] # "idle" => Subject[held[d]] \in Notifications
    BY SubjectAssumption DEF Inv, HandlerInv
  <1>4. HandlerInv'
    <2> SUFFICES ASSUME NEW d \in Consumers
                 PROVE  /\ at'[d] # "start" => stage'[d] = "working"
                        /\ stage'[d] # "idle" => held'[d] \in Messages
                        /\ at'[d] = "accepted" => emails'[Subject[held'[d]]] > 0
      BY DEF HandlerInv
    <2>1. CASE d = c
      BY <1>1, <1>2, <2>1 DEF Inv, TypeOK, HandlerInv, Job
    <2>2. CASE d # c
      BY <1>1, <1>2, <1>3, <2>2 DEF Inv, TypeOK, HandlerInv
    <2> QED
      BY <2>1, <2>2
  <1> QED
    BY <1>1, <1>2, <1>4 DEF Handlers, Inv, TypeOK

\* A handler ends, or its worker dies.
LEMMA LeaveInv ==
    ASSUME Inv, NEW c \in Consumers, UNCHANGED emails,
           Returns(c) \/ Throws(c) \/ (Abandon(c) /\ Reset(c))
    PROVE  Handlers'
  <1>1. /\ stage[c] # "idle" /\ UNCHANGED messageVars
        /\ at' = [at EXCEPT ![c] = "start"] /\ seen' = [seen EXCEPT ![c] = 0]
        /\ \/ /\ stage' = [stage EXCEPT ![c] = "handled"]
              /\ UNCHANGED <<held, receipt, late>>
           \/ Free(c)
    BY DEF Returns, Throws, Handled, Thrown, Abandon, Reset
  <1>2. QueueTypeOK'
    BY <1>1, QueueAssumption
       DEF messageVars, Free, Inv, TypeOK, QueueTypeOK
  <1>3. HandlerInv'
    BY <1>1 DEF Free, Inv, TypeOK, QueueTypeOK, HandlerInv
  <1> QED
    BY <1>1, <1>2, <1>3 DEF Handlers, Inv, TypeOK

\* The parts of the invariant, put together again.
LEMMA Assemble ==
    ASSUME Inv, Handlers', UNCHANGED <<applicable, owed>>,
           deaths' \in 0..MaxDeaths,
           status' \in [Notifications -> Statuses],
           attempts' \in [Notifications -> Nat],
           age' \in [Notifications -> 0..Visibility],
           emails' \in [Notifications -> Nat],
           history' \in [Notifications -> SUBSET Nat],
           DeliveredWasEmailed', OutcomeRecorded'
    PROVE  Inv'
  BY DEF Inv, TypeOK, Handlers

\* A step that leaves the rows alone keeps what is said about them.
LEMMA RowsUntouched ==
    ASSUME Inv, Handlers', UNCHANGED <<applicable, owed, status, attempts, age,
                                       history>>,
           deaths' \in 0..MaxDeaths, emails' \in [Notifications -> Nat],
           \A n \in Notifications : emails'[n] >= emails[n]
    PROVE  Inv'
  <1>1. DeliveredWasEmailed' /\ OutcomeRecorded'
    BY DEF Inv, TypeOK, DeliveredWasEmailed, OutcomeRecorded
  <1> QED
    BY <1>1, Assemble DEF Inv, TypeOK

\* The row of a running handler is rewritten, as an outcome only together with
\* its evidence.
LEMMA RowRewritten ==
    ASSUME Inv, Handlers', UNCHANGED <<applicable, owed, emails, deaths>>,
           NEW n \in Notifications, NEW s \in Statuses,
           UNCHANGED <<status, age>> \/ SetRow(n, s),
           attempts' \in [Notifications -> Nat],
           \/ UNCHANGED history /\ s \in {"processing", "superseded"}
           \/ \E a \in Nat : RecordAttempt(n, a),
           s = "delivered" => emails[n] > 0
    PROVE  Inv'
  <1>1. /\ status' \in [Notifications -> Statuses]
        /\ age' \in [Notifications -> 0..Visibility]
    BY QueueAssumption DEF SetRow, Inv, TypeOK
  <1>2. history' \in [Notifications -> SUBSET Nat]
    BY DEF RecordAttempt, Inv, TypeOK
  <1>3. /\ \A x \in Notifications \ {n} : status'[x] = status[x]
        /\ status'[n] \in {status[n], s}
    BY DEF SetRow, Inv, TypeOK
  <1>4. DeliveredWasEmailed'
    BY <1>3 DEF Inv, DeliveredWasEmailed
  <1>5. OutcomeRecorded'
    <2>1. /\ \A x \in Notifications : history[x] \subseteq history'[x]
          /\ UNCHANGED history \/ history'[n] # {}
      BY DEF RecordAttempt, Inv, TypeOK
    <2>2. UNCHANGED history => s \in {"processing", "superseded"} \/ history'[n] # {}
      BY DEF RecordAttempt, Inv, TypeOK
    <2> QED
      BY <1>3, <2>1, <2>2 DEF Inv, OutcomeRecorded
  <1> QED
    BY <1>1, <1>2, <1>4, <1>5, Assemble DEF Inv, TypeOK

-----------------------------------------------------------------------------
\* The conditional UPDATE either rewrites the row or leaves it.
LEMMA ConditionalUpdate ==
    ASSUME NEW n, NEW s, SetIfProcessing(n, s)
    PROVE  UNCHANGED <<status, age>> \/ SetRow(n, s)
  BY DEF SetIfProcessing

\* deliverNotification runs in a worker that has received a message.
LEMMA StepWorking ==
    ASSUME NEW c \in Consumers, DeliverNotification(c)
    PROVE  stage[c] = "working"
  BY DEF DeliverNotification, Read, Claim, Recheck, Check, Render,
         ProviderAccepts, DeliveryFails, ProviderUnclear, Record, RecordThrows,
         Fail, Continue, Returns, Throws, Handled, Thrown

\* Every step of deliverNotification preserves the invariant.
LEMMA HandlerStepInv ==
    ASSUME Inv, NEW c \in Consumers, DeliverNotification(c)
    PROVE  Inv'
  <1>1. stage[c] = "working"
    BY StepWorking
  <1>2. held[c] \in Messages /\ Job(c) \in Notifications
    BY <1>1, JobType
  <1>3. /\ emails \in [Notifications -> Nat] /\ deaths \in 0..MaxDeaths
        /\ attempts \in [Notifications -> Nat] /\ seen[c] \in Nat
        /\ \A n \in Notifications : emails[n] >= emails[n]
    BY DEF Inv, TypeOK
  <1>4. ASSUME NEW p \in {"refused", "checked", "failing", "unsure"},
               Continue(c, p),
               UNCHANGED <<status, attempts, age, applicable, emails, history,
                           owed, deaths>>
        PROVE  Inv'
    BY <1>3, <1>4, ContinueInv, RowsUntouched
  <1>5. ASSUME Returns(c) \/ Throws(c),
               UNCHANGED <<status, attempts, age, applicable, emails, history,
                           owed, deaths>>
        PROVE  Inv'
    BY <1>3, <1>5, LeaveInv, RowsUntouched
  <1>6. CASE Read(c)
    <2>1. CASE Returns(c)
      BY <1>5, <1>6, <2>1 DEF Read
    <2>2. CASE ~Returns(c)
      <3>1. /\ at' = [at EXCEPT ![c] = "read"]
            /\ seen' = [seen EXCEPT ![c] = attempts[Job(c)]]
            /\ UNCHANGED <<queueVars, status, attempts, age, applicable, emails,
                           history, owed, deaths>>
        BY <1>6, <2>2 DEF Read
      <3>2. QueueTypeOK' /\ UNCHANGED <<stage, held>>
        BY <3>1 DEF Inv, TypeOK, QueueTypeOK, queueVars
      <3>3. HandlerInv'
        BY <1>1, <3>1, <3>2 DEF Inv, TypeOK, HandlerInv
      <3>4. Handlers'
        BY <1>2, <1>3, <3>1, <3>2, <3>3 DEF Handlers, Inv, TypeOK
      <3> QED
        BY <1>3, <3>1, <3>4, RowsUntouched
    <2> QED
      BY <2>1, <2>2
  <1>7. CASE Claim(c)
    <2>1. CASE Claimable(Job(c))
      <3>1. /\ Continue(c, "claimed") /\ SetRow(Job(c), "processing")
            /\ attempts' = [attempts EXCEPT ![Job(c)] = seen[c] + 1]
            /\ UNCHANGED <<applicable, emails, history, owed, deaths>>
        BY <1>7, <2>1 DEF Claim
      <3>2. attempts' \in [Notifications -> Nat]
        BY <1>2, <1>3, <3>1
      <3>3. "processing" \in Statuses
        BY DEF Statuses
      <3>4. Handlers'
        BY <1>3, <3>1, ContinueInv
      <3> QED
        BY <1>2, <3>1, <3>2, <3>3, <3>4, RowRewritten
    <2>2. CASE ~Claimable(Job(c))
      BY <1>4, <1>7, <2>2 DEF Claim
    <2> QED
      BY <2>1, <2>2
  <1>8. CASE Recheck(c)
    BY <1>5, <1>8 DEF Recheck
  <1>9. CASE Check(c)
    <2>1. CASE applicable[Job(c)]
      BY <1>4, <1>9, <2>1 DEF Check
    <2>2. CASE ~applicable[Job(c)]
      <3>1. /\ Returns(c) /\ SetIfProcessing(Job(c), "superseded")
            /\ UNCHANGED <<attempts, applicable, emails, history, owed, deaths>>
        BY <1>9, <2>2 DEF Check
      <3>2. Handlers' /\ "superseded" \in Statuses
        BY <3>1, LeaveInv DEF Statuses
      <3> QED
        BY <1>2, <1>3, <3>1, <3>2, ConditionalUpdate, RowRewritten
    <2> QED
      BY <2>1, <2>2
  <1>10. CASE Render(c)
    <2>1. /\ Continue(c, "rendered") /\ SetIfProcessing(Job(c), "processing")
          /\ UNCHANGED <<attempts, applicable, emails, history, owed, deaths>>
      BY <1>10 DEF Render
    <2>2. Handlers' /\ "processing" \in Statuses
      BY <1>3, <2>1, ContinueInv DEF Statuses
    <2> QED
      BY <1>2, <1>3, <2>1, <2>2, ConditionalUpdate, RowRewritten
  <1>11. CASE ProviderAccepts(c) \/ ProviderUnclear(c)
    <2>1. /\ UNCHANGED <<status, attempts, age, applicable, history, owed, deaths>>
          /\ \/ emails' = [emails EXCEPT ![Job(c)] = @ + 1]
             \/ UNCHANGED emails
      BY <1>11 DEF ProviderAccepts, ProviderUnclear
    <2>2. /\ emails' \in [Notifications -> Nat]
          /\ \A n \in Notifications : emails'[n] >= emails[n]
      BY <1>2, <1>3, <2>1
    <2>3. CASE ProviderAccepts(c)
      <3>1. Continue(c, "accepted") /\ emails'[Job(c)] > 0
        BY <1>2, <1>3, <2>3 DEF ProviderAccepts
      <3> QED
        BY <1>3, <2>1, <2>2, <3>1, ContinueInv, RowsUntouched
    <2>4. CASE ProviderUnclear(c)
      <3>1. Continue(c, "unsure")
        BY <2>4 DEF ProviderUnclear
      <3> QED
        BY <1>3, <2>1, <2>2, <3>1, ContinueInv, RowsUntouched
    <2> QED
      BY <1>11, <2>3, <2>4
  <1>12. CASE DeliveryFails(c) \/ RecordThrows(c)
    BY <1>4, <1>12 DEF DeliveryFails, RecordThrows
  <1>13. CASE Record(c) \/ Fail(c)
    <2>1. PICK s \in {"delivered", "failed", "unknown"} :
             /\ SetIfProcessing(Job(c), s) /\ RecordAttempt(Job(c), seen[c] + 1)
             /\ Returns(c) \/ Throws(c)
             /\ UNCHANGED <<attempts, applicable, emails, owed, deaths>>
             /\ s = "delivered" => at[c] = "accepted"
      BY <1>13 DEF Record, Fail
    <2>2. Handlers' /\ s \in Statuses /\ seen[c] + 1 \in Nat
      BY <1>3, <2>1, LeaveInv DEF Statuses
    <2>3. s = "delivered" => emails[Job(c)] > 0
      BY <2>1 DEF Inv, HandlerInv, Job
    <2> QED
      BY <1>2, <1>3, <2>1, <2>2, <2>3, ConditionalUpdate, RowRewritten
  <1> QED
    BY <1>6, <1>7, <1>8, <1>9, <1>10, <1>11, <1>12, <1>13
       DEF DeliverNotification

\* The death of a worker preserves the invariant.
LEMMA DieInv == ASSUME Inv, NEW c \in Consumers, Die(c) PROVE Inv'
  <1>1. /\ UNCHANGED <<status, attempts, age, applicable, emails, history, owed>>
        /\ Abandon(c) /\ Reset(c) /\ deaths < MaxDeaths /\ deaths' = deaths + 1
    BY DEF Die
  <1>2. /\ Handlers' /\ deaths' \in 0..MaxDeaths
        /\ emails' \in [Notifications -> Nat]
        /\ \A n \in Notifications : emails'[n] >= emails[n]
    BY <1>1, LeaveInv, SubjectAssumption DEF Inv, TypeOK
  <1> QED
    BY <1>1, <1>2, RowsUntouched

\* The passing of time preserves the invariant.
LEMMA TickInv == ASSUME Inv, Tick PROVE Inv'
  <1>1. /\ UNCHANGED <<place, receives, stage, held, receipt, status, attempts,
                       applicable, emails, history, owed, deaths, at, seen>>
        /\ Elapse
        /\ age' = [n \in Notifications |->
                      IF status[n] = "processing" /\ age[n] < Visibility
                      THEN age[n] + 1 ELSE age[n]]
    BY DEF Tick, Elapse, handlerVars
  <1>2. age' \in [Notifications -> 0..Visibility]
    BY <1>1, QueueAssumption DEF Inv, TypeOK
  <1>3. hidden' \in [Messages -> 0..Visibility] /\ late' \in 0..MaxLate
    BY <1>1, QueueAssumption DEF Elapse, Inv, TypeOK, QueueTypeOK
  <1>4. Handlers'
    BY <1>1, <1>3 DEF Handlers, Inv, TypeOK, QueueTypeOK, HandlerInv
  <1>5. DeliveredWasEmailed' /\ OutcomeRecorded'
    BY <1>1 DEF Inv, DeliveredWasEmailed, OutcomeRecorded
  <1> QED
    BY <1>1, <1>2, <1>4, <1>5, Assemble DEF Inv, TypeOK

\* Every step preserves the invariant.
LEMMA NextInv == Inv /\ [Next]_vars => Inv'
  <1> SUFFICES ASSUME Inv, [Next]_vars PROVE Inv'
    OBVIOUS
  <1>1. CASE \E c \in Consumers : DeliverNotification(c)
    BY <1>1, HandlerStepInv
  <1>2. CASE \E c \in Consumers : Die(c)
    BY <1>2, DieInv
  <1>3. CASE Tick
    BY <1>3, TickInv
  <1>4. CASE UNCHANGED vars
    <2>1. UNCHANGED <<place, hidden, receives, stage, held, receipt, late, status,
                      attempts, age, applicable, emails, history, owed, deaths,
                      at, seen>>
      BY <1>4 DEF vars, queueVars
    <2>2. Handlers' /\ DeliveredWasEmailed' /\ OutcomeRecorded'
      BY <2>1 DEF Inv, TypeOK, QueueTypeOK, Handlers, HandlerInv,
                  DeliveredWasEmailed, OutcomeRecorded
    <2> QED
      BY <2>1, <2>2, Assemble DEF Inv, TypeOK
  <1> QED
    BY <1>1, <1>2, <1>3, <1>4, QueueInv, RowInv DEF Next, Consume

\* The invariant holds of every behaviour.
THEOREM Invariance == Spec => []Inv
  BY InitInv, NextInv, PTL DEF Spec

\* Types of the rows, the handlers and the queue, for every bound.
THEOREM TypeCorrect == Spec => []TypeOK
  <1>1. Inv => TypeOK
    BY DEF Inv
  <1> QED
    BY <1>1, Invariance, PTL

\* A notification is reported delivered only after the provider accepted an email.
THEOREM DeliveredHonestly == Spec => []DeliveredWasEmailed
  <1>1. Inv => DeliveredWasEmailed
    BY DEF Inv
  <1> QED
    BY <1>1, Invariance, PTL

\* Delivered, failed and unknown notifications have a delivery attempt on record.
THEOREM EveryOutcomeRecorded == Spec => []OutcomeRecorded
  <1>1. Inv => OutcomeRecorded
    BY DEF Inv
  <1> QED
    BY <1>1, Invariance, PTL

-----------------------------------------------------------------------------
\* A settled notification is left as it is.
Kept == \A n \in Notifications :
            status[n] \in Terminal =>
                status'[n] = status[n] /\ attempts'[n] = attempts[n]

\* Every step of the system leaves settled notifications as they are.
LEMMA StepKeepsSettled == Inv /\ [Next]_vars => Kept
  <1> SUFFICES ASSUME Inv, [Next]_vars PROVE Kept
    OBVIOUS
  <1>1. ASSUME UNCHANGED <<status, attempts>> PROVE Kept
    BY <1>1 DEF Kept
  <1>2. ASSUME NEW n \in Notifications, NEW s, status[n] \notin Terminal,
               status' = [status EXCEPT ![n] = s],
               UNCHANGED attempts \/ \E a : attempts' = [attempts EXCEPT ![n] = a]
        PROVE  Kept
    BY <1>2 DEF Kept, Inv, TypeOK
  <1>3. CASE \E c \in Consumers : DeliverNotification(c)
    <2> PICK c \in Consumers : DeliverNotification(c)
      BY <1>3
    <2>1. stage[c] = "working"
      BY StepWorking
    <2>2. Job(c) \in Notifications
      BY <2>1, JobType
    <2>3. ASSUME NEW s, SetIfProcessing(Job(c), s), UNCHANGED attempts PROVE Kept
      <3>1. CASE status[Job(c)] = "processing" /\ SetRow(Job(c), s)
        BY <1>2, <2>2, <2>3, <3>1 DEF SetRow, Terminal
      <3>2. CASE UNCHANGED <<status, age>>
        BY <1>1, <2>3, <3>2
      <3> QED
        BY <2>3, <3>1, <3>2 DEF SetIfProcessing
    <2>4. CASE Claim(c) /\ Claimable(Job(c))
      BY <1>2, <2>2, <2>4 DEF Claim, Claimable, SetRow, Terminal
    <2>5. CASE Check(c) \/ Render(c) \/ Record(c) \/ Fail(c)
      BY <1>1, <2>3, <2>5 DEF Check, Render, Record, Fail
    <2>6. CASE \/ Claim(c) /\ ~Claimable(Job(c))
               \/ Read(c) \/ Recheck(c) \/ ProviderAccepts(c) \/ DeliveryFails(c)
               \/ ProviderUnclear(c) \/ RecordThrows(c)
      BY <1>1, <2>6 DEF Claim, Read, Recheck, ProviderAccepts, DeliveryFails,
         ProviderUnclear, RecordThrows
    <2> QED
      BY <2>4, <2>5, <2>6 DEF DeliverNotification
  <1>4. CASE \E n \in Notifications :
                \/ Enqueue(n) \/ Supersede(n) \/ BecomesInapplicable(n)
                \/ \E m \in Messages : Requeue(n, m)
    <2> PICK n \in Notifications :
            \/ Enqueue(n) \/ Supersede(n) \/ BecomesInapplicable(n)
            \/ \E m \in Messages : Requeue(n, m)
      BY <1>4
    <2>1. CASE Enqueue(n)
      BY <1>2, <2>1 DEF Enqueue, SetRow, Terminal
    <2>2. CASE Supersede(n)
      BY <1>2, <2>2 DEF Supersede, SetRow, Terminal
    <2>3. CASE BecomesInapplicable(n)
      BY <1>1, <2>3 DEF BecomesInapplicable
    <2>4. CASE \E m \in Messages : Requeue(n, m)
      BY <1>2, <2>4 DEF Requeue, SetRow, Terminal
    <2> QED
      BY <2>1, <2>2, <2>3, <2>4
  <1>5. ASSUME \/ \E m \in Messages : Dispatch(m) \/ DuplicateDispatch(m)
                                        \/ RedriveMessage(m)
               \/ \E c \in Consumers : HeartbeatMessage(c) \/ DeleteMessage(c)
                                        \/ Die(c)
               \/ \E c \in Consumers, m \in Messages : ReceiveMessage(c, m)
               \/ Tick \/ UNCHANGED vars
        PROVE  Kept
    BY <1>1, <1>5 DEF Dispatch, DuplicateDispatch, RedriveMessage,
       HeartbeatMessage, DeleteMessage, Die, ReceiveMessage, Quiet, Tick, vars
  <1> QED
    BY <1>3, <1>4, <1>5 DEF Next, Consume

\* No late worker, takeover, requeue or duplicate message reopens a delivered,
\* superseded or unknown notification.
THEOREM SettledForGood == Spec => SettledIsFinal
  <1>1. Inv /\ [Next]_vars => [Kept]_vars
    BY StepKeepsSettled
  <1>2. Spec => [][Kept]_vars
    BY <1>1, Invariance, PTL DEF Spec
  <1> QED
    BY <1>2 DEF SettledIsFinal, Kept
-----------------------------------------------------------------------------
(***************************************************************************)
(* While no handler is overtaken by the clock (late = 0).                  *)
(***************************************************************************)
\* Where a handler that claimed its notification can be: before the provider's
\* answer or without an email, and after it.
Unsent == {"claimed", "checked", "rendered", "failing"}
Answered == {"accepted", "unsure"}
Busy == Unsent \cup Answered

\* A handler that claimed a notification has it for itself: only a superseding
\* transaction touches the row, and nobody may take it over yet.
Alone ==
    \A c \in Consumers : at[c] \in Busy =>
        /\ status[Job(c)] \in {"processing", "superseded"}
        /\ status[Job(c)] = "processing" => age[Job(c)] = 0
        /\ \A d \in Consumers \ {c} : at[d] \in Busy => Job(d) # Job(c)

\* A message is only about to be deleted when its notification is settled.
HandledSettled ==
    \A c \in Consumers : stage[c] = "handled" => status[Job(c)] \in Terminal

\* Emails are paid for by deaths, but for the one that settles the notification
\* and the one that is about to.
EmailsPaid ==
    /\ \A c \in Consumers : at[c] \in Unsent => emails[Job(c)] <= deaths
    /\ \A n \in Notifications :
          /\ emails[n] <= 1 + deaths
          /\ status[n] \in {"absent", "pending", "failed"} => emails[n] <= deaths
          /\ status[n] = "processing" =>
                \/ emails[n] <= deaths
                \/ \E c \in Consumers : at[c] \in Answered /\ Job(c) = n

\* A message without an outbox row was never sent, and one with an outbox row is
\* about a stored notification.
OwedInv ==
    /\ \A m \in Messages \ owed : place[m] = "unsent"
    /\ \A m \in owed : status[Subject[m]] # "absent"

CalmInv ==
    late = 0 => Alone /\ HandledSettled /\ EmailsPaid /\ OwedInv /\ NeverStranded

\* What a step of c's handler does to the row and the emails of its notification,
\* and where it leaves the handler.
Allowed(c) ==
    LET n == Job(c) IN
    /\ status[n] \in Terminal => status'[n] = status[n]
    /\ status'[n] = "absent" => status[n] = "absent"
    /\ status'[n] \in {"pending", "processing", "failed"} =>
          status[n] \in {"pending", "processing", "failed"}
    /\ \/ at[c] \in Busy \/ Claimable(n)
       \/ status'[n] = status[n] /\ age'[n] = age[n] /\ emails'[n] = emails[n]
    /\ at'[c] \in Busy =>
          /\ at[c] \in Busy \/ Claimable(n)
          /\ status'[n] \in {"processing", "superseded"}
          /\ status'[n] = "processing" => age'[n] = 0
    /\ at'[c] \in Unsent => emails'[n] <= deaths
    /\ emails'[n] <= 1 + deaths
    /\ status'[n] \in {"absent", "pending", "failed"} => emails'[n] <= deaths
    /\ status'[n] = "processing" =>
          \/ emails'[n] <= deaths \/ at'[c] \in Answered
          \/ at[c] \notin Answered /\ status[n] = "processing" /\ emails'[n] = emails[n]
    /\ stage'[c] = "handled" => status'[n] \in Terminal

\* A handler's step touches its own worker and its own notification only.
Confined(c) ==
    /\ UNCHANGED <<place, owed, deaths, late>>
    /\ \A d \in Consumers \ {c} :
          UNCHANGED <<at[d], stage[d], held[d]>>
    /\ \A x \in Notifications \ {Job(c)} :
          UNCHANGED <<status[x], age[x], emails[x]>>
    /\ held'[c] = held[c] \/ (at'[c] = "start" /\ stage'[c] = "idle")

\* Every step of deliverNotification is confined.
LEMMA StepConfined ==
    ASSUME Inv, NEW c \in Consumers, DeliverNotification(c)
    PROVE  Confined(c)
  <1>1. stage[c] = "working" /\ Job(c) \in Notifications
    BY StepWorking, JobType
  <1>2. UNCHANGED <<owed, deaths>>
    BY DEF DeliverNotification, Read, Claim, Recheck, Check, Render,
       ProviderAccepts, DeliveryFails, ProviderUnclear, Record, RecordThrows, Fail
  <1>3. \/ /\ UNCHANGED queueVars
           /\ \E p : at' = [at EXCEPT ![c] = p]
        \/ Returns(c) \/ Throws(c)
    BY DEF DeliverNotification, Read, Claim, Recheck, Check, Render,
       ProviderAccepts, DeliveryFails, ProviderUnclear, Record, RecordThrows,
       Fail, Continue, Goto
  <1>4. /\ UNCHANGED <<place, late>>
        /\ \E p : at' = [at EXCEPT ![c] = p]
        /\ \/ UNCHANGED <<stage, held>>
           \/ UNCHANGED held /\ stage' = [stage EXCEPT ![c] = "handled"]
           \/ /\ held' = [held EXCEPT ![c] = NoMessage]
              /\ stage' = [stage EXCEPT ![c] = "idle"]
              /\ at' = [at EXCEPT ![c] = "start"]
    <2>1. CASE UNCHANGED queueVars /\ \E p : at' = [at EXCEPT ![c] = p]
      BY <2>1 DEF queueVars
    <2>2. CASE Returns(c)
      BY <2>2 DEF Returns, Handled, Reset, messageVars
    <2>3. CASE Throws(c)
      BY <2>3 DEF Throws, Thrown, Free, Reset, messageVars
    <2> QED
      BY <1>3, <2>1, <2>2, <2>3
  <1>5. /\ UNCHANGED status \/ \E s : status' = [status EXCEPT ![Job(c)] = s]
        /\ UNCHANGED age \/ age' = [age EXCEPT ![Job(c)] = 0]
    BY DEF DeliverNotification, Read, Claim, Recheck, Check, Render,
       ProviderAccepts, DeliveryFails, ProviderUnclear, Record, RecordThrows,
       Fail, SetRow, SetIfProcessing
  <1>6. UNCHANGED emails \/ \E e : emails' = [emails EXCEPT ![Job(c)] = e]
    BY DEF DeliverNotification, Read, Claim, Recheck, Check, Render,
       ProviderAccepts, DeliveryFails, ProviderUnclear, Record, RecordThrows, Fail
  <1>7. \A d \in Consumers \ {c} : UNCHANGED <<at[d], stage[d], held[d]>>
    BY <1>4 DEF Inv, TypeOK, QueueTypeOK
  <1>8. held'[c] = held[c] \/ (at'[c] = "start" /\ stage'[c] = "idle")
    <2>1. CASE UNCHANGED held
      BY <2>1
    <2>2. CASE /\ stage' = [stage EXCEPT ![c] = "idle"]
               /\ at' = [at EXCEPT ![c] = "start"]
      BY <2>2 DEF Inv, TypeOK, QueueTypeOK
    <2> QED
      BY <1>4, <2>1, <2>2
  <1>9. \A x \in Notifications \ {Job(c)} :
            UNCHANGED <<status[x], age[x], emails[x]>>
    BY <1>5, <1>6 DEF Inv, TypeOK
  <1> QED
    BY <1>2, <1>4, <1>7, <1>8, <1>9 DEF Confined

\* A handler that may only do what is allowed keeps the calm invariant.
LEMMA AllowedCalm ==
    ASSUME Inv, CalmInv, late = 0, NEW c \in Consumers, stage[c] = "working",
           Confined(c), Allowed(c)
    PROVE  CalmInv'
  <1> DEFINE n == Job(c)
  <1>1. /\ n \in Notifications /\ held[c] \in Messages
        /\ \A d \in Consumers : stage[d] # "idle" =>
              held[d] \in Messages /\ Job(d) \in Notifications
    BY SubjectAssumption DEF Inv, HandlerInv, Job
  <1>2. /\ Alone /\ HandledSettled /\ EmailsPaid /\ OwedInv /\ NeverStranded
        /\ UNCHANGED <<place, owed, deaths, late>>
    BY DEF CalmInv, Confined
  <1>3. \A d \in Consumers \ {c} :
           /\ at'[d] = at[d] /\ stage'[d] = stage[d] /\ Job(d)' = Job(d)
           /\ at[d] \in Busy \cup Answered => Job(d) \in Notifications
           /\ stage[d] = "handled" => Job(d) \in Notifications
    BY <1>1 DEF Confined, Job, Inv, HandlerInv, Busy, Unsent, Answered
  <1>4. /\ at'[c] \in Busy \cup Answered \/ stage'[c] = "handled" => Job(c)' = n
        /\ Busy \cup Answered = Busy
    BY DEF Confined, Job, Busy, Unsent, Answered
  <1>5. /\ \A x \in Notifications \ {n} :
              status'[x] = status[x] /\ age'[x] = age[x] /\ emails'[x] = emails[x]
    BY DEF Confined
  <1>6. \A d \in Consumers \ {c} : at[d] \in Busy /\ Job(d) = n =>
            /\ at[c] \notin Busy /\ ~Claimable(n)
            /\ status'[n] = status[n] /\ age'[n] = age[n] /\ emails'[n] = emails[n]
    <2>1. \A d \in Consumers : at[d] \in Busy /\ Job(d) = n => ~Claimable(n)
      BY <1>2, QueueAssumption DEF Alone, Claimable
    <2>2. \A d \in Consumers \ {c} : at[d] \in Busy /\ Job(d) = n => at[c] \notin Busy
      BY <1>2 DEF Alone
    <2> QED
      BY <2>1, <2>2 DEF Allowed
  <1>7. Alone'
    <2> SUFFICES ASSUME NEW d \in Consumers, at'[d] \in Busy
                 PROVE  /\ status'[Job(d)'] \in {"processing", "superseded"}
                        /\ status'[Job(d)'] = "processing" => age'[Job(d)'] = 0
                        /\ \A e \in Consumers \ {d} :
                              at'[e] \in Busy => Job(e)' # Job(d)'
      BY DEF Alone
    <2>1. CASE d = c
      <3>1. /\ Job(d)' = n
            /\ at[c] \in Busy \/ Claimable(n)
            /\ status'[n] \in {"processing", "superseded"}
            /\ status'[n] = "processing" => age'[n] = 0
        BY <1>4, <2>1 DEF Allowed
      <3>2. \A e \in Consumers \ {c} : at'[e] \in Busy => Job(e)' # n
        BY <1>3, <1>6, <3>1
      <3> QED
        BY <2>1, <3>1, <3>2
    <2>2. CASE d # c
      <3>1. at[d] \in Busy /\ Job(d)' = Job(d) /\ Job(d) \in Notifications
        BY <1>3, <2>2
      <3>2. /\ status'[Job(d)] = status[Job(d)] /\ age'[Job(d)] = age[Job(d)]
        BY <1>5, <1>6, <2>2, <3>1
      <3>3. /\ status[Job(d)] \in {"processing", "superseded"}
            /\ status[Job(d)] = "processing" => age[Job(d)] = 0
            /\ \A e \in Consumers \ {d} : at[e] \in Busy => Job(e) # Job(d)
        BY <1>2, <3>1 DEF Alone
      <3>4. at'[c] \in Busy => Job(c)' # Job(d)
        <4> SUFFICES ASSUME at'[c] \in Busy, Job(c)' = Job(d) PROVE FALSE
          OBVIOUS
        <4>1. Job(d) = n /\ (at[c] \in Busy \/ Claimable(n))
          BY <1>4 DEF Allowed
        <4> QED
          BY <1>6, <2>2, <3>1, <4>1
      <3>5. \A e \in Consumers \ {c, d} : at'[e] \in Busy => Job(e)' # Job(d)
        BY <1>3, <3>3
      <3> QED
        BY <3>1, <3>2, <3>3, <3>4, <3>5
    <2> QED
      BY <2>1, <2>2
  <1>8. HandledSettled'
    <2> SUFFICES ASSUME NEW d \in Consumers, stage'[d] = "handled"
                 PROVE  status'[Job(d)'] \in Terminal
      BY DEF HandledSettled
    <2>1. CASE d = c
      BY <1>4, <2>1 DEF Allowed
    <2>2. CASE d # c
      <3>1. Job(d)' = Job(d) /\ Job(d) \in Notifications /\ status[Job(d)] \in Terminal
        BY <1>2, <1>3, <2>2 DEF HandledSettled
      <3>2. status'[Job(d)] = status[Job(d)]
        BY <1>5, <3>1 DEF Allowed
      <3> QED
        BY <3>1, <3>2
    <2> QED
      BY <2>1, <2>2
  <1>9. EmailsPaid'
    <2>1. ASSUME NEW d \in Consumers, at'[d] \in Unsent
          PROVE  emails'[Job(d)'] <= deaths'
      <3>1. at'[d] \in Busy
        BY <2>1 DEF Busy
      <3>2. CASE d = c
        BY <1>2, <1>4, <2>1, <3>1, <3>2 DEF Allowed
      <3>3. CASE d # c
        <4>1. at[d] \in Unsent /\ at[d] \in Busy /\ Job(d)' = Job(d)
              /\ Job(d) \in Notifications
          BY <1>3, <2>1, <3>1, <3>3
        <4>2. emails'[Job(d)] = emails[Job(d)] /\ emails[Job(d)] <= deaths
          BY <1>2, <1>5, <1>6, <3>3, <4>1 DEF EmailsPaid
        <4> QED
          BY <1>2, <4>1, <4>2
      <3> QED
        BY <3>2, <3>3
    <2>2. ASSUME NEW x \in Notifications
          PROVE  /\ emails'[x] <= 1 + deaths'
                 /\ status'[x] \in {"absent", "pending", "failed"} =>
                       emails'[x] <= deaths'
      <3>1. CASE x = n
        BY <1>2, <3>1 DEF Allowed
      <3>2. CASE x # n
        BY <1>2, <1>5, <3>2 DEF EmailsPaid
      <3> QED
        BY <3>1, <3>2
    <2>3. ASSUME NEW x \in Notifications, status'[x] = "processing",
                 ~(emails'[x] <= deaths')
          PROVE  \E d \in Consumers : at'[d] \in Answered /\ Job(d)' = x
      <3>1. CASE x = n /\ at'[c] \in Answered
        BY <1>4, <3>1
      <3>2. CASE x = n /\ at'[c] \notin Answered
        <4>1. /\ at[c] \notin Answered /\ status[n] = "processing"
              /\ ~(emails[n] <= deaths)
          BY <1>2, <2>3, <3>2 DEF Allowed
        <4>2. PICK d \in Consumers : at[d] \in Answered /\ Job(d) = n
          BY <1>1, <1>2, <4>1 DEF EmailsPaid
        <4> QED
          BY <1>3, <3>2, <4>1, <4>2
      <3>3. CASE x # n
        <4>1. status[x] = "processing" /\ ~(emails[x] <= deaths)
          BY <1>2, <1>5, <2>3, <3>3
        <4>2. PICK d \in Consumers : at[d] \in Answered /\ Job(d) = x
          BY <1>2, <4>1 DEF EmailsPaid
        <4> QED
          BY <1>3, <3>3, <4>2
      <3> QED
        BY <3>1, <3>2, <3>3
    <2> QED
      BY <2>1, <2>2, <2>3 DEF EmailsPaid
  <1>10. OwedInv'
    <2>1. \A x \in Notifications : status[x] # "absent" => status'[x] # "absent"
      BY <1>5 DEF Allowed
    <2> QED
      BY <1>2, <2>1, SubjectAssumption DEF OwedInv, Inv, TypeOK
  <1>11. NeverStranded'
    <2>1. \A x \in Notifications : status'[x] \in {"pending", "processing", "failed"} =>
             status[x] \in {"pending", "processing", "failed"}
      BY <1>5 DEF Allowed
    <2> QED
      BY <1>2, <2>1 DEF NeverStranded
  <1> QED
    BY <1>2, <1>7, <1>8, <1>9, <1>10, <1>11 DEF CalmInv

\* Every step of deliverNotification is allowed.
LEMMA StepAllowed ==
    ASSUME Inv, CalmInv, late = 0, NEW c \in Consumers, DeliverNotification(c)
    PROVE  Allowed(c)
  <1> DEFINE n == Job(c)
  <1>1. stage[c] = "working" /\ n \in Notifications
    BY StepWorking, JobType
  <1>2. /\ Alone /\ EmailsPaid
        /\ emails[n] \in Nat /\ deaths \in Nat /\ status[n] \in Statuses
    BY <1>1, SubjectAssumption DEF CalmInv, Inv, TypeOK
  <1>3. at[c] \in Busy =>
           /\ status[n] \in {"processing", "superseded"}
           /\ status[n] = "processing" => age[n] = 0
    BY <1>2 DEF Alone
  <1>4. /\ at[c] \in Unsent => emails[n] <= deaths
        /\ emails[n] <= 1 + deaths
        /\ status[n] \in {"absent", "pending", "failed"} => emails[n] <= deaths
    BY <1>1, <1>2 DEF EmailsPaid
  <1>5. Claimable(n) => emails[n] <= deaths
    <2>1. CASE status[n] = "processing" /\ age[n] = Visibility
      <3>1. \A d \in Consumers : at[d] \in Answered => Job(d) # n
        BY <1>2, <2>1, QueueAssumption DEF Alone, Busy
      <3> QED
        BY <1>1, <1>2, <2>1, <3>1 DEF EmailsPaid
    <2> QED
      BY <1>4, <2>1 DEF Claimable
  <1>6. /\ Unsent \subseteq Busy /\ Answered \subseteq Busy
        /\ "start" \notin Busy /\ "read" \notin Busy /\ "refused" \notin Busy
        /\ "accepted" \notin Unsent /\ "unsure" \notin Unsent
        /\ \A p \in Unsent : p \notin Answered
    BY DEF Busy, Unsent, Answered
  <1>7. ASSUME NEW p, at' = [at EXCEPT ![c] = p] PROVE at'[c] = p
    BY <1>7 DEF Inv, TypeOK
  <1>8. ASSUME NEW p, Continue(c, p)
        PROVE  at'[c] = p /\ stage'[c] # "handled"
    BY <1>1, <1>7, <1>8 DEF Continue, Goto, queueVars
  <1>9. ASSUME Returns(c) \/ Throws(c)
        PROVE  at'[c] = "start" /\ (Throws(c) => stage'[c] # "handled")
    <2>1. at'[c] = "start"
      BY <1>7, <1>9 DEF Returns, Throws, Reset
    <2>2. Throws(c) => stage'[c] = "idle"
      BY DEF Throws, Thrown, Free, Inv, TypeOK, QueueTypeOK
    <2> QED
      BY <2>1, <2>2
  <1>10. ASSUME NEW s, SetIfProcessing(n, s)
         PROVE  \/ status[n] = "processing" /\ status'[n] = s /\ age'[n] = 0
                \/ /\ status[n] # "processing"
                   /\ status'[n] = status[n] /\ age'[n] = age[n]
    BY <1>1, <1>10 DEF SetIfProcessing, SetRow, Inv, TypeOK
  <1>11. ASSUME status'[n] = status[n], age'[n] = age[n], emails'[n] = emails[n],
                at[c] \notin Busy, at'[c] \notin Busy,
                stage'[c] = "handled" => status[n] \in Terminal
         PROVE  Allowed(c)
    BY <1>4, <1>6, <1>11 DEF Allowed
  <1>12. CASE Read(c)
    <2>1. /\ UNCHANGED <<status, age, emails>> /\ at[c] = "start"
          /\ \/ status[n] \in Terminal /\ Returns(c)
             \/ /\ at' = [at EXCEPT ![c] = "read"]
                /\ UNCHANGED queueVars
      BY <1>12 DEF Read
    <2>2. CASE status[n] \in Terminal /\ Returns(c)
      BY <1>6, <1>9, <1>11, <2>1, <2>2
    <2>3. CASE at' = [at EXCEPT ![c] = "read"] /\ UNCHANGED queueVars
      <3>1. at'[c] = "read" /\ stage'[c] = "working"
        BY <1>1, <1>7, <2>3 DEF queueVars
      <3> QED
        BY <1>6, <1>11, <2>1, <3>1
    <2> QED
      BY <2>1, <2>2, <2>3
  <1>13. CASE Claim(c)
    <2>1. CASE Claimable(n)
      <3>1. /\ status' = [status EXCEPT ![n] = "processing"]
            /\ age' = [age EXCEPT ![n] = 0]
            /\ UNCHANGED emails /\ Continue(c, "claimed")
        BY <1>13, <2>1 DEF Claim, SetRow
      <3>2. /\ status'[n] = "processing" /\ age'[n] = 0 /\ emails'[n] = emails[n]
            /\ at'[c] = "claimed" /\ stage'[c] # "handled"
        BY <1>1, <1>8, <3>1 DEF Inv, TypeOK
      <3>3. status[n] \in {"pending", "failed", "processing"}
        BY <2>1 DEF Claimable
      <3> QED
        BY <1>2, <1>4, <1>5, <2>1, <3>2, <3>3 DEF Allowed, Terminal
    <2>2. CASE ~Claimable(n)
      <3>1. at[c] = "read" /\ Continue(c, "refused") /\ UNCHANGED <<status, age, emails>>
        BY <1>13, <2>2 DEF Claim
      <3> QED
        BY <1>6, <1>8, <1>11, <3>1
    <2> QED
      BY <2>1, <2>2
  <1>14. CASE Recheck(c)
    <2>1. /\ at[c] = "refused" /\ UNCHANGED <<status, age, emails>>
          /\ \/ status[n] \in Terminal /\ Returns(c)
             \/ Throws(c)
      BY <1>14 DEF Recheck
    <2> QED
      BY <1>6, <1>9, <1>11, <2>1
  <1>15. CASE Check(c) \/ Render(c)
    <2>1. at[c] \in Unsent /\ UNCHANGED emails
      BY <1>15 DEF Check, Render, Unsent
    <2>2. CASE Check(c) /\ applicable[n]
      <3>1. Continue(c, "checked") /\ UNCHANGED <<status, age>>
        BY <2>2 DEF Check
      <3>2. "checked" \in Unsent
        BY DEF Unsent
      <3> QED
        BY <1>3, <1>4, <1>6, <1>8, <2>1, <3>1, <3>2 DEF Allowed
    <2>3. CASE Check(c) /\ ~applicable[n]
      <3>1. SetIfProcessing(n, "superseded") /\ Returns(c)
        BY <2>3 DEF Check
      <3>2. status'[n] = "superseded" /\ at'[c] = "start"
        BY <1>3, <1>6, <1>9, <1>10, <2>1, <3>1
      <3> QED
        BY <1>3, <1>4, <1>6, <2>1, <3>2 DEF Allowed, Terminal
    <2>4. CASE Render(c)
      <3>1. SetIfProcessing(n, "processing") /\ Continue(c, "rendered")
        BY <2>4 DEF Render
      <3>2. /\ status'[n] = status[n] /\ age'[n] \in {0, age[n]}
            /\ status[n] = "processing" => age'[n] = 0
            /\ at'[c] = "rendered" /\ stage'[c] # "handled"
        BY <1>8, <1>10, <3>1
      <3>3. "rendered" \in Unsent
        BY DEF Unsent
      <3> QED
        BY <1>3, <1>4, <1>6, <2>1, <3>2, <3>3 DEF Allowed
    <2> QED
      BY <1>15, <2>2, <2>3, <2>4
  <1>16. CASE ProviderAccepts(c) \/ ProviderUnclear(c)
    <2>1. /\ at[c] = "rendered" /\ UNCHANGED <<status, age>>
          /\ emails' = [emails EXCEPT ![n] = @ + 1] \/ UNCHANGED emails
          /\ Continue(c, "accepted") \/ Continue(c, "unsure")
      BY <1>16 DEF ProviderAccepts, ProviderUnclear
    <2>2. emails'[n] \in {emails[n], emails[n] + 1}
      BY <1>1, <2>1 DEF Inv, TypeOK
    <2>3. at[c] \in Unsent /\ at'[c] \in Answered /\ stage'[c] # "handled"
      BY <1>8, <2>1 DEF Unsent, Answered
    <2>4. emails'[n] <= 1 + deaths
      BY <1>2, <1>4, <2>2, <2>3
    <2> QED
      BY <1>3, <1>6, <2>1, <2>3, <2>4 DEF Allowed
  <1>17. CASE DeliveryFails(c)
    <2>1. at[c] \in Unsent /\ Continue(c, "failing") /\ UNCHANGED <<status, age, emails>>
      BY <1>17 DEF DeliveryFails, Unsent
    <2>2. "failing" \in Unsent
      BY DEF Unsent
    <2> QED
      BY <1>3, <1>4, <1>6, <1>8, <2>1, <2>2 DEF Allowed
  <1>18. CASE RecordThrows(c)
    <2>1. /\ at[c] \in Answered /\ Continue(c, "unsure")
          /\ UNCHANGED <<status, age, emails>>
      BY <1>18 DEF RecordThrows, Answered
    <2>2. "unsure" \in Answered
      BY DEF Answered
    <2> QED
      BY <1>3, <1>4, <1>6, <1>8, <2>1, <2>2 DEF Allowed
  <1>19. CASE Record(c) \/ (Fail(c) /\ at[c] = "unsure")
    <2>1. /\ at[c] \in Answered /\ UNCHANGED emails /\ Returns(c)
          /\ SetIfProcessing(n, "delivered") \/ SetIfProcessing(n, "unknown")
      BY <1>19 DEF Record, Fail, Answered
    <2>2. status'[n] \in {"delivered", "unknown", "superseded"} /\ at'[c] = "start"
      BY <1>3, <1>6, <1>9, <1>10, <2>1
    <2>3. status[n] \in Terminal => status'[n] = status[n]
      BY <1>10, <2>1 DEF Terminal
    <2> QED
      BY <1>4, <1>6, <2>1, <2>2, <2>3 DEF Allowed, Terminal
  <1>20. CASE Fail(c) /\ at[c] = "failing"
    <2>1. /\ at[c] \in Unsent /\ UNCHANGED emails /\ Throws(c)
          /\ SetIfProcessing(n, "failed")
      BY <1>20 DEF Fail, Unsent
    <2>2. status'[n] \in {"failed", "superseded"} /\ at'[c] = "start"
          /\ stage'[c] # "handled"
      BY <1>3, <1>6, <1>9, <1>10, <2>1
    <2>3. status[n] \in Terminal => status'[n] = status[n]
      BY <1>10, <2>1 DEF Terminal
    <2> QED
      BY <1>3, <1>4, <1>6, <2>1, <2>2, <2>3 DEF Allowed, Terminal
  <1>21. Fail(c) => at[c] \in {"failing", "unsure"}
    BY DEF Fail
  <1> QED
    BY <1>12, <1>13, <1>14, <1>15, <1>16, <1>17, <1>18, <1>19, <1>20, <1>21
       DEF DeliverNotification

\* The other steps of the workers and of SQS leave the rows alone; a message is
\* only deleted by a worker that has handled it.
LEMMA QueueCalm ==
    ASSUME Inv, CalmInv, late = 0,
           \/ \E m \in Messages : Dispatch(m) \/ DuplicateDispatch(m)
                                  \/ RedriveMessage(m)
           \/ \E c \in Consumers : HeartbeatMessage(c) \/ DeleteMessage(c)
           \/ \E c \in Consumers, m \in Messages : ReceiveMessage(c, m)
    PROVE  CalmInv'
  <1>1. /\ OwedInv /\ NeverStranded /\ Alone /\ HandledSettled /\ EmailsPaid
        /\ UNCHANGED <<status, age, emails, deaths, at, seen>>
    BY DEF CalmInv, Dispatch, DuplicateDispatch, RedriveMessage, HeartbeatMessage,
           DeleteMessage, ReceiveMessage, Quiet, handlerVars
  <1>2. \A d \in Consumers : at[d] \in Busy \cup Answered \cup Unsent =>
            stage[d] = "working"
    BY DEF Inv, HandlerInv, Busy, Unsent, Answered
  <1>3. \A d \in Consumers : stage[d] = "working" => held'[d] = held[d]
    BY DEF Dispatch, DuplicateDispatch, RedriveMessage, HeartbeatMessage,
           DeleteMessage, ReceiveMessage, Send, DeadLetter, Heartbeat, Delete, Free,
           Receive, consumerVars, queueVars, Inv, TypeOK, QueueTypeOK
  <1>4. \A d \in Consumers : stage'[d] = "handled" =>
            stage[d] = "handled" /\ held'[d] = held[d]
    BY DEF Dispatch, DuplicateDispatch, RedriveMessage, HeartbeatMessage,
           DeleteMessage, ReceiveMessage, Send, DeadLetter, Heartbeat, Delete, Free,
           Receive, consumerVars, queueVars, Inv, TypeOK, QueueTypeOK
  <1>5. Alone'
    BY <1>1, <1>2, <1>3 DEF Alone, Job
  <1>6. HandledSettled'
    BY <1>1, <1>4 DEF HandledSettled, Job
  <1>7. EmailsPaid'
    BY <1>1, <1>2, <1>3 DEF EmailsPaid, Job
  <1>8. /\ owed \subseteq owed' /\ owed' \subseteq Messages
        /\ \A m \in owed' : status[Subject[m]] # "absent"
    <2>1. CASE \E m \in Messages : DuplicateDispatch(m)
      BY <1>1, <2>1 DEF DuplicateDispatch, OwedInv, Inv, TypeOK
    <2>2. CASE UNCHANGED owed
      BY <1>1, <2>2 DEF OwedInv, Inv, TypeOK
    <2> QED
      BY <2>1, <2>2 DEF Dispatch, RedriveMessage, HeartbeatMessage,
         DeleteMessage, ReceiveMessage, Quiet
  <1>9. /\ \A m \in Messages \ owed : place'[m] = place[m]
        /\ \A m \in owed : place'[m] = "deleted" =>
              place[m] = "deleted" \/ status[Subject[m]] \in Terminal
    <2>1. CASE \E m \in Messages : Dispatch(m)
      BY <2>1 DEF Dispatch, Send, Inv, TypeOK, QueueTypeOK
    <2>2. CASE \E m \in Messages : RedriveMessage(m)
      BY <1>1, <2>2 DEF RedriveMessage, DeadLetter, Visible, OwedInv, Inv, TypeOK,
         QueueTypeOK
    <2>3. CASE \E c \in Consumers : DeleteMessage(c)
      <3>1. PICK c \in Consumers : DeleteMessage(c)
        BY <2>3
      <3>2. /\ status[Subject[held[c]]] \in Terminal
            /\ \/ place' = [place EXCEPT ![held[c]] = "deleted"]
                  /\ place[held[c]] = "queued"
               \/ UNCHANGED place
        BY <1>1, <3>1 DEF DeleteMessage, Delete, HandledSettled, Job
      <3> QED
        BY <1>1, <3>2 DEF OwedInv, Inv, TypeOK, QueueTypeOK
    <2>4. CASE UNCHANGED place
      BY <2>4
    <2> QED
      BY <2>1, <2>2, <2>3, <2>4 DEF DuplicateDispatch, HeartbeatMessage, Heartbeat,
         ReceiveMessage, Receive, queueVars
  <1>10. OwedInv'
    BY <1>1, <1>8, <1>9 DEF OwedInv
  <1>11. NeverStranded'
    BY <1>1, <1>8, <1>9 DEF NeverStranded, Terminal
  <1> QED
    BY <1>5, <1>6, <1>7, <1>10, <1>11 DEF CalmInv

\* Writes to a row by other transactions keep the calm invariant.
LEMMA RowCalm ==
    ASSUME Inv, CalmInv, late = 0, NEW n \in Notifications,
           \/ Enqueue(n) \/ Supersede(n) \/ BecomesInapplicable(n)
           \/ \E m \in Messages : Requeue(n, m)
    PROVE  CalmInv'
  <1>1. /\ OwedInv /\ NeverStranded /\ Alone /\ HandledSettled /\ EmailsPaid
        /\ UNCHANGED <<queueVars, handlerVars, emails, deaths>>
    BY DEF CalmInv, Enqueue, Supersede, BecomesInapplicable, Requeue
  <1>2. UNCHANGED <<place, stage, held, at, late>>
    BY <1>1 DEF queueVars, handlerVars
  <1>3. CASE BecomesInapplicable(n)
    <2>1. UNCHANGED <<status, age, owed>>
      BY <1>3 DEF BecomesInapplicable
    <2> QED
      BY <1>1, <1>2, <2>1 DEF CalmInv, OwedInv, NeverStranded, Alone, HandledSettled,
         EmailsPaid, Job
  <1>4. CASE Supersede(n)
    <2>1. /\ status[n] \in {"pending", "processing", "failed"} /\ UNCHANGED owed
          /\ status' = [status EXCEPT ![n] = "superseded"]
          /\ age' = [age EXCEPT ![n] = 0]
      BY <1>4 DEF Supersede, SetRow
    <2>2. /\ status'[n] = "superseded"
          /\ \A x \in Notifications \ {n} : status'[x] = status[x] /\ age'[x] = age[x]
      BY <2>1 DEF Inv, TypeOK
    <2>3. \A c \in Consumers : at[c] \in Busy \/ stage[c] = "handled" =>
             Job(c) \in Notifications
      BY SubjectAssumption DEF Inv, HandlerInv, Job, Busy, Unsent, Answered
    <2>4. Alone'
      BY <1>1, <1>2, <2>2, <2>3 DEF Alone, Job
    <2>5. HandledSettled'
      BY <1>1, <1>2, <2>2, <2>3 DEF HandledSettled, Job, Terminal
    <2>6. EmailsPaid'
      BY <1>1, <1>2, <2>2 DEF EmailsPaid, Job
    <2>7. OwedInv'
      BY <1>1, <1>2, <2>1, <2>2, SubjectAssumption DEF OwedInv, Inv, TypeOK
    <2>8. NeverStranded'
      BY <1>1, <1>2, <2>1, <2>2 DEF NeverStranded
    <2> QED
      BY <2>4, <2>5, <2>6, <2>7, <2>8 DEF CalmInv
  <1>5. CASE Enqueue(n) \/ \E m \in Messages : Requeue(n, m)
    <2>1. PICK m \in Messages :
             /\ status[n] \in {"absent", "failed"} /\ owed' = owed \cup {m}
             /\ Subject[m] = n
             /\ status' = [status EXCEPT ![n] = "pending"]
             /\ age' = [age EXCEPT ![n] = 0]
             /\ status[n] = "failed" => m \notin owed
      <3>1. CASE Enqueue(n)
        BY <3>1, SubjectAssumption DEF Enqueue, SetRow
      <3>2. CASE \E m \in Messages : Requeue(n, m)
        BY <3>2 DEF Requeue, SetRow
      <3> QED
        BY <1>5, <3>1, <3>2
    <2>2. /\ status'[n] = "pending"
          /\ \A x \in Notifications \ {n} : status'[x] = status[x] /\ age'[x] = age[x]
      BY <2>1 DEF Inv, TypeOK
    <2>3. place[m] = "unsent"
      BY <1>1, <2>1 DEF OwedInv
    <2>4. \A c \in Consumers : at[c] \in Busy \/ stage[c] = "handled" =>
             Job(c) \in Notifications /\ Job(c) # n
      BY <1>1, <2>1, SubjectAssumption DEF Alone, HandledSettled, Terminal, Inv,
         HandlerInv, Job, Busy, Unsent, Answered
    <2>5. Alone'
      BY <1>1, <1>2, <2>2, <2>4 DEF Alone, Job
    <2>6. HandledSettled'
      BY <1>1, <1>2, <2>2, <2>4 DEF HandledSettled, Job
    <2>7. EmailsPaid'
      <3>1. emails[n] <= deaths
        BY <1>1, <2>1 DEF EmailsPaid
      <3> QED
        BY <1>1, <1>2, <2>2, <3>1 DEF EmailsPaid, Job
    <2>8. OwedInv'
      BY <1>1, <1>2, <2>1, <2>2, SubjectAssumption DEF OwedInv, Inv, TypeOK
    <2>9. NeverStranded'
      BY <1>1, <1>2, <2>1, <2>2, <2>3 DEF NeverStranded
    <2> QED
      BY <2>5, <2>6, <2>7, <2>8, <2>9 DEF CalmInv
  <1> QED
    BY <1>3, <1>4, <1>5

\* The death of a worker keeps the calm invariant: it pays for the email that may
\* be out.
LEMMA DieCalm ==
    ASSUME Inv, CalmInv, late = 0, NEW c \in Consumers, Die(c)
    PROVE  CalmInv'
  <1>1. /\ OwedInv /\ NeverStranded /\ Alone /\ HandledSettled /\ EmailsPaid
        /\ UNCHANGED <<place, owed, status, age, emails, late>>
        /\ deaths' = deaths + 1 /\ deaths \in Nat
        /\ \A n \in Notifications : emails[n] \in Nat
    BY SubjectAssumption
       DEF CalmInv, Die, Abandon, Free, messageVars, Inv, TypeOK
  <1>2. /\ at'[c] = "start" /\ stage'[c] = "idle"
        /\ \A d \in Consumers \ {c} :
              at'[d] = at[d] /\ stage'[d] = stage[d] /\ held'[d] = held[d]
    BY DEF Die, Abandon, Free, Reset, Inv, TypeOK, QueueTypeOK
  <1>3. \A d \in Consumers : at[d] \in Busy => Job(d) \in Notifications
    BY SubjectAssumption DEF Inv, HandlerInv, Job, Busy, Unsent, Answered
  <1>4. Alone'
    BY <1>1, <1>2 DEF Alone, Job, Busy, Unsent, Answered
  <1>5. HandledSettled'
    BY <1>1, <1>2 DEF HandledSettled, Job
  <1>6. EmailsPaid'
    <2>1. \A n \in Notifications : emails[n] <= deaths'
      BY <1>1 DEF EmailsPaid
    <2>2. \A d \in Consumers : at'[d] \in Unsent => Job(d)' \in Notifications
      BY <1>2, <1>3 DEF Job, Busy, Unsent
    <2> QED
      BY <1>1, <2>1, <2>2 DEF EmailsPaid
  <1>7. OwedInv' /\ NeverStranded'
    BY <1>1 DEF OwedInv, NeverStranded
  <1> QED
    BY <1>4, <1>5, <1>6, <1>7 DEF CalmInv

\* Time that passes while no handler is at work keeps the calm invariant.
LEMMA TickCalm ==
    ASSUME Inv, CalmInv, late = 0, late' = 0, Tick
    PROVE  CalmInv'
  <1>1. /\ OwedInv /\ NeverStranded /\ Alone /\ HandledSettled /\ EmailsPaid
        /\ UNCHANGED <<place, owed, status, emails, deaths, at, stage, held>>
    BY DEF CalmInv, Tick, Elapse, handlerVars
  <1>2. \A c \in Consumers : at[c] = "start" /\ stage[c] = "idle"
    BY DEF Tick, Elapse, Inv, TypeOK, HandlerInv
  <1>3. Alone' /\ HandledSettled'
    BY <1>1, <1>2 DEF Alone, HandledSettled, Busy, Unsent, Answered
  <1>4. EmailsPaid' /\ OwedInv' /\ NeverStranded'
    BY <1>1 DEF EmailsPaid, OwedInv, NeverStranded, Job
  <1> QED
    BY <1>3, <1>4 DEF CalmInv

\* A handler that was overtaken stays so.
LEMMA LateForGood ==
    ASSUME Inv, [Next]_vars, late' = 0
    PROVE  late = 0
  <1>1. CASE \E c \in Consumers : DeliverNotification(c)
    BY <1>1, StepConfined DEF Confined
  <1>2. CASE Tick
    BY <1>2 DEF Tick, Elapse, Inv, TypeOK, QueueTypeOK
  <1>3. ASSUME NEW c \in Consumers,
               \/ HeartbeatMessage(c) \/ DeleteMessage(c) \/ Die(c)
               \/ \E m \in Messages : ReceiveMessage(c, m)
        PROVE  UNCHANGED late
    BY <1>3 DEF HeartbeatMessage, Heartbeat, DeleteMessage, Delete, Die, Abandon,
       Free, ReceiveMessage, Receive, consumerVars
  <1>4. ASSUME NEW m \in Messages,
               Dispatch(m) \/ DuplicateDispatch(m) \/ RedriveMessage(m)
        PROVE  UNCHANGED late
    BY <1>4 DEF Dispatch, Send, DuplicateDispatch, RedriveMessage, DeadLetter,
       consumerVars, queueVars
  <1>5. ASSUME NEW n \in Notifications,
               \/ Enqueue(n) \/ Supersede(n) \/ BecomesInapplicable(n)
               \/ \E m \in Messages : Requeue(n, m)
        PROVE  UNCHANGED late
    BY <1>5 DEF Enqueue, Supersede, BecomesInapplicable, Requeue, queueVars
  <1>6. CASE UNCHANGED vars
    BY <1>6 DEF vars, queueVars
  <1> QED
    BY <1>1, <1>2, <1>3, <1>4, <1>5, <1>6 DEF Next, Consume

\* Initially no handler is at work and no message is stored.
LEMMA InitCalm == Init => CalmInv
  BY SubjectAssumption DEF Init, QueueInit, CalmInv, Alone, HandledSettled,
     EmailsPaid, OwedInv, NeverStranded, Busy, Unsent, Answered

\* Every step keeps the calm invariant.
LEMMA NextCalm == Inv /\ CalmInv /\ [Next]_vars => CalmInv'
  <1> SUFFICES ASSUME Inv, CalmInv, [Next]_vars, late' = 0 PROVE CalmInv'
    BY DEF CalmInv
  <1>1. late = 0
    BY LateForGood
  <1>2. CASE \E c \in Consumers : DeliverNotification(c)
    BY <1>1, <1>2, StepWorking, StepConfined, StepAllowed, AllowedCalm
  <1>3. CASE \E c \in Consumers : Die(c)
    BY <1>1, <1>3, DieCalm
  <1>4. CASE Tick
    BY <1>1, <1>4, TickCalm
  <1>5. CASE UNCHANGED vars
    BY <1>5 DEF vars, queueVars, CalmInv, Alone, HandledSettled, EmailsPaid, OwedInv,
       NeverStranded, Job
  <1> QED
    BY <1>1, <1>2, <1>3, <1>4, <1>5, QueueCalm, RowCalm DEF Next, Consume

\* The calm invariant holds of every behaviour.
THEOREM CalmInvariance == Spec => []CalmInv
  BY InitCalm, NextCalm, Invariance, PTL DEF Spec

\* While no handler outlives its visibility timeout, a notification that is not
\* settled has a message left, whatever workers die, for every number of messages,
\* workers, receives and deaths.
THEOREM NeverLost == Spec => []NeverStranded
  <1>1. CalmInv => NeverStranded
    BY DEF CalmInv, NeverStranded
  <1> QED
    BY <1>1, CalmInvariance, PTL

\* While no handler outlives its timeout, every email beyond the first is paid for
\* by the death of a worker.
THEOREM RepeatsPaidFor == Spec => []RepeatsNeedDeaths
  <1>1. CalmInv => RepeatsNeedDeaths
    BY DEF CalmInv, EmailsPaid, RepeatsNeedDeaths
  <1> QED
    BY <1>1, CalmInvariance, PTL
=============================================================================
