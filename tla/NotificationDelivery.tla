------------------------ MODULE NotificationDelivery ------------------------
(***************************************************************************)
(* Email notifications: deliverNotification                                *)
(* (src/server/notifications/notification-delivery.server.ts) run by the   *)
(* consumers of WorkQueue, with the transactions that requeue and that     *)
(* supersede a notification beside it.                                     *)
(*                                                                         *)
(* Every await of the handler is a step of its own.  The notification row  *)
(* is read once at the start; its attempts value is used by a later UPDATE *)
(* that only checks the status.  A processing row may be taken over when   *)
(* its updatedAt is one visibility timeout old (age = Visibility).         *)
(***************************************************************************)
EXTENDS WorkQueue, FiniteSets

CONSTANTS
    Notifications,
    Subject,         \* Subject[m]: the notification message m asks to deliver
    MaxDeaths,       \* bound: how often workers die
    First            \* First[n]: the message of the outbox row n was stored with

ASSUME SubjectAssumption ==
    /\ Subject \in [Messages -> Notifications]
    /\ First \in [Notifications -> Messages]
    /\ \A n \in Notifications : Subject[First[n]] = n
    /\ MaxDeaths \in Nat

VARIABLES
    status,          \* status[n]
    attempts,        \* attempts[n]
    age,             \* age[n]: ticks since updatedAt, up to Visibility
    applicable,      \* applicable[n]: its subject still warrants the email
    emails,          \* emails[n]: emails the provider accepted
    history,         \* history[n]: the attempts in notification_delivery_attempt
    owed,            \* messages whose outbox row is stored
    deaths,          \* workers that died so far
    at,              \* at[c]: where c is in deliverNotification
    seen             \* seen[c]: attempts as c read it

rowVars == <<status, attempts, age, history>>
handlerVars == <<at, seen>>
vars == <<queueVars, status, attempts, age, applicable, emails, history, owed,
          deaths, at, seen>>

Statuses == {"absent", "pending", "processing", "delivered", "failed",
             "superseded", "unknown"}
\* The statuses on which the handler returns without doing anything.
Terminal == {"delivered", "superseded", "unknown"}

Init ==
    /\ QueueInit
    /\ status = [n \in Notifications |-> "absent"]
    /\ attempts = [n \in Notifications |-> 0]
    /\ age = [n \in Notifications |-> 0]
    /\ applicable = [n \in Notifications |-> TRUE]
    /\ emails = [n \in Notifications |-> 0]
    /\ history = [n \in Notifications |-> {}]
    /\ owed = {}
    /\ deaths = 0
    /\ at = [c \in Consumers |-> "start"]
    /\ seen = [c \in Consumers |-> 0]

Job(c) == Subject[held[c]]

\* The handler moves on.
Goto(c, p) == at' = [at EXCEPT ![c] = p] /\ UNCHANGED seen
Continue(c, p) == stage[c] = "working" /\ Goto(c, p) /\ UNCHANGED queueVars

\* The handler is over.
Reset(c) ==
    /\ at' = [at EXCEPT ![c] = "start"]
    /\ seen' = [seen EXCEPT ![c] = 0]
Returns(c) == Handled(c) /\ Reset(c) /\ UNCHANGED messageVars
Throws(c) == Thrown(c) /\ Reset(c) /\ UNCHANGED messageVars

\* The row as an UPDATE of updatedAt leaves it.
SetRow(n, s) ==
    /\ status' = [status EXCEPT ![n] = s]
    /\ age' = [age EXCEPT ![n] = 0]

\* UPDATE ... WHERE status = 'processing'.
SetIfProcessing(n, s) ==
    \/ status[n] = "processing" /\ SetRow(n, s)
    \/ status[n] # "processing" /\ UNCHANGED <<status, age>>

\* INSERT of the delivery attempt, ON CONFLICT (notificationId, attempt) DO NOTHING;
\* of the row only its key is kept.
RecordAttempt(n, a) == history' = [history EXCEPT ![n] = @ \cup {a}]

-----------------------------------------------------------------------------
\* The row is read without a lock; a settled notification needs no delivery.
Read(c) ==
    /\ stage[c] = "working" /\ at[c] = "start"
    /\ \/ status[Job(c)] \in Terminal /\ Returns(c)
       \/ /\ status[Job(c)] \notin Terminal
          /\ at' = [at EXCEPT ![c] = "read"]
          /\ seen' = [seen EXCEPT ![c] = attempts[Job(c)]]
          /\ UNCHANGED queueVars
    /\ UNCHANGED <<status, attempts, age, applicable, emails, history, owed, deaths>>

Claimable(n) ==
    \/ status[n] \in {"pending", "failed"}
    \/ status[n] = "processing" /\ age[n] = Visibility

\* Mutant: the claiming UPDATE checks no status.
ClaimAlways(c) ==
    /\ at[c] = "read"
    /\ SetRow(Job(c), "processing")
    /\ attempts' = [attempts EXCEPT ![Job(c)] = seen[c] + 1]
    /\ Continue(c, "claimed")
    /\ UNCHANGED <<applicable, emails, history, owed, deaths>>

\* The conditional UPDATE that claims the notification; it writes the attempt
\* number computed from the earlier read.
Claim(c) ==
    /\ at[c] = "read"
    /\ \/ /\ Claimable(Job(c))
          /\ SetRow(Job(c), "processing")
          /\ attempts' = [attempts EXCEPT ![Job(c)] = seen[c] + 1]
          /\ Continue(c, "claimed")
       \/ /\ ~Claimable(Job(c))
          /\ Continue(c, "refused")
          /\ UNCHANGED <<status, attempts, age>>
    /\ UNCHANGED <<applicable, emails, history, owed, deaths>>

\* A refused claim looks again: settled meanwhile, or EMAIL_DELIVERY_IN_PROGRESS.
Recheck(c) ==
    /\ at[c] = "refused"
    /\ \/ status[Job(c)] \in Terminal /\ Returns(c)
       \/ status[Job(c)] \notin Terminal /\ Throws(c)
    /\ UNCHANGED <<status, attempts, age, applicable, emails, history, owed, deaths>>

\* The applicability check: a notification whose subject has moved on is
\* superseded (late invitation, Event and Course templates alike).
Check(c) ==
    /\ at[c] = "claimed"
    /\ \/ /\ applicable[Job(c)]
          /\ Continue(c, "checked")
          /\ UNCHANGED <<status, age>>
       \/ /\ ~applicable[Job(c)]
          /\ SetIfProcessing(Job(c), "superseded")
          /\ Returns(c)
    /\ UNCHANGED <<attempts, applicable, emails, history, owed, deaths>>

\* The rendered email is stored while the row is still processing.
Render(c) ==
    /\ at[c] = "checked"
    /\ SetIfProcessing(Job(c), "processing")
    /\ Continue(c, "rendered")
    /\ UNCHANGED <<attempts, applicable, emails, history, owed, deaths>>

\* The provider accepts the email.
ProviderAccepts(c) ==
    /\ at[c] = "rendered"
    /\ emails' = [emails EXCEPT ![Job(c)] = @ + 1]
    /\ Continue(c, "accepted")
    /\ UNCHANGED <<status, attempts, age, applicable, history, owed, deaths>>

\* EMAIL_PROVIDER_REJECTED, or an error before the send (payload, rendering).
DeliveryFails(c) ==
    /\ at[c] \in {"claimed", "checked", "rendered"}
    /\ Continue(c, "failing")
    /\ UNCHANGED <<status, attempts, age, applicable, emails, history, owed, deaths>>

\* EMAIL_PROVIDER_REQUEST_FAILED: the request may or may not have been accepted.
ProviderUnclear(c) ==
    /\ at[c] = "rendered"
    /\ \/ emails' = [emails EXCEPT ![Job(c)] = @ + 1]
       \/ UNCHANGED emails
    /\ Continue(c, "unsure")
    /\ UNCHANGED <<status, attempts, age, applicable, history, owed, deaths>>

\* The transaction that records the delivery; with the row no longer processing
\* only the attempt is recorded, and the handler returns "superseded".
Record(c) ==
    /\ at[c] = "accepted"
    /\ RecordAttempt(Job(c), seen[c] + 1)
    /\ SetIfProcessing(Job(c), "delivered")
    /\ Returns(c)
    /\ UNCHANGED <<attempts, applicable, emails, owed, deaths>>

\* That transaction throws: the email is out, so the outcome is ambiguous.
RecordThrows(c) ==
    /\ at[c] = "accepted"
    /\ Continue(c, "unsure")
    /\ UNCHANGED <<status, attempts, age, applicable, emails, history, owed, deaths>>

\* Mutant: a definite failure returns instead of rethrowing, and is forgotten.
FailSwallowed(c) ==
    /\ at[c] \in {"failing", "unsure"}
    /\ RecordAttempt(Job(c), seen[c] + 1)
    /\ Returns(c)
    /\ UNCHANGED <<status, age, attempts, applicable, emails, owed, deaths>>

\* Mutant: the catch block's UPDATE checks no status.
FailUnguarded(c) ==
    /\ at[c] \in {"failing", "unsure"}
    /\ RecordAttempt(Job(c), seen[c] + 1)
    /\ \/ at[c] = "failing" /\ SetRow(Job(c), "failed") /\ Throws(c)
       \/ at[c] = "unsure" /\ SetRow(Job(c), "unknown") /\ Returns(c)
    /\ UNCHANGED <<attempts, applicable, emails, owed, deaths>>

\* The catch block: an ambiguous outcome is kept as unknown and never retried,
\* a definite one is failed and rethrown for redelivery.
Fail(c) ==
    /\ \/ /\ at[c] = "failing"
          /\ RecordAttempt(Job(c), seen[c] + 1)
          /\ SetIfProcessing(Job(c), "failed")
          /\ Throws(c)
       \/ /\ at[c] = "unsure"
          /\ RecordAttempt(Job(c), seen[c] + 1)
          /\ SetIfProcessing(Job(c), "unknown")
          /\ Returns(c)
    /\ UNCHANGED <<attempts, applicable, emails, owed, deaths>>

\* The catch block's transaction throws, or the worker dies.
Die(c) ==
    /\ deaths < MaxDeaths /\ deaths' = deaths + 1
    /\ Abandon(c) /\ Reset(c)
    /\ UNCHANGED <<status, attempts, age, applicable, emails, history, owed>>

-----------------------------------------------------------------------------
Quiet == UNCHANGED <<status, attempts, age, applicable, emails, history, owed, deaths>>

\* enqueueEmailNotification: the row and its outbox row are inserted together; a
\* repeated deduplication key inserts neither.
Enqueue(n) ==
    /\ status[n] = "absent"
    /\ SetRow(n, "pending")
    /\ owed' = owed \cup {First[n]}
    /\ UNCHANGED <<attempts, applicable, emails, history, deaths>>
    /\ UNCHANGED queueVars /\ UNCHANGED handlerVars

\* The outbox hands a message over: once for every stored row, and again when a
\* dispatcher repeats itself.
Dispatch(m) ==
    /\ m \in owed
    /\ Send(m)
    /\ Quiet /\ UNCHANGED handlerVars

DuplicateDispatch(m) ==
    /\ m \notin owed
    /\ \E x \in owed : Subject[x] = Subject[m]
    /\ owed' = owed \cup {m}
    /\ UNCHANGED <<status, attempts, age, applicable, emails, history, deaths>>
    /\ UNCHANGED queueVars /\ UNCHANGED handlerVars

ReceiveMessage(c, m) ==
    /\ Receive(c, m)
    /\ Quiet /\ UNCHANGED handlerVars

RedriveMessage(m) ==
    /\ DeadLetter(m)
    /\ Quiet /\ UNCHANGED handlerVars

HeartbeatMessage(c) ==
    /\ Heartbeat(c)
    /\ Quiet /\ UNCHANGED handlerVars

DeleteMessage(c) ==
    /\ Delete(c)
    /\ Quiet /\ UNCHANGED handlerVars

\* requeueFailedNotification: failed only, with a new outbox row.
Requeue(n, m) ==
    /\ status[n] = "failed"
    /\ Subject[m] = n /\ m \notin owed
    /\ SetRow(n, "pending")
    /\ owed' = owed \cup {m}
    /\ UNCHANGED <<attempts, applicable, emails, history, deaths>>
    /\ UNCHANGED queueVars /\ UNCHANGED handlerVars

\* refreshAccountSetupRequest supersedes what was not delivered.
Supersede(n) ==
    /\ status[n] \in {"pending", "processing", "failed"}
    /\ SetRow(n, "superseded")
    /\ UNCHANGED <<attempts, applicable, emails, history, owed, deaths>>
    /\ UNCHANGED queueVars /\ UNCHANGED handlerVars

\* The subject of the notification moves on (cancelled, expired, completed).
BecomesInapplicable(n) ==
    /\ applicable[n]
    /\ applicable' = [applicable EXCEPT ![n] = FALSE]
    /\ UNCHANGED <<status, attempts, age, emails, history, owed, deaths>>
    /\ UNCHANGED queueVars /\ UNCHANGED handlerVars

\* Time passes for hidden messages and for the age of processing rows.
Tick ==
    /\ \/ \E m \in Messages : hidden[m] > 0
       \/ \E n \in Notifications : status[n] = "processing" /\ age[n] < Visibility
    /\ Elapse
    /\ age' = [n \in Notifications |->
                  IF status[n] = "processing" /\ age[n] < Visibility
                  THEN age[n] + 1 ELSE age[n]]
    /\ UNCHANGED <<status, attempts, applicable, emails, history, owed, deaths>>
    /\ UNCHANGED handlerVars

DeliverNotification(c) ==
    \/ Read(c) \/ Claim(c) \/ Recheck(c) \/ Check(c) \/ Render(c)
    \/ ProviderAccepts(c) \/ DeliveryFails(c) \/ ProviderUnclear(c)
    \/ Record(c) \/ RecordThrows(c) \/ Fail(c)

Consume(c) ==
    \/ \E m \in Messages : ReceiveMessage(c, m)
    \/ DeliverNotification(c) \/ DeleteMessage(c)

Next ==
    \/ \E c \in Consumers : Consume(c) \/ HeartbeatMessage(c) \/ Die(c)
    \/ \E m \in Messages : Dispatch(m) \/ DuplicateDispatch(m) \/ RedriveMessage(m)
    \/ \E n \in Notifications : Enqueue(n) \/ Supersede(n)
                              \/ BecomesInapplicable(n)
    \/ \E n \in Notifications, m \in Messages : Requeue(n, m)
    \/ Tick

Spec == Init /\ [][Next]_vars

(***************************************************************************)
(* Fairness: the worker loop keeps consuming and its calls return, the     *)
(* dispatchers hand over what is stored (Outbox, EventuallyProcessed), SQS *)
(* redrives, time passes.  Deaths are bounded by the receive limit.        *)
(***************************************************************************)
Fairness ==
    /\ \A c \in Consumers : WF_vars(Consume(c))
    /\ \A m \in Messages : WF_vars(Dispatch(m)) /\ WF_vars(RedriveMessage(m))
    /\ WF_vars(Tick)

FairSpec == Spec /\ Fairness

(***************************************************************************)
(* Properties                                                              *)
(***************************************************************************)
\* Types of the rows, the handlers and the queue.
TypeOK ==
    /\ QueueTypeOK
    /\ status \in [Notifications -> Statuses]
    /\ attempts \in [Notifications -> Nat]
    /\ age \in [Notifications -> 0..Visibility]
    /\ applicable \in [Notifications -> BOOLEAN]
    /\ emails \in [Notifications -> Nat]
    /\ history \in [Notifications -> SUBSET Nat]
    /\ owed \subseteq Messages
    /\ at \in [Consumers -> {"start", "read", "claimed", "refused", "checked",
                             "rendered", "accepted", "failing", "unsure"}]
    /\ seen \in [Consumers -> Nat]
    /\ deaths \in 0..MaxDeaths

\* A settled notification stays settled: no late worker, takeover, requeue or
\* duplicate message reopens a delivered, superseded or unknown one, so an
\* ambiguous delivery is never repeated by a new claim.
SettledIsFinal ==
    [][\A n \in Notifications :
          status[n] \in Terminal =>
              status'[n] = status[n] /\ attempts'[n] = attempts[n]]_vars

\* A notification is only reported delivered when the provider accepted an email.
DeliveredWasEmailed ==
    \A n \in Notifications : status[n] = "delivered" => emails[n] > 0

\* No outcome without evidence: a delivered, failed or unknown notification has a
\* delivery attempt on record, although duplicates may share its number.
OutcomeRecorded ==
    \A n \in Notifications :
        status[n] \in {"delivered", "failed", "unknown"} => history[n] # {}

\* "delete messages only after terminal success", while no handler outlives its
\* timeout: a notification that waits, is being processed or has failed has a
\* message that is still to be sent, in the queue or in the dead-letter queue.
NeverStranded ==
    \A n \in Notifications :
        late = 0 /\ status[n] \in {"pending", "processing", "failed"} =>
            \E m \in owed : Subject[m] = n /\ place[m] # "deleted"

\* Every notification is settled or failed in the end, unless its message ran out
\* of receives and waits in the dead-letter queue, or a handler was overtaken.
EventuallySettled ==
    \A n \in Notifications :
        <>[](\/ status[n] \notin {"pending", "processing"}
             \/ late > 0
             \/ \E m \in Messages : Subject[m] = n /\ place[m] = "dead")

\* While no handler is overtaken an email is only repeated when a worker died
\* between the provider's acceptance and the recording transaction: every further
\* email is paid for by a death, however many messages, failures and requeues.
RepeatsNeedDeaths == \A n \in Notifications : late = 0 => emails[n] <= 1 + deaths
=============================================================================
