------------------------------ MODULE WorkQueue ------------------------------
(***************************************************************************)
(* The SQS work queue and the worker's consumer                           *)
(* (src/server/queue/sqs.server.ts, scorm-ingestion-consumer.server.ts).  *)
(*                                                                         *)
(* consumeNextWorkMessage receives one message, keeps it hidden with a     *)
(* heartbeat while the handler runs, deletes it when the handler returned  *)
(* and leaves it to its visibility timeout when the handler threw.  What a *)
(* handler does is left to the modules that extend this one; here it may   *)
(* return or throw at any time.  SQS itself (receive counts, visibility,   *)
(* redrive to the dead-letter queue) is external.                          *)
(***************************************************************************)
EXTENDS Naturals

CONSTANTS
    Messages,       \* message copies the dispatchers may send
    Consumers,      \* worker processes
    Visibility,     \* SQS_VISIBILITY_TIMEOUT_SECONDS, in ticks
    MaxReceives,    \* receives after which SQS dead-letters a message
    MaxLate         \* bound: how often the clock overtakes a running handler

ASSUME QueueAssumption ==
    Visibility \in Nat \ {0} /\ MaxReceives \in Nat \ {0} /\ MaxLate \in Nat

VARIABLES
    place,          \* place[m]: "unsent", "queued", "deleted" or "dead"
    hidden,         \* hidden[m]: ticks until m is visible again
    receives,       \* receives[m]: ApproximateReceiveCount
    stage,          \* stage[c]: "idle", "working" or "handled"
    held,           \* held[c]: the message c received
    receipt,        \* receipt[c]: the receive count behind c's receipt handle
    late            \* ticks that passed while a handler was at work

messageVars == <<place, hidden, receives>>
consumerVars == <<stage, held, receipt, late>>
queueVars == <<place, hidden, receives, stage, held, receipt, late>>

NoMessage == "none"

QueueInit ==
    /\ place = [m \in Messages |-> "unsent"]
    /\ hidden = [m \in Messages |-> 0]
    /\ receives = [m \in Messages |-> 0]
    /\ stage = [c \in Consumers |-> "idle"]
    /\ held = [c \in Consumers |-> NoMessage]
    /\ receipt = [c \in Consumers |-> 0]
    /\ late = 0

\* sendQueueMessage: the message becomes visible at once.
Send(m) ==
    /\ place[m] = "unsent"
    /\ place' = [place EXCEPT ![m] = "queued"]
    /\ UNCHANGED <<hidden, receives>> /\ UNCHANGED consumerVars

\* A visible message.
Visible(m) == place[m] = "queued" /\ hidden[m] = 0

\* receiveQueueMessage: one message, hidden for the visibility timeout.
Receive(c, m) ==
    /\ stage[c] = "idle"
    /\ Visible(m) /\ receives[m] < MaxReceives
    /\ hidden' = [hidden EXCEPT ![m] = Visibility]
    /\ receives' = [receives EXCEPT ![m] = @ + 1]
    /\ stage' = [stage EXCEPT ![c] = "working"]
    /\ held' = [held EXCEPT ![c] = m]
    /\ receipt' = [receipt EXCEPT ![c] = receives[m] + 1]
    /\ UNCHANGED <<place, late>>

\* SQS moves a message that was received too often to the dead-letter queue.
DeadLetter(m) ==
    /\ Visible(m) /\ receives[m] = MaxReceives
    /\ place' = [place EXCEPT ![m] = "dead"]
    /\ UNCHANGED <<hidden, receives>> /\ UNCHANGED consumerVars

\* c's receipt handle is the latest one of its message.
Current(c) == receipt[c] = receives[held[c]]

\* The heartbeat restarts the visibility timeout; a failure is only logged, and
\* an outdated receipt handle or a message that is gone changes nothing.
Heartbeat(c) ==
    /\ stage[c] = "working"
    /\ Current(c) /\ place[held[c]] = "queued"
    /\ hidden' = [hidden EXCEPT ![held[c]] = Visibility]
    /\ UNCHANGED <<place, receives>> /\ UNCHANGED consumerVars

\* The handler returned an outcome; the message is still to be deleted.
Handled(c) ==
    /\ stage[c] = "working"
    /\ stage' = [stage EXCEPT ![c] = "handled"]
    /\ UNCHANGED <<held, receipt, late>>

\* c is free for another message.
Free(c) ==
    /\ stage' = [stage EXCEPT ![c] = "idle"]
    /\ held' = [held EXCEPT ![c] = NoMessage]
    /\ receipt' = [receipt EXCEPT ![c] = 0]
    /\ UNCHANGED late

\* The handler threw: the message is left to its visibility timeout.
Thrown(c) == stage[c] = "working" /\ Free(c)

\* deleteQueueMessage: certain with the latest receipt handle, up to SQS with an
\* older one. A throwing delete is a retry: the message stays.
Delete(c) ==
    /\ stage[c] = "handled"
    /\ \/ /\ place[held[c]] = "queued"
          /\ place' = [place EXCEPT ![held[c]] = "deleted"]
       \/ /\ ~Current(c) \/ place[held[c]] # "queued"
          /\ UNCHANGED place
    /\ Free(c)
    /\ UNCHANGED <<hidden, receives>>

\* The worker dies, or the delete request fails.
Abandon(c) ==
    /\ stage[c] # "idle"
    /\ Free(c)
    /\ UNCHANGED messageVars

\* One tick of visibility time for every hidden message; a handler that is at
\* work meanwhile has been overtaken by the clock.
Elapse ==
    /\ hidden' = [m \in Messages |-> IF hidden[m] > 0 THEN hidden[m] - 1 ELSE 0]
    /\ \/ (\A c \in Consumers : stage[c] = "idle") /\ UNCHANGED late
       \/ /\ \E c \in Consumers : stage[c] # "idle"
          /\ late < MaxLate /\ late' = late + 1
    /\ UNCHANGED <<place, receives, stage, held, receipt>>

QueueTypeOK ==
    /\ place \in [Messages -> {"unsent", "queued", "deleted", "dead"}]
    /\ hidden \in [Messages -> 0..Visibility]
    /\ receives \in [Messages -> 0..MaxReceives]
    /\ stage \in [Consumers -> {"idle", "working", "handled"}]
    /\ held \in [Consumers -> Messages \cup {NoMessage}]
    /\ receipt \in [Consumers -> 0..MaxReceives]
    /\ late \in 0..MaxLate
==============================================================================
