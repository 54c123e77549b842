------------------------------- MODULE Handoff -------------------------------
(***************************************************************************)
(* What the transactional outbox promises to the rest of the system:      *)
(* at-least-once hand-over.  An event that a domain transaction stored is *)
(* handed to its consumer (the SQS work queue, or the audit log) one or   *)
(* more times, and is only recorded as done once it has been handed over. *)
(***************************************************************************)
EXTENDS Naturals

CONSTANT Events            \* the outbox rows

VARIABLES
    stored,                \* the events whose producing transaction committed
    copies,                \* copies[e]: how often e was handed over
    withdrawn,             \* the events their producer took back
    done                   \* the events that will not be handed over on purpose

handoffVars == <<stored, copies, withdrawn, done>>

HInit ==
    /\ stored = {}
    /\ copies = [e \in Events |-> 0]
    /\ withdrawn = {}
    /\ done = {}

\* A domain transaction commits together with its outbox row.
HStore(e) ==
    /\ e \notin stored
    /\ stored' = stored \cup {e}
    /\ UNCHANGED <<copies, withdrawn, done>>

\* One more copy reaches the consumer. A late dispatcher may still hand over an
\* event that another one has already completed.
HHand(e) ==
    /\ e \in stored
    /\ copies' = [copies EXCEPT ![e] = @ + 1]
    /\ UNCHANGED <<stored, withdrawn, done>>

\* The row is completed: only after a copy was handed over.
HDone(e) ==
    /\ e \in stored \ (withdrawn \cup done)
    /\ copies[e] > 0
    /\ done' = done \cup {e}
    /\ UNCHANGED <<stored, copies, withdrawn>>

\* A later transaction takes the event back before it was completed.
HWithdraw(e) ==
    /\ e \in stored \ (withdrawn \cup done)
    /\ withdrawn' = withdrawn \cup {e}
    /\ UNCHANGED <<stored, copies, done>>

HNext ==
    \E e \in Events : HStore(e) \/ HHand(e) \/ HDone(e) \/ HWithdraw(e)

HSpec == HInit /\ [][HNext]_handoffVars
==============================================================================
