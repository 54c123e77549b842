--------------------------- MODULE MCNotification ---------------------------
\* One notification, a few copies of its message, two workers.
EXTENDS NotificationDelivery, TLC

CONSTANTS n1, m1

MCSubject == [m \in Messages |-> n1]
MCFirst == [n \in Notifications |-> m1]

Symmetry == Permutations(Consumers) \cup Permutations(Messages \ {m1})
=============================================================================
