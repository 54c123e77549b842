--------------------------- MODULE MCCommunications ---------------------------
\* A reminder of incomplete work and a communication about a missing session.
EXTENDS EventCommunications

CONSTANTS reminder, notice
===============================================================================
