---------------------------- MODULE MCRegistration ----------------------------
\* Two learners and an event with one region.
EXTENDS EventRegistration

CONSTANTS u1, u2, g1
===============================================================================
