------------------------------ MODULE MCOutbox ------------------------------
\* Three rows: an old one whose payload is malformed, one for the audit log and
\* one that SCORM removal may withdraw.
EXTENDS Outbox
=============================================================================
