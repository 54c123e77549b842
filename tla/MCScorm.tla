------------------------------- MODULE MCScorm -------------------------------
\* One package version: its ingestion message, possibly a second copy of it, and
\* its deletion message.
EXTENDS ScormIngestion, TLC

CONSTANTS v1, ingest1, cleanup1

MCSubject == [m \in Messages |-> v1]
MCFirst == [v \in Versions |-> ingest1]
MCCleanup == [v \in Versions |-> cleanup1]
MCIngest == Messages \ {cleanup1}

WorkerSymmetry == Permutations(Consumers)
==============================================================================
