------------------------------- MODULE MCRooms -------------------------------
EXTENDS VirtualRecordings
=============================================================================
