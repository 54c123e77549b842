------------------------------ MODULE MCOffline ------------------------------
(***************************************************************************)
(* A small instance of OfflineScorm.                                       *)
(***************************************************************************)
EXTENDS OfflineScorm
=============================================================================
