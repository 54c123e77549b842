---------------------------- MODULE AttemptWriter ----------------------------
(***************************************************************************)
(* What the delegation of a SCORM attempt to a device promises             *)
(* (docs/adr/0042): at any time one writer, the online player or one       *)
(* offline entitlement, holds the attempt, which changes hands under       *)
(* a new epoch; and the evidence a device records is applied in its order, *)
(* each entry once, without gaps.                                          *)
(***************************************************************************)
EXTENDS Naturals, Sequences

CONSTANTS
    Entitlements,
    Snapshots    \* values of the progress: records with completion and total time

VARIABLES
    writer,      \* the entitlement that holds the attempt, or 0
    epoch,       \* how often the holder has changed
    snap,        \* the progress of the attempt: completion and total time
    evidence,    \* evidence[e]: the progress recorded under entitlement e
    taken        \* taken[e]: how many entries of it have been applied

writerVars == <<writer, epoch, snap, evidence, taken>>

Init ==
    /\ writer = 0 /\ epoch = 0
    /\ snap = [done |-> FALSE, time |-> 0]
    /\ evidence = [e \in Entitlements |-> << >>]
    /\ taken = [e \in Entitlements |-> 0]

\* The online player saves progress; completion is not taken back.
Online ==
    /\ writer = 0
    /\ \E s \in Snapshots :
          /\ snap.done => s.done
          /\ snap' = s
    /\ UNCHANGED <<writer, epoch, evidence, taken>>

Delegate(e) ==
    /\ writer = 0 /\ evidence[e] = << >>
    /\ writer' = e /\ epoch' = epoch + 1
    /\ UNCHANGED <<snap, evidence, taken>>

\* The device extends its evidence, whether or not it still holds the attempt.
Record(e) ==
    /\ \E s \in Snapshots :
          evidence' = [evidence EXCEPT ![e] = Append(@, s)]
    /\ UNCHANGED <<writer, epoch, snap, taken>>

\* The next entries of the holder are applied, up to the n-th one.
Offline ==
    /\ writer # 0
    /\ \E n \in (taken[writer] + 1)..Len(evidence[writer]) :
          /\ taken' = [taken EXCEPT ![writer] = n]
          /\ snap' = evidence[writer][n]
    /\ UNCHANGED <<writer, epoch, evidence>>

Return ==
    /\ writer # 0
    /\ writer' = 0 /\ epoch' = epoch + 1
    /\ UNCHANGED <<snap, evidence, taken>>

Next ==
    \/ Online \/ Offline \/ Return
    \/ \E e \in Entitlements : Delegate(e) \/ Record(e)

Spec == Init /\ [][Next]_writerVars
=============================================================================
