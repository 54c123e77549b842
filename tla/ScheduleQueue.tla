---------------------------- MODULE ScheduleQueue ----------------------------
(***************************************************************************)
(* The tables event_communication_schedule and                             *)
(* event_operational_communication_schedule and the worker that claims     *)
(* their rows (src/server/notifications).                                  *)
(*                                                                         *)
(* The two tables and their claim, completion and retry are the same; what *)
(* a due schedule does is left to the modules that extend this one.  A     *)
(* schedule is <<l, i>>, revision i of the logical schedule l.  A worker   *)
(* claims a row in one transaction, which counts the attempt and starts a  *)
(* lease, and does the work in a second one, which locks the row and goes  *)
(* on only if the row still carries that attempt.                          *)
(***************************************************************************)
EXTENDS Naturals

CONSTANTS
    Logical,         \* logicalIds
    MaxRevisions,    \* bound: revisions of one logical schedule
    Workers,
    MaxAttempts,     \* MAX_SCHEDULE_ATTEMPTS
    MaxLate,         \* bound: leases that run out under a live worker
    MaxFaults        \* bound: worker deaths and lost commit answers

ASSUME ScheduleAssumption ==
    /\ MaxRevisions \in Nat /\ MaxAttempts \in Nat \ {0}
    /\ MaxLate \in Nat /\ MaxFaults \in Nat

Schedules == Logical \X (1..MaxRevisions)

VARIABLES
    status,          \* status[s], or "absent"
    attempts,        \* attempts[s]
    ready,           \* schedules whose dueAt and availableAt have come
    at,              \* at[w]: "idle", "claimed" or "failing"
    job,             \* job[w]: the schedule w claimed
    claimed,         \* claimed[w]: the attempt w claimed it with
    late,            \* leases that ran out under a live worker so far
    faults           \* deaths and lost answers so far

rowVars == <<status, attempts, ready>>
workerVars == <<at, job, claimed>>
faultVars == <<late, faults>>
scheduleVars == <<status, attempts, ready, at, job, claimed, late, faults>>

Active == {"pending", "processing"}
NoJob == <<>>

ScheduleInit ==
    /\ status = [s \in Schedules |-> "absent"]
    /\ attempts = [s \in Schedules |-> 0]
    /\ ready = {}
    /\ at = [w \in Workers |-> "idle"]
    /\ job = [w \in Workers |-> NoJob]
    /\ claimed = [w \in Workers |-> 0]
    /\ late = 0 /\ faults = 0

-----------------------------------------------------------------------------
\* What administrative transactions do to the rows.

ActiveOf(l) == {s \in Schedules : s[1] = l /\ status[s] \in Active}
Completed(l) == \E s \in Schedules : s[1] = l /\ status[s] = "completed"
Unused(l) == {s \in Schedules : s[1] = l /\ status[s] = "absent"}

\* The next revision of l.
NextRevision(l) ==
    CHOOSE s \in Unused(l) : \A t \in Unused(l) : s[2] <= t[2]

\* The rows with those of S superseded and those of N inserted, pending and with
\* no attempts; the dueAt of the ones in D has passed already.
Rewrite(S, N, D) ==
    /\ status' = [s \in Schedules |-> IF s \in S THEN "superseded"
                                      ELSE IF s \in N THEN "pending" ELSE status[s]]
    /\ attempts' = [s \in Schedules |-> IF s \in N THEN 0 ELSE attempts[s]]
    /\ ready' = (ready \ S) \cup (N \cap D)

-----------------------------------------------------------------------------
\* The worker.

Idle(w) ==
    /\ at' = [at EXCEPT ![w] = "idle"]
    /\ job' = [job EXCEPT ![w] = NoJob]
    /\ claimed' = [claimed EXCEPT ![w] = 0]

\* Mutant: a row whose worker died is not taken over.
ClaimPendingOnly(w, s) ==
    /\ at[w] = "idle"
    /\ status[s] = "pending" /\ s \in ready
    /\ status' = [status EXCEPT ![s] = "processing"]
    /\ attempts' = [attempts EXCEPT ![s] = @ + 1]
    /\ ready' = ready \ {s}
    /\ at' = [at EXCEPT ![w] = "claimed"]
    /\ job' = [job EXCEPT ![w] = s]
    /\ claimed' = [claimed EXCEPT ![w] = attempts[s] + 1]
    /\ UNCHANGED faultVars

\* The claiming transaction: FOR UPDATE SKIP LOCKED, one more attempt, a lease.
Claim(w, s) ==
    /\ at[w] = "idle"
    /\ status[s] \in Active /\ s \in ready
    /\ status' = [status EXCEPT ![s] = "processing"]
    /\ attempts' = [attempts EXCEPT ![s] = @ + 1]
    /\ ready' = ready \ {s}
    /\ at' = [at EXCEPT ![w] = "claimed"]
    /\ job' = [job EXCEPT ![w] = s]
    /\ claimed' = [claimed EXCEPT ![w] = attempts[s] + 1]
    /\ UNCHANGED faultVars

\* The row is still w's: processing, with the attempt that w counted.
Held(w) ==
    status[job[w]] = "processing" /\ attempts[job[w]] = claimed[w]

\* The second transaction finds the row superseded or claimed by another.
GiveUp(w) ==
    /\ at[w] = "claimed" /\ ~Held(w)
    /\ Idle(w)
    /\ UNCHANGED rowVars /\ UNCHANGED faultVars

\* The transaction commits; its answer may be lost, which the worker takes for a
\* failure.
Commits(w) ==
    \/ Idle(w) /\ UNCHANGED faultVars
    \/ /\ faults < MaxFaults /\ faults' = faults + 1
       /\ at' = [at EXCEPT ![w] = "failing"]
       /\ UNCHANGED <<job, claimed, late>>

\* The second transaction ends with the schedule completed.
Complete(w) ==
    /\ at[w] = "claimed" /\ Held(w)
    /\ status' = [status EXCEPT ![job[w]] = "completed"]
    /\ Commits(w)
    /\ UNCHANGED <<attempts, ready>>

\* Mutant: a deferral starts the count again.
DeferAfresh(w) ==
    /\ at[w] = "claimed" /\ Held(w)
    /\ status' = [status EXCEPT ![job[w]] = "pending"]
    /\ attempts' = [attempts EXCEPT ![job[w]] = 0]
    /\ Commits(w)
    /\ UNCHANGED ready

\* It ends with the schedule put off: the attempt is given back.
Defer(w) ==
    /\ at[w] = "claimed" /\ Held(w)
    /\ status' = [status EXCEPT ![job[w]] = "pending"]
    /\ attempts' = [attempts EXCEPT ![job[w]] = claimed[w] - 1]
    /\ Commits(w)
    /\ UNCHANGED ready

\* It throws and is rolled back.
Throw(w) ==
    /\ at[w] = "claimed" /\ Held(w)
    /\ at' = [at EXCEPT ![w] = "failing"]
    /\ UNCHANGED <<job, claimed>> /\ UNCHANGED rowVars /\ UNCHANGED faultVars

\* The catch block: back-off, or failed with the last attempt; the UPDATE is
\* conditional on the attempt.
Fail(w) ==
    /\ at[w] = "failing"
    /\ IF Held(w)
       THEN status' = [status EXCEPT ![job[w]] =
                          IF claimed[w] >= MaxAttempts THEN "failed" ELSE "pending"]
       ELSE UNCHANGED status
    /\ Idle(w)
    /\ UNCHANGED <<attempts, ready>> /\ UNCHANGED faultVars

\* The worker dies between its transactions.
Die(w) ==
    /\ at[w] # "idle"
    /\ faults < MaxFaults /\ faults' = faults + 1
    /\ Idle(w)
    /\ UNCHANGED late /\ UNCHANGED rowVars

\* A live worker holds the latest attempt of s.
Leased(s) ==
    \E w \in Workers : at[w] # "idle" /\ job[w] = s /\ Held(w)

\* dueAt, the end of a back-off or a deferral, or the end of a lease comes.
Becomes(s) ==
    /\ status[s] \in Active /\ s \notin ready
    /\ ready' = ready \cup {s}
    /\ \/ ~Leased(s) /\ UNCHANGED late
       \/ Leased(s) /\ late < MaxLate /\ late' = late + 1
    /\ UNCHANGED <<status, attempts, faults>> /\ UNCHANGED workerVars

-----------------------------------------------------------------------------
ScheduleTypeOK ==
    /\ status \in [Schedules -> {"absent", "pending", "processing", "completed",
                                 "failed", "superseded"}]
    /\ attempts \in [Schedules -> Nat]
    /\ ready \subseteq Schedules
    /\ at \in [Workers -> {"idle", "claimed", "failing"}]
    /\ job \in [Workers -> Schedules \cup {NoJob}]
    /\ claimed \in [Workers -> Nat]
    /\ late \in 0..MaxLate /\ faults \in 0..MaxFaults

\* The attempt fences: two workers that may still do the work of one schedule have
\* claimed it with different attempts, although a deferral gives attempts back and
\* leases run out under live workers; so at most one of them finds the row its own.
OneHolder ==
    \A v, w \in Workers :
        v # w /\ at[v] = "claimed" /\ at[w] = "claimed" /\ job[v] = job[w] =>
            claimed[v] # claimed[w]

\* No logical schedule is active twice, so no reschedule leaves a stale row behind.
OneActive ==
    \A s, t \in Schedules :
        s[1] = t[1] /\ status[s] \in Active /\ status[t] \in Active => s = t
==============================================================================
