------------------------- MODULE ProviderOperations -------------------------
(***************************************************************************)
(* The durable operations of virtual rooms (event_virtual_room_operation): *)
(* one row per kind, claimed by a worker or by a web request under a       *)
(* two-minute lease and an attempt number, and settled only by the claim   *)
(* that is still the latest one (events/event-virtual-room.server.ts).     *)
(* Back-off and the order in which due operations are picked are left out: *)
(* a pending one may be claimed.  Idle workers are interchangeable, so the *)
(* first idle one takes the next claim.                                    *)
(***************************************************************************)
EXTENDS Naturals, FiniteSets

CONSTANTS NWorkers,   \* processes that run provider operations
          MaxLate,    \* bound: leases that expire under a living worker
          MaxMishaps  \* bound: those, deaths and calls without an answer

ASSUME OperationsAssumption ==
    NWorkers \in Nat \ {0} /\ MaxLate \in Nat /\ MaxMishaps \in Nat

VARIABLES
    op,         \* kind -> state of the row; "leased" and "expired"
                \* are the status processing with a running and a past lease
    job,        \* worker -> the row it claimed
    stage,      \* worker -> where it is; "idle" without a claim
    seen,       \* worker -> what it read before its call
    fenced,     \* workers whose claim is not the latest of their row
    renumbered, \* fenced workers whose row has since started counting anew
    overdue,    \* workers that outlived their lease
    reused,     \* history: a claim has borne the number of one still under way
    late,       \* leases that expired so far under a living worker
    mishaps     \* what went wrong so far

opVars == <<op, job, stage, seen, fenced, renumbered, overdue, reused, late,
            mishaps>>

Workers == 1..NWorkers
Kinds == {"ensure", "start", "stop", "close"}

OpInit ==
    /\ op = [k \in Kinds |-> "none"] /\ job = [w \in Workers |-> "none"]
    /\ stage = [w \in Workers |-> "idle"] /\ seen = [w \in Workers |-> "-"]
    /\ fenced = {} /\ renumbered = {} /\ overdue = {} /\ reused = FALSE
    /\ late = 0 /\ mishaps = 0

Due(k) == op[k] \in {"pending", "expired"}

\* insertRoomOperation and insertRecordingOperation: on conflict do nothing.
Insert(ops, ks) ==
    [k \in Kinds |-> IF k \in ks /\ ops[k] = "none" THEN "pending" ELSE ops[k]]

Rivals(w, k) == {v \in Workers \ {w} : job[v] = k}

Free(w) == stage[w] = "idle" /\ \A v \in Workers : v < w => stage[v] # "idle"

\* A mishap: something goes wrong, within the bound.
Mishap == mishaps < MaxMishaps /\ mishaps' = mishaps + 1

\* claimRoomOperation, and the reads between the claim and the first call.  The
\* next attempt number makes every other claim of the row stale, except one that
\* bears the same number because the row was counted anew in between.
Claim(w, k, next, read) ==
    /\ Free(w)
    /\ op' = [op EXCEPT ![k] = "leased"]
    /\ job' = [job EXCEPT ![w] = k]
    /\ stage' = [stage EXCEPT ![w] = next]
    /\ seen' = [seen EXCEPT ![w] = read]
    /\ \E same \in SUBSET (renumbered \cap Rivals(w, k)) :
          /\ fenced' = (fenced \cup Rivals(w, k)) \ same
          /\ renumbered' = renumbered \ same
          /\ reused' = (reused \/ same # {})
    /\ UNCHANGED <<overdue, late, mishaps>>

\* A claim that is settled by what its first read shows.
ClaimAndSettle(w, k, status) ==
    /\ Free(w)
    /\ op' = [op EXCEPT ![k] = status]
    /\ fenced' = fenced \cup Rivals(w, k)
    /\ UNCHANGED <<job, stage, seen, renumbered, overdue, reused, late, mishaps>>

\* The row is still claimed under w's attempt number.
Mine(w) == w \notin fenced /\ op[job[w]] \in {"leased", "expired"}

\* w gives its claim up and the rows are as ops says.
Leave(w, ops) ==
    /\ op' = ops
    /\ stage' = [stage EXCEPT ![w] = "idle"]
    /\ job' = [job EXCEPT ![w] = "none"] /\ seen' = [seen EXCEPT ![w] = "-"]
    /\ fenced' = fenced \ {w} /\ renumbered' = renumbered \ {w}
    /\ overdue' = overdue \ {w} /\ UNCHANGED <<reused, late>>

\* completeRoomOperation, retryRoomOperation and the like: an update fenced by the
\* status and the attempt number.
Settled(w, status) == IF Mine(w) THEN [op EXCEPT ![job[w]] = status] ELSE op

\* w goes on to its next step with its claim.
Advance(w, next, read) ==
    /\ stage' = [stage EXCEPT ![w] = next] /\ seen' = [seen EXCEPT ![w] = read]
    /\ UNCHANGED <<op, job, fenced, renumbered, overdue, reused, late>>

Holders(k) == {w \in Workers : job[w] = k /\ w \notin fenced}

\* A lease expires: the row can be claimed again, although its worker may be alive.
LeaseExpires(k) ==
    /\ op[k] = "leased" /\ op' = [op EXCEPT ![k] = "expired"]
    /\ IF Holders(k) = {} THEN UNCHANGED <<late, mishaps>>
       ELSE late < MaxLate /\ late' = late + 1 /\ Mishap
    /\ overdue' = overdue \cup Holders(k)
    /\ UNCHANGED <<job, stage, seen, fenced, renumbered, reused>>

Die(w) == stage[w] # "idle" /\ Mishap /\ Leave(w, op)
=============================================================================
