------------------------------- MODULE Outbox -------------------------------
(***************************************************************************)
(* The transactional outbox and its dispatchers                           *)
(* (src/server/outbox/outbox-dispatcher.server.ts).                       *)
(*                                                                         *)
(* Domain transactions insert outbox_event rows; every worker process runs *)
(* dispatchNextOutboxEvent in a loop.  The claim is a transaction that     *)
(* locks the due rows (FOR UPDATE SKIP LOCKED), takes the oldest, counts   *)
(* the attempt and pushes availableAt one lease ahead.  The hand-over (an  *)
(* SQS send, or an audit log line) happens outside the transaction, and    *)
(* the completion or the back-off is a single UPDATE fenced by the attempt *)
(* number the claim read.                                                  *)
(*                                                                         *)
(* Time is relative: wait[e] is what is left until availableAt[e], in      *)
(* ticks.  Rows are numbered in createdAt order and may commit in any      *)
(* order.                                                                  *)
(***************************************************************************)
EXTENDS Naturals, FiniteSets

CONSTANTS
    Events,          \* outbox rows, as numbers in createdAt order
    Audit,           \* rows of the audit-log topic
    Malformed,       \* rows whose payload does not parse or match its aggregate
    Undispatched,    \* rows of a topic that is not dispatchable
    Withdrawable,    \* rows a later transaction may delete (SCORM ingestion)
    Dispatchers,     \* worker processes
    Lease,           \* OUTBOX_LEASE_MILLISECONDS, in ticks
    BaseDelay,       \* the first back-off, 30 s, in ticks
    Horizon,         \* the farthest availableAt a producer asks for, in ticks
    FirstDelays,     \* the delays with which a producer may store a row
    MaxAttempts      \* bound: claims of one row

ASSUME EventsAssumption ==
    /\ Events \subseteq Nat \ {0}
    /\ Audit \subseteq Events /\ Malformed \subseteq Events
    /\ Undispatched \subseteq Events /\ Withdrawable \subseteq Events
ASSUME TimesAssumption ==
    /\ Lease \in Nat \ {0} /\ BaseDelay \in Nat \ {0}
    /\ Horizon \in Nat /\ Lease <= Horizon
    /\ FirstDelays \subseteq 0..Horizon /\ MaxAttempts \in Nat
ASSUME DelaysAssumption ==
    \A n \in 1..MaxAttempts : BaseDelay * 2^(n - 1) \in Nat

VARIABLES
    stored,      \* rows whose transaction committed
    withdrawn,   \* rows deleted before they were processed
    processed,   \* rows with processedAt set
    attempts,    \* attempts[e]
    wait,        \* ticks until availableAt[e]
    handed,      \* handed[e]: copies sent to the queue or written to the log
    pc,          \* pc[d]: where dispatcher d is in dispatchNextOutboxEvent
    job,         \* job[d]: the row d selected
    token,       \* token[d]: claimAttempt, the fence of d's updates
    locks        \* locks[d]: rows locked by d's open claim transaction

rowVars == <<stored, withdrawn, processed, attempts, wait, handed>>
dispatcherVars == <<pc, job, token, locks>>
vars == <<stored, withdrawn, processed, attempts, wait, handed, pc, job, token, locks>>

Min2(a, b) == IF a < b THEN a ELSE b

\* No row: what job holds while a dispatcher is idle.
None == 0

\* delaySeconds: doubles with the claim number, never above the lease.
Backoff(n) == Min2(BaseDelay * 2^(n - 1), Lease)

Init ==
    /\ stored = {} /\ withdrawn = {} /\ processed = {}
    /\ attempts = [e \in Events |-> 0]
    /\ wait = [e \in Events |-> 0]
    /\ handed = [e \in Events |-> 0]
    /\ pc = [d \in Dispatchers |-> "idle"]
    /\ job = [d \in Dispatchers |-> None]
    /\ token = [d \in Dispatchers |-> 0]
    /\ locks = [d \in Dispatchers |-> {}]

\* Rows some dispatcher other than d holds locked.
LockedByOthers(d) == UNION {locks[x] : x \in Dispatchers \ {d}}

\* Rows the claim query selects and can lock (within the bound on claims).
Due(d) ==
    {e \in stored \ (withdrawn \cup processed \cup Undispatched
                    \cup LockedByOthers(d)) :
        wait[e] = 0 /\ attempts[e] < MaxAttempts}

\* A domain transaction commits its row, due at once or after a delay.
Store(e) ==
    /\ e \notin stored
    /\ stored' = stored \cup {e}
    /\ \E w \in FirstDelays : wait' = [wait EXCEPT ![e] = w]
    /\ UNCHANGED <<withdrawn, processed, attempts, handed>>
    /\ UNCHANGED dispatcherVars

\* Removing a SCORM version deletes its unprocessed ingestion rows; the DELETE
\* waits for a claim transaction that holds one. A copy may be under way.
Withdraw(e) ==
    /\ e \in (stored \cap Withdrawable) \ (withdrawn \cup processed)
    /\ \A d \in Dispatchers : e \notin locks[d]
    /\ withdrawn' = withdrawn \cup {e}
    /\ UNCHANGED <<stored, processed, attempts, wait, handed>>
    /\ UNCHANGED dispatcherVars

\* Mutant: the claim query takes no row lock.
SelectUnlocked(d) ==
    /\ pc[d] = "idle"
    /\ \E e \in Due(d) :
          /\ \A f \in Due(d) : e <= f
          /\ job' = [job EXCEPT ![d] = e]
          /\ token' = [token EXCEPT ![d] = attempts[e] + 1]
    /\ pc' = [pc EXCEPT ![d] = "selected"]
    /\ UNCHANGED <<stored, withdrawn, processed, attempts, wait, handed, locks>>

\* SELECT ... FOR UPDATE SKIP LOCKED, without a LIMIT: the transaction locks
\* every due row that is not locked and takes the oldest. With no row to take
\* the call returns no-work and nothing changes.
Select(d) ==
    /\ pc[d] = "idle"
    /\ \E e \in Due(d) :
          /\ \A f \in Due(d) : e <= f
          /\ job' = [job EXCEPT ![d] = e]
          /\ token' = [token EXCEPT ![d] = attempts[e] + 1]
    /\ locks' = [locks EXCEPT ![d] = Due(d)]
    /\ pc' = [pc EXCEPT ![d] = "selected"]
    /\ UNCHANGED rowVars

\* The claim commits: the attempt is counted and the row leased.
Claim(d) ==
    /\ pc[d] = "selected"
    /\ attempts' = [attempts EXCEPT ![job[d]] = token[d]]
    /\ wait' = [wait EXCEPT ![job[d]] = Lease]
    /\ locks' = [locks EXCEPT ![d] = {}]
    /\ pc' = [pc EXCEPT ![d] = "claimed"]
    /\ UNCHANGED <<stored, withdrawn, processed, handed, job, token>>

\* The hand-over succeeds: the audit line is logged or the message is sent.
HandOver(d) ==
    /\ pc[d] = "claimed"
    /\ job[d] \notin Malformed
    /\ handed' = [handed EXCEPT ![job[d]] = @ + 1]
    /\ pc' = [pc EXCEPT ![d] = "handed"]
    /\ UNCHANGED <<stored, withdrawn, processed, attempts, wait, job, token, locks>>

\* The environment fails a call only while the row has claims left, so that the
\* bound on claims never ends a run in the middle of a fault.
MayFail(d) == attempts[job[d]] < MaxAttempts

\* The payload does not parse, or the SQS send fails (a log line cannot).
HandOverFails(d) ==
    /\ pc[d] = "claimed"
    /\ \/ job[d] \in Malformed
       \/ job[d] \notin Audit /\ MayFail(d)
    /\ pc' = [pc EXCEPT ![d] = "failed"]
    /\ UNCHANGED <<job, token, locks>> /\ UNCHANGED rowVars

\* SQS accepts the message but the answer is lost: the caller sees an error.
AnswerLost(d) ==
    /\ pc[d] = "claimed"
    /\ job[d] \notin Malformed \cup Audit
    /\ MayFail(d)
    /\ handed' = [handed EXCEPT ![job[d]] = @ + 1]
    /\ pc' = [pc EXCEPT ![d] = "failed"]
    /\ UNCHANGED <<stored, withdrawn, processed, attempts, wait, job, token, locks>>

\* Mutant: the updates are not fenced by the claim number.
UnfencedByAttempt(d) == job[d] \notin withdrawn \cup processed

\* Both single-row updates are fenced by processedAt and the claim number, and
\* wait for a claim transaction that holds the row.
Fenced(d) ==
    job[d] \notin withdrawn \cup processed /\ attempts[job[d]] = token[d]
RowFree(d) == job[d] \notin LockedByOthers(d)

Release(d) ==
    /\ pc' = [pc EXCEPT ![d] = "idle"]
    /\ job' = [job EXCEPT ![d] = None]
    /\ token' = [token EXCEPT ![d] = 0]

\* Mutant: the row is completed before the message is sent.
CompleteEarly(d) ==
    /\ pc[d] \in {"claimed", "handed"}
    /\ RowFree(d)
    /\ processed' = IF Fenced(d) THEN processed \cup {job[d]} ELSE processed
    /\ Release(d)
    /\ UNCHANGED <<stored, withdrawn, attempts, wait, handed, locks>>

\* processedAt is set, unless a later claim or a completion got there first.
Complete(d) ==
    /\ pc[d] = "handed"
    /\ RowFree(d)
    /\ processed' = IF Fenced(d) THEN processed \cup {job[d]} ELSE processed
    /\ Release(d)
    /\ UNCHANGED <<stored, withdrawn, attempts, wait, handed, locks>>

\* The completing UPDATE throws, whether or not it took effect: the catch block
\* treats it as a failed hand-over although the copy is out.
CompleteThrows(d) ==
    /\ pc[d] = "handed"
    /\ RowFree(d) /\ MayFail(d)
    /\ \/ UNCHANGED processed
       \/ Fenced(d) /\ processed' = processed \cup {job[d]}
    /\ pc' = [pc EXCEPT ![d] = "failed"]
    /\ UNCHANGED <<stored, withdrawn, attempts, wait, handed, job, token, locks>>

\* Mutant: the catch block gives the row up instead of retrying it.
GiveUp(d) ==
    /\ pc[d] = "failed"
    /\ RowFree(d)
    /\ stored' = IF Fenced(d) THEN stored \ {job[d]} ELSE stored
    /\ Release(d)
    /\ UNCHANGED <<wait, withdrawn, processed, attempts, handed, locks>>

\* The catch block: the row becomes available after the back-off.
BackOff(d) ==
    /\ pc[d] = "failed"
    /\ RowFree(d)
    /\ wait' = IF Fenced(d) THEN [wait EXCEPT ![job[d]] = Backoff(token[d])]
                            ELSE wait
    /\ Release(d)
    /\ UNCHANGED <<stored, withdrawn, processed, attempts, handed, locks>>

\* The process dies (or the catch block's own update throws, which ends the
\* worker): an open claim rolls back, a committed one is left to its lease.
Crash(d) ==
    /\ pc[d] # "idle"
    /\ MayFail(d)
    /\ Release(d)
    /\ locks' = [locks EXCEPT ![d] = {}]
    /\ UNCHANGED rowVars

\* One unit of time passes for every row that is not yet available.
Tick ==
    /\ \E e \in stored : wait[e] > 0
    /\ wait' = [e \in Events |-> IF wait[e] > 0 THEN wait[e] - 1 ELSE 0]
    /\ UNCHANGED <<stored, withdrawn, processed, attempts, handed>>
    /\ UNCHANGED dispatcherVars

DispatchNext(d) ==
    \/ Select(d) \/ Claim(d) \/ HandOver(d) \/ HandOverFails(d) \/ AnswerLost(d)
    \/ Complete(d) \/ CompleteThrows(d) \/ BackOff(d)

Next ==
    \/ \E e \in Events : Store(e) \/ Withdraw(e)
    \/ \E d \in Dispatchers : DispatchNext(d) \/ Crash(d)
    \/ Tick

Spec == Init /\ [][Next]_vars

(***************************************************************************)
(* Fairness: the worker loop calls the dispatcher again and again and its  *)
(* calls return; systemd restarts a dead worker, and a worker that opens   *)
(* claim transactions again and again does not die in every one of them;   *)
(* time passes.                                                            *)
(***************************************************************************)
Fairness ==
    /\ WF_vars(Tick)
    /\ \A d \in Dispatchers : WF_vars(DispatchNext(d)) /\ SF_vars(Claim(d))

FairSpec == Spec /\ Fairness

(***************************************************************************)
(* Properties                                                              *)
(***************************************************************************)
Located == {"selected", "claimed", "handed", "failed"}
InFlight(d) == pc[d] \in {"claimed", "handed", "failed"}

\* Types; in particular a row never becomes available later than the horizon,
\* because the back-off is capped by the lease.
TypeOK ==
    /\ stored \subseteq Events /\ withdrawn \subseteq Events
    /\ processed \subseteq Events
    /\ attempts \in [Events -> Nat] /\ wait \in [Events -> 0..Horizon]
    /\ handed \in [Events -> Nat]
    /\ pc \in [Dispatchers -> Located \cup {"idle"}]
    /\ job \in [Dispatchers -> Events \cup {None}]
    /\ token \in [Dispatchers -> Nat]
    /\ locks \in [Dispatchers -> SUBSET Events]

\* Work is never lost by the outbox: a row is only marked processed when a copy
\* of it reached the queue or the audit log, whatever crashes, lost answers and
\* expired leases came before (outbox-dispatcher.server.ts, processedAt).
ProcessedWasHandedOver == \A e \in processed : handed[e] > 0

\* Two workers never act on one row with the same claim number, so the fence of
\* the completing and the back-off update can tell them apart.
ClaimNumbersUnique ==
    \A d1, d2 \in Dispatchers :
        (d1 # d2 /\ InFlight(d1) /\ InFlight(d2) /\ job[d1] = job[d2])
            => token[d1] # token[d2]

\* d is the latest claimer of the unprocessed row e.
Holds(d, e) ==
    /\ InFlight(d) /\ job[d] = e
    /\ e \notin withdrawn \cup processed /\ token[d] = attempts[e]

\* While the latest claimer of a row is at work, only time runs on its lease: a
\* slow or failed predecessor can neither extend it nor hand the row on early.
LeaseUndisturbed ==
    [][\A d \in Dispatchers, e \in Events :
          (Holds(d, e) /\ Holds(d, e)') => wait'[e] <= wait[e]
                                         /\ wait[e] <= wait'[e] + 1]_vars

\* A processed or withdrawn row is final: no later claim counts, leases, reopens
\* or completes it, even by a worker that selected or claimed it before.
ProcessedIsFinal ==
    [][/\ \A e \in processed \cup withdrawn :
             attempts'[e] = attempts[e] /\ wait'[e] <= wait[e]
       /\ processed \subseteq processed'
       /\ processed' \cap withdrawn = processed \cap withdrawn]_vars

\* The dispatchers implement at-least-once hand-over.
Handover == INSTANCE Handoff WITH copies <- handed, done <- processed
ImplementsHandoff == Handover!HSpec

\* Every well-formed dispatchable row is eventually processed (or withdrawn by the
\* transaction that removed its subject), although older
\* malformed rows are retried in front of it.
EventuallyProcessed ==
    \A e \in Events \ (Malformed \cup Undispatched) :
        e \in stored ~> e \in processed \cup withdrawn
=============================================================================
