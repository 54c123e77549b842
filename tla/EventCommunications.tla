------------------------- MODULE EventCommunications -------------------------
(***************************************************************************)
(* Scheduled event communications                                          *)
(* (src/server/notifications/event-communication-execution.server.ts): the *)
(* plan of an event occurrence, its dates and its lifecycle on one side,   *)
(* the workers of ScheduleQueue on the other.                              *)
(*                                                                         *)
(* The administrative transactions lock the occurrence row, and refresh    *)
(* the schedules before they commit.  A worker reads the occurrence and    *)
(* the communication without a lock, but under the lock of its schedule,   *)
(* which every refresh that replaces the schedule has to take as well.     *)
(***************************************************************************)
EXTENDS ScheduleQueue

CONSTANTS
    Incomplete,      \* communications with trigger post_event_incomplete
    Unanchored,      \* communications for a session the event does not have
    MaxChanges,      \* bound: reschedules and revisions
    MaxDefers        \* bound: deferrals

ASSUME CommunicationAssumption ==
    /\ Incomplete \subseteq Logical /\ Unanchored \subseteq Logical
    /\ MaxChanges \in Nat /\ MaxDefers \in Nat
    /\ MaxRevisions > MaxChanges

VARIABLES
    event,           \* event_occurrence.status
    dates,           \* startsAt and endsAt, by the number of the reschedule
    revision,        \* revision[l]: the active communication revision
    plan,            \* plan[s]: the revision and the dates s was made for
    mailed,          \* mailed[l]: how often emails were enqueued for l
    changes,         \* reschedules and revisions so far
    defers           \* deferrals so far

eventVars == <<event, dates, revision, plan, mailed, changes, defers>>
vars == <<status, attempts, ready, at, job, claimed, late, faults, event, dates,
          revision, plan, mailed, changes, defers>>

NoPlan == <<0, 0>>

Init ==
    /\ ScheduleInit
    /\ event = "draft" /\ dates = 1
    /\ revision = [l \in Logical |-> 1]
    /\ plan = [s \in Schedules |-> NoPlan]
    /\ mailed = [l \in Logical |-> 0]
    /\ changes = 0 /\ defers = 0

-----------------------------------------------------------------------------
\* Mutant: a communication that was sent is scheduled again.
StaleAgain(l, e, r, d) ==
    /\ e = "published" /\ l \notin Unanchored
    /\ \A s \in ActiveOf(l) : plan[s] # <<r, d>>

\* Mutant: new dates alone do not replace a schedule.
StaleByRevision(l, e, r, d) ==
    /\ e = "published" /\ ~Completed(l) /\ l \notin Unanchored
    /\ \A s \in ActiveOf(l) : plan[s][1] # r

\* Communication l needs a new schedule for revision r and dates d.
Stale(l, e, r, d) ==
    /\ e = "published" /\ ~Completed(l) /\ l \notin Unanchored
    /\ \A s \in ActiveOf(l) : plan[s] # <<r, d>>

\* Its active schedule goes: replaced, delivered already, or the event is not on.
Obsolete(l, e, r, d) ==
    e # "published" \/ Completed(l) \/ l \in Unanchored \/ Stale(l, e, r, d)

\* Mutant: replaced schedules stay.
KeepReplaced(e, R, d) ==
    LET N == {NextRevision(l) : l \in {m \in Logical : Stale(m, e, R[m], d)}}
    IN  /\ \E D \in SUBSET N : Rewrite({}, N, D)
        /\ plan' = [s \in Schedules |-> IF s \in N THEN <<R[s[1]], d>> ELSE plan[s]]

\* refreshEventCommunicationSchedules for status e, revisions R and dates d.
RefreshSchedules(e, R, d) ==
    LET S == UNION {ActiveOf(l) : l \in {m \in Logical : Obsolete(m, e, R[m], d)}}
        N == {NextRevision(l) : l \in {m \in Logical : Stale(m, e, R[m], d)}}
    IN  /\ \E D \in SUBSET N : Rewrite(S, N, D)
        /\ plan' = [s \in Schedules |-> IF s \in N THEN <<R[s[1]], d>> ELSE plan[s]]

\* publishAdminEventOccurrence.
Publish ==
    /\ event = "draft" /\ event' = "published"
    /\ RefreshSchedules("published", revision, dates)
    /\ UNCHANGED <<dates, revision, mailed, changes, defers>>
    /\ UNCHANGED workerVars /\ UNCHANGED faultVars

\* One more change of the plan, within the bound.
Changes == changes < MaxChanges /\ changes' = changes + 1

\* updateAdminEventOccurrence, for drafts only.
UpdateDraft ==
    /\ event = "draft" /\ Changes
    /\ dates' = dates + 1
    /\ RefreshSchedules(event, revision, dates + 1)
    /\ UNCHANGED <<event, revision, mailed, defers>>
    /\ UNCHANGED workerVars /\ UNCHANGED faultVars

\* rescheduleAdminEventOccurrence, for published events only.
Reschedule ==
    /\ event = "published" /\ Changes
    /\ dates' = dates + 1
    /\ RefreshSchedules(event, revision, dates + 1)
    /\ UNCHANGED <<event, revision, mailed, defers>>
    /\ UNCHANGED workerVars /\ UNCHANGED faultVars

\* reviseOccurrenceCommunication: the active revision is replaced.
Revise(l) ==
    /\ event \in {"draft", "published"} /\ Changes
    /\ revision' = [revision EXCEPT ![l] = @ + 1]
    /\ RefreshSchedules(event, revision', dates)
    /\ UNCHANGED <<event, dates, mailed, defers>>
    /\ UNCHANGED workerVars /\ UNCHANGED faultVars

\* transitionAdminEventOccurrence: cancelled and archived events lose their
\* schedules, a completed one keeps them for its post-event reminders.
Transition(target) ==
    /\ \/ event = "published" /\ target \in {"cancelled", "completed"}
       \/ event \in {"cancelled", "completed"} /\ target = "archived"
    /\ event' = target
    /\ IF target = "completed" THEN UNCHANGED rowVars
       ELSE Rewrite({s \in Schedules : status[s] \in Active}, {}, {})
    /\ UNCHANGED <<dates, revision, plan, mailed, changes, defers>>
    /\ UNCHANGED workerVars /\ UNCHANGED faultVars

-----------------------------------------------------------------------------
\* materializeSchedule sends for s: the event is on (or over, for a reminder of
\* incomplete work) and the communication revision is the active one.
Eligible(s) ==
    /\ \/ event = "published"
       \/ event = "completed" /\ s[1] \in Incomplete
    /\ plan[s][1] = revision[s[1]]

\* The emails are enqueued with the completion; an ineligible schedule completes
\* with no recipients.
Materialize(w) ==
    /\ Complete(w)
    /\ mailed' = IF Eligible(job[w])
                 THEN [mailed EXCEPT ![job[w][1]] = @ + 1] ELSE mailed
    /\ UNCHANGED <<event, dates, revision, plan, changes, defers>>

\* Somebody's post-event work is not released yet.
Postpone(w) ==
    /\ Defer(w)
    /\ job[w][1] \in Incomplete /\ Eligible(job[w])
    /\ defers < MaxDefers /\ defers' = defers + 1
    /\ UNCHANGED <<event, dates, revision, plan, mailed, changes>>

\* The second transaction and its catch block.
Process(w) ==
    \/ Materialize(w) \/ Postpone(w)
    \/ (GiveUp(w) \/ Throw(w) \/ Fail(w)) /\ UNCHANGED eventVars

ClaimNext(w) == \E s \in Schedules : Claim(w, s) /\ UNCHANGED eventVars

Next ==
    \/ Publish \/ UpdateDraft \/ Reschedule
    \/ \E l \in Logical : Revise(l)
    \/ \E t \in {"cancelled", "completed", "archived"} : Transition(t)
    \/ \E w \in Workers : ClaimNext(w) \/ Process(w) \/ (Die(w) /\ UNCHANGED eventVars)
    \/ \E s \in Schedules : Becomes(s) /\ UNCHANGED eventVars

Spec == Init /\ [][Next]_vars

(***************************************************************************)
(* Fairness: the worker loop keeps claiming and its transactions end, and  *)
(* due dates, back-offs and leases come to their end.                      *)
(***************************************************************************)
Fairness ==
    /\ \A w \in Workers : WF_vars(ClaimNext(w)) /\ WF_vars(Process(w))
    /\ \A s \in Schedules : WF_vars(Becomes(s) /\ UNCHANGED eventVars)

FairSpec == Spec /\ Fairness

(***************************************************************************)
(* Properties                                                              *)
(***************************************************************************)
\* Types of the plan, the schedules and the workers.
TypeOK ==
    /\ ScheduleTypeOK
    /\ event \in {"draft", "published", "completed", "cancelled", "archived"}
    /\ dates \in Nat /\ revision \in [Logical -> Nat]
    /\ plan \in [Schedules -> Nat \X Nat]
    /\ mailed \in [Logical -> Nat]
    /\ changes \in 0..MaxChanges /\ defers \in 0..MaxDefers

\* Nobody is mailed twice: a communication is sent at most once, through retries,
\* takeovers, deaths, lost answers, reschedules and revisions.
SentOnce == \A l \in Logical : mailed[l] <= 1

\* Nothing stale is sent: emails go out only for the dates and the revision in
\* force, and never once the event is cancelled or archived, although the worker
\* claimed the schedule earlier and reads the event without a lock.
SentAsPlanned ==
    [][\A l \in Logical :
          mailed'[l] # mailed[l] =>
              /\ event \in {"published", "completed"}
              /\ \E s \in Schedules :
                    /\ s[1] = l /\ status[s] # status'[s]
                    /\ plan[s] = <<revision[l], dates>>]_vars

\* An event that stays on reaches its people: every communication that has an
\* anchor is sent, or has failed MAX_SCHEDULE_ATTEMPTS times.
EventuallySent ==
    \A l \in Logical \ Unanchored :
        <>[](event = "published") =>
            <>(\/ mailed[l] = 1
               \/ \E s \in Schedules : s[1] = l /\ status[s] = "failed")
==============================================================================
