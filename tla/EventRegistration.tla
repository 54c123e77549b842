-------------------------- MODULE EventRegistration --------------------------
(***************************************************************************)
(* Registration for an event without payment: regional review rounds,      *)
(* coordinators, final decisions against the capacity, late invitations,   *)
(* reschedules, and the worker that locks regional lists at their deadline *)
(* (src/server/learner, src/server/admin, src/server/events and            *)
(* src/server/notifications).                                              *)
(*                                                                         *)
(* Every handler is one transaction.  All but three lock the occurrence    *)
(* row.  A coordinator's decision locks the registration and its round     *)
(* instead.  An administrator's lock of a list reads the round under an    *)
(* advisory lock of the region, which the worker does not take, and writes *)
(* it later: it is two actions.  The third is the worker's.  Its claim,    *)
(* lease and fence are those of ScheduleQueue; here its two transactions   *)
(* are one step, since only the second one, under the lock of a schedule   *)
(* that is still active, has an effect.                                    *)
(*                                                                         *)
(* Dates are windows: registrationClosesAt and coordinatorLockAt of the    *)
(* occurrence or of a round are those of a window, whose phase tells which *)
(* of the two have passed.                                                 *)
(***************************************************************************)
EXTENDS Naturals, FiniteSets

CONSTANTS
    Users, Regions,
    Late,            \* users whom administrators add or invite
    Capacities,      \* capacities administrators choose
    MaxRounds,       \* bound: review rounds of one region
    MaxWindows,      \* bound: windows, one more for each change of the dates
    Decisions        \* final decisions that administrators take

Rounds == Regions \X (1..MaxRounds)
Windows == 1..MaxWindows

ASSUME RegistrationAssumption ==
    /\ IsFiniteSet(Users) /\ Capacities \subseteq Nat /\ Capacities # {}
    /\ MaxRounds \in Nat \ {0} /\ MaxWindows \in Nat \ {0}
    /\ Late \subseteq Users
    /\ Decisions \subseteq {"selected", "waitlisted", "not_selected", "cancelled"}

VARIABLES
    event,           \* event_occurrence.status
    mode,            \* approvalMode
    capacity, confirmed,
    active,          \* regions with retiredAt null
    window,          \* the window of the occurrence
    phase,           \* phase[k]: "open", "closed" or "locked"
    rounds,          \* rounds[g]: the latest round of g, or 0
    win,             \* win[r]: the window of round r
    lock,            \* lock[r]: lockSource, or "no" while lockedAt is null
    locking,         \* locking[g]: the round an administrator is locking
    state,           \* state[u]: status of the registration of u, or "none"
    region, list,    \* its eventOccurrenceRegionId and reviewRoundId
    invited,         \* invited[u]: region of the outstanding invitation of u
    attended,        \* users with attendance recorded
    job,             \* job[r]: status of the regional_lock_due schedule of r, or "none"
    due,             \* due[r]: the window it was made for
    notices,         \* notices[r]: how often the lock of r was announced
    shut             \* rounds that were locked or reached their deadline

registrationVars == <<capacity, confirmed, state, region, list, invited, attended>>
occurrenceVars == <<event, mode, active, window, phase>>
roundVars == <<rounds, win, lock, locking, notices, shut>>
scheduleVars == <<job, due>>
vars == <<registrationVars, occurrenceVars, roundVars, scheduleVars>>

None == "none"
NoRound == <<>>
Final == {"selected", "waitlisted", "not_selected", "withdrawn", "cancelled"}
Gone == {"withdrawn", "cancelled", "not_selected"}
Reviewed == {"submitted", "coordinator_approved", "coordinator_declined"}

Latest(g) == <<g, rounds[g]>>
Selected(f) == {u \in Users : f[u] = "selected"}

\* An automatic event of this model has no regions and no coordinatorLockAt.
Init ==
    /\ event = "draft" /\ mode \in {"manual", "automatic"}
    /\ capacity \in Capacities /\ confirmed = 0
    /\ active = IF mode = "manual" THEN Regions ELSE {}
    /\ window = 1
    /\ phase = [k \in Windows |-> "open"]
    /\ rounds = [g \in Regions |-> 0]
    /\ win = [r \in Rounds |-> 0] /\ lock = [r \in Rounds |-> "no"]
    /\ locking = [g \in Regions |-> NoRound]
    /\ state = [u \in Users |-> "none"]
    /\ region = [u \in Users |-> None] /\ list = [u \in Users |-> NoRound]
    /\ invited = [u \in Users |-> "no"]
    /\ attended = {}
    /\ job = [r \in Rounds |-> "none"] /\ due = [r \in Rounds |-> 0]
    /\ notices = [r \in Rounds |-> 0] /\ shut = {}

-----------------------------------------------------------------------------
\* The operational schedules.

\* Round r wants a schedule: it is the latest, n, of a region in A, of an event of
\* status e, and neither a lock nor a completed schedule has settled it.
Wanted(r, e, A, n) ==
    /\ e = "published" /\ mode = "manual"
    /\ r[1] \in A /\ r[2] = n[r[1]]
    /\ lock[r] = "no" /\ job[r] # "completed"

\* Mutant: an active schedule is kept, whatever its date.
KeptAnyway(r) == job[r] = "active"

\* The active schedule of r has the date that r has now.
Kept(r) == job[r] = "active" /\ due[r] = win'[r]

\* refreshEventOperationalCommunicationSchedules, at the end of a transaction.
RefreshOperational ==
    LET W == {r \in Rounds : Wanted(r, event', active', rounds')}
    IN  /\ job' = [r \in Rounds |-> IF r \in W THEN "active"
                                    ELSE IF job[r] = "active" THEN "superseded" ELSE job[r]]
        /\ due' = [r \in Rounds |-> IF r \in W /\ ~Kept(r) THEN win'[r] ELSE due[r]]

\* supersedeEventOperationalCommunicationSchedules for the rounds R.
Supersede(R) ==
    /\ job' = [r \in Rounds |-> IF r \in R /\ job[r] = "active" THEN "superseded"
                                ELSE job[r]]
    /\ UNCHANGED due

\* No administrator holds the advisory lock of a region in G.
Unlocked(G) == \A g \in G : locking[g] = NoRound

\* publishAdminEventOccurrence, with ensureInitialReviewRounds.
Publish ==
    /\ event = "draft" /\ Unlocked(Regions)
    /\ event' = "published"
    /\ LET new == {g \in active : rounds[g] = 0}
       IN  /\ rounds' = [g \in Regions |-> IF g \in new THEN 1 ELSE rounds[g]]
           /\ win' = [r \in Rounds |-> IF r[1] \in new /\ r[2] = 1 THEN window
                                       ELSE win[r]]
    /\ UNCHANGED <<mode, active, window, phase, lock, locking, notices, shut>>
    /\ RefreshOperational
    /\ UNCHANGED registrationVars

-----------------------------------------------------------------------------
\* Registrations.

\* A registration of u for region g on list r, with status x.
Registers(u, g, r, x) ==
    /\ state' = [state EXCEPT ![u] = x]
    /\ region' = [region EXCEPT ![u] = g]
    /\ list' = [list EXCEPT ![u] = r]

NothingElse ==
    UNCHANGED occurrenceVars /\ UNCHANGED roundVars /\ UNCHANGED scheduleVars

\* An event with active regions wants one of them, another wants none.
Routes(g) == IF active = {} THEN g = None ELSE g \in active

\* registerLearnerForEventInTransaction.
Register(u, g) ==
    /\ event = "published" /\ state[u] = "none" /\ phase[window] = "open"
    /\ Routes(g)
    /\ g # None => /\ Unlocked({g}) /\ lock[Latest(g)] = "no"
                   /\ phase[win[Latest(g)]] # "locked"
    /\ mode = "automatic" => confirmed < capacity
    /\ Registers(u, g, IF g = None THEN NoRound ELSE Latest(g),
                 IF mode = "automatic" THEN "selected" ELSE "submitted")
    /\ confirmed' = IF mode = "automatic" THEN confirmed + 1 ELSE confirmed
    /\ UNCHANGED <<capacity, invited, attended>> /\ NothingElse

\* addAdminEventRegistration: outside the regional lists.
AdminAdd(u, g) ==
    /\ u \in Late /\ event = "published" /\ state[u] = "none"
    /\ g \in active \cup {None}
    /\ Registers(u, g, NoRound, "submitted")
    /\ UNCHANGED <<capacity, confirmed, invited, attended>> /\ NothingElse

\* createEventLateRegistrationInvitation, after the public cutoff; an outstanding
\* invitation is replaced.
Invite(u, g) ==
    /\ u \in Late /\ event = "published" /\ state[u] = "none" /\ phase[window] # "open"
    /\ Routes(g)
    /\ invited' = [invited EXCEPT ![u] = g]
    /\ UNCHANGED <<capacity, confirmed, state, region, list, attended>>
    /\ NothingElse

\* revokeEventLateRegistrationInvitation.
Revoke(u) ==
    /\ invited[u] # "no"
    /\ invited' = [invited EXCEPT ![u] = "no"]
    /\ UNCHANGED <<capacity, confirmed, state, region, list, attended>>
    /\ NothingElse

\* acceptEventLateRegistrationInvitation: with no registration yet, and the region
\* requirement met, u is registered outside the lists.
Accept(u) ==
    /\ invited[u] # "no" /\ event = "published"
    /\ invited' = [invited EXCEPT ![u] = "no"]
    /\ IF state[u] = "none" /\ Routes(invited[u])
       THEN Registers(u, invited[u], NoRound, "submitted")
       ELSE UNCHANGED <<state, region, list>>
    /\ UNCHANGED <<capacity, confirmed, attended>> /\ NothingElse

\* withdrawLearnerEventRegistration.
Withdraw(u) ==
    /\ event = "published" /\ state[u] \notin Gone \cup {"none"}
    /\ confirmed' = IF state[u] = "selected" /\ confirmed > 0 THEN confirmed - 1
                    ELSE confirmed
    /\ state' = [state EXCEPT ![u] = "withdrawn"]
    /\ UNCHANGED <<capacity, region, list, invited, attended>>
    /\ NothingElse

\* recordAdminEventAttendance.
Attend(u) ==
    /\ state[u] = "selected"
    /\ attended' = attended \cup {u}
    /\ UNCHANGED <<capacity, confirmed, state, region, list, invited>>
    /\ NothingElse

\* A coordinator may edit list r.
Editable(r) == lock[r] = "no" /\ phase[win[r]] # "locked"

\* decideAdminEventCoordinatorRegistration.
Coordinate(u, d) ==
    /\ region[u] # None /\ list[u] # NoRound
    /\ Editable(list[u])
    /\ state[u] \in Reviewed
    /\ state' = [state EXCEPT ![u] = d]
    /\ UNCHANGED <<capacity, confirmed, region, list, invited, attended>>
    /\ NothingElse

\* What may be selected: from a list that is over, the approved.
Selectable(u) ==
    IF list[u] # NoRound
    THEN state[u] = "coordinator_approved" /\ ~Editable(list[u])
    ELSE state[u] \in {"submitted", "waitlisted", "not_selected"}

\* Mutant: the count moves with every decision.
DecideCounting(u, d) ==
    /\ event = "published" /\ state[u] \notin {"none", d} /\ u \notin attended
    /\ d = "selected" => Selectable(u) /\ confirmed < capacity
    /\ confirmed' = IF d = "selected" THEN confirmed + 1
                    ELSE IF confirmed > 0 THEN confirmed - 1 ELSE 0
    /\ state' = [state EXCEPT ![u] = d]
    /\ UNCHANGED <<capacity, region, list, invited, attended>>
    /\ NothingElse

\* decideAdminEventFinalRegistration.
Decide(u, d) ==
    /\ event = "published" /\ state[u] \notin {"none", d} /\ u \notin attended
    /\ d = "selected" => Selectable(u) /\ confirmed < capacity
    /\ confirmed' = IF d = "selected" THEN confirmed + 1
                    ELSE IF state[u] = "selected" THEN confirmed - 1 ELSE confirmed
    /\ state' = [state EXCEPT ![u] = d]
    /\ UNCHANGED <<capacity, region, list, invited, attended>>
    /\ NothingElse

\* reassignAdminEventRegistrationRegion, with both confirmations given: a list that
\* is over waives the review.
Reassign(u, g) ==
    /\ event = "published" /\ g \in active /\ Unlocked({g})
    /\ state[u] \notin {"none", "withdrawn", "cancelled"} /\ region[u] # g
    /\ Registers(u, g,
                 IF state[u] \in Final \/ Editable(Latest(g)) THEN Latest(g) ELSE NoRound,
                 IF state[u] \in Final THEN state[u] ELSE "submitted")
    /\ UNCHANGED <<capacity, confirmed, invited, attended>> /\ NothingElse

-----------------------------------------------------------------------------
\* Locking a list by hand.

\* Mutant: a list that is locked is locked again.
LockAgain(g) ==
    /\ mode = "manual" /\ locking[g] = NoRound
    /\ locking' = [locking EXCEPT ![g] = IF rounds[g] = 0 THEN <<g, 1>> ELSE Latest(g)]
    /\ UNCHANGED <<rounds, win, lock, notices, shut>>
    /\ UNCHANGED registrationVars /\ UNCHANGED occurrenceVars /\ UNCHANGED scheduleVars

\* lockAdminEventRegion takes the advisory lock and reads the latest round; there
\* may be none yet, which it will create.
LockBegin(g) ==
    /\ mode = "manual" /\ locking[g] = NoRound
    /\ rounds[g] > 0 => lock[Latest(g)] = "no"
    /\ locking' = [locking EXCEPT ![g] = IF rounds[g] = 0 THEN <<g, 1>> ELSE Latest(g)]
    /\ UNCHANGED <<rounds, win, lock, notices, shut>>
    /\ UNCHANGED registrationVars /\ UNCHANGED occurrenceVars /\ UNCHANGED scheduleVars

\* It writes the round whatever its lock is by then, supersedes its schedules and
\* enqueues the announcements.
LockCommit(g) ==
    LET r == locking[g]
    IN  /\ r # NoRound
        /\ locking' = [locking EXCEPT ![g] = NoRound]
        /\ rounds' = [rounds EXCEPT ![g] = IF @ = 0 THEN 1 ELSE @]
        /\ win' = [win EXCEPT ![r] = IF rounds[g] = 0 THEN window ELSE @]
        /\ lock' = [lock EXCEPT ![r] = "manual"]
        /\ notices' = [notices EXCEPT ![r] = @ + 1]
        /\ shut' = shut \cup {r}
        /\ Supersede({r})
        /\ UNCHANGED registrationVars /\ UNCHANGED occurrenceVars

\* The transaction fails, as the victim of a deadlock with the worker for example.
LockAbort(g) ==
    /\ locking[g] # NoRound
    /\ locking' = [locking EXCEPT ![g] = NoRound]
    /\ UNCHANGED <<rounds, win, lock, notices, shut>>
    /\ UNCHANGED registrationVars /\ UNCHANGED occurrenceVars /\ UNCHANGED scheduleVars
-----------------------------------------------------------------------------
\* Reschedules.

\* The policy may be chosen for the regions A: regions are added by reopening only,
\* and replace_future needs a date that lies ahead.
Allowed(policy, A) ==
    /\ A \subseteq active \/ policy = "reopen"
    /\ policy = "replace_future" =>
          phase[window] = "open" \/ (mode = "manual" /\ phase[window] = "closed")

\* The regional lists are final: somebody is decided about, or the list is over.
BoundaryReached(g) ==
    \/ \E u \in Users : state[u] \in Final
    \/ rounds[g] > 0 /\ ~Editable(Latest(g))

\* The latest rounds after the policy: reopening past the boundary adds one.
NextRounds(policy, A) ==
    [g \in Regions |->
        IF policy = "reopen" /\ g \in A /\ (rounds[g] = 0 \/ BoundaryReached(g))
        THEN rounds[g] + 1 ELSE rounds[g]]

\* The rounds whose dates the policy sets: replace_future sets those of every round
\* that is not locked, earlier ones included.
Moved(policy, A) ==
    CASE policy = "keep" -> {}
      [] policy = "replace_future" ->
            {r \in Rounds : r[1] \in A /\ r[2] <= rounds[r[1]] /\ lock[r] = "no"}
      [] policy = "reopen" ->
            {r \in Rounds : r[1] \in A /\ r[2] = NextRounds(policy, A)[r[1]]}

\* Mutant: an invitation outlives a reopening of registration.
InvitedRegion(u) == IF invited[u] = None THEN active' = {} ELSE invited[u] \in active'

\* reconcileEventLateInvitationsAfterReschedule: the invitation of u stays valid.
StillInvited(u) ==
    /\ phase'[window'] # "open"
    /\ IF invited[u] = None THEN active' = {} ELSE invited[u] \in active'

\* The places that cancelling the registrations out gives back.
Released(out) == Cardinality(out \cap Selected(state))

\* rescheduleAdminEventOccurrence: capacity c, active regions A, and cancellation of
\* the registrations of retired regions if cancel.
Reschedule(policy, c, A, cancel) ==
    LET k == IF policy = "keep" THEN window ELSE window + 1
        out == {u \in Users : /\ cancel /\ region[u] \in active \ A
                              /\ state[u] \notin Gone \cup {"none"}}
    IN  /\ event = "published" /\ c >= confirmed /\ k \in Windows
        /\ mode = "automatic" => A = {}
        /\ Allowed(policy, A)
        /\ \A g \in A : NextRounds(policy, A)[g] <= MaxRounds
        /\ window' = k /\ active' = A /\ capacity' = c
        /\ phase' = [phase EXCEPT ![k] = IF policy = "reopen" THEN "open" ELSE phase[window]]
        /\ rounds' = NextRounds(policy, A)
        /\ win' = [r \in Rounds |-> IF r \in Moved(policy, A) THEN k ELSE win[r]]
        /\ state' = [u \in Users |-> IF u \in out THEN "cancelled" ELSE state[u]]
        /\ confirmed' = confirmed - Released(out)
        /\ UNCHANGED <<event, mode, lock, locking, notices, shut>>
        /\ RefreshOperational
        /\ invited' = [u \in Users |-> IF invited[u] # "no" /\ StillInvited(u)
                                       THEN invited[u] ELSE "no"]
        /\ UNCHANGED <<region, list, attended>>

\* transitionAdminEventOccurrence.
Transition(target) ==
    /\ \/ event = "published" /\ target \in {"cancelled", "completed"}
       \/ event \in {"cancelled", "completed"} /\ target = "archived"
    /\ event' = target
    /\ IF target = "cancelled"
       THEN /\ state' = [u \in Users |-> IF state[u] \in Gone \cup {"none"} THEN state[u]
                                        ELSE "cancelled"]
            /\ confirmed' = 0
            /\ invited' = [u \in Users |-> "no"]
       ELSE UNCHANGED <<state, confirmed, invited>>
    /\ Supersede(Rounds)
    /\ UNCHANGED <<capacity, region, list, attended>>
    /\ UNCHANGED <<mode, active, window, phase>> /\ UNCHANGED roundVars

-----------------------------------------------------------------------------
\* Time and the worker.

\* The next date of window k, which the occurrence or a round uses, passes.
Tick(k) ==
    /\ k = window \/ \E r \in Rounds : r[2] <= rounds[r[1]] /\ win[r] = k
    /\ \/ phase[k] = "open" /\ phase' = [phase EXCEPT ![k] = "closed"]
          /\ UNCHANGED shut
       \/ /\ mode = "manual" /\ phase[k] = "closed"
          /\ phase' = [phase EXCEPT ![k] = "locked"]
          /\ shut' = shut \cup {r \in Rounds : r[2] <= rounds[r[1]] /\ win[r] = k}
    /\ UNCHANGED <<event, mode, active, window, rounds, win, lock, locking,
                   notices>>
    /\ UNCHANGED registrationVars /\ UNCHANGED scheduleVars

\* processNextEventOperationalCommunicationSchedule for the due schedule of r:
\* materializeOperationalSchedule locks the round and announces that, unless the
\* event, the round or its date has changed.
Process(r) ==
    /\ job[r] = "active" /\ phase[due[r]] = "locked"
    /\ job' = [job EXCEPT ![r] = "completed"]
    /\ IF event = "published" /\ r = Latest(r[1]) /\ lock[r] = "no" /\ due[r] = win[r]
       THEN /\ lock' = [lock EXCEPT ![r] = "deadline"]
            /\ notices' = [notices EXCEPT ![r] = @ + 1]
       ELSE UNCHANGED <<lock, notices>>
    /\ UNCHANGED <<rounds, win, locking, shut, due>>
    /\ UNCHANGED registrationVars /\ UNCHANGED occurrenceVars

\* It has thrown MAX_SCHEDULE_ATTEMPTS times.
Fail(r) ==
    /\ job[r] = "active" /\ phase[due[r]] = "locked"
    /\ job' = [job EXCEPT ![r] = "failed"] /\ UNCHANGED due
    /\ UNCHANGED registrationVars /\ UNCHANGED occurrenceVars /\ UNCHANGED roundVars

Next ==
    \/ Publish
    \/ \E u \in Users, g \in Regions \cup {None} :
          Register(u, g) \/ AdminAdd(u, g) \/ Invite(u, g) \/ Reassign(u, g)
    \/ \E u \in Users : Revoke(u) \/ Accept(u) \/ Withdraw(u) \/ Attend(u)
    \/ \E u \in Users, d \in {"coordinator_approved", "coordinator_declined"} :
          Coordinate(u, d)
    \/ \E u \in Users, d \in Decisions : Decide(u, d)
    \/ \E g \in Regions : LockBegin(g) \/ LockCommit(g) \/ LockAbort(g)
    \/ \E p \in {"keep", "replace_future", "reopen"}, c \in Capacities,
          A \in SUBSET Regions, b \in BOOLEAN : Reschedule(p, c, A, b)
    \/ \E t \in {"cancelled", "completed", "archived"} : Transition(t)
    \/ \E k \in Windows : Tick(k)
    \/ \E r \in Rounds : Process(r) \/ Fail(r)

Spec == Init /\ [][Next]_vars

(***************************************************************************)
(* Fairness: the worker gets to every due schedule.  Nothing is assumed of *)
(* people or of dates.                                                     *)
(***************************************************************************)
Fairness == \A r \in Rounds : WF_vars(Process(r) \/ Fail(r))

FairSpec == Spec /\ Fairness

(***************************************************************************)
(* Properties                                                              *)
(***************************************************************************)
\* Types.
TypeOK ==
    /\ event \in {"draft", "published", "completed", "cancelled", "archived"}
    /\ mode \in {"manual", "automatic"}
    /\ capacity \in Capacities /\ confirmed \in Nat
    /\ active \subseteq Regions /\ window \in Windows
    /\ phase \in [Windows -> {"open", "closed", "locked"}]
    /\ rounds \in [Regions -> 0..MaxRounds]
    /\ win \in [Rounds -> 0..MaxWindows]
    /\ lock \in [Rounds -> {"no", "manual", "deadline"}]
    /\ locking \in [Regions -> Rounds \cup {NoRound}]
    /\ state \in [Users -> Reviewed \cup Final \cup {"none"}]
    /\ region \in [Users -> Regions \cup {None}]
    /\ list \in [Users -> Rounds \cup {NoRound}]
    /\ invited \in [Users -> Regions \cup {None, "no"}]
    /\ attended \subseteq Users
    /\ job \in [Rounds -> {"none", "active", "completed", "failed", "superseded"}]
    /\ due \in [Rounds -> 0..MaxWindows]
    /\ notices \in [Rounds -> Nat] /\ shut \subseteq Rounds

\* No place is lost or sold twice: confirmedCount is the number of selected
\* registrations, and within the capacity, through decisions, withdrawals,
\* cancellations of a region or of the event, and reschedules.
PlacesExact ==
    confirmed = Cardinality(Selected(state)) /\ confirmed <= capacity

\* The lock of a list is announced, and announced once; twice only when an
\* administrator's lock that was under way overwrites the worker's.
AnnouncedOnce ==
    \A r \in Rounds :
        /\ lock[r] # "no" <=> notices[r] > 0
        /\ notices[r] > 1 =>
              notices[r] = 2 /\ lock[r] = "manual" /\ job[r] = "completed"

\* Late invitations bypass the public cutoff only: none is outstanding while
\* registration is open or for a region the event does not have.
InvitationsFit ==
    event = "published" =>
        \A u \in Users : invited[u] # "no" => phase[window] # "open" /\ Routes(invited[u])

\* The list of every active region is locked once its deadline has passed, however
\* often the dates moved before, unless the worker failed MAX_SCHEDULE_ATTEMPTS times.
Overdue(r) ==
    /\ event = "published" /\ r[1] \in active /\ r = Latest(r[1])
    /\ phase[win[r]] = "locked" /\ lock[r] = "no"

EventuallyLocked ==
    \A r \in Rounds :
        Overdue(r) ~> (~Overdue(r) \/ job[r] = "failed")

\* Old lists are not unlocked: coordinators decide nothing on a list that was locked
\* or has reached its deadline.
ListsStayShut ==
    [][\A u \in Users :
          state'[u] # state[u] /\ state'[u] \in Reviewed \ {"submitted"} =>
              list[u] \notin shut]_vars
==============================================================================
