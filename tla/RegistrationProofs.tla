-------------------------- MODULE RegistrationProofs --------------------------
(***************************************************************************)
(* Proofs about registration for an event, for every set of users, regions *)
(* and capacities and every number of rounds and dates: the count of the   *)
(* places is exact, invitations fit the event, and a list that is locked   *)
(* is announced once.                                                      *)
(***************************************************************************)
EXTENDS EventRegistration, FiniteSetTheorems, TLAPS

\* Regions of an event that was published have a list.
RoundsInv == event # "draft" => \A g \in active : rounds[g] > 0

\* Nobody is invited before the event is published.
InvitedInv == InvitationsFit /\ (event = "draft" => \A u \in Users : invited[u] = "no")

\* What the lock of a list says of its announcements and of the worker's job.
Announced(r) ==
    /\ lock[r] = "no" => notices[r] = 0
    /\ lock[r] = "deadline" => notices[r] = 1 /\ job[r] = "completed"
    /\ lock[r] = "manual" => notices[r] = 1 \/ (notices[r] = 2 /\ job[r] = "completed")
    /\ r[2] > rounds[r[1]] => lock[r] = "no"

\* A list that an administrator is locking is not locked by hand already.
LockInv ==
    /\ \A r \in Rounds : Announced(r)
    /\ \A g \in Regions : locking[g] # NoRound =>
          /\ locking[g] \in Rounds /\ locking[g][1] = g /\ lock[locking[g]] # "manual"
          /\ locking[g][2] = 1 \/ locking[g][2] <= rounds[g]

\* The inductive invariant.
Inv == TypeOK /\ RoundsInv /\ PlacesExact /\ InvitedInv /\ LockInv

Statuses == Reviewed \cup Final \cup {"none"}
Jobs == {"none", "active", "completed", "failed", "superseded"}

-----------------------------------------------------------------------------
\* Before the event is published the invariant holds.
LEMMA InitInv == Init => Inv
  <1> SUFFICES ASSUME Init PROVE Inv
    OBVIOUS
  <1>1. 0 \in 0..MaxRounds /\ 0 \in 0..MaxWindows /\ 1 \in Windows /\ capacity \in Nat
    BY RegistrationAssumption DEF Init, Windows
  <1>2. TypeOK
    BY <1>1 DEF Init, TypeOK
  <1>3. PlacesExact
    <2>1. Selected(state) = {}
      BY DEF Init, Selected
    <2> QED
      BY <1>1, <2>1, FS_EmptySet DEF Init, PlacesExact
  <1>4. RoundsInv /\ InvitedInv
    BY DEF Init, RoundsInv, InvitedInv, InvitationsFit
  <1>5. LockInv
    BY DEF Init, LockInv, Announced, Rounds
  <1> QED
    BY <1>2, <1>3, <1>4, <1>5 DEF Inv

-----------------------------------------------------------------------------
\* Places.

LEMMA SelectedFinite == IsFiniteSet(Selected(state)) /\ IsFiniteSet(Selected(state'))
  BY RegistrationAssumption, FS_Subset DEF Selected

\* One registration changes, and the count with it.
LEMMA OneRegistration ==
    ASSUME Inv, NEW u \in Users, NEW x \in Statuses, state' = [state EXCEPT ![u] = x],
           capacity' = capacity,
           /\ x = "selected" /\ state[u] # "selected" =>
                 confirmed' = confirmed + 1 /\ confirmed < capacity
           /\ x # "selected" /\ state[u] = "selected" => confirmed' = confirmed - 1
           /\ (x = "selected" <=> state[u] = "selected") => confirmed' = confirmed
    PROVE  PlacesExact' /\ confirmed' \in Nat
  <1>1. /\ state \in [Users -> Statuses] /\ confirmed \in Nat /\ capacity \in Nat
        /\ confirmed = Cardinality(Selected(state)) /\ confirmed <= capacity
    BY RegistrationAssumption DEF Inv, TypeOK, PlacesExact, Statuses
  <1>2. CASE x = "selected"
    <2>1. Selected(state') = Selected(state) \cup {u}
      BY <1>1, <1>2 DEF Selected
    <2>2. u \in Selected(state) <=> state[u] = "selected"
      BY DEF Selected
    <2>3. Cardinality(Selected(state')) =
              IF u \in Selected(state) THEN Cardinality(Selected(state))
              ELSE Cardinality(Selected(state)) + 1
      BY <2>1, SelectedFinite, FS_AddElement
    <2>4. CASE state[u] = "selected"
      BY <1>1, <1>2, <2>2, <2>3, <2>4 DEF PlacesExact
    <2>5. CASE state[u] # "selected"
      <3>1. confirmed' = confirmed + 1 /\ confirmed < capacity
        BY <1>2, <2>5
      <3>2. confirmed' = Cardinality(Selected(state'))
        BY <1>1, <2>2, <2>3, <2>5, <3>1
      <3> QED
        BY <1>1, <3>1, <3>2 DEF PlacesExact
    <2> QED
      BY <2>4, <2>5
  <1>3. CASE x # "selected"
    <2>1. Selected(state') = Selected(state) \ {u}
      BY <1>1, <1>3 DEF Selected
    <2>2. u \in Selected(state) <=> state[u] = "selected"
      BY DEF Selected
    <2>3. Cardinality(Selected(state) \ {u}) =
              IF u \in Selected(state) THEN Cardinality(Selected(state)) - 1
              ELSE Cardinality(Selected(state))
      BY SelectedFinite, FS_RemoveElement
    <2>4. Cardinality(Selected(state')) \in Nat
      BY SelectedFinite, FS_CardinalityType
    <2>5. confirmed' = Cardinality(Selected(state'))
      BY <1>1, <1>3, <2>1, <2>2, <2>3
    <2>6. confirmed' <= confirmed
      BY <1>1, <1>3
    <2> QED
      BY <1>1, <2>4, <2>5, <2>6 DEF PlacesExact
  <1> QED
    BY <1>2, <1>3

\* Nothing that counts changes.
LEMMA SamePlaces ==
    ASSUME Inv, UNCHANGED <<state, confirmed, capacity>>
    PROVE  PlacesExact' /\ confirmed' \in Nat
  BY DEF Inv, TypeOK, PlacesExact, Selected

\* What people and administrators do to single registrations.
LEMMA PersonPlaces ==
    ASSUME Inv, NEW u \in Users,
           \/ \E g \in Regions \cup {None} :
                 Register(u, g) \/ AdminAdd(u, g) \/ Invite(u, g) \/ Reassign(u, g)
           \/ Revoke(u) \/ Accept(u) \/ Withdraw(u) \/ Attend(u)
           \/ \E d \in {"coordinator_approved", "coordinator_declined"} : Coordinate(u, d)
           \/ \E d \in Decisions : Decide(u, d)
    PROVE  PlacesExact' /\ confirmed' \in Nat
  <1>1. /\ state[u] \in Statuses /\ confirmed \in Nat
        /\ state[u] = "selected" => confirmed > 0
    <2>1. state[u] \in Statuses /\ confirmed \in Nat
      BY DEF Inv, TypeOK, Statuses
    <2>2. state[u] = "selected" => confirmed # 0
      BY SelectedFinite, FS_EmptySet DEF Inv, PlacesExact, Selected
    <2> QED
      BY <2>1, <2>2
  <1>2. CASE \E g \in Regions \cup {None} : Register(u, g)
    <2>1. PICK g : Register(u, g)
      BY <1>2
    <2>2. /\ state[u] = "none" /\ capacity' = capacity
          /\ \/ /\ confirmed < capacity /\ confirmed' = confirmed + 1
                /\ state' = [state EXCEPT ![u] = "selected"]
             \/ confirmed' = confirmed /\ state' = [state EXCEPT ![u] = "submitted"]
      BY <2>1 DEF Register, Registers
    <2> QED
      BY <2>2, OneRegistration DEF Statuses, Reviewed, Final
  <1>3. CASE \E g \in Regions \cup {None} : AdminAdd(u, g)
    <2>1. /\ state[u] = "none" /\ UNCHANGED <<capacity, confirmed>>
          /\ state' = [state EXCEPT ![u] = "submitted"]
      BY <1>3 DEF AdminAdd, Registers
    <2> QED
      BY <2>1, OneRegistration DEF Statuses, Reviewed
  <1>4. CASE \E g \in Regions \cup {None} : Invite(u, g)
    BY <1>4, SamePlaces DEF Invite
  <1>5. CASE \E g \in Regions \cup {None} : Reassign(u, g)
    <2>1. PICK x \in Statuses : /\ state' = [state EXCEPT ![u] = x]
                                /\ x = "selected" <=> state[u] = "selected"
      <3>1. state' = [state EXCEPT ![u] =
                          IF state[u] \in Final THEN state[u] ELSE "submitted"]
        BY <1>5 DEF Reassign, Registers
      <3>2. "submitted" \in Statuses
        BY DEF Statuses, Reviewed
      <3>3. state[u] \notin Final => state[u] # "selected"
        BY DEF Final
      <3>4. CASE state[u] \in Final
        BY <1>1, <3>1, <3>4
      <3>5. CASE state[u] \notin Final
        BY <3>1, <3>2, <3>3, <3>5
      <3> QED
        BY <3>4, <3>5
    <2>2. UNCHANGED <<capacity, confirmed>>
      BY <1>5 DEF Reassign
    <2> QED
      BY <2>1, <2>2, OneRegistration
  <1>6. CASE Revoke(u) \/ Attend(u)
    BY <1>6, SamePlaces DEF Revoke, Attend
  <1>7. CASE Accept(u)
    <2>1. CASE UNCHANGED state
      BY <1>7, <2>1, SamePlaces DEF Accept
    <2>2. CASE state[u] = "none" /\ state' = [state EXCEPT ![u] = "submitted"]
      BY <1>7, <2>2, OneRegistration DEF Accept, Statuses, Reviewed
    <2>3. \/ UNCHANGED state
          \/ state[u] = "none" /\ state' = [state EXCEPT ![u] = "submitted"]
      BY <1>7 DEF Accept, Registers
    <2> QED
      BY <2>1, <2>2, <2>3
  <1>8. CASE Withdraw(u)
    <2>1. state' = [state EXCEPT ![u] = "withdrawn"] /\ capacity' = capacity
      BY <1>8 DEF Withdraw
    <2>2. state[u] = "selected" => confirmed' = confirmed - 1
      BY <1>1, <1>8 DEF Withdraw
    <2>3. state[u] # "selected" => confirmed' = confirmed
      BY <1>8 DEF Withdraw
    <2>4. "withdrawn" \in Statuses
      BY DEF Statuses, Final
    <2>5. CASE state[u] = "selected"
      BY <2>1, <2>2, <2>4, <2>5, OneRegistration
    <2>6. CASE state[u] # "selected"
      BY <2>1, <2>3, <2>4, <2>6, OneRegistration
    <2> QED
      BY <2>5, <2>6
  <1>9. CASE \E d \in {"coordinator_approved", "coordinator_declined"} : Coordinate(u, d)
    <2>1. PICK d \in {"coordinator_approved", "coordinator_declined"} : Coordinate(u, d)
      BY <1>9
    <2>2. /\ state[u] # "selected" /\ state' = [state EXCEPT ![u] = d]
          /\ UNCHANGED <<capacity, confirmed>>
      BY <2>1 DEF Coordinate, Reviewed
    <2> QED
      BY <2>2, OneRegistration DEF Statuses, Reviewed
  <1>10. CASE \E d \in Decisions : Decide(u, d)
    <2>1. PICK d \in Decisions : Decide(u, d)
      BY <1>10
    <2>2. /\ d \in Statuses /\ state[u] # d /\ state' = [state EXCEPT ![u] = d]
          /\ capacity' = capacity /\ (d = "selected" => confirmed < capacity)
          /\ confirmed' = IF d = "selected" THEN confirmed + 1
                          ELSE IF state[u] = "selected" THEN confirmed - 1 ELSE confirmed
      BY <2>1, RegistrationAssumption DEF Decide, Statuses, Final
    <2>3. CASE d = "selected"
      BY <2>2, <2>3, OneRegistration
    <2>4. CASE d # "selected" /\ state[u] = "selected"
      BY <2>2, <2>4, OneRegistration
    <2>5. CASE d # "selected" /\ state[u] # "selected"
      BY <2>2, <2>5, OneRegistration
    <2> QED
      BY <2>3, <2>4, <2>5
  <1> QED
    BY <1>2, <1>3, <1>4, <1>5, <1>6, <1>7, <1>8, <1>9, <1>10

\* A reschedule gives the places of retired regions back.
LEMMA ReschedulePlaces ==
    ASSUME Inv, NEW p, NEW c \in Capacities, NEW A \in SUBSET Regions, NEW b \in BOOLEAN,
           Reschedule(p, c, A, b)
    PROVE  /\ PlacesExact' /\ confirmed' \in Nat /\ state' \in [Users -> Statuses]
  <1>1. /\ state \in [Users -> Statuses] /\ confirmed \in Nat /\ c \in Nat
        /\ confirmed = Cardinality(Selected(state))
    BY RegistrationAssumption DEF Inv, TypeOK, PlacesExact, Statuses
  <1>2. PICK out \in SUBSET Users :
           /\ state' = [u \in Users |-> IF u \in out THEN "cancelled" ELSE state[u]]
           /\ confirmed' = confirmed - Released(out) /\ capacity' = c /\ c >= confirmed
    BY DEF Reschedule
  <1>3. state' \in [Users -> Statuses]
    BY <1>1, <1>2 DEF Statuses, Final
  <1>4. Selected(state') = Selected(state) \ out
    BY <1>1, <1>2 DEF Selected
  <1>5. out \cap Selected(state) = Selected(state) \cap out
    OBVIOUS
  <1>6. confirmed' = Cardinality(Selected(state'))
    <2>1. Cardinality(Selected(state) \ out) =
              Cardinality(Selected(state)) - Cardinality(Selected(state) \cap out)
      BY SelectedFinite, FS_Difference
    <2>2. Released(out) = Cardinality(Selected(state) \cap out)
      BY <1>5 DEF Released
    <2> QED
      BY <1>1, <1>2, <1>4, <2>1, <2>2
  <1>7. Cardinality(Selected(state')) <= Cardinality(Selected(state))
    BY <1>4, SelectedFinite, FS_Subset
  <1>8. Cardinality(Selected(state')) \in Nat
    BY SelectedFinite, FS_CardinalityType
  <1> QED
    BY <1>1, <1>2, <1>3, <1>6, <1>7, <1>8 DEF PlacesExact

LEMMA TransitionPlaces ==
    ASSUME Inv, NEW target \in {"cancelled", "completed", "archived"}, Transition(target)
    PROVE  /\ PlacesExact' /\ confirmed' \in Nat /\ state' \in [Users -> Statuses]
  <1>1. state \in [Users -> Statuses] /\ capacity \in Nat
    BY RegistrationAssumption DEF Inv, TypeOK, Statuses
  <1>2. CASE target = "cancelled"
    <2>1. state' = [u \in Users |-> IF state[u] \in Gone \cup {"none"} THEN state[u]
                                    ELSE "cancelled"]
          /\ confirmed' = 0 /\ capacity' = capacity
      BY <1>2 DEF Transition
    <2>2. Selected(state') = {}
      BY <2>1 DEF Selected, Gone
    <2>3. state' \in [Users -> Statuses]
      BY <1>1, <2>1 DEF Statuses, Final
    <2> QED
      BY <1>1, <2>1, <2>2, <2>3, FS_EmptySet DEF PlacesExact
  <1>3. CASE target # "cancelled"
    <2>1. UNCHANGED <<state, confirmed, capacity>>
      BY <1>3 DEF Transition
    <2> QED
      BY <1>1, <2>1, SamePlaces
  <1> QED
    BY <1>2, <1>3

-----------------------------------------------------------------------------
\* Invitations.

\* Nobody else is invited, and the event stays as it was.
LEMMA SameInvited ==
    ASSUME Inv, event' = event, phase' = phase, window' = window, active' = active,
           \A u \in Users : invited'[u] \in {invited[u], "no"}
    PROVE  InvitedInv'
  BY DEF Inv, InvitedInv, InvitationsFit, Routes

LEMMA PersonInvited ==
    ASSUME Inv, NEW u \in Users,
           \/ \E g \in Regions \cup {None} :
                 Register(u, g) \/ AdminAdd(u, g) \/ Invite(u, g) \/ Reassign(u, g)
           \/ Revoke(u) \/ Accept(u) \/ Withdraw(u) \/ Attend(u)
           \/ \E d \in {"coordinator_approved", "coordinator_declined"} : Coordinate(u, d)
           \/ \E d \in Decisions : Decide(u, d)
    PROVE  InvitedInv'
  <1>1. UNCHANGED occurrenceVars
    BY DEF Register, AdminAdd, Invite, Reassign, Revoke, Accept, Withdraw, Attend,
           Coordinate, Decide, NothingElse
  <1>2. invited \in [Users -> Regions \cup {None, "no"}]
    BY DEF Inv, TypeOK
  <1>3. CASE \E g \in Regions \cup {None} : Invite(u, g)
    <2>1. PICK g : Invite(u, g)
      BY <1>3
    <2>2. /\ event = "published" /\ phase[window] # "open" /\ Routes(g)
          /\ invited' = [invited EXCEPT ![u] = g]
      BY <2>1 DEF Invite
    <2>3. \A v \in Users : invited'[v] = invited[v] \/ invited'[v] = g
      BY <1>2, <2>2
    <2>4. Routes(g)'
      BY <1>1, <2>2 DEF Routes, occurrenceVars
    <2>5. \A v \in Users : Routes(invited[v]) => Routes(invited[v])'
                                \/ invited'[v] # invited[v]
      BY <1>1 DEF Routes, occurrenceVars
    <2>6. InvitationsFit'
      BY <1>1, <2>2, <2>3, <2>4, <2>5 DEF Inv, InvitedInv, InvitationsFit, occurrenceVars
    <2> QED
      BY <1>1, <2>2, <2>6 DEF InvitedInv, occurrenceVars
  <1>4. CASE \A v \in Users : invited'[v] \in {invited[v], "no"}
    BY <1>1, <1>4, SameInvited DEF occurrenceVars
  <1>5. ~(\E g \in Regions \cup {None} : Invite(u, g)) =>
            invited' = invited \/ invited' = [invited EXCEPT ![u] = "no"]
    BY DEF Register, AdminAdd, Reassign, Revoke, Accept, Withdraw, Attend,
           Coordinate, Decide
  <1>6. ~(\E g \in Regions \cup {None} : Invite(u, g)) =>
            \A v \in Users : invited'[v] \in {invited[v], "no"}
    BY <1>2, <1>5
  <1> QED
    BY <1>3, <1>4, <1>6

\* A reschedule ends the invitations that do not fit any more.
LEMMA RescheduleInvited ==
    ASSUME Inv, NEW p, NEW c, NEW A \in SUBSET Regions, NEW b, Reschedule(p, c, A, b)
    PROVE  InvitedInv' /\ invited' \in [Users -> Regions \cup {None, "no"}]
  <1>1. /\ event = "published" /\ event' = event
        /\ invited' = [u \in Users |-> IF invited[u] # "no" /\ StillInvited(u)
                                       THEN invited[u] ELSE "no"]
    BY DEF Reschedule
  <1>2. ASSUME NEW u \in Users, invited'[u] # "no"
        PROVE  phase'[window'] # "open" /\ Routes(invited[u])' /\ invited'[u] = invited[u]
    BY <1>1, <1>2 DEF StillInvited, Routes
  <1>3. invited' \in [Users -> Regions \cup {None, "no"}]
    BY <1>1 DEF Inv, TypeOK
  <1> QED
    BY <1>1, <1>2, <1>3 DEF InvitedInv, InvitationsFit, Routes

-----------------------------------------------------------------------------
\* Locks and their announcements.

\* A job that is completed stays completed when schedules are refreshed or superseded.
LEMMA CompletedStays ==
    ASSUME Inv, NEW r \in Rounds, job[r] = "completed",
           RefreshOperational \/ \E R : Supersede(R) \/ UNCHANGED job
    PROVE  job'[r] = "completed"
  BY DEF RefreshOperational, Wanted, Supersede

\* More rounds and other dates, but no lock.
LEMMA SameLocks ==
    ASSUME Inv, UNCHANGED <<lock, notices>>,
           \A g \in Regions : locking'[g] \in {locking[g], NoRound},
           rounds' \in [Regions -> 0..MaxRounds],
           \A g \in Regions : rounds'[g] >= rounds[g],
           \A r \in Rounds : job[r] = "completed" => job'[r] = "completed"
    PROVE  LockInv'
  <1>1. rounds \in [Regions -> 0..MaxRounds] /\ MaxRounds \in Nat
    BY RegistrationAssumption DEF Inv, TypeOK
  <1>2. ASSUME NEW r \in Rounds PROVE Announced(r)'
    <2>1. r[1] \in Regions /\ r[2] \in Nat
      BY <1>1 DEF Rounds
    <2>2. Announced(r)
      BY DEF Inv, LockInv
    <2>3. r[2] > rounds'[r[1]] => r[2] > rounds[r[1]]
      BY <1>1, <2>1
    <2> QED
      BY <2>2, <2>3 DEF Announced
  <1>3. ASSUME NEW g \in Regions, locking'[g] # NoRound
        PROVE  /\ locking'[g] \in Rounds /\ locking'[g][1] = g
               /\ lock'[locking'[g]] # "manual"
               /\ locking'[g][2] = 1 \/ locking'[g][2] <= rounds'[g]
    <2>1. locking'[g] = locking[g]
      BY <1>3
    <2>2. /\ locking[g] \in Rounds /\ locking[g][1] = g /\ lock[locking[g]] # "manual"
          /\ locking[g][2] = 1 \/ locking[g][2] <= rounds[g]
      BY <1>3, <2>1 DEF Inv, LockInv
    <2>3. locking[g][2] \in Nat
      BY <2>2 DEF Rounds
    <2> QED
      BY <1>1, <2>1, <2>2, <2>3
  <1> QED
    BY <1>2, <1>3 DEF LockInv

\* An administrator begins to lock a list, and writes the lock.
LEMMA LockBeginInv ==
    ASSUME Inv, NEW g \in Regions, LockBegin(g)
    PROVE  LockInv' /\ locking' \in [Regions -> Rounds \cup {NoRound}]
  <1> DEFINE r == IF rounds[g] = 0 THEN <<g, 1>> ELSE Latest(g)
  <1>1. /\ locking' = [locking EXCEPT ![g] = r] /\ UNCHANGED <<rounds, lock, notices, job>>
        /\ rounds[g] > 0 => lock[Latest(g)] = "no"
    BY DEF LockBegin, scheduleVars
  <1>2. rounds[g] \in 0..MaxRounds /\ MaxRounds \in Nat \ {0}
    BY RegistrationAssumption DEF Inv, TypeOK
  <1>3. /\ r \in Rounds /\ r[1] = g /\ (r[2] = 1 \/ r[2] <= rounds[g])
    BY <1>2 DEF Latest, Rounds
  <1>4. lock[r] = "no"
    <2>1. CASE rounds[g] = 0
      <3>1. r[2] > rounds[r[1]]
        BY <1>2, <2>1
      <3> QED
        BY <1>3, <3>1 DEF Inv, LockInv, Announced
    <2>2. CASE rounds[g] # 0
      BY <1>1, <1>2, <2>2
    <2> QED
      BY <2>1, <2>2
  <1> HIDE DEF r
  <1>5. locking \in [Regions -> Rounds \cup {NoRound}]
    BY DEF Inv, TypeOK
  <1>6. \A x \in Rounds : Announced(x)'
    BY <1>1 DEF Inv, LockInv, Announced
  <1>7. ASSUME NEW h \in Regions, locking'[h] # NoRound
        PROVE  /\ locking'[h] \in Rounds /\ locking'[h][1] = h
               /\ lock'[locking'[h]] # "manual"
               /\ locking'[h][2] = 1 \/ locking'[h][2] <= rounds'[h]
    <2>1. CASE h = g
      BY <1>1, <1>3, <1>4, <1>5, <2>1
    <2>2. CASE h # g
      <3>1. locking'[h] = locking[h]
        BY <1>1, <1>5, <2>2
      <3> QED
        BY <1>1, <1>7, <3>1 DEF Inv, LockInv
    <2> QED
      BY <2>1, <2>2
  <1> QED
    BY <1>1, <1>3, <1>5, <1>6, <1>7 DEF LockInv

LEMMA LockCommitInv ==
    ASSUME Inv, NEW g \in Regions, LockCommit(g)
    PROVE  LockInv' /\ locking[g] \in Rounds
  <1> DEFINE r == locking[g]
  <1>1. /\ r # NoRound /\ locking' = [locking EXCEPT ![g] = NoRound]
        /\ rounds' = [rounds EXCEPT ![g] = IF rounds[g] = 0 THEN 1 ELSE rounds[g]]
        /\ lock' = [lock EXCEPT ![r] = "manual"]
        /\ notices' = [notices EXCEPT ![r] = notices[r] + 1] /\ Supersede({r})
    BY DEF LockCommit
  <1>2. /\ r \in Rounds /\ r[1] = g /\ lock[r] \in {"no", "deadline"}
        /\ r[2] = 1 \/ r[2] <= rounds[g]
    BY <1>1 DEF Inv, LockInv, TypeOK
  <1> HIDE DEF r
  <1>3. /\ rounds \in [Regions -> 0..MaxRounds] /\ MaxRounds \in Nat \ {0}
        /\ lock \in [Rounds -> {"no", "manual", "deadline"}] /\ notices \in [Rounds -> Nat]
        /\ locking \in [Regions -> Rounds \cup {NoRound}]
    BY RegistrationAssumption DEF Inv, TypeOK
  <1>4. \A x \in Rounds : job[x] = "completed" => job'[x] = "completed"
    BY <1>1, CompletedStays
  <1>5. ASSUME NEW x \in Rounds PROVE Announced(x)'
    <2>1. Announced(x) /\ x[1] \in Regions /\ x[2] \in Nat
      BY <1>3 DEF Inv, LockInv, Rounds
    <2>2. x[2] > rounds'[x[1]] => x[2] > rounds[x[1]]
      BY <1>1, <1>3, <2>1
    <2>3. CASE x = r
      <3>1. lock'[x] = "manual" /\ notices'[x] = notices[x] + 1
        BY <1>1, <1>3, <2>3
      <3>2. /\ lock[x] = "no" => notices[x] = 0
            /\ lock[x] = "deadline" => notices[x] = 1 /\ job[x] = "completed"
        BY <2>1 DEF Announced
      <3>3. notices'[x] = 1 \/ (notices'[x] = 2 /\ job'[x] = "completed")
        BY <1>2, <1>4, <2>3, <3>1, <3>2
      <3>4. ~(x[2] > rounds'[x[1]])
        BY <1>1, <1>2, <1>3, <2>1, <2>3
      <3> QED
        BY <3>1, <3>3, <3>4 DEF Announced
    <2>4. CASE x # r
      <3>1. lock'[x] = lock[x] /\ notices'[x] = notices[x]
        BY <1>1, <1>3, <2>4
      <3> QED
        BY <1>4, <2>1, <2>2, <3>1 DEF Announced
    <2> QED
      BY <2>3, <2>4
  <1>6. ASSUME NEW h \in Regions, locking'[h] # NoRound
        PROVE  /\ locking'[h] \in Rounds /\ locking'[h][1] = h
               /\ lock'[locking'[h]] # "manual"
               /\ locking'[h][2] = 1 \/ locking'[h][2] <= rounds'[h]
    <2>1. h # g /\ locking'[h] = locking[h] /\ rounds'[h] = rounds[h]
      BY <1>1, <1>3, <1>6
    <2>2. /\ locking[h] \in Rounds /\ locking[h][1] = h /\ lock[locking[h]] # "manual"
          /\ locking[h][2] = 1 \/ locking[h][2] <= rounds[h]
      BY <1>6, <2>1 DEF Inv, LockInv
    <2>3. locking[h] # r
      BY <1>2, <2>1, <2>2
    <2>4. lock'[locking[h]] = lock[locking[h]]
      BY <1>1, <1>3, <2>2, <2>3
    <2> QED
      BY <2>1, <2>2, <2>4
  <1> QED
    BY <1>2, <1>5, <1>6 DEF LockInv, r

\* The worker locks a list that nobody has locked.
LEMMA ProcessInv ==
    ASSUME Inv, NEW r \in Rounds, Process(r)
    PROVE  LockInv'
  <1>1. /\ UNCHANGED <<rounds, locking>> /\ job' = [job EXCEPT ![r] = "completed"]
        /\ \/ UNCHANGED <<lock, notices>>
           \/ /\ r = Latest(r[1]) /\ lock[r] = "no"
              /\ lock' = [lock EXCEPT ![r] = "deadline"]
              /\ notices' = [notices EXCEPT ![r] = notices[r] + 1]
    BY DEF Process
  <1>2. /\ rounds \in [Regions -> 0..MaxRounds] /\ MaxRounds \in Nat
        /\ lock \in [Rounds -> {"no", "manual", "deadline"}] /\ notices \in [Rounds -> Nat]
        /\ job \in [Rounds -> Jobs]
    BY RegistrationAssumption DEF Inv, TypeOK, Jobs
  <1>3. \A x \in Rounds : job[x] = "completed" => job'[x] = "completed"
    BY <1>1, <1>2
  <1>4. CASE UNCHANGED <<lock, notices>>
    <2>1. \A g \in Regions : rounds'[g] >= rounds[g]
      BY <1>1, <1>2
    <2>2. rounds' \in [Regions -> 0..MaxRounds]
          /\ \A g \in Regions : locking'[g] \in {locking[g], NoRound}
      BY <1>1, <1>2
    <2> QED
      BY <1>3, <1>4, <2>1, <2>2, SameLocks
  <1>5. CASE /\ r = Latest(r[1]) /\ lock[r] = "no"
             /\ lock' = [lock EXCEPT ![r] = "deadline"]
             /\ notices' = [notices EXCEPT ![r] = notices[r] + 1]
    <2>1. Announced(r) /\ r[1] \in Regions /\ r[2] = rounds[r[1]] /\ r[2] \in Nat
      BY <1>2, <1>5 DEF Inv, LockInv, Rounds, Latest
    <2>2. /\ lock'[r] = "deadline" /\ job'[r] = "completed"
          /\ notices[r] = 0 /\ notices'[r] = 1
      BY <1>1, <1>2, <1>5, <2>1 DEF Announced
    <2>3. ASSUME NEW x \in Rounds PROVE Announced(x)'
      <3>1. CASE x = r
        BY <1>1, <2>1, <2>2, <3>1 DEF Announced
      <3>2. CASE x # r
        <4>1. /\ lock'[x] = lock[x] /\ notices'[x] = notices[x] /\ job'[x] = job[x]
              /\ Announced(x)
          BY <1>1, <1>2, <1>5, <3>2 DEF Inv, LockInv
        <4> QED
          BY <1>1, <4>1 DEF Announced
      <3> QED
        BY <3>1, <3>2
    <2>4. \A x \in Rounds : lock[x] # "manual" => lock'[x] # "manual"
      BY <1>2, <1>5
    <2> QED
      BY <1>1, <2>3, <2>4 DEF Inv, LockInv
  <1> QED
    BY <1>1, <1>4, <1>5

-----------------------------------------------------------------------------
\* Types.

\* The schedules keep their types when the rounds keep theirs.
LEMMA ScheduleTypes ==
    ASSUME Inv, win' \in [Rounds -> 0..MaxWindows],
           RefreshOperational \/ (\E R : Supersede(R)) \/ UNCHANGED scheduleVars
    PROVE  job' \in [Rounds -> Jobs] /\ due' \in [Rounds -> 0..MaxWindows]
  <1>1. job \in [Rounds -> Jobs] /\ due \in [Rounds -> 0..MaxWindows]
    BY DEF Inv, TypeOK, Jobs
  <1>2. CASE RefreshOperational
    BY <1>1, <1>2 DEF RefreshOperational, Jobs
  <1>3. CASE \E R : Supersede(R)
    BY <1>1, <1>3 DEF Supersede, Jobs
  <1>4. CASE UNCHANGED scheduleVars
    BY <1>1, <1>4 DEF scheduleVars
  <1> QED
    BY <1>2, <1>3, <1>4

\* The list of an active region exists.
LEMMA LatestType ==
    ASSUME Inv, event # "draft", NEW g \in active
    PROVE  g \in Regions /\ Latest(g) \in Rounds
  BY RegistrationAssumption DEF Inv, RoundsInv, TypeOK, Latest, Rounds

\* The types of the variables of the registrations.
RegistrationTypes ==
    /\ state \in [Users -> Statuses] /\ region \in [Users -> Regions \cup {None}]
    /\ list \in [Users -> Rounds \cup {NoRound}]
    /\ invited \in [Users -> Regions \cup {None, "no"}] /\ attended \subseteq Users

\* The variables of the registrations keep their types when a person acts.
LEMMA PersonTypes ==
    ASSUME Inv, NEW u \in Users,
           \/ \E g \in Regions \cup {None} :
                 Register(u, g) \/ AdminAdd(u, g) \/ Invite(u, g) \/ Reassign(u, g)
           \/ Revoke(u) \/ Accept(u) \/ Withdraw(u) \/ Attend(u)
           \/ \E d \in {"coordinator_approved", "coordinator_declined"} : Coordinate(u, d)
           \/ \E d \in Decisions : Decide(u, d)
    PROVE  RegistrationTypes'
  <1>1. RegistrationTypes /\ active \subseteq Regions
    BY DEF Inv, TypeOK, RegistrationTypes, Statuses
  <1>2. /\ "selected" \in Statuses /\ "submitted" \in Statuses /\ "withdrawn" \in Statuses
        /\ "coordinator_approved" \in Statuses /\ "coordinator_declined" \in Statuses
        /\ Decisions \subseteq Statuses
    BY RegistrationAssumption DEF Statuses, Reviewed, Final
  <1>3. ASSUME NEW g \in Regions \cup {None}, NEW l \in Rounds \cup {NoRound},
               NEW x \in Statuses, Registers(u, g, l, x),
               UNCHANGED attended, invited' \in {invited, [invited EXCEPT ![u] = "no"]}
        PROVE  RegistrationTypes'
    <2>1. invited' \in [Users -> Regions \cup {None, "no"}]
      BY <1>1, <1>3 DEF RegistrationTypes
    <2> QED
      BY <1>1, <1>3, <2>1 DEF Registers, RegistrationTypes
  <1>4. ASSUME NEW x \in Statuses, state' = [state EXCEPT ![u] = x],
               UNCHANGED <<region, list, invited, attended>>
        PROVE  RegistrationTypes'
    BY <1>1, <1>4 DEF RegistrationTypes
  <1>5. ASSUME NEW g \in Regions \cup {None, "no"}, invited' = [invited EXCEPT ![u] = g],
               UNCHANGED <<state, region, list, attended>>
        PROVE  RegistrationTypes'
    BY <1>1, <1>5 DEF RegistrationTypes
  <1>6. CASE \E g \in Regions \cup {None} : Register(u, g)
    <2>1. PICK g \in Regions \cup {None} : Register(u, g)
      BY <1>6
    <2>2. g # None => g \in active
      BY <2>1 DEF Register, Routes
    <2>3. (IF g = None THEN NoRound ELSE Latest(g)) \in Rounds \cup {NoRound}
      BY <2>1, <2>2, LatestType DEF Register
    <2> QED
      BY <1>2, <1>3, <2>1, <2>3 DEF Register
  <1>7. CASE \E g \in Regions \cup {None} : AdminAdd(u, g)
    BY <1>2, <1>3, <1>7 DEF AdminAdd
  <1>8. CASE \E g \in Regions \cup {None} : Invite(u, g)
    BY <1>5, <1>8 DEF Invite
  <1>9. CASE \E g \in Regions \cup {None} : Reassign(u, g)
    <2>1. PICK g \in Regions \cup {None} : Reassign(u, g)
      BY <1>9
    <2>2. Latest(g) \in Rounds
      BY <2>1, LatestType DEF Reassign
    <2>3. PICK l \in {Latest(g), NoRound}, x \in {state[u], "submitted"} :
             Registers(u, g, l, x)
      BY <2>1 DEF Reassign
    <2>4. state[u] \in Statuses
      BY <1>1 DEF RegistrationTypes
    <2> QED
      BY <1>2, <1>3, <2>1, <2>2, <2>3, <2>4 DEF Reassign
  <1>10. CASE Revoke(u)
    BY <1>5, <1>10 DEF Revoke
  <1>11. CASE Accept(u)
    <2>1. CASE state[u] = "none" /\ Routes(invited[u])
      <3>1. invited[u] \in Regions \cup {None}
        BY <1>1, <1>11 DEF Accept, RegistrationTypes
      <3> QED
        BY <1>2, <1>3, <1>11, <2>1, <3>1 DEF Accept
    <2>2. CASE ~(state[u] = "none" /\ Routes(invited[u]))
      BY <1>5, <1>11, <2>2 DEF Accept
    <2> QED
      BY <2>1, <2>2
  <1>12. CASE Withdraw(u)
    BY <1>2, <1>4, <1>12 DEF Withdraw
  <1>13. CASE Attend(u)
    BY <1>1, <1>13 DEF Attend, RegistrationTypes
  <1>14. CASE \E d \in {"coordinator_approved", "coordinator_declined"} : Coordinate(u, d)
    BY <1>2, <1>4, <1>14 DEF Coordinate
  <1>15. CASE \E d \in Decisions : Decide(u, d)
    <2>1. PICK d \in Decisions : Decide(u, d)
      BY <1>15
    <2>2. d \in Statuses
      BY <1>2
    <2> QED
      BY <1>4, <2>1, <2>2 DEF Decide
  <1> QED
    BY <1>6, <1>7, <1>8, <1>9, <1>10, <1>11, <1>12, <1>13, <1>14, <1>15

-----------------------------------------------------------------------------
\* Every step keeps the invariant.

LEMMA PersonInv ==
    ASSUME Inv, NEW u \in Users,
           \/ \E g \in Regions \cup {None} :
                 Register(u, g) \/ AdminAdd(u, g) \/ Invite(u, g) \/ Reassign(u, g)
           \/ Revoke(u) \/ Accept(u) \/ Withdraw(u) \/ Attend(u)
           \/ \E d \in {"coordinator_approved", "coordinator_declined"} : Coordinate(u, d)
           \/ \E d \in Decisions : Decide(u, d)
    PROVE  Inv'
  <1>1. /\ UNCHANGED <<event, mode, active, window, phase, capacity>>
        /\ UNCHANGED <<rounds, win, lock, locking, notices, shut, job, due>>
    BY DEF Register, AdminAdd, Invite, Reassign, Revoke, Accept, Withdraw, Attend,
           Coordinate, Decide, NothingElse, occurrenceVars, roundVars, scheduleVars
  <1>2. PlacesExact' /\ confirmed' \in Nat
    BY PersonPlaces
  <1>3. TypeOK'
    BY <1>1, <1>2, PersonTypes DEF Inv, TypeOK, RegistrationTypes, Statuses
  <1>4. RoundsInv'
    BY <1>1 DEF Inv, RoundsInv
  <1>5. InvitedInv'
    BY PersonInvited
  <1>6. LockInv'
    BY <1>1 DEF Inv, LockInv, Announced
  <1> QED
    BY <1>2, <1>3, <1>4, <1>5, <1>6 DEF Inv

LEMMA PublishInv ==
    ASSUME Inv, Publish
    PROVE  Inv'
  <1>1. /\ event = "draft" /\ event' = "published"
        /\ UNCHANGED <<mode, active, window, phase, lock, locking, notices, shut>>
        /\ UNCHANGED <<capacity, confirmed, state, region, list, invited, attended>>
        /\ rounds' = [g \in Regions |-> IF g \in active /\ rounds[g] = 0 THEN 1
                                        ELSE rounds[g]]
        /\ win' = [r \in Rounds |-> IF r[1] \in {g \in active : rounds[g] = 0} /\ r[2] = 1
                                    THEN window ELSE win[r]]
        /\ RefreshOperational
    BY DEF Publish, registrationVars
  <1>2. /\ rounds \in [Regions -> 0..MaxRounds] /\ MaxRounds \in Nat \ {0}
        /\ win \in [Rounds -> 0..MaxWindows] /\ window \in 1..MaxWindows
        /\ active \subseteq Regions /\ MaxWindows \in Nat
    BY RegistrationAssumption DEF Inv, TypeOK, Windows
  <1>3. /\ rounds' \in [Regions -> 0..MaxRounds]
        /\ \A g \in Regions : rounds'[g] >= rounds[g]
        /\ \A g \in active' : rounds'[g] > 0
    BY <1>1, <1>2
  <1>4. win' \in [Rounds -> 0..MaxWindows]
    BY <1>1, <1>2
  <1>5. TypeOK'
    BY <1>1, <1>3, <1>4, ScheduleTypes DEF Inv, TypeOK, Jobs
  <1>6. RoundsInv'
    BY <1>3 DEF RoundsInv
  <1>7. PlacesExact'
    BY <1>1, SamePlaces
  <1>8. InvitedInv'
    BY <1>1 DEF Inv, InvitedInv, InvitationsFit
  <1>9. LockInv'
    BY <1>1, <1>3, CompletedStays, SameLocks
  <1> QED
    BY <1>5, <1>6, <1>7, <1>8, <1>9 DEF Inv

\* An administrator locks a list, or gives up.
LEMMA LockingInv ==
    ASSUME Inv, NEW g \in Regions, LockBegin(g) \/ LockCommit(g) \/ LockAbort(g)
    PROVE  Inv'
  <1>1. /\ UNCHANGED <<capacity, confirmed, state, region, list, invited, attended>>
        /\ UNCHANGED <<event, mode, active, window, phase>>
    BY DEF LockBegin, LockCommit, LockAbort, registrationVars, occurrenceVars
  <1>2. /\ rounds \in [Regions -> 0..MaxRounds] /\ MaxRounds \in Nat \ {0}
        /\ win \in [Rounds -> 0..MaxWindows] /\ window \in 1..MaxWindows
        /\ locking \in [Regions -> Rounds \cup {NoRound}] /\ MaxWindows \in Nat
        /\ lock \in [Rounds -> {"no", "manual", "deadline"}] /\ notices \in [Rounds -> Nat]
        /\ shut \subseteq Rounds /\ active \subseteq Regions
    BY RegistrationAssumption DEF Inv, TypeOK, Windows
  <1>3. PlacesExact' /\ InvitedInv'
    BY <1>1, SamePlaces, SameInvited
  <1>4. CASE LockBegin(g)
    <2>1. UNCHANGED <<rounds, win, lock, notices, shut, job, due>>
      BY <1>4 DEF LockBegin, scheduleVars
    <2>2. LockInv' /\ locking' \in [Regions -> Rounds \cup {NoRound}]
      BY <1>4, LockBeginInv
    <2>3. TypeOK' /\ RoundsInv'
      BY <1>1, <2>1, <2>2 DEF Inv, TypeOK, RoundsInv
    <2> QED
      BY <1>3, <2>2, <2>3 DEF Inv
  <1>5. CASE LockCommit(g)
    <2> DEFINE r == locking[g]
    <2>1. LockInv' /\ r \in Rounds
      BY <1>5, LockCommitInv
    <2>2. /\ locking' = [locking EXCEPT ![g] = NoRound]
          /\ rounds' = [rounds EXCEPT ![g] = IF rounds[g] = 0 THEN 1 ELSE rounds[g]]
          /\ win' = [win EXCEPT ![r] = IF rounds[g] = 0 THEN window ELSE win[r]]
          /\ lock' = [lock EXCEPT ![r] = "manual"]
          /\ notices' = [notices EXCEPT ![r] = notices[r] + 1]
          /\ shut' = shut \cup {r} /\ Supersede({r})
      BY <1>5 DEF LockCommit
    <2> HIDE DEF r
    <2>3. rounds' \in [Regions -> 0..MaxRounds] /\ \A h \in Regions : rounds'[h] >= rounds[h]
      BY <1>2, <2>2
    <2>4. win' \in [Rounds -> 0..MaxWindows]
      <3>1. (IF rounds[g] = 0 THEN window ELSE win[r]) \in 0..MaxWindows
        BY <1>2, <2>1
      <3> QED
        BY <1>2, <2>2, <3>1
    <2>5. /\ locking' \in [Regions -> Rounds \cup {NoRound}] /\ notices' \in [Rounds -> Nat]
          /\ lock' \in [Rounds -> {"no", "manual", "deadline"}] /\ shut' \subseteq Rounds
      BY <1>2, <2>1, <2>2
    <2>6. job' \in [Rounds -> Jobs] /\ due' \in [Rounds -> 0..MaxWindows]
      BY <2>2, <2>4, ScheduleTypes
    <2>7. TypeOK'
      BY <1>1, <2>3, <2>4, <2>5, <2>6 DEF Inv, TypeOK, Jobs
    <2>8. RoundsInv'
      BY <1>1, <1>2, <2>3 DEF Inv, RoundsInv
    <2> QED
      BY <1>3, <2>1, <2>7, <2>8 DEF Inv
  <1>6. CASE LockAbort(g)
    <2>1. /\ UNCHANGED <<rounds, win, lock, notices, shut, job, due>>
          /\ locking' = [locking EXCEPT ![g] = NoRound]
      BY <1>6 DEF LockAbort, scheduleVars
    <2>2. /\ locking' \in [Regions -> Rounds \cup {NoRound}]
          /\ \A h \in Regions : locking'[h] \in {locking[h], NoRound}
      BY <1>2, <2>1
    <2>3. rounds' \in [Regions -> 0..MaxRounds] /\ \A h \in Regions : rounds'[h] >= rounds[h]
      BY <1>2, <2>1
    <2>4. LockInv'
      BY <2>1, <2>2, <2>3, SameLocks
    <2>5. TypeOK' /\ RoundsInv'
      BY <1>1, <2>1, <2>2 DEF Inv, TypeOK, RoundsInv
    <2> QED
      BY <1>3, <2>4, <2>5 DEF Inv
  <1> QED
    BY <1>4, <1>5, <1>6

LEMMA RescheduleInv ==
    ASSUME Inv, NEW p \in {"keep", "replace_future", "reopen"}, NEW c \in Capacities,
           NEW A \in SUBSET Regions, NEW b \in BOOLEAN, Reschedule(p, c, A, b)
    PROVE  Inv'
  <1> DEFINE k == IF p = "keep" THEN window ELSE window + 1
  <1>1. /\ event = "published" /\ k \in Windows /\ window' = k /\ active' = A
        /\ Allowed(p, A) /\ \A g \in A : NextRounds(p, A)[g] <= MaxRounds
        /\ capacity' = c /\ rounds' = NextRounds(p, A) /\ RefreshOperational
        /\ phase' = [phase EXCEPT ![k] = IF p = "reopen" THEN "open" ELSE phase[window]]
        /\ win' = [r \in Rounds |-> IF r \in Moved(p, A) THEN k ELSE win[r]]
        /\ UNCHANGED <<event, mode, lock, locking, notices, shut, region, list, attended>>
    BY DEF Reschedule
  <1> HIDE DEF k
  <1>2. /\ rounds \in [Regions -> 0..MaxRounds] /\ MaxRounds \in Nat \ {0}
        /\ win \in [Rounds -> 0..MaxWindows] /\ MaxWindows \in Nat
        /\ phase \in [Windows -> {"open", "closed", "locked"}] /\ window \in Windows
    BY RegistrationAssumption DEF Inv, TypeOK
  <1>3. /\ rounds' \in [Regions -> 0..MaxRounds]
        /\ \A g \in Regions : rounds'[g] >= rounds[g]
    <2>1. ASSUME NEW g \in Regions
          PROVE  rounds'[g] \in 0..MaxRounds /\ rounds'[g] >= rounds[g]
      <3>1. rounds[g] \in 0..MaxRounds
        BY <1>2
      <3>2. rounds'[g] \in {rounds[g], rounds[g] + 1} /\ (g \notin A => rounds'[g] = rounds[g])
        BY <1>1 DEF NextRounds
      <3>3. g \in A => rounds'[g] <= MaxRounds
        BY <1>1
      <3> QED
        BY <1>2, <3>1, <3>2, <3>3
    <2>2. rounds' = [g \in Regions |-> rounds'[g]]
      BY <1>1 DEF NextRounds
    <2> QED
      BY <2>1, <2>2
  <1>4. RoundsInv'
    <2>1. ASSUME NEW g \in A PROVE rounds'[g] > 0
      <3>1. rounds[g] \in Nat
        BY <1>2
      <3>2. CASE p = "reopen"
        <4>1. rounds[g] = 0 => rounds'[g] = 1
          BY <1>1, <3>2 DEF NextRounds
        <4>2. rounds'[g] >= rounds[g] /\ rounds'[g] \in Nat
          BY <1>2, <1>3
        <4> QED
          BY <3>1, <4>1, <4>2
      <3>3. CASE p # "reopen"
        <4>1. g \in active
          BY <1>1, <3>3 DEF Allowed
        <4>2. rounds[g] > 0
          BY <1>1, <4>1 DEF Inv, RoundsInv
        <4> QED
          BY <1>1, <3>1, <3>3, <4>2 DEF NextRounds
      <3> QED
        BY <3>2, <3>3
    <2> QED
      BY <1>1, <2>1 DEF RoundsInv
  <1>5. win' \in [Rounds -> 0..MaxWindows]
    BY <1>1, <1>2 DEF Windows
  <1>6. phase' \in [Windows -> {"open", "closed", "locked"}]
    BY <1>1, <1>2
  <1>7. job' \in [Rounds -> Jobs] /\ due' \in [Rounds -> 0..MaxWindows]
    BY <1>1, <1>5, ScheduleTypes
  <1>8. PlacesExact' /\ confirmed' \in Nat /\ state' \in [Users -> Statuses]
    BY ReschedulePlaces
  <1>9. InvitedInv' /\ invited' \in [Users -> Regions \cup {None, "no"}]
    BY RescheduleInvited
  <1>10. TypeOK'
    BY <1>1, <1>3, <1>5, <1>6, <1>7, <1>8, <1>9 DEF Inv, TypeOK, Statuses, Jobs
  <1>11. LockInv'
    BY <1>1, <1>3, CompletedStays, SameLocks
  <1> QED
    BY <1>4, <1>8, <1>9, <1>10, <1>11 DEF Inv

LEMMA TransitionInv ==
    ASSUME Inv, NEW t \in {"cancelled", "completed", "archived"}, Transition(t)
    PROVE  Inv'
  <1>1. /\ event' = t /\ event # "draft" /\ Supersede(Rounds)
        /\ UNCHANGED <<capacity, region, list, attended, mode, active, window, phase>>
        /\ UNCHANGED <<rounds, win, lock, locking, notices, shut>>
        /\ invited' = invited \/ invited' = [u \in Users |-> "no"]
    BY DEF Transition, roundVars
  <1>2. /\ rounds \in [Regions -> 0..MaxRounds] /\ MaxRounds \in Nat
        /\ win \in [Rounds -> 0..MaxWindows]
        /\ invited \in [Users -> Regions \cup {None, "no"}]
    BY RegistrationAssumption DEF Inv, TypeOK
  <1>3. /\ rounds' \in [Regions -> 0..MaxRounds]
        /\ \A g \in Regions : rounds'[g] >= rounds[g]
    BY <1>1, <1>2
  <1>4. job' \in [Rounds -> Jobs] /\ due' \in [Rounds -> 0..MaxWindows]
    BY <1>1, <1>2, ScheduleTypes
  <1>5. PlacesExact' /\ confirmed' \in Nat /\ state' \in [Users -> Statuses]
    BY TransitionPlaces
  <1>6. invited' \in [Users -> Regions \cup {None, "no"}]
    BY <1>1, <1>2
  <1>7. TypeOK'
    BY <1>1, <1>4, <1>5, <1>6 DEF Inv, TypeOK, Statuses, Jobs
  <1>8. RoundsInv' /\ InvitedInv'
    BY <1>1 DEF Inv, RoundsInv, InvitedInv, InvitationsFit
  <1>9. LockInv'
    BY <1>1, <1>3, CompletedStays, SameLocks
  <1> QED
    BY <1>5, <1>7, <1>8, <1>9 DEF Inv

\* A date passes, or the worker takes a schedule.
LEMMA TimeInv ==
    ASSUME Inv, \/ \E k \in Windows : Tick(k)
                \/ \E r \in Rounds : Process(r) \/ Fail(r)
    PROVE  Inv'
  <1>1. /\ UNCHANGED <<capacity, confirmed, state, region, list, invited, attended>>
        /\ UNCHANGED <<event, mode, active, window, rounds, win, locking>>
    BY DEF Tick, Process, Fail, registrationVars, occurrenceVars, roundVars
  <1>2. /\ rounds \in [Regions -> 0..MaxRounds] /\ MaxRounds \in Nat
        /\ job \in [Rounds -> Jobs] /\ due \in [Rounds -> 0..MaxWindows]
        /\ lock \in [Rounds -> {"no", "manual", "deadline"}] /\ notices \in [Rounds -> Nat]
        /\ phase \in [Windows -> {"open", "closed", "locked"}] /\ window \in Windows
        /\ shut \subseteq Rounds
    BY RegistrationAssumption DEF Inv, TypeOK, Jobs
  <1>3. /\ rounds' \in [Regions -> 0..MaxRounds]
        /\ \A g \in Regions : rounds'[g] >= rounds[g]
    BY <1>1, <1>2
  <1>4. PlacesExact' /\ confirmed' \in Nat /\ RoundsInv'
    BY <1>1, SamePlaces DEF Inv, RoundsInv
  <1>5. CASE \E k \in Windows : Tick(k)
    <2>1. PICK k \in Windows : Tick(k)
      BY <1>5
    <2>2. /\ UNCHANGED <<lock, notices, job, due>>
          /\ \/ phase[k] = "open" /\ phase' = [phase EXCEPT ![k] = "closed"]
             \/ phase[k] = "closed" /\ phase' = [phase EXCEPT ![k] = "locked"]
          /\ shut' \subseteq Rounds
      BY <1>2, <2>1 DEF Tick, scheduleVars
    <2>3. /\ phase' \in [Windows -> {"open", "closed", "locked"}]
          /\ \A w \in Windows : phase[w] # "open" => phase'[w] # "open"
      BY <1>2, <2>2
    <2>4. TypeOK'
      BY <1>1, <2>2, <2>3 DEF Inv, TypeOK
    <2>5. InvitedInv'
      BY <1>1, <1>2, <2>3 DEF Inv, InvitedInv, InvitationsFit, Routes
    <2>6. LockInv'
      BY <1>1, <1>3, <2>2, SameLocks
    <2> QED
      BY <1>4, <2>4, <2>5, <2>6 DEF Inv
  <1>6. CASE \E r \in Rounds : Process(r)
    <2>1. PICK r \in Rounds : Process(r)
      BY <1>6
    <2>2. /\ UNCHANGED <<phase, shut, due>> /\ job' = [job EXCEPT ![r] = "completed"]
          /\ \/ UNCHANGED <<lock, notices>>
             \/ /\ lock' = [lock EXCEPT ![r] = "deadline"]
                /\ notices' = [notices EXCEPT ![r] = notices[r] + 1]
      BY <2>1 DEF Process, occurrenceVars
    <2>3. job' \in [Rounds -> Jobs]
      BY <1>2, <2>2 DEF Jobs
    <2>4. lock' \in [Rounds -> {"no", "manual", "deadline"}] /\ notices' \in [Rounds -> Nat]
      BY <1>2, <2>2
    <2>5. TypeOK'
      BY <1>1, <2>2, <2>3, <2>4 DEF Inv, TypeOK, Jobs
    <2>6. InvitedInv'
      BY <1>1, <2>2, SameInvited
    <2>7. LockInv'
      BY <2>1, ProcessInv
    <2> QED
      BY <1>4, <2>5, <2>6, <2>7 DEF Inv
  <1>7. CASE \E r \in Rounds : Fail(r)
    <2>1. PICK r \in Rounds : Fail(r)
      BY <1>7
    <2>2. /\ UNCHANGED <<phase, shut, due, lock, notices>>
          /\ job[r] = "active" /\ job' = [job EXCEPT ![r] = "failed"]
      BY <2>1 DEF Fail, occurrenceVars, roundVars
    <2>3. job' \in [Rounds -> Jobs]
          /\ \A x \in Rounds : job[x] = "completed" => job'[x] = "completed"
      BY <1>2, <2>2 DEF Jobs
    <2>4. TypeOK'
      BY <1>1, <2>2, <2>3 DEF Inv, TypeOK, Jobs
    <2>5. InvitedInv'
      BY <1>1, <2>2, SameInvited
    <2>6. LockInv'
      BY <1>1, <1>3, <2>2, <2>3, SameLocks
    <2> QED
      BY <1>4, <2>4, <2>5, <2>6 DEF Inv
  <1> QED
    BY <1>5, <1>6, <1>7

LEMMA NextInv == Inv /\ [Next]_vars => Inv'
  <1> SUFFICES ASSUME Inv, [Next]_vars PROVE Inv'
    OBVIOUS
  <1>1. CASE Publish
    BY <1>1, PublishInv
  <1>2. CASE \E u \in Users, g \in Regions \cup {None} :
                Register(u, g) \/ AdminAdd(u, g) \/ Invite(u, g) \/ Reassign(u, g)
    BY <1>2, PersonInv
  <1>3. CASE \E u \in Users : Revoke(u) \/ Accept(u) \/ Withdraw(u) \/ Attend(u)
    BY <1>3, PersonInv
  <1>4. CASE \E u \in Users, d \in {"coordinator_approved", "coordinator_declined"} :
                Coordinate(u, d)
    BY <1>4, PersonInv
  <1>5. CASE \E u \in Users, d \in Decisions : Decide(u, d)
    BY <1>5, PersonInv
  <1>6. CASE \E g \in Regions : LockBegin(g) \/ LockCommit(g) \/ LockAbort(g)
    BY <1>6, LockingInv
  <1>7. CASE \E p \in {"keep", "replace_future", "reopen"}, c \in Capacities,
                A \in SUBSET Regions, b \in BOOLEAN : Reschedule(p, c, A, b)
    BY <1>7, RescheduleInv
  <1>8. CASE \E t \in {"cancelled", "completed", "archived"} : Transition(t)
    BY <1>8, TransitionInv
  <1>9. CASE \/ \E k \in Windows : Tick(k)
             \/ \E r \in Rounds : Process(r) \/ Fail(r)
    BY <1>9, TimeInv
  <1>10. CASE UNCHANGED vars
    BY <1>10 DEF vars, registrationVars, occurrenceVars, roundVars, scheduleVars, Inv,
           TypeOK, RoundsInv, PlacesExact, Selected, InvitedInv, InvitationsFit, Routes,
           LockInv, Announced
  <1> QED
    BY <1>1, <1>2, <1>3, <1>4, <1>5, <1>6, <1>7, <1>8, <1>9, <1>10 DEF Next

LEMMA Invariance == Spec => []Inv
  BY InitInv, NextInv, PTL DEF Spec

-----------------------------------------------------------------------------
\* The results.

\* Every variable keeps its type.
THEOREM TypeCorrect == Spec => []TypeOK
  BY Invariance, PTL DEF Inv

\* confirmedCount is the number of selected registrations and within the capacity,
\* whatever people, administrators, reschedules and cancellations do in any order.
THEOREM PlacesCounted == Spec => []PlacesExact
  BY Invariance, PTL DEF Inv

\* No late invitation is outstanding while registration is open, or for a region
\* that the event does not have.
THEOREM InvitationsStayFit == Spec => []InvitationsFit
  <1>1. Inv => InvitationsFit
    BY DEF Inv, InvitedInv
  <1> QED
    BY <1>1, Invariance, PTL

\* The lock of a list is announced once, or twice when an administrator's lock that
\* was under way overwrites the worker's.
THEOREM LocksAnnouncedOnce == Spec => []AnnouncedOnce
  <1>1. ASSUME Inv PROVE AnnouncedOnce
    <2>1. ASSUME NEW r \in Rounds
          PROVE  /\ lock[r] # "no" <=> notices[r] > 0
                 /\ notices[r] > 1 =>
                       notices[r] = 2 /\ lock[r] = "manual" /\ job[r] = "completed"
      <3>1. /\ Announced(r) /\ lock[r] \in {"no", "manual", "deadline"}
        BY <1>1 DEF Inv, LockInv, TypeOK
      <3> QED
        BY <3>1 DEF Announced
    <2> QED
      BY <2>1 DEF AnnouncedOnce
  <1> QED
    BY <1>1, Invariance, PTL
==============================================================================
