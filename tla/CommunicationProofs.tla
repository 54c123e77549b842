------------------------- MODULE CommunicationProofs -------------------------
(***************************************************************************)
(* Proofs about the scheduled communications of an event, for every number *)
(* of communications, workers, attempts, changes and faults: one active    *)
(* schedule and one holder, and emails that are sent once and as planned.  *)
(***************************************************************************)
EXTENDS EventCommunications, TLAPS

\* A worker's job exists, and the row has counted at least the attempt of every
\* worker that may still do its work.
JobInv ==
    \A w \in Workers : at[w] # "idle" =>
        /\ job[w] \in Schedules /\ status[job[w]] # "absent" /\ claimed[w] >= 1
        /\ at[w] = "claimed" => claimed[w] <= attempts[job[w]]

\* The revisions of a communication are numbered from 1 without a gap, and none is
\* made but by a change of the plan.
Numbered(l, n) ==
    /\ n <= changes + 1 /\ (event = "draft" => n = 0)
    /\ \A i \in 1..MaxRevisions : status[<<l, i>>] # "absent" <=> i <= n

NumberInv == \A l \in Logical : \E n \in 0..MaxRevisions : Numbered(l, n)

\* An active schedule carries the revision and the dates in force.
PlanInv ==
    \A s \in Schedules : status[s] \in Active =>
        event \in {"published", "completed"} /\ plan[s] = <<revision[s[1]], dates>>

\* A communication that was sent is completed, and then it is not active again.
MailInv ==
    /\ \A l \in Logical : mailed[l] = 0 \/ (mailed[l] = 1 /\ Completed(l))
    /\ \A s, t \in Schedules :
          s[1] = t[1] /\ status[s] = "completed" => status[t] \notin Active

\* The inductive invariant.
Inv ==
    TypeOK /\ JobInv /\ OneHolder /\ OneActive /\ NumberInv /\ PlanInv /\ MailInv

Statuses == {"absent", "pending", "processing", "completed", "failed", "superseded"}

-----------------------------------------------------------------------------
\* Before anything is planned the invariant holds.
LEMMA InitInv == Init => Inv
  <1> SUFFICES ASSUME Init PROVE Inv
    OBVIOUS
  <1>1. TypeOK
    BY ScheduleAssumption, CommunicationAssumption
       DEF Init, ScheduleInit, TypeOK, ScheduleTypeOK, NoPlan, NoJob
  <1>2. JobInv /\ OneHolder
    BY DEF Init, ScheduleInit, JobInv, OneHolder
  <1>3. OneActive /\ PlanInv /\ MailInv
    BY DEF Init, ScheduleInit, OneActive, PlanInv, MailInv, Active
  <1>4. NumberInv
    <2> SUFFICES ASSUME NEW l \in Logical PROVE \E n \in 0..MaxRevisions : Numbered(l, n)
      BY DEF NumberInv
    <2>1. \A i \in 1..MaxRevisions : <<l, i>> \in Schedules
      BY DEF Schedules
    <2>2. Numbered(l, 0)
      BY <2>1, ScheduleAssumption DEF Init, ScheduleInit, Numbered
    <2>3. 0 \in 0..MaxRevisions
      BY ScheduleAssumption
    <2> QED
      BY <2>2, <2>3
  <1> QED
    BY <1>1, <1>2, <1>3, <1>4 DEF Inv

\* While there may be another change, the next revision of a communication is free.
LEMMA NextRevisionFacts ==
    ASSUME Inv, NEW l \in Logical, NEW n \in 0..MaxRevisions, Numbered(l, n),
           event = "draft" \/ changes < MaxChanges
    PROVE  /\ n + 1 \in 1..MaxRevisions /\ NextRevision(l) = <<l, n + 1>>
           /\ <<l, n + 1>> \in Schedules /\ status[<<l, n + 1>>] = "absent"
  <1>1. changes \in 0..MaxChanges /\ MaxChanges \in Nat /\ MaxRevisions \in Nat
        /\ MaxRevisions > MaxChanges
    BY ScheduleAssumption, CommunicationAssumption DEF Inv, TypeOK
  <1>2. n + 1 \in 1..MaxRevisions
    BY <1>1 DEF Numbered
  <1>3. <<l, n + 1>> \in Schedules /\ status[<<l, n + 1>>] = "absent"
    BY <1>2 DEF Numbered, Schedules
  <1>4. \A t \in Unused(l) : \E i \in 1..MaxRevisions : t = <<l, i>> /\ i >= n + 1
    BY <1>1 DEF Unused, Schedules, Numbered
  <1>5. <<l, n + 1>> \in Unused(l) /\ \A t \in Unused(l) : n + 1 <= t[2]
    BY <1>1, <1>3, <1>4 DEF Unused
  <1>6. \A s \in Unused(l) : (\A t \in Unused(l) : s[2] <= t[2]) => s = <<l, n + 1>>
    BY <1>1, <1>4, <1>5
  <1> QED
    BY <1>2, <1>3, <1>5, <1>6 DEF NextRevision

\* A refresh of the schedules preserves the invariant.
LEMMA RefreshInv ==
    ASSUME Inv, NEW e \in {"draft", "published"}, NEW R \in [Logical -> Nat],
           NEW d \in Nat, RefreshSchedules(e, R, d),
           event' = e, revision' = R, dates' = d, UNCHANGED <<mailed, defers>>,
           UNCHANGED workerVars, UNCHANGED faultVars,
           \/ event = "draft" /\ changes' \in changes..MaxChanges
           \/ event = "published" /\ e = "published" /\ changes < MaxChanges
              /\ changes' = changes + 1
    PROVE  Inv'
  <1> DEFINE S == UNION {ActiveOf(l) : l \in {m \in Logical : Obsolete(m, e, R[m], d)}}
             Due == {m \in Logical : Stale(m, e, R[m], d)}
             N == {NextRevision(l) : l \in Due}
  <1>1. PICK D \in SUBSET N : Rewrite(S, N, D)
    BY DEF RefreshSchedules
  <1>2. plan' = [s \in Schedules |-> IF s \in N THEN <<R[s[1]], d>> ELSE plan[s]]
    BY DEF RefreshSchedules
  <1>3. UNCHANGED <<at, job, claimed, late, faults, mailed, defers>>
    BY DEF workerVars, faultVars
  <1>4. /\ status \in [Schedules -> Statuses] /\ attempts \in [Schedules -> Nat]
        /\ ready \subseteq Schedules /\ changes \in 0..MaxChanges
        /\ event = "draft" \/ changes < MaxChanges
    BY DEF Inv, TypeOK, ScheduleTypeOK, Statuses
  \* The rows that are inserted: the next revision of every stale communication.
  <1>5. ASSUME NEW l \in Logical
        PROVE  \E n \in 0..MaxRevisions :
                  /\ Numbered(l, n) /\ n + 1 \in 1..MaxRevisions
                  /\ NextRevision(l) = <<l, n + 1>>
                  /\ <<l, n + 1>> \in Schedules /\ status[<<l, n + 1>>] = "absent"
    <2>1. PICK n \in 0..MaxRevisions : Numbered(l, n)
      BY DEF Inv, NumberInv
    <2> QED
      BY <1>4, <2>1, NextRevisionFacts
  <1>6. \A s \in N : s \in Schedules /\ status[s] = "absent" /\ s[1] \in Due
                     /\ s = NextRevision(s[1])
    <2> SUFFICES ASSUME NEW l \in Due
                 PROVE  LET s == NextRevision(l) IN
                        s \in Schedules /\ status[s] = "absent" /\ s[1] = l
      OBVIOUS
    <2>1. l \in Logical
      OBVIOUS
    <2>2. PICK n \in 0..MaxRevisions :
             /\ NextRevision(l) = <<l, n + 1>>
             /\ <<l, n + 1>> \in Schedules /\ status[<<l, n + 1>>] = "absent"
      BY <1>5, <2>1
    <2>3. <<l, n + 1>>[1] = l
      OBVIOUS
    <2> QED
      BY <2>2, <2>3
  <1>7. \A s \in S : s \in Schedules /\ status[s] \in Active
    BY DEF ActiveOf
  <1>8. \A s \in Schedules : s[1] \in Logical
    BY DEF Schedules
  <1>9. \A s \in Schedules : status[s] \in Active /\ s \notin S =>
              ~Obsolete(s[1], e, R[s[1]], d)
    BY <1>8 DEF ActiveOf
  <1> HIDE DEF S, N
  <1>10. /\ status' = [s \in Schedules |-> IF s \in S THEN "superseded"
                                          ELSE IF s \in N THEN "pending" ELSE status[s]]
         /\ attempts' = [s \in Schedules |-> IF s \in N THEN 0 ELSE attempts[s]]
         /\ ready' = (ready \ S) \cup (N \cap D)
    BY <1>1 DEF Rewrite
  <1>11. TypeOK'
    <2>1. status' \in [Schedules -> Statuses] /\ attempts' \in [Schedules -> Nat]
          /\ ready' \subseteq Schedules
      BY <1>4, <1>6, <1>10 DEF Statuses
    <2>2. plan' \in [Schedules -> Nat \X Nat]
      BY <1>2, <1>8 DEF Inv, TypeOK
    <2>3. changes' \in 0..MaxChanges
      BY <1>4, CommunicationAssumption
    <2> QED
      BY <1>3, <2>1, <2>2, <2>3 DEF Inv, TypeOK, ScheduleTypeOK, Statuses
  <1>12. JobInv' /\ OneHolder'
    BY <1>3, <1>4, <1>6, <1>7, <1>10 DEF Inv, JobInv, OneHolder, Active
  <1>13. \A s \in Schedules : status'[s] \in Active =>
            \/ s \in N /\ s[1] \in Due
            \/ s \notin N /\ status[s] \in Active /\ ~Obsolete(s[1], e, R[s[1]], d)
    BY <1>6, <1>9, <1>10 DEF Active
  <1>14. \A m \in Due : Obsolete(m, e, R[m], d)
    BY DEF Obsolete
  <1>15. OneActive'
    <2> SUFFICES ASSUME NEW s \in Schedules, NEW t \in Schedules, s[1] = t[1],
                        status'[s] \in Active, status'[t] \in Active
                 PROVE  s = t
      BY DEF OneActive
    <2>1. CASE s \in N /\ t \in N
      BY <1>6, <2>1
    <2>2. CASE s \notin N /\ t \notin N
      BY <1>13, <2>2 DEF Inv, OneActive
    <2> QED
      BY <1>13, <1>14, <2>1, <2>2
  <1>16. NumberInv'
    <2> SUFFICES ASSUME NEW l \in Logical PROVE \E n \in 0..MaxRevisions : Numbered(l, n)'
      BY DEF NumberInv
    <2>1. PICK n \in 0..MaxRevisions :
             /\ Numbered(l, n) /\ n + 1 \in 1..MaxRevisions
             /\ NextRevision(l) = <<l, n + 1>>
             /\ <<l, n + 1>> \in Schedules /\ status[<<l, n + 1>>] = "absent"
      BY <1>5
    <2>2. \A i \in 1..MaxRevisions : <<l, i>> \in Schedules /\ <<l, i>>[1] = l
      BY DEF Schedules
    <2>3. \A i \in 1..MaxRevisions : <<l, i>> \in N <=> l \in Due /\ i = n + 1
      <3>1. \A i \in 1..MaxRevisions : <<l, i>> \in N => l \in Due /\ i = n + 1
        BY <1>6, <2>1, <2>2
      <3>2. l \in Due => <<l, n + 1>> \in N
        BY <2>1 DEF N
      <3> QED
        BY <3>1, <3>2
    <2>4. \A i \in 1..MaxRevisions :
             status'[<<l, i>>] # "absent" <=>
                 (i <= n \/ (l \in Due /\ i = n + 1))
      BY <1>4, <1>7, <1>10, <2>1, <2>2, <2>3 DEF Numbered, Active
    <2>5. l \in Due => e = "published"
      BY DEF Stale
    <2>6. CASE l \in Due
      <3>1. n + 1 <= changes' + 1
        BY <1>4, <2>1 DEF Numbered
      <3> QED
        BY <2>1, <2>4, <2>5, <2>6, <3>1 DEF Numbered
    <2>7. CASE l \notin Due
      <3>1. n <= changes' + 1 /\ (e = "draft" => n = 0)
        BY <1>4, <2>1 DEF Numbered
      <3> QED
        BY <2>1, <2>4, <2>7, <3>1 DEF Numbered
    <2> QED
      BY <2>6, <2>7
  <1>17. PlanInv'
    <2> SUFFICES ASSUME NEW s \in Schedules, status'[s] \in Active
                 PROVE  e = "published" /\ plan'[s] = <<R[s[1]], d>>
      BY DEF PlanInv
    <2>1. CASE s \in N /\ s[1] \in Due
      BY <1>2, <2>1 DEF Stale
    <2>2. CASE s \notin N /\ status[s] \in Active /\ ~Obsolete(s[1], e, R[s[1]], d)
      <3>1. e = "published" /\ \E t \in ActiveOf(s[1]) : plan[t] = <<R[s[1]], d>>
        BY <2>2 DEF Obsolete, Stale
      <3>2. plan[s] = <<R[s[1]], d>>
        BY <2>2, <3>1 DEF ActiveOf, Inv, OneActive
      <3> QED
        BY <1>2, <2>2, <3>1, <3>2
    <2> QED
      BY <1>13, <2>1, <2>2
  <1>18. MailInv'
    <2>1. \A s \in Schedules : status'[s] = "completed" <=> status[s] = "completed"
      BY <1>6, <1>7, <1>10 DEF Active
    <2>2. \A l \in Logical : Completed(l)' <=> Completed(l)
      BY <2>1 DEF Completed
    <2>3. \A s \in Schedules : status'[s] \in Active /\ s \in N => ~Completed(s[1])
      BY <1>6 DEF Stale
    <2> QED
      BY <1>3, <1>13, <2>1, <2>2, <2>3 DEF Inv, MailInv, Completed
  <1> QED
    BY <1>11, <1>12, <1>15, <1>16, <1>17, <1>18 DEF Inv

-----------------------------------------------------------------------------
\* The transactions of the administrators preserve the invariant.
LEMMA AdminInv ==
    ASSUME Inv,
           \/ Publish \/ UpdateDraft \/ Reschedule
           \/ \E l \in Logical : Revise(l)
    PROVE  Inv'
  <1>1. /\ revision \in [Logical -> Nat] /\ dates \in Nat /\ dates + 1 \in Nat
        /\ changes \in 0..MaxChanges /\ MaxChanges \in Nat
        /\ changes \in changes..MaxChanges
        /\ Changes => changes' = changes + 1 /\ changes < MaxChanges
                      /\ changes' \in changes..MaxChanges
    BY CommunicationAssumption DEF Inv, TypeOK, Changes
  <1>2. CASE Publish
    BY <1>1, <1>2, RefreshInv DEF Publish
  <1>3. CASE UpdateDraft
    <2>1. /\ event = "draft" /\ event' = "draft" /\ dates' = dates + 1
          /\ RefreshSchedules("draft", revision, dates + 1) /\ revision' = revision
          /\ UNCHANGED <<mailed, defers>> /\ UNCHANGED workerVars /\ UNCHANGED faultVars
          /\ changes' \in changes..MaxChanges
      BY <1>1, <1>3 DEF UpdateDraft
    <2> QED
      BY <1>1, <2>1, RefreshInv
  <1>4. CASE Reschedule
    <2>1. /\ event = "published" /\ event' = "published" /\ dates' = dates + 1
          /\ RefreshSchedules("published", revision, dates + 1) /\ revision' = revision
          /\ UNCHANGED <<mailed, defers>> /\ UNCHANGED workerVars /\ UNCHANGED faultVars
          /\ changes' = changes + 1 /\ changes < MaxChanges
      BY <1>1, <1>4 DEF Reschedule
    <2> QED
      BY <1>1, <2>1, RefreshInv
  <1>5. ASSUME NEW l \in Logical, Revise(l) PROVE Inv'
    <2>1. /\ event \in {"draft", "published"} /\ event' = event /\ dates' = dates
          /\ RefreshSchedules(event, revision', dates)
          /\ UNCHANGED <<mailed, defers>> /\ UNCHANGED workerVars /\ UNCHANGED faultVars
          /\ changes' = changes + 1 /\ changes < MaxChanges
          /\ changes' \in changes..MaxChanges
      BY <1>1, <1>5 DEF Revise
    <2>2. revision' \in [Logical -> Nat]
      BY <1>1, <1>5 DEF Revise
    <2>3. PICK R \in [Logical -> Nat] : R = revision'
      BY <2>2
    <2>4. RefreshSchedules(event, R, dates)
      BY <2>1, <2>3
    <2> QED
      BY <1>1, <2>1, <2>3, <2>4, RefreshInv
  <1> QED
    BY <1>2, <1>3, <1>4, <1>5

LEMMA TransitionInv ==
    ASSUME Inv, NEW target \in {"cancelled", "completed", "archived"}, Transition(target)
    PROVE  Inv'
  <1>1. /\ event \in {"published", "cancelled", "completed"} /\ event' = target
        /\ UNCHANGED <<dates, revision, plan, mailed, changes, defers>>
        /\ UNCHANGED <<at, job, claimed, late, faults>>
        /\ target = "completed" => event = "published"
    BY DEF Transition, workerVars, faultVars
  <1>2. /\ status \in [Schedules -> Statuses] /\ attempts \in [Schedules -> Nat]
        /\ ready \subseteq Schedules
    BY DEF Inv, TypeOK, ScheduleTypeOK, Statuses
  <1>3. /\ attempts' = attempts /\ ready' \subseteq ready
        /\ \/ target = "completed" /\ status' = status
           \/ status' = [s \in Schedules |-> IF status[s] \in Active THEN "superseded"
                                            ELSE status[s]]
    <2>1. CASE target = "completed"
      BY <2>1 DEF Transition, rowVars
    <2>2. CASE target # "completed"
      <3>1. Rewrite({s \in Schedules : status[s] \in Active}, {}, {})
        BY <2>2 DEF Transition
      <3>2. attempts' = [s \in Schedules |-> attempts[s]]
        BY <3>1 DEF Rewrite
      <3>3. status' = [s \in Schedules |-> IF status[s] \in Active THEN "superseded"
                                          ELSE status[s]]
        BY <3>1 DEF Rewrite
      <3>4. ready' \subseteq ready
        BY <3>1 DEF Rewrite
      <3> QED
        BY <1>2, <3>2, <3>3, <3>4
    <2> QED
      BY <2>1, <2>2
  <1>4. \A s \in Schedules :
           /\ status'[s] = "absent" <=> status[s] = "absent"
           /\ status'[s] = "completed" <=> status[s] = "completed"
           /\ status'[s] \in Active => status[s] \in Active /\ target = "completed"
    BY <1>2, <1>3 DEF Active
  <1>5. TypeOK'
    BY <1>1, <1>2, <1>3 DEF Inv, TypeOK, ScheduleTypeOK, Statuses
  <1>6. JobInv' /\ OneHolder' /\ OneActive'
    BY <1>1, <1>3, <1>4 DEF Inv, JobInv, OneHolder, OneActive
  <1>7. NumberInv'
    <2>1. \A l \in Logical, i \in 1..MaxRevisions : <<l, i>> \in Schedules
      BY DEF Schedules
    <2> QED
      BY <1>1, <1>4, <2>1 DEF Inv, NumberInv, Numbered
  <1>8. PlanInv'
    BY <1>1, <1>4 DEF Inv, PlanInv
  <1>9. MailInv'
    BY <1>1, <1>4 DEF Inv, MailInv, Completed
  <1> QED
    BY <1>5, <1>6, <1>7, <1>8, <1>9 DEF Inv

-----------------------------------------------------------------------------
\* A step of a worker changes one row, which stays where it is in its plan.
LEMMA RowInv ==
    ASSUME Inv, NEW s \in Schedules, NEW to \in Statuses,
           status' = [status EXCEPT ![s] = to],
           to # status[s] => status[s] \in Active /\ to # "absent",
           UNCHANGED <<event, dates, revision, plan, changes>>
    PROVE  OneActive' /\ NumberInv' /\ PlanInv'
  <1>1. status \in [Schedules -> Statuses]
    BY DEF Inv, TypeOK, ScheduleTypeOK, Statuses
  <1>2. \A t \in Schedules :
           /\ status'[t] = "absent" <=> status[t] = "absent"
           /\ status'[t] \in Active => status[t] \in Active
    BY <1>1 DEF Active
  <1>3. OneActive' /\ PlanInv'
    BY <1>2 DEF Inv, OneActive, PlanInv
  <1>4. NumberInv'
    <2>1. \A l \in Logical, i \in 1..MaxRevisions : <<l, i>> \in Schedules
      BY DEF Schedules
    <2> QED
      BY <1>2, <2>1 DEF Inv, NumberInv, Numbered
  <1> QED
    BY <1>3, <1>4

LEMMA ClaimInv ==
    ASSUME Inv, NEW w \in Workers, NEW s \in Schedules, Claim(w, s), UNCHANGED eventVars
    PROVE  Inv'
  <1>1. /\ status \in [Schedules -> Statuses] /\ attempts \in [Schedules -> Nat]
        /\ at \in [Workers -> {"idle", "claimed", "failing"}]
        /\ job \in [Workers -> Schedules \cup {NoJob}] /\ claimed \in [Workers -> Nat]
    BY DEF Inv, TypeOK, ScheduleTypeOK, Statuses
  <1>2. /\ status[s] \in Active /\ status' = [status EXCEPT ![s] = "processing"]
        /\ attempts' = [attempts EXCEPT ![s] = attempts[s] + 1] /\ ready' = ready \ {s}
        /\ at' = [at EXCEPT ![w] = "claimed"] /\ job' = [job EXCEPT ![w] = s]
        /\ claimed' = [claimed EXCEPT ![w] = attempts[s] + 1]
        /\ UNCHANGED <<late, faults, event, dates, revision, plan, mailed, changes, defers>>
    BY DEF Claim, faultVars, eventVars
  <1>3. TypeOK'
    BY <1>1, <1>2 DEF Inv, TypeOK, ScheduleTypeOK, Statuses
  <1>4. JobInv'
    BY <1>1, <1>2 DEF Inv, JobInv
  <1>5. OneHolder'
    <2>1. \A v \in Workers \ {w} : at[v] = "claimed" /\ job[v] = s => claimed[v] < attempts[s] + 1
      BY <1>1 DEF Inv, JobInv
    <2> QED
      BY <1>1, <1>2, <2>1 DEF Inv, OneHolder
  <1>6. OneActive' /\ NumberInv' /\ PlanInv'
    BY <1>2, RowInv DEF Statuses
  <1>7. MailInv'
    BY <1>1, <1>2 DEF Inv, MailInv, Completed, Active
  <1> QED
    BY <1>3, <1>4, <1>5, <1>6, <1>7 DEF Inv

\* What is known of a worker that still holds its row.
LEMMA HeldFacts ==
    ASSUME Inv, NEW w \in Workers, at[w] # "idle"
    PROVE  /\ job[w] \in Schedules /\ status \in [Schedules -> Statuses]
           /\ attempts \in [Schedules -> Nat] /\ mailed \in [Logical -> Nat]
           /\ at \in [Workers -> {"idle", "claimed", "failing"}]
           /\ job \in [Workers -> Schedules \cup {NoJob}] /\ claimed \in [Workers -> Nat]
           /\ claimed[w] - 1 \in Nat /\ job[w][1] \in Logical
           /\ Held(w) => status[job[w]] = "processing" /\ attempts[job[w]] = claimed[w]
  BY DEF Inv, TypeOK, ScheduleTypeOK, Statuses, JobInv, Held, Schedules

\* A worker that ends, goes on to its catch block or dies keeps the invariant, if it
\* leaves the rows alone.
LEMMA WorkerInv ==
    ASSUME Inv, NEW w \in Workers, at[w] # "idle",
           \/ Idle(w)
           \/ at' = [at EXCEPT ![w] = "failing"] /\ UNCHANGED <<job, claimed>>
    PROVE  /\ at' \in [Workers -> {"idle", "claimed", "failing"}]
           /\ job' \in [Workers -> Schedules \cup {NoJob}]
           /\ claimed' \in [Workers -> Nat] /\ at'[w] # "claimed"
           /\ at'[w] # "idle" => job'[w] = job[w] /\ claimed'[w] = claimed[w]
           /\ \A v \in Workers \ {w} :
                 at'[v] = at[v] /\ job'[v] = job[v] /\ claimed'[v] = claimed[v]
  BY DEF Inv, TypeOK, ScheduleTypeOK, Idle

\* One settles its row: the attempt may be given back, and what was sent is counted.
LEMMA SettleInv ==
    ASSUME Inv, NEW w \in Workers, at[w] # "idle", Held(w),
           \/ Idle(w)
           \/ at' = [at EXCEPT ![w] = "failing"] /\ UNCHANGED <<job, claimed>>,
           NEW to \in {"pending", "failed", "completed"},
           status' = [status EXCEPT ![job[w]] = to],
           \/ attempts' = attempts
           \/ at[w] = "claimed" /\ attempts' = [attempts EXCEPT ![job[w]] = claimed[w] - 1],
           \/ mailed' = mailed
           \/ /\ to = "completed"
              /\ mailed' = [mailed EXCEPT ![job[w][1]] = mailed[job[w][1]] + 1],
           UNCHANGED <<ready, event, dates, revision, plan, changes>>,
           late' \in 0..MaxLate, faults' \in 0..MaxFaults, defers' \in 0..MaxDefers
    PROVE  Inv'
  <1> DEFINE s == job[w]
  <1>1. /\ s \in Schedules /\ status \in [Schedules -> Statuses]
        /\ attempts \in [Schedules -> Nat] /\ mailed \in [Logical -> Nat]
        /\ claimed[w] - 1 \in Nat /\ s[1] \in Logical /\ status[s] = "processing"
        /\ attempts[s] = claimed[w] /\ to \in Statuses
    BY HeldFacts DEF Statuses
  <1>2. /\ at' \in [Workers -> {"idle", "claimed", "failing"}]
        /\ job' \in [Workers -> Schedules \cup {NoJob}]
        /\ claimed' \in [Workers -> Nat] /\ at'[w] # "claimed"
        /\ at'[w] # "idle" => job'[w] = job[w] /\ claimed'[w] = claimed[w]
        /\ \A v \in Workers \ {w} :
              at'[v] = at[v] /\ job'[v] = job[v] /\ claimed'[v] = claimed[v]
    BY WorkerInv
  <1> HIDE DEF s
  <1>3. /\ status' = [status EXCEPT ![s] = to]
        /\ \/ attempts' = attempts
           \/ /\ at[w] = "claimed"
              /\ attempts' = [attempts EXCEPT ![s] = claimed[w] - 1]
        /\ \/ mailed' = mailed
           \/ /\ to = "completed"
              /\ mailed' = [mailed EXCEPT ![s[1]] = mailed[s[1]] + 1]
    BY DEF s
  <1>4. TypeOK'
    <2>1. status' \in [Schedules -> Statuses]
      BY <1>1, <1>3
    <2>2. attempts' \in [Schedules -> Nat]
      BY <1>1, <1>3
    <2>3. mailed' \in [Logical -> Nat]
      BY <1>1, <1>3
    <2>4. /\ ready' \subseteq Schedules /\ dates' \in Nat
          /\ event' \in {"draft", "published", "completed", "cancelled", "archived"}
          /\ revision' \in [Logical -> Nat] /\ plan' \in [Schedules -> Nat \X Nat]
          /\ changes' \in 0..MaxChanges
      BY DEF Inv, TypeOK, ScheduleTypeOK
    <2> QED
      BY <1>2, <2>1, <2>2, <2>3, <2>4 DEF TypeOK, ScheduleTypeOK, Statuses
  <1>5. JobInv'
    <2> SUFFICES ASSUME NEW v \in Workers, at'[v] # "idle"
                 PROVE  /\ job'[v] \in Schedules /\ status'[job'[v]] # "absent"
                        /\ claimed'[v] >= 1
                        /\ at'[v] = "claimed" => claimed'[v] <= attempts'[job'[v]]
      BY DEF JobInv
    <2>1. at[v] # "idle" /\ job'[v] = job[v] /\ claimed'[v] = claimed[v]
      BY <1>2
    <2>2. /\ job[v] \in Schedules /\ status[job[v]] # "absent" /\ claimed[v] >= 1
          /\ at[v] = "claimed" => claimed[v] <= attempts[job[v]]
      BY <2>1 DEF Inv, JobInv
    <2>3. status'[job[v]] # "absent"
      BY <1>1, <1>3, <2>2
    <2>4. ASSUME at'[v] = "claimed" PROVE claimed[v] <= attempts'[job[v]]
      <3>1. v # w /\ at[v] = "claimed"
        BY <1>2, <2>4
      <3>2. CASE attempts' = attempts
        BY <2>2, <3>1, <3>2
      <3>3. CASE /\ at[w] = "claimed" /\ job[v] = s
                 /\ attempts' = [attempts EXCEPT ![s] = claimed[w] - 1]
        <4>1. claimed[v] # claimed[w] /\ claimed[v] \in Nat /\ claimed[w] \in Nat
          BY <3>1, <3>3 DEF Inv, OneHolder, TypeOK, ScheduleTypeOK, s
        <4> QED
          BY <1>1, <2>2, <3>1, <3>3, <4>1
      <3>4. CASE job[v] # s
        BY <1>1, <1>3, <2>2, <3>1, <3>4
      <3> QED
        BY <1>3, <3>2, <3>3, <3>4
    <2> QED
      BY <2>1, <2>2, <2>3, <2>4
  <1>6. OneHolder'
    BY <1>2 DEF Inv, OneHolder
  <1>7. OneActive' /\ NumberInv' /\ PlanInv'
    BY <1>1, <1>3, RowInv DEF Active
  <1>8. MailInv'
    <2>1. \A t \in Schedules : t[1] = s[1] => status[t] # "completed"
      BY <1>1 DEF Inv, MailInv, Active
    <2>2. mailed[s[1]] = 0
      BY <1>1, <2>1 DEF Inv, MailInv, Completed
    <2>3. \A t \in Schedules \ {s} : t[1] = s[1] => status[t] \notin Active
      BY <1>1 DEF Inv, OneActive, Active
    <2>4. \A t \in Schedules \ {s} : status'[t] = status[t]
      BY <1>1, <1>3
    <2>5. status'[s] = to
      BY <1>1, <1>3
    <2>6. ASSUME NEW l \in Logical
          PROVE  mailed'[l] = 0 \/ (mailed'[l] = 1 /\ Completed(l)')
      <3>1. CASE l = s[1]
        BY <1>1, <1>3, <2>2, <2>5, <3>1 DEF Completed
      <3>2. CASE l # s[1]
        <4>1. mailed'[l] = mailed[l]
          BY <1>1, <1>3, <3>2
        <4>2. Completed(l) => Completed(l)'
          BY <2>4, <3>2 DEF Completed
        <4> QED
          BY <4>1, <4>2 DEF Inv, MailInv
      <3> QED
        BY <3>1, <3>2
    <2>7. ASSUME NEW x \in Schedules, NEW t \in Schedules, x[1] = t[1],
                 status'[x] = "completed"
          PROVE  status'[t] \notin Active
      <3>1. CASE x = s
        BY <2>3, <2>4, <2>5, <2>7, <3>1 DEF Active
      <3>2. CASE x # s
        <4>1. status[x] = "completed" /\ x[1] # s[1]
          BY <2>1, <2>4, <2>7, <3>2
        <4> QED
          BY <2>4, <2>7, <4>1 DEF Inv, MailInv
      <3> QED
        BY <3>1, <3>2
    <2> QED
      BY <2>6, <2>7 DEF MailInv
  <1> QED
    BY <1>4, <1>5, <1>6, <1>7, <1>8 DEF Inv

\* A worker step that leaves the rows alone.
LEMMA LeaveInv ==
    ASSUME Inv, NEW w \in Workers, at[w] # "idle",
           \/ Idle(w)
           \/ at' = [at EXCEPT ![w] = "failing"] /\ UNCHANGED <<job, claimed>>,
           UNCHANGED rowVars, UNCHANGED eventVars,
           late' \in 0..MaxLate, faults' \in 0..MaxFaults
    PROVE  Inv'
  <1>1. /\ at' \in [Workers -> {"idle", "claimed", "failing"}]
        /\ job' \in [Workers -> Schedules \cup {NoJob}]
        /\ claimed' \in [Workers -> Nat] /\ at'[w] # "claimed"
        /\ at'[w] # "idle" => job'[w] = job[w] /\ claimed'[w] = claimed[w]
        /\ \A v \in Workers \ {w} :
              at'[v] = at[v] /\ job'[v] = job[v] /\ claimed'[v] = claimed[v]
    BY WorkerInv
  <1>2. UNCHANGED <<status, attempts, ready, event, dates, revision, plan, mailed,
                    changes, defers>>
    BY DEF rowVars, eventVars
  <1>3. TypeOK'
    BY <1>1, <1>2 DEF Inv, TypeOK, ScheduleTypeOK
  <1>4. JobInv'
    BY <1>1, <1>2 DEF Inv, JobInv
  <1>5. OneHolder'
    BY <1>1, <1>2 DEF Inv, OneHolder
  <1>6. OneActive' /\ NumberInv' /\ PlanInv' /\ MailInv'
    BY <1>2 DEF Inv, OneActive, NumberInv, Numbered, PlanInv, MailInv, Completed
  <1> QED
    BY <1>3, <1>4, <1>5, <1>6 DEF Inv

\* The second transaction, its catch block and a death.
LEMMA CommitsFacts ==
    ASSUME Inv, NEW w \in Workers, Commits(w)
    PROVE  /\ Idle(w) \/ (at' = [at EXCEPT ![w] = "failing"] /\ UNCHANGED <<job, claimed>>)
           /\ late' \in 0..MaxLate /\ faults' \in 0..MaxFaults
  BY ScheduleAssumption DEF Commits, faultVars, Inv, TypeOK, ScheduleTypeOK

LEMMA ProcessInv ==
    ASSUME Inv, NEW w \in Workers, Process(w) \/ (Die(w) /\ UNCHANGED eventVars)
    PROVE  Inv'
  <1>1. late \in 0..MaxLate /\ faults \in 0..MaxFaults /\ defers \in 0..MaxDefers
    BY DEF Inv, TypeOK, ScheduleTypeOK
  <1>2. CASE Materialize(w)
    <2>1. /\ at[w] # "idle" /\ Held(w) /\ Commits(w)
          /\ status' = [status EXCEPT ![job[w]] = "completed"]
          /\ UNCHANGED <<attempts, ready, event, dates, revision, plan, changes, defers>>
          /\ \/ mailed' = mailed
             \/ mailed' = [mailed EXCEPT ![job[w][1]] = mailed[job[w][1]] + 1]
      BY <1>2 DEF Materialize, Complete
    <2> QED
      BY <1>1, <2>1, CommitsFacts, SettleInv
  <1>3. CASE Postpone(w)
    <2>1. /\ at[w] = "claimed" /\ Held(w) /\ Commits(w)
          /\ status' = [status EXCEPT ![job[w]] = "pending"]
          /\ attempts' = [attempts EXCEPT ![job[w]] = claimed[w] - 1]
          /\ UNCHANGED <<ready, event, dates, revision, plan, changes, mailed>>
          /\ defers' \in 0..MaxDefers
      BY <1>1, <1>3, CommunicationAssumption DEF Postpone, Defer
    <2> QED
      BY <1>1, <2>1, CommitsFacts, SettleInv
  <1>4. CASE (GiveUp(w) \/ Throw(w)) /\ UNCHANGED eventVars
    BY <1>1, <1>4, LeaveInv DEF GiveUp, Throw, faultVars
  <1>5. CASE Fail(w) /\ UNCHANGED eventVars
    <2>1. /\ at[w] # "idle" /\ Idle(w) /\ UNCHANGED <<attempts, ready, late, faults>>
          /\ UNCHANGED <<event, dates, revision, plan, mailed, changes, defers>>
      BY <1>5 DEF Fail, faultVars, eventVars
    <2>2. CASE Held(w)
      <3>1. PICK to \in {"failed", "pending"} : status' = [status EXCEPT ![job[w]] = to]
        BY <1>5, <2>2 DEF Fail
      <3> QED
        BY <1>1, <2>1, <2>2, <3>1, SettleInv
    <2>3. CASE ~Held(w)
      <3>1. UNCHANGED rowVars
        BY <1>5, <2>1, <2>3 DEF Fail, rowVars
      <3> QED
        BY <1>1, <1>5, <2>1, <3>1, LeaveInv
    <2> QED
      BY <2>2, <2>3
  <1>6. CASE Die(w) /\ UNCHANGED eventVars
    <2>1. faults' \in 0..MaxFaults /\ late' \in 0..MaxLate
      BY <1>1, <1>6, ScheduleAssumption DEF Die
    <2> QED
      BY <1>6, <2>1, LeaveInv DEF Die
  <1> QED
    BY <1>2, <1>3, <1>4, <1>5, <1>6 DEF Process

LEMMA BecomesInv ==
    ASSUME Inv, NEW s \in Schedules, Becomes(s), UNCHANGED eventVars
    PROVE  Inv'
  <1>1. /\ UNCHANGED <<status, attempts, faults, at, job, claimed>>
        /\ UNCHANGED <<event, dates, revision, plan, mailed, changes, defers>>
        /\ ready' = ready \cup {s} /\ late' \in 0..MaxLate
    BY ScheduleAssumption DEF Becomes, workerVars, eventVars, Inv, TypeOK, ScheduleTypeOK
  <1>2. TypeOK'
    BY <1>1 DEF Inv, TypeOK, ScheduleTypeOK
  <1>3. JobInv' /\ OneHolder' /\ OneActive' /\ NumberInv' /\ PlanInv' /\ MailInv'
    BY <1>1 DEF Inv, JobInv, OneHolder, OneActive, NumberInv, Numbered, PlanInv,
                MailInv, Completed
  <1> QED
    BY <1>2, <1>3 DEF Inv

-----------------------------------------------------------------------------
LEMMA NextInv == Inv /\ [Next]_vars => Inv'
  <1> SUFFICES ASSUME Inv, [Next]_vars PROVE Inv'
    OBVIOUS
  <1>1. CASE UNCHANGED vars
    BY <1>1 DEF vars, Inv, TypeOK, ScheduleTypeOK, JobInv, OneHolder, OneActive,
                NumberInv, Numbered, PlanInv, MailInv, Completed
  <1>2. CASE Publish \/ UpdateDraft \/ Reschedule \/ \E l \in Logical : Revise(l)
    BY <1>2, AdminInv
  <1>3. CASE \E t \in {"cancelled", "completed", "archived"} : Transition(t)
    BY <1>3, TransitionInv
  <1>4. CASE \E w \in Workers : ClaimNext(w)
    BY <1>4, ClaimInv DEF ClaimNext
  <1>5. CASE \E w \in Workers : Process(w) \/ (Die(w) /\ UNCHANGED eventVars)
    BY <1>5, ProcessInv
  <1>6. CASE \E s \in Schedules : Becomes(s) /\ UNCHANGED eventVars
    BY <1>6, BecomesInv
  <1> QED
    BY <1>1, <1>2, <1>3, <1>4, <1>5, <1>6 DEF Next

LEMMA Invariance == Spec => []Inv
  BY InitInv, NextInv, PTL DEF Spec

\* Types of the plan, the schedules and the workers.
THEOREM TypeCorrect == Spec => []TypeOK
  BY Invariance, PTL DEF Inv

\* Two workers that may still do the work of a schedule hold different attempts.
THEOREM HoldersDiffer == Spec => []OneHolder
  BY Invariance, PTL DEF Inv

\* A communication has one active schedule at most, through all changes of the plan.
THEOREM ActiveOnce == Spec => []OneActive
  BY Invariance, PTL DEF Inv

\* Nobody is mailed twice: what was sent is completed, in the same transaction, and
\* a completed communication is never scheduled again.
THEOREM NobodyMailedTwice == Spec => []SentOnce
  <1>1. ASSUME Inv, NEW l \in Logical PROVE mailed[l] <= 1
    <2>1. mailed[l] = 0 \/ mailed[l] = 1
      BY <1>1 DEF Inv, MailInv
    <2> QED
      BY <2>1
  <1>2. Inv => SentOnce
    BY <1>1 DEF SentOnce
  <1> QED
    BY <1>2, Invariance, PTL

\* Emails go out for the dates and the revision in force only.
THEOREM MailedAsPlanned == Spec => SentAsPlanned
  <1>1. ASSUME Inv, [Next]_vars
        PROVE  [\A l \in Logical :
                   mailed'[l] # mailed[l] =>
                       /\ event \in {"published", "completed"}
                       /\ \E s \in Schedules :
                             /\ s[1] = l /\ status[s] # status'[s]
                             /\ plan[s] = <<revision[l], dates>>]_vars
    <2>1. CASE mailed' = mailed
      BY <2>1
    <2>2. ASSUME NEW w \in Workers, Materialize(w), NEW l \in Logical,
                 mailed'[l] # mailed[l]
          PROVE  /\ event \in {"published", "completed"}
                 /\ \E s \in Schedules :
                       /\ s[1] = l /\ status[s] # status'[s]
                       /\ plan[s] = <<revision[l], dates>>
      <3>1. /\ at[w] # "idle" /\ Held(w)
            /\ status' = [status EXCEPT ![job[w]] = "completed"]
            /\ \/ mailed' = mailed
               \/ mailed' = [mailed EXCEPT ![job[w][1]] = mailed[job[w][1]] + 1]
        BY <2>2 DEF Materialize, Complete
      <3>2. /\ job[w] \in Schedules /\ status \in [Schedules -> Statuses]
            /\ mailed \in [Logical -> Nat] /\ status[job[w]] = "processing"
        BY <1>1, <3>1, HeldFacts
      <3>3. job[w][1] = l
        BY <2>2, <3>1, <3>2
      <3>4. status[job[w]] \in Active /\ status'[job[w]] # status[job[w]]
        BY <3>1, <3>2 DEF Active
      <3> QED
        BY <1>1, <3>2, <3>3, <3>4 DEF Inv, PlanInv
    <2>3. mailed' = mailed \/ \E w \in Workers : Materialize(w)
      BY <1>1 DEF Next, Publish, UpdateDraft, Reschedule, Revise, Transition, ClaimNext,
                  Process, Postpone, eventVars, vars
    <2> QED
      BY <2>1, <2>2, <2>3
  <1> QED
    BY <1>1, Invariance, PTL DEF Spec, SentAsPlanned
=============================================================================
