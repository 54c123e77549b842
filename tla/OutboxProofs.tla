---------------------------- MODULE OutboxProofs ----------------------------
(***************************************************************************)
(* Proofs about the outbox dispatchers, for every set of rows and workers, *)
(* every lease and every bound on claims.                                  *)
(***************************************************************************)
EXTENDS Outbox, TLAPS

\* What a dispatcher's program counter says about its other variables.
DispatcherInv ==
    \A d \in Dispatchers :
        /\ pc[d] # "selected" => locks[d] = {}
        /\ pc[d] # "idle" => /\ job[d] \in stored
                             /\ token[d] \in 1..MaxAttempts
        /\ pc[d] = "selected" => /\ job[d] \in locks[d] \ (processed \cup withdrawn)
                                 /\ token[d] = attempts[job[d]] + 1
        /\ InFlight(d) => token[d] <= attempts[job[d]]
        /\ pc[d] = "handed" => handed[job[d]] > 0

\* Open claim transactions lock disjoint sets of rows.
LocksDisjoint ==
    \A d1, d2 \in Dispatchers : d1 # d2 => locks[d1] \cap locks[d2] = {}

\* The inductive invariant.
Inv ==
    /\ TypeOK
    /\ processed \cup withdrawn \subseteq stored
    /\ DispatcherInv
    /\ LocksDisjoint
    /\ ClaimNumbersUnique
    /\ ProcessedWasHandedOver

\* The capped back-off of a counted claim lies within the horizon.
LEMMA BackoffType == \A n \in 1..MaxAttempts : Backoff(n) \in 0..Horizon
  BY TimesAssumption, DelaysAssumption DEF Backoff, Min2

\* A row locked by d is locked by another from everyone else's point of view.
LEMMA OthersLocks ==
    ASSUME NEW d \in Dispatchers, NEW x \in Dispatchers, x # d,
           NEW e, e \in locks[x]
    PROVE  e \in LockedByOthers(d)
  BY DEF LockedByOthers

\* The empty outbox satisfies the invariant.
LEMMA InitInv == Init => Inv
  BY EventsAssumption, TimesAssumption
     DEF Init, Inv, TypeOK, DispatcherInv, LocksDisjoint, ClaimNumbersUnique,
         ProcessedWasHandedOver, Located, InFlight, None

\* Storing a row preserves the invariant.
LEMMA StoreInv ==
    ASSUME Inv, NEW e \in Events, Store(e) PROVE Inv'
  BY TimesAssumption
     DEF Inv, TypeOK, DispatcherInv, LocksDisjoint, ClaimNumbersUnique,
         ProcessedWasHandedOver, Located, InFlight, Store, dispatcherVars

\* Deleting an unprocessed row preserves the invariant.
LEMMA WithdrawInv ==
    ASSUME Inv, NEW e \in Events, Withdraw(e) PROVE Inv'
  BY DEF Inv, TypeOK, DispatcherInv, LocksDisjoint, ClaimNumbersUnique,
         ProcessedWasHandedOver, Located, InFlight, Withdraw, dispatcherVars

\* Opening a claim transaction preserves the invariant.
LEMMA SelectInv ==
    ASSUME Inv, NEW d \in Dispatchers, Select(d) PROVE Inv'
  <1>1. PICK e \in Due(d) : /\ job' = [job EXCEPT ![d] = e]
                            /\ token' = [token EXCEPT ![d] = attempts[e] + 1]
    BY DEF Select
  <1>2. /\ e \in stored \ (processed \cup withdrawn)
        /\ attempts[e] \in Nat /\ attempts[e] < MaxAttempts
        /\ Due(d) \subseteq Events
        /\ \A x \in Dispatchers : x # d => locks[x] \cap Due(d) = {}
    BY OthersLocks DEF Due, Inv, TypeOK
  <1>3. TypeOK'
    BY <1>1, <1>2 DEF Inv, TypeOK, Select, rowVars, Located
  <1>4. DispatcherInv'
    BY <1>1, <1>2, TimesAssumption
       DEF Inv, TypeOK, DispatcherInv, Select, rowVars, InFlight, Located
  <1>5. LocksDisjoint'
    BY <1>2 DEF Inv, TypeOK, LocksDisjoint, Select
  <1>6. ClaimNumbersUnique'
    BY <1>1 DEF Inv, TypeOK, ClaimNumbersUnique, InFlight, Select, rowVars
  <1>7. QED
    BY <1>3, <1>4, <1>5, <1>6
       DEF Inv, ProcessedWasHandedOver, Select, rowVars

\* Committing a claim preserves the invariant.
LEMMA ClaimInv ==
    ASSUME Inv, NEW d \in Dispatchers, Claim(d) PROVE Inv'
  <1>1. /\ job[d] \in Events /\ token[d] = attempts[job[d]] + 1
        /\ token[d] \in 1..MaxAttempts /\ attempts[job[d]] \in Nat
        /\ job[d] \in locks[d]
    BY DEF Inv, TypeOK, DispatcherInv, Claim
  <1>2. \A x \in Dispatchers : x # d => job[d] \notin locks[x]
    BY <1>1 DEF Inv, LocksDisjoint
  <1>3. TypeOK'
    BY <1>1, TimesAssumption DEF Inv, TypeOK, Claim, Located
  <1>4. DispatcherInv'
    <2> SUFFICES ASSUME NEW x \in Dispatchers
                 PROVE  /\ pc'[x] # "selected" => locks'[x] = {}
                        /\ pc'[x] # "idle" => /\ job'[x] \in stored'
                                              /\ token'[x] \in 1..MaxAttempts
                        /\ pc'[x] = "selected" =>
                              /\ job'[x] \in locks'[x] \ (processed \cup withdrawn)'
                              /\ token'[x] = attempts'[job'[x]] + 1
                        /\ InFlight(x)' => token'[x] <= attempts'[job'[x]]
                        /\ pc'[x] = "handed" => handed'[job'[x]] > 0
      BY DEF DispatcherInv
    <2>1. CASE x = d
      BY <2>1, <1>1 DEF Inv, TypeOK, DispatcherInv, Claim, InFlight
    <2>2. CASE x # d
      <3>1. pc[x] = "selected" => job[x] # job[d]
        BY <1>2, <2>2 DEF Inv, DispatcherInv
      <3>2. /\ pc'[x] = pc[x] /\ job'[x] = job[x] /\ token'[x] = token[x]
            /\ locks'[x] = locks[x]
        BY <2>2 DEF Inv, TypeOK, Claim
      <3>3. pc[x] # "idle" => attempts'[job[x]] =
                IF job[x] = job[d] THEN attempts[job[x]] + 1 ELSE attempts[job[x]]
        BY <1>1 DEF Inv, TypeOK, DispatcherInv, Claim
      <3>4. pc[x] # "idle" => attempts[job[x]] \in Nat /\ token[x] \in Nat
        BY DEF Inv, TypeOK, DispatcherInv
      <3>5. QED
        BY <3>1, <3>2, <3>3, <3>4 DEF Inv, DispatcherInv, Claim, InFlight
    <2>3. QED BY <2>1, <2>2
  <1>5. LocksDisjoint'
    BY DEF Inv, TypeOK, LocksDisjoint, Claim
  <1>6. ClaimNumbersUnique'
    <2>1. \A x \in Dispatchers :
             (x # d /\ InFlight(x) /\ job[x] = job[d]) => token[x] < token[d]
      BY <1>1 DEF Inv, TypeOK, DispatcherInv
    <2>2. QED
      BY <2>1, <1>1 DEF Inv, TypeOK, ClaimNumbersUnique, InFlight, Claim
  <1>7. QED
    BY <1>3, <1>4, <1>5, <1>6 DEF Inv, ProcessedWasHandedOver, Claim

\* A hand-over, successful or not, preserves the invariant.
LEMMA HandOverInv ==
    ASSUME Inv, NEW d \in Dispatchers,
           HandOver(d) \/ HandOverFails(d) \/ AnswerLost(d)
    PROVE  Inv'
  <1>1. job[d] \in Events /\ handed[job[d]] \in Nat
    BY DEF Inv, TypeOK, DispatcherInv, HandOver, HandOverFails, AnswerLost
  <1>2. CASE HandOver(d)
    BY <1>1, <1>2
       DEF Inv, TypeOK, DispatcherInv, LocksDisjoint, ClaimNumbersUnique,
           ProcessedWasHandedOver, Located, InFlight, HandOver
  <1>3. CASE HandOverFails(d)
    BY <1>3
       DEF Inv, TypeOK, DispatcherInv, LocksDisjoint, ClaimNumbersUnique,
           ProcessedWasHandedOver, Located, InFlight, HandOverFails, rowVars
  <1>4. CASE AnswerLost(d)
    BY <1>1, <1>4
       DEF Inv, TypeOK, DispatcherInv, LocksDisjoint, ClaimNumbersUnique,
           ProcessedWasHandedOver, Located, InFlight, AnswerLost
  <1>5. QED BY <1>2, <1>3, <1>4

\* Completing a row, or failing to, preserves the invariant.
LEMMA CompleteInv ==
    ASSUME Inv, NEW d \in Dispatchers, Complete(d) \/ CompleteThrows(d)
    PROVE  Inv'
  <1>1. /\ job[d] \in stored /\ handed[job[d]] > 0
        /\ processed' \in {processed, processed \cup {job[d]}}
    BY DEF Inv, DispatcherInv, Complete, CompleteThrows
  <1>2. \A x \in Dispatchers : x # d => job[d] \notin locks[x]
    BY OthersLocks DEF Complete, CompleteThrows, RowFree
  <1>3. \A x \in Dispatchers : pc[x] = "selected" => job[x] \notin processed'
    BY <1>1, <1>2 DEF Inv, DispatcherInv, Complete, CompleteThrows
  <1>4. CASE Complete(d)
    BY <1>1, <1>3, <1>4
       DEF Inv, TypeOK, DispatcherInv, LocksDisjoint, ClaimNumbersUnique,
           ProcessedWasHandedOver, Located, InFlight, Complete, Release, None
  <1>5. CASE CompleteThrows(d)
    BY <1>1, <1>3, <1>5
       DEF Inv, TypeOK, DispatcherInv, LocksDisjoint, ClaimNumbersUnique,
           ProcessedWasHandedOver, Located, InFlight, CompleteThrows
  <1>6. QED BY <1>4, <1>5

\* Backing off or dying preserves the invariant.
LEMMA AbandonInv ==
    ASSUME Inv, NEW d \in Dispatchers, BackOff(d) \/ Crash(d) PROVE Inv'
  <1>1. CASE BackOff(d)
    <2>1. wait' \in [Events -> 0..Horizon]
      BY <1>1, BackoffType DEF Inv, TypeOK, DispatcherInv, BackOff
    <2>2. QED
      BY <1>1, <2>1
         DEF Inv, TypeOK, DispatcherInv, LocksDisjoint, ClaimNumbersUnique,
             ProcessedWasHandedOver, Located, InFlight, BackOff, Release, None
  <1>2. CASE Crash(d)
    BY <1>2
       DEF Inv, TypeOK, DispatcherInv, LocksDisjoint, ClaimNumbersUnique,
           ProcessedWasHandedOver, Located, InFlight, Crash, Release, None,
           rowVars
  <1>3. QED BY <1>1, <1>2

\* The passage of time preserves the invariant.
LEMMA TickInv == ASSUME Inv, Tick PROVE Inv'
  <1>1. wait' \in [Events -> 0..Horizon]
    BY TimesAssumption DEF Inv, TypeOK, Tick
  <1>2. QED
    BY <1>1
       DEF Inv, TypeOK, DispatcherInv, LocksDisjoint, ClaimNumbersUnique,
           ProcessedWasHandedOver, Located, InFlight, Tick, dispatcherVars

\* The invariant is inductive.
LEMMA NextInv == Inv /\ [Next]_vars => Inv'
  <1> SUFFICES ASSUME Inv, [Next]_vars PROVE Inv'
    OBVIOUS
  <1>1. CASE UNCHANGED vars
    BY <1>1
       DEF vars, Inv, TypeOK, DispatcherInv, LocksDisjoint, ClaimNumbersUnique,
           ProcessedWasHandedOver, InFlight
  <1>2. CASE Next
    BY <1>2, StoreInv, WithdrawInv, SelectInv, ClaimInv, HandOverInv, CompleteInv,
       AbandonInv, TickInv
       DEF Next, DispatchNext
  <1>3. QED BY <1>1, <1>2

\* The inductive invariant holds in every reachable state.
THEOREM Invariance == Spec => []Inv
  BY InitInv, NextInv, PTL DEF Spec

\* Types are kept: in particular no back-off passes the horizon.
THEOREM TypeCorrect == Spec => []TypeOK
  <1>1. Inv => TypeOK BY DEF Inv
  <1>2. QED BY <1>1, Invariance, PTL

\* No row is ever marked processed without having been handed over.
THEOREM NothingLost == Spec => []ProcessedWasHandedOver
  <1>1. Inv => ProcessedWasHandedOver BY DEF Inv
  <1>2. QED BY <1>1, Invariance, PTL

\* No two workers act on one row under the same claim number.
THEOREM UniqueClaims == Spec => []ClaimNumbersUnique
  <1>1. Inv => ClaimNumbersUnique BY DEF Inv
  <1>2. QED BY <1>1, Invariance, PTL

\* Under the invariant no step touches a finished row.
LEMMA FinalStep ==
    ASSUME Inv, [Next]_vars
    PROVE  /\ \A e \in processed \cup withdrawn :
                 attempts'[e] = attempts[e] /\ wait'[e] <= wait[e]
           /\ processed \subseteq processed'
           /\ processed' \cap withdrawn = processed \cap withdrawn
  <1>0. \A e \in processed \cup withdrawn :
           e \in Events /\ e \in stored /\ wait[e] \in Nat
    BY DEF Inv, TypeOK
  <1>1. ASSUME NEW d \in Dispatchers, Claim(d), NEW e \in processed \cup withdrawn
        PROVE  attempts'[e] = attempts[e] /\ wait'[e] = wait[e]
    <2>1. job[d] # e
      BY <1>1 DEF Inv, DispatcherInv, Claim
    <2>2. QED BY <1>0, <1>1, <2>1 DEF Inv, TypeOK, Claim
  <1>2. ASSUME NEW d \in Dispatchers, Complete(d) \/ CompleteThrows(d)
        PROVE  processed' = processed \/ (/\ processed' = processed \cup {job[d]}
                                         /\ job[d] \notin withdrawn)
    BY <1>2 DEF Complete, CompleteThrows, Fenced
  <1>3. ASSUME NEW e \in processed \cup withdrawn,
               \/ \E d \in Dispatchers : BackOff(d)
               \/ \E f \in Events : Store(f)
               \/ Tick
        PROVE  wait'[e] <= wait[e]
    BY <1>0, <1>3 DEF Inv, TypeOK, BackOff, Fenced, Store, Tick
  <1>4. CASE Next
    BY <1>0, <1>1, <1>2, <1>3, <1>4
       DEF Next, DispatchNext, Store, Withdraw, Select, Claim, HandOver,
           HandOverFails, AnswerLost, Complete, CompleteThrows, BackOff, Crash,
           Tick, rowVars, dispatcherVars
  <1>5. QED BY <1>0, <1>4 DEF vars

\* A processed or withdrawn row is final.
THEOREM ProcessedFinal == Spec => ProcessedIsFinal
  <1>1. Inv /\ [Next]_vars =>
          [/\ \A e \in processed \cup withdrawn :
                attempts'[e] = attempts[e] /\ wait'[e] <= wait[e]
           /\ processed \subseteq processed'
           /\ processed' \cap withdrawn = processed \cap withdrawn]_vars
    BY FinalStep
  <1>2. QED BY <1>1, Invariance, PTL DEF Spec, ProcessedIsFinal

\* Under the invariant only time runs on the lease of a row whose latest claimer
\* is still at work: anyone else's fenced update finds a newer claim number.
LEMMA LeaseStep ==
    ASSUME Inv, [Next]_vars, NEW d \in Dispatchers, NEW e \in Events,
           Holds(d, e), Holds(d, e)'
    PROVE  wait'[e] <= wait[e] /\ wait[e] <= wait'[e] + 1
  <1>0. e \in stored /\ wait[e] \in Nat /\ attempts[e] \in Nat
    BY DEF Inv, TypeOK, DispatcherInv, Holds, InFlight
  <1>1. ASSUME NEW f \in Events, Store(f) PROVE wait'[e] = wait[e]
    BY <1>0, <1>1 DEF Inv, TypeOK, Store
  <1>2. ASSUME NEW x \in Dispatchers, Claim(x) PROVE wait'[e] = wait[e]
    <2>1. CASE job[x] # e
      BY <1>2, <2>1 DEF Inv, TypeOK, Claim
    <2>2. CASE job[x] = e
      <3>1. x # d /\ token'[d] = token[d]
        BY <1>2 DEF Holds, InFlight, Claim
      <3>2. attempts'[e] = attempts[e] + 1
        BY <1>2, <2>2 DEF Inv, TypeOK, DispatcherInv, Claim
      <3>3. token[d] = attempts[e] /\ token'[d] = attempts'[e]
        BY DEF Holds
      <3>4. QED BY <3>1, <3>2, <3>3, <1>0
    <2>3. QED BY <2>1, <2>2
  <1>3. ASSUME NEW x \in Dispatchers, BackOff(x) PROVE wait'[e] = wait[e]
    <2>1. CASE job[x] # e \/ ~Fenced(x)
      BY <1>3, <2>1 DEF Inv, TypeOK, BackOff
    <2>2. CASE job[x] = e /\ Fenced(x)
      <3>1. x = d
        BY <1>3, <2>2 DEF Inv, ClaimNumbersUnique, Holds, Fenced, BackOff, InFlight
      <3>2. pc'[d] = "idle"
        BY <1>3, <3>1 DEF Inv, TypeOK, BackOff, Release
      <3>3. QED BY <3>2 DEF Holds, InFlight
    <2>3. QED BY <2>1, <2>2
  <1>4. CASE Tick
    BY <1>0, <1>4 DEF Tick
  <1>5. CASE UNCHANGED wait
    BY <1>0, <1>5
  <1>6. QED
    BY <1>0, <1>1, <1>2, <1>3, <1>4, <1>5
       DEF Next, DispatchNext, Withdraw, Select, HandOver, HandOverFails, AnswerLost,
           Complete, CompleteThrows, Crash, rowVars, vars

\* The lease of the latest claimer is undisturbed by its predecessors.
THEOREM LeaseKept == Spec => LeaseUndisturbed
  <1>1. Inv /\ [Next]_vars =>
           [\A d \in Dispatchers, e \in Events :
               (Holds(d, e) /\ Holds(d, e)') => wait'[e] <= wait[e]
                                              /\ wait[e] <= wait'[e] + 1]_vars
    BY LeaseStep
  <1>2. QED BY <1>1, Invariance, PTL DEF Spec, LeaseUndisturbed

\* The dispatchers implement at-least-once hand-over: a send is a hand-over, a
\* fenced completion is a completion, everything else stutters.
THEOREM OutboxImplementsHandoff == Spec => ImplementsHandoff
  <1>1. Init => Handover!HInit
    BY DEF Init, Handover!HInit
  <1>2. Inv /\ [Next]_vars => [Handover!HNext]_(Handover!handoffVars)
    <2> SUFFICES ASSUME Inv, [Next]_vars
                 PROVE  Handover!HNext \/ UNCHANGED Handover!handoffVars
      OBVIOUS
    <2> USE DEF Handover!HNext, Handover!handoffVars
    <2>1. ASSUME NEW e \in Events, Store(e) PROVE Handover!HStore(e)
      BY <2>1 DEF Store, Handover!HStore
    <2>2. ASSUME NEW d \in Dispatchers, HandOver(d) \/ AnswerLost(d)
          PROVE  job[d] \in Events /\ Handover!HHand(job[d])
      BY <2>2 DEF Inv, TypeOK, DispatcherInv, HandOver, AnswerLost, Handover!HHand
    <2>3. ASSUME NEW d \in Dispatchers, Complete(d) \/ CompleteThrows(d)
          PROVE  \/ job[d] \in Events /\ Handover!HDone(job[d])
                 \/ UNCHANGED Handover!handoffVars
      BY <2>3 DEF Inv, TypeOK, DispatcherInv, Complete, CompleteThrows, Fenced,
                  Handover!HDone
    <2>4. ASSUME NEW e \in Events, Withdraw(e) PROVE Handover!HWithdraw(e)
      BY <2>4 DEF Withdraw, Handover!HWithdraw
    <2>5. QED
      BY <2>1, <2>2, <2>3, <2>4
         DEF Next, DispatchNext, Select, Claim, HandOverFails, BackOff, Crash,
             Tick, rowVars, vars
  <1>3. QED
    BY <1>1, <1>2, Invariance, PTL DEF Spec, ImplementsHandoff, Handover!HSpec
=============================================================================
