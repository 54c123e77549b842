----------------------------- MODULE RoomProofs ------------------------------
(***************************************************************************)
(* Proofs about virtual rooms and their recordings, for every number of    *)
(* workers, late leases and mishaps: a room is recorded at most once, only *)
(* an ended room is closed, and a recording's outcome is LiveKit's.        *)
(***************************************************************************)
EXTENDS VirtualRecordings, TLAPS

States == {"none", "pending", "leased", "expired", "succeeded"}
Recordings == {"none", "requested", "running", "stopping"} \cup Terminal
Providers == {"pending", "ready", "error", "closed"}
Egresses == {"none", "active", "stopping", "complete", "failed"}

Reads == Egresses \cup {"-", "tokens", "gone", "many"}

\* The stages of a job; a worker without a claim has no job.
AtStage(k, s) ==
    \/ k = "none" /\ s = "idle"
    \/ k = "ensure" /\ s \in {"ensuring", "ensured", "refused", "compensating"}
    \/ k = "close" /\ s \in {"closing", "closed", "refused"}
    \/ k = "start" /\ s \in {"listed", "dispatching", "answered", "unanswered"}
    \/ k = "stop" /\ s \in {"looked", "stopping", "unsure"}

Stages == {"idle", "ensuring", "ensured", "refused", "compensating", "closing",
           "closed", "listed", "dispatching", "answered", "unanswered", "looked",
           "stopping", "unsure"}

\* Every worker is at a stage of its job, and an idle one is not fenced.
Crew ==
    /\ stage \in [Workers -> Stages] /\ seen \in [Workers -> Reads]
    /\ \A w \in Workers : /\ AtStage(job[w], stage[w])
                          /\ job[w] = "none" => w \notin fenced

\* Nothing is asked of a room that does not exist, and an ended room alone is
\* closed or compensated for.
DoorInv ==
    /\ door = "none" =>
          /\ \A k \in Kinds : op[k] = "none"
          /\ dispatched = {} /\ \A w \in Workers : stage[w] = "idle"
    /\ op["close"] # "none" <=> door = "ended"
    /\ OnlyEndedRoomsClosed

\* One worker calls for the recording, once.
RecordInv ==
    /\ egresses \in {0, 1} /\ (egresses = 0 <=> egress = "none")
    /\ egresses # 0 => "start" \in dispatched
    /\ \A w \in Workers : stage[w] = "dispatching" =>
          /\ egresses = 0 /\ "start" \in dispatched
          /\ \A v \in Workers \ {w} : stage[v] # "dispatching"

\* An end that was read or written down is LiveKit's.
EndInv ==
    /\ \A w \in Workers : seen[w] \in {"complete", "failed"} => egress = seen[w]
    /\ rec \in {"complete", "failed"} => egress = rec

\* While no lease has expired under its worker, one worker at a time is at the start
\* of the recording, and what it did not find is not there.
StartInv ==
    late = 0 =>
        /\ \A w \in Workers : job[w] = "start" =>
              /\ w \notin fenced /\ op["start"] \in {"leased", "succeeded"}
              /\ \A v \in Workers \ {w} : job[v] # "start"
              /\ stage[w] = "listed" /\ seen[w] = "gone" => egresses = 0
        /\ rec = "unstarted" =>
              egresses = 0 /\ \A w \in Workers : stage[w] # "dispatching"

\* The inductive invariant.
Inv == TypeOK /\ Crew /\ DoorInv /\ RecordInv /\ EndInv /\ StartInv

\* Only claims of the close are counted anew, and those are stale while another
\* claim of the close is running.
NumberInv ==
    /\ \A w \in Workers : job[w] = "none" => w \notin overdue
    /\ \A w \in renumbered : job[w] = "close"
    /\ op["close"] \in {"leased", "expired"} => renumbered \subseteq fenced

\* An ensure within its lease is the latest one, and its row shows it.
LatestInv ==
    \A w \in Workers : job[w] = "ensure" /\ w \notin overdue =>
        /\ w \notin fenced
        /\ \/ op["ensure"] = "leased"
           \/ stage[w] = "compensating" /\ op["ensure"] = "succeeded"
        /\ \A v \in Workers \ {w} : job[v] = "ensure" => v \in fenced

\* A close only works when no ensure is due or within its lease, and it knows
\* whether there were tokens.
WorkInv ==
    /\ door # "none" => op["ensure"] # "none"
    /\ op["close"] = "succeeded" \/ (\E w \in Workers : job[w] = "close") =>
          op["close"] # "none" /\ op["ensure"] \in {"expired", "succeeded"}
    /\ \A w \in Workers : stage[w] \in {"closing", "closed"} /\ ~Enforcing(w) => ~cred

\* A late ensure that may have opened the room will see that it has ended, unless
\* it dies.
Watched ==
    \/ lost
    \/ \E w \in Workers : /\ job[w] = "ensure" /\ w \in overdue
                          /\ stage[w] \in {"ensured", "refused", "compensating"}

\* w is about to settle the close as succeeded.
Finishes(w) ==
    /\ stage[w] = "closed" /\ ~Enforcing(w)
    /\ w \notin fenced /\ op["close"] \in {"leased", "expired"}

\* While no number was given out twice, one claim of the close counts, and from its
\* last call on nobody but a late ensure opens the room.
ShutInv ==
    ~reused =>
        /\ op["close"] \in {"leased", "expired"} =>
              \A v, w \in Workers : (/\ job[v] = "close" /\ v \notin fenced
                                     /\ job[w] = "close" /\ w \notin fenced) => v = w
        /\ op["close"] = "succeeded" \/ (\E w \in Workers : Finishes(w)) =>
              ~cred /\ (live => Watched)

\* What keeps an ended room shut; inductive together with Inv.
OpenInv == NumberInv /\ LatestInv /\ WorkInv /\ ShutInv

\* A worker at the ensure or the close stays where it is; another one does not turn
\* to them.
Undisturbed(v) ==
    \/ /\ job[v] \in {"ensure", "close"} /\ job'[v] = job[v]
       /\ stage'[v] = stage[v] /\ seen'[v] = seen[v]
       /\ (v \in fenced' <=> v \in fenced) /\ (v \in overdue' <=> v \in overdue)
    \/ /\ job[v] \notin {"ensure", "close"} /\ job'[v] \notin {"ensure", "close"}
       /\ job'[v] = "none" => v \notin overdue'

\* w gives its claim up; a settled close may have renumbered others.
Leaves(w, ops) ==
    /\ op' = ops
    /\ stage' = [stage EXCEPT ![w] = "idle"]
    /\ job' = [job EXCEPT ![w] = "none"] /\ seen' = [seen EXCEPT ![w] = "-"]
    /\ fenced' = fenced \ {w} /\ overdue' = overdue \ {w}
    /\ renumbered' \subseteq Workers /\ late' = late

-----------------------------------------------------------------------------
\* Before anything happens the invariant holds.
LEMMA InitInv == Init => Inv
  <1> SUFFICES ASSUME Init PROVE Inv
    OBVIOUS
  <1>1. TypeOK /\ Crew
    BY OperationsAssumption DEF Init, OpInit, TypeOK, Crew, AtStage, Stages, Reads,
       Egresses, Terminal, Workers, Kinds
  <1>2. DoorInv /\ RecordInv /\ EndInv /\ StartInv
    BY DEF Init, OpInit, DoorInv, OnlyEndedRoomsClosed, RecordInv, EndInv, StartInv,
           Kinds
  <1> QED
    BY <1>1, <1>2 DEF Inv

\* What a fenced update of the claimed row changes.
LEMMA SettledFacts ==
    ASSUME Inv, NEW w \in Workers, NEW s \in States \ {"none"}
    PROVE  /\ Settled(w, s) \in [Kinds -> States]
           /\ \A k \in Kinds : Settled(w, s)[k] = "none" <=> op[k] = "none"
           /\ \A k \in Kinds \ {job[w]} : Settled(w, s)[k] = op[k]
  <1>1. op \in [Kinds -> States] /\ job[w] \in Kinds \cup {"none"}
    BY DEF Inv, TypeOK, States
  <1>2. CASE ~Mine(w)
    BY <1>1, <1>2 DEF Settled
  <1>3. CASE Mine(w) /\ job[w] \in Kinds
    BY <1>1, <1>3 DEF Settled, Mine
  <1>4. CASE Mine(w) /\ job[w] \notin Kinds
    BY <1>1, <1>4 DEF Settled, Mine
  <1> QED
    BY <1>2, <1>3, <1>4

\* A step in which a worker settles its row and gives its claim up.
LEMMA LeaveInv ==
    ASSUME Inv, NEW w \in Workers, stage[w] # "idle",
           NEW ops \in [Kinds -> States], Leaves(w, ops),
           \A k \in Kinds : ops[k] = "none" <=> op[k] = "none",
           job[w] # "start" => ops["start"] \in {op["start"], "succeeded"},
           UNCHANGED <<door, stopper, dispatched, egress, egresses>>,
           rec' \in Recordings, provider' \in Providers,
           mishaps' \in 0..MaxMishaps,
           rec' \in {"complete", "failed"} => egress = rec',
           rec' = "unstarted" /\ rec # "unstarted" /\ late = 0 =>
               egresses = 0 /\ job[w] = "start"
    PROVE  Inv'
  <1>1. /\ stage \in [Workers -> Stages] /\ seen \in [Workers -> Reads]
        /\ job \in [Workers -> Kinds \cup {"none"}] /\ fenced \subseteq Workers
    BY DEF Inv, TypeOK, Crew
  <1>2. TypeOK'
    BY DEF Inv, TypeOK, Leaves, States, Recordings, Providers
  <1>3. Crew'
    BY <1>1 DEF Inv, Crew, Leaves, AtStage, Stages, Reads
  <1>4. DoorInv'
    BY <1>1 DEF Inv, DoorInv, OnlyEndedRoomsClosed, Leaves, Kinds
  <1>5. RecordInv'
    BY <1>1 DEF Inv, RecordInv, Leaves
  <1>6. EndInv'
    BY <1>1 DEF Inv, EndInv, Leaves
  <1>7. StartInv'
    <2> SUFFICES ASSUME late = 0 PROVE StartInv'
      BY DEF StartInv, Leaves
    <2>1. ASSUME NEW x \in Workers, job'[x] = "start"
          PROVE  /\ x \notin fenced' /\ op'["start"] \in {"leased", "succeeded"}
                 /\ \A v \in Workers \ {x} : job'[v] # "start"
                 /\ stage'[x] = "listed" /\ seen'[x] = "gone" => egresses' = 0
      <3>1. x # w /\ job[x] = "start" /\ stage'[x] = stage[x] /\ seen'[x] = seen[x]
        BY <1>1, <2>1 DEF Leaves
      <3>2. job[w] # "start"
        BY <3>1 DEF Inv, StartInv
      <3> QED
        BY <1>1, <3>1, <3>2 DEF Inv, StartInv, Leaves
    <2>2. rec' = "unstarted" =>
              egresses' = 0 /\ \A x \in Workers : stage'[x] # "dispatching"
      <3>1. CASE rec = "unstarted"
        BY <1>1, <3>1 DEF Inv, StartInv, Leaves
      <3>2. CASE rec # "unstarted" /\ rec' = "unstarted"
        <4>1. egresses = 0 /\ \A x \in Workers \ {w} : job[x] # "start"
          BY <3>2 DEF Inv, StartInv
        <4>2. \A x \in Workers \ {w} : stage[x] # "dispatching"
          BY <4>1 DEF Inv, Crew, AtStage
        <4> QED
          BY <1>1, <4>1, <4>2 DEF Leaves
      <3> QED
        BY <3>1, <3>2
    <2> QED
      BY <2>1, <2>2 DEF StartInv
  <1> QED
    BY <1>2, <1>3, <1>4, <1>5, <1>6, <1>7 DEF Inv

\* A step in which a worker goes on, to anything but the call for a recording.
LEMMA AdvanceInv ==
    ASSUME Inv, NEW w \in Workers, stage[w] # "idle",
           NEW next \in Stages \ {"idle", "dispatching", "listed", "closing"},
           next = "compensating" => door = "ended",
           NEW read \in Reads, AtStage(job[w], next),
           /\ stage' = [stage EXCEPT ![w] = next]
           /\ seen' \in {seen, [seen EXCEPT ![w] = read]}
           /\ UNCHANGED <<job, fenced, renumbered, overdue, late>>,
           op' \in [Kinds -> States],
           \A k \in Kinds : op'[k] = "none" <=> op[k] = "none",
           op'["start"] = op["start"],
           UNCHANGED <<door, stopper, rec, egresses>>,
           provider' \in Providers, mishaps' \in 0..MaxMishaps,
           dispatched' \in {dispatched, dispatched \cup {"stop"}},
           read \in {"complete", "failed"} => egress' = read,
           egress' = egress \/ (egress = "active" /\ egress' = "stopping")
    PROVE  Inv'
  <1>1. /\ stage \in [Workers -> Stages] /\ seen \in [Workers -> Reads]
        /\ job \in [Workers -> Kinds \cup {"none"}]
    BY DEF Inv, TypeOK, Crew
  <1>2. TypeOK'
    BY DEF Inv, TypeOK, States, Providers, Kinds
  <1>3. Crew'
    BY <1>1 DEF Inv, Crew, AtStage
  <1>4. DoorInv'
    BY <1>1 DEF Inv, DoorInv, OnlyEndedRoomsClosed, Kinds
  <1>5. RecordInv'
    BY <1>1 DEF Inv, RecordInv
  <1>6. EndInv'
    BY <1>1 DEF Inv, EndInv
  <1>7. StartInv'
    BY <1>1 DEF Inv, StartInv
  <1> QED
    BY <1>2, <1>3, <1>4, <1>5, <1>6, <1>7 DEF Inv

\* A step in which an idle worker claims a row and goes on with it.
LEMMA ClaimInv ==
    ASSUME Inv, NEW w \in Workers, NEW k \in Kinds,
           op[k] # "none", k = "start" => Due(k),
           NEW next \in Stages \ {"idle", "dispatching", "compensating"},
           AtStage(k, next), NEW read \in Reads, Claim(w, k, next, read),
           UNCHANGED <<roomVars, egress, egresses>>,
           read \in {"complete", "failed"} => egress = read,
           read = "gone" => egresses = 0
    PROVE  Inv'
  <1>1. /\ stage \in [Workers -> Stages] /\ seen \in [Workers -> Reads]
        /\ job \in [Workers -> Kinds \cup {"none"}] /\ op \in [Kinds -> States]
        /\ stage[w] = "idle" /\ job[w] = "none" /\ w \notin fenced
    BY DEF Inv, TypeOK, Crew, Claim, Free, AtStage, States
  <1>2. PICK same : /\ fenced' = (fenced \cup Rivals(w, k)) \ same
                    /\ renumbered' = renumbered \ same
    BY DEF Claim
  <1>3. /\ op' = [op EXCEPT ![k] = "leased"] /\ job' = [job EXCEPT ![w] = k]
        /\ stage' = [stage EXCEPT ![w] = next] /\ seen' = [seen EXCEPT ![w] = read]
        /\ UNCHANGED <<overdue, late, mishaps>>
    BY DEF Claim
  <1>4. TypeOK'
    BY <1>1, <1>2, <1>3 DEF Inv, TypeOK, States, roomVars, Rivals
  <1>5. Crew'
    BY <1>1, <1>2, <1>3 DEF Inv, Crew, AtStage, Rivals
  <1>6. door # "none" /\ (k = "close" => door = "ended")
    BY DEF Inv, DoorInv
  <1>7. DoorInv'
    BY <1>1, <1>3, <1>6 DEF Inv, DoorInv, OnlyEndedRoomsClosed, roomVars, AtStage, Kinds
  <1>8. RecordInv'
    BY <1>1, <1>3 DEF Inv, RecordInv, roomVars
  <1>9. EndInv'
    BY <1>1, <1>3 DEF Inv, EndInv, roomVars
  <1>10. StartInv'
    <2> SUFFICES ASSUME late = 0 PROVE StartInv'
      BY <1>3 DEF StartInv
    <2>1. k = "start" => \A x \in Workers : job[x] # "start"
      BY DEF Due, Inv, StartInv
    <2>2. ASSUME NEW x \in Workers, job'[x] = "start"
          PROVE  /\ x \notin fenced' /\ op'["start"] \in {"leased", "succeeded"}
                 /\ \A v \in Workers \ {x} : job'[v] # "start"
                 /\ stage'[x] = "listed" /\ seen'[x] = "gone" => egresses' = 0
      <3>1. CASE x = w
        BY <1>1, <1>2, <1>3, <2>1, <2>2, <3>1 DEF Rivals
      <3>2. CASE x # w
        BY <1>1, <1>2, <1>3, <2>1, <2>2, <3>2 DEF Rivals, Inv, StartInv
      <3> QED
        BY <3>1, <3>2
    <2>3. rec' = "unstarted" =>
              egresses' = 0 /\ \A x \in Workers : stage'[x] # "dispatching"
      BY <1>1, <1>3 DEF Inv, StartInv, roomVars
    <2> QED
      BY <2>2, <2>3 DEF StartInv
  <1> QED
    BY <1>4, <1>5, <1>7, <1>8, <1>9, <1>10 DEF Inv

\* A claim that is settled at once.
LEMMA ClaimAndSettleInv ==
    ASSUME Inv, NEW w \in Workers, NEW k \in Kinds,
           op[k] # "none", k = "start" => Due(k),
           NEW status \in {"pending", "succeeded"}, ClaimAndSettle(w, k, status),
           UNCHANGED <<roomVars, egress, egresses>>
    PROVE  Inv'
  <1>1. /\ op \in [Kinds -> States] /\ op' = [op EXCEPT ![k] = status]
        /\ fenced' = fenced \cup Rivals(w, k)
        /\ UNCHANGED <<job, stage, seen, renumbered, overdue, late, mishaps>>
    BY DEF ClaimAndSettle, Inv, TypeOK, States
  <1>2. TypeOK'
    BY <1>1 DEF Inv, TypeOK, States, roomVars, Rivals
  <1>3. Crew'
    BY <1>1 DEF Inv, Crew, Rivals, Kinds
  <1>4. DoorInv'
    BY <1>1 DEF Inv, DoorInv, OnlyEndedRoomsClosed, roomVars, Kinds
  <1>5. RecordInv' /\ EndInv'
    BY <1>1 DEF Inv, RecordInv, EndInv, roomVars
  <1>6. StartInv'
    <2>1. late = 0 /\ k = "start" => \A x \in Workers : job[x] # "start"
      BY DEF Due, Inv, StartInv
    <2> QED
      BY <1>1, <2>1 DEF Inv, StartInv, roomVars, Rivals, Kinds
  <1> QED
    BY <1>2, <1>3, <1>4, <1>5, <1>6 DEF Inv

-----------------------------------------------------------------------------
\* A step that leaves rows, rooms and workers alone, whatever LiveKit does.
LEMMA KitInv ==
    ASSUME Inv, UNCHANGED <<opVars, roomVars, egresses>>,
           \/ egress' = egress
           \/ egress = "active" /\ egress' \in {"stopping", "failed"}
           \/ egress = "stopping" /\ egress' \in {"complete", "failed"}
    PROVE  Inv'
  <1>1. TypeOK' /\ Crew'
    BY DEF Inv, TypeOK, Crew, opVars, roomVars
  <1>2. DoorInv' /\ RecordInv'
    BY DEF Inv, DoorInv, OnlyEndedRoomsClosed, RecordInv, opVars, roomVars
  <1>3. EndInv' /\ StartInv'
    BY DEF Inv, EndInv, StartInv, opVars, roomVars
  <1> QED
    BY <1>1, <1>2, <1>3 DEF Inv

\* Staff and webhooks add rows and settle them, without a claim.
LEMMA RewriteInv ==
    ASSUME Inv, NEW ops \in [Kinds -> States], Rewrite(ops),
           UNCHANGED <<dispatched, egress, egresses>>,
           door' \in {"scheduled", "open", "ended"},
           door = "ended" => door' = "ended",
           ops["close"] # "none" <=> door' = "ended",
           ops["start"] \in {op["start"], "succeeded"} \/ op["start"] = "none",
           provider' \in Providers, stopper' \in {"none", "staff", "livekit"},
           rec' \in Recordings, rec' # "unstarted" \/ rec = "unstarted",
           rec' \in {"complete", "failed"} => egress = rec'
    PROVE  Inv'
  <1>1. /\ op' = ops
        /\ UNCHANGED <<job, stage, seen, fenced, renumbered, overdue, late, mishaps>>
    BY DEF Rewrite
  <1>2. TypeOK'
    BY <1>1 DEF Inv, TypeOK, States, Recordings, Providers
  <1>3. Crew' /\ RecordInv' /\ EndInv'
    BY <1>1 DEF Inv, Crew, RecordInv, EndInv
  <1>4. DoorInv'
    BY <1>1 DEF Inv, DoorInv, OnlyEndedRoomsClosed
  <1>5. StartInv'
    BY <1>1 DEF Inv, StartInv
  <1> QED
    BY <1>2, <1>3, <1>4, <1>5 DEF Inv

LEMMA InsertFacts ==
    ASSUME Inv, NEW ks \in SUBSET Kinds
    PROVE  /\ Insert(op, ks) \in [Kinds -> States]
           /\ \A k \in Kinds : /\ k \notin ks => Insert(op, ks)[k] = op[k]
                               /\ k \in ks => Insert(op, ks)[k] # "none"
                               /\ op[k] # "none" => Insert(op, ks)[k] = op[k]
  BY DEF Insert, Inv, TypeOK, States

\* The steps of staff preserve the invariant.
LEMMA EndingInv ==
    ASSUME Inv, NEW by \in {"staff", "livekit"}, Ending(by), provider' \in Providers
    PROVE  Inv'
  <1>1. PICK ks \in {{"stop", "close"}, {"close"}} :
            Rewrite(Insert(op, ks)) /\ stopper' \in {stopper, by}
    BY DEF Ending
  <1>2. ks \in SUBSET Kinds /\ "start" \notin ks /\ {"start", "close"} \subseteq Kinds
    BY DEF Kinds
  <1>3. door' = "ended" /\ UNCHANGED <<rec, dispatched, egress, egresses>>
    BY DEF Ending
  <1>4. /\ stopper' \in {"none", "staff", "livekit"} /\ rec' \in Recordings
        /\ rec' \in {"complete", "failed"} => egress = rec'
    BY <1>1, <1>3 DEF Inv, TypeOK, Recordings, EndInv
  <1> QED
    BY <1>1, <1>2, <1>3, <1>4, InsertFacts, RewriteInv

LEMMA StaffInv == ASSUME Inv, StaffStep PROVE Inv'
  <1>1. /\ {"ensure"} \in SUBSET Kinds /\ {"start"} \in SUBSET Kinds
        /\ {"start", "close"} \subseteq Kinds
    BY DEF Kinds
  <1>2. /\ provider \in Providers /\ stopper \in {"none", "staff", "livekit"}
        /\ rec \in Recordings /\ (rec \in {"complete", "failed"} => egress = rec)
        /\ (op["close"] # "none" <=> door = "ended")
    BY DEF Inv, TypeOK, EndInv, DoorInv, Providers, Recordings
  <1>3. CASE Create
    <2>1. /\ Insert(op, {"ensure"})["close"] = op["close"]
          /\ Insert(op, {"ensure"})["start"] = op["start"]
      BY <1>1, InsertFacts
    <2>2. /\ door = "none" /\ door' = "scheduled" /\ Rewrite(Insert(op, {"ensure"}))
          /\ UNCHANGED <<provider, rec, stopper, dispatched, egress, egresses>>
      BY <1>3 DEF Create, kitVars
    <2> QED
      BY <1>1, <1>2, <2>1, <2>2, InsertFacts, RewriteInv
  <1>4. CASE Start
    <2>1. /\ Insert(op, {"start"})["close"] = op["close"]
          /\ op["start"] # "none" => Insert(op, {"start"})["start"] = op["start"]
      BY <1>1, InsertFacts
    <2>2. /\ door = "scheduled" /\ door' = "open" /\ Rewrite(Insert(op, {"start"}))
          /\ rec' = "requested"
          /\ UNCHANGED <<provider, stopper, dispatched, egress, egresses>>
      BY <1>4 DEF Start, kitVars
    <2> QED
      BY <1>1, <1>2, <2>1, <2>2, InsertFacts, RewriteInv DEF Recordings
  <1>5. CASE End
    BY <1>2, <1>5, EndingInv DEF End
  <1>6. CASE IssueCredential
    BY <1>6, KitInv DEF IssueCredential
  <1> QED
    BY <1>3, <1>4, <1>5, <1>6 DEF StaffStep

\* So do those of LiveKit and its webhooks.
LEMMA ReceiveInv ==
    ASSUME Inv, NEW status \in Reports, Receive(status)
    PROVE  Inv'
  <1>1. /\ egress \in Egresses /\ rec \in Recordings /\ op \in [Kinds -> States]
        /\ door \in {"none", "scheduled", "open", "ended"} /\ provider \in Providers
    BY DEF Inv, TypeOK, Egresses, Recordings, States, Providers
  <1>2. /\ egress # "none" /\ status \in {"active", "stopping", "complete", "failed"}
        /\ status \in {"complete", "failed"} => egress = status
    BY <1>1 DEF Reports, Egresses
  <1>3. PICK ks \in {{"start", "stop"}, {"start"}} : Rewrite(Relieved(ks))
    BY DEF Receive
  <1>4. /\ Relieved(ks) \in [Kinds -> States]
        /\ Relieved(ks)["close"] = op["close"]
        /\ Relieved(ks)["start"] \in {op["start"], "succeeded"}
    BY <1>1, <1>3 DEF Relieved, States, Kinds
  <1>5. /\ rec' \in {rec, Adopted(status)}
        /\ UNCHANGED <<door, provider, stopper, dispatched, egress, egresses>>
    BY DEF Receive, kitVars
  <1>6. rec' \in Recordings /\ (rec' # "unstarted" \/ rec = "unstarted")
        /\ (rec' \in {"complete", "failed"} => egress = rec')
    BY <1>1, <1>2, <1>5 DEF Adopted, Recordings, Terminal, Inv, EndInv
  <1>7. door # "none"
    <2>1. egresses # 0 /\ "start" \in dispatched
      BY <1>2 DEF Inv, RecordInv
    <2> QED
      BY <2>1 DEF Inv, DoorInv
  <1> QED
    BY <1>1, <1>3, <1>4, <1>5, <1>6, <1>7, RewriteInv DEF Inv, DoorInv, TypeOK

LEMMA KitStepInv == ASSUME Inv, KitStep PROVE Inv'
  <1>1. CASE CredentialExpires \/ Join \/ RoomEmpties \/ EgressMoves \/ EgressFails
    BY <1>1, KitInv
       DEF CredentialExpires, Join, RoomEmpties, EgressMoves, EgressFails
  <1>2. CASE RoomFinished
    <2>1. CASE Ending("livekit") /\ provider' = "error"
      BY <2>1, EndingInv DEF Providers
    <2>2. CASE UNCHANGED <<opVars, roomVars, egress, egresses>>
      BY <2>2, KitInv
    <2> QED
      BY <1>2, <2>1, <2>2 DEF RoomFinished
  <1>3. CASE \E status \in Reports : Receive(status)
    BY <1>3, ReceiveInv
  <1> QED
    BY <1>1, <1>2, <1>3 DEF KitStep

\* A lease that expires makes its worker late.
LEMMA LapseInv ==
    ASSUME Inv, NEW k \in Kinds, Lapse(k)
    PROVE  Inv'
  <1>1. /\ op[k] = "leased" /\ op' = [op EXCEPT ![k] = "expired"]
        /\ UNCHANGED <<job, stage, seen, fenced, renumbered>>
        /\ UNCHANGED <<roomVars, egress, egresses>>
        /\ overdue' = overdue \cup Holders(k)
        /\ \/ Holders(k) = {} /\ UNCHANGED <<late, mishaps>>
           \/ late < MaxLate /\ late' = late + 1
              /\ mishaps < MaxMishaps /\ mishaps' = mishaps + 1
    BY DEF Lapse, LeaseExpires, Mishap, kitVars
  <1>2. op \in [Kinds -> States] /\ late \in Nat
    BY DEF Inv, TypeOK, States
  <1>3. TypeOK'
    BY <1>1, <1>2, OperationsAssumption
       DEF Inv, TypeOK, States, roomVars, Holders
  <1>4. Crew' /\ RecordInv' /\ EndInv'
    BY <1>1 DEF Inv, Crew, RecordInv, EndInv, roomVars
  <1>5. DoorInv'
    BY <1>1, <1>2 DEF Inv, DoorInv, OnlyEndedRoomsClosed, roomVars, Kinds
  <1>6. StartInv'
    <2>1. late' = 0 => late = 0 /\ Holders(k) = {}
      BY <1>1, <1>2
    <2>2. late = 0 /\ Holders("start") = {} => \A w \in Workers : job[w] # "start"
      BY DEF Holders, Inv, StartInv
    <2>3. CASE k = "start"
      BY <1>1, <2>1, <2>2, <2>3 DEF Inv, StartInv, roomVars
    <2>4. CASE k # "start"
      BY <1>1, <1>2, <2>1, <2>4 DEF Inv, StartInv, roomVars, Kinds
    <2> QED
      BY <2>3, <2>4
  <1> QED
    BY <1>3, <1>4, <1>5, <1>6 DEF Inv

LEMMA CrashInv ==
    ASSUME Inv, NEW w \in Workers, Crash(w)
    PROVE  Inv'
  <1>1. /\ stage[w] # "idle" /\ Leave(w, op) /\ mishaps' = mishaps + 1
        /\ mishaps < MaxMishaps
        /\ UNCHANGED <<door, provider, rec, stopper, dispatched, egress, egresses>>
    BY DEF Crash, Die, Mishap, roomVars, kitVars
  <1>2. Leaves(w, op)
    BY <1>1 DEF Leave, Leaves, Inv, TypeOK
  <1>3. /\ op \in [Kinds -> States] /\ rec \in Recordings /\ provider \in Providers
        /\ mishaps' \in 0..MaxMishaps
        /\ rec \in {"complete", "failed"} => egress = rec
    BY <1>1, OperationsAssumption
       DEF Inv, TypeOK, EndInv, States, Recordings, Providers
  <1> QED
    BY <1>1, <1>2, <1>3, LeaveInv

\* Claims.
LEMMA ClaimStepInv ==
    ASSUME Inv, NEW w \in Workers, ClaimStep(w)
    PROVE  Inv'
  <1>1. {"ensure", "start", "stop", "close"} \subseteq Kinds /\ egress \in Egresses
    BY DEF Kinds, Inv, TypeOK, Egresses
  <1>2. CASE ClaimEnsure(w)
    <2>1. op["ensure"] # "none" /\ UNCHANGED <<roomVars, egress, egresses>>
          /\ \/ Claim(w, "ensure", "ensuring", "-")
             \/ ClaimAndSettle(w, "ensure", "succeeded")
      BY <1>2 DEF ClaimEnsure, kitVars, Due
    <2>2. CASE Claim(w, "ensure", "ensuring", "-")
      <3>1. "ensuring" \in Stages /\ AtStage("ensure", "ensuring") /\ "-" \in Reads
        BY DEF Stages, AtStage, Reads
      <3> QED
        BY <1>1, <2>1, <2>2, <3>1, ClaimInv
    <2>3. CASE ClaimAndSettle(w, "ensure", "succeeded")
      BY <1>1, <2>1, <2>3, ClaimAndSettleInv
    <2> QED
      BY <2>1, <2>2, <2>3
  <1>3. CASE ClaimClose(w)
    <2>1. /\ op["close"] # "none" /\ UNCHANGED <<roomVars, egress, egresses>>
          /\ \/ ClaimAndSettle(w, "close", "pending")
             \/ \E read \in {"tokens", "-"} : Claim(w, "close", "closing", read)
      BY <1>3 DEF ClaimClose, kitVars, Due
    <2>2. ASSUME NEW read \in {"tokens", "-"}, Claim(w, "close", "closing", read)
          PROVE  Inv'
      <3>1. "closing" \in Stages /\ AtStage("close", "closing") /\ read \in Reads
        BY DEF Stages, AtStage, Reads
      <3> QED
        BY <1>1, <2>1, <2>2, <3>1, ClaimInv
    <2>3. CASE ClaimAndSettle(w, "close", "pending")
      BY <1>1, <2>1, <2>3, ClaimAndSettleInv
    <2> QED
      BY <2>1, <2>2, <2>3
  <1>4. CASE ClaimStart(w)
    <2>1. /\ Listing \in Reads
          /\ Listing \in {"complete", "failed"} => egress = Listing
          /\ Listing = "gone" => egresses = 0
      BY <1>1 DEF Listing, Reads, Egresses, Inv, RecordInv
    <2>2. /\ Due("start") /\ UNCHANGED <<roomVars, egress, egresses>>
          /\ \/ Claim(w, "start", "listed", Listing)
             \/ ClaimAndSettle(w, "start", "succeeded")
      BY <1>4 DEF ClaimStart, kitVars
    <2>3. op["start"] # "none"
      BY <2>2 DEF Due
    <2>4. CASE Claim(w, "start", "listed", Listing)
      <3>1. "listed" \in Stages /\ AtStage("start", "listed")
        BY DEF Stages, AtStage
      <3> QED
        BY <1>1, <2>1, <2>2, <2>3, <2>4, <3>1, ClaimInv
    <2>5. CASE ClaimAndSettle(w, "start", "succeeded")
      BY <1>1, <2>2, <2>3, <2>5, ClaimAndSettleInv
    <2> QED
      BY <2>2, <2>4, <2>5
  <1>5. CASE ClaimStop(w)
    <2>1. /\ op["stop"] # "none" /\ UNCHANGED <<roomVars, egress, egresses>>
          /\ \/ Claim(w, "stop", "looked", egress)
             \/ \E s \in {"pending", "succeeded"} : ClaimAndSettle(w, "stop", s)
      BY <1>5 DEF ClaimStop, kitVars, Due
    <2>2. CASE Claim(w, "stop", "looked", egress)
      <3>1. /\ "looked" \in Stages /\ AtStage("stop", "looked")
            /\ egress \in Reads /\ egress # "gone"
        BY <1>1 DEF Stages, AtStage, Reads, Egresses
      <3> QED
        BY <1>1, <2>1, <2>2, <3>1, ClaimInv
    <2>3. ASSUME NEW s \in {"pending", "succeeded"}, ClaimAndSettle(w, "stop", s)
          PROVE  Inv'
      BY <1>1, <2>1, <2>3, ClaimAndSettleInv
    <2> QED
      BY <2>1, <2>2, <2>3
  <1> QED
    BY <1>2, <1>3, <1>4, <1>5 DEF ClaimStep

-----------------------------------------------------------------------------
\* A step that settles the claimed row as due or done.
LEMMA SettleInv ==
    ASSUME Inv, NEW w \in Workers, stage[w] # "idle",
           NEW status \in {"pending", "succeeded"}, Leave(w, Settled(w, status)),
           UNCHANGED <<door, stopper, dispatched, egress, egresses, mishaps>>,
           rec' \in Recordings \ {"unstarted"} \/ rec' = rec,
           provider' \in Providers,
           rec' \in {"complete", "failed"} => egress = rec'
    PROVE  Inv'
  <1>1. Leaves(w, Settled(w, status))
    BY DEF Leave, Leaves, Inv, TypeOK
  <1>2. rec' \in Recordings /\ mishaps' \in 0..MaxMishaps
    BY DEF Inv, TypeOK, Recordings
  <1>3. /\ Settled(w, status) \in [Kinds -> States]
        /\ \A k \in Kinds : Settled(w, status)[k] = "none" <=> op[k] = "none"
        /\ \A k \in Kinds \ {job[w]} : Settled(w, status)[k] = op[k]
    BY SettledFacts DEF States
  <1>4. job[w] # "start" => Settled(w, status)["start"] = op["start"]
    BY <1>3 DEF Kinds
  <1> QED
    BY <1>1, <1>2, <1>3, <1>4, LeaveInv

\* What is known of the rooms' columns, and of a worker by its stage.
LEMMA Known ==
    ASSUME Inv
    PROVE  /\ rec \in Recordings /\ provider \in Providers
           /\ rec \in {"complete", "failed"} => egress = rec
           /\ mishaps \in 0..MaxMishaps /\ (Mishap => mishaps' \in 0..MaxMishaps)
           /\ {"error", "ready", "closed"} \subseteq Providers
           /\ \A w \in Workers : AtStage(job[w], stage[w])
  BY OperationsAssumption
     DEF Inv, TypeOK, EndInv, Crew, Recordings, Providers, Mishap

\* The steps of an ensure and of a close.
LEMMA CallInv ==
    ASSUME Inv, NEW w \in Workers, EnsureRoom(w) \/ CloseRoom(w)
    PROVE  Inv'
  <1>1. PICK next \in {"ensured", "closed", "refused"}, read \in {seen[w], "-"} :
           /\ Advance(w, next, read) /\ AtStage(job[w], next)
           /\ stage[w] # "idle"
           /\ UNCHANGED <<roomVars, egress, egresses>> /\ mishaps' \in 0..MaxMishaps
    <2>1. mishaps \in 0..MaxMishaps /\ (Mishap => mishaps' \in 0..MaxMishaps)
      BY Known
    <2>2. CASE EnsureRoom(w)
      <3>1. stage[w] = "ensuring" /\ AtStage(job[w], "ensured") /\ AtStage(job[w], "refused")
        BY <2>2, Known DEF EnsureRoom, AtStage
      <3> QED
        BY <2>1, <2>2, <3>1 DEF EnsureRoom, Call
    <2>3. CASE CloseRoom(w)
      <3>1. stage[w] = "closing" /\ AtStage(job[w], "closed") /\ AtStage(job[w], "refused")
        BY <2>3, Known DEF CloseRoom, AtStage
      <3> QED
        BY <2>1, <2>3, <3>1 DEF CloseRoom, Call
    <2> QED
      BY <2>2, <2>3
  <1>2. /\ next \in Stages \ {"idle", "dispatching", "listed", "closing", "compensating"}
        /\ read \in Reads /\ (read \in {"complete", "failed"} => egress = read)
    BY DEF Stages, Reads, Inv, Crew, EndInv
  <1>3. /\ stage' = [stage EXCEPT ![w] = next] /\ seen' = [seen EXCEPT ![w] = read]
        /\ UNCHANGED <<op, job, fenced, renumbered, overdue, late>>
        /\ UNCHANGED <<door, provider, rec, stopper, dispatched, egress, egresses>>
    BY <1>1 DEF Advance, roomVars
  <1>4. op \in [Kinds -> States] /\ provider \in Providers
    BY DEF Inv, TypeOK, States, Providers
  <1> QED
    BY <1>1, <1>2, <1>3, <1>4, AdvanceInv

\* A close that becomes due again.
LEMMA RequeueFacts ==
    ASSUME Inv, NEW ops \in [Kinds -> States],
           \A k \in Kinds : ops[k] = "none" <=> op[k] = "none", op["close"] # "none"
    PROVE  /\ Requeued(ops) \in [Kinds -> States]
           /\ \A k \in Kinds : Requeued(ops)[k] = "none" <=> op[k] = "none"
           /\ Requeued(ops)["start"] = ops["start"]
  BY DEF Requeued, States, Kinds

LEMMA EnsureInv ==
    ASSUME Inv, NEW w \in Workers,
           SettleEnsure(w) \/ SettleRefusedEnsure(w) \/ Compensate(w)
    PROVE  Inv'
  <1> DEFINE S == Settled(w, "succeeded")
  <1>1. /\ stage[w] \in {"ensured", "refused", "compensating"} /\ job[w] = "ensure"
        /\ UNCHANGED <<door, rec, stopper, dispatched, egress, egresses>>
    BY Known DEF SettleEnsure, SettleRefusedEnsure, Compensate, AtStage, kitVars, roomVars
  <1>2. ~Operational => door = "ended" /\ op["close"] # "none"
    BY <1>1 DEF Operational, Inv, DoorInv, TypeOK
  <1>3. /\ S \in [Kinds -> States]
        /\ \A k \in Kinds : S[k] = "none" <=> op[k] = "none"
        /\ S["start"] = op["start"]
    BY <1>1, SettledFacts DEF States, Kinds
  <1>4. op \in [Kinds -> States] /\ mishaps \in 0..MaxMishaps
        /\ "pending" \in {"pending", "succeeded"}
        /\ "succeeded" \in {"pending", "succeeded"}
    BY DEF Inv, TypeOK, States
  <1>5. provider' \in Providers
    BY Known DEF SettleEnsure, SettleRefusedEnsure, Compensate, roomVars
  <1>6. rec' \in Recordings /\ (rec' \in {"complete", "failed"} => egress = rec')
        /\ rec' = rec
    BY <1>1, Known
  <1> HIDE DEF S
  <1>7. ASSUME NEW ops \in {op, Requeued(op), Requeued(S)}, Leave(w, ops),
               ops # op => op["close"] # "none", mishaps' \in 0..MaxMishaps
        PROVE  Inv'
    <2>1. /\ ops \in [Kinds -> States] /\ ops["start"] = op["start"]
          /\ \A k \in Kinds : ops[k] = "none" <=> op[k] = "none"
      <3>1. CASE ops = op
        BY <1>4, <3>1
      <3>2. CASE ops # op
        BY <1>3, <1>4, <1>7, <3>2, RequeueFacts
      <3> QED
        BY <3>1, <3>2
    <2>2. Leaves(w, ops)
      BY <1>7 DEF Leave, Leaves, Inv, TypeOK
    <2> QED
      BY <1>1, <1>5, <1>6, <1>7, <2>1, <2>2, LeaveInv
  <1>8. ASSUME NEW status \in {"pending", "succeeded"}, Leave(w, Settled(w, status)),
               mishaps' = mishaps
        PROVE  Inv'
    BY <1>1, <1>5, <1>6, <1>8, SettleInv
  <1>9. CASE SettleEnsure(w)
    <2>1. CASE Operational /\ Leave(w, Settled(w, "succeeded"))
      BY <1>4, <1>8, <1>9, <2>1 DEF SettleEnsure
    <2>2. CASE ~Operational
      <3>1. /\ op' = S /\ stage' = [stage EXCEPT ![w] = "compensating"]
            /\ UNCHANGED <<job, seen, fenced, renumbered, overdue, late, mishaps>>
        BY <1>9, <2>2 DEF SettleEnsure, S
      <3>2. /\ "compensating" \in Stages \ {"idle", "dispatching", "listed", "closing"}
            /\ "-" \in Reads /\ AtStage(job[w], "compensating")
        BY <1>1 DEF Stages, Reads, AtStage
      <3> QED
        BY <1>1, <1>2, <1>3, <1>4, <1>5, <2>2, <3>1, <3>2, AdvanceInv
    <2> QED
      BY <1>9, <2>1, <2>2 DEF SettleEnsure
  <1>10. CASE SettleRefusedEnsure(w)
    <2>1. CASE Operational /\ Leave(w, Settled(w, "pending"))
      BY <1>4, <1>8, <1>10, <2>1 DEF SettleRefusedEnsure
    <2>2. CASE ~Operational /\ Leave(w, Requeued(S))
      BY <1>2, <1>4, <1>7, <1>10, <2>2 DEF SettleRefusedEnsure
    <2> QED
      BY <1>10, <2>1, <2>2 DEF SettleRefusedEnsure, S
  <1>11. CASE Compensate(w)
    <2>1. door = "ended" /\ op["close"] # "none"
      BY <1>11 DEF Compensate, Inv, DoorInv, OnlyEndedRoomsClosed
    <2>2. mishaps' \in 0..MaxMishaps
      BY <1>4, <1>11, Known DEF Compensate
    <2> QED
      BY <1>7, <1>11, <2>1, <2>2 DEF Compensate
  <1> QED
    BY <1>9, <1>10, <1>11

LEMMA CloseInv ==
    ASSUME Inv, NEW w \in Workers, SettleClose(w) \/ SettleRefusedClose(w)
    PROVE  Inv'
  <1>1. /\ stage[w] # "idle" /\ job[w] = "close" /\ mishaps' = mishaps
        /\ UNCHANGED <<door, rec, stopper, dispatched, egress, egresses>>
    BY Known DEF SettleClose, SettleRefusedClose, AtStage, kitVars
  <1>2. /\ provider' \in Providers /\ rec' \in Recordings
        /\ (rec' \in {"complete", "failed"} => egress = rec')
        /\ mishaps' \in 0..MaxMishaps /\ rec' = rec
    BY <1>1, Known DEF SettleClose, SettleRefusedClose
  <1>3. CASE SettleClose(w)
    <2>1. PICK status \in {"pending", "succeeded"} : Leaves(w, Settled(w, status))
      BY <1>3 DEF SettleClose, Leaves, Rivals, Inv, TypeOK
    <2>2. LET S == Settled(w, status)
          IN  /\ S \in [Kinds -> States] /\ S["start"] = op["start"]
              /\ \A k \in Kinds : S[k] = "none" <=> op[k] = "none"
      BY <1>1, SettledFacts DEF States, Kinds
    <2> QED
      BY <1>1, <1>2, <2>1, <2>2, LeaveInv
  <1>4. CASE SettleRefusedClose(w)
    <2>1. Leave(w, Settled(w, "pending")) /\ "pending" \in {"pending", "succeeded"}
      BY <1>4 DEF SettleRefusedClose
    <2> QED
      BY <1>1, <1>2, <2>1, SettleInv
  <1> QED
    BY <1>3, <1>4

-----------------------------------------------------------------------------
\* The steps that settle the row of a recording by what was seen.
LEMMA RecordingSettledInv ==
    ASSUME Inv, NEW w \in Workers,
           SettleStart(w) \/ RetryStart(w) \/ SettleStop(w) \/ RetryStop(w)
    PROVE  Inv'
  <1>1. PICK status \in {"pending", "succeeded"} : Leave(w, Settled(w, status))
    BY DEF SettleStart, RetryStart, SettleStop, RetryStop
  <1>2. /\ stage[w] # "idle"
        /\ UNCHANGED <<door, provider, stopper, dispatched, egress, egresses, mishaps>>
    BY DEF SettleStart, RetryStart, SettleStop, RetryStop, kitVars, roomVars
  <1>3. seen[w] \in {"complete", "failed"} => egress = seen[w]
    BY DEF Inv, EndInv
  <1>4. \/ rec' = rec
        \/ rec' = Adopted(seen[w]) /\ seen[w] \in {"active", "complete", "failed"}
        \/ rec' = seen[w] /\ seen[w] \in {"stopping", "complete", "failed"}
    BY DEF SettleStart, RetryStart, SettleStop, RetryStop, roomVars
  <1>5. /\ rec' \in Recordings \ {"unstarted"} \/ rec' = rec
        /\ rec' \in {"complete", "failed"} => egress = rec'
    BY <1>3, <1>4, Known DEF Adopted, Recordings, Terminal
  <1>6. provider' \in Providers
    BY <1>2, Known
  <1> QED
    BY <1>1, <1>2, <1>5, <1>6, SettleInv

\* A recording that is written off before it ran.
LEMMA UnstartedInv ==
    ASSUME Inv, NEW w \in Workers, stage[w] = "listed", Unstarted(w),
           late = 0 => egresses = 0
    PROVE  Inv'
  <1> DEFINE S == Settled(w, "succeeded")
  <1>1. job[w] = "start"
    BY Known DEF AtStage
  <1>2. /\ S \in [Kinds -> States]
        /\ \A k \in Kinds : S[k] = "none" <=> op[k] = "none"
        /\ S["stop"] = op["stop"]
    BY <1>1, SettledFacts DEF States, Kinds
  <1>3. PICK ops \in {S, [S EXCEPT !["stop"] = "succeeded"]} :
           Leave(w, ops) /\ (ops # S => op["stop"] = "pending")
    BY DEF Unstarted
  <1>4. /\ rec' \in {rec, "unstarted"} /\ mishaps' = mishaps
        /\ UNCHANGED <<door, provider, stopper, dispatched, egress, egresses>>
    BY DEF Unstarted, kitVars
  <1> HIDE DEF S
  <1>5. /\ ops \in [Kinds -> States]
        /\ \A k \in Kinds : ops[k] = "none" <=> op[k] = "none"
    BY <1>2, <1>3 DEF States, Kinds
  <1>6. Leaves(w, ops)
    BY <1>3 DEF Leave, Leaves, Inv, TypeOK
  <1>7. /\ rec' \in Recordings /\ provider' \in Providers /\ mishaps' \in 0..MaxMishaps
        /\ rec' \in {"complete", "failed"} => egress = rec'
    BY <1>4, Known DEF Recordings, Terminal
  <1> QED
    BY <1>1, <1>4, <1>5, <1>6, <1>7, LeaveInv

LEMMA FailStartInv == ASSUME Inv, NEW w \in Workers, FailStart(w) PROVE Inv'
  <1>1. stage[w] = "listed" /\ seen[w] = "gone" /\ Unstarted(w) /\ job[w] = "start"
    BY Known DEF FailStart, AtStage
  <1>2. late = 0 => egresses = 0
    BY <1>1 DEF Inv, StartInv
  <1> QED
    BY <1>1, <1>2, UnstartedInv

\* The mark that lets one claim call LiveKit.
LEMMA BeginDispatchInv ==
    ASSUME Inv, NEW w \in Workers, BeginDispatch(w)
    PROVE  Inv'
  <1>1. stage[w] = "listed" /\ seen[w] = "none" /\ "start" \notin dispatched
    BY DEF BeginDispatch
  <1>2. egresses = 0 /\ \A x \in Workers : stage[x] # "dispatching"
    BY <1>1 DEF Inv, RecordInv
  <1>3. CASE Leave(w, Settled(w, "succeeded")) /\ UNCHANGED <<roomVars, kitVars, mishaps>>
    <2>1. "succeeded" \in {"pending", "succeeded"} /\ stage[w] # "idle"
      BY <1>1
    <2> QED
      BY <1>3, <2>1, SettleInv, Known DEF roomVars, kitVars
  <1>4. CASE Unstarted(w)
    BY <1>1, <1>2, <1>4, UnstartedInv
  <1>5. CASE /\ rec = "requested" /\ Operational
             /\ dispatched' = dispatched \cup {"start"}
             /\ Advance(w, "dispatching", "-")
             /\ UNCHANGED <<door, provider, rec, stopper, kitVars, mishaps>>
    <2>1. /\ stage \in [Workers -> Stages] /\ seen \in [Workers -> Reads]
          /\ AtStage(job[w], "dispatching")
      BY <1>1, Known DEF Inv, Crew, AtStage
    <2>2. /\ stage' = [stage EXCEPT ![w] = "dispatching"]
          /\ seen' = [seen EXCEPT ![w] = "-"]
          /\ UNCHANGED <<op, job, fenced, renumbered, overdue, late>>
          /\ UNCHANGED <<egress, egresses>>
      BY <1>5 DEF Advance, kitVars
    <2>3. TypeOK'
      BY <1>5, <2>2 DEF Inv, TypeOK, Kinds
    <2>4. Crew'
      BY <2>1, <2>2 DEF Inv, Crew, Stages, Reads
    <2>5. DoorInv'
      BY <1>1, <1>5, <2>1, <2>2 DEF Operational, Inv, DoorInv, OnlyEndedRoomsClosed
    <2>6. RecordInv'
      BY <1>2, <1>5, <2>1, <2>2 DEF Inv, RecordInv
    <2>7. EndInv' /\ StartInv'
      BY <1>1, <1>5, <2>1, <2>2 DEF Inv, EndInv, StartInv
    <2> QED
      BY <2>3, <2>4, <2>5, <2>6, <2>7 DEF Inv
  <1> QED
    BY <1>3, <1>4, <1>5 DEF BeginDispatch

\* The call: nobody else is at it, and nothing was recorded before.
LEMMA DispatchInv ==
    ASSUME Inv, NEW w \in Workers, Dispatch(w)
    PROVE  Inv'
  <1>1. /\ stage[w] = "dispatching" /\ UNCHANGED roomVars
        /\ mishaps' \in 0..MaxMishaps
    BY Known DEF Dispatch
  <1>2. /\ egresses = 0 /\ "start" \in dispatched /\ job[w] = "start"
        /\ \A v \in Workers \ {w} : stage[v] # "dispatching"
    BY <1>1, Known DEF Inv, RecordInv, AtStage
  <1>3. PICK next \in {"answered", "unanswered"}, read \in {"active", "-"} :
           Advance(w, next, read)
    BY DEF Dispatch
  <1>4. /\ stage' = [stage EXCEPT ![w] = next] /\ seen' = [seen EXCEPT ![w] = read]
        /\ UNCHANGED <<op, job, fenced, renumbered, overdue, late>>
        /\ UNCHANGED <<door, provider, rec, stopper, dispatched>>
    BY <1>1, <1>3 DEF Advance, roomVars
  <1>5. /\ stage \in [Workers -> Stages] /\ seen \in [Workers -> Reads]
        /\ next \in Stages /\ read \in Reads /\ AtStage(job[w], next)
    BY <1>2 DEF Inv, Crew, AtStage, Stages, Reads, Egresses
  <1>6. CASE UNCHANGED <<egress, egresses>>
    <2>1. /\ next \in Stages \ {"idle", "dispatching", "listed", "closing", "compensating"}
          /\ op \in [Kinds -> States] /\ provider \in Providers
      BY <1>5, Known DEF Inv, TypeOK, States
    <2> QED
      BY <1>1, <1>4, <1>5, <1>6, <2>1, AdvanceInv
  <1>7. CASE egress' = "active" /\ egresses' = egresses + 1
    <2>1. TypeOK'
      BY <1>1, <1>4, <1>7 DEF Inv, TypeOK
    <2>2. Crew'
      BY <1>4, <1>5 DEF Inv, Crew
    <2>3. DoorInv'
      BY <1>1, <1>4, <1>5 DEF Inv, DoorInv, OnlyEndedRoomsClosed
    <2>4. RecordInv'
      BY <1>2, <1>4, <1>5, <1>7 DEF Inv, RecordInv
    <2>5. egress = "none"
      BY <1>2 DEF Inv, RecordInv
    <2>6. EndInv'
      BY <1>4, <1>5, <2>5 DEF Inv, EndInv
    <2>7. late = 0 => rec # "unstarted"
      BY <1>1 DEF Inv, StartInv
    <2>8. StartInv'
      BY <1>2, <1>4, <1>5, <2>7 DEF Inv, StartInv
    <2> QED
      BY <2>1, <2>2, <2>3, <2>4, <2>6, <2>8 DEF Inv
  <1> QED
    BY <1>6, <1>7 DEF Dispatch

\* The stop.
LEMMA StopInv ==
    ASSUME Inv, NEW w \in Workers, BeginStop(w) \/ StopRecording(w)
    PROVE  Inv'
  <1>1. /\ stage[w] \in {"looked", "stopping"} /\ job[w] = "stop"
        /\ mishaps' \in 0..MaxMishaps
        /\ UNCHANGED <<door, provider, rec, stopper, egresses>>
    BY Known DEF BeginStop, StopRecording, AtStage, roomVars, kitVars
  <1>2. CASE Leave(w, Settled(w, "pending"))
             /\ UNCHANGED <<dispatched, egress, mishaps>>
    <2>1. "pending" \in {"pending", "succeeded"}
      OBVIOUS
    <2> QED
      BY <1>1, <1>2, <2>1, SettleInv, Known
  <1>3. ASSUME NEW next \in {"looked", "stopping", "unsure"},
               NEW read \in {"stopping", "-"}, Advance(w, next, read),
               dispatched' \in {dispatched, dispatched \cup {"stop"}},
               egress' = egress \/ (egress = "active" /\ egress' = "stopping")
        PROVE  Inv'
    <2>1. /\ next \in Stages \ {"idle", "dispatching", "listed", "closing", "compensating"}
          /\ read \in Reads /\ AtStage(job[w], next)
          /\ op \in [Kinds -> States] /\ provider \in Providers
      BY <1>1, Known DEF Stages, Reads, Egresses, AtStage, Inv, TypeOK, States
    <2>2. /\ stage' = [stage EXCEPT ![w] = next] /\ seen' = [seen EXCEPT ![w] = read]
          /\ UNCHANGED <<op, job, fenced, renumbered, overdue, late>>
      BY <1>3 DEF Advance
    <2> QED
      BY <1>1, <1>3, <2>1, <2>2, AdvanceInv
  <1>4. CASE BeginStop(w)
    BY <1>2, <1>3, <1>4 DEF BeginStop, kitVars
  <1>5. CASE StopRecording(w)
    BY <1>3, <1>5 DEF StopRecording, roomVars
  <1> QED
    BY <1>4, <1>5

-----------------------------------------------------------------------------
LEMMA NextInv == Inv /\ [Next]_vars => Inv'
  <1> SUFFICES ASSUME Inv, [Next]_vars PROVE Inv'
    OBVIOUS
  <1>1. CASE UNCHANGED vars
    BY <1>1, KitInv DEF vars, kitVars
  <1>2. CASE StaffStep \/ KitStep
    BY <1>2, StaffInv, KitStepInv
  <1>3. ASSUME NEW w \in Workers, ClaimStep(w) \/ Crash(w) PROVE Inv'
    BY <1>3, ClaimStepInv, CrashInv
  <1>4. ASSUME NEW w \in Workers, WorkStep(w) PROVE Inv'
    <2>1. CASE EnsureRoom(w) \/ CloseRoom(w)
      BY <2>1, CallInv
    <2>2. CASE SettleEnsure(w) \/ SettleRefusedEnsure(w) \/ Compensate(w)
      BY <2>2, EnsureInv
    <2>3. CASE SettleClose(w) \/ SettleRefusedClose(w)
      BY <2>3, CloseInv
    <2>4. CASE SettleStart(w) \/ RetryStart(w) \/ SettleStop(w) \/ RetryStop(w)
      BY <2>4, RecordingSettledInv
    <2>5. CASE FailStart(w) \/ BeginDispatch(w) \/ Dispatch(w)
      BY <2>5, FailStartInv, BeginDispatchInv, DispatchInv
    <2>6. CASE BeginStop(w) \/ StopRecording(w)
      BY <2>6, StopInv
    <2> QED
      BY <1>4, <2>1, <2>2, <2>3, <2>4, <2>5, <2>6 DEF WorkStep
  <1>5. ASSUME NEW k \in Kinds, Lapse(k) PROVE Inv'
    BY <1>5, LapseInv
  <1> QED
    BY <1>1, <1>2, <1>3, <1>4, <1>5 DEF Next

LEMMA Invariance == Spec => []Inv
  BY InitInv, NextInv, PTL DEF Spec

\* Types of the room, its operations and its recording.
THEOREM TypeCorrect == Spec => []TypeOK
  BY Invariance, PTL DEF Inv

\* LiveKit is asked for one recording of a room at most: the mark is made under the
\* row's lock before the call and is never taken back.
THEOREM AtMostOneRecording == Spec => []RecordedOnce
  <1>1. Inv => RecordedOnce
    BY DEF Inv, RecordInv, RecordedOnce
  <1> QED
    BY <1>1, Invariance, PTL

\* A recording's end is LiveKit's, and one that is written off never ran.
THEOREM TrueOutcome == Spec => []OutcomeTrue
  <1>1. Inv => OutcomeTrue
    BY DEF Inv, RecordInv, EndInv, StartInv, OutcomeTrue
  <1> QED
    BY <1>1, Invariance, PTL

\* A worker only closes a room that has ended, however late it is.
THEOREM ClosesEndedRooms == Spec => []OnlyEndedRoomsClosed
  BY Invariance, PTL DEF Inv, DoorInv

-----------------------------------------------------------------------------
(* An ended room stays shut.                                               *)

\* What Inv says of the workers at the ensure and the close.
LEMMA Stationed ==
    ASSUME Inv
    PROVE  /\ job \in [Workers -> Kinds \cup {"none"}] /\ op \in [Kinds -> States]
           /\ stage \in [Workers -> Stages] /\ seen \in [Workers -> Reads]
           /\ fenced \subseteq Workers /\ renumbered \subseteq Workers
           /\ \A w \in Workers :
                 /\ stage[w] \in {"closing", "closed"} => job[w] = "close"
                 /\ stage[w] \in {"ensuring", "ensured", "compensating"} =>
                        job[w] = "ensure"
                 /\ stage[w] = "idle" <=> job[w] = "none"
                 /\ stage[w] = "compensating" => door = "ended"
           /\ op["close"] # "none" <=> door = "ended"
  BY DEF Inv, TypeOK, Crew, AtStage, States, DoorInv, OnlyEndedRoomsClosed

LEMMA OpenInit == Init => OpenInv
  BY DEF Init, OpInit, OpenInv, NumberInv, LatestInv, WorkInv, ShutInv, Finishes, Kinds

\* A step beside the ensure and the close.
LEMMA AsideOpen ==
    ASSUME Inv, Inv', OpenInv, \A v \in Workers : Undisturbed(v),
           renumbered' = renumbered, reused' <=> reused, door' = door,
           op'["ensure"] = op["ensure"], op'["close"] = op["close"],
           cred' => cred, live' => live, lost => lost'
    PROVE  OpenInv'
  <1>1. \A v \in Workers : stage'[v] \in {"closing", "closed"} => job'[v] = "close"
    BY DEF Inv, Crew, AtStage
  <1>2. NumberInv'
    BY Stationed DEF OpenInv, NumberInv, Undisturbed
  <1>3. LatestInv'
    BY DEF OpenInv, LatestInv, Undisturbed
  <1>4. WorkInv'
    BY <1>1 DEF OpenInv, WorkInv, Undisturbed, Enforcing
  <1>5. ShutInv'
    <2>1. \A v \in Workers : Finishes(v)' => Finishes(v)
      BY <1>1 DEF Finishes, Undisturbed, Enforcing
    <2>2. Watched => Watched'
      BY DEF Watched, Undisturbed
    <2>3. \A v \in Workers : job'[v] = "close" /\ v \notin fenced' =>
              job[v] = "close" /\ v \notin fenced
      BY DEF Undisturbed
    <2> QED
      BY <2>1, <2>2, <2>3 DEF OpenInv, ShutInv
  <1> QED
    BY <1>2, <1>3, <1>4, <1>5 DEF OpenInv

\* A step of a room that has not ended, and the end.
LEMMA RunningOpen ==
    ASSUME Inv, Inv', OpenInv,
           UNCHANGED <<job, stage, seen, fenced, renumbered, overdue, reused>>,
           op["close"] = "none", op'["close"] \in {"none", "pending"},
           op["ensure"] # "none" => op'["ensure"] = op["ensure"],
           door' # "none" => op'["ensure"] # "none"
    PROVE  OpenInv'
  <1>1. \A w \in Workers : job[w] # "close" /\ stage[w] \notin {"closing", "closed"}
    BY Stationed DEF OpenInv, WorkInv
  <1>2. NumberInv' /\ LatestInv'
    BY DEF OpenInv, NumberInv, LatestInv
  <1>3. WorkInv' /\ ShutInv'
    BY <1>1 DEF WorkInv, ShutInv, Finishes
  <1> QED
    BY <1>2, <1>3 DEF OpenInv

\* A worker gives its claim up; the others stay where they are.
LEMMA LeaveFacts ==
    ASSUME Inv, NEW w \in Workers, NEW ops, Leave(w, ops)
    PROVE  /\ job'[w] = "none" /\ stage'[w] = "idle"
           /\ fenced' = fenced \ {w} /\ renumbered' = renumbered \ {w}
           /\ overdue' = overdue \ {w} /\ reused' = reused /\ op' = ops
           /\ \A v \in Workers \ {w} : /\ job'[v] = job[v] /\ stage'[v] = stage[v]
                                       /\ seen'[v] = seen[v]
  BY Stationed DEF Leave

\* Settling the row of an ensure: only the latest one may.
LEMMA SettledEnsure ==
    ASSUME Inv, OpenInv, NEW w \in Workers, job[w] = "ensure", NEW s,
           Settled(w, s)["ensure"] # op["ensure"]
    PROVE  \A v \in Workers \ {w} : job[v] = "ensure" => v \in overdue
  <1>1. Mine(w)
    BY DEF Settled
  <1> QED
    BY <1>1 DEF Mine, OpenInv, LatestInv

\* The call of an ensure opens the room only if the ensure is late, once the close is
\* under way.
LEMMA EnsureRoomOpen ==
    ASSUME Inv, Inv', OpenInv, NEW w \in Workers, EnsureRoom(w)
    PROVE  OpenInv'
  <1>0. PICK next \in {"ensured", "refused"} : \E read : Advance(w, next, read)
    BY DEF EnsureRoom, Call
  <1>1. PICK read : Advance(w, next, read)
    BY <1>0
  <1>2. /\ stage[w] = "ensuring" /\ job[w] = "ensure"
        /\ UNCHANGED <<op, job, fenced, renumbered, overdue, reused, door, cred, lost>>
        /\ stage'[w] = next
        /\ \A v \in Workers \ {w} : stage'[v] = stage[v] /\ seen'[v] = seen[v]
    BY <1>1, Stationed DEF EnsureRoom, Call, Advance, roomVars
  <1>3. NumberInv'
    BY <1>2 DEF OpenInv, NumberInv
  <1>4. LatestInv'
    BY <1>2 DEF OpenInv, LatestInv
  <1>5. WorkInv'
    BY <1>2 DEF OpenInv, WorkInv, Enforcing
  <1>6. ShutInv'
    <2>1. ASSUME op["close"] = "succeeded" \/ (\E v \in Workers : Finishes(v)')
          PROVE  op["close"] = "succeeded" \/ (\E v \in Workers : Finishes(v))
      BY <1>2, <2>1 DEF Finishes, Enforcing
    <2>2. ASSUME op["close"] = "succeeded" \/ (\E v \in Workers : Finishes(v))
          PROVE  Watched'
      <3>1. op["ensure"] \in {"expired", "succeeded"}
        BY <2>2, Stationed DEF Finishes, OpenInv, WorkInv
      <3>2. w \in overdue
        BY <1>2, <3>1 DEF OpenInv, LatestInv
      <3> QED
        BY <1>1, <1>2, <3>2 DEF Watched
    <2> QED
      BY <1>2, <2>1, <2>2 DEF OpenInv, ShutInv
  <1> QED
    BY <1>3, <1>4, <1>5, <1>6 DEF OpenInv

\* The transactions after it, and the compensation.
LEMMA SettleEnsureOpen ==
    ASSUME Inv, Inv', OpenInv, NEW w \in Workers, SettleEnsure(w)
    PROVE  OpenInv'
  <1>1. /\ stage[w] = "ensured" /\ job[w] = "ensure" /\ w \notin renumbered
        /\ UNCHANGED <<door, cred, live, lost, reused>>
    BY Stationed DEF SettleEnsure, Leave, kitVars, OpenInv, NumberInv
  <1>2. /\ op' = Settled(w, "succeeded") /\ op'["close"] = op["close"]
        /\ op'["ensure"] \in {op["ensure"], "succeeded"}
    <2>1. op' = Settled(w, "succeeded")
      BY DEF SettleEnsure, Leave
    <2>2. op' = op \/ op' = [op EXCEPT !["ensure"] = "succeeded"]
      BY <1>1, <2>1 DEF Settled
    <2> QED
      BY <2>1, <2>2, Stationed DEF Kinds
  <1>3. /\ \A v \in Workers \ {w} : /\ job'[v] = job[v] /\ stage'[v] = stage[v]
                                    /\ seen'[v] = seen[v]
                                    /\ v \in fenced' <=> v \in fenced
                                    /\ v \in overdue' <=> v \in overdue
        /\ renumbered' = renumbered
        /\ \/ Operational /\ job'[w] = "none" /\ stage'[w] = "idle" /\ w \notin overdue'
           \/ /\ ~Operational /\ job'[w] = "ensure" /\ stage'[w] = "compensating"
              /\ (w \in overdue' <=> w \in overdue)
              /\ (w \in fenced' <=> w \in fenced)
    <2>1. CASE Operational /\ Leave(w, Settled(w, "succeeded"))
      <3>1. /\ job'[w] = "none" /\ stage'[w] = "idle"
            /\ fenced' = fenced \ {w} /\ renumbered' = renumbered \ {w}
            /\ overdue' = overdue \ {w}
            /\ \A v \in Workers \ {w} : /\ job'[v] = job[v] /\ stage'[v] = stage[v]
                                        /\ seen'[v] = seen[v]
        BY <2>1, LeaveFacts
      <3> QED
        BY <1>1, <2>1, <3>1
    <2>2. CASE ~Operational /\ stage' = [stage EXCEPT ![w] = "compensating"]
               /\ UNCHANGED <<job, seen, fenced, renumbered, overdue>>
      BY <1>1, <2>2, Stationed
    <2> QED
      BY <2>1, <2>2 DEF SettleEnsure
  <1>4. NumberInv'
    BY Stationed, <1>1, <1>2, <1>3 DEF OpenInv, NumberInv
  <1>5. LatestInv'
    <2>1. ASSUME NEW v \in Workers \ {w}, job[v] = "ensure", v \notin overdue
          PROVE  op'["ensure"] = op["ensure"]
      BY <1>1, <1>2, <2>1, SettledEnsure
    <2>2. ASSUME job'[w] = "ensure", w \notin overdue'
          PROVE  /\ w \notin fenced' /\ op'["ensure"] = "succeeded"
                 /\ stage'[w] = "compensating"
                 /\ \A v \in Workers \ {w} : job'[v] = "ensure" => v \in fenced'
      <3>1. /\ w \notin fenced /\ op["ensure"] = "leased" /\ stage'[w] = "compensating"
            /\ \A v \in Workers \ {w} : job[v] = "ensure" => v \in fenced
        BY <1>1, <1>3, <2>2 DEF OpenInv, LatestInv
      <3>2. op'["ensure"] = "succeeded"
        BY <1>1, <1>2, <3>1, Stationed DEF Settled, Mine
      <3> QED
        BY <1>3, <2>2, <3>1, <3>2
    <2>3. ASSUME NEW v \in Workers \ {w}, job'[v] = "ensure", v \notin overdue'
          PROVE  /\ v \notin fenced'
                 /\ \/ op'["ensure"] = "leased"
                    \/ stage'[v] = "compensating" /\ op'["ensure"] = "succeeded"
                 /\ \A x \in Workers \ {v} : job'[x] = "ensure" => x \in fenced'
      <3>1. /\ v \notin fenced /\ job[v] = "ensure" /\ v \notin overdue
            /\ \/ op["ensure"] = "leased"
               \/ stage[v] = "compensating" /\ op["ensure"] = "succeeded"
            /\ \A x \in Workers \ {v} : job[x] = "ensure" => x \in fenced
        BY <1>3, <2>3 DEF OpenInv, LatestInv
      <3>2. w \in fenced /\ op'["ensure"] = op["ensure"]
        BY <1>1, <2>1, <3>1
      <3> QED
        BY <1>3, <2>3, <3>1, <3>2
    <2> QED
      BY <2>2, <2>3 DEF LatestInv
  <1>6. WorkInv'
    BY <1>1, <1>2, <1>3 DEF OpenInv, WorkInv, Enforcing
  <1>7. ShutInv'
    <2>1. \A v \in Workers : Finishes(v)' => Finishes(v)
      BY <1>2, <1>3 DEF Finishes, Enforcing
    <2>2. CASE Operational
      <3>1. op["close"] = "none"
        BY <2>2, Stationed DEF Operational
      <3> QED
        BY <1>2, <3>1 DEF ShutInv, Finishes
    <2>3. CASE ~Operational
      <3>1. Watched => Watched'
        BY <1>1, <1>3, <2>3 DEF Watched
      <3> QED
        BY <1>1, <1>2, <1>3, <2>1, <2>3, <3>1 DEF OpenInv, ShutInv
    <2> QED
      BY <2>2, <2>3
  <1> QED
    BY <1>4, <1>5, <1>6, <1>7 DEF OpenInv

\* A late ensure that could not do its part leaves the close due.
LEMMA RequeueOpen ==
    ASSUME Inv, Inv', OpenInv, NEW w \in Workers, job[w] = "ensure", stage[w] # "idle",
           NEW ops \in [Kinds -> States], Leave(w, ops),
           UNCHANGED <<door, cred, reused>>,
           ops["close"] = "pending" \/ (ops["close"] = op["close"] /\ ~live'),
           door = "ended", ops["ensure"] \in {op["ensure"], "succeeded"},
           \A v \in Workers \ {w} : job[v] = "ensure" /\ v \notin overdue =>
               ops["ensure"] = op["ensure"]
    PROVE  OpenInv'
  <1>1. /\ job'[w] = "none" /\ stage'[w] = "idle" /\ w \notin overdue'
        /\ op' = ops /\ w \notin renumbered /\ renumbered' = renumbered
        /\ \A v \in Workers \ {w} : /\ job'[v] = job[v] /\ stage'[v] = stage[v]
                                    /\ seen'[v] = seen[v]
                                    /\ v \in fenced' <=> v \in fenced
                                    /\ v \in overdue' <=> v \in overdue
    <2>1. w \notin renumbered
      BY DEF OpenInv, NumberInv
    <2>2. /\ job'[w] = "none" /\ stage'[w] = "idle" /\ op' = ops
          /\ fenced' = fenced \ {w} /\ renumbered' = renumbered \ {w}
          /\ overdue' = overdue \ {w}
          /\ \A v \in Workers \ {w} : /\ job'[v] = job[v] /\ stage'[v] = stage[v]
                                      /\ seen'[v] = seen[v]
      BY LeaveFacts
    <2> QED
      BY <2>1, <2>2
  <1>2. NumberInv'
    BY Stationed, <1>1 DEF OpenInv, NumberInv
  <1>3. LatestInv'
    BY <1>1 DEF OpenInv, LatestInv
  <1>4. op["close"] # "none" /\ (\A v \in Workers : stage[v] = "closed" => job[v] = "close")
    BY Stationed
  <1>5. WorkInv'
    BY <1>1, <1>4 DEF OpenInv, WorkInv, Enforcing
  <1>6. ShutInv'
    <2>1. CASE ops["close"] = "pending"
      BY <1>1, <2>1 DEF ShutInv, Finishes
    <2>2. CASE ops["close"] = op["close"] /\ ~live'
      <3>1. \A v \in Workers : Finishes(v)' => Finishes(v)
        BY <1>1, <2>2 DEF Finishes, Enforcing
      <3>2. \A v \in Workers : job'[v] = "close" /\ v \notin fenced' =>
                job[v] = "close" /\ v \notin fenced
        BY <1>1
      <3> QED
        BY <1>1, <2>2, <3>1, <3>2 DEF OpenInv, ShutInv
    <2> QED
      BY <2>1, <2>2
  <1> QED
    BY <1>2, <1>3, <1>5, <1>6 DEF OpenInv

LEMMA RefusedEnsureOpen ==
    ASSUME Inv, Inv', OpenInv, NEW w \in Workers, SettleRefusedEnsure(w)
    PROVE  OpenInv'
  <1> DEFINE S(s) == Settled(w, s)
  <1>1. /\ stage[w] = "refused" /\ job[w] = "ensure" /\ w \notin renumbered
        /\ UNCHANGED <<door, cred, live, lost>>
    BY DEF SettleRefusedEnsure, kitVars, OpenInv, NumberInv
  <1>2. \A s \in States \ {"none"} :
            /\ S(s) \in [Kinds -> States] /\ S(s)["close"] = op["close"]
            /\ S(s)["ensure"] \in {op["ensure"], s}
            /\ \A v \in Workers \ {w} : job[v] = "ensure" /\ v \notin overdue =>
                   S(s)["ensure"] = op["ensure"]
    <2> SUFFICES ASSUME NEW s \in States \ {"none"}
                 PROVE  /\ S(s) \in [Kinds -> States] /\ S(s)["close"] = op["close"]
                        /\ S(s)["ensure"] \in {op["ensure"], s}
                        /\ \A v \in Workers \ {w} : job[v] = "ensure" /\ v \notin overdue =>
                               S(s)["ensure"] = op["ensure"]
      OBVIOUS
    <2>1. S(s) = op \/ S(s) = [op EXCEPT !["ensure"] = s]
      BY <1>1 DEF Settled
    <2>2. \A v \in Workers \ {w} : job[v] = "ensure" /\ v \notin overdue =>
               S(s)["ensure"] = op["ensure"]
      BY <1>1, SettledEnsure
    <2> QED
      BY <2>1, <2>2, Stationed DEF Kinds
  <1>3. "pending" \in States \ {"none"} /\ "succeeded" \in States \ {"none"}
    BY DEF States
  <1> HIDE DEF S
  <1>4. CASE ~Operational
    <2>1. Leave(w, Requeued(S("succeeded"))) /\ reused' = reused
      BY <1>4 DEF SettleRefusedEnsure, Leave, S
    <2>2. /\ Requeued(S("succeeded")) \in [Kinds -> States]
          /\ Requeued(S("succeeded"))["close"] = "pending"
          /\ Requeued(S("succeeded"))["ensure"] = S("succeeded")["ensure"]
      BY <1>2, <1>3 DEF Requeued, Kinds, States
    <2>3. door = "ended"
      <3>1. door # "none"
        BY <1>1 DEF Inv, DoorInv
      <3> QED
        BY <1>4, <3>1 DEF Operational, Inv, TypeOK
    <2> QED
      BY <1>1, <1>2, <1>3, <2>1, <2>2, <2>3, RequeueOpen
  <1>5. CASE Operational
    <2>1. Leave(w, S("pending"))
      BY <1>5 DEF SettleRefusedEnsure, S
    <2>2. /\ job'[w] = "none" /\ stage'[w] = "idle" /\ op' = S("pending")
          /\ fenced' = fenced \ {w} /\ renumbered' = renumbered \ {w}
          /\ overdue' = overdue \ {w} /\ reused' = reused
          /\ \A v \in Workers \ {w} : /\ job'[v] = job[v] /\ stage'[v] = stage[v]
                                      /\ seen'[v] = seen[v]
      BY <2>1, LeaveFacts
    <2>3. op["close"] = "none" /\ \A v \in Workers : job[v] # "close"
      BY <1>5, Stationed DEF Operational, OpenInv, WorkInv
    <2>4. /\ op'["close"] = "none" /\ op'["ensure"] \in {op["ensure"], "pending"}
          /\ \A v \in Workers \ {w} : job[v] = "ensure" /\ v \notin overdue =>
                 op'["ensure"] = op["ensure"]
      BY <1>2, <1>3, <2>2, <2>3
    <2>5. NumberInv'
      BY Stationed, <1>1, <2>2, <2>4 DEF OpenInv, NumberInv
    <2>6. LatestInv'
      BY <2>2, <2>4 DEF OpenInv, LatestInv
    <2>7. \A v \in Workers : job'[v] # "close" /\ stage'[v] \notin {"closing", "closed"}
      BY <2>2, <2>3, Stationed
    <2>8. WorkInv' /\ ShutInv'
      BY <1>1, <2>4, <2>7 DEF OpenInv, WorkInv, ShutInv, Finishes
    <2> QED
      BY <2>5, <2>6, <2>8 DEF OpenInv
  <1> QED
    BY <1>4, <1>5

LEMMA CompensateOpen ==
    ASSUME Inv, Inv', OpenInv, NEW w \in Workers, Compensate(w)
    PROVE  OpenInv'
  <1>1. /\ stage[w] = "compensating" /\ job[w] = "ensure" /\ door = "ended"
        /\ UNCHANGED <<door, cred, lost>>
    BY Stationed DEF Compensate, roomVars
  <1>2. PICK ops \in {op, Requeued(op)} :
            Leave(w, ops) /\ (ops = Requeued(op) \/ ~live')
    BY DEF Compensate
  <1>3. /\ ops \in [Kinds -> States] /\ ops["ensure"] = op["ensure"]
        /\ ops["close"] = "pending" \/ (ops["close"] = op["close"] /\ ~live')
    BY <1>2, Stationed DEF Requeued, Kinds, States
  <1>4. reused' = reused
    BY <1>2 DEF Leave
  <1> QED
    BY <1>1, <1>2, <1>3, <1>4, RequeueOpen

\* The call of a close: the room is shut, or the close will be due again.
LEMMA CloseRoomOpen ==
    ASSUME Inv, Inv', OpenInv, NEW w \in Workers, CloseRoom(w)
    PROVE  OpenInv'
  <1>1. PICK next, read :
            /\ next \in {"closed", "refused"} /\ Advance(w, next, read)
            /\ next = "closed" => read = seen[w] /\ ~live'
            /\ live' => live
    <2>1. CASE Advance(w, "closed", seen[w]) /\ live' = FALSE
      BY <2>1
    <2>2. CASE Advance(w, "refused", "-") /\ live' \in {live, FALSE}
      <3>1. live' => live
        BY <2>2
      <3> QED
        BY <2>2, <3>1
    <2> QED
      BY <2>1, <2>2 DEF CloseRoom, Call
  <1>2. /\ stage[w] = "closing" /\ job[w] = "close"
        /\ UNCHANGED <<op, job, fenced, renumbered, overdue, reused, door, cred, lost>>
        /\ stage'[w] = next /\ seen'[w] = read
        /\ \A v \in Workers \ {w} : stage'[v] = stage[v] /\ seen'[v] = seen[v]
    BY <1>1, Stationed DEF CloseRoom, Call, Advance, roomVars
  <1>3. NumberInv' /\ LatestInv'
    BY <1>2 DEF OpenInv, NumberInv, LatestInv
  <1>4. WorkInv'
    BY <1>1, <1>2 DEF OpenInv, WorkInv, Enforcing
  <1>5. ShutInv'
    <2>1. Watched => Watched'
      BY <1>2 DEF Watched
    <2>2. \A v \in Workers \ {w} : Finishes(v)' => Finishes(v)
      BY <1>2 DEF Finishes, Enforcing
    <2>3. Finishes(w)' => ~cred /\ ~live'
      BY <1>1, <1>2 DEF Finishes, Enforcing, OpenInv, WorkInv
    <2> QED
      BY <1>1, <1>2, <2>1, <2>2, <2>3 DEF OpenInv, ShutInv
  <1> QED
    BY <1>3, <1>4, <1>5 DEF OpenInv

\* Its transaction.
LEMMA SettleCloseOpen ==
    ASSUME Inv, Inv', OpenInv, NEW w \in Workers, SettleClose(w) \/ SettleRefusedClose(w)
    PROVE  OpenInv'
  <1>1. /\ job[w] = "close" /\ UNCHANGED <<door, cred, live, lost, reused>>
    BY Stationed DEF SettleClose, SettleRefusedClose, Leave, kitVars
  <1>2. /\ job'[w] = "none" /\ stage'[w] = "idle"
        /\ fenced' = fenced \ {w} /\ overdue' = overdue \ {w}
        /\ \A v \in Workers \ {w} : /\ job'[v] = job[v] /\ stage'[v] = stage[v]
                                    /\ seen'[v] = seen[v]
    BY Stationed DEF SettleClose, SettleRefusedClose, Leave
  <1>3. PICK s \in {"pending", "succeeded"} :
            /\ op' = Settled(w, s)
            /\ s = "succeeded" => stage[w] = "closed" /\ ~Enforcing(w)
            /\ \/ renumbered' = renumbered \ {w}
               \/ /\ Mine(w) /\ s = "pending"
                  /\ renumbered' = renumbered \cup Rivals(w, "close")
    BY DEF SettleClose, SettleRefusedClose, Leave
  <1>4. /\ op'["ensure"] = op["ensure"]
        /\ \/ Mine(w) /\ op'["close"] = s
           \/ ~Mine(w) /\ op'["close"] = op["close"]
    <2>1. CASE Mine(w)
      BY <1>1, <1>3, <2>1, Stationed DEF Settled, Kinds
    <2>2. CASE ~Mine(w)
      BY <1>3, <2>2 DEF Settled
    <2> QED
      BY <2>1, <2>2
  <1>5. NumberInv'
    <2>1. Mine(w) => w \notin renumbered
      BY <1>1 DEF Mine, OpenInv, NumberInv
    <2>2. \A v \in renumbered' : job'[v] = "close"
      BY <1>2, <1>3, <2>1, Stationed DEF OpenInv, NumberInv, Rivals
    <2>3. op'["close"] \in {"leased", "expired"} => renumbered' \subseteq fenced'
      BY <1>2, <1>3, <1>4 DEF OpenInv, NumberInv
    <2>4. \A v \in Workers : job'[v] = "none" => v \notin overdue'
      BY <1>2 DEF OpenInv, NumberInv
    <2> QED
      BY <2>2, <2>3, <2>4 DEF NumberInv
  <1>6. LatestInv'
    BY <1>1, <1>2, <1>4 DEF OpenInv, LatestInv
  <1>7. WorkInv'
    BY <1>1, <1>2, <1>4 DEF OpenInv, WorkInv, Enforcing
  <1>8. ShutInv'
    <2>1. Watched => Watched'
      BY <1>1, <1>2 DEF Watched
    <2>2. \A v \in Workers : Finishes(v)' => Finishes(v)
      BY <1>2, <1>4 DEF Finishes, Enforcing
    <2>3. op'["close"] = "succeeded" => op["close"] = "succeeded" \/ Finishes(w)
      BY <1>1, <1>3, <1>4 DEF Finishes, Mine
    <2> QED
      BY <1>1, <1>2, <1>4, <2>1, <2>2, <2>3 DEF OpenInv, ShutInv
  <1> QED
    BY <1>5, <1>6, <1>7, <1>8 DEF OpenInv

\* Claims: an idle worker takes a row, and others that claimed it become stale, but
\* for those whose number is given out again.
LEMMA ClaimFacts ==
    ASSUME Inv, OpenInv, NEW w \in Workers, NEW k \in Kinds, NEW next, NEW read,
           Claim(w, k, next, read)
    PROVE  /\ job[w] = "none" /\ w \notin fenced /\ w \notin overdue
           /\ job'[w] = k /\ stage'[w] = next /\ seen'[w] = read
           /\ op' = [op EXCEPT ![k] = "leased"] /\ overdue' = overdue
           /\ \A v \in Workers \ {w} : /\ job'[v] = job[v] /\ stage'[v] = stage[v]
                                       /\ seen'[v] = seen[v]
           /\ \A v \in Workers : job[v] # k => (v \in fenced' <=> v \in fenced)
           /\ renumbered' \subseteq renumbered /\ w \notin renumbered'
           /\ k # "close" \/ ~reused' =>
                  /\ renumbered' = renumbered /\ (reused' <=> reused)
                  /\ \A v \in Workers \ {w} : job[v] = k => v \in fenced'
           /\ k = "close" => renumbered' \subseteq fenced'
  <1>1. /\ stage[w] = "idle" /\ op' = [op EXCEPT ![k] = "leased"] /\ overdue' = overdue
        /\ job' = [job EXCEPT ![w] = k] /\ stage' = [stage EXCEPT ![w] = next]
        /\ seen' = [seen EXCEPT ![w] = read]
    BY DEF Claim, Free
  <1>2. PICK same \in SUBSET (renumbered \cap Rivals(w, k)) :
            /\ fenced' = (fenced \cup Rivals(w, k)) \ same
            /\ renumbered' = renumbered \ same
            /\ reused' = (reused \/ same # {})
    BY DEF Claim
  <1>3. /\ job[w] = "none" /\ w \notin overdue /\ w \notin renumbered
        /\ \A v \in renumbered : v \in Workers /\ job[v] = "close"
    BY <1>1, Stationed DEF OpenInv, NumberInv, Kinds
  <1>4. w \notin fenced
    BY <1>3 DEF Inv, Crew
  <1>5. k # "close" \/ ~reused' => same = {}
    BY <1>2, <1>3 DEF Rivals
  <1>6. k # "close" \/ ~reused' => /\ renumbered' = renumbered /\ (reused' <=> reused)
                                   /\ \A v \in Workers \ {w} : job[v] = k => v \in fenced'
    BY <1>2, <1>5 DEF Rivals
  <1>7. \A v \in Workers : job[v] # k => (v \in fenced' <=> v \in fenced)
    BY <1>2 DEF Rivals
  <1>8. k = "close" => renumbered' \subseteq fenced'
    BY <1>2, <1>3 DEF Rivals
  <1>9. renumbered' \subseteq renumbered /\ w \notin renumbered'
    BY <1>2, <1>3
  <1>10. /\ job'[w] = k /\ stage'[w] = next /\ seen'[w] = read
         /\ \A v \in Workers \ {w} : /\ job'[v] = job[v] /\ stage'[v] = stage[v]
                                     /\ seen'[v] = seen[v]
    BY <1>1, Stationed
  <1> QED
    BY <1>1, <1>3, <1>4, <1>6, <1>7, <1>8, <1>9, <1>10

LEMMA ClaimEnsureOpen ==
    ASSUME Inv, Inv', OpenInv, NEW w \in Workers, ClaimEnsure(w)
    PROVE  OpenInv'
  <1>1. UNCHANGED <<door, cred, live, lost>> /\ op["ensure"] # "leased"
    BY DEF ClaimEnsure, roomVars, kitVars, Due
  <1>2. CASE Operational /\ Claim(w, "ensure", "ensuring", "-")
    <2>1. /\ op["close"] = "none"
          /\ \A v \in Workers : job[v] # "close" /\ stage[v] # "compensating"
      BY <1>2, Stationed DEF Operational, OpenInv, WorkInv
    <2>2. /\ job[w] = "none" /\ w \notin fenced /\ w \notin overdue
          /\ job'[w] = "ensure" /\ stage'[w] = "ensuring"
          /\ op' = [op EXCEPT !["ensure"] = "leased"] /\ overdue' = overdue
          /\ \A v \in Workers \ {w} : job'[v] = job[v] /\ stage'[v] = stage[v]
          /\ \A v \in Workers : job[v] # "ensure" => (v \in fenced' <=> v \in fenced)
          /\ renumbered' = renumbered
          /\ \A v \in Workers \ {w} : job[v] = "ensure" => v \in fenced'
      BY <1>2, ClaimFacts DEF Kinds
    <2>3. op'["close"] = "none" /\ op'["ensure"] = "leased"
      BY <2>1, <2>2, Stationed DEF Kinds
    <2>4. NumberInv'
      BY <2>1, <2>2, <2>3, Stationed DEF OpenInv, NumberInv
    <2>5. LatestInv'
      <3>1. \A v \in Workers \ {w} : job[v] = "ensure" => v \in overdue
        BY <1>1, <2>1 DEF OpenInv, LatestInv
      <3> QED
        BY <2>2, <2>3, <3>1 DEF LatestInv
    <2>6. \A v \in Workers : job'[v] # "close" /\ stage'[v] \notin {"closing", "closed"}
      BY <2>1, <2>2, Stationed
    <2>7. WorkInv' /\ ShutInv'
      BY <1>1, <2>3, <2>6 DEF OpenInv, WorkInv, ShutInv, Finishes
    <2> QED
      BY <2>4, <2>5, <2>7 DEF OpenInv
  <1>3. CASE ~Operational /\ ClaimAndSettle(w, "ensure", "succeeded")
    <2>1. /\ op' = [op EXCEPT !["ensure"] = "succeeded"] /\ fenced \subseteq fenced'
          /\ \A v \in Workers : job[v] # "ensure" => (v \in fenced' <=> v \in fenced)
          /\ UNCHANGED <<job, stage, seen, renumbered, overdue, reused>>
      BY <1>3 DEF ClaimAndSettle, Rivals
    <2>2. op'["ensure"] = "succeeded" /\ op'["close"] = op["close"]
      BY <2>1, Stationed DEF Kinds
    <2>3. op["ensure"] \in {"pending", "expired"}
      BY <1>3 DEF ClaimEnsure, Due
    <2>4. NumberInv'
      BY <2>1, <2>2 DEF OpenInv, NumberInv
    <2>5. LatestInv'
      BY <2>1, <2>3 DEF OpenInv, LatestInv
    <2>6. WorkInv'
      BY <1>1, <2>1, <2>2 DEF OpenInv, WorkInv, Enforcing
    <2>7. ShutInv'
      <3>1. \A v \in Workers : Finishes(v)' => Finishes(v)
        BY <2>1, <2>2 DEF Finishes, Enforcing
      <3>2. Watched => Watched'
        BY <1>1, <2>1 DEF Watched
      <3> QED
        BY <1>1, <2>1, <2>2, <3>1, <3>2 DEF OpenInv, ShutInv
    <2> QED
      BY <2>4, <2>5, <2>6, <2>7 DEF OpenInv
  <1> QED
    BY <1>2, <1>3 DEF ClaimEnsure

LEMMA ClaimCloseOpen ==
    ASSUME Inv, Inv', OpenInv, NEW w \in Workers, ClaimClose(w)
    PROVE  OpenInv'
  <1>1. UNCHANGED <<door, cred, live, lost>> /\ op["close"] \in {"pending", "expired"}
    BY DEF ClaimClose, roomVars, kitVars, Due
  <1>2. CASE ClaimAndSettle(w, "close", "pending")
    <2>1. /\ op' = [op EXCEPT !["close"] = "pending"] /\ fenced \subseteq fenced'
          /\ \A v \in Workers : job[v] # "close" => (v \in fenced' <=> v \in fenced)
          /\ UNCHANGED <<job, stage, seen, renumbered, overdue, reused>>
      BY <1>2 DEF ClaimAndSettle, Rivals
    <2>2. op'["close"] = "pending" /\ op'["ensure"] = op["ensure"]
      BY <2>1, Stationed DEF Kinds
    <2>3. NumberInv' /\ LatestInv'
      BY <2>1, <2>2 DEF OpenInv, NumberInv, LatestInv
    <2>4. WorkInv' /\ ShutInv'
      BY <1>1, <2>1, <2>2 DEF OpenInv, WorkInv, ShutInv, Finishes, Enforcing
    <2> QED
      BY <2>3, <2>4 DEF OpenInv
  <1>3. ASSUME op["ensure"] \notin {"pending", "leased"}, NEW read,
               read = IF cred THEN "tokens" ELSE "-", Claim(w, "close", "closing", read)
        PROVE  OpenInv'
    <2>1. /\ job[w] = "none" /\ w \notin overdue
          /\ job'[w] = "close" /\ stage'[w] = "closing" /\ seen'[w] = read
          /\ op' = [op EXCEPT !["close"] = "leased"] /\ overdue' = overdue
          /\ \A v \in Workers \ {w} : /\ job'[v] = job[v] /\ stage'[v] = stage[v]
                                      /\ seen'[v] = seen[v]
          /\ \A v \in Workers : job[v] # "close" => (v \in fenced' <=> v \in fenced)
          /\ renumbered' \subseteq renumbered /\ w \notin renumbered'
          /\ ~reused' => ~reused /\ \A v \in Workers \ {w} : job[v] = "close" => v \in fenced'
          /\ renumbered' \subseteq fenced'
      BY <1>3, ClaimFacts DEF Kinds
    <2>2. op'["close"] = "leased" /\ op'["ensure"] = op["ensure"]
      BY <2>1, Stationed DEF Kinds
    <2>3. NumberInv'
      BY <2>1, Stationed DEF OpenInv, NumberInv
    <2>4. LatestInv'
      BY <2>1, <2>2 DEF OpenInv, LatestInv
    <2>5. door = "ended" /\ op["ensure"] \in {"expired", "succeeded"}
      <3>1. op["ensure"] \in States
        BY DEF Inv, TypeOK, States, Kinds
      <3>2. door = "ended"
        BY <1>1, Stationed
      <3> QED
        BY <1>3, <3>1, <3>2 DEF OpenInv, WorkInv, States
    <2>6. WorkInv'
      BY <1>1, <1>3, <2>1, <2>2, <2>5 DEF OpenInv, WorkInv, Enforcing
    <2>7. ShutInv'
      <3>1. ~reused' => \A v \in Workers : ~Finishes(v)'
        BY <2>1, Stationed DEF Finishes
      <3>2. ~reused' => \A v \in Workers : job'[v] = "close" /\ v \notin fenced' => v = w
        BY <2>1
      <3> QED
        BY <2>2, <3>1, <3>2 DEF ShutInv
    <2> QED
      BY <2>3, <2>4, <2>6, <2>7 DEF OpenInv
  <1> QED
    BY <1>2, <1>3 DEF ClaimClose

\* A step of a worker at the recording.
LEMMA RecordingOpen ==
    ASSUME Inv, Inv', OpenInv, NEW w \in Workers, job[w] \in {"start", "stop"},
           UNCHANGED <<door, cred, live, lost, reused>>,
           \/ \E next, read : Advance(w, next, read)
           \/ \E ops : Leave(w, ops) /\ ops["ensure"] = op["ensure"]
                                     /\ ops["close"] = op["close"]
    PROVE  OpenInv'
  <1>1. w \notin renumbered
    BY DEF OpenInv, NumberInv
  <1>2. CASE \E next, read : Advance(w, next, read)
    <2>1. PICK next, read : Advance(w, next, read)
      BY <1>2
    <2>2. \A v \in Workers \ {w} : stage'[v] = stage[v] /\ seen'[v] = seen[v]
      BY <2>1, Stationed DEF Advance
    <2>3. UNCHANGED <<op, job, fenced, renumbered, overdue, reused>>
      BY <2>1 DEF Advance
    <2>4. \A v \in Workers : Undisturbed(v)
      BY <2>2, <2>3 DEF Undisturbed, OpenInv, NumberInv
    <2> QED
      BY <2>3, <2>4, AsideOpen
  <1>3. ASSUME NEW ops, Leave(w, ops), ops["ensure"] = op["ensure"],
               ops["close"] = op["close"]
        PROVE  OpenInv'
    <2>1. /\ job'[w] = "none" /\ op' = ops /\ renumbered' = renumbered \ {w}
          /\ fenced' = fenced \ {w} /\ overdue' = overdue \ {w}
          /\ \A v \in Workers \ {w} : /\ job'[v] = job[v] /\ stage'[v] = stage[v]
                                      /\ seen'[v] = seen[v]
      BY <1>3, LeaveFacts
    <2>2. \A v \in Workers : Undisturbed(v)
      BY <2>1 DEF Undisturbed, OpenInv, NumberInv
    <2> QED
      BY <1>1, <1>3, <2>1, <2>2, AsideOpen
  <1> QED
    BY <1>2, <1>3

LEMMA ClaimRecordingOpen ==
    ASSUME Inv, Inv', OpenInv, NEW w \in Workers, ClaimStart(w) \/ ClaimStop(w)
    PROVE  OpenInv'
  <1>1. UNCHANGED <<door, cred, live, lost>>
    BY DEF ClaimStart, ClaimStop, roomVars, kitVars
  <1>2. PICK k \in {"start", "stop"} : \E next, read, s :
            Claim(w, k, next, read) \/ ClaimAndSettle(w, k, s)
    BY DEF ClaimStart, ClaimStop
  <1>3. PICK next, read, s : Claim(w, k, next, read) \/ ClaimAndSettle(w, k, s)
    BY <1>2
  <1>4. CASE Claim(w, k, next, read)
    <2>1. /\ job[w] = "none" /\ job'[w] = k /\ overdue' = overdue
          /\ op' = [op EXCEPT ![k] = "leased"]
          /\ \A v \in Workers \ {w} : /\ job'[v] = job[v] /\ stage'[v] = stage[v]
                                      /\ seen'[v] = seen[v]
          /\ \A v \in Workers : job[v] # k => (v \in fenced' <=> v \in fenced)
          /\ renumbered' = renumbered /\ (reused' <=> reused)
      BY <1>4, ClaimFacts DEF Kinds
    <2>2. \A v \in Workers : Undisturbed(v)
      BY <2>1 DEF Undisturbed, OpenInv, NumberInv
    <2>3. op'["ensure"] = op["ensure"] /\ op'["close"] = op["close"]
      BY <2>1, Stationed DEF Kinds
    <2> QED
      BY <1>1, <2>1, <2>2, <2>3, AsideOpen
  <1>5. CASE ClaimAndSettle(w, k, s)
    <2>1. \A v \in Workers : Undisturbed(v)
      BY <1>5 DEF ClaimAndSettle, Undisturbed, Rivals, OpenInv, NumberInv
    <2>2. /\ op'["ensure"] = op["ensure"] /\ op'["close"] = op["close"]
          /\ renumbered' = renumbered /\ reused' = reused
      BY <1>5, Stationed DEF ClaimAndSettle, Kinds
    <2> QED
      BY <1>1, <2>1, <2>2, AsideOpen
  <1> QED
    BY <1>3, <1>4, <1>5

\* The steps of the workers at the recording.
LEMMA RecordingStepOpen ==
    ASSUME Inv, Inv', OpenInv, NEW w \in Workers,
           \/ SettleStart(w) \/ RetryStart(w) \/ FailStart(w) \/ BeginDispatch(w)
           \/ Dispatch(w) \/ BeginStop(w) \/ StopRecording(w) \/ RetryStop(w)
           \/ SettleStop(w)
    PROVE  OpenInv'
  <1>1. job[w] \in {"start", "stop"}
    BY Known DEF SettleStart, RetryStart, FailStart, BeginDispatch, Dispatch, BeginStop,
                 StopRecording, RetryStop, SettleStop, AtStage
  <1>2. UNCHANGED <<door, cred, live, lost>>
    BY DEF SettleStart, RetryStart, FailStart, BeginDispatch, Dispatch, BeginStop,
           StopRecording, RetryStop, SettleStop, Unstarted, roomVars, kitVars
  <1>3. \A s : LET ops == Settled(w, s) IN
            /\ ops["ensure"] = op["ensure"] /\ ops["close"] = op["close"]
            /\ LET more == [ops EXCEPT !["stop"] = "succeeded"] IN
               more["ensure"] = op["ensure"] /\ more["close"] = op["close"]
    BY <1>1, Stationed DEF Settled, Kinds
  <1>4. \/ \E next, read : Advance(w, next, read)
        \/ \E ops : /\ Leave(w, ops)
                    /\ ops["ensure"] = op["ensure"] /\ ops["close"] = op["close"]
    <2>1. CASE SettleStart(w) \/ RetryStart(w) \/ RetryStop(w) \/ SettleStop(w)
      BY <1>3, <2>1 DEF SettleStart, RetryStart, RetryStop, SettleStop
    <2>2. CASE Unstarted(w)
      BY <1>3, <2>2 DEF Unstarted
    <2>3. CASE FailStart(w) \/ BeginDispatch(w)
      BY <1>3, <2>2, <2>3 DEF FailStart, BeginDispatch
    <2>4. CASE Dispatch(w) \/ BeginStop(w) \/ StopRecording(w)
      BY <1>3, <2>4 DEF Dispatch, BeginStop, StopRecording
    <2> QED
      BY <2>1, <2>3, <2>4
  <1>5. reused' = reused
    BY <1>4 DEF Leave, Advance
  <1> QED
    BY <1>1, <1>2, <1>4, <1>5, RecordingOpen

\* The steps of staff, of LiveKit and its webhooks, and of time.
LEMMA EndingOpen ==
    ASSUME Inv, Inv', OpenInv, NEW by, Ending(by) PROVE OpenInv'
  <1>1. PICK ks \in {{"stop", "close"}, {"close"}} : Rewrite(Insert(op, ks))
    BY DEF Ending
  <1>2. door # "none" /\ op["close"] = "none"
    BY Stationed DEF Ending, Operational
  <1>3. op'["close"] = "pending" /\ op'["ensure"] = op["ensure"]
    BY <1>1, <1>2 DEF Rewrite, Insert, Kinds
  <1>4. UNCHANGED <<job, stage, seen, fenced, renumbered, overdue, reused>>
    BY <1>1 DEF Rewrite
  <1>5. op["ensure"] # "none"
    BY <1>2 DEF OpenInv, WorkInv
  <1> QED
    BY <1>2, <1>3, <1>4, <1>5, RunningOpen

LEMMA StaffOpen ==
    ASSUME Inv, Inv', OpenInv, StaffStep PROVE OpenInv'
  <1>1. CASE Create \/ Start
    <2>1. PICK k \in {"ensure", "start"} : Rewrite(Insert(op, {k})) /\ (Create => k = "ensure")
      BY <1>1 DEF Create, Start
    <2>2. /\ UNCHANGED <<job, stage, seen, fenced, renumbered, overdue, reused>>
          /\ op["close"] = "none"
      BY <1>1, <2>1, Stationed DEF Create, Start, Rewrite
    <2>3. /\ op'["close"] = "none" /\ (op["ensure"] # "none" => op'["ensure"] = op["ensure"])
          /\ Create => op'["ensure"] # "none"
      BY <2>1, <2>2 DEF Rewrite, Insert, Kinds
    <2>4. op'["ensure"] # "none"
      BY <1>1, <2>3 DEF Start, OpenInv, WorkInv
    <2> QED
      BY <2>2, <2>3, <2>4, RunningOpen
  <1>2. CASE End
    BY <1>2, EndingOpen DEF End
  <1>3. CASE IssueCredential
    <2>1. /\ UNCHANGED <<job, stage, seen, fenced, renumbered, overdue, reused, op, door>>
          /\ op["close"] = "none" /\ door # "none"
      BY <1>3, Stationed DEF IssueCredential, Operational, opVars, roomVars
    <2> QED
      BY <2>1, RunningOpen DEF OpenInv, WorkInv
  <1> QED
    BY <1>1, <1>2, <1>3 DEF StaffStep

LEMMA KitOpen ==
    ASSUME Inv, Inv', OpenInv, KitStep PROVE OpenInv'
  <1>1. ASSUME UNCHANGED <<job, stage, seen, fenced, renumbered, overdue, reused, door,
                           lost>>,
               op'["ensure"] = op["ensure"], op'["close"] = op["close"],
               cred' => cred, live' => live
        PROVE  OpenInv'
    <2>1. \A v \in Workers : Undisturbed(v)
      BY <1>1 DEF Undisturbed, OpenInv, NumberInv
    <2> QED
      BY <1>1, <2>1, AsideOpen
  <1>2. CASE CredentialExpires \/ RoomEmpties \/ EgressMoves \/ EgressFails
    <2>1. /\ UNCHANGED <<opVars, roomVars, lost>>
          /\ cred' \in {cred, FALSE} /\ live' \in {live, FALSE}
      BY <1>2 DEF CredentialExpires, RoomEmpties, EgressMoves, EgressFails
    <2>2. cred' => cred
      BY <2>1, Zenon
    <2>3. live' => live
      BY <2>1, Zenon
    <2> QED
      BY <1>1, <2>1, <2>2, <2>3 DEF opVars, roomVars
  <1>3. CASE Join
    <2>1. UNCHANGED <<opVars, roomVars, lost, cred>> /\ cred
      BY <1>3 DEF Join
    <2>2. NumberInv' /\ LatestInv' /\ WorkInv'
      BY <2>1 DEF OpenInv, NumberInv, LatestInv, WorkInv, Enforcing, opVars, roomVars
    <2>3. ShutInv'
      BY <2>1 DEF OpenInv, ShutInv, Finishes, Enforcing, opVars
    <2> QED
      BY <2>2, <2>3 DEF OpenInv
  <1>4. CASE RoomFinished
    <2>1. CASE Ending("livekit")
      BY <2>1, EndingOpen
    <2>2. CASE UNCHANGED <<opVars, roomVars, lost, cred, live>>
      BY <1>1, <2>2 DEF opVars, roomVars
    <2> QED
      BY <1>4, <2>1, <2>2 DEF RoomFinished
  <1>5. ASSUME NEW status \in Reports, Receive(status) PROVE OpenInv'
    <2>1. PICK ks \in {{"start", "stop"}, {"start"}} : Rewrite(Relieved(ks))
      BY <1>5 DEF Receive
    <2>2. op'["ensure"] = op["ensure"] /\ op'["close"] = op["close"]
      BY <2>1 DEF Rewrite, Relieved, Kinds
    <2> QED
      BY <1>1, <1>5, <2>1, <2>2 DEF Receive, Rewrite, kitVars
  <1> QED
    BY <1>2, <1>3, <1>4, <1>5 DEF KitStep

LEMMA LapseOpen ==
    ASSUME Inv, Inv', OpenInv, NEW k \in Kinds, Lapse(k) PROVE OpenInv'
  <1>1. /\ op[k] = "leased" /\ op' = [op EXCEPT ![k] = "expired"]
        /\ UNCHANGED <<job, stage, seen, fenced, renumbered, reused>>
        /\ overdue' = overdue \cup Holders(k)
        /\ UNCHANGED <<door, cred, live, lost>>
    BY DEF Lapse, LeaseExpires, roomVars, kitVars
  <1>2. /\ op'[k] = "expired" /\ \A i \in Kinds \ {k} : op'[i] = op[i]
        /\ {"ensure", "close"} \subseteq Kinds /\ k # "none"
    BY <1>1, Stationed DEF Kinds
  <1>3. NumberInv'
    BY <1>1, <1>2 DEF OpenInv, NumberInv, Holders
  <1>4. LatestInv'
    <2>1. CASE k = "ensure"
      <3>1. \A w \in Workers : job[w] = "ensure" => w \in overdue'
        BY <1>1, <2>1 DEF Holders, OpenInv, LatestInv
      <3> QED
        BY <1>1, <3>1 DEF LatestInv
    <2>2. CASE k # "ensure"
      BY <1>1, <1>2, <2>2 DEF OpenInv, LatestInv
    <2> QED
      BY <2>1, <2>2
  <1>5. WorkInv'
    BY <1>1, <1>2 DEF OpenInv, WorkInv, Enforcing
  <1>6. ShutInv'
    <2>1. \A v \in Workers : Finishes(v)' => Finishes(v)
      BY <1>1, <1>2 DEF Finishes, Enforcing
    <2>2. Watched => Watched'
      BY <1>1 DEF Watched
    <2> QED
      BY <1>1, <1>2, <2>1, <2>2 DEF OpenInv, ShutInv
  <1> QED
    BY <1>3, <1>4, <1>5, <1>6 DEF OpenInv

\* A late ensure that dies is lost.
LEMMA CrashOpen ==
    ASSUME Inv, Inv', OpenInv, NEW w \in Workers, Crash(w) PROVE OpenInv'
  <1>1. /\ stage[w] # "idle" /\ Leave(w, op)
        /\ UNCHANGED <<door, cred, live, reused>>
        /\ lost' = (lost \/ (w \in overdue
                             /\ stage[w] \in {"ensured", "refused", "compensating"}))
    BY DEF Crash, Die, Leave, roomVars, kitVars
  <1>2. /\ job'[w] = "none" /\ stage'[w] = "idle" /\ op' = op
        /\ fenced' = fenced \ {w} /\ renumbered' = renumbered \ {w}
        /\ overdue' = overdue \ {w}
        /\ \A v \in Workers \ {w} : /\ job'[v] = job[v] /\ stage'[v] = stage[v]
                                    /\ seen'[v] = seen[v]
    BY <1>1, LeaveFacts
  <1>3. NumberInv'
    BY <1>2, Stationed DEF OpenInv, NumberInv
  <1>4. LatestInv'
    BY <1>2 DEF OpenInv, LatestInv
  <1>5. WorkInv'
    BY <1>1, <1>2 DEF OpenInv, WorkInv, Enforcing
  <1>6. ShutInv'
    <2>1. \A v \in Workers : Finishes(v)' => Finishes(v)
      BY <1>2 DEF Finishes, Enforcing
    <2>2. Watched => Watched'
      BY <1>1, <1>2 DEF Watched
    <2> QED
      BY <1>1, <1>2, <2>1, <2>2 DEF OpenInv, ShutInv
  <1> QED
    BY <1>3, <1>4, <1>5, <1>6 DEF OpenInv

LEMMA NextOpen == Inv /\ OpenInv /\ [Next]_vars => OpenInv'
  <1> SUFFICES ASSUME Inv, OpenInv, [Next]_vars PROVE OpenInv'
    OBVIOUS
  <1>1. Inv'
    BY NextInv
  <1>2. CASE UNCHANGED vars
    BY <1>2 DEF vars, opVars, roomVars, kitVars, OpenInv, NumberInv, LatestInv, WorkInv,
                ShutInv, Finishes, Enforcing, Watched
  <1>3. CASE StaffStep \/ KitStep
    BY <1>1, <1>3, StaffOpen, KitOpen
  <1>4. ASSUME NEW w \in Workers, ClaimStep(w) \/ Crash(w) PROVE OpenInv'
    BY <1>1, <1>4, ClaimEnsureOpen, ClaimCloseOpen, ClaimRecordingOpen, CrashOpen
       DEF ClaimStep
  <1>5. ASSUME NEW w \in Workers, WorkStep(w) PROVE OpenInv'
    <2>1. CASE EnsureRoom(w) \/ SettleEnsure(w) \/ SettleRefusedEnsure(w) \/ Compensate(w)
      BY <1>1, <2>1, EnsureRoomOpen, SettleEnsureOpen, RefusedEnsureOpen, CompensateOpen
    <2>2. CASE CloseRoom(w) \/ SettleClose(w) \/ SettleRefusedClose(w)
      BY <1>1, <2>2, CloseRoomOpen, SettleCloseOpen
    <2>3. CASE \/ SettleStart(w) \/ RetryStart(w) \/ FailStart(w) \/ BeginDispatch(w)
               \/ Dispatch(w) \/ BeginStop(w) \/ StopRecording(w) \/ RetryStop(w)
               \/ SettleStop(w)
      BY <1>1, <2>3, RecordingStepOpen
    <2> QED
      BY <1>5, <2>1, <2>2, <2>3 DEF WorkStep
  <1>6. ASSUME NEW k \in Kinds, Lapse(k) PROVE OpenInv'
    BY <1>1, <1>6, LapseOpen
  <1> QED
    BY <1>2, <1>3, <1>4, <1>5, <1>6 DEF Next

\* A close that is done is done for good, however many workers outlive their leases.
THEOREM StaysShut == Spec => []NothingLeftOpen
  <1>1. Inv /\ OpenInv => NothingLeftOpen
    BY DEF OpenInv, ShutInv, Watched, NothingLeftOpen
  <1>2. Inv /\ OpenInv /\ [Next]_vars => (Inv /\ OpenInv)'
    BY NextInv, NextOpen
  <1> QED
    BY InitInv, OpenInit, <1>1, <1>2, PTL DEF Spec
=============================================================================
