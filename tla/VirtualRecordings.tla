------------------------- MODULE VirtualRecordings --------------------------
(***************************************************************************)
(* The automatic recording of a virtual room: started at most once,        *)
(* stopped at most once, and settled by whichever comes first of the       *)
(* worker's own look at LiveKit and LiveKit's webhooks                     *)
(* (events/event-virtual-room.server.ts,                                   *)
(* events/event-virtual-recording-receipts.server.ts).                     *)
(***************************************************************************)
EXTENDS VirtualRooms

\* Mutant: the start of an ended room is given up without a look at LiveKit.
ListingUnlessEnded ==
    IF ~Operational THEN "gone"
    ELSE IF egresses > 1 THEN "many" ELSE IF egresses = 1 THEN egress ELSE "none"

\* What a listing of LiveKit's recordings of the room shows.
Listing ==
    IF egresses > 1 THEN "many"
    ELSE IF egresses = 1 THEN egress
    ELSE IF Operational THEN "none" ELSE "gone"

\* The status a recording takes over from LiveKit.
Adopted(status) == IF status = "active" THEN "running" ELSE status

\* executeRecordingStart: the claim, the read of the recording and the listing.
ClaimStart(w) ==
    /\ Due("start")
    /\ IF rec = "requested" THEN Claim(w, "start", "listed", Listing)
       ELSE ClaimAndSettle(w, "start", "succeeded")
    /\ UNCHANGED <<roomVars, kitVars, lost>>

\* reconcileRecordingStartSnapshot and settleRecordingStart, for a recording that
\* LiveKit has.
SettleStart(w) ==
    /\ stage[w] \in {"listed", "answered"}
    /\ seen[w] \in {"active", "complete", "failed"}
    /\ rec' = IF Mine(w) /\ rec = "requested" THEN Adopted(seen[w]) ELSE rec
    /\ Leave(w, Settled(w, "succeeded"))
    /\ UNCHANGED <<door, provider, stopper, dispatched, kitVars, lost, mishaps>>

\* A recording that is being stopped, an unexpected one, a call whose outcome is
\* unknown or one dispatched before: the row is tried again later.
RetryStart(w) ==
    /\ \/ stage[w] \in {"listed", "answered"} /\ seen[w] \in {"stopping", "many"}
       \/ stage[w] = "listed" /\ seen[w] = "none" /\ "start" \in dispatched
       \/ stage[w] = "unanswered"
    /\ Leave(w, Settled(w, "pending"))
    /\ UNCHANGED <<roomVars, kitVars, lost, mishaps>>

\* failRecordingBeforeStart, and the same end in beginRecordingStartDispatch: the
\* recording fails and a stop that waits for it is settled with it.
Unstarted(w) ==
    LET fails == Mine(w) /\ rec = "requested"
        ops == Settled(w, "succeeded")
    IN  /\ rec' = IF fails THEN "unstarted" ELSE rec
        /\ Leave(w, IF fails /\ op["stop"] = "pending"
                    THEN [ops EXCEPT !["stop"] = "succeeded"] ELSE ops)
        /\ UNCHANGED <<door, provider, stopper, dispatched, kitVars, lost, mishaps>>

\* Nothing was found for a room that had ended: given up.  How long an earlier
\* dispatch is waited for is left out: a lost call has no effect later on here.
FailStart(w) == stage[w] = "listed" /\ seen[w] = "gone" /\ Unstarted(w)

\* Mutant: an earlier dispatch without a known outcome is not looked for.
BeginDispatchAgain(w) ==
    /\ stage[w] = "listed" /\ seen[w] = "none"
    /\ Mine(w) /\ rec = "requested" /\ Operational
    /\ dispatched' = dispatched \cup {"start"}
    /\ Advance(w, "dispatching", "-")
    /\ UNCHANGED <<door, provider, rec, stopper, kitVars, lost, mishaps>>

\* beginRecordingStartDispatch: under the locks of the room, the recording and the
\* row, the one claim that may call LiveKit is marked.
BeginDispatch(w) ==
    /\ stage[w] = "listed" /\ seen[w] = "none" /\ "start" \notin dispatched
    /\ \/ /\ ~Mine(w) \/ rec # "requested"
          /\ Leave(w, Settled(w, "succeeded"))
          /\ UNCHANGED <<roomVars, kitVars, lost, mishaps>>
       \/ Mine(w) /\ rec = "requested" /\ ~Operational /\ Unstarted(w)
       \/ /\ Mine(w) /\ rec = "requested" /\ Operational
          /\ dispatched' = dispatched \cup {"start"}
          /\ Advance(w, "dispatching", "-")
          /\ UNCHANGED <<door, provider, rec, stopper, kitVars, lost, mishaps>>

\* LiveKit starts a recording of an open room; the call or its answer may be lost.
Dispatch(w) ==
    /\ stage[w] = "dispatching"
    /\ \/ /\ live /\ egress' = "active" /\ egresses' = egresses + 1
          /\ \/ Advance(w, "answered", "active") /\ UNCHANGED mishaps
             \/ Advance(w, "unanswered", "-") /\ Mishap
       \/ /\ Advance(w, "unanswered", "-") /\ UNCHANGED <<egress, egresses>>
          /\ IF live THEN Mishap ELSE UNCHANGED mishaps
    /\ UNCHANGED <<roomVars, lost, cred, live, finished>>

-----------------------------------------------------------------------------
\* executeRecordingStop: the claim, the read of the recording and the snapshot.  A
\* recording without an egress is waited for.
ClaimStop(w) ==
    /\ Due("stop")
    /\ IF rec \in {"running", "stopping"} THEN Claim(w, "stop", "looked", egress)
       ELSE ClaimAndSettle(w, "stop", IF rec \in Terminal THEN "succeeded" ELSE "pending")
    /\ UNCHANGED <<roomVars, kitVars, lost>>

\* beginRecordingStopDispatch: the stop is sent once; a later claim that finds the
\* recording running only waits for LiveKit to end it.
BeginStop(w) ==
    /\ stage[w] = "looked" /\ seen[w] = "active"
    /\ IF "stop" \in dispatched \/ ~Mine(w)
       THEN Leave(w, Settled(w, "pending")) /\ UNCHANGED dispatched
       ELSE Advance(w, "stopping", "-") /\ dispatched' = dispatched \cup {"stop"}
    /\ UNCHANGED <<door, provider, rec, stopper, kitVars, lost, mishaps>>

StopRecording(w) ==
    /\ stage[w] = "stopping"
    /\ \/ /\ egress = "active" /\ egress' = "stopping"
          /\ \/ Advance(w, "looked", "stopping") /\ UNCHANGED mishaps
             \/ Advance(w, "unsure", "-") /\ Mishap
       \/ /\ Advance(w, "unsure", "-") /\ UNCHANGED egress
          /\ IF egress = "active" THEN Mishap ELSE UNCHANGED mishaps
    /\ UNCHANGED <<roomVars, lost, cred, live, finished, egresses>>

\* retryAmbiguousRecordingStop.
RetryStop(w) ==
    /\ stage[w] = "unsure" /\ Leave(w, Settled(w, "pending"))
    /\ UNCHANGED <<roomVars, kitVars, lost, mishaps>>

\* Mutant: the row is done as soon as the stop has been asked for.
SettleStopAtOnce(w) ==
    /\ stage[w] = "looked" /\ seen[w] \in {"stopping", "complete", "failed"}
    /\ rec' = IF Mine(w) /\ rec \notin Terminal THEN seen[w] ELSE rec
    /\ Leave(w, Settled(w, "succeeded"))
    /\ UNCHANGED <<door, provider, stopper, dispatched, kitVars, lost, mishaps>>

\* settleRecordingStop: the row stays due until the recording is terminal.
SettleStop(w) ==
    /\ stage[w] = "looked" /\ seen[w] \in {"stopping", "complete", "failed"}
    /\ rec' = IF Mine(w) /\ rec \notin Terminal THEN seen[w] ELSE rec
    /\ Leave(w, Settled(w, IF {rec, seen[w]} \cap Terminal # {}
                           THEN "succeeded" ELSE "pending"))
    /\ UNCHANGED <<door, provider, stopper, dispatched, kitVars, lost, mishaps>>

-----------------------------------------------------------------------------
\* What LiveKit has reported of the recording by webhook.
Reports ==
    CASE egress = "none" -> {}
      [] egress = "active" -> {"active"}
      [] egress = "stopping" -> {"active", "stopping"}
      [] OTHER -> {"active", "stopping", egress}

\* A webhook that contradicts a settled recording changes nothing.
Contradicts(status) ==
    \/ rec = "unstarted"
    \/ rec \in Terminal /\ status \in Terminal /\ rec # status

\* settleRecordingOperations.
Relieved(kinds) ==
    [k \in Kinds |-> IF k \in kinds /\ op[k] \in {"pending", "leased", "expired"}
                     THEN "succeeded" ELSE op[k]]

\* processNextLiveKitRecordingReceipt: a webhook, as late and as often as it may
\* come.  A stop that nobody of the staff asked for is not believed before its end.
Receive(status) ==
    /\ status \in Reports /\ ~Contradicts(status)
    /\ status = "stopping" /\ rec \in {"requested", "running"} => stopper = "staff"
    /\ rec' = IF rec \in Terminal \/ (rec = "stopping" /\ status \notin Terminal)
              THEN rec ELSE Adopted(status)
    /\ Rewrite(Relieved(IF rec' \in Terminal THEN {"start", "stop"} ELSE {"start"}))
    /\ UNCHANGED <<door, provider, stopper, dispatched, kitVars, lost>>

-----------------------------------------------------------------------------
Lapse(k) == LeaseExpires(k) /\ UNCHANGED <<roomVars, kitVars, lost>>

\* A worker dies; a late ensure that does so leaves its room open at LiveKit.
Crash(w) ==
    /\ Die(w)
    /\ lost' = (lost \/ (w \in overdue
                         /\ stage[w] \in {"ensured", "refused", "compensating"}))
    /\ UNCHANGED <<roomVars, kitVars>>

StaffStep == Create \/ Start \/ End \/ IssueCredential

KitStep ==
    \/ CredentialExpires \/ Join \/ RoomEmpties \/ RoomFinished
    \/ EgressMoves \/ EgressFails \/ \E status \in Reports : Receive(status)

ClaimStep(w) == ClaimEnsure(w) \/ ClaimClose(w) \/ ClaimStart(w) \/ ClaimStop(w)

WorkStep(w) ==
    \/ EnsureRoom(w) \/ SettleEnsure(w) \/ SettleRefusedEnsure(w)
    \/ Compensate(w) \/ CloseRoom(w) \/ SettleClose(w) \/ SettleRefusedClose(w)
    \/ SettleStart(w) \/ RetryStart(w) \/ FailStart(w) \/ BeginDispatch(w)
    \/ Dispatch(w) \/ BeginStop(w) \/ StopRecording(w) \/ RetryStop(w)
    \/ SettleStop(w)

Next ==
    \/ StaffStep \/ KitStep
    \/ \E w \in Workers : ClaimStep(w) \/ WorkStep(w) \/ Crash(w)
    \/ \E k \in Kinds : Lapse(k)

Spec == Init /\ [][Next]_vars

\* What time brings about by itself.
Elapse == CredentialExpires \/ EgressMoves \/ \E k \in Kinds : Lapse(k)

\* The worker polls for due rows and takes the longest due first, so none waits for
\* ever behind rows that are put back; what is claimed is carried through or its
\* lease expires.  Tokens expire, and LiveKit ends the recording of a closed room.
Fairness ==
    /\ \A w \in Workers : WF_vars(WorkStep(w))
    /\ WF_vars(Elapse)
    /\ SF_vars(\E w \in Workers : ClaimEnsure(w))
    /\ SF_vars(\E w \in Workers : ClaimClose(w))
    /\ SF_vars(\E w \in Workers : ClaimStart(w))
    /\ SF_vars(\E w \in Workers : ClaimStop(w))

FairSpec == Spec /\ Fairness
-----------------------------------------------------------------------------
TypeOK ==
    /\ op \in [Kinds -> {"none", "pending", "leased", "expired", "succeeded"}]
    /\ job \in [Workers -> Kinds \cup {"none"}]
    /\ fenced \cup renumbered \cup overdue \subseteq Workers
    /\ late \in 0..MaxLate /\ mishaps \in 0..MaxMishaps
    /\ door \in {"none", "scheduled", "open", "ended"}
    /\ provider \in {"pending", "ready", "error", "closed"}
    /\ rec \in {"none", "requested", "running", "stopping"} \cup Terminal
    /\ stopper \in {"none", "staff", "livekit"}
    /\ dispatched \subseteq Kinds
    /\ egress \in {"none", "active", "stopping", "complete", "failed"}

\* A room is recorded at most once, whatever answers are lost, leases expire and
\* workers die: nobody is recorded by a recording that the application does not
\* know and will not stop (recordingStartDispatchedAt).
RecordedOnce == egresses <= 1

\* The recording's end is LiveKit's: it is only written off when none ever ran, and
\* complete or failed as LiveKit says, unless a worker outlived its lease.
OutcomeTrue ==
    late = 0 =>
        /\ rec = "unstarted" => egress = "none"
        /\ rec \in {"complete", "failed"} => egress = rec

\* A worker that was overtaken never closes the room under its participants: a
\* close or a compensation is only under way for a room that has ended.
OnlyEndedRoomsClosed ==
    \A w \in Workers : stage[w] \in {"closing", "compensating"} => door = "ended"

\* A close that is done is done for good: although late ensures and holders of
\* tokens open the room again, LiveKit has none left once the row has succeeded
\* and no ensure is under way, unless a late one died before it cleaned up.  It
\* rests on the attempt numbers (executeCloseRoom): once the row has counted anew and
\* given one out again, a close of before can settle it ahead of the one now due.
NothingLeftOpen ==
    /\ op["close"] = "succeeded" /\ ~reused
    /\ \A w \in Workers : job[w] # "ensure"
    => ~live \/ lost

\* The recording of an ended room is settled in the end, and nothing records on.
RecordingsSettle ==
    <>[](door = "ended" /\ rec # "none" =>
             rec \in Terminal /\ egress \in {"none", "complete", "failed"})
=============================================================================
