---------------------------- MODULE VirtualRooms ----------------------------
(***************************************************************************)
(* One generation of the LiveKit room of a live session, driven by staff,  *)
(* by LiveKit's webhooks and by the provider operations                    *)
(* (events/event-virtual-room.server.ts).  A generation that is replaced   *)
(* ends; its successor is another instance of this module, with rows and a *)
(* provider room of its own.  LiveKit is external: the model has the room  *)
(* and the recording it runs and the webhooks it sends, with calls that    *)
(* fail and answers that are lost.                                         *)
(***************************************************************************)
EXTENDS ProviderOperations

VARIABLES
    door,       \* doorState; "open" stands for locked too
    provider,   \* providerStatus
    rec,        \* status of the recording; "running" stands for starting and
                \* active, "unstarted" for failed without an egress
    stopper,    \* who asked for the stop of the recording
    dispatched, \* rows whose call to LiveKit was announced as dispatched
    cred,       \* a join token has not expired
    live,       \* the room is open at LiveKit
    finished,   \* a room_finished webhook is under way
    egress,     \* the recording at LiveKit
    egresses,   \* recordings LiveKit ever started for the room
    lost        \* history: a late ensure died before it cleaned up

roomVars == <<door, provider, rec, stopper, dispatched>>
kitVars == <<cred, live, finished, egress, egresses>>
vars == <<opVars, roomVars, kitVars, lost>>

Terminal == {"complete", "failed", "unstarted"}
Operational == door \in {"scheduled", "open"}

Init ==
    /\ OpInit
    /\ door = "none" /\ provider = "pending" /\ rec = "none" /\ stopper = "none"
    /\ dispatched = {} /\ cred = FALSE /\ live = FALSE /\ finished = FALSE
    /\ egress = "none" /\ egresses = 0 /\ lost = FALSE

\* Steps that write rows of their own accord, outside the workers.
Rewrite(ops) ==
    /\ op' = ops
    /\ UNCHANGED <<job, stage, seen, fenced, renumbered, overdue, reused, late, mishaps>>

-----------------------------------------------------------------------------
\* createRoomGeneration, and the successor in replaceEventVirtualRoom.
Create ==
    /\ door = "none" /\ door' = "scheduled"
    /\ Rewrite(Insert(op, {"ensure"}))
    /\ UNCHANGED <<provider, rec, stopper, dispatched, kitVars, lost>>

\* transitionEventVirtualRoom with "start", after its own ensure: the room opens
\* and its recording is requested (ensureAutomaticRecordingRequested).
Start ==
    /\ door = "scheduled" /\ provider = "ready"
    /\ door' = "open" /\ rec' = "requested"
    /\ Rewrite(Insert(op, {"start"}))
    /\ UNCHANGED <<provider, stopper, dispatched, kitVars, lost>>

\* What every ending of a room does in its own transaction: the door, and the rows
\* of queueAutomaticRecordingStop and of the close.
Ending(by) ==
    LET unsettled == rec \notin Terminal \cup {"none"} IN
    /\ Operational /\ door' = "ended"
    /\ Rewrite(Insert(op, IF unsettled THEN {"stop", "close"} ELSE {"close"}))
    /\ stopper' = IF unsettled THEN by ELSE stopper
    /\ UNCHANGED <<rec, dispatched, cred, live, egress, egresses, lost>>

\* transitionEventVirtualRoom with "end", endEventVirtualRoomsForOccurrence and
\* the replaced room in replaceEventVirtualRoom.
End == Ending("staff") /\ UNCHANGED <<provider, finished>>

\* applyLiveKitRoomLifecycleEvent for room_finished.  The incarnations of a room
\* at LiveKit are not told apart, so the model ends more rooms than the code.
RoomFinished ==
    /\ finished /\ finished' = FALSE
    /\ \/ Ending("livekit") /\ provider' = "error"
       \/ ~Operational /\ UNCHANGED <<opVars, roomVars, lost, cred, live, egress,
                                      egresses>>

\* issueEventVirtualPresenterCredential and the attendees' counterpart: the room
\* is checked again under its lock when the token is made.
IssueCredential ==
    /\ Operational /\ provider = "ready" /\ ~cred /\ cred' = TRUE
    /\ UNCHANGED <<opVars, roomVars, lost, live, finished, egress, egresses>>

-----------------------------------------------------------------------------
\* LiveKit's side.
CredentialExpires ==
    /\ cred /\ cred' = FALSE
    /\ UNCHANGED <<opVars, roomVars, lost, live, finished, egress, egresses>>

\* A participant with a valid token makes LiveKit open the room again.
Join ==
    /\ cred /\ ~live /\ live' = TRUE
    /\ UNCHANGED <<opVars, roomVars, lost, cred, finished, egress, egresses>>

\* LiveKit closes an empty room and says so.
RoomEmpties ==
    /\ live /\ Operational /\ live' = FALSE /\ finished' = TRUE
    /\ UNCHANGED <<opVars, roomVars, lost, cred, egress, egresses>>

\* The recording fails by itself, ends when it is asked to, and is asked to when
\* its room is closed.
EgressMoves ==
    /\ \/ egress = "active" /\ ~live /\ egress' = "stopping"
       \/ egress = "stopping" /\ egress' \in {"complete", "failed"}
    /\ UNCHANGED <<opVars, roomVars, lost, cred, live, finished, egresses>>

EgressFails ==
    /\ egress = "active" /\ egress' = "failed"
    /\ UNCHANGED <<opVars, roomVars, lost, cred, live, finished, egresses>>

-----------------------------------------------------------------------------
\* executeEnsureRoom.  Staff run it again for a room whose row has succeeded; an
\* ended room has its row completed without a call.
ClaimEnsure(w) ==
    /\ Due("ensure") \/ (op["ensure"] = "succeeded" /\ Operational)
    /\ IF Operational THEN Claim(w, "ensure", "ensuring", "-")
       ELSE ClaimAndSettle(w, "ensure", "succeeded")
    /\ UNCHANGED <<roomVars, kitVars, lost>>

\* A call that opens or closes the room, or has no usable answer.
Call(w, next, opened) ==
    /\ \/ Advance(w, next, seen[w]) /\ live' = opened /\ UNCHANGED mishaps
       \/ Advance(w, "refused", "-") /\ live' \in {live, opened} /\ Mishap
    /\ UNCHANGED <<roomVars, lost, cred, finished, egress, egresses>>

EnsureRoom(w) == stage[w] = "ensuring" /\ Call(w, "ensured", TRUE)

\* Mutant: the claim is asked after instead of the room, so an overtaken worker
\* closes a room that is in use.
SettleEnsureByClaim(w) ==
    /\ stage[w] = "ensured"
    /\ \/ Mine(w) /\ Leave(w, Settled(w, "succeeded"))
       \/ /\ ~Mine(w) /\ stage' = [stage EXCEPT ![w] = "compensating"]
          /\ UNCHANGED <<op, job, seen, fenced, renumbered, overdue, reused, late>>
    /\ provider' = IF Mine(w) /\ Operational THEN "ready" ELSE provider
    /\ UNCHANGED <<door, rec, stopper, dispatched, kitVars, lost, mishaps>>

\* The transaction after the call: a room that ended meanwhile is compensated.
SettleEnsure(w) ==
    /\ stage[w] = "ensured"
    /\ \/ Operational /\ Leave(w, Settled(w, "succeeded"))
       \/ /\ ~Operational /\ op' = Settled(w, "succeeded")
          /\ stage' = [stage EXCEPT ![w] = "compensating"]
          /\ UNCHANGED <<job, seen, fenced, renumbered, overdue, reused, late>>
    /\ provider' = IF Mine(w) /\ Operational THEN "ready" ELSE provider
    /\ UNCHANGED <<door, rec, stopper, dispatched, kitVars, lost, mishaps>>

\* requeueRoomCloseOperation: the close is due again, whoever is at it.
Requeued(ops) == [ops EXCEPT !["close"] = "pending"]

\* settleFailedEnsureRoom.
SettleRefusedEnsure(w) ==
    /\ stage[w] = "refused" /\ job[w] = "ensure"
    /\ Leave(w, IF Operational THEN Settled(w, "pending")
                ELSE Requeued(Settled(w, "succeeded")))
    /\ provider' = IF Mine(w) /\ Operational THEN "error" ELSE provider
    /\ UNCHANGED <<door, rec, stopper, dispatched, kitVars, lost, mishaps>>

\* compensateEnsuredRoom, and queueCompensatingRoomClose when it fails.
Compensate(w) ==
    /\ stage[w] = "compensating"
    /\ \/ Leave(w, op) /\ live' = FALSE /\ UNCHANGED mishaps
       \/ Leave(w, Requeued(op)) /\ live' \in {live, FALSE} /\ Mishap
    /\ UNCHANGED <<roomVars, lost, cred, finished, egress, egresses>>

\* executeCloseRoom.  It waits for an ensure that is due or under way, and fixes
\* the time against which it will judge the join tokens before it calls LiveKit.
ClaimClose(w) ==
    /\ Due("close")
    /\ IF op["ensure"] \in {"pending", "leased"} THEN ClaimAndSettle(w, "close", "pending")
       ELSE Claim(w, "close", "closing", IF cred THEN "tokens" ELSE "-")
    /\ UNCHANGED <<roomVars, kitVars, lost>>

CloseRoom(w) == stage[w] = "closing" /\ Call(w, "closed", FALSE)

\* Mutant: the tokens are judged by the time of the settlement.
EnforcingAtSettlement(w) == cred

\* Tokens were valid when the close began.
Enforcing(w) == seen[w] = "tokens"

\* While there are tokens the room is closed again later, and the row counts its
\* attempts anew: a rival's number will be given out a second time.
SettleClose(w) ==
    /\ stage[w] = "closed"
    /\ op' = Settled(w, IF Enforcing(w) THEN "pending" ELSE "succeeded")
    /\ provider' = IF Mine(w) THEN "closed" ELSE provider
    /\ stage' = [stage EXCEPT ![w] = "idle"] /\ seen' = [seen EXCEPT ![w] = "-"]
    /\ job' = [job EXCEPT ![w] = "none"]
    /\ fenced' = fenced \ {w} /\ overdue' = overdue \ {w}
    /\ renumbered' = IF Mine(w) /\ Enforcing(w) THEN renumbered \cup Rivals(w, "close")
                     ELSE renumbered \ {w}
    /\ UNCHANGED <<door, rec, stopper, dispatched, kitVars, lost, reused, late, mishaps>>

SettleRefusedClose(w) ==
    /\ stage[w] = "refused" /\ job[w] = "close"
    /\ Leave(w, Settled(w, "pending"))
    /\ provider' = IF Mine(w) THEN "error" ELSE provider
    /\ UNCHANGED <<door, rec, stopper, dispatched, kitVars, lost, mishaps>>
=============================================================================
