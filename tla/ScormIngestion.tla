--------------------------- MODULE ScormIngestion ---------------------------
(***************************************************************************)
(* SCORM package versions from upload to removal:                          *)
(* scorm-package-ingestion.server.ts, removeAdminScormPackageVersion and   *)
(* the SCORM branches of handleWorkMessage, run by the consumers of        *)
(* WorkQueue.  Uploads, object storage and the version row change in       *)
(* separate awaits, so every one of them is a step.                        *)
(***************************************************************************)
EXTENDS WorkQueue

CONSTANTS
    Versions,        \* package versions
    Subject,         \* Subject[m]: the version a message is about
    Ingest,          \* messages of scorm.package_ingest_requested;
                     \* the others are scorm.package_delete_requested
    First,           \* First[v]: the ingestion message stored with the row
    Cleanup,         \* Cleanup[v]: the deletion message
    MaxDeaths        \* bound: how often workers die

ASSUME ScormAssumption ==
    /\ Ingest \subseteq Messages
    /\ Subject \in [Messages -> Versions]
    /\ First \in [Versions -> Ingest] /\ Cleanup \in [Versions -> Messages]
    /\ \A v \in Versions : /\ Subject[First[v]] = v /\ Subject[Cleanup[v]] = v
                           /\ Cleanup[v] \notin Ingest
    /\ MaxDeaths \in Nat

VARIABLES
    upload,          \* upload[v]: where the staging request is
    row,             \* row[v]: scorm_package_version.status, or no row
    valid,           \* versions whose archive passes processScormArchive
    quarantined,     \* versions with an object under their quarantine prefix
    content,         \* content[v]: "none", "partial" or "full" content prefix
    referenced,      \* versions a course item refers to
    owed,            \* messages whose outbox row is stored
    deaths,          \* workers that died so far
    at               \* at[c]: where c is in its handler

packageVars == <<upload, row, valid, quarantined, content, referenced>>
vars == <<queueVars, upload, row, valid, quarantined, content, referenced, owed,
          deaths, at>>

Init ==
    /\ QueueInit
    /\ upload = [v \in Versions |-> "new"]
    /\ row = [v \in Versions |-> "absent"]
    /\ valid = {} /\ quarantined = {}
    /\ content = [v \in Versions |-> "none"]
    /\ referenced = {}
    /\ owed = {}
    /\ deaths = 0
    /\ at = [c \in Consumers |-> "start"]

\* A status that ends ingestion.
Verified == {"ready", "rejected"}

-----------------------------------------------------------------------------
\* Staging (stageScormPackageArchive, stageScormPackageStream).

Staging(v, from, to) ==
    /\ upload[v] = from
    /\ upload' = [upload EXCEPT ![v] = to]
    /\ UNCHANGED <<content, referenced, deaths, at>> /\ UNCHANGED queueVars

\* The archive, a valid package or not, is put into quarantine.
PutQuarantine(v) ==
    /\ Staging(v, "new", "stored")
    /\ valid' \in {valid, valid \cup {v}}
    /\ quarantined' = quarantined \cup {v}
    /\ UNCHANGED <<row, owed>>

\* registerScormPackage: the version row and the ingestion request together.
Register(v) ==
    /\ Staging(v, "stored", "done")
    /\ row' = [row EXCEPT ![v] = "quarantined"]
    /\ owed' = owed \cup {First[v]}
    /\ UNCHANGED <<valid, quarantined>>

\* The upload or the registration fails.
StagingFails(v) ==
    /\ Staging(v, "stored", "failing")
    /\ UNCHANGED <<row, valid, quarantined, owed>>

\* The catch block deletes that object; a failing cleanup is only logged.
StagingCleanup(v) ==
    /\ Staging(v, "failing", "failed")
    /\ quarantined' \in {quarantined, quarantined \ {v}}
    /\ UNCHANGED <<row, valid, owed>>

-----------------------------------------------------------------------------
\* Administration.

\* Course authoring accepts a ready version; the foreign key orders it against
\* removal.
Refer(v) ==
    /\ row[v] = "ready" /\ v \notin referenced
    /\ referenced' = referenced \cup {v}
    /\ UNCHANGED <<upload, row, valid, quarantined, content, owed, deaths, at>>
    /\ UNCHANGED queueVars

\* Mutant: removal does not look for references.
RemoveReferenced(v) ==
    /\ row[v] \in Verified
    /\ row' = [row EXCEPT ![v] = "removed"]
    /\ owed' = (owed \ {m \in Ingest : Subject[m] = v /\ place[m] = "unsent"})
                 \cup {Cleanup[v]}
    /\ UNCHANGED <<upload, valid, quarantined, content, referenced, deaths, at>>
    /\ UNCHANGED queueVars

\* removeAdminScormPackageVersion: verified and unreferenced; unprocessed
\* ingestion rows are deleted and a cleanup request stored.
Remove(v) ==
    /\ row[v] \in Verified
    /\ v \notin referenced
    /\ row' = [row EXCEPT ![v] = "removed"]
    /\ owed' = (owed \ {m \in Ingest : Subject[m] = v /\ place[m] = "unsent"})
                 \cup {Cleanup[v]}
    /\ UNCHANGED <<upload, valid, quarantined, content, referenced, deaths, at>>
    /\ UNCHANGED queueVars

-----------------------------------------------------------------------------
\* Handlers.

Job(c) == Subject[held[c]]
Ingesting(c) == stage[c] = "working" /\ held[c] \in Ingest
Cleaning(c) == stage[c] = "working" /\ held[c] \notin Ingest

Goto(c, p) == at' = [at EXCEPT ![c] = p] /\ UNCHANGED queueVars
Returns(c) ==
    /\ Handled(c) /\ at' = [at EXCEPT ![c] = "start"] /\ UNCHANGED messageVars
Throws(c) ==
    /\ Thrown(c) /\ at' = [at EXCEPT ![c] = "start"] /\ UNCHANGED messageVars

Kept == UNCHANGED <<upload, valid, referenced, owed, deaths>>

\* The unlocked read; nothing to do for a removed or verified version.
ReadVersion(c) ==
    /\ Ingesting(c) /\ at[c] = "start"
    /\ IF row[Job(c)] \in {"quarantined", "processing"}
       THEN Goto(c, "read") ELSE Returns(c)
    /\ UNCHANGED <<row, quarantined, content>> /\ Kept

\* UPDATE ... SET status = 'processing', whatever the status is by now; no row,
\* no effect.
MarkProcessing(c) ==
    /\ Ingesting(c) /\ at[c] = "read"
    /\ row' = IF row[Job(c)] = "removed" THEN row
              ELSE [row EXCEPT ![Job(c)] = "processing"]
    /\ Goto(c, "marked")
    /\ UNCHANGED <<quarantined, content>> /\ Kept

\* The archive is read into memory; a missing object is an ordinary error.
Fetch(c) ==
    /\ Ingesting(c) /\ at[c] = "marked"
    /\ IF Job(c) \in quarantined THEN Goto(c, "fetched") ELSE Throws(c)
    /\ UNCHANGED <<row, quarantined, content>> /\ Kept

\* The first files are written; writing what is there already changes nothing.
UploadSome(c) ==
    /\ Ingesting(c) /\ at[c] = "fetched"
    /\ content' = [content EXCEPT ![Job(c)] =
                      IF @ = "full" THEN "full" ELSE "partial"]
    /\ Goto(c, "uploading")
    /\ UNCHANGED <<row, quarantined>> /\ Kept

\* The last file of a valid archive is written.
UploadRest(c) ==
    /\ Ingesting(c) /\ at[c] = "uploading" /\ Job(c) \in valid
    /\ content' = [content EXCEPT ![Job(c)] = "full"]
    /\ Goto(c, "uploaded")
    /\ UNCHANGED <<row, quarantined>> /\ Kept

\* ScormPackageValidationError, before or after some files were written.
Invalid(c) ==
    /\ Ingesting(c) /\ at[c] \in {"fetched", "uploading"} /\ Job(c) \notin valid
    /\ Goto(c, "invalid")
    /\ UNCHANGED <<row, quarantined, content>> /\ Kept

\* Mutant: the version is published without waiting for the uploads.
PublishEarly(c) ==
    /\ Ingesting(c) /\ at[c] \in {"uploading", "uploaded"}
    /\ row' = IF row[Job(c)] = "processing"
              THEN [row EXCEPT ![Job(c)] = "ready"] ELSE row
    /\ Returns(c)
    /\ UNCHANGED <<quarantined, content>> /\ Kept

\* The publishing transaction locks the row; a removed one makes it throw.
Publish(c) ==
    /\ Ingesting(c) /\ at[c] = "uploaded"
    /\ row' = IF row[Job(c)] \in Verified \cup {"removed"} THEN row
              ELSE [row EXCEPT ![Job(c)] = "ready"]
    /\ IF row[Job(c)] = "removed" THEN Throws(c) ELSE Returns(c)
    /\ UNCHANGED <<quarantined, content>> /\ Kept

\* A rejected archive's content prefix is deleted first.
DiscardContent(c) ==
    /\ Ingesting(c) /\ at[c] = "invalid"
    /\ content' = [content EXCEPT ![Job(c)] = "none"]
    /\ Goto(c, "discarded")
    /\ UNCHANGED <<row, quarantined>> /\ Kept

\* Mutant: the handler returns without recording the rejection.
RejectForgotten(c) ==
    /\ Ingesting(c) /\ at[c] = "discarded"
    /\ Returns(c)
    /\ UNCHANGED <<row, quarantined, content>> /\ Kept

\* markRejected locks the row; a removed one makes it throw.
MarkRejected(c) ==
    /\ Ingesting(c) /\ at[c] = "discarded"
    /\ row' = IF row[Job(c)] \in Verified \cup {"removed"} THEN row
              ELSE [row EXCEPT ![Job(c)] = "rejected"]
    /\ IF row[Job(c)] = "removed" THEN Throws(c) ELSE Returns(c)
    /\ UNCHANGED <<quarantined, content>> /\ Kept

\* The deletion handler: the quarantine prefix, then the content prefix.
DeleteQuarantine(c) ==
    /\ Cleaning(c) /\ at[c] = "start"
    /\ quarantined' = quarantined \ {Job(c)}
    /\ Goto(c, "halfway")
    /\ UNCHANGED <<row, content>> /\ Kept

\* Mutant: the deletion handler stops after the quarantine prefix.
DeleteNoContent(c) ==
    /\ Cleaning(c) /\ at[c] = "halfway"
    /\ Returns(c)
    /\ UNCHANGED <<row, quarantined, content>> /\ Kept

DeleteContent(c) ==
    /\ Cleaning(c) /\ at[c] = "halfway"
    /\ content' = [content EXCEPT ![Job(c)] = "none"]
    /\ Returns(c)
    /\ UNCHANGED <<row, quarantined>> /\ Kept

\* The worker dies, or object storage or the database fails a call.
Die(c) ==
    /\ deaths < MaxDeaths /\ deaths' = deaths + 1
    /\ Abandon(c) /\ at' = [at EXCEPT ![c] = "start"]
    /\ UNCHANGED packageVars /\ UNCHANGED owed

-----------------------------------------------------------------------------
Quiet == UNCHANGED packageVars /\ UNCHANGED <<owed, deaths, at>>

Dispatch(m) == m \in owed /\ Send(m) /\ Quiet

\* A dispatcher repeats itself: another copy of a message that was owed.
DuplicateDispatch(m) ==
    /\ place[m] = "unsent" /\ m \notin owed
    /\ \E x \in owed : Subject[x] = Subject[m] /\ (x \in Ingest <=> m \in Ingest)
    /\ owed' = owed \cup {m}
    /\ UNCHANGED packageVars /\ UNCHANGED <<deaths, at>> /\ UNCHANGED queueVars

ReceiveMessage(c, m) == Receive(c, m) /\ Quiet
RedriveMessage(m) == DeadLetter(m) /\ Quiet
HeartbeatMessage(c) == Heartbeat(c) /\ Quiet
DeleteMessage(c) == Delete(c) /\ Quiet

\* Time passes.
Tick ==
    /\ \E m \in Messages : hidden[m] > 0
    /\ Elapse
    /\ Quiet

HandleWorkMessage(c) ==
    \/ ReadVersion(c) \/ MarkProcessing(c) \/ Fetch(c) \/ UploadSome(c)
    \/ UploadRest(c) \/ Invalid(c) \/ Publish(c) \/ DiscardContent(c)
    \/ MarkRejected(c) \/ DeleteQuarantine(c) \/ DeleteContent(c)

Consume(c) ==
    \/ \E m \in Messages : ReceiveMessage(c, m)
    \/ HandleWorkMessage(c) \/ DeleteMessage(c)

Stage(v) ==
    PutQuarantine(v) \/ Register(v) \/ StagingFails(v) \/ StagingCleanup(v)

Next ==
    \/ \E v \in Versions : Stage(v) \/ Refer(v) \/ Remove(v)
    \/ \E c \in Consumers : Consume(c) \/ HeartbeatMessage(c) \/ Die(c)
    \/ \E m \in Messages : Dispatch(m) \/ DuplicateDispatch(m) \/ RedriveMessage(m)
    \/ Tick

Spec == Init /\ [][Next]_vars

(***************************************************************************)
(* Fairness: workers keep consuming, dispatchers and SQS do their part,    *)
(* time passes.  Uploads and administrators may stop at any point.         *)
(***************************************************************************)
Fairness ==
    /\ \A c \in Consumers : WF_vars(Consume(c))
    /\ \A m \in Messages : WF_vars(Dispatch(m)) /\ WF_vars(RedriveMessage(m))
    /\ WF_vars(Tick)

FairSpec == Spec /\ Fairness

(***************************************************************************)
(* Properties                                                              *)
(***************************************************************************)
Statuses == {"absent", "quarantined", "processing", "ready", "rejected", "removed"}

\* Types of the packages, their storage and the handlers.
TypeOK ==
    /\ QueueTypeOK
    /\ upload \in [Versions -> {"new", "stored", "done", "failing", "failed"}]
    /\ row \in [Versions -> Statuses]
    /\ valid \subseteq Versions /\ quarantined \subseteq Versions
    /\ referenced \subseteq Versions
    /\ content \in [Versions -> {"none", "partial", "full"}]
    /\ owed \subseteq Messages /\ deaths \in 0..MaxDeaths
    /\ at \in [Consumers -> {"start", "read", "marked", "fetched", "uploading",
                             "uploaded", "invalid", "discarded", "halfway"}]

\* A registered version always has its archive: nothing but its own removal
\* deletes the quarantine object under a row.
RowHasArchive ==
    \A v \in Versions : row[v] \notin {"absent", "removed"} => v \in quarantined

\* What learners may be sent to is there in full: a ready version, and one that a
\* course refers to, has all its content, whatever duplicate ingestions do.
ServedContentIsComplete ==
    \A v \in Versions :
        (row[v] = "ready" \/ v \in referenced) =>
            content[v] = "full" /\ row[v] # "removed"

\* An archive that fails validation is never published and never enters a course,
\* although some of its files may already be in the content bucket and duplicate
\* ingestions race each other.
RejectedNeverServed ==
    \A v \in Versions \ valid :
        row[v] # "ready" /\ v \notin referenced

Dead(v) == \E m \in Messages : Subject[m] = v /\ place[m] = "dead"

\* Every registered version is verified in the end, unless its message is dead.
EventuallyVerified ==
    \A v \in Versions :
        row[v] = "quarantined" ~> row[v] \in Verified \cup {"removed"} \/ Dead(v)

\* An ingestion of v may still be running when v is removed: its message was sent
\* twice, or a handler was overtaken by the clock.
Straggling(v) ==
    late > 0 \/ \E m \in Ingest \ {First[v]} : Subject[m] = v /\ place[m] # "unsent"

\* Storage is reclaimed: once a version is removed, both prefixes are empty in the
\* end, unless its message is dead or a straggling ingestion writes them again.
RemovedIsReclaimed ==
    \A v \in Versions :
        row[v] = "removed" ~>
            \/ [](v \notin quarantined /\ content[v] = "none")
            \/ Dead(v) \/ Straggling(v)
=============================================================================
