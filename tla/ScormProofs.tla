----------------------------- MODULE ScormProofs -----------------------------
(***************************************************************************)
(* Proofs about the ingestion of SCORM packages, for every set of versions *)
(* and messages and every number of workers, deaths and late handlers:     *)
(* what learners are sent to has passed validation and is complete.        *)
(***************************************************************************)
EXTENDS ScormIngestion, TLAPS

\* A row belongs to a finished upload, whose archive is kept until removal.
UploadInv ==
    \A v \in Versions :
        /\ upload[v] # "done" <=> row[v] = "absent"
        /\ upload[v] = "stored" \/ row[v] \notin {"absent", "removed"}
           => v \in quarantined
        /\ v \in referenced => row[v] \notin {"absent", "removed"}

\* A deletion message is only stored and sent for a removed version.
CleanupInv ==
    \A m \in Messages :
        m \notin Ingest /\ (m \in owed \/ place[m] # "unsent")
        => row[Subject[m]] = "removed"

\* What the place of a handler says about its message and its version.
Placed(c) ==
    /\ at[c] # "start" => stage[c] = "working"
    /\ stage[c] # "idle" => held[c] \in Messages /\ place[held[c]] # "unsent"
    /\ at[c] = "halfway" => held[c] \notin Ingest
    /\ at[c] \notin {"start", "halfway"} =>
          held[c] \in Ingest /\ upload[Job(c)] = "done"
    /\ at[c] = "uploaded" =>
          Job(c) \in valid /\ (row[Job(c)] = "removed" \/ content[Job(c)] = "full")
    /\ at[c] \in {"invalid", "discarded"} => Job(c) \notin valid

HandlerInv == \A c \in Consumers : Placed(c)

\* The inductive invariant.
Inv ==
    /\ TypeOK /\ UploadInv /\ CleanupInv /\ HandlerInv
    /\ ServedContentIsComplete /\ RejectedNeverServed

Served == ServedContentIsComplete /\ RejectedNeverServed

\* The messages that were sent.
Sent == {m \in Messages : place[m] # "unsent"}

\* What the queue and the handlers owe the invariant.
Workers ==
    /\ QueueTypeOK /\ HandlerInv /\ deaths \in 0..MaxDeaths
    /\ at \in [Consumers -> {"start", "read", "marked", "fetched", "uploading",
                             "uploaded", "invalid", "discarded", "halfway"}]

-----------------------------------------------------------------------------
\* Before anything is uploaded the invariant holds.
LEMMA InitInv == Init => Inv
  BY QueueAssumption, ScormAssumption
     DEF Init, QueueInit, Inv, TypeOK, QueueTypeOK, Statuses, UploadInv, CleanupInv,
         HandlerInv, Placed, ServedContentIsComplete, RejectedNeverServed

\* A worker inside the handler works on a version.
LEMMA JobType ==
    ASSUME Inv, NEW c \in Consumers, stage[c] # "idle"
    PROVE  held[c] \in Messages /\ Job(c) \in Versions
  BY ScormAssumption DEF Inv, HandlerInv, Placed, Placed, Job

\* The message of a step of the dispatchers or of SQS preserves the invariant.
LEMMA MessageInv ==
    ASSUME Inv, NEW m \in Messages,
           Dispatch(m) \/ DuplicateDispatch(m) \/ RedriveMessage(m)
    PROVE  Inv'
  <1>1. UNCHANGED packageVars /\ UNCHANGED <<deaths, at>> /\ UNCHANGED consumerVars
        /\ UNCHANGED <<hidden, receives>>
    BY DEF Dispatch, DuplicateDispatch, RedriveMessage, Quiet, Send, DeadLetter,
           queueVars, consumerVars
  <1>2. /\ place' \in [Messages -> {"unsent", "queued", "deleted", "dead"}]
        /\ owed' \subseteq Messages
        /\ \A x \in Messages : place[x] # "unsent" => place'[x] # "unsent"
    BY DEF Dispatch, DuplicateDispatch, RedriveMessage, Quiet, Send, DeadLetter,
           queueVars, Visible, Inv, TypeOK, QueueTypeOK
  <1>3. TypeOK'
    BY <1>1, <1>2 DEF packageVars, consumerVars, Inv, TypeOK, QueueTypeOK
  <1>4. CleanupInv'
    <2> SUFFICES ASSUME NEW x \in Messages, x \notin Ingest,
                        x \in owed' \/ place'[x] # "unsent"
                 PROVE  row[Subject[x]] = "removed"
      BY <1>1 DEF CleanupInv, packageVars
    <2>1. CASE x \in owed \/ place[x] # "unsent"
      BY <2>1 DEF Inv, CleanupInv
    <2>2. CASE x \notin owed /\ place[x] = "unsent"
      <3>1. PICK y \in owed : Subject[y] = Subject[x] /\ y \notin Ingest
        BY <2>2 DEF Dispatch, DuplicateDispatch, RedriveMessage, Quiet, Send,
           DeadLetter, Visible, queueVars, Inv, TypeOK, QueueTypeOK
      <3> QED
        BY <3>1 DEF Inv, TypeOK, CleanupInv
    <2> QED
      BY <2>1, <2>2
  <1>5. HandlerInv'
    BY <1>1, <1>2 DEF packageVars, consumerVars, Job, Inv, HandlerInv, Placed
  <1>6. UploadInv' /\ Served'
    BY <1>1 DEF packageVars, Inv, UploadInv, Served, ServedContentIsComplete,
                RejectedNeverServed
  <1> QED
    BY <1>3, <1>4, <1>5, <1>6 DEF Inv, Served

\* So does a step of a consumer outside its handler, and time.
LEMMA ConsumerInv ==
    ASSUME Inv,
           \/ Tick
           \/ \E c \in Consumers : HeartbeatMessage(c) \/ DeleteMessage(c) \/ Die(c)
           \/ \E c \in Consumers, m \in Messages : ReceiveMessage(c, m)
    PROVE  Inv'
  <1>1. UNCHANGED packageVars /\ UNCHANGED owed
    BY DEF Tick, HeartbeatMessage, DeleteMessage, Die, ReceiveMessage, Quiet
  <1>2. UploadInv' /\ Served'
    BY <1>1 DEF packageVars, Inv, UploadInv, Served, ServedContentIsComplete,
                RejectedNeverServed
  <1>3. Workers' /\ Sent' = Sent
    <2>1. CASE Tick
      BY <1>1, <2>1, QueueAssumption DEF Tick, Quiet, Elapse, packageVars, Job,
         Inv, TypeOK, QueueTypeOK, HandlerInv, Placed, Workers, Sent
    <2>2. ASSUME NEW c \in Consumers, HeartbeatMessage(c)
          PROVE  Workers' /\ Sent' = Sent
      <3>1. UNCHANGED consumerVars /\ UNCHANGED <<place, receives, at, deaths>>
            /\ hidden' = [hidden EXCEPT ![held[c]] = Visibility]
        BY <2>2 DEF HeartbeatMessage, Heartbeat, Quiet
      <3>2. Visibility \in 0..Visibility
        BY QueueAssumption
      <3> QED
        BY <1>1, <3>1, <3>2 DEF consumerVars, packageVars, Job, Inv, TypeOK,
           QueueTypeOK, HandlerInv, Placed, Workers, Sent
    <2>3. ASSUME NEW c \in Consumers, DeleteMessage(c)
          PROVE  Workers' /\ Sent' = Sent
      <3>1. at[c] = "start" /\ UNCHANGED <<at, deaths, hidden, receives>>
        BY <2>3 DEF DeleteMessage, Delete, Quiet, Inv, TypeOK, HandlerInv, Placed
      <3>2. /\ Sent' = Sent
            /\ place' \in [Messages -> {"unsent", "queued", "deleted", "dead"}]
        BY <2>3 DEF DeleteMessage, Delete, Sent, Inv, TypeOK, QueueTypeOK
      <3>3. Free(c)
        BY <2>3 DEF DeleteMessage, Delete
      <3> QED
        BY <1>1, <3>1, <3>2, <3>3, QueueAssumption DEF Free, packageVars, Job,
           Inv, TypeOK, QueueTypeOK, HandlerInv, Placed, Workers, Sent
    <2>4. ASSUME NEW c \in Consumers, Die(c)
          PROVE  Workers' /\ Sent' = Sent
      BY <1>1, <2>4, QueueAssumption, ScormAssumption
         DEF Die, Abandon, Free, messageVars, packageVars, Job, Inv, TypeOK,
             QueueTypeOK, HandlerInv, Placed, Workers, Sent
    <2>5. ASSUME NEW c \in Consumers, NEW m \in Messages, ReceiveMessage(c, m)
          PROVE  Workers' /\ Sent' = Sent
      <3>1. at[c] = "start" /\ UNCHANGED <<at, deaths>>
        BY <2>5 DEF ReceiveMessage, Receive, Quiet, Inv, TypeOK, HandlerInv, Placed
      <3> QED
        BY <1>1, <2>5, <3>1, QueueAssumption DEF ReceiveMessage, Receive, Visible,
           packageVars, Job, Inv, TypeOK, QueueTypeOK, HandlerInv, Placed, Workers, Sent
    <2> QED
      BY <2>1, <2>2, <2>3, <2>4, <2>5
  <1>4. TypeOK' /\ CleanupInv'
    BY <1>1, <1>3 DEF packageVars, Inv, TypeOK, CleanupInv, Workers, Sent
  <1> QED
    BY <1>2, <1>3, <1>4 DEF Inv, Served, Workers

-----------------------------------------------------------------------------
\* Uploads and administrators preserve the invariant.
LEMMA VersionInv ==
    ASSUME Inv, NEW v \in Versions, Stage(v) \/ Refer(v) \/ Remove(v)
    PROVE  Inv'
  <1>1. UNCHANGED <<content, deaths, at>> /\ UNCHANGED queueVars
    BY DEF Stage, PutQuarantine, Register, StagingFails, StagingCleanup, Staging,
           Refer, Remove
  <1>2. CASE Register(v)
    <2>1. /\ upload[v] = "stored" /\ upload' = [upload EXCEPT ![v] = "done"]
          /\ row' = [row EXCEPT ![v] = "quarantined"] /\ owed' = owed \cup {First[v]}
          /\ UNCHANGED <<valid, quarantined, referenced>>
      BY <1>2 DEF Register, Staging
    <2>2. TypeOK'
      <3>1. QueueTypeOK'
        BY <1>1 DEF queueVars, Inv, TypeOK, QueueTypeOK
      <3>2. row' \in [Versions -> Statuses]
        BY <2>1 DEF Inv, TypeOK, Statuses
      <3>3. upload' \in [Versions -> {"new", "stored", "done", "failing", "failed"}]
        BY <2>1 DEF Inv, TypeOK
      <3>4. owed' \subseteq Messages
        <4>1. First[v] \in Messages
          BY ScormAssumption
        <4> QED
          BY <2>1, <4>1 DEF Inv, TypeOK
      <3> QED
        BY <1>1, <2>1, <3>1, <3>2, <3>3, <3>4 DEF Inv, TypeOK
    <2>3. UploadInv' /\ Served'
      BY <1>1, <2>1 DEF Inv, TypeOK, UploadInv, Served, ServedContentIsComplete,
                        RejectedNeverServed
    <2>4. CleanupInv'
      <3>1. \A m \in Messages \ Ingest : m \in owed' => m \in owed
        BY <2>1, ScormAssumption
      <3>2. \A x \in Versions : row[x] = "removed" => row'[x] = "removed"
        BY <2>1 DEF Inv, TypeOK, UploadInv
      <3> QED
        BY <1>1, <3>1, <3>2, ScormAssumption DEF queueVars, Inv, CleanupInv
    <2>5. HandlerInv'
      BY <1>1, <2>1, JobType DEF queueVars, Job, Inv, TypeOK, QueueTypeOK, UploadInv, HandlerInv, Placed
    <2> QED
      BY <2>2, <2>3, <2>4, <2>5 DEF Inv, Served
  <1>3. CASE PutQuarantine(v) \/ StagingFails(v) \/ StagingCleanup(v)
    <2>1. /\ upload[v] # "done" /\ \E to \in {"stored", "failing", "failed"} :
                                      upload' = [upload EXCEPT ![v] = to]
          /\ UNCHANGED <<row, owed, referenced>>
          /\ valid' \in {valid, valid \cup {v}}
          /\ quarantined' \in SUBSET (quarantined \cup {v})
          /\ quarantined \ {v} \subseteq quarantined'
      BY <1>3 DEF PutQuarantine, StagingFails, StagingCleanup, Staging, Inv, TypeOK
    <2>2. upload'[v] = "stored" => v \in quarantined'
      BY <1>3 DEF PutQuarantine, StagingFails, StagingCleanup, Staging, Inv, TypeOK
    <2>3. TypeOK'
      BY <1>1, <2>1 DEF queueVars, Inv, TypeOK, QueueTypeOK
    <2>4. UploadInv' /\ Served' /\ CleanupInv'
      BY <1>1, <2>1, <2>2 DEF queueVars, Inv, TypeOK, UploadInv, Served, CleanupInv,
                        ServedContentIsComplete, RejectedNeverServed
    <2>5. HandlerInv'
      BY <1>1, <2>1, JobType DEF queueVars, Job, Inv, TypeOK, QueueTypeOK, HandlerInv, Placed
    <2> QED
      BY <2>3, <2>4, <2>5 DEF Inv, Served
  <1>4. CASE Refer(v)
    BY <1>1, <1>4 DEF Refer, queueVars, Job, Inv, TypeOK, QueueTypeOK, UploadInv,
       CleanupInv, HandlerInv, Placed, ServedContentIsComplete, RejectedNeverServed
  <1>5. CASE Remove(v)
    <2>1. /\ row[v] \in Verified /\ v \notin referenced
          /\ row' = [row EXCEPT ![v] = "removed"]
          /\ owed' \subseteq owed \cup {Cleanup[v]}
          /\ UNCHANGED <<upload, valid, quarantined, referenced>>
      BY <1>5 DEF Remove
    <2>2. TypeOK'
      <3>1. Cleanup[v] \in Messages /\ owed \subseteq Messages
        BY ScormAssumption DEF Inv, TypeOK
      <3>2. owed' \subseteq Messages
        BY <2>1, <3>1
      <3> QED
        BY <1>1, <2>1, <3>2
           DEF queueVars, Inv, TypeOK, QueueTypeOK, Statuses
    <2>3. UploadInv' /\ Served'
      BY <1>1, <2>1 DEF Inv, TypeOK, UploadInv, Served, ServedContentIsComplete,
                        RejectedNeverServed, Verified
    <2>4. CleanupInv'
      BY <1>1, <2>1, ScormAssumption DEF queueVars, Inv, TypeOK, CleanupInv
    <2>5. HandlerInv'
      BY <1>1, <2>1, JobType DEF queueVars, Job, Inv, TypeOK, QueueTypeOK, HandlerInv, Placed
    <2> QED
      BY <2>2, <2>3, <2>4, <2>5 DEF Inv, Served
  <1> QED
    BY <1>2, <1>3, <1>4, <1>5 DEF Stage

-----------------------------------------------------------------------------
\* A handler that returns or throws leaves its place.
LEMMA LeaveInv ==
    ASSUME Inv, NEW c \in Consumers, Returns(c) \/ Throws(c),
           UNCHANGED <<upload, valid, owed, deaths>>,
           row' \in [Versions -> Statuses],
           \A v \in Versions : row[v] = "removed" <=> row'[v] = "removed",
           \A v \in Versions : row[v] # "removed" /\ content[v] = "full"
                                    /\ v \in valid => content'[v] = "full"
    PROVE  Workers' /\ CleanupInv'
  <1>1. /\ stage[c] = "working" /\ UNCHANGED messageVars
        /\ at' = [at EXCEPT ![c] = "start"]
        /\ \/ stage' = [stage EXCEPT ![c] = "handled"]
              /\ UNCHANGED <<held, receipt, late>>
           \/ Free(c)
    BY DEF Returns, Throws, Handled, Thrown
  <1>2. QueueTypeOK'
    BY <1>1, QueueAssumption DEF messageVars, Free, Inv, TypeOK, QueueTypeOK
  <1>3. CleanupInv'
    BY <1>1, ScormAssumption DEF messageVars, Inv, TypeOK, CleanupInv
  <1>4. HandlerInv'
    <2> SUFFICES ASSUME NEW d \in Consumers PROVE Placed(d)'
      BY DEF HandlerInv
    <2>1. CASE d = c
      BY <1>1, <2>1 DEF messageVars, Free, Inv, TypeOK, QueueTypeOK, HandlerInv, Placed
    <2>2. CASE d # c
      <3>1. stage'[d] = stage[d] /\ held'[d] = held[d] /\ at'[d] = at[d]
        BY <1>1, <2>2 DEF Free, Inv, TypeOK, QueueTypeOK
      <3> QED
        BY <1>1, <3>1, ScormAssumption DEF messageVars, Job, Inv, TypeOK, HandlerInv, Placed
    <2> QED
      BY <2>1, <2>2
  <1> QED
    BY <1>1, <1>2, <1>3, <1>4 DEF Workers, Inv, TypeOK

\* A handler goes on to the place p.
LEMMA GotoInv ==
    ASSUME Inv, NEW c \in Consumers, stage[c] = "working",
           NEW p \in {"read", "marked", "fetched", "uploading", "uploaded", "invalid",
                      "discarded", "halfway"}, Goto(c, p),
           UNCHANGED <<upload, valid, owed, deaths>>,
           row' \in [Versions -> Statuses],
           \A v \in Versions : row[v] = "removed" <=> row'[v] = "removed",
           \A v \in Versions : row[v] # "removed" /\ content[v] = "full"
                                    /\ v \in valid => content'[v] = "full",
           p = "halfway" <=> held[c] \notin Ingest,
           p # "halfway" => upload[Job(c)] = "done",
           p = "uploaded" => /\ Job(c) \in valid
                             /\ row'[Job(c)] = "removed" \/ content'[Job(c)] = "full",
           p \in {"invalid", "discarded"} => Job(c) \notin valid
    PROVE  Workers' /\ CleanupInv'
  <1>1. UNCHANGED <<place, stage, held>> /\ at' = [at EXCEPT ![c] = p]
    BY DEF Goto, queueVars
  <1>2. QueueTypeOK'
    BY DEF Goto, queueVars, Inv, TypeOK, QueueTypeOK
  <1>3. CleanupInv'
    BY <1>1, ScormAssumption DEF Inv, TypeOK, CleanupInv
  <1>4. HandlerInv'
    <2> SUFFICES ASSUME NEW d \in Consumers PROVE Placed(d)'
      BY DEF HandlerInv
    <2>1. CASE d = c
      BY <1>1, <2>1 DEF Job, Inv, TypeOK, HandlerInv, Placed
    <2>2. CASE d # c
      BY <1>1, <2>2, ScormAssumption DEF Job, Inv, TypeOK, HandlerInv, Placed
    <2> QED
      BY <2>1, <2>2
  <1> QED
    BY <1>1, <1>2, <1>3, <1>4 DEF Workers, Inv, TypeOK

\* The rest of the invariant after a handler's step on version Job(c).
LEMMA Assemble ==
    ASSUME Inv, Workers', CleanupInv', UNCHANGED <<upload, valid, referenced, owed>>,
           NEW v \in Versions, NEW s \in Statuses,
           row' \in {row, [row EXCEPT ![v] = s]},
           row' # row => /\ row[v] \notin {"absent", "removed"}
                         /\ s \in {"processing", "ready", "rejected"},
           row'[v] = "ready" /\ row[v] # "ready" => v \in valid /\ content'[v] = "full",
           quarantined' \in {quarantined, quarantined \ {v}},
           quarantined' # quarantined => row[v] = "removed",
           NEW k \in {"none", "partial", "full"},
           content' \in {content, [content EXCEPT ![v] = k]},
           content'[v] # content[v] =>
               row[v] = "removed" \/ v \notin valid \/ content[v] # "full"
    PROVE  Inv'
  <1>1. TypeOK'
    BY DEF Workers, Inv, TypeOK
  <1>2. upload[v] = "stored" => row[v] = "absent"
    BY DEF Inv, UploadInv
  <1>3. UploadInv'
    BY <1>2 DEF Inv, TypeOK, UploadInv
  <1>4. RejectedNeverServed'
    BY DEF Inv, TypeOK, RejectedNeverServed
  <1>5. ServedContentIsComplete'
    <2>1. \A x \in Versions \ {v} : row'[x] = row[x] /\ content'[x] = content[x]
      BY DEF Inv, TypeOK
    <2>2. row[v] = "ready" \/ v \in referenced =>
              content[v] = "full" /\ row[v] # "removed" /\ v \in valid
      BY DEF Inv, ServedContentIsComplete, RejectedNeverServed
    <2>3. row'[v] = "removed" => row[v] = "removed"
      BY DEF Inv, TypeOK
    <2>4. row'[v] = "ready" \/ v \in referenced =>
              content'[v] = "full" /\ row'[v] # "removed"
      BY <2>2, <2>3
    <2> QED
      BY <2>1, <2>4 DEF Inv, ServedContentIsComplete
  <1> QED
    BY <1>1, <1>3, <1>4, <1>5 DEF Inv, Workers

\* Every step of a handler preserves the invariant.
LEMMA HandleInv ==
    ASSUME Inv, NEW c \in Consumers, HandleWorkMessage(c)
    PROVE  Inv'
  <1> DEFINE v == Job(c)
  <1>1. stage[c] = "working" /\ Kept
    BY DEF HandleWorkMessage, ReadVersion, MarkProcessing, Fetch, UploadSome,
       UploadRest, Invalid, Publish, DiscardContent, MarkRejected, DeleteQuarantine,
       DeleteContent, Ingesting, Cleaning
  <1>2. v \in Versions /\ held[c] \in Messages
    BY <1>1, JobType
  <1>3. held[c] \notin Ingest => row[v] = "removed"
    BY <1>1, <1>2 DEF Inv, CleanupInv, HandlerInv, Placed, Job
  <1>4. Placed(c) /\ (row[v] # "absent" <=> upload[v] = "done")
    BY <1>2 DEF Inv, HandlerInv, UploadInv
  <1>5. row[v] \in Statuses /\ content[v] \in {"none", "partial", "full"}
    BY <1>2 DEF Inv, TypeOK
  <1>6. row \in [Versions -> Statuses] /\ content \in [Versions -> {"none", "partial", "full"}]
    BY DEF Inv, TypeOK
  <1> HIDE DEF v
  <1>7. CASE ReadVersion(c)
    <2>1. UNCHANGED <<row, quarantined, content>>
      BY <1>7 DEF ReadVersion
    <2>2. Workers' /\ CleanupInv'
      BY <1>1, <1>4, <1>6, <1>7, <2>1, GotoInv, LeaveInv
         DEF ReadVersion, Ingesting, Kept, v
    <2> QED
      BY <1>1, <1>2, <1>5, <2>1, <2>2, Assemble DEF Kept
  <1>8. CASE MarkProcessing(c)
    <2>1. /\ row' = IF row[v] = "removed" THEN row ELSE [row EXCEPT ![v] = "processing"]
          /\ UNCHANGED <<quarantined, content>> /\ "processing" \in Statuses
          /\ Goto(c, "marked") /\ at[c] = "read" /\ held[c] \in Ingest
      BY <1>8 DEF MarkProcessing, Ingesting, v, Statuses
    <2>2. upload[v] = "done"
      BY <1>4, <2>1 DEF Placed, v
    <2>3. row' \in [Versions -> Statuses]
          /\ \A x \in Versions : row[x] = "removed" <=> row'[x] = "removed"
      BY <1>2, <1>6, <2>1
    <2>4. Workers' /\ CleanupInv'
      BY <1>1, <2>1, <2>2, <2>3, GotoInv DEF Kept, v
    <2> QED
      BY <1>1, <1>2, <1>4, <1>5, <1>6, <2>1, <2>2, <2>4, Assemble DEF Kept
  <1>9. CASE Fetch(c) \/ Invalid(c)
    <2>1. UNCHANGED <<row, quarantined, content>>
      BY <1>9 DEF Fetch, Invalid
    <2>2. Workers' /\ CleanupInv'
      BY <1>1, <1>4, <1>6, <1>9, <2>1, GotoInv, LeaveInv
         DEF Fetch, Invalid, Ingesting, Kept, Placed, v
    <2> QED
      BY <1>1, <1>2, <1>5, <2>1, <2>2, Assemble DEF Kept
  <1>10. CASE UploadSome(c) \/ UploadRest(c)
    <2>1. PICK k \in {"partial", "full"}, p \in {"uploading", "uploaded"} :
             /\ content' = [content EXCEPT ![v] = k]
             /\ k = "full" \/ content[v] # "full"
             /\ p = "uploaded" => k = "full" /\ v \in valid
             /\ Goto(c, p) /\ at[c] \in {"fetched", "uploading"} /\ held[c] \in Ingest
             /\ UNCHANGED <<row, quarantined>>
      <3>1. CASE UploadSome(c) /\ content[v] = "full"
        BY <1>2, <1>6, <3>1 DEF UploadSome, Ingesting, v
      <3>2. CASE UploadSome(c) /\ content[v] # "full"
        BY <1>2, <1>6, <3>2 DEF UploadSome, Ingesting, v
      <3>3. CASE UploadRest(c)
        BY <3>3 DEF UploadRest, Ingesting, v
      <3> QED
        BY <1>10, <3>1, <3>2, <3>3
    <2>2. upload[v] = "done"
      BY <1>4, <2>1 DEF Placed, v
    <2>3. \A x \in Versions : row[x] # "removed" /\ content[x] = "full"
                                    /\ x \in valid => content'[x] = "full"
      BY <1>2, <1>6, <2>1
    <2>4. p = "uploaded" => content'[v] = "full"
      BY <1>2, <1>6, <2>1
    <2>5. Workers' /\ CleanupInv'
      BY <1>1, <1>6, <2>1, <2>2, <2>3, <2>4, GotoInv DEF Kept, v
    <2> QED
      BY <1>1, <1>2, <1>5, <1>6, <2>1, <2>5, Assemble DEF Kept
  <1>11. CASE Publish(c) \/ MarkRejected(c)
    <2>1. PICK s \in {"ready", "rejected"} :
             /\ row' = IF row[v] \in Verified \cup {"removed"} THEN row
                       ELSE [row EXCEPT ![v] = s]
             /\ UNCHANGED <<quarantined, content>> /\ s \in Statuses
             /\ Returns(c) \/ Throws(c)
             /\ s = "ready" => at[c] = "uploaded"
             /\ at[c] \notin {"start", "halfway"}
      BY <1>11 DEF Publish, MarkRejected, v, Statuses
    <2>2. upload[v] = "done" /\ (s = "ready" => v \in valid)
          /\ (s = "ready" /\ row[v] # "removed" => content[v] = "full")
      BY <1>4, <2>1 DEF Placed, v
    <2>3. row' \in [Versions -> Statuses]
          /\ \A x \in Versions : row[x] = "removed" <=> row'[x] = "removed"
      BY <1>2, <1>6, <2>1
    <2>4. Workers' /\ CleanupInv'
      BY <1>1, <2>1, <2>3, LeaveInv DEF Kept
    <2>5. row'[v] = "ready" /\ row[v] # "ready" =>
             v \in valid /\ content'[v] = "full"
      BY <1>2, <1>6, <2>1, <2>2
    <2> QED
      BY <1>1, <1>2, <1>4, <1>5, <1>6, <2>1, <2>2, <2>4, <2>5, Assemble DEF Kept
  <1>12. CASE DiscardContent(c)
    <2>1. /\ content' = [content EXCEPT ![v] = "none"] /\ at[c] = "invalid"
          /\ Goto(c, "discarded") /\ UNCHANGED <<row, quarantined>>
      BY <1>12 DEF DiscardContent, v
    <2>2. v \notin valid /\ upload[v] = "done" /\ held[c] \in Ingest
      BY <1>4, <2>1 DEF Placed, v
    <2>3. \A x \in Versions : row[x] # "removed" /\ content[x] = "full"
                                    /\ x \in valid => content'[x] = "full"
      BY <1>2, <1>6, <2>1, <2>2
    <2>4. Workers' /\ CleanupInv'
      BY <1>1, <1>6, <2>1, <2>2, <2>3, GotoInv DEF Kept, v
    <2> QED
      BY <1>1, <1>2, <1>5, <1>6, <2>1, <2>2, <2>4, Assemble DEF Kept
  <1>13. CASE DeleteQuarantine(c)
    <2>1. /\ quarantined' = quarantined \ {v} /\ held[c] \notin Ingest
          /\ Goto(c, "halfway") /\ UNCHANGED <<row, content>>
      BY <1>13 DEF DeleteQuarantine, Cleaning, v
    <2>2. Workers' /\ CleanupInv'
      BY <1>1, <1>6, <2>1, GotoInv DEF Kept
    <2> QED
      BY <1>1, <1>2, <1>3, <1>5, <2>1, <2>2, Assemble DEF Kept
  <1>14. CASE DeleteContent(c)
    <2>1. /\ content' = [content EXCEPT ![v] = "none"] /\ held[c] \notin Ingest
          /\ Returns(c) /\ UNCHANGED <<row, quarantined>>
      BY <1>14 DEF DeleteContent, Cleaning, v
    <2>2. \A x \in Versions : row[x] # "removed" /\ content[x] = "full"
                                    /\ x \in valid => content'[x] = "full"
      BY <1>2, <1>3, <1>6, <2>1
    <2>3. Workers' /\ CleanupInv'
      BY <1>1, <1>6, <2>1, <2>2, LeaveInv DEF Kept
    <2> QED
      BY <1>1, <1>2, <1>3, <1>5, <1>6, <2>1, <2>3, Assemble DEF Kept
  <1> QED
    BY <1>7, <1>8, <1>9, <1>10, <1>11, <1>12, <1>13, <1>14 DEF HandleWorkMessage

-----------------------------------------------------------------------------
LEMMA NextInv == Inv /\ [Next]_vars => Inv'
  <1> SUFFICES ASSUME Inv, [Next]_vars PROVE Inv'
    OBVIOUS
  <1>1. CASE UNCHANGED vars
    BY <1>1 DEF vars, queueVars, Inv, TypeOK, QueueTypeOK, UploadInv, CleanupInv,
       HandlerInv, Placed, Job, ServedContentIsComplete, RejectedNeverServed
  <1>2. CASE \E v \in Versions : Stage(v) \/ Refer(v) \/ Remove(v)
    BY <1>2, VersionInv
  <1>3. CASE \E c \in Consumers : HandleWorkMessage(c)
    BY <1>3, HandleInv
  <1>4. CASE \/ Tick
             \/ \E c \in Consumers : HeartbeatMessage(c) \/ DeleteMessage(c) \/ Die(c)
             \/ \E c \in Consumers, m \in Messages : ReceiveMessage(c, m)
    BY <1>4, ConsumerInv
  <1>5. CASE \E m \in Messages : Dispatch(m) \/ DuplicateDispatch(m) \/ RedriveMessage(m)
    BY <1>5, MessageInv
  <1> QED
    BY <1>1, <1>2, <1>3, <1>4, <1>5 DEF Next, Consume

LEMMA Invariance == Spec => []Inv
  BY InitInv, NextInv, PTL DEF Spec

\* Types of the packages, their storage, the handlers and the queue.
THEOREM TypeCorrect == Spec => []TypeOK
  BY Invariance, PTL DEF Inv

\* A registered version always has its archive: nothing but its own removal deletes
\* the quarantine object under a row, a failed upload's cleanup included.
THEOREM RowsKeepArchives == Spec => []RowHasArchive
  <1>1. Inv => RowHasArchive
    BY DEF Inv, UploadInv, RowHasArchive
  <1> QED
    BY <1>1, Invariance, PTL

\* A ready version and one that a course refers to have all their content, whatever
\* duplicate, late and dying ingestions and deletions do.
THEOREM ServedComplete == Spec => []ServedContentIsComplete
  BY Invariance, PTL DEF Inv

\* An archive that fails validation is never ready and never in a course.
THEOREM RejectedStaysOut == Spec => []RejectedNeverServed
  BY Invariance, PTL DEF Inv
=============================================================================
