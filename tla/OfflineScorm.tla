----------------------------- MODULE OfflineScorm -----------------------------
(***************************************************************************)
(* One SCORM attempt that is written either by the online player or, under *)
(* an offline entitlement, by the installed application on a device        *)
(* (src/server/scorm, src/features/scorm and src/offline-scorm).           *)
(*                                                                         *)
(* The server: every handler is one transaction that locks the owner, the  *)
(* entitlement and the attempt in this order, except that an activation    *)
(* registers the installation and issues the entitlement in two.           *)
(*                                                                         *)
(* The device: a page that runs one operation at a time (install, launch,  *)
(* sync, remove) over three durable stores: the course index of the        *)
(* application, the trusted store with its journal, and the spool of the   *)
(* package site.  Every transaction on a store is a step, and the page may *)
(* be killed between any two.                                              *)
(*                                                                         *)
(* The network: the page waits for the answer of at most one request; a    *)
(* request or its answer may be lost, and a request whose page has gone    *)
(* may still reach the server later.                                       *)
(*                                                                         *)
(* A snapshot of the progress is its completion and its total time, which  *)
(* stands for every field a checkpoint may change or leave as it was.  The *)
(* content of a commit is fixed once it is reserved; commits[e] keeps it   *)
(* for the requests that carry it.                                         *)
(***************************************************************************)
EXTENDS Naturals, Sequences, FiniteSets, SequencesExt

CONSTANTS
    MaxEnts,         \* bound: entitlements, and installations
    MaxCommits,      \* bound: checkpoints
    MaxLaunches,     \* bound: offline launches
    MaxTime,         \* bound: total time
    MaxOnline,       \* bound: revision up to which the online player is launched
    MaxFaults,       \* bound: crashes and lost answers
    BatchLimit       \* commits in one batch

Ents == 1..MaxEnts
Gens == 0..(2 * MaxEnts)
NoToken == 2 * MaxEnts + 1
Snapshots == [done : BOOLEAN, time : 0..MaxTime]

ASSUME OfflineAssumption ==
    /\ MaxEnts \in Nat /\ MaxCommits \in Nat /\ MaxLaunches \in Nat
    /\ MaxTime \in Nat /\ MaxOnline \in Nat /\ MaxFaults \in Nat
    /\ BatchLimit \in Nat \ {0}

VARIABLES
    \* the server
    att,         \* scorm_attempt: writer, generation, revision and progress
    token,       \* generation of the outstanding launch token, if any
    sess,        \* generations with a session that is not revoked
    ent,         \* offline_learning_entitlement and its cleanup inventory
    receipts,    \* receipts[e]: the reconciliation receipts, by sequence
    inst,        \* inst[i]: status of installation i
    clock,       \* "open", "ended": no launches, "late": no commits
    \* the network
    req, ans,    \* requests on their way, and the answer the page waits for
    \* the device
    idx,         \* course index record: state and entitlement
    key,         \* the installation whose key the device holds, or 0
    loc,         \* trusted attempt: entitlement, or 0, and current snapshot
    commits,     \* commits[e]: contents of the journal of e
    journal,     \* status and receipt of each commit of the journal
    pkg,         \* status of the package record
    spool,       \* spool of the package site: entries and active launch
    \* the page
    op,          \* the active operation
    shown,       \* the record whose card is shown
    known,       \* known[e]: resolution and cleanup state of the last bootstrap
    launches, faults

server == <<att, token, sess, ent, receipts, inst>>
device == <<idx, key, loc, commits, journal, pkg, spool>>
page == <<op, shown, known>>
net == <<req, ans>>
vars == <<att, token, sess, ent, receipts, inst, clock, req, ans, idx, key,
          loc, commits, journal, pkg, spool, op, shown, known, launches, faults>>

None == [state |-> "none", ent |-> 0]
Idle == [kind |-> "none", step |-> "none", ent |-> 0, res |-> "none", base |-> 0]
Nothing == [kind |-> "none"]
NoEnt == [status |-> "none", res |-> "none", cleanup |-> "none", gen |-> 0,
          inst |-> 0, base |-> 0, cursor |-> 0,
          init |-> [done |-> FALSE, time |-> 0]]
Unknown == [e \in Ents |-> [res |-> "none", cleanup |-> "none"]]
EmptySpool == [entries |-> << >>, launch |-> 0, next |-> 1, high |-> 0]

Init ==
    /\ att = [mode |-> "online", ent |-> 0, gen |-> 0, rev |-> 0,
              started |-> FALSE, done |-> FALSE, time |-> 0]
    /\ token = NoToken /\ sess = {}
    /\ ent = [e \in Ents |-> NoEnt]
    /\ receipts = [e \in Ents |-> << >>]
    /\ inst = [i \in Ents |-> "none"]
    /\ clock = "open"
    /\ req = {} /\ ans = Nothing
    /\ idx = None /\ key = 0
    /\ loc = [ent |-> 0, snap |-> [done |-> FALSE, time |-> 0]]
    /\ commits = [e \in Ents |-> << >>]
    /\ journal = << >> /\ pkg = "none" /\ spool = EmptySpool
    /\ op = Idle /\ shown = None /\ known = Unknown
    /\ launches = 0 /\ faults = 0

-----------------------------------------------------------------------------
(* The online player.                                                      *)

\* A new token ends the earlier ones.
CreateLaunch ==
    /\ clock = "open" /\ att.mode = "online" /\ att.rev < MaxOnline
    /\ token' = att.gen
    /\ UNCHANGED <<att, sess, ent, receipts, inst, clock, net, device, page,
                   launches, faults>>

ExchangeToken ==
    /\ token \in Gens
    /\ clock = "open" /\ att.mode = "online" /\ token = att.gen
    /\ token' = NoToken
    /\ sess' = sess \cup {att.gen}
    /\ att' = IF att.started THEN att
              ELSE [att EXCEPT !.started = TRUE, !.rev = @ + 1]
    /\ UNCHANGED <<ent, receipts, inst, clock, net, device, page, launches,
                   faults>>

\* Mutant: the package may take completion back.
Never(s) == FALSE

\* Progress that does not report completion leaves a completed attempt alone.
Regresses(s) == att.done /\ ~s.done

RecordProgress(g, s) ==
    /\ g \in sess /\ clock = "open" /\ att.mode = "online" /\ g = att.gen
    /\ ~Regresses(s)
    /\ LET changed == ~att.started \/ att.done # s.done \/ att.time # s.time
       IN  /\ changed => att.rev <= MaxOnline + 1
           /\ att' = [att EXCEPT !.started = TRUE, !.done = s.done, !.time = s.time,
                                 !.rev = IF changed THEN @ + 1 ELSE @]
    /\ UNCHANGED <<token, sess, ent, receipts, inst, clock, net, device, page,
                   launches, faults>>

\* Access ends, and later the time in which offline commits are accepted.
Tick ==
    /\ clock # "late"
    /\ clock' = IF clock = "open" THEN "ended" ELSE "late"
    /\ UNCHANGED <<server, net, device, page, launches, faults>>

-----------------------------------------------------------------------------
(* The handlers of the application's requests.                             *)

\* The answer to request r reaches the page if it still waits for it.
Answer(r, a) ==
    /\ req' = req \ {r}
    /\ ans' = IF r.live THEN a ELSE ans

\* The installation is given up if no entitlement has ever used it; if so, or if
\* it is not known, the device may discard its key.
Deny(r) ==
    LET used == \E e \in Ents : ent[e].inst = r.inst
    IN  /\ inst' = IF inst[r.inst] = "active" /\ ~used
                   THEN [inst EXCEPT ![r.inst] = "revoked"] ELSE inst
        /\ Answer(r, [kind |-> "denied", discard |-> ~used])

\* An activation: the first transaction registers the installation, behind the
\* rule that a learner has one active installation.
ServeRegister(r) ==
    /\ r.kind = "activate"
    /\ \/ /\ \/ inst[r.inst] = "active"
             \/ inst[r.inst] = "none" /\ \A i \in Ents : inst[i] # "active"
          /\ inst' = [inst EXCEPT ![r.inst] = "active"]
          /\ req' = (req \ {r}) \cup {[r EXCEPT !.kind = "issue"]}
          /\ UNCHANGED ans
       \/ /\ inst[r.inst] # "active"
          /\ inst[r.inst] = "revoked" \/ \E i \in Ents : inst[i] = "active"
          /\ Deny(r)
    /\ UNCHANGED <<att, token, sess, ent, receipts>>

\* Mutant: the attempt changes hands under the same generation.
DelegatedInPlace(a, e) == [a EXCEPT !.mode = "offline", !.ent = e]

\* The attempt in the hands of entitlement e.
Delegated(a, e) == [a EXCEPT !.mode = "offline", !.ent = e, !.gen = @ + 1]

Recoverable(i) == att.mode = "offline" /\ ent[att.ent].inst = i

\* The second: an entitlement that this installation already holds is answered
\* again; otherwise the attempt is handed over, and its sessions end.
ServeIssue(r) ==
    /\ r.kind = "issue"
    /\ \/ /\ inst[r.inst] = "active" /\ Recoverable(r.inst)
          /\ Answer(r, [kind |-> "issued", ent |-> att.ent])
          /\ UNCHANGED <<att, sess, ent, inst>>
       \/ /\ inst[r.inst] = "active" /\ att.mode = "online" /\ clock = "open"
          /\ \E e \in Ents :
                /\ ent[e].status = "none" /\ \A f \in 1..(e - 1) : ent[f].status # "none"
                /\ ent' = [ent EXCEPT ![e] =
                      [NoEnt EXCEPT !.status = "active", !.cleanup = "pending",
                          !.gen = att.gen + 1, !.inst = r.inst, !.base = att.rev,
                          !.cursor = att.rev,
                          !.init = [done |-> att.done, time |-> att.time]]]
                /\ att' = Delegated(att, e)
                /\ Answer(r, [kind |-> "issued", ent |-> e])
          /\ sess' = {}
          /\ UNCHANGED inst
       \/ /\ inst[r.inst] # "active" \/ att.mode = "offline" \/ clock # "open"
          /\ ~(inst[r.inst] = "active" /\ Recoverable(r.inst))
          /\ Deny(r)
          /\ UNCHANGED <<att, sess, ent>>
    /\ UNCHANGED <<token, receipts>>

\* The time accepted for a launch so far.
SessionHighWater(rs, launch) ==
    LET seen == {rs[k].elapsed : k \in {j \in DOMAIN rs :
                     rs[j].outcome = "accepted" /\ rs[j].launch = launch}}
    IN  CHOOSE m \in seen \cup {0} : \A x \in seen : x <= m

\* Commit c of entitlement e, as its k-th, for the attempt a, the entitlement r and
\* the receipts rs: refused after its end or too late; a conflict unless e holds
\* the attempt and c continues its history; and without a receipt after a gap.
Verdict(a, e, r, rs, k, c) ==
    LET high == Cardinality({j \in DOMAIN rs : rs[j].outcome = "accepted"})
        holds == a.mode = "offline" /\ a.ent = e /\ a.gen = r.gen
        continues == /\ a.rev = r.cursor
                     /\ high = 0 => a.rev = r.base
                     /\ c.delta + SessionHighWater(rs, c.launch) = c.elapsed
                     /\ c.time = a.time + c.delta
    IN  IF r.status # "active" \/ clock = "late" THEN "rejected"
        ELSE IF holds /\ k > high + 1 THEN "gap"
        ELSE IF holds /\ k = high + 1 /\ continues THEN "accepted"
        ELSE "conflict"

\* Mutant: the time of the session is stored for the time of the attempt.
AppliedElapsed(a, c) == [a EXCEPT !.started = TRUE, !.done = @ \/ c.done,
                                  !.time = c.elapsed, !.rev = @ + 1]

\* The attempt after commit c; completion is not taken back.
Applied(a, c) ==
    LET done == a.done \/ c.done
        changed == ~a.started \/ a.done # done \/ a.time # c.time
    IN  [a EXCEPT !.started = TRUE, !.done = done, !.time = c.time,
                  !.rev = IF changed THEN @ + 1 ELSE @]

\* One turn of the loop over a batch.  A commit that has a receipt is answered from
\* it; a receipt that is not an acceptance, or a gap, ends the loop.
ReconcileOne(e, s, k) ==
    LET c == commits[e][k]
        v == Verdict(s.a, e, s.r, s.rs, k, c)
        after == IF v = "accepted" THEN Applied(s.a, c) ELSE s.a
    IN  IF s.stop THEN s
        ELSE IF k <= Len(s.rs)
        THEN [s EXCEPT !.out = Append(@, s.rs[k].outcome),
                       !.stop = s.rs[k].outcome # "accepted"]
        ELSE IF v = "gap" THEN [s EXCEPT !.stop = TRUE, !.gap = TRUE]
        ELSE [s EXCEPT !.a = after, !.r = [@ EXCEPT !.cursor = after.rev],
                       !.rs = Append(@, [outcome |-> v, launch |-> c.launch,
                                         elapsed |-> c.elapsed]),
                       !.out = Append(@, v), !.stop = v # "accepted"]

\* The loop over the commits of request r, from the state the transaction has read.
BatchStart(r) == [a |-> att, r |-> ent[r.ent], rs |-> receipts[r.ent], out |-> << >>,
                  stop |-> FALSE, gap |-> FALSE]

Batch(r) ==
    LET run[j \in 0..r.count] ==
            IF j = 0 THEN BatchStart(r)
            ELSE ReconcileOne(r.ent, run[j - 1], r.first + j - 1)
    IN  run[r.count]

ServeSync(r) ==
    /\ r.kind = "sync"
    /\ LET end == Batch(r)
       IN  /\ att' = end.a
           /\ ent' = [ent EXCEPT ![r.ent] = end.r]
           /\ receipts' = [receipts EXCEPT ![r.ent] = end.rs]
           /\ Answer(r, [kind |-> "receipts", first |-> r.first, out |-> end.out,
                         gap |-> end.gap])
    /\ UNCHANGED <<token, sess, inst>>

\* The attempt goes back to the online player under a new generation.  A repeated
\* request must name the resolution that was recorded.
ServeResolve(r) ==
    /\ r.kind = "resolve"
    /\ LET e == r.ent
           ends == ent[e].status = "active"
           granted == /\ ent[e].cleanup # "cleared"
                      /\ IF ends THEN att.ent = e /\ att.gen = ent[e].gen
                         ELSE ent[e].res = r.res
       IN  \/ /\ granted
              /\ att' = IF ends
                        THEN [att EXCEPT !.mode = "online", !.ent = 0, !.gen = @ + 1]
                        ELSE att
              /\ ent' = [ent EXCEPT ![e].status = "resolved", ![e].res = r.res,
                                    ![e].cleanup = "clearing"]
              /\ Answer(r, [kind |-> "cleanup"])
           \/ /\ ~granted
              /\ Answer(r, [kind |-> "refused"])
              /\ UNCHANGED <<att, ent>>
    /\ UNCHANGED <<token, sess, receipts, inst>>

\* The package site is cleared; an installation with nothing left is revoked.
ServeCleanup(r) ==
    /\ r.kind = "cleanup"
    /\ LET e == r.ent
           left == \E f \in Ents \ {e} : ent[f].inst = ent[e].inst
                                         /\ (ent[f].cleanup # "cleared" \/ ent[f].status = "active")
       IN  \/ /\ ent[e].cleanup \in {"clearing", "cleared"}
              /\ ent' = [ent EXCEPT ![e].cleanup = "cleared"]
              /\ inst' = IF left THEN inst ELSE [inst EXCEPT ![ent[e].inst] = "revoked"]
              /\ Answer(r, [kind |-> "cleared"])
           \/ /\ ent[e].cleanup = "pending"
              /\ Answer(r, [kind |-> "refused"])
              /\ UNCHANGED <<ent, inst>>
    /\ UNCHANGED <<att, token, sess, receipts>>

Serve(r) ==
    /\ \/ ServeRegister(r) \/ ServeIssue(r) \/ ServeSync(r)
       \/ ServeResolve(r) \/ ServeCleanup(r)
    /\ UNCHANGED <<clock, device, page, launches, faults>>

-----------------------------------------------------------------------------
(* The page: operations and the bootstrap.                                 *)

Step(s) == op' = [op EXCEPT !.step = s]
Ask(r) == req' = req \cup {r}
Forgotten == {[r EXCEPT !.live = FALSE] : r \in req}

\* finishOperation: the cards keep the records they were made from.
Finish == op' = Idle

\* The entitlements a bootstrap reports: those with a site that is not cleared, and
\* the one whose removal the index i remembers.
Retained(i) == {e \in Ents : /\ ent[e].status # "none"
                             /\ \/ ent[e].cleanup # "cleared"
                                \/ i.state = "removing" /\ i.ent = e}

RecoveredState(e) ==
    IF ent[e].status = "active" /\ ent[e].cleanup = "pending" THEN "blocked" ELSE "removing"

\* The index after a bootstrap: a record that does not name the entitlement is
\* replaced by one that has to be removed.
Recovered(i) ==
    IF Retained(i) = {} THEN i
    ELSE LET e == CHOOSE x \in Retained(i) : \A f \in Retained(i) : f <= x
         IN  IF i.ent = e /\ (RecoveredState(e) = "blocked" \/ i.state = "removing") THEN i
             ELSE [state |-> RecoveredState(e), ent |-> e]

\* The records of the index i are shown, after a bootstrap if there is a connection.
RefreshCourses(i) ==
    \/ /\ idx' = Recovered(i) /\ shown' = idx'
       /\ known' = [e \in Ents |-> IF e \in Retained(i)
                                   THEN [res |-> ent[e].res, cleanup |-> ent[e].cleanup]
                                   ELSE Unknown[e]]
    \/ idx' = i /\ shown' = i /\ UNCHANGED known

\* At the start, and when the page becomes visible or the connection returns.
Refresh ==
    /\ op = Idle
    /\ RefreshCourses(idx)
    /\ <<idx', shown', known'>> # <<idx, shown, known>>
    /\ UNCHANGED <<server, clock, net, key, loc, commits, journal, pkg, spool, op,
                   launches, faults>>

-----------------------------------------------------------------------------
(* Install.                                                                *)

\* The marker is written before the server is asked for the attempt.
BeginInstall ==
    /\ op = Idle /\ idx.state \in {"none", "activating", "downloading"}
    /\ idx' = IF idx.state = "downloading" THEN idx ELSE [state |-> "activating", ent |-> 0]
    /\ op' = [Idle EXCEPT !.kind = "install", !.step = "prepare"]
    /\ UNCHANGED <<key, loc, commits, journal, pkg, spool, net, shown, known>>

PrepareInstallation ==
    /\ op.step = "prepare"
    /\ LET unused == {i \in Ents : inst[i] = "none"
                          /\ \A r \in req : r.kind = "activate" => r.inst # i}
       IN  /\ key # 0 \/ unused # {}
           /\ key' = IF key # 0 THEN key ELSE CHOOSE i \in unused : \A j \in unused : i <= j
           /\ Ask([kind |-> "activate", inst |-> key', live |-> TRUE])
    /\ Step("wait")
    /\ UNCHANGED <<idx, loc, commits, journal, pkg, spool, ans, shown, known>>

TakeActivation ==
    /\ ans.kind = "issued" /\ ans' = Nothing
    /\ idx' = [state |-> "downloading", ent |-> ans.ent]
    /\ op' = [op EXCEPT !.step = "entitlement", !.ent = ans.ent]
    /\ UNCHANGED <<key, loc, commits, journal, pkg, spool, req, shown, known>>

\* A denied activation removes the marker, and the key if the server allows it.
AbandonActivation ==
    /\ ans.kind = "denied" /\ ans' = Nothing
    /\ key' = IF ans.discard THEN 0 ELSE key
    /\ RefreshCourses(None)
    /\ Finish
    /\ UNCHANGED <<loc, commits, journal, pkg, spool, req>>

PutEntitlement ==
    /\ op.step = "entitlement"
    /\ \/ /\ key = ent[op.ent].inst /\ loc.ent \in {0, op.ent}
          /\ loc' = IF loc.ent = 0 THEN [ent |-> op.ent, snap |-> ent[op.ent].init] ELSE loc
          /\ spool' = IF loc.ent = 0 THEN EmptySpool ELSE spool
          /\ Step("package")
       \/ /\ ~(key = ent[op.ent].inst /\ loc.ent \in {0, op.ent})
          /\ Finish /\ UNCHANGED <<loc, spool>>
    /\ UNCHANGED <<idx, key, commits, journal, pkg, net, shown, known>>

\* The package record cannot go back from ready to downloading.
PutPackage ==
    /\ op.step = "package"
    /\ \/ /\ pkg \in {"none", "downloading"}
          /\ pkg' = "downloading" /\ Step("download")
       \/ /\ pkg \notin {"none", "downloading"}
          /\ Finish /\ UNCHANGED pkg
    /\ UNCHANGED <<idx, key, loc, commits, journal, spool, net, shown, known>>

PackageInstalled ==
    /\ op.step = "download"
    /\ pkg' = "ready" /\ Step("installed")
    /\ UNCHANGED <<idx, key, loc, commits, journal, spool, net, shown, known>>

DownloadComplete ==
    /\ op.step = "installed"
    /\ Finish
    /\ RefreshCourses([state |-> "ready", ent |-> op.ent])
    /\ UNCHANGED <<key, loc, commits, journal, pkg, spool, net>>

Install ==
    /\ \/ BeginInstall \/ PrepareInstallation \/ TakeActivation \/ AbandonActivation
       \/ PutEntitlement \/ PutPackage \/ PackageInstalled \/ DownloadComplete
    /\ UNCHANGED <<server, clock, launches, faults>>

-----------------------------------------------------------------------------
(* Launch, sync and removal: opening the package and draining its spool.   *)

\* beginExistingOperation: decided on the record of the card.
BeginExisting(kind) ==
    /\ op = Idle /\ shown.state \in {"ready", "blocked", "removing"}
    /\ kind # "remove" => shown.state = "ready"
    /\ kind = "launch" => clock = "open" /\ launches < MaxLaunches
    /\ op' = [Idle EXCEPT !.kind = kind, !.ent = shown.ent,
              !.step = IF kind = "remove" /\ known[shown.ent].cleanup = "cleared"
                       THEN "finalize" ELSE "load"]
    /\ UNCHANGED <<device, net, shown, known, launches>>

Has(status) == \E k \in DOMAIN journal : journal[k].status = status

\* A removal that the server has resolved, or whose package is not ready, does not
\* open the package site.
LoadContext ==
    /\ op.step = "load"
    /\ LET bound == loc.ent # 0 /\ pkg # "none"
           absent == op.kind = "remove" /\ loc.ent = 0 /\ pkg = "none"
           found == known[op.ent].res
           skips == op.kind = "remove" /\ (pkg # "ready" \/ found # "none")
           res == IF found # "none" THEN found
                  ELSE IF Has("discarded") THEN "discarded" ELSE "reconciled"
       IN  \/ /\ absent /\ found # "none"
              /\ op' = [op EXCEPT !.step = "complete", !.res = found]
           \/ /\ bound /\ skips
              /\ op' = [op EXCEPT !.step = "complete", !.res = res]
           \/ /\ bound /\ ~skips /\ pkg = "ready"
              /\ op.kind # "remove" => ~Has("discarded")
              /\ Step("drain")
           \/ /\ \/ absent /\ found = "none"
                 \/ ~absent /\ ~bound
                 \/ bound /\ op.kind # "remove" /\ (pkg # "ready" \/ Has("discarded"))
              /\ Finish
    /\ UNCHANGED <<device, net, shown, known, launches>>

Draining == op.step \in {"drain", "play"} /\ spool.entries # << >>

\* The record of spool entry s in the journal, if it has one.
RecordOf(s) == {k \in DOMAIN journal : /\ commits[loc.ent][k].launch = s.launch
                                       /\ commits[loc.ent][k].ordinal = s.ordinal}

\* The entry continues the journal: the next checkpoint of its launch, which adds
\* its time to the snapshot and does not take completion back.
Importable(s) ==
    LET of == {k \in DOMAIN journal : commits[loc.ent][k].launch = s.launch}
        high == IF of = {} THEN 0
                ELSE commits[loc.ent][CHOOSE k \in of : \A j \in of : j <= k].elapsed
    IN  /\ ~Has("discarded") /\ ~Has("signing")
        /\ s.ordinal = Cardinality(of) + 1
        /\ s.elapsed >= high /\ s.delta = s.elapsed - high
        /\ s.time = loc.snap.time + s.delta
        /\ loc.snap.done => s.done

ReserveSpoolEntry ==
    /\ Draining
    /\ LET s == Head(spool.entries)
       IN  /\ RecordOf(s) = {} /\ Importable(s)
           /\ commits' = [commits EXCEPT ![loc.ent] = Append(@, s)]
           /\ journal' = Append(journal, [status |-> "signing", outcome |-> "none"])
    /\ UNCHANGED <<idx, key, loc, pkg, spool, net, op, shown, known, launches>>

\* Mutant: the current snapshot stays what it was.
SnapshotKept(c) == loc.snap

SnapshotAfter(c) == [done |-> c.done, time |-> c.time]

FinaliseJournalEntry ==
    /\ Draining
    /\ \E k \in RecordOf(Head(spool.entries)) :
          /\ journal[k].status = "signing"
          /\ journal' = [journal EXCEPT ![k].status = "pending"]
          /\ loc' = [loc EXCEPT !.snap = SnapshotAfter(commits[loc.ent][k])]
    /\ UNCHANGED <<idx, key, commits, pkg, spool, net, op, shown, known, launches>>

AcknowledgeSpoolEntry ==
    /\ Draining /\ ~Has("discarded")
    /\ \E k \in RecordOf(Head(spool.entries)) : journal[k].status # "signing"
    /\ spool' = [spool EXCEPT !.entries = Tail(@)]
    /\ UNCHANGED <<idx, key, loc, commits, journal, pkg, net, op, shown, known, launches>>

\* An entry that cannot be imported ends the operation and stays in the spool.
RefuseSpoolEntry ==
    /\ Draining
    /\ LET s == Head(spool.entries)
       IN  Has("discarded") \/ (RecordOf(s) = {} /\ ~Importable(s))
    /\ Finish
    /\ UNCHANGED <<device, net, shown, known, launches>>

\* The spool is empty: the player starts from the snapshot, with a new launch.
InitializePlayer ==
    /\ op.kind = "launch" /\ op.step = "drain" /\ spool.entries = << >>
    /\ \/ /\ clock = "open"
          /\ launches' = launches + 1
          /\ spool' = [EmptySpool EXCEPT !.launch = launches']
          /\ op' = [op EXCEPT !.step = "play", !.base = loc.snap.time]
       \/ clock # "open" /\ Finish /\ UNCHANGED <<launches, spool>>
    /\ UNCHANGED <<idx, key, loc, commits, journal, pkg, net, shown, known>>

\* The package saves a checkpoint; it decides on completion, the session time does
\* not run backwards.
Checkpoint(done, delta) ==
    /\ op.step = "play"
    /\ FoldLeft(LAMBDA n, c : n + Len(c), Len(spool.entries), commits) < MaxCommits
    /\ op.base + spool.high + delta <= MaxTime
    /\ spool' = [spool EXCEPT
          !.next = @ + 1, !.high = @ + delta,
          !.entries = Append(@, [launch |-> spool.launch, ordinal |-> spool.next,
                                 elapsed |-> spool.high + delta, delta |-> delta,
                                 done |-> done, time |-> op.base + spool.high + delta])]
    /\ UNCHANGED <<idx, key, loc, commits, journal, pkg, net, op, shown, known, launches>>

ClosePlayer ==
    /\ op.step = "play" /\ Finish
    /\ UNCHANGED <<device, net, shown, known, launches>>

Open ==
    /\ \/ \E kind \in {"launch", "sync", "remove"} : BeginExisting(kind)
       \/ LoadContext \/ ReserveSpoolEntry \/ FinaliseJournalEntry
       \/ AcknowledgeSpoolEntry \/ RefuseSpoolEntry \/ InitializePlayer \/ ClosePlayer
       \/ \E done \in BOOLEAN, delta \in {0, 1} : Checkpoint(done, delta)
    /\ UNCHANGED <<server, clock, faults>>

-----------------------------------------------------------------------------
(* Synchronisation.                                                        *)

Sending == \/ op.step = "send"
           \/ op.step = "drain" /\ op.kind # "launch" /\ spool.entries = << >>

Terminal == {k \in DOMAIN journal : journal[k].outcome \in {"rejected", "conflict"}}
Pending == {k \in DOMAIN journal : journal[k].status = "pending"}

SendBatch ==
    /\ Sending /\ Terminal = {} /\ Pending # {}
    /\ LET first == CHOOSE k \in Pending : \A j \in Pending : k <= j
           n == Cardinality(Pending)
       IN  Ask([kind |-> "sync", ent |-> loc.ent, first |-> first, live |-> TRUE,
                count |-> IF n < BatchLimit THEN n ELSE BatchLimit])
    /\ Step("wait")
    /\ UNCHANGED <<device, ans, shown, known>>

\* Mutant: every receipt counts as an acceptance.
AlwaysAccepted(outcome) == [status |-> "acknowledged", outcome |-> "accepted"]

Acknowledged(outcome) == [status |-> "acknowledged", outcome |-> outcome]

\* One receipt is stored and its commit acknowledged; after the last one the next
\* batch is sent.  A gap ends the operation.
AcceptReceipt ==
    /\ ans.kind = "receipts"
    /\ \/ /\ ans.out # << >>
          /\ journal' = [journal EXCEPT ![ans.first] = Acknowledged(Head(ans.out))]
          /\ ans' = [ans EXCEPT !.first = @ + 1, !.out = Tail(@)]
          /\ UNCHANGED op
       \/ /\ ans.out = << >> /\ ans' = Nothing
          /\ IF ans.gap THEN Finish ELSE Step("send")
          /\ UNCHANGED journal
    /\ UNCHANGED <<idx, key, loc, commits, pkg, spool, req, shown, known>>

\* A terminal receipt blocks the download; a removal asks the learner to confirm.
SyncBlocked ==
    /\ Sending /\ Terminal # {}
    /\ idx' = [state |-> "blocked", ent |-> op.ent]
    /\ IF op.kind = "remove" THEN Step("confirm") ELSE Finish
    /\ UNCHANGED <<key, loc, commits, journal, pkg, spool, net, shown, known>>

DeclineDiscard ==
    /\ op.step = "confirm" /\ Finish
    /\ UNCHANGED <<device, net, shown, known>>

ConfirmDiscard ==
    /\ op.step = "confirm"
    /\ journal' = [k \in DOMAIN journal |->
          IF \E t \in Terminal : t <= k THEN [journal[k] EXCEPT !.status = "discarded"]
          ELSE journal[k]]
    /\ op' = [op EXCEPT !.step = "complete", !.res = "discarded"]
    /\ UNCHANGED <<idx, key, loc, commits, pkg, spool, net, shown, known>>

SyncComplete ==
    /\ Sending /\ Terminal = {} /\ Pending = {}
    /\ IF op.kind = "remove"
       THEN op' = [op EXCEPT !.step = "complete", !.res = "reconciled"] ELSE Finish
    /\ UNCHANGED <<device, net, shown, known>>

Sync ==
    /\ \/ SendBatch \/ AcceptReceipt \/ SyncBlocked \/ DeclineDiscard
       \/ ConfirmDiscard \/ SyncComplete
    /\ UNCHANGED <<server, clock, launches, faults>>

-----------------------------------------------------------------------------
(* Removal.                                                                *)

AskResolution ==
    /\ op.step = "complete"
    /\ idx' = [state |-> "removing", ent |-> op.ent]
    /\ Ask([kind |-> "resolve", ent |-> op.ent, res |-> op.res, live |-> TRUE])
    /\ Step("wait")
    /\ UNCHANGED <<key, loc, commits, journal, pkg, spool, ans, shown, known>>

BeginCleanup ==
    /\ ans.kind = "cleanup" /\ ans' = Nothing
    /\ LET agrees == loc.ent \in {0, op.ent}
       IN  /\ pkg' = IF ~agrees \/ pkg \in {"none", "cleared"} THEN pkg ELSE "cleanup_pending"
           /\ IF agrees THEN Step("wipe") ELSE Finish
    /\ UNCHANGED <<idx, key, loc, commits, journal, spool, req, shown, known>>

\* The browser wipes the package site, and the spool with it.
WipeSite ==
    /\ op.step = "wipe"
    /\ pkg' = IF pkg = "none" THEN pkg ELSE "cleared"
    /\ spool' = IF pkg = "cleared" THEN spool ELSE EmptySpool
    /\ Ask([kind |-> "cleanup", ent |-> op.ent, live |-> TRUE])
    /\ Step("wait")
    /\ UNCHANGED <<idx, key, loc, commits, journal, ans, shown, known>>

\* The cleanup is confirmed by the answer, or was so at the last bootstrap.
CleanupConfirmed ==
    \/ ans.kind = "cleared" /\ ans' = Nothing
    \/ op.step = "finalize" /\ UNCHANGED ans

\* Every commit is acknowledged and accepted, or was discarded with the learner's
\* consent behind the last accepted one.
ReadyForCleanup ==
    /\ ~Has("signing") /\ ~Has("pending")
    /\ Has("discarded") \/ Terminal = {}

ClearAttempt ==
    /\ CleanupConfirmed
    /\ LET absent == loc.ent = 0 /\ pkg = "none"
           ready == loc.ent = op.ent /\ pkg = "cleared" /\ ReadyForCleanup
       IN  \/ /\ absent /\ Step("unindex")
              /\ UNCHANGED <<key, loc, journal, pkg>>
           \/ /\ ready /\ Step("unindex")
              /\ loc' = [ent |-> 0, snap |-> [done |-> FALSE, time |-> 0]]
              /\ journal' = << >> /\ pkg' = "none" /\ key' = 0
           \/ /\ ~absent /\ ~ready /\ Finish
              /\ UNCHANGED <<key, loc, journal, pkg>>
    /\ UNCHANGED <<idx, commits, spool, req, shown, known>>

DeleteIndexRecord ==
    /\ op.step = "unindex" /\ Finish
    /\ RefreshCourses(None)
    /\ UNCHANGED <<key, loc, commits, journal, pkg, spool, net>>

RefusedByServer ==
    /\ ans.kind = "refused" /\ ans' = Nothing /\ Finish
    /\ UNCHANGED <<device, req, shown, known>>

Removal ==
    /\ \/ AskResolution \/ BeginCleanup \/ WipeSite \/ ClearAttempt
       \/ DeleteIndexRecord \/ RefusedByServer
    /\ UNCHANGED <<server, clock, launches, faults>>

-----------------------------------------------------------------------------
(* Faults.                                                                 *)

\* The answer, or the download, does not arrive: the operation fails.
LoseAnswer ==
    /\ op.step \in {"wait", "download", "wipe"} /\ faults < MaxFaults
    /\ Finish /\ req' = Forgotten /\ ans' = Nothing
    /\ faults' = faults + 1
    /\ UNCHANGED <<server, clock, device, shown, known, launches>>

\* The page is killed.
Crash ==
    /\ op # Idle /\ faults < MaxFaults
    /\ Finish /\ shown' = None /\ known' = Unknown
    /\ req' = Forgotten /\ ans' = Nothing
    /\ faults' = faults + 1
    /\ UNCHANGED <<server, clock, device, launches>>

Online ==
    \/ CreateLaunch \/ ExchangeToken
    \/ \E g \in Gens, s \in Snapshots : s.time >= att.time /\ RecordProgress(g, s)

Next ==
    \/ Online \/ Tick \/ \E r \in req : Serve(r)
    \/ Refresh \/ Install \/ Open \/ Sync \/ Removal
    \/ LoseAnswer \/ Crash

Spec == Init /\ [][Next]_vars

\* Requests arrive unless they are lost, the page runs its operation on, and the
\* learner keeps on using the buttons the cards offer.
FairSpec ==
    /\ Spec
    /\ WF_vars(\E r \in req : Serve(r)) /\ WF_vars(Refresh) /\ WF_vars(Install)
    /\ WF_vars(Open) /\ WF_vars(Sync) /\ WF_vars(Removal)

-----------------------------------------------------------------------------
(* Properties.                                                             *)

Outcomes == {"accepted", "rejected", "conflict"}

TypeOK ==
    /\ att \in [mode : {"online", "offline"}, ent : 0..MaxEnts, gen : Gens, rev : Nat,
                started : BOOLEAN, done : BOOLEAN, time : 0..MaxTime]
    /\ token \in Gens \cup {NoToken} /\ sess \subseteq Gens
    /\ ent \in [Ents -> [status : {"none", "active", "resolved"},
                         res : {"none", "reconciled", "discarded"},
                         cleanup : {"none", "pending", "clearing", "cleared"},
                         gen : Gens, inst : 0..MaxEnts, base : Nat, cursor : Nat,
                         init : Snapshots]]
    /\ inst \in [Ents -> {"none", "active", "revoked"}]
    /\ clock \in {"open", "ended", "late"}
    /\ \A e \in Ents : \A k \in DOMAIN receipts[e] : receipts[e][k].outcome \in Outcomes
    /\ idx.state \in {"none", "activating", "downloading", "ready", "blocked", "removing"}
    /\ key \in 0..MaxEnts /\ loc \in [ent : 0..MaxEnts, snap : Snapshots]
    /\ \A k \in DOMAIN journal :
          journal[k] \in [status : {"signing", "pending", "acknowledged", "discarded"},
                          outcome : Outcomes \cup {"none"}]
    /\ pkg \in {"none", "downloading", "ready", "cleanup_pending", "cleared"}

\* The commits of e that the server has accepted.
Accepted(e) == {k \in DOMAIN receipts[e] : receipts[e][k].outcome = "accepted"}

\* What the delegation promises: one writer at a time, and the evidence of a device
\* applied in its order, once and without gaps, whatever is lost or repeated.
Writer == INSTANCE AttemptWriter WITH
    Entitlements <- Ents,
    writer <- att.ent,
    epoch <- att.gen,
    snap <- [done |-> att.done, time |-> att.time],
    evidence <- [e \in Ents |-> [k \in DOMAIN commits[e] |->
                    [done |-> commits[e][k].done, time |-> commits[e][k].time]]],
    taken <- [e \in Ents |-> Cardinality(Accepted(e))]

\* OfflineScorm implements AttemptWriter.
WriterSpec == Writer!Spec

\* The progress under entitlement e with its first k commits.
ProgressAt(e, k) == IF k = 0 THEN ent[e].init
                    ELSE [done |-> commits[e][k].done, time |-> commits[e][k].time]

\* While a device holds the attempt, the total time on the server is what it was
\* handed over with plus the time of each accepted commit, counted once: it is the
\* total of the last accepted commit, and each of them adds its time to the one
\* before.
TimeExact ==
    \A e \in Ents : ent[e].status = "active" =>
        LET n == Cardinality(Accepted(e))
        IN  /\ att.time = ProgressAt(e, n).time
            /\ \A k \in 1..n : ProgressAt(e, k).time
                                 = ProgressAt(e, k - 1).time + commits[e][k].delta

\* A device that holds the attempt and has a receipt for everything it recorded shows
\* the learner the progress the server has.
SyncedMeansEqual ==
    /\ loc.ent # 0 /\ ent[loc.ent].status = "active" /\ Terminal = {}
    /\ \A k \in DOMAIN journal : journal[k].status = "acknowledged"
    => loc.snap = [done |-> att.done, time |-> att.time]

\* A commit that the device counts as accepted has been applied by the server, and a
\* learner is asked to discard progress only if the server has refused it.
ReceiptsAgree ==
    \A k \in DOMAIN journal : journal[k].outcome # "none" =>
        /\ k \in DOMAIN receipts[loc.ent]
        /\ journal[k].outcome = receipts[loc.ent][k].outcome

\* An attempt handed over to a device ends up downloaded there, or is given back: no
\* lost answer, failed download or killed page leaves it with a device that can do
\* neither (issueOfflineScormEntitlement, application-offline.ts).
ActivationCompletes ==
    \A e \in Ents :
        ent[e].status = "active" ~> \/ ent[e].status = "resolved"
                                   \/ /\ loc.ent = e /\ pkg = "ready"
                                      /\ idx = [state |-> "ready", ent |-> e]

\* Completion is never taken back, online, offline or at a change of the writer.
CompletionSticks == [][att.done => att'.done]_att
=============================================================================
